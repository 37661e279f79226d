-------------------------- MODULE Libraries_proofs --------------------------
(***************************************************************************)
(* Proofs about parts of the libraries, each for every value of its        *)
(* constants: the File objects of FS, the times of a task, the parser of   *)
(* TinyGPS++, the client of ESPAsyncTCP and the registers of the radio.  A *)
(* section has the inductive invariant of its part, a lemma per action,    *)
(* and the theorem at its end.                                             *)
(***************************************************************************)
EXTENDS LibrariesKept, LoRaRegisters, FiniteSetTheorems, SequenceTheorems, WellFoundedInduction, TLAPS

-----------------------------------------------------------------------------
(* Files.                                                                  *)

\* What a path may hold, and what a File variable may.
Entry == {e \in [kind : {"none", "dir", "file"}, size : Nat] : e.kind # "file" => e.size = 0}
OpenedFile ==
  [p : {TRUE}, path : FilePaths, mode : {"r", "w", "a"}, f : BOOLEAN, d : BOOLEAN, isDirectory : BOOLEAN,
   left : SUBSET FilePaths, statSize : Nat, written : BOOLEAN, pos : Nat, pendingEnd : Nat, misled : BOOLEAN]

\* An open File x over the tree t: a descriptor of one kind, a file that is
\* there, and a size that is right unless it will be asked again.
OpenOK(x, t) ==
  /\ x.isDirectory = x.d /\ ~(x.f /\ x.d)
  /\ x.f => t[x.path].kind = "file"
  /\ x.f /\ ~x.misled /\ ~x.written => x.pendingEnd = 0 /\ x.statSize = t[x.path].size

\* What the variables of the file system hold.
FileTypeOK ==
  /\ tree \in [FilePaths -> Entry]
  /\ file \in [FileObjects -> {ClosedFile} \cup OpenedFile]
  /\ openFiles \in Nat /\ openDirs \in Nat /\ openFiles <= MaxFiles

\* The inductive invariant.
FileInv ==
  /\ FileTypeOK
  /\ \A h \in FileObjects : file[h].p => OpenOK(file[h], tree)
  /\ DescriptorsOwned
  /\ AnswersTrue

\* One File more or less in a set changes its number by one.
LEMMA OneFile ==
  ASSUME NEW S \in SUBSET FileObjects, NEW T \in SUBSET FileObjects, NEW h \in FileObjects,
         \A g \in FileObjects : g # h => (g \in S <=> g \in T)
  PROVE  /\ Cardinality(S) \in Nat /\ Cardinality(T) \in Nat
         /\ (h \in S <=> h \in T) => Cardinality(T) = Cardinality(S)
         /\ h \in S /\ h \notin T => Cardinality(T) = Cardinality(S) - 1
         /\ h \notin S /\ h \in T => Cardinality(T) = Cardinality(S) + 1
<1>1. IsFiniteSet(S) /\ IsFiniteSet(T)
  BY FS_Subset, FileAssumption
<1>2. Cardinality(S) \in Nat /\ Cardinality(T) \in Nat
  BY <1>1, FS_CardinalityType
<1>3. (h \in S <=> h \in T) => S = T
  OBVIOUS
<1>4. ASSUME h \in S, h \notin T PROVE Cardinality(T) = Cardinality(S) - 1
  <2>1. T = S \ {h}
    BY <1>4
  <2> QED BY <1>1, <1>4, <2>1, FS_RemoveElement
<1>5. ASSUME h \notin S, h \in T PROVE Cardinality(T) = Cardinality(S) + 1
  <2>1. T = S \cup {h}
    BY <1>5
  <2> QED BY <1>1, <1>5, <2>1, FS_AddElement
<1> QED BY <1>2, <1>3, <1>4, <1>5

\* The descriptors that a File variable holds.
Fd(x) == IF x.p /\ x.f THEN 1 ELSE 0
Dd(x) == IF x.p /\ x.d THEN 1 ELSE 0

\* One File changes, and the descriptors in use with it.
LEMMA Descriptors ==
  ASSUME NEW h \in FileObjects, NEW x, DescriptorsOwned,
         file'[h] = x,
         \A g \in FileObjects : g # h => /\ file'[g].p = file[g].p
                                         /\ file[g].p => file'[g].f = file[g].f /\ file'[g].d = file[g].d,
         openFiles' = openFiles - Fd(file[h]) + Fd(x),
         openDirs' = openDirs - Dd(file[h]) + Dd(x)
  PROVE  DescriptorsOwned' /\ openFiles' \in Nat /\ openDirs' \in Nat
<1> DEFINE S == {g \in FileObjects : file[g].p /\ file[g].f}
           T == {g \in FileObjects : file'[g].p /\ file'[g].f}
           SD == {g \in FileObjects : file[g].p /\ file[g].d}
           TD == {g \in FileObjects : file'[g].p /\ file'[g].d}
<1>1. S \in SUBSET FileObjects /\ T \in SUBSET FileObjects /\ SD \in SUBSET FileObjects /\ TD \in SUBSET FileObjects
  OBVIOUS
<1>2. \A g \in FileObjects : g # h => (g \in S <=> g \in T) /\ (g \in SD <=> g \in TD)
  OBVIOUS
<1>3. openFiles = Cardinality(S) /\ openDirs = Cardinality(SD)
  BY DEF DescriptorsOwned
<1>4. /\ Fd(file[h]) = IF h \in S THEN 1 ELSE 0
      /\ Dd(file[h]) = IF h \in SD THEN 1 ELSE 0
  BY DEF Fd, Dd
<1>5. /\ Fd(x) = IF h \in T THEN 1 ELSE 0
      /\ Dd(x) = IF h \in TD THEN 1 ELSE 0
  BY DEF Fd, Dd
<1> HIDE DEF S, T, SD, TD
<1>6. Cardinality(T) = Cardinality(S) - Fd(file[h]) + Fd(x) /\ Cardinality(T) \in Nat
  <2>1. /\ Cardinality(S) \in Nat /\ Cardinality(T) \in Nat
        /\ (h \in S <=> h \in T) => Cardinality(T) = Cardinality(S)
        /\ h \in S /\ h \notin T => Cardinality(T) = Cardinality(S) - 1
        /\ h \notin S /\ h \in T => Cardinality(T) = Cardinality(S) + 1
    BY <1>1, <1>2, OneFile
  <2> QED BY <1>4, <1>5, <2>1
<1>7. Cardinality(TD) = Cardinality(SD) - Dd(file[h]) + Dd(x) /\ Cardinality(TD) \in Nat
  <2>1. /\ Cardinality(SD) \in Nat /\ Cardinality(TD) \in Nat
        /\ (h \in SD <=> h \in TD) => Cardinality(TD) = Cardinality(SD)
        /\ h \in SD /\ h \notin TD => Cardinality(TD) = Cardinality(SD) - 1
        /\ h \notin SD /\ h \in TD => Cardinality(TD) = Cardinality(SD) + 1
    BY <1>1, <1>2, OneFile
  <2> QED BY <1>4, <1>5, <2>1
<1>8. openFiles' = Cardinality(T) /\ openDirs' = Cardinality(TD)
  BY <1>3, <1>6, <1>7
<1>9. openFiles' = Cardinality({g \in FileObjects : file'[g].p /\ file'[g].f})
      /\ openDirs' = Cardinality({g \in FileObjects : file'[g].p /\ file'[g].d})
  BY <1>8 DEF T, TD
<1> QED BY <1>6, <1>7, <1>8, <1>9 DEF DescriptorsOwned

\* An open File that another has made doubt its size.
LEMMA NotMisled ==
  ASSUME NEW x \in OpenedFile, NEW y, y = [x EXCEPT !.misled = TRUE]
  PROVE  /\ y \in OpenedFile /\ y.p = x.p /\ y.f = x.f /\ y.d = x.d /\ y.isDirectory = x.isDirectory
         /\ y.path = x.path /\ y.misled
BY DEF OpenedFile

\* A File variable that is open.
LEMMA FileTyped ==
  ASSUME FileInv, NEW g \in FileObjects
  PROVE  /\ file[g] \in {ClosedFile} \cup OpenedFile
         /\ file[g].p => file[g] \in OpenedFile /\ file[g].path \in FilePaths /\ OpenOK(file[g], tree)
<1>1. file[g] \in {ClosedFile} \cup OpenedFile
  BY DEF FileInv, FileTypeOK
<1>2. ~ClosedFile.p
  BY DEF ClosedFile
<1>3. file[g].p => file[g] \in OpenedFile
  BY <1>1, <1>2
<1>4. file[g].p => file[g].path \in FilePaths
  BY <1>3 DEF OpenedFile
<1> QED BY <1>1, <1>3, <1>4 DEF FileInv

\* One File variable changes, and the tree with it.
LEMMA FileChanges ==
  ASSUME FileInv, NEW h \in FileObjects, NEW x \in {ClosedFile} \cup OpenedFile,
         tree' \in [FilePaths -> Entry],
         \A q \in FilePaths : tree[q].kind = "file" => tree'[q].kind = "file",
         file' \in [FileObjects -> {ClosedFile} \cup OpenedFile],
         file'[h] = x, x.p => OpenOK(x, tree'),
         \A g \in FileObjects : g # h =>
            \/ file'[g] = file[g] /\ (file[g].p => tree'[file[g].path] = tree[file[g].path])
            \/ file[g].p /\ file'[g] = [file[g] EXCEPT !.misled = TRUE],
         openFiles' = openFiles - Fd(file[h]) + Fd(x),
         openDirs' = openDirs - Dd(file[h]) + Dd(x),
         openFiles' <= MaxFiles,
         told' = NoAnswer
  PROVE  FileInv'
<1>1. \A g \in FileObjects : /\ file[g] \in {ClosedFile} \cup OpenedFile
                               /\ (file[g].p => file[g] \in OpenedFile /\ file[g].path \in FilePaths)
  BY FileTyped
<1>2. \A g \in FileObjects : g # h => /\ file'[g].p = file[g].p
                                      /\ file[g].p => file'[g].f = file[g].f /\ file'[g].d = file[g].d
  BY <1>1, NotMisled
<1>3. DescriptorsOwned' /\ openFiles' \in Nat /\ openDirs' \in Nat
  BY <1>2, Descriptors DEF FileInv
<1>4. FileTypeOK'
  BY <1>3 DEF FileTypeOK
<1>5. ASSUME NEW g \in FileObjects, file'[g].p PROVE OpenOK(file'[g], tree')
  <2>1. CASE g = h
    BY <1>5, <2>1
  <2>2. CASE g # h /\ file'[g] = file[g] /\ (file[g].p => tree'[file[g].path] = tree[file[g].path])
    <3>1. OpenOK(file[g], tree)
      BY <1>5, <2>2 DEF FileInv
    <3> QED BY <1>5, <2>2, <3>1 DEF OpenOK
  <2>3. CASE g # h /\ file[g].p /\ file'[g] = [file[g] EXCEPT !.misled = TRUE]
    <3>1. OpenOK(file[g], tree) /\ file[g] \in OpenedFile /\ file[g].path \in FilePaths
      BY <1>1, <2>3 DEF FileInv
    <3>2. /\ file'[g].p = file[g].p /\ file'[g].f = file[g].f /\ file'[g].d = file[g].d
          /\ file'[g].isDirectory = file[g].isDirectory
          /\ file'[g].path = file[g].path /\ file'[g].misled
      BY <2>3, <3>1, NotMisled
    <3> QED BY <3>1, <3>2 DEF OpenOK
  <2> QED BY <2>1, <2>2, <2>3
<1>6. AnswersTrue'
  BY DEF AnswersTrue, NoAnswer
<1> QED BY <1>3, <1>4, <1>5, <1>6 DEF FileInv

\* What a File gives back is what it holds.
LEMMA FileCloses ==
  ASSUME NEW x \in OpenedFile, NEW t, OpenOK(x, t)
  PROVE  FilesClosed(x) = Fd(x) /\ DirsClosed(x) = Dd(x)
<1>1. x.p /\ x.f \in BOOLEAN /\ x.d \in BOOLEAN /\ x.isDirectory \in BOOLEAN
  BY DEF OpenedFile
<1>2. x.isDirectory = x.d /\ ~(x.f /\ x.d)
  BY DEF OpenOK
<1> QED BY <1>1, <1>2 DEF FilesClosed, DirsClosed, Fd, Dd

\* What open() makes of a path, and of the tree.
LEMMA FileOpened ==
  ASSUME FileInv, NEW path \in FilePaths, NEW mode \in {"r", "w", "a"},
         NEW impl, impl = NewImpl(path, mode)
  PROVE  /\ impl \in OpenedFile /\ impl.p /\ impl.path = path
         /\ TreeOpened(impl) \in [FilePaths -> Entry]
         /\ \A q \in FilePaths : tree[q].kind = "file" => TreeOpened(impl)[q].kind = "file"
         /\ \A q \in FilePaths : q # path => TreeOpened(impl)[q] = tree[q]
         /\ mode = "r" => TreeOpened(impl) = tree
         /\ OpenOK(impl, TreeOpened(impl))
         /\ openFiles + Fd(impl) <= MaxFiles
<1> DEFINE dir == Present(path) /\ IsDir(path)
           f == ~dir /\ FopenWorks(path, mode)
<1>1. tree \in [FilePaths -> Entry] /\ openFiles \in Nat /\ openFiles <= MaxFiles /\ MaxFiles \in Nat
  BY FileAssumption DEF FileInv, FileTypeOK
<1>2. tree[path].kind \in {"none", "dir", "file"} /\ tree[path].size \in Nat /\ (tree[path].kind # "file" => tree[path].size = 0)
  BY <1>1 DEF Entry
<1>3. path # "/"
  BY FileAssumption
<1>4. dir <=> tree[path].kind = "dir"
  BY <1>3 DEF IsDir, Present
<1>5. dir \in BOOLEAN /\ f \in BOOLEAN /\ Entries(path) \in SUBSET FilePaths
  BY DEF Entries
<1>6. f => openFiles < MaxFiles /\ (tree[path].kind = "file" \/ (tree[path].kind = "none" /\ mode # "r"))
  BY <1>2, <1>4 DEF FopenWorks, Present
<1>7. impl = [p |-> TRUE, path |-> path, mode |-> mode, f |-> f, d |-> dir, isDirectory |-> dir,
              left |-> IF dir THEN Entries(path) ELSE {},
              statSize |-> tree[path].size, written |-> FALSE, pos |-> 0, pendingEnd |-> 0,
              misled |-> mode = "w" /\ tree[path].size # 0]
  BY DEF NewImpl
<1> HIDE DEF dir, f
<1>8. /\ impl.p /\ impl.path = path /\ impl.mode = mode /\ impl.f = f /\ impl.d = dir /\ impl.isDirectory = dir
      /\ impl.statSize = tree[path].size /\ impl.written = FALSE /\ impl.pendingEnd = 0
      /\ impl.misled = (mode = "w" /\ tree[path].size # 0)
  BY <1>7
<1>9. impl \in OpenedFile
  BY <1>2, <1>5, <1>7 DEF OpenedFile
<1>10. \A n \in Nat : FileOf(n) \in Entry /\ FileOf(n).kind = "file" /\ FileOf(n).size = n
  BY DEF FileOf, Entry
<1> DEFINE e == IF mode = "w" \/ ~Present(path) THEN FileOf(0) ELSE tree[path]
<1>11. TreeOpened(impl) = IF f THEN [tree EXCEPT ![path] = e] ELSE tree
  BY <1>8 DEF TreeOpened
<1>12. e \in Entry /\ (f => e.kind = "file") /\ (f /\ mode # "w" => e.size = tree[path].size)
       /\ (mode = "w" => e.size = 0)
  BY <1>1, <1>2, <1>6, <1>10 DEF Present
<1>13. f /\ mode = "r" => e = tree[path]
  BY <1>6 DEF Present
<1> HIDE DEF e
<1>14. /\ TreeOpened(impl) \in [FilePaths -> Entry]
       /\ \A q \in FilePaths : q # path => TreeOpened(impl)[q] = tree[q]
       /\ f => TreeOpened(impl)[path] = e
       /\ ~f => TreeOpened(impl)[path] = tree[path]
       /\ mode = "r" => TreeOpened(impl) = tree
  BY <1>1, <1>11, <1>12, <1>13
<1>15. \A q \in FilePaths : tree[q].kind = "file" => TreeOpened(impl)[q].kind = "file"
  BY <1>12, <1>14
<1>16. OpenOK(impl, TreeOpened(impl))
  <2>1. impl.isDirectory = impl.d /\ ~(impl.f /\ impl.d)
    BY <1>4, <1>6, <1>8
  <2>2. impl.f => TreeOpened(impl)[impl.path].kind = "file"
    BY <1>8, <1>12, <1>14
  <2>3. impl.f /\ ~impl.misled => impl.pendingEnd = 0 /\ impl.statSize = TreeOpened(impl)[impl.path].size
    <3> SUFFICES ASSUME impl.f, ~impl.misled
                 PROVE  impl.pendingEnd = 0 /\ impl.statSize = TreeOpened(impl)[impl.path].size
      OBVIOUS
    <3>1. f /\ TreeOpened(impl)[impl.path] = e
      BY <1>8, <1>14
    <3>2. mode = "w" => tree[path].size = 0
      BY <1>8
    <3>3. e.size = tree[path].size
      BY <1>12, <3>1, <3>2
    <3> QED BY <1>8, <3>1, <3>3
  <2> QED BY <2>1, <2>2, <2>3 DEF OpenOK
<1>17. openFiles + Fd(impl) <= MaxFiles
  <2>1. CASE f
    <3>1. openFiles < MaxFiles /\ Fd(impl) = 1
      BY <1>6, <1>8, <2>1 DEF Fd
    <3> QED BY <1>1, <3>1
  <2>2. CASE ~f
    <3>1. Fd(impl) = 0
      BY <1>8, <2>2 DEF Fd
    <3> QED BY <1>1, <3>1
  <2> QED BY <2>1, <2>2
<1> QED BY <1>8, <1>9, <1>14, <1>15, <1>16, <1>17

\* Replace(h, impl) is such a change.
LEMMA FileReplaced ==
  ASSUME FileInv, NEW h \in FileObjects, NEW impl \in OpenedFile, Replace(h, impl),
         tree' \in [FilePaths -> Entry],
         \A q \in FilePaths : tree[q].kind = "file" => tree'[q].kind = "file",
         \A q \in FilePaths : q # impl.path => tree'[q] = tree[q],
         OpenOK(impl, tree'),
         openFiles' = openFiles - Fd(file[h]) + Fd(impl),
         openDirs' = openDirs - Dd(file[h]) + Dd(impl),
         openFiles' <= MaxFiles,
         told' = NoAnswer
  PROVE  FileInv'
<1>1. \A g \in FileObjects : /\ file[g] \in {ClosedFile} \cup OpenedFile
                               /\ (file[g].p => file[g] \in OpenedFile /\ file[g].path \in FilePaths)
  BY FileTyped
<1>2. impl.p
  BY DEF OpenedFile
<1>3. \A g \in FileObjects : file'[g] =
        IF g = h THEN impl
        ELSE IF file[g].p /\ file[g].path = impl.path /\ tree'[impl.path] # tree[impl.path]
             THEN [file[g] EXCEPT !.misled = TRUE] ELSE file[g]
  BY <1>2 DEF Replace
<1>4. \A g \in FileObjects : g # h =>
        \/ file'[g] = file[g] /\ (file[g].p => tree'[file[g].path] = tree[file[g].path])
        \/ file[g].p /\ file'[g] = [file[g] EXCEPT !.misled = TRUE]
  BY <1>1, <1>3
<1>5. \A g \in FileObjects : file'[g] \in {ClosedFile} \cup OpenedFile
  <2> SUFFICES ASSUME NEW g \in FileObjects PROVE file'[g] \in {ClosedFile} \cup OpenedFile
    OBVIOUS
  <2>1. CASE g = h
    BY <1>3, <2>1
  <2>2. CASE g # h /\ file'[g] = file[g]
    BY <1>1, <2>2
  <2>3. CASE g # h /\ file[g].p /\ file'[g] = [file[g] EXCEPT !.misled = TRUE]
    BY <1>1, <2>3, NotMisled
  <2> QED BY <1>4, <2>1, <2>2, <2>3
<1>6. file' \in [FileObjects -> {ClosedFile} \cup OpenedFile]
  BY <1>5 DEF Replace
<1>7. file'[h] = impl
  BY <1>3
<1> QED BY <1>4, <1>6, <1>7, FileChanges

\* The lemmas from here to MakeDirKeeps have one operation of FS.cpp each.  open(),
LEMMA OpenFileKeeps ==
  ASSUME NEW h \in FileObjects, NEW path \in FilePaths, NEW mode \in {"r", "w", "a"}, FileInv, OpenFile(h, path, mode)
  PROVE  FileInv'
<1>1. ~file[h].p /\ told' = NoAnswer
  BY DEF OpenFile, NoNames
<1>2. CASE Present(path) \/ mode # "r"
  <2> DEFINE impl == NewImpl(path, mode)
  <2>1. /\ tree' = TreeOpened(impl) /\ Replace(h, impl)
        /\ openFiles' = openFiles + FilesClosed(impl)
        /\ openDirs' = openDirs + DirsClosed(impl)
    BY <1>2 DEF OpenFile
  <2> HIDE DEF impl
  <2>2. /\ impl \in OpenedFile /\ impl.p /\ impl.path = path
        /\ TreeOpened(impl) \in [FilePaths -> Entry]
        /\ \A q \in FilePaths : tree[q].kind = "file" => TreeOpened(impl)[q].kind = "file"
        /\ \A q \in FilePaths : q # path => TreeOpened(impl)[q] = tree[q]
        /\ OpenOK(impl, TreeOpened(impl))
        /\ openFiles + Fd(impl) <= MaxFiles
    BY FileOpened DEF impl
  <2>3. FilesClosed(impl) = Fd(impl) /\ DirsClosed(impl) = Dd(impl)
    BY <2>2, FileCloses
  <2>4. Fd(file[h]) = 0 /\ Dd(file[h]) = 0 /\ openFiles \in Nat /\ openDirs \in Nat
    BY <1>1 DEF Fd, Dd, FileInv, FileTypeOK
  <2>5. openFiles' = openFiles - Fd(file[h]) + Fd(impl) /\ openDirs' = openDirs - Dd(file[h]) + Dd(impl)
    BY <2>1, <2>3, <2>4
  <2>6. openFiles' <= MaxFiles
    BY <2>1, <2>2, <2>3
  <2> QED BY <1>1, <2>1, <2>2, <2>5, <2>6, FileReplaced
<1>3. CASE ~(Present(path) \/ mode # "r")
  <2>1. UNCHANGED <<tree, file, openFiles, openDirs>>
    BY <1>3 DEF OpenFile
  <2>2. AnswersTrue'
    BY <1>1 DEF AnswersTrue, NoAnswer
  <2>3. DescriptorsOwned'
    BY <2>1 DEF FileInv, DescriptorsOwned
  <2> QED BY <2>1, <2>2, <2>3 DEF FileInv, FileTypeOK
<1> QED BY <1>2, <1>3

\* The buffer of an open File goes to the disk, or stays.
LEMMA FileFlushes ==
  ASSUME FileInv, NEW x \in OpenedFile, x.f => tree[x.path].kind = "file"
  PROVE  /\ TreeFlushed(x) \in [FilePaths -> Entry]
         /\ \A q \in FilePaths : tree[q].kind = "file" => TreeFlushed(x)[q].kind = "file"
         /\ \A q \in FilePaths : q # x.path => TreeFlushed(x)[q] = tree[q]
         /\ x.f => TreeFlushed(x)[x.path].kind = "file"
         /\ x.pendingEnd = 0 => TreeFlushed(x) = tree
         /\ DiskSize(x) \in Nat
<1>1. tree \in [FilePaths -> Entry] /\ x.path \in FilePaths /\ x.pendingEnd \in Nat
  BY DEF FileInv, FileTypeOK, OpenedFile
<1>2. tree[x.path] \in Entry /\ tree[x.path].size \in Nat
  BY <1>1 DEF Entry
<1>3. DiskSize(x) \in Nat /\ (x.pendingEnd = 0 => DiskSize(x) = tree[x.path].size)
  BY <1>1, <1>2 DEF DiskSize, Larger
<1> DEFINE e == [tree[x.path] EXCEPT !.size = DiskSize(x)]
<1>4. /\ x.f => e \in Entry /\ e.kind = "file" 
      /\ DiskSize(x) = tree[x.path].size => e = tree[x.path]
  BY <1>2, <1>3 DEF Entry
<1>5. TreeFlushed(x) = IF x.f THEN [tree EXCEPT ![x.path] = e] ELSE tree
  BY DEF TreeFlushed
<1> HIDE DEF e
<1> QED BY <1>1, <1>2, <1>3, <1>4, <1>5

\* An operation on an open File that keeps its descriptors.
LEMMA SameDescriptors ==
  ASSUME FileInv, NEW h \in FileObjects, file[h].p, NEW impl \in OpenedFile, Replace(h, impl),
         impl.path = file[h].path, impl.f = file[h].f, impl.d = file[h].d,
         tree' \in [FilePaths -> Entry],
         \A q \in FilePaths : tree[q].kind = "file" => tree'[q].kind = "file",
         \A q \in FilePaths : q # impl.path => tree'[q] = tree[q],
         OpenOK(impl, tree'),
         SameFiles, NoNames
  PROVE  FileInv'
<1>1. Fd(impl) = Fd(file[h]) /\ Dd(impl) = Dd(file[h]) /\ Fd(impl) \in Nat /\ Dd(impl) \in Nat
  BY DEF Fd, Dd, OpenedFile
<1>2. openFiles \in Nat /\ openDirs \in Nat /\ openFiles <= MaxFiles
  BY DEF FileInv, FileTypeOK
<1>3. openFiles' = openFiles - Fd(file[h]) + Fd(impl) /\ openDirs' = openDirs - Dd(file[h]) + Dd(impl)
  BY <1>1, <1>2 DEF SameFiles
<1> QED BY <1>2, <1>3, FileReplaced DEF SameFiles, NoNames

\* write(), whose bytes reach the disk at once or later,
LEMMA WriteFileKeeps ==
  ASSUME NEW h \in FileObjects, FileInv, WriteFile(h, 1)
  PROVE  FileInv'
<1> DEFINE x == file[h]
           impl == BytesWritten(x, 1)
<1>1. /\ x.p /\ x.f /\ SameFiles /\ NoNames
      /\ \/ tree' = tree /\ Replace(h, impl)
         \/ tree' = TreeFlushed(impl) /\ Replace(h, BufferFlushed(impl))
  BY DEF WriteFile
<1>2. x \in OpenedFile /\ x.path \in FilePaths /\ OpenOK(x, tree)
  BY <1>1, FileTyped
<1>3. DiskSize(x) \in Nat /\ x.pos \in Nat /\ x.pendingEnd \in Nat /\ tree[x.path].kind = "file"
  BY <1>1, <1>2, FileFlushes DEF OpenOK, OpenedFile
<1> DEFINE at == IF x.mode = "a" THEN DiskSize(x) ELSE x.pos
<1>4. at \in Nat /\ at + 1 \in Nat /\ Larger(x.pendingEnd, at + 1) \in Nat
  BY <1>3 DEF Larger
<1>5. impl = IF x.mode = "r" THEN [x EXCEPT !.written = TRUE]
             ELSE [x EXCEPT !.written = TRUE, !.pos = at + 1, !.pendingEnd = Larger(x.pendingEnd, at + 1), !.misled = FALSE]
  BY DEF BytesWritten
<1> HIDE DEF impl, at, x
<1>6. /\ impl \in OpenedFile /\ impl.path = x.path /\ impl.f = x.f /\ impl.d = x.d
      /\ impl.isDirectory = x.isDirectory /\ impl.written = TRUE /\ impl.p
  BY <1>2, <1>4, <1>5 DEF OpenedFile
<1>7. OpenOK(impl, tree)
  BY <1>2, <1>6 DEF OpenOK
<1>8. CASE tree' = tree /\ Replace(h, impl)
  <2>1. tree' \in [FilePaths -> Entry]
    BY <1>8 DEF FileInv, FileTypeOK
  <2> QED BY <1>1, <1>6, <1>7, <1>8, <2>1, SameDescriptors DEF x
<1>9. CASE tree' = TreeFlushed(impl) /\ Replace(h, BufferFlushed(impl))
  <2>1. /\ BufferFlushed(impl) \in OpenedFile /\ BufferFlushed(impl).path = x.path /\ BufferFlushed(impl).f = x.f
        /\ BufferFlushed(impl).d = x.d /\ BufferFlushed(impl).isDirectory = x.isDirectory
        /\ BufferFlushed(impl).written = TRUE
    BY <1>6 DEF BufferFlushed, OpenedFile
  <2>2. /\ tree' \in [FilePaths -> Entry]
        /\ \A q \in FilePaths : tree[q].kind = "file" => tree'[q].kind = "file"
        /\ \A q \in FilePaths : q # x.path => tree'[q] = tree[q]
        /\ tree'[x.path].kind = "file"
    BY <1>1, <1>3, <1>6, <1>9, FileFlushes DEF x
  <2>3. OpenOK(BufferFlushed(impl), tree')
    BY <1>2, <2>1, <2>2 DEF OpenOK
  <2> QED BY <1>1, <1>9, <2>1, <2>2, <2>3, SameDescriptors DEF x
<1> QED BY <1>1, <1>8, <1>9 DEF impl, x

\* The stdio buffer is written, and the position may be another one.
LEMMA BufferWritten ==
  ASSUME NEW h \in FileObjects, FileInv, file[h].p, file[h].f, NEW y,
         y = BufferFlushed(file[h]) \/ y = [BufferFlushed(file[h]) EXCEPT !.pos = 0],
         tree' = TreeFlushed(file[h]), Replace(h, y), SameFiles, NoNames
  PROVE  FileInv'
<1> DEFINE x == file[h]
<1>1. x \in OpenedFile /\ x.path \in FilePaths /\ OpenOK(x, tree)
  BY FileTyped
<1>2. /\ tree' \in [FilePaths -> Entry]
      /\ \A q \in FilePaths : tree[q].kind = "file" => tree'[q].kind = "file"
      /\ \A q \in FilePaths : q # x.path => tree'[q] = tree[q]
      /\ tree'[x.path].kind = "file"
      /\ x.pendingEnd = 0 => tree' = tree
  BY <1>1, FileFlushes DEF OpenOK
<1>3. /\ y \in OpenedFile /\ y.path = x.path /\ y.f = x.f /\ y.d = x.d /\ y.isDirectory = x.isDirectory
      /\ y.written = x.written /\ y.misled = x.misled /\ y.statSize = x.statSize /\ y.pendingEnd = 0
  <2> HIDE DEF x
  <2>1. x \in OpenedFile
    BY <1>1
  <2> DEFINE z == [x EXCEPT !.pendingEnd = 0]
  <2>2. y = z \/ y = [z EXCEPT !.pos = 0]
    BY DEF x, BufferFlushed
  <2>3. /\ z \in OpenedFile /\ z.path = x.path /\ z.f = x.f /\ z.d = x.d /\ z.isDirectory = x.isDirectory
        /\ z.written = x.written /\ z.misled = x.misled /\ z.statSize = x.statSize /\ z.pendingEnd = 0
    BY <2>1 DEF OpenedFile
  <2> HIDE DEF z
  <2> QED BY <2>2, <2>3 DEF OpenedFile
<1>4. OpenOK(y, tree')
  <2> HIDE DEF x
  <2> QED BY <1>1, <1>2, <1>3 DEF OpenOK
<1> QED BY <1>2, <1>3, <1>4, SameDescriptors

\* flush(),
LEMMA FlushFileKeeps == ASSUME NEW h \in FileObjects, FileInv, FlushFile(h) PROVE FileInv'
BY BufferWritten DEF FlushFile

\* seek(),
LEMMA SeekFileKeeps == ASSUME NEW h \in FileObjects, FileInv, SeekFile(h, 0) PROVE FileInv'
BY BufferWritten DEF SeekFile

\* A File changes and the file system does not.
LEMMA OnlyFile ==
  ASSUME NEW h \in FileObjects, FileInv, file[h].p, NEW y \in OpenedFile,
         file' = [file EXCEPT ![h] = y], y.f = file[h].f, y.d = file[h].d, OpenOK(y, tree),
         UNCHANGED tree, SameFiles, NoNames
  PROVE  FileInv'
<1>1. file \in [FileObjects -> {ClosedFile} \cup OpenedFile] /\ tree \in [FilePaths -> Entry]
      /\ openFiles \in Nat /\ openDirs \in Nat /\ openFiles <= MaxFiles
  BY DEF FileInv, FileTypeOK
<1>2. file' \in [FileObjects -> {ClosedFile} \cup OpenedFile]
  BY <1>1
<1>3. file'[h] = y /\ \A g \in FileObjects : g # h => file'[g] = file[g]
  BY <1>1
<1>4. y.p
  BY DEF OpenedFile
<1>5. Fd(y) = Fd(file[h]) /\ Dd(y) = Dd(file[h]) /\ Fd(y) \in Nat /\ Dd(y) \in Nat
  BY <1>4 DEF Fd, Dd
<1>6. openFiles' = openFiles - Fd(file[h]) + Fd(y) /\ openDirs' = openDirs - Dd(file[h]) + Dd(y)
  BY <1>1, <1>5 DEF SameFiles
<1>7. openFiles' <= MaxFiles
  BY <1>1 DEF SameFiles
<1> QED BY <1>1, <1>2, <1>3, <1>4, <1>6, <1>7, FileChanges DEF NoNames

\* read(),
LEMMA ReadFileKeeps == ASSUME NEW h \in FileObjects, FileInv, ReadFile(h, 1) PROVE FileInv'
<1> DEFINE y == [file[h] EXCEPT !.pos = file[h].pos + 1]
<1>1. file[h].p /\ file' = [file EXCEPT ![h] = y] /\ UNCHANGED tree /\ SameFiles /\ NoNames
  BY DEF ReadFile
<1>2. file[h] \in OpenedFile /\ OpenOK(file[h], tree)
  BY <1>1, FileTyped
<1>p. file[h].pos \in Nat
  BY <1>2 DEF OpenedFile
<1>q. file[h].pos + 1 \in Nat
  BY <1>p
<1>3. PICK n \in Nat : n = file[h].pos + 1
  BY <1>q
<1>4. /\ y \in OpenedFile /\ y.path = file[h].path /\ y.f = file[h].f /\ y.d = file[h].d
      /\ y.isDirectory = file[h].isDirectory /\ y.written = file[h].written /\ y.misled = file[h].misled
      /\ y.statSize = file[h].statSize /\ y.pendingEnd = file[h].pendingEnd
  BY <1>2, <1>3 DEF OpenedFile
<1> HIDE DEF y
<1>5. OpenOK(y, tree)
  BY <1>2, <1>4 DEF OpenOK
<1> QED BY <1>1, <1>4, <1>5, OnlyFile

\* size(), which asks the disk again if something was written,
LEMMA AskSizeKeeps == ASSUME NEW h \in FileObjects, FileInv, AskSize(h) PROVE FileInv'
<1> DEFINE x == file[h]
           y == AfterSize(x)
<1>1. x.p /\ file' = [file EXCEPT ![h] = y] /\ UNCHANGED tree /\ SameFiles /\ NoNames
  BY DEF AskSize
<1>2. x \in OpenedFile /\ OpenOK(x, tree) /\ x.path \in FilePaths
  BY <1>1, FileTyped
<1>3. tree[x.path].size \in Nat
  BY <1>2 DEF FileInv, FileTypeOK, Entry
<1>4. y = IF x.f /\ x.written
          THEN [x EXCEPT !.statSize = tree[x.path].size, !.written = FALSE, !.misled = x.pendingEnd # 0]
          ELSE x
  BY DEF AfterSize
<1> HIDE DEF x, y
<1>5. CASE x.f /\ x.written
  <2>1. (x.pendingEnd # 0) \in BOOLEAN
    OBVIOUS
  <2>2. PICK m \in BOOLEAN : m = (x.pendingEnd # 0)
    BY <2>1
  <2>3. /\ y \in OpenedFile /\ y.path = x.path /\ y.f = x.f /\ y.d = x.d /\ y.isDirectory = x.isDirectory
        /\ y.written = FALSE /\ y.misled = m /\ y.statSize = tree[x.path].size /\ y.pendingEnd = x.pendingEnd
    BY <1>2, <1>3, <1>4, <1>5, <2>2 DEF OpenedFile
  <2>4. OpenOK(y, tree)
    BY <1>2, <2>2, <2>3 DEF OpenOK
  <2> QED BY <1>1, <2>3, <2>4, OnlyFile DEF x
<1>6. CASE ~(x.f /\ x.written)
  <2>1. y = x
    BY <1>4, <1>6
  <2> QED BY <1>1, <1>2, <2>1, OnlyFile DEF x
<1> QED BY <1>5, <1>6

\* rewindDirectory(),
LEMMA RewindKeeps == ASSUME NEW h \in FileObjects, FileInv, RewindDirectory(h) PROVE FileInv'
<1> DEFINE y == [file[h] EXCEPT !.left = Entries(file[h].path)]
<1>1. file[h].p /\ file' = [file EXCEPT ![h] = y] /\ UNCHANGED tree /\ SameFiles /\ NoNames
  BY DEF RewindDirectory
<1>2. file[h] \in OpenedFile /\ OpenOK(file[h], tree)
  BY <1>1, FileTyped
<1>3. Entries(file[h].path) \in SUBSET FilePaths
  BY DEF Entries
<1>4. /\ y \in OpenedFile /\ y.path = file[h].path /\ y.f = file[h].f /\ y.d = file[h].d
      /\ y.isDirectory = file[h].isDirectory /\ y.written = file[h].written /\ y.misled = file[h].misled
      /\ y.statSize = file[h].statSize /\ y.pendingEnd = file[h].pendingEnd
  BY <1>2, <1>3 DEF OpenedFile
<1> HIDE DEF y
<1>5. OpenOK(y, tree)
  BY <1>2, <1>4 DEF OpenOK
<1> QED BY <1>1, <1>4, <1>5, OnlyFile

\* close(), which gives the descriptor back,
LEMMA CloseFileKeeps == ASSUME NEW h \in FileObjects, FileInv, CloseFile(h) PROVE FileInv'
<1> DEFINE x == file[h]
<1>1. /\ x.p /\ tree' = TreeFlushed(x) /\ told' = NoAnswer
      /\ file' = [g \in FileObjects |->
             IF g = h THEN ClosedFile
             ELSE IF file[g].p /\ file[g].path = x.path /\ tree' # tree
                  THEN [file[g] EXCEPT !.misled = TRUE] ELSE file[g]]
      /\ openFiles' = openFiles - FilesClosed(x)
      /\ openDirs' = openDirs - DirsClosed(x)
  BY DEF CloseFile, NoNames
<1>2. x \in OpenedFile /\ x.path \in FilePaths /\ OpenOK(x, tree)
  BY <1>1, FileTyped
<1>3. /\ tree' \in [FilePaths -> Entry]
      /\ \A q \in FilePaths : tree[q].kind = "file" => tree'[q].kind = "file"
      /\ \A q \in FilePaths : q # x.path => tree'[q] = tree[q]
  BY <1>1, <1>2, FileFlushes DEF OpenOK
<1>4. FilesClosed(x) = Fd(x) /\ DirsClosed(x) = Dd(x)
  BY <1>2, FileCloses
<1>5. Fd(ClosedFile) = 0 /\ Dd(ClosedFile) = 0 /\ ~ClosedFile.p
  BY DEF Fd, Dd, ClosedFile
<1>6. openFiles \in Nat /\ openDirs \in Nat /\ openFiles <= MaxFiles /\ Fd(x) \in {0, 1} /\ Dd(x) \in {0, 1}
      /\ MaxFiles \in Nat
  BY FileAssumption DEF FileInv, FileTypeOK, Fd, Dd
<1>7. openFiles' = openFiles - Fd(x) + Fd(ClosedFile) /\ openDirs' = openDirs - Dd(x) + Dd(ClosedFile)
      /\ openFiles' <= MaxFiles
  BY <1>1, <1>4, <1>5, <1>6
<1>8. \A g \in FileObjects : /\ file[g] \in {ClosedFile} \cup OpenedFile
                               /\ (file[g].p => file[g] \in OpenedFile /\ file[g].path \in FilePaths)
  BY FileTyped
<1>9. file'[h] = ClosedFile
  BY <1>1
<1> HIDE DEF x
<1>10. \A g \in FileObjects : g # h =>
         \/ file'[g] = file[g] /\ (file[g].p => tree'[file[g].path] = tree[file[g].path])
         \/ file[g].p /\ file'[g] = [file[g] EXCEPT !.misled = TRUE]
  BY <1>1, <1>3, <1>8
<1>11. \A g \in FileObjects : file'[g] \in {ClosedFile} \cup OpenedFile
  <2> SUFFICES ASSUME NEW g \in FileObjects PROVE file'[g] \in {ClosedFile} \cup OpenedFile
    OBVIOUS
  <2>1. CASE g = h
    BY <1>9, <2>1
  <2>2. CASE g # h /\ file'[g] = file[g]
    BY <1>8, <2>2
  <2>3. CASE g # h /\ file[g].p /\ file'[g] = [file[g] EXCEPT !.misled = TRUE]
    BY <1>8, <2>3, NotMisled
  <2> QED BY <1>10, <2>1, <2>2, <2>3
<1>12. file' \in [FileObjects -> {ClosedFile} \cup OpenedFile]
  BY <1>1, <1>11
<1> QED BY <1>1, <1>3, <1>5, <1>7, <1>9, <1>10, <1>12, FileChanges DEF x

\* openNextFile(), which opens another File,
LEMMA NextFileKeeps ==
  ASSUME NEW h \in FileObjects, NEW g \in FileObjects, FileInv, NextFile(h, g)
  PROVE  FileInv'
<1>1. file[h].p /\ ~file[g].p /\ UNCHANGED tree /\ told' = NoAnswer /\ g # h
  BY DEF NextFile, NoNames
<1>2. file[h] \in OpenedFile /\ OpenOK(file[h], tree)
  BY <1>1, FileTyped
<1>3. PICK entry \in file[h].left :
        /\ file' = [file EXCEPT ![h].left = @ \ {entry}, ![g] = NewImpl(entry, "r")]
        /\ openFiles' = openFiles + FilesClosed(NewImpl(entry, "r"))
        /\ openDirs' = openDirs + DirsClosed(NewImpl(entry, "r"))
  BY DEF NextFile
<1> DEFINE impl == NewImpl(entry, "r")
           y == [file[h] EXCEPT !.left = file[h].left \ {entry}]
<1>4. entry \in FilePaths
  BY <1>2, <1>3 DEF OpenedFile
<1>5. /\ impl \in OpenedFile /\ impl.p
      /\ TreeOpened(impl) = tree
      /\ OpenOK(impl, TreeOpened(impl))
      /\ openFiles + Fd(impl) <= MaxFiles
  BY <1>4, FileOpened
<1>6. FilesClosed(impl) = Fd(impl) /\ DirsClosed(impl) = Dd(impl) /\ OpenOK(impl, tree)
  BY <1>5, FileCloses
<1>7. file' = [[file EXCEPT ![h] = y] EXCEPT ![g] = impl]
  BY <1>3, <1>1
<1>8. openFiles' = openFiles + Fd(impl) /\ openDirs' = openDirs + Dd(impl)
  BY <1>3, <1>6
<1> HIDE DEF impl
<1>9. file[h].left \ {entry} \in SUBSET FilePaths
  BY <1>2 DEF OpenedFile
<1>10. /\ y \in OpenedFile /\ y.path = file[h].path /\ y.f = file[h].f /\ y.d = file[h].d
       /\ y.isDirectory = file[h].isDirectory /\ y.written = file[h].written /\ y.misled = file[h].misled
       /\ y.statSize = file[h].statSize /\ y.pendingEnd = file[h].pendingEnd /\ y.p
  BY <1>2, <1>9 DEF OpenedFile
<1> HIDE DEF y
<1>11. OpenOK(y, tree)
  BY <1>2, <1>10 DEF OpenOK
<1>12. file \in [FileObjects -> {ClosedFile} \cup OpenedFile] /\ tree \in [FilePaths -> Entry]
       /\ openFiles \in Nat /\ openDirs \in Nat /\ openFiles <= MaxFiles
  BY DEF FileInv, FileTypeOK
<1>13. /\ file' \in [FileObjects -> {ClosedFile} \cup OpenedFile]
       /\ file'[h] = y /\ file'[g] = impl
       /\ \A k \in FileObjects : k # h /\ k # g => file'[k] = file[k]
  BY <1>1, <1>5, <1>7, <1>10, <1>12
<1>14. Fd(file[g]) = 0 /\ Dd(file[g]) = 0
  BY <1>1 DEF Fd, Dd
<1>15. DescriptorsOwned' /\ openFiles' \in Nat /\ openDirs' \in Nat
  <2>1. \A k \in FileObjects : k # g => /\ file'[k].p = file[k].p
                                        /\ file[k].p => file'[k].f = file[k].f /\ file'[k].d = file[k].d
    BY <1>1, <1>10, <1>13, <1>2 DEF OpenedFile
  <2>2. openFiles' = openFiles - Fd(file[g]) + Fd(impl) /\ openDirs' = openDirs - Dd(file[g]) + Dd(impl)
    BY <1>8, <1>12, <1>14
  <2> QED BY <1>13, <2>1, <2>2, Descriptors DEF FileInv
<1>16. FileTypeOK'
  BY <1>1, <1>5, <1>8, <1>12, <1>13, <1>15 DEF FileTypeOK
<1>17. \A k \in FileObjects : file'[k].p => OpenOK(file'[k], tree')
  BY <1>1, <1>6, <1>11, <1>13 DEF FileInv
<1>18. AnswersTrue'
  BY <1>1 DEF AnswersTrue, NoAnswer
<1> QED BY <1>15, <1>16, <1>17, <1>18 DEF FileInv

\* An operation on names: the Files stay, and no open one loses its file.
LEMMA NamesKeep ==
  ASSUME FileInv, UNCHANGED file, SameFiles,
         tree' \in [FilePaths -> Entry],
         \A h \in FileObjects : file[h].p /\ file[h].f => tree'[file[h].path] = tree[file[h].path],
         AnswersTrue'
  PROVE  FileInv'
<1>1. FileTypeOK'
  BY DEF FileInv, FileTypeOK, SameFiles
<1>2. ASSUME NEW h \in FileObjects, file'[h].p PROVE OpenOK(file'[h], tree')
  BY <1>2 DEF FileInv, OpenOK
<1>3. DescriptorsOwned'
  BY DEF FileInv, DescriptorsOwned, SameFiles
<1> QED BY <1>1, <1>2, <1>3 DEF FileInv

\* What a File that only looks sees.
LEMMA LookingUp ==
  ASSUME FileInv, NEW path \in FilePaths
  PROVE  /\ Looks(path) \in BOOLEAN /\ LooksLikeDir(path) \in BOOLEAN
         /\ Looks(path) => Present(path)
         /\ Present(path) /\ ~Looks(path) => openFiles = MaxFiles
         /\ LooksLikeDir(path) <=> Present(path) /\ IsDir(path)
         /\ LooksLikeDir(path) => Looks(path)
<1> DEFINE dir == Present(path) /\ IsDir(path)
           f == ~dir /\ FopenWorks(path, "r")
<1>1. NewImpl(path, "r").isDirectory = dir /\ NewImpl(path, "r").d = dir /\ NewImpl(path, "r").f = f
  BY DEF NewImpl
<1>2. openFiles \in Nat /\ openFiles <= MaxFiles /\ MaxFiles \in Nat
  BY FileAssumption DEF FileInv, FileTypeOK
<1>3. f <=> ~dir /\ openFiles < MaxFiles /\ Present(path)
  BY DEF FopenWorks
<1>4. Looks(path) <=> dir \/ f
  BY <1>1 DEF Looks, IsOpen
<1>5. LooksLikeDir(path) <=> (dir \/ f) /\ dir
  BY <1>1, <1>4 DEF LooksLikeDir
<1>6. Looks(path) \in BOOLEAN /\ LooksLikeDir(path) \in BOOLEAN
  BY DEF Looks, IsOpen, LooksLikeDir
<1>7. openFiles < MaxFiles \/ openFiles = MaxFiles
  BY <1>2
<1> HIDE DEF f
<1> QED BY <1>3, <1>4, <1>5, <1>6, <1>7

\* The tree's own facts.
LEMMA TreeTyped ==
  ASSUME FileInv
  PROVE  /\ tree \in [FilePaths -> Entry] /\ Nothing \in Entry /\ Directory \in Entry
         /\ Nothing.kind = "none" /\ Directory.kind = "dir"
         /\ \A h \in FileObjects : file[h].p /\ file[h].f => file[h].path \in FilePaths /\ Present(file[h].path)
<1>1. Nothing \in Entry /\ Directory \in Entry /\ Nothing.kind = "none" /\ Directory.kind = "dir"
  BY DEF Nothing, Directory, Entry
<1>2. \A h \in FileObjects : file[h].p /\ file[h].f => file[h].path \in FilePaths /\ Present(file[h].path)
  BY FileTyped DEF OpenOK, Present
<1> QED BY <1>1, <1>2 DEF FileInv, FileTypeOK

\* exists(),
LEMMA AskExistsKeeps == ASSUME NEW path \in FilePaths, FileInv, AskExists(path) PROVE FileInv'
<1>1. /\ told' = [op |-> "exists", path |-> path, to |-> path, said |-> Looks(path)]
      /\ UNCHANGED <<file, tree>> /\ SameFiles
  BY DEF AskExists, Answers
<1>2. told'.op = "exists" /\ told'.path = path /\ told'.said = Looks(path)
  BY <1>1
<1>3. Looks(path) \in BOOLEAN /\ (Looks(path) => Present(path)) /\ (Present(path) /\ ~Looks(path) => openFiles = MaxFiles)
  BY LookingUp
<1>4. Present(path)' = Present(path) /\ openFiles' = openFiles
  BY <1>1 DEF Present, SameFiles
<1>5. AnswersTrue'
  BY <1>2, <1>3, <1>4 DEF AnswersTrue, Present
<1>6. tree' \in [FilePaths -> Entry]
  BY <1>1, TreeTyped
<1> QED BY <1>1, <1>5, <1>6, NamesKeep

\* What one of the two removals answers and does.
LEMMA RemovalKeeps ==
  ASSUME FileInv, NEW path \in FilePaths, NEW op \in {"remove", "rmdir"}, NEW removed \in BOOLEAN,
         OpenOn(path) = {}, Answers(op, path, path, removed),
         tree' = IF removed THEN [tree EXCEPT ![path] = Nothing] ELSE tree
  PROVE  FileInv'
<1>1. /\ told' = [op |-> op, path |-> path, to |-> path, said |-> removed]
      /\ UNCHANGED file /\ SameFiles
  BY DEF Answers
<1>2. told'.op = op /\ told'.path = path /\ told'.said = removed
  BY <1>1
<1>3. tree \in [FilePaths -> Entry] /\ Nothing \in Entry /\ Nothing.kind = "none"
  BY TreeTyped
<1>4. tree' \in [FilePaths -> Entry]
  BY <1>3
<1>5. removed => tree'[path].kind = "none"
  BY <1>3
<1>6. AnswersTrue'
  BY <1>2, <1>5 DEF AnswersTrue, Present
<1>7. \A h \in FileObjects : file[h].p /\ file[h].f => tree'[file[h].path] = tree[file[h].path]
  <2> SUFFICES ASSUME NEW h \in FileObjects, file[h].p, file[h].f PROVE tree'[file[h].path] = tree[file[h].path]
    OBVIOUS
  <2>1. file[h].path # path /\ file[h].path \in FilePaths
    BY TreeTyped DEF OpenOn
  <2> QED BY <1>3, <2>1
<1> QED BY <1>1, <1>4, <1>6, <1>7, NamesKeep

\* remove(),
LEMMA RemoveFileKeeps == ASSUME NEW path \in FilePaths, FileInv, RemoveFile(path) PROVE FileInv'
<1> DEFINE removed == Looks(path) /\ ~LooksLikeDir(path)
<1>1. /\ OpenOn(path) = {} /\ Answers("remove", path, path, removed)
      /\ tree' = IF removed THEN [tree EXCEPT ![path] = Nothing] ELSE tree
  BY DEF RemoveFile
<1>2. removed \in BOOLEAN
  OBVIOUS
<1> HIDE DEF removed
<1> QED BY <1>1, <1>2, RemovalKeeps

\* rmdir(),
LEMMA RemoveDirKeeps == ASSUME NEW path \in FilePaths, FileInv, RemoveDir(path) PROVE FileInv'
<1>1. PICK unlinks \in BOOLEAN :
        LET removed == LooksLikeDir(path) /\ Entries(path) = {} /\ unlinks IN
        /\ Answers("rmdir", path, path, removed)
        /\ tree' = IF removed THEN [tree EXCEPT ![path] = Nothing] ELSE tree
  BY DEF RemoveDir
<1> DEFINE removed == LooksLikeDir(path) /\ Entries(path) = {} /\ unlinks
<1>2. /\ OpenOn(path) = {} /\ Answers("rmdir", path, path, removed)
      /\ tree' = IF removed THEN [tree EXCEPT ![path] = Nothing] ELSE tree
  BY <1>1 DEF RemoveDir
<1>3. removed \in BOOLEAN
  OBVIOUS
<1> HIDE DEF removed
<1> QED BY <1>2, <1>3, RemovalKeeps

\* rename(),
LEMMA RenameFileKeeps ==
  ASSUME NEW path \in FilePaths, NEW to \in FilePaths, FileInv, RenameFile(path, to)
  PROVE  FileInv'
<1> DEFINE renamed == Looks(path) /\ ~Present(to) /\ IsDir(ParentOf[to])
<1>1. /\ OpenOn(path) = {} /\ told' = [op |-> "rename", path |-> path, to |-> to, said |-> renamed]
      /\ UNCHANGED file /\ SameFiles
      /\ tree' = IF renamed THEN [tree EXCEPT ![path] = Nothing, ![to] = tree[path]] ELSE tree
  BY DEF RenameFile, Answers
<1>2. told'.op = "rename" /\ told'.path = path /\ told'.to = to /\ told'.said = renamed
  BY <1>1
<1>3. renamed \in BOOLEAN /\ (renamed => ~Present(to) /\ Present(path) /\ path # to)
  BY LookingUp
<1> HIDE DEF renamed
<1>4. /\ tree \in [FilePaths -> Entry] /\ Nothing \in Entry /\ Nothing.kind = "none" /\ tree[path] \in Entry
  BY TreeTyped
<1>5. /\ tree' \in [FilePaths -> Entry]
      /\ renamed => tree'[path] = Nothing /\ tree'[to] = tree[path]
      /\ \A q \in FilePaths : q # path /\ q # to => tree'[q] = tree[q]
      /\ ~renamed => tree' = tree
  BY <1>1, <1>3, <1>4
<1>6. AnswersTrue'
  BY <1>2, <1>3, <1>4, <1>5 DEF AnswersTrue, Present
<1>7. \A h \in FileObjects : file[h].p /\ file[h].f => tree'[file[h].path] = tree[file[h].path]
  <2> SUFFICES ASSUME NEW h \in FileObjects, file[h].p, file[h].f PROVE tree'[file[h].path] = tree[file[h].path]
    OBVIOUS
  <2>1. file[h].path # path /\ file[h].path \in FilePaths /\ Present(file[h].path)
    BY <1>1, TreeTyped DEF OpenOn
  <2>2. renamed => file[h].path # to
    BY <1>3, <2>1
  <2> QED BY <1>5, <2>1, <2>2
<1> QED BY <1>1, <1>5, <1>6, <1>7, NamesKeep

\* and mkdir().
LEMMA MakeDirKeeps == ASSUME NEW path \in FilePaths, FileInv, MakeDir(path) PROVE FileInv'
<1> DEFINE made == ~Looks(path) /\ ~Present(path) /\ IsDir(ParentOf[path])
<1>1. /\ told' = [op |-> "mkdir", path |-> path, to |-> path, said |-> LooksLikeDir(path) \/ made]
      /\ UNCHANGED file /\ SameFiles
      /\ tree' = IF made THEN [tree EXCEPT ![path] = Directory] ELSE tree
  BY DEF MakeDir, Answers
<1>2. told'.op = "mkdir" /\ told'.path = path /\ told'.said = (LooksLikeDir(path) \/ made)
  BY <1>1
<1>3. made \in BOOLEAN /\ (made => ~Present(path)) /\ (LooksLikeDir(path) <=> Present(path) /\ IsDir(path))
  BY LookingUp
<1> HIDE DEF made
<1>4. /\ tree \in [FilePaths -> Entry] /\ Directory \in Entry /\ Directory.kind = "dir"
  BY TreeTyped
<1>5. /\ tree' \in [FilePaths -> Entry]
      /\ made => tree'[path] = Directory
      /\ \A q \in FilePaths : q # path => tree'[q] = tree[q]
      /\ ~made => tree' = tree
  BY <1>1, <1>4
<1>6. (LooksLikeDir(path) \/ made) <=> Present(path)' /\ IsDir(path)'
  <2>1. CASE made
    BY <1>4, <1>5, <2>1 DEF Present, IsDir
  <2>2. CASE ~made
    BY <1>3, <1>5, <2>2 DEF Present, IsDir
  <2> QED BY <2>1, <2>2
<1>7. AnswersTrue'
  BY <1>2, <1>6 DEF AnswersTrue, Present, IsDir
<1>8. \A h \in FileObjects : file[h].p /\ file[h].f => tree'[file[h].path] = tree[file[h].path]
  BY <1>3, <1>5, TreeTyped
<1> QED BY <1>1, <1>5, <1>7, <1>8, NamesKeep

\* FileInv holds at first.
LEMMA FilesStart == FileInit => FileInv
<1> SUFFICES ASSUME FileInit PROVE FileInv
  OBVIOUS
<1>1. Nothing \in Entry
  BY DEF Nothing, Entry
<1>2. ~ClosedFile.p
  BY DEF ClosedFile
<1>3. FileTypeOK
  BY <1>1, FileAssumption DEF FileInit, FileTypeOK
<1>4. \A h \in FileObjects : ~file[h].p
  BY <1>2 DEF FileInit
<1>5. {h \in FileObjects : file[h].p /\ file[h].f} = {} /\ {h \in FileObjects : file[h].p /\ file[h].d} = {}
  BY <1>4
<1>6. Cardinality({}) = 0
  BY FS_EmptySet
<1>7. DescriptorsOwned
  BY <1>5, <1>6 DEF DescriptorsOwned, FileInit
<1>8. AnswersTrue
  BY DEF AnswersTrue, FileInit, NoAnswer
<1> QED BY <1>3, <1>4, <1>7, <1>8 DEF FileInv

\* FileInv is inductive.
LEMMA FilesStay == FileInv /\ [FileNext]_fileVars => FileInv'
<1> SUFFICES ASSUME FileInv, [FileNext]_fileVars PROVE FileInv'
  OBVIOUS
<1>1. CASE UNCHANGED fileVars
  BY <1>1 DEF fileVars, FileInv, FileTypeOK, DescriptorsOwned, AnswersTrue, Present, IsDir
<1>2. ASSUME NEW h \in FileObjects, NEW path \in FilePaths, NEW mode \in {"r", "w", "a"}, OpenFile(h, path, mode)
      PROVE  FileInv'
  BY <1>2, OpenFileKeeps
<1>3. ASSUME NEW h \in FileObjects,
             \/ WriteFile(h, 1) \/ ReadFile(h, 1) \/ AskSize(h) \/ FlushFile(h) \/ SeekFile(h, 0)
             \/ CloseFile(h) \/ RewindDirectory(h)
      PROVE  FileInv'
  BY <1>3, WriteFileKeeps, ReadFileKeeps, AskSizeKeeps, FlushFileKeeps, SeekFileKeeps, CloseFileKeeps, RewindKeeps
<1>4. ASSUME NEW h \in FileObjects, NEW g \in FileObjects, NextFile(h, g) PROVE FileInv'
  BY <1>4, NextFileKeeps
<1>5. ASSUME NEW path \in FilePaths, AskExists(path) \/ RemoveFile(path) \/ MakeDir(path) \/ RemoveDir(path)
      PROVE  FileInv'
  BY <1>5, AskExistsKeeps, RemoveFileKeeps, MakeDirKeeps, RemoveDirKeeps
<1>6. ASSUME NEW path \in FilePaths, NEW to \in FilePaths, RenameFile(path, to) PROVE FileInv'
  BY <1>6, RenameFileKeeps
<1> QED BY <1>1, <1>2, <1>3, <1>4, <1>5, <1>6 DEF FileNext

\* It says what is to be kept.
LEMMA FilesInvKeeps == FileInv => FilesKept
<1> SUFFICES ASSUME FileInv PROVE FilesKept
  OBVIOUS
<1>1. SizesTold
  <2> SUFFICES ASSUME NEW h \in FileObjects, file[h].p, file[h].f, file[h].pendingEnd = 0, ~file[h].misled
               PROVE  SizeTold(file[h]) = tree[file[h].path].size
    BY DEF SizesTold
  <2>1. OpenOK(file[h], tree)
    BY DEF FileInv
  <2> QED BY <2>1 DEF OpenOK, SizeTold
<1> QED BY <1>1 DEF FileInv, FilesKept

\* FS over vfs_api.cpp, for any tree of paths, any File variables and any sizes: every
\* descriptor in use is that of an open File that can still close it; a File with
\* nothing in its buffer tells the size its path has, unless another one changed it;
\* and exists(), mkdir(), rename(), remove() and rmdir() answer what is so, but that
\* with no descriptor left exists() is false.
THEOREM FilesAreKept == FileSpec => []FilesKept
<1>1. FileInit => FileInv
  BY FilesStart
<1>2. FileInv /\ [FileNext]_fileVars => FileInv'
  BY FilesStay
<1>3. FileInv => FilesKept
  BY FilesInvKeeps
<1> QED BY <1>1, <1>2, <1>3, PTL DEF FileSpec

-----------------------------------------------------------------------------
(* Task times.                                                             *)

\* What the fields of the task and the clock hold.
TimeTypeOK ==
  /\ clock \in 0 .. ClockSpan - 1
  /\ timed \in [enabled : BOOLEAN, waiting : {"no", "nodelay", "delay"}, iInterval : TimeDelays \cup {0},
                iDelay : TimeDelays \cup {0}, iPreviousMillis : 0 .. ClockSpan - 1,
                iTimeout : Timeouts \cup {0}, iStarttime : 0 .. ClockSpan - 1, timedOut : BOOLEAN]
  /\ toGo \in Int /\ timeLeft \in Int

\* What the clock says has passed since the time a delay or a timeout counts from.
DelayInv == timed.enabled /\ timed.waiting = "no" =>
  /\ Wrapped(clock - timed.iPreviousMillis) = timed.iDelay - toGo
  /\ -MaxLate <= toGo
TimeoutInv == timed.enabled /\ timed.iTimeout # 0 =>
  /\ Wrapped(clock - timed.iStarttime) = timed.iTimeout - timeLeft
  /\ timed.iTimeout - timeLeft <= ClockSpan \div 2

\* The inductive invariant.
TimeInv == TimeTypeOK /\ DelayInv /\ TimeoutInv

\* The clock wraps once at most.
LEMMA WrapFacts ==
  ASSUME NEW x \in Int
  PROVE  /\ Wrapped(x) \in 0 .. ClockSpan - 1
         /\ 0 <= x /\ x < ClockSpan => Wrapped(x) = x
         /\ ClockSpan <= x /\ x < 2 * ClockSpan => Wrapped(x) = x - ClockSpan
         /\ -ClockSpan <= x /\ x < 0 => Wrapped(x) = x + ClockSpan
<1>1. ClockSpan \in Nat \ {0}
  BY TimeAssumption
<1>2. ASSUME NEW S \in Nat \ {0} PROVE x % S \in 0 .. S - 1
  OBVIOUS
<1>3. ASSUME NEW S \in Nat \ {0}, 0 <= x, x < S PROVE x % S = x
  BY <1>3
<1>4. ASSUME NEW S \in Nat \ {0}, S <= x, x < 2 * S PROVE x % S = x - S
  BY <1>4
<1>5. ASSUME NEW S \in Nat \ {0}, -S <= x, x < 0 PROVE x % S = x + S
  BY <1>5
<1> QED BY <1>1, <1>2, <1>3, <1>4, <1>5 DEF Wrapped

\* Half the span of the clock.
LEMMA Halves ==
  /\ ClockSpan \in Nat \ {0} /\ ClockSpan \div 2 \in Nat /\ MaxLate \in Nat
  /\ 2 * (ClockSpan \div 2) <= ClockSpan /\ ClockSpan <= 2 * (ClockSpan \div 2) + 1
<1>1. ClockSpan \in Nat \ {0} /\ MaxLate \in Nat
  BY TimeAssumption
<1>2. ASSUME NEW S \in Nat \ {0}
      PROVE S \div 2 \in Nat /\ 2 * (S \div 2) <= S /\ S <= 2 * (S \div 2) + 1
  OBVIOUS
<1> QED BY <1>1, <1>2

\* The fields of a task that its times depend on.
TimedTask ==
  [enabled : BOOLEAN, waiting : {"no", "nodelay", "delay"}, iInterval : TimeDelays \cup {0},
   iDelay : TimeDelays \cup {0}, iPreviousMillis : 0 .. ClockSpan - 1,
   iTimeout : Timeouts \cup {0}, iStarttime : 0 .. ClockSpan - 1, timedOut : BOOLEAN]

\* Delays and timeouts are below half the span, late or not.
LEMMA Delays ==
  /\ TimeDelays \subseteq Nat
  /\ \A d \in TimeDelays \cup {0} : d \in Nat /\ d + MaxLate < ClockSpan \div 2 /\ d < ClockSpan
  /\ \A d \in Timeouts \cup {0} : d \in Nat /\ d < ClockSpan \div 2 /\ d + MaxLate <= ClockSpan \div 2
<1>1. /\ TimeDelays \subseteq Nat /\ \A d \in TimeDelays : d + MaxLate < ClockSpan \div 2
      /\ MaxLate < ClockSpan \div 2
      /\ Timeouts \subseteq Nat
      /\ \A d \in Timeouts : d < ClockSpan \div 2 /\ d + MaxLate <= ClockSpan \div 2
  BY TimeAssumption
<1>2. \A S, H, L, d \in Nat : 2 * H <= S /\ d + L < H => d < S
  OBVIOUS
<1>3. \A d \in TimeDelays : d < ClockSpan
  BY <1>1, <1>2, Halves
<1>4. 0 + MaxLate = MaxLate /\ 0 < ClockSpan /\ 0 < ClockSpan \div 2 /\ MaxLate <= ClockSpan \div 2
  BY <1>1, Halves
<1> QED BY <1>1, <1>3, <1>4

\* What the clock now says of a task that should run in wait ticks.
DelayOK(t, wait) == t.enabled /\ t.waiting = "no" =>
  /\ Wrapped(clock - t.iPreviousMillis) = t.iDelay - wait
  /\ -MaxLate <= wait

\* The same task, but for what it waits for.
SameButTimes(t, u) ==
  t.enabled = u.enabled /\ t.waiting = u.waiting /\ t.iTimeout = u.iTimeout /\ t.iStarttime = u.iStarttime

\* The task and the clock have their types.
LEMMA Kind ==
  ASSUME TimeTypeOK
  PROVE  timed \in TimedTask /\ clock \in 0 .. ClockSpan - 1 /\ clock \in Int /\ clock \in Nat
BY Halves DEF TimeTypeOK, TimedTask

\* delay() counts from now.
LEMMA DelayedOK ==
  ASSUME NEW t \in TimedTask, NEW d \in TimeDelays \cup {0}, clock \in 0 .. ClockSpan - 1
  PROVE  /\ Delayed(t, d) \in TimedTask /\ SameButTimes(Delayed(t, d), t)
         /\ Delayed(t, d).iDelay = IF d # 0 THEN d ELSE t.iInterval
         /\ Delayed(t, d).iInterval = t.iInterval
         /\ DelayOK(Delayed(t, d), Delayed(t, d).iDelay)
         /\ Delayed(t, d).iDelay \in TimeDelays \cup {0}
<1> DEFINE e == IF d # 0 THEN d ELSE t.iInterval
           u == Delayed(t, d)
<1>1. e \in TimeDelays \cup {0}
  BY DEF TimedTask
<1>2. u = [t EXCEPT !.iDelay = e, !.iPreviousMillis = clock]
  BY DEF Delayed
<1> HIDE DEF e, u
<1>3. /\ u \in TimedTask /\ u.enabled = t.enabled /\ u.waiting = t.waiting /\ u.iTimeout = t.iTimeout
      /\ u.iStarttime = t.iStarttime /\ u.iDelay = e /\ u.iPreviousMillis = clock /\ u.iInterval = t.iInterval
  BY <1>1, <1>2 DEF TimedTask
<1>4. clock \in Int /\ e \in Nat /\ MaxLate \in Nat
  BY <1>1, Delays, Halves
<1>5. clock - clock = 0 /\ e - e = 0 /\ -MaxLate <= e
  BY <1>4
<1>6. Wrapped(0) = 0
  BY WrapFacts, Halves
<1> QED BY <1>1, <1>3, <1>5, <1>6 DEF DelayOK, SameButTimes, u, e

\* forceNextIteration() counts from one interval ago.
LEMMA ForcedOK ==
  ASSUME NEW t \in TimedTask, clock \in 0 .. ClockSpan - 1
  PROVE  /\ Forced(t) \in TimedTask /\ SameButTimes(Forced(t), t)
         /\ Forced(t).iInterval = t.iInterval /\ Forced(t).iDelay = t.iInterval
         /\ Forced(t).iPreviousMillis = Wrapped(clock - t.iInterval)
         /\ DelayOK(Forced(t), 0)
         /\ Wrapped(clock - Forced(t).iPreviousMillis) = t.iInterval
<1> DEFINE i == t.iInterval
           w == Wrapped(clock - i)
           u == Forced(t)
<1>0. i \in TimeDelays \cup {0}
  BY DEF TimedTask
<1>1. i \in TimeDelays \cup {0} /\ i \in Nat /\ i < ClockSpan /\ clock \in Int /\ ClockSpan \in Nat \ {0}
  <2> HIDE DEF i
  <2>1. i \in Nat /\ i < ClockSpan
    BY <1>0, Delays
  <2> QED BY <1>0, <2>1, Halves
<1>2. clock - i \in Int /\ -ClockSpan <= clock - i /\ clock - i < ClockSpan
  BY <1>1
<1>3. w \in 0 .. ClockSpan - 1 /\ (w = clock - i \/ (w = clock - i + ClockSpan /\ clock - i < 0))
  BY <1>2, WrapFacts
<1>4. u = [t EXCEPT !.iDelay = i, !.iPreviousMillis = w]
  BY DEF Forced
<1> HIDE DEF i, w, u
<1>5. /\ u \in TimedTask /\ u.enabled = t.enabled /\ u.waiting = t.waiting /\ u.iTimeout = t.iTimeout
      /\ u.iStarttime = t.iStarttime /\ u.iDelay = i /\ u.iPreviousMillis = w /\ u.iInterval = t.iInterval
  BY <1>1, <1>3, <1>4 DEF TimedTask
<1>6. Wrapped(clock - w) = i
  <2>1. clock - w \in Int
    BY <1>1, <1>3
  <2>2. CASE w = clock - i
    <3>1. clock - w = i
      BY <1>1, <2>2
    <3> QED BY <1>1, <2>1, <3>1, WrapFacts
  <2>3. CASE w = clock - i + ClockSpan /\ clock - i < 0
    <3>1. clock - w = i - ClockSpan /\ -ClockSpan <= clock - w /\ clock - w < 0 /\ clock - w + ClockSpan = i
      BY <1>1, <2>3
    <3> QED BY <2>1, <3>1, WrapFacts
  <2> QED BY <1>3, <2>2, <2>3
<1>7. i - 0 = i /\ -MaxLate <= 0
  BY <1>1, Halves
<1> QED BY <1>5, <1>6, <1>7 DEF DelayOK, SameButTimes, u, i, w

\* resetTimeout() counts the timeout from now.
LEMMA ResetOK ==
  ASSUME NEW t \in TimedTask, clock \in 0 .. ClockSpan - 1
  PROVE  /\ TimeoutReset(t) \in TimedTask /\ TimeoutReset(t).iStarttime = clock
         /\ TimeoutReset(t).enabled = t.enabled /\ TimeoutReset(t).waiting = t.waiting
         /\ TimeoutReset(t).iDelay = t.iDelay /\ TimeoutReset(t).iPreviousMillis = t.iPreviousMillis
         /\ TimeoutReset(t).iInterval = t.iInterval /\ TimeoutReset(t).iTimeout = t.iTimeout
BY DEF TimeoutReset, TimedTask

\* enable() does both, with the first iteration due at once.
LEMMA EnabledOK ==
  ASSUME NEW t \in TimedTask, clock \in 0 .. ClockSpan - 1
  PROVE  /\ EnabledNow(t) \in TimedTask /\ EnabledNow(t).iStarttime = clock
         /\ EnabledNow(t).enabled /\ EnabledNow(t).iInterval = t.iInterval
         /\ DelayOK(EnabledNow(t), 0)
<1> DEFINE e == [t EXCEPT !.enabled = TRUE]
           f == Forced(e)
<1>1. e \in TimedTask /\ e.enabled /\ e.iInterval = t.iInterval
  BY DEF TimedTask
<1> HIDE DEF e
<1>2. f \in TimedTask /\ f.enabled /\ f.iInterval = t.iInterval /\ DelayOK(f, 0)
  BY <1>1, ForcedOK DEF SameButTimes
<1> HIDE DEF f
<1>3. EnabledNow(t) = TimeoutReset(f)
  BY DEF EnabledNow, e, f
<1> QED BY <1>2, <1>3, ResetOK DEF DelayOK

\* setInterval() counts the new interval from now.
LEMMA IntervalOK ==
  ASSUME NEW t \in TimedTask, NEW d \in TimeDelays \cup {0}, clock \in 0 .. ClockSpan - 1
  PROVE  /\ IntervalSet(t, d) \in TimedTask /\ SameButTimes(IntervalSet(t, d), t)
         /\ DelayOK(IntervalSet(t, d), d)
<1> DEFINE e == [t EXCEPT !.iInterval = d]
<1>1. e \in TimedTask /\ e.iInterval = d /\ SameButTimes(e, t)
  BY DEF TimedTask, SameButTimes
<1> HIDE DEF e
<1>2. /\ Delayed(e, 0) \in TimedTask /\ SameButTimes(Delayed(e, 0), e) /\ Delayed(e, 0).iDelay = e.iInterval
      /\ DelayOK(Delayed(e, 0), Delayed(e, 0).iDelay)
  BY <1>1, DelayedOK
<1>3. IntervalSet(t, d) = Delayed(e, 0)
  BY DEF IntervalSet, e
<1> QED BY <1>1, <1>2, <1>3 DEF SameButTimes

\* The task changes, the clock and the timeout do not.
LEMMA NowKeeps ==
  ASSUME TimeInv, NEW t \in TimedTask, NEW wait \in Int, Now(t, wait), DelayOK(t, wait),
         t.iTimeout = timed.iTimeout, t.iStarttime = timed.iStarttime, t.enabled => timed.enabled
  PROVE  TimeInv'
<1>1. timed' = t /\ toGo' = wait /\ clock' = clock /\ timeLeft' = timeLeft
  BY DEF Now
<1>2. TimeTypeOK'
  BY <1>1 DEF TimeInv, TimeTypeOK, TimedTask
<1>3. DelayInv'
  BY <1>1 DEF DelayInv, DelayOK, Wrapped
<1>4. TimeoutInv'
  BY <1>1 DEF TimeInv, TimeoutInv, Wrapped
<1> QED BY <1>2, <1>3, <1>4 DEF TimeInv

\* A step that leaves a task that counts from now keeps the invariant.
LEMMA FromNowKeeps ==
  ASSUME TimeInv, NEW t \in TimedTask, NEW wait \in Int, FromNow(t, wait), DelayOK(t, wait),
         t.iStarttime = clock
  PROVE  TimeInv'
<1>1. timed' = t /\ toGo' = wait /\ clock' = clock /\ timeLeft' = t.iTimeout
  BY DEF FromNow
<1>2. clock \in Int /\ t.iTimeout \in Nat
  BY Delays, Halves, Kind DEF TimeInv, TimedTask
<1>3. TimeTypeOK'
  BY <1>1, <1>2 DEF TimeInv, TimeTypeOK, TimedTask
<1>4. DelayInv'
  BY <1>1 DEF DelayInv, DelayOK, Wrapped
<1>5. clock - clock = 0 /\ t.iTimeout - t.iTimeout = 0 /\ 0 <= ClockSpan \div 2
  BY <1>2, Halves
<1>6. Wrapped(0) = 0
  BY WrapFacts, Halves
<1>7. TimeoutInv'
  BY <1>1, <1>5, <1>6 DEF TimeoutInv, Wrapped
<1> QED BY <1>3, <1>4, <1>7 DEF TimeInv

\* A run moves the time a delay counts from by the delay.
LEMMA MovedBy ==
  ASSUME NEW c \in 0 .. ClockSpan - 1, NEW p \in 0 .. ClockSpan - 1, NEW d \in 0 .. ClockSpan - 1,
         NEW w \in Int, w <= 0, Wrapped(c - p) = d - w
  PROVE  Wrapped(p + d) \in 0 .. ClockSpan - 1 /\ Wrapped(c - Wrapped(p + d)) = -w
<1>1. ClockSpan \in Nat \ {0}
  BY Halves
<1>2. c - p \in Int /\ -ClockSpan <= c - p /\ c - p < ClockSpan /\ p + d \in Int /\ 0 <= p + d /\ p + d < 2 * ClockSpan
  BY <1>1
<1>3. d - w \in 0 .. ClockSpan - 1 /\ (d - w = c - p \/ d - w = c - p + ClockSpan)
  <2>1. Wrapped(c - p) \in 0 .. ClockSpan - 1 /\ (Wrapped(c - p) = c - p \/ Wrapped(c - p) = c - p + ClockSpan)
    BY <1>1, <1>2, WrapFacts
  <2> QED BY <2>1
<1>4. PICK q \in 0 .. ClockSpan - 1 : q = Wrapped(p + d) /\ (q = p + d \/ q = p + d - ClockSpan)
  <2>1. Wrapped(p + d) \in 0 .. ClockSpan - 1 /\ (Wrapped(p + d) = p + d \/ Wrapped(p + d) = p + d - ClockSpan)
    BY <1>1, <1>2, WrapFacts
  <2> QED BY <2>1
<1>5. c - q \in Int /\ -ClockSpan <= c - q /\ c - q < ClockSpan
  BY <1>1, <1>4
<1>6. -w \in 0 .. ClockSpan - 1
  BY <1>1, <1>3
<1>7. (c - q >= 0 /\ c - q = -w) \/ (c - q < 0 /\ c - q + ClockSpan = -w)
  BY <1>1, <1>3, <1>4, <1>6
<1>8. Wrapped(c - q) = -w
  BY <1>5, <1>7, WrapFacts
<1> QED BY <1>4, <1>8

\* A tick is one more since any time, while the clock has not come round to it.
LEMMA Ticked ==
  ASSUME NEW c \in 0 .. ClockSpan - 1, NEW p \in 0 .. ClockSpan - 1, Wrapped(c - p) + 1 < ClockSpan
  PROVE  Wrapped(c + 1) \in 0 .. ClockSpan - 1 /\ Wrapped(Wrapped(c + 1) - p) = Wrapped(c - p) + 1
<1>1. ClockSpan \in Nat \ {0}
  BY Halves
<1>2. c - p \in Int /\ -ClockSpan <= c - p /\ c - p < ClockSpan /\ c + 1 \in Int /\ 0 <= c + 1 /\ c + 1 < 2 * ClockSpan
  BY <1>1
<1>3. PICK x \in 0 .. ClockSpan - 1 : x = Wrapped(c - p) /\ ((x = c - p /\ c - p >= 0) \/ (x = c - p + ClockSpan /\ c - p < 0))
  <2>1. /\ Wrapped(c - p) \in 0 .. ClockSpan - 1
        /\ (Wrapped(c - p) = c - p /\ c - p >= 0) \/ (Wrapped(c - p) = c - p + ClockSpan /\ c - p < 0)
    BY <1>1, <1>2, WrapFacts
  <2> QED BY <2>1
<1>4. PICK q \in 0 .. ClockSpan - 1 : q = Wrapped(c + 1) /\ (q = c + 1 \/ (q = c + 1 - ClockSpan /\ c + 1 >= ClockSpan))
  <2>1. /\ Wrapped(c + 1) \in 0 .. ClockSpan - 1
        /\ (Wrapped(c + 1) = c + 1 \/ (Wrapped(c + 1) = c + 1 - ClockSpan /\ c + 1 >= ClockSpan))
    BY <1>1, <1>2, WrapFacts
  <2> QED BY <2>1
<1>5. q - p \in Int /\ -ClockSpan <= q - p /\ q - p < ClockSpan /\ x + 1 < ClockSpan
  BY <1>1, <1>3, <1>4
<1>6. (q - p >= 0 /\ q - p = x + 1) \/ (q - p < 0 /\ q - p + ClockSpan = x + 1)
  BY <1>1, <1>3, <1>4, <1>5
<1>7. Wrapped(q - p) = x + 1
  BY <1>5, <1>6, WrapFacts
<1> QED BY <1>3, <1>4, <1>7

\* A tick of the clock, which may wrap.
LEMMA TickKeeps == TimeInv /\ TimeTick => TimeInv'
<1> SUFFICES ASSUME TimeInv, TimeTick PROVE TimeInv'
  OBVIOUS
<1>1. /\ timed \in TimedTask /\ clock \in 0 .. ClockSpan - 1 /\ toGo \in Int /\ timeLeft \in Int
      /\ timed.iPreviousMillis \in 0 .. ClockSpan - 1 /\ timed.iStarttime \in 0 .. ClockSpan - 1
      /\ timed.iDelay \in TimeDelays \cup {0} /\ timed.iTimeout \in Timeouts \cup {0}
  BY Kind DEF TimeInv, TimeTypeOK, TimedTask
<1>2. /\ clock' = Wrapped(clock + 1) /\ timed' = timed
      /\ toGo' = IF timed.enabled /\ timed.waiting = "no" THEN toGo - 1 ELSE toGo
      /\ timeLeft' = IF timed.enabled /\ timed.iTimeout # 0 THEN timeLeft - 1 ELSE timeLeft
  BY DEF TimeTick
<1>3. clock' \in 0 .. ClockSpan - 1
  <2>1. clock + 1 \in Int
    BY <1>1, Halves
  <2> QED BY <1>2, <2>1, WrapFacts
<1>4. TimeTypeOK'
  <2>1. toGo' \in Int /\ timeLeft' \in Int
    BY <1>1, <1>2
  <2> QED BY <1>2, <1>3, <2>1 DEF TimeInv, TimeTypeOK
<1>5. ASSUME timed.enabled, timed.waiting = "no"
      PROVE  Wrapped(clock' - timed.iPreviousMillis) = timed.iDelay - toGo' /\ -MaxLate <= toGo'
  <2>1. Wrapped(clock - timed.iPreviousMillis) = timed.iDelay - toGo /\ toGo > -MaxLate /\ toGo' = toGo - 1
    BY <1>2, <1>5 DEF TimeInv, DelayInv, TimeTick
  <2>2. timed.iDelay \in Nat /\ timed.iDelay + MaxLate < ClockSpan \div 2 /\ MaxLate \in Nat
    BY <1>1, Delays, Halves
  <2>3. \A d, L, H, S \in Nat, g \in Int : d + L < H /\ 2 * H <= S /\ g > -L =>
           (d - g) + 1 < S /\ (d - g) + 1 = d - (g - 1) /\ -L <= g - 1
    OBVIOUS
  <2>4. /\ (timed.iDelay - toGo) + 1 < ClockSpan /\ (timed.iDelay - toGo) + 1 = timed.iDelay - (toGo - 1)
        /\ -MaxLate <= toGo - 1
    BY <1>1, <2>1, <2>2, <2>3, Halves
  <2>5. Wrapped(Wrapped(clock + 1) - timed.iPreviousMillis) = Wrapped(clock - timed.iPreviousMillis) + 1
    BY <1>1, <2>1, <2>4, Ticked
  <2> QED BY <1>2, <2>1, <2>4, <2>5
<1>6. ASSUME timed.enabled, timed.iTimeout # 0
      PROVE  /\ Wrapped(clock' - timed.iStarttime) = timed.iTimeout - timeLeft'
             /\ timed.iTimeout - timeLeft' <= ClockSpan \div 2
  <2>1. Wrapped(clock - timed.iStarttime) = timed.iTimeout - timeLeft /\ timeLeft > -MaxLate /\ timeLeft' = timeLeft - 1
    BY <1>2, <1>6 DEF TimeInv, TimeoutInv, TimeTick
  <2>2. timed.iTimeout \in Nat /\ timed.iTimeout + MaxLate <= ClockSpan \div 2 /\ MaxLate \in Nat
    BY <1>1, Delays, Halves
  <2>3. \A d, L, H \in Nat, S \in Nat \ {0}, g \in Int : d + L <= H /\ 2 * H <= S /\ g > -L =>
           (d - g) + 1 < S /\ (d - g) + 1 = d - (g - 1) /\ d - (g - 1) <= H
    OBVIOUS
  <2>4. /\ (timed.iTimeout - timeLeft) + 1 < ClockSpan
        /\ (timed.iTimeout - timeLeft) + 1 = timed.iTimeout - (timeLeft - 1)
        /\ timed.iTimeout - (timeLeft - 1) <= ClockSpan \div 2
    BY <1>1, <2>1, <2>2, <2>3, Halves
  <2>5. Wrapped(Wrapped(clock + 1) - timed.iStarttime) = Wrapped(clock - timed.iStarttime) + 1
    BY <1>1, <2>1, <2>4, Ticked
  <2> QED BY <1>2, <2>1, <2>4, <2>5
<1>7. DelayInv'
  BY <1>2, <1>5 DEF DelayInv, Wrapped
<1>8. TimeoutInv'
  BY <1>2, <1>6 DEF TimeoutInv, Wrapped
<1> QED BY <1>4, <1>7, <1>8 DEF TimeInv

\* execute(): the timeout is over, or the request is open, or the task runs or not.
LEMMA ExecuteKeeps == ASSUME NEW completed \in BOOLEAN, TimeInv, ExecuteTask(completed) PROVE TimeInv'
<1>1. /\ timed \in TimedTask /\ clock \in 0 .. ClockSpan - 1 /\ toGo \in Int /\ timed.enabled
      /\ timed.iDelay \in TimeDelays \cup {0} /\ timed.iPreviousMillis \in 0 .. ClockSpan - 1
      /\ timed.waiting \in {"no", "nodelay", "delay"} /\ timed.iInterval \in TimeDelays \cup {0}
  BY Kind DEF TimeInv, TimeTypeOK, TimedTask, ExecuteTask
<1>2. CASE TimeoutOver
  <2> DEFINE u == [timed EXCEPT !.timedOut = TRUE, !.enabled = FALSE]
  <2>1. Now(u, 0)
    BY <1>2 DEF ExecuteTask
  <2>2. u \in TimedTask /\ u.iTimeout = timed.iTimeout /\ u.iStarttime = timed.iStarttime /\ u.enabled = FALSE
    BY <1>1 DEF TimedTask
  <2> HIDE DEF u
  <2>3. DelayOK(u, 0)
    BY <2>2 DEF DelayOK
  <2> QED BY <2>1, <2>2, <2>3, NowKeeps
<1>3. CASE ~TimeoutOver /\ timed.waiting # "no" /\ ~completed
  <2>1. UNCHANGED timeVars
    BY <1>1, <1>3 DEF ExecuteTask
  <2> QED BY <2>1 DEF timeVars, TimeInv, TimeTypeOK, DelayInv, TimeoutInv, Wrapped
\* A task that runs, when it was to run wait ticks from now.
<1>4. ASSUME NEW t \in TimedTask, NEW wait \in Int, wait <= 0, -MaxLate <= wait,
             Wrapped(clock - t.iPreviousMillis) = t.iDelay - wait,
             t.iTimeout = timed.iTimeout, t.iStarttime = timed.iStarttime,
             Now([t EXCEPT !.iPreviousMillis = Wrapped(t.iPreviousMillis + t.iDelay), !.iDelay = t.iInterval],
                 wait + t.iInterval)
      PROVE  TimeInv'
  <2>1. /\ t.iDelay \in TimeDelays \cup {0} /\ t.iPreviousMillis \in 0 .. ClockSpan - 1
        /\ t.iInterval \in TimeDelays \cup {0}
    BY DEF TimedTask
  <2>2. t.iDelay \in 0 .. ClockSpan - 1 /\ t.iInterval \in Nat
    <3>1. t.iDelay \in Nat /\ t.iDelay < ClockSpan /\ t.iInterval \in Nat
      BY <2>1, Delays
    <3> QED BY <3>1, Halves
  <2> DEFINE q == Wrapped(t.iPreviousMillis + t.iDelay)
             u == [t EXCEPT !.iPreviousMillis = q, !.iDelay = t.iInterval]
  <2>3. q \in 0 .. ClockSpan - 1 /\ Wrapped(clock - q) = -wait
    BY <1>1, <1>4, <2>1, <2>2, MovedBy
  <2>4. Now(u, wait + t.iInterval)
    BY <1>4
  <2> HIDE DEF q
  <2>5. /\ u \in TimedTask /\ u.iPreviousMillis = q /\ u.iDelay = t.iInterval
        /\ u.iTimeout = t.iTimeout /\ u.iStarttime = t.iStarttime
    BY <2>1, <2>3 DEF TimedTask
  <2> HIDE DEF u
  <2>6. wait + t.iInterval \in Int /\ -wait = t.iInterval - (wait + t.iInterval) /\ -MaxLate <= wait + t.iInterval
    BY <1>4, <2>2, Halves
  <2>7. DelayOK(u, wait + t.iInterval)
    BY <2>3, <2>5, <2>6 DEF DelayOK
  <2> QED BY <1>1, <1>4, <2>4, <2>5, <2>6, <2>7, NowKeeps
<1>5. CASE ~TimeoutOver /\ timed.waiting = "no"
  <2>1. IF ~Due THEN Now(timed, toGo)
        ELSE Now([timed EXCEPT !.iPreviousMillis = Wrapped(timed.iPreviousMillis + timed.iDelay), !.iDelay = timed.iInterval],
                 toGo + timed.iInterval)
    BY <1>5 DEF ExecuteTask
  <2>2. Wrapped(clock - timed.iPreviousMillis) = timed.iDelay - toGo /\ -MaxLate <= toGo
    BY <1>1, <1>5 DEF TimeInv, DelayInv
  <2>3. CASE ~Due
    BY <1>1, <2>1, <2>2, <2>3, NowKeeps DEF DelayOK
  <2>4. CASE Due
    <3>1. timed.iDelay \in Nat
      BY <1>1, Delays
    <3>2. toGo <= 0
      BY <1>1, <2>2, <2>4, <3>1 DEF Due
    <3> QED BY <1>1, <1>4, <2>1, <2>2, <2>4, <3>2
  <2> QED BY <2>3, <2>4
<1>6. CASE ~TimeoutOver /\ completed /\ timed.waiting = "nodelay"
  <2> DEFINE f == Forced(timed)
             t == [f EXCEPT !.waiting = "no"]
  <2>1. Now([t EXCEPT !.iPreviousMillis = Wrapped(t.iPreviousMillis + t.iDelay), !.iDelay = t.iInterval],
            0 + t.iInterval)
    BY <1>6 DEF ExecuteTask
  <2>2. /\ f \in TimedTask /\ SameButTimes(f, timed) /\ f.iDelay = timed.iInterval
        /\ Wrapped(clock - f.iPreviousMillis) = timed.iInterval
    BY <1>1, ForcedOK
  <2> HIDE DEF f
  <2>3. /\ t \in TimedTask /\ t.iDelay = f.iDelay /\ t.iPreviousMillis = f.iPreviousMillis
        /\ t.iTimeout = timed.iTimeout /\ t.iStarttime = timed.iStarttime
    BY <2>2 DEF TimedTask, SameButTimes
  <2> HIDE DEF t
  <2>4. timed.iInterval \in Nat
    BY <1>1, Delays
  <2>5. \A n \in Nat : n - 0 = n
    OBVIOUS
  <2>6. Wrapped(clock - t.iPreviousMillis) = t.iDelay - 0
    BY <2>2, <2>3, <2>4, <2>5
  <2>7. -MaxLate <= 0 /\ 0 \in Int /\ 0 <= 0
    BY Halves
  <2> HIDE DEF TimedTask
  <2> QED BY <1>4, <2>1, <2>3, <2>6, <2>7
<1>7. CASE ~TimeoutOver /\ completed /\ timed.waiting = "delay"
  <2> DEFINE t == [timed EXCEPT !.iPreviousMillis = clock, !.waiting = "no"]
  <2>1. IF timed.iDelay # 0 THEN Now(t, timed.iDelay)
        ELSE Now([t EXCEPT !.iPreviousMillis = Wrapped(t.iPreviousMillis + t.iDelay), !.iDelay = t.iInterval],
                 timed.iDelay + t.iInterval)
    BY <1>7 DEF ExecuteTask
  <2>2. /\ t \in TimedTask /\ t.iDelay = timed.iDelay /\ t.iPreviousMillis = clock
        /\ t.iTimeout = timed.iTimeout /\ t.iStarttime = timed.iStarttime
    BY <1>1 DEF TimedTask
  <2> HIDE DEF t
  <2>a. timed.iDelay \in Nat
    BY <1>1, Delays
  <2>3. timed.iDelay \in Nat /\ clock \in Int /\ MaxLate \in Nat
    BY <1>1, <2>a, Halves
  <2>4. clock - clock = 0 /\ timed.iDelay - timed.iDelay = 0 /\ -MaxLate <= timed.iDelay /\ timed.iDelay \in Int
    BY <2>3
  <2>5. Wrapped(0) = 0
    BY WrapFacts, Halves
  <2>6. Wrapped(clock - t.iPreviousMillis) = t.iDelay - timed.iDelay
    BY <2>2, <2>4, <2>5
  <2>7. CASE timed.iDelay # 0
    <3>1. DelayOK(t, timed.iDelay)
      BY <2>4, <2>6 DEF DelayOK
    <3> QED BY <1>1, <2>1, <2>2, <2>4, <2>7, <3>1, NowKeeps
  <2>8. CASE timed.iDelay = 0
    <3>1. Now([t EXCEPT !.iPreviousMillis = Wrapped(t.iPreviousMillis + t.iDelay), !.iDelay = t.iInterval],
              timed.iDelay + t.iInterval)
      BY <2>1, <2>8
    <3>2. timed.iDelay <= 0
      BY <2>8
    <3> QED BY <1>4, <2>2, <2>4, <2>6, <3>1, <3>2
  <2> QED BY <2>7, <2>8
<1> QED BY <1>1, <1>2, <1>3, <1>5, <1>6, <1>7

\* enable(), forceNextIteration(), disable() and startNow() keep the invariant,
LEMMA CallsKeep ==
  TimeInv /\ (EnableTask \/ ForceNextIteration \/ DisableTask \/ StartNow) => TimeInv'
<1> SUFFICES ASSUME TimeInv PROVE EnableTask \/ ForceNextIteration \/ DisableTask \/ StartNow => TimeInv'
  OBVIOUS
<1>1. timed \in TimedTask /\ clock \in 0 .. ClockSpan - 1 /\ toGo \in Int
  BY Kind DEF TimeInv, TimeTypeOK
<1>2. ASSUME EnableTask PROVE TimeInv'
  BY <1>1, <1>2, EnabledOK, FromNowKeeps DEF EnableTask
<1>3. ASSUME ForceNextIteration PROVE TimeInv'
  BY <1>1, <1>3, ForcedOK, NowKeeps DEF ForceNextIteration, SameButTimes
<1>4. ASSUME DisableTask PROVE TimeInv'
  <2> DEFINE u == [timed EXCEPT !.enabled = FALSE]
  <2>1. u \in TimedTask /\ u.iTimeout = timed.iTimeout /\ u.iStarttime = timed.iStarttime /\ u.enabled = FALSE
    BY <1>1 DEF TimedTask
  <2>2. Now(u, 0)
    BY <1>4 DEF DisableTask
  <2> HIDE DEF u
  <2>3. DelayOK(u, 0)
    BY <2>1 DEF DelayOK
  <2> QED BY <2>1, <2>2, <2>3, NowKeeps
<1>5. ASSUME StartNow, timed.enabled PROVE TimeInv'
  <2> DEFINE d == timed.iDelay
             w == Wrapped(clock - d)
             u == [timed EXCEPT !.iPreviousMillis = w]
  <2>1. Now(u, 0)
    BY <1>5 DEF StartNow
  <2>2. d \in TimeDelays \cup {0}
    BY <1>1 DEF TimedTask
  <2> HIDE DEF d
  <2>3. d \in Nat /\ d < ClockSpan /\ clock \in Int /\ ClockSpan \in Nat \ {0} /\ MaxLate \in Nat
    BY <1>1, <2>2, Delays, Halves
  <2>4. clock - d \in Int /\ -ClockSpan <= clock - d /\ clock - d < ClockSpan
    BY <1>1, <2>3
  <2>5. w \in 0 .. ClockSpan - 1 /\ (w = clock - d \/ (w = clock - d + ClockSpan /\ clock - d < 0))
    BY <2>4, WrapFacts
  <2> HIDE DEF w
  <2>6. Wrapped(clock - w) = d
    <3>1. CASE w = clock - d
      <4>1. clock - w = d
        BY <2>3, <3>1
      <4> QED BY <2>3, <4>1, WrapFacts
    <3>2. CASE w = clock - d + ClockSpan /\ clock - d < 0
      <4>1. clock - w \in Int /\ -ClockSpan <= clock - w /\ clock - w < 0 /\ clock - w + ClockSpan = d
        BY <2>3, <3>2
      <4> QED BY <4>1, WrapFacts
    <3> QED BY <2>5, <3>1, <3>2
  <2>7. /\ u \in TimedTask /\ u.iTimeout = timed.iTimeout /\ u.iStarttime = timed.iStarttime
        /\ u.iPreviousMillis = w /\ u.iDelay = d /\ u.enabled = timed.enabled
    BY <1>1, <2>5 DEF TimedTask, d
  <2> HIDE DEF u
  <2>8. d = d - 0 /\ -MaxLate <= 0
    BY <2>3
  <2>9. DelayOK(u, 0)
    BY <2>6, <2>7, <2>8 DEF DelayOK
  <2> QED BY <2>1, <2>7, <2>9, NowKeeps
<1>6. ASSUME StartNow, ~timed.enabled PROVE TimeInv'
  <2>1. UNCHANGED timeVars
    BY <1>6 DEF StartNow
  <2> QED BY <2>1 DEF timeVars, TimeInv, TimeTypeOK, DelayInv, TimeoutInv, Wrapped
<1> QED BY <1>2, <1>3, <1>4, <1>5, <1>6

\* enableDelayed(), delay() and setInterval(),
LEMMA DelaysKeep ==
  ASSUME NEW d \in TimeDelays, TimeInv, EnableDelayed(d) \/ DelayTask(d) \/ SetInterval(d)
  PROVE  TimeInv'
<1>1. timed \in TimedTask /\ clock \in 0 .. ClockSpan - 1 /\ toGo \in Int
  BY Kind DEF TimeInv, TimeTypeOK
<1>2. ASSUME EnableDelayed(d) PROVE TimeInv'
  <2> DEFINE e == EnabledNow(timed)
             t == Delayed(e, d)
  <2>1. FromNow(t, t.iDelay)
    BY <1>2 DEF EnableDelayed
  <2>2. e \in TimedTask /\ e.iStarttime = clock
    BY <1>1, EnabledOK
  <2> HIDE DEF e
  <2>3. t \in TimedTask /\ SameButTimes(t, e) /\ DelayOK(t, t.iDelay) /\ t.iDelay \in TimeDelays \cup {0}
    BY <1>1, <2>2, DelayedOK
  <2> HIDE DEF t
  <2>a. t.iDelay \in Nat
    BY <2>3, Delays
  <2>4. t.iDelay \in Int
    BY <2>a
  <2> QED BY <2>1, <2>2, <2>3, <2>4, FromNowKeeps DEF SameButTimes
<1>3. ASSUME DelayTask(d) PROVE TimeInv'
  <2> DEFINE t == Delayed(timed, d)
  <2>1. Now(t, t.iDelay)
    BY <1>3 DEF DelayTask
  <2>2. t \in TimedTask /\ SameButTimes(t, timed) /\ DelayOK(t, t.iDelay) /\ t.iDelay \in TimeDelays \cup {0}
    BY <1>1, DelayedOK
  <2> HIDE DEF t
  <2>a. t.iDelay \in Nat
    BY <2>2, Delays
  <2>3. t.iDelay \in Int
    BY <2>a
  <2> QED BY <2>1, <2>2, <2>3, NowKeeps DEF SameButTimes
<1>4. ASSUME SetInterval(d) PROVE TimeInv'
  <2>1. d \in Int
    BY Delays
  <2>2. IntervalSet(timed, d) \in TimedTask /\ SameButTimes(IntervalSet(timed, d), timed) /\ DelayOK(IntervalSet(timed, d), d)
    BY <1>1, IntervalOK
  <2> QED BY <1>4, <2>1, <2>2, NowKeeps DEF SetInterval, SameButTimes
<1> QED BY <1>2, <1>3, <1>4

\* waitFor() and waitForDelayed(),
LEMMA WaitKeeps ==
  ASSUME NEW d \in TimeDelays, NEW delayed \in BOOLEAN, TimeInv, WaitForRequest(d, delayed)
  PROVE  TimeInv'
<1>1. timed \in TimedTask /\ clock \in 0 .. ClockSpan - 1
  BY Kind DEF TimeInv
<1> DEFINE set == IF delayed /\ d = 0 THEN timed ELSE IntervalSet(timed, d)
           e == EnabledNow(set)
           m == IF delayed THEN "delay" ELSE "nodelay"
           t == [e EXCEPT !.waiting = m]
<1>2. FromNow(t, 0)
  BY DEF WaitForRequest
<1>3. set \in TimedTask
  BY <1>1, IntervalOK
<1> HIDE DEF set
<1>4. e \in TimedTask /\ e.iStarttime = clock
  BY <1>1, <1>3, EnabledOK
<1>5. m \in {"delay", "nodelay"}
  OBVIOUS
<1> HIDE DEF e, m
<1>6. t \in TimedTask /\ t.iStarttime = clock /\ t.waiting = m
  BY <1>4, <1>5 DEF TimedTask
<1> HIDE DEF t
<1>7. DelayOK(t, 0)
  BY <1>5, <1>6 DEF DelayOK
<1> QED BY <1>2, <1>6, <1>7, FromNowKeeps

\* and setTimeout().
LEMMA SetTimeoutKeeps ==
  ASSUME NEW a \in Timeouts, NEW reset \in BOOLEAN, TimeInv, SetTimeout(a, reset)
  PROVE  TimeInv'
<1>1. /\ timed \in TimedTask /\ clock \in 0 .. ClockSpan - 1 /\ toGo \in Int /\ timeLeft \in Int
      /\ timed.iTimeout \in Timeouts \cup {0}
  BY Kind DEF TimeInv, TimeTypeOK, TimedTask
<1>2. a \in Nat /\ timed.iTimeout \in Nat
  BY <1>1, Delays
<1> DEFINE e == [timed EXCEPT !.iTimeout = a]
           t == IF reset THEN TimeoutReset(e) ELSE e
<1>3. /\ timed' = t /\ clock' = clock /\ toGo' = toGo /\ (reset \/ timed.iTimeout # 0)
      /\ timeLeft' = IF reset \/ a = 0 THEN a ELSE timeLeft + (a - timed.iTimeout)
  BY DEF SetTimeout
<1>4. /\ e \in TimedTask /\ e.enabled = timed.enabled /\ e.waiting = timed.waiting /\ e.iDelay = timed.iDelay
      /\ e.iPreviousMillis = timed.iPreviousMillis /\ e.iTimeout = a /\ e.iStarttime = timed.iStarttime
  BY <1>1 DEF TimedTask
<1> HIDE DEF e
<1>5. /\ t \in TimedTask /\ t.enabled = timed.enabled /\ t.waiting = timed.waiting /\ t.iDelay = timed.iDelay
      /\ t.iPreviousMillis = timed.iPreviousMillis /\ t.iTimeout = a
      /\ t.iStarttime = IF reset THEN clock ELSE timed.iStarttime
  BY <1>1, <1>4, ResetOK
<1> HIDE DEF t
<1>6. timeLeft' \in Int
  BY <1>1, <1>2, <1>3
<1>7. TimeTypeOK'
  BY <1>3, <1>5, <1>6 DEF TimeInv, TimeTypeOK, TimedTask
<1>8. DelayInv'
  BY <1>3, <1>5 DEF TimeInv, DelayInv, Wrapped
<1>9. ASSUME timed.enabled, a # 0
      PROVE  Wrapped(clock - t.iStarttime) = a - timeLeft' /\ a - timeLeft' <= ClockSpan \div 2
  <2>1. CASE reset
    <3>1. clock \in Int /\ timeLeft' = a
      BY <1>1, <1>3, <2>1, Halves
    <3>2. clock - clock = 0 /\ a - a = 0 /\ 0 <= ClockSpan \div 2
      BY <1>2, <3>1, Halves
    <3>3. Wrapped(0) = 0
      BY WrapFacts, Halves
    <3> QED BY <1>5, <2>1, <3>1, <3>2, <3>3
  <2>2. CASE ~reset
    <3>1. timeLeft' = timeLeft + (a - timed.iTimeout) /\ timed.iTimeout # 0 /\ t.iStarttime = timed.iStarttime
      BY <1>3, <1>5, <1>9, <2>2
    <3>2. a - timeLeft' = timed.iTimeout - timeLeft
      BY <1>1, <1>2, <3>1
    <3> QED BY <1>9, <3>1, <3>2 DEF TimeInv, TimeoutInv
  <2> QED BY <2>1, <2>2
<1>10. TimeoutInv'
  BY <1>3, <1>5, <1>9 DEF TimeoutInv, Wrapped
<1> QED BY <1>7, <1>8, <1>10 DEF TimeInv

\* TimeInv is inductive.
LEMMA TimeStays == TimeInv /\ [TimeNext]_timeVars => TimeInv'
<1> SUFFICES ASSUME TimeInv, [TimeNext]_timeVars PROVE TimeInv'
  OBVIOUS
<1>1. CASE UNCHANGED timeVars
  BY <1>1 DEF timeVars, TimeInv, TimeTypeOK, DelayInv, TimeoutInv, Wrapped
<1>2. CASE EnableTask \/ ForceNextIteration \/ DisableTask \/ StartNow
  BY <1>2, CallsKeep
<1>3. CASE TimeTick
  BY <1>3, TickKeeps
<1>4. ASSUME NEW d \in TimeDelays, EnableDelayed(d) \/ DelayTask(d) \/ SetInterval(d) PROVE TimeInv'
  BY <1>4, DelaysKeep
<1>5. ASSUME NEW d \in TimeDelays, NEW delayed \in BOOLEAN, WaitForRequest(d, delayed) PROVE TimeInv'
  BY <1>5, WaitKeeps
<1>6. ASSUME NEW t \in Timeouts, NEW reset \in BOOLEAN, SetTimeout(t, reset) PROVE TimeInv'
  BY <1>6, SetTimeoutKeeps
<1>7. ASSUME NEW completed \in BOOLEAN, ExecuteTask(completed) PROVE TimeInv'
  BY <1>7, ExecuteKeeps
<1> QED BY <1>1, <1>2, <1>3, <1>4, <1>5, <1>6, <1>7 DEF TimeNext

\* TimeInv holds at first.
LEMMA TimeStarts == TimeInit => TimeInv
<1> SUFFICES ASSUME TimeInit PROVE TimeInv
  OBVIOUS
<1>1. 0 \in 0 .. ClockSpan - 1
  BY Halves
<1>2. TimeTypeOK
  BY <1>1 DEF TimeInit, TimeTypeOK
<1>3. timed.enabled = FALSE
  BY DEF TimeInit
<1> QED BY <1>2, <1>3 DEF TimeInv, DelayInv, TimeoutInv

\* The difference of two casts is the cast of the difference.
LEMMA CastDifference ==
  ASSUME NEW c \in 0 .. ClockSpan - 1, NEW s \in 0 .. ClockSpan - 1, NEW T \in Nat, NEW left \in Int,
         T < ClockSpan \div 2, Wrapped(c - s) = T - left, T - left <= ClockSpan \div 2
  PROVE  Signed(Wrapped(Signed(Wrapped(s + T)) - Signed(c))) = left
<1> DEFINE S == ClockSpan
           H == ClockSpan \div 2
<1>1. S \in Nat \ {0} /\ H \in Nat /\ 2 * H <= S /\ S <= 2 * H + 1
  BY Halves
<1> HIDE DEF H
<1>2. T < H /\ T - left <= H
  BY DEF H
<1>3. c - s \in Int /\ -S <= c - s /\ c - s < S /\ s + T \in Int /\ 0 <= s + T /\ s + T < 2 * S
  BY <1>1, <1>2
<1>4. 0 <= T - left /\ (T - left = c - s \/ T - left = c - s + S)
  <2>1. Wrapped(c - s) \in 0 .. S - 1 /\ (Wrapped(c - s) = c - s \/ Wrapped(c - s) = c - s + S)
    BY <1>1, <1>3, WrapFacts
  <2> QED BY <1>1, <2>1
<1>5. PICK e \in 0 .. S - 1 : e = Wrapped(s + T) /\ (e = s + T \/ e = s + T - S)
  <2>1. Wrapped(s + T) \in 0 .. S - 1 /\ (Wrapped(s + T) = s + T \/ Wrapped(s + T) = s + T - S)
    BY <1>1, <1>3, WrapFacts
  <2> QED BY <2>1
<1>6. \A x \in 0 .. S - 1 : Signed(x) = IF x >= H THEN x - S ELSE x
  BY DEF Signed, H
<1>7. PICK a \in Int : a = Signed(e) /\ (a = e \/ a = e - S) /\ a < H /\ a >= H - S
  <2>1. Signed(e) \in Int /\ (Signed(e) = e \/ Signed(e) = e - S) /\ Signed(e) < H /\ Signed(e) >= H - S
    BY <1>1, <1>6
  <2> QED BY <2>1
<1>8. PICK b \in Int : b = Signed(c) /\ (b = c \/ b = c - S) /\ b < H /\ b >= H - S
  <2>1. Signed(c) \in Int /\ (Signed(c) = c \/ Signed(c) = c - S) /\ Signed(c) < H /\ Signed(c) >= H - S
    BY <1>1, <1>6
  <2> QED BY <2>1
<1>9. a - b \in Int /\ -S <= a - b /\ a - b < S
  BY <1>1, <1>7, <1>8
<1>10. PICK w \in 0 .. S - 1 : w = Wrapped(a - b) /\ (w = a - b \/ w = a - b + S)
  <2>1. Wrapped(a - b) \in 0 .. S - 1 /\ (Wrapped(a - b) = a - b \/ Wrapped(a - b) = a - b + S)
    BY <1>1, <1>9, WrapFacts
  <2> QED BY <2>1
<1>11. Signed(w) = left
  <2>1. left < H /\ left >= H - S /\ left > -S
    BY <1>1, <1>2, <1>4
  <2>2. w = left \/ w = left + S \/ w = left - S \/ w = left + 2 * S \/ w = left - 2 * S
    BY <1>1, <1>4, <1>5, <1>7, <1>8, <1>10
  <2>3. w >= 0 /\ w < S
    BY <1>1, <1>10
  <2>4. (left >= 0 /\ w = left) \/ (left < 0 /\ w = left + S)
    BY <1>1, <2>1, <2>2, <2>3
  <2> QED BY <1>1, <1>6, <2>1, <2>3, <2>4
<1> QED BY <1>5, <1>7, <1>8, <1>10, <1>11

\* It says what is to be kept.
LEMMA TimeInvKeeps == TimeInv => TimesKept
<1> SUFFICES ASSUME TimeInv PROVE TimesKept
  OBVIOUS
<1>1. /\ timed \in TimedTask /\ clock \in 0 .. ClockSpan - 1 /\ toGo \in Int /\ timeLeft \in Int
      /\ timed.iDelay \in TimeDelays \cup {0} /\ timed.iTimeout \in Timeouts \cup {0}
      /\ timed.iPreviousMillis \in 0 .. ClockSpan - 1 /\ timed.iStarttime \in 0 .. ClockSpan - 1
  BY Kind DEF TimeInv, TimeTypeOK, TimedTask
<1>2. ASSUME timed.enabled, timed.waiting = "no"
      PROVE  (Due <=> toGo <= 0) /\ TimeUntilNextIteration = (IF toGo < 0 THEN 0 ELSE toGo)
  <2>1. timed.iDelay \in Nat /\ timed.iDelay + MaxLate < ClockSpan \div 2 /\ MaxLate \in Nat
    BY <1>1, Delays, Halves
  <2>2. Wrapped(clock - timed.iPreviousMillis) = timed.iDelay - toGo /\ -MaxLate <= toGo
    BY <1>2 DEF TimeInv, DelayInv
  <2>3. \A d, L, H \in Nat, g \in Int : d + L < H /\ -L <= g =>
          ~(d - g >= H) /\ d - (d - g) = g /\ (d - g >= d <=> g <= 0)
    OBVIOUS
  <2>4. /\ ~(timed.iDelay - toGo >= ClockSpan \div 2) /\ timed.iDelay - (timed.iDelay - toGo) = toGo
        /\ timed.iDelay - toGo >= timed.iDelay <=> toGo <= 0
    BY <1>1, <2>1, <2>2, <2>3, Halves
  <2>5. Due <=> toGo <= 0
    BY <2>2, <2>4 DEF Due
  <2>6. timed.iDelay - Signed(Wrapped(clock - timed.iPreviousMillis)) = toGo
    BY <2>2, <2>4 DEF Signed
  <2> QED BY <2>5, <2>6 DEF TimeUntilNextIteration
<1>3. ASSUME timed.enabled, timed.iTimeout # 0
      PROVE  (TimeoutOver <=> timeLeft < 0) /\ UntilTimeout = timeLeft
  <2>1. timed.iTimeout \in Nat /\ timed.iTimeout < ClockSpan \div 2
    BY <1>1, Delays
  <2>2. Wrapped(clock - timed.iStarttime) = timed.iTimeout - timeLeft /\ timed.iTimeout - timeLeft <= ClockSpan \div 2
    BY <1>3 DEF TimeInv, TimeoutInv
  <2>3. UntilTimeout = timeLeft
    BY <1>1, <2>1, <2>2, CastDifference DEF UntilTimeout
  <2>4. timed.iTimeout - timeLeft > timed.iTimeout <=> timeLeft < 0
    BY <1>1, <2>1
  <2> QED BY <1>3, <2>2, <2>3, <2>4 DEF TimeoutOver
<1> QED BY <1>2, <1>3 DEF TimesKept

\* TaskScheduler, for every span of the clock and whatever its wraps fall on: an enabled
\* task is found due exactly when its time has come and its timeout over exactly when
\* it is, and timeUntilNextIteration() and untilTimeout() tell the time that is left,
\* if delays, and timeouts with the lateness allowed, stay below half of the span.
THEOREM TimesAreKept == TimeSpec => []TimesKept
<1>1. TimeInit => TimeInv
  BY TimeStarts
<1>2. TimeInv /\ [TimeNext]_timeVars => TimeInv'
  BY TimeStays
<1>3. TimeInv => TimesKept
  BY TimeInvKeeps
<1> QED BY <1>1, <1>2, <1>3, PTL DEF TimeSpec

-----------------------------------------------------------------------------
(* TinyGPS++.                                                              *)

\* What the parser's variables hold.
GpsTypeOK ==
  /\ sentence \in [name : Int, term : Int, isChecksum : BOOLEAN, hasFix : BOOLEAN, number : Int]
  /\ elements \in Seq(Customs)
  /\ given \subseteq Fields

\* The list of custom elements is in the order of their sentence names.
Sorted(q) == \A i, j \in 1 .. Len(q) : i < j => Custom[q[i]].name <= Custom[q[j]].name

\* What this sentence has given is staged with its number.
StagedInv == \A f \in given : staged[f] = sentence.number

\* What was committed and not skipped came in an accepted sentence, a location in
\* one with a fix, and all of a location at once.
CommitInv ==
  /\ \A f \in Fields \ skipped : committed[f] = 0 \/ \E fix \in BOOLEAN :
        (f \in Location => fix) /\ <<committed[f], fix>> \in accepted
  /\ \A f, g \in Location \ skipped : committed[f] = committed[g]

\* The inductive invariant.
GpsInv == GpsTypeOK /\ Sorted(elements) /\ StagedInv /\ CommitInv

\* Numbers have a least one,
LEMMA LeastOf ==
  ASSUME NEW T \in SUBSET Nat, T # {}
  PROVE  \E m \in T : \A n \in T : m <= n
<1>1. PICK m \in T : \A n \in T : <<n, m>> \notin OpToRel(<, Nat)
  BY WFMin, NatLessThanWellFounded, Zenon
<1>2. \A n \in T : ~(n < m)
  BY <1>1, Zenon DEF OpToRel
<1> QED BY <1>2

\* and those up to a limit a greatest one.
LEMMA GreatestOf ==
  ASSUME NEW l \in Nat, NEW T \in SUBSET (0 .. l), T # {}
  PROVE  \E m \in T : \A n \in T : n <= m
<1> DEFINE D == {l - n : n \in T}
<1>0. \A n \in T : n \in 0 .. l /\ l - n \in Nat
  OBVIOUS
<1>1. D \in SUBSET Nat /\ D # {}
  BY <1>0, Zenon
<1> HIDE DEF D
<1>2. PICK d \in D : \A e \in D : d <= e
  BY <1>1, LeastOf
<1>3. PICK m \in T : d = l - m
  BY <1>2 DEF D
<1>4. ASSUME NEW n \in T PROVE n <= m
  <2>1. l - n \in D
    BY DEF D
  <2>2. d <= l - n
    BY <1>2, <2>1
  <2>3. l \in Nat /\ m \in 0 .. l /\ n \in 0 .. l
    BY <1>0, <1>3, <1>4
  <2> QED BY <1>3, <2>2, <2>3
<1> QED BY <1>4

\* The search for the first element that is not before a name ends at one.
LEMMA FirstFound ==
  ASSUME elements \in Seq(Customs), NEW name \in Int
  PROVE  /\ First(name) \in 1 .. Len(elements) + 1
         /\ First(name) <= Len(elements) => Custom[elements[First(name)]].name >= name
         /\ \A j \in 1 .. First(name) - 1 : Custom[elements[j]].name < name
<1> DEFINE Stops == {i \in 1 .. Len(elements) + 1 :
                        i <= Len(elements) => Custom[elements[i]].name >= name}
<1>1. Len(elements) \in Nat /\ \A i \in 1 .. Len(elements) : Custom[elements[i]].name \in Int
  BY GpsAssumption
<1>2. Len(elements) + 1 \in Stops /\ Stops \in SUBSET Nat
  BY <1>1
<1>3. \A i \in 1 .. Len(elements) : i \notin Stops => Custom[elements[i]].name < name
  BY <1>1
<1>4. \A i \in Stops : /\ i \in 1 .. Len(elements) + 1
                       /\ i <= Len(elements) => Custom[elements[i]].name >= name
  OBVIOUS
<1> HIDE DEF Stops
<1>5. PICK i \in Stops : \A j \in Stops : i <= j
  BY <1>2, LeastOf
<1>6. i \in 1 .. Len(elements) + 1
  BY <1>4
<1>7. \A j \in 1 .. i - 1 : Custom[elements[j]].name < name
  <2> SUFFICES ASSUME NEW j \in 1 .. i - 1 PROVE Custom[elements[j]].name < name
    OBVIOUS
  <2>1. j \in 1 .. Len(elements) /\ ~(i <= j)
    BY <1>1, <1>6
  <2>2. j \notin Stops
    BY <1>5, <2>1
  <2> QED BY <1>3, <2>1, <2>2
<1>8. \E k \in 1 .. Len(elements) + 1 :
         /\ k <= Len(elements) => Custom[elements[k]].name >= name
         /\ \A j \in 1 .. k - 1 : Custom[elements[j]].name < name
  BY <1>4, <1>6, <1>7
<1> QED BY <1>8 DEF First

\* In a sorted list every element is among the candidates of its sentence.
LEMMA SortedFinds ==
  ASSUME elements \in Seq(Customs), Sorted(elements), NEW k \in 1 .. Len(elements)
  PROVE  elements[k] \in Candidates(Custom[elements[k]].name)
<1> DEFINE name == Custom[elements[k]].name
<1>1. /\ Len(elements) \in Nat
      /\ \A i \in 1 .. Len(elements) : elements[i] \in Customs
      /\ \A i \in 1 .. Len(elements) : Custom[elements[i]].name \in Int
  BY GpsAssumption
<1>2. name \in Int
  BY <1>1
<1> HIDE DEF name
<1> DEFINE f == First(name)
<1>3. /\ f \in 1 .. Len(elements) + 1
      /\ f <= Len(elements) => Custom[elements[f]].name >= name
      /\ \A j \in 1 .. f - 1 : Custom[elements[j]].name < name
  BY <1>2, FirstFound
<1> HIDE DEF f
<1>4. f <= k
  <2> SUFFICES ASSUME k < f PROVE FALSE
    BY <1>1, <1>3
  <2>1. k \in 1 .. f - 1
    BY <1>1, <1>3
  <2>2. Custom[elements[k]].name < name
    BY <1>3, <2>1
  <2> QED BY <1>2, <2>2 DEF name
<1>5. ASSUME NEW i \in f .. k PROVE Custom[elements[i]].name = name
  <2>1. /\ f \in 1 .. Len(elements) /\ i \in 1 .. Len(elements)
        /\ (f < i \/ i = f) /\ (i < k \/ i = k)
    BY <1>1, <1>3, <1>4, <1>5
  <2>2. Custom[elements[f]].name >= name
    BY <1>1, <1>3, <2>1
  <2>3. f < i => Custom[elements[f]].name <= Custom[elements[i]].name
    BY <2>1 DEF Sorted
  <2>4. i < k => Custom[elements[i]].name <= name
    BY <2>1 DEF Sorted, name
  <2>5. i = k => Custom[elements[i]].name = name
    BY DEF name
  <2>6. Custom[elements[i]].name \in Int /\ Custom[elements[f]].name \in Int
    BY <1>1, <2>1
  <2> QED BY <1>2, <2>1, <2>2, <2>3, <2>4, <2>5, <2>6
<1>6. k \in {j \in 1 .. Len(elements) : j >= f /\ \A i \in f .. j : Custom[elements[i]].name = name}
  BY <1>4, <1>5, <1>1, <1>3
<1>7. elements[k] \in Candidates(name)
  BY <1>6 DEF Candidates, f
<1> QED BY <1>7 DEF name

\* The candidates are elements.
LEMMA CandidatesAreCustom ==
  ASSUME elements \in Seq(Customs), NEW name
  PROVE  Candidates(name) \subseteq Customs
BY DEF Candidates

\* The parser starts with nothing.
LEMMA GpsStarts == GpsInit => GpsInv
<1> SUFFICES ASSUME GpsInit PROVE GpsInv
  OBVIOUS
<1>1. GpsTypeOK
  BY DEF GpsInit, GpsTypeOK, GPVTG
<1>2. Sorted(elements)
  <2>1. elements = <<>> /\ Len(<<>>) = 0
    BY DEF GpsInit
  <2> QED BY <2>1 DEF Sorted
<1>3. StagedInv
  BY DEF GpsInit, StagedInv
<1>4. CommitInv
  BY DEF GpsInit, CommitInv, Fields, BuiltIn
<1> QED BY <1>1, <1>2, <1>3, <1>4 DEF GpsInv

\* The next term of a sentence.
LEMMA NextTermFacts ==
  ASSUME sentence \in [name : Int, term : Int, isChecksum : BOOLEAN, hasFix : BOOLEAN, number : Int],
         NEW name \in Int, NEW fix \in BOOLEAN, NEW star \in BOOLEAN,
         NEW s \in {sentence, [sentence EXCEPT !.name = name], [sentence EXCEPT !.hasFix = fix]}
  PROVE  /\ NextTerm(s, star) \in [name : Int, term : Int, isChecksum : BOOLEAN, hasFix : BOOLEAN, number : Int]
         /\ NextTerm(s, star).number = sentence.number
<1>1. s \in [name : Int, term : Int, isChecksum : BOOLEAN, hasFix : BOOLEAN, number : Int]
      /\ s.number = sentence.number
  OBVIOUS
<1> DEFINE t == [s EXCEPT !.term = s.term + 1]
<1>2. t \in [name : Int, term : Int, isChecksum : BOOLEAN, hasFix : BOOLEAN, number : Int]
      /\ t.number = s.number
  BY <1>1
<1>3. NextTerm(s, star) = [t EXCEPT !.isChecksum = star]
  BY DEF NextTerm
<1> HIDE DEF t
<1> QED BY <1>1, <1>2, <1>3

\* '$' begins a sentence that has given nothing.
LEMMA DollarKeeps == GpsInv /\ Dollar => GpsInv'
<1> SUFFICES ASSUME GpsInv, Dollar PROVE GpsInv'
  OBVIOUS
<1>1. UNCHANGED <<staged, committed, elements, accepted, skipped>> /\ given' = {}
  BY DEF Dollar
<1>2. sentence' \in [name : Int, term : Int, isChecksum : BOOLEAN, hasFix : BOOLEAN, number : Int]
  BY DEF Dollar, GpsInv, GpsTypeOK, GPVTG
<1>3. GpsTypeOK' /\ StagedInv'
  BY <1>1, <1>2 DEF GpsInv, GpsTypeOK, StagedInv
<1>4. Sorted(elements)'
  BY <1>1 DEF GpsInv, Sorted
<1>5. CommitInv'
  BY <1>1 DEF GpsInv, CommitInv
<1> QED BY <1>3, <1>4, <1>5 DEF GpsInv

\* The first term changes the name of the sentence and not its number.
LEMMA NameKeeps == GpsInv /\ EndOfName => GpsInv'
<1> SUFFICES ASSUME GpsInv, EndOfName PROVE GpsInv'
  OBVIOUS
<1>1. UNCHANGED <<staged, committed, elements, given, accepted, skipped>>
  BY DEF EndOfName
<1>2. PICK name \in Int : sentence' = NextTerm([sentence EXCEPT !.name = name], FALSE)
  <2>1. PICK name \in {GPGGA, GPRMC, GPVTG} : sentence' = NextTerm([sentence EXCEPT !.name = name], FALSE)
    BY Zenon DEF EndOfName
  <2>2. name \in Int
    BY DEF GPVTG, GPGGA, GPRMC
  <2> QED BY <2>1, <2>2, Zenon
<1>3. /\ sentence' \in [name : Int, term : Int, isChecksum : BOOLEAN, hasFix : BOOLEAN, number : Int]
      /\ sentence'.number = sentence.number
  BY <1>2, NextTermFacts DEF GpsInv, GpsTypeOK
<1> QED BY <1>1, <1>3 DEF GpsInv, GpsTypeOK, Sorted, StagedInv, CommitInv

\* A term is staged under the number of its sentence.
LEMMA TermKeeps == GpsInv /\ EndOfTerm => GpsInv'
<1> SUFFICES ASSUME GpsInv, EndOfTerm PROVE GpsInv'
  OBVIOUS
<1>1. PICK set \in SUBSET Fields, star \in BOOLEAN, fix \in BOOLEAN :
        /\ staged' = [f \in Fields |-> IF f \in set THEN sentence.number ELSE staged[f]]
        /\ given' = given \cup set
        /\ sentence' = NextTerm([sentence EXCEPT !.hasFix = fix], star)
  <2> DEFINE field == IF sentence.name = GPVTG THEN "none" ELSE FieldOf(sentence.name, sentence.term)
             taken == {c \in Candidates(sentence.name) : Custom[c].term = sentence.term}
             fills(empty) == (IF empty THEN {} ELSE Sets(field) \cap Fields) \cup taken
  <2>1. taken \subseteq Fields
    BY CandidatesAreCustom DEF GpsInv, GpsTypeOK, Fields
  <2>2. sentence.hasFix \in BOOLEAN
    BY DEF GpsInv, GpsTypeOK
  <2> HIDE DEF taken
  <2>3. \A empty \in BOOLEAN : fills(empty) \subseteq Fields
    BY <2>1
  <2>4. PICK empty \in BOOLEAN, star \in BOOLEAN, fix \in BOOLEAN :
          /\ staged' = [f \in Fields |-> IF f \in fills(empty) THEN sentence.number ELSE staged[f]]
          /\ given' = given \cup fills(empty)
          /\ sentence' = NextTerm([sentence EXCEPT !.hasFix = fix], star)
    <3> HIDE DEF field, fills
    <3>1. PICK empty \in IF field \in MaySkip THEN BOOLEAN ELSE {FALSE},
               star \in IF sentence.term \in Ends THEN BOOLEAN ELSE {FALSE} :
          /\ staged' = [f \in Fields |-> IF f \in fills(empty) THEN sentence.number ELSE staged[f]]
          /\ given' = given \cup fills(empty)
          /\ \E fix \in IF field = "fix" THEN BOOLEAN ELSE {sentence.hasFix} :
                sentence' = NextTerm([sentence EXCEPT !.hasFix = fix], star)
      BY Zenon DEF EndOfTerm, field, taken, fills
    <3>2. PICK fix \in IF field = "fix" THEN BOOLEAN ELSE {sentence.hasFix} :
             sentence' = NextTerm([sentence EXCEPT !.hasFix = fix], star)
      BY <3>1
    <3>3. empty \in BOOLEAN /\ star \in BOOLEAN /\ fix \in BOOLEAN
      BY <2>2
    <3> QED BY <3>1, <3>2, <3>3
  <2> HIDE DEF fills
  <2>5. fills(empty) \subseteq Fields
    BY <2>3
  <2> DEFINE P == fills(empty)
  <2>6. /\ P \in SUBSET Fields
        /\ staged' = [f \in Fields |-> IF f \in P THEN sentence.number ELSE staged[f]]
        /\ given' = given \cup P
        /\ sentence' = NextTerm([sentence EXCEPT !.hasFix = fix], star)
    BY <2>4, <2>5
  <2> HIDE DEF P, field
  <2> QED BY <2>6
<1>2. UNCHANGED <<committed, elements, accepted, skipped>>
  BY DEF EndOfTerm
<1>3. /\ sentence' \in [name : Int, term : Int, isChecksum : BOOLEAN, hasFix : BOOLEAN, number : Int]
      /\ sentence'.number = sentence.number
  BY <1>1, NextTermFacts DEF GpsInv, GpsTypeOK
<1>4. StagedInv'
  BY <1>1, <1>3 DEF GpsInv, GpsTypeOK, StagedInv
<1> QED BY <1>1, <1>2, <1>3, <1>4 DEF GpsInv, GpsTypeOK, Sorted, CommitInv

\* A sentence commits all of a location or nothing of it, and with a fix only.
LEMMA LocationTogether ==
  ASSUME GpsInv
  PROVE  /\ sentence.hasFix /\ sentence.name \in {GPRMC, GPGGA} => Location \subseteq CommittedBy(sentence)
         /\ ~(sentence.hasFix /\ sentence.name \in {GPRMC, GPGGA}) => Location \cap CommittedBy(sentence) = {}
<1>1. Candidates(sentence.name) \cap Location = {}
  BY CandidatesAreCustom, GpsAssumption DEF GpsInv, GpsTypeOK, BuiltIn
<1> DEFINE C == Candidates(sentence.name)
<1> HIDE DEF C
<1>2. CommittedBy(sentence) =
       (CASE sentence.name = GPRMC -> {"date", "time"} \cup (IF sentence.hasFix THEN {"speed", "course"} \cup Location ELSE {})
          [] sentence.name = GPGGA -> {"time", "satellites", "hdop"} \cup (IF sentence.hasFix THEN {"altitude"} \cup Location ELSE {})
          [] OTHER -> {}) \cup C
  BY Zenon DEF CommittedBy, C
<1> QED BY <1>1, <1>2 DEF C, Location, GPRMC, GPGGA

\* The checksum.
LEMMA ChecksumKeeps == GpsInv /\ EndOfChecksum => GpsInv'
<1> SUFFICES ASSUME GpsInv, EndOfChecksum PROVE GpsInv'
  OBVIOUS
<1> DEFINE C == CommittedBy(sentence)
<1>1. PICK right \in BOOLEAN :
        /\ committed' = [f \in Fields |-> IF right /\ f \in C THEN staged[f] ELSE committed[f]]
        /\ accepted' = IF right THEN accepted \cup {<<sentence.number, sentence.hasFix>>} ELSE accepted
        /\ skipped' = IF right THEN (skipped \ C) \cup (C \ given) ELSE skipped
  BY Zenon DEF EndOfChecksum, Committed
<1>2. UNCHANGED <<staged, elements, given>> /\ sentence' = NextTerm(sentence, FALSE)
  BY DEF EndOfChecksum
<1>3. \/ Location \subseteq C /\ sentence.hasFix
      \/ Location \cap C = {}
  BY LocationTogether
<1> HIDE DEF C
<1>4. /\ sentence' \in [name : Int, term : Int, isChecksum : BOOLEAN, hasFix : BOOLEAN, number : Int]
      /\ sentence'.number = sentence.number
  BY <1>2, NextTermFacts DEF GpsInv, GpsTypeOK
<1>5. sentence.hasFix \in BOOLEAN
  BY DEF GpsInv, GpsTypeOK
<1>6. \A f \in Fields \ skipped' : committed'[f] = 0 \/ \E fix \in BOOLEAN :
        (f \in Location => fix) /\ <<committed'[f], fix>> \in accepted'
  <2> SUFFICES ASSUME NEW f \in Fields, f \notin skipped'
               PROVE  committed'[f] = 0 \/ \E fix \in BOOLEAN :
                        (f \in Location => fix) /\ <<committed'[f], fix>> \in accepted'
    OBVIOUS
  <2>1. CASE right /\ f \in C
    <3>1. f \in given /\ committed'[f] = sentence.number
      BY <1>1, <2>1 DEF GpsInv, StagedInv
    <3>2. <<sentence.number, sentence.hasFix>> \in accepted'
      BY <1>1, <2>1
    <3>3. f \in Location => sentence.hasFix
      BY <1>3, <2>1
    <3> QED BY <1>5, <3>1, <3>2, <3>3
  <2>2. CASE ~(right /\ f \in C)
    <3>1. f \notin skipped /\ committed'[f] = committed[f] /\ accepted \subseteq accepted'
      BY <1>1, <2>2
    <3> QED BY <3>1 DEF GpsInv, CommitInv
  <2> QED BY <2>1, <2>2
<1>7. \A f, g \in Location \ skipped' : committed'[f] = committed'[g]
  <2> SUFFICES ASSUME NEW f \in Location, NEW g \in Location, f \notin skipped', g \notin skipped'
               PROVE  committed'[f] = committed'[g]
    OBVIOUS
  <2>1. f \in Fields /\ g \in Fields
    BY DEF Fields, BuiltIn
  <2>2. CASE right /\ Location \subseteq C
    BY <1>1, <2>1, <2>2 DEF GpsInv, StagedInv
  <2>3. CASE ~right \/ Location \cap C = {}
    BY <1>1, <2>1, <2>3 DEF GpsInv, CommitInv
  <2> QED BY <1>3, <2>2, <2>3
<1> QED BY <1>2, <1>4, <1>6, <1>7 DEF GpsInv, GpsTypeOK, Sorted, StagedInv, CommitInv

\* p is q with the element e put behind the place k.
InsertedAt(p, q, e, k) ==
  /\ Len(p) = Len(q) + 1
  /\ \A i \in 1 .. Len(p) : p[i] = IF i <= k THEN q[i] ELSE IF i = k + 1 THEN e ELSE q[i - 1]

PutAt(q, e, k) == SubSeq(q, 1, k) \o <<e>> \o SubSeq(q, k + 1, Len(q))

\* Two parts of a sequence with an element between them.
LEMMA Inserted ==
  ASSUME NEW S, NEW q \in Seq(S), NEW e \in S, NEW k \in 0 .. Len(q)
  PROVE  PutAt(q, e, k) \in Seq(S) /\ InsertedAt(PutAt(q, e, k), q, e, k)
<1> DEFINE p == PutAt(q, e, k)
<1>1. k \in Nat /\ Len(q) \in Nat /\ k <= Len(q)
  OBVIOUS
<1> DEFINE a == SubSeq(q, 1, k)
           b == SubSeq(q, k + 1, Len(q))
           d == <<e>>
<1>2. a \in Seq(S) /\ Len(a) = k /\ \A i \in 1 .. k : a[i] = q[i]
  BY <1>1
<1>3. b \in Seq(S) /\ Len(b) = Len(q) - k /\ \A i \in 1 .. Len(q) - k : b[i] = q[k + i]
  BY <1>1
<1>4. d \in Seq(S) /\ Len(d) = 1 /\ d[1] = e
  OBVIOUS
<1>5. p = (a \o d) \o b
  BY DEF PutAt
<1> HIDE DEF a, b, d, p
<1> DEFINE f == a \o d
<1>6. f \in Seq(S) /\ Len(f) = k + 1 /\ \A i \in 1 .. k + 1 : f[i] = IF i <= k THEN a[i] ELSE d[i - k]
  <2>1. /\ f \in Seq(S) /\ Len(f) = Len(a) + Len(d)
        /\ \A i \in 1 .. Len(a) + Len(d) : f[i] = IF i <= Len(a) THEN a[i] ELSE d[i - Len(a)]
    BY <1>2, <1>4, ConcatProperties
  <2>2. Len(a) = k /\ Len(a) + Len(d) = k + 1
    BY <1>1, <1>2, <1>4
  <2> HIDE DEF f
  <2> QED BY <2>1, <2>2
<1>7. p = f \o b
  BY <1>5
<1> HIDE DEF f
<1>8. p \in Seq(S) /\ Len(p) = Len(q) + 1
      /\ \A i \in 1 .. Len(p) : p[i] = IF i <= k + 1 THEN f[i] ELSE b[i - (k + 1)]
  <2>1. /\ f \o b \in Seq(S) /\ Len(f \o b) = Len(f) + Len(b)
        /\ \A i \in 1 .. Len(f) + Len(b) : (f \o b)[i] = IF i <= Len(f) THEN f[i] ELSE b[i - Len(f)]
    BY <1>3, <1>6, ConcatProperties
  <2>2. Len(f) = k + 1 /\ Len(f) + Len(b) = Len(q) + 1
    BY <1>1, <1>3, <1>6
  <2> QED BY <1>7, <2>1, <2>2
<1>9. ASSUME NEW i \in 1 .. Len(p)
      PROVE  p[i] = IF i <= k THEN q[i] ELSE IF i = k + 1 THEN e ELSE q[i - 1]
  <2>1. CASE i <= k
    <3>1. i \in 1 .. k /\ i \in 1 .. k + 1 /\ i <= k + 1
      BY <1>1, <1>8, <2>1
    <3> QED BY <1>2, <1>6, <1>8, <2>1, <3>1
  <2>2. CASE i = k + 1
    <3>1. i \in 1 .. k + 1 /\ ~(i <= k) /\ i - k = 1
      BY <1>1, <1>8, <2>2
    <3> QED BY <1>4, <1>6, <1>8, <2>2, <3>1
  <2>3. CASE i > k + 1
    <3>1. /\ i - (k + 1) \in 1 .. Len(q) - k /\ ~(i <= k + 1) /\ ~(i <= k) /\ i # k + 1
          /\ k + (i - (k + 1)) = i - 1
      <4> DEFINE n == Len(q)
      <4>1. n \in Nat /\ i \in 1 .. n + 1
        BY <1>1, <1>8
      <4> HIDE DEF n
      <4>2. i - (k + 1) \in 1 .. n - k /\ k + (i - (k + 1)) = i - 1
        BY <1>1, <4>1, <2>3
      <4> QED BY <1>1, <4>1, <4>2, <2>3 DEF n
    <3>2. b[i - (k + 1)] = q[k + (i - (k + 1))]
      BY <1>3, <3>1
    <3>3. p[i] = b[i - (k + 1)]
      BY <1>8, <3>1
    <3> QED BY <3>1, <3>2, <3>3
  <2>4. i \in Int /\ k + 1 \in Int /\ k \in Int
    BY <1>1
  <2>5. i <= k \/ i = k + 1 \/ i > k + 1
    BY <2>4
  <2> QED BY <2>1, <2>2, <2>3, <2>5
<1>10. p \in Seq(S) /\ InsertedAt(p, q, e, k)
  BY <1>8, <1>9 DEF InsertedAt
<1> QED BY <1>10 DEF p

\* begin() keeps the list in order.
LEMMA InsertKeeps == GpsInv /\ InsertCustom => GpsInv'
<1> SUFFICES ASSUME GpsInv, InsertCustom PROVE GpsInv'
  OBVIOUS
<1> DEFINE NotAfter(x, c) == \/ Custom[x].name < Custom[c].name
                             \/ Custom[x].name = Custom[c].name /\ Custom[x].term <= Custom[c].term
           before(c) == {i \in 1 .. Len(elements) : \A j \in 1 .. i : NotAfter(elements[j], c)}
           place(c) == IF before(c) = {} THEN 0 ELSE CHOOSE i \in before(c) : \A j \in before(c) : j <= i
<1>1. PICK c \in Customs :
        elements' = SubSeq(elements, 1, place(c)) \o <<c>> \o SubSeq(elements, place(c) + 1, Len(elements))
  BY Zenon DEF InsertCustom
<1>2. /\ elements \in Seq(Customs) /\ Len(elements) \in Nat
      /\ \A i \in 1 .. Len(elements) : Custom[elements[i]].name \in Int /\ Custom[elements[i]].term \in Int
      /\ Custom[c].name \in Int /\ Custom[c].term \in Int
  BY GpsAssumption DEF GpsInv, GpsTypeOK
<1> DEFINE B == before(c)
           k == place(c)
<1>3. B \in SUBSET (0 .. Len(elements)) /\ 0 \notin B
  BY <1>2
<1>4. ASSUME NEW i \in B PROVE i \in 1 .. Len(elements) /\ \A j \in 1 .. i : NotAfter(elements[j], c)
  OBVIOUS
<1>5. ASSUME NEW i \in 1 .. Len(elements), i \notin B PROVE \E j \in 1 .. i : ~NotAfter(elements[j], c)
  BY <1>5
<1>6. k = IF B = {} THEN 0 ELSE CHOOSE i \in B : \A j \in B : j <= i
  OBVIOUS
<1>7. elements' = SubSeq(elements, 1, k) \o <<c>> \o SubSeq(elements, k + 1, Len(elements))
  BY <1>1
<1> HIDE DEF NotAfter, before, place, B, k
<1>8. /\ k \in 0 .. Len(elements)
      /\ k = 0 \/ k \in B
      /\ \A j \in B : j <= k
  <2>1. CASE B = {}
    BY <1>2, <1>6, <2>1
  <2>2. CASE B # {}
    <3>1. \E i \in B : \A j \in B : j <= i
      BY <1>2, <1>3, <2>2, GreatestOf
    <3>2. k \in B /\ \A j \in B : j <= k
      BY <1>6, <2>2, <3>1
    <3> QED BY <1>3, <3>2
  <2> QED BY <2>1, <2>2
<1>9. \A i \in 1 .. Len(elements) : i <= k => Custom[elements[i]].name <= Custom[c].name
  <2> SUFFICES ASSUME NEW i \in 1 .. Len(elements), i <= k
               PROVE  Custom[elements[i]].name <= Custom[c].name
    OBVIOUS
  <2>1. k \in B /\ i \in 1 .. k
    BY <1>2, <1>8
  <2>2. NotAfter(elements[i], c)
    BY <1>4, <2>1
  <2> QED BY <1>2, <2>2 DEF NotAfter
<1>10. \A i \in 1 .. Len(elements) : i > k => Custom[elements[i]].name >= Custom[c].name
  <2> SUFFICES ASSUME NEW i \in 1 .. Len(elements), i > k
               PROVE  Custom[elements[i]].name >= Custom[c].name
    OBVIOUS
  <2>1. k + 1 \in 1 .. Len(elements) /\ k + 1 <= i /\ ~(k + 1 <= k)
    BY <1>2, <1>8
  <2>2. k + 1 \notin B
    BY <1>8, <2>1
  <2>3. PICK j \in 1 .. k + 1 : ~NotAfter(elements[j], c)
    BY <1>5, <2>1, <2>2
  <2>4. j = k + 1
    <3>1. CASE k \in B
      <4>1. j \notin 1 .. k
        BY <1>4, <2>3, <3>1
      <4> QED BY <1>8, <4>1
    <3>2. CASE k = 0
      BY <3>2
    <3> QED BY <1>8, <3>1, <3>2
  <2>5. Custom[elements[k + 1]].name >= Custom[c].name
    BY <1>2, <2>1, <2>3, <2>4 DEF NotAfter
  <2>6. k + 1 = i \/ k + 1 < i
    BY <2>1, <1>8
  <2>7. k + 1 < i => Custom[elements[k + 1]].name <= Custom[elements[i]].name
    BY <2>1 DEF GpsInv, Sorted
  <2> QED BY <1>2, <2>1, <2>5, <2>6, <2>7
<1> DEFINE p == elements'
<1>11. /\ p \in Seq(Customs) /\ Len(p) = Len(elements) + 1
       /\ \A i \in 1 .. Len(p) : p[i] = IF i <= k THEN elements[i] ELSE IF i = k + 1 THEN c ELSE elements[i - 1]
  <2>1. elements \in Seq(Customs) /\ c \in Customs /\ k \in 0 .. Len(elements)
    BY <1>2, <1>8
  <2>2. p \in Seq(Customs) /\ InsertedAt(p, elements, c, k)
    <3>1. PutAt(elements, c, k) \in Seq(Customs) /\ InsertedAt(PutAt(elements, c, k), elements, c, k)
      BY <2>1, Inserted, Zenon
    <3>2. p = PutAt(elements, c, k)
      BY <1>7 DEF PutAt
    <3> HIDE DEF p
    <3> QED BY <3>1, <3>2
  <2> QED BY <2>2 DEF InsertedAt
<1>12. Sorted(p)
  <2> SUFFICES ASSUME NEW i \in 1 .. Len(p), NEW j \in 1 .. Len(p), i < j
               PROVE  Custom[p[i]].name <= Custom[p[j]].name
    BY DEF Sorted
  <2> HIDE DEF p
  <2> DEFINE N(x) == Custom[x].name
  <2>0. \A a, b \in 1 .. Len(elements) : a < b => N(elements[a]) <= N(elements[b])
    BY DEF GpsInv, Sorted
  <2>1. CASE j <= k
    <3>1. p[i] = elements[i] /\ p[j] = elements[j] /\ i \in 1 .. Len(elements) /\ j \in 1 .. Len(elements)
      BY <1>2, <1>8, <1>11, <2>1
    <3> QED BY <2>0, <3>1
  <2>2. CASE j = k + 1
    <3>1. p[i] = elements[i] /\ p[j] = c /\ i \in 1 .. Len(elements) /\ i <= k
      BY <1>2, <1>8, <1>11, <2>2
    <3> QED BY <1>9, <3>1
  <2>3. CASE j > k + 1 /\ i = k + 1
    <3>1. p[i] = c /\ p[j] = elements[j - 1] /\ j - 1 \in 1 .. Len(elements) /\ j - 1 > k
      BY <1>2, <1>8, <1>11, <2>3
    <3>2. N(elements[j - 1]) >= N(c) /\ N(elements[j - 1]) \in Int /\ N(c) \in Int
      BY <1>2, <1>10, <3>1
    <3> QED BY <3>1, <3>2
  <2>4. CASE j > k + 1 /\ i # k + 1
    <3> DEFINE a == IF i <= k THEN i ELSE i - 1
    <3>1. p[i] = elements[a] /\ p[j] = elements[j - 1] /\ j - 1 \in 1 .. Len(elements)
          /\ a \in 1 .. Len(elements) /\ a < j - 1
      BY <1>2, <1>8, <1>11, <2>4
    <3> QED BY <2>0, <3>1
  <2> QED BY <1>8, <1>11, <2>1, <2>2, <2>3, <2>4
<1>13. UNCHANGED <<sentence, staged, committed, given, accepted, skipped>>
  BY DEF InsertCustom
<1> QED BY <1>11, <1>12, <1>13 DEF GpsInv, GpsTypeOK, Sorted, StagedInv, CommitInv

\* Every step keeps the invariant.
LEMMA GpsStays == GpsInv /\ [GpsNext]_gpsVars => GpsInv'
<1>1. GpsInv /\ UNCHANGED gpsVars => GpsInv'
  BY DEF gpsVars, GpsInv, GpsTypeOK, Sorted, StagedInv, CommitInv
<1> QED
  BY <1>1, DollarKeeps, ChecksumKeeps, NameKeeps, TermKeeps, InsertKeeps DEF GpsNext

\* What the invariant says of the fields and the custom elements.
LEMMA GpsInvKeeps == GpsInv => OnlyChecked
<1> SUFFICES ASSUME GpsInv PROVE OnlyChecked
  OBVIOUS
<1>1. \A f \in Fields \ skipped : committed[f] = 0 \/
          \E fix \in IF f \in Location THEN {TRUE} ELSE BOOLEAN : <<committed[f], fix>> \in accepted
  BY DEF GpsInv, CommitInv
<1>2. \A f, g \in Location \ skipped : committed[f] = committed[g]
  BY DEF GpsInv, CommitInv
<1>3. \A c \in Customs : (\E i \in 1 .. Len(elements) : elements[i] = c) => c \in Candidates(Custom[c].name)
  BY SortedFinds DEF GpsInv, GpsTypeOK
<1> QED BY <1>1, <1>2, <1>3 DEF OnlyChecked

\* TinyGPS++, for any custom elements and any sentences, cut wherever they are:
\* what the sketch reads came in a sentence whose checksum was right, a location in
\* one with a fix and all of it from the same, except for a field that its sentence
\* left empty; and the search finds every custom element that begin() has inserted.
THEOREM OnlyCheckedIsRead == GpsSpec => []OnlyChecked
<1>1. GpsInit => GpsInv
  BY GpsStarts
<1>2. GpsInv /\ [GpsNext]_gpsVars => GpsInv'
  BY GpsStays
<1>3. GpsInv => OnlyChecked
  BY GpsInvKeeps
<1> QED BY <1>1, <1>2, <1>3, PTL DEF GpsSpec

-----------------------------------------------------------------------------
(* ESPAsyncTCP, the client.                                                *)

\* What a client and its tracker hold.
EspClient ==
  [pcb : BOOLEAN, deleted : BOOLEAN, stale : BOOLEAN, used : BOOLEAN, hasClient : BOOLEAN,
   closeError : {"ERR_OK", "ERR_ABRT", "ERR_CONN", "ERR_RST"}, errored : BOOLEAN,
   closePcb : BOOLEAN, busy : BOOLEAN, unacked : 0 .. LenModulus - 1, unsent : 0 .. LenModulus - 1,
   sendFailed : BOOLEAN, aborted : BOOLEAN]

\* A client whose errors will still be told.
Untold(c) == ~c.errored /\ c.closeError # "ERR_ABRT"

\* A client in a callback: the tracker has ERR_ABRT to return exactly if the
\* connection was aborted, which it never is while there is a pcb; and of n bytes
\* that lwIP holds it counts every one.
InCallback(c, n) ==
  /\ c \in EspClient
  /\ ~c.stale /\ (c.hasClient <=> ~c.deleted) /\ c.used
  /\ c.aborted <=> CloseErrorOf(c) = "ERR_ABRT"
  /\ c.pcb => ~c.deleted /\ Untold(c)
  /\ c.pcb /\ ~c.sendFailed => (c.unacked + c.unsent) % LenModulus = n

\* The inductive invariant, between two callbacks.  A connection that lwIP knows has
\* a client that can still tell of its end, and only an open one has bytes.
EspInv ==
  /\ deletes \in BOOLEAN /\ esp \in EspClient
  /\ lwip \in [state : {"none", "resolving", "connecting", "established"}, unacked : 0 .. MaxUnacked]
  /\ ~esp.stale /\ ~esp.aborted /\ (esp.hasClient <=> ~esp.deleted)
  /\ answer.returned = "ERR_ABRT" <=> answer.aborted
  /\ esp.pcb <=> lwip.state = "established"
  /\ lwip.state # "none" => esp.used /\ ~esp.deleted /\ Untold(esp)
  /\ ~esp.used => Untold(esp)
  /\ ~esp.used \/ lwip.state \in {"resolving", "connecting"} => esp.unacked = 0 /\ esp.unsent = 0
  /\ lwip.state # "established" => lwip.unacked = 0
  /\ esp.pcb /\ ~esp.sendFailed => (esp.unacked + esp.unsent) % LenModulus = lwip.unacked

\* Remainders: of numbers that are small, and of a sum with a remainder.
LEMMA LengthFacts ==
  /\ LenModulus \in Nat \ {0}
  /\ \A a \in Int : a % LenModulus \in 0 .. LenModulus - 1
  /\ \A a \in 0 .. LenModulus - 1 : a % LenModulus = a
  /\ \A a, b \in Int : ((a % LenModulus) + b) % LenModulus = (a + b) % LenModulus
<1>1. LenModulus \in Nat \ {0}
  BY EspAssumption
<1>2. ASSUME NEW M \in Nat \ {0}, NEW a \in Int PROVE a % M \in 0 .. M - 1
  OBVIOUS
<1>3. ASSUME NEW M \in Nat \ {0}, NEW a \in 0 .. M - 1 PROVE a % M = a
  OBVIOUS
<1>4. ASSUME NEW M \in Nat \ {0}, NEW a \in Int, NEW b \in Int
      PROVE  ((a % M) + b) % M = (a + b) % M
  <2>1. a = M * (a \div M) + (a % M) /\ a \div M \in Int /\ a % M \in Int
    OBVIOUS
  <2>2. ASSUME NEW q \in Int, NEW x \in Int PROVE (M * q + x) % M = x % M
    <3> DEFINE r == x % M
               d == x \div M
    <3>1. x = M * d + r /\ d \in Int /\ r \in 0 .. M - 1
      OBVIOUS
    <3> HIDE DEF r, d
    <3>2. M * q + x = M * (q + d) + r /\ q + d \in Int
      BY <3>1
    <3>3. ASSUME NEW k \in Int PROVE (M * k + r) % M = r
      BY <3>1
    <3>4. (M * (q + d) + r) % M = r
      BY <3>2, <3>3
    <3> QED BY <3>2, <3>4 DEF r
  <2> DEFINE q == a \div M
             r == a % M
  <2>3. a + b = M * q + (r + b) /\ r + b \in Int /\ q \in Int
    BY <2>1
  <2> HIDE DEF q, r
  <2>4. (M * q + (r + b)) % M = (r + b) % M
    BY <2>2, <2>3
  <2> QED BY <2>3, <2>4 DEF r
<1> QED BY <1>1, <1>2, <1>3, <1>4

\* A client that is there may be used,
LEMMA AccessThere ==
  ASSUME NEW n, NEW c, InCallback(c, n), ~c.deleted
  PROVE  Access(c) = c
BY DEF Access, InCallback, EspClient

\* and once its pcb is gone it may be deleted.
LEMMA DeletedKeeps ==
  ASSUME NEW n, NEW c, InCallback(c, n), ~c.pcb
  PROVE  InCallback(Deleted(c), n)
BY DEF Deleted, InCallback, EspClient, CloseErrorOf, Untold

\* A field that is no part of the account.
LEMMA MarksKeep ==
  ASSUME NEW n, NEW c, InCallback(c, n)
  PROVE  /\ \A b \in BOOLEAN : /\ InCallback([c EXCEPT !.closePcb = b], n)
                               /\ InCallback([c EXCEPT !.busy = b], n)
                               /\ [c EXCEPT !.closePcb = b].deleted = c.deleted
                               /\ [c EXCEPT !.busy = b].deleted = c.deleted
BY DEF InCallback, EspClient, CloseErrorOf, Untold

\* ERR_OK as the error to return, while nothing was aborted.
LEMMA OkKeeps ==
  ASSUME NEW n, NEW c, InCallback(c, n), ~c.aborted
  PROVE  /\ InCallback(SetCloseError(c, "ERR_OK"), n)
         /\ ~SetCloseError(c, "ERR_OK").aborted
         /\ SetCloseError(c, "ERR_OK").deleted = c.deleted
         /\ SetCloseError(c, "ERR_OK").pcb = c.pcb
BY DEF SetCloseError, InCallback, EspClient, CloseErrorOf, Untold

\* _close tells the tracker whether it had to abort, and then onDisconnect.
LEMMA CloseKeeps ==
  ASSUME NEW n, NEW c, InCallback(c, n)
  PROVE  \A d \in Close(c) : InCallback(d, n) /\ ~d.pcb
<1>1. CASE ~c.pcb
  BY <1>1 DEF Close
<1>2. CASE c.pcb
  <2> DEFINE x == SetCloseError([c EXCEPT !.pcb = FALSE], "ERR_OK")
             y == SetCloseError([c EXCEPT !.pcb = FALSE, !.aborted = TRUE], "ERR_ABRT")
  <2>1. InCallback(x, n) /\ ~x.pcb /\ ~x.deleted
    BY <1>2 DEF SetCloseError, InCallback, EspClient, CloseErrorOf, Untold
  <2>2. InCallback(y, n) /\ ~y.pcb /\ ~y.deleted
    <3> DEFINE z == [c EXCEPT !.pcb = FALSE, !.aborted = TRUE]
    <3>1. /\ z \in EspClient /\ ~z.stale /\ z.hasClient /\ ~z.deleted /\ z.used
          /\ ~z.errored /\ z.aborted /\ ~z.pcb
      BY <1>2 DEF InCallback, EspClient, Untold
    <3>2. y = [z EXCEPT !.closeError = "ERR_ABRT"]
      BY <3>1 DEF SetCloseError
    <3> HIDE DEF z, y
    <3> QED BY <3>1, <3>2 DEF InCallback, EspClient, CloseErrorOf
  <2> HIDE DEF x, y
  <2>3. \A z \in {x, y} : InCallback(Discard(z), n) /\ ~Discard(z).pcb
    <3> SUFFICES ASSUME NEW z \in {x, y} PROVE InCallback(Discard(z), n) /\ ~Discard(z).pcb
      OBVIOUS
    <3>1. InCallback(z, n) /\ ~z.pcb /\ ~z.deleted
      BY <2>1, <2>2
    <3>2. Access(z) = z
      BY <3>1, AccessThere
    <3>3. InCallback(Deleted(z), n) /\ ~Deleted(z).pcb
      BY <3>1, DeletedKeeps DEF Deleted, InCallback, EspClient
    <3> QED BY <3>1, <3>2, <3>3 DEF Discard
  <2>4. Close(c) = {Discard(x), Discard(y)}
    BY <1>2 DEF Close, x, y
  <2> QED BY <2>3, <2>4
<1> QED BY <1>1, <1>2

\* Whatever a handler does.
LEMMA HandlerKeeps ==
  ASSUME NEW n, NEW c, InCallback(c, n)
  PROVE  \A d \in Handler(c) : InCallback(d, n)
<1>1. \A d \in Close(c) : InCallback(d, n) /\ InCallback(Deleted(d), n)
  BY CloseKeeps, DeletedKeeps
<1>2. InCallback([c EXCEPT !.closePcb = TRUE], n)
  BY MarksKeep
<1> QED BY <1>1, <1>2 DEF Handler

\* A client that its own handler may have deleted is not touched again.
LEMMA TouchedKeeps ==
  ASSUME NEW n, NEW d, InCallback(d, n)
  PROVE  InCallback(IF d.hasClient THEN Access(d) ELSE d, n)
BY AccessThere DEF InCallback

\* One buffer of _recv.
LEMMA RecvOneKeeps ==
  ASSUME NEW n, NEW c, InCallback(c, n)
  PROVE  \A d \in RecvOne(c) : InCallback(d, n)
<1>1. CASE ~c.hasClient
  BY <1>1 DEF RecvOne
<1>2. CASE c.hasClient
  <2>1. Access(c) = c
    BY <1>2, AccessThere DEF InCallback
  <2>2. \A d \in Handler(c) : InCallback(IF d.hasClient THEN Access(d) ELSE d, n)
    BY HandlerKeeps, TouchedKeeps
  <2> QED BY <1>2, <2>1, <2>2 DEF RecvOne
<1> QED BY <1>1, <1>2

\* _sent takes len of the n bytes off the account.
LEMMA SentKeeps ==
  ASSUME NEW n \in Nat, n < LenModulus, NEW c, InCallback(c, n), ~c.aborted, NEW len \in 1 .. n
  PROVE  \A d \in Sent(c, len) : InCallback(d, n - len)
<1> DEFINE u == (c.unacked - len) % LenModulus
           d == [c EXCEPT !.unacked = u]
<1>1. c.unacked \in 0 .. LenModulus - 1 /\ c.unsent \in 0 .. LenModulus - 1
  BY DEF InCallback, EspClient
<1>2. u \in 0 .. LenModulus - 1
  BY <1>1, LengthFacts
<1>3. c.pcb /\ ~c.sendFailed => (u + c.unsent) % LenModulus = n - len
  <2> SUFFICES ASSUME c.pcb, ~c.sendFailed PROVE (u + c.unsent) % LenModulus = n - len
    OBVIOUS
  <2> DEFINE a == c.unacked
             s == c.unsent
  <2>1. (a + s) % LenModulus = n
    BY DEF InCallback
  <2>2. a \in Int /\ s \in Int /\ LenModulus \in Nat
    BY <1>1, LengthFacts
  <2> HIDE DEF a, s
  <2>3. (u + s) % LenModulus = ((a - len) + s) % LenModulus
    <3>1. a - len \in Int
      BY <2>2
    <3> QED BY <2>2, <3>1, LengthFacts DEF a, s
  <2>4. (((a + s) % LenModulus) + (-len)) % LenModulus = ((a + s) + (-len)) % LenModulus
    <3>1. a + s \in Int /\ -len \in Int
      BY <2>2
    <3> QED BY <3>1, LengthFacts
  <2>5. (a - len) + s = (a + s) + (-len) /\ n + (-len) = n - len /\ n - len \in 0 .. LenModulus - 1
    BY <2>2
  <2>6. (n - len) % LenModulus = n - len
    BY <2>5, LengthFacts
  <2> QED BY <2>1, <2>3, <2>4, <2>5, <2>6 DEF s
<1> HIDE DEF u
<1>4. InCallback(d, n - len) /\ ~d.aborted
  BY <1>2, <1>3 DEF InCallback, EspClient, CloseErrorOf, Untold
<1> HIDE DEF d
<1> DEFINE e == SetCloseError([d EXCEPT !.busy = FALSE], "ERR_OK")
<1>5. InCallback(e, n - len)
  <2> DEFINE f == [d EXCEPT !.busy = FALSE]
  <2>1. InCallback(f, n - len)
    BY <1>4, MarksKeep
  <2>2. ~f.aborted
    BY <1>4 DEF InCallback, EspClient
  <2> HIDE DEF f
  <2> QED BY <2>1, <2>2, OkKeeps DEF e, f
<1> HIDE DEF e
<1>6. \A h \in Handler(e) : InCallback(IF h.hasClient THEN Access(h) ELSE h, n - len)
  BY <1>5, HandlerKeeps, TouchedKeeps
<1>7. Sent(c, len) = IF d.unacked # 0 THEN {d}
                     ELSE {IF h.hasClient THEN Access(h) ELSE h : h \in Handler(e)}
  BY DEF Sent, d, u, e
<1> QED BY <1>4, <1>6, <1>7

\* _poll
LEMMA PollKeeps ==
  ASSUME NEW n, NEW c, InCallback(c, n), ~c.aborted
  PROVE  \A d \in Poll(c) : InCallback(d, n)
<1> DEFINE e == SetCloseError(c, "ERR_OK")
<1>1. InCallback(e, n)
  BY OkKeeps
<1> HIDE DEF e
<1>2. InCallback([e EXCEPT !.closePcb = FALSE], n) /\ InCallback([e EXCEPT !.busy = FALSE], n)
  BY <1>1, MarksKeep
<1>3. Poll(c) = IF c.closePcb THEN Close([e EXCEPT !.closePcb = FALSE])
                ELSE (IF c.busy THEN Handler([e EXCEPT !.busy = FALSE]) ELSE {}) \cup Close(e) \cup Handler(e)
  BY DEF Poll, e
<1>4. /\ \A d \in Close([e EXCEPT !.closePcb = FALSE]) : InCallback(d, n)
      /\ \A d \in Handler([e EXCEPT !.busy = FALSE]) : InCallback(d, n)
      /\ \A d \in Close(e) : InCallback(d, n)
      /\ \A d \in Handler(e) : InCallback(d, n)
  BY <1>1, <1>2, CloseKeeps, HandlerKeeps
<1> QED BY <1>3, <1>4

\* A connection that lwIP has lost: nothing is returned of it.
LEMMA LostKeeps ==
  ASSUME NEW n, NEW c, InCallback(c, n), ~c.aborted, ~c.deleted,
         NEW e \in {"ERR_CONN", "ERR_RST", "ERR_ABRT"}
  PROVE  \A d \in Lost(c, e) : InCallback(d, n) /\ ~d.pcb /\ ~d.aborted
<1> DEFINE x == SetErrored(SetCloseError(c, e))
           y == [x EXCEPT !.pcb = FALSE]
<1>1. /\ x \in EspClient /\ ~x.stale /\ x.hasClient /\ ~x.deleted /\ x.used
      /\ x.errored /\ ~x.aborted
  BY DEF SetErrored, SetCloseError, InCallback, EspClient
<1> HIDE DEF x
<1>2. InCallback(y, n) /\ ~y.pcb /\ ~y.aborted /\ ~y.deleted
  BY <1>1 DEF InCallback, EspClient, CloseErrorOf
<1>3. Lost(c, e) = {Discard(y)}
  BY DEF Lost, Error, x
<1> HIDE DEF y
<1>4. Access(y) = y
  BY <1>2, AccessThere
<1>5. InCallback(Deleted(y), n) /\ ~Deleted(y).pcb /\ ~Deleted(y).aborted
  BY <1>2, DeletedKeeps DEF Deleted, InCallback, EspClient
<1> QED BY <1>2, <1>3, <1>4, <1>5 DEF Discard

\* The client of a connection that lwIP knows, when a callback begins.
LEMMA CallbackBegins ==
  ASSUME EspInv, lwip.state # "none"
  PROVE  /\ InCallback(esp, lwip.unacked) /\ Access(esp) = esp /\ ~esp.aborted /\ ~esp.deleted
         /\ lwip.unacked \in Nat /\ lwip.unacked < LenModulus
<1>1. InCallback(esp, lwip.unacked)
  BY DEF EspInv, InCallback, CloseErrorOf, Untold
<1>2. ~esp.aborted /\ ~esp.deleted
  BY DEF EspInv
<1>3. lwip.unacked \in Nat /\ lwip.unacked < LenModulus
  BY EspAssumption DEF EspInv
<1> QED BY <1>1, <1>2, <1>3, AccessThere

\* A callback ends: what it returns and what it leaves.
LEMMA CallbackEnds ==
  ASSUME EspInv, NEW outcomes,
         NEW was, was \in [state : {"established"}, unacked : 0 .. MaxUnacked] \/ \A c \in outcomes : ~c.pcb,
         \A c \in outcomes : InCallback(c, was.unacked),
         Callback(outcomes, was)
  PROVE  EspInv'
<1>1. PICK c \in outcomes :
        /\ answer' = [returned |-> CloseErrorOf(c), aborted |-> c.aborted]
        /\ esp' = [Reported(c) EXCEPT !.aborted = FALSE]
        /\ lwip' = After(c, was)
  BY Zenon DEF Callback
<1>2. deletes' = deletes
  BY DEF Callback
<1>3. InCallback(c, was.unacked)
  OBVIOUS
<1>4. answer'.returned = "ERR_ABRT" <=> answer'.aborted
  BY <1>1, <1>3 DEF InCallback
<1>5. CASE c.pcb
  <2>1. Reported(c) = c /\ ~c.aborted
    BY <1>3, <1>5 DEF InCallback, Reported, CloseErrorOf, Untold
  <2>2. esp' = c
    BY <1>1, <1>3, <2>1 DEF InCallback, EspClient
  <2>3. lwip' = was /\ was \in [state : {"established"}, unacked : 0 .. MaxUnacked]
    BY <1>1, <1>5 DEF After
  <2> QED BY <1>2, <1>3, <1>4, <1>5, <2>1, <2>2, <2>3 DEF EspInv, InCallback
<1>6. CASE ~c.pcb
  <2> DEFINE r == Reported(c)
  <2>1. /\ r \in EspClient /\ ~r.stale /\ (r.hasClient <=> ~r.deleted) /\ r.used /\ ~r.pcb
    BY <1>3, <1>6 DEF Reported, SetErrored, InCallback, EspClient
  <2> HIDE DEF r
  <2>2. esp' = [r EXCEPT !.aborted = FALSE]
    BY <1>1 DEF r
  <2>3. /\ esp' \in EspClient /\ ~esp'.stale /\ (esp'.hasClient <=> ~esp'.deleted) /\ esp'.used
        /\ ~esp'.pcb /\ ~esp'.aborted
    BY <2>1, <2>2 DEF EspClient
  <2>4. lwip' = [state |-> "none", unacked |-> 0]
    BY <1>1, <1>6 DEF After, NoConnection
  <2>5. lwip' \in [state : {"none", "resolving", "connecting", "established"}, unacked : 0 .. MaxUnacked]
        /\ lwip'.state = "none" /\ lwip'.unacked = 0
    BY <2>4, EspAssumption
  <2> QED BY <1>2, <1>4, <2>3, <2>5 DEF EspInv
<1> QED BY <1>5, <1>6

\* lwIP's callbacks on a connection it knows.
LEMMA ConnectedKeeps == EspInv /\ OnConnectedCb => EspInv'
<1> SUFFICES ASSUME EspInv, OnConnectedCb PROVE EspInv'
  OBVIOUS
<1> DEFINE n == lwip.unacked
           was == [lwip EXCEPT !.state = "established"]
<1>1. lwip.state = "connecting" /\ InCallback(esp, n) /\ Access(esp) = esp /\ ~esp.aborted /\ ~esp.deleted
  BY CallbackBegins DEF OnConnectedCb
<1>2. was \in [state : {"established"}, unacked : 0 .. MaxUnacked] /\ was.unacked = n
  BY DEF EspInv
<1>3. \A d \in Lost(esp, "ERR_CONN") : InCallback(d, n) /\ ~d.pcb
  BY <1>1, LostKeeps
<1> DEFINE c == [Access(esp) EXCEPT !.pcb = TRUE, !.busy = FALSE]
<1>4. InCallback(c, n)
  <2>1. /\ esp \in EspClient /\ Untold(esp) /\ esp.unacked = 0 /\ esp.unsent = 0 /\ n = 0
    BY <1>1 DEF EspInv
  <2>2. 0 \in 0 .. LenModulus - 1 /\ 0 + 0 = 0 /\ 0 % LenModulus = 0
    BY LengthFacts
  <2>3. (esp.unacked + esp.unsent) % LenModulus = n
    BY <2>1, <2>2, Zenon
  <2>4. /\ c \in EspClient /\ ~c.stale /\ c.hasClient /\ ~c.deleted /\ c.used /\ ~c.aborted
        /\ c.errored = esp.errored /\ c.closeError = esp.closeError
        /\ c.unacked = esp.unacked /\ c.unsent = esp.unsent
    BY <1>1, <2>1 DEF InCallback, EspClient
  <2> HIDE DEF c
  <2> QED BY <2>1, <2>3, <2>4 DEF InCallback, CloseErrorOf, Untold
<1> HIDE DEF c
<1>5. \A d \in Handler(c) : InCallback(d, n)
  BY <1>4, HandlerKeeps
<1>6. CASE Callback(Handler(c), was)
  <2> HIDE DEF was
  <2> QED BY <1>2, <1>5, <1>6, CallbackEnds
<1>7. CASE Callback(Lost(Access(esp), "ERR_CONN"), lwip)
  BY <1>1, <1>3, <1>7, CallbackEnds
<1> QED BY <1>6, <1>7 DEF OnConnectedCb, c

\* _recv, with one buffer or two, the end of the connection or an error.
LEMMA RecvKeeps == EspInv /\ OnRecvCb => EspInv'
<1> SUFFICES ASSUME EspInv, OnRecvCb PROVE EspInv'
  OBVIOUS
<1> DEFINE n == lwip.unacked
           c == SetCloseError(esp, "ERR_OK")
<1>1. InCallback(esp, n) /\ Access(esp) = esp /\ ~esp.aborted /\ ~esp.deleted
  BY CallbackBegins DEF OnRecvCb, Established
<1>2. lwip \in [state : {"established"}, unacked : 0 .. MaxUnacked]
  BY DEF EspInv, OnRecvCb, Established
<1>3. InCallback(c, n)
  BY <1>1, OkKeeps
<1> HIDE DEF c
<1> DEFINE once == RecvOne(c)
           twice == UNION {RecvOne(d) : d \in once}
<1>4. \A d \in once : InCallback(d, n)
  BY <1>3, RecvOneKeeps
<1>5. \A d \in twice : InCallback(d, n)
  BY <1>4, RecvOneKeeps
<1>6. /\ \A d \in Close(esp) : InCallback(d, n)
      /\ \A d \in Lost(esp, "ERR_CONN") : InCallback(d, n)
  BY <1>1, CloseKeeps, LostKeeps
<1>7. \/ Callback(once, lwip) \/ Callback(twice, lwip)
      \/ Callback(Close(esp), lwip) \/ Callback(Lost(esp, "ERR_CONN"), lwip)
  BY <1>1 DEF OnRecvCb, c
<1> HIDE DEF once, twice
<1> QED BY <1>2, <1>4, <1>5, <1>6, <1>7, CallbackEnds

\* _sent: the bytes the peer has acknowledged.
LEMMA SentCbKeeps == EspInv /\ OnSentCb => EspInv'
<1> SUFFICES ASSUME EspInv, OnSentCb PROVE EspInv'
  OBVIOUS
<1>1. /\ InCallback(esp, lwip.unacked) /\ Access(esp) = esp /\ ~esp.aborted /\ ~esp.deleted
      /\ lwip.unacked \in Nat /\ lwip.unacked < LenModulus
  BY CallbackBegins DEF OnSentCb, Established
<1>2. PICK len \in 1 .. lwip.unacked : Callback(Sent(esp, len), [lwip EXCEPT !.unacked = @ - len])
  BY <1>1 DEF OnSentCb
<1> DEFINE was == [lwip EXCEPT !.unacked = @ - len]
<1>3. was \in [state : {"established"}, unacked : 0 .. MaxUnacked] /\ was.unacked = lwip.unacked - len
  BY EspAssumption DEF EspInv, OnSentCb, Established
<1>4. \A d \in Sent(esp, len) : InCallback(d, lwip.unacked - len)
  BY <1>1, SentKeeps
<1> HIDE DEF was
<1>5. \A d \in Sent(esp, len) : InCallback(d, was.unacked)
  BY <1>3, <1>4
<1> QED BY <1>2, <1>3, <1>5, CallbackEnds DEF was

\* _poll.
LEMMA PollCbKeeps == EspInv /\ OnPollCb => EspInv'
<1> SUFFICES ASSUME EspInv, OnPollCb PROVE EspInv'
  OBVIOUS
<1>1. InCallback(esp, lwip.unacked) /\ Access(esp) = esp /\ ~esp.aborted
  BY CallbackBegins DEF OnPollCb, Established
<1>2. lwip \in [state : {"established"}, unacked : 0 .. MaxUnacked]
  BY DEF EspInv, OnPollCb, Established
<1>3. \A d \in Poll(esp) : InCallback(d, lwip.unacked)
  BY <1>1, PollKeeps
<1>4. Callback(Poll(esp), lwip)
  BY <1>1 DEF OnPollCb
<1> QED BY <1>2, <1>3, <1>4, CallbackEnds

\* A client without a connection.
LEMMA NoneKeeps ==
  ASSUME EspInv, deletes' = deletes, answer' = answer, lwip' = NoConnection,
         esp' \in EspClient, ~esp'.stale, ~esp'.aborted, esp'.hasClient <=> ~esp'.deleted, esp'.used, ~esp'.pcb
  PROVE  EspInv'
<1>1. lwip' \in [state : {"none", "resolving", "connecting", "established"}, unacked : 0 .. MaxUnacked]
      /\ lwip'.state = "none" /\ lwip'.unacked = 0
  BY EspAssumption DEF NoConnection
<1> QED BY <1>1 DEF EspInv

\* _s_error: the connection is gone before the client is told.
LEMMA ErrorKeeps == EspInv /\ OnErrorCb => EspInv'
<1> SUFFICES ASSUME EspInv, OnErrorCb PROVE EspInv'
  OBVIOUS
<1>1. InCallback(esp, lwip.unacked) /\ Access(esp) = esp /\ ~esp.aborted /\ ~esp.deleted
  BY CallbackBegins DEF OnErrorCb
<1>2. \A d \in Lost(esp, "ERR_RST") : InCallback(d, lwip.unacked) /\ ~d.pcb /\ ~d.aborted
  BY <1>1, LostKeeps
<1>3. esp' \in Lost(esp, "ERR_RST") /\ lwip' = NoConnection /\ UNCHANGED <<deletes, answer>>
  BY <1>1 DEF OnErrorCb
<1> QED BY <1>2, <1>3, NoneKeeps DEF InCallback

\* The address is found or not, and the client may be told.
LEMMA DnsKeeps == EspInv /\ OnDnsFound => EspInv'
<1> SUFFICES ASSUME EspInv, OnDnsFound PROVE EspInv'
  OBVIOUS
<1>1. /\ InCallback(esp, lwip.unacked) /\ Access(esp) = esp /\ ~esp.aborted /\ ~esp.deleted
      /\ lwip.state = "resolving" /\ UNCHANGED <<deletes, answer>>
  BY CallbackBegins DEF OnDnsFound
<1>2. esp \in EspClient /\ ~esp.stale /\ esp.hasClient /\ esp.used /\ ~esp.pcb
  BY <1>1 DEF EspInv
<1>3. CASE lwip' = NoConnection /\ esp' = esp
  BY <1>1, <1>2, <1>3, NoneKeeps
<1>4. CASE lwip' = [lwip EXCEPT !.state = "connecting"] /\ esp' = esp
  <2>1. lwip' \in [state : {"none", "resolving", "connecting", "established"}, unacked : 0 .. MaxUnacked]
        /\ lwip'.state = "connecting" /\ lwip'.unacked = lwip.unacked
    BY <1>4 DEF EspInv
  <2> QED BY <1>1, <1>2, <1>4, <2>1 DEF EspInv, Untold
<1>5. CASE lwip' = NoConnection /\ esp' = Discard(esp)
  <2>1. InCallback(Deleted(esp), lwip.unacked) /\ ~Deleted(esp).pcb /\ ~Deleted(esp).aborted
    BY <1>1, <1>2, DeletedKeeps DEF Deleted, EspClient
  <2>2. esp' \in {esp, Deleted(esp)}
    BY <1>1, <1>5 DEF Discard
  <2> QED BY <1>1, <1>2, <1>5, <2>1, <2>2, NoneKeeps DEF InCallback
<1> QED BY <1>1, <1>3, <1>4, <1>5 DEF OnDnsFound

\* The server gives a new client to the sketch.
LEMMA AcceptKeeps == EspInv /\ OnAcceptCb => EspInv'
<1> SUFFICES ASSUME EspInv, OnAcceptCb PROVE EspInv'
  OBVIOUS
<1> DEFINE was == [lwip EXCEPT !.state = "established"]
           c == [NewClient EXCEPT !.pcb = TRUE, !.used = TRUE]
<1>1. CASE Callback(Handler(c), was)
  <2>1. was \in [state : {"established"}, unacked : 0 .. MaxUnacked] /\ was.unacked = 0
    BY EspAssumption DEF EspInv, OnAcceptCb
  <2>2. 0 \in 0 .. LenModulus - 1 /\ (0 + 0) % LenModulus = 0
    BY LengthFacts
  <2>3. NewClient \in EspClient
    BY <2>2 DEF NewClient, EspClient
  <2>4. InCallback(c, 0)
    BY <2>2 DEF InCallback, EspClient, NewClient, CloseErrorOf, Untold
  <2> HIDE DEF c, was
  <2>5. \A d \in Handler(c) : InCallback(d, was.unacked)
    BY <2>1, <2>4, HandlerKeeps
  <2> QED BY <1>1, <2>1, <2>5, CallbackEnds
<1>2. CASE /\ answer' \in {[returned |-> "ERR_OK", aborted |-> FALSE],
                          [returned |-> "ERR_ABRT", aborted |-> TRUE]}
           /\ UNCHANGED <<deletes, esp, lwip, listening>>
  BY <1>2 DEF EspInv, Untold
<1> QED BY <1>1, <1>2 DEF OnAcceptCb

\* A call of loop(): it leaves what a callback could leave.
LEMMA EspCallsKeep ==
  ASSUME EspInv, NEW outcomes, Calls(outcomes), esp.pcb,
         \A c \in outcomes : InCallback(c, lwip.unacked)
  PROVE  EspInv'
<1>1. PICK c \in outcomes : esp' = [c EXCEPT !.aborted = FALSE] /\ lwip' = After(c, lwip)
  BY DEF Calls
<1>2. UNCHANGED <<deletes, answer>> /\ InCallback(c, lwip.unacked)
  BY DEF Calls
<1>3. /\ esp' \in EspClient /\ ~esp'.stale /\ ~esp'.aborted /\ (esp'.hasClient <=> ~esp'.deleted) /\ esp'.used
      /\ esp'.pcb = c.pcb /\ esp'.deleted = c.deleted /\ esp'.errored = c.errored /\ esp'.closeError = c.closeError
      /\ esp'.unacked = c.unacked /\ esp'.unsent = c.unsent /\ esp'.sendFailed = c.sendFailed
  BY <1>1, <1>2 DEF InCallback, EspClient
<1>4. CASE ~c.pcb
  <2>1. lwip' = NoConnection
    BY <1>1, <1>4 DEF After
  <2> QED BY <1>2, <1>3, <1>4, <2>1, NoneKeeps
<1>5. CASE c.pcb
  <2>1. lwip' = lwip
    BY <1>1, <1>5 DEF After
  <2> QED BY <1>2, <1>3, <1>5, <2>1 DEF EspInv, InCallback, Untold
<1> QED BY <1>4, <1>5

\* A call on a client that has no connection, open or not, changes only its marks.
LEMMA IdleCallKeeps ==
  ASSUME EspInv, ~esp.pcb, UNCHANGED <<deletes, answer, lwip>>,
         esp' \in EspClient, ~esp'.stale, ~esp'.aborted, esp'.hasClient <=> ~esp'.deleted, ~esp'.pcb,
         esp'.used = esp.used, esp'.unacked = esp.unacked, esp'.unsent = esp.unsent,
         esp'.errored = esp.errored, esp'.closeError = esp.closeError,
         lwip.state = "none" \/ esp'.deleted = esp.deleted
  PROVE  EspInv'
BY DEF EspInv, Untold

\* close(), now or in the next _poll.
LEMMA CloseCallsKeep == EspInv /\ (CloseLater \/ CloseNow \/ DeleteClient) => EspInv'
<1> SUFFICES ASSUME EspInv, CloseLater \/ CloseNow \/ DeleteClient PROVE EspInv'
  OBVIOUS
<1> DEFINE later == [esp EXCEPT !.closePcb = TRUE]
<1>1. CASE esp.pcb
  <2>1. InCallback(esp, lwip.unacked)
    BY <1>1, CallbackBegins DEF EspInv
  <2>2. \A c \in {later} : InCallback(c, lwip.unacked)
    BY <2>1, MarksKeep
  <2>3. \A c \in Close(esp) : InCallback(c, lwip.unacked)
    BY <2>1, CloseKeeps
  <2>4. \A c \in {Deleted(d) : d \in Close(esp)} : InCallback(c, lwip.unacked)
    BY <2>1, CloseKeeps, DeletedKeeps
  <2> HIDE DEF later
  <2>5. Calls({later}) \/ Calls(Close(esp)) \/ Calls({Deleted(d) : d \in Close(esp)})
    BY DEF CloseLater, CloseNow, DeleteClient, later
  <2> QED BY <1>1, <2>2, <2>3, <2>4, <2>5, EspCallsKeep
<1>2. CASE ~esp.pcb
  <2>1. Close(esp) = {esp}
    BY <1>2 DEF Close
  <2>2. CASE Calls({later})
    <3>1. esp' = [later EXCEPT !.aborted = FALSE] /\ UNCHANGED <<deletes, answer, lwip>>
      BY <1>2, <2>2 DEF Calls
    <3>2. esp \in EspClient /\ ~esp.stale /\ (esp.hasClient <=> ~esp.deleted)
      BY DEF EspInv
    <3> QED BY <1>2, <3>1, <3>2, IdleCallKeeps DEF EspClient
  <2>3. CASE Calls({esp})
    <3>1. esp' = [esp EXCEPT !.aborted = FALSE] /\ UNCHANGED <<deletes, answer, lwip>>
      BY <1>2, <2>3 DEF Calls
    <3>2. esp \in EspClient /\ ~esp.stale /\ (esp.hasClient <=> ~esp.deleted)
      BY DEF EspInv
    <3> QED BY <1>2, <3>1, <3>2, IdleCallKeeps DEF EspClient
  <2>4. CASE Calls({Deleted(esp)}) /\ lwip.state = "none"
    <3>1. esp' = [Deleted(esp) EXCEPT !.aborted = FALSE] /\ UNCHANGED <<deletes, answer, lwip>>
      BY <1>2, <2>4 DEF Calls
    <3>2. esp \in EspClient /\ ~esp.stale /\ (esp.hasClient <=> ~esp.deleted)
      BY DEF EspInv
    <3> QED BY <1>2, <2>4, <3>1, <3>2, IdleCallKeeps DEF EspClient, Deleted
  <2>5. DeleteClient => lwip.state = "none"
    BY <1>2 DEF DeleteClient, EspInv
  <2>6. {Deleted(d) : d \in {esp}} = {Deleted(esp)}
    OBVIOUS
  <2> QED BY <2>1, <2>2, <2>3, <2>4, <2>5, <2>6 DEF CloseLater, CloseNow, DeleteClient
<1> QED BY <1>1, <1>2

\* abort()
LEMMA AbortKeeps == EspInv /\ Abort => EspInv'
<1> SUFFICES ASSUME EspInv, Abort PROVE EspInv'
  OBVIOUS
<1>1. esp.pcb /\ Calls(Lost(esp, "ERR_ABRT"))
  BY DEF Abort
<1>2. InCallback(esp, lwip.unacked) /\ ~esp.aborted /\ ~esp.deleted
  BY <1>1, CallbackBegins DEF EspInv
<1>3. \A d \in Lost(esp, "ERR_ABRT") : InCallback(d, lwip.unacked)
  BY <1>2, LostKeeps
<1> QED BY <1>1, <1>3, EspCallsKeep

\* send() counts what add() gave to lwIP.
LEMMA EspSendKeeps == EspInv /\ SendBytes => EspInv'
<1> SUFFICES ASSUME EspInv, SendBytes PROVE EspInv'
  OBVIOUS
<1>1. esp.pcb /\ Calls(Sends(esp))
  BY DEF SendBytes
<1>2. InCallback(esp, lwip.unacked) /\ ~esp.aborted
  BY <1>1, CallbackBegins DEF EspInv
<1> DEFINE u == (esp.unacked + esp.unsent) % LenModulus
           sent == [esp EXCEPT !.busy = TRUE, !.unacked = u, !.unsent = 0]
           failed == [esp EXCEPT !.unsent = 0, !.sendFailed = TRUE]
<1>3. u \in 0 .. LenModulus - 1 /\ (u + 0) % LenModulus = u /\ 0 \in 0 .. LenModulus - 1
  <2>1. esp.unacked + esp.unsent \in Int
    BY <1>2 DEF InCallback, EspClient
  <2>2. u \in 0 .. LenModulus - 1 /\ LenModulus \in Nat \ {0}
    BY <2>1, LengthFacts
  <2> HIDE DEF u
  <2>3. u % LenModulus = u
    BY <2>2, LengthFacts
  <2>4. u + 0 = u
    BY <2>2
  <2> QED BY <2>2, <2>3, <2>4
<1>4. ~esp.sendFailed => u = lwip.unacked
  BY <1>1, <1>2 DEF InCallback
<1> HIDE DEF u
<1>5. InCallback(sent, lwip.unacked)
  BY <1>2, <1>3, <1>4 DEF InCallback, EspClient, CloseErrorOf, Untold
<1>6. InCallback(failed, lwip.unacked)
  BY <1>2, <1>3 DEF InCallback, EspClient, CloseErrorOf, Untold
<1>7. Sends(esp) = {sent, failed}
  BY DEF Sends, u
<1> HIDE DEF sent, failed
<1>8. \A c \in Sends(esp) : InCallback(c, lwip.unacked)
  BY <1>5, <1>6, <1>7
<1> QED BY <1>1, <1>8, EspCallsKeep

\* add()
LEMMA AddKeeps == EspInv /\ AddBytes => EspInv'
<1> SUFFICES ASSUME EspInv, AddBytes PROVE EspInv'
  OBVIOUS
<1>1. PICK k \in 1 .. MaxUnacked - lwip.unacked :
          /\ esp' = [esp EXCEPT !.unsent = (@ + k) % LenModulus]
          /\ lwip' = [lwip EXCEPT !.unacked = @ + k]
  BY DEF AddBytes
<1>2. esp.pcb /\ UNCHANGED <<deletes, answer>> /\ esp \in EspClient /\ lwip.state = "established"
  BY DEF AddBytes, EspInv
<1> DEFINE a == esp.unacked
           s == esp.unsent
           n == lwip.unacked
           t == (s + k) % LenModulus
<1>3. /\ a \in 0 .. LenModulus - 1 /\ s \in 0 .. LenModulus - 1 /\ n \in 0 .. MaxUnacked
      /\ n + k \in 0 .. MaxUnacked /\ n + k \in 0 .. LenModulus - 1 /\ k \in Int
  BY <1>2, EspAssumption DEF EspClient, EspInv
<1>4. lwip' \in [state : {"none", "resolving", "connecting", "established"}, unacked : 0 .. MaxUnacked]
      /\ lwip'.state = "established" /\ lwip'.unacked = n + k
  BY <1>1, <1>2, <1>3 DEF EspInv
<1>5. t \in 0 .. LenModulus - 1
  <2>1. s + k \in Int
    BY <1>3
  <2> HIDE DEF s
  <2> QED BY <2>1, LengthFacts
<1>6. ~esp.sendFailed => (a + t) % LenModulus = n + k
  <2> SUFFICES ASSUME ~esp.sendFailed PROVE (a + t) % LenModulus = n + k
    OBVIOUS
  <2>1. (a + s) % LenModulus = n
    BY <1>2 DEF EspInv
  <2> HIDE DEF a, s, n
  <2>2. (((s + k) % LenModulus) + a) % LenModulus = ((s + k) + a) % LenModulus
    <3>1. s + k \in Int /\ a \in Int
      BY <1>3
    <3> QED BY <3>1, LengthFacts
  <2>3. (((a + s) % LenModulus) + k) % LenModulus = ((a + s) + k) % LenModulus
    <3>1. a + s \in Int /\ k \in Int
      BY <1>3
    <3> QED BY <3>1, LengthFacts
  <2>4. (s + k) + a = (a + s) + k
    BY <1>3
  <2>5. (n + k) % LenModulus = n + k
    BY <1>3, LengthFacts
  <2>6. t + a = a + t
    BY <1>3, <1>5
  <2> QED BY <2>1, <2>2, <2>3, <2>4, <2>5, <2>6
<1>7. esp' = [esp EXCEPT !.unsent = t]
  BY <1>1
<1> HIDE DEF t
<1>8. /\ esp' \in EspClient /\ esp'.unsent = t /\ esp'.unacked = a /\ esp'.pcb /\ esp'.sendFailed = esp.sendFailed
      /\ esp'.stale = esp.stale /\ esp'.aborted = esp.aborted /\ esp'.hasClient = esp.hasClient
      /\ esp'.deleted = esp.deleted /\ esp'.used = esp.used
      /\ esp'.errored = esp.errored /\ esp'.closeError = esp.closeError
  BY <1>2, <1>5, <1>7 DEF EspClient
<1> QED BY <1>2, <1>4, <1>6, <1>8 DEF EspInv, Untold

\* A new client, and the first connection of one.
LEMMA BeginKeeps == ~Reuse /\ EspInv /\ (Create \/ Connects) => EspInv'
<1> SUFFICES ASSUME ~Reuse, EspInv, Create \/ Connects PROVE EspInv'
  OBVIOUS
<1>1. CASE Create
  <2>1. 0 \in 0 .. LenModulus - 1
    BY LengthFacts
  <2>2. /\ NewClient \in EspClient /\ ~NewClient.stale /\ ~NewClient.aborted /\ NewClient.hasClient /\ ~NewClient.deleted
        /\ ~NewClient.used /\ ~NewClient.pcb /\ Untold(NewClient) /\ NewClient.unacked = 0 /\ NewClient.unsent = 0
    BY <2>1 DEF NewClient, EspClient, Untold
  <2>3. esp' = NewClient /\ UNCHANGED <<deletes, lwip, answer>> /\ lwip.state = "none"
    BY <1>1 DEF Create, EspInv
  <2> QED BY <2>2, <2>3 DEF EspInv
<1>2. CASE Connects
  <2>1. PICK s \in {"none", "connecting", "resolving"} : lwip' = [lwip EXCEPT !.state = s]
    BY <1>2 DEF Connects
  <2>2. /\ ~esp.used /\ esp' = [esp EXCEPT !.used = TRUE] /\ ~esp.deleted /\ ~esp.pcb
        /\ lwip.state = "none" /\ UNCHANGED <<deletes, answer>>
    BY <1>2 DEF Connects
  <2>3. /\ lwip' \in [state : {"none", "resolving", "connecting", "established"}, unacked : 0 .. MaxUnacked]
        /\ lwip'.state = s /\ lwip'.unacked = 0
    BY <2>1, <2>2 DEF EspInv
  <2>4. esp \in EspClient
    BY DEF EspInv
  <2>5. /\ esp' \in EspClient /\ esp'.used /\ ~esp'.pcb /\ ~esp'.deleted
        /\ esp'.unsent = esp.unsent /\ esp'.unacked = esp.unacked /\ esp'.sendFailed = esp.sendFailed
        /\ esp'.stale = esp.stale /\ esp'.aborted = esp.aborted /\ esp'.hasClient = esp.hasClient
        /\ esp'.errored = esp.errored /\ esp'.closeError = esp.closeError
    BY <2>2, <2>4 DEF EspClient
  <2> QED BY <2>2, <2>3, <2>5 DEF EspInv, Untold
<1> QED BY <1>1, <1>2

\* A client that nobody has used.
LEMMA EspStarts == EspInit => EspInv
<1> SUFFICES ASSUME EspInit PROVE EspInv
  OBVIOUS
<1>1. 0 \in 0 .. LenModulus - 1 /\ 0 \in 0 .. MaxUnacked
  BY LengthFacts, EspAssumption
<1>2. /\ esp \in EspClient /\ ~esp.stale /\ ~esp.aborted /\ esp.hasClient /\ ~esp.deleted
      /\ ~esp.used /\ ~esp.pcb /\ Untold(esp) /\ esp.unacked = 0 /\ esp.unsent = 0
  BY <1>1 DEF EspInit, NewClient, EspClient, Untold
<1>3. lwip \in [state : {"none", "resolving", "connecting", "established"}, unacked : 0 .. MaxUnacked]
      /\ lwip.state = "none" /\ lwip.unacked = 0
  BY <1>1 DEF EspInit, NoConnection
<1> QED BY <1>2, <1>3 DEF EspInit, EspInv

\* Every step keeps the invariant.
LEMMA EspStays == ~Reuse /\ EspInv /\ [EspNext]_espVars => EspInv'
<1>1. EspInv /\ (UNCHANGED espVars \/ ServerBeginEnd) => EspInv'
  BY DEF espVars, ServerBeginEnd, EspInv, Untold
<1> QED
  BY <1>1, ConnectedKeeps, RecvKeeps, SentCbKeeps, PollCbKeeps, ErrorKeeps, DnsKeeps, AcceptKeeps,
     CloseCallsKeep, AbortKeeps, EspSendKeeps, AddKeeps, BeginKeeps DEF EspNext

\* ESPAsyncTCP, for any span of the lengths and any send buffer below it: a callback
\* returns ERR_ABRT exactly if the connection was aborted in it, nothing touches a
\* client that its handlers deleted, and the client's count of bytes is lwIP's, for a
\* sketch that takes a new client for each connection and whose handlers close or
\* delete the client but never call abort(), as SyncClient does without memory.
THEOREM EspClientIsKept == ~Reuse /\ EspSpec => []EspClientKept
<1>1. EspInv => EspClientKept
  BY DEF EspInv, EspClientKept, AbortReported, AckAccounted
<1>2. ASSUME ~Reuse PROVE EspSpec => []EspClientKept
  <2>1. EspInv /\ [EspNext]_espVars => EspInv'
    BY <1>2, EspStays
  <2> QED BY <1>1, <2>1, EspStarts, PTL DEF EspSpec
<1> QED BY <1>2

-----------------------------------------------------------------------------
(* Registers of the radio.                                                 *)

Byte == 0 .. 255
Registers == [MODEM_CONFIG_1 : Byte, MODEM_CONFIG_2 : Byte, PA_CONFIG : Byte, PaDac : Byte,
              DETECTION_OPTIMIZE : Byte, DETECTION_THRESHOLD : Byte,
              FRF_MSB : Byte, FRF_MID : Byte, FRF_LSB : Byte]

\* The fields of RegModemConfig1 do not disturb one another,
LEMMA Modem1Fields ==
  ASSUME NEW x \in Byte, NEW v \in Int
  PROVE  /\ v \in 0 .. 15 =>
              LET y == WithField(x, 16, 16, v) IN
              y \in Byte /\ Field(y, 16, 16) = v /\ Field(y, 2, 8) = Field(x, 2, 8) /\ Field(y, 1, 2) = Field(x, 1, 2)
         /\ v \in 0 .. 7 =>
              LET y == WithField(x, 2, 8, v) IN
              y \in Byte /\ Field(y, 2, 8) = v /\ Field(y, 16, 16) = Field(x, 16, 16) /\ Field(y, 1, 2) = Field(x, 1, 2)
         /\ v \in 0 .. 1 =>
              LET y == WithField(x, 1, 2, v) IN
              y \in Byte /\ Field(y, 1, 2) = v /\ Field(y, 16, 16) = Field(x, 16, 16) /\ Field(y, 2, 8) = Field(x, 2, 8)
<1> DEFINE a == x \div 16
           b == (x \div 2) % 8
           c == x % 2
<1>1. /\ a \in 0 .. 15 /\ b \in 0 .. 7 /\ c \in 0 .. 1 /\ x = 16 * a + 2 * b + c
      /\ Field(x, 16, 16) = a /\ Field(x, 2, 8) = b /\ Field(x, 1, 2) = c
  BY DEF Byte, Field
<1>2. \A k \in 0 .. 15, m \in 0 .. 7, n \in 0 .. 1 :
        LET y == 16 * k + 2 * m + n IN
        y \in Byte /\ Field(y, 16, 16) = k /\ Field(y, 2, 8) = m /\ Field(y, 1, 2) = n
  BY DEF Byte, Field
<1> HIDE DEF a, b, c
<1>3. /\ v \in 0 .. 15 => WithField(x, 16, 16, v) = 16 * v + 2 * b + c
      /\ v \in 0 .. 7 => WithField(x, 2, 8, v) = 16 * a + 2 * v + c
      /\ v \in 0 .. 1 => WithField(x, 1, 2, v) = 16 * a + 2 * b + v
  <2>1. /\ v \in 0 .. 15 => v % 16 = v
        /\ v \in 0 .. 7 => v % 8 = v
        /\ v \in 0 .. 1 => v % 2 = v
    OBVIOUS
  <2>2. ASSUME v \in 0 .. 15 PROVE WithField(x, 16, 16, v) = 16 * v + 2 * b + c
    BY <1>1, <2>1, <2>2 DEF WithField
  <2>3. ASSUME v \in 0 .. 7 PROVE WithField(x, 2, 8, v) = 16 * a + 2 * v + c
    BY <1>1, <2>1, <2>3 DEF WithField
  <2>4. ASSUME v \in 0 .. 1 PROVE WithField(x, 1, 2, v) = 16 * a + 2 * b + v
    BY <1>1, <2>1, <2>4 DEF WithField
  <2> QED BY <2>2, <2>3, <2>4
<1> QED BY <1>1, <1>2, <1>3

\* as the bandwidth,
LEMMA StepField ==
  ASSUME NEW x \in Byte, NEW v \in 0 .. 15
  PROVE  LET y == WithField(x, 16, 16, v) IN
         y \in Byte /\ Field(y, 16, 16) = v /\ Field(y, 2, 8) = Field(x, 2, 8) /\ Field(y, 1, 2) = Field(x, 1, 2)
BY Modem1Fields

\* the coding rate
LEMMA RateField ==
  ASSUME NEW x \in Byte, NEW v \in 0 .. 7
  PROVE  LET y == WithField(x, 2, 8, v) IN
         y \in Byte /\ Field(y, 2, 8) = v /\ Field(y, 16, 16) = Field(x, 16, 16) /\ Field(y, 1, 2) = Field(x, 1, 2)
BY Modem1Fields

\* and the header mode do,
LEMMA HeaderField ==
  ASSUME NEW x \in Byte, NEW v \in 0 .. 1
  PROVE  LET y == WithField(x, 1, 2, v) IN
         y \in Byte /\ Field(y, 1, 2) = v /\ Field(y, 16, 16) = Field(x, 16, 16) /\ Field(y, 2, 8) = Field(x, 2, 8)
BY Modem1Fields

\* nor do those of RegModemConfig2, as the factor
LEMMA FactorField ==
  ASSUME NEW x \in Byte, NEW v \in 0 .. 15
  PROVE  LET y == WithField(x, 16, 16, v) IN
         y \in Byte /\ Field(y, 16, 16) = v /\ Field(y, 4, 2) = Field(x, 4, 2)
BY DEF Byte, Field, WithField

\* and the checksum do,
LEMMA CrcField ==
  ASSUME NEW x \in Byte, NEW v \in 0 .. 1
  PROVE  LET y == WithField(x, 4, 2, v) IN
         y \in Byte /\ Field(y, 4, 2) = v /\ Field(y, 16, 16) = Field(x, 16, 16)
BY DEF Byte, Field, WithField

\* of RegPaConfig,
LEMMA PinField ==
  ASSUME NEW x \in Byte, NEW v \in 0 .. 1
  PROVE  WithField(x, 128, 2, v) \in Byte /\ Field(WithField(x, 128, 2, v), 128, 2) = v
BY DEF Byte, Field, WithField

LEMMA StepsField ==
  ASSUME NEW x \in Byte
  PROVE  WithField(x, 16, 8, 7) \in Byte /\ Field(WithField(x, 16, 8, 7), 128, 2) = Field(x, 128, 2)
BY DEF Byte, Field, WithField

LEMMA PowerField ==
  ASSUME NEW x \in Byte, NEW v \in 0 .. 15
  PROVE  /\ WithField(x, 1, 16, v) \in Byte /\ Field(WithField(x, 1, 16, v), 1, 16) = v
         /\ Field(WithField(x, 1, 16, v), 128, 2) = Field(x, 128, 2)
BY DEF Byte, Field, WithField

\* and of RegPaDac.
LEMMA DacField ==
  ASSUME NEW x \in Byte, NEW v \in 0 .. 7
  PROVE  WithField(x, 1, 8, v) \in Byte /\ Field(WithField(x, 1, 8, v), 1, 8) = v
BY DEF Byte, Field, WithField


\* The step of a bandwidth is one there is.
LEMMA StepThere == ASSUME NEW sbw \in Int PROVE BandwidthStep(sbw) \in 0 .. 9
<1> DEFINE Fits(i) == sbw <= Steps[i] /\ \A j \in 1 .. (i - 1) : sbw > Steps[j]
<1>1. /\ Steps[1] = 7800 /\ Steps[2] = 10400 /\ Steps[3] = 15600 /\ Steps[4] = 20800 /\ Steps[5] = 31250
      /\ Steps[6] = 41700 /\ Steps[7] = 62500 /\ Steps[8] = 125000 /\ Steps[9] = 250000
  BY DEF Steps
<1>2. CASE \A i \in 1 .. 9 : sbw > Steps[i]
  BY <1>2 DEF BandwidthStep
<1>3. CASE ~ \A i \in 1 .. 9 : sbw > Steps[i]
  <2>1. sbw <= 250000
    BY <1>1, <1>3
  <2>2. \E i \in 1 .. 9 : Fits(i)
    <3>1. CASE sbw <= 7800
      <4>1. Fits(1)
        BY <1>1, <3>1
      <4> QED BY <4>1
    <3>2. CASE 7800 < sbw /\ sbw <= 10400
      <4>1. Fits(2)
        BY <1>1, <3>2
      <4> QED BY <4>1
    <3>3. CASE 10400 < sbw /\ sbw <= 15600
      <4>1. Fits(3)
        BY <1>1, <3>3
      <4> QED BY <4>1
    <3>4. CASE 15600 < sbw /\ sbw <= 20800
      <4>1. Fits(4)
        BY <1>1, <3>4
      <4> QED BY <4>1
    <3>5. CASE 20800 < sbw /\ sbw <= 31250
      <4>1. Fits(5)
        BY <1>1, <3>5
      <4> QED BY <4>1
    <3>6. CASE 31250 < sbw /\ sbw <= 41700
      <4>1. Fits(6)
        BY <1>1, <3>6
      <4> QED BY <4>1
    <3>7. CASE 41700 < sbw /\ sbw <= 62500
      <4>1. Fits(7)
        BY <1>1, <3>7
      <4> QED BY <4>1
    <3>8. CASE 62500 < sbw /\ sbw <= 125000
      <4>1. Fits(8)
        BY <1>1, <3>8
      <4> QED BY <4>1
    <3>9. CASE 125000 < sbw
      <4>1. Fits(9)
        BY <1>1, <2>1, <3>9
      <4> QED BY <4>1
    <3> QED BY <2>1, <3>1, <3>2, <3>3, <3>4, <3>5, <3>6, <3>7, <3>8, <3>9
  <2> DEFINE k == CHOOSE i \in 1 .. 9 : Fits(i)
  <2>3. k \in 1 .. 9
    <3> HIDE DEF Fits
    <3> QED BY <2>2
  <2>4. BandwidthStep(sbw) = k - 1
    BY <1>3 DEF BandwidthStep
  <2> HIDE DEF k
  <2> QED BY <2>3, <2>4
<1> QED BY <1>2, <1>3

\* Registers that two hold alike.
SameModem1(r, s) == s.MODEM_CONFIG_1 = r.MODEM_CONFIG_1
SameFactor(r, s) == /\ s.MODEM_CONFIG_2 = r.MODEM_CONFIG_2 /\ s.DETECTION_OPTIMIZE = r.DETECTION_OPTIMIZE
                    /\ s.DETECTION_THRESHOLD = r.DETECTION_THRESHOLD
SamePa(r, s)     == s.PA_CONFIG = r.PA_CONFIG /\ s.PaDac = r.PaDac
SameFrf(r, s)    == s.FRF_MSB = r.FRF_MSB /\ s.FRF_MID = r.FRF_MID /\ s.FRF_LSB = r.FRF_LSB

\* The registers with those of one setting written.
PaWritten(r, x, y) == [r EXCEPT !.PA_CONFIG = x, !.PaDac = y]
FrfWritten(r, x, y, z) == [r EXCEPT !.FRF_MSB = x, !.FRF_MID = y, !.FRF_LSB = z]
FactorWritten(r, x, y, z) ==
    [r EXCEPT !.DETECTION_OPTIMIZE = x, !.DETECTION_THRESHOLD = y, !.MODEM_CONFIG_2 = z]

\* Writing the registers of one setting leaves the others.
LEMMA PaUpdated ==
  ASSUME NEW r \in Registers, NEW x \in Byte, NEW y \in Byte
  PROVE  LET s == PaWritten(r, x, y) IN
         /\ s \in Registers /\ s.PA_CONFIG = x /\ s.PaDac = y
         /\ SameModem1(r, s) /\ SameFactor(r, s) /\ SameFrf(r, s)
<1> DEFINE s == PaWritten(r, x, y)
           one == [r EXCEPT !.PA_CONFIG = x]
<1>1. one \in Registers /\ one.PA_CONFIG = x
      /\ SameModem1(r, one) /\ SameFactor(r, one) /\ SameFrf(r, one)
  BY DEF Registers, SameModem1, SameFactor, SameFrf
<1>2. s = [one EXCEPT !.PaDac = y]
  BY DEF PaWritten
<1> HIDE DEF s, one
<1>3. s \in Registers /\ s.PA_CONFIG = x /\ s.PaDac = y
      /\ SameModem1(one, s) /\ SameFactor(one, s) /\ SameFrf(one, s)
  BY <1>1, <1>2 DEF Registers, SameModem1, SameFactor, SameFrf
<1> QED BY <1>1, <1>3 DEF SameModem1, SameFactor, SameFrf, s

LEMMA FrfUpdated ==
  ASSUME NEW r \in Registers, NEW x \in Byte, NEW y \in Byte, NEW z \in Byte
  PROVE  LET s == FrfWritten(r, x, y, z) IN
         /\ s \in Registers /\ s.FRF_MSB = x /\ s.FRF_MID = y /\ s.FRF_LSB = z
         /\ SameModem1(r, s) /\ SameFactor(r, s) /\ SamePa(r, s)
<1> DEFINE s == FrfWritten(r, x, y, z)
           one == [r EXCEPT !.FRF_MSB = x]
           two == [one EXCEPT !.FRF_MID = y]
<1>1. one \in Registers /\ one.FRF_MSB = x
      /\ SameModem1(r, one) /\ SameFactor(r, one) /\ SamePa(r, one)
  BY DEF Registers, SameModem1, SameFactor, SamePa
<1>2. s = [two EXCEPT !.FRF_LSB = z]
  BY DEF FrfWritten
<1> HIDE DEF s, one
<1>3. two \in Registers /\ two.FRF_MSB = x /\ two.FRF_MID = y
      /\ SameModem1(one, two) /\ SameFactor(one, two) /\ SamePa(one, two)
  BY <1>1 DEF Registers, SameModem1, SameFactor, SamePa
<1> HIDE DEF two
<1>4. s \in Registers /\ s.FRF_MSB = x /\ s.FRF_MID = y /\ s.FRF_LSB = z
      /\ SameModem1(two, s) /\ SameFactor(two, s) /\ SamePa(two, s)
  BY <1>2, <1>3 DEF Registers, SameModem1, SameFactor, SamePa
<1> QED BY <1>1, <1>3, <1>4 DEF SameModem1, SameFactor, SamePa, s

LEMMA FactorUpdated ==
  ASSUME NEW r \in Registers, NEW x \in Byte, NEW y \in Byte, NEW z \in Byte
  PROVE  LET s == FactorWritten(r, x, y, z) IN
         /\ s \in Registers
         /\ s.DETECTION_OPTIMIZE = x /\ s.DETECTION_THRESHOLD = y /\ s.MODEM_CONFIG_2 = z
         /\ SameModem1(r, s) /\ SameFrf(r, s) /\ SamePa(r, s)
<1> DEFINE s == FactorWritten(r, x, y, z)
           one == [r EXCEPT !.DETECTION_OPTIMIZE = x]
           two == [one EXCEPT !.DETECTION_THRESHOLD = y]
<1>1. one \in Registers /\ one.DETECTION_OPTIMIZE = x
      /\ SameModem1(r, one) /\ SameFrf(r, one) /\ SamePa(r, one)
  BY DEF Registers, SameModem1, SameFrf, SamePa
<1>2. s = [two EXCEPT !.MODEM_CONFIG_2 = z]
  BY DEF FactorWritten
<1> HIDE DEF s, one
<1>3. two \in Registers /\ two.DETECTION_OPTIMIZE = x /\ two.DETECTION_THRESHOLD = y
      /\ SameModem1(one, two) /\ SameFrf(one, two) /\ SamePa(one, two)
  BY <1>1 DEF Registers, SameModem1, SameFrf, SamePa
<1> HIDE DEF two
<1>4. s \in Registers
      /\ s.DETECTION_OPTIMIZE = x /\ s.DETECTION_THRESHOLD = y /\ s.MODEM_CONFIG_2 = z
      /\ SameModem1(two, s) /\ SameFrf(two, s) /\ SamePa(two, s)
  BY <1>2, <1>3 DEF Registers, SameModem1, SameFrf, SamePa
<1> QED BY <1>1, <1>3, <1>4 DEF SameModem1, SameFrf, SamePa, s

\* What setTxPower does to the registers, and to which.
LEMMA TxPowerEffect ==
  ASSUME NEW r \in Registers, NEW power \in Int, NEW pin \in PaPins,
         NEW s, s = TxPowerSet(r, power, pin)
  PROVE  /\ s \in Registers
         /\ SameModem1(r, s) /\ SameFactor(r, s) /\ SameFrf(r, s)
         /\ PinOf(s) = pin /\ PowerOf(s) = Within(power, pin)
<1> DEFINE x == WithField(r.PA_CONFIG, 128, 2, pin \div 128)
           pa == WithField(x, 16, 8, 7)
           amp == IF power > 17 THEN RF_PADAC_20DBM_ON ELSE RF_PADAC_20DBM_OFF
           boosted == Field(pa, 128, 2) = 1
           dac == IF boosted THEN WithField(r.PaDac, 1, 8, amp) ELSE r.PaDac
           out == IF ~boosted THEN Clipped(power, -1, 14) + 1
                  ELSE IF Field(dac, 1, 8) = RF_PADAC_20DBM_ON
                  THEN Clipped(power, 5, 20) - 5 ELSE Clipped(power, 2, 17) - 2
<1>1. r.PA_CONFIG \in Byte /\ r.PaDac \in Byte
  BY DEF Registers
<1>2. pin = 128 \/ pin = 0
  BY DEF PaPins, RF_PACONFIG_PASELECT_PABOOST, RF_PACONFIG_PASELECT_RFO
<1>3. pin \div 128 \in 0 .. 1 /\ (pin \div 128) * 128 = pin
  BY <1>2
<1>4. x \in Byte /\ Field(x, 128, 2) = pin \div 128
  <2> DEFINE v == pin \div 128
             b == r.PA_CONFIG
  <2>1. v \in 0 .. 1 /\ b \in Byte /\ v \in Int
    BY <1>1, <1>3
  <2> HIDE DEF v, b
  <2>2. WithField(b, 128, 2, v) \in Byte /\ Field(WithField(b, 128, 2, v), 128, 2) = v
    BY <2>1, PinField
  <2> QED BY <2>2 DEF v, b
<1>5. pa \in Byte /\ Field(pa, 128, 2) = pin \div 128
  <2>1. WithField(x, 16, 8, 7) \in Byte /\ Field(WithField(x, 16, 8, 7), 128, 2) = Field(x, 128, 2)
    <3> HIDE DEF x
    <3> QED BY <1>4, StepsField
  <2> QED BY <1>4, <2>1
<1>6. boosted <=> pin = 128
  BY <1>2, <1>5
<1>7. dac \in Byte /\ (boosted => Field(dac, 1, 8) = amp)
  BY <1>1, DacField DEF RF_PADAC_20DBM_ON, RF_PADAC_20DBM_OFF
<1>8. out \in 0 .. 15
  BY DEF Clipped
<1>9. s = PaWritten(r, WithField(pa, 1, 16, out), dac)
  BY DEF PaWritten, TxPowerSet
<1> HIDE DEF x, pa, amp, boosted, dac, out
<1>10. WithField(pa, 1, 16, out) \in Byte /\ Field(WithField(pa, 1, 16, out), 1, 16) = out
       /\ Field(WithField(pa, 1, 16, out), 128, 2) = Field(pa, 128, 2)
  BY <1>5, <1>8, PowerField
<1>11. s \in Registers /\ s.PA_CONFIG = WithField(pa, 1, 16, out) /\ s.PaDac = dac
       /\ SameModem1(r, s) /\ SameFactor(r, s) /\ SameFrf(r, s)
  BY <1>7, <1>9, <1>10, PaUpdated
<1>12. PinOf(s) = pin
  BY <1>3, <1>5, <1>10, <1>11 DEF PinOf
<1>13. PowerOf(s) = Within(power, pin)
  <2>1. CASE pin = 0
    <3>1. out = Clipped(power, -1, 14) + 1
      BY <1>6, <2>1 DEF out
    <3> QED BY <1>10, <1>11, <1>12, <2>1, <3>1 DEF PowerOf, Clipped, Within, RF_PACONFIG_PASELECT_RFO
  <2>2. CASE pin = 128 /\ power > 17
    <3>1. amp = 7 /\ Field(dac, 1, 8) = 7
      BY <1>6, <1>7, <2>2 DEF amp, RF_PADAC_20DBM_ON
    <3>2. out = Clipped(power, 5, 20) - 5 /\ Clipped(power, 5, 20) = Clipped(power, 2, 20)
      BY <1>6, <2>2, <3>1 DEF out, RF_PADAC_20DBM_ON, Clipped
    <3> QED BY <1>10, <1>11, <1>12, <2>2, <3>1, <3>2
            DEF PowerOf, Clipped, Within, RF_PACONFIG_PASELECT_RFO, RF_PADAC_20DBM_ON
  <2>3. CASE pin = 128 /\ power <= 17
    <3>1. amp = 4 /\ Field(dac, 1, 8) = 4
      BY <1>6, <1>7, <2>3 DEF amp, RF_PADAC_20DBM_OFF
    <3>2. out = Clipped(power, 2, 17) - 2 /\ Clipped(power, 2, 17) = Clipped(power, 2, 20)
      BY <1>6, <2>3, <3>1 DEF out, RF_PADAC_20DBM_ON, Clipped
    <3> QED BY <1>10, <1>11, <1>12, <2>3, <3>1, <3>2
            DEF PowerOf, Clipped, Within, RF_PACONFIG_PASELECT_RFO, RF_PADAC_20DBM_ON
  <2> QED BY <1>2, <2>1, <2>2, <2>3
<1> QED BY <1>11, <1>12, <1>13

\* setTxPowerMax,
LEMMA TxPowerMaxEffect ==
  ASSUME NEW r \in Registers, NEW level \in Int,
         NEW s, s = TxPowerMaxSet(r, level)
  PROVE  /\ s \in Registers
         /\ SameModem1(r, s) /\ SameFactor(r, s) /\ SameFrf(r, s)
         /\ PinOf(s) = RF_PACONFIG_PASELECT_PABOOST /\ PowerOf(s) = Clipped(level, 5, 20)
<1> DEFINE out == Clipped(level, 5, 20)
<1>1. out \in 5 .. 20
  BY DEF Clipped
<1> HIDE DEF out
<1>2. s = PaWritten(r, 128 + (out - 5), 135)
  BY DEF PaWritten, TxPowerMaxSet, RF_PACONFIG_PASELECT_PABOOST, out
<1>3. 128 + (out - 5) \in Byte /\ Field(128 + (out - 5), 128, 2) = 1 /\ Field(128 + (out - 5), 1, 16) = out - 5
  BY <1>1 DEF Byte, Field
<1>4. 135 \in Byte /\ Field(135, 1, 8) = 7
  BY DEF Byte, Field
<1>5. s \in Registers /\ s.PA_CONFIG = 128 + (out - 5) /\ s.PaDac = 135
      /\ SameModem1(r, s) /\ SameFactor(r, s) /\ SameFrf(r, s)
  BY <1>2, <1>3, <1>4, PaUpdated
<1>6. PinOf(s) = 128
  BY <1>3, <1>5 DEF PinOf
<1>7. PowerOf(s) = out
  BY <1>1, <1>3, <1>4, <1>5, <1>6 DEF PowerOf, RF_PACONFIG_PASELECT_RFO, RF_PADAC_20DBM_ON
<1> QED BY <1>5, <1>6, <1>7 DEF out, RF_PACONFIG_PASELECT_PABOOST

\* A number of three bytes is put together from its bytes,
LEMMA ThreeBytes ==
  ASSUME NEW h \in Nat, h < 256 * 256, NEW e \in Byte
  PROVE  LET n == h * 256 + e IN
         /\ n % 256 \in Byte /\ (n \div 256) % 256 \in Byte /\ ((n \div 256) \div 256) % 256 \in Byte
         /\ ((((n \div 256) \div 256) % 256) * 256 + ((n \div 256) % 256)) * 256 + (n % 256) = n
<1>1. (h * 256 + e) % 256 = e /\ (h * 256 + e) \div 256 = h
  BY SMT DEF Byte
<1>2. h \div 256 \in Byte /\ h % 256 \in Byte /\ (h \div 256) * 256 + (h % 256) = h
  BY SMT DEF Byte
<1>3. (h \div 256) % 256 = h \div 256
  <2>1. \A x \in 0 .. 255 : x % 256 = x
    BY SMT
  <2> QED BY <1>2, <2>1 DEF Byte
<1> DEFINE n == h * 256 + e
           low == n % 256
           middle == (n \div 256) % 256
           high == ((n \div 256) \div 256) % 256
<1>4. low = e /\ middle = h % 256 /\ high = h \div 256 /\ n = h * 256 + e
  BY <1>1, <1>3, Zenon
<1>5. (high * 256 + middle) * 256 + low = n
  <2> HIDE DEF n, low, middle, high
  <2> DEFINE top == h \div 256
             rest == h % 256
  <2>1. top * 256 + rest = h /\ low = e /\ middle = rest /\ high = top /\ n = h * 256 + e
    BY <1>2, <1>4
  <2> HIDE DEF top, rest
  <2> QED BY <2>1
<1> HIDE DEF n, low, middle, high
<1>6. low \in Byte /\ middle \in Byte /\ high \in Byte
  BY <1>2, <1>4
<1> QED BY <1>5, <1>6 DEF n, low, middle, high

\* and the steps of a frequency are such a number.
LEMMA StepsOfFrequency ==
  ASSUME NEW f \in Nat, f < 1024 * 1000 * 1000
  PROVE  /\ f \div 15625 \in Nat /\ f \div 15625 < 256 * 256
         /\ ((f % 15625) * 256) \div 15625 \in Byte
<1>1. f \div 15625 \in Nat /\ f \div 15625 < 256 * 256
  BY SMT
<1> DEFINE Rests == 0 .. 15624
           LowByte(k) == (k * 256) \div 15625
           rest == f % 15625
<1>2. rest \in Rests
  BY SMT
<1>3. \A k \in Rests : LowByte(k) \in Byte
  BY SMT DEF Byte
<1> HIDE DEF Rests, LowByte, rest
<1>4. LowByte(rest) \in Byte
  BY <1>2, <1>3
<1> QED BY <1>1, <1>4 DEF LowByte, rest

\* setFrequency,
LEMMA FrequencyEffect ==
  ASSUME NEW r \in Registers, NEW frequency \in Frequencies,
         NEW s, s = FrequencySet(r, frequency)
  PROVE  /\ s \in Registers
         /\ SameModem1(r, s) /\ SameFactor(r, s) /\ SamePa(r, s)
         /\ FrfOf(s) = Frf(frequency)
<1> DEFINE h == frequency \div 15625
           e == ((frequency % 15625) * 256) \div 15625
           frf == Frf(frequency)
           low == frf % 256
           middle == (frf \div 256) % 256
           high == ((frf \div 256) \div 256) % 256
<1>1. h \in Nat /\ h < 256 * 256 /\ e \in Byte
  <2>1. frequency \in Nat /\ frequency < 1024 * 1000 * 1000
    BY RegisterAssumption DEF RegisterAssumption
  <2> QED BY <2>1, StepsOfFrequency
<1>2. frf = h * 256 + e
  BY DEF Frf
<1>3. s = FrfWritten(r, high, middle, low)
  BY DEF FrequencySet, FrfWritten
<1>4. low \in Byte /\ middle \in Byte /\ high \in Byte /\ (high * 256 + middle) * 256 + low = frf
  <2> HIDE DEF h, e, frf
  <2> QED BY <1>1, <1>2, ThreeBytes
<1> HIDE DEF h, e, frf, low, middle, high
<1>5. /\ s \in Registers /\ s.FRF_MSB = high /\ s.FRF_MID = middle /\ s.FRF_LSB = low
      /\ SameModem1(r, s) /\ SameFactor(r, s) /\ SamePa(r, s)
  <2> DEFINE w == FrfWritten(r, high, middle, low)
  <2>1. /\ w \in Registers /\ w.FRF_MSB = high /\ w.FRF_MID = middle /\ w.FRF_LSB = low
        /\ SameModem1(r, w) /\ SameFactor(r, w) /\ SamePa(r, w)
    BY <1>4, FrfUpdated
  <2> QED BY <1>3, <2>1
<1>6. FrfOf(s) = frf
  BY <1>4, <1>5 DEF FrfOf
<1> QED BY <1>5, <1>6 DEF frf

\* setSpreadingFactor,
LEMMA FactorEffect ==
  ASSUME NEW r \in Registers, NEW factor \in Int,
         NEW s, s = SpreadingFactorSet(r, factor)
  PROVE  /\ s \in Registers
         /\ SameModem1(r, s) /\ SameFrf(r, s) /\ SamePa(r, s)
         /\ FactorOf(s) = Clipped(factor, 6, 12) /\ CrcOf(s) = CrcOf(r)
         /\ DetectsAs(s) <=> FactorOf(s) = 6
<1> DEFINE sf == Clipped(factor, 6, 12)
           x == IF sf = 6 THEN 197 ELSE 195
           y == IF sf = 6 THEN 12 ELSE 10
           z == WithField(r.MODEM_CONFIG_2, 16, 16, sf)
           w == FactorWritten(r, x, y, z)
<1>1. sf \in 6 .. 12
  BY DEF Clipped
<1>2. x \in Byte /\ y \in Byte /\ (x = 197 <=> sf = 6) /\ (y = 12 <=> sf = 6)
  BY DEF Byte
<1>3. r.MODEM_CONFIG_2 \in Byte
  BY DEF Registers
<1>4. s = w
  BY DEF SpreadingFactorSet, FactorWritten
<1> HIDE DEF sf
<1>5. z \in Byte /\ Field(z, 16, 16) = sf /\ Field(z, 4, 2) = Field(r.MODEM_CONFIG_2, 4, 2)
  BY <1>1, <1>3, FactorField
<1> HIDE DEF x, y, z
<1>6. /\ w \in Registers
      /\ w.DETECTION_OPTIMIZE = x /\ w.DETECTION_THRESHOLD = y /\ w.MODEM_CONFIG_2 = z
      /\ SameModem1(r, w) /\ SameFrf(r, w) /\ SamePa(r, w)
  BY <1>2, <1>5, FactorUpdated
<1> HIDE DEF w
<1>7. FactorOf(s) = sf /\ CrcOf(s) = CrcOf(r)
  BY <1>4, <1>5, <1>6 DEF FactorOf, CrcOf
<1>8. DetectsAs(s) <=> sf = 6
  BY <1>2, <1>4, <1>6 DEF DetectsAs
<1> QED BY <1>4, <1>6, <1>7, <1>8 DEF sf

\* enableCrc and disableCrc,
LEMMA CrcEffect ==
  ASSUME NEW r \in Registers, NEW on \in BOOLEAN,
         NEW s, s = CrcSet(r, on)
  PROVE  /\ s \in Registers
         /\ SameModem1(r, s) /\ SameFrf(r, s) /\ SamePa(r, s)
         /\ FactorOf(s) = FactorOf(r) /\ (DetectsAs(s) <=> DetectsAs(r))
         /\ CrcOf(s) = on
<1> DEFINE v == IF on THEN 1 ELSE 0
           z == WithField(r.MODEM_CONFIG_2, 4, 2, v)
<1>1. v \in 0 .. 1 /\ (v = 1 <=> on)
  OBVIOUS
<1>2. r.MODEM_CONFIG_2 \in Byte
  BY DEF Registers
<1>3. s = [r EXCEPT !.MODEM_CONFIG_2 = z]
  BY DEF CrcSet
<1> HIDE DEF v
<1>4. z \in Byte /\ Field(z, 4, 2) = v /\ Field(z, 16, 16) = Field(r.MODEM_CONFIG_2, 16, 16)
  BY <1>1, <1>2, CrcField
<1> HIDE DEF z
<1>5. /\ s \in Registers /\ s.MODEM_CONFIG_2 = z
      /\ SameModem1(r, s) /\ SameFrf(r, s) /\ SamePa(r, s)
      /\ s.DETECTION_OPTIMIZE = r.DETECTION_OPTIMIZE /\ s.DETECTION_THRESHOLD = r.DETECTION_THRESHOLD
  BY <1>3, <1>4 DEF Registers, SameModem1, SameFrf, SamePa
<1>6. FactorOf(s) = FactorOf(r) /\ (DetectsAs(s) <=> DetectsAs(r))
  BY <1>4, <1>5 DEF FactorOf, DetectsAs
<1>7. CrcOf(s) <=> v = 1
  BY <1>4, <1>5 DEF CrcOf
<1>8. CrcOf(s) = on
  BY <1>1, <1>7, Zenon DEF CrcOf
<1> QED BY <1>5, <1>6, <1>8

\* setSignalBandwidth, setCodingRate4, explicitHeaderMode and implicitHeaderMode:
\* they share a register, and each writes its own field of it.
LEMMA Modem1Effect ==
  ASSUME NEW r \in Registers, NEW z \in Byte,
         NEW s, s = [r EXCEPT !.MODEM_CONFIG_1 = z]
  PROVE  /\ s \in Registers /\ s.MODEM_CONFIG_1 = z
         /\ SameFactor(r, s) /\ SameFrf(r, s) /\ SamePa(r, s)
BY DEF Registers, SameFactor, SameFrf, SamePa

LEMMA BandwidthEffect ==
  ASSUME NEW r \in Registers, NEW sbw \in Int,
         NEW s, s = SignalBandwidthSet(r, sbw)
  PROVE  /\ s \in Registers
         /\ SameFactor(r, s) /\ SameFrf(r, s) /\ SamePa(r, s)
         /\ StepOf(s) = BandwidthStep(sbw) /\ DenominatorOf(s) = DenominatorOf(r)
         /\ ImplicitOf(s) = ImplicitOf(r)
<1> DEFINE v == BandwidthStep(sbw)
           z == WithField(r.MODEM_CONFIG_1, 16, 16, v)
<1>1. v \in 0 .. 15
  <2>1. v \in 0 .. 9
    BY StepThere
  <2> HIDE DEF v
  <2> QED BY <2>1
<1>2. r.MODEM_CONFIG_1 \in Byte
  BY DEF Registers
<1>3. s = [r EXCEPT !.MODEM_CONFIG_1 = z]
  BY DEF SignalBandwidthSet
<1> HIDE DEF v
<1>4. /\ z \in Byte /\ Field(z, 16, 16) = v
      /\ Field(z, 2, 8) = Field(r.MODEM_CONFIG_1, 2, 8) /\ Field(z, 1, 2) = Field(r.MODEM_CONFIG_1, 1, 2)
  BY <1>1, <1>2, StepField
<1> HIDE DEF z
<1>5. s \in Registers /\ s.MODEM_CONFIG_1 = z /\ SameFactor(r, s) /\ SameFrf(r, s) /\ SamePa(r, s)
  BY <1>3, <1>4, Modem1Effect
<1> QED BY <1>4, <1>5 DEF StepOf, DenominatorOf, ImplicitOf, v

LEMMA CodingRateEffect ==
  ASSUME NEW r \in Registers, NEW denominator \in Int,
         NEW s, s = CodingRateSet(r, denominator)
  PROVE  /\ s \in Registers
         /\ SameFactor(r, s) /\ SameFrf(r, s) /\ SamePa(r, s)
         /\ DenominatorOf(s) = Clipped(denominator, 5, 8) /\ StepOf(s) = StepOf(r)
         /\ ImplicitOf(s) = ImplicitOf(r)
<1> DEFINE d == Clipped(denominator, 5, 8)
           v == d - 4
           z == WithField(r.MODEM_CONFIG_1, 2, 8, v)
<1>1. d \in 5 .. 8
  BY DEF Clipped
<1>2. s = [r EXCEPT !.MODEM_CONFIG_1 = z]
  BY DEF CodingRateSet
<1> HIDE DEF d
<1>3. v \in 0 .. 7 /\ v + 4 = d
  BY <1>1
<1>4. r.MODEM_CONFIG_1 \in Byte
  BY DEF Registers
<1> HIDE DEF v
<1>5. /\ z \in Byte /\ Field(z, 2, 8) = v
      /\ Field(z, 16, 16) = Field(r.MODEM_CONFIG_1, 16, 16) /\ Field(z, 1, 2) = Field(r.MODEM_CONFIG_1, 1, 2)
  BY <1>3, <1>4, RateField
<1> HIDE DEF z
<1>6. s \in Registers /\ s.MODEM_CONFIG_1 = z /\ SameFactor(r, s) /\ SameFrf(r, s) /\ SamePa(r, s)
  BY <1>2, <1>5, Modem1Effect
<1>7. DenominatorOf(s) = d
  BY <1>3, <1>5, <1>6 DEF DenominatorOf
<1>8. StepOf(s) = StepOf(r) /\ ImplicitOf(s) = ImplicitOf(r)
  BY <1>5, <1>6 DEF StepOf, ImplicitOf
<1> QED BY <1>6, <1>7, <1>8 DEF d

LEMMA HeaderEffect ==
  ASSUME NEW r \in Registers, NEW implicit \in BOOLEAN,
         NEW s, s = HeaderSet(r, implicit)
  PROVE  /\ s \in Registers
         /\ SameFactor(r, s) /\ SameFrf(r, s) /\ SamePa(r, s)
         /\ ImplicitOf(s) = implicit /\ StepOf(s) = StepOf(r)
         /\ DenominatorOf(s) = DenominatorOf(r)
<1> DEFINE v == IF implicit THEN 1 ELSE 0
           z == WithField(r.MODEM_CONFIG_1, 1, 2, v)
<1>1. v \in 0 .. 1 /\ (v = 1 <=> implicit)
  OBVIOUS
<1>2. r.MODEM_CONFIG_1 \in Byte
  BY DEF Registers
<1>3. s = [r EXCEPT !.MODEM_CONFIG_1 = z]
  BY DEF HeaderSet
<1> HIDE DEF v
<1>4. /\ z \in Byte /\ Field(z, 1, 2) = v
      /\ Field(z, 16, 16) = Field(r.MODEM_CONFIG_1, 16, 16) /\ Field(z, 2, 8) = Field(r.MODEM_CONFIG_1, 2, 8)
  BY <1>1, <1>2, HeaderField
<1> HIDE DEF z
<1>5. s \in Registers /\ s.MODEM_CONFIG_1 = z /\ SameFactor(r, s) /\ SameFrf(r, s) /\ SamePa(r, s)
  BY <1>3, <1>4, Modem1Effect
<1>6. ImplicitOf(s) <=> v = 1
  BY <1>4, <1>5 DEF ImplicitOf
<1>7. ImplicitOf(s) = implicit
  BY <1>1, <1>6, Zenon DEF ImplicitOf
<1>8. StepOf(s) = StepOf(r) /\ DenominatorOf(s) = DenominatorOf(r)
  BY <1>4, <1>5 DEF StepOf, DenominatorOf
<1> QED BY <1>5, <1>7, <1>8

\* A setting that shares none of the registers written is as it was.
LEMMA SettingsApart ==
  ASSUME NEW r, NEW s
  PROVE  /\ SameModem1(r, s) =>
              StepOf(s) = StepOf(r) /\ DenominatorOf(s) = DenominatorOf(r) /\ ImplicitOf(s) = ImplicitOf(r)
         /\ SameFactor(r, s) =>
              FactorOf(s) = FactorOf(r) /\ CrcOf(s) = CrcOf(r) /\ (DetectsAs(s) <=> DetectsAs(r))
         /\ SamePa(r, s) => PinOf(s) = PinOf(r) /\ PowerOf(s) = PowerOf(r)
         /\ SameFrf(r, s) => FrfOf(s) = FrfOf(r)
<1>1. ASSUME SameModem1(r, s)
      PROVE  StepOf(s) = StepOf(r) /\ DenominatorOf(s) = DenominatorOf(r) /\ ImplicitOf(s) = ImplicitOf(r)
  BY <1>1 DEF SameModem1, StepOf, DenominatorOf, ImplicitOf
<1>2. ASSUME SameFactor(r, s)
      PROVE  FactorOf(s) = FactorOf(r) /\ CrcOf(s) = CrcOf(r) /\ (DetectsAs(s) <=> DetectsAs(r))
  BY <1>2 DEF SameFactor, FactorOf, CrcOf, DetectsAs
<1>3. ASSUME SamePa(r, s) PROVE PinOf(s) = PinOf(r) /\ PowerOf(s) = PowerOf(r)
  BY <1>3 DEF SamePa, PinOf, PowerOf
<1>4. ASSUME SameFrf(r, s) PROVE FrfOf(s) = FrfOf(r)
  BY <1>4 DEF SameFrf, FrfOf
<1> QED BY <1>1, <1>2, <1>3, <1>4

-----------------------------------------------------------------------------
(* The settings of the radio, and the packet it is read from.              *)

Settings == [factor : Int, step : Int, denominator : Int, crc : BOOLEAN, pin : PaPins, power : Int]

\* What the registers hold is what was asked, and they are registers.
SettingsInv ==
    /\ reg \in Registers /\ asked \in Settings
    /\ _frequency \in Frequencies /\ _implicitHeaderMode \in BOOLEAN
    /\ SettingsKept

\* The driver's index and the chip's pointer are at the same byte, the next to be read.
ReadInv ==
    /\ rxPacket \in [length : Nat, pointer : Nat] /\ _packetIndex \in Nat /\ rxRead \in Seq(Nat)
    /\ rxPacket.pointer = _packetIndex /\ Len(rxRead) = _packetIndex
    /\ _packetIndex <= rxPacket.length
    /\ \A i \in DOMAIN rxRead : rxRead[i] = i - 1

\* The settings the sketches start with: 125 kHz is the eighth step.
LEMMA StartStep == BandwidthStep(125000) = 7
<1> DEFINE Fits(i) == 125000 <= Steps[i] /\ \A j \in 1 .. (i - 1) : 125000 > Steps[j]
<1>1. /\ Steps[1] = 7800 /\ Steps[2] = 10400 /\ Steps[3] = 15600 /\ Steps[4] = 20800 /\ Steps[5] = 31250
      /\ Steps[6] = 41700 /\ Steps[7] = 62500 /\ Steps[8] = 125000 /\ Steps[9] = 250000
  BY DEF Steps
<1>2. Fits(8)
  BY <1>1
<1>3. \A i \in 1 .. 9 : Fits(i) => i = 8
  <2> SUFFICES ASSUME NEW i \in 1 .. 9, Fits(i), i # 8 PROVE FALSE
    OBVIOUS
  <2>1. CASE i < 8
    BY <1>1, <2>1
  <2>2. CASE i = 9
    BY <1>1, <2>2
  <2> QED BY <2>1, <2>2
<1>4. ~ \A i \in 1 .. 9 : 125000 > Steps[i]
  BY <1>1
<1>5. BandwidthStep(125000) = (CHOOSE i \in 1 .. 9 : Fits(i)) - 1
  BY <1>4 DEF BandwidthStep
<1> HIDE DEF Fits
<1> DEFINE k == CHOOSE i \in 1 .. 9 : Fits(i)
<1>6. k \in 1 .. 9 /\ Fits(k)
  BY <1>2
<1>7. BandwidthStep(125000) = k - 1
  BY <1>5
<1> HIDE DEF k
<1> QED BY <1>3, <1>6, <1>7

LEMMA RadioInit == RegisterInit => SettingsInv /\ ReadInv
<1> SUFFICES ASSUME RegisterInit PROVE SettingsInv /\ ReadInv
  OBVIOUS
<1>1. PICK frequency \in Frequencies, PABOOST \in BOOLEAN :
        LET pin == IF PABOOST THEN RF_PACONFIG_PASELECT_PABOOST ELSE RF_PACONFIG_PASELECT_RFO IN
        /\ reg = BeginRadio(frequency, PABOOST)
        /\ _frequency = frequency /\ _implicitHeaderMode = FALSE /\ _packetIndex = 0
        /\ rxPacket = Nobody /\ rxRead = <<>>
        /\ asked = [factor |-> 11, step |-> 7, denominator |-> 5, crc |-> TRUE,
                    pin |-> pin, power |-> 14]
  BY DEF RegisterInit
<1> DEFINE pin == IF PABOOST THEN RF_PACONFIG_PASELECT_PABOOST ELSE RF_PACONFIG_PASELECT_RFO
           r1 == FrequencySet(AfterReset, frequency)
           r2 == TxPowerSet(r1, 14, pin)
           r3 == SpreadingFactorSet(r2, 11)
           r4 == SignalBandwidthSet(r3, 125000)
           r5 == CrcSet(r4, TRUE)
<1>2. reg = r5
  BY <1>1 DEF BeginRadio
<1>3. pin \in PaPins /\ (pin = 0 \/ pin = 128)
  BY DEF PaPins, RF_PACONFIG_PASELECT_PABOOST, RF_PACONFIG_PASELECT_RFO
<1>4. /\ _frequency = frequency /\ _implicitHeaderMode = FALSE
      /\ asked = [factor |-> 11, step |-> 7, denominator |-> 5, crc |-> TRUE, pin |-> pin, power |-> 14]
  BY <1>1
<1> HIDE DEF pin
<1>5. /\ AfterReset \in Registers /\ AfterReset.MODEM_CONFIG_1 = 114
  BY DEF AfterReset, Registers, Byte
<1> HIDE DEF r1, r2, r3, r4, r5
<1>6. /\ r1 \in Registers /\ SameModem1(AfterReset, r1) /\ FrfOf(r1) = Frf(frequency)
  BY <1>5, FrequencyEffect DEF r1
<1>7. /\ r2 \in Registers /\ SameModem1(r1, r2) /\ SameFrf(r1, r2)
      /\ PinOf(r2) = pin /\ PowerOf(r2) = Within(14, pin)
  BY <1>3, <1>6, TxPowerEffect DEF r2
<1>8. Within(14, pin) = 14
  BY <1>3 DEF Within, Clipped, RF_PACONFIG_PASELECT_RFO
<1>9. /\ r3 \in Registers /\ SameModem1(r2, r3) /\ SameFrf(r2, r3) /\ SamePa(r2, r3)
      /\ FactorOf(r3) = 11 /\ (DetectsAs(r3) <=> FactorOf(r3) = 6)
  <2>1. Clipped(11, 6, 12) = 11
    BY DEF Clipped
  <2> QED BY <1>7, <2>1, FactorEffect DEF r3
<1>10. /\ r4 \in Registers /\ SameFactor(r3, r4) /\ SameFrf(r3, r4) /\ SamePa(r3, r4)
       /\ StepOf(r4) = 7 /\ DenominatorOf(r4) = DenominatorOf(r3) /\ ImplicitOf(r4) = ImplicitOf(r3)
  BY <1>9, StartStep, BandwidthEffect DEF r4
<1>11. /\ r5 \in Registers /\ SameModem1(r4, r5) /\ SameFrf(r4, r5) /\ SamePa(r4, r5)
       /\ FactorOf(r5) = FactorOf(r4) /\ (DetectsAs(r5) <=> DetectsAs(r4)) /\ CrcOf(r5) = TRUE
  BY <1>10, CrcEffect DEF r5
<1>12. DenominatorOf(r3) = 5 /\ ~ ImplicitOf(r3)
  <2>1. r3.MODEM_CONFIG_1 = 114
    BY <1>5, <1>6, <1>7, <1>9 DEF SameModem1
  <2> QED BY <2>1 DEF DenominatorOf, ImplicitOf, Field
<1>13. StepOf(r5) = 7 /\ DenominatorOf(r5) = 5 /\ ~ ImplicitOf(r5)
  BY <1>10, <1>11, <1>12, SettingsApart
<1>14. FactorOf(r5) = 11 /\ ~ DetectsAs(r5) /\ CrcOf(r5) = TRUE
  <2>1. FactorOf(r4) = 11 /\ (DetectsAs(r4) <=> DetectsAs(r3))
    BY <1>9, <1>10, SettingsApart
  <2> QED BY <1>9, <1>11, <2>1
<1>15. PinOf(r5) = pin /\ PowerOf(r5) = 14
  BY <1>7, <1>8, <1>9, <1>10, <1>11 DEF SamePa, PinOf, PowerOf
<1>16. FrfOf(r5) = Frf(frequency)
  BY <1>6, <1>7, <1>9, <1>10, <1>11 DEF SameFrf, FrfOf
<1>17. ImplicitOf(r5) = FALSE
  BY <1>13, Zenon DEF ImplicitOf
<1>18. SettingsInv
  <2>1. reg \in Registers /\ _frequency \in Frequencies /\ _implicitHeaderMode \in BOOLEAN
    BY <1>2, <1>4, <1>11
  <2>2. asked \in Settings /\ asked.factor = 11 /\ asked.step = 7 /\ asked.denominator = 5
        /\ asked.pin = pin /\ asked.power = 14
    BY <1>3, <1>4 DEF Settings
  <2>3. asked.crc = TRUE
    BY <1>4
  <2>4. FactorOf(reg) = asked.factor /\ (DetectsAs(reg) <=> asked.factor = 6) /\ StepOf(reg) = asked.step
        /\ DenominatorOf(reg) = asked.denominator /\ PinOf(reg) = asked.pin /\ PowerOf(reg) = asked.power
        /\ FrfOf(reg) = Frf(_frequency)
    BY <1>2, <1>4, <1>13, <1>14, <1>15, <1>16, <2>2
  <2>5. CrcOf(reg) = asked.crc
    BY <1>2, <1>14, <2>3, Zenon
  <2>6. ImplicitOf(reg) = _implicitHeaderMode
    BY <1>2, <1>4, <1>17, Zenon
  <2> QED BY <2>1, <2>2, <2>4, <2>5, <2>6, Zenon DEF SettingsInv, SettingsKept
<1>19. ReadInv
  BY <1>1 DEF ReadInv, Nobody
<1> QED BY <1>18, <1>19

\* The registers r hold the settings a: the numbers of them, and the flag.
NumbersHeld(r, a) ==
    /\ FactorOf(r) = a.factor /\ (DetectsAs(r) <=> a.factor = 6)
    /\ StepOf(r) = a.step /\ DenominatorOf(r) = a.denominator
    /\ PinOf(r) = a.pin /\ PowerOf(r) = a.power
CrcHeld(r, a) == CrcOf(r) = a.crc

LEMMA SettingsInvParts ==
  SettingsInv <=> /\ reg \in Registers /\ asked \in Settings
                  /\ _frequency \in Frequencies /\ _implicitHeaderMode \in BOOLEAN
                  /\ NumbersHeld(reg, asked) /\ CrcHeld(reg, asked)
                  /\ ImplicitOf(reg) = _implicitHeaderMode /\ FrfOf(reg) = Frf(_frequency)
BY Zenon DEF SettingsInv, SettingsKept, NumbersHeld, CrcHeld

LEMMA SettingsInvAfter ==
  ASSUME reg' \in Registers, asked' \in Settings,
         _frequency' \in Frequencies, _implicitHeaderMode' \in BOOLEAN,
         NumbersHeld(reg', asked'), CrcHeld(reg', asked'),
         ImplicitOf(reg') = _implicitHeaderMode', FrfOf(reg') = Frf(_frequency')
  PROVE  SettingsInv'
BY Zenon DEF SettingsInv, SettingsKept, NumbersHeld, CrcHeld

\* A setter keeps every setting but its own, which is what was asked.
LEMMA SetterKeeps ==
  ASSUME SettingsInv, NEW r \in Registers, NEW a \in Settings, Setting(r, a),
         NumbersHeld(r, a), CrcHeld(r, a), ImplicitOf(r) = ImplicitOf(reg), FrfOf(r) = FrfOf(reg)
  PROVE  SettingsInv'
<1>1. /\ _frequency \in Frequencies /\ _implicitHeaderMode \in BOOLEAN
      /\ ImplicitOf(reg) = _implicitHeaderMode /\ FrfOf(reg) = Frf(_frequency)
  BY SettingsInvParts, Zenon
<1>2. reg' = r /\ asked' = a /\ _frequency' = _frequency /\ _implicitHeaderMode' = _implicitHeaderMode
  BY Zenon DEF Setting
<1>3. /\ reg' \in Registers /\ asked' \in Settings
      /\ _frequency' \in Frequencies /\ _implicitHeaderMode' \in BOOLEAN
      /\ NumbersHeld(reg', asked') /\ CrcHeld(reg', asked')
      /\ ImplicitOf(reg') = _implicitHeaderMode' /\ FrfOf(reg') = Frf(_frequency')
  BY <1>1, <1>2, Zenon
<1> QED BY <1>3, SettingsInvAfter

LEMMA SettingStep ==
  ASSUME SettingsInv, RegisterNext
  PROVE  SettingsInv'
<1>1. /\ reg \in Registers /\ asked \in Settings
      /\ _frequency \in Frequencies /\ _implicitHeaderMode \in BOOLEAN
      /\ NumbersHeld(reg, asked) /\ CrcHeld(reg, asked)
      /\ ImplicitOf(reg) = _implicitHeaderMode /\ FrfOf(reg) = Frf(_frequency)
  BY SettingsInvParts, Zenon
<1>2. ASSUME NEW power \in Powers, NEW pin \in PaPins, SetTxPower(power, pin) PROVE SettingsInv'
  <2> DEFINE s == TxPowerSet(reg, power, pin)
             one == [asked EXCEPT !.power = Within(power, pin)]
             a == [one EXCEPT !.pin = pin]
  <2>1. /\ s \in Registers /\ SameModem1(reg, s) /\ SameFactor(reg, s) /\ SameFrf(reg, s)
        /\ PinOf(s) = pin /\ PowerOf(s) = Within(power, pin)
    <3>1. power \in Int
      BY RegisterAssumption DEF RegisterAssumption
    <3> QED BY <1>1, <3>1, TxPowerEffect
  <2>2. Setting(s, a)
    BY <1>2, Zenon DEF SetTxPower
  <2> HIDE DEF s
  <2>3. Within(power, pin) \in Int
    BY <1>2, RegisterAssumption DEF RegisterAssumption, Within, Clipped
  <2>4. one \in Settings /\ one.power = Within(power, pin) /\ one.factor = asked.factor
        /\ one.step = asked.step /\ one.denominator = asked.denominator /\ one.crc = asked.crc
    BY <1>1, <2>3 DEF Settings
  <2> HIDE DEF one
  <2>5. a \in Settings /\ a.power = Within(power, pin) /\ a.factor = asked.factor
        /\ a.step = asked.step /\ a.denominator = asked.denominator /\ a.crc = asked.crc /\ a.pin = pin
    BY <2>4 DEF Settings
  <2> HIDE DEF a
  <2>6. /\ StepOf(s) = StepOf(reg) /\ DenominatorOf(s) = DenominatorOf(reg) /\ ImplicitOf(s) = ImplicitOf(reg)
        /\ FactorOf(s) = FactorOf(reg) /\ CrcOf(s) = CrcOf(reg) /\ (DetectsAs(s) <=> DetectsAs(reg))
        /\ FrfOf(s) = FrfOf(reg)
    BY <2>1, SettingsApart
  <2>7. NumbersHeld(s, a)
    BY <1>1, <2>1, <2>5, <2>6 DEF NumbersHeld
  <2>8. CrcHeld(s, a)
    BY <1>1, <2>5, <2>6, Zenon DEF CrcHeld
  <2> QED BY <2>1, <2>2, <2>5, <2>6, <2>7, <2>8, SetterKeeps
<1>3. ASSUME NEW level \in Powers, SetTxPowerMax(level) PROVE SettingsInv'
  <2> DEFINE s == TxPowerMaxSet(reg, level)
             one == [asked EXCEPT !.power = Clipped(level, 5, 20)]
             a == [one EXCEPT !.pin = RF_PACONFIG_PASELECT_PABOOST]
  <2>1. level \in Int
    BY RegisterAssumption DEF RegisterAssumption
  <2>2. /\ s \in Registers /\ SameModem1(reg, s) /\ SameFactor(reg, s) /\ SameFrf(reg, s)
        /\ PinOf(s) = RF_PACONFIG_PASELECT_PABOOST /\ PowerOf(s) = Clipped(level, 5, 20)
    BY <1>1, <2>1, TxPowerMaxEffect
  <2>3. Setting(s, a)
    BY <1>3, Zenon DEF SetTxPowerMax
  <2> HIDE DEF s
  <2>4. Clipped(level, 5, 20) \in Int
    BY <2>1 DEF Clipped
  <2>5. one \in Settings /\ one.power = Clipped(level, 5, 20) /\ one.factor = asked.factor
        /\ one.step = asked.step /\ one.denominator = asked.denominator /\ one.crc = asked.crc
    BY <1>1, <2>4 DEF Settings
  <2> HIDE DEF one
  <2>6. a \in Settings /\ a.power = Clipped(level, 5, 20) /\ a.factor = asked.factor
        /\ a.step = asked.step /\ a.denominator = asked.denominator /\ a.crc = asked.crc
        /\ a.pin = RF_PACONFIG_PASELECT_PABOOST
    BY <2>5 DEF Settings, PaPins
  <2> HIDE DEF a
  <2>7. /\ StepOf(s) = StepOf(reg) /\ DenominatorOf(s) = DenominatorOf(reg) /\ ImplicitOf(s) = ImplicitOf(reg)
        /\ FactorOf(s) = FactorOf(reg) /\ CrcOf(s) = CrcOf(reg) /\ (DetectsAs(s) <=> DetectsAs(reg))
        /\ FrfOf(s) = FrfOf(reg)
    BY <2>2, SettingsApart
  <2>8. NumbersHeld(s, a)
    BY <1>1, <2>2, <2>6, <2>7 DEF NumbersHeld
  <2>9. CrcHeld(s, a)
    BY <1>1, <2>6, <2>7, Zenon DEF CrcHeld
  <2> QED BY <2>2, <2>3, <2>6, <2>7, <2>8, <2>9, SetterKeeps
<1>4. ASSUME NEW sf \in Factors, SetSpreadingFactor(sf) PROVE SettingsInv'
  <2> DEFINE s == SpreadingFactorSet(reg, sf)
             a == [asked EXCEPT !.factor = Clipped(sf, 6, 12)]
  <2>1. sf \in Int
    BY RegisterAssumption DEF RegisterAssumption
  <2>2. /\ s \in Registers /\ SameModem1(reg, s) /\ SameFrf(reg, s) /\ SamePa(reg, s)
        /\ FactorOf(s) = Clipped(sf, 6, 12) /\ CrcOf(s) = CrcOf(reg)
        /\ DetectsAs(s) <=> FactorOf(s) = 6
    BY <1>1, <2>1, FactorEffect
  <2>3. Setting(s, a)
    BY <1>4 DEF SetSpreadingFactor
  <2> HIDE DEF s
  <2>4. Clipped(sf, 6, 12) \in Int
    BY <2>1 DEF Clipped
  <2>5. a \in Settings /\ a.factor = Clipped(sf, 6, 12) /\ a.power = asked.power /\ a.pin = asked.pin
        /\ a.step = asked.step /\ a.denominator = asked.denominator /\ a.crc = asked.crc
    BY <1>1, <2>4 DEF Settings
  <2> HIDE DEF a
  <2>6. /\ StepOf(s) = StepOf(reg) /\ DenominatorOf(s) = DenominatorOf(reg) /\ ImplicitOf(s) = ImplicitOf(reg)
        /\ PinOf(s) = PinOf(reg) /\ PowerOf(s) = PowerOf(reg) /\ FrfOf(s) = FrfOf(reg)
    BY <2>2, SettingsApart
  <2>7. NumbersHeld(s, a)
    BY <1>1, <2>2, <2>5, <2>6 DEF NumbersHeld
  <2>8. CrcHeld(s, a)
    BY <1>1, <2>2, <2>5, Zenon DEF CrcHeld
  <2> QED BY <2>2, <2>3, <2>5, <2>6, <2>7, <2>8, SetterKeeps
<1>5. ASSUME NEW sbw \in Bandwidths, SetSignalBandwidth(sbw) PROVE SettingsInv'
  <2> DEFINE s == SignalBandwidthSet(reg, sbw)
             a == [asked EXCEPT !.step = BandwidthStep(sbw)]
  <2>1. sbw \in Int
    BY RegisterAssumption DEF RegisterAssumption
  <2>2. /\ s \in Registers /\ SameFactor(reg, s) /\ SameFrf(reg, s) /\ SamePa(reg, s)
        /\ StepOf(s) = BandwidthStep(sbw) /\ DenominatorOf(s) = DenominatorOf(reg)
        /\ ImplicitOf(s) = ImplicitOf(reg)
    BY <1>1, <2>1, BandwidthEffect
  <2>3. Setting(s, a)
    BY <1>5 DEF SetSignalBandwidth
  <2> HIDE DEF s
  <2>4. BandwidthStep(sbw) \in Int
    BY <2>1, StepThere
  <2>5. a \in Settings /\ a.step = BandwidthStep(sbw) /\ a.power = asked.power /\ a.pin = asked.pin
        /\ a.factor = asked.factor /\ a.denominator = asked.denominator /\ a.crc = asked.crc
    BY <1>1, <2>4 DEF Settings
  <2> HIDE DEF a
  <2>6. /\ FactorOf(s) = FactorOf(reg) /\ CrcOf(s) = CrcOf(reg) /\ (DetectsAs(s) <=> DetectsAs(reg))
        /\ PinOf(s) = PinOf(reg) /\ PowerOf(s) = PowerOf(reg) /\ FrfOf(s) = FrfOf(reg)
    BY <2>2, SettingsApart
  <2>7. NumbersHeld(s, a)
    BY <1>1, <2>2, <2>5, <2>6 DEF NumbersHeld
  <2>8. CrcHeld(s, a)
    BY <1>1, <2>5, <2>6, Zenon DEF CrcHeld
  <2> QED BY <2>2, <2>3, <2>5, <2>6, <2>7, <2>8, SetterKeeps
<1>6. ASSUME NEW d \in Denominators, SetCodingRate4(d) PROVE SettingsInv'
  <2> DEFINE s == CodingRateSet(reg, d)
             a == [asked EXCEPT !.denominator = Clipped(d, 5, 8)]
  <2>1. d \in Int
    BY RegisterAssumption DEF RegisterAssumption
  <2>2. /\ s \in Registers /\ SameFactor(reg, s) /\ SameFrf(reg, s) /\ SamePa(reg, s)
        /\ DenominatorOf(s) = Clipped(d, 5, 8) /\ StepOf(s) = StepOf(reg)
        /\ ImplicitOf(s) = ImplicitOf(reg)
    BY <1>1, <2>1, CodingRateEffect
  <2>3. Setting(s, a)
    BY <1>6 DEF SetCodingRate4
  <2> HIDE DEF s
  <2>4. Clipped(d, 5, 8) \in Int
    BY <2>1 DEF Clipped
  <2>5. a \in Settings /\ a.denominator = Clipped(d, 5, 8) /\ a.power = asked.power /\ a.pin = asked.pin
        /\ a.factor = asked.factor /\ a.step = asked.step /\ a.crc = asked.crc
    BY <1>1, <2>4 DEF Settings
  <2> HIDE DEF a
  <2>6. /\ FactorOf(s) = FactorOf(reg) /\ CrcOf(s) = CrcOf(reg) /\ (DetectsAs(s) <=> DetectsAs(reg))
        /\ PinOf(s) = PinOf(reg) /\ PowerOf(s) = PowerOf(reg) /\ FrfOf(s) = FrfOf(reg)
    BY <2>2, SettingsApart
  <2>7. NumbersHeld(s, a)
    BY <1>1, <2>2, <2>5, <2>6 DEF NumbersHeld
  <2>8. CrcHeld(s, a)
    BY <1>1, <2>5, <2>6, Zenon DEF CrcHeld
  <2> QED BY <2>2, <2>3, <2>5, <2>6, <2>7, <2>8, SetterKeeps
<1>7. ASSUME NEW on \in BOOLEAN, SetCrc(on) PROVE SettingsInv'
  <2> DEFINE s == CrcSet(reg, on)
             a == [asked EXCEPT !.crc = on]
  <2>1. /\ s \in Registers /\ SameModem1(reg, s) /\ SameFrf(reg, s) /\ SamePa(reg, s)
        /\ FactorOf(s) = FactorOf(reg) /\ (DetectsAs(s) <=> DetectsAs(reg)) /\ CrcOf(s) = on
    BY <1>1, CrcEffect
  <2>2. Setting(s, a)
    BY <1>7 DEF SetCrc
  <2> HIDE DEF s
  <2>3. a \in Settings /\ a.power = asked.power /\ a.pin = asked.pin
        /\ a.factor = asked.factor /\ a.step = asked.step /\ a.denominator = asked.denominator
    BY <1>1 DEF Settings
  <2>4. a.crc = on
    BY <1>1 DEF Settings
  <2> HIDE DEF a
  <2>5. /\ StepOf(s) = StepOf(reg) /\ DenominatorOf(s) = DenominatorOf(reg) /\ ImplicitOf(s) = ImplicitOf(reg)
        /\ PinOf(s) = PinOf(reg) /\ PowerOf(s) = PowerOf(reg) /\ FrfOf(s) = FrfOf(reg)
    BY <2>1, SettingsApart
  <2>6. NumbersHeld(s, a)
    BY <1>1, <2>1, <2>3, <2>5 DEF NumbersHeld
  <2>7. CrcHeld(s, a)
    BY <2>1, <2>4, Zenon DEF CrcHeld
  <2> QED BY <2>1, <2>2, <2>3, <2>5, <2>6, <2>7, SetterKeeps
<1>8. ASSUME NEW on \in BOOLEAN, SetHeaderMode(on) PROVE SettingsInv'
  <2> DEFINE s == HeaderSet(reg, on)
  <2>1. reg' = s /\ _implicitHeaderMode' = on /\ _frequency' = _frequency /\ asked' = asked
    BY <1>8 DEF SetHeaderMode
  <2>2. /\ s \in Registers /\ SameFactor(reg, s) /\ SameFrf(reg, s) /\ SamePa(reg, s)
        /\ ImplicitOf(s) = on /\ StepOf(s) = StepOf(reg) /\ DenominatorOf(s) = DenominatorOf(reg)
    BY <1>1, HeaderEffect
  <2> HIDE DEF s
  <2>3. /\ FactorOf(s) = FactorOf(reg) /\ CrcOf(s) = CrcOf(reg) /\ (DetectsAs(s) <=> DetectsAs(reg))
        /\ PinOf(s) = PinOf(reg) /\ PowerOf(s) = PowerOf(reg) /\ FrfOf(s) = FrfOf(reg)
    BY <2>2, SettingsApart
  <2>4. NumbersHeld(s, asked)
    BY <1>1, <2>2, <2>3 DEF NumbersHeld
  <2>5. CrcHeld(s, asked)
    BY <1>1, <2>3, Zenon DEF CrcHeld
  <2>6. /\ reg' \in Registers /\ asked' \in Settings
        /\ _frequency' \in Frequencies /\ _implicitHeaderMode' \in BOOLEAN
        /\ NumbersHeld(reg', asked') /\ CrcHeld(reg', asked')
        /\ ImplicitOf(reg') = _implicitHeaderMode' /\ FrfOf(reg') = Frf(_frequency')
    BY <1>1, <2>1, <2>2, <2>3, <2>4, <2>5, Zenon
  <2> QED BY <2>6, SettingsInvAfter
<1>9. ASSUME NEW frequency \in Frequencies, SetFrequency(frequency) PROVE SettingsInv'
  <2> DEFINE s == FrequencySet(reg, frequency)
  <2>1. reg' = s /\ _frequency' = frequency /\ UNCHANGED <<_implicitHeaderMode, asked>>
    BY <1>9 DEF SetFrequency
  <2>2. /\ s \in Registers /\ SameModem1(reg, s) /\ SameFactor(reg, s) /\ SamePa(reg, s)
        /\ FrfOf(s) = Frf(frequency)
    BY <1>1, FrequencyEffect
  <2> HIDE DEF s
  <2>3. /\ StepOf(s) = StepOf(reg) /\ DenominatorOf(s) = DenominatorOf(reg) /\ ImplicitOf(s) = ImplicitOf(reg)
        /\ FactorOf(s) = FactorOf(reg) /\ CrcOf(s) = CrcOf(reg) /\ (DetectsAs(s) <=> DetectsAs(reg))
        /\ PinOf(s) = PinOf(reg) /\ PowerOf(s) = PowerOf(reg)
    BY <2>2, SettingsApart
  <2>4. NumbersHeld(s, asked)
    BY <1>1, <2>2, <2>3 DEF NumbersHeld
  <2>5. CrcHeld(s, asked)
    BY <1>1, <2>3, Zenon DEF CrcHeld
  <2>6. /\ reg' \in Registers /\ asked' \in Settings
        /\ _frequency' \in Frequencies /\ _implicitHeaderMode' \in BOOLEAN
        /\ NumbersHeld(reg', asked') /\ CrcHeld(reg', asked')
        /\ ImplicitOf(reg') = _implicitHeaderMode' /\ FrfOf(reg') = Frf(_frequency')
    BY <1>1, <2>1, <2>2, <2>3, <2>4, <2>5, Zenon
  <2> QED BY <2>6, SettingsInvAfter
<1>10. ASSUME UNCHANGED <<reg, _frequency, _implicitHeaderMode, asked>> PROVE SettingsInv'
  BY <1>1, <1>10, SettingsInvAfter, Zenon
<1>11. CASE \E length \in 1 .. MaxRxLength : PacketFound(length)
  BY <1>10, <1>11 DEF PacketFound
<1>12. CASE ReadByte \/ PeekByte
  BY <1>10, <1>12 DEF ReadByte, PeekByte
<1> QED BY <1>2, <1>3, <1>4, <1>5, <1>6, <1>7, <1>8, <1>9, <1>11, <1>12 DEF RegisterNext

\* A byte is read where the driver counts it, and counted as it is read.
LEMMA ReadStep ==
  ASSUME ReadInv, RegisterNext
  PROVE  ReadInv'
<1>1. ASSUME UNCHANGED receiveVars PROVE ReadInv'
  BY <1>1 DEF ReadInv, receiveVars
<1>2. ASSUME NEW length \in 1 .. MaxRxLength, PacketFound(length) PROVE ReadInv'
  BY <1>2, RegisterAssumption DEF RegisterAssumption, PacketFound, ReadInv
<1>3. CASE ReadByte
  <2> DEFINE n == Len(rxRead)
             p == rxPacket.pointer
             more == Append(rxRead, p)
  <2>1. /\ n \in Nat /\ p = n /\ _packetIndex = n /\ n <= rxPacket.length /\ rxPacket.length # n
        /\ rxPacket.length \in Nat /\ rxRead \in Seq(Nat)
    BY <1>3 DEF ReadInv, ReadByte, Available
  <2>2. _packetIndex' = n + 1 /\ rxRead' = more /\ rxPacket' = [rxPacket EXCEPT !.pointer = n + 1]
    BY <1>3, <2>1 DEF ReadByte
  <2>3. rxPacket' \in [length : Nat, pointer : Nat] /\ rxPacket'.pointer = n + 1
        /\ rxPacket'.length = rxPacket.length
    BY <2>1, <2>2 DEF ReadInv
  <2>4. more \in Seq(Nat) /\ Len(more) = n + 1 /\ \A i \in 1 .. (n + 1) : more[i] = IF i = n + 1 THEN p ELSE rxRead[i]
    BY <2>1
  <2>5. \A i \in 1 .. n : rxRead[i] = i - 1
    BY <2>1 DEF ReadInv
  <2>6. \A i \in 1 .. (n + 1) : more[i] = i - 1
    BY <2>1, <2>4, <2>5
  <2>7. DOMAIN more = 1 .. (n + 1)
    BY <2>4
  <2> HIDE DEF n, p, more
  <2> QED BY <2>1, <2>2, <2>3, <2>4, <2>6, <2>7 DEF ReadInv
<1>4. CASE PeekByte
  BY <1>4 DEF PeekByte, ReadInv
<1>5. CASE \E power \in Powers, pin \in PaPins : SetTxPower(power, pin)
  BY <1>1, <1>5 DEF SetTxPower, Setting
<1>6. CASE \E level \in Powers : SetTxPowerMax(level)
  BY <1>1, <1>6 DEF SetTxPowerMax, Setting
<1>7. CASE \E sf \in Factors : SetSpreadingFactor(sf)
  BY <1>1, <1>7 DEF SetSpreadingFactor, Setting
<1>8. CASE \E sbw \in Bandwidths : SetSignalBandwidth(sbw)
  BY <1>1, <1>8 DEF SetSignalBandwidth, Setting
<1>9. CASE \E d \in Denominators : SetCodingRate4(d)
  BY <1>1, <1>9 DEF SetCodingRate4, Setting
<1>10. CASE \E on \in BOOLEAN : SetCrc(on) \/ SetHeaderMode(on)
  BY <1>1, <1>10 DEF SetCrc, SetHeaderMode, Setting
<1>11. CASE \E frequency \in Frequencies : SetFrequency(frequency)
  BY <1>1, <1>11 DEF SetFrequency
<1> QED BY <1>2, <1>3, <1>4, <1>5, <1>6, <1>7, <1>8, <1>9, <1>10, <1>11 DEF RegisterNext

\* The settings that share registers keep out of one another's bits in whatever
\* order they are called, and a packet is read from its first byte on, for any
\* settings asked for and any length of a packet.
THEOREM RadioIsKept == RegisterSpec => []RadioKept
<1>1. SettingsInv /\ ReadInv /\ [RegisterNext]_registerVars => SettingsInv' /\ ReadInv'
  <2> SUFFICES ASSUME SettingsInv, ReadInv, [RegisterNext]_registerVars PROVE SettingsInv' /\ ReadInv'
    OBVIOUS
  <2>1. CASE RegisterNext
    BY <2>1, SettingStep, ReadStep
  <2>2. CASE UNCHANGED registerVars
    <3>1. UNCHANGED <<reg, _frequency, _implicitHeaderMode, asked>> /\ UNCHANGED <<rxPacket, _packetIndex, rxRead>>
      BY <2>2 DEF registerVars
    <3>2. SettingsInv'
      BY <3>1, SettingsInvParts, SettingsInvAfter, Zenon
    <3> QED BY <3>1, <3>2 DEF ReadInv
  <2> QED BY <2>1, <2>2
<1>2. SettingsInv /\ ReadInv => RadioKept
  BY DEF SettingsInv, ReadInv, RadioKept, ReadInTurn
<1> QED BY RadioInit, <1>1, <1>2, PTL DEF RegisterSpec
=============================================================================
