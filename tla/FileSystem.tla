------------------------------ MODULE FileSystem ------------------------------
(***************************************************************************)
(* FS.cpp and vfs_api.cpp: File objects over stdio files and directories,  *)
(* the size a File tells (a stat taken when it was opened, taken again     *)
(* after a write) and the operations on names, which open a File to look.  *)
(*                                                                         *)
(* stdio and the mounted file system are external: what is written stays   *)
(* in a buffer until it is flushed, a few files may be open at a time, and *)
(* heap does not run out.  The sketch keeps to one File that writes a path *)
(* and neither removes nor renames what is open, nor a full directory.     *)
(***************************************************************************)
EXTENDS Integers, FiniteSets

CONSTANTS FilePaths,   \* the paths below the mount point
          ParentOf,    \* the directory of each, or "/"
          FileObjects, \* the sketch's File variables
          MaxFiles,    \* files the file system opens at a time
          MaxSize      \* bound: length of a file
ASSUME FileAssumption == IsFiniteSet(FileObjects) /\ MaxFiles \in Nat /\ "/" \notin FilePaths

VARIABLES tree,     \* the file system: what is at each path
          file,     \* the File variables
          openFiles, openDirs,   \* descriptors in use
          told    \* history: the last operation on names and its result

fileVars == <<tree, file, openFiles, openDirs, told>>

Nothing == [kind |-> "none", size |-> 0]
Directory == [kind |-> "dir", size |-> 0]
FileOf(size) == [kind |-> "file", size |-> size]
ClosedFile == [p |-> FALSE]
NoAnswer == [op |-> "none"]

FileInit ==
    /\ tree = [path \in FilePaths |-> Nothing]
    /\ file = [h \in FileObjects |-> ClosedFile]
    /\ openFiles = 0 /\ openDirs = 0
    /\ told = NoAnswer

Present(path) == tree[path].kind # "none"
IsDir(path) == path = "/" \/ tree[path].kind = "dir"
Entries(path) == {q \in FilePaths : ParentOf[q] = path /\ Present(q)}
OpenOn(path) == {h \in FileObjects : file[h].p /\ file[h].path = path}
Writes(h) == file[h].p /\ file[h].f /\ file[h].mode # "r"

-----------------------------------------------------------------------------
(* VFSFileImpl.  A File made here has a stat, and a stdio file, a          *)
(* directory, or neither when these could not be opened.                   *)

\* fopen: a mode other than "r" makes the file, and "w" empties it.
FopenWorks(path, mode) ==
    /\ openFiles < MaxFiles
    /\ Present(path) \/ (mode # "r" /\ IsDir(ParentOf[path]))

\* VFSFileImpl::VFSFileImpl.  misled, a history, says that size() may tell
\* an old size until the next write.
NewImpl(path, mode) ==
    LET dir == Present(path) /\ IsDir(path)
        f == ~dir /\ FopenWorks(path, mode)
    IN [p |-> TRUE, path |-> path, mode |-> mode, f |-> f, d |-> dir, isDirectory |-> dir,
        left |-> IF dir THEN Entries(path) ELSE {},
        statSize |-> tree[path].size, written |-> FALSE, pos |-> 0, pendingEnd |-> 0,
        misled |-> mode = "w" /\ tree[path].size # 0]

\* What fopen makes of the path.
TreeOpened(impl) ==
    IF ~impl.f THEN tree
    ELSE [tree EXCEPT ![impl.path] =
             IF impl.mode = "w" \/ ~Present(impl.path) THEN FileOf(0) ELSE @]

\* operator bool of the implementation, which the operations on names ask.
IsOpen(impl) == (impl.isDirectory /\ impl.d) \/ impl.f

\* VFSFileImpl::close
FilesClosed(impl) == IF impl.isDirectory /\ impl.d THEN 0 ELSE IF impl.f THEN 1 ELSE 0
DirsClosed(impl) == IF impl.isDirectory /\ impl.d THEN 1 ELSE 0

Larger(a, b) == IF a > b THEN a ELSE b

\* VFSFileImpl::size, with _getStat.
SizeTold(impl) ==
    IF impl.isDirectory \/ ~impl.f THEN 0
    ELSE IF impl.written THEN tree[impl.path].size ELSE impl.statSize
AfterSize(impl) ==
    IF impl.f /\ impl.written
    THEN [impl EXCEPT !.statSize = tree[impl.path].size, !.written = FALSE,
                      !.misled = impl.pendingEnd # 0]
    ELSE impl

\* The buffer of the stdio file reaches the disk.
DiskSize(impl) == Larger(tree[impl.path].size, impl.pendingEnd)
TreeFlushed(impl) == IF impl.f THEN [tree EXCEPT ![impl.path].size = DiskSize(impl)] ELSE tree
BufferFlushed(impl) == [impl EXCEPT !.pendingEnd = 0]

\* Mutant: _written is left as it was.
BytesUnmarked(impl, n) ==
    LET at == IF impl.mode = "a" THEN DiskSize(impl) ELSE impl.pos IN
    [impl EXCEPT !.pos = at + n, !.pendingEnd = Larger(@, at + n), !.misled = FALSE]

\* VFSFileImpl::write; a stdio file opened to read takes nothing.
BytesWritten(impl, n) ==
    LET at == IF impl.mode = "a" THEN DiskSize(impl) ELSE impl.pos IN
    IF impl.mode = "r" THEN [impl EXCEPT !.written = TRUE]
    ELSE [impl EXCEPT !.written = TRUE, !.pos = at + n, !.pendingEnd = Larger(@, at + n),
                      !.misled = FALSE]

\* The other Files of a path hold the size it had.
Replace(h, impl) ==
    file' = [g \in FileObjects |->
        IF g = h THEN impl
        ELSE IF file[g].p /\ impl.p /\ file[g].path = impl.path /\ tree'[impl.path] # tree[impl.path]
             THEN [file[g] EXCEPT !.misled = TRUE] ELSE file[g]]

-----------------------------------------------------------------------------
(* File.                                                                   *)

NoNames == told' = NoAnswer
SameFiles == UNCHANGED <<openFiles, openDirs>>

\* FS::open and VFSImpl::open: what is not there is opened to be made only.
\* A File is there even when its fopen failed.
OpenFile(h, path, mode) ==
    /\ ~file[h].p
    /\ mode # "r" => ~\E g \in OpenOn(path) : Writes(g)
    /\ IF Present(path) \/ mode # "r"
       THEN LET impl == NewImpl(path, mode) IN
            /\ tree' = TreeOpened(impl)
            /\ Replace(h, impl)
            /\ openFiles' = openFiles + FilesClosed(impl)
            /\ openDirs' = openDirs + DirsClosed(impl)
       ELSE UNCHANGED <<tree, file, openFiles, openDirs>>
    /\ NoNames

\* File::write
WriteFile(h, n) ==
    /\ file[h].p /\ file[h].f
    /\ LET impl == BytesWritten(file[h], n) IN
       /\ impl.pos <= MaxSize
       /\ \/ tree' = tree /\ Replace(h, impl)
          \/ tree' = TreeFlushed(impl) /\ Replace(h, BufferFlushed(impl))   \* a full buffer
    /\ SameFiles /\ NoNames

\* File::read, available and peek; peek puts the position back.
ReadFile(h, n) ==
    /\ file[h].p /\ file[h].f /\ file[h].mode = "r"
    /\ file[h].pos + n <= tree[file[h].path].size
    /\ file' = [file EXCEPT ![h].pos = @ + n]
    /\ UNCHANGED tree /\ SameFiles /\ NoNames

\* File::size and available.
AskSize(h) ==
    /\ file[h].p
    /\ file' = [file EXCEPT ![h] = AfterSize(file[h])]
    /\ UNCHANGED tree /\ SameFiles /\ NoNames

\* File::flush
FlushFile(h) ==
    /\ file[h].p /\ file[h].f
    /\ tree' = TreeFlushed(file[h])
    /\ Replace(h, BufferFlushed(file[h]))
    /\ SameFiles /\ NoNames

\* File::seek, within the file; stdio writes its buffer first.
SeekFile(h, pos) ==
    /\ file[h].p /\ file[h].f /\ pos <= DiskSize(file[h])
    /\ tree' = TreeFlushed(file[h])
    /\ Replace(h, [BufferFlushed(file[h]) EXCEPT !.pos = pos])
    /\ SameFiles /\ NoNames

\* File::close; the implementation is freed with its last File.
CloseFile(h) ==
    /\ file[h].p
    /\ tree' = TreeFlushed(file[h])
    /\ file' = [g \in FileObjects |->
           IF g = h THEN ClosedFile
           ELSE IF file[g].p /\ file[g].path = file[h].path /\ tree' # tree
                THEN [file[g] EXCEPT !.misled = TRUE] ELSE file[g]]
    /\ openFiles' = openFiles - FilesClosed(file[h])
    /\ openDirs' = openDirs - DirsClosed(file[h])
    /\ NoNames

\* File::openNextFile: the next entry of a directory, to read.
NextFile(h, g) ==
    /\ file[h].p /\ file[h].d /\ ~file[g].p
    /\ \E entry \in file[h].left :
        LET impl == NewImpl(entry, "r") IN
        /\ Present(entry)
        /\ file' = [file EXCEPT ![h].left = @ \ {entry}, ![g] = impl]
        /\ openFiles' = openFiles + FilesClosed(impl)
        /\ openDirs' = openDirs + DirsClosed(impl)
    /\ UNCHANGED tree /\ NoNames

\* File::rewindDirectory
RewindDirectory(h) ==
    /\ file[h].p /\ file[h].d
    /\ file' = [file EXCEPT ![h].left = Entries(file[h].path)]
    /\ UNCHANGED tree /\ SameFiles /\ NoNames

-----------------------------------------------------------------------------
(* Names.  A File that only looks is opened and closed in the same step.   *)

Looks(path) == IsOpen(NewImpl(path, "r"))
LooksLikeDir(path) == Looks(path) /\ NewImpl(path, "r").isDirectory

Answers(op, path, to, said) ==
    /\ told' = [op |-> op, path |-> path, to |-> to, said |-> said]
    /\ UNCHANGED file /\ SameFiles

\* FS::exists and VFSImpl::exists
AskExists(path) ==
    /\ Answers("exists", path, path, Looks(path))
    /\ UNCHANGED tree

\* FS::remove and VFSImpl::remove
RemoveFile(path) ==
    /\ OpenOn(path) = {}
    /\ LET removed == Looks(path) /\ ~LooksLikeDir(path) IN
       /\ Answers("remove", path, path, removed)
       /\ tree' = IF removed THEN [tree EXCEPT ![path] = Nothing] ELSE tree

\* FS::rename and VFSImpl::rename; what is at the new path is not replaced.
RenameFile(path, to) ==
    /\ OpenOn(path) = {} /\ Entries(path) = {} /\ ParentOf[to] # path
    /\ LET renamed == Looks(path) /\ ~Present(to) /\ IsDir(ParentOf[to]) IN
       /\ Answers("rename", path, to, renamed)
       /\ tree' = IF renamed THEN [tree EXCEPT ![path] = Nothing, ![to] = tree[path]] ELSE tree

\* FS::mkdir and VFSImpl::mkdir
MakeDir(path) ==
    LET made == ~Looks(path) /\ ~Present(path) /\ IsDir(ParentOf[path]) IN
    /\ Answers("mkdir", path, path, LooksLikeDir(path) \/ made)
    /\ tree' = IF made THEN [tree EXCEPT ![path] = Directory] ELSE tree

\* FS::rmdir and VFSImpl::rmdir: unlink, which may refuse a directory.
RemoveDir(path) ==
    /\ OpenOn(path) = {}
    /\ \E unlinks \in BOOLEAN :
        LET removed == LooksLikeDir(path) /\ Entries(path) = {} /\ unlinks IN
        /\ Answers("rmdir", path, path, removed)
        /\ tree' = IF removed THEN [tree EXCEPT ![path] = Nothing] ELSE tree

FileNext ==
    \/ \E h \in FileObjects :
        \/ \E path \in FilePaths, mode \in {"r", "w", "a"} : OpenFile(h, path, mode)
        \/ WriteFile(h, 1) \/ ReadFile(h, 1) \/ AskSize(h) \/ FlushFile(h) \/ SeekFile(h, 0)
        \/ CloseFile(h) \/ RewindDirectory(h)
        \/ \E g \in FileObjects : NextFile(h, g)
    \/ \E path \in FilePaths :
        \/ AskExists(path) \/ RemoveFile(path) \/ MakeDir(path) \/ RemoveDir(path)
        \/ \E to \in FilePaths : RenameFile(path, to)

FileSpec == FileInit /\ [][FileNext]_fileVars

-----------------------------------------------------------------------------
\* Every descriptor in use belongs to a File that can still close it.
DescriptorsOwned ==
    /\ openFiles = Cardinality({h \in FileObjects : file[h].p /\ file[h].f})
    /\ openDirs = Cardinality({h \in FileObjects : file[h].p /\ file[h].d})

\* A File with nothing in its buffer tells the size its path has, unless it
\* was opened over the old file, was asked too early, or another changed it.
SizesTold == \A h \in FileObjects :
    file[h].p /\ file[h].f /\ file[h].pendingEnd = 0 /\ ~file[h].misled
        => SizeTold(file[h]) = tree[file[h].path].size

\* What an operation on names answers is so, except that with no descriptor
\* left a file is said not to exist.
AnswersTrue ==
    LET path == told.path IN
    CASE told.op = "none"   -> TRUE
      [] told.op = "exists" -> IF told.said THEN Present(path)
                                 ELSE ~Present(path) \/ openFiles = MaxFiles
      [] told.op = "mkdir"  -> told.said <=> Present(path) /\ IsDir(path)
      [] told.op = "rename" -> told.said => ~Present(path) /\ Present(told.to)
      [] OTHER                -> told.said => ~Present(path)

\* The three together: no descriptor leaks, what Files and names tell is so.
FilesKept == DescriptorsOwned /\ SizesTold /\ AnswersTrue
=============================================================================
