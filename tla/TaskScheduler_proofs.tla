------------------------ MODULE TaskScheduler_proofs ------------------------
(***************************************************************************)
(* For any tasks, hooks, requests and bounds, and whatever user code does, *)
(* the variables keep their types and the execution chain stays whole.     *)
(* Whatever user code adds, deletes, enables, disables and destroys, a     *)
(* pass looks at every task that stays in the chain, in order, user code   *)
(* finds its own task in iCurrent, and a task runs as often as it is set   *)
(* to.  And if user code is prudent with what it deletes, no pointer to    *)
(* nothing is followed.                                                    *)
(***************************************************************************)
EXTENDS TaskScheduler, TLAPS

---------------------------------------------------------------------------
\* addTask and deleteTask keep the execution chain whole.

\* A task is in the chain in one place, and the first and the last are as they are linked.
LEMMA AddKeeps ==
  ASSUME NEW t \in Tasks, ChainTypeOK, ChainInv, addTask(t)
  PROVE  ChainTypeOK' /\ ChainInv'
<1>1. CASE UNCHANGED chainVars
  BY <1>1 DEF chainVars, ChainTypeOK, ChainInv, Members
<1>2. CASE ~iScheduler[t] /\ iScheduler' = [iScheduler EXCEPT ![t] = TRUE]
  <2>1. /\ iFirst' = IF iFirst = NULL THEN t ELSE iFirst
        /\ iPrev' = [iPrev EXCEPT ![t] = IF iFirst = NULL THEN NULL ELSE iLast]
        /\ iNext' = [u \in Tasks |-> IF u = t THEN NULL
                                     ELSE IF iFirst # NULL /\ u = iLast THEN t
                                     ELSE iNext[u]]
        /\ iLast' = t
        /\ chain' = Append(chain, t)
    BY <1>2 DEF addTask, chainVars, ChainTypeOK
  <2>2. /\ chain \in Seq(Tasks) /\ chain' \in Seq(Tasks)
        /\ Len(chain') = Len(chain) + 1
        /\ DOMAIN chain = 1 .. Len(chain) /\ DOMAIN chain' = 1 .. Len(chain) + 1
        /\ \A i \in 1 .. Len(chain) : chain'[i] = chain[i] /\ chain[i] \in Tasks
        /\ chain'[Len(chain) + 1] = t
        /\ Len(chain) \in Nat
        /\ chain' # <<>>
        /\ chain = <<>> <=> Len(chain) = 0
    BY <2>1 DEF ChainTypeOK
  <2>3. \A i \in 1 .. Len(chain) : chain[i] # t
    BY <1>2, <2>2 DEF ChainInv, Members
  <2>4. iFirst = NULL <=> Len(chain) = 0
    BY <2>2, TasksAssumption DEF ChainInv
  <2>5. ChainTypeOK'
    BY <1>2, <2>1, <2>2 DEF ChainTypeOK, Link
  <2>6. (\A i, j \in DOMAIN chain : chain[i] = chain[j] => i = j)'
    BY <2>2, <2>3 DEF ChainInv
  <2>7. (\A u \in Tasks : iScheduler[u] <=> u \in Members)'
    <3>1. Members' = Members \cup {t}
      BY <2>2 DEF Members
    <3> QED BY <1>2, <3>1 DEF ChainInv, ChainTypeOK
  <2>8. (iFirst = IF chain = <<>> THEN NULL ELSE chain[1])'
    BY <2>1, <2>2, <2>4 DEF ChainInv
  <2>9. (iLast = IF chain = <<>> THEN NULL ELSE chain[Len(chain)])'
    BY <2>1, <2>2
  <2>10. ASSUME NEW i \in DOMAIN chain'
         PROVE  /\ iNext'[chain'[i]] = IF i = Len(chain') THEN NULL ELSE chain'[i + 1]
                /\ iPrev'[chain'[i]] = IF i = 1 THEN NULL ELSE chain'[i - 1]
    <3>1. CASE i = Len(chain) + 1
      <4>1. iPrev'[t] = IF Len(chain) = 0 THEN NULL ELSE chain[Len(chain)]
        BY <2>1, <2>2, <2>4 DEF ChainTypeOK, ChainInv
      <4>2. chain'[i] = t /\ iNext'[t] = NULL /\ i = Len(chain')
        BY <2>1, <2>2, <3>1
      <4>3. Len(chain) # 0 => chain'[i - 1] = chain[Len(chain)]
        BY <2>2, <3>1
      <4> QED BY <2>2, <3>1, <4>1, <4>2, <4>3
    <3>2. CASE i \in 1 .. Len(chain)
      <4>1. iLast = chain[Len(chain)] /\ iFirst # NULL
        BY <2>2, <2>4, <3>2 DEF ChainInv
      <4>2. chain[i] = iLast <=> i = Len(chain)
        BY <2>2, <3>2, <4>1 DEF ChainInv
      <4>3. iNext'[chain[i]] = IF i = Len(chain) THEN t ELSE chain[i + 1]
        BY <2>1, <2>2, <2>3, <3>2, <4>1, <4>2 DEF ChainInv
      <4>4. iPrev'[chain[i]] = IF i = 1 THEN NULL ELSE chain[i - 1]
        BY <2>1, <2>2, <2>3, <3>2 DEF ChainInv, ChainTypeOK
      <4> QED BY <2>2, <3>2, <4>3, <4>4
    <3> QED BY <2>2, <3>1, <3>2
  <2>11. (\A u \in Tasks : ~iScheduler[u] => iNext[u] = NULL /\ iPrev[u] = NULL)'
    <3> SUFFICES ASSUME NEW u \in Tasks, ~iScheduler'[u]
                 PROVE  iNext'[u] = NULL /\ iPrev'[u] = NULL
      OBVIOUS
    <3>1. u # t /\ ~iScheduler[u]
      BY <1>2 DEF ChainTypeOK
    <3>2. iFirst # NULL => u # iLast
      <4>1. iFirst # NULL => iLast = chain[Len(chain)] /\ Len(chain) \in DOMAIN chain
        BY <2>2, <2>4 DEF ChainInv
      <4> QED BY <3>1, <4>1 DEF ChainInv, Members
    <3> QED BY <2>1, <3>1, <3>2 DEF ChainInv, ChainTypeOK
  <2> QED BY <2>5, <2>6, <2>7, <2>8, <2>9, <2>10, <2>11 DEF ChainInv
<1> QED BY <1>1, <1>2 DEF addTask

\* deleteTask takes its task from before the others.
LEMMA BeforeDelete ==
  ASSUME NEW t \in Tasks, ChainTypeOK, ChainInv, iScheduler[t], deleteTask(t)
  PROVE  /\ Members' = Members \ {t}
         /\ \A n \in Members \ {t} : Before(n)' = Before(n) \ {t}
<1> DEFINE L == Len(chain)
           at(i, k) == IF i < k THEN i ELSE i + 1
           back(i, k) == IF i < k THEN i ELSE i - 1
<1>1. PICK k \in DOMAIN chain : chain[k] = t /\ chain' = Without(k)
  BY DEF deleteTask
<1>2. chain \in Seq(Tasks) /\ L \in Nat /\ k \in 1 .. L /\ DOMAIN chain = 1 .. L
  BY <1>1 DEF ChainTypeOK
<1>3. \A i, j \in 1 .. L : chain[i] = chain[j] => i = j
  BY <1>2 DEF ChainInv
<1>4. DOMAIN chain' = 1 .. L - 1 /\ \A i \in 1 .. L - 1 : chain'[i] = chain[at(i, k)]
  BY <1>1 DEF Without
<1> HIDE DEF L
<1>5. \A i \in 1 .. L - 1 : at(i, k) \in 1 .. L /\ at(i, k) # k
  BY <1>2
<1>6. \A i \in 1 .. L : i # k => back(i, k) \in 1 .. L - 1 /\ at(back(i, k), k) = i
  BY <1>2
<1>7. \A i, j \in 1 .. L - 1 : i < j <=> at(i, k) < at(j, k)
  BY <1>2
<1> HIDE DEF at, back
<1>8. Members' = Members \ {t}
  <2>1. \A x : x \in Members' <=> \E i \in 1 .. L - 1 : x = chain[at(i, k)]
    BY <1>4 DEF Members
  <2>2. \A x : x \in Members <=> \E i \in 1 .. L : x = chain[i]
    BY <1>2 DEF Members
  <2>3. ASSUME NEW x \in Members' PROVE x \in Members \ {t}
    BY <1>1, <1>2, <1>3, <1>5, <2>1, <2>2, <2>3
  <2>4. ASSUME NEW x \in Members, x # t PROVE x \in Members'
    BY <1>1, <1>6, <2>1, <2>2, <2>4
  <2> QED BY <2>3, <2>4
<1>9. ASSUME NEW n \in Members \ {t} PROVE Before(n)' = Before(n) \ {t}
  <2>1. \A x : x \in Before(n)' <=> \E i, j \in 1 .. L - 1 : i < j /\ chain[at(j, k)] = n /\ x = chain[at(i, k)]
    BY <1>4 DEF Before
  <2>2. \A x : x \in Before(n) <=> \E i, j \in 1 .. L : i < j /\ chain[j] = n /\ x = chain[i]
    BY <1>2 DEF Before
  <2>3. ASSUME NEW x \in Before(n)' PROVE x \in Before(n) \ {t}
    <3>1. PICK i \in 1 .. L - 1, j \in 1 .. L - 1 :
            i < j /\ chain[at(j, k)] = n /\ x = chain[at(i, k)]
      BY <2>1, <2>3
    <3> QED BY <1>1, <1>2, <1>3, <1>5, <1>7, <2>2, <3>1
  <2>4. ASSUME NEW x \in Before(n), x # t PROVE x \in Before(n)'
    <3>1. PICK i \in 1 .. L, j \in 1 .. L : i < j /\ chain[j] = n /\ x = chain[i]
      BY <2>2, <2>4
    <3>2. i # k /\ j # k
      BY <1>1, <1>9, <2>4, <3>1
    <3> QED BY <1>6, <1>7, <2>1, <3>1, <3>2
  <2> QED BY <2>3, <2>4
<1> QED BY <1>8, <1>9

\* Its neighbours in the chain are the ones its links lead to, and get each other.
LEMMA DeleteKeeps ==
  ASSUME NEW t \in Tasks, ChainTypeOK, ChainInv, iScheduler[t], deleteTask(t)
  PROVE  ChainTypeOK' /\ ChainInv'
<1> DEFINE L == Len(chain)
           p == iPrev[t]
           n == iNext[t]
<1>1. PICK k \in DOMAIN chain : chain[k] = t /\ chain' = Without(k)
  BY DEF deleteTask
<1>2. /\ chain \in Seq(Tasks) /\ L \in Nat /\ L >= 1 /\ k \in 1 .. L
      /\ DOMAIN chain = 1 .. L
      /\ \A i \in 1 .. L : chain[i] \in Tasks
      /\ chain # <<>>
  <2>1. chain \in Seq(Tasks) /\ k \in DOMAIN chain
    BY <1>1 DEF ChainTypeOK
  <2> QED BY <2>1
<1> HIDE DEF L, p, n
<1>a. L \in Nat /\ k \in 1 .. L
  BY <1>2
<1>3. /\ chain' \in Seq(Tasks) /\ DOMAIN chain' = 1 .. L - 1 /\ Len(chain') = L - 1
      /\ \A i \in 1 .. L - 1 : chain'[i] = IF i < k THEN chain[i] ELSE chain[i + 1]
      /\ chain' = <<>> <=> L = 1
  <2>1. /\ chain' = [i \in 1 .. L - 1 |-> IF i < k THEN chain[i] ELSE chain[i + 1]]
        /\ L - 1 \in Nat
    BY <1>1, <1>2 DEF Without
  <2>2. \A i \in 1 .. L - 1 : (IF i < k THEN chain[i] ELSE chain[i + 1]) \in Tasks
    BY <1>2
  <2>3. chain' \in Seq(Tasks) /\ DOMAIN chain' = 1 .. L - 1 /\ Len(chain') = L - 1
    BY <2>1, <2>2
  <2>4. \A i \in 1 .. L - 1 : chain'[i] = IF i < k THEN chain[i] ELSE chain[i + 1]
    BY <2>1
  <2>5. chain' = <<>> <=> L - 1 = 0
    <3>1. chain' = <<>> => Len(chain') = 0
      OBVIOUS
    <3>2. chain' \in Seq(Tasks) /\ Len(chain') = 0 => chain' = <<>>
      OBVIOUS
    <3> QED BY <2>3, <3>1, <3>2
  <2> QED BY <1>a, <2>3, <2>4, <2>5
<1>4. \A i, j \in 1 .. L : chain[i] = chain[j] => i = j
  BY <1>2 DEF ChainInv
<1>5. /\ p = IF k = 1 THEN NULL ELSE chain[k - 1]
      /\ n = IF k = L THEN NULL ELSE chain[k + 1]
  BY <1>1, <1>2 DEF ChainInv, L, p, n
<1>6. p # t /\ n # t /\ (p = NULL <=> k = 1) /\ (n = NULL <=> k = L)
  BY <1>1, <1>2, <1>4, <1>5, TasksAssumption
<1>7. /\ iScheduler' = [iScheduler EXCEPT ![t] = FALSE]
      /\ iFirst' = IF p = NULL THEN n ELSE iFirst
      /\ iLast' = IF n = NULL THEN p ELSE iLast
      /\ iNext' = [u \in Tasks |-> IF u = t THEN NULL ELSE IF u = p THEN n ELSE iNext[u]]
      /\ iPrev' = [u \in Tasks |-> IF u = t THEN NULL ELSE IF u = n THEN p ELSE iPrev[u]]
  BY DEF deleteTask, p, n
<1>8. Members' = Members \ {t}
  BY BeforeDelete
<1>9. ChainTypeOK'
  <2>1. p \in Link /\ n \in Link
    BY DEF ChainTypeOK, p, n
  <2> QED BY <1>3, <1>7, <2>1 DEF ChainTypeOK, Link
<1>10. (\A i, j \in DOMAIN chain : chain[i] = chain[j] => i = j)'
  <2> SUFFICES ASSUME NEW i \in 1 .. L - 1, NEW j \in 1 .. L - 1, chain'[i] = chain'[j]
               PROVE  i = j
    BY <1>3
  <2> DEFINE at(x) == IF x < k THEN x ELSE x + 1
  <2>1. /\ at(i) \in 1 .. L /\ at(j) \in 1 .. L
        /\ chain'[i] = chain[at(i)] /\ chain'[j] = chain[at(j)]
    BY <1>2, <1>3
  <2>2. at(i) = at(j)
    BY <1>4, <2>1
  <2> QED BY <1>2, <2>2
<1>11. (\A u \in Tasks : iScheduler[u] <=> u \in Members)'
  BY <1>7, <1>8 DEF ChainInv, ChainTypeOK
<1>12. (iFirst = IF chain = <<>> THEN NULL ELSE chain[1])'
  BY <1>2, <1>3, <1>5, <1>6, <1>7 DEF ChainInv
<1>13. (iLast = IF chain = <<>> THEN NULL ELSE chain[Len(chain)])'
  BY <1>2, <1>3, <1>5, <1>6, <1>7 DEF ChainInv
<1>14. ASSUME NEW i \in 1 .. L - 1
       PROVE  /\ iNext'[chain'[i]] = IF i = L - 1 THEN NULL ELSE chain'[i + 1]
              /\ iPrev'[chain'[i]] = IF i = 1 THEN NULL ELSE chain'[i - 1]
  <2>1. CASE i < k
    <3>0. i \in 1 .. L /\ i # L
      BY <1>a, <2>1
    <3>1. chain'[i] = chain[i] /\ chain[i] \in Tasks /\ chain[i] # t /\ i \in 1 .. L
      BY <1>1, <1>2, <1>3, <1>4, <2>1
    <3>2. chain[i] = p <=> i = k - 1
      BY <1>2, <1>4, <1>5, <1>6, <2>1, <3>1, TasksAssumption
    <3>3. chain[i] # n
      BY <1>2, <1>4, <1>5, <1>6, <2>1, <3>1, TasksAssumption
    <3>4. /\ iNext[chain[i]] = IF i = L THEN NULL ELSE chain[i + 1]
          /\ iPrev[chain[i]] = IF i = 1 THEN NULL ELSE chain[i - 1]
      BY <1>2, <3>1 DEF ChainInv
    <3>5. /\ iNext'[chain[i]] = IF i = k - 1 THEN n ELSE chain[i + 1]
          /\ iPrev'[chain[i]] = IF i = 1 THEN NULL ELSE chain[i - 1]
      <4>2. iNext[chain[i]] = chain[i + 1]
        BY <3>0, <3>4
      <4>3. iNext'[chain[i]] = IF chain[i] = p THEN n ELSE iNext[chain[i]]
        BY <1>7, <3>1
      <4>4. iPrev'[chain[i]] = iPrev[chain[i]]
        BY <1>7, <3>1, <3>3
      <4> QED BY <3>2, <3>4, <4>2, <4>3, <4>4
    <3>6. i # L - 1 => chain'[i + 1] = IF i = k - 1 THEN chain[k + 1] ELSE chain[i + 1]
      <4> SUFFICES ASSUME i # L - 1
                   PROVE  chain'[i + 1] = IF i = k - 1 THEN chain[k + 1] ELSE chain[i + 1]
        OBVIOUS
      <4>1. i + 1 \in 1 .. L - 1
        BY <1>a
      <4>2. CASE i = k - 1
        <5>1. ~(i + 1 < k) /\ (i + 1) + 1 = k + 1
          BY <1>2, <4>2
        <5>2. chain'[i + 1] = chain[(i + 1) + 1]
          BY <1>3, <4>1, <5>1
        <5> QED BY <4>2, <5>1, <5>2
      <4>3. CASE i # k - 1
        <5>1. i + 1 < k
          BY <1>a, <2>1, <4>3
        <5>2. chain'[i + 1] = chain[i + 1]
          BY <1>3, <4>1, <5>1
        <5> QED BY <4>3, <5>2
      <4> QED BY <4>2, <4>3
    <3>7. i # 1 => chain'[i - 1] = chain[i - 1]
      BY <1>2, <1>3, <2>1
    <3> QED BY <1>2, <1>5, <2>1, <3>1, <3>5, <3>6, <3>7
  <2>2. CASE ~(i < k)
    <3>1. /\ chain'[i] = chain[i + 1] /\ chain[i + 1] \in Tasks /\ chain[i + 1] # t
          /\ i + 1 \in 1 .. L
      BY <1>1, <1>2, <1>3, <1>4, <2>2
    <3>2. chain[i + 1] = n <=> i = k
      BY <1>2, <1>4, <1>5, <1>6, <2>2, <3>1, TasksAssumption
    <3>3. chain[i + 1] # p
      BY <1>2, <1>4, <1>5, <1>6, <2>2, <3>1, TasksAssumption
    <3>4. /\ iNext[chain[i + 1]] = IF i + 1 = L THEN NULL ELSE chain[i + 1 + 1]
          /\ iPrev[chain[i + 1]] = chain[i]
      <4>1. (i + 1) - 1 = i /\ i + 1 # 1
        BY <1>a
      <4>2. /\ iNext[chain[i + 1]] = IF i + 1 = L THEN NULL ELSE chain[i + 1 + 1]
            /\ iPrev[chain[i + 1]] = IF i + 1 = 1 THEN NULL ELSE chain[(i + 1) - 1]
        BY <1>2, <3>1 DEF ChainInv, L
      <4> QED BY <4>1, <4>2
    <3>5. /\ iNext'[chain[i + 1]] = IF i + 1 = L THEN NULL ELSE chain[i + 1 + 1]
          /\ iPrev'[chain[i + 1]] = IF i = k THEN p ELSE chain[i]
      BY <1>7, <3>1, <3>2, <3>3, <3>4
    <3>6. i # L - 1 => chain'[i + 1] = chain[i + 1 + 1]
      <4>1. i # L - 1 => i + 1 \in 1 .. L - 1 /\ ~(i + 1 < k)
        BY <1>a, <2>2
      <4> QED BY <1>3, <4>1
    <3>7. i # 1 => chain'[i - 1] = IF i = k THEN chain[k - 1] ELSE chain[i]
      <4>1. CASE i = k
        BY <1>2, <1>3, <4>1
      <4>2. CASE i # k
        <5>1. i - 1 \in 1 .. L - 1 /\ ~(i - 1 < k) /\ (i - 1) + 1 = i
          BY <1>2, <2>2, <4>2
        <5> QED BY <1>3, <4>2, <5>1
      <4> QED BY <4>1, <4>2
    <3>8. i + 1 = L <=> i = L - 1
      BY <1>2
    <3>9. i = 1 /\ i = k => p = NULL
      BY <1>5
    <3>10. i = 1 /\ i # k => FALSE
      BY <1>2, <2>2
    <3>11. i # 1 /\ i = k => p = chain[k - 1]
      BY <1>5
    <3> QED BY <3>1, <3>5, <3>6, <3>7, <3>8, <3>9, <3>10, <3>11
  <2> QED BY <2>1, <2>2
<1>15. (\A u \in Tasks : ~iScheduler[u] => iNext[u] = NULL /\ iPrev[u] = NULL)'
  <2> SUFFICES ASSUME NEW u \in Tasks, ~iScheduler'[u], u # t
               PROVE  iNext'[u] = NULL /\ iPrev'[u] = NULL
    BY <1>7
  <2>1. ~iScheduler[u] /\ u \notin Members
    BY <1>7 DEF ChainTypeOK, ChainInv
  <2>2. u # p /\ u # n
    BY <1>2, <1>5, <1>6, <2>1, TasksAssumption DEF Members
  <2> QED BY <1>7, <2>1, <2>2 DEF ChainInv
<1>16. (\A i \in DOMAIN chain :
          /\ iNext[chain[i]] = IF i = Len(chain) THEN NULL ELSE chain[i + 1]
          /\ iPrev[chain[i]] = IF i = 1 THEN NULL ELSE chain[i - 1])'
  BY <1>3, <1>14
<1> QED
  BY <1>9, <1>10, <1>11, <1>12, <1>13, <1>15, <1>16 DEF ChainInv

-----------------------------------------------------------------------------
\* What is linked behind a task comes after it and after all that is before it.
LEMMA BeforeNext ==
  ASSUME NEW c \in Members, ChainTypeOK, ChainInv
  PROVE  IF iNext[c] = NULL THEN Members = Before(c) \cup {c}
         ELSE iNext[c] \in Members /\ Before(iNext[c]) = Before(c) \cup {c}
<1> DEFINE L == Len(chain)
<1>1. DOMAIN chain = 1 .. L /\ L \in Nat /\ \A i \in 1 .. L : chain[i] \in Tasks
  BY DEF ChainTypeOK
<1>2. PICK k \in 1 .. L : chain[k] = c
  BY <1>1 DEF Members
<1>3. iNext[c] = IF k = L THEN NULL ELSE chain[k + 1]
  BY <1>1, <1>2 DEF ChainInv
<1>4. \A i, j \in 1 .. L : chain[i] = chain[j] => i = j
  BY <1>1 DEF ChainInv
<1> HIDE DEF L
<1>5. \A x : \A j \in 1 .. L : x \in Before(chain[j]) <=> \E i \in 1 .. L : i < j /\ x = chain[i]
  BY <1>1, <1>4 DEF Before
<1>6. CASE k = L
  <2>1. iNext[c] = NULL
    BY <1>3, <1>6
  <2>2. \A x : x \in Members <=> \E i \in 1 .. L : x = chain[i]
    BY <1>1 DEF Members
  <2>3. \A i \in 1 .. L : i < k \/ i = k
    BY <1>1, <1>6
  <2>4. Members = Before(c) \cup {c}
    BY <1>2, <1>5, <2>2, <2>3
  <2> QED BY <2>1, <2>4
<1>7. CASE k # L
  <2>1. k + 1 \in 1 .. L /\ iNext[c] = chain[k + 1]
    BY <1>1, <1>3, <1>7
  <2>2. \A i \in 1 .. L : i < k + 1 <=> i < k \/ i = k
    BY <1>1
  <2>3. Before(chain[k + 1]) = Before(c) \cup {c}
    BY <1>2, <1>5, <2>1, <2>2
  <2>4. chain[k + 1] \in Members /\ chain[k + 1] # NULL
    BY <1>1, <2>1, TasksAssumption DEF Members
  <2> QED BY <2>1, <2>3, <2>4
<1> QED BY <1>6, <1>7

\* Nothing is before the first.
LEMMA BeforeFirst ==
  ASSUME ChainTypeOK, ChainInv, iFirst # NULL
  PROVE  iFirst \in Members /\ Before(iFirst) = {}
<1> DEFINE L == Len(chain)
<1>1. DOMAIN chain = 1 .. L /\ L \in Nat /\ chain # <<>>
  BY DEF ChainTypeOK, ChainInv
<1>2. 1 \in 1 .. L /\ iFirst = chain[1]
  <2>1. L # 0
    BY <1>1 DEF ChainTypeOK
  <2> QED BY <1>1, <2>1 DEF ChainInv
<1>3. \A j \in 1 .. L : chain[j] = iFirst => j = 1
  BY <1>1, <1>2 DEF ChainInv
<1> HIDE DEF L
<1>4. \A i, j \in 1 .. L : i < j => j # 1
  BY <1>1
<1> QED BY <1>1, <1>2, <1>3, <1>4 DEF Members, Before

\* addTask puts nothing before a task of the chain.
LEMMA BeforeAdd ==
  ASSUME NEW t \in Tasks, ChainTypeOK, ChainInv, addTask(t), NEW n \in Members
  PROVE  n \in Members' /\ Before(n)' = Before(n)
<1> DEFINE L == Len(chain)
<1>1. CASE UNCHANGED chainVars
  BY <1>1 DEF chainVars, Members, Before
<1>2. CASE ~iScheduler[t] /\ chain' = Append(chain, t)
  <2>1. /\ DOMAIN chain = 1 .. L /\ L \in Nat /\ DOMAIN chain' = 1 .. L + 1
        /\ \A i \in 1 .. L : chain'[i] = chain[i]
        /\ chain'[L + 1] = t
    BY <1>2 DEF ChainTypeOK
  <2>2. n # t
    BY <1>2 DEF ChainInv
  <2> HIDE DEF L
  <2>3. \A i \in 1 .. L + 1 : i \in 1 .. L \/ i = L + 1
    BY <2>1
  <2>4. \A i \in 1 .. L : i \in 1 .. L + 1
    BY <2>1
  <2>5. n \in Members'
    BY <2>1, <2>4 DEF Members
  <2>6. \A j \in 1 .. L + 1 : chain'[j] = n <=> j \in 1 .. L /\ chain[j] = n
    BY <2>1, <2>2, <2>3
  <2>7. \A i \in 1 .. L + 1, j \in 1 .. L : i < j => i \in 1 .. L
    BY <2>1
  <2>8. Before(n)' = {chain'[i] : i \in {k \in 1 .. L + 1 : \E j \in 1 .. L + 1 : k < j /\ chain'[j] = n}}
    BY <2>1 DEF Before
  <2>9. {k \in 1 .. L + 1 : \E j \in 1 .. L + 1 : k < j /\ chain'[j] = n}
          = {k \in 1 .. L : \E j \in 1 .. L : k < j /\ chain[j] = n}
    BY <2>4, <2>6, <2>7
  <2>10. Before(n) = {chain[i] : i \in {k \in 1 .. L : \E j \in 1 .. L : k < j /\ chain[j] = n}}
    BY <2>1 DEF Before
  <2>11. Before(n)' = Before(n)
    <3> DEFINE P == {k \in 1 .. L : \E j \in 1 .. L : k < j /\ chain[j] = n}
    <3>1. \A k \in P : k \in 1 .. L
      OBVIOUS
    <3>2. Before(n)' = {chain'[i] : i \in P}
      BY <2>8, <2>9
    <3>3. Before(n) = {chain[i] : i \in P}
      BY <2>10
    <3> HIDE DEF P
    <3>4. \A k \in P : chain'[k] = chain[k]
      BY <2>1, <3>1
    <3> QED BY <3>2, <3>3, <3>4
  <2> QED BY <2>5, <2>11
<1> QED BY <1>1, <1>2 DEF addTask

---------------------------------------------------------------------------

\* TypeOK without the chain and without runs.
FieldsOK ==
  /\ existing \subseteq Tasks
  /\ task \in [Tasks -> Record]
  /\ iCount \in [Requests \cup Tasks -> Nat]
  /\ iCurrent \in Link /\ nextTask \in Link
  /\ passing \in BOOLEAN /\ broken \in BOOLEAN
  /\ stack \in Seq(Frame)
  /\ seen \subseteq Tasks /\ stayed \subseteq Tasks

\* What a step does to the chain: nothing, or one operation of TaskChain.
ChainStep ==
  \/ UNCHANGED chainVars
  \/ \E t \in Tasks : addTask(t)
  \/ \E t \in Tasks : iScheduler[t] /\ deleteTask(t)

Good == FieldsOK' /\ ChainStep

\* The top frame and those below it have their types.
LEMMA TopTyped ==
  ASSUME TypeOK, stack # <<>>
  PROVE  Top \in Frame /\ Below \in Seq(Frame)
BY DEF TypeOK, Top, Below

\* The top frame can be replaced,
LEMMA SetTop ==
  ASSUME TypeOK, stack # <<>>, NEW f \in Frame
  PROVE  [stack EXCEPT ![Len(stack)] = f] \in Seq(Frame)
BY DEF TypeOK

\* a frame pushed,
LEMMA Appended ==
  ASSUME NEW S, NEW q \in Seq(S), NEW e \in S
  PROVE  Append(q, e) \in Seq(S)
OBVIOUS

\* and a single frame is a stack.
LEMMA Single ==
  ASSUME NEW S, NEW e \in S
  PROVE  <<e>> \in Seq(S)
OBVIOUS

\* A task just constructed.
LEMMA FreshTyped == \A n \in Iterations : Fresh(n) \in Record
BY SchedulerAssumption DEF Fresh, Record, Link

\* A hook that is pushed is a frame.
LEMMA HookTyped ==
  ASSUME TypeOK, NEW t \in Tasks, NEW fn \in UserCode,
         NEW then \in {"", "restart", "execute", "destroy"}
  PROVE  Hook(fn, t, then) \in Frame
BY DEF TypeOK, Hook, Frame

\* enable() without its hook.
LEMMA EnabledTyped ==
  ASSUME TypeOK, NEW t \in Tasks, NEW r \in Record, NEW then, Enabled(t, r, then)
  PROVE  task' \in [Tasks -> Record] /\ iCount' \in [Requests \cup Tasks -> Nat]
<1>1. [r EXCEPT !.iIterations = r.iSetIterations] \in Record
  BY DEF Record
<1>2. task' \in [Tasks -> Record]
  BY <1>1 DEF Enabled, TypeOK
<1>3. iCount' \in [Requests \cup Tasks -> Nat]
  BY DEF Enabled, TypeOK
<1> QED BY <1>2, <1>3

\* The lemmas from here on take one group of actions each.  enable():
LEMMA EnableGood ==
  ASSUME TypeOK, NEW t \in Tasks, NEW r \in Record, NEW then \in {"", "restart"},
         NEW st \in Seq(Frame), enable(t, r, then, st)
  PROVE  Good
<1>1. UNCHANGED <<chainVars, existing, passing, nextTask, broken, seen, stayed>>
  BY DEF enable
<1>2. CASE (\E q \in Record : Enabled(t, q, then)) /\ stack' = st /\ UNCHANGED iCurrent
  BY <1>1, <1>2, EnabledTyped DEF TypeOK, Good, FieldsOK, ChainStep
<1>3. CASE /\ task' = [task EXCEPT ![t] = [r EXCEPT !.inonenable = TRUE]]
           /\ stack' = Append(st, Hook("OnEnable", t, then))
           /\ iCurrent' = t
           /\ UNCHANGED iCount
  <2>1. [r EXCEPT !.inonenable = TRUE] \in Record
    BY DEF Record
  <2>2. Hook("OnEnable", t, then) \in Frame
    BY HookTyped DEF UserCode
  <2>3. stack' \in Seq(Frame)
    BY <1>3, <2>2, Appended
  <2>4. task' \in [Tasks -> Record]
    BY <1>3, <2>1 DEF TypeOK
  <2>5. iCurrent' \in Link
    BY <1>3 DEF Link
  <2> QED BY <1>1, <1>3, <2>3, <2>4, <2>5 DEF TypeOK, Good, FieldsOK, ChainStep
<1>4. [r EXCEPT !.enabled = TRUE] \in Record
  BY DEF Record
<1> QED BY <1>2, <1>3, <1>4 DEF enable

\* A fault keeps the state.
LEMMA BreakGood ==
  ASSUME TypeOK, Break
  PROVE  Good
BY DEF TypeOK, Break, Good, FieldsOK, ChainStep, historyVars

\* What Disabled changes: the rest is left to its caller.
LEMMA DisabledGood ==
  ASSUME TypeOK, NEW t \in Tasks, NEW then, NEW cur \in Link, NEW n \in Link,
         Disabled(t, then, cur, n)
  PROVE  /\ ChainStep
         /\ existing' \subseteq Tasks /\ stayed' \subseteq Tasks
         /\ iCount' \in [Requests \cup Tasks -> Nat]
         /\ iCurrent' \in Link /\ nextTask' \in Link /\ passing' \in BOOLEAN
<1>1. iCount' \in [Requests \cup Tasks -> Nat]
  BY DEF Disabled, TypeOK
<1>2. CASE iCurrent' = cur /\ UNCHANGED <<chainVars, existing, passing, nextTask, stayed>>
  BY <1>1, <1>2 DEF TypeOK, ChainStep
<1>3. CASE MoveOn(n) /\ UNCHANGED <<chainVars, existing, stayed>>
  BY <1>1, <1>3 DEF TypeOK, ChainStep, MoveOn, Link
<1>4. CASE /\ iCurrent' = cur
           /\ IF iScheduler[t] THEN deleteTask(t) ELSE UNCHANGED chainVars
           /\ existing' = existing \ {t}
           /\ stayed' = stayed \ {t}
           /\ UNCHANGED <<passing, nextTask>>
  BY <1>1, <1>4 DEF TypeOK, ChainStep
<1> QED BY <1>2, <1>3, <1>4 DEF Disabled

\* disable(), and the destructor that begins with it.
LEMMA DisableGood ==
  ASSUME TypeOK, NEW t \in Tasks, NEW then \in {"", "execute", "destroy"},
         NEW st \in Seq(Frame), NEW n \in Link, disable(t, then, st, n)
  PROVE  Good
<1>1. [task EXCEPT ![t].enabled = FALSE, ![t].inonenable = FALSE] \in [Tasks -> Record]
  BY DEF TypeOK, Record
<1>2. CASE Break
  BY <1>2, BreakGood
<1>3. CASE /\ task' = [task EXCEPT ![t].enabled = FALSE, ![t].inonenable = FALSE]
           /\ stack' = Append(st, Hook("OnDisable", t, then))
           /\ iCurrent' = t
           /\ nextTask' = IF then = "execute" THEN n ELSE nextTask
           /\ seen' = IF then = "execute" THEN seen \cup {t} ELSE seen
           /\ UNCHANGED <<chainVars, existing, iCount, passing, broken, runs, stayed>>
  <2>1. Hook("OnDisable", t, then) \in Frame
    BY HookTyped DEF UserCode
  <2>2. stack' \in Seq(Frame)
    BY <1>3, <2>1, Appended
  <2>3. iCurrent' \in Link
    BY <1>3 DEF Link
  <2> QED BY <1>1, <1>3, <2>2, <2>3 DEF TypeOK, Good, FieldsOK, ChainStep
<1>4. CASE /\ task' = [task EXCEPT ![t].enabled = FALSE, ![t].inonenable = FALSE]
           /\ Disabled(t, then, iCurrent, n)
           /\ seen' = IF then = "execute" THEN seen \cup {t} ELSE seen
           /\ stack' = st
           /\ UNCHANGED <<broken, runs>>
  <2>1. iCurrent \in Link
    BY DEF TypeOK
  <2> QED BY <1>1, <1>4, <2>1, DisabledGood DEF TypeOK, Good, FieldsOK
<1> QED BY <1>2, <1>3, <1>4 DEF disable

-----------------------------------------------------------------------------
\* The steps of execute() itself.
LEMMA PassGood ==
  ASSUME TypeOK, Pass
  PROVE  Good
<1>1. CASE execute
  BY <1>1 DEF execute, TypeOK, ChainTypeOK, Members, Good, FieldsOK, ChainStep
<1>2. CASE Dangling
  BY <1>2, BreakGood DEF Dangling
<1>3. ASSUME iCurrent \in existing
      PROVE  iCurrent \in Tasks /\ iNext[iCurrent] \in Link
  BY <1>3 DEF TypeOK, ChainTypeOK
<1>4. CASE PassBy
  <2>1. iCurrent \in Tasks /\ iNext[iCurrent] \in Link
    BY <1>3, <1>4 DEF PassBy, Considered
  <2>2. [task EXCEPT ![iCurrent].waiting = "no"] \in [Tasks -> Record]
    BY <2>1 DEF TypeOK, Record
  <2> QED BY <1>4, <2>1, <2>2 DEF PassBy, MoveOn, TypeOK, Good, FieldsOK, ChainStep, Link
<1>5. CASE LastOrTimeout
  <2>1. iCurrent \in Tasks /\ iNext[iCurrent] \in Link
    BY <1>3, <1>5 DEF LastOrTimeout
  <2>2. stack \in Seq(Frame)
    BY DEF TypeOK
  <2> QED BY <1>5, <2>1, <2>2, DisableGood DEF LastOrTimeout
<1>6. CASE Run
  <2>1. iCurrent \in Tasks /\ iNext[iCurrent] \in Link
    BY <1>3, <1>6 DEF Run, Considered
  <2>2. task' \in [Tasks -> Record]
    <3>1. task[iCurrent] \in Record
      BY <2>1 DEF TypeOK
    <3>2. (IF task[iCurrent].iIterations > 0 THEN task[iCurrent].iIterations - 1
           ELSE task[iCurrent].iIterations) \in Int
      BY <3>1 DEF Record
    <3>3. [task[iCurrent] EXCEPT !.waiting = "no",
             !.iIterations = IF task[iCurrent].iIterations > 0
                             THEN task[iCurrent].iIterations - 1
                             ELSE task[iCurrent].iIterations] \in Record
      BY <3>1, <3>2 DEF Record
    <3> QED BY <1>6, <2>1, <3>3 DEF Run, TypeOK
  <2>3. Hook("callback", iCurrent, "") \in Frame
    BY <2>1, HookTyped DEF UserCode
  <2>4. stack' \in Seq(Frame)
    BY <1>6, <2>3, Single DEF Run
  <2> QED BY <1>6, <2>1, <2>2, <2>4 DEF Run, TypeOK, Good, FieldsOK, ChainStep
<1> QED BY <1>1, <1>2, <1>4, <1>5, <1>6 DEF Pass

\* The returns of user code.
LEMMA ReturnsGood ==
  ASSUME TypeOK, Returns
  PROVE  Good
<1>1. Top \in Frame /\ Below \in Seq(Frame)
  BY TopTyped DEF Returns, callbackReturns, CallbackOver, OnEnableReturns, OnDisableReturns
<1>2. CASE callbackReturns
  BY <1>1, <1>2
     DEF callbackReturns, CallbackOver, MoveOn, TypeOK, Good, FieldsOK, ChainStep, Link,
         historyVars
<1>3. CASE OnEnableReturns
  <2>1. Top.task \in Tasks /\ Top.current \in Link
    BY <1>1, <1>3 DEF OnEnableReturns, Frame
  <2>2. CASE Break
    BY <2>2, BreakGood
  <2>3. CASE /\ \E b \in BOOLEAN :
                  Enabled(Top.task,
                          [task[Top.task] EXCEPT !.enabled = b, !.inonenable = FALSE], Top.then)
             /\ iCurrent' = Top.current
             /\ stack' = Below
             /\ UNCHANGED <<chainVars, existing, passing, nextTask, broken, historyVars>>
    <3>1. \A b \in BOOLEAN :
            [task[Top.task] EXCEPT !.enabled = b, !.inonenable = FALSE] \in Record
      BY <2>1 DEF TypeOK, Record
    <3>2. task' \in [Tasks -> Record] /\ iCount' \in [Requests \cup Tasks -> Nat]
      BY <2>1, <2>3, <3>1, EnabledTyped
    <3> QED BY <1>1, <2>1, <2>3, <3>2 DEF TypeOK, Good, FieldsOK, ChainStep, historyVars
  <2> QED BY <1>3, <2>2, <2>3 DEF OnEnableReturns
<1>4. CASE OnDisableReturns
  <2>1. Top.task \in Tasks /\ Top.current \in Link
    BY <1>1, <1>4 DEF OnDisableReturns, Frame
  <2>2. CASE Break
    BY <2>2, BreakGood
  <2>3. CASE /\ Disabled(Top.task, Top.then, Top.current, nextTask)
             /\ stack' = Below
             /\ UNCHANGED <<task, broken, runs, seen>>
    <3>1. nextTask \in Link
      BY DEF TypeOK
    <3> QED BY <1>1, <2>1, <2>3, <3>1, DisabledGood DEF TypeOK, Good, FieldsOK
  <2> QED BY <1>4, <2>2, <2>3 DEF OnDisableReturns
<1> QED BY <1>2, <1>3, <1>4 DEF Returns

\* disableAll() and enableAll().
LEMMA AllLoopGood ==
  ASSUME TypeOK, AllLoop
  PROVE  Good
<1> DEFINE called == [stack EXCEPT ![Len(stack)].then = "next"]
           next == [stack EXCEPT ![Len(stack)].task = iNext[Top.task], ![Len(stack)].then = ""]
<1>1. /\ Top \in Frame /\ Below \in Seq(Frame)
      /\ Top \in [fn : {"disableAll", "enableAll"}, task : Link, current : {NULL}, then : {"", "next"}]
  BY TopTyped DEF AllLoop, Frame, UserCode
<1>2. called \in Seq(Frame)
  <2>1. [Top EXCEPT !.then = "next"] \in Frame
    BY <1>1 DEF Frame
  <2>2. called = [stack EXCEPT ![Len(stack)] = [Top EXCEPT !.then = "next"]]
    BY DEF Top
  <2> QED BY <2>1, <2>2, SetTop DEF AllLoop
<1>3. Top.task # NULL => Top.task \in Tasks /\ task[Top.task] \in Record
  BY <1>1 DEF Link, TypeOK
<1>4. CASE UNCHANGED <<chainVars, existing, task, iCount, iCurrent, passing, nextTask, broken, historyVars>>
           /\ stack' \in Seq(Frame)
  BY <1>4 DEF TypeOK, Good, FieldsOK, ChainStep, historyVars
<1>5. CASE Top.task # NULL /\ disable(Top.task, "", called, NULL)
  <2>1. NULL \in Link
    BY DEF Link
  <2> HIDE DEF called
  <2> QED BY <1>2, <1>3, <1>5, <2>1, DisableGood
<1>6. CASE Top.task # NULL /\ enable(Top.task, task[Top.task], "", called)
  <2> HIDE DEF called
  <2> QED BY <1>2, <1>3, <1>6, EnableGood
<1>7. CASE Break
  BY <1>7, BreakGood
<1>8. Top.task # NULL => next \in Seq(Frame)
  <2> SUFFICES ASSUME Top.task # NULL PROVE next \in Seq(Frame)
    OBVIOUS
  <2>1. iNext[Top.task] \in Link
    BY <1>3 DEF TypeOK, ChainTypeOK
  <2>2. [Top EXCEPT !.task = iNext[Top.task], !.then = ""] \in Frame
    BY <1>1, <2>1 DEF Frame
  <2>3. next = [stack EXCEPT ![Len(stack)] = [Top EXCEPT !.task = iNext[Top.task], !.then = ""]]
    BY DEF Top
  <2> QED BY <2>2, <2>3, SetTop DEF AllLoop
<1> QED BY <1>1, <1>4, <1>5, <1>6, <1>7, <1>8 DEF AllLoop

-----------------------------------------------------------------------------
\* The calls of user code.
LEMMA UserGood ==
  ASSUME TypeOK, User
  PROVE  Good
<1>0. stack \in Seq(Frame) /\ existing \subseteq Tasks /\ NULL \in Link
      /\ \A t \in Tasks : task[t] \in Record
  BY DEF TypeOK, Link
<1>1. CASE CallEnable
  BY <1>0, <1>1, EnableGood DEF CallEnable
<1>2. CASE CallRestart
  BY <1>0, <1>2, EnableGood DEF CallRestart
<1>3. CASE CallDisable
  BY <1>0, <1>3, DisableGood DEF CallDisable
<1>4. CASE setIterations
  <2>1. PICK t \in existing, n \in Iterations :
          task' = [task EXCEPT ![t].iIterations = n, ![t].iSetIterations = n]
    BY <1>4 DEF setIterations
  <2>2. task' \in [Tasks -> Record]
    <3>1. [task[t] EXCEPT !.iIterations = n, !.iSetIterations = n] \in Record
      BY <1>0, <2>1, SchedulerAssumption DEF Record
    <3> QED BY <1>0, <2>1, <3>1 DEF TypeOK
  <2> QED BY <1>4, <2>2 DEF setIterations, TypeOK, Good, FieldsOK, ChainStep
<1>5. CASE yield
  <2>1. Top.task \in Tasks
    BY <1>0, <1>5 DEF yield
  <2>2. task[Top.task].iIterations \in Int
    BY <1>0, <2>1 DEF Record
  <2>3. [task[Top.task] EXCEPT !.iIterations =
           IF task[Top.task].iIterations >= 0 THEN task[Top.task].iIterations + 1
           ELSE task[Top.task].iIterations] \in Record
    BY <1>0, <2>1, <2>2 DEF Record
  <2>4. task' \in [Tasks -> Record]
    BY <1>5, <2>1, <2>3 DEF yield, TypeOK
  <2> QED BY <1>5, <2>4 DEF yield, TypeOK, Good, FieldsOK, ChainStep
<1>6. CASE yieldOnce
  <2>1. task' \in [Tasks -> Record]
    <3>1. Top.task \in Tasks /\ task[Top.task] \in Record
      BY <1>0, <1>6 DEF yieldOnce
    <3>2. [task[Top.task] EXCEPT !.iIterations = 1] \in Record
      BY <3>1 DEF Record
    <3>3. task' = [task EXCEPT ![Top.task] = [@ EXCEPT !.iIterations = 1]]
      BY <1>6 DEF yieldOnce
    <3> QED BY <1>0, <3>1, <3>2, <3>3 DEF TypeOK
  <2> QED BY <1>6, <2>1 DEF yieldOnce, TypeOK, Good, FieldsOK, ChainStep
<1>7. CASE CallAddTask
  <2>1. ChainStep
    BY <1>0, <1>7 DEF CallAddTask, ChainStep
  <2>2. FieldsOK'
    BY <1>7 DEF CallAddTask, schedulerVars, historyVars, TypeOK, FieldsOK
  <2> QED BY <2>1, <2>2 DEF Good
<1>8. CASE CallDeleteTask
  BY <1>0, <1>8 DEF CallDeleteTask, schedulerVars, TypeOK, Good, FieldsOK, ChainStep
<1>9. CASE Construct
  <2>1. PICK t \in Tasks, n \in Iterations :
          /\ existing' = existing \cup {t}
          /\ task' = [task EXCEPT ![t] = Fresh(n)]
          /\ iCount' = [iCount EXCEPT ![t] = 0]
          /\ addTask(t) \/ UNCHANGED chainVars
    BY <1>9 DEF Construct
  <2>2. task' \in [Tasks -> Record]
    BY <2>1, FreshTyped DEF TypeOK
  <2>3. iCount' \in [Requests \cup Tasks -> Nat]
    BY <2>1 DEF TypeOK
  <2>4. ChainStep
    BY <2>1 DEF ChainStep
  <2>5. FieldsOK'
    BY <1>9, <2>1, <2>2, <2>3 DEF Construct, TypeOK, FieldsOK
  <2> QED BY <2>4, <2>5 DEF Good
<1>10. CASE Destroy
  BY <1>0, <1>10, DisableGood DEF Destroy
<1>11. CASE waitFor
  <2>1. CASE \E t \in existing, n \in Iterations, w \in {"nodelay", "delay"} :
               \E r \in Requests \cup (existing \ {t}) :
                 enable(t, [task[t] EXCEPT !.iStatusRequest = r, !.iIterations = n,
                                           !.iSetIterations = n, !.waiting = w], "", stack)
    <3>1. PICK t \in existing, n \in Iterations, w \in {"nodelay", "delay"} :
            \E r \in Requests \cup (existing \ {t}) :
                 enable(t, [task[t] EXCEPT !.iStatusRequest = r, !.iIterations = n,
                                           !.iSetIterations = n, !.waiting = w], "", stack)
      BY <2>1
    <3>2. PICK r \in Requests \cup (existing \ {t}) :
            enable(t, [task[t] EXCEPT !.iStatusRequest = r, !.iIterations = n,
                                      !.iSetIterations = n, !.waiting = w], "", stack)
      BY <3>1
    <3>3. r \in Requests \cup Link /\ n \in Int /\ t \in Tasks
      BY <1>0, SchedulerAssumption DEF Link
    <3>4. [task[t] EXCEPT !.iStatusRequest = r, !.iIterations = n,
                          !.iSetIterations = n, !.waiting = w] \in Record
      BY <1>0, <3>3 DEF Record
    <3> QED BY <1>0, <3>2, <3>3, <3>4, EnableGood
  <2>2. CASE /\ \E t \in existing : task' = [task EXCEPT ![t].iStatusRequest = NULL]
             /\ UNCHANGED <<chainVars, existing, iCount, iCurrent, passing, nextTask, stack, broken, historyVars>>
    <3>1. task' \in [Tasks -> Record]
      <4>1. \A t \in existing : [task[t] EXCEPT !.iStatusRequest = NULL] \in Record
        BY <1>0 DEF Record
      <4> QED BY <1>0, <2>2, <4>1 DEF TypeOK
    <3> QED BY <2>2, <3>1 DEF TypeOK, Good, FieldsOK, ChainStep, historyVars
  <2> QED BY <1>11, <2>1, <2>2 DEF waitFor
<1>12. CASE setWaiting
  BY <1>12 DEF setWaiting, TypeOK, Good, FieldsOK, ChainStep, historyVars
<1>13. CASE signal
  <2>1. iCount' \in [Requests \cup Tasks -> Nat]
    BY <1>13 DEF signal, TypeOK
  <2> QED BY <1>13, <2>1 DEF signal, TypeOK, Good, FieldsOK, ChainStep, historyVars
<1>14. CASE CallAll
  <2>1. iFirst \in Link
    BY DEF TypeOK, ChainTypeOK
  <2>2. PICK fn \in {"disableAll", "enableAll"} :
          stack' = Append(stack, [fn |-> fn, task |-> iFirst, current |-> NULL, then |-> ""])
    BY <1>14 DEF CallAll
  <2>3. [fn |-> fn, task |-> iFirst, current |-> NULL, then |-> ""] \in Frame
    BY <2>1 DEF Frame
  <2>4. stack' \in Seq(Frame)
    BY <1>0, <2>2, <2>3, Appended
  <2> QED BY <1>14, <2>4 DEF CallAll, TypeOK, Good, FieldsOK, ChainStep, historyVars
<1>15. CASE startNow
  BY <1>0, <1>15 DEF startNow, TypeOK, Good, FieldsOK, ChainStep, historyVars
<1> QED
  BY <1>1, <1>2, <1>3, <1>4, <1>5, <1>6, <1>7, <1>8, <1>9, <1>10, <1>11, <1>12, <1>13,
     <1>14, <1>15 DEF User

-----------------------------------------------------------------------------
\* The count of runs is moved by one or set.
LEMMA RunsTyped ==
  ASSUME TypeOK, Next
  PROVE  runs' \in [Tasks -> Int]
<1>0. runs \in [Tasks -> Int] /\ existing \subseteq Tasks
      /\ \A t \in Tasks : runs[t] \in Int /\ task[t].iSetIterations \in Int
  BY DEF TypeOK, Record
<1>1. UNCHANGED runs \/ \E t \in Tasks, n \in Int : runs' = [runs EXCEPT ![t] = n]
  <2>1. CASE Run
    <3>0. iCurrent \in Tasks
      BY <1>0, <2>1 DEF Run, Considered
    <3>1. iCurrent \in Tasks /\ runs[iCurrent] + 1 \in Int
      BY <1>0, <3>0
    <3> QED BY <1>0, <2>1, <3>1 DEF Run
  <2>2. CASE yield
    <3>1. Top.task \in Tasks /\ runs[Top.task] - 1 \in Int
      BY <1>0, <2>2 DEF yield
    <3> QED BY <1>0, <2>2, <3>1 DEF yield
  <2>3. CASE yieldOnce
    <3>1. Top.task \in Tasks /\ task[Top.task].iSetIterations - 1 \in Int
      BY <1>0, <2>3 DEF yieldOnce
    <3> QED BY <2>3, <3>1 DEF yieldOnce
  <2>4. CASE CallRestart \/ setIterations \/ Construct \/ waitFor
    <3>1. \/ UNCHANGED runs
          \/ \E t \in Tasks : runs' = [runs EXCEPT ![t] = 0]
      BY <1>0, <2>4 DEF CallRestart, setIterations, Construct, waitFor, historyVars
    <3> QED BY <3>1
  <2>5. CASE LastOrTimeout \/ CallDisable \/ Destroy \/ AllLoop
    BY <2>5 DEF LastOrTimeout, CallDisable, Destroy, AllLoop, disable, Break, historyVars
  <2>6. CASE execute \/ Dangling \/ PassBy \/ Returns
    BY <2>6 DEF execute, Dangling, PassBy, Returns, callbackReturns, CallbackOver,
                OnEnableReturns, OnDisableReturns, Break, historyVars
  <2>7. CASE CallEnable \/ CallAddTask \/ CallDeleteTask
             \/ setWaiting \/ signal \/ CallAll \/ startNow
    BY <2>7 DEF CallEnable, CallAddTask, CallDeleteTask, setWaiting, signal, CallAll,
                startNow, historyVars
  <2> QED
    BY <2>1, <2>2, <2>3, <2>4, <2>5, <2>6, <2>7 DEF Next, Pass, User
<1> QED BY <1>0, <1>1

\* Every step keeps the types and moves the chain by addTask() or deleteTask() only.
LEMMA NextGood ==
  ASSUME TypeOK, Next
  PROVE  Good
BY PassGood, ReturnsGood, AllLoopGood, UserGood DEF Next

\* And such a move keeps the chain whole.
LEMMA ChainStepKeeps ==
  ASSUME ChainTypeOK, ChainInv, ChainStep
  PROVE  ChainTypeOK' /\ ChainInv'
<1>1. CASE UNCHANGED chainVars
  BY <1>1 DEF chainVars, ChainTypeOK, ChainInv, Members
<1>2. CASE \E t \in Tasks : addTask(t)
  BY <1>2, AddKeeps
<1>3. CASE \E t \in Tasks : iScheduler[t] /\ deleteTask(t)
  BY <1>3, DeleteKeeps
<1> QED BY <1>1, <1>2, <1>3 DEF ChainStep

\* The chain is empty at first.
LEMMA InitChain == Init => TypeOK /\ ChainInv
<1> SUFFICES ASSUME Init PROVE TypeOK /\ ChainInv
  OBVIOUS
<1>1. ChainTypeOK /\ ChainInv
  BY DEF Init, ChainInit, ChainTypeOK, ChainInv, Link, Members
<1>2. task \in [Tasks -> Record]
  BY FreshTyped DEF Init
<1>3. runs \in [Tasks -> Int] /\ iCount \in [Requests \cup Tasks -> Nat] /\ stack \in Seq(Frame)
  BY DEF Init
<1> QED BY <1>1, <1>2, <1>3 DEF Init, TypeOK, Link

\* Every variable keeps its type, and the links of the tasks describe the chain
\* in the order of its tasks, whatever user code adds, deletes and destroys.
THEOREM Invariance == Spec => [](TypeOK /\ ChainInv)
<1>1. TypeOK /\ ChainInv /\ [Next]_vars => TypeOK' /\ ChainInv'
  <2> SUFFICES ASSUME TypeOK, ChainInv, [Next]_vars
               PROVE  TypeOK' /\ ChainInv'
    OBVIOUS
  <2>1. CASE Next
    <3>1. FieldsOK' /\ ChainStep /\ runs' \in [Tasks -> Int]
      BY <2>1, NextGood, RunsTyped DEF Good
    <3>2. ChainTypeOK' /\ ChainInv'
      BY <3>1, ChainStepKeeps DEF TypeOK
    <3> QED BY <3>1, <3>2 DEF TypeOK, FieldsOK
  <2>2. CASE UNCHANGED vars
    BY <2>2 DEF vars, chainVars, schedulerVars, historyVars, TypeOK, ChainTypeOK, ChainInv, Members
  <2> QED BY <2>1, <2>2
<1> QED BY <1>1, InitChain, PTL DEF Spec

\* Every variable of the scheduler keeps its type.
THEOREM TypeCorrect == Spec => []TypeOK
BY Invariance, PTL

\* addTask and deleteTask keep the execution chain whole.
THEOREM ChainWhole == Spec => []ChainInv
BY Invariance, PTL
-----------------------------------------------------------------------------
(* The pass. *)

\* The frame is user code that execute() itself called.
OfPass(f) == f.fn = "callback" \/ (f.fn = "OnDisable" /\ f.then = "execute")

\* execute() has called what is at the bottom of the stack while it is in a pass,
\* and nothing above; and what is being destroyed is not the next task.
StackInv ==
  /\ \A k \in DOMAIN stack : OfPass(stack[k]) => k = 1 /\ passing
  /\ passing /\ stack # <<>> => OfPass(stack[1])
  /\ passing => \A k \in DOMAIN stack : stack[k].then = "destroy" => stack[k].task # nextTask
  /\ passing /\ stack = <<>> => iCurrent # NULL

IsUser(f) == f.fn \in UserCode

\* In the stack q each hook restores iCurrent to the task of the user code under
\* it, and current is the task of the topmost user code.
Nested(q, current) ==
  /\ \A j, k \in 1 .. Len(q) :
       j < k /\ IsUser(q[j]) /\ IsUser(q[k]) /\ (\A i \in j + 1 .. k - 1 : ~IsUser(q[i]))
         => q[k].current = q[j].task
  /\ \A j \in 1 .. Len(q) :
       IsUser(q[j]) /\ (\A i \in j + 1 .. Len(q) : ~IsUser(q[i])) => current = q[j].task

NestInv == Nested(stack, iCurrent)

PassInv == StackInv /\ NestInv /\ WholePass

-----------------------------------------------------------------------------
(***************************************************************************)
(* Every step of the scheduler is one of a few as far as a pass goes.      *)
(***************************************************************************)
\* st is the stack, but for where a loop at the top has come to.
Alike(st) ==
  /\ st \in Seq(Frame) /\ Len(st) = Len(stack)
  /\ \A k \in DOMAIN stack :
       st[k] = stack[k] \/ (st[k].fn \notin UserCode /\ stack[k].fn \notin UserCode)

Stay == Alike(stack') /\ (iCurrent' = iCurrent \/ stack = <<>>)

PushHook ==
  \E st \in Seq(Frame), f \in Frame :
    /\ Alike(st) /\ stack' = Append(st, f)
    /\ f.fn \in UserCode /\ ~OfPass(f)
    /\ f.then = "destroy" /\ passing => f.task # nextTask
    /\ f.current = iCurrent /\ iCurrent' = f.task

PushLoop ==
  \E f \in Frame : stack' = Append(stack, f) /\ f.fn \notin UserCode /\ iCurrent' = iCurrent

Pop ==
  /\ stack # <<>> /\ stack' = Below /\ ~OfPass(Top)
  /\ iCurrent' = IF Top.fn \in UserCode THEN Top.current ELSE iCurrent

\* What user code does to the chain, and to what has stayed in it.
UserChain ==
  \/ UNCHANGED chainVars /\ UNCHANGED stayed
  \/ (\E t \in Tasks : addTask(t)) /\ UNCHANGED stayed
  \/ \E t \in Tasks : /\ iScheduler[t] /\ deleteTask(t)
                      /\ stayed' = stayed \ {t}
                      /\ passing => t # nextTask
  \/ UNCHANGED chainVars /\ \E t \in Tasks : ~iScheduler[t] /\ stayed' = stayed \ {t}

UserStep ==
  /\ passing => stack # <<>>
  /\ UNCHANGED <<passing, nextTask, seen>>
  /\ Stay \/ PushHook \/ PushLoop \/ Pop
  /\ UserChain

NoStep == UNCHANGED <<chainVars, stack, passing, nextTask, iCurrent, seen, stayed>>

\* execute() is done with iCurrent, or calls its code.
PassStep ==
  /\ passing /\ stack = <<>> /\ iCurrent \in Tasks
  /\ seen' = seen \cup {iCurrent}
  /\ UNCHANGED <<chainVars, stayed>>
  /\ \/ MoveOn(iNext[iCurrent]) /\ stack' = <<>>
     \/ /\ passing' = TRUE /\ nextTask' = iNext[iCurrent]
        /\ \E f \in Frame : /\ stack' = <<f>> /\ OfPass(f) /\ f.then # "destroy"
                            /\ iCurrent' = f.task

PassReturn ==
  /\ stack # <<>> /\ OfPass(Top) /\ stack' = Below
  /\ MoveOn(nextTask)
  /\ UNCHANGED <<chainVars, seen, stayed>>

\* A stack is like itself.
LEMMA AlikeSelf == TypeOK => Alike(stack)
BY DEF TypeOK, Alike

\* A fault is no step of the pass.
LEMMA BreakStep == Break => NoStep
BY DEF Break, NoStep, historyVars

\* enable() pushes at most its hook.
LEMMA EnableStep ==
  ASSUME TypeOK, passing => stack # <<>>,
         NEW t \in Tasks, NEW r, NEW then \in {"", "restart"},
         NEW st \in Seq(Frame), Alike(st), enable(t, r, then, st)
  PROVE  UserStep
<1>1. UNCHANGED <<chainVars, passing, nextTask, seen, stayed>>
  BY DEF enable
<1>2. CASE stack' = st /\ UNCHANGED iCurrent
  BY <1>1, <1>2 DEF UserStep, Stay, UserChain
<1>3. CASE stack' = Append(st, Hook("OnEnable", t, then)) /\ iCurrent' = t
  <2> DEFINE f == Hook("OnEnable", t, then)
  <2>1. f \in Frame
    BY HookTyped DEF UserCode
  <2>2. f.fn = "OnEnable" /\ f.then # "destroy" /\ f.current = iCurrent /\ f.task = t
    BY DEF Hook
  <2> HIDE DEF f
  <2>3. f.fn \in UserCode /\ ~OfPass(f)
    BY <2>2 DEF UserCode, OfPass
  <2>4. stack' = Append(st, f) /\ iCurrent' = f.task
    BY <1>3, <2>2 DEF f
  <2>5. PushHook
    BY <2>1, <2>2, <2>3, <2>4 DEF PushHook
  <2> QED BY <1>1, <2>5 DEF UserStep, UserChain
<1> QED BY <1>2, <1>3 DEF enable

\* What Disabled does when it is not execute() that called disable().
LEMMA DisabledStep ==
  ASSUME TypeOK, NEW t \in Tasks, NEW then \in {"", "destroy"}, NEW cur, NEW n,
         then = "destroy" /\ passing => t # nextTask,
         Disabled(t, then, cur, n)
  PROVE  UserChain /\ iCurrent' = cur /\ UNCHANGED <<passing, nextTask>>
BY DEF Disabled, UserChain

\* disable() pushes at most its hook.
LEMMA DisableStep ==
  ASSUME TypeOK, passing => stack # <<>>,
         NEW t \in Tasks, NEW then \in {"", "destroy"},
         then = "destroy" /\ passing => t # nextTask,
         NEW st \in Seq(Frame), Alike(st), NEW n, disable(t, then, st, n)
  PROVE  UserStep \/ NoStep
<1>1. CASE Break
  BY <1>1, BreakStep
<1>2. CASE /\ stack' = Append(st, Hook("OnDisable", t, then))
           /\ iCurrent' = t
           /\ nextTask' = IF then = "execute" THEN n ELSE nextTask
           /\ seen' = IF then = "execute" THEN seen \cup {t} ELSE seen
           /\ UNCHANGED <<chainVars, existing, iCount, passing, broken, runs, stayed>>
  <2> DEFINE f == Hook("OnDisable", t, then)
  <2>1. f \in Frame
    BY HookTyped DEF UserCode
  <2>2. f.fn = "OnDisable" /\ f.then = then /\ f.current = iCurrent /\ f.task = t
    BY DEF Hook
  <2> HIDE DEF f
  <2>3. f.fn \in UserCode /\ ~OfPass(f)
    BY <2>2 DEF UserCode, OfPass
  <2>4. stack' = Append(st, f) /\ iCurrent' = f.task
    BY <1>2, <2>2 DEF f
  <2>5. PushHook
    BY <2>1, <2>2, <2>3, <2>4 DEF PushHook
  <2> QED BY <1>2, <2>5 DEF UserStep, UserChain
<1>3. CASE /\ Disabled(t, then, iCurrent, n)
           /\ seen' = IF then = "execute" THEN seen \cup {t} ELSE seen
           /\ stack' = st
  <2>1. UserChain /\ iCurrent' = iCurrent /\ UNCHANGED <<passing, nextTask>>
    BY <1>3, DisabledStep
  <2> QED BY <1>3, <2>1 DEF UserStep, Stay
<1> QED BY <1>1, <1>2, <1>3 DEF disable

\* What the steps of execute() do to the stack and the pass.
LEMMA PassSteps ==
  ASSUME TypeOK, Pass
  PROVE  execute \/ NoStep \/ PassStep
<1>1. CASE Dangling
  BY <1>1, BreakStep DEF Dangling
<1>2. CASE PassBy
  <2>1. iCurrent \in Tasks
    BY <1>2 DEF PassBy, Considered, TypeOK
  <2> QED BY <1>2, <2>1 DEF PassBy, Looking, PassStep
<1>3. CASE LastOrTimeout
  <2>1. iCurrent \in Tasks /\ passing /\ stack = <<>>
    BY <1>3 DEF LastOrTimeout, Looking, TypeOK
  <2> DEFINE n == iNext[iCurrent]
             f == Hook("OnDisable", iCurrent, "execute")
  <2>2. disable(iCurrent, "execute", stack, n)
    BY <1>3 DEF LastOrTimeout
  <2>3. CASE Break
    BY <2>3, BreakStep
  <2>4. CASE /\ stack' = Append(stack, f) /\ iCurrent' = iCurrent
             /\ nextTask' = n /\ seen' = seen \cup {iCurrent}
             /\ UNCHANGED <<chainVars, passing, stayed>>
    <3>1. f \in Frame
      BY <2>1, HookTyped DEF UserCode
    <3>2. f.fn = "OnDisable" /\ f.then = "execute" /\ f.task = iCurrent
      BY DEF Hook
    <3> HIDE DEF f
    <3>3. stack' = <<f>>
      BY <2>1, <2>4
    <3> QED BY <2>1, <2>4, <3>1, <3>2, <3>3 DEF PassStep, OfPass
  <2>5. CASE /\ Disabled(iCurrent, "execute", iCurrent, n)
             /\ seen' = seen \cup {iCurrent}
             /\ stack' = stack
    BY <2>1, <2>5 DEF Disabled, PassStep
  <2> QED BY <2>2, <2>3, <2>4, <2>5 DEF disable
<1>4. CASE Run
  <2>1. iCurrent \in Tasks /\ passing /\ stack = <<>>
    BY <1>4 DEF Run, Looking, Considered, TypeOK
  <2> DEFINE f == Hook("callback", iCurrent, "")
  <2>2. f \in Frame
    BY <2>1, HookTyped DEF UserCode
  <2>3. f.fn = "callback" /\ f.then = "" /\ f.task = iCurrent
    BY DEF Hook
  <2>4. stack' = <<f>>
    BY <1>4 DEF Run
  <2> HIDE DEF f
  <2> QED BY <1>4, <2>1, <2>2, <2>3, <2>4 DEF Run, PassStep, OfPass
<1> QED BY <1>1, <1>2, <1>3, <1>4 DEF Pass

\* What a return does to them.
LEMMA ReturnsSteps ==
  ASSUME TypeOK, StackInv, Returns
  PROVE  UserStep \/ NoStep \/ PassReturn
<1>1. Top \in Frame /\ stack # <<>> /\ Top = stack[Len(stack)] /\ Len(stack) \in DOMAIN stack
  <2>1. stack # <<>> /\ stack \in Seq(Frame)
    BY DEF Returns, callbackReturns, CallbackOver, OnEnableReturns, OnDisableReturns, TypeOK
  <2> QED BY <2>1, TopTyped DEF Top
<1>2. CASE callbackReturns
  BY <1>1, <1>2 DEF callbackReturns, CallbackOver, PassReturn, OfPass, historyVars
<1>3. CASE OnEnableReturns
  <2>1. CASE Break
    BY <2>1, BreakStep
  <2>2. CASE /\ iCurrent' = Top.current
             /\ stack' = Below
             /\ UNCHANGED <<chainVars, existing, passing, nextTask, broken, seen, stayed>>
    BY <1>1, <1>3, <2>2 DEF OnEnableReturns, UserStep, UserChain, Pop, OfPass, UserCode
  <2> QED BY <1>3, <2>1, <2>2 DEF OnEnableReturns, Enabled, historyVars
<1>4. CASE OnDisableReturns
  <2>1. CASE Break
    BY <2>1, BreakStep
  <2>2. CASE /\ Disabled(Top.task, Top.then, Top.current, nextTask)
             /\ stack' = Below
             /\ UNCHANGED <<task, broken, runs, seen>>
    <3>1. Top.fn = "OnDisable" /\ Top.task \in Tasks
      BY <1>1, <1>4 DEF OnDisableReturns, Frame
    <3>2. CASE Top.then \in {"", "destroy"}
      <4>1. Top.then = "destroy" /\ passing => Top.task # nextTask
        BY <1>1 DEF StackInv
      <4>2. UserChain /\ iCurrent' = Top.current /\ UNCHANGED <<passing, nextTask>>
        BY <2>2, <3>1, <3>2, <4>1, DisabledStep
      <4>3. ~OfPass(Top) /\ Top.fn \in UserCode
        BY <3>1, <3>2 DEF OfPass, UserCode
      <4> QED BY <1>1, <2>2, <4>2, <4>3 DEF UserStep, Pop
    <3>3. CASE Top.then = "execute"
      BY <1>1, <2>2, <3>1, <3>3 DEF Disabled, PassReturn, OfPass
    <3> QED BY <2>2, <3>2, <3>3 DEF Disabled
  <2> QED BY <1>4, <2>1, <2>2 DEF OnDisableReturns
<1> QED BY <1>2, <1>3, <1>4 DEF Returns

\* A loop that calls for its task, or goes on from it, changes itself alone.
LEMMA LoopAlike ==
  ASSUME TypeOK, AllLoop
  PROVE  /\ Alike([stack EXCEPT ![Len(stack)].then = "next"])
         /\ [stack EXCEPT ![Len(stack)].then = "next"] \in Seq(Frame)
         /\ Top.task # NULL => Top.task \in Tasks
         /\ Top.task # NULL =>
              Alike([stack EXCEPT ![Len(stack)].task = iNext[Top.task], ![Len(stack)].then = ""])
<1> DEFINE called == [stack EXCEPT ![Len(stack)].then = "next"]
           next == [stack EXCEPT ![Len(stack)].task = iNext[Top.task], ![Len(stack)].then = ""]
<1>0. stack \in Seq(Frame) /\ stack # <<>>
  BY DEF TypeOK, AllLoop
<1>1. /\ Top \in Frame /\ Below \in Seq(Frame)
      /\ Top.fn \in {"disableAll", "enableAll"}
      /\ Top \in [fn : {"disableAll", "enableAll"}, task : Link, current : {NULL}, then : {"", "next"}]
      /\ Top = stack[Len(stack)] /\ Len(stack) \in DOMAIN stack
  <2>1. Top \in Frame /\ Below \in Seq(Frame) /\ Top.fn \in {"disableAll", "enableAll"}
    BY <1>0, TopTyped DEF AllLoop
  <2>2. Top \in [fn : {"disableAll", "enableAll"}, task : Link, current : {NULL}, then : {"", "next"}]
    BY <2>1 DEF Frame, UserCode
  <2>3. Top = stack[Len(stack)] /\ Len(stack) \in DOMAIN stack
    BY <1>0 DEF Top
  <2> QED BY <2>1, <2>2, <2>3
<1>2. ASSUME NEW g \in Frame, g.fn = Top.fn
      PROVE  Alike([stack EXCEPT ![Len(stack)] = g]) /\ [stack EXCEPT ![Len(stack)] = g] \in Seq(Frame)
  <2>1. [stack EXCEPT ![Len(stack)] = g] \in Seq(Frame)
    BY <1>0, SetTop
  <2>2. Len([stack EXCEPT ![Len(stack)] = g]) = Len(stack)
    BY <1>0
  <2>3. \A k \in DOMAIN stack :
          \/ [stack EXCEPT ![Len(stack)] = g][k] = stack[k]
          \/ [stack EXCEPT ![Len(stack)] = g][k] = g /\ k = Len(stack)
    BY <1>0
  <2>4. Top.fn \notin UserCode
    BY <1>1 DEF UserCode
  <2> QED BY <1>1, <1>2, <2>1, <2>2, <2>3, <2>4 DEF Alike
<1>3. Alike(called) /\ called \in Seq(Frame)
  <2>1. [Top EXCEPT !.then = "next"] \in Frame /\ [Top EXCEPT !.then = "next"].fn = Top.fn
    BY <1>1 DEF Frame
  <2>2. called = [stack EXCEPT ![Len(stack)] = [Top EXCEPT !.then = "next"]]
    BY DEF Top
  <2> QED BY <1>2, <2>1, <2>2
<1>4. Top.task # NULL => Top.task \in Tasks
  BY <1>1 DEF Link
<1>5. ASSUME Top.task # NULL PROVE Alike(next)
  <2>1. iNext[Top.task] \in Link
    BY <1>4, <1>5 DEF TypeOK, ChainTypeOK
  <2>2. /\ [Top EXCEPT !.task = iNext[Top.task], !.then = ""] \in Frame
        /\ [Top EXCEPT !.task = iNext[Top.task], !.then = ""].fn = Top.fn
    BY <1>1, <2>1 DEF Frame
  <2>3. next = [stack EXCEPT ![Len(stack)] = [Top EXCEPT !.task = iNext[Top.task], !.then = ""]]
    BY DEF Top
  <2> QED BY <1>2, <2>2, <2>3
<1> QED BY <1>3, <1>4, <1>5

\* What disableAll() and enableAll() do to them.
LEMMA AllLoopSteps ==
  ASSUME TypeOK, AllLoop
  PROVE  UserStep \/ NoStep
<1> DEFINE called == [stack EXCEPT ![Len(stack)].then = "next"]
           next == [stack EXCEPT ![Len(stack)].task = iNext[Top.task], ![Len(stack)].then = ""]
<1>0. stack \in Seq(Frame) /\ stack # <<>>
  BY DEF TypeOK, AllLoop
<1>1. /\ Top.fn \in {"disableAll", "enableAll"}
      /\ Alike(called) /\ called \in Seq(Frame)
      /\ Top.task # NULL => Top.task \in Tasks
      /\ Top.task # NULL => Alike(next)
  BY LoopAlike DEF AllLoop
<1> HIDE DEF called, next
<1>5. CASE stack' = Below
           /\ UNCHANGED <<chainVars, existing, task, iCount, iCurrent, passing, nextTask, broken, historyVars>>
  BY <1>0, <1>1, <1>5 DEF UserStep, Pop, UserChain, OfPass, UserCode, historyVars
<1>6. CASE Top.task # NULL /\ disable(Top.task, "", called, NULL)
  BY <1>0, <1>1, <1>6, DisableStep
<1>7. CASE Top.task # NULL /\ enable(Top.task, task[Top.task], "", called)
  BY <1>0, <1>1, <1>7, EnableStep
<1>8. CASE Break
  BY <1>8, BreakStep
<1>9. CASE Top.task # NULL /\ stack' = next
           /\ UNCHANGED <<chainVars, existing, task, iCount, iCurrent, passing, nextTask, broken, historyVars>>
  BY <1>0, <1>1, <1>9 DEF UserStep, Stay, UserChain, historyVars
<1> QED BY <1>5, <1>6, <1>7, <1>8, <1>9 DEF AllLoop, called, next

\* User code that does not delete the next task of a pass, and calls startNow()
\* from loop() only.
Careful == "deleteNext" \notin Liberties /\ "startNowInside" \notin Liberties

\* What careful user code does to them.
LEMMA UserSteps ==
  ASSUME TypeOK, Careful, StackInv, User
  PROVE  UserStep \/ NoStep
<1>0. /\ stack \in Seq(Frame) /\ existing \subseteq Tasks /\ Alike(stack)
      /\ \A c : UserCalls(c) => (passing => stack # <<>>)
      /\ \A t : MayDelete(t) /\ passing /\ stack # <<>> => t # nextTask
  BY AlikeSelf DEF TypeOK, UserCalls, MayDelete, Careful
<1>1. CASE CallEnable
  BY <1>0, <1>1, EnableStep DEF CallEnable
<1>2. CASE CallRestart
  BY <1>0, <1>2, EnableStep DEF CallRestart
<1>3. CASE CallDisable
  BY <1>0, <1>3, DisableStep DEF CallDisable
<1>4. CASE setIterations \/ yield \/ yieldOnce \/ setWaiting \/ signal
  BY <1>0, <1>4 DEF setIterations, yield, yieldOnce, setWaiting, signal, UserStep, Stay,
                    UserChain, historyVars
<1>5. CASE CallAddTask
  <2>1. UserChain
    BY <1>0, <1>5 DEF CallAddTask, UserChain, historyVars
  <2> QED BY <1>0, <1>5, <2>1 DEF CallAddTask, UserStep, Stay, schedulerVars, historyVars
<1>6. CASE CallDeleteTask
  <2>1. UserChain
    BY <1>0, <1>6 DEF CallDeleteTask, UserChain
  <2> QED BY <1>0, <1>6, <2>1 DEF CallDeleteTask, UserStep, Stay, schedulerVars
<1>7. CASE Construct
  <2>1. UserChain
    BY <1>7 DEF Construct, UserChain
  <2> QED BY <1>0, <1>7, <2>1 DEF Construct, UserStep, Stay
<1>8. CASE Destroy
  BY <1>0, <1>8, DisableStep DEF Destroy
<1>9. CASE waitFor
  <2>1. PICK t \in existing :
          \/ \E r : enable(t, r, "", stack)
          \/ UNCHANGED <<chainVars, existing, iCount, iCurrent, passing, nextTask, stack, broken, historyVars>>
    BY <1>9 DEF waitFor
  <2>2. passing => stack # <<>>
    BY <1>0, <1>9 DEF waitFor
  <2>3. CASE \E r : enable(t, r, "", stack)
    BY <1>0, <2>2, <2>3, EnableStep
  <2>4. CASE UNCHANGED <<chainVars, existing, iCount, iCurrent, passing, nextTask, stack, broken, historyVars>>
    BY <1>0, <2>2, <2>4 DEF UserStep, Stay, UserChain, historyVars
  <2> QED BY <2>1, <2>3, <2>4
<1>10. CASE CallAll
  <2>1. PICK fn \in {"disableAll", "enableAll"} :
          stack' = Append(stack, [fn |-> fn, task |-> iFirst, current |-> NULL, then |-> ""])
    BY <1>10 DEF CallAll
  <2> DEFINE f == [fn |-> fn, task |-> iFirst, current |-> NULL, then |-> ""]
  <2>2. f \in Frame /\ f.fn \notin UserCode
    BY DEF Frame, UserCode, TypeOK, ChainTypeOK
  <2>3. stack' = Append(stack, f)
    BY <2>1
  <2> HIDE DEF f
  <2>4. PushLoop
    BY <1>10, <2>2, <2>3 DEF CallAll, PushLoop
  <2> QED BY <1>0, <1>10, <2>4 DEF CallAll, UserStep, UserChain, historyVars
<1>11. CASE startNow
  BY <1>0, <1>11 DEF startNow, Careful, UserStep, Stay, UserChain, historyVars
<1> QED
  BY <1>1, <1>2, <1>3, <1>4, <1>5, <1>6, <1>7, <1>8, <1>9, <1>10, <1>11 DEF User

-----------------------------------------------------------------------------
(***************************************************************************)
(* Each of these steps keeps the invariant.                                *)
(***************************************************************************)
\* The stack while user code runs: only what is above the bottom comes and goes.
LEMMA UserStepStack ==
  ASSUME TypeOK, StackInv, UserStep
  PROVE  StackInv'
<1>0. /\ stack \in Seq(Frame) /\ DOMAIN stack = 1 .. Len(stack) /\ Len(stack) \in Nat
      /\ stack # <<>> <=> Len(stack) # 0
      /\ UNCHANGED <<passing, nextTask>>
      /\ passing => Len(stack) # 0
  BY DEF TypeOK, UserStep
<1>1. ASSUME NEW st \in Seq(Frame), Alike(st)
      PROVE  /\ DOMAIN st = 1 .. Len(stack) /\ Len(st) = Len(stack)
             /\ \A k \in 1 .. Len(stack) :
                  /\ OfPass(st[k]) <=> OfPass(stack[k])
                  /\ st[k].then = "destroy" => st[k] = stack[k]
  <2>1. DOMAIN st = 1 .. Len(stack) /\ Len(st) = Len(stack) /\ \A k \in 1 .. Len(stack) : st[k] \in Frame
    BY <1>0, <1>1 DEF Alike
  <2>2. \A f \in Frame : f.fn \notin UserCode => ~OfPass(f) /\ f.then # "destroy"
    BY DEF Frame, UserCode, OfPass
  <2>3. \A k \in 1 .. Len(stack) : stack[k] \in Frame
    BY <1>0
  <2> QED BY <1>0, <1>1, <2>1, <2>2, <2>3 DEF Alike
<1>2. CASE Stay
  <2>1. Alike(stack') /\ stack' \in Seq(Frame)
    BY <1>2 DEF Stay, Alike
  <2>2. stack' # <<>> <=> Len(stack) # 0
    BY <2>1 DEF Alike
  <2> QED BY <1>0, <1>1, <2>1, <2>2 DEF StackInv
<1>3. CASE \E st \in Seq(Frame), f \in Frame :
             /\ Alike(st) /\ stack' = Append(st, f) /\ ~OfPass(f)
             /\ f.then = "destroy" /\ passing => f.task # nextTask
  <2>1. PICK st \in Seq(Frame), f \in Frame :
          /\ Alike(st) /\ stack' = Append(st, f) /\ ~OfPass(f)
          /\ f.then = "destroy" /\ passing => f.task # nextTask
    BY <1>3
  <2>2. /\ DOMAIN stack' = 1 .. Len(stack) + 1
        /\ stack'[Len(stack) + 1] = f
        /\ \A k \in 1 .. Len(stack) : stack'[k] = st[k]
    BY <1>0, <1>1, <2>1
  <2>3. \A k \in 1 .. Len(stack) + 1 : k \in 1 .. Len(stack) \/ k = Len(stack) + 1
    BY <1>0
  <2>4. passing => 1 \in 1 .. Len(stack)
    BY <1>0
  <2>5. stack' # <<>>
    BY <2>1
  <2>6. \A k \in DOMAIN stack' : OfPass(stack'[k]) => k = 1 /\ passing
    BY <1>0, <1>1, <2>1, <2>2, <2>3 DEF StackInv
  <2>7. passing => OfPass(stack'[1])
    BY <1>0, <1>1, <2>1, <2>2, <2>4 DEF StackInv
  <2>8. passing => \A k \in DOMAIN stack' : stack'[k].then = "destroy" => stack'[k].task # nextTask
    BY <1>0, <1>1, <2>1, <2>2, <2>3 DEF StackInv
  <2> QED BY <1>0, <2>5, <2>6, <2>7, <2>8 DEF StackInv
<1>4. CASE Pop
  <2>1. /\ stack' = SubSeq(stack, 1, Len(stack) - 1) /\ Len(stack) # 0 /\ ~OfPass(stack[Len(stack)])
    BY <1>0, <1>4 DEF Pop, Below, Top
  <2>2. /\ DOMAIN stack' = 1 .. Len(stack) - 1
        /\ \A k \in 1 .. Len(stack) - 1 : stack'[k] = stack[k] /\ k \in 1 .. Len(stack)
    BY <1>0, <2>1
  <2>3. passing => 1 \in 1 .. Len(stack) - 1
    BY <1>0, <2>1 DEF StackInv
  <2>4. passing => stack' # <<>>
    BY <2>2, <2>3
  <2> QED BY <1>0, <2>2, <2>3, <2>4 DEF StackInv
<1>5. PushHook => \E st \in Seq(Frame), f \in Frame :
             /\ Alike(st) /\ stack' = Append(st, f) /\ ~OfPass(f)
             /\ f.then = "destroy" /\ passing => f.task # nextTask
  BY DEF PushHook
<1>6. PushLoop => \E st \in Seq(Frame), f \in Frame :
             /\ Alike(st) /\ stack' = Append(st, f) /\ ~OfPass(f)
             /\ f.then = "destroy" /\ passing => f.task # nextTask
  <2>1. Alike(stack)
    BY AlikeSelf
  <2>2. \A f \in Frame : f.fn \notin UserCode => ~OfPass(f) /\ f.then # "destroy"
    BY DEF Frame, UserCode, OfPass
  <2> QED BY <1>0, <2>1, <2>2 DEF PushLoop
<1> QED BY <1>2, <1>3, <1>4, <1>5, <1>6 DEF UserStep

\* Hooks nest in a stack whose other frames alone have changed.
LEMMA NestedAlike ==
  ASSUME TypeOK, NEW st, Alike(st), NEW c, Nested(stack, c)
  PROVE  Nested(st, c)
<1>1. /\ Len(st) = Len(stack) /\ Len(stack) \in Nat
      /\ \A k \in 1 .. Len(stack) : IsUser(st[k]) <=> IsUser(stack[k])
      /\ \A k \in 1 .. Len(stack) : IsUser(stack[k]) => st[k] = stack[k]
  BY DEF TypeOK, Alike, IsUser
<1>2. \A j, k \in 1 .. Len(stack) : \A i \in j + 1 .. k - 1 : i \in 1 .. Len(stack)
  BY <1>1
<1>3. \A j \in 1 .. Len(stack) : \A i \in j + 1 .. Len(stack) : i \in 1 .. Len(stack)
  BY <1>1
<1> QED BY <1>1, <1>2, <1>3 DEF Nested

\* A frame is pushed on q: the topmost user code becomes what it returns to.
LEMMA NestedPush ==
  ASSUME NEW q \in Seq(Frame), NEW f \in Frame, NEW c, Nested(q, c)
  PROVE  /\ IsUser(f) /\ f.current = c => Nested(Append(q, f), f.task)
         /\ ~IsUser(f) => Nested(Append(q, f), c)
<1> DEFINE L == Len(q)
           p == Append(q, f)
<1>1. /\ L \in Nat /\ Len(p) = L + 1 /\ p[L + 1] = f
      /\ \A k \in 1 .. L : p[k] = q[k]
  OBVIOUS
<1>2. \A k \in 1 .. L + 1 : k \in 1 .. L \/ k = L + 1
  BY <1>1
<1>3. \A j, k \in 1 .. L : \A i \in j + 1 .. k - 1 : i \in 1 .. L
  BY <1>1
<1>4. \A j \in 1 .. L : \A i \in j + 1 .. L : i \in 1 .. L /\ i \in j + 1 .. L + 1
  BY <1>1
<1>5. \A j \in 1 .. L + 1 : j < L + 1 <=> j \in 1 .. L
  BY <1>1
<1>6. \A j \in 1 .. L : L + 1 \in j + 1 .. L + 1 /\ (L + 1) - 1 = L
  BY <1>1
<1>7. \A k \in 1 .. L : ~(L + 1 < k)
  BY <1>1
<1>8. ~(L + 1 < L + 1)
  BY <1>1
<1> HIDE DEF L, p
<1>9. ASSUME NEW j \in 1 .. L, NEW k \in 1 .. L, j < k, IsUser(p[j]), IsUser(p[k]),
             \A i \in j + 1 .. k - 1 : ~IsUser(p[i])
      PROVE  p[k].current = p[j].task
  BY <1>1, <1>3, <1>9 DEF Nested, L
<1>10. ASSUME NEW j \in 1 .. L, IsUser(p[j]), \A i \in j + 1 .. L : ~IsUser(p[i])
       PROVE  p[j].task = c
  BY <1>1, <1>4, <1>10 DEF Nested, L
<1>11. ASSUME IsUser(f), f.current = c PROVE Nested(p, f.task)
  <2>1. ASSUME NEW j \in 1 .. L + 1, NEW k \in 1 .. L + 1, j < k, IsUser(p[j]), IsUser(p[k]),
               \A i \in j + 1 .. k - 1 : ~IsUser(p[i])
        PROVE  p[k].current = p[j].task
    <3>1. CASE k \in 1 .. L
      BY <1>2, <1>7, <1>9, <2>1, <3>1
    <3>2. CASE k = L + 1
      BY <1>1, <1>5, <1>6, <1>10, <1>11, <2>1, <3>2
    <3> QED BY <1>2, <3>1, <3>2
  <2>2. ASSUME NEW j \in 1 .. L + 1, IsUser(p[j]), \A i \in j + 1 .. L + 1 : ~IsUser(p[i])
        PROVE  f.task = p[j].task
    BY <1>1, <1>2, <1>6, <1>11, <2>2
  <2> QED BY <1>1, <2>1, <2>2 DEF Nested
<1>12. ASSUME ~IsUser(f) PROVE Nested(p, c)
  <2>1. ASSUME NEW j \in 1 .. L + 1, NEW k \in 1 .. L + 1, j < k, IsUser(p[j]), IsUser(p[k]),
               \A i \in j + 1 .. k - 1 : ~IsUser(p[i])
        PROVE  p[k].current = p[j].task
    BY <1>1, <1>2, <1>9, <1>12, <2>1
  <2>2. ASSUME NEW j \in 1 .. L + 1, IsUser(p[j]), \A i \in j + 1 .. L + 1 : ~IsUser(p[i])
        PROVE  c = p[j].task
    BY <1>1, <1>2, <1>4, <1>10, <1>12, <2>2
  <2> QED BY <1>1, <2>1, <2>2 DEF Nested
<1> QED BY <1>11, <1>12 DEF p

\* What is left when the top is popped
LEMMA Popped ==
  ASSUME TypeOK, stack # <<>>
  PROVE  /\ Len(stack) \in Nat \ {0} /\ Len(Below) = Len(stack) - 1 /\ Top = stack[Len(stack)]
         /\ \A k \in 1 .. Len(stack) - 1 : Below[k] = stack[k] /\ k \in 1 .. Len(stack)
<1>1. stack \in Seq(Frame) /\ Len(stack) \in Nat /\ Len(stack) # 0
  BY DEF TypeOK
<1>2. Len(stack) - 1 \in Nat /\ Len(stack) - 1 <= Len(stack)
  BY <1>1
<1>3. \A m \in Nat : m <= Len(stack) =>
        Len(SubSeq(stack, 1, m)) = m /\ \A k \in 1 .. m : SubSeq(stack, 1, m)[k] = stack[k]
  BY <1>1
<1>4. Len(Below) = Len(stack) - 1 /\ \A k \in 1 .. Len(stack) - 1 : Below[k] = stack[k]
  BY <1>2, <1>3 DEF Below
<1> QED BY <1>1, <1>4 DEF Top

\* The top frame of the stack is popped.
LEMMA NestedPop ==
  ASSUME TypeOK, stack # <<>>, NEW c, Nested(stack, c)
  PROVE  Nested(Below, IF IsUser(Top) THEN Top.current ELSE c)
<1> DEFINE L == Len(stack)
<1>1. /\ L \in Nat /\ L >= 1 /\ Len(Below) = L - 1 /\ Top = stack[L]
      /\ \A k \in 1 .. L - 1 : Below[k] = stack[k]
  BY Popped
<1>2. /\ L \in 1 .. L
      /\ \A k \in 1 .. L - 1 : k \in 1 .. L /\ k < L
      /\ \A j, k \in 1 .. L - 1 : \A i \in j + 1 .. k - 1 : i \in 1 .. L - 1
      /\ \A j \in 1 .. L - 1 : \A i \in j + 1 .. L - 1 : i \in 1 .. L - 1
      /\ \A j \in 1 .. L - 1 : \A i \in j + 1 .. L : i \in j + 1 .. L - 1 \/ i = L
  BY <1>1
<1> HIDE DEF L
<1>3. ASSUME NEW j \in 1 .. L - 1, NEW k \in 1 .. L - 1, j < k,
             IsUser(Below[j]), IsUser(Below[k]), \A i \in j + 1 .. k - 1 : ~IsUser(Below[i])
      PROVE  Below[k].current = Below[j].task
  BY <1>1, <1>2, <1>3 DEF Nested, L
<1>4. ASSUME NEW j \in 1 .. L - 1, IsUser(Below[j]), \A i \in j + 1 .. L - 1 : ~IsUser(Below[i])
      PROVE  (IF IsUser(Top) THEN Top.current ELSE c) = Below[j].task
  <2>1. j \in 1 .. L /\ j < L /\ IsUser(stack[j]) /\ \A i \in j + 1 .. L - 1 : ~IsUser(stack[i])
    BY <1>1, <1>2, <1>4
  <2>2. CASE IsUser(Top)
    BY <1>1, <1>2, <2>1, <2>2 DEF Nested, L
  <2>3. CASE ~IsUser(Top)
    <3>1. \A i \in j + 1 .. L : ~IsUser(stack[i])
      BY <1>1, <1>2, <2>1, <2>3
    <3> QED BY <1>1, <2>1, <2>3, <3>1 DEF Nested, L
  <2> QED BY <2>2, <2>3
<1> QED BY <1>1, <1>3, <1>4 DEF Nested

\* Hooks nest over the steps of user code.
LEMMA UserStepNest ==
  ASSUME TypeOK, NestInv, UserStep
  PROVE  NestInv'
<1>1. Nested(stack, iCurrent) /\ stack \in Seq(Frame)
  BY DEF NestInv, TypeOK
<1>2. CASE Stay
  <2>1. CASE iCurrent' = iCurrent
    <3>1. Nested(stack', iCurrent)
      BY <1>1, <1>2, NestedAlike DEF Stay
    <3> QED BY <2>1, <3>1 DEF NestInv
  <2>2. CASE stack = <<>>
    <3>1. Len(stack') = 0
      BY <1>2, <2>2 DEF Stay, Alike
    <3>2. Nested(stack', iCurrent')
      BY <3>1 DEF Nested
    <3> QED BY <3>2 DEF NestInv
  <2> QED BY <1>2, <2>1, <2>2 DEF Stay
<1>3. CASE PushHook
  <2>1. PICK st \in Seq(Frame), f \in Frame :
          /\ Alike(st) /\ stack' = Append(st, f)
          /\ f.fn \in UserCode
          /\ f.current = iCurrent /\ iCurrent' = f.task
    BY <1>3 DEF PushHook
  <2>2. Nested(st, iCurrent)
    BY <1>1, <2>1, NestedAlike
  <2>3. Nested(Append(st, f), f.task)
    BY <2>1, <2>2, NestedPush DEF IsUser
  <2> QED BY <2>1, <2>3 DEF NestInv
<1>4. CASE PushLoop
  <2>1. PICK f \in Frame : stack' = Append(stack, f) /\ f.fn \notin UserCode /\ iCurrent' = iCurrent
    BY <1>4 DEF PushLoop
  <2>2. Nested(Append(stack, f), iCurrent)
    BY <1>1, <2>1, NestedPush DEF IsUser
  <2> QED BY <2>1, <2>2 DEF NestInv
<1>5. CASE Pop
  <2>1. Nested(Below, IF IsUser(Top) THEN Top.current ELSE iCurrent)
    BY <1>1, <1>5, NestedPop DEF Pop
  <2> QED BY <1>5, <2>1 DEF Pop, IsUser, NestInv
<1> QED BY <1>2, <1>3, <1>4, <1>5 DEF UserStep

\* execute() goes on with an empty stack, or with the code of one task on it.
LEMMA PassStepStack ==
  ASSUME TypeOK, execute \/ PassStep
  PROVE  StackInv' /\ NestInv'
<1>1. CASE stack' = <<>> /\ (passing' => iCurrent' # NULL)
  <2>1. Len(stack') = 0 /\ DOMAIN stack' = {}
    BY <1>1
  <2>2. StackInv'
    BY <1>1, <2>1 DEF StackInv
  <2>3. NestInv'
    BY <2>1 DEF NestInv, Nested
  <2> QED BY <2>2, <2>3
<1>2. CASE \E f \in Frame : /\ stack' = <<f>> /\ OfPass(f) /\ f.then # "destroy"
                            /\ iCurrent' = f.task /\ passing'
  <2>1. PICK f \in Frame : /\ stack' = <<f>> /\ OfPass(f) /\ f.then # "destroy"
                           /\ iCurrent' = f.task /\ passing'
    BY <1>2
  <2>2. Len(stack') = 1 /\ DOMAIN stack' = {1} /\ stack'[1] = f /\ stack' # <<>>
    BY <2>1
  <2>3. StackInv'
    BY <2>1, <2>2 DEF StackInv
  <2>4. 1 .. 1 = {1} /\ ~(1 < 1)
    OBVIOUS
  <2>5. Nested(stack', iCurrent')
    BY <2>1, <2>2, <2>4 DEF Nested
  <2> QED BY <2>3, <2>5 DEF NestInv
<1>3. execute => stack' = <<>> /\ (passing' => iCurrent' # NULL)
  BY DEF execute
<1> QED BY <1>1, <1>2, <1>3 DEF PassStep, MoveOn

\* What execute() called is at the bottom of the stack, so the stack is empty again.
LEMMA PassReturnStack ==
  ASSUME TypeOK, StackInv, PassReturn
  PROVE  StackInv' /\ NestInv' /\ stack' = <<>> /\ passing
<1>1. Len(stack) \in DOMAIN stack /\ Top = stack[Len(stack)] /\ stack \in Seq(Frame)
  BY DEF TypeOK, PassReturn, Top
<1>2. Len(stack) = 1 /\ passing
  BY <1>1 DEF PassReturn, StackInv
<1>3. Len(stack') = 0 /\ stack' = <<>> /\ DOMAIN stack' = {}
  BY <1>1, <1>2 DEF PassReturn, Below
<1>4. StackInv'
  BY <1>3 DEF StackInv, PassReturn, MoveOn
<1>5. NestInv'
  BY <1>3 DEF NestInv, Nested
<1> QED BY <1>2, <1>3, <1>4, <1>5

\* User code that a pass called leaves the frame the pass waits for.
LEMMA UserStepInPass ==
  ASSUME TypeOK, StackInv, UserStep, passing
  PROVE  stack # <<>> /\ stack' # <<>>
<1>1. stack # <<>> /\ stack \in Seq(Frame)
  BY DEF UserStep, TypeOK
<1>2. CASE Stay
  BY <1>1, <1>2 DEF Stay, Alike
<1>3. CASE PushHook \/ PushLoop
  BY <1>1, <1>3 DEF PushHook, PushLoop
<1>4. CASE Pop
  <2>1. Len(stack) \in Nat /\ Len(stack) # 0 /\ ~OfPass(stack[Len(stack)]) /\ OfPass(stack[1])
    BY <1>1, <1>4 DEF Pop, Top, StackInv
  <2>2. Len(stack) - 1 \in Nat /\ Len(stack) - 1 # 0 /\ Len(stack) - 1 <= Len(stack)
    BY <2>1
  <2>3. \A m \in Nat : m <= Len(stack) => Len(SubSeq(stack, 1, m)) = m
    BY <1>1
  <2>4. Len(stack') # 0
    BY <1>4, <2>2, <2>3 DEF Pop, Below
  <2>5. stack' = <<>> => Len(stack') = 0
    OBVIOUS
  <2> QED BY <1>1, <2>4, <2>5
<1> QED BY <1>1, <1>2, <1>3, <1>4 DEF UserStep

\* User code leaves what stays in the chain where it is relative to the next task.
LEMMA UserStepPass ==
  ASSUME TypeOK, ChainInv, StackInv, WholePass, UserStep
  PROVE  WholePass'
<1>0. ChainTypeOK /\ UNCHANGED <<passing, nextTask, seen>> /\ stayed \subseteq Members
  BY DEF TypeOK, UserStep, WholePass
<1>1. /\ stayed' \subseteq Members' /\ stayed' \subseteq stayed
      /\ passing /\ nextTask # NULL =>
           nextTask \in Members' /\ stayed' \cap Before(nextTask)' = stayed' \cap Before(nextTask)
  <2>0. passing /\ nextTask # NULL => nextTask \in Members
    BY UserStepInPass DEF WholePass, Upcoming
  <2>1. CASE UNCHANGED chainVars /\ stayed' \subseteq stayed
    BY <1>0, <2>0, <2>1 DEF chainVars, Members, Before
  <2>2. CASE (\E t \in Tasks : addTask(t)) /\ UNCHANGED stayed
    <3>1. PICK t \in Tasks : addTask(t)
      BY <2>2
    <3>2. \A n \in Members : n \in Members' /\ Before(n)' = Before(n)
      BY <1>0, <3>1, BeforeAdd
    <3>3. passing /\ nextTask # NULL => nextTask \in Members' /\ Before(nextTask)' = Before(nextTask)
      BY <1>0, <2>0, <3>2
    <3> QED BY <1>0, <2>2, <3>2, <3>3
  <2>3. CASE \E t \in Tasks : /\ iScheduler[t] /\ deleteTask(t)
                              /\ stayed' = stayed \ {t}
                              /\ passing => t # nextTask
    <3>1. PICK t \in Tasks : /\ iScheduler[t] /\ deleteTask(t)
                             /\ stayed' = stayed \ {t}
                             /\ passing => t # nextTask
      BY <2>3
    <3>2. /\ Members' = Members \ {t}
          /\ \A n \in Members \ {t} : Before(n)' = Before(n) \ {t}
      BY <1>0, <3>1, BeforeDelete
    <3>3. passing /\ nextTask # NULL =>
            nextTask \in Members' /\ Before(nextTask)' = Before(nextTask) \ {t}
      BY <1>0, <2>0, <3>1, <3>2
    <3> QED BY <1>0, <3>1, <3>2, <3>3
  <2> QED BY <2>1, <2>2, <2>3 DEF UserStep, UserChain
<1>2. CASE ~passing
  <2>1. stayed \subseteq seen
    BY <1>2 DEF WholePass
  <2> QED BY <1>0, <1>1, <1>2, <2>1 DEF WholePass
<1>3. CASE passing
  <2>1. Upcoming = nextTask /\ Upcoming' = nextTask
    BY <1>0, <1>3, UserStepInPass DEF Upcoming
  <2>2. CASE nextTask = NULL
    <3>1. stayed \subseteq seen
      BY <1>3, <2>1, <2>2 DEF WholePass
    <3> QED BY <1>0, <1>1, <1>3, <2>1, <2>2, <3>1 DEF WholePass
  <2>3. CASE nextTask # NULL
    <3>1. stayed \cap seen = stayed \cap Before(nextTask)
      BY <1>3, <2>1, <2>3 DEF WholePass
    <3>2. stayed' \cap seen = stayed' \cap Before(nextTask)'
      BY <1>1, <1>3, <2>3, <3>1
    <3>3. Before(Upcoming)' = Before(nextTask)'
      BY <1>0, <2>1
    <3> QED BY <1>0, <1>1, <1>3, <2>1, <2>3, <3>2, <3>3 DEF WholePass
  <2> QED BY <2>2, <2>3
<1> QED BY <1>2, <1>3

\* execute() goes from a task to the one that is linked behind it.
LEMMA PassStepPass ==
  ASSUME TypeOK, ChainInv, StackInv, WholePass, PassStep
  PROVE  WholePass'
<1> DEFINE c == iCurrent
           n == iNext[iCurrent]
<1>1. /\ ChainTypeOK /\ UNCHANGED <<chainVars, stayed>> /\ seen' = seen \cup {c}
      /\ c \in Members /\ stayed \subseteq Members
      /\ stayed \cap seen = stayed \cap Before(c)
  BY DEF TypeOK, PassStep, WholePass, Upcoming, StackInv
<1>2. IF n = NULL THEN Members = Before(c) \cup {c}
      ELSE n \in Members /\ Before(n) = Before(c) \cup {c}
  BY <1>1, BeforeNext
<1>3. Members' = Members /\ \A x : Before(x)' = Before(x)
  BY <1>1 DEF chainVars, Members, Before
<1>4. Upcoming' = n /\ (n # NULL => passing')
  <2>1. CASE MoveOn(n) /\ stack' = <<>>
    BY <2>1 DEF MoveOn, Upcoming
  <2>2. CASE passing' = TRUE /\ nextTask' = n /\ \E f \in Frame : stack' = <<f>>
    <3>1. stack' # <<>>
      BY <2>2
    <3> QED BY <2>2, <3>1 DEF Upcoming
  <2> QED BY <2>1, <2>2 DEF PassStep
<1> HIDE DEF c, n
<1>5. CASE n = NULL
  BY <1>1, <1>2, <1>3, <1>4, <1>5 DEF WholePass
<1>6. CASE n # NULL
  <2>1. Before(Upcoming)' = Before(c) \cup {c}
    BY <1>2, <1>3, <1>4, <1>6
  <2>2. stayed' \cap seen' = stayed' \cap Before(Upcoming)'
    BY <1>1, <2>1
  <2> QED BY <1>1, <1>2, <1>3, <1>4, <1>6, <2>2 DEF WholePass
<1> QED BY <1>5, <1>6

\* At the start of a pass everything is still to come.
LEMMA ExecutePass ==
  ASSUME TypeOK, ChainInv, execute
  PROVE  WholePass'
<1>1. /\ UNCHANGED chainVars /\ passing' = TRUE /\ stack' = <<>> /\ iCurrent' = iFirst
      /\ seen' = {} /\ stayed' = Members
  BY DEF execute
<1>2. iFirst \in Members /\ Before(iFirst) = {}
  BY BeforeFirst DEF execute, TypeOK
<1>3. Members' = Members /\ \A x : Before(x)' = Before(x)
  BY <1>1 DEF chainVars, Members, Before
<1>4. Upcoming' = iFirst
  BY <1>1 DEF Upcoming
<1>5. Before(Upcoming)' = {}
  BY <1>2, <1>3, <1>4
<1>6. stayed' \cap seen' = stayed' \cap Before(Upcoming)'
  BY <1>1, <1>5
<1>7. passing' /\ Upcoming' # NULL /\ Upcoming' \in Members' /\ stayed' \subseteq Members'
  BY <1>1, <1>2, <1>3, <1>4 DEF execute
<1> QED BY <1>6, <1>7 DEF WholePass

\* When the callback of a task returns, the pass has seen it.
LEMMA PassReturnPass ==
  ASSUME TypeOK, StackInv, WholePass, PassReturn
  PROVE  WholePass'
<1>1. stack' = <<>> /\ passing /\ stack # <<>>
  BY PassReturnStack DEF PassReturn
<1>2. /\ UNCHANGED <<chainVars, seen, stayed>>
      /\ Upcoming = nextTask /\ Upcoming' = nextTask /\ passing' = (nextTask # NULL)
  BY <1>1 DEF PassReturn, MoveOn, Upcoming
<1>3. Members' = Members /\ \A x : Before(x)' = Before(x)
  BY <1>2 DEF chainVars, Members, Before
<1>4. Before(Upcoming)' = Before(Upcoming)
  BY <1>2, <1>3
<1> QED BY <1>1, <1>2, <1>3, <1>4 DEF WholePass

\* Faults and stutters keep it.
LEMMA NoStepKeeps ==
  ASSUME PassInv, NoStep
  PROVE  PassInv'
<1>1. WholePass'
  BY DEF PassInv, NoStep, chainVars, WholePass, Upcoming, Members, Before
<1>2. StackInv' /\ NestInv'
  BY DEF PassInv, NoStep, StackInv, NestInv, Nested
<1> QED BY <1>1, <1>2 DEF PassInv

\* No pass is on at first.
LEMMA InitPass == Init => PassInv
<1> SUFFICES ASSUME Init PROVE PassInv
  OBVIOUS
<1>1. stack = <<>> /\ ~passing /\ stayed = {} /\ Len(stack) = 0 /\ DOMAIN stack = {}
  BY DEF Init
<1>2. WholePass
  BY <1>1 DEF WholePass
<1>3. StackInv /\ NestInv
  BY <1>1 DEF StackInv, NestInv, Nested
<1> QED BY <1>2, <1>3 DEF PassInv

\* With careful user code every state satisfies PassInv.
THEOREM PassInvariance == Careful /\ Spec => []PassInv
<1>1. Careful /\ TypeOK /\ ChainInv /\ PassInv /\ [Next]_vars => PassInv'
  <2> SUFFICES ASSUME Careful, TypeOK, ChainInv, PassInv, [Next]_vars
               PROVE  PassInv'
    OBVIOUS
  <2>1. CASE NoStep
    BY <2>1, NoStepKeeps
  <2>2. CASE UserStep
    BY <2>2, UserStepStack, UserStepNest, UserStepPass DEF PassInv
  <2>3. CASE PassStep
    BY <2>3, PassStepStack, PassStepPass DEF PassInv
  <2>4. CASE PassReturn
    BY <2>4, PassReturnStack, PassReturnPass DEF PassInv
  <2>5. CASE execute
    BY <2>5, PassStepStack, ExecutePass DEF PassInv
  <2>6. CASE Next
    <3>1. StackInv
      BY DEF PassInv
    <3> QED BY <2>1, <2>2, <2>3, <2>4, <2>5, <2>6, <3>1, PassSteps, ReturnsSteps,
               AllLoopSteps, UserSteps DEF Next
  <2>7. CASE UNCHANGED vars
    BY <2>1, <2>7 DEF vars, schedulerVars, historyVars, NoStep
  <2> QED BY <2>6, <2>7
<1>2. ASSUME Careful PROVE Spec => []PassInv
  <2>1. TypeOK /\ ChainInv /\ PassInv /\ [Next]_vars => PassInv'
    BY <1>1, <1>2
  <2> QED BY <2>1, InitPass, Invariance, PTL DEF Spec
<1> QED BY <1>2

\* A task that stays in the chain is looked at once in each pass, after those
\* before it, whatever the code that runs in the pass does to the chain.
THEOREM PassIsWhole == Careful /\ Spec => []WholePass
<1>1. PassInv => WholePass
  BY DEF PassInv
<1> QED BY <1>1, PassInvariance, PTL

\* User code finds its own task in iCurrent, whatever hooks have run in between.
THEOREM CurrentKept == Careful /\ Spec => []CurrentIsRunning
<1>1. TypeOK /\ PassInv => CurrentIsRunning
  <2> SUFFICES ASSUME TypeOK, PassInv, stack # <<>>, Top.fn \in UserCode
               PROVE  iCurrent = Top.task
    BY DEF CurrentIsRunning
  <2>1. Len(stack) \in 1 .. Len(stack) /\ Top = stack[Len(stack)]
        /\ \A i \in Len(stack) + 1 .. Len(stack) : FALSE
    BY DEF TypeOK, Top
  <2> QED BY <2>1 DEF PassInv, NestInv, Nested, IsUser
<1> QED BY <1>1, PassInvariance, TypeCorrect, PTL

-----------------------------------------------------------------------------
(***************************************************************************)
(* A task runs as often as it is set to.                                   *)
(***************************************************************************)
\* restart() of t waits for its OnEnable to return, and then sets the iterations.
Restarting(t, q) == \E k \in 1 .. Len(q) : q[k].fn = "OnEnable" /\ q[k].then = "restart" /\ q[k].task = t

CallbackFirst(q) == \A k \in 1 .. Len(q) : q[k].fn = "callback" => k = 1

\* What a task has run and what it has to go make what was set, whatever user
\* code does, but while a restart() is under way.
RunInv ==
  /\ CallbackFirst(stack)
  /\ \A t \in Tasks :
       IF Restarting(t, stack) THEN runs[t] = 0
       ELSE task[t].iIterations >= 0 => runs[t] + task[t].iIterations = task[t].iSetIterations

\* Two stacks with the same restarts
SameRestarts(p, q) == \A t \in Tasks : Restarting(t, p) <=> Restarting(t, q)

\* The ways a step may treat a task: its count stays; it begins again, now or when
\* its OnEnable returns; it counts a run; its OnEnable has returned.
LEMMA CountsKeep ==
  ASSUME TypeOK, RunInv, CallbackFirst(stack'),
         \A t \in Tasks :
           \/ /\ Restarting(t, stack') <=> Restarting(t, stack)
              /\ runs'[t] = runs[t]
              /\ task'[t].iIterations = task[t].iIterations /\ task'[t].iSetIterations = task[t].iSetIterations
           \/ runs'[t] = 0 /\ (Restarting(t, stack') \/ task'[t].iIterations = task'[t].iSetIterations)
           \/ /\ ~Restarting(t, stack')
              /\ task'[t].iIterations >= 0 => runs'[t] + task'[t].iIterations = task'[t].iSetIterations
           \/ /\ Restarting(t, stack) /\ runs'[t] = runs[t]
              /\ Restarting(t, stack') \/ task'[t].iIterations = task'[t].iSetIterations,
         \A t \in Tasks : task'[t].iIterations \in Int /\ task'[t].iSetIterations \in Int
  PROVE  RunInv'
<1> SUFFICES ASSUME NEW t \in Tasks
             PROVE  IF Restarting(t, stack') THEN runs'[t] = 0
                    ELSE task'[t].iIterations >= 0 => runs'[t] + task'[t].iIterations = task'[t].iSetIterations
  BY DEF RunInv
<1>1. /\ IF Restarting(t, stack) THEN runs[t] = 0
         ELSE task[t].iIterations >= 0 => runs[t] + task[t].iIterations = task[t].iSetIterations
      /\ task'[t].iIterations \in Int /\ task'[t].iSetIterations \in Int
  BY DEF RunInv
<1> QED BY <1>1

\* Pushing a frame,
LEMMA RestartsPushed ==
  ASSUME NEW q \in Seq(Frame), NEW f \in Frame
  PROVE  /\ f.fn # "callback" /\ CallbackFirst(q) => CallbackFirst(Append(q, f))
         /\ \A t \in Tasks : Restarting(t, Append(q, f)) <=>
               Restarting(t, q) \/ (f.fn = "OnEnable" /\ f.then = "restart" /\ f.task = t)
<1>1. /\ Len(q) \in Nat /\ Len(Append(q, f)) = Len(q) + 1 /\ Append(q, f)[Len(q) + 1] = f
      /\ \A k \in 1 .. Len(q) : Append(q, f)[k] = q[k]
      /\ \A k \in 1 .. Len(q) + 1 : k \in 1 .. Len(q) \/ k = Len(q) + 1
      /\ Len(q) + 1 \in 1 .. Len(q) + 1 /\ \A k \in 1 .. Len(q) : k \in 1 .. Len(q) + 1
  OBVIOUS
<1>2. f.fn # "callback" /\ CallbackFirst(q) => CallbackFirst(Append(q, f))
  BY <1>1 DEF CallbackFirst
<1>3. ASSUME NEW t \in Tasks
      PROVE  Restarting(t, Append(q, f)) <=>
               Restarting(t, q) \/ (f.fn = "OnEnable" /\ f.then = "restart" /\ f.task = t)
  BY <1>1 DEF Restarting
<1> QED BY <1>2, <1>3

\* popping it,
LEMMA RestartsPopped ==
  ASSUME TypeOK, stack # <<>>
  PROVE  /\ CallbackFirst(stack) => CallbackFirst(Below)
         /\ \A t \in Tasks : Restarting(t, stack) <=>
               Restarting(t, Below) \/ (Top.fn = "OnEnable" /\ Top.then = "restart" /\ Top.task = t)
<1>1. /\ Len(Below) = Len(stack) - 1 /\ Top = stack[Len(stack)]
      /\ \A k \in 1 .. Len(stack) - 1 : Below[k] = stack[k] /\ k \in 1 .. Len(stack)
      /\ \A k \in 1 .. Len(stack) : k \in 1 .. Len(stack) - 1 \/ k = Len(stack)
      /\ Len(stack) \in 1 .. Len(stack)
  BY Popped
<1>2. CallbackFirst(stack) => CallbackFirst(Below)
  BY <1>1 DEF CallbackFirst
<1>3. ASSUME NEW t \in Tasks
      PROVE  Restarting(t, stack) <=>
               Restarting(t, Below) \/ (Top.fn = "OnEnable" /\ Top.then = "restart" /\ Top.task = t)
  BY <1>1 DEF Restarting
<1> QED BY <1>2, <1>3

\* and changing where a loop has come to.
LEMMA RestartsAlike ==
  ASSUME TypeOK, NEW st, Alike(st)
  PROVE  /\ CallbackFirst(stack) => CallbackFirst(st)
         /\ SameRestarts(st, stack)
<1>1. /\ DOMAIN stack = 1 .. Len(stack) /\ Len(st) = Len(stack)
      /\ \A k \in 1 .. Len(stack) :
           st[k] = stack[k] \/ (st[k].fn \notin UserCode /\ stack[k].fn \notin UserCode)
  <2>1. stack \in Seq(Frame)
    BY DEF TypeOK
  <2> QED BY <2>1 DEF Alike
<1>2. \A x : x = "callback" \/ x = "OnEnable" => x \in UserCode
  BY DEF UserCode
<1>3. \A k \in 1 .. Len(stack) : st[k].fn \in {"callback", "OnEnable"} \/ stack[k].fn \in {"callback", "OnEnable"}
                               => st[k] = stack[k]
  BY <1>1, <1>2
<1>4. CallbackFirst(stack) => CallbackFirst(st)
  BY <1>1, <1>3 DEF CallbackFirst
<1>5. ASSUME NEW t \in Tasks PROVE Restarting(t, st) <=> Restarting(t, stack)
  BY <1>1, <1>3 DEF Restarting
<1> QED BY <1>4, <1>5 DEF SameRestarts

\* enable(): a restart, or iterations newly set, begin the count again.
LEMMA EnableCounts ==
  ASSUME TypeOK, RunInv, NEW t \in Tasks, NEW r \in Record, NEW then \in {"", "restart"},
         NEW st \in Seq(Frame), Alike(st), enable(t, r, then, st),
         \/ UNCHANGED runs /\ r = task[t] /\ then = ""
         \/ runs' = [runs EXCEPT ![t] = 0] /\ (then = "restart" \/ r.iIterations = r.iSetIterations)
  PROVE  RunInv'
<1>1. /\ runs \in [Tasks -> Int] /\ task \in [Tasks -> Record] /\ CallbackFirst(st)
      /\ SameRestarts(st, stack)
  BY RestartsAlike DEF TypeOK, RunInv
<1>2. CASE \E q \in Record : Enabled(t, q, then) /\ stack' = st
             /\ q.iIterations = r.iIterations /\ q.iSetIterations = r.iSetIterations
  <2>1. PICK q \in Record : Enabled(t, q, then) /\ stack' = st
             /\ q.iIterations = r.iIterations /\ q.iSetIterations = r.iSetIterations
    BY <1>2
  <2>2. \A u \in Tasks : u # t => task'[u] = task[u] /\ runs'[u] = runs[u]
    BY <1>1, <2>1 DEF Enabled
  <2>3. task'[t] = IF then = "restart" THEN [q EXCEPT !.iIterations = q.iSetIterations] ELSE q
    BY <1>1, <2>1 DEF Enabled
  <2>4. /\ task'[t].iSetIterations = q.iSetIterations
        /\ task'[t].iIterations = IF then = "restart" THEN q.iSetIterations ELSE q.iIterations
    BY <2>3 DEF Record
  <2>5. \A u \in Tasks : task'[u].iIterations \in Int /\ task'[u].iSetIterations \in Int
    BY <1>1, <2>2, <2>4 DEF Record
  <2>6. \A u \in Tasks :
           \/ /\ Restarting(u, stack') <=> Restarting(u, stack)
              /\ runs'[u] = runs[u]
              /\ task'[u].iIterations = task[u].iIterations /\ task'[u].iSetIterations = task[u].iSetIterations
           \/ runs'[u] = 0 /\ (Restarting(u, stack') \/ task'[u].iIterations = task'[u].iSetIterations)
    BY <1>1, <2>1, <2>2, <2>4 DEF SameRestarts
  <2> QED BY <1>1, <2>1, <2>5, <2>6, CountsKeep
<1>3. CASE stack' = Append(st, Hook("OnEnable", t, then))
           /\ task' = [task EXCEPT ![t] = [r EXCEPT !.inonenable = TRUE]]
  <2> DEFINE f == Hook("OnEnable", t, then)
  <2>1. f \in Frame /\ f.fn = "OnEnable" /\ f.then = then /\ f.task = t
    BY HookTyped DEF UserCode, Hook
  <2>2. stack' = Append(st, f)
    BY <1>3
  <2> HIDE DEF f
  <2>3. /\ CallbackFirst(stack')
        /\ \A u \in Tasks : Restarting(u, stack') <=> Restarting(u, st) \/ (then = "restart" /\ u = t)
    BY <1>1, <2>1, <2>2, RestartsPushed
  <2>4. \A u \in Tasks : u # t => task'[u] = task[u] /\ runs'[u] = runs[u]
    BY <1>1, <1>3
  <2>5. task'[t].iSetIterations = r.iSetIterations /\ task'[t].iIterations = r.iIterations
    BY <1>1, <1>3 DEF Record
  <2>6. \A u \in Tasks : task'[u].iIterations \in Int /\ task'[u].iSetIterations \in Int
    BY <1>1, <2>4, <2>5 DEF Record
  <2>7. \A u \in Tasks :
           \/ /\ Restarting(u, stack') <=> Restarting(u, stack)
              /\ runs'[u] = runs[u]
              /\ task'[u].iIterations = task[u].iIterations /\ task'[u].iSetIterations = task[u].iSetIterations
           \/ runs'[u] = 0 /\ (Restarting(u, stack') \/ task'[u].iIterations = task'[u].iSetIterations)
    BY <1>1, <2>3, <2>4, <2>5 DEF SameRestarts
  <2> QED BY <2>3, <2>6, <2>7, CountsKeep
<1>4. [r EXCEPT !.enabled = TRUE] \in Record
      /\ [r EXCEPT !.enabled = TRUE].iIterations = r.iIterations
      /\ [r EXCEPT !.enabled = TRUE].iSetIterations = r.iSetIterations
  BY DEF Record
<1> QED BY <1>2, <1>3, <1>4 DEF enable

\* A step that leaves the counts as they are, and pushes or pops no restart
LEMMA SameCounts ==
  ASSUME TypeOK, RunInv, UNCHANGED runs, CallbackFirst(stack'), SameRestarts(stack', stack),
         \A t \in Tasks : /\ task'[t].iIterations = task[t].iIterations
                          /\ task'[t].iSetIterations = task[t].iSetIterations
  PROVE  RunInv'
<1>1. \A t \in Tasks : task'[t].iIterations \in Int /\ task'[t].iSetIterations \in Int
  BY DEF TypeOK, Record
<1> QED BY <1>1, CountsKeep DEF SameRestarts

\* disable() does not change them.
LEMMA DisableCounts ==
  ASSUME TypeOK, RunInv, NEW t \in Tasks, NEW then \in {"", "execute", "destroy"},
         NEW st \in Seq(Frame), Alike(st), NEW n, disable(t, then, st, n)
  PROVE  RunInv'
<1>1. CallbackFirst(st) /\ SameRestarts(st, stack) /\ CallbackFirst(stack) /\ SameRestarts(stack, stack)
  BY RestartsAlike DEF RunInv, SameRestarts
<1>2. CASE Break
  BY <1>1, <1>2, SameCounts DEF Break, historyVars
<1>3. CASE ~Break
  <2>1. UNCHANGED runs /\ task' = [task EXCEPT ![t].enabled = FALSE, ![t].inonenable = FALSE]
    BY <1>3 DEF disable
  <2>2. \A u \in Tasks : /\ task'[u].iIterations = task[u].iIterations
                         /\ task'[u].iSetIterations = task[u].iSetIterations
    BY <2>1 DEF TypeOK, Record
  <2>3. CASE stack' = st
    BY <1>1, <2>1, <2>2, <2>3, SameCounts
  <2>4. CASE stack' = Append(st, Hook("OnDisable", t, then))
    <3> DEFINE f == Hook("OnDisable", t, then)
    <3>1. f \in Frame /\ f.fn = "OnDisable"
      BY HookTyped DEF UserCode, Hook
    <3>2. stack' = Append(st, f)
      BY <2>4
    <3> HIDE DEF f
    <3>3. CallbackFirst(stack') /\ SameRestarts(stack', stack)
      BY <1>1, <3>1, <3>2, RestartsPushed DEF SameRestarts
    <3> QED BY <2>1, <2>2, <3>3, SameCounts
  <2> QED BY <1>3, <2>3, <2>4 DEF disable
<1> QED BY <1>2, <1>3

\* A hook that has returned changes no count, but OnEnable called by restart().
LEMMA OnEnableReturnsCounts ==
  ASSUME TypeOK, RunInv, OnEnableReturns
  PROVE  RunInv'
<1>1. stack # <<>> /\ Top.fn = "OnEnable" /\ CallbackFirst(stack)
  BY DEF OnEnableReturns, RunInv
<1>2. Top \in Frame /\ Top.task \in Tasks
  BY <1>1, TopTyped DEF TypeOK, Frame
<1>3. CASE Break
  BY <1>1, <1>3, SameCounts DEF Break, historyVars, SameRestarts
<1>4. CASE ~Break
  <2>1. PICK b \in BOOLEAN :
          /\ Enabled(Top.task, [task[Top.task] EXCEPT !.enabled = b, !.inonenable = FALSE], Top.then)
          /\ stack' = Below /\ UNCHANGED runs
    BY <1>4 DEF OnEnableReturns, historyVars
  <2> DEFINE r == [task[Top.task] EXCEPT !.enabled = b, !.inonenable = FALSE]
  <2>2. /\ r \in Record /\ r.iIterations = task[Top.task].iIterations
        /\ r.iSetIterations = task[Top.task].iSetIterations
    <3>1. task[Top.task] \in Record
      BY <1>2 DEF TypeOK
    <3> QED BY <2>1, <3>1 DEF Record
  <2>3. task' = [task EXCEPT ![Top.task] =
                   IF Top.then = "restart" THEN [r EXCEPT !.iIterations = r.iSetIterations] ELSE r]
    BY <2>1 DEF Enabled
  <2> HIDE DEF r
  <2>4. task'[Top.task] = IF Top.then = "restart" THEN [r EXCEPT !.iIterations = r.iSetIterations] ELSE r
    BY <1>2, <2>3 DEF TypeOK
  <2>5. \A t \in Tasks : t # Top.task => task'[t] = task[t]
    BY <2>3 DEF TypeOK
  <2>6. /\ task'[Top.task].iSetIterations = task[Top.task].iSetIterations
        /\ task'[Top.task].iIterations = IF Top.then = "restart" THEN task[Top.task].iSetIterations
                                         ELSE task[Top.task].iIterations
    BY <2>2, <2>4 DEF Record
  <2>7. CallbackFirst(stack')
        /\ \A t \in Tasks : Restarting(t, stack) <=>
             Restarting(t, stack') \/ (Top.then = "restart" /\ Top.task = t)
    BY <1>1, <2>1, RestartsPopped
  <2>8. \A t \in Tasks : task[t].iIterations \in Int /\ task[t].iSetIterations \in Int
    BY DEF TypeOK, Record
  <2>9. \A t \in Tasks : task'[t].iIterations \in Int /\ task'[t].iSetIterations \in Int
    BY <1>2, <2>5, <2>6, <2>8
  <2>10. \A t \in Tasks :
           \/ /\ Restarting(t, stack') <=> Restarting(t, stack)
              /\ runs'[t] = runs[t]
              /\ task'[t].iIterations = task[t].iIterations /\ task'[t].iSetIterations = task[t].iSetIterations
           \/ /\ Restarting(t, stack) /\ runs'[t] = runs[t]
              /\ Restarting(t, stack') \/ task'[t].iIterations = task'[t].iSetIterations
    BY <2>1, <2>5, <2>6, <2>7
  <2> QED BY <2>7, <2>9, <2>10, CountsKeep
<1> QED BY <1>3, <1>4

\* The other user code that returns changes none.
LEMMA OtherReturnsCounts ==
  ASSUME TypeOK, RunInv, callbackReturns \/ OnDisableReturns
  PROVE  RunInv'
<1>1. stack # <<>> /\ Top.fn # "OnEnable" /\ CallbackFirst(stack)
  BY DEF callbackReturns, CallbackOver, OnDisableReturns, RunInv
<1>2. CASE Break
  BY <1>1, <1>2, SameCounts DEF Break, historyVars, SameRestarts
<1>3. CASE ~Break
  <2>1. UNCHANGED <<task, runs>> /\ stack' = Below
    BY <1>3 DEF callbackReturns, CallbackOver, OnDisableReturns, historyVars
  <2>2. CallbackFirst(stack') /\ SameRestarts(stack', stack)
    BY <1>1, <2>1, RestartsPopped DEF SameRestarts
  <2> QED BY <2>1, <2>2, SameCounts
<1> QED BY <1>2, <1>3

\* A run counts one and leaves one less, if the iterations are counted.
LEMMA RunCounts ==
  ASSUME TypeOK, RunInv, Run
  PROVE  RunInv'
<1>1. iCurrent \in Tasks /\ stack = <<>>
  BY DEF Run, Looking, Considered, TypeOK
<1> DEFINE f == Hook("callback", iCurrent, "")
<1>2. f \in Frame /\ f.fn = "callback" /\ stack' = <<f>>
  BY <1>1, HookTyped DEF UserCode, Hook, Run
<1> HIDE DEF f
<1>3. Len(stack') = 1 /\ stack'[1] = f /\ 1 .. 1 = {1}
  BY <1>2
<1>4. CallbackFirst(stack') /\ \A t \in Tasks : ~Restarting(t, stack')
  BY <1>2, <1>3 DEF CallbackFirst, Restarting
<1>5. Len(stack) = 0 /\ \A t \in Tasks : ~Restarting(t, stack)
  BY <1>1 DEF Restarting
<1>6. \A t \in Tasks : t # iCurrent => task'[t] = task[t] /\ runs'[t] = runs[t]
  BY DEF Run, TypeOK
<1>7. /\ task[iCurrent] \in Record /\ runs[iCurrent] \in Int
      /\ runs'[iCurrent] = IF task[iCurrent].iIterations > 0 THEN runs[iCurrent] + 1 ELSE runs[iCurrent]
  BY <1>1 DEF Run, TypeOK
<1>8. task'[iCurrent] = [task[iCurrent] EXCEPT !.waiting = "no",
                                                !.iIterations = IF @ > 0 THEN @ - 1 ELSE @]
  BY <1>1 DEF Run, TypeOK
<1>9. /\ task'[iCurrent].iSetIterations = task[iCurrent].iSetIterations
      /\ task'[iCurrent].iIterations = IF task[iCurrent].iIterations > 0 THEN task[iCurrent].iIterations - 1
                                       ELSE task[iCurrent].iIterations
  BY <1>7, <1>8 DEF Record
<1>10. \A t \in Tasks : task[t].iIterations \in Int /\ task[t].iSetIterations \in Int
  BY DEF TypeOK, Record
<1>11. \A t \in Tasks : task'[t].iIterations \in Int /\ task'[t].iSetIterations \in Int
  BY <1>1, <1>6, <1>9, <1>10
<1>12. task[iCurrent].iIterations >= 0 => runs[iCurrent] + task[iCurrent].iIterations = task[iCurrent].iSetIterations
  BY <1>1, <1>5 DEF RunInv
<1>13. task'[iCurrent].iIterations >= 0 => runs'[iCurrent] + task'[iCurrent].iIterations = task'[iCurrent].iSetIterations
  BY <1>1, <1>7, <1>9, <1>10, <1>12
<1>14. \A t \in Tasks :
           \/ /\ Restarting(t, stack') <=> Restarting(t, stack)
              /\ runs'[t] = runs[t]
              /\ task'[t].iIterations = task[t].iIterations /\ task'[t].iSetIterations = task[t].iSetIterations
           \/ /\ ~Restarting(t, stack')
              /\ task'[t].iIterations >= 0 => runs'[t] + task'[t].iIterations = task'[t].iSetIterations
  BY <1>4, <1>5, <1>6, <1>13
<1> QED BY <1>4, <1>11, <1>14, CountsKeep

\* The pass counts nothing else.
LEMMA PassCounts ==
  ASSUME TypeOK, RunInv, Pass
  PROVE  RunInv'
<1>0. CallbackFirst(stack) /\ SameRestarts(stack, stack)
  BY DEF RunInv, SameRestarts
<1>1. CASE execute
  BY <1>0, <1>1, SameCounts DEF execute
<1>2. CASE Dangling
  BY <1>0, <1>2, SameCounts DEF Dangling, Break, historyVars
<1>3. CASE PassBy
  <2>1. \A t \in Tasks : /\ task'[t].iIterations = task[t].iIterations
                         /\ task'[t].iSetIterations = task[t].iSetIterations
    <3>1. CASE UNCHANGED task
      BY <3>1
    <3>2. CASE task' = [task EXCEPT ![iCurrent].waiting = "no"]
      BY <3>2 DEF TypeOK, Record
    <3> QED BY <1>3, <3>1, <3>2 DEF PassBy
  <2> QED BY <1>0, <1>3, <2>1, SameCounts DEF PassBy
<1>4. CASE LastOrTimeout
  <2>1. iCurrent \in Tasks /\ stack \in Seq(Frame) /\ Alike(stack)
    BY <1>4, AlikeSelf DEF LastOrTimeout, TypeOK
  <2> QED BY <1>4, <2>1, DisableCounts DEF LastOrTimeout
<1>5. CASE Run
  BY <1>5, RunCounts
<1> QED BY <1>1, <1>2, <1>3, <1>4, <1>5 DEF Pass

\* Neither do the loops.
LEMMA AllLoopCounts ==
  ASSUME TypeOK, RunInv, AllLoop
  PROVE  RunInv'
<1> DEFINE called == [stack EXCEPT ![Len(stack)].then = "next"]
           next == [stack EXCEPT ![Len(stack)].task = iNext[Top.task], ![Len(stack)].then = ""]
<1>0. stack \in Seq(Frame) /\ stack # <<>> /\ CallbackFirst(stack) /\ SameRestarts(stack, stack)
      /\ Top.fn # "OnEnable"
  BY DEF TypeOK, AllLoop, RunInv, SameRestarts
<1>1. /\ Alike(called) /\ called \in Seq(Frame)
      /\ Top.task # NULL => Top.task \in Tasks
      /\ Top.task # NULL => Alike(next)
  BY LoopAlike
<1> HIDE DEF called, next
<1>2. CASE stack' = Below
           /\ UNCHANGED <<chainVars, existing, task, iCount, iCurrent, passing, nextTask, broken, historyVars>>
  <2>1. CallbackFirst(stack') /\ SameRestarts(stack', stack)
    BY <1>0, <1>2, RestartsPopped DEF SameRestarts
  <2> QED BY <1>2, <2>1, SameCounts DEF historyVars
<1>3. CASE Top.task # NULL /\ disable(Top.task, "", called, NULL)
  BY <1>1, <1>3, DisableCounts
<1>4. CASE Top.task # NULL /\ enable(Top.task, task[Top.task], "", called) /\ UNCHANGED runs
  <2>1. task[Top.task] \in Record
    BY <1>1, <1>4 DEF TypeOK
  <2> QED BY <1>1, <1>4, <2>1, EnableCounts
<1>5. CASE Break
  BY <1>0, <1>5, SameCounts DEF Break, historyVars
<1>6. CASE Top.task # NULL /\ stack' = next
           /\ UNCHANGED <<chainVars, existing, task, iCount, iCurrent, passing, nextTask, broken, historyVars>>
  <2>1. CallbackFirst(stack') /\ SameRestarts(stack', stack)
    BY <1>0, <1>1, <1>6, RestartsAlike
  <2> QED BY <1>6, <2>1, SameCounts DEF historyVars
<1> QED BY <1>2, <1>3, <1>4, <1>5, <1>6 DEF AllLoop, called, next

\* What user code calls begins a count again, or leaves it.
LEMMA UserCounts ==
  ASSUME TypeOK, RunInv, User
  PROVE  RunInv'
<1>0. /\ stack \in Seq(Frame) /\ existing \subseteq Tasks /\ Alike(stack)
      /\ CallbackFirst(stack) /\ SameRestarts(stack, stack)
      /\ task \in [Tasks -> Record] /\ runs \in [Tasks -> Int]
  BY AlikeSelf DEF TypeOK, RunInv, SameRestarts
<1>1. \A t \in Tasks : task[t].iIterations \in Int /\ task[t].iSetIterations \in Int
  BY <1>0 DEF Record
<1>2. Iterations \subseteq Int
  BY SchedulerAssumption
\* The running callback of t changes what t has run: there is no restart to come.
<1>3. ASSUME stack # <<>>, Top.fn = "callback" PROVE \A t \in Tasks : ~Restarting(t, stack)
  <2>1. Len(stack) \in 1 .. Len(stack) /\ Top = stack[Len(stack)]
    BY <1>0, <1>3 DEF Top
  <2>2. Len(stack) = 1
    BY <1>0, <1>3, <2>1 DEF CallbackFirst
  <2>3. 1 .. 1 = {1}
    OBVIOUS
  <2>4. \A k \in 1 .. Len(stack) : stack[k].fn = "callback"
    BY <1>3, <2>1, <2>2, <2>3
  <2> QED BY <2>4 DEF Restarting
<1>4. ASSUME NEW t \in Tasks, UNCHANGED stack,
             \A u \in Tasks : u # t => task'[u] = task[u] /\ runs'[u] = runs[u],
             task'[t].iIterations \in Int, task'[t].iSetIterations \in Int,
             \/ runs'[t] = 0 /\ task'[t].iIterations = task'[t].iSetIterations
             \/ /\ ~Restarting(t, stack)
                /\ task'[t].iIterations >= 0 => runs'[t] + task'[t].iIterations = task'[t].iSetIterations
      PROVE  RunInv'
  BY <1>0, <1>1, <1>4, CountsKeep DEF SameRestarts
<1>5. CASE CallEnable
  <2>1. PICK t \in existing : enable(t, task[t], "", stack)
    BY <1>5 DEF CallEnable
  <2> QED BY <1>0, <1>5, <2>1, EnableCounts DEF CallEnable
<1>6. CASE CallRestart
  <2>1. PICK t \in existing : enable(t, task[t], "restart", stack) /\ runs' = [runs EXCEPT ![t] = 0]
    BY <1>6 DEF CallRestart
  <2> QED BY <1>0, <2>1, EnableCounts
<1>7. CASE CallDisable
  BY <1>0, <1>7, DisableCounts DEF CallDisable
<1>8. CASE setIterations
  <2>1. PICK t \in existing, n \in Iterations :
          /\ task' = [task EXCEPT ![t].iIterations = n, ![t].iSetIterations = n]
          /\ runs' = [runs EXCEPT ![t] = 0]
    BY <1>8 DEF setIterations
  <2>2. task'[t].iIterations = n /\ task'[t].iSetIterations = n /\ runs'[t] = 0
    BY <1>0, <2>1 DEF Record
  <2>3. \A u \in Tasks : u # t => task'[u] = task[u] /\ runs'[u] = runs[u]
    BY <1>0, <2>1
  <2> QED BY <1>0, <1>2, <1>4, <1>8, <2>2, <2>3 DEF setIterations
<1>9. CASE yield
  <2> DEFINE t == Top.task
  <2>1. /\ t \in Tasks /\ ~Restarting(t, stack) /\ UNCHANGED stack
        /\ task' = [task EXCEPT ![t].iIterations = IF @ >= 0 THEN @ + 1 ELSE @]
        /\ runs' = [runs EXCEPT ![t] = IF task[t].iIterations >= 0 THEN @ - 1 ELSE @]
    BY <1>0, <1>3, <1>9 DEF yield
  <2> HIDE DEF t
  <2>2. /\ task'[t].iSetIterations = task[t].iSetIterations
        /\ task'[t].iIterations = IF task[t].iIterations >= 0 THEN task[t].iIterations + 1
                                  ELSE task[t].iIterations
    BY <1>0, <2>1 DEF Record
  <2>3. runs'[t] = (IF task[t].iIterations >= 0 THEN runs[t] - 1 ELSE runs[t]) /\ runs[t] \in Int
    BY <1>0, <2>1
  <2>4. \A u \in Tasks : u # t => task'[u] = task[u] /\ runs'[u] = runs[u]
    BY <1>0, <2>1
  <2>5. task[t].iIterations >= 0 => runs[t] + task[t].iIterations = task[t].iSetIterations
    BY <2>1 DEF RunInv
  <2>6. task'[t].iIterations >= 0 => runs'[t] + task'[t].iIterations = task'[t].iSetIterations
    BY <1>1, <2>1, <2>2, <2>3, <2>5
  <2>7. task'[t].iIterations \in Int /\ task'[t].iSetIterations \in Int
    BY <1>1, <2>1, <2>2
  <2> QED BY <1>4, <2>1, <2>4, <2>6, <2>7
<1>10. CASE yieldOnce
  <2> DEFINE t == Top.task
  <2>1. /\ t \in Tasks /\ ~Restarting(t, stack) /\ UNCHANGED stack
        /\ task' = [task EXCEPT ![t].iIterations = 1]
        /\ runs' = [runs EXCEPT ![t] = task[t].iSetIterations - 1]
    BY <1>0, <1>3, <1>10 DEF yieldOnce
  <2> HIDE DEF t
  <2>2. /\ task'[t].iSetIterations = task[t].iSetIterations /\ task'[t].iIterations = 1
        /\ runs'[t] = task[t].iSetIterations - 1
    BY <1>0, <2>1 DEF Record
  <2>3. \A u \in Tasks : u # t => task'[u] = task[u] /\ runs'[u] = runs[u]
    BY <1>0, <2>1
  <2>4. runs'[t] + task'[t].iIterations = task'[t].iSetIterations
    BY <1>1, <2>1, <2>2
  <2>5. task'[t].iIterations \in Int /\ task'[t].iSetIterations \in Int
    BY <1>1, <2>1, <2>2
  <2> QED BY <1>4, <2>1, <2>3, <2>4, <2>5
<1>11. CASE CallAddTask \/ CallDeleteTask \/ setWaiting \/ signal \/ startNow
  BY <1>0, <1>11, SameCounts DEF CallAddTask, CallDeleteTask, setWaiting, signal, startNow,
                                 schedulerVars, historyVars
<1>12. CASE Construct
  <2>1. PICK t \in Tasks, n \in Iterations :
          task' = [task EXCEPT ![t] = Fresh(n)] /\ runs' = [runs EXCEPT ![t] = 0]
    BY <1>12 DEF Construct
  <2>2. task'[t].iIterations = n /\ task'[t].iSetIterations = n /\ runs'[t] = 0
    BY <1>0, <2>1 DEF Fresh
  <2>3. \A u \in Tasks : u # t => task'[u] = task[u] /\ runs'[u] = runs[u]
    BY <1>0, <2>1
  <2> QED BY <1>2, <1>4, <1>12, <2>2, <2>3 DEF Construct
<1>13. CASE Destroy
  BY <1>0, <1>13, DisableCounts DEF Destroy
<1>14. CASE waitFor
  <2>1. PICK t \in existing :
          \/ \E n \in Iterations, w \in {"nodelay", "delay"}, r \in Requests \cup (existing \ {t}) :
               /\ enable(t, [task[t] EXCEPT !.iStatusRequest = r, !.iIterations = n,
                                            !.iSetIterations = n, !.waiting = w], "", stack)
               /\ runs' = [runs EXCEPT ![t] = 0]
          \/ /\ task' = [task EXCEPT ![t].iStatusRequest = NULL]
             /\ UNCHANGED <<chainVars, existing, iCount, iCurrent, passing, nextTask, stack, broken, historyVars>>
    BY <1>14 DEF waitFor
  <2>2. ASSUME NEW n \in Iterations, NEW w \in {"nodelay", "delay"}, NEW r \in Requests \cup (existing \ {t}),
               enable(t, [task[t] EXCEPT !.iStatusRequest = r, !.iIterations = n,
                                         !.iSetIterations = n, !.waiting = w], "", stack),
               runs' = [runs EXCEPT ![t] = 0]
        PROVE  RunInv'
    <3> DEFINE q == [task[t] EXCEPT !.iStatusRequest = r, !.iIterations = n,
                                    !.iSetIterations = n, !.waiting = w]
    <3>1. q \in Record /\ q.iIterations = n /\ q.iSetIterations = n
      <4>1. task[t] \in Record /\ n \in Int /\ r \in Requests \cup Link
        BY <1>0, <1>2, <2>2 DEF Link
      <4> QED BY <2>2, <4>1 DEF Record
    <3>2. enable(t, q, "", stack)
      BY <2>2
    <3> HIDE DEF q
    <3> QED BY <1>0, <2>2, <3>1, <3>2, EnableCounts
  <2>3. CASE /\ task' = [task EXCEPT ![t].iStatusRequest = NULL]
             /\ UNCHANGED <<chainVars, existing, iCount, iCurrent, passing, nextTask, stack, broken, historyVars>>
    <3>1. \A u \in Tasks : /\ task'[u].iIterations = task[u].iIterations
                           /\ task'[u].iSetIterations = task[u].iSetIterations
      BY <1>0, <2>3 DEF Record
    <3> QED BY <1>0, <2>3, <3>1, SameCounts DEF historyVars
  <2> QED BY <2>1, <2>2, <2>3
<1>15. CASE CallAll
  <2>1. PICK fn \in {"disableAll", "enableAll"} :
          stack' = Append(stack, [fn |-> fn, task |-> iFirst, current |-> NULL, then |-> ""])
    BY <1>15 DEF CallAll
  <2> DEFINE f == [fn |-> fn, task |-> iFirst, current |-> NULL, then |-> ""]
  <2>2. f \in Frame /\ f.fn # "callback" /\ f.fn # "OnEnable"
    BY DEF Frame, UserCode, TypeOK, ChainTypeOK
  <2>3. stack' = Append(stack, f)
    BY <2>1
  <2> HIDE DEF f
  <2>4. CallbackFirst(stack') /\ SameRestarts(stack', stack)
    BY <1>0, <2>2, <2>3, RestartsPushed DEF SameRestarts
  <2> QED BY <1>15, <2>4, SameCounts DEF CallAll, historyVars
<1> QED
  BY <1>5, <1>6, <1>7, <1>8, <1>9, <1>10, <1>11, <1>12, <1>13, <1>14, <1>15 DEF User

\* At first nothing has run and all of it is to go.
LEMMA InitCounts == Init => RunInv
<1> SUFFICES ASSUME Init PROVE RunInv
  OBVIOUS
<1>1. Len(stack) = 0
  BY DEF Init
<1>2. ASSUME NEW t \in Tasks PROVE runs[t] + task[t].iIterations = task[t].iSetIterations
  <2>1. PICK n \in Iterations : task[t] = Fresh(n)
    BY DEF Init
  <2>2. n \in Int
    BY SchedulerAssumption
  <2> QED BY <2>1, <2>2 DEF Init, Fresh
<1> QED BY <1>1, <1>2 DEF RunInv, CallbackFirst, Restarting

\* A task that is disabled on its last iteration has run as often as it was set to,
\* whatever yields and restarts user code has made, in callbacks or in hooks.
THEOREM RunsAreAsSet == Spec => []RunsAsSet
<1>1. TypeOK /\ RunInv /\ [Next]_vars => RunInv'
  <2> SUFFICES ASSUME TypeOK, RunInv, [Next]_vars PROVE RunInv'
    OBVIOUS
  <2>1. CASE Next
    BY <2>1, PassCounts, OnEnableReturnsCounts, OtherReturnsCounts, AllLoopCounts, UserCounts
    DEF Next, Returns
  <2>2. CASE UNCHANGED vars
    <3>1. CallbackFirst(stack') /\ SameRestarts(stack', stack)
      BY <2>2 DEF RunInv, SameRestarts, vars, schedulerVars
    <3> QED BY <2>2, <3>1, SameCounts DEF vars, schedulerVars, historyVars
  <2> QED BY <2>1, <2>2
<1>2. TypeOK /\ RunInv => RunsAsSet
  <2> SUFFICES ASSUME TypeOK, RunInv, Looking, iCurrent \in existing, task[iCurrent].iIterations = 0
               PROVE  runs[iCurrent] = task[iCurrent].iSetIterations
    BY DEF RunsAsSet
  <2>1. Len(stack) = 0 /\ iCurrent \in Tasks /\ runs[iCurrent] \in Int
    BY DEF Looking, TypeOK
  <2>2. runs[iCurrent] + task[iCurrent].iIterations = task[iCurrent].iSetIterations
    BY <2>1 DEF RunInv, Restarting
  <2> QED BY <2>1, <2>2
<1> QED BY <1>1, <1>2, InitCounts, Invariance, PTL DEF Spec

-----------------------------------------------------------------------------
(***************************************************************************)
(* No pointer to nothing is followed.                                      *)
(***************************************************************************)
\* What user code has to keep to: a task is not deleted from the chain while it is
\* enabled, nor from within its own hooks, and no task is destroyed, or forgets its
\* StatusRequest, in a program where tasks wait.
Prudent ==
  /\ Careful
  /\ "deleteInHook" \notin Liberties /\ "deleteEnabled" \notin Liberties
  /\ "waitFor" \in Calls => "delete" \notin Calls /\ "waitForNull" \notin Liberties

Hooks == {"OnEnable", "OnDisable"}

\* A task whose hook has not returned is in the chain, which holds M.
HooksIn(q, M) == \A k \in 1 .. Len(q) : q[k].fn \in Hooks => q[k].task \in M

\* What is being destroyed has no other hook that has to return after that.
Destroys(q) ==
  /\ \A k \in 1 .. Len(q) : q[k].then = "destroy" => "delete" \in Calls
  /\ \A i, k \in 1 .. Len(q) : i < k /\ q[k].then = "destroy" /\ q[i].fn \in Hooks => q[i].task # q[k].task

\* A loop with g above it waits for the hook of the task it has come to,
LoopBelow(f, g) == f.then = "next" /\ g.fn \in Hooks /\ g.task = f.task /\ g.then = ""
\* and at the top it is at a task of the chain, or at one to go on from.
LoopAtTop(f, M, E) == IF f.then = "" THEN f.task \in M \cup {NULL} ELSE f.task \in E

LoopsIn(q, M, E) ==
  \A k \in 1 .. Len(q) : ~IsUser(q[k]) =>
    \/ k = Len(q) /\ LoopAtTop(q[k], M, E)
    \/ k + 1 \in 1 .. Len(q) /\ LoopBelow(q[k], q[k + 1])

Safe(q, M, E) == HooksIn(q, M) /\ Destroys(q) /\ LoopsIn(q, M, E)

\* A task of the chain exists, a task that is enabled is in the chain, and the
\* StatusRequest of a task that waits is there.
TasksSafe ==
  /\ Members \subseteq existing
  /\ \A t \in existing :
       /\ task[t].enabled => t \in Members
       /\ task[t].waiting # "no" =>
            "waitFor" \in Calls /\ task[t].iStatusRequest \in Requests \cup existing

FaultInv == NoFault /\ Safe(stack, Members, existing) /\ TasksSafe

\* User code is at the top, or nothing.
UserTop(q) == q = <<>> \/ IsUser(q[Len(q)])

\* The chain loses tasks without a hook on the stack.
LEMMA SafeStay ==
  ASSUME NEW q \in Seq(Frame), UserTop(q), NEW M, NEW E, NEW N, NEW D, Safe(q, M, E),
         \A k \in 1 .. Len(q) : q[k].fn \in Hooks /\ q[k].task \in M => q[k].task \in N
  PROVE  Safe(q, N, D)
<1>1. HooksIn(q, N) /\ Destroys(q)
  BY DEF Safe, HooksIn
<1>2. \A k \in 1 .. Len(q) : ~IsUser(q[k]) => k # Len(q)
  BY DEF UserTop
<1>3. LoopsIn(q, N, D)
  BY <1>2 DEF Safe, LoopsIn
<1> QED BY <1>1, <1>3 DEF Safe

\* The places of a stack that grows
LEMMA PushPlaces ==
  ASSUME NEW q \in Seq(Frame), NEW f \in Frame
  PROVE  /\ Len(q) \in Nat /\ Len(Append(q, f)) = Len(q) + 1 /\ Append(q, f)[Len(q) + 1] = f
         /\ \A k \in 1 .. Len(q) : Append(q, f)[k] = q[k] /\ k \in 1 .. Len(q) + 1
         /\ \A k \in 1 .. Len(q) + 1 : k \in 1 .. Len(q) \/ k = Len(q) + 1
OBVIOUS

\* A frame is pushed on st: a hook of a task of the chain, or a loop.
LEMMA SafePush ==
  ASSUME NEW q \in Seq(Frame), NEW f \in Frame, NEW M, NEW E, HooksIn(q, M), Destroys(q),
         \A k \in 1 .. Len(q) : ~IsUser(q[k]) =>
           \/ k = Len(q) /\ LoopBelow(q[k], f)
           \/ k + 1 \in 1 .. Len(q) /\ LoopBelow(q[k], q[k + 1]),
         f.fn \in Hooks => f.task \in M,
         f.then = "destroy" =>
           "delete" \in Calls /\ \A k \in 1 .. Len(q) : q[k].fn \in Hooks => q[k].task # f.task,
         ~IsUser(f) => LoopAtTop(f, M, E)
  PROVE  Safe(Append(q, f), M, E)
<1> DEFINE L == Len(q)
           p == Append(q, f)
<1>1. /\ Len(p) = L + 1 /\ p[L + 1] = f /\ L \in Nat
      /\ \A k \in 1 .. L : p[k] = q[k] /\ k \in 1 .. L + 1
      /\ \A k \in 1 .. L + 1 : k \in 1 .. L \/ k = L + 1
  BY PushPlaces
<1>2. L + 1 \in 1 .. L + 1 /\ \A k \in 1 .. L : k + 1 \in 1 .. L + 1
  BY <1>1
<1>3. \A k \in 1 .. L : ~(L + 1 < k)
  BY <1>1
<1>4. ~(L + 1 < L + 1)
  BY <1>1
<1> HIDE DEF p, L
<1>5. HooksIn(p, M)
  BY <1>1 DEF HooksIn, L
<1>6. Destroys(p)
  <2>1. \A k \in 1 .. L + 1 : p[k].then = "destroy" => "delete" \in Calls
    BY <1>1 DEF Destroys, L
  <2>2. ASSUME NEW i \in 1 .. L + 1, NEW k \in 1 .. L + 1,
               i < k, p[k].then = "destroy", p[i].fn \in Hooks
        PROVE  p[i].task # p[k].task
    <3>1. CASE k \in 1 .. L
      <4>1. i \in 1 .. L
        BY <1>1, <1>3, <2>2, <3>1
      <4> QED BY <1>1, <2>2, <3>1, <4>1 DEF Destroys, L
    <3>2. CASE k = L + 1
      <4>1. i \in 1 .. L
        BY <1>1, <1>4, <2>2, <3>2
      <4> QED BY <1>1, <2>2, <3>2, <4>1 DEF L
    <3> QED BY <1>1, <3>1, <3>2
  <2> QED BY <1>1, <2>1, <2>2 DEF Destroys
<1>7. LoopsIn(p, M, E)
  <2>1. ASSUME NEW k \in 1 .. L, ~IsUser(p[k])
        PROVE  k + 1 \in 1 .. L + 1 /\ LoopBelow(p[k], p[k + 1])
    BY <1>1, <1>2, <2>1 DEF L
  <2>2. ~IsUser(p[L + 1]) => LoopAtTop(p[L + 1], M, E)
    BY <1>1
  <2> QED BY <1>1, <2>1, <2>2 DEF LoopsIn
<1> QED BY <1>5, <1>6, <1>7 DEF Safe, p

\* and of one that shrinks.
LEMMA PopPlaces ==
  ASSUME NEW m \in Nat, NEW k \in 1 .. m - 1
  PROVE  k # m /\ (k + 1 \in 1 .. m - 1 \/ (k + 1 = m /\ k = m - 1))
<1>1. k \in Int /\ 1 <= k /\ k <= m - 1
  OBVIOUS
<1>2. k # m /\ 1 <= k + 1
  BY <1>1
<1>3. k + 1 <= m - 1 \/ k + 1 = m
  BY <1>1
<1>4. k + 1 <= m - 1 => k + 1 \in 1 .. m - 1
  BY <1>1
<1> QED BY <1>1, <1>2, <1>3, <1>4

\* The top frame is popped.
LEMMA SafePop ==
  ASSUME TypeOK, stack # <<>>, NEW M, NEW E, NEW N, NEW D, Safe(stack, M, E),
         \A k \in 1 .. Len(stack) - 1 : stack[k].fn \in Hooks /\ stack[k].task \in M => stack[k].task \in N,
         Top.fn \in Hooks /\ Top.then = "" => Top.task \in D
  PROVE  Safe(Below, N, D)
<1> DEFINE L == Len(stack)
<1>1. /\ L \in Nat \ {0} /\ Len(Below) = L - 1 /\ Top = stack[L]
      /\ \A k \in 1 .. L - 1 : Below[k] = stack[k] /\ k \in 1 .. L
  BY Popped
<1>0. L \in Nat
  BY <1>1
<1> HIDE DEF L
<1>2. \A k \in 1 .. L - 1 : k # L /\ (k + 1 \in 1 .. L - 1 \/ (k + 1 = L /\ k = L - 1))
  BY <1>0, PopPlaces
<1>3. HooksIn(Below, N)
  BY <1>1 DEF Safe, HooksIn, L
<1>4. Destroys(Below)
  BY <1>1 DEF Safe, Destroys, L
<1>5. ASSUME NEW k \in 1 .. L - 1, ~IsUser(Below[k])
      PROVE  \/ k = L - 1 /\ LoopAtTop(Below[k], N, D)
             \/ k + 1 \in 1 .. L - 1 /\ LoopBelow(Below[k], Below[k + 1])
  <2>1. LoopBelow(stack[k], stack[k + 1])
    <3>1. k # L /\ k \in 1 .. L
      BY <1>1, <1>2
    <3> QED BY <1>1, <1>5, <3>1 DEF Safe, LoopsIn, L
  <2>2. CASE k + 1 = L /\ k = L - 1
    <3>1. Below[k].then = "next" /\ Below[k].task \in D
      BY <1>1, <2>1, <2>2 DEF LoopBelow
    <3> QED BY <2>2, <3>1 DEF LoopAtTop
  <2>3. CASE k + 1 \in 1 .. L - 1
    BY <1>1, <2>1, <2>3
  <2> QED BY <1>2, <2>2, <2>3
<1>6. LoopsIn(Below, N, D)
  BY <1>1, <1>5 DEF LoopsIn
<1> QED BY <1>3, <1>4, <1>6 DEF Safe

\* The loop at the top goes on.
LEMMA SafeTop ==
  ASSUME NEW q \in Seq(Frame), NEW p \in Seq(Frame), Len(p) = Len(q), q # <<>>, ~IsUser(q[Len(q)]), ~IsUser(p[Len(q)]),
         \A k \in 1 .. Len(q) : k # Len(q) => p[k] = q[k],
         NEW M, NEW E, Safe(q, M, E)
  PROVE  /\ HooksIn(p, M) /\ Destroys(p)
         /\ \A k \in 1 .. Len(q) : ~IsUser(p[k]) =>
              k = Len(q) \/ (k + 1 \in 1 .. Len(q) /\ LoopBelow(p[k], p[k + 1]))
         /\ LoopAtTop(p[Len(p)], M, E) => Safe(p, M, E)
<1> DEFINE L == Len(q)
<1>1. L \in 1 .. L /\ Len(p) = L /\ L \in Nat
  OBVIOUS
<1>2. \A k \in 1 .. L : q[k] \in Frame /\ p[k] \in Frame
  BY <1>1
<1>3. \A x \in Frame : ~IsUser(x) => x.fn \notin Hooks /\ x.then # "destroy"
  BY DEF Frame, IsUser, UserCode, Hooks
<1>4. \A k \in 1 .. L : k # L => p[k] = q[k]
  OBVIOUS
<1>5. q[L].fn \notin Hooks /\ p[L].fn \notin Hooks /\ p[L].then # "destroy"
  BY <1>1, <1>2, <1>3
<1> HIDE DEF L
<1>6. HooksIn(p, M)
  BY <1>1, <1>4, <1>5 DEF Safe, HooksIn, L
<1>7. Destroys(p)
  BY <1>1, <1>4, <1>5 DEF Safe, Destroys, L
<1>8. ASSUME NEW k \in 1 .. L, ~IsUser(p[k]), k # L
      PROVE  k + 1 \in 1 .. L /\ LoopBelow(p[k], p[k + 1])
  <2>1. p[k] = q[k] /\ k + 1 \in 1 .. L /\ LoopBelow(q[k], q[k + 1])
    BY <1>1, <1>4, <1>8 DEF Safe, LoopsIn, L
  <2>2. k + 1 # L
    BY <1>5, <2>1 DEF LoopBelow
  <2> QED BY <1>4, <2>1, <2>2
<1>9. LoopAtTop(p[Len(p)], M, E) => LoopsIn(p, M, E)
  BY <1>1, <1>8 DEF LoopsIn
<1> QED BY <1>6, <1>7, <1>8, <1>9 DEF Safe, L

\* A task has a scheduler when it is in the chain.
LEMMA Scheduled ==
  ASSUME ChainTypeOK, ChainInv
  PROVE  Members \subseteq Tasks /\ \A t \in Tasks : iScheduler[t] <=> t \in Members
BY DEF ChainTypeOK, ChainInv, Members

\* The chain as addTask and deleteTask leave it.
LEMMA ChainMembers ==
  ASSUME ChainTypeOK, ChainInv, ChainTypeOK', ChainInv', NEW t \in Tasks
  PROVE  /\ UNCHANGED chainVars => Members' = Members
         /\ addTask(t) => Members' = Members \cup {t}
         /\ deleteTask(t) => Members' = Members \ {t}
<1>1. /\ Members \subseteq Tasks /\ \A u \in Tasks : iScheduler[u] <=> u \in Members
      /\ Members' \subseteq Tasks /\ \A u \in Tasks : iScheduler'[u] <=> u \in Members'
  BY DEF ChainTypeOK, ChainInv, Members
<1>2. UNCHANGED chainVars => Members' = Members
  BY DEF chainVars, Members
<1>3. ASSUME addTask(t) PROVE Members' = Members \cup {t}
  <2>1. \A u \in Tasks : iScheduler'[u] <=> iScheduler[u] \/ u = t
    BY <1>3 DEF addTask, chainVars, ChainTypeOK
  <2> QED BY <1>1, <2>1
<1>4. ASSUME deleteTask(t) PROVE Members' = Members \ {t}
  <2>1. \A u \in Tasks : iScheduler'[u] <=> iScheduler[u] /\ u # t
    BY <1>4 DEF deleteTask, ChainTypeOK
  <2> QED BY <1>1, <2>1
<1> QED BY <1>2, <1>3, <1>4

\* enable() of a task that exists
LEMMA EnableSafe ==
  ASSUME TypeOK, ChainInv, TypeOK', ChainInv', NoFault, TasksSafe,
         NEW t \in existing, NEW r \in Record, NEW then \in {"", "restart"}, NEW st,
         r.enabled => t \in Members,
         r.waiting # "no" => "waitFor" \in Calls /\ r.iStatusRequest \in Requests \cup existing,
         enable(t, r, then, st)
  PROVE  /\ NoFault' /\ TasksSafe' /\ Members' = Members /\ existing' = existing
         /\ \/ stack' = st
            \/ t \in Members /\ stack' = Append(st, Hook("OnEnable", t, then))
<1>1. /\ t \in Tasks /\ existing \subseteq Tasks /\ UNCHANGED <<chainVars, existing, broken>>
      /\ task \in [Tasks -> Record] /\ task' \in [Tasks -> Record]
  BY DEF enable, TypeOK
<1>2. Members' = Members
  BY <1>1, ChainMembers DEF TypeOK
<1>3. \A u \in Tasks : iScheduler[u] <=> u \in Members
  BY Scheduled DEF TypeOK
<1>4. \A u \in Tasks : u # t => task'[u] = task[u]
  BY <1>1 DEF enable, Enabled
<1>5. /\ task'[t].waiting = r.waiting /\ task'[t].iStatusRequest = r.iStatusRequest
      /\ task'[t].enabled => r.enabled \/ iScheduler[t]
  <2>1. ASSUME NEW q \in Record, Enabled(t, q, then)
        PROVE  /\ task'[t].waiting = q.waiting /\ task'[t].iStatusRequest = q.iStatusRequest
               /\ task'[t].enabled = q.enabled
    <3>1. task'[t] = IF then = "restart" THEN [q EXCEPT !.iIterations = q.iSetIterations] ELSE q
      BY <1>1, <2>1 DEF Enabled
    <3> QED BY <2>1, <3>1 DEF Record
  <2>2. /\ [r EXCEPT !.enabled = TRUE] \in Record
        /\ [r EXCEPT !.enabled = TRUE].waiting = r.waiting
        /\ [r EXCEPT !.enabled = TRUE].iStatusRequest = r.iStatusRequest
    BY DEF Record
  <2>3. CASE ~iScheduler[t]
    BY <2>1, <2>3 DEF enable
  <2>4. CASE iScheduler[t] /\ Enabled(t, [r EXCEPT !.enabled = TRUE], then)
    BY <2>1, <2>2, <2>4
  <2>5. CASE iScheduler[t] /\ task' = [task EXCEPT ![t] = [r EXCEPT !.inonenable = TRUE]]
    <3>1. task'[t] = [r EXCEPT !.inonenable = TRUE]
      BY <1>1, <2>5
    <3> QED BY <2>5, <3>1 DEF Record
  <2> QED BY <2>3, <2>4, <2>5 DEF enable
<1>6. \A u \in existing : /\ task'[u].enabled => u \in Members
                          /\ task'[u].waiting # "no" =>
                               "waitFor" \in Calls /\ task'[u].iStatusRequest \in Requests \cup existing
  BY <1>1, <1>3, <1>4, <1>5 DEF TasksSafe
<1>7. TasksSafe'
  BY <1>1, <1>2, <1>6 DEF TasksSafe
<1>8. \/ stack' = st
      \/ t \in Members /\ stack' = Append(st, Hook("OnEnable", t, then))
  BY <1>1, <1>3 DEF enable
<1> QED BY <1>1, <1>2, <1>7, <1>8 DEF NoFault

\* What is left when a task is disabled, and perhaps destroyed
LEMMA DisabledSafe ==
  ASSUME TypeOK, ChainInv, TypeOK', ChainInv', Prudent, TasksSafe,
         NEW t \in existing, NEW then, NEW cur, NEW n,
         then = "destroy" => "delete" \in Calls, Disabled(t, then, cur, n),
         \A u \in Tasks : /\ task'[u].enabled => task[u].enabled
                          /\ task'[u].waiting = task[u].waiting
                          /\ task'[u].iStatusRequest = task[u].iStatusRequest
  PROVE  /\ TasksSafe'
         /\ IF then = "destroy" THEN Members' = Members \ {t} /\ existing' = existing \ {t}
            ELSE Members' = Members /\ existing' = existing
<1>1. t \in Tasks /\ existing \subseteq Tasks /\ ChainTypeOK /\ ChainTypeOK'
  BY DEF TypeOK
<1>2. CASE then = "destroy"
  <2>1. existing' = existing \ {t}
    BY <1>2 DEF Disabled
  <2>2. iScheduler[t] <=> t \in Members
    BY <1>1, Scheduled
  <2>3. Members' = Members \ {t}
    <3>1. CASE iScheduler[t]
      BY <1>1, <1>2, <3>1, ChainMembers DEF Disabled
    <3>2. CASE ~iScheduler[t]
      BY <1>1, <1>2, <2>2, <3>2, ChainMembers DEF Disabled
    <3> QED BY <3>1, <3>2
  <2>4. \A u \in existing : task[u].waiting = "no"
    BY <1>2 DEF TasksSafe, Prudent
  <2>5. \A u \in existing \ {t} : /\ task'[u].enabled => u \in Members \ {t}
                                  /\ task'[u].waiting = "no"
    BY <1>1, <2>4 DEF TasksSafe
  <2>6. TasksSafe'
    BY <2>1, <2>3, <2>5 DEF TasksSafe
  <2> QED BY <1>2, <2>1, <2>3, <2>6
<1>3. CASE then # "destroy"
  <2>1. Members' = Members /\ existing' = existing
    BY <1>1, <1>3, ChainMembers DEF Disabled
  <2>2. \A u \in existing : /\ task'[u].enabled => u \in Members
                            /\ task'[u].waiting # "no" =>
                                 "waitFor" \in Calls /\ task'[u].iStatusRequest \in Requests \cup existing
    BY <1>1 DEF TasksSafe
  <2>3. TasksSafe'
    BY <2>1, <2>2 DEF TasksSafe
  <2> QED BY <1>3, <2>1, <2>3
<1> QED BY <1>2, <1>3

\* disable() of a task that exists
LEMMA DisableSafe ==
  ASSUME TypeOK, ChainInv, TypeOK', ChainInv', Prudent, NoFault, TasksSafe,
         NEW t \in existing, NEW then, NEW n, NEW st,
         then = "destroy" => "delete" \in Calls, disable(t, then, st, n)
  PROVE  /\ NoFault' /\ TasksSafe'
         /\ \/ /\ stack' = st
               /\ IF then = "destroy" THEN Members' = Members \ {t} /\ existing' = existing \ {t}
                  ELSE Members' = Members /\ existing' = existing
            \/ /\ t \in Members /\ Members' = Members /\ existing' = existing
               /\ stack' = Append(st, Hook("OnDisable", t, then))
<1>1. t \in Tasks /\ existing \subseteq Tasks /\ ChainTypeOK /\ ChainTypeOK' /\ task \in [Tasks -> Record]
  BY DEF TypeOK
<1>2. \A u \in Tasks : iScheduler[u] <=> u \in Members
  BY <1>1, Scheduled
<1>3. task[t].enabled => iScheduler[t]
  BY <1>1, <1>2 DEF TasksSafe
<1>4. ASSUME task' = [task EXCEPT ![t].enabled = FALSE, ![t].inonenable = FALSE]
      PROVE  \A u \in Tasks : /\ task'[u].enabled => task[u].enabled
                              /\ task'[u].waiting = task[u].waiting
                              /\ task'[u].iStatusRequest = task[u].iStatusRequest
  BY <1>1, <1>4 DEF Record
<1>5. CASE /\ task' = [task EXCEPT ![t].enabled = FALSE, ![t].inonenable = FALSE]
           /\ Disabled(t, then, iCurrent, n) /\ stack' = st /\ UNCHANGED broken
  BY <1>4, <1>5, DisabledSafe DEF NoFault
<1>6. CASE /\ iScheduler[t]
           /\ task' = [task EXCEPT ![t].enabled = FALSE, ![t].inonenable = FALSE]
           /\ stack' = Append(st, Hook("OnDisable", t, then))
           /\ UNCHANGED <<chainVars, existing, broken>>
  <2>1. Members' = Members
    BY <1>1, <1>6, ChainMembers
  <2>2. \A u \in existing : /\ task'[u].enabled => u \in Members
                            /\ task'[u].waiting # "no" =>
                                 "waitFor" \in Calls /\ task'[u].iStatusRequest \in Requests \cup existing
    BY <1>1, <1>4, <1>6 DEF TasksSafe
  <2>3. TasksSafe'
    BY <1>6, <2>1, <2>2 DEF TasksSafe
  <2> QED BY <1>1, <1>2, <1>6, <2>1, <2>3 DEF NoFault
<1> QED BY <1>3, <1>5, <1>6 DEF disable

\* A step that changes no more of the tasks than what this allows
LEMMA FieldsSafe ==
  ASSUME TasksSafe, Members' = Members, existing' = existing,
         \A u \in existing :
           /\ task'[u].enabled => task[u].enabled \/ u \in Members
           /\ task'[u].waiting # "no" =>
                task'[u].waiting = task[u].waiting /\ task'[u].iStatusRequest = task[u].iStatusRequest
  PROVE  TasksSafe'
<1>1. \A u \in existing : /\ task'[u].enabled => u \in Members
                          /\ task'[u].waiting # "no" =>
                               "waitFor" \in Calls /\ task'[u].iStatusRequest \in Requests \cup existing
  BY DEF TasksSafe
<1> QED BY <1>1 DEF TasksSafe

\* Loops are below what user code calls.
LEMMA UserAbove ==
  ASSUME TypeOK, UserTop(stack), NEW M, NEW E, Safe(stack, M, E)
  PROVE  \A k \in 1 .. Len(stack) : ~IsUser(stack[k]) =>
           k + 1 \in 1 .. Len(stack) /\ LoopBelow(stack[k], stack[k + 1])
<1>1. stack \in Seq(Frame) /\ (stack = <<>> => Len(stack) = 0)
  BY DEF TypeOK
<1>2. \A k \in 1 .. Len(stack) : ~IsUser(stack[k]) => k # Len(stack)
  BY <1>1 DEF UserTop
<1> QED BY <1>2 DEF Safe, LoopsIn

\* A hook called by user code, or by execute()
LEMMA CallSafe ==
  ASSUME TypeOK, UserTop(stack), Safe(stack, Members, existing), NEW t \in Members, t \in Tasks,
         NEW fn \in Hooks, NEW then \in {"", "restart", "execute", "destroy"},
         then = "destroy" => "delete" \in Calls /\ \A k \in 1 .. Len(stack) : stack[k].fn \in Hooks => stack[k].task # t
  PROVE  Safe(Append(stack, Hook(fn, t, then)), Members, existing)
<1> DEFINE f == Hook(fn, t, then)
<1>1. fn \in UserCode
  BY DEF Hooks, UserCode
<1>2. f \in Frame /\ f.fn = fn /\ f.task = t /\ f.then = then /\ IsUser(f)
  BY <1>1, HookTyped DEF Hook, IsUser
<1> HIDE DEF f
<1>3. stack \in Seq(Frame) /\ HooksIn(stack, Members) /\ Destroys(stack)
  BY DEF TypeOK, Safe
<1>4. \A k \in 1 .. Len(stack) : ~IsUser(stack[k]) =>
        k + 1 \in 1 .. Len(stack) /\ LoopBelow(stack[k], stack[k + 1])
  BY UserAbove
<1>5. Safe(Append(stack, f), Members, existing)
  BY <1>2, <1>3, <1>4, SafePush
<1> QED BY <1>5 DEF f

\* A hook called by a loop, and what is left of the loop without it.
LEMMA LoopSafe ==
  ASSUME TypeOK, AllLoop, Safe(stack, Members, existing), TasksSafe,
         Top.task \in Members, Top.task \in Tasks, NEW fn \in Hooks
  PROVE  LET called == [stack EXCEPT ![Len(stack)].then = "next"] IN
           /\ Safe(called, Members, existing)
           /\ Safe(Append(called, Hook(fn, Top.task, "")), Members, existing)
<1> DEFINE called == [stack EXCEPT ![Len(stack)].then = "next"]
           f == Hook(fn, Top.task, "")
<1>1. stack \in Seq(Frame) /\ stack # <<>> /\ called \in Seq(Frame)
  BY LoopAlike DEF AllLoop, TypeOK
<1>2. Top \in Frame /\ Top.fn \notin UserCode /\ Top = stack[Len(stack)]
  BY <1>1, TopTyped DEF AllLoop, UserCode, Top
<1>3. Top \in [fn : {"disableAll", "enableAll"}, task : Link, current : {NULL}, then : {"", "next"}]
  BY <1>2 DEF Frame
<1>4. /\ Len(called) = Len(stack) /\ called[Len(stack)] = [Top EXCEPT !.then = "next"]
      /\ \A k \in 1 .. Len(stack) : k # Len(stack) => called[k] = stack[k]
      /\ Len(stack) \in 1 .. Len(stack)
  BY <1>1, <1>2
<1> HIDE DEF called
<1>5. called[Len(stack)].fn = Top.fn /\ called[Len(stack)].task = Top.task /\ called[Len(stack)].then = "next"
  BY <1>3, <1>4
<1>6. fn \in UserCode
  BY DEF Hooks, UserCode
<1>7. f \in Frame /\ f.fn = fn /\ f.task = Top.task /\ f.then = "" /\ IsUser(f)
  BY <1>6, HookTyped DEF Hook, IsUser
<1> HIDE DEF f
<1>8. ~IsUser(stack[Len(stack)]) /\ ~IsUser(called[Len(stack)])
  BY <1>2, <1>5 DEF IsUser
<1>9. /\ HooksIn(called, Members) /\ Destroys(called)
      /\ \A k \in 1 .. Len(stack) : ~IsUser(called[k]) =>
           k = Len(stack) \/ (k + 1 \in 1 .. Len(stack) /\ LoopBelow(called[k], called[k + 1]))
      /\ LoopAtTop(called[Len(called)], Members, existing) => Safe(called, Members, existing)
  BY <1>1, <1>4, <1>8, SafeTop
<1>10. LoopAtTop(called[Len(called)], Members, existing)
  BY <1>4, <1>5 DEF LoopAtTop, TasksSafe
<1>11. LoopBelow(called[Len(stack)], f)
  BY <1>5, <1>7 DEF LoopBelow
<1>12. Safe(Append(called, f), Members, existing)
  <2>1. \A k \in 1 .. Len(called) : ~IsUser(called[k]) =>
           \/ k = Len(called) /\ LoopBelow(called[k], f)
           \/ k + 1 \in 1 .. Len(called) /\ LoopBelow(called[k], called[k + 1])
    BY <1>4, <1>9, <1>11
  <2> QED BY <1>1, <1>7, <1>9, <2>1, SafePush
<1> QED BY <1>9, <1>10, <1>12 DEF called, f

\* The loop at the top is at a task of the chain, or of those that exist.
LEMMA LoopPlace ==
  ASSUME TypeOK, AllLoop, Safe(stack, Members, existing)
  PROVE  LoopAtTop(Top, Members, existing)
<1>1. stack \in Seq(Frame) /\ stack # <<>> /\ Len(stack) \in 1 .. Len(stack) /\ Top = stack[Len(stack)]
      /\ Len(stack) \in Nat
  <2>1. stack \in Seq(Frame)
    BY DEF TypeOK
  <2>2. stack # <<>>
    BY DEF AllLoop
  <2> QED BY <2>1, <2>2 DEF Top
<1>2. ~IsUser(Top)
  <2>1. Top.fn \in {"disableAll", "enableAll"}
    BY DEF AllLoop
  <2> QED BY <2>1 DEF IsUser, UserCode
<1>3. Len(stack) + 1 \notin 1 .. Len(stack)
  BY <1>1
<1> QED BY <1>1, <1>2, <1>3 DEF Safe, LoopsIn

\* disableAll() and enableAll() follow the links of tasks that exist.
LEMMA AllLoopSafe ==
  ASSUME TypeOK, ChainInv, TypeOK', ChainInv', Prudent, FaultInv, AllLoop
  PROVE  FaultInv'
<1> DEFINE called == [stack EXCEPT ![Len(stack)].then = "next"]
           next == [stack EXCEPT ![Len(stack)].task = iNext[Top.task], ![Len(stack)].then = ""]
<1>1. /\ NoFault /\ Safe(stack, Members, existing) /\ TasksSafe
      /\ stack \in Seq(Frame) /\ stack # <<>> /\ ChainTypeOK /\ ChainTypeOK'
      /\ existing \subseteq Tasks /\ Members \subseteq Tasks /\ Members \subseteq existing
      /\ task \in [Tasks -> Record]
  BY Scheduled DEF FaultInv, TasksSafe, TypeOK, AllLoop
<1>2. /\ LoopAtTop(Top, Members, existing)
      /\ Top.task # NULL => Top.task \in Tasks
      /\ Top.fn \notin UserCode /\ Top.fn \notin Hooks
  BY <1>1, LoopPlace, LoopAlike DEF AllLoop, UserCode, Hooks
<1>3. ASSUME UNCHANGED <<chainVars, existing, task, broken>>
      PROVE  NoFault' /\ TasksSafe' /\ Members' = Members /\ existing' = existing
  <2>1. Members' = Members
    BY <1>3 DEF chainVars, Members
  <2> QED BY <1>1, <1>3, <2>1, FieldsSafe DEF NoFault
<1>4. CASE stack' = Below
           /\ UNCHANGED <<chainVars, existing, task, iCount, iCurrent, passing, nextTask, broken, historyVars>>
  <2>1. Safe(Below, Members, existing)
    BY <1>1, <1>2, SafePop
  <2> QED BY <1>3, <1>4, <2>1 DEF FaultInv
<1>5. ASSUME Top.task # NULL, Top.then = "" PROVE Top.task \in Members
  BY <1>2, <1>5 DEF LoopAtTop
<1>6. CASE Top.task # NULL /\ Top.then = "" /\ disable(Top.task, "", called, NULL)
  <2>1. /\ Safe(called, Members, existing)
        /\ Safe(Append(called, Hook("OnDisable", Top.task, "")), Members, existing)
    BY <1>1, <1>2, <1>5, <1>6, LoopSafe DEF Hooks
  <2> HIDE DEF called
  <2>2. /\ NoFault' /\ TasksSafe' /\ Members' = Members /\ existing' = existing
        /\ stack' = called \/ stack' = Append(called, Hook("OnDisable", Top.task, ""))
    BY <1>1, <1>5, <1>6, DisableSafe
  <2> QED BY <2>1, <2>2 DEF FaultInv
<1>7. CASE Top.task # NULL /\ Top.then = "" /\ enable(Top.task, task[Top.task], "", called)
  <2>1. /\ Safe(called, Members, existing)
        /\ Safe(Append(called, Hook("OnEnable", Top.task, "")), Members, existing)
    BY <1>1, <1>2, <1>5, <1>7, LoopSafe DEF Hooks
  <2> HIDE DEF called
  <2>2. /\ task[Top.task] \in Record /\ Top.task \in existing
        /\ task[Top.task].waiting # "no" =>
             "waitFor" \in Calls /\ task[Top.task].iStatusRequest \in Requests \cup existing
    BY <1>1, <1>5, <1>7 DEF TasksSafe
  <2>3. /\ NoFault' /\ TasksSafe' /\ Members' = Members /\ existing' = existing
        /\ stack' = called \/ stack' = Append(called, Hook("OnEnable", Top.task, ""))
    BY <1>1, <1>5, <1>7, <2>2, EnableSafe
  <2> QED BY <2>1, <2>3 DEF FaultInv
<1>8. Top.task # NULL /\ Top.then = "next" => Top.task \in existing
  BY <1>2 DEF LoopAtTop
<1>9. CASE Top.task # NULL /\ stack' = next
           /\ UNCHANGED <<chainVars, existing, task, iCount, iCurrent, passing, nextTask, broken, historyVars>>
  <2>1. iNext[Top.task] \in Members \cup {NULL}
    <3>1. CASE Top.task \in Members
      BY <1>1, <3>1, BeforeNext DEF FaultInv
    <3>2. CASE Top.task \notin Members
      BY <1>1, <1>2, <1>9, <3>2, Scheduled DEF ChainInv
    <3> QED BY <3>1, <3>2
  <2>2. Alike(next)
    BY <1>9, LoopAlike
  <2>3. Top \in [fn : {"disableAll", "enableAll"}, task : Link, current : {NULL}, then : {"", "next"}]
        /\ Top = stack[Len(stack)]
    <3>1. Top \in Frame
      BY <1>1, TopTyped
    <3> QED BY <1>2, <3>1 DEF Frame, Top
  <2>4. /\ next[Len(stack)] = [Top EXCEPT !.task = iNext[Top.task], !.then = ""]
        /\ \A k \in 1 .. Len(stack) : k # Len(stack) => next[k] = stack[k]
    <3>1. next = [stack EXCEPT ![Len(stack)] = [Top EXCEPT !.task = iNext[Top.task], !.then = ""]]
      BY DEF Top
    <3>2. Len(stack) \in DOMAIN stack /\ DOMAIN stack = 1 .. Len(stack)
      BY <1>1
    <3> HIDE DEF next
    <3> QED BY <3>1, <3>2
  <2> HIDE DEF next
  <2>5. /\ next[Len(stack)].fn = Top.fn /\ next[Len(stack)].task = iNext[Top.task]
        /\ next[Len(stack)].then = ""
    BY <2>3, <2>4
  <2>6. next \in Seq(Frame) /\ Len(next) = Len(stack)
    BY <2>2 DEF Alike
  <2>7. LoopAtTop(next[Len(next)], Members, existing)
    BY <2>1, <2>5, <2>6 DEF LoopAtTop
  <2>8. ~IsUser(stack[Len(stack)]) /\ ~IsUser(next[Len(stack)])
    BY <1>2, <2>3, <2>5 DEF IsUser
  <2>9. Safe(next, Members, existing)
    BY <1>1, <2>4, <2>6, <2>7, <2>8, SafeTop
  <2> QED BY <1>3, <1>9, <2>9 DEF FaultInv
<1> QED BY <1>4, <1>6, <1>7, <1>8, <1>9 DEF AllLoop, called, next

\* The stack and the chain stay.
LEMMA SameSafe ==
  ASSUME FaultInv, UNCHANGED <<broken, chainVars, existing, stack>>,
         \A u \in existing :
           /\ task'[u].enabled => task[u].enabled \/ u \in Members
           /\ task'[u].waiting # "no" =>
                task'[u].waiting = task[u].waiting /\ task'[u].iStatusRequest = task[u].iStatusRequest
  PROVE  FaultInv'
<1>1. Members' = Members
  BY DEF chainVars, Members
<1>2. TasksSafe'
  BY <1>1, FieldsSafe DEF FaultInv
<1> QED BY <1>1, <1>2 DEF FaultInv, NoFault

\* The pass is at a task of the chain, which is there.
LEMMA PassSafe ==
  ASSUME TypeOK, ChainInv, TypeOK', ChainInv', Prudent, PassInv, FaultInv, Pass
  PROVE  FaultInv'
<1>1. /\ NoFault /\ Safe(stack, Members, existing) /\ TasksSafe
      /\ stack \in Seq(Frame) /\ ChainTypeOK /\ ChainTypeOK'
      /\ existing \subseteq Tasks /\ Members \subseteq existing
      /\ task \in [Tasks -> Record]
  BY DEF FaultInv, TasksSafe, TypeOK
<1>2. CASE execute
  BY <1>2, SameSafe DEF execute
<1>3. Looking => iCurrent \in Members /\ iCurrent \in existing /\ iCurrent \in Tasks /\ UserTop(stack) /\ stack = <<>>
  BY <1>1 DEF PassInv, StackInv, WholePass, Upcoming, Looking, UserTop
<1>4. ~Dangling
  BY <1>1, <1>3 DEF Dangling, Considered, TasksSafe
<1>5. CASE PassBy
  <2>1. \A u \in existing :
           /\ task'[u].enabled = task[u].enabled
           /\ task'[u].waiting # "no" =>
                task'[u].waiting = task[u].waiting /\ task'[u].iStatusRequest = task[u].iStatusRequest
    <3>1. CASE UNCHANGED task
      BY <3>1
    <3>2. CASE task' = [task EXCEPT ![iCurrent].waiting = "no"]
      BY <1>1, <3>2 DEF Record
    <3> QED BY <1>5, <3>1, <3>2 DEF PassBy
  <2> QED BY <1>5, <2>1, SameSafe DEF PassBy
<1>6. CASE LastOrTimeout
  <2>1. /\ iCurrent \in Members /\ iCurrent \in existing /\ iCurrent \in Tasks /\ UserTop(stack)
        /\ disable(iCurrent, "execute", stack, iNext[iCurrent])
    BY <1>3, <1>6 DEF LastOrTimeout
  <2>2. Safe(Append(stack, Hook("OnDisable", iCurrent, "execute")), Members, existing)
    BY <1>1, <2>1, CallSafe DEF Hooks
  <2>3. /\ NoFault' /\ TasksSafe' /\ Members' = Members /\ existing' = existing
        /\ stack' = stack \/ stack' = Append(stack, Hook("OnDisable", iCurrent, "execute"))
    BY <1>1, <2>1, DisableSafe
  <2> QED BY <1>1, <2>2, <2>3 DEF FaultInv
<1>7. CASE Run
  <2>1. iCurrent \in Tasks /\ stack = <<>> /\ Looking
    BY <1>3, <1>7 DEF Run
  <2> DEFINE f == Hook("callback", iCurrent, "")
  <2>2. f \in Frame /\ f.fn = "callback" /\ f.then = "" /\ stack' = <<f>>
    BY <1>7, <2>1, HookTyped DEF UserCode, Hook, Run
  <2> HIDE DEF f
  <2>3. IsUser(f) /\ f.fn \notin Hooks /\ f.then # "destroy"
    BY <2>2 DEF IsUser, UserCode, Hooks
  <2>4. Len(stack') = 1 /\ stack'[1] = f /\ 1 .. 1 = {1}
    <3>1. Len(<<f>>) = 1 /\ <<f>>[1] = f
      OBVIOUS
    <3>2. 1 .. 1 = {1}
      OBVIOUS
    <3> QED BY <2>2, <3>1, <3>2
  <2>5. Members' = Members /\ existing' = existing
    BY <1>7 DEF Run, chainVars, Members
  <2>6. Safe(stack', Members, existing)
    BY <2>3, <2>4 DEF Safe, HooksIn, Destroys, LoopsIn
  <2>7. \A u \in existing :
           /\ task'[u].enabled = task[u].enabled
           /\ task'[u].waiting # "no" =>
                task'[u].waiting = task[u].waiting /\ task'[u].iStatusRequest = task[u].iStatusRequest
    BY <1>1, <1>7 DEF Run, Record
  <2>8. TasksSafe'
    BY <1>1, <2>5, <2>7, FieldsSafe
  <2> QED BY <1>1, <1>7, <2>5, <2>6, <2>8 DEF Run, FaultInv, NoFault
<1> QED BY <1>2, <1>4, <1>5, <1>6, <1>7 DEF Pass

\* Hooks return through the scheduler of their task.
LEMMA ReturnsSafe ==
  ASSUME TypeOK, ChainInv, TypeOK', ChainInv', Prudent, FaultInv, Returns
  PROVE  FaultInv'
<1>1. /\ NoFault /\ Safe(stack, Members, existing) /\ TasksSafe
      /\ stack \in Seq(Frame) /\ stack # <<>> /\ ChainTypeOK /\ ChainTypeOK'
      /\ existing \subseteq Tasks /\ Members \subseteq existing /\ Members \subseteq Tasks
      /\ task \in [Tasks -> Record]
      /\ \A u \in Tasks : iScheduler[u] <=> u \in Members
  BY Scheduled DEF FaultInv, TasksSafe, TypeOK, Returns, callbackReturns, CallbackOver,
                   OnEnableReturns, OnDisableReturns
<1>2. /\ Top = stack[Len(stack)] /\ Len(stack) \in 1 .. Len(stack)
      /\ \A k \in 1 .. Len(stack) - 1 : k \in 1 .. Len(stack) /\ k < Len(stack)
  BY <1>1 DEF Top
<1>3. Top.fn \in Hooks => Top.task \in Members
  BY <1>1, <1>2 DEF Safe, HooksIn
<1>4. CASE callbackReturns
  <2>1. Members' = Members /\ existing' = existing
    BY <1>4 DEF callbackReturns, CallbackOver, chainVars, Members
  <2>2. Top.fn \notin Hooks
    BY <1>4 DEF callbackReturns, CallbackOver, Hooks
  <2>3. Safe(Below, Members, existing)
    BY <1>1, <2>2, SafePop
  <2>4. stack' = Below /\ UNCHANGED <<task, broken>>
    BY <1>4 DEF callbackReturns, CallbackOver
  <2>5. TasksSafe'
    BY <1>1, <2>1, <2>4, FieldsSafe
  <2> QED BY <1>1, <2>1, <2>3, <2>4, <2>5 DEF FaultInv, NoFault
<1>5. CASE OnEnableReturns
  <2>1. Top.task \in Members /\ iScheduler[Top.task] /\ Top.task \in existing
    BY <1>1, <1>3, <1>5 DEF OnEnableReturns, Hooks
  <2>2. PICK b \in BOOLEAN :
          /\ Enabled(Top.task, [task[Top.task] EXCEPT !.enabled = b, !.inonenable = FALSE], Top.then)
          /\ stack' = Below /\ UNCHANGED <<chainVars, existing, broken>>
    BY <1>5, <2>1 DEF OnEnableReturns
  <2>3. Members' = Members
    BY <2>2 DEF chainVars, Members
  <2>4. Safe(Below, Members, existing)
    BY <1>1, <2>1, SafePop
  <2>5. ASSUME NEW u \in existing
        PROVE  /\ task'[u].enabled => task[u].enabled \/ u \in Members
               /\ task'[u].waiting = task[u].waiting /\ task'[u].iStatusRequest = task[u].iStatusRequest
    <3>1. CASE u # Top.task
      BY <1>1, <2>2, <3>1 DEF Enabled
    <3>2. CASE u = Top.task
      <4> DEFINE r == [task[Top.task] EXCEPT !.enabled = b, !.inonenable = FALSE]
      <4>1. task[u] \in Record /\ r \in Record /\ r.waiting = task[u].waiting /\ r.iStatusRequest = task[u].iStatusRequest
        BY <1>1, <3>2 DEF Record
      <4>2. task'[u] = IF Top.then = "restart" THEN [r EXCEPT !.iIterations = r.iSetIterations] ELSE r
        BY <1>1, <2>2, <3>2 DEF Enabled
      <4> HIDE DEF r
      <4>3. task'[u].waiting = r.waiting /\ task'[u].iStatusRequest = r.iStatusRequest
        BY <4>1, <4>2 DEF Record
      <4> QED BY <2>1, <3>2, <4>1, <4>3
    <3> QED BY <3>1, <3>2
  <2>6. TasksSafe'
    BY <1>1, <2>2, <2>3, <2>5, FieldsSafe
  <2> QED BY <1>1, <2>2, <2>3, <2>4, <2>6 DEF FaultInv, NoFault
<1>6. CASE OnDisableReturns
  <2>1. Top.fn = "OnDisable" /\ Top.task \in Members /\ iScheduler[Top.task] /\ Top.task \in existing
    BY <1>1, <1>3, <1>6 DEF OnDisableReturns, Hooks
  <2>2. /\ Disabled(Top.task, Top.then, Top.current, nextTask)
        /\ stack' = Below /\ UNCHANGED <<task, broken>>
    BY <1>6, <2>1 DEF OnDisableReturns
  <2>3. Top.then = "destroy" => "delete" \in Calls
    BY <1>1, <1>2 DEF Safe, Destroys
  <2>4. /\ TasksSafe'
        /\ IF Top.then = "destroy" THEN Members' = Members \ {Top.task} /\ existing' = existing \ {Top.task}
           ELSE Members' = Members /\ existing' = existing
    BY <1>1, <2>1, <2>2, <2>3, DisabledSafe
  <2>5. \A k \in 1 .. Len(stack) - 1 :
           stack[k].fn \in Hooks /\ stack[k].task \in Members => stack[k].task \in Members'
    <3>1. CASE Top.then = "destroy"
      BY <1>1, <1>2, <2>4, <3>1 DEF Safe, Destroys
    <3>2. CASE Top.then # "destroy"
      BY <2>4, <3>2
    <3> QED BY <3>1, <3>2
  <2>6. Top.then = "" => Top.task \in existing'
    BY <2>1, <2>4
  <2>7. Safe(Below, Members', existing')
    BY <1>1, <2>5, <2>6, SafePop
  <2> QED BY <1>1, <2>2, <2>4, <2>7 DEF FaultInv, NoFault
<1> QED BY <1>4, <1>5, <1>6 DEF Returns

\* What prudent user code calls
LEMMA UserSafe ==
  ASSUME TypeOK, ChainInv, TypeOK', ChainInv', Prudent, FaultInv, User
  PROVE  FaultInv'
<1>1. /\ NoFault /\ Safe(stack, Members, existing) /\ TasksSafe
      /\ stack \in Seq(Frame) /\ DOMAIN stack = 1 .. Len(stack) /\ ChainTypeOK /\ ChainTypeOK'
      /\ existing \subseteq Tasks /\ Members \subseteq existing /\ Members \subseteq Tasks
      /\ task \in [Tasks -> Record]
      /\ \A u \in Tasks : iScheduler[u] <=> u \in Members
  BY Scheduled DEF FaultInv, TasksSafe, TypeOK
<1>2. \A c : UserCalls(c) => UserTop(stack) /\ c \in Calls
  BY DEF UserCalls, UserTop, IsUser, Top
<1>3. \A t : MayDelete(t) => \A k \in 1 .. Len(stack) : stack[k].fn \in Hooks => stack[k].task # t
  BY <1>1 DEF MayDelete, Prudent, Hooks
\* enable(), disable() and their callers
<1>4. ASSUME UserTop(stack), NEW t \in existing, NEW r \in Record, NEW then \in {"", "restart"},
             r.enabled = task[t].enabled,
             r.waiting # "no" => "waitFor" \in Calls /\ r.iStatusRequest \in Requests \cup existing,
             enable(t, r, then, stack)
      PROVE  FaultInv'
  <2>1. r.enabled => t \in Members
    BY <1>1, <1>4 DEF TasksSafe
  <2>2. /\ NoFault' /\ TasksSafe' /\ Members' = Members /\ existing' = existing
        /\ \/ stack' = stack
           \/ t \in Members /\ stack' = Append(stack, Hook("OnEnable", t, then))
    BY <1>1, <1>4, <2>1, EnableSafe
  <2>3. t \in Members => Safe(Append(stack, Hook("OnEnable", t, then)), Members, existing)
    BY <1>1, <1>4, CallSafe DEF Hooks
  <2> QED BY <1>1, <2>2, <2>3 DEF FaultInv
<1>5. ASSUME UserTop(stack), NEW t \in existing, NEW then \in {"", "destroy"}, disable(t, then, stack, NULL),
             then = "destroy" => "delete" \in Calls /\ \A k \in 1 .. Len(stack) : stack[k].fn \in Hooks => stack[k].task # t
      PROVE  FaultInv'
  <2>1. /\ NoFault' /\ TasksSafe'
        /\ \/ /\ stack' = stack
              /\ IF then = "destroy" THEN Members' = Members \ {t} /\ existing' = existing \ {t}
                 ELSE Members' = Members /\ existing' = existing
           \/ /\ t \in Members /\ Members' = Members /\ existing' = existing
              /\ stack' = Append(stack, Hook("OnDisable", t, then))
    BY <1>1, <1>5, DisableSafe
  <2>2. t \in Members => Safe(Append(stack, Hook("OnDisable", t, then)), Members, existing)
    BY <1>1, <1>5, CallSafe DEF Hooks
  <2>3. CASE stack' = stack /\ Members' = Members /\ existing' = existing
    BY <1>1, <2>1, <2>3 DEF FaultInv
  <2>4. CASE stack' = stack /\ then = "destroy" /\ Members' = Members \ {t} /\ existing' = existing \ {t}
    <3>1. Safe(stack, Members', existing')
      <4>1. \A k \in 1 .. Len(stack) : stack[k].fn \in Hooks /\ stack[k].task \in Members => stack[k].task \in Members'
        BY <1>5, <2>4
      <4> QED BY <1>1, <1>5, <4>1, SafeStay
    <3> QED BY <2>1, <2>4, <3>1 DEF FaultInv
  <2> QED BY <2>1, <2>2, <2>3, <2>4 DEF FaultInv
<1>6. CASE CallEnable \/ CallRestart
  <2>1. PICK t \in existing, then \in {"", "restart"} : enable(t, task[t], then, stack)
    BY <1>6 DEF CallEnable, CallRestart
  <2>2. /\ task[t] \in Record
        /\ task[t].waiting # "no" => "waitFor" \in Calls /\ task[t].iStatusRequest \in Requests \cup existing
    BY <1>1 DEF TasksSafe
  <2> QED BY <1>2, <1>4, <1>6, <2>1, <2>2 DEF CallEnable, CallRestart
<1>7. CASE CallDisable
  BY <1>2, <1>5, <1>7 DEF CallDisable
<1>8. CASE Destroy
  BY <1>2, <1>3, <1>5, <1>8 DEF Destroy
\* The iterations
<1>9. CASE setIterations \/ yield \/ yieldOnce
  <2>1. \A u \in existing : /\ task'[u].enabled = task[u].enabled
                            /\ task'[u].waiting = task[u].waiting
                            /\ task'[u].iStatusRequest = task[u].iStatusRequest
    <3>1. CASE \E t \in existing, n \in Iterations :
                 task' = [task EXCEPT ![t].iIterations = n, ![t].iSetIterations = n]
      BY <1>1, <3>1 DEF Record
    <3>2. CASE \E t \in existing : \E n : task' = [task EXCEPT ![t].iIterations = n]
      BY <1>1, <3>2 DEF Record
    <3>3. yield => \E t \in existing : \E n : task' = [task EXCEPT ![t].iIterations = n]
      <4>1. yield => /\ Top.task \in existing
                     /\ task' = [task EXCEPT ![Top.task].iIterations =
                          IF task[Top.task].iIterations >= 0 THEN task[Top.task].iIterations + 1
                          ELSE task[Top.task].iIterations]
        BY <1>1 DEF yield
      <4> QED BY <4>1
    <3> QED BY <1>9, <3>1, <3>2, <3>3 DEF setIterations, yieldOnce
  <2> QED BY <1>9, <2>1, SameSafe DEF setIterations, yield, yieldOnce
\* The StatusRequests
<1>10. CASE setWaiting \/ signal \/ startNow
  BY <1>10, SameSafe DEF setWaiting, signal, startNow
<1>11. CASE waitFor
  <2>1. PICK t \in existing :
          \/ \E n \in Iterations, w \in {"nodelay", "delay"}, r \in Requests \cup (existing \ {t}) :
               enable(t, [task[t] EXCEPT !.iStatusRequest = r, !.iIterations = n,
                                         !.iSetIterations = n, !.waiting = w], "", stack)
          \/ /\ "waitForNull" \in Liberties \/ task[t].waiting = "no"
             /\ task' = [task EXCEPT ![t].iStatusRequest = NULL]
             /\ UNCHANGED <<chainVars, existing, iCount, iCurrent, passing, nextTask, stack, broken, historyVars>>
    BY <1>11 DEF waitFor
  <2>2. UserTop(stack) /\ "waitFor" \in Calls
    BY <1>2, <1>11 DEF waitFor
  <2>3. ASSUME NEW n \in Iterations, NEW w \in {"nodelay", "delay"}, NEW r \in Requests \cup (existing \ {t}),
               enable(t, [task[t] EXCEPT !.iStatusRequest = r, !.iIterations = n,
                                         !.iSetIterations = n, !.waiting = w], "", stack)
        PROVE  FaultInv'
    <3> DEFINE q == [task[t] EXCEPT !.iStatusRequest = r, !.iIterations = n,
                                    !.iSetIterations = n, !.waiting = w]
    <3>1. /\ q \in Record /\ q.enabled = task[t].enabled /\ q.iStatusRequest = r
      <4>1. task[t] \in Record /\ n \in Int /\ r \in Requests \cup Link
        BY <1>1, <2>3, SchedulerAssumption DEF Link
      <4> QED BY <2>3, <4>1 DEF Record
    <3>2. enable(t, q, "", stack)
      BY <2>3
    <3> HIDE DEF q
    <3>3. q.iStatusRequest \in Requests \cup existing
      BY <2>3, <3>1
    <3> QED BY <1>4, <2>2, <3>1, <3>2, <3>3
  <2>4. CASE /\ task[t].waiting = "no"
             /\ task' = [task EXCEPT ![t].iStatusRequest = NULL]
             /\ UNCHANGED <<chainVars, existing, iCount, iCurrent, passing, nextTask, stack, broken, historyVars>>
    <3>1. \A u \in existing :
             /\ task'[u].enabled = task[u].enabled
             /\ task'[u].waiting # "no" =>
                  task'[u].waiting = task[u].waiting /\ task'[u].iStatusRequest = task[u].iStatusRequest
      BY <1>1, <2>4 DEF Record
    <3> QED BY <2>4, <3>1, SameSafe
  <2> QED BY <2>1, <2>2, <2>3, <2>4 DEF Prudent
\* The chain
<1>12. ASSUME UserTop(stack), UNCHANGED <<stack, broken>>, TasksSafe', Members \subseteq Members'
       PROVE  FaultInv'
  <2>1. \A k \in 1 .. Len(stack) : stack[k].fn \in Hooks /\ stack[k].task \in Members => stack[k].task \in Members'
    BY <1>12
  <2>2. Safe(stack, Members', existing')
    BY <1>1, <1>12, <2>1, SafeStay
  <2> QED BY <1>1, <1>12, <2>2 DEF FaultInv, NoFault
<1>13. CASE CallAddTask
  <2>1. PICK t \in existing : addTask(t)
    BY <1>13 DEF CallAddTask
  <2>2. Members' = Members \cup {t} /\ UNCHANGED <<existing, task, stack, broken>>
    BY <1>1, <1>13, <2>1, ChainMembers DEF CallAddTask, schedulerVars
  <2>3. TasksSafe'
    BY <1>1, <2>2 DEF TasksSafe
  <2> QED BY <1>2, <1>12, <1>13, <2>2, <2>3 DEF CallAddTask
<1>14. CASE CallDeleteTask
  <2>1. PICK t \in existing : MayDelete(t) /\ ~task[t].enabled /\ deleteTask(t)
    BY <1>14 DEF CallDeleteTask, Prudent
  <2>2. Members' = Members \ {t} /\ UNCHANGED <<existing, task, stack, broken>>
    BY <1>1, <1>14, <2>1, ChainMembers DEF CallDeleteTask, schedulerVars
  <2>3. TasksSafe'
    BY <1>1, <2>1, <2>2 DEF TasksSafe
  <2>4. \A k \in 1 .. Len(stack) : stack[k].fn \in Hooks /\ stack[k].task \in Members => stack[k].task \in Members'
    BY <1>3, <2>1, <2>2
  <2>5. UserTop(stack)
    BY <1>2, <1>14 DEF CallDeleteTask
  <2>6. Safe(stack, Members', existing')
    BY <1>1, <2>4, <2>5, SafeStay
  <2> QED BY <1>1, <2>2, <2>3, <2>6 DEF FaultInv, NoFault
<1>15. CASE Construct
  <2>1. PICK t \in Tasks \ existing, n \in Iterations :
          /\ existing' = existing \cup {t}
          /\ task' = [task EXCEPT ![t] = Fresh(n)]
          /\ addTask(t) \/ UNCHANGED chainVars
    BY <1>15 DEF Construct
  <2>2. Members' \in {Members, Members \cup {t}}
    BY <1>1, <2>1, ChainMembers
  <2>3. task'[t].enabled = FALSE /\ task'[t].waiting = "no"
    BY <1>1, <2>1 DEF Fresh
  <2>4. \A u \in existing : task'[u] = task[u]
    BY <1>1, <2>1
  <2>5. TasksSafe'
    BY <1>1, <2>1, <2>2, <2>3, <2>4 DEF TasksSafe
  <2> QED BY <1>2, <1>12, <1>15, <2>2, <2>5 DEF Construct
\* disableAll() and enableAll() begin.
<1>16. CASE CallAll
  <2>1. PICK fn \in {"disableAll", "enableAll"} :
          stack' = Append(stack, [fn |-> fn, task |-> iFirst, current |-> NULL, then |-> ""])
    BY <1>16 DEF CallAll
  <2> DEFINE f == [fn |-> fn, task |-> iFirst, current |-> NULL, then |-> ""]
  <2>2. f \in Frame /\ f.fn \notin UserCode /\ f.fn \notin Hooks /\ f.task = iFirst /\ f.then = ""
    BY <1>1 DEF Frame, UserCode, Hooks, ChainTypeOK
  <2>3. stack' = Append(stack, f)
    BY <2>1
  <2> HIDE DEF f
  <2>4. iFirst \in Members \cup {NULL}
    BY <1>1, BeforeFirst
  <2>5. LoopAtTop(f, Members, existing)
    BY <2>2, <2>4 DEF LoopAtTop
  <2>6. \A k \in 1 .. Len(stack) : ~IsUser(stack[k]) =>
           k + 1 \in 1 .. Len(stack) /\ LoopBelow(stack[k], stack[k + 1])
    BY <1>1, <1>2, <1>16, UserAbove DEF CallAll
  <2>7. HooksIn(stack, Members) /\ Destroys(stack)
    BY <1>1 DEF Safe
  <2>8. Safe(stack', Members, existing)
    BY <1>1, <2>2, <2>3, <2>5, <2>6, <2>7, SafePush
  <2>9. UNCHANGED <<chainVars, existing, task, broken>> /\ Members' = Members
    BY <1>16 DEF CallAll, chainVars, Members
  <2>10. TasksSafe'
    BY <1>1, <2>9, FieldsSafe
  <2> QED BY <1>1, <2>8, <2>9, <2>10 DEF FaultInv, NoFault
<1> QED
  BY <1>6, <1>7, <1>8, <1>9, <1>10, <1>11, <1>13, <1>14, <1>15, <1>16 DEF User

\* At first no task is in the chain, and none is enabled.
LEMMA InitSafe == Init => FaultInv
<1> SUFFICES ASSUME Init PROVE FaultInv
  OBVIOUS
<1>1. Len(stack) = 0 /\ Members = {} /\ existing = Tasks /\ ~broken
  BY DEF Init, ChainInit, Members
<1>2. ASSUME NEW t \in Tasks PROVE ~task[t].enabled /\ task[t].waiting = "no"
  <2>1. PICK n \in Iterations : task[t] = Fresh(n)
    BY DEF Init
  <2> QED BY <2>1 DEF Fresh
<1>3. TasksSafe
  BY <1>1, <1>2 DEF TasksSafe
<1>4. Safe(stack, Members, existing)
  BY <1>1 DEF Safe, HooksIn, Destroys, LoopsIn
<1> QED BY <1>1, <1>3, <1>4 DEF FaultInv, NoFault

\* With prudent user code no call follows a pointer to nothing, or to a task that is
\* gone: neither the pass, nor a hook that returns, nor a loop over the chain.
THEOREM NoBadPointer == Prudent /\ Spec => []NoFault
<1>1. Prudent /\ TypeOK /\ ChainInv /\ TypeOK' /\ ChainInv' /\ PassInv /\ FaultInv /\ [Next]_vars => FaultInv'
  <2> SUFFICES ASSUME Prudent, TypeOK, ChainInv, TypeOK', ChainInv', PassInv, FaultInv, [Next]_vars
               PROVE  FaultInv'
    OBVIOUS
  <2>1. CASE Next
    BY <2>1, PassSafe, ReturnsSafe, AllLoopSafe, UserSafe DEF Next
  <2>2. CASE UNCHANGED vars
    BY <2>2, SameSafe DEF vars, schedulerVars
  <2> QED BY <2>1, <2>2
<1>2. ASSUME Prudent PROVE Spec => []NoFault
  <2>1. TypeOK /\ ChainInv /\ TypeOK' /\ ChainInv' /\ PassInv /\ FaultInv /\ [Next]_vars => FaultInv'
    BY <1>1, <1>2
  <2>2. FaultInv => NoFault
    BY DEF FaultInv
  <2>3. Spec => []PassInv
    BY <1>2, PassInvariance DEF Prudent
  <2> QED BY <2>1, <2>2, <2>3, InitSafe, Invariance, PTL DEF Spec
<1> QED BY <1>2
=============================================================================
