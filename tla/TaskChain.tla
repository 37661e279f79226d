----------------------------- MODULE TaskChain ------------------------------
(***************************************************************************)
(* The execution chain of TaskScheduler.h: a doubly linked list whose      *)
(* links are fields of the tasks.  Its users keep to "Task can only be     *)
(* part of the chain once": they delete only what is in the chain.         *)
(*                                                                         *)
(* chain is history: the tasks in the order they were added.               *)
(***************************************************************************)
EXTENDS Naturals, Sequences

CONSTANTS Tasks, NULL

ASSUME TasksAssumption == NULL \notin Tasks

VARIABLES
  iFirst, iLast,   \* of the scheduler
  iPrev, iNext,    \* of each task
  iScheduler,      \* of each task: has it one?
  chain

chainVars == <<iFirst, iLast, iPrev, iNext, iScheduler, chain>>

Link == Tasks \cup {NULL}

Members == {chain[i] : i \in DOMAIN chain}

Before(n) == {chain[i] : i \in {k \in DOMAIN chain : \E j \in DOMAIN chain : k < j /\ chain[j] = n}}

ChainInit ==
  /\ iFirst = NULL /\ iLast = NULL
  /\ iPrev = [t \in Tasks |-> NULL]
  /\ iNext = [t \in Tasks |-> NULL]
  /\ iScheduler = [t \in Tasks |-> FALSE]
  /\ chain = <<>>

\* addTask: appended at the end, unless it has this scheduler already.
addTask(t) ==
  \/ iScheduler[t] /\ UNCHANGED chainVars
  \/ /\ ~iScheduler[t]
     /\ iScheduler' = [iScheduler EXCEPT ![t] = TRUE]
     /\ iFirst' = IF iFirst = NULL THEN t ELSE iFirst
     /\ iPrev' = [iPrev EXCEPT ![t] = IF iFirst = NULL THEN NULL ELSE iLast]
     /\ iNext' = [u \in Tasks |-> IF u = t THEN NULL
                                  ELSE IF iFirst # NULL /\ u = iLast THEN t
                                  ELSE iNext[u]]
     /\ iLast' = t
     /\ chain' = Append(chain, t)

\* chain without its element k.
Without(k) == [i \in 1 .. Len(chain) - 1 |-> IF i < k THEN chain[i] ELSE chain[i + 1]]

\* deleteTask: its neighbours are linked to each other.
deleteTask(t) ==
  LET p == iPrev[t]
      n == iNext[t]
  IN /\ iScheduler' = [iScheduler EXCEPT ![t] = FALSE]
     /\ iFirst' = IF p = NULL THEN n ELSE iFirst
     /\ iLast' = IF n = NULL THEN p ELSE iLast
     /\ iNext' = [u \in Tasks |-> IF u = t THEN NULL ELSE IF u = p THEN n ELSE iNext[u]]
     /\ iPrev' = [u \in Tasks |-> IF u = t THEN NULL ELSE IF u = n THEN p ELSE iPrev[u]]
     /\ \E k \in DOMAIN chain : chain[k] = t /\ chain' = Without(k)

ChainTypeOK ==
  /\ iFirst \in Link /\ iLast \in Link
  /\ iPrev \in [Tasks -> Link] /\ iNext \in [Tasks -> Link]
  /\ iScheduler \in [Tasks -> BOOLEAN]
  /\ chain \in Seq(Tasks)

\* The links say what the history says: from iFirst along iNext, and from iLast
\* back along iPrev, the chain holds each of its tasks once, in the order they
\* were added; and a task that is not in it has no links into it.
ChainInv ==
  /\ \A i, j \in DOMAIN chain : chain[i] = chain[j] => i = j
  /\ \A t \in Tasks : iScheduler[t] <=> t \in Members
  /\ iFirst = IF chain = <<>> THEN NULL ELSE chain[1]
  /\ iLast = IF chain = <<>> THEN NULL ELSE chain[Len(chain)]
  /\ \A i \in DOMAIN chain :
       /\ iNext[chain[i]] = IF i = Len(chain) THEN NULL ELSE chain[i + 1]
       /\ iPrev[chain[i]] = IF i = 1 THEN NULL ELSE chain[i - 1]
  /\ \A t \in Tasks : ~iScheduler[t] => iNext[t] = NULL /\ iPrev[t] = NULL
=============================================================================
