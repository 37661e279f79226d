--------------------------- MODULE MultiDelegate ---------------------------
(***************************************************************************)
(* MultiDelegate.h of EspSoftwareSerial: a list of delegates that are      *)
(* called one after the other.  As a queue it removes what it has called   *)
(* and keeps the nodes for later; otherwise the list keeps the delegates.  *)
(* The program, its callbacks and interrupts add and erase while the list  *)
(* is called.  A callback erases only what comes after it in the list.     *)
(* A list moves to another object, and back, as a whole, and dies.         *)
(***************************************************************************)
EXTENDS Delegate, Sequences

CONSTANTS Nodes,           \* addresses a node may have
          QueueCapacity,   \* QUEUE_CAPACITY
          MaxAdds          \* bound: delegates added

NoNode == "null"
ASSUME NodesAssumption ==
  /\ NoNode \notin Nodes
  /\ QueueCapacity \in Nat /\ MaxAdds \in Nat

VARIABLES isQueue,     \* ISQUEUE
          list,        \* first, last, unused and nodeCount
          moved,       \* those of an object the list was moved to
          mNext,       \* of each node
          mDelegate,   \* number of its delegate, 0 is none
          heap,        \* nodes that are allocated
          it,          \* the iterator of operator(): current, prev, stop
          called,      \* numbers of the delegates this call has called
          due,         \* history: the delegates that must be called in this call
          added        \* how many were added

multiVars == <<isQueue, list, moved, mNext, mDelegate, heap, it, called, due, added>>

EmptyList == [first |-> NoNode, last |-> NoNode, unused |-> NoNode, nodeCount |-> 0]

MultiInit ==
    /\ isQueue \in BOOLEAN
    /\ list = EmptyList /\ moved = EmptyList
    /\ mNext = [n \in Nodes |-> NoNode]
    /\ mDelegate = [n \in Nodes |-> 0]
    /\ heap = {}
    /\ it = [phase |-> "done", current |-> NoNode, prev |-> NoNode, stop |-> NoNode]
    /\ called = <<>> /\ due = {} /\ added = 0

\* The nodes from n on: those in every set that has n and the next of each.
Reach(next, n) ==
    {m \in Nodes : \A S \in SUBSET Nodes :
        {n} \cap Nodes \subseteq S /\ (\A x \in S : next[x] \in S \cup {NoNode}) => m \in S}
From(n) == Reach(mNext, n)
Listed == From(list.first)

\* get_node_unsafe: an unused node, or a new one if there are not too many.
GetNode(n) ==
    IF isQueue /\ list.unused # NoNode
    THEN n = list.unused
    ELSE n \notin heap /\ (isQueue => list.nodeCount < QueueCapacity)

Add(n) ==
    /\ added < MaxAdds
    /\ GetNode(n)
    /\ heap' = heap \cup {n}
    /\ mDelegate' = [mDelegate EXCEPT ![n] = added + 1]
    /\ mNext' = [m \in Nodes |-> CASE m = n         -> NoNode
                                   [] m = list.last -> n
                                   [] OTHER         -> mNext[m]]
    /\ list' = [first     |-> IF list.last = NoNode THEN n ELSE list.first,
                last      |-> n,
                unused    |-> IF n = list.unused THEN mNext[n] ELSE list.unused,
                nodeCount |-> IF isQueue /\ n \notin heap THEN list.nodeCount + 1 ELSE list.nodeCount]
    /\ added' = added + 1
    /\ UNCHANGED <<isQueue, moved, it, called, due>>

\* erase() at an iterator: the node is recycled by a queue, deleted otherwise.
Unlinked(n, prev) ==
    /\ list' = [list EXCEPT !.first  = IF prev = NoNode THEN mNext[n] ELSE @,
                            !.last   = IF @ = n THEN prev ELSE @,
                            !.unused = IF isQueue THEN n ELSE @]
    /\ mNext' = [m \in Nodes |-> CASE m = n /\ isQueue -> list.unused
                                   [] m = prev         -> mNext[n]
                                   [] OTHER            -> mNext[m]]
    /\ mDelegate' = [mDelegate EXCEPT ![n] = 0]
    /\ heap' = IF isQueue THEN heap ELSE heap \ {n}

\* erase() of a delegate looks for its node from the first one on.
Predecessor(n) == IF n = list.first THEN NoNode ELSE CHOOSE m \in Listed : mNext[m] = n
Reached(n) == it.phase # "done" /\ mDelegate[n] <= mDelegate[it.current]
Erase(n) ==
    /\ n \in Listed
    /\ ~Reached(n)
    /\ Unlinked(n, Predecessor(n))
    /\ due' = due \ {mDelegate[n]}
    /\ UNCHANGED <<isQueue, moved, it, called, added>>

\* operator(): nothing to do, or a call is under way already.
Begin ==
    /\ it.phase = "done"
    /\ list.first # NoNode
    /\ it' = [phase |-> "call", current |-> list.first, prev |-> NoNode, stop |-> list.last]
    /\ called' = <<>>
    /\ due' = {mDelegate[n] : n \in Listed}
    /\ UNCHANGED <<isQueue, list, moved, mNext, mDelegate, heap, added>>

CallDelegate ==
    /\ it.phase = "call"
    /\ called' = Append(called, mDelegate[it.current])
    /\ it' = [it EXCEPT !.phase = "called"]
    /\ UNCHANGED <<isQueue, list, moved, mNext, mDelegate, heap, due, added>>

\* Leaving the loop: the iterator is at the end.
At(current, prev) ==
    [it EXCEPT !.phase   = IF current = NoNode \/ it.stop = NoNode THEN "done" ELSE "call",
               !.current = current, !.prev = prev]

\* A queue erases what it has called, unless the delegate returned false.
EraseCalled ==
    /\ it.phase = "called"
    /\ isQueue
    /\ it' = At(mNext[it.current], it.prev)
    /\ Unlinked(it.current, it.prev)
    /\ UNCHANGED <<isQueue, moved, called, due, added>>

\* operator++ of the iterator
Advance ==
    /\ it.phase = "called"
    /\ it' = IF it.current = it.stop THEN At(NoNode, it.prev) ELSE At(mNext[it.current], it.current)
    /\ UNCHANGED <<isQueue, list, moved, mNext, mDelegate, heap, called, due, added>>

\* Move construction and assignment; an assignment would leak the nodes the
\* object has, so the program moves to an object that has none.
Move(from, to) ==
    /\ it.phase = "done"
    /\ from # EmptyList /\ to = EmptyList
    /\ UNCHANGED <<isQueue, mNext, mDelegate, heap, it, called, due, added>>
MoveAway == Move(list, moved) /\ moved' = list /\ list' = EmptyList
MoveBack == Move(moved, list) /\ list' = moved /\ moved' = EmptyList

\* The destructor: the unused nodes go behind the last one, and all are deleted.
\* Its fields are left as they were, so that only a new object takes its place.
Destroy ==
    LET next == [n \in Nodes |-> IF n = list.last THEN list.unused ELSE mNext[n]]
        gone == Reach(next, IF list.first # NoNode THEN list.first ELSE list.unused)
    IN
    /\ it.phase = "done"
    /\ list # EmptyList
    /\ heap' = heap \ gone
    /\ mNext' = next
    /\ mDelegate' = [n \in Nodes |-> IF n \in gone THEN 0 ELSE mDelegate[n]]
    /\ list' = EmptyList
    /\ called' = <<>> /\ due' = {}
    /\ UNCHANGED <<isQueue, moved, it, added>>

MultiNext ==
    \/ \E n \in Nodes : Add(n) \/ Erase(n)
    \/ MoveAway \/ MoveBack \/ Destroy
    \/ Begin \/ CallDelegate \/ EraseCalled \/ Advance

MultiSpec == MultiInit /\ [][MultiNext]_multiVars

-----------------------------------------------------------------------------

\* However adding and erasing interleave with a call, and wherever the list is
\* moved, the listed and the unused nodes of each object stay chains that share
\* nothing and lose no node, also when an object dies; a queue never has
\* more nodes than its capacity, and a call calls every delegate that was there
\* when it began, once and in the order they were added.
EachCalledOnce ==
    /\ LET chains == <<Listed, From(list.unused), From(moved.first), From(moved.unused)>> IN
       /\ \A i, j \in 1 .. 4 : i # j => chains[i] \cap chains[j] = {}
       /\ UNION {chains[i] : i \in 1 .. 4} = heap
    /\ isQueue => list.nodeCount \in 0 .. QueueCapacity
    /\ \A n \in Listed : mDelegate[n] # 0 /\ (mNext[n] = NoNode => n = list.last)
    /\ \A i, j \in 1 .. Len(called) : i < j => called[i] < called[j]
    /\ it.phase = "done" /\ called # <<>> => \A d \in due : \E i \in 1 .. Len(called) : called[i] = d

\* A delegate calls what it was given, and a list of them calls each once
\* (Delegate.h, MultiDelegate.h).
DelegatesKept == DelegateKeepsWord /\ EachCalledOnce
=============================================================================
