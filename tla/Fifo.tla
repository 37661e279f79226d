-------------------------------- MODULE Fifo --------------------------------
(***************************************************************************)
(* What circular_queue promises one producer and one consumer: a bounded   *)
(* queue, first in first out, nothing lost, doubled or changed on the way. *)
(***************************************************************************)
EXTENDS Naturals, Sequences

CONSTANTS Vals, Capacity

VARIABLES
  queue,   \* what is in the queue
  used,    \* the places in use: those of the elements, and those not yet given back
  offer,   \* what the producer is pushing (empty: nothing)
  got      \* what the consumer took last

fifoVars == <<queue, used, offer, got>>

FifoInit == queue = <<>> /\ used = 0 /\ offer = <<>> /\ got = <<>>

Offer ==
  /\ offer = <<>>
  /\ offer' \in Seq(Vals) \ {<<>>}
  /\ UNCHANGED <<queue, used, got>>

\* Only a full queue refuses, and only the part for which there is no room.
Refuse ==
  /\ offer # <<>>
  /\ used + Len(offer) > Capacity
  /\ offer' = SubSeq(offer, 1, Capacity - used)
  /\ UNCHANGED <<queue, used, got>>

Put ==
  /\ offer # <<>>
  /\ used + Len(offer) <= Capacity
  /\ queue' = queue \o offer
  /\ used' = used + Len(offer)
  /\ offer' = <<>>
  /\ UNCHANGED got

Take(n) ==
  /\ got' = SubSeq(queue, 1, n)
  /\ queue' = SubSeq(queue, n + 1, Len(queue))
  /\ used' = used - n
  /\ UNCHANGED offer

Discard(n) ==
  /\ queue' = SubSeq(queue, n + 1, Len(queue))
  /\ used' = used - n
  /\ got' \in {got, <<>>}
  /\ UNCHANGED offer

\* The consumer drops one element from the middle; its place stays in use
\* until the consumer gives all such places back.
Drop(k) ==
  /\ queue' = SubSeq(queue, 1, k - 1) \o SubSeq(queue, k + 1, Len(queue))
  /\ UNCHANGED <<used, offer, got>>

GiveBack ==
  /\ used' = Len(queue)
  /\ UNCHANGED <<queue, offer, got>>

Forget ==
  /\ got' = <<>>
  /\ UNCHANGED <<queue, used, offer>>

FifoNext ==
  \/ Offer \/ Refuse \/ Put
  \/ \E n \in 1 .. Len(queue) : Take(n) \/ Discard(n) \/ Drop(n)
  \/ GiveBack \/ Forget

FifoSpec == FifoInit /\ [][FifoNext]_fifoVars
=============================================================================
