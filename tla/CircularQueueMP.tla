-------------------------- MODULE CircularQueueMP ---------------------------
(***************************************************************************)
(* circular_queue_mp.h: many producers take turns on a mutex (on ESP8266,  *)
(* an interrupt lock); only who holds it has a push in progress, so the    *)
(* producer of CircularQueue stands for all of them.  New for the consumer *)
(* are pop_requeue and for_each_requeue, which push too.  The calls it     *)
(* inherits are those of CircularQueue; of them only pop is here.          *)
(***************************************************************************)
EXTENDS CircularQueue

CONSTANT PushDuringRequeue   \* may producers push while for_each_requeue runs?

ASSUME PushDuringRequeueAssumption == PushDuringRequeue \in BOOLEAN

VARIABLES
  m_pushMtx,   \* is it held?
  owed         \* history: what was accepted and not yet taken or dropped, in order

mpVars == <<vars, m_pushMtx, owed>>

MPInit == Init /\ m_pushMtx = FALSE /\ owed = <<>>

InRequeue == cpc \in {"requeue", "requeueWait", "requeueStore"}

\* push and push_n, guarded.
LockedCall ==
  /\ ~m_pushMtx
  /\ PushDuringRequeue \/ ~InRequeue
  /\ CallPush \/ CallPushN
  /\ m_pushMtx' = TRUE
  /\ UNCHANGED owed

LockedStep ==
  /\ ProducerStep
  /\ m_pushMtx' = (ppc' # "idle")
  /\ owed' = IF ppc = "publish" THEN owed \o pItems ELSE owed

PopCall == pop /\ UNCHANGED <<m_pushMtx, owed>>

PopStep ==
  /\ read \/ store
  /\ owed' = IF cpc = "store" THEN Tail(owed) ELSE owed
  /\ UNCHANGED m_pushMtx

\* Mutant: moves m_outPos only.
pop_requeueForgetsIn ==
  /\ cpc = "idle" /\ ~m_pushMtx /\ m_inPos # m_outPos
  /\ m_buffer' = [m_buffer EXCEPT ![m_inPos] = m_buffer[m_outPos]]
  /\ m_outPos' = Slot(m_outPos, 1)
  /\ got' = <<m_buffer[m_outPos]>>
  /\ owed' = Append(Tail(owed), Head(owed))
  /\ UNCHANGED <<m_inPos, producerVars, cpc, cIn, cCount, cVals, cPos, cOut, m_pushMtx>>

\* All of pop_requeue() runs under the mutex.
pop_requeue ==
  /\ cpc = "idle"
  /\ ~m_pushMtx
  /\ m_inPos # m_outPos
  /\ m_buffer' = [m_buffer EXCEPT ![m_inPos] = m_buffer[m_outPos]]
  /\ m_outPos' = Slot(m_outPos, 1)
  /\ m_inPos' = Slot(m_inPos, 1)
  /\ got' = <<m_buffer[m_outPos]>>
  /\ owed' = Append(Tail(owed), Head(owed))
  /\ UNCHANGED <<producerVars, cpc, cIn, cCount, cVals, cPos, cOut, m_pushMtx>>

for_each_requeue ==
  /\ cpc = "idle"
  /\ m_inPos # m_outPos
  /\ cIn' = m_inPos
  /\ cpc' = "requeue"
  /\ got' = <<>>
  /\ UNCHANGED <<bufferVars, producerVars, cCount, cVals, cPos, cOut, m_pushMtx, owed>>

\* The callback wants the element back in the queue, or it does not.
requeueCall ==
  /\ cpc = "requeue"
  /\ \/ cpc' = "requeueWait" /\ UNCHANGED owed
     \/ cpc' = "requeueStore" /\ owed' = Tail(owed)
  /\ UNCHANGED <<bufferVars, producerVars, cIn, cCount, cVals, cPos, cOut, got, m_pushMtx>>

\* The mutex is held for the copy and the store of m_inPos only.
requeue ==
  /\ cpc = "requeueWait"
  /\ ~m_pushMtx
  /\ m_buffer' = [m_buffer EXCEPT ![m_inPos] = m_buffer[m_outPos]]
  /\ m_inPos' = Slot(m_inPos, 1)
  /\ cpc' = "requeueStore"
  /\ owed' = Append(Tail(owed), Head(owed))
  /\ UNCHANGED <<m_outPos, producerVars, cIn, cCount, cVals, cPos, cOut, got, m_pushMtx>>

requeueStore ==
  /\ cpc = "requeueStore"
  /\ m_outPos' = Slot(m_outPos, 1)
  /\ \/ /\ m_outPos' # cIn
        /\ cpc' = "requeue"
        /\ UNCHANGED <<cIn, cCount, cVals, cPos, cOut>>
     \/ /\ m_outPos' = cIn
        /\ ConsumerReturns
  /\ UNCHANGED <<m_buffer, m_inPos, producerVars, got, m_pushMtx, owed>>

MPConsumerStep == PopStep \/ requeueCall \/ requeue \/ requeueStore

MPNext ==
  \/ LockedCall \/ LockedStep
  \/ PopCall \/ pop_requeue \/ for_each_requeue \/ MPConsumerStep

MPSpec == MPInit /\ [][MPNext]_mpVars

-----------------------------------------------------------------------------
\* Between two calls of the consumer the queue holds what it accepted and the
\* consumer did not take or refuse to requeue, in order.
NothingLost ==
  cpc = "idle" => /\ Len(owed) = available
                  /\ \A i \in 1 .. available : owed[i] = m_buffer[Slot(m_outPos, i - 1)]
=============================================================================
