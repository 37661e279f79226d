-------------------------------- MODULE LoRa --------------------------------
(***************************************************************************)
(* The LoRa driver (lora/LoRa.cpp) and the SX1276 radios it programs, one  *)
(* per node.  Driver calls are operators from one state of a chip to the   *)
(* next; what the radios and the air do by themselves are actions.         *)
(*                                                                         *)
(* A chip is                                                               *)
(*   mode  REG_OP_MODE                                                     *)
(*   fifo  the packet in the FIFO while somebody may still read it, to     *)
(*         send it or after it has arrived: the transmit and the receive   *)
(*         base address are both 0 (LoRa.cpp:90-91), so the two share it   *)
(*   irq   REG_IRQ_FLAGS                                                   *)
(*   lock  the sender whose packet the receiver is in the middle of        *)
(***************************************************************************)
EXTENDS StarPacket

CONSTANTS
  NoPacket,     \* a FIFO without a packet, or with a damaged one
  Damage        \* whether a packet may arrive damaged

ASSUME RadioAssumption == NoPacket \notin Packet /\ Damage \in BOOLEAN

VARIABLE chip

Modes   == {"stdby", "tx", "rxcont", "rxsingle"}
RxModes == {"rxcont", "rxsingle"}
Irqs    == {"RxDone", "CrcError", "TxDone"}

Chip == [mode : Modes, fifo : Packet \cup {NoPacket}, irq : SUBSET Irqs,
         lock : Nodes \cup {NoNode}]

\* begin(): the reset pin is pulsed, the registers set up, the radio idle.
Begun == [mode |-> "stdby", fifo |-> NoPacket, irq |-> {}, lock |-> NoNode]

\* A write of another mode to REG_OP_MODE abandons a reception in progress.
SetMode(c, m) == [c EXCEPT !.mode = m, !.lock = NoNode]

Idle(c)    == SetMode(c, "stdby")
Receive(c) == SetMode(c, "rxcont")

\* Mutants: beginPacket() without its idle(); endPacket() without its MODE_TX.
TransmitWithoutIdle(c, p) == [c EXCEPT !.fifo = p, !.mode = "tx"]
TransmitWithoutTx(c, p) == [Idle(c) EXCEPT !.fifo = p]

\* beginPacket(); write(p); and the write of MODE_TX that starts endPacket().
Transmit(c, p) == SetMode([Idle(c) EXCEPT !.fifo = p], "tx")

\* endPacket() after its wait: only the TxDone flag is cleared.
EndPacket(c) == [c EXCEPT !.irq = @ \ {"TxDone"},
                          !.fifo = IF "RxDone" \in c.irq THEN @ ELSE NoPacket]

Arrived(c) == "RxDone" \in c.irq /\ "CrcError" \notin c.irq

\* Mutant: parsePacket() does not write the flags back to clear them.
ParsePacketKeepsFlags(c) == IF Arrived(c) THEN Idle(c) ELSE SetMode(c, "rxsingle")

\* parsePacket() and the readBytes of its packet: all flags are cleared; a packet idles the radio, and without
\* one the radio is put in single receive mode unless it is in it already.
ParsePacket(c) ==
  LET cleared == [c EXCEPT !.irq = {}, !.fifo = NoPacket]
  IN  IF Arrived(c) THEN Idle(cleared)
      ELSE IF c.mode # "rxsingle" THEN SetMode(cleared, "rxsingle")
      ELSE cleared

\* handleDio0Rise() around its callback: the flags are cleared, the mode stays.
HandleDio0Rise(c) == [c EXCEPT !.irq = {}, !.fifo = NoPacket]

-----------------------------------------------------------------------------
Listening(n) == {x \in Nodes \ {n} : chip[x].mode \in RxModes /\ chip[x].lock = NoNode}

\* Node n starts sending p; the receivers in hearers catch its preamble.  A
\* listener outside hearers misses the packet: out of range, or a collision.
StartTransmission(n, p, hearers) ==
  chip' = [x \in Nodes |->
             IF x = n THEN Transmit(chip[n], p)
             ELSE IF x \in hearers THEN [chip[x] EXCEPT !.lock = n]
             ELSE chip[x]]

\* What the end of a packet does to a receiver: a good one lands in the FIFO, a
\* bad one leaves garbage there and CrcError.  RX_SINGLE falls to standby; if
\* the packet ends after parsePacket() has read the flags and before it looks at
\* the mode, the radio is put in single receive mode again with RxDone set.
Received(c, p, bad, again) ==
  [c EXCEPT !.fifo = IF bad THEN NoPacket ELSE p,
            !.irq  = @ \cup (IF bad THEN {"RxDone", "CrcError"} ELSE {"RxDone"}),
            !.mode = IF @ = "rxsingle" /\ ~ again THEN "stdby" ELSE @,
            !.lock = NoNode]

\* The packet of n has left the antenna; the receivers in bad heard it damaged,
\* those in again are in the middle of parsePacket(), as polling nodes may be.
TransmissionDone(n, polling) ==
  /\ chip[n].mode = "tx"
  /\ \E bad \in SUBSET {x \in Nodes : Damage /\ chip[x].lock = n}, again \in SUBSET polling :
       chip' = [x \in Nodes |->
                  IF x = n THEN [chip[n] EXCEPT !.mode = "stdby",
                                                !.irq  = @ \cup {"TxDone"}]
                  ELSE IF chip[x].lock = n THEN Received(chip[x], chip[n].fifo, x \in bad, x \in again)
                  ELSE chip[x]]

\* The radio of n is reset to c; a packet it was sending breaks off.
ResetRadio(n, c) ==
  chip' = [x \in Nodes |->
             IF x = n THEN c
             ELSE IF chip[x].lock = n THEN [chip[x] EXCEPT !.lock = NoNode]
             ELSE chip[x]]
=============================================================================
