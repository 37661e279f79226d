------------------------ MODULE SerialTransmit_proofs -----------------------
(***************************************************************************)
(* What a serial port sends is on the line as frames, for words of any     *)
(* length, any bytes and messages of any length; interrupts are let in     *)
(* only where no edge of a frame is to come.                               *)
(***************************************************************************)
EXTENDS SerialTransmit, WellFoundedInduction, SequenceTheorems, TLAPS

(* Quotient and remainder. *)

\* What \div and % return.
LEMMA Quotient ==
  ASSUME NEW B \in Nat \ {0}, NEW a \in Nat
  PROVE  /\ a = B * (a \div B) + (a % B)
         /\ a % B \in 0 .. B - 1
         /\ a \div B \in Nat
PROOF BY SMT

\* No other numbers are quotient and remainder.
LEMMA QuotientUnique ==
  ASSUME NEW B \in Nat \ {0}, NEW q \in Nat, NEW r \in 0 .. B - 1
  PROVE  (B * q + r) % B = r /\ (B * q + r) \div B = q
PROOF BY SMT

-----------------------------------------------------------------------------
(* The sending side: the bits of a frame, the counted periods, the line.    *)

\* The lengths of a word, and the powers of two they make.
LEMMA Powers ==
  ASSUME NEW n \in 5 .. 8
  PROVE  /\ n \in {5, 6, 7, 8}
         /\ 2 ^ n = CASE n = 5 -> 32 [] n = 6 -> 64 [] n = 7 -> 128 [] n = 8 -> 256
<1>1. n \in {5, 6, 7, 8}
  OBVIOUS
<1>2. CASE n = 5
  BY <1>2, PowersOfTwo
<1>3. CASE n = 6
  BY <1>3, PowersOfTwo
<1>4. CASE n = 7
  BY <1>4, PowersOfTwo
<1>5. CASE n = 8
  BY <1>5, PowersOfTwo
<1> QED BY <1>1, <1>2, <1>3, <1>4, <1>5

\* A bit of a byte, by its number.
LEMMA BitsOf ==
  ASSUME NEW byte \in Nat
  PROVE  /\ BitOf(byte, 0) = (byte % 2 = 1)
         /\ BitOf(byte, 1) = ((byte \div 2) % 2 = 1)
         /\ BitOf(byte, 2) = ((byte \div 4) % 2 = 1)
         /\ BitOf(byte, 3) = ((byte \div 8) % 2 = 1)
         /\ BitOf(byte, 4) = ((byte \div 16) % 2 = 1)
         /\ BitOf(byte, 5) = ((byte \div 32) % 2 = 1)
         /\ BitOf(byte, 6) = ((byte \div 64) % 2 = 1)
         /\ BitOf(byte, 7) = ((byte \div 128) % 2 = 1)
<1>1. byte \div 1 = byte
  OBVIOUS
<1> QED BY <1>1, PowersOfTwo DEF BitOf

\* The bits of the inverted byte are the opposite ones, by the length of the word;
\* those beyond the word are not set.
LEMMA Inverted5 ==
  ASSUME NEW byte \in Nat
  PROVE  /\ 31 - (byte % 32) \in Nat
         /\ \A i \in 0 .. 4 : BitOf(31 - (byte % 32), i) = ~BitOf(byte, i)
         /\ \A i \in 5 .. 7 : ~BitOf(31 - (byte % 32), i)
         /\ byte < 32 => \A i \in 5 .. 7 : ~BitOf(byte, i)
<1> DEFINE x == 31 - (byte % 32)
<1>1. x \in Nat /\ x < 32
  OBVIOUS
<1>a0. (x % 2 = 1) = ~(byte % 2 = 1)
  OBVIOUS
<1>a1. ((x \div 2) % 2 = 1) = ~((byte \div 2) % 2 = 1)
  OBVIOUS
<1>a2. ((x \div 4) % 2 = 1) = ~((byte \div 4) % 2 = 1)
  OBVIOUS
<1>a3. ((x \div 8) % 2 = 1) = ~((byte \div 8) % 2 = 1)
  OBVIOUS
<1>a4. ((x \div 16) % 2 = 1) = ~((byte \div 16) % 2 = 1)
  OBVIOUS
<1> HIDE DEF x
<1>b0. BitOf(x, 0) = ~BitOf(byte, 0)
  BY <1>1, <1>a0, BitsOf
<1>b1. BitOf(x, 1) = ~BitOf(byte, 1)
  BY <1>1, <1>a1, BitsOf
<1>b2. BitOf(x, 2) = ~BitOf(byte, 2)
  BY <1>1, <1>a2, BitsOf
<1>b3. BitOf(x, 3) = ~BitOf(byte, 3)
  BY <1>1, <1>a3, BitsOf
<1>b4. BitOf(x, 4) = ~BitOf(byte, 4)
  BY <1>1, <1>a4, BitsOf
<1>3. \A i \in 0 .. 4 : BitOf(x, i) = ~BitOf(byte, i)
  <2>1. \A i \in 0 .. 4 : i \in {0, 1, 2, 3, 4}
    OBVIOUS
  <2> QED BY <2>1, <1>b0, <1>b1, <1>b2, <1>b3, <1>b4
<1>4. ASSUME NEW y \in Nat, y < 32 PROVE \A i \in 5 .. 7 : ~BitOf(y, i)
  <2>1. y \div 32 = 0 /\ y \div 64 = 0 /\ y \div 128 = 0
    BY <1>4
  <2>2. 0 % 2 # 1
    OBVIOUS
  <2>b5. ~BitOf(y, 5)
    BY <2>1, <2>2, BitsOf
  <2>b6. ~BitOf(y, 6)
    BY <2>1, <2>2, BitsOf
  <2>b7. ~BitOf(y, 7)
    BY <2>1, <2>2, BitsOf
  <2>3. \A i \in 5 .. 7 : i \in {5, 6, 7}
    OBVIOUS
  <2> QED BY <2>3, <2>b5, <2>b6, <2>b7
<1> QED BY <1>1, <1>3, <1>4 DEF x

\* As above, for words of 6 bits.
LEMMA Inverted6 ==
  ASSUME NEW byte \in Nat
  PROVE  /\ 63 - (byte % 64) \in Nat
         /\ \A i \in 0 .. 5 : BitOf(63 - (byte % 64), i) = ~BitOf(byte, i)
         /\ \A i \in 6 .. 7 : ~BitOf(63 - (byte % 64), i)
         /\ byte < 64 => \A i \in 6 .. 7 : ~BitOf(byte, i)
<1> DEFINE x == 63 - (byte % 64)
<1>1. x \in Nat /\ x < 64
  OBVIOUS
<1>a0. (x % 2 = 1) = ~(byte % 2 = 1)
  OBVIOUS
<1>a1. ((x \div 2) % 2 = 1) = ~((byte \div 2) % 2 = 1)
  OBVIOUS
<1>a2. ((x \div 4) % 2 = 1) = ~((byte \div 4) % 2 = 1)
  OBVIOUS
<1>a3. ((x \div 8) % 2 = 1) = ~((byte \div 8) % 2 = 1)
  OBVIOUS
<1>a4. ((x \div 16) % 2 = 1) = ~((byte \div 16) % 2 = 1)
  OBVIOUS
<1>a5. ((x \div 32) % 2 = 1) = ~((byte \div 32) % 2 = 1)
  OBVIOUS
<1> HIDE DEF x
<1>b0. BitOf(x, 0) = ~BitOf(byte, 0)
  BY <1>1, <1>a0, BitsOf
<1>b1. BitOf(x, 1) = ~BitOf(byte, 1)
  BY <1>1, <1>a1, BitsOf
<1>b2. BitOf(x, 2) = ~BitOf(byte, 2)
  BY <1>1, <1>a2, BitsOf
<1>b3. BitOf(x, 3) = ~BitOf(byte, 3)
  BY <1>1, <1>a3, BitsOf
<1>b4. BitOf(x, 4) = ~BitOf(byte, 4)
  BY <1>1, <1>a4, BitsOf
<1>b5. BitOf(x, 5) = ~BitOf(byte, 5)
  BY <1>1, <1>a5, BitsOf
<1>3. \A i \in 0 .. 5 : BitOf(x, i) = ~BitOf(byte, i)
  <2>1. \A i \in 0 .. 5 : i \in {0, 1, 2, 3, 4, 5}
    OBVIOUS
  <2> QED BY <2>1, <1>b0, <1>b1, <1>b2, <1>b3, <1>b4, <1>b5
<1>4. ASSUME NEW y \in Nat, y < 64 PROVE \A i \in 6 .. 7 : ~BitOf(y, i)
  <2>1. y \div 64 = 0 /\ y \div 128 = 0
    BY <1>4
  <2>2. 0 % 2 # 1
    OBVIOUS
  <2>b6. ~BitOf(y, 6)
    BY <2>1, <2>2, BitsOf
  <2>b7. ~BitOf(y, 7)
    BY <2>1, <2>2, BitsOf
  <2>3. \A i \in 6 .. 7 : i \in {6, 7}
    OBVIOUS
  <2> QED BY <2>3, <2>b6, <2>b7
<1> QED BY <1>1, <1>3, <1>4 DEF x

\* As above, for words of 7 bits.
LEMMA Inverted7 ==
  ASSUME NEW byte \in Nat
  PROVE  /\ 127 - (byte % 128) \in Nat
         /\ \A i \in 0 .. 6 : BitOf(127 - (byte % 128), i) = ~BitOf(byte, i)
         /\ \A i \in 7 .. 7 : ~BitOf(127 - (byte % 128), i)
         /\ byte < 128 => \A i \in 7 .. 7 : ~BitOf(byte, i)
<1> DEFINE x == 127 - (byte % 128)
<1>1. x \in Nat /\ x < 128
  OBVIOUS
<1>a0. (x % 2 = 1) = ~(byte % 2 = 1)
  OBVIOUS
<1>a1. ((x \div 2) % 2 = 1) = ~((byte \div 2) % 2 = 1)
  OBVIOUS
<1>a2. ((x \div 4) % 2 = 1) = ~((byte \div 4) % 2 = 1)
  OBVIOUS
<1>a3. ((x \div 8) % 2 = 1) = ~((byte \div 8) % 2 = 1)
  OBVIOUS
<1>a4. ((x \div 16) % 2 = 1) = ~((byte \div 16) % 2 = 1)
  OBVIOUS
<1>a5. ((x \div 32) % 2 = 1) = ~((byte \div 32) % 2 = 1)
  OBVIOUS
<1>a6. ((x \div 64) % 2 = 1) = ~((byte \div 64) % 2 = 1)
  OBVIOUS
<1> HIDE DEF x
<1>b0. BitOf(x, 0) = ~BitOf(byte, 0)
  BY <1>1, <1>a0, BitsOf
<1>b1. BitOf(x, 1) = ~BitOf(byte, 1)
  BY <1>1, <1>a1, BitsOf
<1>b2. BitOf(x, 2) = ~BitOf(byte, 2)
  BY <1>1, <1>a2, BitsOf
<1>b3. BitOf(x, 3) = ~BitOf(byte, 3)
  BY <1>1, <1>a3, BitsOf
<1>b4. BitOf(x, 4) = ~BitOf(byte, 4)
  BY <1>1, <1>a4, BitsOf
<1>b5. BitOf(x, 5) = ~BitOf(byte, 5)
  BY <1>1, <1>a5, BitsOf
<1>b6. BitOf(x, 6) = ~BitOf(byte, 6)
  BY <1>1, <1>a6, BitsOf
<1>3. \A i \in 0 .. 6 : BitOf(x, i) = ~BitOf(byte, i)
  <2>1. \A i \in 0 .. 6 : i \in {0, 1, 2, 3, 4, 5, 6}
    OBVIOUS
  <2> QED BY <2>1, <1>b0, <1>b1, <1>b2, <1>b3, <1>b4, <1>b5, <1>b6
<1>4. ASSUME NEW y \in Nat, y < 128 PROVE \A i \in 7 .. 7 : ~BitOf(y, i)
  <2>1. y \div 128 = 0
    BY <1>4
  <2>2. 0 % 2 # 1
    OBVIOUS
  <2>b7. ~BitOf(y, 7)
    BY <2>1, <2>2, BitsOf
  <2>3. \A i \in 7 .. 7 : i \in {7}
    OBVIOUS
  <2> QED BY <2>3, <2>b7
<1> QED BY <1>1, <1>3, <1>4 DEF x

\* As above, for words of 8 bits.
LEMMA Inverted8 ==
  ASSUME NEW byte \in Nat
  PROVE  /\ 255 - (byte % 256) \in Nat
         /\ \A i \in 0 .. 7 : BitOf(255 - (byte % 256), i) = ~BitOf(byte, i)
         /\ \A i \in 8 .. 7 : ~BitOf(255 - (byte % 256), i)
         /\ byte < 256 => \A i \in 8 .. 7 : ~BitOf(byte, i)
<1> DEFINE x == 255 - (byte % 256)
<1>1. x \in Nat /\ x < 256
  OBVIOUS
<1>a0. (x % 2 = 1) = ~(byte % 2 = 1)
  OBVIOUS
<1>a1. ((x \div 2) % 2 = 1) = ~((byte \div 2) % 2 = 1)
  OBVIOUS
<1>a2. ((x \div 4) % 2 = 1) = ~((byte \div 4) % 2 = 1)
  OBVIOUS
<1>a3. ((x \div 8) % 2 = 1) = ~((byte \div 8) % 2 = 1)
  OBVIOUS
<1>a4. ((x \div 16) % 2 = 1) = ~((byte \div 16) % 2 = 1)
  OBVIOUS
<1>a5. ((x \div 32) % 2 = 1) = ~((byte \div 32) % 2 = 1)
  OBVIOUS
<1>a6. ((x \div 64) % 2 = 1) = ~((byte \div 64) % 2 = 1)
  OBVIOUS
<1>a7. ((x \div 128) % 2 = 1) = ~((byte \div 128) % 2 = 1)
  OBVIOUS
<1> HIDE DEF x
<1>b0. BitOf(x, 0) = ~BitOf(byte, 0)
  BY <1>1, <1>a0, BitsOf
<1>b1. BitOf(x, 1) = ~BitOf(byte, 1)
  BY <1>1, <1>a1, BitsOf
<1>b2. BitOf(x, 2) = ~BitOf(byte, 2)
  BY <1>1, <1>a2, BitsOf
<1>b3. BitOf(x, 3) = ~BitOf(byte, 3)
  BY <1>1, <1>a3, BitsOf
<1>b4. BitOf(x, 4) = ~BitOf(byte, 4)
  BY <1>1, <1>a4, BitsOf
<1>b5. BitOf(x, 5) = ~BitOf(byte, 5)
  BY <1>1, <1>a5, BitsOf
<1>b6. BitOf(x, 6) = ~BitOf(byte, 6)
  BY <1>1, <1>a6, BitsOf
<1>b7. BitOf(x, 7) = ~BitOf(byte, 7)
  BY <1>1, <1>a7, BitsOf
<1>3. \A i \in 0 .. 7 : BitOf(x, i) = ~BitOf(byte, i)
  <2>1. \A i \in 0 .. 7 : i \in {0, 1, 2, 3, 4, 5, 6, 7}
    OBVIOUS
  <2> QED BY <2>1, <1>b0, <1>b1, <1>b2, <1>b3, <1>b4, <1>b5, <1>b6, <1>b7
<1>4. 8 .. 7 = {}
  OBVIOUS
<1> QED BY <1>1, <1>3, <1>4 DEF x

Sample == [level : BOOLEAN, interrupts : BOOLEAN]
Sender == [pin : BOOLEAN, b : BOOLEAN, dutyCycle : Nat, offCycle : Nat, withStopBit : BOOLEAN,
           period : Nat, wave : Seq(Sample), bytes : Nat, enablePin : BOOLEAN]

PortTyped ==
  port \in [dataBits : WordLengths, parityMode : ParityModes, stopBits : 1 .. 2, invert : BOOLEAN,
            intTxEnabled : BOOLEAN, oneWire : BOOLEAN, txValid : BOOLEAN, rxEnabled : BOOLEAN, drives : BOOLEAN]

\* The levels stay as they are from p up to an end of a frame.
Calm(L, ends, p) == \E t \in ends : p <= t /\ \A q \in p .. t : L[q] = L[p]

\* What was driven has the levels L, and lets interrupts in where they are calm.
Driven(w, L, ends) ==
  \A p \in 1 .. Len(w) :
    /\ w[p].level = L[p]
    /\ w[p].interrupts => port.intTxEnabled \/ Calm(L, ends, p)

\* What is still to be driven has the levels L up to T.
Runs(W, P, D, O, pin, L, T) ==
  /\ T = W + P + D + O
  /\ \A p \in W + 1 .. W + P : L[p] = pin
  /\ \A p \in W + P + 1 .. W + P + D : L[p] = TRUE
  /\ \A p \in W + P + D + 1 .. T : L[p] = FALSE

\* write() has come to the level T.
Sent(o, T, L, ends) ==
  /\ o \in Sender
  /\ Driven(o.wave, L, ends)
  /\ Runs(Len(o.wave), o.period, o.dutyCycle, o.offCycle, o.pin, L, T)
  /\ o.b => o.offCycle = 0
  /\ o.b = IF T = 0 THEN ~port.invert ELSE L[T]
  /\ T > 0 => IF o.b THEN o.dutyCycle > 0 ELSE o.offCycle > 0

\* A run that has ended in the frame before, and may let interrupts in.
Boundary(o, T, ends) ==
  IF port.invert THEN T \in ends \/ T = 0
  ELSE Len(o.wave) + o.period + o.dutyCycle \in ends
       \/ Len(o.wave) + o.period + o.dutyCycle = 0

\* Only the line has gone on.
SameCounts(o, d) ==
  /\ d.b = o.b /\ d.dutyCycle = o.dutyCycle /\ d.offCycle = o.offCycle
  /\ d.withStopBit = o.withStopBit /\ d.bytes = o.bytes /\ d.enablePin = o.enablePin

\* The line has gone on to T, and what is not driven yet has the level of the pin.
GoneTo(o, d, T, L, ends) ==
  /\ d \in Sender /\ Driven(d.wave, L, ends) /\ SameCounts(o, d)
  /\ Len(d.wave) + d.period = T
  /\ \A p \in Len(d.wave) + 1 .. T : L[p] = d.pin

\* The wave, and what a wait adds.
LEMMA WaitGrows ==
  ASSUME PortTyped, NEW o \in Sender, NEW sync \in BOOLEAN, NEW L, NEW ends, Driven(o.wave, L, ends),
         \A p \in Len(o.wave) + 1 .. Len(o.wave) + o.period : L[p] = o.pin,
         ~sync => \A p \in Len(o.wave) + 1 .. Len(o.wave) + o.period : Calm(L, ends, p)
  PROVE  /\ GoneTo(o, PreciseDelay(o, sync), Len(o.wave) + o.period, L, ends)
         /\ PreciseDelay(o, sync).period = 0 /\ PreciseDelay(o, sync).pin = o.pin
<1> DEFINE W == Len(o.wave)
           s == [level |-> o.pin, interrupts |-> ~sync \/ port.intTxEnabled]
           f == [i \in 1 .. o.period |-> s]
           w == o.wave \o f
           d == [o EXCEPT !.wave = w, !.period = 0]
<1>1. W \in Nat /\ o.period \in Nat /\ o.wave \in Seq(Sample) /\ o.pin \in BOOLEAN
  BY DEF Sender
<1>2. s \in Sample /\ s.level = o.pin /\ (s.interrupts => ~sync \/ port.intTxEnabled)
  BY <1>1 DEF Sample, PortTyped
<1> HIDE DEF s
<1>3. f \in Seq(Sample) /\ Len(f) = o.period /\ \A i \in 1 .. o.period : f[i] = s
  BY <1>1, <1>2
<1> HIDE DEF f
<1>4. /\ w \in Seq(Sample) /\ Len(w) = W + o.period
      /\ \A i \in 1 .. W + o.period : w[i] = IF i <= W THEN o.wave[i] ELSE f[i - W]
  <2>1. /\ w \in Seq(Sample) /\ Len(w) = Len(o.wave) + Len(f)
        /\ \A i \in 1 .. Len(o.wave) + Len(f) : w[i] = IF i <= Len(o.wave) THEN o.wave[i] ELSE f[i - Len(o.wave)]
    BY <1>1, <1>3, ConcatProperties
  <2> QED BY <1>3, <2>1
<1> HIDE DEF w
<1>5. Driven(w, L, ends)
  <2>1. ASSUME NEW p \in 1 .. Len(w)
        PROVE  w[p].level = L[p] /\ (w[p].interrupts => port.intTxEnabled \/ Calm(L, ends, p))
    <3>1. CASE p <= W
      <4>1. p \in 1 .. Len(o.wave) /\ w[p] = o.wave[p]
        BY <1>1, <1>4, <2>1, <3>1
      <4> QED BY <4>1 DEF Driven
    <3>2. CASE ~(p <= W)
      <4>1. p \in Len(o.wave) + 1 .. Len(o.wave) + o.period /\ p - W \in 1 .. o.period
        BY <1>1, <1>4, <2>1, <3>2
      <4>2. w[p] = s
        BY <1>3, <1>4, <2>1, <3>2, <4>1
      <4> QED BY <1>2, <4>1, <4>2
    <3> QED BY <3>1, <3>2
  <2> QED BY <2>1 DEF Driven
<1>6. PreciseDelay(o, sync) = d
  BY DEF PreciseDelay, d, w, f, s
<1>7. /\ d \in Sender /\ d.period = 0 /\ d.wave = w /\ d.pin = o.pin /\ d.b = o.b /\ d.dutyCycle = o.dutyCycle
      /\ d.offCycle = o.offCycle /\ d.withStopBit = o.withStopBit /\ d.bytes = o.bytes /\ d.enablePin = o.enablePin
  BY <1>4 DEF Sender
<1> HIDE DEF d
<1>8. GoneTo(o, d, W + o.period, L, ends)
  <2>1. Len(d.wave) + d.period = W + o.period /\ Len(d.wave) + 1 > W + o.period
    BY <1>1, <1>4, <1>7
  <2>2. \A p \in Len(d.wave) + 1 .. W + o.period : L[p] = d.pin
    BY <1>1, <1>4, <1>7, <2>1
  <2> QED BY <1>5, <1>7, <2>1, <2>2 DEF GoneTo, SameCounts
<1> QED BY <1>6, <1>7, <1>8

\* The pin has a new level, for a time.
SetPin(s, v, n) == [s EXCEPT !.pin = v, !.period = @ + n]

\* What the pin is then, and what stays as it was.
LEMMA PinSet ==
  ASSUME NEW s \in Sender, s.period = 0, NEW v \in BOOLEAN, NEW n \in Nat
  PROVE  /\ SetPin(s, v, n) \in Sender /\ SetPin(s, v, n).wave = s.wave
         /\ SetPin(s, v, n).period = n /\ SetPin(s, v, n).pin = v
         /\ SameCounts(s, SetPin(s, v, n))
<1>1. s.period + n = n
  OBVIOUS
<1>2. [s EXCEPT !.pin = v, !.period = @ + n] = [s EXCEPT !.pin = v, !.period = n]
  BY <1>1
<1>3. /\ [s EXCEPT !.pin = v, !.period = n] \in Sender
      /\ [s EXCEPT !.pin = v, !.period = n].wave = s.wave
      /\ [s EXCEPT !.pin = v, !.period = n].period = n
      /\ [s EXCEPT !.pin = v, !.period = n].pin = v
  BY DEF Sender
<1>4. SameCounts(s, [s EXCEPT !.pin = v, !.period = n])
  BY DEF Sender, SameCounts
<1> QED BY <1>2, <1>3, <1>4, Zenon DEF SetPin

\* The high part, then the low part.
LEMMA PeriodWritten ==
  ASSUME PortTyped, NEW o, NEW T \in Nat, NEW L, NEW ends, Sent(o, T, L, ends), NEW w \in BOOLEAN,
         w => Boundary(o, T, ends)
  PROVE  /\ GoneTo(o, WritePeriod(o, w), T, L, ends)
         /\ w /\ T > 0 /\ o.b # port.invert
              => WritePeriod(o, w).period = 0 /\ WritePeriod(o, w).pin = ~port.invert
<1> DEFINE W == Len(o.wave)
           P == o.period
           D == o.dutyCycle
           O == o.offCycle
           started == PreciseDelay(o, TRUE)
           high == [started EXCEPT !.pin = TRUE, !.period = @ + o.dutyCycle]
           raised == IF o.dutyCycle = 0 THEN started
                     ELSE IF o.offCycle # 0 \/ (w /\ ~port.invert)
                     THEN PreciseDelay(high, ~w \/ port.invert)
                     ELSE high
           low == [raised EXCEPT !.pin = FALSE, !.period = @ + o.offCycle]
<1>1. /\ o \in Sender /\ W \in Nat /\ P \in Nat /\ D \in Nat /\ O \in Nat /\ o.pin \in BOOLEAN /\ o.b \in BOOLEAN
      /\ Driven(o.wave, L, ends) /\ T = W + P + D + O /\ port.invert \in BOOLEAN
  BY DEF Sent, Runs, Sender, PortTyped
<1>2. /\ \A p \in W + 1 .. W + P : L[p] = o.pin
      /\ \A p \in W + P + 1 .. W + P + D : L[p] = TRUE
      /\ \A p \in W + P + D + 1 .. T : L[p] = FALSE
  BY DEF Sent, Runs
<1>3. WritePeriod(o, w) = IF o.offCycle = 0 THEN raised
                          ELSE IF w /\ port.invert THEN PreciseDelay(low, FALSE)
                          ELSE low
  BY DEF WritePeriod
<1> HIDE DEF W, P, D, O
<1>4. GoneTo(o, started, W + P, L, ends) /\ started.period = 0 /\ started.pin = o.pin
  BY <1>1, <1>2, WaitGrows DEF W, P
<1>5. /\ GoneTo(o, raised, W + P + D, L, ends)
      /\ O # 0 \/ (w /\ ~port.invert) => raised.period = 0
      /\ D # 0 => raised.pin = TRUE
  <2>1. CASE D = 0
    <3>1. raised = started
      BY <2>1 DEF D
    <3>2. W + P + D = W + P
      BY <1>1, <2>1
    <3> HIDE DEF raised, started
    <3> QED BY <1>4, <2>1, <3>1, <3>2
  <2>2. CASE D # 0
    <3> HIDE DEF started
    <3>1. /\ started \in Sender /\ Driven(started.wave, L, ends) /\ SameCounts(o, started)
          /\ Len(started.wave) + started.period = W + P /\ started.period = 0
      BY <1>4 DEF GoneTo
    <3>a. Len(started.wave) \in Nat
      BY <3>1 DEF Sender
    <3>2. /\ high \in Sender /\ high.wave = started.wave /\ high.period = D /\ high.pin = TRUE /\ SameCounts(o, high)
          /\ Len(high.wave) = W + P
      <4>1. /\ high \in Sender /\ high.wave = started.wave /\ high.period = o.dutyCycle /\ high.pin = TRUE
            /\ SameCounts(started, high)
        <5>1. high = SetPin(started, TRUE, o.dutyCycle)
          BY DEF SetPin
        <5>2. o.dutyCycle \in Nat /\ TRUE \in BOOLEAN
          BY <1>1 DEF D
        <5> HIDE DEF high
        <5> QED BY <3>1, <5>1, <5>2, PinSet
      <4>2. SameCounts(o, high)
        BY <3>1, <4>1 DEF SameCounts
      <4>3. Len(high.wave) = W + P
        BY <3>1, <3>a, <4>1
      <4> QED BY <4>1, <4>2, <4>3 DEF D
    <3> HIDE DEF high
    <3>3. \A p \in Len(high.wave) + 1 .. Len(high.wave) + high.period : L[p] = high.pin
      BY <1>2, <3>2
    <3>4. CASE O # 0 \/ (w /\ ~port.invert)
      <4>1. raised = PreciseDelay(high, ~w \/ port.invert)
        BY <2>2, <3>4 DEF D, O
      <4>2. ASSUME ~(~w \/ port.invert), NEW p \in Len(high.wave) + 1 .. Len(high.wave) + high.period
            PROVE  Calm(L, ends, p)
        <5>1. W + P + D \in ends
          BY <1>1, <2>2, <4>2 DEF Boundary, W, P, D
        <5>2. p \in Nat /\ p <= W + P + D /\ \A q \in p .. W + P + D : q \in W + P + 1 .. W + P + D
          BY <1>1, <3>2, <4>2
        <5>a. p \in W + P + 1 .. W + P + D
          BY <1>1, <3>2, <4>2
        <5>b. L[p] = TRUE
          BY <1>2, <5>a
        <5>3. \A q \in p .. W + P + D : L[q] = L[p]
          BY <1>2, <5>2, <5>b
        <5> QED BY <5>1, <5>2, <5>3 DEF Calm
      <4>3. /\ GoneTo(high, PreciseDelay(high, ~w \/ port.invert), Len(high.wave) + high.period, L, ends)
            /\ PreciseDelay(high, ~w \/ port.invert).period = 0
            /\ PreciseDelay(high, ~w \/ port.invert).pin = high.pin
        <5>1. Driven(high.wave, L, ends)
          BY <3>1, <3>2
        <5> DEFINE sync == ~w \/ port.invert
        <5>2. sync \in BOOLEAN
          BY <1>1
        <5>3. ~sync => \A p \in Len(high.wave) + 1 .. Len(high.wave) + high.period : Calm(L, ends, p)
          BY <4>2
        <5> HIDE DEF sync
        <5>4. /\ GoneTo(high, PreciseDelay(high, sync), Len(high.wave) + high.period, L, ends)
              /\ PreciseDelay(high, sync).period = 0
              /\ PreciseDelay(high, sync).pin = high.pin
          BY <3>2, <3>3, <5>1, <5>2, <5>3, WaitGrows
        <5> QED BY <5>4 DEF sync
      <4> HIDE DEF raised
      <4>4. GoneTo(o, raised, W + P + D, L, ends)
        BY <3>2, <4>1, <4>3 DEF GoneTo, SameCounts
      <4> QED BY <3>2, <4>1, <4>3, <4>4
    <3>5. CASE ~(O # 0 \/ (w /\ ~port.invert))
      <4>1. raised = high
        BY <2>2, <3>5 DEF D, O
      <4> HIDE DEF raised
      <4>2. GoneTo(o, high, W + P + D, L, ends)
        BY <3>1, <3>2, <3>3 DEF GoneTo
      <4> QED BY <3>2, <3>5, <4>1, <4>2
    <3> QED BY <3>4, <3>5
  <2> QED BY <2>1, <2>2
<1> HIDE DEF raised, started, high
<1>6. CASE O = 0
  <2>1. WritePeriod(o, w) = raised
    BY <1>3, <1>6 DEF O
  <2>2. T = W + P + D
    BY <1>1, <1>6
  <2>3. ASSUME w, T > 0, o.b # port.invert PROVE raised.period = 0 /\ raised.pin = ~port.invert
    <3>1. o.b = TRUE
      BY <1>1, <1>6, <2>3 DEF Sent, O
    <3>2. D # 0 /\ ~port.invert
      BY <1>1, <2>3, <3>1 DEF Sent, D
    <3> QED BY <1>5, <2>3, <3>2
  <2> QED BY <1>5, <2>1, <2>2, <2>3
<1>7. CASE O # 0
  <2>1. /\ raised \in Sender /\ Driven(raised.wave, L, ends) /\ SameCounts(o, raised)
        /\ Len(raised.wave) + raised.period = W + P + D /\ raised.period = 0
    BY <1>5, <1>7 DEF GoneTo
  <2>a. Len(raised.wave) \in Nat
    BY <2>1 DEF Sender
  <2>2. /\ low \in Sender /\ low.wave = raised.wave /\ low.period = O /\ low.pin = FALSE /\ SameCounts(o, low)
        /\ Len(low.wave) = W + P + D
    <3>1. /\ low \in Sender /\ low.wave = raised.wave /\ low.period = o.offCycle /\ low.pin = FALSE
          /\ SameCounts(raised, low)
      <4>1. low = SetPin(raised, FALSE, o.offCycle)
        BY DEF SetPin
      <4>2. o.offCycle \in Nat /\ FALSE \in BOOLEAN
        BY <1>1 DEF O
      <4> HIDE DEF low
      <4> QED BY <2>1, <4>1, <4>2, PinSet
    <3>2. SameCounts(o, low)
      BY <2>1, <3>1 DEF SameCounts
    <3>3. Len(low.wave) = W + P + D
      BY <2>1, <2>a, <3>1
    <3> QED BY <3>1, <3>2, <3>3 DEF O
  <2> HIDE DEF low
  <2>3. \A p \in Len(low.wave) + 1 .. Len(low.wave) + low.period : L[p] = low.pin
    BY <1>1, <1>2, <2>2
  <2>b. Len(low.wave) + low.period = T
    BY <1>1, <2>2
  <2>4. CASE w /\ port.invert
    <3>1. WritePeriod(o, w) = PreciseDelay(low, FALSE)
      BY <1>3, <1>7, <2>4 DEF O
    <3>2. ASSUME NEW p \in Len(low.wave) + 1 .. Len(low.wave) + low.period PROVE Calm(L, ends, p)
      <4>1. T \in ends
        BY <1>1, <1>7, <2>4 DEF Boundary
      <4>2. p \in Nat /\ p <= T /\ \A q \in p .. T : q \in W + P + D + 1 .. T
        BY <1>1, <2>2, <3>2
      <4>a. p \in W + P + D + 1 .. T
        BY <1>1, <2>2, <3>2
      <4>b. L[p] = FALSE
        BY <1>2, <4>a
      <4>3. \A q \in p .. T : L[q] = L[p]
        BY <1>2, <4>2, <4>b
      <4> QED BY <4>1, <4>2, <4>3 DEF Calm
    <3>3. /\ GoneTo(low, PreciseDelay(low, FALSE), Len(low.wave) + low.period, L, ends)
          /\ PreciseDelay(low, FALSE).period = 0 /\ PreciseDelay(low, FALSE).pin = low.pin
      <4>1. Driven(low.wave, L, ends)
        BY <2>1, <2>2
      <4> QED BY <2>2, <2>3, <3>2, <4>1, WaitGrows
    <3>4. GoneTo(o, PreciseDelay(low, FALSE), T, L, ends)
      BY <2>2, <2>b, <3>3 DEF GoneTo, SameCounts
    <3> QED BY <2>2, <2>4, <3>1, <3>3, <3>4
  <2>5. CASE ~(w /\ port.invert)
    <3>1. WritePeriod(o, w) = low
      BY <1>3, <1>7, <2>5 DEF O
    <3>2. GoneTo(o, low, T, L, ends)
      BY <2>1, <2>2, <2>3, <2>b DEF GoneTo
    <3>3. ~(w /\ T > 0 /\ o.b # port.invert)
      <4>1. o.b = FALSE
        BY <1>1, <1>7 DEF Sent, O
      <4> QED BY <1>1, <2>5, <4>1
    <3> QED BY <3>1, <3>2, <3>3
  <2> QED BY <2>4, <2>5
<1> QED BY <1>6, <1>7

\* Of some numbers one is the least.
LEMMA LeastNumber ==
  ASSUME NEW T \in SUBSET Nat, T # {}
  PROVE  \E m \in T : \A n \in T : m <= n
<1>1. PICK m \in T : \A n \in T : <<n, m>> \notin OpToRel(<, Nat)
  BY WFMin, NatLessThanWellFounded, Zenon
<1>2. \A n \in T : ~(n < m)
  BY <1>1, Zenon DEF OpToRel
<1> QED BY <1>2

\* The frame that began at t0: until its line has risen, what may let interrupts in
\* has ended with the frame before.
InFrame(o, T, t0, ends) ==
  /\ t0 <= T /\ (t0 = 0 \/ t0 \in ends)
  /\ T = t0 => o.b = ~port.invert
  /\ o.withStopBit => IF port.invert THEN T = t0
                      ELSE Len(o.wave) + o.period + o.dutyCycle = t0

\* A step of the loop over the bits.
BitStep(o, r, T, t0, L, ends) ==
  /\ Sent(r, T, L, ends) /\ InFrame(r, T, t0, ends)
  /\ r.bytes = o.bytes /\ r.enablePin = o.enablePin

\* One bit more is counted, and what was counted is driven when the line rises.
LEMMA BitKeeps ==
  ASSUME PortTyped, NEW o, NEW T \in Nat, NEW t0 \in Nat, NEW L, NEW ends, Sent(o, T, L, ends),
         InFrame(o, T, t0, ends), NEW bit \in BOOLEAN, bit = L[T + 1], T = t0 => bit = port.invert
  PROVE  BitStep(o, BitSent(o, bit), T + 1, t0, L, ends)
<1> DEFINE W == Len(o.wave)
           P == o.period
           D == o.dutyCycle
           O == o.offCycle
<1>1. /\ o \in Sender /\ W \in Nat /\ P \in Nat /\ D \in Nat /\ O \in Nat /\ o.pin \in BOOLEAN /\ o.b \in BOOLEAN
      /\ o.withStopBit \in BOOLEAN
      /\ Driven(o.wave, L, ends) /\ T = W + P + D + O /\ port.invert \in BOOLEAN
  BY DEF Sent, Runs, Sender, PortTyped
<1>2. /\ \A p \in W + 1 .. W + P : L[p] = o.pin
      /\ \A p \in W + P + 1 .. W + P + D : L[p] = TRUE
      /\ \A p \in W + P + D + 1 .. T : L[p] = FALSE
  BY DEF Sent, Runs
<1>3. /\ t0 <= T /\ (t0 = 0 \/ t0 \in ends)
      /\ T = t0 => o.b = ~port.invert
      /\ o.withStopBit => IF port.invert THEN T = t0 ELSE W + P + D = t0
  BY DEF InFrame
<1>4. o.withStopBit => Boundary(o, T, ends)
  BY <1>1, <1>3 DEF Boundary
<1>5. T + 1 \in Nat /\ T + 1 > 0 /\ T + 1 # 0 /\ t0 <= T + 1 /\ T + 1 # t0
  BY <1>3
<1>6. CASE ~o.b /\ bit
  <2> DEFINE r == WritePeriod(o, o.withStopBit)
             n == [r EXCEPT !.withStopBit = FALSE, !.dutyCycle = 1, !.offCycle = 0, !.b = TRUE]
  <2>1. GoneTo(o, r, T, L, ends)
    BY <1>1, <1>4, PeriodWritten
  <2> HIDE DEF r
  <2>2. /\ r \in Sender /\ Driven(r.wave, L, ends) /\ SameCounts(o, r) /\ Len(r.wave) + r.period = T
        /\ \A p \in Len(r.wave) + 1 .. T : L[p] = r.pin
    BY <2>1 DEF GoneTo
  <2>3. BitSent(o, bit) = n
    <3>1. BitSent(o, bit) = [[r EXCEPT !.withStopBit = FALSE, !.dutyCycle = 0, !.offCycle = 0]
                                EXCEPT !.b = bit, !.dutyCycle = @ + 1]
      BY <1>6 DEF BitSent, r
    <3>2. bit = TRUE /\ 0 + 1 = 1
      BY <1>6
    <3> QED BY <2>2, <3>1, <3>2 DEF Sender
  <2>4. /\ n \in Sender /\ n.wave = r.wave /\ n.period = r.period /\ n.pin = r.pin /\ n.dutyCycle = 1
        /\ n.offCycle = 0 /\ n.b = TRUE /\ n.withStopBit = FALSE /\ n.bytes = r.bytes /\ n.enablePin = r.enablePin
    BY <2>2 DEF Sender
  <2> HIDE DEF n
  <2>5. Len(r.wave) \in Nat /\ r.period \in Nat
    BY <2>2 DEF Sender
  <2>6. Runs(Len(n.wave), n.period, n.dutyCycle, n.offCycle, n.pin, L, T + 1)
    <3>1. T + 1 = Len(n.wave) + n.period + n.dutyCycle + n.offCycle
      BY <2>2, <2>4, <2>5
    <3>2. \A p \in Len(n.wave) + 1 .. Len(n.wave) + n.period : L[p] = n.pin
      BY <2>2, <2>4
    <3>3. \A p \in Len(n.wave) + n.period + 1 .. Len(n.wave) + n.period + n.dutyCycle : p = T + 1
      BY <2>2, <2>4, <2>5
    <3>4. L[T + 1] = TRUE
      BY <1>6
    <3>5. \A p \in Len(n.wave) + n.period + n.dutyCycle + 1 .. T + 1 : FALSE
      BY <2>2, <2>4, <2>5
    <3> QED BY <3>1, <3>2, <3>3, <3>4, <3>5 DEF Runs
  <2>7. Sent(n, T + 1, L, ends)
    <3>1. n.b = IF T + 1 = 0 THEN ~port.invert ELSE L[T + 1]
      BY <1>5, <1>6, <2>4
    <3>2. IF n.b THEN n.dutyCycle > 0 ELSE n.offCycle > 0
      BY <2>4
    <3>3. Driven(n.wave, L, ends)
      BY <2>2, <2>4
    <3> QED BY <2>4, <2>6, <3>1, <3>2, <3>3 DEF Sent
  <2>8. InFrame(n, T + 1, t0, ends)
    BY <1>3, <1>5, <2>4 DEF InFrame
  <2> QED BY <2>2, <2>3, <2>4, <2>7, <2>8 DEF BitStep, SameCounts
<1>7. CASE o.b /\ bit
  <2>0. PICK k \in Nat : k = o.dutyCycle + 1
    BY <1>1
  <2> DEFINE n == [o EXCEPT !.b = TRUE, !.dutyCycle = k]
  <2>1. BitSent(o, bit) = n
    <3>1. bit = TRUE
      BY <1>7
    <3> QED BY <1>7, <2>0, <3>1 DEF BitSent
  <2>2. /\ n \in Sender /\ n.wave = o.wave /\ n.period = P /\ n.pin = o.pin /\ n.dutyCycle = D + 1
        /\ n.offCycle = O /\ n.b = TRUE /\ n.withStopBit = o.withStopBit /\ n.bytes = o.bytes /\ n.enablePin = o.enablePin
    <3>1. k = D + 1
      BY <2>0
    <3> HIDE DEF D
    <3> QED BY <1>1, <3>1 DEF Sender
  <2> HIDE DEF n
  <2>3. O = 0
    BY <1>7 DEF Sent
  <2>4. ~o.withStopBit
    <3>1. ASSUME o.withStopBit, port.invert PROVE FALSE
      BY <1>1, <1>3, <1>7, <3>1
    <3>2. ASSUME o.withStopBit, ~port.invert PROVE FALSE
      <4>1. T = t0
        BY <1>1, <1>3, <2>3, <3>2
      <4> QED BY <1>7, <3>2, <4>1
    <3> QED BY <3>1, <3>2
  <2> HIDE DEF W, P, D, O
  <2>6. Runs(Len(n.wave), n.period, n.dutyCycle, n.offCycle, n.pin, L, T + 1)
    <3>0. Len(n.wave) = W /\ T = W + P + D
      BY <1>1, <2>2, <2>3 DEF W
    <3>1. T + 1 = Len(n.wave) + n.period + n.dutyCycle + n.offCycle
      BY <1>1, <2>2, <2>3, <3>0
    <3>2. \A p \in Len(n.wave) + 1 .. Len(n.wave) + n.period : L[p] = n.pin
      BY <1>2, <2>2, <3>0
    <3>3. \A p \in Len(n.wave) + n.period + 1 .. Len(n.wave) + n.period + n.dutyCycle :
             p = T + 1 \/ p \in W + P + 1 .. W + P + D
      BY <1>1, <2>2, <3>0
    <3>4. L[T + 1] = TRUE
      BY <1>7
    <3>5. \A p \in Len(n.wave) + n.period + n.dutyCycle + 1 .. T + 1 : FALSE
      BY <1>1, <2>2, <3>0
    <3>6. \A p \in Len(n.wave) + n.period + 1 .. Len(n.wave) + n.period + n.dutyCycle : L[p] = TRUE
      BY <1>2, <3>3, <3>4
    <3> QED BY <3>1, <3>2, <3>5, <3>6 DEF Runs
  <2>7. Sent(n, T + 1, L, ends)
    <3>1. n.b = IF T + 1 = 0 THEN ~port.invert ELSE L[T + 1]
      BY <1>5, <1>7, <2>2
    <3>2. IF n.b THEN n.dutyCycle > 0 ELSE n.offCycle > 0
      BY <1>1, <2>2
    <3>3. Driven(n.wave, L, ends)
      BY <1>1, <2>2
    <3> QED BY <2>2, <2>3, <2>6, <3>1, <3>2, <3>3 DEF Sent
  <2>8. InFrame(n, T + 1, t0, ends)
    BY <1>3, <1>5, <2>2, <2>4 DEF InFrame
  <2> QED BY <2>1, <2>2, <2>7, <2>8 DEF BitStep
<1>8. CASE ~bit
  <2>0. PICK k \in Nat : k = o.offCycle + 1
    BY <1>1
  <2> DEFINE n == [o EXCEPT !.b = FALSE, !.offCycle = k]
  <2>1. BitSent(o, bit) = n
    <3>1. bit = FALSE
      BY <1>8
    <3> QED BY <2>0, <3>1 DEF BitSent
  <2>2. /\ n \in Sender /\ n.wave = o.wave /\ n.period = P /\ n.pin = o.pin /\ n.dutyCycle = D
        /\ n.offCycle = O + 1 /\ n.b = FALSE /\ n.withStopBit = o.withStopBit /\ n.bytes = o.bytes /\ n.enablePin = o.enablePin
    <3>1. k = O + 1
      BY <2>0
    <3> HIDE DEF O
    <3> QED BY <1>1, <3>1 DEF Sender
  <2> HIDE DEF n
  <2>4. o.withStopBit => ~port.invert
    BY <1>3, <1>8
  <2>5. InFrame(n, T + 1, t0, ends)
    BY <1>3, <1>5, <2>2, <2>4 DEF InFrame
  <2> HIDE DEF W, P, D, O
  <2>6. Runs(Len(n.wave), n.period, n.dutyCycle, n.offCycle, n.pin, L, T + 1)
    <3>0. Len(n.wave) = W
      BY <2>2 DEF W
    <3>1. T + 1 = Len(n.wave) + n.period + n.dutyCycle + n.offCycle
      BY <1>1, <2>2, <3>0
    <3>2. \A p \in Len(n.wave) + 1 .. Len(n.wave) + n.period : L[p] = n.pin
      BY <1>2, <2>2, <3>0
    <3>3. \A p \in Len(n.wave) + n.period + n.dutyCycle + 1 .. T + 1 :
             p = T + 1 \/ p \in W + P + D + 1 .. T
      BY <1>1, <2>2, <3>0
    <3>4. L[T + 1] = FALSE
      BY <1>8
    <3>5. \A p \in Len(n.wave) + n.period + 1 .. Len(n.wave) + n.period + n.dutyCycle : L[p] = TRUE
      BY <1>2, <2>2, <3>0
    <3>6. \A p \in Len(n.wave) + n.period + n.dutyCycle + 1 .. T + 1 : L[p] = FALSE
      BY <1>2, <3>3, <3>4
    <3> QED BY <3>1, <3>2, <3>5, <3>6 DEF Runs
  <2>7. Sent(n, T + 1, L, ends)
    <3>1. n.b = IF T + 1 = 0 THEN ~port.invert ELSE L[T + 1]
      BY <1>5, <1>8, <2>2
    <3>2. IF n.b THEN n.dutyCycle > 0 ELSE n.offCycle > 0
      BY <1>1, <2>2
    <3>3. Driven(n.wave, L, ends)
      BY <1>1, <2>2
    <3>4. n.b => n.offCycle = 0
      BY <2>2
    <3> QED BY <2>2, <2>6, <3>1, <3>2, <3>3, <3>4 DEF Sent
  <2> QED BY <2>1, <2>2, <2>5, <2>7 DEF BitStep
<1> QED BY <1>1, <1>6, <1>7, <1>8

\* The loop over the first n bits of a frame.
Loop(f, o, frame, n, t0, L, ends) ==
  /\ f = [i \in 0 .. n |-> f[i]]
  /\ f[0] = o
  /\ \A i \in 1 .. n : f[i] = BitSent(f[i - 1], frame[i])
  /\ \A i \in 0 .. n : BitStep(o, f[i], t0 + i, t0, L, ends)

\* A loop over n bits goes on to the next.
LEMMA LoopGrows ==
  ASSUME PortTyped, NEW o, NEW frame, NEW n \in Nat, NEW t0 \in Nat, NEW L, NEW ends,
         frame[n + 1] \in BOOLEAN, frame[n + 1] = L[t0 + n + 1], n = 0 => frame[n + 1] = port.invert,
         NEW f, Loop(f, o, frame, n, t0, L, ends)
  PROVE  \E g : Loop(g, o, frame, n + 1, t0, L, ends)
<1> DEFINE x == BitSent(f[n], frame[n + 1])
           g == [i \in 0 .. n + 1 |-> IF i = n + 1 THEN x ELSE f[i]]
<1>1. BitStep(o, f[n], t0 + n, t0, L, ends)
  BY DEF Loop
<1>2. BitStep(f[n], x, t0 + n + 1, t0, L, ends)
  <2>1. t0 + n \in Nat /\ (t0 + n = t0 => n = 0)
    OBVIOUS
  <2> QED BY <1>1, <2>1, BitKeeps DEF BitStep
<1>3. BitStep(o, x, t0 + n + 1, t0, L, ends)
  BY <1>1, <1>2 DEF BitStep
<1> HIDE DEF x
<1>4. g[n + 1] = x /\ \A i \in 0 .. n : g[i] = f[i]
  OBVIOUS
<1>5. g = [i \in 0 .. n + 1 |-> g[i]]
  OBVIOUS
<1> HIDE DEF g
<1>6. g[0] = o
  BY <1>4 DEF Loop
<1>7. ASSUME NEW i \in 1 .. n + 1 PROVE g[i] = BitSent(g[i - 1], frame[i])
  <2>0. i - 1 \in 0 .. n /\ g[i - 1] = f[i - 1]
    BY <1>4
  <2>1. CASE i = n + 1
    <3>1. i - 1 = n
      BY <2>1
    <3> QED BY <1>4, <2>0, <2>1, <3>1, Zenon DEF x
  <2>2. CASE i # n + 1
    <3>1. i \in 1 .. n /\ i \in 0 .. n
      BY <2>2
    <3>2. g[i] = f[i]
      BY <1>4, <3>1
    <3> QED BY <2>0, <3>1, <3>2, Zenon DEF Loop
  <2> QED BY <2>1, <2>2
<1>8. ASSUME NEW i \in 0 .. n + 1 PROVE BitStep(o, g[i], t0 + i, t0, L, ends)
  <2>1. CASE i = n + 1
    <3>1. t0 + i = t0 + n + 1
      BY <2>1
    <3> QED BY <1>3, <1>4, <2>1, <3>1, Zenon
  <2>2. CASE i # n + 1
    <3>1. i \in 0 .. n
      BY <2>2
    <3> QED BY <1>4, <3>1, Zenon DEF Loop
  <2> QED BY <2>1, <2>2
<1>9. Loop(g, o, frame, n + 1, t0, L, ends)
  BY <1>5, <1>6, <1>7, <1>8, Zenon DEF Loop
<1> QED BY <1>9

\* The loop over all bits of a frame,
LEMMA LoopThere ==
  ASSUME PortTyped, NEW o, NEW frame, NEW N \in Nat, NEW t0 \in Nat, NEW L, NEW ends,
         \A i \in 1 .. N : frame[i] \in BOOLEAN /\ frame[i] = L[t0 + i], frame[1] = port.invert,
         Sent(o, t0, L, ends), InFrame(o, t0, t0, ends)
  PROVE  \E f : Loop(f, o, frame, N, t0, L, ends)
<1> DEFINE T == {n \in 0 .. N : ~ \E f : Loop(f, o, frame, n, t0, L, ends)}
<1>0. N \in 0 .. N
  OBVIOUS
<1>1. SUFFICES ASSUME T # {} PROVE FALSE
  BY <1>0, Zenon
<1>2. PICK m \in T : \A n \in T : m <= n
  <2>1. T \in SUBSET Nat
    OBVIOUS
  <2> HIDE DEF T
  <2> QED BY <1>1, <2>1, LeastNumber
<1>3. m # 0
  <2> DEFINE f == [i \in 0 .. 0 |-> o]
  <2>1. f = [i \in 0 .. 0 |-> f[i]] /\ f[0] = o
    OBVIOUS
  <2> HIDE DEF f
  <2>2. BitStep(o, o, t0, t0, L, ends)
    BY DEF BitStep
  <2>3. \A i \in 0 .. 0 : t0 + i = t0 /\ i = 0
    OBVIOUS
  <2>4. \A i \in 0 .. 0 : BitStep(o, f[i], t0 + i, t0, L, ends)
    BY <2>1, <2>2, <2>3
  <2>5. Loop(f, o, frame, 0, t0, L, ends)
    BY <2>1, <2>4 DEF Loop
  <2> QED BY <2>5
<1>a. m \in 0 .. N
  BY <1>2
<1>b. m - 1 \notin T
  <2> HIDE DEF T
  <2>1. ~(m <= m - 1)
    BY <1>a
  <2> QED BY <1>2, <2>1
<1>5. m - 1 \in 0 .. N /\ m - 1 \in Nat /\ m - 1 + 1 = m /\ m \in 1 .. N /\ t0 + (m - 1) + 1 = t0 + m
  BY <1>a, <1>3
<1>6. PICK f : Loop(f, o, frame, m - 1, t0, L, ends)
  BY <1>5, <1>b
<1>7. PICK n \in Nat : n = m - 1
  BY <1>5
<1>8. /\ frame[n + 1] \in BOOLEAN /\ frame[n + 1] = L[t0 + n + 1] /\ (n = 0 => frame[n + 1] = port.invert)
  BY <1>5, <1>7
<1>9. Loop(f, o, frame, n, t0, L, ends)
  BY <1>6, <1>7
<1>10. \E g : Loop(g, o, frame, n + 1, t0, L, ends)
  BY <1>8, <1>9, LoopGrows
<1>11. m \notin T
  BY <1>5, <1>7, <1>10
<1> QED BY <1>2, <1>11

\* and it is what write() does.
LEMMA LoopIs ==
  ASSUME NEW o, NEW frame, Len(frame) \in Nat, NEW t0, NEW L, NEW ends, NEW f,
         Loop(f, o, frame, Len(frame), t0, L, ends)
  PROVE  BitsSent(o, frame) = f[Len(frame)]
<1> DEFINE N == Len(frame)
           P(g) == g = [i \in 0 .. Len(frame) |-> IF i = 0 THEN o ELSE BitSent(g[i - 1], frame[i])]
           g == CHOOSE h : P(h)
<1>1. P(f)
  <2>1. \A i \in 0 .. Len(frame) : f[i] = IF i = 0 THEN o ELSE BitSent(f[i - 1], frame[i])
    <3>1. TAKE i \in 0 .. Len(frame)
    <3>2. i # 0 => i \in 1 .. Len(frame)
      OBVIOUS
    <3> QED BY <3>2 DEF Loop
  <2>2. f = [i \in 0 .. Len(frame) |-> f[i]]
    BY DEF Loop
  <2>3. [i \in 0 .. Len(frame) |-> f[i]] = [i \in 0 .. Len(frame) |-> IF i = 0 THEN o ELSE BitSent(f[i - 1], frame[i])]
    BY <2>1, Zenon
  <2> QED BY <2>2, <2>3, Zenon
<1>2. P(g)
  BY <1>1, Zenon
<1>3. BitsSent(o, frame) = g[Len(frame)]
  BY Zenon DEF BitsSent
<1> HIDE DEF g
<1> DEFINE T == {n \in 0 .. Len(frame) : g[n] # f[n]}
<1>b. Len(frame) \in 0 .. Len(frame)
  OBVIOUS
<1>4. SUFFICES ASSUME T # {} PROVE FALSE
  BY <1>3, <1>b, Zenon
<1>5. PICK m \in T : \A n \in T : m <= n
  <2>1. T \in SUBSET Nat
    OBVIOUS
  <2> HIDE DEF T
  <2> QED BY <1>4, <2>1, LeastNumber
<1>6. m \in 0 .. Len(frame) /\ g[m] # f[m]
  BY <1>5
<1>7. /\ g[m] = IF m = 0 THEN o ELSE BitSent(g[m - 1], frame[m])
      /\ f[m] = IF m = 0 THEN o ELSE BitSent(f[m - 1], frame[m])
  BY <1>1, <1>2, <1>6, Zenon
<1>8. m # 0 => m - 1 \in 0 .. Len(frame) /\ m - 1 \notin T
  <2>1. m # 0 => m - 1 \in 0 .. Len(frame) /\ ~(m <= m - 1)
    BY <1>6
  <2> HIDE DEF T
  <2> QED BY <1>5, <2>1, Zenon
<1>9. m # 0 => g[m - 1] = f[m - 1]
  BY <1>8
<1> QED BY <1>6, <1>7, <1>9, Zenon

\* A whole frame is sent.
LEMMA FrameSent ==
  ASSUME PortTyped, NEW o, NEW frame, Len(frame) \in Nat \ {0}, NEW t0 \in Nat, NEW L, NEW ends,
         \A i \in 1 .. Len(frame) : frame[i] \in BOOLEAN /\ frame[i] = L[t0 + i], frame[1] = port.invert,
         frame[Len(frame)] = ~port.invert, t0 + Len(frame) \in ends,
         Sent(o, t0, L, ends), InFrame(o, t0, t0, ends)
  PROVE  LET n == [BitsSent(o, frame) EXCEPT !.withStopBit = TRUE, !.bytes = @ + 1]
             t == t0 + Len(frame)
         IN  /\ Sent(n, t, L, ends) /\ InFrame(n, t, t, ends)
             /\ n.bytes = o.bytes + 1 /\ n.enablePin = o.enablePin
<1>1. PICK f : Loop(f, o, frame, Len(frame), t0, L, ends)
  BY LoopThere
<1>2. BitsSent(o, frame) = f[Len(frame)]
  BY <1>1, LoopIs
<1> DEFINE d == BitsSent(o, frame)
           t == t0 + Len(frame)
<1>3. BitStep(o, d, t, t0, L, ends)
  <2>1. Len(frame) \in 0 .. Len(frame)
    OBVIOUS
  <2> QED BY <1>1, <1>2, <2>1, Zenon DEF Loop
<1> HIDE DEF d
<1>4. t \in Nat /\ t > 0 /\ t # 0
  OBVIOUS
<1>5. /\ d \in Sender /\ Sent(d, t, L, ends) /\ d.bytes = o.bytes /\ d.enablePin = o.enablePin /\ d.bytes \in Nat
      /\ d.b = L[t]
  BY <1>3, <1>4 DEF BitStep, Sent, Sender
<1>6. L[t] = ~port.invert
  <2>1. Len(frame) \in 1 .. Len(frame)
    OBVIOUS
  <2> QED BY <2>1
<1>b. PICK k \in Nat : k = d.bytes + 1
  BY <1>5
<1> DEFINE n == [d EXCEPT !.withStopBit = TRUE, !.bytes = k]
<1>c. [d EXCEPT !.withStopBit = TRUE, !.bytes = @ + 1] = n
  BY <1>b
<1>7. /\ n \in Sender /\ n.wave = d.wave /\ n.period = d.period /\ n.pin = d.pin /\ n.dutyCycle = d.dutyCycle
      /\ n.offCycle = d.offCycle /\ n.b = d.b /\ n.bytes = k /\ n.enablePin = o.enablePin
  BY <1>5 DEF Sender
<1>a. t \in ends
  OBVIOUS
<1> HIDE DEF n, t
<1>8. Sent(n, t, L, ends)
  BY <1>5, <1>7 DEF Sent
<1>9. InFrame(n, t, t, ends)
  <2>1. ~port.invert => Len(n.wave) + n.period + n.dutyCycle = t
    <3>1. SUFFICES ASSUME ~port.invert PROVE Len(n.wave) + n.period + n.dutyCycle = t
      OBVIOUS
    <3>2. d.offCycle = 0
      BY <1>5, <1>6, <3>1 DEF Sent
    <3>3. t = Len(d.wave) + d.period + d.dutyCycle + d.offCycle
      BY <1>5 DEF Sent, Runs
    <3>4. Len(d.wave) \in Nat /\ d.period \in Nat /\ d.dutyCycle \in Nat
      BY <1>5 DEF Sender
    <3> QED BY <1>7, <3>2, <3>3, <3>4
  <2>2. t <= t
    BY <1>4
  <2> QED BY <1>4, <1>5, <1>6, <1>7, <1>a, <2>1, <2>2 DEF InFrame
<1>10. n.bytes = o.bytes + 1
  BY <1>5, <1>7, <1>b
<1> QED BY <1>7, <1>8, <1>9, <1>10, <1>c, Zenon DEF d, t

\* The bits of the inverted byte, for any length of the word.
InvertedOf(n, byte) == 2 ^ n - 1 - (byte % (2 ^ n))

Opposed(n, byte, x) ==
  /\ x \in Nat
  /\ \A i \in 0 .. n - 1 : BitOf(x, i) = ~BitOf(byte, i)
  /\ \A i \in n .. 7 : ~BitOf(x, i)
  /\ byte < 2 ^ n => \A i \in n .. 7 : ~BitOf(byte, i)

\* The bits of a word are opposed to those of its inverted byte.
LEMMA InvertedBits ==
  ASSUME NEW n \in 5 .. 8, NEW byte \in Nat
  PROVE  Opposed(n, byte, InvertedOf(n, byte))
<1>5. CASE n = 5
  <2>1. 2 ^ n = 32 /\ n - 1 = 4
    BY <1>5, PowersOfTwo
  <2>2. InvertedOf(n, byte) = 31 - (byte % 32)
    BY <2>1 DEF InvertedOf
  <2>3. PICK x : x = 31 - (byte % 32)
    OBVIOUS
  <2>4. /\ x \in Nat
        /\ \A i \in 0 .. 4 : BitOf(x, i) = ~BitOf(byte, i)
        /\ \A i \in 5 .. 7 : ~BitOf(x, i)
        /\ byte < 32 => \A i \in 5 .. 7 : ~BitOf(byte, i)
    BY <2>3, Inverted5
  <2>5. Opposed(n, byte, x)
    BY <1>5, <2>1, <2>4, Zenon DEF Opposed
  <2> QED BY <2>2, <2>3, <2>5, Zenon
<1>6. CASE n = 6
  <2>1. 2 ^ n = 64 /\ n - 1 = 5
    BY <1>6, PowersOfTwo
  <2>2. InvertedOf(n, byte) = 63 - (byte % 64)
    BY <2>1 DEF InvertedOf
  <2>3. PICK x : x = 63 - (byte % 64)
    OBVIOUS
  <2>4. /\ x \in Nat
        /\ \A i \in 0 .. 5 : BitOf(x, i) = ~BitOf(byte, i)
        /\ \A i \in 6 .. 7 : ~BitOf(x, i)
        /\ byte < 64 => \A i \in 6 .. 7 : ~BitOf(byte, i)
    BY <2>3, Inverted6
  <2>5. Opposed(n, byte, x)
    BY <1>6, <2>1, <2>4, Zenon DEF Opposed
  <2> QED BY <2>2, <2>3, <2>5, Zenon
<1>7. CASE n = 7
  <2>1. 2 ^ n = 128 /\ n - 1 = 6
    BY <1>7, PowersOfTwo
  <2>2. InvertedOf(n, byte) = 127 - (byte % 128)
    BY <2>1 DEF InvertedOf
  <2>3. PICK x : x = 127 - (byte % 128)
    OBVIOUS
  <2>4. /\ x \in Nat
        /\ \A i \in 0 .. 6 : BitOf(x, i) = ~BitOf(byte, i)
        /\ \A i \in 7 .. 7 : ~BitOf(x, i)
        /\ byte < 128 => \A i \in 7 .. 7 : ~BitOf(byte, i)
    BY <2>3, Inverted7
  <2>5. Opposed(n, byte, x)
    BY <1>7, <2>1, <2>4, Zenon DEF Opposed
  <2> QED BY <2>2, <2>3, <2>5, Zenon
<1>8. CASE n = 8
  <2>1. 2 ^ n = 256 /\ n - 1 = 7
    BY <1>8, PowersOfTwo
  <2>2. InvertedOf(n, byte) = 255 - (byte % 256)
    BY <2>1 DEF InvertedOf
  <2>3. PICK x : x = 255 - (byte % 256)
    OBVIOUS
  <2>4. /\ x \in Nat
        /\ \A i \in 0 .. 7 : BitOf(x, i) = ~BitOf(byte, i)
        /\ \A i \in 8 .. 7 : ~BitOf(x, i)
        /\ byte < 256 => \A i \in 8 .. 7 : ~BitOf(byte, i)
    BY <2>3, Inverted8
  <2>5. Opposed(n, byte, x)
    BY <1>8, <2>1, <2>4, Zenon DEF Opposed
  <2> QED BY <2>2, <2>3, <2>5, Zenon
<1> QED BY <1>5, <1>6, <1>7, <1>8

\* The ones of a byte.
BitValue(byte, i) == IF BitOf(byte, i) THEN 1 ELSE 0

\* A bit is the remainder of the byte shifted.
LEMMA BitIs ==
  ASSUME NEW byte \in Nat, NEW i \in 0 .. 7
  PROVE  (byte \div 2 ^ i) % 2 = BitValue(byte, i)
<1>1. i \in {0, 1, 2, 3, 4, 5, 6, 7}
  OBVIOUS
<1>2. PICK q : q = 2 ^ i /\ q \in {1, 2, 4, 8, 16, 32, 64, 128}
  <2>0. CASE i = 0
    <3>1. 2 ^ i = 1
      BY <2>0, PowersOfTwo
    <3> QED BY <3>1
  <2>1. CASE i = 1
    <3>1. 2 ^ i = 2
      BY <2>1, PowersOfTwo
    <3> QED BY <3>1
  <2>2. CASE i = 2
    <3>1. 2 ^ i = 4
      BY <2>2, PowersOfTwo
    <3> QED BY <3>1
  <2>3. CASE i = 3
    <3>1. 2 ^ i = 8
      BY <2>3, PowersOfTwo
    <3> QED BY <3>1
  <2>4. CASE i = 4
    <3>1. 2 ^ i = 16
      BY <2>4, PowersOfTwo
    <3> QED BY <3>1
  <2>5. CASE i = 5
    <3>1. 2 ^ i = 32
      BY <2>5, PowersOfTwo
    <3> QED BY <3>1
  <2>6. CASE i = 6
    <3>1. 2 ^ i = 64
      BY <2>6, PowersOfTwo
    <3> QED BY <3>1
  <2>7. CASE i = 7
    <3>1. 2 ^ i = 128
      BY <2>7, PowersOfTwo
    <3> QED BY <3>1
  <2> QED BY <1>1, <2>0, <2>1, <2>2, <2>3, <2>4, <2>5, <2>6, <2>7
<1>3. (byte \div q) % 2 \in {0, 1}
  BY <1>2
<1> QED BY <1>2, <1>3 DEF BitValue, BitOf

\* The recursion over the bits adds them up.
LEMMA OnesSum ==
  ASSUME NEW byte \in Nat
  PROVE  Ones(byte) = BitValue(byte, 0) + BitValue(byte, 1) + BitValue(byte, 2) + BitValue(byte, 3)
                      + BitValue(byte, 4) + BitValue(byte, 5) + BitValue(byte, 6) + BitValue(byte, 7)
<1> DEFINE P(f) == f = [i \in 0 .. 8 |-> IF i = 0 THEN 0 ELSE f[i - 1] + ((byte \div 2 ^ (i - 1)) % 2)]
           g == CHOOSE f : P(f)
           h == [i \in 0 .. 8 |-> (IF i > 0 THEN BitValue(byte, 0) ELSE 0) + (IF i > 1 THEN BitValue(byte, 1) ELSE 0)
                                   + (IF i > 2 THEN BitValue(byte, 2) ELSE 0) + (IF i > 3 THEN BitValue(byte, 3) ELSE 0)
                                   + (IF i > 4 THEN BitValue(byte, 4) ELSE 0) + (IF i > 5 THEN BitValue(byte, 5) ELSE 0)
                                   + (IF i > 6 THEN BitValue(byte, 6) ELSE 0) + (IF i > 7 THEN BitValue(byte, 7) ELSE 0)]
<1>1. \A i \in 0 .. 7 : BitValue(byte, i) \in {0, 1} /\ (byte \div 2 ^ i) % 2 = BitValue(byte, i)
  BY BitIs DEF BitValue
<1>2. /\ h[0] = 0
      /\ h[1] = BitValue(byte, 0)
      /\ h[2] = BitValue(byte, 0) + BitValue(byte, 1)
      /\ h[3] = BitValue(byte, 0) + BitValue(byte, 1) + BitValue(byte, 2)
      /\ h[4] = BitValue(byte, 0) + BitValue(byte, 1) + BitValue(byte, 2) + BitValue(byte, 3)
      /\ h[5] = BitValue(byte, 0) + BitValue(byte, 1) + BitValue(byte, 2) + BitValue(byte, 3) + BitValue(byte, 4)
      /\ h[6] = BitValue(byte, 0) + BitValue(byte, 1) + BitValue(byte, 2) + BitValue(byte, 3) + BitValue(byte, 4) + BitValue(byte, 5)
      /\ h[7] = BitValue(byte, 0) + BitValue(byte, 1) + BitValue(byte, 2) + BitValue(byte, 3) + BitValue(byte, 4) + BitValue(byte, 5) + BitValue(byte, 6)
      /\ h[8] = BitValue(byte, 0) + BitValue(byte, 1) + BitValue(byte, 2) + BitValue(byte, 3) + BitValue(byte, 4) + BitValue(byte, 5) + BitValue(byte, 6) + BitValue(byte, 7)
  <2>1. /\ BitValue(byte, 0) \in {0, 1} /\ BitValue(byte, 1) \in {0, 1} /\ BitValue(byte, 2) \in {0, 1} /\ BitValue(byte, 3) \in {0, 1}
        /\ BitValue(byte, 4) \in {0, 1} /\ BitValue(byte, 5) \in {0, 1} /\ BitValue(byte, 6) \in {0, 1} /\ BitValue(byte, 7) \in {0, 1}
    BY <1>1
  <2>h0. h[0] = 0
    BY <2>1
  <2>h1. h[1] = BitValue(byte, 0)
    BY <2>1
  <2>h2. h[2] = BitValue(byte, 0) + BitValue(byte, 1)
    BY <2>1
  <2>h3. h[3] = BitValue(byte, 0) + BitValue(byte, 1) + BitValue(byte, 2)
    BY <2>1
  <2>h4. h[4] = BitValue(byte, 0) + BitValue(byte, 1) + BitValue(byte, 2) + BitValue(byte, 3)
    BY <2>1
  <2>h5. h[5] = BitValue(byte, 0) + BitValue(byte, 1) + BitValue(byte, 2) + BitValue(byte, 3) + BitValue(byte, 4)
    BY <2>1
  <2>h6. h[6] = BitValue(byte, 0) + BitValue(byte, 1) + BitValue(byte, 2) + BitValue(byte, 3) + BitValue(byte, 4) + BitValue(byte, 5)
    BY <2>1
  <2>h7. h[7] = BitValue(byte, 0) + BitValue(byte, 1) + BitValue(byte, 2) + BitValue(byte, 3) + BitValue(byte, 4) + BitValue(byte, 5) + BitValue(byte, 6)
    BY <2>1
  <2>h8. h[8] = BitValue(byte, 0) + BitValue(byte, 1) + BitValue(byte, 2) + BitValue(byte, 3) + BitValue(byte, 4) + BitValue(byte, 5) + BitValue(byte, 6) + BitValue(byte, 7)
    BY <2>1
  <2> QED BY <2>h0, <2>h1, <2>h2, <2>h3, <2>h4, <2>h5, <2>h6, <2>h7, <2>h8
<1>3. h = [i \in 0 .. 8 |-> h[i]]
  OBVIOUS
<1> HIDE DEF h
<1>4. \A i \in 0 .. 8 : h[i] = IF i = 0 THEN 0 ELSE h[i - 1] + ((byte \div 2 ^ (i - 1)) % 2)
  <2>1. h[1] = h[1 - 1] + ((byte \div 2 ^ (1 - 1)) % 2)
    <3>1. 1 - 1 = 0 /\ (byte \div 2 ^ 0) % 2 = BitValue(byte, 0)
      BY <1>1
    <3>2. h[1] = h[0] + BitValue(byte, 0)
      BY <1>1, <1>2
    <3> QED BY <3>1, <3>2
  <2>2. h[2] = h[2 - 1] + ((byte \div 2 ^ (2 - 1)) % 2)
    <3>1. 2 - 1 = 1 /\ (byte \div 2 ^ 1) % 2 = BitValue(byte, 1)
      BY <1>1
    <3>2. h[2] = h[1] + BitValue(byte, 1)
      BY <1>1, <1>2
    <3> QED BY <3>1, <3>2
  <2>3. h[3] = h[3 - 1] + ((byte \div 2 ^ (3 - 1)) % 2)
    <3>1. 3 - 1 = 2 /\ (byte \div 2 ^ 2) % 2 = BitValue(byte, 2)
      BY <1>1
    <3>2. h[3] = h[2] + BitValue(byte, 2)
      BY <1>1, <1>2
    <3> QED BY <3>1, <3>2
  <2>4. h[4] = h[4 - 1] + ((byte \div 2 ^ (4 - 1)) % 2)
    <3>1. 4 - 1 = 3 /\ (byte \div 2 ^ 3) % 2 = BitValue(byte, 3)
      BY <1>1
    <3>2. h[4] = h[3] + BitValue(byte, 3)
      BY <1>1, <1>2
    <3> QED BY <3>1, <3>2
  <2>5. h[5] = h[5 - 1] + ((byte \div 2 ^ (5 - 1)) % 2)
    <3>1. 5 - 1 = 4 /\ (byte \div 2 ^ 4) % 2 = BitValue(byte, 4)
      BY <1>1
    <3>2. h[5] = h[4] + BitValue(byte, 4)
      BY <1>1, <1>2
    <3> QED BY <3>1, <3>2
  <2>6. h[6] = h[6 - 1] + ((byte \div 2 ^ (6 - 1)) % 2)
    <3>1. 6 - 1 = 5 /\ (byte \div 2 ^ 5) % 2 = BitValue(byte, 5)
      BY <1>1
    <3>2. h[6] = h[5] + BitValue(byte, 5)
      BY <1>1, <1>2
    <3> QED BY <3>1, <3>2
  <2>7. h[7] = h[7 - 1] + ((byte \div 2 ^ (7 - 1)) % 2)
    <3>1. 7 - 1 = 6 /\ (byte \div 2 ^ 6) % 2 = BitValue(byte, 6)
      BY <1>1
    <3>2. h[7] = h[6] + BitValue(byte, 6)
      BY <1>1, <1>2
    <3> QED BY <3>1, <3>2
  <2>8. h[8] = h[8 - 1] + ((byte \div 2 ^ (8 - 1)) % 2)
    <3>1. 8 - 1 = 7 /\ (byte \div 2 ^ 7) % 2 = BitValue(byte, 7)
      BY <1>1
    <3>2. h[8] = h[7] + BitValue(byte, 7)
      BY <1>1, <1>2
    <3> QED BY <3>1, <3>2
  <2>a. \A i \in 0 .. 8 : i \in {0, 1, 2, 3, 4, 5, 6, 7, 8}
    OBVIOUS
  <2> QED BY <2>1, <2>2, <2>3, <2>4, <2>5, <2>6, <2>7, <2>8, <2>a, <1>2, Zenon
<1>5. P(h)
  <2>1. [i \in 0 .. 8 |-> h[i]] = [i \in 0 .. 8 |-> IF i = 0 THEN 0 ELSE h[i - 1] + ((byte \div 2 ^ (i - 1)) % 2)]
    BY <1>4, Zenon
  <2> QED BY <1>3, <2>1, Zenon
<1>6. P(g)
  BY <1>5, Zenon
<1>7. Ones(byte) = g[8]
  BY Zenon DEF Ones
<1> HIDE DEF g
<1>8. \A i \in 0 .. 8 : g[i] = IF i = 0 THEN 0 ELSE g[i - 1] + ((byte \div 2 ^ (i - 1)) % 2)
  BY <1>6, Zenon
<1>b0. g[0] = h[0]
  BY <1>2, <1>8
<1>b1. g[1] = h[1]
  <2>1. 1 \in 0 .. 8 /\ 1 # 0 /\ 1 - 1 = 0
    OBVIOUS
  <2>2. g[1] = g[1 - 1] + ((byte \div 2 ^ (1 - 1)) % 2)
    BY <1>8, <2>1, Zenon
  <2>3. h[1] = h[1 - 1] + ((byte \div 2 ^ (1 - 1)) % 2)
    BY <1>4, <2>1, Zenon
  <2>4. g[1 - 1] = h[1 - 1]
    BY <1>b0, <2>1
  <2> QED BY <2>2, <2>3, <2>4, Zenon
<1>b2. g[2] = h[2]
  <2>1. 2 \in 0 .. 8 /\ 2 # 0 /\ 2 - 1 = 1
    OBVIOUS
  <2>2. g[2] = g[2 - 1] + ((byte \div 2 ^ (2 - 1)) % 2)
    BY <1>8, <2>1, Zenon
  <2>3. h[2] = h[2 - 1] + ((byte \div 2 ^ (2 - 1)) % 2)
    BY <1>4, <2>1, Zenon
  <2>4. g[2 - 1] = h[2 - 1]
    BY <1>b1, <2>1
  <2> QED BY <2>2, <2>3, <2>4, Zenon
<1>b3. g[3] = h[3]
  <2>1. 3 \in 0 .. 8 /\ 3 # 0 /\ 3 - 1 = 2
    OBVIOUS
  <2>2. g[3] = g[3 - 1] + ((byte \div 2 ^ (3 - 1)) % 2)
    BY <1>8, <2>1, Zenon
  <2>3. h[3] = h[3 - 1] + ((byte \div 2 ^ (3 - 1)) % 2)
    BY <1>4, <2>1, Zenon
  <2>4. g[3 - 1] = h[3 - 1]
    BY <1>b2, <2>1
  <2> QED BY <2>2, <2>3, <2>4, Zenon
<1>b4. g[4] = h[4]
  <2>1. 4 \in 0 .. 8 /\ 4 # 0 /\ 4 - 1 = 3
    OBVIOUS
  <2>2. g[4] = g[4 - 1] + ((byte \div 2 ^ (4 - 1)) % 2)
    BY <1>8, <2>1, Zenon
  <2>3. h[4] = h[4 - 1] + ((byte \div 2 ^ (4 - 1)) % 2)
    BY <1>4, <2>1, Zenon
  <2>4. g[4 - 1] = h[4 - 1]
    BY <1>b3, <2>1
  <2> QED BY <2>2, <2>3, <2>4, Zenon
<1>b5. g[5] = h[5]
  <2>1. 5 \in 0 .. 8 /\ 5 # 0 /\ 5 - 1 = 4
    OBVIOUS
  <2>2. g[5] = g[5 - 1] + ((byte \div 2 ^ (5 - 1)) % 2)
    BY <1>8, <2>1, Zenon
  <2>3. h[5] = h[5 - 1] + ((byte \div 2 ^ (5 - 1)) % 2)
    BY <1>4, <2>1, Zenon
  <2>4. g[5 - 1] = h[5 - 1]
    BY <1>b4, <2>1
  <2> QED BY <2>2, <2>3, <2>4, Zenon
<1>b6. g[6] = h[6]
  <2>1. 6 \in 0 .. 8 /\ 6 # 0 /\ 6 - 1 = 5
    OBVIOUS
  <2>2. g[6] = g[6 - 1] + ((byte \div 2 ^ (6 - 1)) % 2)
    BY <1>8, <2>1, Zenon
  <2>3. h[6] = h[6 - 1] + ((byte \div 2 ^ (6 - 1)) % 2)
    BY <1>4, <2>1, Zenon
  <2>4. g[6 - 1] = h[6 - 1]
    BY <1>b5, <2>1
  <2> QED BY <2>2, <2>3, <2>4, Zenon
<1>b7. g[7] = h[7]
  <2>1. 7 \in 0 .. 8 /\ 7 # 0 /\ 7 - 1 = 6
    OBVIOUS
  <2>2. g[7] = g[7 - 1] + ((byte \div 2 ^ (7 - 1)) % 2)
    BY <1>8, <2>1, Zenon
  <2>3. h[7] = h[7 - 1] + ((byte \div 2 ^ (7 - 1)) % 2)
    BY <1>4, <2>1, Zenon
  <2>4. g[7 - 1] = h[7 - 1]
    BY <1>b6, <2>1
  <2> QED BY <2>2, <2>3, <2>4, Zenon
<1>b8. g[8] = h[8]
  <2>1. 8 \in 0 .. 8 /\ 8 # 0 /\ 8 - 1 = 7
    OBVIOUS
  <2>2. g[8] = g[8 - 1] + ((byte \div 2 ^ (8 - 1)) % 2)
    BY <1>8, <2>1, Zenon
  <2>3. h[8] = h[8 - 1] + ((byte \div 2 ^ (8 - 1)) % 2)
    BY <1>4, <2>1, Zenon
  <2>4. g[8 - 1] = h[8 - 1]
    BY <1>b7, <2>1
  <2> QED BY <2>2, <2>3, <2>4, Zenon
<1> QED BY <1>2, <1>7, <1>b8

\* The parity of an even number of bits is that of the inverted ones.
LEMMA ParityOpposed ==
  ASSUME NEW n \in {6, 8}, NEW byte \in Nat, NEW x \in Nat, byte < 2 ^ n, Opposed(n, byte, x)
  PROVE  /\ Ones(x) \in Nat /\ Ones(byte) \in Nat
         /\ Ones(x) % 2 = Ones(byte) % 2
<1>1. \A i \in 0 .. 7 : BitValue(byte, i) \in {0, 1} /\ BitValue(x, i) \in {0, 1}
  BY DEF BitValue
<1>2. \A i \in 0 .. n - 1 : BitValue(x, i) = 1 - BitValue(byte, i)
  <2>1. TAKE i \in 0 .. n - 1
  <2>2. BitOf(x, i) = ~BitOf(byte, i)
    BY DEF Opposed
  <2>3. CASE BitOf(byte, i)
    <3>1. BitValue(byte, i) = 1 /\ BitValue(x, i) = 0
      BY <2>2, <2>3, Zenon DEF BitValue
    <3> QED BY <3>1
  <2>4. CASE ~BitOf(byte, i)
    <3>1. BitValue(byte, i) = 0 /\ BitValue(x, i) = 1
      BY <2>2, <2>4, Zenon DEF BitValue
    <3> QED BY <3>1
  <2> QED BY <2>3, <2>4
<1>3. \A i \in n .. 7 : BitValue(x, i) = 0 /\ BitValue(byte, i) = 0
  BY DEF BitValue, Opposed
<1>4. Ones(byte) \in 0 .. 8
  BY <1>1, OnesSum
<1>5. Ones(x) = n - Ones(byte)
  <2>1. Ones(byte) = BitValue(byte, 0) + BitValue(byte, 1) + BitValue(byte, 2) + BitValue(byte, 3)
                      + BitValue(byte, 4) + BitValue(byte, 5) + BitValue(byte, 6) + BitValue(byte, 7)
    BY OnesSum
  <2>2. Ones(x) = BitValue(x, 0) + BitValue(x, 1) + BitValue(x, 2) + BitValue(x, 3)
                      + BitValue(x, 4) + BitValue(x, 5) + BitValue(x, 6) + BitValue(x, 7)
    BY OnesSum
  <2>3. /\ BitValue(x, 0) = 1 - BitValue(byte, 0) /\ BitValue(x, 1) = 1 - BitValue(byte, 1) /\ BitValue(x, 2) = 1 - BitValue(byte, 2)
        /\ BitValue(x, 3) = 1 - BitValue(byte, 3) /\ BitValue(x, 4) = 1 - BitValue(byte, 4) /\ BitValue(x, 5) = 1 - BitValue(byte, 5)
    BY <1>2
  <2>4. CASE n = 6
    <3>1. BitValue(x, 6) = 0 /\ BitValue(x, 7) = 0 /\ BitValue(byte, 6) = 0 /\ BitValue(byte, 7) = 0
      BY <1>3, <2>4
    <3> QED BY <1>1, <2>1, <2>2, <2>3, <2>4, <3>1
  <2>5. CASE n = 8
    <3>1. BitValue(x, 6) = 1 - BitValue(byte, 6) /\ BitValue(x, 7) = 1 - BitValue(byte, 7)
      BY <1>2, <2>5
    <3> QED BY <1>1, <2>1, <2>2, <2>3, <2>5, <3>1
  <2> QED BY <2>4, <2>5
<1>6. (n - Ones(byte)) \in 0 .. 8
  <2>1. CASE n = 8
    BY <1>4, <2>1
  <2>2. CASE n = 6
    <3>1. BitValue(byte, 6) = 0 /\ BitValue(byte, 7) = 0
      BY <1>3, <2>2
    <3> QED BY <1>1, <3>1, <2>2, OnesSum
  <2> QED BY <2>1, <2>2
<1> QED BY <1>4, <1>5, <1>6

\* The word of a byte is its frame.
FrameRight(byte, parity, w) ==
  /\ Len(w) = FrameLength
  /\ \A i \in 1 .. FrameLength : w[i] \in BOOLEAN
  /\ w[1] = port.invert /\ w[FrameLength] = ~port.invert
  /\ \A i \in 0 .. FrameLength - 1 :
        w[i + 1] = FrameLevel(byte, ParityBitFor(byte, parity), i) \/ (HasParityBit /\ i = ParityPlace)
  /\ port.dataBits % 2 = 0 /\ HasParityBit /\ byte < 2 ^ port.dataBits
       => w[ParityPlace + 1] = (ParityBitFor(byte, parity) # port.invert)

\* The length of a frame, with a place for its parity bit and a stop bit behind it.
LEMMA FrameBits ==
  ASSUME PortTyped
  PROVE  /\ port.dataBits \in 5 .. 8 /\ port.stopBits \in 1 .. 2 /\ port.invert \in BOOLEAN
         /\ FrameLength \in {7, 8, 9, 10, 11, 12} /\ ParityPlace \in Nat
         /\ FrameLength - 1 > port.dataBits /\ (HasParityBit => FrameLength - 1 > port.dataBits + 1)
<1>1. port.dataBits \in 5 .. 8 /\ port.stopBits \in 1 .. 2 /\ port.invert \in BOOLEAN
  BY TransmitAssumption DEF PortTyped
<1>2. CASE HasParityBit
  <2>1. FrameLength = 1 + port.dataBits + 1 + port.stopBits
    BY <1>2 DEF FrameLength
  <2> QED BY <1>1, <2>1 DEF ParityPlace
<1>3. CASE ~HasParityBit
  <2>1. FrameLength = 1 + port.dataBits + 0 + port.stopBits
    BY <1>3 DEF FrameLength
  <2> QED BY <1>1, <1>3, <2>1 DEF ParityPlace
<1> QED BY <1>2, <1>3

\* The parity bit, when the number of bits is even.
LEMMA ParityRight ==
  ASSUME NEW n \in 5 .. 8, n % 2 = 0, NEW byte \in Nat, byte < 2 ^ n, NEW parity \in ParityModes \ {"none"}
  PROVE  (~InvertedParity(InvertedOf(n, byte), parity)) = ParityBitFor(byte, parity)
<1> DEFINE x == InvertedOf(n, byte)
<1>1. n \in {6, 8}
  OBVIOUS
<1>2. Opposed(n, byte, x)
  BY InvertedBits
<1> HIDE DEF x
<1>3. Ones(x) \in Nat /\ Ones(byte) \in Nat /\ Ones(x) % 2 = Ones(byte) % 2
  BY <1>1, <1>2, ParityOpposed DEF Opposed
<1>4. (Ones(x) % 2 = 1) = ~(Ones(x) % 2 = 0)
  BY <1>3
<1>5. parity \in {"even", "odd", "mark", "space"}
  BY DEF ParityModes
<1>6. CASE parity = "even"
  <2>1. InvertedParity(x, parity) = (Ones(x) % 2 = 0) /\ ParityBitFor(byte, parity) = (Ones(byte) % 2 = 1)
    BY <1>6 DEF InvertedParity, ParityBitFor
  <2> QED BY <1>3, <1>4, <2>1, Zenon DEF x
<1>7. CASE parity = "odd"
  <2>1. InvertedParity(x, parity) = (Ones(x) % 2 = 1) /\ ParityBitFor(byte, parity) = (Ones(byte) % 2 = 0)
    BY <1>7 DEF InvertedParity, ParityBitFor
  <2> QED BY <1>3, <1>4, <2>1, Zenon DEF x
<1>8. CASE parity = "mark"
  <2>1. InvertedParity(x, parity) = FALSE /\ ParityBitFor(byte, parity) = TRUE
    BY <1>8 DEF InvertedParity, ParityBitFor
  <2> QED BY <2>1, Zenon DEF x
<1>9. CASE parity = "space"
  <2>1. InvertedParity(x, parity) = TRUE /\ ParityBitFor(byte, parity) = FALSE
    BY <1>9 DEF InvertedParity, ParityBitFor
  <2> QED BY <2>1, Zenon DEF x
<1> QED BY <1>5, <1>6, <1>7, <1>8, <1>9

\* The word that write() makes of a byte is the frame of the byte.
LEMMA WordIsFrame ==
  ASSUME PortTyped, NEW byte \in Bytes, NEW parity \in ParityModes
  PROVE  FrameRight(byte, parity, FrameWord(byte, parity))
<1> DEFINE n == port.dataBits
           x == InvertedOf(port.dataBits, byte)
           level(i) == IF i = 0 THEN FALSE
                       ELSE IF i <= port.dataBits THEN ~BitOf(x, i - 1)
                       ELSE IF i = port.dataBits + 1 /\ parity # "none" /\ port.parityMode # "none"
                       THEN ~InvertedParity(x, parity)
                       ELSE TRUE
           w == [i \in 1 .. FrameLength |-> level(i - 1) # port.invert]
<1>1. byte \in Nat
  BY TransmitAssumption
<1>2. /\ n \in 5 .. 8 /\ port.stopBits \in 1 .. 2 /\ port.invert \in BOOLEAN
      /\ FrameLength \in {7, 8, 9, 10, 11, 12} /\ ParityPlace \in Nat
      /\ FrameLength - 1 > n /\ (HasParityBit => FrameLength - 1 > n + 1)
  BY FrameBits
<1>3. FrameWord(byte, parity) = w
  <2>1. FrameWord(byte, parity)
          = [i \in 1 .. (port.dataBits + (IF port.parityMode # "none" THEN 1 ELSE 0) + port.stopBits) + 1
               |-> level(i - 1) # port.invert]
    BY Zenon DEF FrameWord, InvertedOf
  <2>2. (port.dataBits + (IF port.parityMode # "none" THEN 1 ELSE 0) + port.stopBits) + 1 = FrameLength
    <3>1. CASE port.parityMode # "none"
      BY <1>2, <3>1 DEF FrameLength, HasParityBit
    <3>2. CASE port.parityMode = "none"
      BY <1>2, <3>2 DEF FrameLength, HasParityBit
    <3> QED BY <3>1, <3>2
  <2> HIDE DEF level
  <2> QED BY <2>1, <2>2, Zenon
<1>4. /\ Opposed(n, byte, x)
      /\ n % 2 = 0 /\ byte < 2 ^ n /\ parity # "none" => (~InvertedParity(x, parity)) = ParityBitFor(byte, parity)
  BY <1>1, <1>2, InvertedBits, ParityRight
<1> HIDE DEF x, n
<1>5. Len(w) = FrameLength /\ \A i \in 1 .. FrameLength : w[i] = (level(i - 1) # port.invert)
  <2> HIDE DEF level
  <2>1. FrameLength \in Nat
    BY <1>2
  <2> QED BY <2>1
<1> HIDE DEF w
<1>6. \A i \in 1 .. FrameLength : w[i] \in BOOLEAN
  BY <1>5
<1>7. w[1] = port.invert
  <2>1. 1 \in 1 .. FrameLength /\ 1 - 1 = 0
    BY <1>2
  <2>2. level(0) = FALSE
    BY Zenon
  <2> HIDE DEF level
  <2>3. w[1] = (level(0) # port.invert)
    BY <1>5, <2>1, Zenon
  <2> QED BY <1>2, <2>2, <2>3
<1>8. w[FrameLength] = ~port.invert
  <2>1. FrameLength \in 1 .. FrameLength /\ FrameLength - 1 # 0 /\ ~(FrameLength - 1 <= n)
    BY <1>2
  <2>2. ~(FrameLength - 1 = n + 1 /\ HasParityBit)
    BY <1>2
  <2>3. level(FrameLength - 1) = TRUE
    BY <2>1, <2>2, Zenon DEF HasParityBit, n
  <2> HIDE DEF level
  <2>4. w[FrameLength] = (level(FrameLength - 1) # port.invert)
    BY <1>5, <2>1, Zenon
  <2> QED BY <1>2, <2>3, <2>4
<1>9. ASSUME NEW i \in 0 .. FrameLength - 1, ~(HasParityBit /\ i = ParityPlace)
      PROVE  w[i + 1] = FrameLevel(byte, ParityBitFor(byte, parity), i)
  <2>1. i + 1 \in 1 .. FrameLength /\ i + 1 - 1 = i
    BY <1>2, <1>9
  <2>2. FrameLevel(byte, ParityBitFor(byte, parity), i)
          = ((IF i = 0 THEN FALSE ELSE IF i \in 1 .. n THEN BitOf(byte, i - 1) ELSE TRUE) # port.invert)
    <3>1. ~(i = 0 /\ i \in 1 .. n) /\ ~(i = n + 1 /\ HasParityBit)
      BY <1>2, <1>9 DEF ParityPlace, n
    <3>2. CASE i = 0
      BY <3>1, <3>2, Zenon DEF FrameLevel, n
    <3>3. CASE i \in 1 .. n
      BY <3>1, <3>3, Zenon DEF FrameLevel, n
    <3>4. CASE i # 0 /\ i \notin 1 .. n
      BY <3>1, <3>4, Zenon DEF FrameLevel, n
    <3> QED BY <3>2, <3>3, <3>4
  <2>3. level(i) = IF i = 0 THEN FALSE ELSE IF i \in 1 .. n THEN BitOf(byte, i - 1) ELSE TRUE
    <3>1. CASE i = 0
      BY <3>1, Zenon
    <3>2. CASE i \in 1 .. n
      <4>1. i # 0 /\ i <= n /\ i - 1 \in 0 .. n - 1
        BY <1>2, <3>2
      <4>2. BitOf(x, i - 1) = ~BitOf(byte, i - 1)
        BY <1>4, <4>1, Zenon DEF Opposed
      <4>3. BitOf(byte, i - 1) \in BOOLEAN
        BY DEF BitOf
      <4> QED BY <3>2, <4>1, <4>2, <4>3, Zenon DEF n
    <3>3. CASE i # 0 /\ i \notin 1 .. n
      <4>1. ~(i <= n) /\ ~(i = n + 1 /\ HasParityBit)
        BY <1>2, <1>9, <3>3 DEF ParityPlace, n
      <4> QED BY <3>3, <4>1, Zenon DEF n, HasParityBit
    <3> QED BY <3>1, <3>2, <3>3
  <2> HIDE DEF level
  <2>a. PICK k \in 1 .. FrameLength : k = i + 1 /\ k - 1 = i
    BY <2>1
  <2>b. w[k] = (level(k - 1) # port.invert)
    BY <1>5, Zenon
  <2>4. w[i + 1] = (level(i) # port.invert)
    BY <2>a, <2>b, Zenon
  <2> QED BY <2>2, <2>3, <2>4, Zenon
<1>10. ASSUME n % 2 = 0, HasParityBit, byte < 2 ^ n
       PROVE  w[ParityPlace + 1] = (ParityBitFor(byte, parity) # port.invert)
  <2>1. ParityPlace + 1 \in 1 .. FrameLength /\ ParityPlace + 1 - 1 = n + 1 /\ n + 1 # 0 /\ ~(n + 1 <= n)
    BY <1>2, <1>10 DEF ParityPlace, n
  <2>2. level(n + 1) = ParityBitFor(byte, parity)
    <3>1. CASE parity # "none"
      BY <1>4, <1>10, <2>1, <3>1, Zenon DEF n, HasParityBit
    <3>2. CASE parity = "none"
      <4>1. ParityBitFor(byte, parity) = TRUE
        BY <3>2 DEF ParityBitFor
      <4>2. level(n + 1) = TRUE
        BY <2>1, <3>2, Zenon DEF n
      <4> HIDE DEF level
      <4> QED BY <4>1, <4>2
    <3> QED BY <3>1, <3>2
  <2> HIDE DEF level
  <2>a. PICK k \in 1 .. FrameLength : k = ParityPlace + 1 /\ k - 1 = n + 1
    BY <1>2, <2>1 DEF ParityPlace, n
  <2>b. w[k] = (level(k - 1) # port.invert)
    BY <1>5, Zenon
  <2>3. w[ParityPlace + 1] = (level(n + 1) # port.invert)
    BY <2>a, <2>b, Zenon
  <2> QED BY <2>2, <2>3, Zenon
<1> HIDE DEF level
<1> QED BY <1>3, <1>5, <1>6, <1>7, <1>8, <1>9, <1>10, Zenon DEF FrameRight, n

\* FramePlaces among the frames, by the length of a frame.
LEMMA FramePlaces ==
  ASSUME NEW F \in {7, 8, 9, 10, 11, 12}, NEW k \in Nat, NEW n \in Nat
  PROVE  /\ k * F \in Nat /\ (k + 1) * F = k * F + F /\ (k < n => (k + 1) * F <= n * F) /\ 0 * F = 0
         /\ (k > 0 => k * F > 0)
         /\ \A i \in 0 .. F - 1 :
               /\ (k * F + i) \div F = k /\ (k * F + i) % F = i
               /\ k < n => k * F + i + 1 \in 1 .. n * F
               /\ k * F + i + 1 <= n * F => (k + 1) * F <= n * F
<1>7. CASE F = 7
  <2>1. /\ k * 7 \in Nat /\ (k + 1) * 7 = k * 7 + 7 /\ (k < n => (k + 1) * 7 <= n * 7) /\ 0 * 7 = 0
        /\ (k > 0 => k * 7 > 0)
    OBVIOUS
  <2>2. ASSUME NEW i \in 0 .. 6
        PROVE  /\ (k * 7 + i) \div 7 = k /\ (k * 7 + i) % 7 = i
               /\ k < n => k * 7 + i + 1 \in 1 .. n * 7
               /\ k * 7 + i + 1 <= n * 7 => (k + 1) * 7 <= n * 7
    OBVIOUS
  <2>3. 7 - 1 = 6
    OBVIOUS
  <2> QED BY <1>7, <2>1, <2>2, <2>3, Zenon
<1>8. CASE F = 8
  <2>1. /\ k * 8 \in Nat /\ (k + 1) * 8 = k * 8 + 8 /\ (k < n => (k + 1) * 8 <= n * 8) /\ 0 * 8 = 0
        /\ (k > 0 => k * 8 > 0)
    OBVIOUS
  <2>2. ASSUME NEW i \in 0 .. 7
        PROVE  /\ (k * 8 + i) \div 8 = k /\ (k * 8 + i) % 8 = i
               /\ k < n => k * 8 + i + 1 \in 1 .. n * 8
               /\ k * 8 + i + 1 <= n * 8 => (k + 1) * 8 <= n * 8
    OBVIOUS
  <2>3. 8 - 1 = 7
    OBVIOUS
  <2> QED BY <1>8, <2>1, <2>2, <2>3, Zenon
<1>9. CASE F = 9
  <2>1. /\ k * 9 \in Nat /\ (k + 1) * 9 = k * 9 + 9 /\ (k < n => (k + 1) * 9 <= n * 9) /\ 0 * 9 = 0
        /\ (k > 0 => k * 9 > 0)
    OBVIOUS
  <2>2. ASSUME NEW i \in 0 .. 8
        PROVE  /\ (k * 9 + i) \div 9 = k /\ (k * 9 + i) % 9 = i
               /\ k < n => k * 9 + i + 1 \in 1 .. n * 9
               /\ k * 9 + i + 1 <= n * 9 => (k + 1) * 9 <= n * 9
    OBVIOUS
  <2>3. 9 - 1 = 8
    OBVIOUS
  <2> QED BY <1>9, <2>1, <2>2, <2>3, Zenon
<1>10. CASE F = 10
  <2>1. /\ k * 10 \in Nat /\ (k + 1) * 10 = k * 10 + 10 /\ (k < n => (k + 1) * 10 <= n * 10) /\ 0 * 10 = 0
        /\ (k > 0 => k * 10 > 0)
    OBVIOUS
  <2>2. ASSUME NEW i \in 0 .. 9
        PROVE  /\ (k * 10 + i) \div 10 = k /\ (k * 10 + i) % 10 = i
               /\ k < n => k * 10 + i + 1 \in 1 .. n * 10
               /\ k * 10 + i + 1 <= n * 10 => (k + 1) * 10 <= n * 10
    OBVIOUS
  <2>3. 10 - 1 = 9
    OBVIOUS
  <2> QED BY <1>10, <2>1, <2>2, <2>3, Zenon
<1>11. CASE F = 11
  <2>1. /\ k * 11 \in Nat /\ (k + 1) * 11 = k * 11 + 11 /\ (k < n => (k + 1) * 11 <= n * 11) /\ 0 * 11 = 0
        /\ (k > 0 => k * 11 > 0)
    OBVIOUS
  <2>2. ASSUME NEW i \in 0 .. 10
        PROVE  /\ (k * 11 + i) \div 11 = k /\ (k * 11 + i) % 11 = i
               /\ k < n => k * 11 + i + 1 \in 1 .. n * 11
               /\ k * 11 + i + 1 <= n * 11 => (k + 1) * 11 <= n * 11
    OBVIOUS
  <2>3. 11 - 1 = 10
    OBVIOUS
  <2> QED BY <1>11, <2>1, <2>2, <2>3, Zenon
<1>12. CASE F = 12
  <2>1. /\ k * 12 \in Nat /\ (k + 1) * 12 = k * 12 + 12 /\ (k < n => (k + 1) * 12 <= n * 12) /\ 0 * 12 = 0
        /\ (k > 0 => k * 12 > 0)
    OBVIOUS
  <2>2. ASSUME NEW i \in 0 .. 11
        PROVE  /\ (k * 12 + i) \div 12 = k /\ (k * 12 + i) % 12 = i
               /\ k < n => k * 12 + i + 1 \in 1 .. n * 12
               /\ k * 12 + i + 1 <= n * 12 => (k + 1) * 12 <= n * 12
    OBVIOUS
  <2>3. 12 - 1 = 11
    OBVIOUS
  <2> QED BY <1>12, <2>1, <2>2, <2>3, Zenon
<1> QED BY <1>7, <1>8, <1>9, <1>10, <1>11, <1>12

\* The levels of the frames of a message, and where they end.
FrameLevels(bytes, parity) ==
  [p \in 1 .. Len(bytes) * FrameLength |->
      FrameWord(bytes[(p - 1) \div FrameLength + 1], parity)[((p - 1) % FrameLength) + 1]]
FrameEnds(bytes) == {k * FrameLength : k \in 1 .. Len(bytes)}

\* The level of a bit of the frame of a byte.
LEMMA LevelAt ==
  ASSUME PortTyped, NEW bytes, Len(bytes) \in Nat, NEW parity, NEW k \in 0 .. Len(bytes) - 1, NEW i \in 0 .. FrameLength - 1
  PROVE  FrameLevels(bytes, parity)[k * FrameLength + i + 1] = FrameWord(bytes[k + 1], parity)[i + 1]
<1>1. FrameLength \in {7, 8, 9, 10, 11, 12}
  BY FrameBits
<1>2. k \in Nat /\ k < Len(bytes)
  OBVIOUS
<1>3. /\ k * FrameLength \in Nat /\ (k * FrameLength + i) \div FrameLength = k /\ (k * FrameLength + i) % FrameLength = i
      /\ k * FrameLength + i + 1 \in 1 .. Len(bytes) * FrameLength
  BY <1>1, <1>2, FramePlaces
<1>4. PICK p \in 1 .. Len(bytes) * FrameLength :
         p = k * FrameLength + i + 1 /\ (p - 1) \div FrameLength = k /\ (p - 1) % FrameLength = i
  <2>1. k * FrameLength + i + 1 - 1 = k * FrameLength + i
    BY <1>1, <1>3
  <2> QED BY <1>3, <2>1
<1>5. FrameLevels(bytes, parity)[p]
        = FrameWord(bytes[(p - 1) \div FrameLength + 1], parity)[((p - 1) % FrameLength) + 1]
  BY Zenon DEF FrameLevels
<1> QED BY <1>4, <1>5, Zenon

\* What holds while write() sends: the line carries the frames of the bytes before.
Carries ==
  /\ Len(message.bytes) > 0 /\ sender.bytes <= Len(message.bytes)
  /\ Sent(sender, sender.bytes * FrameLength, FrameLevels(message.bytes, message.parity), FrameEnds(message.bytes))
  /\ InFrame(sender, sender.bytes * FrameLength, sender.bytes * FrameLength, FrameEnds(message.bytes))

Carried ==
  /\ Len(sender.wave) = Len(message.bytes) * FrameLength
  /\ Driven(sender.wave, FrameLevels(message.bytes, message.parity), FrameEnds(message.bytes))
  /\ sender.pin = ~port.invert /\ sender.period = 0 /\ ~sender.enablePin

TransmitInv ==
  /\ PortTyped /\ OneDriver
  /\ message \in [bytes : Seq(Bytes), parity : ParityModes]
  /\ phase = "sending" => Carries
  /\ phase = "sent" => Carried

\* What the line carries is what was written.
LEMMA TransmitInvKeeps == TransmitInv => TransmitKept
<1> SUFFICES ASSUME TransmitInv PROVE TransmitKept
  OBVIOUS
<1>1. PortTyped /\ OneDriver /\ message.bytes \in Seq(Bytes) /\ Len(message.bytes) \in Nat /\ message.parity \in ParityModes
  BY DEF TransmitInv
<1>2. SUFFICES ASSUME AllSent PROVE TransmitKept
  BY <1>1 DEF TransmitKept, LineCarriesBytes, EdgesUndisturbed, ParityAsAsked
<1> DEFINE F == FrameLength
           N == Len(message.bytes)
           L == FrameLevels(message.bytes, message.parity)
           frame(k) == FrameWord(message.bytes[k + 1], message.parity)
<1>3. Carried
  BY <1>2 DEF TransmitInv, AllSent
<1>4. F \in {7, 8, 9, 10, 11, 12}
  BY <1>1, FrameBits
<1>5. ASSUME NEW k \in 0 .. N - 1, NEW i \in 0 .. F - 1
      PROVE  /\ k * F + i + 1 \in 1 .. Len(sender.wave)
             /\ BitAt(k, i).level = frame(k)[i + 1]
             /\ BitAt(k, i).interrupts => port.intTxEnabled \/ Calm(L, FrameEnds(message.bytes), k * F + i + 1)
  <2>1. k \in Nat /\ k < N
    BY <1>1
  <2>2. k * F + i + 1 \in 1 .. Len(sender.wave)
    BY <1>1, <1>3, <1>4, <2>1, FramePlaces DEF Carried
  <2>3. /\ sender.wave[k * F + i + 1].level = L[k * F + i + 1]
        /\ sender.wave[k * F + i + 1].interrupts => port.intTxEnabled \/ Calm(L, FrameEnds(message.bytes), k * F + i + 1)
    BY <1>3, <2>2, Zenon DEF Carried, Driven
  <2>4. L[k * F + i + 1] = frame(k)[i + 1]
    BY <1>1, LevelAt
  <2> QED BY <2>2, <2>3, <2>4, Zenon DEF BitAt
<1>6. ASSUME NEW k \in 0 .. N - 1 PROVE FrameRight(message.bytes[k + 1], message.parity, frame(k))
  <2>1. message.bytes[k + 1] \in Bytes
    BY <1>1
  <2> QED BY <1>1, <2>1, WordIsFrame
<1>7. LineCarriesBytes
  <2>1. ASSUME NEW k \in 0 .. N - 1, NEW i \in 0 .. F - 1
        PROVE  \/ BitAt(k, i).level
                    = FrameLevel(message.bytes[k + 1], ParityBitFor(message.bytes[k + 1], message.parity), i)
               \/ (HasParityBit /\ i = ParityPlace)
    BY <1>5, <1>6, Zenon DEF FrameRight
  <2> QED BY <1>3, <2>1, Zenon DEF LineCarriesBytes, Carried
<1>8. port.dataBits % 2 = 0 => ParityAsAsked
  <2>1. SUFFICES ASSUME port.dataBits % 2 = 0, HasParityBit, NEW k \in 0 .. N - 1,
                        message.bytes[k + 1] < 2 ^ port.dataBits
                 PROVE  BitAt(k, ParityPlace).level
                          = (ParityBitFor(message.bytes[k + 1], message.parity) # port.invert)
    BY Zenon DEF ParityAsAsked
  <2>2. ParityPlace \in 0 .. F - 1
    BY <1>1, <1>4, <2>1, FrameBits DEF ParityPlace
  <2> QED BY <1>5, <1>6, <2>1, <2>2, Zenon DEF FrameRight
<1>9. EdgesUndisturbed
  <2>1. SUFFICES ASSUME ~port.intTxEnabled, NEW k \in 0 .. N - 1, NEW i \in 0 .. F - 1,
                        BitAt(k, i).interrupts, NEW j \in i .. F - 1
                 PROVE  BitAt(k, j).level = BitAt(k, i).level
    BY Zenon DEF EdgesUndisturbed
  <2>2. Calm(L, FrameEnds(message.bytes), k * F + i + 1)
    BY <1>5, <2>1, Zenon
  <2>3. PICK t \in FrameEnds(message.bytes) : k * F + i + 1 <= t /\ \A q \in k * F + i + 1 .. t : L[q] = L[k * F + i + 1]
    BY <2>2 DEF Calm
  <2>4. PICK m \in 1 .. N : t = m * F
    BY DEF FrameEnds
  <2>5. j \in 0 .. F - 1 /\ k \in Nat /\ m \in Nat
    BY <1>1, <1>4
  <2>6. (k + 1) * F <= m * F /\ (k + 1) * F = k * F + F /\ k * F \in Nat /\ m * F \in Nat
    BY <1>4, <2>3, <2>4, <2>5, FramePlaces
  <2>7. k * F + j + 1 \in k * F + i + 1 .. t
    <3>1. k * F + j + 1 <= k * F + F
      BY <1>4, <2>5, <2>6
    <3> QED BY <1>4, <2>4, <2>5, <2>6, <3>1
  <2>8. L[k * F + j + 1] = L[k * F + i + 1]
    BY <2>3, <2>7, Zenon
  <2>9. L[k * F + j + 1] = frame(k)[j + 1]
    BY <1>1, <2>5, LevelAt
  <2>10. L[k * F + i + 1] = frame(k)[i + 1]
    BY <1>1, LevelAt
  <2> QED BY <1>5, <2>5, <2>8, <2>9, <2>10, Zenon
<1> QED BY <1>1, <1>7, <1>8, <1>9 DEF TransmitKept

\* A port that has not sent.
LEMMA TransmitInitOK == TransmitInit => TransmitInv
<1> SUFFICES ASSUME TransmitInit PROVE TransmitInv
  OBVIOUS
<1>1. message \in [bytes : Seq(Bytes), parity : ParityModes]
  <2>1. <<>> \in Seq(Bytes) /\ "none" \in ParityModes
    BY DEF ParityModes
  <2> QED BY <2>1 DEF TransmitInit, NoMessage
<1>2. PortTyped /\ OneDriver
  <2>1. PICK n \in WordLengths, mode \in ParityModes, stop \in 1 .. 2, invert \in BOOLEAN, intTx \in BOOLEAN,
             oneWire \in BOOLEAN :
          port = [dataBits |-> n, parityMode |-> mode, stopBits |-> stop, invert |-> invert,
                  intTxEnabled |-> intTx, oneWire |-> oneWire, txValid |-> TRUE,
                  rxEnabled |-> TRUE, drives |-> ~oneWire]
    BY Zenon DEF TransmitInit
  <2>2. (~oneWire) \in BOOLEAN
    OBVIOUS
  <2>3. PortTyped
    BY <2>1, <2>2 DEF PortTyped
  <2>4. OneDriver
    BY <2>1 DEF OneDriver
  <2> QED BY <2>3, <2>4
<1> QED BY <1>1, <1>2 DEF TransmitInit, TransmitInv

\* While the port stays as it is, so do the frames of a message.
LEMMA PortSame ==
  ASSUME port' = port
  PROVE  /\ FrameLength' = FrameLength
         /\ FrameLevels(message.bytes, message.parity)' = FrameLevels(message'.bytes, message'.parity)
         /\ FrameEnds(message.bytes)' = FrameEnds(message'.bytes)
<1>1. FrameLength' = FrameLength
  BY DEF FrameLength, HasParityBit
<1>2. FrameLevels(message.bytes, message.parity)' = FrameLevels(message'.bytes, message'.parity)
  <2>1. ASSUME NEW b, NEW p PROVE FrameWord(b, p)' = FrameWord(b, p)
    BY SMT DEF FrameWord
  <2> QED BY <1>1, <2>1, Zenon DEF FrameLevels
<1>3. FrameEnds(message.bytes)' = FrameEnds(message'.bytes)
  BY <1>1, Zenon DEF FrameEnds
<1> QED BY <1>1, <1>2, <1>3

\* What holds of the sender after a step holds in the next state.
LEMMA CarriesAfter ==
  ASSUME PortTyped, port' = port, NEW T, T = sender'.bytes * FrameLength, NEW L, L = FrameLevels(message'.bytes, message'.parity),
         NEW ends, ends = FrameEnds(message'.bytes),
         Len(message'.bytes) > 0, sender'.bytes <= Len(message'.bytes),
         Sent(sender', T, L, ends), InFrame(sender', T, T, ends)
  PROVE  Carries'
<1>1. /\ FrameLength' = FrameLength /\ FrameLevels(message.bytes, message.parity)' = L /\ FrameEnds(message.bytes)' = ends
  BY PortSame
<1>2. Driven(sender.wave, FrameLevels(message.bytes, message.parity), FrameEnds(message.bytes))'
  <2>1. \A p \in 1 .. Len(sender'.wave) :
           /\ sender'.wave[p].level = L[p]
           /\ sender'.wave[p].interrupts => port.intTxEnabled \/ Calm(L, ends, p)
    BY DEF Sent, Driven
  <2> QED BY <1>1, <2>1, SMT DEF Driven, Calm
<1>3. Sent(sender, sender.bytes * FrameLength, FrameLevels(message.bytes, message.parity), FrameEnds(message.bytes))'
  BY <1>1, <1>2, Zenon DEF Sent, Runs
<1>4. InFrame(sender, sender.bytes * FrameLength, sender.bytes * FrameLength, FrameEnds(message.bytes))'
  BY <1>1, Zenon DEF InFrame
<1> QED BY <1>3, <1>4 DEF Carries

\* The step of a port that is not sending: its format and its pins keep.
LEMMA EnableTxOK == ASSUME TransmitInv, NEW on \in BOOLEAN, EnableTx(on) PROVE TransmitInv'
<1>1. /\ PortTyped /\ OneDriver /\ phase = "idle" /\ phase' = "idle" /\ message' = message
      /\ message \in [bytes : Seq(Bytes), parity : ParityModes]
      /\ port' = IF port.txValid /\ port.oneWire THEN [port EXCEPT !.rxEnabled = ~on, !.drives = on] ELSE port
  BY DEF TransmitInv, EnableTx
<1>2. PortTyped' /\ OneDriver'
  <2>1. CASE port.txValid /\ port.oneWire
    <3>1. port' = [port EXCEPT !.rxEnabled = ~on, !.drives = on]
      BY <1>1, <2>1
    <3>2. port'.rxEnabled = ~on /\ port'.drives = on
      BY <1>1, <3>1 DEF PortTyped
    <3>3. PortTyped'
      BY <1>1, <3>1 DEF PortTyped
    <3> QED BY <3>2, <3>3 DEF OneDriver
  <2>2. CASE ~(port.txValid /\ port.oneWire)
    BY <1>1, <2>2 DEF PortTyped, OneDriver
  <2> QED BY <2>1, <2>2
<1> QED BY <1>1, <1>2 DEF TransmitInv

\* Interrupts may be let in at any time between two writes.
LEMMA EnableIntTxOK == ASSUME TransmitInv, NEW on \in BOOLEAN, EnableIntTx(on) PROVE TransmitInv'
<1>1. /\ PortTyped /\ OneDriver /\ phase = "idle" /\ phase' = "idle" /\ message' = message
      /\ message \in [bytes : Seq(Bytes), parity : ParityModes]
      /\ port' = [port EXCEPT !.intTxEnabled = on]
  BY DEF TransmitInv, EnableIntTx
<1>2. PortTyped' /\ OneDriver'
  BY <1>1 DEF PortTyped, OneDriver
<1> QED BY <1>1, <1>2 DEF TransmitInv

\* A port that has ended drives nothing.
LEMMA EndPortOK == ASSUME TransmitInv, EndPort PROVE TransmitInv'
<1>1. /\ PortTyped /\ OneDriver /\ phase = "idle" /\ phase' = "idle" /\ message' = message
      /\ message \in [bytes : Seq(Bytes), parity : ParityModes]
      /\ port' = [port EXCEPT !.txValid = FALSE, !.rxEnabled = FALSE]
  BY DEF TransmitInv, EndPort
<1>2. PortTyped' /\ OneDriver'
  BY <1>1 DEF PortTyped, OneDriver
<1> QED BY <1>1, <1>2 DEF TransmitInv

\* A write begins at rest, with nothing counted.
LEMMA WriteBeginsOK ==
  ASSUME TransmitInv, NEW bytes \in Seq(Bytes), Len(bytes) > 0, NEW parity \in ParityModes, WriteBegins(bytes, parity)
  PROVE  TransmitInv'
<1>1. /\ PortTyped /\ OneDriver /\ port' = port /\ message' = [bytes |-> bytes, parity |-> parity]
      /\ sender' = [Resting EXCEPT !.b = ~port.invert, !.enablePin = TRUE] /\ phase' = "sending"
  BY DEF TransmitInv, WriteBegins
<1>2. /\ message' \in [bytes : Seq(Bytes), parity : ParityModes] /\ message'.bytes = bytes /\ message'.parity = parity
      /\ Len(bytes) \in Nat
  BY <1>1
<1>3. /\ sender' \in Sender /\ sender'.wave = <<>> /\ sender'.period = 0 /\ sender'.dutyCycle = 0
      /\ sender'.offCycle = 0 /\ sender'.b = ~port.invert /\ sender'.bytes = 0
  <2>1. port.invert \in BOOLEAN
    BY <1>1 DEF PortTyped
  <2>2. <<>> \in Seq(Sample)
    OBVIOUS
  <2> QED BY <1>1, <2>1, <2>2 DEF Resting, NotSending, Sender
<1>4. 0 * FrameLength = 0 /\ FrameLength \in Nat
  BY <1>1, FrameBits
<1> DEFINE L == FrameLevels(bytes, parity)
           ends == FrameEnds(bytes)
<1>5. Sent(sender', 0, L, ends)
  <2> HIDE DEF L, ends
  <2>1. Driven(sender'.wave, L, ends)
    BY <1>3 DEF Driven
  <2>2. Runs(Len(sender'.wave), sender'.period, sender'.dutyCycle, sender'.offCycle, sender'.pin, L, 0)
    BY <1>3 DEF Runs
  <2> QED BY <1>3, <2>1, <2>2 DEF Sent
<1>6. InFrame(sender', 0, 0, ends)
  BY <1>3 DEF InFrame
<1>7. Carries'
  <2>1. L = FrameLevels(message'.bytes, message'.parity) /\ ends = FrameEnds(message'.bytes)
    BY <1>2
  <2>2. 0 = sender'.bytes * FrameLength /\ Len(message'.bytes) > 0 /\ sender'.bytes <= Len(message'.bytes)
    BY <1>2, <1>3, <1>4
  <2> HIDE DEF L, ends
  <2> QED BY <1>1, <1>5, <1>6, <2>1, <2>2, CarriesAfter
<1>8. PortTyped' /\ OneDriver'
  BY <1>1 DEF PortTyped, OneDriver
<1> QED BY <1>1, <1>2, <1>7, <1>8 DEF TransmitInv

\* A byte is sent as its frame.
LEMMA WriteByteOK == ASSUME TransmitInv, WriteByte PROVE TransmitInv'
<1> DEFINE F == FrameLength
           N == Len(message.bytes)
           L == FrameLevels(message.bytes, message.parity)
           ends == FrameEnds(message.bytes)
<1>1. /\ PortTyped /\ OneDriver /\ phase = "sending" /\ phase' = "sending" /\ port' = port /\ message' = message
      /\ message \in [bytes : Seq(Bytes), parity : ParityModes] /\ sender.bytes < N /\ N \in Nat /\ Carries
  BY DEF TransmitInv, WriteByte
<1>2. PICK k \in Nat : k = sender.bytes
  BY <1>1 DEF Carries, Sent, Sender
<1> DEFINE frame == FrameWord(message.bytes[k + 1], message.parity)
           n == [BitsSent(sender, frame) EXCEPT !.withStopBit = TRUE, !.bytes = @ + 1]
<1>3. sender' = n
  BY <1>2, Zenon DEF WriteByte
<1>4. k \in 0 .. N - 1 /\ k < N /\ k + 1 \in 1 .. N
  BY <1>1, <1>2
<1>5. F \in {7, 8, 9, 10, 11, 12} /\ F \in Nat \ {0} /\ F \in Nat
  BY <1>1, FrameBits
<1>6. FrameRight(message.bytes[k + 1], message.parity, frame)
  <2>1. message.bytes[k + 1] \in Bytes /\ message.parity \in ParityModes
    BY <1>1, <1>4
  <2> QED BY <1>1, <2>1, WordIsFrame
<1>7. /\ Len(frame) = F /\ frame[1] = port.invert /\ frame[F] = ~port.invert
      /\ \A i \in 1 .. F : frame[i] \in BOOLEAN
  BY <1>6, Zenon DEF FrameRight
<1>8. k * F \in Nat /\ (k + 1) * F = k * F + F
  BY <1>5, FramePlaces
<1>9. \A i \in 1 .. F : frame[i] = L[k * F + i]
  <2>1. TAKE i \in 1 .. F
  <2>2. PICK j \in 0 .. F - 1 : j + 1 = i
    <3>1. i - 1 \in 0 .. F - 1 /\ i - 1 + 1 = i
      BY <1>5
    <3> QED BY <3>1
  <2>3. L[k * F + j + 1] = frame[j + 1]
    BY <1>1, <1>4, LevelAt
  <2>4. k * F + j + 1 = k * F + i
    BY <1>5, <1>8, <2>2
  <2> QED BY <2>2, <2>3, <2>4, Zenon
<1>10. k * F + F \in ends
  BY <1>4, <1>8 DEF FrameEnds
<1>11. Sent(sender, k * F, L, ends) /\ InFrame(sender, k * F, k * F, ends)
  BY <1>1, <1>2 DEF Carries
<1> HIDE DEF frame, L, ends, F
<1>12. PICK t0 \in Nat : t0 = k * F
  BY <1>8
<1>13. /\ Sent(n, t0 + F, L, ends) /\ InFrame(n, t0 + F, t0 + F, ends)
       /\ n.bytes = sender.bytes + 1
  <2>1. /\ Len(frame) \in Nat \ {0} /\ frame[1] = port.invert /\ frame[Len(frame)] = ~port.invert /\ t0 + Len(frame) \in ends
        /\ \A i \in 1 .. Len(frame) : frame[i] \in BOOLEAN /\ frame[i] = L[t0 + i]
        /\ Sent(sender, t0, L, ends) /\ InFrame(sender, t0, t0, ends)
    BY <1>5, <1>7, <1>9, <1>10, <1>11, <1>12, Zenon
  <2> HIDE DEF n
  <2>2. LET m == [BitsSent(sender, frame) EXCEPT !.withStopBit = TRUE, !.bytes = @ + 1]
            t == t0 + Len(frame)
        IN  /\ Sent(m, t, L, ends) /\ InFrame(m, t, t, ends)
            /\ m.bytes = sender.bytes + 1 /\ m.enablePin = sender.enablePin
    BY <1>1, <2>1, FrameSent
  <2> QED BY <1>7, <2>2, Zenon DEF n
<1> HIDE DEF n
<1>14. Carries'
  <2>1. sender'.bytes = k + 1 /\ Len(message'.bytes) > 0 /\ sender'.bytes <= Len(message'.bytes)
    BY <1>1, <1>2, <1>3, <1>4, <1>13
  <2>2. PICK T : T = t0 + F
    OBVIOUS
  <2>3. T = sender'.bytes * FrameLength
    BY <1>8, <1>12, <2>1, <2>2, Zenon DEF F
  <2>4. L = FrameLevels(message'.bytes, message'.parity) /\ ends = FrameEnds(message'.bytes)
    BY <1>1 DEF L, ends
  <2>5. Sent(sender', T, L, ends) /\ InFrame(sender', T, T, ends)
    BY <1>3, <1>13, <2>2, Zenon
  <2> QED BY <1>1, <2>1, <2>3, <2>4, <2>5, CarriesAfter
<1>15. PortTyped' /\ OneDriver'
  BY <1>1 DEF PortTyped, OneDriver
<1> QED BY <1>1, <1>14, <1>15 DEF TransmitInv

\* The last period is driven to its end.
LEMMA WriteEndsOK == ASSUME TransmitInv, WriteEnds PROVE TransmitInv'
<1> DEFINE F == FrameLength
           N == Len(message.bytes)
           L == FrameLevels(message.bytes, message.parity)
           ends == FrameEnds(message.bytes)
           r == WritePeriod(sender, TRUE)
<1>1. /\ PortTyped /\ OneDriver /\ phase' = "sent" /\ port' = port /\ message' = message
      /\ message \in [bytes : Seq(Bytes), parity : ParityModes] /\ sender.bytes = N /\ N \in Nat /\ N > 0 /\ Carries
      /\ sender' = [r EXCEPT !.enablePin = FALSE]
  BY DEF TransmitInv, WriteEnds, Carries
<1>2. F \in {7, 8, 9, 10, 11, 12} /\ port.invert \in BOOLEAN
  BY <1>1, FrameBits
<1>3. N * F \in Nat /\ N * F > 0
  BY <1>1, <1>2, FramePlaces
<1>4. Sent(sender, N * F, L, ends) /\ InFrame(sender, N * F, N * F, ends)
  BY <1>1 DEF Carries
<1>5. N * F \in ends
  BY <1>1 DEF FrameEnds
<1> HIDE DEF L, ends, F
<1>6. PICK T \in Nat : T = N * F
  BY <1>3
<1>7. Sent(sender, T, L, ends) /\ InFrame(sender, T, T, ends) /\ T > 0 /\ T \in ends
  BY <1>3, <1>4, <1>5, <1>6
<1>8. sender.b = ~port.invert
  BY <1>7 DEF InFrame
<1>9. Boundary(sender, T, ends)
  <2>1. CASE port.invert
    BY <1>7, <2>1 DEF Boundary
  <2>2. CASE ~port.invert
    <3>1. sender.offCycle = 0
      BY <1>7, <1>8, <2>2 DEF Sent
    <3>2. T = Len(sender.wave) + sender.period + sender.dutyCycle + sender.offCycle /\ sender \in Sender
      BY <1>7 DEF Sent, Runs
    <3>3. Len(sender.wave) + sender.period + sender.dutyCycle = T
      BY <3>1, <3>2 DEF Sender
    <3> QED BY <1>7, <2>2, <3>3 DEF Boundary
  <2> QED BY <2>1, <2>2
<1>10. GoneTo(sender, r, T, L, ends) /\ r.period = 0 /\ r.pin = ~port.invert
  <2>1. sender.b # port.invert
    BY <1>2, <1>8
  <2>2. /\ GoneTo(sender, WritePeriod(sender, TRUE), T, L, ends)
        /\ TRUE /\ T > 0 /\ sender.b # port.invert
             => WritePeriod(sender, TRUE).period = 0 /\ WritePeriod(sender, TRUE).pin = ~port.invert
    BY <1>1, <1>7, <1>9, PeriodWritten
  <2> QED BY <1>7, <2>1, <2>2
<1> HIDE DEF r
<1>11. r \in Sender /\ Driven(r.wave, L, ends) /\ Len(r.wave) + r.period = T
  BY <1>10 DEF GoneTo
<1>12. /\ sender'.wave = r.wave /\ sender'.pin = r.pin /\ sender'.period = r.period /\ sender'.enablePin = FALSE
  BY <1>1, <1>11 DEF Sender
<1>13. Len(r.wave) = T
  BY <1>10, <1>11 DEF Sender
<1>14. Carried'
  <2>1. /\ FrameLength' = FrameLength /\ FrameLevels(message.bytes, message.parity)' = L /\ FrameEnds(message.bytes)' = ends
    BY <1>1, PortSame DEF L, ends
  <2>2. Driven(sender.wave, FrameLevels(message.bytes, message.parity), FrameEnds(message.bytes))'
    <3>1. \A p \in 1 .. Len(r.wave) :
             /\ r.wave[p].level = L[p]
             /\ r.wave[p].interrupts => port.intTxEnabled \/ Calm(L, ends, p)
      BY <1>11 DEF Driven
    <3> QED BY <1>1, <1>12, <2>1, <3>1, SMT DEF Driven, Calm
  <2> QED BY <1>1, <1>6, <1>10, <1>12, <1>13, <2>1, <2>2, Zenon DEF Carried, F
<1>15. PortTyped' /\ OneDriver'
  BY <1>1 DEF PortTyped, OneDriver
<1> QED BY <1>1, <1>14, <1>15 DEF TransmitInv

\* The port is at rest again.
LEMMA WriteReturnsOK == ASSUME TransmitInv, WriteReturns PROVE TransmitInv'
<1>1. PortTyped /\ OneDriver /\ phase' = "idle" /\ port' = port /\ message' = NoMessage
  BY DEF TransmitInv, WriteReturns
<1>2. message' \in [bytes : Seq(Bytes), parity : ParityModes]
  <2>1. <<>> \in Seq(Bytes) /\ "none" \in ParityModes
    BY DEF ParityModes
  <2> QED BY <1>1, <2>1 DEF NoMessage
<1>3. PortTyped' /\ OneDriver'
  BY <1>1 DEF PortTyped, OneDriver
<1> QED BY <1>1, <1>2, <1>3 DEF TransmitInv

\* The steps of the sending side.
LEMMA TransmitNextOK == TransmitInv /\ [TransmitNext]_transmitVars => TransmitInv'
<1> SUFFICES ASSUME TransmitInv, [TransmitNext]_transmitVars PROVE TransmitInv'
  OBVIOUS
<1>1. ASSUME NEW on \in BOOLEAN, EnableTx(on) PROVE TransmitInv'
  BY <1>1, EnableTxOK
<1>2. ASSUME NEW on \in BOOLEAN, EnableIntTx(on) PROVE TransmitInv'
  BY <1>2, EnableIntTxOK
<1>3. ASSUME EndPort PROVE TransmitInv'
  BY <1>3, EndPortOK
<1>4. ASSUME NEW parity \in ParityModes, NEW a \in Bytes, WriteBegins(<<a>>, parity) PROVE TransmitInv'
  <2>1. <<a>> \in Seq(Bytes) /\ Len(<<a>>) > 0
    OBVIOUS
  <2> QED BY <1>4, <2>1, WriteBeginsOK
<1>5. ASSUME NEW parity \in ParityModes, NEW a \in Bytes, NEW b \in Bytes, WriteBegins(<<a, b>>, parity) PROVE TransmitInv'
  <2>1. <<a, b>> \in Seq(Bytes) /\ Len(<<a, b>>) > 0
    OBVIOUS
  <2> QED BY <1>5, <2>1, WriteBeginsOK
<1>6. ASSUME WriteByte PROVE TransmitInv'
  BY <1>6, WriteByteOK
<1>7. ASSUME WriteEnds PROVE TransmitInv'
  BY <1>7, WriteEndsOK
<1>8. ASSUME WriteReturns PROVE TransmitInv'
  BY <1>8, WriteReturnsOK
<1>9. ASSUME UNCHANGED transmitVars PROVE TransmitInv'
  <2>1. port' = port /\ message' = message /\ sender' = sender /\ phase' = phase
    BY <1>9 DEF transmitVars
  <2>2. PortTyped' /\ OneDriver'
    BY <2>1 DEF TransmitInv, PortTyped, OneDriver
  <2>3. FrameLength' = FrameLength
    BY <2>1, PortSame
  <2>4. /\ FrameLevels(message.bytes, message.parity)' = FrameLevels(message.bytes, message.parity)
        /\ FrameEnds(message.bytes)' = FrameEnds(message.bytes)
    BY <2>1, PortSame
  <2>5. ASSUME Carries PROVE Carries'
    <3>1. PortTyped /\ Len(message'.bytes) > 0 /\ sender'.bytes <= Len(message'.bytes)
      BY <2>1, <2>5 DEF Carries, TransmitInv
    <3>2. PICK T, L, ends : /\ T = sender'.bytes * FrameLength /\ L = FrameLevels(message'.bytes, message'.parity)
                            /\ ends = FrameEnds(message'.bytes)
      OBVIOUS
    <3>3. Sent(sender', T, L, ends) /\ InFrame(sender', T, T, ends)
      BY <2>1, <2>5, <3>2 DEF Carries
    <3> QED BY <2>1, <3>1, <3>2, <3>3, CarriesAfter
  <2>6. ASSUME Carried PROVE Carried'
    <3>1. Driven(sender.wave, FrameLevels(message.bytes, message.parity), FrameEnds(message.bytes))'
      <4> DEFINE L == FrameLevels(message.bytes, message.parity)
                 ends == FrameEnds(message.bytes)
      <4>1. \A p \in 1 .. Len(sender.wave) :
               /\ sender.wave[p].level = L[p]
               /\ sender.wave[p].interrupts => port.intTxEnabled \/ Calm(L, ends, p)
        BY <2>6 DEF Carried, Driven
      <4>2. FrameLevels(message.bytes, message.parity)' = L /\ FrameEnds(message.bytes)' = ends
        BY <2>4
      <4> HIDE DEF L, ends
      <4> QED BY <2>1, <4>1, <4>2, SMT DEF Driven, Calm
    <3> QED BY <2>1, <2>3, <2>6, <3>1, Zenon DEF Carried
  <2>7. message' \in [bytes : Seq(Bytes), parity : ParityModes]
    BY <2>1 DEF TransmitInv
  <2> QED BY <2>1, <2>2, <2>5, <2>6, <2>7 DEF TransmitInv
<1> QED BY <1>1, <1>2, <1>3, <1>4, <1>5, <1>6, <1>7, <1>8, <1>9 DEF TransmitNext

\* Each byte is on the line as its frame, one after the other, with interrupts let in
\* only where no edge is still to come, and a shared pin has one driver: for words of
\* any length and any bytes.
THEOREM TransmitIsKept == TransmitSpec => []TransmitKept
<1>1. TransmitInit => TransmitInv
  BY TransmitInitOK
<1>2. TransmitInv /\ [TransmitNext]_transmitVars => TransmitInv'
  BY TransmitNextOK
<1>3. TransmitInv => TransmitKept
  BY TransmitInvKeeps
<1> QED BY <1>1, <1>2, <1>3, PTL DEF TransmitSpec
=============================================================================
