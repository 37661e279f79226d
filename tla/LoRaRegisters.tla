----------------------------- MODULE LoRaRegisters -----------------------------
(***************************************************************************)
(* lora/LoRa.cpp: the settings of the radio.  Several of them share a      *)
(* register, so a setter reads it, replaces its own bits and writes it     *)
(* back; sending and receiving change the header mode on the way.  The     *)
(* receive FIFO is read through a pointer the chip moves.                  *)
(*                                                                         *)
(* The chip is external: its registers after a reset, the bits that mean a *)
(* setting, and the pointer that moves on with each byte.                  *)
(***************************************************************************)
EXTENDS Integers, Sequences

CONSTANTS Factors,     \* spreading factors the sketch asks for
          Bandwidths,  \* bandwidths, in Hz
          Denominators,\* coding rates 4/d
          Powers,      \* transmit powers, in dBm
          Frequencies, \* frequencies, in Hz
          MaxRxLength  \* bound: length of a packet

\* The settings are numbers, a power of 8 bits, and the frequencies the radio is tuned to fit its registers.
ASSUME RegisterAssumption ==
    /\ Factors \cup Bandwidths \cup Denominators \subseteq Int /\ Powers \subseteq -128 .. 127
    /\ \A frequency \in Frequencies : frequency \in Nat /\ frequency < 1024 * 1000 * 1000
    /\ MaxRxLength \in Nat

VARIABLES reg,          \* the registers the settings are in
          _frequency, _implicitHeaderMode, _packetIndex,
          rxPacket,     \* REG_RX_NB_BYTES and where the FIFO pointer stands
          asked,        \* history: the settings as they were last asked for
          rxRead        \* history: positions of the bytes read of the packet

registerVars == <<reg, _frequency, _implicitHeaderMode, _packetIndex, rxPacket, asked, rxRead>>

RF_PACONFIG_PASELECT_PABOOST == 128   \* 0x80
RF_PACONFIG_PASELECT_RFO == 0
RF_PADAC_20DBM_ON == 7
RF_PADAC_20DBM_OFF == 4
PaPins == {RF_PACONFIG_PASELECT_PABOOST, RF_PACONFIG_PASELECT_RFO}

\* The field of a register that begins with the bit of value unit and has size values,
\* and the register with another value there: (register & ~mask) | (v * unit).
Field(register, unit, size) == (register \div unit) % size
WithField(register, unit, size, v) == register + ((v % size) - Field(register, unit, size)) * unit

Clipped(x, low, high) == IF x < low THEN low ELSE IF x > high THEN high ELSE x

-----------------------------------------------------------------------------
(* The setters, from the registers r to the next.                          *)

\* Mutant: the power goes over the old one, whose bits are not cleared.
TxPowerSetOver(r, power, outputPin) ==
    LET pa == WithField(WithField(r.PA_CONFIG, 128, 2, outputPin \div 128), 16, 8, 7)
        dac == IF outputPin = RF_PACONFIG_PASELECT_PABOOST
               THEN WithField(r.PaDac, 1, 8, IF power > 17 THEN RF_PADAC_20DBM_ON ELSE RF_PADAC_20DBM_OFF)
               ELSE r.PaDac
        out == IF outputPin # RF_PACONFIG_PASELECT_PABOOST THEN Clipped(power, -1, 14) + 1
               ELSE IF Field(dac, 1, 8) = RF_PADAC_20DBM_ON
               THEN Clipped(power, 5, 20) - 5 ELSE Clipped(power, 2, 17) - 2
    IN [r EXCEPT !.PA_CONFIG = (pa + out) % 256, !.PaDac = dac]

\* setTxPower: the pin, the highest step, the amplifier and the power bits.
TxPowerSet(r, power, outputPin) ==
    LET pa == WithField(WithField(r.PA_CONFIG, 128, 2, outputPin \div 128), 16, 8, 7)
        boosted == Field(pa, 128, 2) = 1
        dac == IF boosted
               THEN WithField(r.PaDac, 1, 8, IF power > 17 THEN RF_PADAC_20DBM_ON ELSE RF_PADAC_20DBM_OFF)
               ELSE r.PaDac
        out == IF ~boosted THEN Clipped(power, -1, 14) + 1
               ELSE IF Field(dac, 1, 8) = RF_PADAC_20DBM_ON
               THEN Clipped(power, 5, 20) - 5 ELSE Clipped(power, 2, 17) - 2
    IN [r EXCEPT !.PA_CONFIG = WithField(pa, 1, 16, out), !.PaDac = dac]

\* setTxPowerMax
TxPowerMaxSet(r, level) ==
    [r EXCEPT !.PA_CONFIG = RF_PACONFIG_PASELECT_PABOOST + (Clipped(level, 5, 20) - 5),
              !.PaDac = 135]

\* frequency * 2^19 / 32000000, in steps that fit.
Frf(frequency) == (frequency \div 15625) * 256 + ((frequency % 15625) * 256) \div 15625
\* setFrequency
FrequencySet(r, frequency) ==
    LET frf == Frf(frequency) IN
    [r EXCEPT !.FRF_MSB = ((frf \div 256) \div 256) % 256, !.FRF_MID = (frf \div 256) % 256,
              !.FRF_LSB = frf % 256]

\* setSpreadingFactor: 6 needs its own detection registers.
SpreadingFactorSet(r, factor) ==
    LET sf == Clipped(factor, 6, 12) IN
    [r EXCEPT !.DETECTION_OPTIMIZE = IF sf = 6 THEN 197 ELSE 195,
              !.DETECTION_THRESHOLD = IF sf = 6 THEN 12 ELSE 10,
              !.MODEM_CONFIG_2 = WithField(@, 16, 16, sf)]

\* setSignalBandwidth: the first step that is wide enough, or the last.
Steps == <<7800, 10400, 15600, 20800, 31250, 41700, 62500, 125000, 250000>>
BandwidthStep(sbw) ==
    IF \A i \in 1 .. 9 : sbw > Steps[i] THEN 9
    ELSE (CHOOSE i \in 1 .. 9 : sbw <= Steps[i] /\ \A j \in 1 .. (i - 1) : sbw > Steps[j]) - 1
SignalBandwidthSet(r, sbw) ==
    [r EXCEPT !.MODEM_CONFIG_1 = WithField(@, 16, 16, BandwidthStep(sbw))]

\* setCodingRate4
CodingRateSet(r, denominator) ==
    [r EXCEPT !.MODEM_CONFIG_1 = WithField(@, 2, 8, Clipped(denominator, 5, 8) - 4)]

\* enableCrc and disableCrc
CrcSet(r, on) == [r EXCEPT !.MODEM_CONFIG_2 = WithField(@, 4, 2, IF on THEN 1 ELSE 0)]

\* explicitHeaderMode and implicitHeaderMode
HeaderSet(r, implicit) == [r EXCEPT !.MODEM_CONFIG_1 = WithField(@, 1, 2, IF implicit THEN 1 ELSE 0)]

-----------------------------------------------------------------------------
(* What the registers mean to the chip.                                    *)

FactorOf(r) == Field(r.MODEM_CONFIG_2, 16, 16)
CrcOf(r) == Field(r.MODEM_CONFIG_2, 4, 2) = 1
StepOf(r) == Field(r.MODEM_CONFIG_1, 16, 16)
DenominatorOf(r) == Field(r.MODEM_CONFIG_1, 2, 8) + 4
ImplicitOf(r) == Field(r.MODEM_CONFIG_1, 1, 2) = 1
DetectsAs(r) == r.DETECTION_OPTIMIZE = 197 /\ r.DETECTION_THRESHOLD = 12
FrfOf(r) == (r.FRF_MSB * 256 + r.FRF_MID) * 256 + r.FRF_LSB
PinOf(r) == Field(r.PA_CONFIG, 128, 2) * 128
\* The power, as setTxPower counts it: from -1, from 2, or from 5 dBm on.
PowerOf(r) ==
    LET out == Field(r.PA_CONFIG, 1, 16) IN
    IF PinOf(r) = RF_PACONFIG_PASELECT_RFO THEN out - 1
    ELSE IF Field(r.PaDac, 1, 8) = RF_PADAC_20DBM_ON THEN out + 5 ELSE out + 2

-----------------------------------------------------------------------------
\* The registers after a reset, as the SX1276 has them.
AfterReset ==
    [MODEM_CONFIG_1 |-> 114, MODEM_CONFIG_2 |-> 112, PA_CONFIG |-> 79, PaDac |-> 132,
     DETECTION_OPTIMIZE |-> 195, DETECTION_THRESHOLD |-> 10,
     FRF_MSB |-> 108, FRF_MID |-> 128, FRF_LSB |-> 0]

\* begin() after the reset.
BeginRadio(frequency, PABOOST) ==
    LET pin == IF PABOOST THEN RF_PACONFIG_PASELECT_PABOOST ELSE RF_PACONFIG_PASELECT_RFO IN
    CrcSet(SignalBandwidthSet(SpreadingFactorSet(
        TxPowerSet(FrequencySet(AfterReset, frequency), 14, pin), 11), 125000), TRUE)

Nobody == [length |-> 0, pointer |-> 0]

RegisterInit ==
    \E frequency \in Frequencies, PABOOST \in BOOLEAN :
        /\ reg = BeginRadio(frequency, PABOOST)
        /\ _frequency = frequency /\ _implicitHeaderMode = FALSE /\ _packetIndex = 0
        /\ rxPacket = Nobody /\ rxRead = <<>>
        /\ asked = [factor |-> 11, step |-> 7, denominator |-> 5, crc |-> TRUE,
                    pin |-> IF PABOOST THEN RF_PACONFIG_PASELECT_PABOOST
                            ELSE RF_PACONFIG_PASELECT_RFO,
                    power |-> 14]

receiveVars == <<_packetIndex, rxPacket, rxRead>>
Setting(r, a) ==
    /\ reg' = r /\ asked' = a
    /\ UNCHANGED <<_frequency, _implicitHeaderMode>> /\ UNCHANGED receiveVars

\* The power a pin can give of what is asked.
Within(power, pin) ==
    IF pin = RF_PACONFIG_PASELECT_RFO THEN Clipped(power, -1, 14) ELSE Clipped(power, 2, 20)

SetTxPower(power, pin) ==
    Setting(TxPowerSet(reg, power, pin), [asked EXCEPT !.power = Within(power, pin), !.pin = pin])
SetTxPowerMax(level) ==
    Setting(TxPowerMaxSet(reg, level),
         [asked EXCEPT !.power = Clipped(level, 5, 20), !.pin = RF_PACONFIG_PASELECT_PABOOST])
SetSpreadingFactor(sf) ==
    Setting(SpreadingFactorSet(reg, sf), [asked EXCEPT !.factor = Clipped(sf, 6, 12)])
SetSignalBandwidth(sbw) ==
    Setting(SignalBandwidthSet(reg, sbw), [asked EXCEPT !.step = BandwidthStep(sbw)])
SetCodingRate4(d) ==
    Setting(CodingRateSet(reg, d), [asked EXCEPT !.denominator = Clipped(d, 5, 8)])
SetCrc(on) == Setting(CrcSet(reg, on), [asked EXCEPT !.crc = on])

SetFrequency(frequency) ==
    /\ reg' = FrequencySet(reg, frequency) /\ _frequency' = frequency
    /\ UNCHANGED <<_implicitHeaderMode, asked>> /\ UNCHANGED receiveVars

\* beginPacket(implicitHeader), parsePacket(size) without a packet and
\* receive(size): a size is of a packet without a header.
SetHeaderMode(implicit) ==
    /\ reg' = HeaderSet(reg, implicit) /\ _implicitHeaderMode' = implicit
    /\ UNCHANGED <<_frequency, asked>> /\ UNCHANGED receiveVars

-----------------------------------------------------------------------------
(* Reading a packet.                                                       *)

\* parsePacket or handleDio0Rise finds a packet: the pointer is put on it.
PacketFound(length) ==
    /\ rxPacket' = [length |-> length, pointer |-> 0]
    /\ _packetIndex' = 0 /\ rxRead' = <<>>
    /\ UNCHANGED <<reg, _frequency, _implicitHeaderMode, asked>>

Available == rxPacket.length - _packetIndex

\* read(): the chip moves the pointer on.
ReadByte ==
    /\ Available # 0
    /\ _packetIndex' = _packetIndex + 1
    /\ rxPacket' = [rxPacket EXCEPT !.pointer = @ + 1]
    /\ rxRead' = Append(rxRead, rxPacket.pointer)
    /\ UNCHANGED <<reg, _frequency, _implicitHeaderMode, asked>>

\* peek(): the byte is read, and the pointer put back.
PeekByte ==
    /\ Available # 0
    /\ LET currentAddress == rxPacket.pointer IN
       rxPacket' = [rxPacket EXCEPT !.pointer = currentAddress]
    /\ UNCHANGED <<reg, _frequency, _implicitHeaderMode, _packetIndex, asked, rxRead>>

RegisterNext ==
    \/ \E power \in Powers, pin \in PaPins : SetTxPower(power, pin)
    \/ \E level \in Powers : SetTxPowerMax(level)
    \/ \E sf \in Factors : SetSpreadingFactor(sf)
    \/ \E sbw \in Bandwidths : SetSignalBandwidth(sbw)
    \/ \E d \in Denominators : SetCodingRate4(d)
    \/ \E on \in BOOLEAN : SetCrc(on) \/ SetHeaderMode(on)
    \/ \E frequency \in Frequencies : SetFrequency(frequency)
    \/ \E length \in 1 .. MaxRxLength : PacketFound(length)
    \/ ReadByte \/ PeekByte

RegisterSpec == RegisterInit /\ [][RegisterNext]_registerVars

-----------------------------------------------------------------------------
\* Whatever order the setters are called in, the chip works with what each
\* setting was last asked to be, and with the header mode the driver knows.
SettingsKept ==
    /\ FactorOf(reg) = asked.factor /\ (DetectsAs(reg) <=> asked.factor = 6)
    /\ StepOf(reg) = asked.step
    /\ DenominatorOf(reg) = asked.denominator
    /\ CrcOf(reg) = asked.crc
    /\ PinOf(reg) = asked.pin /\ PowerOf(reg) = asked.power
    /\ ImplicitOf(reg) = _implicitHeaderMode
    /\ FrfOf(reg) = Frf(_frequency)

\* A packet is read from its first byte on, each byte once, not past its end.
ReadInTurn ==
    /\ Len(rxRead) <= rxPacket.length
    /\ \A i \in DOMAIN rxRead : rxRead[i] = i - 1
RadioKept == SettingsKept /\ ReadInTurn
=============================================================================
