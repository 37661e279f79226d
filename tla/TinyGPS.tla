------------------------------ MODULE TinyGPS ------------------------------
(***************************************************************************)
(* TinyGPS++: encode() takes the characters of NMEA sentences one by one.  *)
(* A field is staged when its term ends and committed when the checksum of *)
(* its sentence is right.  Characters may be lost, so that a sentence may  *)
(* be cut anywhere.  A value is the number of the sentence it came in, and *)
(* a step is the end of a term, or the start of a sentence.                *)
(***************************************************************************)
EXTENDS Integers, Sequences

CONSTANTS MaySkip,       \* fields a sentence may leave empty
          Custom,        \* custom elements, each with its sentence name and term number
          Ends,          \* bound: the terms a checksum may follow
          MaxSentences,  \* bound: sentences
          MaxTerms       \* bound: terms of one sentence

VARIABLES sentence,    \* curSentenceType, curTermNumber, isChecksumTerm, sentenceHasFix, number
          staged,      \* rawNew..., newval, stagingBuffer
          committed,   \* the values the sketch reads
          elements,    \* customElts
          given,       \* history: fields this sentence has given
          accepted,    \* history: sentences whose checksum was right, and whether they had a fix
          skipped      \* history: fields committed that their sentence had not given

gpsVars == <<sentence, staged, committed, elements, given, accepted, skipped>>

\* Sentence names, in the order of strcmp.
GPGGA == 1
GPRMC == 2
GPVTG == 3

Customs == DOMAIN Custom

\* The field a term is staged in.
FieldOf(type, n) ==
    CASE n = 1                  -> "time"
      [] <<type, n>> \in {<<GPRMC, 2>>, <<GPGGA, 6>>} -> "fix"
      [] <<type, n>> \in {<<GPRMC, 3>>, <<GPGGA, 2>>} -> "latitude"
      [] <<type, n>> \in {<<GPRMC, 4>>, <<GPGGA, 3>>} -> "north"
      [] <<type, n>> \in {<<GPRMC, 5>>, <<GPGGA, 4>>} -> "longitude"
      [] <<type, n>> \in {<<GPRMC, 6>>, <<GPGGA, 5>>} -> "east"
      [] <<type, n>> = <<GPRMC, 7>> -> "speed"
      [] <<type, n>> = <<GPRMC, 8>> -> "course"
      [] <<type, n>> = <<GPRMC, 9>> -> "date"
      [] <<type, n>> = <<GPGGA, 7>> -> "satellites"
      [] <<type, n>> = <<GPGGA, 8>> -> "hdop"
      [] <<type, n>> = <<GPGGA, 9>> -> "altitude"
      [] OTHER -> "none"

\* parseDegrees clears the sign that the next term gives.
Sets(field) == CASE field = "latitude"  -> {"latitude", "north"}
                 [] field = "longitude" -> {"longitude", "east"}
                 [] OTHER               -> {field}

Location == {"latitude", "north", "longitude", "east"}
BuiltIn == Location \cup {"time", "speed", "course", "date", "satellites", "hdop", "altitude"}
Fields == BuiltIn \cup Customs

\* A custom element is none of the parser's own; strcmp orders the names of sentences.
ASSUME GpsAssumption ==
    /\ \A c \in Customs : Custom[c].name \in Int /\ Custom[c].term \in Int
    /\ Customs \cap BuiltIn = {}

GpsInit ==
    /\ sentence = [name |-> GPVTG, term |-> 0, isChecksum |-> FALSE, hasFix |-> FALSE, number |-> 0]
    /\ staged = [f \in Fields |-> 0]
    /\ committed = [f \in Fields |-> 0]
    /\ elements = <<>>
    /\ given = {} /\ accepted = {} /\ skipped = {}

\* '$'
Dollar ==
    /\ sentence.number < MaxSentences
    /\ \A c \in Customs : \E i \in 1 .. Len(elements) : elements[i] = c
    /\ sentence' = [name |-> GPVTG, term |-> 0, isChecksum |-> FALSE, hasFix |-> FALSE,
                    number |-> sentence.number + 1]
    /\ given' = {}
    /\ UNCHANGED <<staged, committed, elements, accepted, skipped>>

\* customCandidates: the run of elements with the name of the sentence.
First(name) == CHOOSE i \in 1 .. Len(elements) + 1 :
                  /\ i <= Len(elements) => Custom[elements[i]].name >= name
                  /\ \A j \in 1 .. i - 1 : Custom[elements[j]].name < name
Candidates(name) ==
    {elements[i] : i \in {j \in 1 .. Len(elements) :
        j >= First(name) /\ \A k \in First(name) .. j : Custom[elements[k]].name = name}}

\* What a sentence commits when its checksum is right.
CommittedBy(s) ==
    (CASE s.name = GPRMC -> {"date", "time"} \cup (IF s.hasFix THEN {"speed", "course"} \cup Location ELSE {})
       [] s.name = GPGGA -> {"time", "satellites", "hdop"} \cup (IF s.hasFix THEN {"altitude"} \cup Location ELSE {})
       [] OTHER -> {}) \cup Candidates(s.name)

\* The term after ',', '\r', '\n' or, with star, '*'.
NextTerm(s, star) == [s EXCEPT !.term = @ + 1, !.isChecksum = star]

\* Mutant: the checksum is counted but not asked.
CommittedAlways(right) ==
    [f \in Fields |-> IF f \in CommittedBy(sentence) THEN staged[f] ELSE committed[f]]

\* checksum == parity
Committed(right) ==
    [f \in Fields |-> IF right /\ f \in CommittedBy(sentence) THEN staged[f] ELSE committed[f]]

EndOfChecksum ==
    /\ sentence.isChecksum
    /\ \E right \in BOOLEAN :
          /\ committed' = Committed(right)
          /\ accepted' = IF right THEN accepted \cup {<<sentence.number, sentence.hasFix>>} ELSE accepted
          /\ skipped' = IF right THEN (skipped \ CommittedBy(sentence)) \cup (CommittedBy(sentence) \ given)
                        ELSE skipped
    /\ sentence' = NextTerm(sentence, FALSE)
    /\ UNCHANGED <<staged, elements, given>>

\* The first term names the sentence.
EndOfName ==
    /\ ~sentence.isChecksum /\ sentence.term = 0 /\ sentence.number > 0
    /\ \E name \in {GPGGA, GPRMC, GPVTG} : sentence' = NextTerm([sentence EXCEPT !.name = name], FALSE)
    /\ UNCHANGED <<staged, committed, elements, given, accepted, skipped>>

\* A term is staged unless it is empty; custom elements take empty ones too.
EndOfTerm ==
    LET field == IF sentence.name = GPVTG THEN "none" ELSE FieldOf(sentence.name, sentence.term)
        taken == {c \in Candidates(sentence.name) : Custom[c].term = sentence.term}
    IN
    /\ ~sentence.isChecksum /\ sentence.term \in 1 .. MaxTerms
    /\ \E empty \in IF field \in MaySkip THEN BOOLEAN ELSE {FALSE},
          star \in IF sentence.term \in Ends THEN BOOLEAN ELSE {FALSE} :
          LET set == (IF empty THEN {} ELSE Sets(field) \cap Fields) \cup taken IN
          /\ staged' = [f \in Fields |-> IF f \in set THEN sentence.number ELSE staged[f]]
          /\ given' = given \cup set
          /\ \E fix \in IF field = "fix" THEN BOOLEAN ELSE {sentence.hasFix} :
                sentence' = NextTerm([sentence EXCEPT !.hasFix = fix], star)
    /\ UNCHANGED <<committed, elements, accepted, skipped>>

\* TinyGPSCustom::begin: an element goes before the first one that is greater.
InsertCustom ==
    /\ sentence.number = 0 /\ sentence.term = 0
    /\ \E c \in Customs \ {elements[i] : i \in 1 .. Len(elements)} :
          LET before == {i \in 1 .. Len(elements) :
                            \A j \in 1 .. i : \/ Custom[elements[j]].name < Custom[c].name
                                              \/ Custom[elements[j]].name = Custom[c].name
                                                 /\ Custom[elements[j]].term <= Custom[c].term}
              k == IF before = {} THEN 0 ELSE CHOOSE i \in before : \A j \in before : j <= i
          IN  elements' = SubSeq(elements, 1, k) \o <<c>> \o SubSeq(elements, k + 1, Len(elements))
    /\ UNCHANGED <<sentence, staged, committed, given, accepted, skipped>>

GpsNext == Dollar \/ EndOfChecksum \/ EndOfName \/ EndOfTerm \/ InsertCustom

GpsSpec == GpsInit /\ [][GpsNext]_gpsVars

-----------------------------------------------------------------------------

\* Wherever sentences are cut, what the sketch reads came in a sentence whose
\* checksum was right, and a location in one that had a fix, unless the sentence
\* that committed it left the field empty: then the field shows what was staged
\* before, even by a sentence that failed its checksum.  And every custom
\* element that is inserted is found.
OnlyChecked ==
    /\ \A f \in Fields \ skipped :
          committed[f] = 0 \/ \E fix \in IF f \in Location THEN {TRUE} ELSE BOOLEAN : <<committed[f], fix>> \in accepted
    /\ \A f, g \in Location \ skipped : committed[f] = committed[g]
    /\ \A c \in Customs : (\E i \in 1 .. Len(elements) : elements[i] = c) => c \in Candidates(Custom[c].name)
=============================================================================
