---------------------------- MODULE MCLibraries -----------------------------
(***************************************************************************)
(* The parts of the libraries that share no state with one another, each   *)
(* checked on its own in one run: the initial state picks the part that    *)
(* runs and the others stay in one of their initial states.                *)
(***************************************************************************)
EXTENDS LibrariesKept, MultiDelegate, LoRaRegisters, TLC

VARIABLE part   \* the part that runs

Parts == {"queue", "delegate", "multi", "buffer", "sync", "esp", "gps", "ui", "display", "text",
          "tls", "files", "radio", "transmit", "time", "star",
          "server"}

MCVals == {"a", "b"}
MCXs == {-1, 0, 2}
MCYs == {-9, -1, 0, 3, 8, 13, 23, 24}
MCLengths == {-1, 0, 1, 8, 13, 30}
MCCustom == [c1 |-> [name |-> GPRMC, term |-> 2], c2 |-> [name |-> GPGGA, term |-> 9]]

MCParentOf == [d |-> "/", dx |-> "d"]
MCPowers == {-3, 10, 18}

AnyPort == [dataBits |-> 8, parityMode |-> "none", stopBits |-> 1, invert |-> FALSE,
            intTxEnabled |-> TRUE, oneWire |-> FALSE, txValid |-> TRUE,
            rxEnabled |-> TRUE, drives |-> TRUE]

\* Only the part that runs has all its initial states.
LibrariesInit ==
    /\ part \in Parts
    /\ MPInit /\ (part = "queue" \/ m_buffer = [s \in Slots |-> "a"])
    /\ DelegateInit /\ GpsInit /\ BufferInit /\ TextInit
    /\ MultiInit /\ (part = "multi" \/ ~isQueue)
    /\ SyncInit /\ (part = "sync" \/ (~printer /\ client = "none"))
    /\ EspInit /\ (part = "esp" \/ ~deletes)
    /\ UiInit /\ (part = "ui" \/ ui.frameCount = 1)
    /\ DisplayInit /\ (part = "display" \/ buffer = {})
    /\ TlsInit /\ FileInit
    /\ RegisterInit /\ (part = "radio" \/ asked.pin = RF_PACONFIG_PASELECT_RFO)
    /\ TransmitInit /\ (part = "transmit" \/ port = AnyPort)
    /\ TimeInit /\ (part = "time" \/ clock = 0)
    /\ StarInit /\ (part = "star" \/ (loopPc["slave"] = "top" /\ ~ \E n \in Stars : isTold[n]))
    /\ ServerInit

\* The parts other than p.
Rest(p) ==
    /\ part' = part
    /\ IF p = "queue"    THEN TRUE ELSE UNCHANGED mpVars
    /\ IF p = "delegate" THEN TRUE ELSE UNCHANGED delegateVars
    /\ IF p = "multi"    THEN TRUE ELSE UNCHANGED multiVars
    /\ IF p = "buffer"   THEN TRUE ELSE UNCHANGED asyncBufferVars
    /\ IF p = "sync"     THEN TRUE ELSE UNCHANGED syncVars
    /\ IF p = "esp"      THEN TRUE ELSE UNCHANGED espVars
    /\ IF p = "gps"      THEN TRUE ELSE UNCHANGED gpsVars
    /\ IF p = "ui"       THEN TRUE ELSE UNCHANGED uiVars
    /\ IF p = "display"  THEN TRUE ELSE UNCHANGED displayVars
    /\ IF p = "text"     THEN TRUE ELSE UNCHANGED textVars
    /\ IF p = "tls"      THEN TRUE ELSE UNCHANGED tlsVars
    /\ IF p = "files"    THEN TRUE ELSE UNCHANGED fileVars
    /\ IF p = "radio"    THEN TRUE ELSE UNCHANGED registerVars
    /\ IF p = "transmit" THEN TRUE ELSE UNCHANGED transmitVars
    /\ IF p = "time"     THEN TRUE ELSE UNCHANGED timeVars
    /\ IF p = "star"     THEN TRUE ELSE UNCHANGED starVars
    /\ IF p = "server"   THEN TRUE ELSE UNCHANGED serverVars

LibrariesNext ==
    \/ part = "queue"    /\ MPNext       /\ Rest("queue")
    \/ part = "delegate" /\ DelegateNext /\ Rest("delegate")
    \/ part = "multi"    /\ MultiNext    /\ Rest("multi")
    \/ part = "buffer"   /\ BufferNext   /\ Rest("buffer")
    \/ part = "sync"     /\ SyncNext     /\ Rest("sync")
    \/ part = "esp"      /\ EspNext      /\ Rest("esp")
    \/ part = "gps"      /\ GpsNext      /\ Rest("gps")
    \/ part = "ui"       /\ UiNext       /\ Rest("ui")
    \/ part = "display"  /\ DisplayNext  /\ Rest("display")
    \/ part = "text"     /\ TextNext     /\ Rest("text")
    \/ part = "tls"      /\ TlsNext      /\ Rest("tls")
    \/ part = "files"    /\ FileNext     /\ Rest("files")
    \/ part = "radio"    /\ RegisterNext /\ Rest("radio")
    \/ part = "transmit" /\ TransmitNext /\ Rest("transmit")
    \/ part = "time"     /\ TimeNext     /\ Rest("time")
    \/ part = "star"     /\ StarNext     /\ Rest("star")
    \/ part = "server"   /\ ServerNext   /\ Rest("server")

libraryVars == <<part, mpVars, delegateVars, multiVars, asyncBufferVars, syncVars, espVars,
                 gpsVars, uiVars, displayVars, textVars, tlsVars, fileVars, registerVars,
                 transmitVars, timeVars, starVars, serverVars>>
LibrariesSpec == LibrariesInit /\ [][LibrariesNext]_libraryVars
=============================================================================
