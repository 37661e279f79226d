---------------------------- MODULE LibrariesKept ----------------------------
(***************************************************************************)
(* What the parts of the libraries keep, those of one library together;    *)
(* each is stated in the module of its part.  The parts share no state:    *)
(* MCLibraries checks them in one run; Network_proofs and Libraries_proofs *)
(* prove some of it about the specification of each part.                  *)
(***************************************************************************)
EXTENDS CircularQueueMP, AsyncTCPbuffer, SyncClient, ESPAsyncTCP, TinyGPS,
        OLEDDisplayUi, OLEDDisplay, OLEDText, TcpSsl, FileSystem, SerialTransmit,
        TaskTime, EspNow, AsyncServer

\* No byte of a stream is lost, doubled or out of order in the buffers between
\* a sketch and a client (ESPAsyncTCPbuffer.cpp, SyncClient.cpp, AsyncPrinter.cpp).
StreamsKept == StreamKept /\ SyncKept

\* A callback tells lwIP of an abort, and what is unacknowledged is what lwIP
\* holds (ESPAsyncTCP.cpp).
EspClientKept == AbortReported /\ AckAccounted

\* The pixels of every shape, the place of every glyph and line, and the frames
\* that follow one another (OLEDDisplay.cpp, OLEDDisplayUi.cpp).
DisplayKept == PictureRight /\ TextKept /\ FramesFollow

\* The star sketches show whole messages, and a server loses no connection
\* (the ESP-NOW sketches, AsyncServer of AsyncTCP.cpp).
NetworkKept == EspNowKept /\ ServerKept
==============================================================================
