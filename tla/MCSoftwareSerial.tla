-------------------------- MODULE MCSoftwareSerial --------------------------
EXTENDS SoftwareSerialProps, TLC
\* The bounds of the run are those the theorems assume.
ASSUME MCPaced == Paced
\* One with an edge at every second bit, one with none after the start bit.
MCWords == {[byte |-> 1, parity |-> FALSE], [byte |-> 3, parity |-> TRUE]}
=============================================================================
