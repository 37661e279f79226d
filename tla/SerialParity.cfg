\* EVEN parity of words of an odd number of bits.
CONSTANTS
  WordLengths = {7}
  Bytes = {1}
  MaxMessage = 1
SPECIFICATION TransmitSpec
INVARIANT ParityAsAsked
