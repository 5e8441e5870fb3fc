SPECIFICATION Spec
CONSTANTS
  Alphabet <- Characters
  MaxName = 4
  tosize = 10
INVARIANTS RoundTrip DecodesInPlace NeverOvertakes EncodedFits
CHECK_DEADLOCK FALSE
