\* Binary digits, two of them after the sign, and an int with room for one more: every
\* number, memory and operator is reached.
CONSTANTS
  Base = 2
  MAX_7SEG_SIZE = 3
  DIV_ACCURACY = 2
  IntBits = 4
SPECIFICATION Spec
INVARIANTS TypeOK StateFits
PROPERTIES DisplayReads ResultExact DigitTakenBack
