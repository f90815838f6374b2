\* Registers of two bits a half; three counts between ticks.
CONSTANTS
  ByteBits = 4
  W = 4
  Divider = 2
  Interval = 3
  MaxTime = 12
SPECIFICATION FairSpec
INVARIANTS TypeOK DeadlineExact
PROPERTIES TwoWordsAreOne TickNotEarly TickComes
