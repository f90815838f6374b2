\* Lines with equal and with slightly different clocks, with and without noise.
CONSTANTS
  MAX_IO_BUF_SIZE = 2
  Words = {0, 243}
  Setups <- MCSetups
SPECIFICATION Spec
INVARIANT TypeOK
PROPERTIES ImplementsLine StopBitsSent NoiseDetected ErrorsHaveCause Drains
