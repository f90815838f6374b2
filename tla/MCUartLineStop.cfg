\* One and a half stop bits.
CONSTANTS
  MAX_IO_BUF_SIZE = 2
  Words = {0, 243}
  Setups <- MCStopSetups
SPECIFICATION Spec
PROPERTY StopBitsSent
