CONSTANTS
  NU = 1
  Buttons = {}
  MAX_IO_BUF_SIZE = 1
  MAX_UART_BUF_SIZE = 1
  RxBytes = {nl}
  TxBytes = {x}
  Newline = nl
  TERMINATE_CODE = ctrl_z
  None = none

SPECIFICATION FairSpec
PROPERTY LineShows
