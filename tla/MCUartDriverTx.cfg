CONSTANTS
  NU = 1
  Buttons = {button}
  MAX_IO_BUF_SIZE = 1
  MAX_UART_BUF_SIZE = 2
  RxBytes = {}
  TxBytes = {x, y}
  Newline = nl
  TERMINATE_CODE = ctrl_z
  None = none
  button = button

SPECIFICATION FairSpec
PROPERTIES TxDelivers Acknowledged
