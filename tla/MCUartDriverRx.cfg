CONSTANTS
  NU = 1
  Buttons = {}
  MAX_IO_BUF_SIZE = 1
  MAX_UART_BUF_SIZE = 2
  RxBytes = {nl, c}
  TxBytes = {x}
  Newline = nl
  TERMINATE_CODE = ctrl_z
  None = none
  c = c
SPECIFICATION Spec
INVARIANTS TypeOK NeverStalls NewLinesCounted
PROPERTIES RxDelivers WakeupLostOnlyByClear
