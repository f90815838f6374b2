\* The buffer of the program has three slots (MAX_IO_BUF_SIZE in rv32_io.h).
CONSTANTS
  MAX_IO_BUF_SIZE = 3
  Bytes = {b1, b2}
SPECIFICATION Spec
INVARIANTS TypeOK FlagsAgree
PROPERTY ImplementsFifo
