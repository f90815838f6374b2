\* CSR accesses with rd = x0.
CONSTANTS
  ByteBits = 4
  NRegs = 6
  MemWords = 24
  IOBase = 4096
  Sysctrl = 4096
  DevValues = 2
  MaxLatency = 2
  Programs <- MCCsrPrograms
  DataWords <- MCDataWords
SPECIFICATION Spec
PROPERTY CsrUpdated
