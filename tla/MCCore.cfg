\* A core of 16 bits.
CONSTANTS
  ByteBits = 4
  NRegs = 6
  MemWords = 24
  IOBase = 4096
  Sysctrl = 4096
  DevValues = 2
  MaxLatency = 2
  Programs <- MCPrograms
  DataWords <- MCDataWords
SPECIFICATION FairSpec
INVARIANTS TypeOK InBounds Regular StepsOneInstruction
PROPERTIES ImplementsIsa InterruptTaken StepCompletes
