\* Two masters and two slaves: contention, and traffic past a blocked device.
CONSTANTS
  MC = 2
  SC = 2
  Data = {d1, d2}
  Unmapped = unmapped
  Live = {0}
  None = none
SPECIFICATION Spec
INVARIANTS TypeOK GrantConsistent
PROPERTY ImplementsAtomicPort
