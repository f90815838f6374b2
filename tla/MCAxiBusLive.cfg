\* Master traffic to slave 0 must get through although slave 1 may never answer.
CONSTANTS
  MC = 2
  SC = 2
  Data = {d1}
  Unmapped = unmapped
  Live = {0}
  None = none
SPECIFICATION FairSpec
PROPERTY Completes
