\* Groups of at most three bytes, as long as a header; sizes modulo 5.
SPECIFICATION Spec
CONSTANTS
  MaxCode = 4
  Data <- MCData
  SizeLimit = 5
  LineSize = 2
  MaxPackets = 3
  MaxFaults = 2
INVARIANTS
  InOrderOnce
  UnhurtArrive
\* After the last packet nothing is left to do.
CHECK_DEADLOCK FALSE
