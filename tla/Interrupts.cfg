\* The keyboard, the cascade and the mouse; the ROM masks and unmasks the last.
SPECIFICATION Spec
CONSTANTS
  Lines = {1, 2, 12}
  Keys <- MCKeys
  Masks <- MCMasks
  RomLines = {12}
  OutputPort = 223
  MaxKeys = 3
  MaxCalls = 1
INVARIANTS
  VectorsAgree
  MaskKept
  ServiceEnds
  KeysAsHeld
PROPERTIES
  CtrlAltDelReboots
\* After the reset there is nothing.
CHECK_DEADLOCK FALSE
