\* Extended memory begins at block 2, addresses are cut to 3 bits.
SPECIFICATION Spec
CONSTANTS
  MapItems = 2
  Extended = 2
  Wrap = 8
  Regions <- MCRegions
  Sizes = {1, 2, 3, 5}
  Codes = {1, 59}
  Signature = 5
INVARIANTS
  ImageInRam
  HandOver
PROPERTIES
  Ends
\* Programs end.
CHECK_DEADLOCK FALSE
