\* Fourteen bytes of ram disk in units of two, two names, one directory level.
SPECIFICATION Spec
CONSTANTS
  Names = {"a", "b"}
  HeaderSize <- MCHeaderSize
  Data = {"x"}
  Align = 2
  Lengths = {0, 1, 3}
  MaxBlock = 14
  MaxDepth = 2
INVARIANTS
  FindsWhatWasWritten
  LoadsWhatWasWritten
  OpenFileIsLast
PROPERTIES
  EarlierBytesKept
\* Nothing is left to do with an archive that has been destroyed.
CHECK_DEADLOCK FALSE
