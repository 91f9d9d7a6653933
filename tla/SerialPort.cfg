\* COM1 with an interrupt of its own that polls it, COM2 with one that does not.
SPECIFICATION Spec
CONSTANTS
  Ports = {0, 1}
  Configs <- MCConfigs
  BufferSize = 2
  FifoSize = 2
  Trigger = 2
  ReadSizes = {1, 2}
  MaxSignals <- MCSignals
INVARIANTS
  NothingTakenIsLost
PROPERTIES
  BytesAreTaken
  WaitEnds
\* A program none of whose ports came up has nothing to do.
CHECK_DEADLOCK FALSE
