\* Packets of two lines, numbered modulo eight.
SPECIFICATION StartSpec
CONSTANTS
  Names <- MCNames
  Files <- MCFiles
  PacketSize = 2
  PacketLimit = 8
  Autoexec <- Boot
INVARIANTS
  NothingLeftOpen
  RamDiskServed
  RunsTheScripts
  ReadsWhatIsWritten
PROPERTIES
  StopsAtFailure
  ProgramEnds
  WholeReplyKept
\* The program ends.
CHECK_DEADLOCK FALSE
