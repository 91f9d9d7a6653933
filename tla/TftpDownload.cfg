\* Packets of two bytes, numbered modulo four.
SPECIFICATION TftpSpec
CONSTANTS
  Names = {"changing", "exact", "empty", "long", "missing"}
  Files <- MCFiles
  PacketSize = 2
  PacketLimit = 4
INVARIANTS
  DeliversPrefix
  WholeOnSuccess
PROPERTIES
  DownloadEnds
\* After a download that failed the program ends.
CHECK_DEADLOCK FALSE
