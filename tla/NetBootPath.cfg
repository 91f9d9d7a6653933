\* A script that shows the file the shipped one would start.
SPECIFICATION StartSpec
CONSTANTS
  Names <- ShippedNames
  Files <- ShownFiles
  PacketSize = 2
  PacketLimit = 8
  Autoexec <- ShippedScript
INVARIANT
  DownloadIsFound
\* The program ends.
CHECK_DEADLOCK FALSE
