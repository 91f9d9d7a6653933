\* The script the repository ships.
SPECIFICATION StartSpec
CONSTANTS
  Names <- ShippedNames
  Files <- ShippedFiles
  PacketSize = 2
  PacketLimit = 8
  Autoexec <- ShippedScript
INVARIANT
  CommandsKnown
\* The program ends.
CHECK_DEADLOCK FALSE
