\* Clients that grow a block whatever lies before it.
SPECIFICATION SpecAnyClient
CONSTANTS
  Q = 2
  WordSize = 64
  Top = 17
  Ranges <- MCRanges
  Requests <- MCRequests
INVARIANTS
  GrownBlockKeepsItsHeader
