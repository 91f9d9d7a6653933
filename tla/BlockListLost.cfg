\* What is left of a block whose growth fails.
SPECIFICATION Spec
CONSTANTS
  Q = 2
  WordSize = 64
  Top = 17
  Ranges <- MCRanges
  Requests <- MCRequests
PROPERTIES
  FailedGrowthKeepsBlock
