SPECIFICATION FairMemSpec
CONSTANTS
  Q = 2
  WordSize = 2048
  Top = 17
  Ranges <- MCRanges
  Requests <- MCRequests
  Maps <- MCMaps
  Scratch = 3
  PointerPlaces = 3
INVARIANTS
  TypeOK
  
  LiveBlocksKept
  OnlyLiveIsAllocated
  CopyFits
  
  NothingLostSilently
  AbortSaysWhy
  PrintsAsAsked
PROPERTIES
  NoStomp
  MergedOnReturn
  ImplementsHeap
  CallReturns
