SPECIFICATION FairSpec
CONSTANTS
  Sizes <- SomeSizes
  Chunks <- SomeChunks
  MinChunk = 2
  MaxChunk = 4
  Multiple = 2
  Attempts = 2
  ResendsAllowed = 1
  MaxFaults = 3
INVARIANTS DoneIsWhole PiecesAreTaken FailsForACause
PROPERTIES Ends
