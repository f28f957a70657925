\* Every size up to past the second overflow, for every size the peer now has.
SPECIFICATION FairSpec
CONSTANTS
  ChunkSize = 3
  IntLimit = 12
  FileSizes <- Sizes
  DiskSizes = {0, 5, 40}
INVARIANTS TypeOK BytesInPlace FinishedIsWritten CoveredBelowLimit
PROPERTY Ends
