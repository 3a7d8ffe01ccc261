CONSTANTS
  Byte <- MCByte
  Files <- MCFile
  ChunkSizes = {1, 2, 3, 5}
  CacheSizes = {14, 20}
SPECIFICATION Spec
INVARIANTS TypeOK SendsCompleteUnits PassSendsAllUnits NothingRefused AbortsOnEmptyUnit CacheDrained OverlapNeedsShortUnit
