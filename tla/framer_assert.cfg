CONSTANTS
  Byte <- MCByte
  Files <- BigUnitFile
  ChunkSizes = {2, 3, 4, 5}
  CacheSizes = {14}
SPECIFICATION Spec
INVARIANTS NaluNotEmpty
