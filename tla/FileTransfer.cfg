SPECIFICATION FairSpec
CONSTANTS
  Players = {0, 1, 2}
  Host = 0
  Lacking = {1}
  Files <- IniAndMap
  Chunks <- TwoChunks
  MayFail <- MapOf1
  Dubious = {"map.ini"}
  Impatient = {1, 2}
  Repeated <- ChunkOfMap
INVARIANTS
  TypeOK
  StartsWithTheFiles
PROPERTIES
  ProgressIsKept
  EveryoneStarts
CHECK_DEADLOCK FALSE
