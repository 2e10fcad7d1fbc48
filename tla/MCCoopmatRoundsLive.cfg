SPECIFICATION Spec
CONSTANTS
  NSLOT = 2
  NJOB = 2
  NTiles = 2
  MaxReturn = 1
  MaxHits = 1
  TileHits = 2
  Seed = {s1}
  Job = {j1, j2}
  NoSeed = NoSeed
  NoJob = NoJob
PROPERTIES
  StopEndsMining
  JobFollowed
