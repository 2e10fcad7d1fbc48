SPECIFICATION Safety
CONSTANTS
  NSLOT = 2
  NJOB = 2
  NTiles = 3
  MaxReturn = 2
  MaxHits = 1
  TileHits = 1
  Seed = {s1, s2}
  Job = {j1, j2}
  NoSeed = NoSeed
  NoJob = NoJob
SYMMETRY Symmetry
INVARIANTS
  TypeOK
  SharesMatchState
  SweepExact
  StopWithinTiles
PROPERTIES
  KeepsContract
