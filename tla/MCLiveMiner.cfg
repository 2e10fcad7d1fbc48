SPECIFICATION Spec
CHECK_DEADLOCK FALSE
CONSTANTS
  j1 = j1
  j2 = j2
  j3 = j3
  NoJob = NoJob
  None = None
  Job <- MCJob
  Key <- MCKey
  Shape <- MCShape
  Tile <- MCTile
  PoolPattern <- MCPool
  WholeChunks = {4, 8}
  MaxHits = 2
INVARIANTS
  EvaluatorHoldsJob
  NoShareTooMany
PROPERTIES
  StopEnds
