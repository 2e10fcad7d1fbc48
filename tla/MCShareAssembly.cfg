SPECIFICATION Spec
CONSTANTS
  ChunkLen = 8
  BlockLen = 4
  HashBytes = 2
  JackpotSize = 2
  LRot = 3
  WordBits = 10
  ByteMod = 8
  NumDims = 3
  RowLists <- MCRowLists
  ColLists <- MCColLists
  Ms = {1, 4, 6}
  Ns = {2, 5, 8}
  Ks = {4, 12}
  Rank = 4
  Seeds = {3, 7}
  DigitMod = 16
  Diff1Target = 64
  Quantum = 4
  Difficulties = {0, 1, 5}
  NotifyTargets <- MCNotifyTargets
  Caps = {0, 1, 4}
  BatchSizes = {3}
INVARIANTS
  ProofAccepted
  KernelsAgree
  WireUnambiguous
  TreesAgree
  ConfigOnWire
  GridExact
  SearchersAgree
