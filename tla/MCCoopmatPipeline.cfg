SPECIFICATION Spec
CONSTANTS
  Workers = {w1, w2}
  MaxReturn = 3
  QMax = 2
INVARIANTS
  TypeOK
  Conservation
  SentAtMostOnce
  NothingLeftBehind
  StopBound
  FailureBound
PROPERTIES
  ImplementsRound
