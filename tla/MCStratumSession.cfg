SPECIFICATION Spec
CONSTANTS
  MaxUpdates = 3
INVARIANTS
  TypeOK
  WorkCurrent
  ToldLast
  WorkBehindEvent
PROPERTIES
  WorkNeverOlder
  LossNoticed
