SPECIFICATION Spec
CONSTANTS
  Calls = {c1, c2}
  Unawaited = Unawaited
INVARIANTS
  TypeOK
  OwnReply
  TablesClean
PROPERTIES
  WaitersWoken
  CallEnds
