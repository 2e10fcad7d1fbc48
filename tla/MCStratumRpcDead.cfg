SPECIFICATION Safety
CONSTANTS
  Calls = {c1, c2}
  Unawaited = Unawaited
INVARIANTS
  NobodyWaitsForTheDead
