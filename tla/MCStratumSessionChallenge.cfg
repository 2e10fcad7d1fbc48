SPECIFICATION Safety
CONSTANTS
  MaxUpdates = 1
INVARIANTS
  ChallengeNotRaced
