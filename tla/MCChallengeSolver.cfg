SPECIFICATION Spec
CHECK_DEADLOCK FALSE
CONSTANTS
  Workers = 2
  Inner = 2
  MaxNonce = 3
  ByteBits = 2
  Digests <- MCDigests
  Difficulties = {1, 2, 3}
  MaxDeaths = 2
INVARIANTS
  NonceValid
  NoWinnerSkipped
PROPERTIES
  Solved
