SPECIFICATION Spec
CONSTANTS
  p1 = p1
  p2 = p2
  Peer = {p1, p2}
  Fanout = 2
  MaxRounds = 3
  Gossips <- NoGossip
  MaxFailures = 2
  Interleaved = TRUE
INVARIANT RecoveryKeepsUp
CHECK_DEADLOCK FALSE
