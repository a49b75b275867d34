SPECIFICATION FairSpec
CONSTANTS
  p1 = p1
  p2 = p2
  Peer = {p1, p2}
  Fanout = 1
  MaxRounds = 2
  Gossips <- Hearsay
  MaxFailures = 2
  Interleaved = TRUE
INVARIANT TypeOK
INVARIANT OncePerFailure
INVARIANT FirstFailureIsGossiped
PROPERTY SilentIsFailed
CHECK_DEADLOCK FALSE
