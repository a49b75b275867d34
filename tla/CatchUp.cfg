SPECIFICATION FairSpec
CONSTANTS
  n1 = n1
  n2 = n2
  Node = {n1, n2}
  n3 = n3
  Op = {a}
  a = a
  None = None
  Contests <- Takeover
  BeatTerms = {1, 2}
  MaxLog = 1
  MaxTimeouts = 1
  MaxOutages = 1
  MayRestart = TRUE
  Interleaved = FALSE
  Attentive = TRUE
  MaxPending = 1
INVARIANT TypeOK
INVARIANT NeverStranded
INVARIANT LeaderKeepsBeating
PROPERTY FollowersCatchUp
PROPERTY StaleLeaderStepsDown
CHECK_DEADLOCK FALSE
