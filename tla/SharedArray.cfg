SPECIFICATION Spec
CONSTANTS
  n1 = n1
  n2 = n2
  n3 = n3
  Node = {n1, n2}
  Op = {a}
  a = a
  None = None
  Contests <- Takeover
  BeatTerms = {1, 2}
  MaxLog = 2
  MaxTimeouts = 1
  MaxOutages = 0
  MayRestart = FALSE
  Interleaved = TRUE
  Attentive = FALSE
  MaxPending = 0
INVARIANT HeartbeatsAreTheLeaders
CHECK_DEADLOCK FALSE
