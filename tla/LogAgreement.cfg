SPECIFICATION Spec
CONSTANTS
  n1 = n1
  n2 = n2
  n3 = n3
  Node = {n1, n2, n3}
  Op = {a}
  a = a
  None = None
  Contests <- Takeover
  BeatTerms = {1, 2}
  MaxLog = 2
  MaxTimeouts = 1
  MaxOutages = 0
  MayRestart = FALSE
  Interleaved = FALSE
  Attentive = FALSE
  MaxPending = 0
INVARIANT LogMatching
INVARIANT TermsOrdered
PROPERTY LeaderAppendOnly
PROPERTY CommitsAreHeld
PROPERTY AnswersAreTrue
CHECK_DEADLOCK FALSE
