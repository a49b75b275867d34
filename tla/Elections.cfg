SPECIFICATION Spec
CONSTANTS
  n1 = n1
  n2 = n2
  n3 = n3
  Node = {n1, n2, n3}
  Op = {a}
  a = a
  None = None
  Contests <- Rivals
  BeatTerms = {1}
  MaxLog = 0
  MaxTimeouts = 1
  MaxOutages = 0
  MayRestart = FALSE
  Interleaved = TRUE
  Attentive = FALSE
  MaxPending = 1
SYMMETRY Symmetry
INVARIANT ElectionSafety
INVARIANT LeaderHasMajority
INVARIANT NeverStranded
INVARIANT LeaderKeepsBeating
PROPERTY StepsDownOnlyForNewerTerm
PROPERTY LeadershipImplemented
CHECK_DEADLOCK FALSE
