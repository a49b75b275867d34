SPECIFICATION FairSpec
CONSTANTS
  n1 = n1
  n2 = n2
  n3 = n3
  None = None
  Node = {n1, n2, n3}
  PeerURLs <- InOrder
  Primary = n1
  BackupOrder <- Backups
  Interval = 2
  SendTimeout = 5
  Timeout = 6
  MaxDelay = 0
  BootTimes = {0, 7}
  Faults = {"down", "silent"}
  MaxCrashes = 1
INVARIANT TypeOK
INVARIANT SuspectsForCause
PROPERTY PrimaryFirst
PROPERTY LostAreFailed
PROPERTY ServingAreAlive
PROPERTY ClientsAreServed
CHECK_DEADLOCK FALSE
