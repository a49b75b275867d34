SPECIFICATION Spec
CONSTANTS
  n1 = n1
  n2 = n2
  n3 = n3
  a = a
  b = b
  photo = photo
  None = None
  Node = {n1, n2, n3}
  Name = {photo}
  Content = {a, b}
  Targets <- AllThree
  ReplicationFactor = 2
  Coordinators = {n1}
  Keepers = {n1}
  OneByOne = TRUE
  Fallible = {n2}
  MaxRestarts = 1
  MaxFailures = 1
  MaxChores = 2
INVARIANT TypeOK
INVARIANT RepairFindsItsFiles
INVARIANT ListedNodesStore
INVARIANT AcknowledgedStays
INVARIANT ReadsBack
INVARIANT ReadsAreStored
INVARIANT VersionsIdentifyContent
CHECK_DEADLOCK FALSE
