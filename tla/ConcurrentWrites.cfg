SPECIFICATION Spec
CONSTANTS
  n1 = n1
  n2 = n2
  n3 = n3
  a = a
  b = b
  photo = photo
  None = None
  Node = {n1, n2, n3}
  Name = {photo}
  Content = {a, b}
  Targets <- AllThree
  ReplicationFactor = 3
  Coordinators = {n1}
  Keepers = {n1}
  OneByOne = FALSE
  Fallible = {}
  MaxRestarts = 0
  MaxFailures = 0
  MaxChores = 0
INVARIANT VersionsIdentifyContent
CHECK_DEADLOCK FALSE
