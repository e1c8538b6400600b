SPECIFICATION Spec
CONSTANTS
  Managers = {m1}
  Names = {n1}
  NoName = NoName
  Args <- NoArgs
  MaxFailures = 0
  InstanceShapes = {"ok"}
  ClusterShapes = {"ok"}
  BornWithOwn = {TRUE}
  ForeignHold = {FALSE}
  Replicas = 2
  MemberLists <- SizedLists
  Webhooks = TRUE
  MaxMembers = 1
  Forbidden = {}
  Rejected = {}
  MaxBorn = 1
  MaxVer = 1
  MaxDrifts = 0
  MaxInstanceDrops = 0
  MaxTouches = 0
  MaxClusterDrops = 0
PROPERTIES
  ClusterClaimKept
CHECK_DEADLOCK FALSE
