SPECIFICATION FairSpec
CONSTANTS
  Managers = {m1}
  Names = {n1}
  NoName = NoName
  Args <- NoArgs
  MaxFailures = 1
  InstanceShapes = {"nocontainer"}
  ClusterShapes = {"ok"}
  BornWithOwn = {TRUE}
  ForeignHold = {FALSE}
  Replicas = 2
  MemberLists <- MixedLists
  Webhooks = TRUE
  MaxMembers = 1
  Forbidden = {}
  Rejected = {"Deployment"}
  MaxBorn = 1
  MaxVer = 1
  MaxDrifts = 0
  MaxInstanceDrops = 0
  MaxTouches = 0
  MaxClusterDrops = 0
INVARIANTS
  TypeOK
PROPERTIES
  InstancePart
  ClusterPart
  ClaimLostToNamesake
  
  DeletionCompletes
CHECK_DEADLOCK FALSE
