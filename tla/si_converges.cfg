SPECIFICATION FairSpec
CONSTANTS
  Managers = {m1}
  Names = {n1}
  NoName = NoName
  Shapes = {"ok", "notemplate", "nocontainer"}
  BornWithOwn = {FALSE}
  ForeignHold = {FALSE}
  Replicas = 1
  Forbidden = {}
  Rejected = {}
  MaxBorn = 1
  MaxVer = 2
  MaxFaults = 1
  MaxCrashes = 0
  MaxDrifts = 1
  MaxDrops = 0
PROPERTIES
  SpecReachesDeployment
  
  FirstProvisioning
  DeletionCompletes
  MonotoneRollout
  SpecNeverReverted
CHECK_DEADLOCK FALSE
