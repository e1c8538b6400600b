SPECIFICATION Spec
CONSTANTS
  Managers = {m1}
  Names = {n1}
  NoName = NoName
  Shapes = {"ok"}
  BornWithOwn = {TRUE, FALSE}
  ForeignHold = {TRUE, FALSE}
  Replicas = 1
  Forbidden = {}
  Rejected = {}
  MaxBorn = 2
  MaxVer = 1
  MaxFaults = 1
  MaxCrashes = 1
  MaxDrifts = 0
  MaxDrops = 1
INVARIANTS
  TypeOK
  NoOrphanedWorkload
  NoCreateForTerminating
PROPERTIES
  LiveWorkloadKept
  ImplementsLifecycle
CHECK_DEADLOCK FALSE
