SPECIFICATION FairSpec
CONSTANTS
  Managers = {m1}
  Names = {n1}
  NoName = NoName
  Shapes = {"ok"}
  BornWithOwn = {TRUE}
  ForeignHold = {FALSE}
  Replicas = 1
  Forbidden = {}
  Rejected = {}
  MaxBorn = 1
  MaxVer = 1
  MaxFaults = 0
  MaxCrashes = 0
  MaxDrifts = 0
  MaxDrops = 0
PROPERTIES
  GoneIsForgotten
CHECK_DEADLOCK FALSE
