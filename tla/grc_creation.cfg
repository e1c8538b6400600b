SPECIFICATION Spec
CONSTANTS
  Managers = {m1, m2}
  Names = {n1}
  NoName = NoName
  Shapes = {"ok", "nocluster", "notemplate", "nostrategy"}
  MemberLists <- MixedLists
  Webhooks = TRUE
  MaxMembers = 1
  Forbidden = {}
  Rejected = {}
  MaxBorn = 2
  MaxVer = 1
  MaxFaults = 1
  MaxCrashes = 1
  MaxTouches = 0
  MaxDrops = 0
INVARIANTS
  TypeOK
  OneCreator
  StatefulSetConfigured
SYMMETRY Symmetry
CHECK_DEADLOCK FALSE
