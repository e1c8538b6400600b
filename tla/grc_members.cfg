SPECIFICATION Spec
CONSTANTS
  Managers = {m1}
  Names = {n1}
  NoName = NoName
  Shapes = {"ok"}
  MemberLists <- ExampleLists
  Webhooks = TRUE
  MaxMembers = 2
  Forbidden = {}
  Rejected = {}
  MaxBorn = 1
  MaxVer = 1
  MaxFaults = 0
  MaxCrashes = 0
  MaxTouches = 0
  MaxDrops = 0
INVARIANTS
  EveryMemberConfigured
CHECK_DEADLOCK FALSE
