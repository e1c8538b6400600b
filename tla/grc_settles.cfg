SPECIFICATION FairSpec
CONSTANTS
  Managers = {m1}
  Names = {n1}
  NoName = NoName
  Shapes = {"ok", "notemplate", "nostrategy"}
  MemberLists <- MixedLists
  Webhooks = TRUE
  MaxMembers = 1
  Forbidden = {}
  Rejected = {}
  MaxBorn = 1
  MaxVer = 2
  MaxFaults = 1
  MaxCrashes = 1
  MaxTouches = 1
  MaxDrops = 1
PROPERTIES
  GoneIsForgotten
  PanicsEnd
  FirstProvisioning
CHECK_DEADLOCK FALSE
