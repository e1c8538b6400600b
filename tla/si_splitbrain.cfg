SPECIFICATION Spec
CONSTANTS
  Managers = {m1, m2}
  Names = {n1}
  NoName = NoName
  Shapes = {"ok"}
  BornWithOwn = {TRUE}
  ForeignHold = {FALSE}
  Replicas = 1
  Forbidden = {}
  Rejected = {"Service"}
  MaxBorn = 1
  MaxVer = 2
  MaxFaults = 0
  MaxCrashes = 0
  MaxDrifts = 0
  MaxDrops = 0
INVARIANTS
  NoCreateForTerminating
PROPERTIES
  SpecNeverReverted
CHECK_DEADLOCK FALSE
SYMMETRY Symmetry
