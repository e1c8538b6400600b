SPECIFICATION Spec
CONSTANTS
  Callers = {c1, c2}
  Servers = {s1, s2}
  Behind = {s1, s2}
  RootPassword = "MYSQL_ROOT_PASSWORD"
  Calls = {"initializeCluster", "ModifyRootPassword", "GetGTID"}
  Sources = {1}
  MaxTx = 3
  MaxFaults = 1
  MaxAnswers = 2
INVARIANTS
  TypeOK
  HandlesClosed
  
  BootstrapPrepared
  MostAdvancedElected
SYMMETRY Symmetry
CHECK_DEADLOCK FALSE
