SPECIFICATION Spec
CONSTANTS
  c = c
  w = w
  c1 = c1
  c2 = c2
  w1 = w1
  Procs = {c, w}
  Coordinator = c
  Drivers = {c1, c2, w1}
  HostOf <- AHost
  None = None
  k1 = k1
  k2 = k2
  Configs = {k1, k2}
  Answers = {"none", "search"}
  Undeclared = "none"
  FailureThreshold = 1
  StoreAttempts = 2
  MaxInbox = 1
  Ops = {"connect", "reinterview", "backstop", "fail", "update", "delete", "lose", "disconnect", "shutdown", "restart"}
SYMMETRY Symmetry
CONSTRAINT OneThing
INVARIANTS
  TypeOK
  DriversAccountedFor
  AsksThroughOpenDrivers
PROPERTIES
  ChangesAreAnnounced
