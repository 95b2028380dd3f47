SPECIFICATION Spec
CONSTANTS
  hh = hh
  us = us
  r1 = r1
  r2 = r2
  r3 = r3
  Server = Server
  Units = {hh}
  ScopeOf <- AScope
  Slugs = {"p", "s"}
  Manifests = {"m1","m2","m3","m4"}
  Number <- ANumber
  Check <- ACheck
  Declares <- ADeclares
  Surface <- ASurface
  Reach <- AReach
  Accepts <- AAccepts
  Unusable = {}
  NeedsConfig = {"m3"}
  Configs = {"e"}
  Empty = "e"
  MaxRisk = 1
  Reqs = {r1, r2}
  Ops = {"decide", "stage", "enableHousehold"}
  First = "m1"
  Start = "living"
SYMMETRY Symmetry
INVARIANTS
  DeniedNeverServed
