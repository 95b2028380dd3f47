SPECIFICATION Spec
CONSTANTS
  hh = hh
  us = us
  r1 = r1
  r2 = r2
  r3 = r3
  Server = Server
  Units = {hh, us}
  ScopeOf <- AScope
  Slugs = {"p", "s"}
  Manifests = {"m1","m2","m3","m4","m5"}
  Number <- ANumber
  Check <- ACheck
  Declares <- ADeclares
  Surface <- ASurface
  Reach <- AReach
  Accepts <- AAccepts
  Unusable = {"m5"}
  NeedsConfig = {"m3"}
  Configs = {"e","c"}
  Empty = "e"
  MaxRisk = 1
  Reqs = {r1, r2}
  Ops = {"decide", "revoke", "stage", "approve", "reject", "enableHousehold", "setUserEnabled", "reclassify", "uninstall", "install", "updateHouseholdConfig", "updateConfig", "disableHousehold", "setEnabled"}
  First = "m1"
  Start = "never"
SYMMETRY Symmetry
CONSTRAINT OneThing
INVARIANTS
  TypeOK
  DenialsSuspend
  ServerConsentHolds
  ConsentIsAskedFor
  ServedConfigConforms
PROPERTIES
  ClearedOnlyWithConsent
  ApprovedIsReviewed
