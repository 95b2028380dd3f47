SPECIFICATION FairSpec
CONSTANTS
  ann = ann
  bob = bob
  r1 = r1
  w1 = w1
  t1 = t1
  t2 = t2
  t3 = t3
  Users = {ann, bob}
  Readers = {r1}
  Writers = {w1}
  Tokens = {t1, t2, t3}
  NoToken = NoToken
  BatchSize = 1
  Start = 0
  MaxVersion = 3
  Crashing = TRUE
CONSTRAINT AnnIsRead
INVARIANTS
  TypeOK
  ReadsKeepUp
  StaleIsExcused
  ProvisionedAreServed
PROPERTIES
  StalenessEnds
