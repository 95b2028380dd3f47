SPECIFICATION FairSpec
CONSTANTS
  ann = ann
  bob = bob
  cy = cy
  a1 = a1
  b1 = b1
  b2 = b2
  c1 = c1
  c2 = c2
  r1 = r1
  r2 = r2
  Users = {ann, bob}
  Staff = {bob}
  ServerOwners = {bob}
  MemberIds = {a1, b1}
  UserOf <- OneRowOfBob
  Cap = 2
  Initial <- FoundedForBob
  Reqs = {r1, r2}
  Ops = {"leave", "delete", "restore",  "admit", "transferOwnership"}
  OfferedRoles = {"HouseholdMember"}
  Crashing = TRUE
PROPERTIES
  EveryRequestEnds
