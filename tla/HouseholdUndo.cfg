SPECIFICATION Spec
CONSTANTS
  ann = ann
  bob = bob
  cy = cy
  a1 = a1
  b1 = b1
  b2 = b2
  c1 = c1
  c2 = c2
  r1 = r1
  r2 = r2
  Users = {ann, bob, cy}
  Staff = {cy}
  ServerOwners = {cy}
  MemberIds = {a1, b1, c1}
  UserOf <- OneRowEach
  Cap = 3
  Initial <- Founded
  Reqs = {r1, r2}
  Ops = {"admit", "transferOwnership", "delete"}
  OfferedRoles = {"HouseholdMember"}
  Crashing = FALSE
CHECK_DEADLOCK FALSE
PROPERTIES
  OwnersCanUndo
