SPECIFICATION Spec
CONSTANTS
  ann = ann
  bob = bob
  cy = cy
  a1 = a1
  b1 = b1
  b2 = b2
  c1 = c1
  c2 = c2
  r1 = r1
  r2 = r2
  Users = {ann, bob, cy}
  Staff = {bob}
  ServerOwners = {bob}
  MemberIds = {a1, b1, c1, c2}
  UserOf <- TwoRowsOfCy
  Cap = 2
  Initial <- CoOwners
  Reqs = {r1, r2}
  Ops = {"updateMemberRole", "transferOwnership", "removeMember", "leave", "admit", "ban", "lift", "delete", "restore"}
  OfferedRoles = {"HouseholdMember"}
  Crashing = FALSE
SYMMETRY Symmetry
INVARIANTS
  TypeOK
  OwnerKept
  BannedAreOut
  CapHeld
  RecoveryGrantsFit
  EveryChangeEvicts
PROPERTIES
  AuthorityHolds
  ImplementsHousehold
