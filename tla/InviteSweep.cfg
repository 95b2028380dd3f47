SPECIFICATION FairSpec
CONSTANTS
  ann = ann
  bob = bob
  cy = cy
  dee = dee
  a1 = a1
  b1 = b1
  c1 = c1
  i1 = i1
  i2 = i2
  i3 = i3
  r1 = r1
  r2 = r2
  Users = {ann, bob, cy}
  Staff = {}
  ServerOwners = {}
  MemberIds = {a1, b1, c1}
  UserOf <- MCUserOf
  Cap = 3
  Initial <- MCInitial
  InviteIds = {i1, i2}
  Terms <- FromWithin
  Policies = {"NeedsApproval"}
  Gates = {{}}
  Reqs = {r1, r2}
  Sweepers = {r2}
  Ops = {"create", "withdraw", "approve", "removeMember", "delete", "sweep"}
  Batch = 1
INVARIANTS
  NoInviteIntoDeleted
PROPERTIES
  SweepDrains
  OverdueSettles
