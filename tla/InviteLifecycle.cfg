SPECIFICATION Spec
CONSTANTS
  ann = ann
  bob = bob
  cy = cy
  dee = dee
  a1 = a1
  b1 = b1
  c1 = c1
  i1 = i1
  i2 = i2
  i3 = i3
  r1 = r1
  r2 = r2
  Users = {ann, bob, cy, dee}
  Staff = {dee}
  ServerOwners = {dee}
  MemberIds = {a1, b1, c1}
  UserOf <- MCUserOf
  Cap = 3
  Initial <- MCInitial
  InviteIds = {i1, i2, i3}
  Terms <- ById
  Policies = {"Direct", "NeedsApproval"}
  Gates = {{}}
  Reqs = {r1, r2}
  Sweepers = {}
  Ops = {"create", "accept", "decline", "approve", "changeRoles"}
  Batch = 1
CONSTRAINT FewDemotions
SYMMETRY Symmetry
INVARIANTS
  TypeOK
PROPERTIES
  OnlyStandingInvitesAdmit
