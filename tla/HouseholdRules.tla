--------------------------- MODULE HouseholdRules ---------------------------
(***************************************************************************)
(* What a household's roster is and who may do what to it: the roster rows  *)
(* and the conditions of the permission catalog that the household services *)
(* ask of a roster (libs/database/src/lib/catalog/permission.catalog.ts).   *)
(* A roster is a function from membership row ids to what the row holds.    *)
(* Row ids are never reused, so a row is "unborn" until its insert and      *)
(* "gone" after its delete; in between it holds the name of its role.       *)
(***************************************************************************)
EXTENDS Naturals, FiniteSets

CONSTANTS
    Users,      \* the people who may be, or act on, members
    Staff,      \* holders of the server staff's household permissions
    ServerOwners, \* those of them with manage:all, given at sign-up for good
    MemberIds,  \* ids of household_members rows, used and still to come
    UserOf,     \* whose row each id is: a membership's user never changes
    Cap,        \* the hard limit on household_member_count
    Initial     \* the roster the household starts from

(* ASSIGNABLE_HOUSEHOLD_ROLES: ownership is never assigned, only transferred. *)
AssignableRoles == {"HouseholdAdmin", "HouseholdMember", "HouseholdGuest"}

RoleNames == AssignableRoles \cup {"HouseholdOwner"}

Rosters == [MemberIds -> RoleNames \cup {"unborn", "gone"}]

LiveRows(roster) == {i \in MemberIds : roster[i] \in RoleNames}

Owners(roster) == {i \in MemberIds : roster[i] = "HouseholdOwner"}

UsersOf(rows) == {UserOf[i] : i \in rows}

RowsOfUser(roster, user) == {i \in LiveRows(roster) : UserOf[i] = user}

IsMember(roster, user) == RowsOfUser(roster, user) # {}

HoldsOneOf(roster, user, roles) ==
    \E i \in MemberIds : UserOf[i] = user /\ roster[i] \in roles

(* manage:household_member reaches every row for an owner, its :as-admin copy *)
(* only the member and guest roles, and staff's :administer copy is           *)
(* unconditioned.                                                             *)
MayManage(roster, actor, role) ==
    \/ actor \in Staff
    \/ HoldsOneOf(roster, actor, {"HouseholdOwner"})
    \/ /\ role \in {"HouseholdMember", "HouseholdGuest"}
       /\ HoldsOneOf(roster, actor, {"HouseholdOwner", "HouseholdAdmin"})

(* create:household_ban and delete:household_ban, or manage:all. *)
MayBan(roster, actor) ==
    \/ actor \in ServerOwners
    \/ HoldsOneOf(roster, actor, {"HouseholdOwner", "HouseholdAdmin"})

(* delete:household and its :administer copy. *)
MayDelete(roster, actor) ==
    actor \in Staff \/ HoldsOneOf(roster, actor, {"HouseholdOwner"})

(* household_members_household_id_user_id: one membership per user. *)
OneRowPerUser(roster) ==
    \A i, j \in LiveRows(roster) : UserOf[i] = UserOf[j] => i = j

(* The household starts with an owner, as HouseholdService.create founds it.   *)
(* Several owners are representable: the role is one row per member.           *)
ASSUME RulesAssumption ==
    /\ Staff \subseteq Users
    /\ UserOf \in [MemberIds -> Users]
    /\ IsFiniteSet(MemberIds)
    /\ Cap \in Nat
    /\ Initial \in Rosters
    /\ Owners(Initial) # {}
    /\ OneRowPerUser(Initial)

ASSUME ServerOwnersAssumption == ServerOwners \subseteq Staff

=============================================================================
