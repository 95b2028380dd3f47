---------------------------- MODULE HouseholdSpec ----------------------------
(***************************************************************************)
(* What a household promises its callers: every operation takes effect at   *)
(* one instant, on the roster as it stands at that instant, under the       *)
(* authority its caller holds at that instant.  No locks, snapshots or      *)
(* statements appear here; HouseholdRoster is shown to implement this.      *)
(*                                                                          *)
(* Two operations promise less.  SoftDelete and Restore do not say that the *)
(* caller's authority still holds when they take effect: both read it       *)
(* before they wait for the household's row.                                *)
(***************************************************************************)
EXTENDS HouseholdRules

VARIABLES
    live,       \* households.deleted_at is null
    members,    \* household_members joined with household_roles
    banned,     \* users with a household_bans row
    grants      \* users holding the household's recovery grant

absVars == <<live, members, banned, grants>>

AbsInit ==
    /\ live = TRUE
    /\ members = Initial
    /\ banned = {}
    /\ grants = {}

UpdateMemberRole(actor, row, role) ==
    /\ live
    /\ row \in LiveRows(members) \ Owners(members)
    /\ UserOf[row] # actor
    /\ MayManage(members, actor, members[row])
    /\ MayManage(members, actor, role)
    /\ members' = [members EXCEPT ![row] = role]
    /\ UNCHANGED <<live, banned, grants>>

(* An owner hands the household to another member and becomes an admin. *)
TransferOwnership(own, row) ==
    /\ live
    /\ own \in Owners(members)
    /\ row \in LiveRows(members) \ Owners(members)
    /\ members' = [members EXCEPT ![own] = "HouseholdAdmin",
                                  ![row] = "HouseholdOwner"]
    /\ UNCHANGED <<live, banned, grants>>

(* A member goes, by leaving, being removed or being banned; never the last  *)
(* owner.                                                                    *)
Departs(row) ==
    /\ row \in LiveRows(members)
    /\ Owners(members) # {row}
    /\ members' = [members EXCEPT ![row] = "gone"]

Leave(row) ==
    /\ live
    /\ Departs(row)
    /\ UNCHANGED <<live, banned, grants>>

RemoveMember(actor, row) ==
    /\ live
    /\ MayManage(members, actor, members[row])
    /\ Departs(row)
    /\ UNCHANGED <<live, banned, grants>>

Admit(row, role) ==
    /\ live
    /\ members[row] = "unborn"
    /\ ~ IsMember(members, UserOf[row])
    /\ UserOf[row] \notin banned
    /\ Cardinality(LiveRows(members)) < Cap
    /\ members' = [members EXCEPT ![row] = role]
    /\ UNCHANGED <<live, banned, grants>>

Ban(actor, user) ==
    /\ live
    /\ user # actor
    /\ user \notin banned
    /\ MayBan(members, actor)
    /\ \/ ~ IsMember(members, user) /\ UNCHANGED members
       \/ \E row \in RowsOfUser(members, user) :
              MayManage(members, actor, members[row]) /\ Departs(row)
    /\ banned' = banned \cup {user}
    /\ UNCHANGED <<live, grants>>

Lift(actor, user) ==
    /\ live
    /\ user \in banned
    /\ MayBan(members, actor)
    /\ banned' = banned \ {user}
    /\ UNCHANGED <<live, members, grants>>

(* Every owner gets a way back when the deleter is one of them, and nobody   *)
(* does otherwise.                                                           *)
SoftDelete(actor) ==
    /\ live
    /\ live' = FALSE
    /\ grants' = IF actor \in UsersOf(Owners(members))
                   THEN UsersOf(Owners(members)) ELSE {}
    /\ UNCHANGED <<members, banned>>

(* A restore takes back every recovery grant the delete issued. *)
Restore ==
    /\ ~ live
    /\ live' = TRUE
    /\ grants' = {}
    /\ UNCHANGED <<members, banned>>

AbsNext ==
    \/ \E actor \in Users, row \in MemberIds, role \in AssignableRoles :
           UpdateMemberRole(actor, row, role)
    \/ \E own, row \in MemberIds : TransferOwnership(own, row)
    \/ \E row \in MemberIds : Leave(row)
    \/ \E actor \in Users, row \in MemberIds : RemoveMember(actor, row)
    \/ \E row \in MemberIds, role \in AssignableRoles : Admit(row, role)
    \/ \E actor, user \in Users : Ban(actor, user) \/ Lift(actor, user)
    \/ \E actor \in Users : SoftDelete(actor)
    \/ Restore

AbsSpec == AbsInit /\ [][AbsNext]_absVars

=============================================================================
