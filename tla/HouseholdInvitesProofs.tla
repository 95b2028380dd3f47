----------------------- MODULE HouseholdInvitesProofs -----------------------
(***************************************************************************)
(* What is promised of the invites into a household, for every set of users, *)
(* invites and concurrent requests.  InvitesInv is inductive: a request     *)
(* that holds the household's row, or a row of its own, finds what it read  *)
(* unchanged when it commits, because every commit of another request       *)
(* changes only what that request's own locks allow.                        *)
(***************************************************************************)
EXTENDS HouseholdInvites, FiniteSetTheorems, TLAPS

USE RulesAssumption, InvitesAssumption

(* Inside a transaction. *)
InTx(r) == pc[r] \notin {"idle", "waiting", "announce"}

Transitions == {"accept", "decline", "withdraw", "revoke", "approve"}
Closings == {"leave", "removeMember", "ban", "delete"}
Scans == {"find1", "lock1", "find2", "lock2"}

(* The stages an operation passes through. *)
StageFits(r) ==
    LET op == call[r].op IN
    /\ pc[r] = "waiting" => LockMode(op) # "none"
    /\ pc[r] = "check" => op \in Closings \cup {"create", "lift"}
    /\ pc[r] = "offer" => op = "accept"
    /\ pc[r] \in {"read", "write"} => op \in Transitions
    /\ pc[r] = "vouch" => op = "approve"
    /\ pc[r] = "admit" => op = "accept" /\ goal[r] = "Accepted"
    /\ pc[r] \in Scans => op \in Closings \cup {"create", "sweep"}
    /\ pc[r] \in {"find3", "lock3"} => op \in {"ban", "lift"}
    /\ pc[r] = "commit" => op \in OpNames \ {"changeRoles"}
    /\ r \in Sweepers /\ pc[r] # "idle" => op = "sweep"

(* The status a request means to write. *)
GoalFits(r) ==
    LET op == call[r].op IN
    /\ op = "accept" /\ pc[r] \in {"read", "write", "admit", "commit"} =>
           goal[r] \in {"Accepted", "Revoked"}
    /\ op = "approve" /\ pc[r] \in {"write", "vouch", "commit"} => goal[r] = "Pending"
    /\ op \in {"decline", "withdraw", "revoke"} /\ pc[r] \in {"write", "commit"} =>
           goal[r] \in {"Declined", "Withdrawn", "Revoked"}
    /\ op = "create" /\ pc[r] \in Scans \cup {"commit"} => goal[r] \in OutstandingStatuses
    /\ pc[r] = "write" => seen[r] \in OutstandingStatuses

(* What the gate keeps back: a create's own invite, or a lift's. *)
KeptFits(r) ==
    LET c == call[r] IN
    /\ c.op \notin {"create", "lift"} => kept[r] = {}
    /\ pc[r] \in {"idle", "waiting", "check", "announce"} => kept[r] = {}
    /\ c.op = "create" => kept[r] \subseteq {c.inv}
    /\ \A i \in kept[r] : /\ Terms[i].byAddress
                          /\ c.op = "lift" => Terms[i].to = c.user

(* The rows it has located, updated and marked. *)
HandsFit(r) ==
    LET c == call[r] IN
    /\ pc[r] \in {"idle", "waiting", "check", "offer", "read", "find1", "announce"} =>
           held[r] = {} /\ marked[r] = {} /\ todo[r] = {}
    /\ c.op \in Transitions => held[r] \subseteq {c.inv} /\ todo[r] \subseteq {c.inv}
    /\ c.op \in Transitions /\ pc[r] \in {"vouch", "admit", "commit"} => c.inv \in held[r]
    /\ pc[r] \notin {"lock3", "commit"} \/ c.op \notin {"ban", "lift"} => marked[r] = {}
    /\ c.op = "lift" => held[r] = {}
    /\ pc[r] = "lock3" => todo[r] \cap held[r] = {}
    /\ held[r] \cap marked[r] = {}
    /\ KeptFits(r)
    /\ \A i \in held[r] : Outstanding(i)
    /\ \A i \in marked[r] : /\ Outstanding(i)
                            /\ Terms[i].byAddress /\ Terms[i].to = c.user

(* The lock it holds on the household, which is not deleted meanwhile. *)
LockFits(r) ==
    /\ hlock[r] = IF InTx(r) THEN LockMode(call[r].op) ELSE "none"
    /\ hlock[r] # "none" => live

(* What it read under a share lock is still so. *)
ReadsHold(r) ==
    LET c == call[r]
        t == Terms[c.inv]
    IN  /\ c.op = "create" /\ pc[r] \in Scans \cup {"commit"} =>
               /\ IsMember(members, t.from) \/ t.from \in ServerOwners
               /\ veil[r] = (t.byAddress /\ t.to \in banned)
               /\ ~ t.byAddress => t.to \notin banned
        /\ /\ c.op = "accept" /\ goal[r] = "Accepted"
           /\ pc[r] \in {"read", "write", "admit", "commit"}
           => SenderStands(c.inv)

(* Whom an operation's closings are about, whatever the rows hold. *)
Closes(c, i) ==
    \/ /\ c.op \in {"leave", "removeMember", "ban"}
       /\ \/ Terms[i].from = c.user
          \/ Terms[i].to = c.user /\ ~ Terms[i].byAddress
    \/ c.op = "delete"

(* The rows in one status that it still has to come to, or has updated. *)
Reached(r, i, status, visiting, visited) ==
    invites[i].status = status =>
        /\ pc[r] = visiting => i \in held[r] \cup todo[r]
        /\ pc[r] \in visited => i \in held[r]

(* An exclusive holder's closings miss no row. *)
ScanFits(r) ==
    /\ \A i \in InviteIds : Closes(call[r], i) =>
           /\ Reached(r, i, "AwaitingApproval", "lock1",
                      {"find2", "lock2", "find3", "lock3", "commit"})
           /\ Reached(r, i, "Pending", "lock2", {"find3", "lock3", "commit"})
    /\ call[r].op \in {"ban", "lift"} =>
           \A i \in InviteIds \ held[r] : MarkApplies(call[r], i) =>
               /\ pc[r] = "lock3" => i \in marked[r] \cup todo[r] \cup kept[r]
               /\ pc[r] = "commit" => i \in marked[r] \cup kept[r]

(* A batch whose reads all came back short misses nothing that is due. *)
SweepFits(r) ==
    /\ call[r].op # "sweep" \/ pc[r] = "idle" => due[r] = {}
    /\ \A i \in due[r] : invites[i].overdue /\ invites[i].status # "none"
    /\ drained[r] =>
           \A i \in due[r] :
               /\ Reached(r, i, "AwaitingApproval", "lock1", {"find2", "lock2", "commit"})
               /\ Reached(r, i, "Pending", "lock2", {"commit"})
               /\ pc[r] = "announce" => ~ Outstanding(i)
    /\ pc[r] # "announce" => news[r] = {}

RequestFits(r) ==
    /\ StageFits(r) /\ GoalFits(r) /\ HandsFit(r) /\ LockFits(r)
    /\ ReadsHold(r) /\ ScanFits(r) /\ SweepFits(r)

(* Locks exclude each other. *)
HouseholdExclusion ==
    \A r, s \in Reqs : r # s /\ hlock[r] = "exclusive" => hlock[s] = "none"

RowExclusion ==
    \A r, s \in Reqs : r # s =>
        (held[r] \cup marked[r]) \cap (held[s] \cup marked[s]) = {}

(* The announcement of an invite's end is made or owed by one request. *)
Told(i) ==
    /\ \A r, s \in Reqs : i \in news[r] /\ i \in news[s] => r = s
    /\ (\E r \in Reqs : i \in news[r]) => Settled(i)
    /\ told[i] = IF Settled(i) /\ \A r \in Reqs : i \notin news[r] THEN 1 ELSE 0

InvitesInv ==
    /\ TypeOK
    /\ \A r \in Reqs : RequestFits(r)
    /\ HouseholdExclusion
    /\ RowExclusion
    /\ \A i \in InviteIds : Told(i)
    /\ NoInviteIntoDeleted
    /\ SendersAreMembers
    /\ WithheldWhileBanned

-----------------------------------------------------------------------------
(* Types. *)

Statuses == OutstandingStatuses \cup SettledStatuses \cup {"none"}

(* There is something to ask for. *)
LEMMA NoCallType == NoCall \in Calls
<1>1. PICK j \in MemberIds : TRUE
  BY DEF Owners
<1>2. PICK op \in Ops, i \in InviteIds : TRUE
  OBVIOUS
<1>3. UserOf[j] \in Users
  BY <1>1
<1>4. [op |-> op, actor |-> UserOf[j], inv |-> i, user |-> UserOf[j]] \in Calls
  BY <1>2, <1>3 DEF Calls
<1> QED
  BY <1>4 DEF NoCall

(* A run of the sweep is a call like any other. *)
LEMMA SweepCallType ==
  ASSUME "sweep" \in Ops
  PROVE  /\ [NoCall EXCEPT !.op = "sweep"] \in Calls
         /\ [NoCall EXCEPT !.op = "sweep"].op = "sweep"
  BY NoCallType DEF Calls

(* What a call, its terms and a row hold. *)
LEMMA RecordTypes ==
  ASSUME TypeOK
  PROVE  /\ \A r \in Reqs : /\ call[r].op \in Ops /\ call[r].op \in OpNames
                            /\ call[r].actor \in Users
                            /\ call[r].inv \in InviteIds /\ call[r].user \in Users
         /\ \A i \in InviteIds : /\ Terms[i].from \in Users /\ Terms[i].to \in Users
                                 /\ Terms[i].byAddress \in BOOLEAN
                                 /\ Terms[i].role \in AssignableRoles
         /\ \A i \in InviteIds : /\ invites[i].status \in Statuses
                                 /\ invites[i].overdue \in BOOLEAN
                                 /\ invites[i].withheld \in BOOLEAN
                                 /\ invites[i].needsApproval \in BOOLEAN
                                 /\ invites[i].gated \in BOOLEAN
<1>1. \A r \in Reqs : call[r] \in Calls
  BY DEF TypeOK
<1>2. \A i \in InviteIds : invites[i] \in Row
  BY DEF TypeOK
<1>3. ASSUME NEW i \in InviteIds
      PROVE  Terms[i] \in [from : Users, to : Users, byAddress : BOOLEAN,
                           role : AssignableRoles]
  OBVIOUS
<1>4. \A r \in Reqs : /\ call[r].op \in Ops /\ call[r].actor \in Users
                      /\ call[r].inv \in InviteIds /\ call[r].user \in Users
  BY <1>1 DEF Calls
<1>5. \A i \in InviteIds : /\ invites[i].status \in Statuses
                           /\ invites[i].overdue \in BOOLEAN
                           /\ invites[i].withheld \in BOOLEAN
                           /\ invites[i].needsApproval \in BOOLEAN
                           /\ invites[i].gated \in BOOLEAN
  BY <1>2 DEF Row, Statuses
<1>6. \A i \in InviteIds : /\ Terms[i].from \in Users /\ Terms[i].to \in Users
                           /\ Terms[i].byAddress \in BOOLEAN
                           /\ Terms[i].role \in AssignableRoles
  BY <1>3
<1> QED
  BY <1>4, <1>5, <1>6

(* Initially every type is right. *)
LEMMA TypeInit == Init => TypeOK
<1> SUFFICES ASSUME Init PROVE TypeOK
  OBVIOUS
<1>1. Unborn \in Row
  BY DEF Unborn, Row
<1>2. invites \in [InviteIds -> Row]
  BY <1>1 DEF Init
<1> QED
  BY <1>2, NoCallType DEF Init, AbsInit, TypeOK, Stages

(* The rows a commit leaves are rows. *)
LEMMA MovedType ==
  ASSUME TypeOK, NEW r \in Reqs, NEW status \in Statuses
  PROVE  MovedRows(r, status) \in [InviteIds -> Row]
<1>1. ASSUME NEW i \in InviteIds
      PROVE  /\ [invites[i] EXCEPT !.status = status,
                                   !.overdue = @ /\ status # "Pending"] \in Row
             /\ [invites[i] EXCEPT !.withheld = call[r].op = "ban",
                                   !.gated = @ /\ call[r].op = "ban"] \in Row
             /\ [invites[i] EXCEPT !.gated = TRUE] \in Row
             /\ invites[i] \in Row
  <2>1. PICK k \in Row : k = invites[i]
    BY DEF TypeOK
  <2>2. [k EXCEPT !.status = status, !.overdue = @ /\ status # "Pending"] \in Row
    BY DEF Row, Statuses
  <2>3. [k EXCEPT !.withheld = call[r].op = "ban", !.gated = @ /\ call[r].op = "ban"] \in Row
    BY DEF Row
  <2>4. [k EXCEPT !.gated = TRUE] \in Row
    BY DEF Row
  <2> QED
    BY <2>1, <2>2, <2>3, <2>4
<1> QED
  BY <1>1 DEF MovedRows

(* Leaving a transaction keeps the types of what it frees. *)
LEMMA ReleaseType ==
  ASSUME NEW r \in Reqs, TypeOK, Release(r)
  PROVE  /\ hlock' \in [Reqs -> {"none", "share", "exclusive"}]
         /\ seen' \in [Reqs -> OutstandingStatuses \cup {"none"}]
         /\ goal' \in [Reqs -> Statuses]
         /\ veil' \in [Reqs -> BOOLEAN] /\ kept' \in [Reqs -> SUBSET InviteIds]
         /\ todo' \in [Reqs -> SUBSET InviteIds] /\ held' \in [Reqs -> SUBSET InviteIds]
         /\ marked' \in [Reqs -> SUBSET InviteIds]
  BY DEF TypeOK, Release, Statuses

(* Operations on the roster keep its types. *)
LEMMA RosterTypes ==
  ASSUME TypeOK,
         \/ UNCHANGED absVars
         \/ \E row \in MemberIds, role \in AssignableRoles : Admit(row, role)
         \/ \E row \in MemberIds : Leave(row)
         \/ \E actor \in Users, row \in MemberIds : RemoveMember(actor, row)
         \/ \E actor \in Users, user \in Users : Ban(actor, user) \/ Lift(actor, user)
         \/ \E actor \in Users : SoftDelete(actor)
         \/ Restore
         \/ \E actor \in Users, row \in MemberIds, role \in AssignableRoles :
                UpdateMemberRole(actor, row, role)
         \/ \E own \in MemberIds, row \in MemberIds : TransferOwnership(own, row)
  PROVE  /\ live' \in BOOLEAN /\ members' \in Rosters
         /\ banned' \subseteq Users /\ grants' \subseteq Users
<1>t. live \in BOOLEAN /\ members \in Rosters /\ banned \subseteq Users /\ grants \subseteq Users
  BY DEF TypeOK
<1>o. UsersOf(Owners(members)) \subseteq Users
  BY DEF UsersOf, Owners
<1>1. CASE UNCHANGED absVars
  BY <1>1, <1>t DEF absVars
<1>2. ASSUME NEW row \in MemberIds, NEW role \in RoleNames \cup {"gone"},
             members' = [members EXCEPT ![row] = role]
      PROVE  members' \in Rosters
  BY <1>2, <1>t DEF Rosters
<1>3. ASSUME NEW row \in MemberIds, Departs(row)
      PROVE  members' \in Rosters
  BY <1>2, <1>3 DEF Departs
<1>4. ASSUME NEW row \in MemberIds, NEW role \in AssignableRoles, Admit(row, role)
      PROVE  /\ live' \in BOOLEAN /\ members' \in Rosters
             /\ banned' \subseteq Users /\ grants' \subseteq Users
  BY <1>t, <1>2, <1>4 DEF Admit, RoleNames
<1>5. ASSUME NEW row \in MemberIds, NEW actor \in Users, Leave(row) \/ RemoveMember(actor, row)
      PROVE  /\ live' \in BOOLEAN /\ members' \in Rosters
             /\ banned' \subseteq Users /\ grants' \subseteq Users
  BY <1>t, <1>3, <1>5 DEF Leave, RemoveMember
<1>6. ASSUME NEW actor \in Users, NEW user \in Users, Ban(actor, user) \/ Lift(actor, user)
      PROVE  /\ live' \in BOOLEAN /\ members' \in Rosters
             /\ banned' \subseteq Users /\ grants' \subseteq Users
  <2>1. RowsOfUser(members, user) \subseteq MemberIds
    BY DEF RowsOfUser, LiveRows
  <2> QED
    BY <1>t, <1>3, <1>6, <2>1 DEF Ban, Lift
<1>7. ASSUME NEW actor \in Users, SoftDelete(actor) \/ Restore
      PROVE  /\ live' \in BOOLEAN /\ members' \in Rosters
             /\ banned' \subseteq Users /\ grants' \subseteq Users
  BY <1>t, <1>o, <1>7 DEF SoftDelete, Restore
<1>8. ASSUME NEW actor \in Users, NEW row \in MemberIds, NEW role \in AssignableRoles,
             UpdateMemberRole(actor, row, role)
      PROVE  /\ live' \in BOOLEAN /\ members' \in Rosters
             /\ banned' \subseteq Users /\ grants' \subseteq Users
  BY <1>t, <1>2, <1>8 DEF UpdateMemberRole, RoleNames
<1>9. ASSUME NEW own \in MemberIds, NEW row \in MemberIds, TransferOwnership(own, row)
      PROVE  /\ live' \in BOOLEAN /\ members' \in Rosters
             /\ banned' \subseteq Users /\ grants' \subseteq Users
  BY <1>t, <1>9 DEF TransferOwnership, Rosters, RoleNames, AssignableRoles
<1>10. PICK someone \in Users : TRUE
  <2>1. PICK j \in MemberIds : TRUE
    BY DEF Owners
  <2> QED
    BY <2>1
<1>11. CASE \E actor \in Users : SoftDelete(actor)
  BY <1>7, <1>11
<1>12. CASE Restore
  BY <1>7, <1>10, <1>12
<1>13. CASE \E row \in MemberIds : Leave(row)
  BY <1>5, <1>10, <1>13
<1> QED
  BY <1>1, <1>4, <1>5, <1>6, <1>8, <1>9, <1>11, <1>12, <1>13

(* A step of a request keeps the types. *)
LEMMA RequestTypes ==
  ASSUME TypeOK, NEW r \in Reqs,
         \/ Begin(r) \/ BeginSweep(r) \/ LockHousehold(r) \/ UpdateRow(r)
         \/ CheckCreate(r) \/ CheckRoster(r) \/ ReadOffer(r) \/ ReadInvite(r)
         \/ FindRows(r) \/ EndStatement(r) \/ Vouch(r) \/ CheckAdmission(r)
         \/ Announce(r) \/ RefuseExpired(r) \/ Refuse(r) \/ RefuseByLimit(r)
         \/ DeadlockVictim(r)
  PROVE  TypeOK'
<1> USE DEF absVars, inviteVars, settings, txVars, Goto
<1>1. CASE Begin(r)
  BY <1>1 DEF Begin, TypeOK, Stages
<1>2. CASE BeginSweep(r)
  <2>1. Overdue \in SUBSET InviteIds
    BY DEF Overdue
  <2>2. PICK c \in Calls : c = [NoCall EXCEPT !.op = "sweep"]
    BY <1>2, SweepCallType DEF BeginSweep
  <2>3. call' = [call EXCEPT ![r] = c]
    BY <1>2, <2>2 DEF BeginSweep
  <2>4. /\ pc' = [pc EXCEPT ![r] = "find1"]
        /\ due' = [due EXCEPT ![r] = Overdue]
        /\ UNCHANGED <<absVars, inviteVars, txVars, hlock, news>>
    BY <1>2 DEF BeginSweep
  <2> QED
    BY <2>1, <2>3, <2>4 DEF TypeOK, Stages
<1>3. CASE LockHousehold(r)
  <2>1. LockMode(call[r].op) \in {"none", "share", "exclusive"}
    BY DEF LockMode
  <2>2. FirstStage(call[r].op) \in Stages
    BY DEF FirstStage, Stages
  <2> QED
    BY <1>3, <2>1, <2>2 DEF LockHousehold, TypeOK
<1>4. CASE UpdateRow(r)
  BY <1>4 DEF UpdateRow, TypeOK
<1>5. CASE CheckCreate(r)
  <2>1. veil' \in [Reqs -> BOOLEAN]
    <3>1. Terms[call[r].inv].byAddress \in BOOLEAN
      BY RecordTypes
    <3> QED
      BY <1>5, <3>1 DEF CheckCreate, TypeOK
  <2>2. goal' \in [Reqs -> Statuses]
    BY <1>5 DEF CheckCreate, TypeOK, Statuses, OutstandingStatuses
  <2>3. kept' \in [Reqs -> SUBSET InviteIds]
    <3>1. call[r].inv \in InviteIds
      BY RecordTypes
    <3> QED
      BY <1>5, <3>1 DEF CheckCreate, TypeOK
  <2> QED
    BY <1>5, <2>1, <2>2, <2>3 DEF CheckCreate, TypeOK, Stages, Statuses
<1>6. CASE CheckRoster(r)
  BY <1>6 DEF CheckRoster, TypeOK, Stages
<1>7. CASE ReadOffer(r)
  BY <1>7 DEF ReadOffer, TypeOK, Stages, SettledStatuses
<1>8. CASE ReadInvite(r)
  <2>1. invites[call[r].inv].status \in OutstandingStatuses
    BY <1>8 DEF ReadInvite, MayMove, StartsFrom, OutstandingStatuses
  <2>2. GoalOf(r) \in Statuses
    <3>1. goal[r] \in Statuses
      BY DEF TypeOK, Statuses
    <3>2. call[r].op \in {"accept", "decline", "withdraw", "revoke", "approve"}
      BY <1>8 DEF ReadInvite, MayMove, IsPartyTo
    <3> QED
      BY <3>1, <3>2 DEF GoalOf, Statuses, OutstandingStatuses, SettledStatuses
  <2>3. call[r].inv \in InviteIds
    BY RecordTypes
  <2> QED
    BY <1>8, <2>1, <2>2, <2>3 DEF ReadInvite, TypeOK, Stages, Statuses
<1>9. CASE FindRows(r)
  <2>1. LockStage(pc[r]) \in Stages
    BY <1>9 DEF FindRows, LockStage, Stages
  <2>2. drained' \in [Reqs -> BOOLEAN] /\ todo' \in [Reqs -> SUBSET InviteIds]
        /\ kept' \in [Reqs -> SUBSET InviteIds]
    BY <1>9 DEF FindRows, KeptBack, TypeOK
  <2> QED
    BY <1>9, <2>1, <2>2 DEF FindRows, TypeOK
<1>10. CASE EndStatement(r)
  <2>1. StageAfter(r) \in Stages
    BY <1>10 DEF EndStatement, StageAfter, Stages
  <2> QED
    BY <1>10, <2>1 DEF EndStatement, TypeOK
<1>11. CASE Vouch(r)
  BY <1>11 DEF Vouch, TypeOK, Stages
<1>12. CASE CheckAdmission(r)
  BY <1>12 DEF CheckAdmission, TypeOK, Stages
<1>13. CASE Announce(r)
  <2>1. pc' \in [Reqs -> Stages] /\ call' \in [Reqs -> Calls] /\ due' \in [Reqs -> SUBSET InviteIds]
    <3>1. \/ /\ pc' = [pc EXCEPT ![r] = "find1"] /\ UNCHANGED <<call, due>>
          \/ /\ pc' = [pc EXCEPT ![r] = "idle"]
             /\ call' = [call EXCEPT ![r] = NoCall] /\ due' = [due EXCEPT ![r] = {}]
      BY <1>13 DEF Announce
    <3>2. pc \in [Reqs -> Stages] /\ call \in [Reqs -> Calls] /\ due \in [Reqs -> SUBSET InviteIds]
      BY DEF TypeOK
    <3>3. "find1" \in Stages /\ "idle" \in Stages
      BY DEF Stages
    <3>4. pc' \in [Reqs -> Stages]
      BY <3>1, <3>2, <3>3
    <3>5. call' \in [Reqs -> Calls]
      BY <3>1, <3>2, NoCallType
    <3>6. due' \in [Reqs -> SUBSET InviteIds]
      BY <3>1, <3>2
    <3> QED
      BY <3>4, <3>5, <3>6
  <2>2. told' \in [InviteIds -> Nat]
    BY <1>13 DEF Announce, TypeOK
  <2> QED
    BY <1>13, <2>1, <2>2 DEF Announce, TypeOK
<1>14. ASSUME Rollback(r), stamps' \subseteq InviteIds \X OutstandingStatuses
       PROVE  TypeOK'
  <2>1. pc' \in [Reqs -> Stages] /\ call' \in [Reqs -> Calls] /\ due' \in [Reqs -> SUBSET InviteIds]
        /\ drained' \in [Reqs -> BOOLEAN]
    BY <1>14, NoCallType DEF Rollback, TypeOK, Stages
  <2>2. Release(r)
    BY <1>14 DEF Rollback
  <2>3. /\ live \in BOOLEAN /\ members \in Rosters
        /\ banned \subseteq Users /\ grants \subseteq Users
        /\ invites \in [InviteIds -> Row]
        /\ policy \in Policies /\ gate \in Gates /\ told \in [InviteIds -> Nat]
        /\ news \in [Reqs -> SUBSET InviteIds]
    BY DEF TypeOK
  <2>4. UNCHANGED <<live, members, banned, grants, invites, policy, gate, told, news>>
    BY <1>14 DEF Rollback, settings
  <2> QED
    BY <1>14, <2>1, <2>2, <2>3, <2>4, ReleaseType DEF TypeOK, Statuses
<1>15. CASE RefuseExpired(r)
  <2>1. <<call[r].inv, invites[call[r].inv].status>> \in InviteIds \X OutstandingStatuses
    BY <1>15, RecordTypes DEF RefuseExpired, MeetsExpired, Outstanding
  <2>2. stamps' \subseteq InviteIds \X OutstandingStatuses
    BY <1>15, <2>1 DEF RefuseExpired, TypeOK
  <2> QED
    BY <1>14, <1>15, <2>2 DEF RefuseExpired
<1>16. CASE Refuse(r) \/ RefuseByLimit(r) \/ DeadlockVictim(r)
  BY <1>14, <1>16 DEF Refuse, RefuseByLimit, DeadlockVictim, TypeOK
<1> QED
  BY <1>1, <1>2, <1>3, <1>4, <1>5, <1>6, <1>7, <1>8, <1>9, <1>10, <1>11, <1>12, <1>13,
     <1>15, <1>16

(* A commit keeps the types. *)
LEMMA CommitTypes ==
  ASSUME TypeOK, NEW r \in Reqs, CommitAny(r)
  PROVE  TypeOK'
<1>r. /\ call[r].op \in Ops /\ call[r].actor \in Users
      /\ call[r].inv \in InviteIds /\ call[r].user \in Users
      /\ \A i \in InviteIds : Terms[i].role \in AssignableRoles
  BY RecordTypes
<1>g. goal[r] \in Statuses
  BY DEF TypeOK, Statuses
<1>s. "Expired" \in Statuses /\ "Revoked" \in Statuses /\ "Accepted" \in Statuses
  BY DEF Statuses, SettledStatuses
<1>1. ASSUME NEW ended, ended \subseteq InviteIds, Commit(r, ended),
             invites' \in [InviteIds -> Row],
             /\ live' \in BOOLEAN /\ members' \in Rosters
             /\ banned' \subseteq Users /\ grants' \subseteq Users
      PROVE  TypeOK'
  <2>1. pc' \in [Reqs -> Stages]
    BY <1>1 DEF Commit, Goto, TypeOK, Stages
  <2>2. news' \in [Reqs -> SUBSET InviteIds] /\ due' \in [Reqs -> SUBSET InviteIds]
    BY <1>1 DEF Commit, TypeOK
  <2>3. /\ policy \in Policies /\ gate \in Gates /\ told \in [InviteIds -> Nat]
        /\ stamps \subseteq InviteIds \X OutstandingStatuses
        /\ drained \in [Reqs -> BOOLEAN] /\ call \in [Reqs -> Calls]
    BY DEF TypeOK
  <2>4. UNCHANGED <<policy, gate, stamps, told, drained, call>> /\ Release(r)
    BY <1>1 DEF Commit, settings
  <2> QED
    BY <1>1, <2>1, <2>2, <2>3, <2>4, ReleaseType DEF TypeOK, Statuses
<1>h. held[r] \subseteq InviteIds /\ {} \subseteq InviteIds
  BY DEF TypeOK
<1>2. CASE CommitCreate(r)
  <2>1. PICK m \in [InviteIds -> Row] : m = MovedRows(r, "Expired")
    BY <1>s, MovedType
  <2>2. goal[r] \in Statuses /\ veil[r] \in BOOLEAN
    BY <1>g DEF TypeOK
  <2>3. [status |-> goal[r], overdue |-> FALSE,
         withheld |-> call[r].inv \in kept[r] \/ veil[r],
         needsApproval |-> goal[r] = "AwaitingApproval",
         gated |-> call[r].inv \in kept[r]] \in Row
    BY <2>2 DEF Row, Statuses
  <2>4. invites' \in [InviteIds -> Row]
    BY <1>2, <2>1, <2>3 DEF CommitCreate
  <2> QED
    BY <1>1, <1>2, <1>h, <2>4, RosterTypes DEF CommitCreate
<1>3. CASE CommitTransition(r)
  BY <1>1, <1>3, <1>h, <1>g, MovedType, RosterTypes DEF CommitTransition
<1>4. CASE CommitAccept(r)
  <2>1. \E row \in MemberIds, role \in AssignableRoles : Admit(row, role)
    BY <1>4, <1>r DEF CommitAccept
  <2> QED
    BY <1>1, <1>4, <1>h, <1>s, <2>1, MovedType, RosterTypes DEF CommitAccept
<1>5. CASE CommitDeparture(r)
  <2>1. \/ \E row \in MemberIds : Leave(row)
        \/ \E actor \in Users, row \in MemberIds : RemoveMember(actor, row)
    BY <1>5, <1>r DEF CommitDeparture, RowsOfUser, LiveRows
  <2> QED
    BY <1>1, <1>5, <1>h, <1>s, <2>1, MovedType, RosterTypes DEF CommitDeparture
<1>6. CASE CommitBan(r)
  <2>1. \E actor \in Users, user \in Users : Ban(actor, user) \/ Lift(actor, user)
    BY <1>6, <1>r DEF CommitBan
  <2> QED
    BY <1>1, <1>6, <1>h, <1>s, <2>1, MovedType, RosterTypes DEF CommitBan
<1>7. CASE CommitLift(r)
  <2>1. \E actor \in Users, user \in Users : Ban(actor, user) \/ Lift(actor, user)
    BY <1>7, <1>r DEF CommitLift
  <2> QED
    BY <1>1, <1>7, <1>h, <1>s, <2>1, MovedType, RosterTypes DEF CommitLift
<1>8. CASE CommitDelete(r)
  <2>1. \E actor \in Users : SoftDelete(actor)
    BY <1>8, <1>r DEF CommitDelete
  <2> QED
    BY <1>1, <1>8, <1>h, <1>s, <2>1, MovedType, RosterTypes DEF CommitDelete
<1>9. CASE CommitSweep(r)
  BY <1>1, <1>9, <1>h, <1>s, MovedType, RosterTypes DEF CommitSweep
<1> QED
  BY <1>2, <1>3, <1>4, <1>5, <1>6, <1>7, <1>8, <1>9 DEF CommitAny

(* So does whatever happens beside the requests. *)
LEMMA BesideTypes ==
  ASSUME TypeOK,
         PersistExpiry \/ Lapse \/ SetPolicy \/ ChangeGate \/ ChangeRoles \/ RestoreHousehold
  PROVE  TypeOK'
<1> USE DEF inviteVars, settings, txVars
<1>0. /\ live \in BOOLEAN /\ members \in Rosters
      /\ banned \subseteq Users /\ grants \subseteq Users
  BY DEF TypeOK
<1>1. CASE PersistExpiry
  <2>1. PICK stamp \in stamps :
           /\ stamps' = stamps \ {stamp}
           /\ \/ /\ invites' = [invites EXCEPT ![stamp[1]].status = "Expired"]
                 /\ told' = [told EXCEPT ![stamp[1]] = @ + 1]
              \/ UNCHANGED <<invites, told>>
           /\ UNCHANGED <<absVars, settings, txVars, pc, call, hlock, news, due>>
    BY <1>1 DEF PersistExpiry
  <2>2. PICK i \in InviteIds : i = stamp[1]
    BY <2>1 DEF TypeOK
  <2>3. PICK k \in Row : k = invites[i]
    BY DEF TypeOK
  <2>4. [k EXCEPT !.status = "Expired"] \in Row
    BY DEF Row, SettledStatuses
  <2>5. invites' \in [InviteIds -> Row]
    BY <2>1, <2>2, <2>3, <2>4 DEF TypeOK
  <2>6. told' \in [InviteIds -> Nat]
    <3>1. told \in [InviteIds -> Nat]
      BY DEF TypeOK
    <3>2. CASE told' = [told EXCEPT ![i] = @ + 1]
      BY <3>1, <3>2
    <3>3. told' = told \/ told' = [told EXCEPT ![i] = @ + 1]
      BY <2>1, <2>2
    <3> QED
      BY <3>1, <3>2, <3>3
  <2> QED
    BY <2>1, <2>5, <2>6 DEF TypeOK, absVars
<1>2. CASE Lapse
  <2>1. PICK i \in InviteIds : invites' = [invites EXCEPT ![i].overdue = TRUE]
    BY <1>2 DEF Lapse
  <2>3. PICK k \in Row : k = invites[i]
    BY DEF TypeOK
  <2>4. [k EXCEPT !.overdue = TRUE] \in Row
    BY DEF Row
  <2>5. invites' \in [InviteIds -> Row]
    BY <2>1, <2>3, <2>4 DEF TypeOK
  <2> QED
    BY <1>2, <2>5 DEF TypeOK, absVars, Lapse
<1>3. CASE SetPolicy \/ ChangeGate
  BY <1>3 DEF SetPolicy, ChangeGate, TypeOK, absVars
<1>4. CASE ChangeRoles
  BY <1>4, RosterTypes DEF ChangeRoles, TypeOK
<1>5. CASE RestoreHousehold
  BY <1>5, RosterTypes DEF RestoreHousehold, TypeOK
<1> QED
  BY <1>1, <1>2, <1>3, <1>4, <1>5

-----------------------------------------------------------------------------
(* What a step of one request leaves to another. *)

(* A request's own variables do not change. *)
Same(s) ==
    /\ pc'[s] = pc[s] /\ call'[s] = call[s] /\ hlock'[s] = hlock[s]
    /\ seen'[s] = seen[s] /\ goal'[s] = goal[s] /\ veil'[s] = veil[s]
    /\ kept'[s] = kept[s] /\ todo'[s] = todo[s] /\ held'[s] = held[s] /\ marked'[s] = marked[s]
    /\ news'[s] = news[s] /\ drained'[s] = drained[s]

(* What its locks secure: the rows it has updated, the household it shares  *)
(* or holds alone, and, without a lock, that what it owes a stamp is either  *)
(* as it was or over.                                                        *)
HandsKept(s) ==
    \A i \in held[s] \cup marked[s] : invites'[i].status = invites[i].status

SharedKept(s) ==
    hlock[s] # "none" =>
        /\ live' = live /\ banned' = banned
        /\ \A u \in Users : IsMember(members, u) => IsMember(members', u)
        /\ \A i \in InviteIds : SenderStands(i) => SenderStands(i)'

AloneKept(s) ==
    hlock[s] = "exclusive" =>
        \A i \in InviteIds : Outstanding(i)' =>
            /\ invites'[i].status = invites[i].status
            /\ invites'[i].withheld = invites[i].withheld

DueKept(s) ==
    /\ due'[s] \subseteq due[s]
    /\ \A i \in due'[s] :
           /\ invites'[i].overdue /\ invites'[i].status # "none"
           /\ Outstanding(i)' => invites'[i].status = invites[i].status

Undisturbed(s) == Same(s) /\ HandsKept(s) /\ SharedKept(s) /\ AloneKept(s) /\ DueKept(s)

(* The operations that hold the household row alone, from the lock on. *)
LEMMA LockModes ==
  ASSUME NEW op
  PROVE  /\ op \in Closings \cup {"lift"} => LockMode(op) = "exclusive"
         /\ op \in {"create", "accept", "revoke", "approve"} => LockMode(op) = "share"
         /\ LockMode(op) \in {"none", "share", "exclusive"}
         /\ op \in {"decline", "withdraw", "sweep"} => LockMode(op) = "none"
         /\ LockMode(op) = "exclusive" => op \in Closings \cup {"lift"}
         /\ LockMode(op) = "share" => op \in {"create", "accept", "revoke", "approve"}
  BY DEF LockMode, Closings

(* A request whose locks were respected still fits. *)
LEMMA OthersKept ==
  ASSUME TypeOK, NEW s \in Reqs, RequestFits(s), Undisturbed(s)
  PROVE  RequestFits(s)'
<1> DEFINE op == call[s].op
<1>s. Same(s)
  BY DEF Undisturbed
<1>t. InTx(s)' = InTx(s)
  BY <1>s DEF InTx, Same
<1>r. call[s].inv \in InviteIds /\ Terms[call[s].inv].from \in Users
  BY RecordTypes
<1>1. StageFits(s)'
  BY <1>s DEF RequestFits, StageFits, Same
<1>2. GoalFits(s)'
  BY <1>s DEF RequestFits, GoalFits, Same
<1>3. HandsFit(s)'
  <2>1. HandsFit(s) /\ HandsKept(s)
    BY DEF RequestFits, Undisturbed
  <2>2. \A i \in held[s] \cup marked[s] : Outstanding(i)'
    BY <2>1 DEF HandsFit, HandsKept, Outstanding
  <2> QED
    BY <2>1, <2>2, <1>s DEF HandsFit, KeptFits, Same
<1>4. LockFits(s)'
  <2>1. LockFits(s) /\ SharedKept(s)
    BY DEF RequestFits, Undisturbed
  <2> QED
    BY <2>1, <1>s, <1>t DEF LockFits, SharedKept, Same
<1>l. hlock[s] = IF InTx(s) THEN LockMode(op) ELSE "none"
  BY DEF RequestFits, LockFits
<1>5. ReadsHold(s)'
  <2>1. ReadsHold(s) /\ SharedKept(s)
    BY DEF RequestFits, Undisturbed
  <2>2. ASSUME op = "create", pc[s] \in Scans \cup {"commit"}
        PROVE  hlock[s] # "none"
    BY <2>2, <1>l, LockModes DEF InTx, Scans
  <2>3. ASSUME op = "accept", pc[s] \in {"read", "write", "admit", "commit"}
        PROVE  hlock[s] # "none"
    BY <2>3, <1>l, LockModes DEF InTx
  <2>4. ASSUME op = "create", pc[s] \in Scans \cup {"commit"}
        PROVE  LET t == Terms[call[s].inv] IN
               /\ IsMember(members', t.from) \/ t.from \in ServerOwners
               /\ veil[s] = (t.byAddress /\ t.to \in banned')
               /\ ~ t.byAddress => t.to \notin banned'
    BY <2>1, <2>2, <2>4, <1>r DEF ReadsHold, SharedKept
  <2>5. ASSUME op = "accept", goal[s] = "Accepted",
               pc[s] \in {"read", "write", "admit", "commit"}
        PROVE  SenderStands(call[s].inv)'
    <3>1. PICK j \in InviteIds : j = call[s].inv
      BY <1>r
    <3>2. SenderStands(j)
      BY <2>1, <2>5, <3>1 DEF ReadsHold
    <3>3. SenderStands(j)'
      BY <2>1, <2>3, <2>5, <3>2 DEF SharedKept
    <3>4. call'[s].inv = j
      BY <3>1, <1>s DEF Same
    <3> QED
      BY <3>3, <3>4
  <2>6. call'[s] = call[s] /\ pc'[s] = pc[s] /\ goal'[s] = goal[s] /\ veil'[s] = veil[s]
    BY <1>s DEF Same
  <2> QED
    BY <2>4, <2>5, <2>6 DEF ReadsHold
<1>6. ScanFits(s)'
  <2>1. ScanFits(s) /\ AloneKept(s)
    BY DEF RequestFits, Undisturbed
  <2>a. pc'[s] = pc[s] /\ call'[s] = call[s] /\ held'[s] = held[s]
        /\ todo'[s] = todo[s] /\ marked'[s] = marked[s] /\ kept'[s] = kept[s]
    BY <1>s DEF Same
  <2>2. ASSUME NEW i \in InviteIds, Closes(call'[s], i)
        PROVE  /\ Reached(s, i, "AwaitingApproval", "lock1",
                          {"find2", "lock2", "find3", "lock3", "commit"})'
               /\ Reached(s, i, "Pending", "lock2", {"find3", "lock3", "commit"})'
    <3>1. Closes(call[s], i)
      BY <2>2, <2>a
    <3>2. op \in Closings
      BY <3>1 DEF Closes, Closings
    <3>3. ASSUME pc[s] \in {"lock1", "find2", "lock2", "find3", "lock3", "commit"},
                 Outstanding(i)'
          PROVE  invites'[i].status = invites[i].status
      <4>1. hlock[s] = "exclusive"
        BY <3>2, <3>3, <1>l, LockModes DEF InTx
      <4> QED
        BY <4>1, <2>1, <3>3 DEF AloneKept
    <3>4. /\ Reached(s, i, "AwaitingApproval", "lock1",
                      {"find2", "lock2", "find3", "lock3", "commit"})
          /\ Reached(s, i, "Pending", "lock2", {"find3", "lock3", "commit"})
      BY <2>1, <3>1 DEF ScanFits
    <3> QED
      BY <2>a, <3>3, <3>4 DEF Reached, Outstanding, OutstandingStatuses
  <2>3. ASSUME op \in {"ban", "lift"}, NEW i \in InviteIds \ held[s], MarkApplies(call[s], i)'
        PROVE  /\ pc[s] = "lock3" => i \in marked[s] \cup todo[s] \cup kept[s]
               /\ pc[s] = "commit" => i \in marked[s] \cup kept[s]
    <3>1. SUFFICES ASSUME pc[s] \in {"lock3", "commit"}
                   PROVE  MarkApplies(call[s], i)
      BY <2>1, <2>3 DEF ScanFits
    <3>2. hlock[s] = "exclusive"
      BY <2>3, <3>1, <1>l, LockModes DEF InTx, Closings
    <3>3. Outstanding(i)'
      BY <2>3 DEF MarkApplies
    <3>4. invites'[i].status = invites[i].status /\ invites'[i].withheld = invites[i].withheld
      BY <2>1, <3>2, <3>3 DEF AloneKept
    <3> QED
      BY <2>3, <2>a, <3>3, <3>4 DEF MarkApplies, Outstanding
  <2> QED
    BY <2>a, <2>2, <2>3 DEF ScanFits
<1>7. SweepFits(s)'
  <2>1. SweepFits(s) /\ DueKept(s)
    BY DEF RequestFits, Undisturbed
  <2>a. pc'[s] = pc[s] /\ call'[s] = call[s] /\ held'[s] = held[s]
        /\ todo'[s] = todo[s] /\ drained'[s] = drained[s] /\ news'[s] = news[s]
    BY <1>s DEF Same
  <2>2. ASSUME drained[s], NEW i \in due'[s]
        PROVE  /\ Reached(s, i, "AwaitingApproval", "lock1", {"find2", "lock2", "commit"})'
               /\ Reached(s, i, "Pending", "lock2", {"commit"})'
               /\ pc[s] = "announce" => ~ Outstanding(i)'
    <3>1. i \in due[s] /\ (Outstanding(i)' => invites'[i].status = invites[i].status)
      BY <2>1, <2>2 DEF DueKept
    <3>2. /\ Reached(s, i, "AwaitingApproval", "lock1", {"find2", "lock2", "commit"})
          /\ Reached(s, i, "Pending", "lock2", {"commit"})
          /\ pc[s] = "announce" => ~ Outstanding(i)
      BY <2>1, <2>2, <3>1 DEF SweepFits
    <3> QED
      BY <2>a, <3>1, <3>2 DEF Reached, Outstanding, OutstandingStatuses
  <2>3. call'[s].op # "sweep" \/ pc'[s] = "idle" => due'[s] = {}
    BY <2>1, <2>a DEF SweepFits, DueKept
  <2>4. pc'[s] # "announce" => news'[s] = {}
    BY <2>1, <2>a DEF SweepFits
  <2>5. \A i \in due'[s] : invites'[i].overdue /\ invites'[i].status # "none"
    BY <2>1 DEF DueKept
  <2> QED
    BY <2>a, <2>2, <2>3, <2>4, <2>5 DEF SweepFits
<1> QED
  BY <1>1, <1>2, <1>3, <1>4, <1>5, <1>6, <1>7 DEF RequestFits
-----------------------------------------------------------------------------
(* Steps that touch neither the roster nor an invite. *)

OnlyOwn(r) ==
    /\ UNCHANGED <<live, members, banned, invites>>
    /\ \A s \in Reqs \ {r} : Same(s) /\ due'[s] = due[s]

(* Such a step of one request disturbs no other. *)
LEMMA LocalOthers ==
  ASSUME InvitesInv, NEW r \in Reqs, OnlyOwn(r), NEW s \in Reqs, s # r
  PROVE  RequestFits(s)'
<1>1. TypeOK /\ RequestFits(s)
  BY DEF InvitesInv
<1>2. Same(s) /\ due'[s] = due[s] /\ UNCHANGED <<live, members, banned, invites>>
  BY DEF OnlyOwn
<1>3. HandsKept(s)
  BY <1>2 DEF HandsKept
<1>4. SharedKept(s)
  BY <1>2 DEF SharedKept, SenderStands
<1>5. AloneKept(s)
  BY <1>2 DEF AloneKept
<1>6. DueKept(s)
  <2>1. SweepFits(s)
    BY <1>1 DEF RequestFits
  <2> QED
    BY <1>2, <2>1 DEF DueKept, SweepFits
<1> QED
  BY <1>1, <1>2, <1>3, <1>4, <1>5, <1>6, OthersKept DEF Undisturbed

(* It keeps the invariant if the request itself still fits, its locks       *)
(* exclude, and no announcement is lost or doubled.                         *)
LEMMA LocalStep ==
  ASSUME InvitesInv, TypeOK', NEW r \in Reqs, OnlyOwn(r), RequestFits(r)',
         HouseholdExclusion', RowExclusion', \A i \in InviteIds : Told(i)'
  PROVE  InvitesInv'
<1>1. \A s \in Reqs : RequestFits(s)'
  BY LocalOthers
<1>2. UNCHANGED <<live, members, banned, invites>>
  BY DEF OnlyOwn
<1>3. NoInviteIntoDeleted' /\ SendersAreMembers' /\ WithheldWhileBanned'
  BY <1>2 DEF InvitesInv, NoInviteIntoDeleted, SendersAreMembers, WithheldWhileBanned, Outstanding
<1> QED
  BY <1>1, <1>3 DEF InvitesInv

(* A request that takes no lock and no row, and announces nothing. *)
LEMMA QuietStep ==
  ASSUME InvitesInv, TypeOK', NEW r \in Reqs, OnlyOwn(r), RequestFits(r)',
         hlock'[r] = hlock[r] \/ hlock'[r] = "none",
         held'[r] \subseteq held[r], marked'[r] \subseteq marked[r],
         told' = told, news'[r] = news[r]
  PROVE  InvitesInv'
<1>1. \A s \in Reqs \ {r} : /\ hlock'[s] = hlock[s] /\ held'[s] = held[s]
                            /\ marked'[s] = marked[s] /\ news'[s] = news[s]
  BY DEF OnlyOwn, Same
<1>2. HouseholdExclusion'
  BY <1>1 DEF InvitesInv, HouseholdExclusion
<1>3. RowExclusion'
  <2>1. \A s \in Reqs : held'[s] \cup marked'[s] \subseteq held[s] \cup marked[s]
    BY <1>1
  <2>2. RowExclusion
    BY DEF InvitesInv
  <2> QED
    BY <2>1, <2>2 DEF RowExclusion
<1>4. \A s \in Reqs : news'[s] = news[s]
  BY <1>1
<1>5. invites' = invites
  BY DEF OnlyOwn
<1>6. ASSUME NEW i \in InviteIds
      PROVE  Told(i)'
  <2>1. Told(i)
    BY DEF InvitesInv
  <2>2. Settled(i)' <=> Settled(i)
    BY <1>5 DEF Settled
  <2> QED
    BY <1>4, <2>1, <2>2 DEF Told
<1> QED
  BY <1>2, <1>3, <1>6, LocalStep

(* Outside the bulk statements there is nothing to have reached. *)
LEMMA EarlyScan ==
  ASSUME NEW r, pc'[r] \notin {"lock1", "find2", "lock2", "find3", "lock3", "commit"}
  PROVE  ScanFits(r)'
  BY DEF ScanFits, Reached

(* Nor for an operation that closes no other invites. *)
LEMMA OtherScan ==
  ASSUME NEW r, call'[r].op \in Transitions \cup {"create", "sweep"}
  PROVE  ScanFits(r)'
  BY DEF ScanFits, Closes, Transitions

(* A request that is no sweep owes no stamps. *)
LEMMA NoSweep ==
  ASSUME NEW r, due'[r] = {}, news'[r] = {} \/ pc'[r] = "announce"
  PROVE  SweepFits(r)'
  BY DEF SweepFits

(* Nor did it before. *)
LEMMA NotDue ==
  ASSUME NEW r, SweepFits(r), call[r].op # "sweep" \/ pc[r] = "idle"
  PROVE  due[r] = {}
  BY DEF SweepFits

(* Only a create and an accept build on what they read. *)
LEMMA NoReads ==
  ASSUME NEW r, \/ call'[r].op \notin {"create", "accept"}
                \/ pc'[r] \notin Scans \cup {"read", "write", "admit", "commit"}
  PROVE  ReadsHold(r)'
  BY DEF ReadsHold

(* These steps are of that kind. *)
LEMMA OwnSteps ==
  ASSUME TypeOK, NEW r \in Reqs,
         \/ Begin(r) \/ BeginSweep(r) \/ LockHousehold(r) \/ UpdateRow(r)
         \/ CheckCreate(r) \/ CheckRoster(r) \/ ReadOffer(r) \/ ReadInvite(r)
         \/ FindRows(r) \/ EndStatement(r) \/ Vouch(r) \/ CheckAdmission(r)
         \/ Announce(r) \/ Rollback(r)
  PROVE  OnlyOwn(r)
<1> USE DEF absVars, inviteVars, settings, txVars, Goto, OnlyOwn, Same
<1>1. CASE Begin(r)
  BY <1>1 DEF Begin, TypeOK
<1>2. CASE BeginSweep(r)
  <2>1. /\ pc' = [pc EXCEPT ![r] = "find1"]
        /\ due' = [due EXCEPT ![r] = Overdue]
        /\ \A s \in Reqs \ {r} : call'[s] = call[s]
        /\ UNCHANGED <<absVars, inviteVars, txVars, hlock, news>>
    BY <1>2 DEF BeginSweep, TypeOK
  <2> QED
    BY <2>1 DEF TypeOK
<1>3. CASE LockHousehold(r)
  BY <1>3 DEF LockHousehold, TypeOK
<1>4. CASE UpdateRow(r)
  BY <1>4 DEF UpdateRow, TypeOK
<1>5. CASE CheckCreate(r)
  BY <1>5 DEF CheckCreate, TypeOK
<1>6. CASE CheckRoster(r)
  BY <1>6 DEF CheckRoster, TypeOK
<1>7. CASE ReadOffer(r)
  BY <1>7 DEF ReadOffer, TypeOK
<1>8. CASE ReadInvite(r)
  BY <1>8 DEF ReadInvite, TypeOK
<1>9. CASE FindRows(r)
  BY <1>9 DEF FindRows, TypeOK
<1>10. CASE EndStatement(r)
  BY <1>10 DEF EndStatement, TypeOK
<1>11. CASE Vouch(r)
  BY <1>11 DEF Vouch, TypeOK
<1>12. CASE CheckAdmission(r)
  BY <1>12 DEF CheckAdmission, TypeOK
<1>13. CASE Announce(r)
  <2>1. \/ /\ pc' = [pc EXCEPT ![r] = "find1"] /\ UNCHANGED <<call, due>>
        \/ /\ pc' = [pc EXCEPT ![r] = "idle"]
           /\ call' = [call EXCEPT ![r] = NoCall] /\ due' = [due EXCEPT ![r] = {}]
    BY <1>13 DEF Announce
  <2>2. /\ news' = [news EXCEPT ![r] = {}]
        /\ drained' = [drained EXCEPT ![r] = TRUE]
        /\ UNCHANGED <<absVars, invites, settings, stamps, hlock, seen, goal, veil, kept,
                       todo, held, marked>>
    BY <1>13 DEF Announce
  <2>3. \A s \in Reqs \ {r} : pc'[s] = pc[s] /\ call'[s] = call[s] /\ due'[s] = due[s]
    BY <2>1 DEF TypeOK
  <2> QED
    BY <2>2, <2>3 DEF TypeOK
<1>14. CASE Rollback(r)
  BY <1>14 DEF Rollback, Release, TypeOK
<1> QED
  BY <1>1, <1>2, <1>3, <1>4, <1>5, <1>6, <1>7, <1>8, <1>9, <1>10, <1>11, <1>12, <1>13, <1>14
-----------------------------------------------------------------------------
(* Each step of a request, up to its commit. *)

(* Asking for something. *)
LEMMA BeginKeeps ==
  ASSUME InvitesInv, TypeOK', NEW r \in Reqs, Begin(r)
  PROVE  InvitesInv'
<1>0. TypeOK /\ RequestFits(r) /\ pc[r] = "idle" /\ r \notin Sweepers
  BY DEF InvitesInv, Begin
<1>1. PICK c \in Calls :
         /\ BeforeLock(c)
         /\ call' = [call EXCEPT ![r] = c]
         /\ pc' = [pc EXCEPT ![r] =
                      IF LockMode(c.op) = "none" THEN
                          IF c.op = "create" THEN "check" ELSE "read"
                      ELSE "waiting"]
  BY DEF Begin
<1>2. UNCHANGED <<hlock, seen, goal, veil, kept, todo, held, marked, news, drained,
                  due, told, invites, live>>
  BY DEF Begin, absVars, inviteVars, settings, txVars
<1>3. call'[r] = c
  BY <1>0, <1>1 DEF TypeOK
<1>4. c.op \in Transitions \cup Closings \cup {"create", "lift"}
  BY <1>1 DEF BeforeLock, Transitions, Closings
<1>5. \/ pc'[r] = "waiting" /\ LockMode(c.op) # "none"
      \/ pc'[r] = "read" /\ LockMode(c.op) = "none" /\ c.op \in {"decline", "withdraw"}
  <2>1. LockMode(c.op) = "none" => c.op \in {"decline", "withdraw"}
    BY <1>4, LockModes DEF Transitions
  <2> QED
    BY <1>0, <1>1, <2>1 DEF TypeOK
<1>6. /\ held[r] = {} /\ marked[r] = {} /\ todo[r] = {} /\ kept[r] = {} /\ due[r] = {} /\ news[r] = {}
      /\ hlock[r] = "none"
  BY <1>0 DEF RequestFits, HandsFit, KeptFits, SweepFits, LockFits, InTx
<1>7. StageFits(r)'
  BY <1>0, <1>3, <1>5 DEF StageFits, Transitions, Scans
<1>8. GoalFits(r)' /\ HandsFit(r)'
  BY <1>2, <1>3, <1>5, <1>6 DEF GoalFits, HandsFit, KeptFits, Scans
<1>9. LockFits(r)'
  BY <1>2, <1>3, <1>5, <1>6 DEF LockFits, InTx
<1>10. ReadsHold(r)' /\ ScanFits(r)' /\ SweepFits(r)'
  BY <1>2, <1>3, <1>5, <1>6, NoReads, EarlyScan, NoSweep DEF Scans
<1> QED
  BY <1>0, <1>2, <1>7, <1>8, <1>9, <1>10, QuietStep, OwnSteps DEF RequestFits

(* A run of the sweep. *)
LEMMA BeginSweepKeeps ==
  ASSUME InvitesInv, TypeOK', NEW r \in Reqs, BeginSweep(r)
  PROVE  InvitesInv'
<1>0. TypeOK /\ RequestFits(r) /\ pc[r] = "idle"
  BY DEF InvitesInv, BeginSweep
<1>1. pc'[r] = "find1" /\ due'[r] = Overdue
  BY <1>0 DEF BeginSweep, TypeOK
<1>2. UNCHANGED <<hlock, seen, goal, veil, kept, todo, held, marked, news, drained,
                  told, invites, live>>
  BY DEF BeginSweep, absVars, inviteVars, settings, txVars
<1>3. call'[r].op = "sweep"
  <2>1. PICK c : c = [NoCall EXCEPT !.op = "sweep"]
    OBVIOUS
  <2>2. c.op = "sweep"
    BY <2>1, SweepCallType DEF BeginSweep
  <2>3. call'[r] = c
    BY <1>0, <2>1 DEF BeginSweep, TypeOK
  <2> QED
    BY <2>2, <2>3
<1>4. /\ held[r] = {} /\ marked[r] = {} /\ todo[r] = {} /\ kept[r] = {} /\ news[r] = {}
      /\ hlock[r] = "none"
  BY <1>0 DEF RequestFits, HandsFit, KeptFits, SweepFits, LockFits, InTx
<1>5. StageFits(r)'
  BY <1>1, <1>3 DEF StageFits, Scans
<1>6. GoalFits(r)' /\ HandsFit(r)'
  BY <1>1, <1>2, <1>3, <1>4 DEF GoalFits, HandsFit, KeptFits, Scans, Transitions
<1>7. LockFits(r)'
  BY <1>1, <1>2, <1>3, <1>4, LockModes DEF LockFits, InTx
<1>8. ReadsHold(r)' /\ ScanFits(r)'
  BY <1>1, <1>3, NoReads, EarlyScan
<1>9. SweepFits(r)'
  <2>1. \A i \in due'[r] : Outstanding(i) /\ invites[i].overdue
    BY <1>1 DEF Overdue
  <2>2. \A i \in due'[r] : invites'[i].overdue /\ invites'[i].status # "none"
    BY <2>1, <1>2 DEF Outstanding, OutstandingStatuses
  <2> QED
    BY <2>2, <1>1, <1>2, <1>3, <1>4 DEF SweepFits, Reached
<1> QED
  BY <1>0, <1>2, <1>5, <1>6, <1>7, <1>8, <1>9, QuietStep, OwnSteps DEF RequestFits

(* The household's row. *)
LEMMA LockKeeps ==
  ASSUME InvitesInv, TypeOK', NEW r \in Reqs, LockHousehold(r)
  PROVE  InvitesInv'
<1>0. TypeOK /\ RequestFits(r) /\ pc[r] = "waiting" /\ live
  BY DEF InvitesInv, LockHousehold
<1>1. pc'[r] = FirstStage(call[r].op) /\ hlock'[r] = LockMode(call[r].op)
  BY <1>0 DEF LockHousehold, TypeOK, Goto
<1>2. UNCHANGED <<call, seen, goal, veil, kept, todo, held, marked, news, drained,
                  due, told, invites, live>>
  BY DEF LockHousehold, absVars, inviteVars, settings, txVars
<1>3. /\ held[r] = {} /\ marked[r] = {} /\ todo[r] = {} /\ kept[r] = {} /\ news[r] = {}
  BY <1>0 DEF RequestFits, HandsFit, KeptFits, SweepFits
<1>4. LockMode(call[r].op) # "none"
  BY <1>0 DEF RequestFits, StageFits
<1>5. call[r].op \in Closings \cup {"lift", "create", "accept", "revoke", "approve"}
  BY <1>4, LockModes
<1>6. pc'[r] \in {"offer", "read", "check"} /\
      (pc'[r] = "offer" => call[r].op = "accept") /\
      (pc'[r] = "read" => call[r].op \in {"revoke", "approve"}) /\
      (pc'[r] = "check" => call[r].op \in Closings \cup {"create", "lift"})
  BY <1>1, <1>5 DEF FirstStage, Closings
<1>7. due[r] = {}
  BY <1>0, <1>5, NotDue DEF RequestFits, Closings
<1>8. StageFits(r)'
  BY <1>0, <1>2, <1>6 DEF StageFits, RequestFits, Transitions, Scans
<1>9. GoalFits(r)' /\ HandsFit(r)'
  BY <1>2, <1>3, <1>6 DEF GoalFits, HandsFit, KeptFits, Scans
<1>10. LockFits(r)'
  BY <1>0, <1>1, <1>2, <1>6 DEF LockFits, InTx
<1>11. ReadsHold(r)' /\ ScanFits(r)' /\ SweepFits(r)'
  BY <1>2, <1>3, <1>6, <1>7, NoReads, EarlyScan, NoSweep DEF Scans
<1>12. RequestFits(r)' /\ OnlyOwn(r)
  BY <1>0, <1>8, <1>9, <1>10, <1>11, OwnSteps DEF RequestFits
<1>13. HouseholdExclusion'
  <2>1. \A s \in Reqs \ {r} : /\ hlock'[s] = hlock[s] /\ hlock[s] # "exclusive"
                              /\ hlock'[r] = "exclusive" => hlock[s] = "none"
    BY <1>1, <1>12 DEF OnlyOwn, Same, LockHousehold, LockIsFree
  <2>2. HouseholdExclusion
    BY DEF InvitesInv
  <2> QED
    BY <2>1, <2>2 DEF HouseholdExclusion
<1>14. RowExclusion'
  BY <1>2 DEF InvitesInv, RowExclusion
<1>15. \A i \in InviteIds : Told(i)'
  BY <1>2 DEF InvitesInv, Told, Settled
<1> QED
  BY <1>12, <1>13, <1>14, <1>15, LocalStep

(* Whoever may send is a member or a server owner, and stands by the role     *)
(* offered.                                                                  *)
LEMMA SendersStand ==
  ASSUME TypeOK
  PROVE  /\ \A user, role, way : CouldSend(user, role, way) =>
                IsMember(members, user) \/ user \in ServerOwners
         /\ \A i \in InviteIds : SenderCouldStillSend(i) => SenderStands(i)
<1>1. \A user, roles : HoldsOneOf(members, user, roles) /\ roles \subseteq RoleNames
                           => IsMember(members, user)
  BY DEF HoldsOneOf, IsMember, RowsOfUser, LiveRows
<1>2. \A user, a, b : a \subseteq b /\ HoldsOneOf(members, user, a) => HoldsOneOf(members, user, b)
  BY DEF HoldsOneOf
<1>3. /\ {"HouseholdOwner"} \subseteq RoleNames
      /\ {"HouseholdOwner", "HouseholdAdmin"} \subseteq RoleNames \ {"HouseholdGuest"}
      /\ {"HouseholdMember"} \subseteq RoleNames \ {"HouseholdGuest"}
  BY DEF RoleNames, AssignableRoles
<1>4. ASSUME NEW user, NEW role, NEW way, CouldSend(user, role, way)
      PROVE  /\ IsMember(members, user) \/ user \in ServerOwners
             /\ \/ user \in ServerOwners
                \/ HoldsOneOf(members, user, {"HouseholdOwner"})
                \/ /\ role \in {"HouseholdMember", "HouseholdGuest"}
                   /\ HoldsOneOf(members, user, RoleNames \ {"HouseholdGuest"})
  <2>1. \/ user \in ServerOwners
        \/ HoldsOneOf(members, user, {"HouseholdOwner"})
        \/ /\ role \in {"HouseholdMember", "HouseholdGuest"}
           /\ \/ HoldsOneOf(members, user, {"HouseholdOwner", "HouseholdAdmin"})
              \/ HoldsOneOf(members, user, {"HouseholdMember"})
    BY <1>4 DEF CouldSend
  <2>2. \/ user \in ServerOwners
        \/ HoldsOneOf(members, user, {"HouseholdOwner"})
        \/ /\ role \in {"HouseholdMember", "HouseholdGuest"}
           /\ HoldsOneOf(members, user, RoleNames \ {"HouseholdGuest"})
    BY <2>1, <1>2, <1>3
  <2>3. RoleNames \ {"HouseholdGuest"} \subseteq RoleNames
    OBVIOUS
  <2> QED
    BY <2>2, <2>3, <1>1, <1>3
<1>5. ASSUME NEW i \in InviteIds, SenderCouldStillSend(i)
      PROVE  SenderStands(i)
  BY <1>4, <1>5 DEF SenderCouldStillSend, SenderStands
<1> QED
  BY <1>4, <1>5

(* A create reads under the lock what its invite will say. *)
LEMMA CheckCreateKeeps ==
  ASSUME InvitesInv, TypeOK', NEW r \in Reqs, CheckCreate(r)
  PROVE  InvitesInv'
<1>0. TypeOK /\ RequestFits(r) /\ pc[r] = "check" /\ call[r].op = "create"
  BY DEF InvitesInv, CheckCreate
<1>1. /\ pc'[r] = "find1" /\ goal'[r] \in OutstandingStatuses
      /\ veil'[r] = (Terms[call[r].inv].byAddress /\ Terms[call[r].inv].to \in banned)
      /\ kept'[r] \subseteq {call[r].inv}
      /\ \A i \in kept'[r] : Terms[i].byAddress
  BY <1>0 DEF CheckCreate, TypeOK, Goto, OutstandingStatuses
<1>2. UNCHANGED <<call, hlock, seen, todo, held, marked, news, drained, due, told, invites, live,
                  members, banned>>
  BY DEF CheckCreate, absVars, inviteVars, settings
<1>3. /\ held[r] = {} /\ marked[r] = {} /\ todo[r] = {} /\ kept[r] = {} /\ news[r] = {} /\ due[r] = {}
      /\ hlock[r] = LockMode(call[r].op)
  BY <1>0 DEF RequestFits, HandsFit, KeptFits, SweepFits, LockFits, InTx
<1>4. StageFits(r)'
  BY <1>0, <1>1, <1>2 DEF StageFits, RequestFits, Scans
<1>5. GoalFits(r)' /\ HandsFit(r)'
  BY <1>0, <1>1, <1>2, <1>3 DEF GoalFits, HandsFit, KeptFits, Transitions
<1>6. LockFits(r)'
  BY <1>0, <1>1, <1>2, <1>3 DEF LockFits, InTx, RequestFits
<1>7. ReadsHold(r)'
  <2>1. MayOpen(call[r])
    BY DEF CheckCreate
  <2>2. \/ IsMember(members, Terms[call[r].inv].from)
        \/ Terms[call[r].inv].from \in ServerOwners
    BY <1>0, <2>1, SendersStand DEF MayOpen
  <2>3. ~ Terms[call[r].inv].byAddress => Terms[call[r].inv].to \notin banned
    BY <2>1 DEF MayOpen
  <2> QED
    BY <1>0, <1>1, <1>2, <2>2, <2>3 DEF ReadsHold
<1>8. ScanFits(r)' /\ SweepFits(r)'
  BY <1>1, <1>2, <1>3, EarlyScan, NoSweep
<1> QED
  BY <1>0, <1>2, <1>4, <1>5, <1>6, <1>7, <1>8, QuietStep, OwnSteps DEF RequestFits

(* A roster operation decides. *)
LEMMA CheckRosterKeeps ==
  ASSUME InvitesInv, TypeOK', NEW r \in Reqs, CheckRoster(r)
  PROVE  InvitesInv'
<1>0. TypeOK /\ RequestFits(r) /\ pc[r] = "check" /\ call[r].op # "create"
  BY DEF InvitesInv, CheckRoster
<1>1. call[r].op \in Closings \cup {"lift"}
  BY <1>0 DEF RequestFits, StageFits
<1>2. UNCHANGED <<call, hlock, seen, goal, veil, kept, todo, held, marked, news, drained, due, told,
                  invites, live>>
  BY DEF CheckRoster, absVars, inviteVars, settings, txVars
<1>3. pc'[r] = IF call[r].op = "lift" THEN "find3" ELSE "find1"
  BY <1>0 DEF CheckRoster, TypeOK, Goto
<1>4. /\ held[r] = {} /\ marked[r] = {} /\ todo[r] = {} /\ kept[r] = {} /\ news[r] = {}
      /\ hlock[r] = LockMode(call[r].op)
  BY <1>0 DEF RequestFits, HandsFit, KeptFits, SweepFits, LockFits, InTx
<1>5. due[r] = {}
  BY <1>0, <1>1, NotDue DEF RequestFits, Closings
<1>6. StageFits(r)'
  BY <1>0, <1>1, <1>2, <1>3 DEF StageFits, RequestFits, Scans
<1>7. GoalFits(r)' /\ HandsFit(r)'
  BY <1>1, <1>2, <1>3, <1>4 DEF GoalFits, HandsFit, KeptFits, Closings, Transitions
<1>8. LockFits(r)'
  BY <1>0, <1>2, <1>3, <1>4 DEF LockFits, InTx, RequestFits
<1>9. ReadsHold(r)' /\ SweepFits(r)'
  BY <1>1, <1>2, <1>4, <1>5, NoReads, NoSweep DEF Closings
<1>10. ScanFits(r)'
  <2>1. CASE pc'[r] = "find1"
    BY <2>1, EarlyScan
  <2>2. CASE pc'[r] = "find3" /\ call[r].op = "lift"
    BY <2>2, <1>2 DEF ScanFits, Closes
  <2> QED
    BY <2>1, <2>2, <1>3
<1> QED
  BY <1>0, <1>2, <1>6, <1>7, <1>8, <1>9, <1>10, QuietStep, OwnSteps DEF RequestFits

(* An accept reads the offer and its sender's standing. *)
LEMMA ReadOfferKeeps ==
  ASSUME InvitesInv, TypeOK', NEW r \in Reqs, ReadOffer(r)
  PROVE  InvitesInv'
<1>0. TypeOK /\ RequestFits(r) /\ pc[r] = "offer" /\ call[r].op = "accept"
  BY DEF InvitesInv, ReadOffer, RequestFits, StageFits
<1>1. pc'[r] = "read" /\ goal'[r] = IF SenderCouldStillSend(call[r].inv) THEN "Accepted" ELSE "Revoked"
  BY <1>0 DEF ReadOffer, TypeOK, Goto
<1>2. UNCHANGED <<call, hlock, seen, veil, kept, todo, held, marked, news, drained, due, told,
                  invites, live, members>>
  BY DEF ReadOffer, absVars, inviteVars, settings
<1>3. /\ held[r] = {} /\ marked[r] = {} /\ todo[r] = {} /\ kept[r] = {} /\ news[r] = {} /\ due[r] = {}
      /\ hlock[r] = LockMode(call[r].op)
  BY <1>0 DEF RequestFits, HandsFit, KeptFits, SweepFits, LockFits, InTx
<1>4. StageFits(r)'
  BY <1>0, <1>1, <1>2 DEF StageFits, RequestFits, Scans, Transitions
<1>5. GoalFits(r)' /\ HandsFit(r)'
  BY <1>0, <1>1, <1>2, <1>3 DEF GoalFits, HandsFit, KeptFits
<1>6. LockFits(r)'
  BY <1>0, <1>1, <1>2, <1>3 DEF LockFits, InTx, RequestFits
<1>7. ReadsHold(r)'
  <2>1. PICK j \in InviteIds : j = call[r].inv
    BY <1>0, RecordTypes
  <2>2. SenderCouldStillSend(j) => SenderStands(j)
    BY <1>0, SendersStand
  <2>3. SenderStands(j)' <=> SenderStands(j)
    BY <1>2 DEF SenderStands
  <2>4. goal'[r] = "Accepted" => SenderStands(j)'
    BY <1>1, <2>1, <2>2, <2>3
  <2>5. call'[r].inv = j
    BY <1>2, <2>1
  <2> QED
    BY <1>0, <1>2, <2>4, <2>5 DEF ReadsHold
<1>8. ScanFits(r)' /\ SweepFits(r)'
  BY <1>1, <1>2, <1>3, EarlyScan, NoSweep
<1> QED
  BY <1>0, <1>2, <1>4, <1>5, <1>6, <1>7, <1>8, QuietStep, OwnSteps DEF RequestFits

(* A transition reads its row. *)
LEMMA ReadInviteKeeps ==
  ASSUME InvitesInv, TypeOK', NEW r \in Reqs, ReadInvite(r)
  PROVE  InvitesInv'
<1>0. TypeOK /\ RequestFits(r) /\ pc[r] = "read" /\ call[r].op \in Transitions
  BY DEF InvitesInv, ReadInvite, RequestFits, StageFits
<1>1. /\ pc'[r] = "write" /\ goal'[r] = GoalOf(r) /\ todo'[r] = {call[r].inv}
      /\ seen'[r] = invites[call[r].inv].status
  BY <1>0 DEF ReadInvite, TypeOK, Goto
<1>2. UNCHANGED <<call, hlock, veil, kept, held, marked, news, drained, due, told, invites, live,
                  members>>
  BY DEF ReadInvite, absVars, inviteVars, settings
<1>3. /\ held[r] = {} /\ marked[r] = {} /\ news[r] = {} /\ kept[r] = {}
      /\ hlock[r] = LockMode(call[r].op)
  BY <1>0 DEF RequestFits, HandsFit, KeptFits, SweepFits, LockFits, InTx, Transitions
<1>4. due[r] = {}
  BY <1>0, NotDue DEF RequestFits, Transitions
<1>5. StageFits(r)'
  BY <1>0, <1>1, <1>2 DEF StageFits, RequestFits, Scans
<1>6. seen'[r] \in OutstandingStatuses
  BY <1>1 DEF ReadInvite, MayMove, StartsFrom, OutstandingStatuses
<1>7. GoalFits(r)'
  <2>1. call[r].op = "accept" => GoalOf(r) = goal[r] /\ goal[r] \in {"Accepted", "Revoked"}
    BY <1>0 DEF GoalOf, RequestFits, GoalFits
  <2>2. call[r].op = "approve" => GoalOf(r) = "Pending"
    BY DEF GoalOf
  <2>3. call[r].op \in {"decline", "withdraw", "revoke"} =>
            GoalOf(r) \in {"Declined", "Withdrawn", "Revoked"}
    BY DEF GoalOf
  <2> QED
    BY <1>0, <1>1, <1>2, <1>6, <2>1, <2>2, <2>3 DEF GoalFits, Transitions, Scans
<1>8. HandsFit(r)'
  BY <1>0, <1>1, <1>2, <1>3 DEF HandsFit, KeptFits, Transitions
<1>9. LockFits(r)'
  BY <1>0, <1>1, <1>2, <1>3 DEF LockFits, InTx, RequestFits
<1>10. ReadsHold(r)'
  <2>1. CASE call[r].op = "accept"
    <3>1. PICK j : j = call[r].inv
      OBVIOUS
    <3>2. SenderStands(j)' <=> SenderStands(j)
      BY <1>2 DEF SenderStands
    <3>3. goal'[r] = goal[r] /\ call'[r].inv = j /\ call'[r].op = "accept"
      BY <1>1, <1>2, <2>1, <3>1 DEF GoalOf
    <3>4. goal[r] = "Accepted" => SenderStands(j)
      BY <1>0, <2>1, <3>1 DEF RequestFits, ReadsHold
    <3> QED
      BY <3>2, <3>3, <3>4 DEF ReadsHold
  <2>2. CASE call[r].op # "accept"
    BY <1>0, <1>2, <2>2, NoReads DEF Transitions
  <2> QED
    BY <2>1, <2>2
<1>11. ScanFits(r)' /\ SweepFits(r)'
  BY <1>1, <1>2, <1>3, <1>4, EarlyScan, NoSweep
<1> QED
  BY <1>0, <1>2, <1>5, <1>7, <1>8, <1>9, <1>10, <1>11, QuietStep, OwnSteps DEF RequestFits

(* The last questions of an approval and of an admission. *)
LEMMA LastQuestionKeeps ==
  ASSUME InvitesInv, TypeOK', NEW r \in Reqs, Vouch(r) \/ CheckAdmission(r)
  PROVE  InvitesInv'
<1>0. TypeOK /\ RequestFits(r) /\ pc[r] \in {"vouch", "admit"}
      /\ (pc[r] = "vouch" => call[r].op = "approve")
      /\ (pc[r] = "admit" => call[r].op = "accept" /\ goal[r] = "Accepted")
  BY DEF InvitesInv, Vouch, CheckAdmission, RequestFits, StageFits
<1>1. pc'[r] = "commit"
  BY <1>0 DEF Vouch, CheckAdmission, TypeOK, Goto
<1>2. UNCHANGED <<call, hlock, seen, goal, veil, kept, todo, held, marked, news, drained, due, told,
                  invites, live, members, banned>>
  BY DEF Vouch, CheckAdmission, absVars, inviteVars, settings, txVars
<1>3. news[r] = {} /\ due[r] = {} /\ hlock[r] = LockMode(call[r].op)
  BY <1>0 DEF RequestFits, SweepFits, LockFits, InTx
<1>4. StageFits(r)'
  BY <1>0, <1>1, <1>2 DEF StageFits, RequestFits, Scans, OpNames
<1>5. GoalFits(r)'
  BY <1>0, <1>1, <1>2 DEF GoalFits, RequestFits
<1>6. HandsFit(r)'
  <2>1. HandsFit(r)
    BY <1>0 DEF RequestFits
  <2> QED
    BY <2>1, <1>0, <1>1, <1>2 DEF HandsFit, KeptFits, Transitions, Outstanding
<1>7. LockFits(r)'
  BY <1>0, <1>1, <1>2, <1>3 DEF LockFits, InTx, RequestFits
<1>8. ReadsHold(r)'
  <2>1. ReadsHold(r)
    BY <1>0 DEF RequestFits
  <2> QED
    BY <2>1, <1>0, <1>1, <1>2 DEF ReadsHold, SenderStands
<1>9. ScanFits(r)' /\ SweepFits(r)'
  BY <1>0, <1>2, <1>3, OtherScan, NoSweep DEF Transitions
<1> QED
  BY <1>0, <1>2, <1>4, <1>5, <1>6, <1>7, <1>8, <1>9, QuietStep, OwnSteps DEF RequestFits

(* Whom a closing is about it covers, whatever the row holds. *)
LEMMA ClosesCovers ==
  ASSUME NEW c, NEW i, Closes(c, i)
  PROVE  Covers(c, i) /\ c.op \in Closings
  BY DEF Closes, Covers, Closings

(* A bulk statement locates its rows; a short batch is all of them. *)
LEMMA TakesAll ==
  ASSUME TypeOK, NEW r \in Reqs, NEW rows \in SUBSET InviteIds, Taken(r, rows),
         call[r].op = "sweep" => Cardinality(rows) < Batch
  PROVE  rows = Located(r)
<1>1. Located(r) \subseteq InviteIds
  BY DEF Located
<1>2. IsFiniteSet(Located(r))
  BY <1>1, FS_Subset
<1>3. CASE call[r].op # "sweep"
  BY <1>3 DEF Taken
<1>4. CASE call[r].op = "sweep"
  <2>1. /\ rows \subseteq Located(r)
        /\ Cardinality(rows) = IF Cardinality(Located(r)) < Batch
                                 THEN Cardinality(Located(r)) ELSE Batch
    BY <1>4 DEF Taken
  <2>2. Cardinality(rows) < Batch
    BY <1>4
  <2>3. Cardinality(rows) = Cardinality(Located(r))
    BY <2>1, <2>2
  <2> QED
    BY <1>2, <2>1, <2>3, FS_Subset
<1> QED
  BY <1>3, <1>4

(* The rows a bulk statement locates. *)
LEMMA FindKeeps ==
  ASSUME InvitesInv, TypeOK', NEW r \in Reqs, FindRows(r)
  PROVE  InvitesInv'
<1>0. TypeOK /\ RequestFits(r) /\ pc[r] \in {"find1", "find2", "find3"}
  BY DEF InvitesInv, FindRows
<1>1. PICK rows \in SUBSET InviteIds :
         /\ Taken(r, rows)
         /\ todo' = [todo EXCEPT ![r] = rows]
         /\ drained' = [drained EXCEPT ![r] =
               @ /\ (call[r].op = "sweep" => Cardinality(rows) < Batch)]
  BY DEF FindRows
<1>2. UNCHANGED <<call, hlock, seen, goal, veil, held, marked, news, due, told,
                  invites, live, members, banned>>
  BY DEF FindRows, absVars, inviteVars, settings
<1>k. kept'[r] = kept[r] \cup KeptBack(r)
  BY <1>0 DEF FindRows, TypeOK
<1>3. todo'[r] = rows /\ (drained'[r] => drained[r] /\ (call[r].op = "sweep" => Cardinality(rows) < Batch))
  BY <1>0, <1>1 DEF TypeOK
<1>4. /\ pc[r] = "find1" => pc'[r] = "lock1"
      /\ pc[r] = "find2" => pc'[r] = "lock2"
      /\ pc[r] = "find3" => pc'[r] = "lock3"
  BY <1>0 DEF FindRows, TypeOK, Goto, LockStage
<1>5. StageFits(r)
  BY <1>0 DEF RequestFits
<1>6. /\ pc[r] \in {"find1", "find2"} => call[r].op \in Closings \cup {"create", "sweep"}
      /\ pc[r] = "find3" => call[r].op \in {"ban", "lift"}
  BY <1>0, <1>5 DEF StageFits, Scans
<1>7. StageFits(r)'
  BY <1>0, <1>2, <1>4, <1>5, <1>6 DEF StageFits, Scans
<1>8. GoalFits(r)'
  BY <1>0, <1>2, <1>4, <1>6 DEF GoalFits, RequestFits, Closings, Scans
<1>9. call[r].op # "sweep" \/ drained'[r] => rows = Located(r)
  BY <1>0, <1>1, <1>3, TakesAll
<1>10. HandsFit(r)'
  <2>1. HandsFit(r)
    BY <1>0 DEF RequestFits
  <2>2. pc[r] = "find3" => rows \cap held[r] = {}
    BY <1>6, <1>9 DEF Located
  <2>3. call[r].op \notin Transitions
    BY <1>0, <1>6 DEF Transitions, Closings
  <2>4. \A i \in held[r] \cup marked[r] : Outstanding(i)'
    BY <1>2, <2>1 DEF HandsFit, Outstanding
  <2>5. KeptFits(r)'
    <3>1. \A i \in KeptBack(r) : /\ call[r].op = "lift" /\ Terms[i].byAddress
                                /\ Terms[i].to = call[r].user
      BY DEF KeptBack, MarkApplies
    <3>2. KeptFits(r)
      BY <2>1 DEF HandsFit, KeptFits
    <3> QED
      BY <1>0, <1>2, <1>4, <1>k, <3>1, <3>2 DEF KeptFits
  <2> QED
    BY <1>0, <1>2, <1>3, <1>4, <2>1, <2>2, <2>3, <2>4, <2>5 DEF HandsFit, KeptFits
<1>11. LockFits(r)'
  BY <1>0, <1>2, <1>4 DEF LockFits, InTx, RequestFits
<1>12. ReadsHold(r)'
  <2>1. CASE call[r].op = "create"
    <3>1. ReadsHold(r) /\ pc[r] \in Scans
      BY <1>0, <1>6, <2>1 DEF RequestFits, Scans
    <3> QED
      BY <1>2, <2>1, <3>1 DEF ReadsHold
  <2>2. CASE call[r].op # "create"
    <3>1. call[r].op # "accept"
      BY <1>0, <1>6 DEF Closings
    <3> QED
      BY <1>2, <2>2, <3>1, NoReads
  <2> QED
    BY <2>1, <2>2
<1>13. ScanFits(r)'
  <2>1. ScanFits(r)
    BY <1>0 DEF RequestFits
  <2>2. ASSUME NEW i \in InviteIds, Closes(call[r], i)
        PROVE  /\ Reached(r, i, "AwaitingApproval", "lock1",
                          {"find2", "lock2", "find3", "lock3", "commit"})'
               /\ Reached(r, i, "Pending", "lock2", {"find3", "lock3", "commit"})'
    <3>1. Covers(call[r], i) /\ call[r].op \in Closings
      BY <2>2, ClosesCovers
    <3>2. rows = Located(r)
      BY <1>9, <3>1 DEF Closings
    <3>3. pc[r] = "find1" /\ invites[i].status = "AwaitingApproval" => i \in rows
      BY <3>1, <3>2 DEF Located, StatusOf
    <3>4. pc[r] = "find2" /\ invites[i].status = "Pending" => i \in rows
      BY <3>1, <3>2 DEF Located, StatusOf
    <3>5. /\ Reached(r, i, "AwaitingApproval", "lock1",
                      {"find2", "lock2", "find3", "lock3", "commit"})
          /\ Reached(r, i, "Pending", "lock2", {"find3", "lock3", "commit"})
      BY <2>1, <2>2 DEF ScanFits
    <3> QED
      BY <1>0, <1>2, <1>3, <1>4, <3>3, <3>4, <3>5 DEF Reached
  <2>3. ASSUME call[r].op \in {"ban", "lift"}, NEW i \in InviteIds \ held[r], MarkApplies(call[r], i),
               pc'[r] = "lock3"
        PROVE  i \in todo'[r] \cup kept'[r]
    <3>1. pc[r] = "find3"
      BY <1>0, <1>4, <2>3
    <3>2. rows = Located(r)
      BY <1>9, <2>3
    <3> QED
      BY <1>3, <1>k, <2>3, <3>1, <3>2 DEF Located
  <2>4. pc'[r] # "commit"
    BY <1>0, <1>4
  <2>5. \A i \in InviteIds : MarkApplies(call[r], i)' <=> MarkApplies(call[r], i)
    BY <1>2 DEF MarkApplies, Outstanding
  <2> QED
    BY <1>2, <2>2, <2>3, <2>4, <2>5 DEF ScanFits
<1>14. SweepFits(r)'
  <2>1. SweepFits(r)
    BY <1>0 DEF RequestFits
  <2>2. ASSUME drained'[r], NEW i \in due[r]
        PROVE  /\ Reached(r, i, "AwaitingApproval", "lock1", {"find2", "lock2", "commit"})'
               /\ Reached(r, i, "Pending", "lock2", {"commit"})'
    <3>1. invites[i].overdue /\ call[r].op = "sweep" /\ i \in InviteIds
      BY <1>0, <2>1, <2>2 DEF SweepFits, TypeOK
    <3>2. Covers(call[r], i)
      BY <3>1 DEF Covers
    <3>3. rows = Located(r)
      BY <1>9, <2>2
    <3>4. pc[r] = "find1" /\ invites[i].status = "AwaitingApproval" => i \in rows
      BY <3>1, <3>2, <3>3 DEF Located, StatusOf
    <3>5. pc[r] = "find2" /\ invites[i].status = "Pending" => i \in rows
      BY <3>1, <3>2, <3>3 DEF Located, StatusOf
    <3>6. /\ Reached(r, i, "AwaitingApproval", "lock1", {"find2", "lock2", "commit"})
          /\ Reached(r, i, "Pending", "lock2", {"commit"})
      BY <1>3, <2>1, <2>2 DEF SweepFits
    <3> QED
      BY <1>0, <1>2, <1>3, <1>4, <1>6, <3>1, <3>4, <3>5, <3>6 DEF Reached
  <2>3. pc'[r] \notin {"idle", "announce"} /\ news'[r] = {}
    BY <1>0, <1>2, <1>4, <2>1 DEF SweepFits
  <2> QED
    BY <1>0, <1>2, <2>1, <2>2, <2>3 DEF SweepFits
<1> QED
  BY <1>0, <1>2, <1>7, <1>8, <1>10, <1>11, <1>12, <1>13, <1>14, QuietStep, OwnSteps DEF RequestFits

(* A bulk or a guarded statement comes to its next row. *)
LEMMA UpdateKeeps ==
  ASSUME InvitesInv, TypeOK', NEW r \in Reqs, UpdateRow(r)
  PROVE  InvitesInv'
<1>0. TypeOK /\ RequestFits(r) /\ pc[r] \in {"write", "lock1", "lock2", "lock3"}
  BY DEF InvitesInv, UpdateRow
<1>1. PICK i \in todo[r] :
         /\ RowFree(r, i)
         /\ todo' = [todo EXCEPT ![r] = @ \ {i}]
         /\ held' = [held EXCEPT ![r] =
               IF Matches(r, i) /\ pc[r] # "lock3" THEN @ \cup {i} ELSE @]
         /\ marked' = [marked EXCEPT ![r] =
               IF Matches(r, i) /\ pc[r] = "lock3" THEN @ \cup {i} ELSE @]
  BY DEF UpdateRow
<1>2. UNCHANGED <<pc, call, hlock, seen, goal, veil, kept, news, drained, due, told,
                  invites, live, members, banned>>
  BY DEF UpdateRow, absVars, inviteVars, settings
<1>3. /\ todo'[r] = todo[r] \ {i}
      /\ held'[r] = IF Matches(r, i) /\ pc[r] # "lock3" THEN held[r] \cup {i} ELSE held[r]
      /\ marked'[r] = IF Matches(r, i) /\ pc[r] = "lock3" THEN marked[r] \cup {i} ELSE marked[r]
  BY <1>0, <1>1 DEF TypeOK
<1>i. i \in InviteIds
  BY <1>0 DEF TypeOK
<1>4. StageFits(r)
  BY <1>0 DEF RequestFits
<1>5. /\ pc[r] = "write" => call[r].op \in Transitions
      /\ pc[r] \in {"lock1", "lock2"} => call[r].op \in Closings \cup {"create", "sweep"}
      /\ pc[r] = "lock3" => call[r].op \in {"ban", "lift"}
  BY <1>4 DEF StageFits, Scans
<1>6. StageFits(r)' /\ GoalFits(r)'
  BY <1>0, <1>2, <1>4 DEF StageFits, GoalFits, RequestFits
<1>7. Matches(r, i) => Outstanding(i)
  <2>1. pc[r] = "write" => seen[r] \in OutstandingStatuses
    BY <1>0 DEF RequestFits, GoalFits
  <2> QED
    BY <2>1 DEF Matches, MarkApplies, StatusOf, Outstanding, OutstandingStatuses
<1>8. HandsFit(r)'
  <2>1. HandsFit(r)
    BY <1>0 DEF RequestFits
  <2>2. pc[r] = "lock3" /\ Matches(r, i) => /\ i \notin held[r]
                                            /\ Terms[i].byAddress /\ Terms[i].to = call[r].user
    BY <2>1, <1>0 DEF HandsFit, Matches, MarkApplies
  <2>3. \A j \in held'[r] \cup marked'[r] : Outstanding(j)'
    BY <1>2, <1>3, <1>7, <2>1 DEF HandsFit, Outstanding
  <2>4. call[r].op = "lift" => pc[r] = "lock3"
    BY <1>0, <1>5 DEF Transitions, Closings
  <2>5. call[r].op \in Transitions => pc[r] = "write"
    BY <1>0, <1>5 DEF Transitions, Closings
  <2>6. call[r].op \in Transitions => held'[r] \subseteq {call[r].inv} /\ todo'[r] \subseteq {call[r].inv}
    BY <1>3, <2>1 DEF HandsFit
  <2>7. \/ pc[r] # "lock3" /\ marked[r] = {} /\ marked'[r] = {}
        \/ pc[r] = "lock3" /\ held'[r] = held[r]
    BY <1>0, <1>3, <2>1 DEF HandsFit
  <2>8. held'[r] \cap marked'[r] = {}
    BY <1>3, <2>1, <2>2, <2>7 DEF HandsFit
  <2>9. \A j \in marked'[r] : Terms[j].byAddress /\ Terms[j].to = call[r].user
    BY <1>3, <2>1, <2>2 DEF HandsFit
  <2>10. pc[r] = "lock3" => todo'[r] \cap held'[r] = {}
    BY <1>3, <2>1, <2>7 DEF HandsFit
  <2>11. call[r].op = "lift" => held'[r] = {}
    BY <1>3, <2>1, <2>4 DEF HandsFit
  <2>12. pc[r] \notin {"lock3", "commit"} \/ call[r].op \notin {"ban", "lift"} => marked'[r] = {}
    BY <1>5, <2>7
  <2>13. KeptFits(r)'
    BY <1>2, <2>1 DEF HandsFit, KeptFits
  <2> QED
    BY <1>0, <1>2, <2>3, <2>6, <2>8, <2>9, <2>10, <2>11, <2>12, <2>13 DEF HandsFit
<1>9. LockFits(r)' /\ ReadsHold(r)'
  BY <1>0, <1>2 DEF LockFits, InTx, RequestFits, ReadsHold, SenderStands
<1>10. ScanFits(r)'
  <2>1. ScanFits(r)
    BY <1>0 DEF RequestFits
  <2>2. ASSUME NEW j \in InviteIds, Closes(call[r], j)
        PROVE  /\ Reached(r, j, "AwaitingApproval", "lock1",
                          {"find2", "lock2", "find3", "lock3", "commit"})'
               /\ Reached(r, j, "Pending", "lock2", {"find3", "lock3", "commit"})'
    <3>1. Covers(call[r], j)
      BY <2>2, ClosesCovers
    <3>2. j = i /\ pc[r] = "lock1" /\ invites[j].status = "AwaitingApproval" => j \in held'[r]
      BY <1>3, <3>1 DEF Matches, StatusOf
    <3>3. j = i /\ pc[r] = "lock2" /\ invites[j].status = "Pending" => j \in held'[r]
      BY <1>3, <3>1 DEF Matches, StatusOf
    <3>4. /\ Reached(r, j, "AwaitingApproval", "lock1",
                      {"find2", "lock2", "find3", "lock3", "commit"})
          /\ Reached(r, j, "Pending", "lock2", {"find3", "lock3", "commit"})
      BY <2>1, <2>2 DEF ScanFits
    <3> QED
      BY <1>0, <1>2, <1>3, <3>2, <3>3, <3>4 DEF Reached
  <2>3. ASSUME call[r].op \in {"ban", "lift"}, NEW j \in InviteIds \ held'[r], MarkApplies(call[r], j),
               pc[r] = "lock3"
        PROVE  j \in marked'[r] \cup todo'[r] \cup kept[r]
    <3>1. j \in marked[r] \cup todo[r] \cup kept[r]
      BY <1>3, <2>1, <2>3 DEF ScanFits
    <3>2. j = i => Matches(r, i)
      BY <2>3 DEF Matches
    <3> QED
      BY <1>3, <2>3, <3>1, <3>2
  <2>5. \A j \in InviteIds : MarkApplies(call[r], j)' <=> MarkApplies(call[r], j)
    BY <1>2 DEF MarkApplies, Outstanding
  <2> QED
    BY <1>0, <1>2, <2>2, <2>3, <2>5 DEF ScanFits
<1>11. SweepFits(r)'
  <2>1. SweepFits(r)
    BY <1>0 DEF RequestFits
  <2>2. ASSUME drained[r], NEW j \in due[r]
        PROVE  /\ Reached(r, j, "AwaitingApproval", "lock1", {"find2", "lock2", "commit"})'
               /\ Reached(r, j, "Pending", "lock2", {"commit"})'
    <3>1. invites[j].overdue /\ call[r].op = "sweep"
      BY <2>1, <2>2 DEF SweepFits
    <3>2. Covers(call[r], j)
      BY <3>1 DEF Covers
    <3>3. j = i /\ pc[r] = "lock1" /\ invites[j].status = "AwaitingApproval" => j \in held'[r]
      BY <1>3, <3>2 DEF Matches, StatusOf
    <3>4. j = i /\ pc[r] = "lock2" /\ invites[j].status = "Pending" => j \in held'[r]
      BY <1>3, <3>2 DEF Matches, StatusOf
    <3>5. /\ Reached(r, j, "AwaitingApproval", "lock1", {"find2", "lock2", "commit"})
          /\ Reached(r, j, "Pending", "lock2", {"commit"})
      BY <2>1, <2>2 DEF SweepFits
    <3> QED
      BY <1>0, <1>2, <1>3, <3>3, <3>4, <3>5 DEF Reached
  <2> QED
    BY <1>0, <1>2, <2>1, <2>2 DEF SweepFits
<1>12. RequestFits(r)' /\ OnlyOwn(r)
  BY <1>0, <1>6, <1>8, <1>9, <1>10, <1>11, OwnSteps DEF RequestFits
<1>13. HouseholdExclusion' /\ \A j \in InviteIds : Told(j)'
  BY <1>2 DEF InvitesInv, HouseholdExclusion, Told, Settled
<1>14. RowExclusion'
  <2>1. held'[r] \cup marked'[r] \subseteq held[r] \cup marked[r] \cup {i}
    BY <1>3
  <2>2. \A s \in Reqs \ {r} : /\ held'[s] = held[s] /\ marked'[s] = marked[s]
                              /\ i \notin held[s] \cup marked[s]
    BY <1>1, <1>12 DEF OnlyOwn, Same, RowFree
  <2>3. RowExclusion
    BY DEF InvitesInv
  <2> QED
    BY <2>1, <2>2, <2>3 DEF RowExclusion
<1> QED
  BY <1>12, <1>13, <1>14, LocalStep

(* A statement that has come to all its rows has reached them. *)
LEMMA EndKeeps ==
  ASSUME InvitesInv, TypeOK', NEW r \in Reqs, EndStatement(r)
  PROVE  InvitesInv'
<1>0. /\ TypeOK /\ RequestFits(r) /\ pc[r] \in {"write", "lock1", "lock2", "lock3"}
      /\ todo[r] = {} /\ (pc[r] = "write" => held[r] # {})
  BY DEF InvitesInv, EndStatement
<1>1. UNCHANGED <<call, hlock, seen, goal, veil, kept, todo, held, marked, news, drained, due, told,
                  invites, live, members, banned>>
  BY DEF EndStatement, absVars, inviteVars, settings, txVars
<1>2. /\ pc[r] = "write" => /\ call[r].op = "approve" => pc'[r] = "vouch"
                            /\ call[r].op # "approve" =>
                                 pc'[r] = IF goal[r] = "Accepted" THEN "admit" ELSE "commit"
      /\ pc[r] = "lock1" => pc'[r] = "find2"
      /\ pc[r] = "lock2" => pc'[r] = IF call[r].op = "ban" THEN "find3" ELSE "commit"
      /\ pc[r] = "lock3" => pc'[r] = "commit"
  BY <1>0 DEF EndStatement, TypeOK, Goto, StageAfter
<1>3. StageFits(r) /\ GoalFits(r) /\ HandsFit(r)
  BY <1>0 DEF RequestFits
<1>4. /\ pc[r] = "write" => call[r].op \in Transitions
      /\ pc[r] \in {"lock1", "lock2"} => call[r].op \in Closings \cup {"create", "sweep"}
      /\ pc[r] = "lock3" => call[r].op \in {"ban", "lift"}
  BY <1>3 DEF StageFits, Scans
<1>5. pc'[r] = "admit" => call[r].op = "accept" /\ goal[r] = "Accepted"
  BY <1>0, <1>2, <1>3, <1>4 DEF GoalFits, Transitions
<1>6. StageFits(r)'
  <2>1. r \in Sweepers => call[r].op = "sweep"
    BY <1>0, <1>3 DEF StageFits
  <2>2. call[r].op \in OpNames \ {"changeRoles"}
    BY <1>0, <1>4 DEF Transitions, Closings, OpNames
  <2>3. pc'[r] \in {"vouch", "admit", "find2", "find3", "commit"}
    BY <1>0, <1>2
  <2>4. pc'[r] = "vouch" => call[r].op = "approve"
    BY <1>0, <1>2
  <2>5. pc'[r] = "find2" => call[r].op \in Closings \cup {"create", "sweep"}
    BY <1>0, <1>2, <1>4
  <2>6. pc'[r] = "find3" => call[r].op = "ban"
    BY <1>0, <1>2
  <2> QED
    BY <1>1, <1>5, <2>1, <2>2, <2>3, <2>4, <2>5, <2>6 DEF StageFits, Scans
<1>7. GoalFits(r)'
  <2>1. pc'[r] \in {"vouch", "admit", "find2", "find3", "commit"}
    BY <1>0, <1>2
  <2>2. call[r].op \in {"accept", "approve", "decline", "withdraw", "revoke"} => pc[r] = "write"
    BY <1>0, <1>4 DEF Closings
  <2>3. call[r].op = "create" => pc[r] \in Scans
    BY <1>0, <1>4 DEF Transitions, Scans
  <2> QED
    BY <1>1, <1>3, <2>1, <2>2, <2>3 DEF GoalFits
<1>8. HandsFit(r)'
  <2>1. pc'[r] \in {"vouch", "admit", "find2", "find3", "commit"}
    BY <1>0, <1>2
  <2>2. call[r].op \in Transitions => pc[r] = "write"
    BY <1>0, <1>4 DEF Transitions, Closings
  <2>3. call[r].op \in Transitions => call[r].inv \in held[r]
    BY <1>0, <1>3, <2>2 DEF HandsFit
  <2>4. \A i \in held[r] \cup marked[r] : Outstanding(i)'
    BY <1>1, <1>3 DEF HandsFit, Outstanding
  <2>5. pc'[r] \notin {"lock3", "commit"} \/ call[r].op \notin {"ban", "lift"} => marked[r] = {}
    BY <1>0, <1>2, <1>3 DEF HandsFit
  <2> QED
    BY <1>1, <1>3, <2>1, <2>3, <2>4, <2>5 DEF HandsFit, KeptFits
<1>9. LockFits(r)'
  BY <1>0, <1>1, <1>2 DEF LockFits, InTx, RequestFits
<1>10. ReadsHold(r)'
  <2>1. ReadsHold(r)
    BY <1>0 DEF RequestFits
  <2>2. call[r].op = "create" => pc[r] \in Scans
    BY <1>0, <1>4 DEF Transitions, Scans
  <2>3. call[r].op = "accept" => pc[r] = "write"
    BY <1>0, <1>4 DEF Closings
  <2> QED
    BY <1>1, <2>1, <2>2, <2>3 DEF ReadsHold, SenderStands
<1>11. ScanFits(r)'
  <2>1. ScanFits(r)
    BY <1>0 DEF RequestFits
  <2>2. ASSUME NEW i \in InviteIds, Closes(call[r], i)
        PROVE  /\ Reached(r, i, "AwaitingApproval", "lock1",
                          {"find2", "lock2", "find3", "lock3", "commit"})'
               /\ Reached(r, i, "Pending", "lock2", {"find3", "lock3", "commit"})'
    <3>1. pc[r] # "write"
      BY <1>4, <2>2, ClosesCovers DEF Closings, Transitions
    <3>2. /\ Reached(r, i, "AwaitingApproval", "lock1",
                      {"find2", "lock2", "find3", "lock3", "commit"})
          /\ Reached(r, i, "Pending", "lock2", {"find3", "lock3", "commit"})
      BY <2>1, <2>2 DEF ScanFits
    <3>3. pc'[r] \in {"find2", "find3", "commit"} /\ (pc[r] = "lock1" => pc'[r] = "find2")
      BY <1>0, <1>2, <3>1
    <3> QED
      BY <1>0, <1>1, <3>1, <3>2, <3>3 DEF Reached
  <2>3. ASSUME call[r].op \in {"ban", "lift"}, NEW i \in InviteIds \ held[r], MarkApplies(call[r], i)
        PROVE  /\ pc'[r] # "lock3"
               /\ pc'[r] = "commit" => i \in marked[r] \cup kept[r]
    <3>1. pc'[r] = "commit" => pc[r] = "lock3"
      BY <1>0, <1>2, <1>4, <2>3 DEF Transitions, Closings
    <3>2. pc[r] = "lock3" => i \in marked[r] \cup kept[r]
      BY <1>0, <2>1, <2>3 DEF ScanFits
    <3> QED
      BY <1>0, <1>2, <3>1, <3>2
  <2>4. \A i \in InviteIds : MarkApplies(call[r], i)' <=> MarkApplies(call[r], i)
    BY <1>1 DEF MarkApplies, Outstanding
  <2> QED
    BY <1>1, <2>2, <2>3, <2>4 DEF ScanFits
<1>12. SweepFits(r)'
  <2>1. SweepFits(r)
    BY <1>0 DEF RequestFits
  <2>2. ASSUME drained[r], NEW i \in due[r]
        PROVE  /\ Reached(r, i, "AwaitingApproval", "lock1", {"find2", "lock2", "commit"})'
               /\ Reached(r, i, "Pending", "lock2", {"commit"})'
    <3>1. call[r].op = "sweep"
      BY <2>1, <2>2 DEF SweepFits
    <3>2. pc[r] \in {"lock1", "lock2"}
      BY <1>0, <1>4, <3>1 DEF Transitions
    <3>3. /\ Reached(r, i, "AwaitingApproval", "lock1", {"find2", "lock2", "commit"})
          /\ Reached(r, i, "Pending", "lock2", {"commit"})
      BY <2>1, <2>2 DEF SweepFits
    <3> QED
      BY <1>0, <1>1, <1>2, <3>1, <3>2, <3>3 DEF Reached
  <2>3. pc'[r] \notin {"idle", "announce"} /\ news'[r] = {}
    BY <1>0, <1>1, <1>2, <2>1 DEF SweepFits
  <2> QED
    BY <1>0, <1>1, <2>1, <2>2, <2>3 DEF SweepFits
<1> QED
  BY <1>0, <1>1, <1>6, <1>7, <1>8, <1>9, <1>10, <1>11, <1>12, QuietStep, OwnSteps DEF RequestFits

(* A request that is over has nothing left in hand. *)
LEMMA IdleFits ==
  ASSUME NEW r, pc'[r] = "idle", held'[r] = {}, marked'[r] = {}, todo'[r] = {},
         kept'[r] = {}, hlock'[r] = "none", due'[r] = {}, news'[r] = {}
  PROVE  RequestFits(r)'
<1>1. StageFits(r)' /\ GoalFits(r)' /\ HandsFit(r)' /\ LockFits(r)'
  BY DEF StageFits, GoalFits, HandsFit, KeptFits, LockFits, InTx, Scans
<1>2. ReadsHold(r)' /\ ScanFits(r)' /\ SweepFits(r)'
  BY NoReads, EarlyScan, NoSweep DEF Scans
<1> QED
  BY <1>1, <1>2 DEF RequestFits

(* What was owed is announced, once. *)
LEMMA AnnounceKeeps ==
  ASSUME InvitesInv, TypeOK', NEW r \in Reqs, Announce(r)
  PROVE  InvitesInv'
<1>0. TypeOK /\ RequestFits(r) /\ pc[r] = "announce"
  BY DEF InvitesInv, Announce
<1>1. UNCHANGED <<hlock, seen, goal, veil, kept, todo, held, marked, invites, live, members, banned>>
  BY DEF Announce, absVars
<1>2. news'[r] = {} /\ drained'[r] = TRUE
  BY <1>0 DEF Announce, TypeOK
<1>3. \/ pc'[r] = "find1" /\ call'[r] = call[r] /\ due'[r] = due[r] /\ call[r].op = "sweep"
      \/ pc'[r] = "idle" /\ due'[r] = {}
  BY <1>0 DEF Announce, TypeOK, Goto
<1>4. held[r] = {} /\ marked[r] = {} /\ todo[r] = {} /\ kept[r] = {} /\ hlock[r] = "none"
  BY <1>0 DEF RequestFits, HandsFit, KeptFits, LockFits, InTx
<1>5. RequestFits(r)'
  <2>1. CASE pc'[r] = "idle" /\ due'[r] = {}
    BY <1>1, <1>2, <1>4, <2>1, IdleFits
  <2>2. CASE pc'[r] = "find1" /\ call'[r] = call[r] /\ due'[r] = due[r] /\ call[r].op = "sweep"
    <3>1. StageFits(r)' /\ GoalFits(r)' /\ HandsFit(r)'
      BY <1>1, <1>4, <2>2 DEF StageFits, GoalFits, HandsFit, KeptFits, Scans, Transitions
    <3>2. LockFits(r)'
      BY <1>1, <1>4, <2>2, LockModes DEF LockFits, InTx
    <3>3. ReadsHold(r)' /\ ScanFits(r)'
      BY <2>2, NoReads, EarlyScan
    <3>4. SweepFits(r)'
      BY <1>0, <1>1, <1>2, <2>2 DEF RequestFits, SweepFits, Reached
    <3> QED
      BY <3>1, <3>2, <3>3, <3>4 DEF RequestFits
  <2> QED
    BY <1>3, <2>1, <2>2
<1>6. OnlyOwn(r)
  BY <1>0, OwnSteps
<1>7. HouseholdExclusion' /\ RowExclusion'
  BY <1>1 DEF InvitesInv, HouseholdExclusion, RowExclusion
<1>8. ASSUME NEW i \in InviteIds
      PROVE  Told(i)'
  <2>1. Told(i) /\ told[i] \in Nat
    BY <1>0 DEF InvitesInv, TypeOK
  <2>2. told'[i] = IF i \in news[r] THEN told[i] + 1 ELSE told[i]
    BY DEF Announce
  <2>3. \A s \in Reqs : i \in news'[s] <=> i \in news[s] /\ s # r
    BY <1>2, <1>6 DEF OnlyOwn, Same
  <2>4. Settled(i)' <=> Settled(i)
    BY <1>1 DEF Settled
  <2>5. CASE i \in news[r]
    <3>1. \A s \in Reqs : i \notin news'[s]
      BY <2>1, <2>3, <2>5 DEF Told
    <3>2. told'[i] = 1 /\ Settled(i)'
      BY <2>1, <2>2, <2>4, <2>5 DEF Told
    <3> QED
      BY <3>1, <3>2 DEF Told
  <2>6. CASE i \notin news[r]
    <3>1. \A s \in Reqs : i \in news'[s] <=> i \in news[s]
      BY <2>3, <2>6
    <3> QED
      BY <2>1, <2>2, <2>4, <2>6, <3>1 DEF Told
  <2> QED
    BY <2>5, <2>6
<1> QED
  BY <1>5, <1>6, <1>7, <1>8, LocalStep

(* A refused request leaves no trace but a stamp to come. *)
LEMMA RollbackKeeps ==
  ASSUME InvitesInv, TypeOK', NEW r \in Reqs,
         RefuseExpired(r) \/ Refuse(r) \/ RefuseByLimit(r) \/ DeadlockVictim(r)
  PROVE  InvitesInv'
<1>0. TypeOK /\ RequestFits(r)
  BY DEF InvitesInv
<1>1. Rollback(r)
  BY DEF RefuseExpired, Refuse, RefuseByLimit, DeadlockVictim
<1>2. pc[r] # "announce"
  <2>1. CASE RefuseExpired(r)
    BY <2>1 DEF RefuseExpired, MeetsExpired
  <2>2. CASE Refuse(r)
    BY <2>2 DEF Refuse, Refused
  <2>4. CASE RefuseByLimit(r)
    BY <2>4 DEF RefuseByLimit
  <2>3. CASE DeadlockVictim(r)
    <3>1. todo[r] # {}
      BY <2>3 DEF DeadlockVictim, WaitsFor
    <3> QED
      BY <1>0, <3>1 DEF RequestFits, HandsFit, KeptFits
  <2> QED
    BY <2>1, <2>2, <2>3, <2>4
<1>3. news[r] = {}
  BY <1>0, <1>2 DEF RequestFits, SweepFits
<1>4. told' = told /\ news' = news
  BY <1>1 DEF Rollback
<1>5. /\ pc'[r] = "idle" /\ due'[r] = {} /\ hlock'[r] = "none"
      /\ todo'[r] = {} /\ held'[r] = {} /\ marked'[r] = {} /\ kept'[r] = {}
  BY <1>0, <1>1 DEF Rollback, Release, TypeOK
<1>6. RequestFits(r)' /\ OnlyOwn(r)
  BY <1>0, <1>1, <1>3, <1>4, <1>5, IdleFits, OwnSteps
<1> QED
  BY <1>4, <1>5, <1>6, QuietStep
-----------------------------------------------------------------------------
(* Commits. *)

(* What a commit writes to the rows it has updated, and which of them it     *)
(* ends.                                                                     *)
Written(r) ==
    IF call[r].op \in Transitions THEN goal[r]
    ELSE IF call[r].op \in {"create", "sweep"} THEN "Expired" ELSE "Revoked"

Ended(r) == IF call[r].op = "approve" THEN {} ELSE held[r]

Opens(r, i) == call[r].op = "create" /\ i = call[r].inv

(* What it does to each row. *)
RowEffect(r, i) ==
    /\ i \in held[r] => /\ invites'[i].status = Written(r)
                        /\ invites'[i].withheld = invites[i].withheld
                        /\ invites'[i].gated = invites[i].gated
                        /\ invites[i].overdue /\ Written(r) # "Pending" => invites'[i].overdue
    /\ i \in marked[r] => /\ invites'[i].status = invites[i].status
                          /\ invites'[i].overdue = invites[i].overdue
                          /\ invites'[i].withheld = (call[r].op = "ban")
                          /\ invites'[i].gated = (invites[i].gated /\ call[r].op = "ban")
    /\ i \notin held[r] \cup marked[r] /\ ~ Opens(r, i) =>
           /\ invites'[i].status = invites[i].status
           /\ invites'[i].overdue = invites[i].overdue
           /\ invites'[i].withheld = invites[i].withheld
           /\ invites'[i].gated = (invites[i].gated \/ i \in kept[r])
    /\ Opens(r, i) => /\ invites[i].status = "none"
                      /\ invites'[i].status = goal[r]
                      /\ invites'[i].withheld = (i \in kept[r] \/ veil[r])
                      /\ invites'[i].gated = (i \in kept[r])

(* The rows as MovedRows leaves them. *)
LEMMA MovedEffect ==
  ASSUME TypeOK, NEW r \in Reqs, NEW status \in Statuses, NEW i \in InviteIds,
         held[r] \cap marked[r] = {}
  PROVE  LET m == MovedRows(r, status)[i] IN
         /\ i \in held[r] => /\ m.status = status /\ m.withheld = invites[i].withheld
                             /\ m.gated = invites[i].gated
                             /\ invites[i].overdue /\ status # "Pending" => m.overdue
         /\ i \in marked[r] => /\ m.status = invites[i].status
                               /\ m.overdue = invites[i].overdue
                               /\ m.withheld = (call[r].op = "ban")
                               /\ m.gated = (invites[i].gated /\ call[r].op = "ban")
         /\ i \notin held[r] \cup marked[r] =>
                /\ m.status = invites[i].status /\ m.overdue = invites[i].overdue
                /\ m.withheld = invites[i].withheld
                /\ m.gated = (invites[i].gated \/ i \in kept[r])
<1>1. PICK k \in Row : k = invites[i]
  BY DEF TypeOK
<1>2. CASE i \in held[r]
  <2>1. MovedRows(r, status)[i] = [k EXCEPT !.status = status, !.overdue = @ /\ status # "Pending"]
    BY <1>1, <1>2 DEF MovedRows
  <2>2. PICK m : m = [k EXCEPT !.status = status, !.overdue = @ /\ status # "Pending"]
    OBVIOUS
  <2>3. m.status = status /\ m.withheld = k.withheld /\ m.gated = k.gated /\ (k.overdue /\ status # "Pending" => m.overdue)
    BY <2>2 DEF Row
  <2> QED
    BY <1>1, <1>2, <2>1, <2>2, <2>3
<1>3. CASE i \in marked[r]
  <2>0. i \notin held[r]
    BY <1>3
  <2>1. MovedRows(r, status)[i] = [k EXCEPT !.withheld = call[r].op = "ban",
                                            !.gated = @ /\ call[r].op = "ban"]
    BY <1>1, <1>3, <2>0 DEF MovedRows
  <2>2. PICK m : m = [k EXCEPT !.withheld = call[r].op = "ban",
                               !.gated = @ /\ call[r].op = "ban"]
    OBVIOUS
  <2>3. m.status = k.status /\ m.overdue = k.overdue /\ m.withheld = (call[r].op = "ban")
        /\ m.gated = (k.gated /\ call[r].op = "ban")
    BY <2>2 DEF Row
  <2> QED
    BY <1>1, <1>3, <2>0, <2>1, <2>2, <2>3
<1>4. CASE i \notin held[r] \cup marked[r] \cup kept[r]
  <2>1. MovedRows(r, status)[i] = k
    BY <1>1, <1>4 DEF MovedRows
  <2> QED
    BY <1>1, <1>4, <2>1 DEF Row
<1>5. CASE i \in kept[r] /\ i \notin held[r] \cup marked[r]
  <2>1. MovedRows(r, status)[i] = [k EXCEPT !.gated = TRUE]
    BY <1>1, <1>5 DEF MovedRows
  <2>2. PICK m : m = [k EXCEPT !.gated = TRUE]
    OBVIOUS
  <2>3. m.status = k.status /\ m.overdue = k.overdue /\ m.withheld = k.withheld /\ m.gated
    BY <2>2 DEF Row
  <2>4. m.gated = TRUE
    BY <2>2 DEF Row
  <2> QED
    BY <1>1, <1>5, <2>1, <2>2, <2>3, <2>4
<1> QED
  BY <1>2, <1>3, <1>4, <1>5

(* Every commit is one of these. *)
LEMMA CommitEffect ==
  ASSUME TypeOK, NEW r \in Reqs, RequestFits(r), CommitAny(r)
  PROVE  /\ Commit(r, Ended(r))
         /\ \A i \in InviteIds : RowEffect(r, i)
<1>h. HandsFit(r)
  BY DEF RequestFits
<1>e. held[r] \cap marked[r] = {} /\ (call[r].op = "lift" => held[r] = {})
  BY <1>h DEF HandsFit
<1>g. goal[r] \in Statuses /\ "Expired" \in Statuses /\ "Revoked" \in Statuses /\ "Accepted" \in Statuses
  BY DEF TypeOK, Statuses, SettledStatuses
<1>1. ASSUME call[r].op # "create", Written(r) \in Statuses, invites' = MovedRows(r, Written(r)),
             NEW i \in InviteIds
      PROVE  RowEffect(r, i)
  <2>1. ~ Opens(r, i)
    BY <1>1 DEF Opens
  <2>2. PICK st \in Statuses : st = Written(r)
    BY <1>1
  <2>3. invites'[i] = MovedRows(r, st)[i]
    BY <1>1, <2>2
  <2> QED
    BY <1>e, <2>1, <2>2, <2>3, MovedEffect DEF RowEffect
<1>2. CASE CommitCreate(r)
  <2>1. /\ Commit(r, held[r]) /\ call[r].op = "create"
        /\ invites[call[r].inv].status = "none"
    BY <1>2 DEF CommitCreate
  <2>2. call[r].inv \in InviteIds /\ call[r].inv \notin held[r] /\ marked[r] = {}
    BY <1>h, <2>1, RecordTypes DEF HandsFit, Outstanding, OutstandingStatuses
  <2>m. PICK m : m = MovedRows(r, "Expired")
    OBVIOUS
  <2>k. PICK k : k = [status |-> goal[r], overdue |-> FALSE,
                      withheld |-> call[r].inv \in kept[r] \/ veil[r],
                      needsApproval |-> goal[r] = "AwaitingApproval",
                      gated |-> call[r].inv \in kept[r]]
    OBVIOUS
  <2>3. invites' = [m EXCEPT ![call[r].inv] = k]
    BY <1>2, <2>m, <2>k DEF CommitCreate
  <2>4. /\ k.status = goal[r] /\ k.withheld = (call[r].inv \in kept[r] \/ veil[r])
        /\ k.gated = (call[r].inv \in kept[r])
    BY <2>k
  <2>5. m \in [InviteIds -> Row]
    BY <1>g, <2>m, MovedType
  <2>6. ASSUME NEW i \in InviteIds
        PROVE  RowEffect(r, i)
    <3>1. CASE i = call[r].inv
      <4>1. invites'[i] = k
        BY <2>3, <2>5, <3>1
      <4> QED
        BY <2>1, <2>2, <2>4, <3>1, <4>1 DEF RowEffect, Opens
    <3>2. CASE i # call[r].inv
      <4>1. invites'[i] = MovedRows(r, "Expired")[i]
        BY <2>3, <2>5, <2>m, <3>2
      <4>2. Written(r) = "Expired"
        BY <2>1 DEF Written, Transitions
      <4> QED
        BY <1>e, <1>g, <2>2, <3>2, <4>1, <4>2, MovedEffect DEF RowEffect, Opens
    <3> QED
      BY <3>1, <3>2
  <2> QED
    BY <2>1, <2>6 DEF Ended
<1>3. CASE CommitTransition(r)
  <2>1. call[r].op \in Transitions /\ Written(r) = goal[r] /\ call[r].op # "create"
    BY <1>3 DEF CommitTransition, Transitions, Written
  <2> QED
    BY <1>1, <1>3, <1>g, <2>1 DEF CommitTransition, Ended
<1>4. CASE CommitAccept(r)
  <2>1. Written(r) = "Accepted" /\ call[r].op = "accept"
    BY <1>4 DEF CommitAccept, Transitions, Written
  <2> QED
    BY <1>1, <1>4, <1>g, <2>1 DEF CommitAccept, Ended
<1>5. CASE CommitDeparture(r)
  <2>1. call[r].op \in {"leave", "removeMember"} /\ Written(r) = "Revoked"
    BY <1>5 DEF CommitDeparture, Transitions, Written
  <2> QED
    BY <1>1, <1>5, <1>g, <2>1 DEF CommitDeparture, Ended
<1>6. CASE CommitBan(r)
  <2>1. call[r].op = "ban" /\ Written(r) = "Revoked"
    BY <1>6 DEF CommitBan, Transitions, Written
  <2> QED
    BY <1>1, <1>6, <1>g, <2>1 DEF CommitBan, Ended
<1>7. CASE CommitLift(r)
  <2>1. call[r].op = "lift" /\ Written(r) = "Revoked"
    BY <1>7 DEF CommitLift, Transitions, Written
  <2> QED
    BY <1>1, <1>7, <1>g, <1>e, <2>1 DEF CommitLift, Ended
<1>8. CASE CommitDelete(r)
  <2>1. call[r].op = "delete" /\ Written(r) = "Revoked"
    BY <1>8 DEF CommitDelete, Transitions, Written
  <2> QED
    BY <1>1, <1>8, <1>g, <2>1 DEF CommitDelete, Ended
<1>9. CASE CommitSweep(r)
  <2>1. call[r].op = "sweep" /\ Written(r) = "Expired"
    BY <1>9 DEF CommitSweep, Transitions, Written
  <2> QED
    BY <1>1, <1>9, <1>g, <2>1 DEF CommitSweep, Ended
<1> QED
  BY <1>2, <1>3, <1>4, <1>5, <1>6, <1>7, <1>8, <1>9 DEF CommitAny

(* An accept alone opens nothing; an approval alone reopens a window. *)
LEMMA WrittenStatus ==
  ASSUME TypeOK, NEW r \in Reqs, RequestFits(r), pc[r] = "commit"
  PROVE  /\ call[r].op = "approve" => Written(r) = "Pending"
         /\ call[r].op # "approve" => Written(r) \in SettledStatuses
         /\ Written(r) = "Accepted" => call[r].op = "accept" /\ goal[r] = "Accepted"
<1>1. GoalFits(r)
  BY DEF RequestFits
<1> QED
  BY <1>1 DEF GoalFits, Written, Transitions, SettledStatuses

(* What a commit does to the roster. *)
MemberGoes(u) ==
    \E row \in RowsOfUser(members, u) : members' = [members EXCEPT ![row] = "gone"]

RosterEffect(r) ==
    LET c == call[r] IN
    /\ c.op \notin {"leave", "removeMember", "ban", "lift", "delete"} =>
           /\ live' = live /\ banned' = banned
           /\ \/ members' = members
              \/ /\ c.op = "accept" /\ goal[r] = "Accepted" /\ live
                 /\ \E row \in MemberIds :
                        /\ members[row] = "unborn"
                        /\ members' = [members EXCEPT ![row] = Terms[c.inv].role]
    /\ c.op = "accept" /\ goal[r] = "Accepted" =>
           \E row \in MemberIds :
               /\ members[row] = "unborn"
               /\ members' = [members EXCEPT ![row] = Terms[c.inv].role]
    /\ c.op \in {"leave", "removeMember"} =>
           live' = live /\ banned' = banned /\ MemberGoes(c.user)
    /\ c.op = "ban" => /\ live' = live /\ banned' = banned \cup {c.user}
                       /\ members' = members \/ MemberGoes(c.user)
    /\ c.op = "lift" => live' = live /\ banned' = banned \ {c.user} /\ members' = members
    /\ c.op = "delete" => banned' = banned /\ members' = members

(* Every commit does one of these to the roster. *)
LEMMA CommitRoster ==
  ASSUME TypeOK, NEW r \in Reqs, CommitAny(r)
  PROVE  RosterEffect(r)
<1>1. CASE CommitCreate(r)
  BY <1>1 DEF CommitCreate, RosterEffect, absVars
<1>2. CASE CommitTransition(r)
  BY <1>2 DEF CommitTransition, RosterEffect, absVars
<1>3. CASE CommitAccept(r)
  BY <1>3 DEF CommitAccept, RosterEffect, Admit
<1>4. CASE CommitDeparture(r)
  BY <1>4 DEF CommitDeparture, RosterEffect, MemberGoes, Leave, RemoveMember, Departs
<1>5. CASE CommitBan(r)
  BY <1>5 DEF CommitBan, RosterEffect, MemberGoes, Ban, Departs
<1>6. CASE CommitLift(r)
  BY <1>6 DEF CommitLift, RosterEffect, Lift
<1>7. CASE CommitDelete(r)
  BY <1>7 DEF CommitDelete, RosterEffect, SoftDelete
<1>8. CASE CommitSweep(r)
  BY <1>8 DEF CommitSweep, RosterEffect, absVars
<1> QED
  BY <1>1, <1>2, <1>3, <1>4, <1>5, <1>6, <1>7, <1>8 DEF CommitAny

(* Who stays a member. *)
LEMMA RowGone ==
  ASSUME TypeOK, NEW u, MemberGoes(u), NEW v, v # u, IsMember(members, v)
  PROVE  IsMember(members', v)
<1>1. PICK row \in RowsOfUser(members, u) : members' = [members EXCEPT ![row] = "gone"]
  BY DEF MemberGoes
<1>2. PICK j \in RowsOfUser(members, v) : TRUE
  BY DEF IsMember
<1>3. j # row /\ j \in MemberIds /\ members[j] \in RoleNames /\ UserOf[j] = v
  BY DEF RowsOfUser, LiveRows
<1>4. members'[j] = members[j]
  BY <1>1, <1>3 DEF TypeOK, Rosters
<1> QED
  BY <1>3, <1>4 DEF IsMember, RowsOfUser, LiveRows

(* An admission takes nothing from anybody. *)
LEMMA RowJoins ==
  ASSUME TypeOK, NEW row \in MemberIds, NEW role, members[row] = "unborn",
         members' = [members EXCEPT ![row] = role]
  PROVE  /\ \A v : IsMember(members, v) => IsMember(members', v)
         /\ \A i \in InviteIds : SenderStands(i) => SenderStands(i)'
<1>1. \A j \in MemberIds : members[j] \in RoleNames => members'[j] = members[j]
  BY DEF TypeOK, Rosters, RoleNames, AssignableRoles
<1>2. \A v : IsMember(members, v) => IsMember(members', v)
  BY <1>1 DEF IsMember, RowsOfUser, LiveRows
<1>3. \A v, roles : roles \subseteq RoleNames /\ HoldsOneOf(members, v, roles) => HoldsOneOf(members', v, roles)
  BY <1>1 DEF HoldsOneOf
<1>4. {"HouseholdOwner"} \subseteq RoleNames /\ RoleNames \ {"HouseholdGuest"} \subseteq RoleNames
  BY DEF RoleNames
<1>5. ASSUME NEW i \in InviteIds, SenderStands(i)
      PROVE  SenderStands(i)'
  BY <1>3, <1>4, <1>5 DEF SenderStands
<1> QED
  BY <1>2, <1>5

(* What a commit may leave outstanding, by the lock it was made under. *)
LEMMA CommitOutstanding ==
  ASSUME TypeOK, NEW r \in Reqs, RequestFits(r), CommitAny(r),
         NEW i \in InviteIds, Outstanding(i)'
  PROVE  \/ Opens(r, i) /\ LockMode(call[r].op) = "share"
         \/ /\ i \in held[r] /\ call[r].op = "approve" /\ Outstanding(i)
            /\ invites'[i].withheld = invites[i].withheld
         \/ /\ i \in marked[r] /\ Outstanding(i) /\ call[r].op \in {"ban", "lift"}
            /\ invites'[i].status = invites[i].status
            /\ invites'[i].withheld = (call[r].op = "ban")
            /\ Terms[i].byAddress /\ Terms[i].to = call[r].user
         \/ /\ i \notin held[r] \cup marked[r] /\ ~ Opens(r, i) /\ Outstanding(i)
            /\ invites'[i].status = invites[i].status
            /\ invites'[i].withheld = invites[i].withheld
<1>1. RowEffect(r, i) /\ pc[r] = "commit"
  BY CommitEffect DEF Commit
<1>2. HandsFit(r)
  BY DEF RequestFits
<1>3. call[r].op # "approve" => Written(r) \notin OutstandingStatuses
  BY <1>1, WrittenStatus DEF SettledStatuses, OutstandingStatuses
<1>4. CASE i \in held[r]
  <2>1. call[r].op = "approve"
    BY <1>1, <1>3, <1>4 DEF RowEffect, Outstanding
  <2> QED
    BY <1>1, <1>2, <1>4, <2>1 DEF RowEffect, HandsFit, KeptFits
<1>5. CASE i \in marked[r]
  <2>1. call[r].op \in {"ban", "lift"}
    BY <1>2, <1>5 DEF HandsFit
  <2> QED
    BY <1>1, <1>2, <1>5, <2>1 DEF RowEffect, HandsFit, KeptFits
<1>6. CASE i \notin held[r] \cup marked[r] /\ ~ Opens(r, i)
  BY <1>1, <1>6 DEF RowEffect, Outstanding
<1>7. CASE Opens(r, i)
  BY <1>7, LockModes DEF Opens
<1> QED
  BY <1>4, <1>5, <1>6, <1>7

(* What a commit releases. *)
LEMMA CommitReleases ==
  ASSUME TypeOK, NEW r \in Reqs, RequestFits(r), CommitAny(r)
  PROVE  /\ pc'[r] = "announce" /\ call'[r] = call[r] /\ hlock'[r] = "none"
         /\ todo'[r] = {} /\ held'[r] = {} /\ marked'[r] = {} /\ kept'[r] = {}
         /\ news'[r] = Ended(r) /\ drained'[r] = drained[r] /\ told' = told
         /\ \A s \in Reqs \ {r} : Same(s)
         /\ \A s \in Reqs : due'[s] = IF call[r].op = "approve" THEN due[s] \ held[r] ELSE due[s]
<1>1. Commit(r, Ended(r))
  BY CommitEffect
<1>2. Release(r) /\ Goto(r, "announce") /\ news' = [news EXCEPT ![r] = Ended(r)]
      /\ UNCHANGED <<told, drained, call>>
  BY <1>1 DEF Commit
<1>3. /\ hlock'[r] = "none" /\ todo'[r] = {} /\ held'[r] = {} /\ marked'[r] = {} /\ kept'[r] = {}
      /\ pc'[r] = "announce" /\ news'[r] = Ended(r)
  BY <1>2 DEF TypeOK, Release, Goto
<1>4. \A s \in Reqs \ {r} : Same(s)
  BY <1>2 DEF TypeOK, Release, Goto, Same
<1>5. \A s \in Reqs : due'[s] = IF call[r].op = "approve" THEN due[s] \ held[r] ELSE due[s]
  BY <1>1 DEF Commit
<1> QED
  BY <1>2, <1>3, <1>4, <1>5

(* A commit respects the locks of every other request. *)
LEMMA CommitOthers ==
  ASSUME InvitesInv, NEW r \in Reqs, CommitAny(r), NEW s \in Reqs, s # r
  PROVE  RequestFits(s)'
<1>0. TypeOK /\ RequestFits(r) /\ RequestFits(s) /\ HouseholdExclusion /\ RowExclusion
  BY DEF InvitesInv
<1>1. /\ Same(s) /\ pc[r] = "commit"
      /\ due'[s] = IF call[r].op = "approve" THEN due[s] \ held[r] ELSE due[s]
  <2>1. pc[r] = "commit"
    BY <1>0, CommitEffect DEF Commit
  <2>2. /\ \A q \in Reqs \ {r} : Same(q)
        /\ \A q \in Reqs : due'[q] = IF call[r].op = "approve" THEN due[q] \ held[r] ELSE due[q]
    BY <1>0, CommitReleases
  <2> QED
    BY <2>1, <2>2
<1>2. \A i \in InviteIds : RowEffect(r, i)
  BY <1>0, CommitEffect
<1>l. hlock[r] = LockMode(call[r].op)
  BY <1>0, <1>1 DEF RequestFits, LockFits, InTx
<1>o. call[r].op \in OpNames \ {"changeRoles"}
  BY <1>0, <1>1 DEF RequestFits, StageFits
<1>3. HandsKept(s)
  <2>1. SUFFICES ASSUME NEW i \in held[s] \cup marked[s]
                 PROVE  invites'[i].status = invites[i].status
    BY DEF HandsKept
  <2>2. i \in InviteIds /\ i \notin held[r] \cup marked[r] /\ Outstanding(i)
    <3>1. i \in InviteIds
      BY <1>0 DEF TypeOK
    <3>2. i \notin held[r] \cup marked[r]
      BY <1>0 DEF RowExclusion
    <3> QED
      BY <1>0, <3>1, <3>2 DEF RequestFits, HandsFit, KeptFits
  <2>3. ~ Opens(r, i)
    BY <1>2, <2>2 DEF RowEffect, Outstanding, OutstandingStatuses
  <2> QED
    BY <1>2, <2>2, <2>3 DEF RowEffect
<1>4. SharedKept(s)
  <2>1. SUFFICES ASSUME hlock[s] # "none"
                 PROVE  /\ live' = live /\ banned' = banned
                        /\ \A u \in Users : IsMember(members, u) => IsMember(members', u)
                        /\ \A i \in InviteIds : SenderStands(i) => SenderStands(i)'
    BY DEF SharedKept
  <2>2. call[r].op \notin Closings \cup {"lift"}
    BY <1>0, <1>l, <2>1, LockModes DEF HouseholdExclusion
  <2>3. /\ live' = live /\ banned' = banned
        /\ \/ members' = members
           \/ \E row \in MemberIds :
                 /\ members[row] = "unborn"
                 /\ members' = [members EXCEPT ![row] = Terms[call[r].inv].role]
    BY <1>0, <2>2, CommitRoster DEF RosterEffect, Closings
  <2>4. CASE members' = members
    BY <2>3, <2>4 DEF SenderStands
  <2>5. CASE \E row \in MemberIds :
                 /\ members[row] = "unborn"
                 /\ members' = [members EXCEPT ![row] = Terms[call[r].inv].role]
    BY <1>0, <2>3, <2>5, RowJoins
  <2> QED
    BY <2>3, <2>4, <2>5
<1>5. AloneKept(s)
  <2>1. SUFFICES ASSUME hlock[s] = "exclusive", NEW i \in InviteIds, Outstanding(i)'
                 PROVE  /\ invites'[i].status = invites[i].status
                        /\ invites'[i].withheld = invites[i].withheld
    BY DEF AloneKept
  <2>2. LockMode(call[r].op) = "none"
    BY <1>0, <1>l, <2>1 DEF HouseholdExclusion
  <2>3. call[r].op \notin {"approve", "ban", "lift"}
    BY <2>2, LockModes DEF Closings
  <2> QED
    BY <1>0, <2>1, <2>2, <2>3, CommitOutstanding
<1>6. DueKept(s)
  <2>1. SUFFICES ASSUME NEW i \in due'[s]
                 PROVE  /\ invites'[i].overdue /\ invites'[i].status # "none"
                        /\ Outstanding(i)' => invites'[i].status = invites[i].status
    BY <1>1 DEF DueKept
  <2>2. i \in due[s] /\ (call[r].op = "approve" => i \notin held[r])
    BY <1>1
  <2>3. i \in InviteIds /\ invites[i].overdue /\ invites[i].status # "none"
    BY <1>0, <2>2 DEF RequestFits, SweepFits, TypeOK
  <2>4. RowEffect(r, i) /\ ~ Opens(r, i)
    BY <1>2, <2>3 DEF RowEffect
  <2>5. CASE i \in held[r]
    <3>1. Written(r) \in SettledStatuses
      BY <1>0, <1>1, <2>2, <2>5, WrittenStatus
    <3> QED
      BY <2>3, <2>4, <2>5, <3>1 DEF RowEffect, SettledStatuses, Outstanding, OutstandingStatuses
  <2>6. CASE i \in marked[r]
    BY <2>3, <2>4, <2>6 DEF RowEffect
  <2>7. CASE i \notin held[r] \cup marked[r]
    BY <2>3, <2>4, <2>7 DEF RowEffect
  <2> QED
    BY <2>5, <2>6, <2>7
<1> QED
  BY <1>0, <1>1, <1>3, <1>4, <1>5, <1>6, OthersKept DEF Undisturbed

(* The request that has committed has only its announcements left. *)
LEMMA CommitOwn ==
  ASSUME InvitesInv, NEW r \in Reqs, CommitAny(r)
  PROVE  RequestFits(r)'
<1>0. TypeOK /\ RequestFits(r)
  BY DEF InvitesInv
<1>1. /\ pc'[r] = "announce" /\ call'[r] = call[r] /\ hlock'[r] = "none"
      /\ todo'[r] = {} /\ held'[r] = {} /\ marked'[r] = {} /\ kept'[r] = {}
      /\ drained'[r] = drained[r]
      /\ due'[r] = IF call[r].op = "approve" THEN due[r] \ held[r] ELSE due[r]
  <2>1. /\ pc'[r] = "announce" /\ call'[r] = call[r] /\ hlock'[r] = "none"
        /\ todo'[r] = {} /\ held'[r] = {} /\ marked'[r] = {} /\ kept'[r] = {}
        /\ drained'[r] = drained[r]
    BY <1>0, CommitReleases
  <2>2. \A s \in Reqs : due'[s] = IF call[r].op = "approve" THEN due[s] \ held[r] ELSE due[s]
    BY <1>0, CommitReleases
  <2> QED
    BY <2>1, <2>2
<1>c. pc[r] = "commit"
  BY <1>0, CommitEffect DEF Commit
<1>2. StageFits(r)'
  BY <1>0, <1>1, <1>c DEF StageFits, RequestFits, Scans
<1>3. GoalFits(r)' /\ HandsFit(r)' /\ LockFits(r)'
  BY <1>1 DEF GoalFits, HandsFit, KeptFits, LockFits, InTx, Scans
<1>4. ReadsHold(r)' /\ ScanFits(r)'
  BY <1>1, NoReads, EarlyScan DEF Scans
<1>5. SweepFits(r)'
  <2>1. CASE call[r].op # "sweep"
    <3>1. due'[r] = {}
      BY <1>0, <1>1, <2>1, NotDue DEF RequestFits
    <3> QED
      BY <1>1, <3>1, NoSweep
  <2>2. CASE call[r].op = "sweep"
    <3>0. SweepFits(r) /\ due'[r] = due[r]
      BY <1>0, <1>1, <2>2 DEF RequestFits
    <3>1. ASSUME NEW i \in due[r]
          PROVE  /\ invites'[i].overdue /\ invites'[i].status # "none"
                 /\ drained[r] => ~ Outstanding(i)'
      <4>1. i \in InviteIds /\ invites[i].overdue /\ invites[i].status # "none"
        BY <1>0, <3>0 DEF SweepFits, TypeOK
      <4>2. RowEffect(r, i) /\ ~ Opens(r, i) /\ marked[r] = {}
        BY <1>0, <2>2, <4>1, CommitEffect DEF Opens, RequestFits, HandsFit
      <4>3. Written(r) = "Expired"
        BY <2>2 DEF Written, Transitions
      <4>4. drained[r] /\ Outstanding(i) => i \in held[r]
        BY <1>c, <3>0 DEF SweepFits, Reached, Outstanding, OutstandingStatuses
      <4>5. CASE i \in held[r]
        BY <4>1, <4>2, <4>3, <4>5 DEF RowEffect, Outstanding, OutstandingStatuses
      <4>6. CASE i \notin held[r]
        BY <4>1, <4>2, <4>4, <4>6 DEF RowEffect, Outstanding
      <4> QED
        BY <4>5, <4>6
    <3> QED
      BY <1>1, <2>2, <3>0, <3>1 DEF SweepFits, Reached
  <2> QED
    BY <2>1, <2>2
<1> QED
  BY <1>2, <1>3, <1>4, <1>5 DEF RequestFits

(* Whoever ends an invite owes its announcement, alone. *)
LEMMA CommitTold ==
  ASSUME InvitesInv, NEW r \in Reqs, CommitAny(r), NEW i \in InviteIds
  PROVE  Told(i)'
<1>0. TypeOK /\ RequestFits(r) /\ Told(i)
  BY DEF InvitesInv
<1>1. /\ news'[r] = Ended(r) /\ told' = told
      /\ \A s \in Reqs \ {r} : news'[s] = news[s]
  BY <1>0, CommitReleases DEF Same
<1>2. RowEffect(r, i) /\ pc[r] = "commit"
  BY <1>0, CommitEffect DEF Commit
<1>3. news[r] = {} /\ HandsFit(r)
  BY <1>0, <1>2 DEF RequestFits, SweepFits
<1>4. CASE i \in Ended(r)
  <2>1. i \in held[r] /\ call[r].op # "approve"
    BY <1>4 DEF Ended
  <2>2. ~ Settled(i)
    BY <1>3, <2>1 DEF HandsFit, Outstanding, OutstandingStatuses, Settled, SettledStatuses
  <2>3. Settled(i)'
    BY <1>0, <1>2, <2>1, WrittenStatus DEF RowEffect, Settled
  <2>4. told[i] = 0 /\ \A s \in Reqs : i \notin news[s]
    BY <1>0, <2>2 DEF Told
  <2>5. \A s \in Reqs : i \in news'[s] <=> s = r
    BY <1>1, <1>4, <2>4
  <2> QED
    BY <1>1, <2>3, <2>4, <2>5 DEF Told
<1>5. CASE i \notin Ended(r)
  <2>1. \A s \in Reqs : i \in news'[s] <=> i \in news[s]
    BY <1>1, <1>3, <1>5
  <2>2. Settled(i)' <=> Settled(i)
    <3>1. CASE i \in held[r]
      <4>1. call[r].op = "approve" /\ Written(r) = "Pending"
        BY <1>0, <1>2, <1>5, <3>1, WrittenStatus DEF Ended
      <4> QED
        BY <1>2, <1>3, <3>1, <4>1
           DEF RowEffect, HandsFit, KeptFits, Outstanding, OutstandingStatuses, Settled, SettledStatuses
    <3>2. CASE i \in marked[r]
      BY <1>2, <3>2 DEF RowEffect, Settled
    <3>3. CASE Opens(r, i)
      <4>1. goal[r] \in OutstandingStatuses
        BY <1>0, <1>2, <3>3 DEF RequestFits, GoalFits, Opens
      <4> QED
        BY <1>2, <3>3, <4>1 DEF RowEffect, Settled, SettledStatuses, OutstandingStatuses
    <3>4. CASE i \notin held[r] \cup marked[r] /\ ~ Opens(r, i)
      BY <1>2, <3>4 DEF RowEffect, Settled
    <3> QED
      BY <3>1, <3>2, <3>3, <3>4
  <2> QED
    BY <1>0, <1>1, <2>1, <2>2 DEF Told
<1> QED
  BY <1>4, <1>5

(* What remains open after a commit has a member or a server owner behind it. *)
LEMMA CommitSenders ==
  ASSUME InvitesInv, NEW r \in Reqs, CommitAny(r), NEW i \in InviteIds, Outstanding(i)'
  PROVE  /\ IsMember(members', Terms[i].from) \/ Terms[i].from \in ServerOwners
         /\ live'
<1>0. TypeOK /\ RequestFits(r) /\ SendersAreMembers /\ NoInviteIntoDeleted
  BY DEF InvitesInv
<1>1. pc[r] = "commit" /\ RowEffect(r, i) /\ RosterEffect(r)
  BY <1>0, CommitEffect, CommitRoster DEF Commit
<1>l. hlock[r] = LockMode(call[r].op) /\ (hlock[r] # "none" => live)
  BY <1>0, <1>1 DEF RequestFits, LockFits, InTx
<1>2. Outstanding(i) \/ Opens(r, i)
  BY <1>0, CommitOutstanding DEF Outstanding
<1>3. IsMember(members, Terms[i].from) \/ Terms[i].from \in ServerOwners
  <2>1. CASE Outstanding(i)
    BY <1>0, <2>1 DEF SendersAreMembers
  <2>2. CASE Opens(r, i)
    BY <1>0, <1>1, <2>2 DEF Opens, RequestFits, ReadsHold
  <2> QED
    BY <1>2, <2>1, <2>2
<1>4. live
  <2>1. CASE Outstanding(i)
    BY <1>0, <2>1 DEF NoInviteIntoDeleted
  <2>2. CASE Opens(r, i)
    BY <1>l, <2>2, LockModes DEF Opens
  <2> QED
    BY <1>2, <2>1, <2>2
<1>5. ~ Closes(call[r], i)
  <2>1. SUFFICES ASSUME Closes(call[r], i) PROVE FALSE
    OBVIOUS
  <2>2. call[r].op \in Closings
    BY <2>1, ClosesCovers
  <2>3. Outstanding(i)
    BY <1>2, <2>2 DEF Opens, Closings
  <2>4. i \in held[r]
    BY <1>0, <1>1, <2>1, <2>3 DEF RequestFits, ScanFits, Reached, Outstanding, OutstandingStatuses
  <2>5. Written(r) = "Revoked"
    BY <2>2 DEF Written, Transitions, Closings
  <2> QED
    BY <1>1, <2>4, <2>5 DEF RowEffect, Outstanding, OutstandingStatuses
<1>6. CASE call[r].op \in {"leave", "removeMember", "ban"}
  <2>1. Terms[i].from # call[r].user
    BY <1>5, <1>6 DEF Closes
  <2>2. live' = live /\ (members' = members \/ MemberGoes(call[r].user))
    BY <1>1, <1>6 DEF RosterEffect
  <2> QED
    BY <1>0, <1>3, <1>4, <2>1, <2>2, RowGone
<1>7. CASE call[r].op \in {"lift", "delete"}
  <2>1. call[r].op = "lift"
    BY <1>5, <1>7 DEF Closes
  <2> QED
    BY <1>1, <1>3, <1>4, <2>1 DEF RosterEffect
<1>8. CASE call[r].op \notin {"leave", "removeMember", "ban", "lift", "delete"}
  <2>1. /\ live' = live
        /\ \/ members' = members
           \/ \E row \in MemberIds :
                 /\ members[row] = "unborn"
                 /\ members' = [members EXCEPT ![row] = Terms[call[r].inv].role]
    BY <1>1, <1>8 DEF RosterEffect
  <2> QED
    BY <1>0, <1>3, <1>4, <2>1, RowJoins
<1> QED
  BY <1>6, <1>7, <1>8

(* A lift ends a ban that stands. *)
LEMMA CommitLiftsBan ==
  ASSUME NEW r \in Reqs, CommitAny(r), call[r].op = "lift"
  PROVE  call[r].user \in banned
<1>1. CommitLift(r)
  BY DEF CommitAny, CommitCreate, CommitTransition, CommitAccept, CommitDeparture, CommitBan,
         CommitDelete, CommitSweep
<1> QED
  BY <1>1 DEF CommitLift, Lift

(* And is withheld exactly while its addressee is banned or the gate, when    *)
(* last asked, withheld it.                                                  *)
LEMMA CommitWithheld ==
  ASSUME InvitesInv, NEW r \in Reqs, CommitAny(r), NEW i \in InviteIds, Outstanding(i)'
  PROVE  /\ Terms[i].byAddress =>
                invites'[i].withheld = (Terms[i].to \in banned' \/ invites'[i].gated)
         /\ ~ Terms[i].byAddress =>
                invites'[i].withheld = FALSE /\ Terms[i].to \notin banned'
<1>0. TypeOK /\ RequestFits(r) /\ WithheldWhileBanned
  BY DEF InvitesInv
<1>1. pc[r] = "commit" /\ RowEffect(r, i) /\ RosterEffect(r)
  BY <1>0, CommitEffect, CommitRoster DEF Commit
<1>t. /\ Terms[i].byAddress \in BOOLEAN /\ invites[i].withheld \in BOOLEAN
      /\ invites[i].gated \in BOOLEAN
  BY <1>0, RecordTypes
<1>b. Outstanding(i) =>
          /\ Terms[i].byAddress =>
                 invites[i].withheld = (Terms[i].to \in banned \/ invites[i].gated)
          /\ ~ Terms[i].byAddress =>
                 invites[i].withheld = FALSE /\ Terms[i].to \notin banned
  BY <1>0 DEF WithheldWhileBanned
<1>h. HandsFit(r) /\ KeptFits(r)
  BY <1>0 DEF RequestFits, HandsFit, KeptFits
<1>2. CASE Opens(r, i)
  <2>1. /\ veil[r] = (Terms[i].byAddress /\ Terms[i].to \in banned)
        /\ ~ Terms[i].byAddress => Terms[i].to \notin banned
    BY <1>0, <1>1, <1>2 DEF Opens, RequestFits, ReadsHold
  <2>2. banned' = banned
    BY <1>1, <1>2 DEF RosterEffect, Opens
  <2>3. ~ Terms[i].byAddress => i \notin kept[r]
    BY <1>h DEF KeptFits
  <2> QED
    BY <1>1, <1>2, <2>1, <2>2, <2>3 DEF RowEffect
<1>3. CASE ~ Opens(r, i) /\ call[r].op \notin {"ban", "lift"}
  <2>1. Outstanding(i) /\ invites'[i].withheld = invites[i].withheld
    BY <1>0, <1>3, CommitOutstanding DEF Outstanding
  <2>3. invites'[i].gated = invites[i].gated
    <3>1. marked[r] = {}
      BY <1>3, <1>h DEF HandsFit
    <3>2. i \notin kept[r]
      BY <1>3, <1>h DEF KeptFits, Opens
    <3> QED
      BY <1>1, <1>3, <1>t, <3>1, <3>2 DEF RowEffect
  <2>2. banned' = banned
    BY <1>1, <1>3 DEF RosterEffect
  <2> QED
    BY <1>b, <2>1, <2>2, <2>3
<1>4. CASE call[r].op = "ban"
  <2>1. banned' = banned \cup {call[r].user}
    BY <1>1, <1>4 DEF RosterEffect
  <2>2. Outstanding(i) /\ i \notin held[r]
    <3>1. held[r] \cap marked[r] = {}
      BY <1>h DEF HandsFit
    <3> QED
      BY <1>0, <1>4, <3>1, CommitOutstanding DEF Outstanding, Opens
  <2>3. ~ Closes(call[r], i)
    BY <1>0, <1>1, <2>2 DEF RequestFits, ScanFits, Reached, Outstanding, OutstandingStatuses
  <2>4. Terms[i].to = call[r].user => Terms[i].byAddress
    BY <1>4, <2>3 DEF Closes
  <2>5. CASE Terms[i].to = call[r].user
    <3>1. ~ invites[i].withheld => i \in marked[r]
      <4>1. SUFFICES ASSUME ~ invites[i].withheld PROVE i \in marked[r]
        OBVIOUS
      <4>2. MarkApplies(call[r], i)
        BY <1>4, <1>t, <2>2, <2>4, <2>5, <4>1 DEF MarkApplies
      <4> QED
        BY <1>0, <1>1, <1>4, <1>h, <2>2, <4>2 DEF RequestFits, ScanFits, KeptFits
    <3>2. invites'[i].withheld = TRUE
      BY <1>1, <1>4, <1>t, <2>2, <3>1 DEF RowEffect, Opens
    <3> QED
      BY <2>1, <2>4, <2>5, <3>2
  <2>6. CASE Terms[i].to # call[r].user
    <3>1. invites'[i].withheld = invites[i].withheld /\ invites'[i].gated = invites[i].gated
      BY <1>1, <1>4, <1>h, <1>t, <2>2, <2>6 DEF RowEffect, Opens, HandsFit, KeptFits
    <3> QED
      BY <1>b, <2>1, <2>2, <2>6, <3>1
  <2> QED
    BY <2>5, <2>6
<1>5. CASE call[r].op = "lift"
  <2>1. banned' = banned \ {call[r].user}
    BY <1>1, <1>5 DEF RosterEffect
  <2>2. Outstanding(i) /\ i \notin held[r]
    <3>1. held[r] \cap marked[r] = {}
      BY <1>h DEF HandsFit
    <3> QED
      BY <1>0, <1>5, <3>1, CommitOutstanding DEF Outstanding, Opens
  <2>3. CASE Terms[i].to = call[r].user /\ Terms[i].byAddress
    <3>1. invites[i].withheld => i \in marked[r] \cup kept[r]
      <4>1. SUFFICES ASSUME invites[i].withheld PROVE i \in marked[r] \cup kept[r]
        OBVIOUS
      <4>2. MarkApplies(call[r], i)
        BY <1>5, <1>t, <2>2, <2>3, <4>1 DEF MarkApplies
      <4> QED
        BY <1>0, <1>1, <1>5, <2>2, <4>2 DEF RequestFits, ScanFits
    <3>2. invites[i].withheld = TRUE
      <4>1. call[r].user \in banned
        BY <1>5, CommitLiftsBan
      <4> QED
        BY <1>b, <2>2, <2>3, <4>1
    <3>3. invites'[i].withheld = invites'[i].gated /\ invites'[i].gated \in BOOLEAN
      BY <1>1, <1>5, <1>t, <2>2, <3>1, <3>2 DEF RowEffect, Opens
    <3> QED
      BY <2>1, <2>3, <3>3
  <2>4. CASE ~ (Terms[i].to = call[r].user /\ Terms[i].byAddress)
    <3>1. invites'[i].withheld = invites[i].withheld /\ invites'[i].gated = invites[i].gated
      BY <1>1, <1>5, <1>h, <1>t, <2>2, <2>4 DEF RowEffect, Opens, HandsFit, KeptFits
    <3> QED
      BY <1>b, <2>1, <2>2, <2>4, <3>1
  <2> QED
    BY <2>3, <2>4
<1> QED
  BY <1>2, <1>3, <1>4, <1>5

(* A commit keeps the invariant. *)
LEMMA CommitKeeps ==
  ASSUME InvitesInv, NEW r \in Reqs, CommitAny(r)
  PROVE  InvitesInv'
<1>0. TypeOK /\ RequestFits(r)
  BY DEF InvitesInv
<1>1. TypeOK'
  BY <1>0, CommitTypes
<1>2. \A s \in Reqs : RequestFits(s)'
  BY CommitOthers, CommitOwn
<1>3. /\ hlock'[r] = "none" /\ held'[r] = {} /\ marked'[r] = {} /\ kept'[r] = {}
      /\ \A s \in Reqs \ {r} : hlock'[s] = hlock[s] /\ held'[s] = held[s] /\ marked'[s] = marked[s]
  BY <1>0, CommitReleases DEF Same
<1>4. HouseholdExclusion'
  BY <1>3 DEF InvitesInv, HouseholdExclusion
<1>5. RowExclusion'
  <2>1. \A s \in Reqs : held'[s] \cup marked'[s] \subseteq held[s] \cup marked[s]
    BY <1>3
  <2>2. RowExclusion
    BY DEF InvitesInv
  <2> QED
    BY <2>1, <2>2 DEF RowExclusion
<1>6. \A i \in InviteIds : Told(i)'
  BY CommitTold
<1>7. NoInviteIntoDeleted'
  BY CommitSenders DEF NoInviteIntoDeleted
<1>8. SendersAreMembers'
  BY CommitSenders DEF SendersAreMembers
<1>9. WithheldWhileBanned'
  BY CommitWithheld DEF WithheldWhileBanned
<1> QED
  BY <1>1, <1>2, <1>4, <1>5, <1>6, <1>7, <1>8, <1>9 DEF InvitesInv
-----------------------------------------------------------------------------
(* What happens beside the requests. *)

(* A step that leaves every request's own variables alone. *)
OwnUnchanged == UNCHANGED <<txVars, pc, call, hlock, news, due>>

(* Then nobody's locks or stage change. *)
LEMMA OwnSame ==
  ASSUME OwnUnchanged
  PROVE  /\ \A s \in Reqs : Same(s) /\ due'[s] = due[s]
         /\ (HouseholdExclusion => HouseholdExclusion')
         /\ (RowExclusion => RowExclusion')
<1>1. UNCHANGED <<seen, goal, veil, kept, todo, held, marked, drained, pc, call, hlock, news, due>>
  BY DEF OwnUnchanged, txVars
<1> QED
  BY <1>1 DEF Same, HouseholdExclusion, RowExclusion

(* A stamp settles a row nobody holds. *)
LEMMA PersistKeeps ==
  ASSUME InvitesInv, TypeOK', PersistExpiry
  PROVE  InvitesInv'
<1>0. TypeOK
  BY DEF InvitesInv
<1>1. PICK stamp \in stamps :
         /\ \A s \in Reqs : stamp[1] \notin held[s] \cup marked[s]
         /\ \/ /\ StampApplies(stamp[1], stamp[2])
               /\ invites' = [invites EXCEPT ![stamp[1]].status = "Expired"]
               /\ told' = [told EXCEPT ![stamp[1]] = @ + 1]
            \/ UNCHANGED <<invites, told>>
         /\ UNCHANGED <<absVars, settings, txVars, pc, call, hlock, news, due>>
  BY DEF PersistExpiry
<1>2. PICK i \in InviteIds : i = stamp[1]
  BY <1>0 DEF TypeOK
<1>3. stamp[2] \in OutstandingStatuses
  BY <1>0 DEF TypeOK
<1>u. UNCHANGED <<live, members, banned, news>> /\ OwnUnchanged
  BY <1>1 DEF absVars, OwnUnchanged
<1>4. CASE UNCHANGED <<invites, told>>
  <2>1. \A s \in Reqs : RequestFits(s)'
    <3> SUFFICES ASSUME NEW s \in Reqs PROVE RequestFits(s)'
      OBVIOUS
    <3>1. RequestFits(s) /\ Same(s) /\ due'[s] = due[s]
      BY <1>u, OwnSame DEF InvitesInv
    <3>2. HandsKept(s) /\ SharedKept(s) /\ AloneKept(s)
      BY <1>u, <1>4 DEF HandsKept, SharedKept, AloneKept, SenderStands
    <3>3. DueKept(s)
      BY <1>4, <3>1 DEF DueKept, RequestFits, SweepFits
    <3> QED
      BY <1>0, <3>1, <3>2, <3>3, OthersKept DEF Undisturbed
  <2>2. \A j \in InviteIds : Told(j)'
    BY <1>4, <1>u DEF InvitesInv, Told, Settled
  <2>3. NoInviteIntoDeleted' /\ SendersAreMembers' /\ WithheldWhileBanned'
    BY <1>4, <1>u DEF InvitesInv, NoInviteIntoDeleted, SendersAreMembers, WithheldWhileBanned, Outstanding
  <2> QED
    BY <1>u, <2>1, <2>2, <2>3, OwnSame DEF InvitesInv
<1>5. CASE /\ StampApplies(stamp[1], stamp[2])
           /\ invites' = [invites EXCEPT ![stamp[1]].status = "Expired"]
           /\ told' = [told EXCEPT ![stamp[1]] = @ + 1]
  <2>1. Outstanding(i) /\ invites[i].overdue /\ \A s \in Reqs : i \notin held[s] \cup marked[s]
    BY <1>1, <1>2, <1>3, <1>5 DEF StampApplies, Outstanding
  <2>2. /\ \A j \in InviteIds \ {i} : invites'[j] = invites[j] /\ told'[j] = told[j]
        /\ told'[i] = told[i] + 1
    BY <1>0, <1>2, <1>5 DEF TypeOK
  <2>3. invites'[i].status = "Expired" /\ invites'[i].overdue
    <3>1. PICK k \in Row : k = invites[i]
      BY <1>0 DEF TypeOK
    <3>2. PICK m : m = [k EXCEPT !.status = "Expired"]
      OBVIOUS
    <3>3. m.status = "Expired" /\ m.overdue = k.overdue
      BY <3>2 DEF Row
    <3>4. invites'[i] = m
      BY <1>0, <1>2, <1>5, <3>1, <3>2 DEF TypeOK
    <3> QED
      BY <2>1, <3>1, <3>3, <3>4
  <2>4. ~ Outstanding(i)' /\ Settled(i)' /\ ~ Settled(i)
    BY <2>1, <2>3 DEF Outstanding, OutstandingStatuses, Settled, SettledStatuses
  <2>5. \A s \in Reqs : RequestFits(s)'
    <3> SUFFICES ASSUME NEW s \in Reqs PROVE RequestFits(s)'
      OBVIOUS
    <3>1. RequestFits(s) /\ Same(s) /\ due'[s] = due[s]
      BY <1>u, OwnSame DEF InvitesInv
    <3>2. held[s] \cup marked[s] \subseteq InviteIds /\ due[s] \subseteq InviteIds
      BY <1>0 DEF TypeOK
    <3>3. HandsKept(s)
      BY <2>1, <2>2, <3>2 DEF HandsKept
    <3>4. SharedKept(s)
      BY <1>u DEF SharedKept, SenderStands
    <3>5. AloneKept(s)
      BY <2>2, <2>4 DEF AloneKept
    <3>6. DueKept(s)
      <4>1. \A j \in due[s] : invites[j].overdue /\ invites[j].status # "none"
        BY <3>1 DEF RequestFits, SweepFits
      <4> QED
        BY <2>2, <2>3, <2>4, <3>1, <3>2, <4>1 DEF DueKept
    <3> QED
      BY <1>0, <3>1, <3>3, <3>4, <3>5, <3>6, OthersKept DEF Undisturbed
  <2>6. ASSUME NEW j \in InviteIds
        PROVE  Told(j)'
    <3>1. Told(j) /\ told[j] \in Nat /\ news' = news
      BY <1>0, <1>u DEF InvitesInv, TypeOK
    <3>2. CASE j = i
      <4>1. told[i] = 0 /\ \A s \in Reqs : i \notin news[s]
        BY <2>4, <3>1, <3>2 DEF Told
      <4> QED
        BY <2>2, <2>4, <3>1, <3>2, <4>1 DEF Told
    <3>3. CASE j # i
      BY <2>2, <3>1, <3>3 DEF Told, Settled
    <3> QED
      BY <3>2, <3>3
  <2>7. \A j \in InviteIds : Outstanding(j)' => Outstanding(j) /\ invites'[j] = invites[j]
    BY <2>2, <2>4 DEF Outstanding
  <2>8. NoInviteIntoDeleted' /\ SendersAreMembers' /\ WithheldWhileBanned'
    BY <1>u, <2>7 DEF InvitesInv, NoInviteIntoDeleted, SendersAreMembers, WithheldWhileBanned
  <2> QED
    BY <1>u, <2>5, <2>6, <2>8, OwnSame DEF InvitesInv
<1> QED
  BY <1>1, <1>4, <1>5

(* The clock makes an invite overdue and nothing else. *)
LEMMA LapseKeeps ==
  ASSUME InvitesInv, TypeOK', Lapse
  PROVE  InvitesInv'
<1>0. TypeOK
  BY DEF InvitesInv
<1>1. PICK i \in InviteIds : invites' = [invites EXCEPT ![i].overdue = TRUE]
  BY DEF Lapse
<1>u. UNCHANGED <<live, members, banned, news, told>> /\ OwnUnchanged
  BY DEF absVars, OwnUnchanged, Lapse
<1>2. ASSUME NEW j \in InviteIds
      PROVE  /\ invites'[j].status = invites[j].status
             /\ invites'[j].withheld = invites[j].withheld
             /\ invites'[j].gated = invites[j].gated
             /\ invites[j].overdue => invites'[j].overdue
  <2>1. PICK k \in Row : k = invites[j]
    BY <1>0 DEF TypeOK
  <2>2. PICK m : m = [k EXCEPT !.overdue = TRUE]
    OBVIOUS
  <2>3. m.status = k.status /\ m.withheld = k.withheld /\ m.gated = k.gated /\ m.overdue = TRUE
    BY <2>2 DEF Row
  <2>4. invites'[j] = m \/ invites'[j] = k
    BY <1>0, <1>1, <2>1, <2>2 DEF TypeOK
  <2> QED
    BY <2>1, <2>3, <2>4
<1>3. \A j \in InviteIds : (Outstanding(j)' <=> Outstanding(j)) /\ (Settled(j)' <=> Settled(j))
  BY <1>2 DEF Outstanding, Settled
<1>4. \A s \in Reqs : RequestFits(s)'
  <2> SUFFICES ASSUME NEW s \in Reqs PROVE RequestFits(s)'
    OBVIOUS
  <2>1. RequestFits(s) /\ Same(s) /\ due'[s] = due[s]
    BY <1>u, OwnSame DEF InvitesInv
  <2>2. held[s] \cup marked[s] \subseteq InviteIds /\ due[s] \subseteq InviteIds
    BY <1>0 DEF TypeOK
  <2>3. HandsKept(s) /\ AloneKept(s)
    BY <1>2, <2>2 DEF HandsKept, AloneKept
  <2>4. SharedKept(s)
    BY <1>u DEF SharedKept, SenderStands
  <2>5. DueKept(s)
    BY <1>2, <2>1, <2>2 DEF DueKept, RequestFits, SweepFits
  <2> QED
    BY <1>0, <2>1, <2>3, <2>4, <2>5, OthersKept DEF Undisturbed
<1>5. \A j \in InviteIds : Told(j)'
  BY <1>u, <1>3 DEF InvitesInv, Told
<1>6. NoInviteIntoDeleted' /\ SendersAreMembers' /\ WithheldWhileBanned'
  BY <1>u, <1>2, <1>3 DEF InvitesInv, NoInviteIntoDeleted, SendersAreMembers, WithheldWhileBanned
<1> QED
  BY <1>u, <1>4, <1>5, <1>6, OwnSame DEF InvitesInv

(* Nobody builds on the policy or the gate, and nobody on the roster without its lock. *)
LEMMA RosterStepKeeps ==
  ASSUME InvitesInv, TypeOK', OwnUnchanged, UNCHANGED <<invites, told>>, banned' = banned,
         \/ UNCHANGED <<live, members>>
         \/ /\ \A s \in Reqs : hlock[s] = "none"
            /\ \A u \in Users : IsMember(members, u) => IsMember(members', u)
            /\ live => live'
  PROVE  InvitesInv'
<1>0. TypeOK
  BY DEF InvitesInv
<1>1. \A s \in Reqs : RequestFits(s)'
  <2> SUFFICES ASSUME NEW s \in Reqs PROVE RequestFits(s)'
    OBVIOUS
  <2>1. RequestFits(s) /\ Same(s) /\ due'[s] = due[s]
    BY OwnSame DEF InvitesInv
  <2>2. HandsKept(s) /\ AloneKept(s)
    BY DEF HandsKept, AloneKept
  <2>3. SharedKept(s)
    BY DEF SharedKept, SenderStands
  <2>4. DueKept(s)
    BY <2>1 DEF DueKept, RequestFits, SweepFits
  <2> QED
    BY <1>0, <2>1, <2>2, <2>3, <2>4, OthersKept DEF Undisturbed
<1>2. \A j \in InviteIds : Told(j)'
  BY DEF InvitesInv, Told, Settled, OwnUnchanged
<1>3. NoInviteIntoDeleted' /\ WithheldWhileBanned'
  BY DEF InvitesInv, NoInviteIntoDeleted, WithheldWhileBanned, Outstanding
<1>4. SendersAreMembers'
  <2>1. \A u \in Users : IsMember(members, u) => IsMember(members', u)
    OBVIOUS
  <2>2. \A j \in InviteIds : Terms[j].from \in Users
    BY <1>0, RecordTypes
  <2> QED
    BY <2>1, <2>2 DEF InvitesInv, SendersAreMembers, Outstanding
<1> QED
  BY <1>1, <1>2, <1>3, <1>4, OwnSame DEF InvitesInv

(* A role change keeps everyone a member. *)
LEMMA RolesKeepMembers ==
  ASSUME TypeOK,
         \/ \E actor \in Users, row \in MemberIds, role \in AssignableRoles :
                UpdateMemberRole(actor, row, role)
         \/ \E own, row \in MemberIds : TransferOwnership(own, row)
  PROVE  /\ \A u : IsMember(members, u) => IsMember(members', u)
         /\ \A row \in MemberIds : members[row] = "unborn" => members'[row] = "unborn"
         /\ UNCHANGED <<live, banned>>
<1>0. \A j \in MemberIds : members[j] = "unborn" => members[j] \notin RoleNames
  BY DEF RoleNames, AssignableRoles
<1>1. /\ \A j \in MemberIds : members[j] \in RoleNames => members'[j] \in RoleNames
      /\ \A j \in MemberIds : members[j] \notin RoleNames => members'[j] = members[j]
      /\ UNCHANGED <<live, banned>>
  <2>1. ASSUME NEW actor \in Users, NEW row \in MemberIds, NEW role \in AssignableRoles,
               UpdateMemberRole(actor, row, role)
        PROVE  /\ \A j \in MemberIds : members[j] \in RoleNames => members'[j] \in RoleNames
               /\ \A j \in MemberIds : members[j] \notin RoleNames => members'[j] = members[j]
               /\ UNCHANGED <<live, banned>>
    <3>1. /\ row \in LiveRows(members) /\ members' = [members EXCEPT ![row] = role]
          /\ UNCHANGED <<live, banned>>
      BY <2>1 DEF UpdateMemberRole
    <3>2. members[row] \in RoleNames /\ role \in RoleNames
      BY <3>1 DEF LiveRows, RoleNames
    <3> QED
      BY <3>1, <3>2 DEF TypeOK, Rosters
  <2>2. ASSUME NEW own \in MemberIds, NEW row \in MemberIds, TransferOwnership(own, row)
        PROVE  /\ \A j \in MemberIds : members[j] \in RoleNames => members'[j] \in RoleNames
               /\ \A j \in MemberIds : members[j] \notin RoleNames => members'[j] = members[j]
               /\ UNCHANGED <<live, banned>>
    <3>1. /\ row \in LiveRows(members) /\ own \in Owners(members)
          /\ members' = [members EXCEPT ![own] = "HouseholdAdmin", ![row] = "HouseholdOwner"]
          /\ UNCHANGED <<live, banned>>
      BY <2>2 DEF TransferOwnership
    <3>2. members[row] \in RoleNames /\ members[own] \in RoleNames
      BY <3>1 DEF LiveRows, Owners, RoleNames
    <3>3. "HouseholdAdmin" \in RoleNames /\ "HouseholdOwner" \in RoleNames
      BY DEF RoleNames, AssignableRoles
    <3> QED
      BY <3>1, <3>2, <3>3 DEF TypeOK, Rosters
  <2> QED
    BY <2>1, <2>2
<1> QED
  BY <1>0, <1>1 DEF IsMember, RowsOfUser, LiveRows

(* So does whatever happens beside the requests. *)
LEMMA BesideKeeps ==
  ASSUME InvitesInv,
         PersistExpiry \/ Lapse \/ SetPolicy \/ ChangeGate \/ ChangeRoles \/ RestoreHousehold
  PROVE  InvitesInv'
<1>0. TypeOK
  BY DEF InvitesInv
<1>1. TypeOK'
  BY <1>0, BesideTypes
<1>2. CASE SetPolicy \/ ChangeGate
  <2>1. OwnUnchanged /\ UNCHANGED <<invites, told, live, members, banned>>
    BY <1>2 DEF SetPolicy, ChangeGate, OwnUnchanged, absVars
  <2> QED
    BY <1>1, <2>1, RosterStepKeeps
<1>3. CASE ChangeRoles
  <2>1. /\ OwnUnchanged /\ UNCHANGED <<invites, told>>
        /\ \A s \in Reqs : hlock[s] = "none"
    BY <1>3 DEF ChangeRoles, OwnUnchanged, inviteVars
  <2>2. /\ \A u : IsMember(members, u) => IsMember(members', u)
        /\ UNCHANGED <<live, banned>>
    BY <1>0, <1>3, RolesKeepMembers DEF ChangeRoles
  <2> QED
    BY <1>1, <2>1, <2>2, RosterStepKeeps
<1>4. CASE RestoreHousehold
  <2>1. /\ OwnUnchanged /\ UNCHANGED <<invites, told>>
        /\ \A s \in Reqs : hlock[s] = "none"
    BY <1>4 DEF RestoreHousehold, OwnUnchanged, inviteVars
  <2>2. banned' = banned /\ members' = members /\ live'
    BY <1>4 DEF RestoreHousehold, Restore
  <2> QED
    BY <1>1, <2>1, <2>2, RosterStepKeeps
<1> QED
  BY <1>1, <1>2, <1>3, <1>4, PersistKeeps, LapseKeeps
-----------------------------------------------------------------------------
(* The invariant and what follows from it. *)

(* Before the first invite everything fits. *)
LEMMA InvitesInit == Init => InvitesInv
<1> SUFFICES ASSUME Init PROVE InvitesInv
  OBVIOUS
<1>1. TypeOK
  BY TypeInit
<1>2. \A i \in InviteIds : invites[i].status = "none"
  BY DEF Init, Unborn
<1>3. \A i \in InviteIds : ~ Outstanding(i) /\ ~ Settled(i)
  BY <1>2 DEF Outstanding, Settled, OutstandingStatuses, SettledStatuses
<1>4. ASSUME NEW r \in Reqs
      PROVE  RequestFits(r)
  <2>1. /\ pc[r] = "idle" /\ held[r] = {} /\ marked[r] = {} /\ todo[r] = {} /\ kept[r] = {} /\ hlock[r] = "none"
        /\ kept[r] = {} /\ due[r] = {} /\ news[r] = {}
    BY DEF Init
  <2>2. StageFits(r) /\ GoalFits(r) /\ HandsFit(r) /\ LockFits(r)
    BY <2>1 DEF StageFits, GoalFits, HandsFit, KeptFits, LockFits, InTx, Scans
  <2>3. ReadsHold(r) /\ ScanFits(r) /\ SweepFits(r)
    BY <2>1 DEF ReadsHold, ScanFits, SweepFits, Reached, Scans
  <2> QED
    BY <2>2, <2>3 DEF RequestFits
<1>5. HouseholdExclusion /\ RowExclusion
  BY DEF Init, HouseholdExclusion, RowExclusion
<1>6. \A i \in InviteIds : Told(i)
  BY <1>3 DEF Init, Told
<1>7. NoInviteIntoDeleted /\ SendersAreMembers /\ WithheldWhileBanned
  BY <1>3 DEF NoInviteIntoDeleted, SendersAreMembers, WithheldWhileBanned
<1> QED
  BY <1>1, <1>4, <1>5, <1>6, <1>7 DEF InvitesInv

(* Every step keeps the invariant. *)
LEMMA InvitesNext == InvitesInv /\ [Next]_vars => InvitesInv'
<1> SUFFICES ASSUME InvitesInv, [Next]_vars PROVE InvitesInv'
  OBVIOUS
<1>0. TypeOK
  BY DEF InvitesInv
<1>1. ASSUME NEW r \in Reqs, Begin(r) PROVE InvitesInv'
  BY <1>0, <1>1, BeginKeeps, RequestTypes
<1>2. ASSUME NEW r \in Reqs, BeginSweep(r) PROVE InvitesInv'
  BY <1>0, <1>2, BeginSweepKeeps, RequestTypes
<1>3. ASSUME NEW r \in Reqs, LockHousehold(r) PROVE InvitesInv'
  BY <1>0, <1>3, LockKeeps, RequestTypes
<1>4. ASSUME NEW r \in Reqs, UpdateRow(r) PROVE InvitesInv'
  BY <1>0, <1>4, UpdateKeeps, RequestTypes
<1>5. ASSUME NEW r \in Reqs, CheckCreate(r) PROVE InvitesInv'
  BY <1>0, <1>5, CheckCreateKeeps, RequestTypes
<1>6. ASSUME NEW r \in Reqs, CheckRoster(r) PROVE InvitesInv'
  BY <1>0, <1>6, CheckRosterKeeps, RequestTypes
<1>7. ASSUME NEW r \in Reqs, ReadOffer(r) PROVE InvitesInv'
  BY <1>0, <1>7, ReadOfferKeeps, RequestTypes
<1>8. ASSUME NEW r \in Reqs, ReadInvite(r) PROVE InvitesInv'
  BY <1>0, <1>8, ReadInviteKeeps, RequestTypes
<1>9. ASSUME NEW r \in Reqs, FindRows(r) PROVE InvitesInv'
  BY <1>0, <1>9, FindKeeps, RequestTypes
<1>10. ASSUME NEW r \in Reqs, EndStatement(r) PROVE InvitesInv'
  BY <1>0, <1>10, EndKeeps, RequestTypes
<1>11. ASSUME NEW r \in Reqs, Vouch(r) \/ CheckAdmission(r) PROVE InvitesInv'
  BY <1>0, <1>11, LastQuestionKeeps, RequestTypes
<1>12. ASSUME NEW r \in Reqs, CommitAny(r) PROVE InvitesInv'
  BY <1>12, CommitKeeps
<1>13. ASSUME NEW r \in Reqs, Announce(r) PROVE InvitesInv'
  BY <1>0, <1>13, AnnounceKeeps, RequestTypes
<1>14. ASSUME NEW r \in Reqs, RefuseExpired(r) \/ Refuse(r) \/ RefuseByLimit(r) \/ DeadlockVictim(r)
       PROVE  InvitesInv'
  BY <1>0, <1>14, RollbackKeeps, RequestTypes
<1>15. ASSUME NEW r \in Reqs, Proceed(r) PROVE InvitesInv'
  BY <1>5, <1>6, <1>7, <1>8, <1>9, <1>10, <1>11, <1>12, <1>13, <1>14, <1>15 DEF Proceed
<1>16. CASE PersistExpiry \/ Lapse \/ SetPolicy \/ ChangeGate \/ ChangeRoles \/ RestoreHousehold
  BY <1>16, BesideKeeps
<1>17. CASE UNCHANGED vars
  <2>1. /\ OwnUnchanged /\ UNCHANGED <<live, members, banned, invites, told>>
        /\ UNCHANGED <<absVars, inviteVars, txVars, pc, call, hlock, news, due>>
    BY <1>17 DEF vars, absVars, inviteVars, OwnUnchanged
  <2>2. TypeOK'
    BY <1>0, <2>1 DEF TypeOK, absVars, inviteVars, settings, txVars
  <2> QED
    BY <2>1, <2>2, RosterStepKeeps
<1> QED
  BY <1>1, <1>2, <1>3, <1>4, <1>15, <1>16, <1>17 DEF Next

(* InvitesInv holds in every reachable state of every instance. *)
THEOREM InvitesInvariance == Spec => []InvitesInv
  BY InvitesInit, InvitesNext, PTL DEF Spec

(* Every row, lock and message keeps its kind. *)
THEOREM InvitesTypeCorrect == Spec => []TypeOK
<1>1. InvitesInv => TypeOK
  BY DEF InvitesInv
<1> QED
  BY <1>1, InvitesInvariance, PTL

(* The end of an invite is announced once, by whoever ended it, whichever    *)
(* transitions, closings, sweeps and detached stamps race for its row.       *)
THEOREM EndsAnnouncedOnce == Spec => []AnnouncedOnce
<1>1. InvitesInv => AnnouncedOnce
  <2> SUFFICES ASSUME InvitesInv, NEW i \in InviteIds
               PROVE  told[i] + Cardinality({r \in Reqs : i \in news[r]}) =
                          IF Settled(i) THEN 1 ELSE 0
    BY DEF AnnouncedOnce
  <2>1. Told(i)
    BY DEF InvitesInv
  <2>2. CASE \A r \in Reqs : i \notin news[r]
    <3>1. {r \in Reqs : i \in news[r]} = {}
      BY <2>2
    <3>2. Cardinality({r \in Reqs : i \in news[r]}) = 0
      BY <3>1, FS_EmptySet
    <3> QED
      BY <2>1, <2>2, <3>2 DEF Told
  <2>3. CASE \E r \in Reqs : i \in news[r]
    <3>1. PICK r \in Reqs : i \in news[r]
      BY <2>3
    <3>2. {s \in Reqs : i \in news[s]} = {r}
      BY <2>1, <3>1 DEF Told
    <3>3. Cardinality({s \in Reqs : i \in news[s]}) = 1
      BY <3>2, FS_Singleton
    <3>4. told[i] = 0 /\ Settled(i)
      BY <2>1, <3>1 DEF Told
    <3> QED
      BY <3>3, <3>4
  <2> QED
    BY <2>2, <2>3
<1> QED
  BY <1>1, InvitesInvariance, PTL

(* A soft delete leaves no invite open behind it. *)
THEOREM DeletedHaveNoInvites == Spec => []NoInviteIntoDeleted
<1>1. InvitesInv => NoInviteIntoDeleted
  BY DEF InvitesInv
<1> QED
  BY <1>1, InvitesInvariance, PTL

(* Everyone with an outstanding invite out is a member. *)
THEOREM SendersStayMembers == Spec => []SendersAreMembers
<1>1. InvitesInv => SendersAreMembers
  BY DEF InvitesInv
<1> QED
  BY <1>1, InvitesInvariance, PTL

(* An open invite to an address is withheld exactly while its holder is      *)
(* banned, and none naming a banned user by id is open.                      *)
THEOREM BansWithhold == Spec => []WithheldWhileBanned
<1>1. InvitesInv => WithheldWhileBanned
  BY DEF InvitesInv
<1> QED
  BY <1>1, InvitesInvariance, PTL

(* Nobody joins but on an accepted invite whose sender still stands, with    *)
(* the role it offers, and no invite is accepted without somebody joining.   *)
THEOREM AdmissionsStand == Spec => OnlyStandingInvitesAdmit
<1> DEFINE Stands ==
      /\ \A i \in InviteIds : AcceptedNow(i) =>
             /\ SenderStands(i)
             /\ \E row \in MemberIds : Joins(row) /\ members'[row] = Terms[i].role
      /\ \A row \in MemberIds : Joins(row) =>
             \E i \in InviteIds : AcceptedNow(i)
<1>1. InvitesInv /\ [Next]_vars => [Stands]_vars
  <2> SUFFICES ASSUME InvitesInv, [Next]_vars PROVE [Stands]_vars
    OBVIOUS
  <2>0. TypeOK
    BY DEF InvitesInv
  <2>1. ASSUME \A i \in InviteIds : ~ AcceptedNow(i), \A row \in MemberIds : ~ Joins(row)
        PROVE  Stands
    BY <2>1
  <2>n. \A row \in MemberIds : members[row] = "unborn" => members[row] \notin RoleNames
    BY DEF RoleNames, AssignableRoles
  <2>2. ASSUME UNCHANGED members, \A i \in InviteIds : invites'[i].status = invites[i].status
        PROVE  Stands
    <3>1. \A i \in InviteIds : ~ AcceptedNow(i)
      BY <2>2 DEF AcceptedNow
    <3>2. \A row \in MemberIds : ~ Joins(row)
      BY <2>2, <2>n DEF Joins
    <3> QED
      BY <2>1, <3>1, <3>2
  <2>3. ASSUME NEW r \in Reqs, OnlyOwn(r)
        PROVE  Stands
    BY <2>2, <2>3 DEF OnlyOwn
  <2>4. ASSUME NEW r \in Reqs, CommitAny(r)
        PROVE  Stands
    <3>0. RequestFits(r) /\ pc[r] = "commit" /\ RosterEffect(r) /\ HandsFit(r)
      BY <2>0, <2>4, CommitEffect, CommitRoster DEF InvitesInv, Commit, RequestFits
    <3>1. \A i \in InviteIds : RowEffect(r, i)
      BY <2>0, <2>4, <3>0, CommitEffect
    <3>j. call[r].inv \in InviteIds
      BY <2>0, RecordTypes
    <3>2. CASE call[r].op = "accept" /\ goal[r] = "Accepted"
      <4>1. call[r].inv \in held[r] /\ held[r] \subseteq {call[r].inv} /\ marked[r] = {}
        BY <3>0, <3>2 DEF HandsFit, Transitions
      <4>2. Written(r) = "Accepted"
        BY <3>2 DEF Written, Transitions
      <4>3. AcceptedNow(call[r].inv)
        BY <3>0, <3>1, <3>j, <4>1, <4>2
           DEF AcceptedNow, RowEffect, HandsFit, Outstanding, OutstandingStatuses
      <4>4. ASSUME NEW i \in InviteIds, AcceptedNow(i)
            PROVE  i = call[r].inv
        BY <3>1, <3>2, <4>1, <4>4 DEF AcceptedNow, RowEffect, Opens
      <4>5. SenderStands(call[r].inv)
        BY <3>0, <3>2 DEF RequestFits, ReadsHold
      <4>6. PICK row \in MemberIds : /\ members[row] = "unborn"
                                     /\ members' = [members EXCEPT ![row] = Terms[call[r].inv].role]
        BY <3>0, <3>2 DEF RosterEffect
      <4>7. Terms[call[r].inv].role \in RoleNames
        BY <2>0, <3>j, RecordTypes DEF RoleNames
      <4>8. Joins(row) /\ members'[row] = Terms[call[r].inv].role
        BY <2>0, <4>6, <4>7 DEF Joins, TypeOK, Rosters
      <4>9. ASSUME NEW i \in InviteIds, AcceptedNow(i)
            PROVE  /\ SenderStands(i)
                   /\ \E q \in MemberIds : Joins(q) /\ members'[q] = Terms[i].role
        BY <4>4, <4>5, <4>8, <4>9
      <4> QED
        BY <3>j, <4>3, <4>9
    <3>3. CASE ~ (call[r].op = "accept" /\ goal[r] = "Accepted")
      <4>1. Written(r) # "Accepted"
        BY <2>0, <3>0, <3>3, WrittenStatus
      <4>2. call[r].op = "create" => goal[r] \in OutstandingStatuses
        BY <3>0 DEF RequestFits, GoalFits
      <4>3. ASSUME NEW i \in InviteIds
            PROVE  ~ AcceptedNow(i)
        <5>1. RowEffect(r, i)
          BY <3>1
        <5> QED
          BY <4>1, <4>2, <5>1 DEF AcceptedNow, RowEffect, Opens, OutstandingStatuses
      <4>4. members' = members \/ MemberGoes(call[r].user)
        BY <3>0, <3>3 DEF RosterEffect
      <4>5. \A row \in MemberIds : ~ Joins(row)
        <5>1. CASE members' = members
          BY <2>n, <5>1 DEF Joins
        <5>2. CASE MemberGoes(call[r].user)
          <6>1. PICK q \in MemberIds : members' = [members EXCEPT ![q] = "gone"]
            BY <5>2 DEF MemberGoes, RowsOfUser, LiveRows
          <6>2. "gone" \notin RoleNames
            BY DEF RoleNames, AssignableRoles
          <6> QED
            BY <2>0, <2>n, <6>1, <6>2 DEF Joins, TypeOK, Rosters
        <5> QED
          BY <4>4, <5>1, <5>2
      <4> QED
        BY <2>1, <4>3, <4>5
    <3> QED
      BY <3>2, <3>3
  <2>5. ASSUME NEW r \in Reqs, Proceed(r)
        PROVE  Stands
    <3>1. CASE CommitAny(r)
      BY <2>4, <3>1
    <3>2. CASE ~ CommitAny(r)
      <4>1. OnlyOwn(r)
        BY <2>0, <2>5, <3>2, OwnSteps DEF Proceed, RefuseExpired, Refuse, RefuseByLimit, DeadlockVictim
      <4> QED
        BY <2>3, <4>1
    <3> QED
      BY <3>1, <3>2
  <2>6. ASSUME NEW r \in Reqs, Begin(r) \/ BeginSweep(r) \/ LockHousehold(r) \/ UpdateRow(r)
        PROVE  Stands
    BY <2>0, <2>3, <2>6, OwnSteps
  <2>7. CASE PersistExpiry
    <3>1. PICK stamp \in stamps :
             /\ \/ invites' = [invites EXCEPT ![stamp[1]].status = "Expired"]
                \/ invites' = invites
             /\ members' = members
      BY <2>7 DEF PersistExpiry, absVars
    <3>2. ASSUME NEW i \in InviteIds
          PROVE  invites'[i].status \in {"Expired", invites[i].status}
      <4>1. PICK k \in Row : k = invites[i]
        BY <2>0 DEF TypeOK
      <4>2. PICK m : m = [k EXCEPT !.status = "Expired"]
        OBVIOUS
      <4>3. m.status = "Expired"
        BY <4>2 DEF Row
      <4>4. invites'[i] = m \/ invites'[i] = k
        <5>1. DOMAIN invites = InviteIds
          BY <2>0 DEF TypeOK
        <5>2. CASE i = stamp[1]
          BY <3>1, <4>1, <4>2, <5>1, <5>2
        <5>3. CASE i # stamp[1]
          BY <3>1, <4>1, <5>1, <5>3
        <5> QED
          BY <5>2, <5>3
      <4> QED
        BY <4>1, <4>3, <4>4
    <3>3. \A i \in InviteIds : ~ AcceptedNow(i)
      BY <3>2 DEF AcceptedNow
    <3>4. \A row \in MemberIds : ~ Joins(row)
      BY <2>n, <3>1 DEF Joins
    <3> QED
      BY <2>1, <3>3, <3>4
  <2>8. CASE Lapse
    <3>1. PICK j \in InviteIds : invites' = [invites EXCEPT ![j].overdue = TRUE]
      BY <2>8 DEF Lapse
    <3>2. ASSUME NEW i \in InviteIds
          PROVE  invites'[i].status = invites[i].status
      <4>1. PICK k \in Row : k = invites[i]
        BY <2>0 DEF TypeOK
      <4>2. PICK m : m = [k EXCEPT !.overdue = TRUE]
        OBVIOUS
      <4>3. m.status = k.status
        BY <4>2 DEF Row
      <4>4. invites'[i] = m \/ invites'[i] = k
        BY <2>0, <3>1, <4>1, <4>2 DEF TypeOK
      <4> QED
        BY <4>1, <4>3, <4>4
    <3>3. UNCHANGED members
      BY <2>8 DEF Lapse, absVars
    <3> QED
      BY <2>2, <3>2, <3>3
  <2>9. CASE SetPolicy \/ ChangeGate \/ RestoreHousehold
    BY <2>2, <2>9 DEF SetPolicy, ChangeGate, RestoreHousehold, Restore, absVars, inviteVars, settings
  <2>10. CASE ChangeRoles
    <3>1. \A row \in MemberIds : members[row] = "unborn" => members'[row] = "unborn"
      BY <2>0, <2>10, RolesKeepMembers DEF ChangeRoles
    <3>2. "unborn" \notin RoleNames
      BY DEF RoleNames, AssignableRoles
    <3>3. \A row \in MemberIds : ~ Joins(row)
      BY <3>1, <3>2 DEF Joins
    <3>4. \A i \in InviteIds : ~ AcceptedNow(i)
      BY <2>10 DEF ChangeRoles, inviteVars, AcceptedNow
    <3> QED
      BY <2>1, <3>3, <3>4
  <2> HIDE DEF Stands
  <2> QED
    BY <2>5, <2>6, <2>7, <2>8, <2>9, <2>10 DEF Next
<1>2. [][Stands]_vars <=> OnlyStandingInvitesAdmit
  BY DEF OnlyStandingInvitesAdmit
<1> HIDE DEF Stands
<1>3. Spec => [][Stands]_vars
  BY <1>1, InvitesInvariance, PTL DEF Spec
<1> QED
  BY <1>2, <1>3

(* A run of the sweep that ends of itself leaves nothing open that was       *)
(* overdue when it began.                                                    *)
THEOREM SweepsDrain == Spec => SweepDrains
<1> DEFINE Drains ==
      \A r \in Sweepers : pc[r] = "announce" /\ pc'[r] = "idle" =>
          \A i \in due[r] : ~ Outstanding(i)
<1>1. InvitesInv /\ [Next]_vars => [Drains]_vars
  <2> SUFFICES ASSUME InvitesInv, [Next]_vars, NEW r \in Sweepers,
                      pc[r] = "announce", pc'[r] = "idle", NEW i \in due[r]
               PROVE  ~ Outstanding(i)
    OBVIOUS
  <2>0. TypeOK /\ r \in Reqs /\ RequestFits(r)
    BY DEF InvitesInv
  <2>1. ASSUME NEW s \in Reqs, OnlyOwn(s) \/ CommitAny(s), s # r
        PROVE  FALSE
    <3>1. pc'[r] = pc[r]
      <4>1. CASE OnlyOwn(s)
        BY <2>0, <2>1, <4>1 DEF OnlyOwn, Same
      <4>2. CASE CommitAny(s)
        <5>1. RequestFits(s)
          BY DEF InvitesInv
        <5>2. \A q \in Reqs \ {s} : Same(q)
          BY <2>0, <4>2, <5>1, CommitReleases
        <5> QED
          BY <2>0, <2>1, <5>2 DEF Same
      <4> QED
        BY <2>1, <4>1, <4>2
    <3> QED
      BY <3>1
  <2>2. pc' # pc
    OBVIOUS
  <2>3. ~ (PersistExpiry \/ Lapse \/ SetPolicy \/ ChangeGate \/ ChangeRoles \/ RestoreHousehold)
    BY <2>2 DEF PersistExpiry, Lapse, SetPolicy, ChangeGate, ChangeRoles, RestoreHousehold
  <2>4. ~ UNCHANGED vars
    BY <2>2 DEF vars
  <2>5. PICK s \in Reqs : Begin(s) \/ BeginSweep(s) \/ LockHousehold(s) \/ UpdateRow(s) \/ Proceed(s)
    BY <2>3, <2>4 DEF Next
  <2>6. OnlyOwn(s) \/ CommitAny(s)
    BY <2>0, <2>5, OwnSteps DEF Proceed, RefuseExpired, Refuse, RefuseByLimit, DeadlockVictim
  <2>7. s = r
    BY <2>1, <2>6
  <2>8. Announce(r)
    <3>1. ~ (Begin(r) \/ BeginSweep(r) \/ LockHousehold(r) \/ UpdateRow(r))
      BY DEF Begin, BeginSweep, LockHousehold, UpdateRow
    <3>2. ~ (CheckCreate(r) \/ CheckRoster(r) \/ ReadOffer(r) \/ ReadInvite(r) \/ FindRows(r)
             \/ EndStatement(r) \/ Vouch(r) \/ CheckAdmission(r))
      BY DEF CheckCreate, CheckRoster, ReadOffer, ReadInvite, FindRows, EndStatement, Vouch,
             CheckAdmission
    <3>3. ~ CommitAny(r)
      <4>1. CommitAny(r) => pc[r] = "commit"
        BY <2>0, CommitEffect DEF Commit
      <4> QED
        BY <4>1
    <3>4. ~ (RefuseExpired(r) \/ Refuse(r) \/ RefuseByLimit(r))
      BY DEF RefuseExpired, MeetsExpired, Refuse, Refused, RefuseByLimit
    <3>5. ~ DeadlockVictim(r)
      BY <2>0 DEF RequestFits, HandsFit, DeadlockVictim, WaitsFor
    <3> QED
      BY <2>5, <2>7, <3>1, <3>2, <3>3, <3>4, <3>5 DEF Proceed
  <2>9. call[r].op = "sweep"
    BY <2>0 DEF RequestFits, StageFits
  <2>10. drained[r]
    <3>1. ~ (pc' = [pc EXCEPT ![r] = "find1"])
      BY <2>0 DEF TypeOK
    <3> QED
      BY <2>8, <2>9, <3>1 DEF Announce, RunEnds, Goto
  <2> QED
    BY <2>0, <2>10 DEF RequestFits, SweepFits
<1>2. [][Drains]_vars <=> SweepDrains
  BY DEF SweepDrains
<1> HIDE DEF Drains
<1>3. Spec => [][Drains]_vars
  BY <1>1, InvitesInvariance, PTL DEF Spec
<1> QED
  BY <1>2, <1>3

=============================================================================
