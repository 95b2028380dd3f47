-------------------------- MODULE HouseholdInvites --------------------------
(***************************************************************************)
(* The invites into one household and the requests that move them, at the   *)
(* granularity of database statements, over the roster HouseholdSpec        *)
(* promises.  HouseholdRoster shows that the roster's own operations take   *)
(* effect at one instant under the household row's lock; here each of them  *)
(* is one step of HouseholdSpec, taken at the commit of the transaction     *)
(* that also closes, withholds or releases invites.                         *)
(*                                                                          *)
(* An update that finds a row locked by another transaction waits, and then *)
(* asks its WHERE of the row as committed: a guarded update either moves    *)
(* the row it read or misses.                                               *)
(*                                                                          *)
(* Sources: libs/common/invites/src/lib/invite.service.ts, invitee-gate.ts   *)
(* and expiry-sweep, libs/api/household/src/lib/invite, ban, member and     *)
(* household.service.ts.                                                    *)
(***************************************************************************)
EXTENDS HouseholdSpec

CONSTANTS
    InviteIds,  \* ids of invites rows, used and still to come
    Terms,      \* per invite: its sender, invitee, whether by address, role
    Policies,   \* the member invite policies the household switches between
    Gates,      \* what the invitee gate switches between: each a set of pairs
                \* of a sender and someone their invites are kept from
    Reqs,       \* the requests in flight at one time
    Sweepers,   \* those of them reserved for the expiry sweep; with none,
                \* any request may be a run of it
    Ops,        \* the operations this instance exercises
    Batch       \* SWEEP_BATCH_SIZE

OutstandingStatuses == {"AwaitingApproval", "Pending"}

SettledStatuses == {"Accepted", "Declined", "Expired", "Revoked", "Withdrawn"}

OpNames == {"create", "accept", "decline", "withdraw", "revoke", "approve",
            "leave", "removeMember", "ban", "lift", "delete", "sweep",
            "changeRoles"}

ASSUME InvitesAssumption ==
    /\ Terms \in [InviteIds -> [from : Users, to : Users, byAddress : BOOLEAN,
                                role : AssignableRoles]]
    /\ \A i \in InviteIds : Terms[i].from # Terms[i].to
    /\ InviteIds # {} /\ IsFiniteSet(InviteIds)
    /\ Policies # {} /\ Policies \subseteq {"Direct", "NeedsApproval", "Off"}
    /\ Gates # {} /\ Gates \subseteq SUBSET (Users \X Users)
    /\ Sweepers \subseteq Reqs
    /\ Ops # {} /\ Ops \subseteq OpNames
    /\ Batch \in Nat \ {0}

VARIABLES
    invites,    \* the rows: status, overdue (the clock passed expires_at),
                \* withheld, needsApproval; "none" before the insert; and,
                \* no column, gated: what the gate said when last asked
    policy,     \* household_settings.member_invite_policy
    gate,       \* the pairs a block or the invitee's preference keeps apart
    stamps,     \* detached persistExpiry statements still to run
    told,       \* how often each invite's end has been announced
    pc,         \* where each request stands
    call,       \* what each request asks: operation, actor, invite, user
    hlock,      \* each transaction's lock on the household row
    seen,       \* the status a transition read its row in
    goal,       \* the status it means to write
    veil,       \* whether a create read a ban on its address's holder
    kept,       \* invites it found the gate to withhold
    todo,       \* rows a statement has located and not yet come to
    held,       \* rows the transaction has updated, locked until its end
    marked,     \* rows whose withheld mark it has flipped, locked likewise
    news,       \* invites whose end the committed request still announces
    drained,    \* whether every read of the sweep's batch came back short
    due         \* invites overdue when the sweep's run began

settings == <<policy, gate>>
inviteVars == <<invites, settings, stamps, told>>
txVars == <<seen, goal, veil, kept, todo, held, marked, drained>>
vars == <<absVars, inviteVars, txVars, pc, call, hlock, news, due>>

Stages == {"idle", "waiting", "check", "offer", "read", "write", "vouch",
           "admit", "find1", "lock1", "find2", "lock2", "find3", "lock3",
           "commit", "announce"}

Calls == [op : Ops, actor : Users, inv : InviteIds, user : Users]

NoCall == CHOOSE c \in Calls : TRUE

Row == [status : OutstandingStatuses \cup SettledStatuses \cup {"none"},
        overdue : BOOLEAN, withheld : BOOLEAN, needsApproval : BOOLEAN,
        gated : BOOLEAN]

Unborn == [status |-> "none", overdue |-> FALSE, withheld |-> FALSE,
           needsApproval |-> FALSE, gated |-> FALSE]

Outstanding(i) == invites[i].status \in OutstandingStatuses

Settled(i) == invites[i].status \in SettledStatuses

Init ==
    /\ AbsInit
    /\ invites = [i \in InviteIds |-> Unborn]
    /\ policy \in Policies
    /\ gate \in Gates
    /\ stamps = {}
    /\ told = [i \in InviteIds |-> 0]
    /\ pc = [r \in Reqs |-> "idle"]
    /\ call = [r \in Reqs |-> NoCall]
    /\ hlock = [r \in Reqs |-> "none"]
    /\ seen = [r \in Reqs |-> "none"]
    /\ goal = [r \in Reqs |-> "none"]
    /\ veil = [r \in Reqs |-> FALSE]
    /\ kept = [r \in Reqs |-> {}]
    /\ todo = [r \in Reqs |-> {}]
    /\ held = [r \in Reqs |-> {}]
    /\ marked = [r \in Reqs |-> {}]
    /\ news = [r \in Reqs |-> {}]
    /\ drained = [r \in Reqs |-> TRUE]
    /\ due = [r \in Reqs |-> {}]

-----------------------------------------------------------------------------
(* Who may do what to an invite: the grants on Invite of the catalog, asked  *)
(* of the roster and of the member invite policy.  A server owner's          *)
(* manage:all passes every question, with a seat or without one.             *)

CouldSend(user, role, needsApproval) ==
    \/ user \in ServerOwners
    \/ HoldsOneOf(members, user, {"HouseholdOwner"})
    \/ /\ role \in {"HouseholdMember", "HouseholdGuest"}
       /\ \/ HoldsOneOf(members, user, {"HouseholdOwner", "HouseholdAdmin"})
          \/ /\ HoldsOneOf(members, user, {"HouseholdMember"})
             /\ \/ policy = "Direct"
                \/ policy = "NeedsApproval" /\ needsApproval

(* mutant: an accept does not ask whether the sender could still send *)
SenderNotAsked(i) == TRUE

(* senderCouldStillSend: as sent directly, or in either way if it was sent   *)
(* to wait for an approver.                                                  *)
SenderCouldStillSend(i) ==
    LET t == Terms[i] IN
    \/ CouldSend(t.from, t.role, FALSE)
    \/ invites[i].needsApproval /\ CouldSend(t.from, t.role, TRUE)

MayRevoke(actor, i) ==
    /\ actor # Terms[i].from
    /\ \/ actor \in ServerOwners
       \/ HoldsOneOf(members, actor, {"HouseholdOwner"})
       \/ /\ Terms[i].role \in {"HouseholdMember", "HouseholdGuest"}
          /\ HoldsOneOf(members, actor, {"HouseholdOwner", "HouseholdAdmin"})

MayApprove(actor) ==
    \/ actor \in ServerOwners
    \/ HoldsOneOf(members, actor, {"HouseholdOwner", "HouseholdAdmin"})

(* gateWithholdsByAddress, and what gateInvitee asks beside the policy: a    *)
(* block between sender and invitee, or the invitee's preference.            *)
GateWithholds(i) == <<Terms[i].from, Terms[i].to>> \in gate

(* partyWhere and assertInvitee: by id, by the vouched address, or, for an   *)
(* invite by address, by whoever holds its link; never its own sender.       *)
ReachesAsInvitee(actor, i) ==
    /\ actor # Terms[i].from
    /\ IF Terms[i].byAddress THEN ~ invites[i].withheld
                             ELSE actor = Terms[i].to

(* What the roster's own operations ask under the lock; the last owner never *)
(* departs.                                                                  *)
MayDepart(user) ==
    \A row \in RowsOfUser(members, user) : Owners(members) # {row}

RosterAllows(c) ==
    \/ /\ c.op = "leave"
       /\ c.user = c.actor /\ IsMember(members, c.user) /\ MayDepart(c.user)
    \/ /\ c.op = "removeMember"
       /\ IsMember(members, c.user) /\ MayDepart(c.user)
       /\ \A row \in RowsOfUser(members, c.user) :
              MayManage(members, c.actor, members[row])
    \/ /\ c.op = "ban"
       /\ c.user # c.actor /\ c.user \notin banned
       /\ MayBan(members, c.actor) /\ MayDepart(c.user)
       /\ \A row \in RowsOfUser(members, c.user) :
              MayManage(members, c.actor, members[row])
    \/ /\ c.op = "lift"
       /\ c.user \in banned /\ MayBan(members, c.actor)
    \/ c.op = "delete"     \* whose authority was read before the lock

(* mutant: a lift takes only the share lock *)
LiftShares(op) ==
    CASE op \in {"create", "accept", "revoke", "approve", "lift"} -> "share"
      [] op \in {"leave", "removeMember", "ban", "delete"} -> "exclusive"
      [] OTHER -> "none"

(* mutant: a create does not lock the household *)
CreateUnlocked(op) ==
    CASE op \in {"accept", "revoke", "approve"} -> "share"
      [] op \in {"leave", "removeMember", "ban", "lift", "delete"} -> "exclusive"
      [] OTHER -> "none"

(* The lock each operation takes on the household row before it touches an   *)
(* invite: a decline, a withdrawal and the sweep take none.                  *)
LockMode(op) ==
    CASE op \in {"create", "accept", "revoke", "approve"} -> "share"
      [] op \in {"leave", "removeMember", "ban", "lift", "delete"} -> "exclusive"
      [] OTHER -> "none"

-----------------------------------------------------------------------------
(* Beginning and ending a request.                                           *)

(* What is read before the household is locked, whose refusals change        *)
(* nothing.                                                                  *)
BeforeLock(c) ==
    LET t == Terms[c.inv] IN
    \/ /\ c.op = "create"
       /\ invites[c.inv].status = "none" /\ c.actor = t.from
       /\ CouldSend(c.actor, t.role, TRUE)
    \/ /\ c.op \in {"accept", "decline"}
       /\ Outstanding(c.inv) /\ ReachesAsInvitee(c.actor, c.inv)
    \/ /\ c.op = "withdraw"
       /\ Outstanding(c.inv) /\ c.actor = t.from
    \/ /\ c.op = "revoke"
       /\ Outstanding(c.inv) /\ MayRevoke(c.actor, c.inv)
    \/ /\ c.op = "approve"
       /\ Outstanding(c.inv) /\ MayApprove(c.actor)
    \/ /\ c.op \in {"leave", "removeMember", "ban", "lift"}
       /\ live /\ RosterAllows(c)
    \/ /\ c.op = "delete"
       /\ live /\ MayDelete(members, c.actor)

(* Parameters an operation does not have are pinned to one value. *)
Canonical(c) ==
    /\ c.op \in {"leave", "removeMember", "ban", "lift", "delete"} =>
           c.inv = CHOOSE i \in InviteIds : TRUE
    /\ c.op \notin {"leave", "removeMember", "ban", "lift"} =>
           c.user = CHOOSE u \in Users : TRUE

(* The first statement of an operation that locks nothing. *)
Begin(r) ==
    /\ pc[r] = "idle" /\ r \notin Sweepers
    /\ \E c \in Calls :
           /\ Canonical(c) /\ BeforeLock(c)
           /\ call' = [call EXCEPT ![r] = c]
           /\ pc' = [pc EXCEPT ![r] =
                        IF LockMode(c.op) = "none" THEN
                            IF c.op = "create" THEN "check" ELSE "read"
                        ELSE "waiting"]
    /\ UNCHANGED <<absVars, inviteVars, txVars, hlock, news, due>>

Overdue == {i \in InviteIds : Outstanding(i) /\ invites[i].overdue}

(* The interval fires: a run of the sweep. *)
BeginSweep(r) ==
    /\ pc[r] = "idle" /\ "sweep" \in Ops
    /\ r \in Sweepers \/ Sweepers = {}
    /\ call' = [call EXCEPT ![r] = [NoCall EXCEPT !.op = "sweep"]]
    /\ pc' = [pc EXCEPT ![r] = "find1"]
    /\ due' = [due EXCEPT ![r] = Overdue]
    /\ UNCHANGED <<absVars, inviteVars, txVars, hlock, news>>

(* A transaction that ends frees its locks and forgets what it read. *)
Release(r) ==
    /\ hlock' = [hlock EXCEPT ![r] = "none"]
    /\ seen' = [seen EXCEPT ![r] = "none"]
    /\ goal' = [goal EXCEPT ![r] = "none"]
    /\ veil' = [veil EXCEPT ![r] = FALSE]
    /\ kept' = [kept EXCEPT ![r] = {}]
    /\ todo' = [todo EXCEPT ![r] = {}]
    /\ held' = [held EXCEPT ![r] = {}]
    /\ marked' = [marked EXCEPT ![r] = {}]

Rollback(r) ==
    /\ pc' = [pc EXCEPT ![r] = "idle"]
    /\ call' = [call EXCEPT ![r] = NoCall]
    /\ drained' = [drained EXCEPT ![r] = TRUE]
    /\ due' = [due EXCEPT ![r] = {}]
    /\ Release(r)
    /\ UNCHANGED <<absVars, invites, settings, told, news>>

Goto(r, stage) == pc' = [pc EXCEPT ![r] = stage]

LockIsFree(r) ==
    \A s \in Reqs \ {r} :
        /\ hlock[s] # "exclusive"
        /\ LockMode(call[r].op) = "exclusive" => hlock[s] = "none"

(* Once the lock is granted, what the operation does first. *)
FirstStage(op) ==
    CASE op = "accept" -> "offer"
      [] op \in {"revoke", "approve"} -> "read"
      [] OTHER -> "check"

LockHousehold(r) ==
    /\ pc[r] = "waiting" /\ LockIsFree(r) /\ live
    /\ hlock' = [hlock EXCEPT ![r] = LockMode(call[r].op)]
    /\ Goto(r, FirstStage(call[r].op))
    /\ UNCHANGED <<absVars, inviteVars, txVars, call, news, due>>

-----------------------------------------------------------------------------
(* Statements that read.                                                     *)

(* createInvite under the lock: whether the sender may invite and how the    *)
(* invite opens, and what the gate and a ban make of it.  By id a member, an *)
(* invitee the gate keeps apart and a banned one are refused; by address the *)
(* gate and the ban store the invite withheld.                               *)
MayOpen(c) ==
    LET t == Terms[c.inv] IN
    /\ CouldSend(t.from, t.role, TRUE)
    /\ ~ t.byAddress => /\ ~ IsMember(members, t.to)
                        /\ ~ GateWithholds(c.inv)
                        /\ t.to \notin banned

CheckCreate(r) ==
    LET t == Terms[call[r].inv] IN
    /\ pc[r] = "check" /\ call[r].op = "create"
    /\ MayOpen(call[r])
    /\ goal' = [goal EXCEPT ![r] =
                   IF CouldSend(t.from, t.role, FALSE) THEN "Pending"
                                                       ELSE "AwaitingApproval"]
    /\ veil' = [veil EXCEPT ![r] = t.byAddress /\ t.to \in banned]
    /\ kept' = [kept EXCEPT ![r] =
                   {i \in {call[r].inv} : t.byAddress /\ GateWithholds(i)}]
    /\ Goto(r, "find1")
    /\ UNCHANGED <<absVars, inviteVars, seen, todo, held, marked, drained,
                   call, hlock, news, due>>

(* The roster's operations decide from the roster read under the lock. *)
CheckRoster(r) ==
    /\ pc[r] = "check" /\ call[r].op # "create"
    /\ RosterAllows(call[r])
    /\ Goto(r, IF call[r].op = "lift" THEN "find3" ELSE "find1")
    /\ UNCHANGED <<absVars, inviteVars, txVars, call, hlock, news, due>>

(* accept: the invite as it would be accepted, then its sender's standing.   *)
(* A sender who could no longer send it has it revoked instead, unless the   *)
(* invitee is a member already.                                              *)
Acceptable(r) ==
    /\ ReachesAsInvitee(call[r].actor, call[r].inv)
    /\ invites[call[r].inv].status = "Pending"
    /\ ~ invites[call[r].inv].overdue

ReadOffer(r) ==
    /\ pc[r] = "offer"
    /\ Acceptable(r)
    /\ \/ SenderCouldStillSend(call[r].inv)
       \/ ~ IsMember(members, call[r].actor)
    /\ goal' = [goal EXCEPT ![r] = IF SenderCouldStillSend(call[r].inv)
                                      THEN "Accepted" ELSE "Revoked"]
    /\ Goto(r, "read")
    /\ UNCHANGED <<absVars, inviteVars, seen, veil, kept, todo, held, marked,
                   drained, call, hlock, news, due>>

(* The statuses a transition may start from. *)
StartsFrom(r) ==
    CASE call[r].op = "accept" /\ goal[r] = "Accepted" -> {"Pending"}
      [] call[r].op = "approve" -> {"AwaitingApproval"}
      [] OTHER -> OutstandingStatuses

(* Who may move the row, asked of it as read. *)
IsPartyTo(r) ==
    LET c == call[r] IN
    \/ c.op \in {"accept", "decline"} /\ ReachesAsInvitee(c.actor, c.inv)
    \/ c.op = "withdraw" /\ c.actor = Terms[c.inv].from
    \/ c.op = "revoke" /\ MayRevoke(c.actor, c.inv)
    \/ c.op = "approve" /\ MayApprove(c.actor)

MayMove(r) ==
    /\ IsPartyTo(r)
    /\ ~ (Outstanding(call[r].inv) /\ invites[call[r].inv].overdue)
    /\ invites[call[r].inv].status \in StartsFrom(r)

GoalOf(r) ==
    CASE call[r].op = "accept" -> goal[r]
      [] call[r].op = "decline" -> "Declined"
      [] call[r].op = "withdraw" -> "Withdrawn"
      [] call[r].op = "revoke" -> "Revoked"
      [] call[r].op = "approve" -> "Pending"

(* transitionWithin: the row is read, and refused here if it cannot move. *)
ReadInvite(r) ==
    /\ pc[r] = "read"
    /\ MayMove(r)
    /\ seen' = [seen EXCEPT ![r] = invites[call[r].inv].status]
    /\ goal' = [goal EXCEPT ![r] = GoalOf(r)]
    /\ todo' = [todo EXCEPT ![r] = {call[r].inv}]
    /\ Goto(r, "write")
    /\ UNCHANGED <<absVars, inviteVars, veil, kept, held, marked, drained, call,
                   hlock, news, due>>

-----------------------------------------------------------------------------
(* Statements that update: rows are located in the statement's snapshot and  *)
(* then visited one by one, each waited for and its WHERE asked again.       *)

SameParty(i, j) ==
    Terms[i].to = Terms[j].to /\ Terms[i].byAddress = Terms[j].byAddress

(* The rows each operation settles beside or instead of the one it names. *)
Covers(c, i) ==
    \/ c.op = "create" /\ SameParty(i, c.inv) /\ invites[i].overdue
    \/ /\ c.op \in {"leave", "removeMember", "ban"}
       /\ \/ Terms[i].from = c.user
          \/ Terms[i].to = c.user /\ ~ Terms[i].byAddress
    \/ c.op = "delete"
    \/ c.op = "sweep" /\ invites[i].overdue

(* Withheld by a ban; released by a lift, but for those the gate withholds   *)
(* from their sender now: it is asked of what the lift's read found, and the *)
(* update restates only the guard.                                           *)
MarkApplies(c, i) ==
    /\ Outstanding(i) /\ Terms[i].byAddress /\ Terms[i].to = c.user
    /\ invites[i].withheld = (c.op = "lift")

(* OUTSTANDING_INVITE_STATUSES, in order. *)
StatusOf(stage) ==
    IF stage \in {"find1", "lock1"} THEN "AwaitingApproval" ELSE "Pending"

KeptBack(r) ==
    {i \in InviteIds : /\ pc[r] = "find3" /\ call[r].op = "lift"
                       /\ MarkApplies(call[r], i) /\ GateWithholds(i)}

Located(r) ==
    IF pc[r] = "find3"
      THEN {i \in InviteIds \ (held[r] \cup KeptBack(r)) :
                MarkApplies(call[r], i)}
      ELSE {i \in InviteIds : /\ invites[i].status = StatusOf(pc[r])
                              /\ Covers(call[r], i)}

(* A sweep takes at most Batch of them. *)
Taken(r, rows) ==
    \/ call[r].op # "sweep" /\ rows = Located(r)
    \/ /\ call[r].op = "sweep" /\ rows \subseteq Located(r)
       /\ Cardinality(rows) = IF Cardinality(Located(r)) < Batch
                                THEN Cardinality(Located(r)) ELSE Batch

LockStage(stage) ==
    CASE stage = "find1" -> "lock1"
      [] stage = "find2" -> "lock2"
      [] stage = "find3" -> "lock3"

FindRows(r) ==
    /\ pc[r] \in {"find1", "find2", "find3"}
    /\ \E rows \in SUBSET InviteIds :
           /\ Taken(r, rows)
           /\ todo' = [todo EXCEPT ![r] = rows]
           /\ drained' = [drained EXCEPT ![r] =
                 @ /\ (call[r].op = "sweep" => Cardinality(rows) < Batch)]
    /\ kept' = [kept EXCEPT ![r] = @ \cup KeptBack(r)]
    /\ Goto(r, LockStage(pc[r]))
    /\ UNCHANGED <<absVars, inviteVars, seen, goal, veil, held, marked, call,
                   hlock, news, due>>

RowFree(r, i) == \A s \in Reqs \ {r} : i \notin held[s] \cup marked[s]

(* The WHERE of the statement under way, asked of the committed row. *)
Matches(r, i) ==
    \/ pc[r] = "write" /\ invites[i].status = seen[r]
    \/ /\ pc[r] \in {"lock1", "lock2"}
       /\ invites[i].status = StatusOf(pc[r]) /\ Covers(call[r], i)
    \/ pc[r] = "lock3" /\ MarkApplies(call[r], i)

UpdateRow(r) ==
    /\ pc[r] \in {"write", "lock1", "lock2", "lock3"}
    /\ \E i \in todo[r] :
           /\ RowFree(r, i)
           /\ todo' = [todo EXCEPT ![r] = @ \ {i}]
           /\ held' = [held EXCEPT ![r] =
                 IF Matches(r, i) /\ pc[r] # "lock3" THEN @ \cup {i} ELSE @]
           /\ marked' = [marked EXCEPT ![r] =
                 IF Matches(r, i) /\ pc[r] = "lock3" THEN @ \cup {i} ELSE @]
    /\ UNCHANGED <<absVars, inviteVars, seen, goal, veil, kept, drained, pc, call,
                   hlock, news, due>>

(* mutant: a bulk settlement stops after the first status *)
StageAfterOneStatus(r) ==
    CASE pc[r] = "write" ->
             IF call[r].op = "approve" THEN "vouch"
             ELSE IF goal[r] = "Accepted" THEN "admit" ELSE "commit"
      [] OTHER -> "commit"

(* What follows a statement that has visited all its rows. *)
StageAfter(r) ==
    CASE pc[r] = "lock1" -> "find2"
      [] pc[r] = "lock2" -> IF call[r].op = "ban" THEN "find3" ELSE "commit"
      [] pc[r] = "lock3" -> "commit"
      [] pc[r] = "write" ->
             IF call[r].op = "approve" THEN "vouch"
             ELSE IF goal[r] = "Accepted" THEN "admit" ELSE "commit"

(* A guarded update that moved nothing is refused, below. *)
EndStatement(r) ==
    /\ pc[r] \in {"write", "lock1", "lock2", "lock3"}
    /\ todo[r] = {}
    /\ pc[r] = "write" => held[r] # {}
    /\ Goto(r, StageAfter(r))
    /\ UNCHANGED <<absVars, inviteVars, txVars, call, hlock, news, due>>

(* approveInvite's last question, on its own transaction. *)
Vouch(r) ==
    /\ pc[r] = "vouch"
    /\ CouldSend(Terms[call[r].inv].from, Terms[call[r].inv].role, TRUE)
    /\ Goto(r, "commit")
    /\ UNCHANGED <<absVars, inviteVars, txVars, call, hlock, news, due>>

(* addMemberWithin's questions; its insert is at the commit. *)
MayJoin(user) == user \notin banned /\ ~ IsMember(members, user)

CheckAdmission(r) ==
    /\ pc[r] = "admit"
    /\ MayJoin(call[r].actor)
    /\ Goto(r, "commit")
    /\ UNCHANGED <<absVars, inviteVars, txVars, call, hlock, news, due>>

-----------------------------------------------------------------------------
(* Commits.                                                                  *)

(* The rows as the transaction leaves them. *)
MovedRows(r, status) ==
    [i \in InviteIds |->
        IF i \in held[r] THEN
            [invites[i] EXCEPT !.status = status,
                               !.overdue = @ /\ status # "Pending"]
        ELSE IF i \in marked[r] THEN
            [invites[i] EXCEPT !.withheld = call[r].op = "ban",
                               !.gated = @ /\ call[r].op = "ban"]
        ELSE IF i \in kept[r] THEN [invites[i] EXCEPT !.gated = TRUE]
        ELSE invites[i]]

(* Every commit: locks go, and ended invites are announced afterwards.  An   *)
(* approved invite has a new window, so no run still owes it a stamp.        *)
Commit(r, ended) ==
    /\ pc[r] = "commit"
    /\ Goto(r, "announce")
    /\ news' = [news EXCEPT ![r] = ended]
    /\ due' = [s \in Reqs |->
                  IF call[r].op = "approve" THEN due[s] \ held[r] ELSE due[s]]
    /\ Release(r)
    /\ UNCHANGED <<settings, stamps, told, drained, call>>

(* The partial unique indexes over outstanding rows; a rival the create      *)
(* itself expired no longer counts.                                          *)
IndexAllows(r) ==
    \A i \in InviteIds \ held[r] :
        ~ (Outstanding(i) /\ SameParty(i, call[r].inv))

CommitCreate(r) ==
    /\ call[r].op = "create"
    /\ IndexAllows(r)
    /\ invites[call[r].inv].status = "none"
    /\ invites' = [MovedRows(r, "Expired") EXCEPT ![call[r].inv] =
                     [status |-> goal[r], overdue |-> FALSE,
                      withheld |-> call[r].inv \in kept[r] \/ veil[r],
                      needsApproval |-> goal[r] = "AwaitingApproval",
                      gated |-> call[r].inv \in kept[r]]]
    /\ Commit(r, held[r])
    /\ UNCHANGED absVars

(* decline, withdraw, revoke, approve, and an accept turned into a revoke.   *)
CommitTransition(r) ==
    /\ \/ call[r].op \in {"decline", "withdraw", "revoke", "approve"}
       \/ call[r].op = "accept" /\ goal[r] = "Revoked"
    /\ invites' = MovedRows(r, goal[r])
    /\ Commit(r, IF call[r].op = "approve" THEN {} ELSE held[r])
    /\ UNCHANGED absVars

(* The invite and the membership, in one commit. *)
CommitAccept(r) ==
    /\ call[r].op = "accept" /\ goal[r] = "Accepted"
    /\ \E row \in MemberIds : /\ UserOf[row] = call[r].actor
                              /\ Admit(row, Terms[call[r].inv].role)
    /\ invites' = MovedRows(r, "Accepted")
    /\ Commit(r, held[r])

(* mutant: a departure leaves the member's invites open *)
CommitDepartureAlone(r) ==
    LET c == call[r] IN
    /\ c.op \in {"leave", "removeMember"}
    /\ \E row \in RowsOfUser(members, c.user) :
           IF c.op = "leave" THEN Leave(row) ELSE RemoveMember(c.actor, row)
    /\ invites' = invites
    /\ Commit(r, {})

(* A roster operation, with the invites it closes, withholds or releases. *)
CommitDeparture(r) ==
    LET c == call[r] IN
    /\ c.op \in {"leave", "removeMember"}
    /\ \E row \in RowsOfUser(members, c.user) :
           IF c.op = "leave" THEN Leave(row) ELSE RemoveMember(c.actor, row)
    /\ invites' = MovedRows(r, "Revoked")
    /\ Commit(r, held[r])

CommitBan(r) ==
    /\ call[r].op = "ban"
    /\ Ban(call[r].actor, call[r].user)
    /\ invites' = MovedRows(r, "Revoked")
    /\ Commit(r, held[r])

CommitLift(r) ==
    /\ call[r].op = "lift"
    /\ Lift(call[r].actor, call[r].user)
    /\ invites' = MovedRows(r, "Revoked")
    /\ Commit(r, {})

CommitDelete(r) ==
    /\ call[r].op = "delete"
    /\ SoftDelete(call[r].actor)
    /\ invites' = MovedRows(r, "Revoked")
    /\ Commit(r, held[r])

CommitSweep(r) ==
    /\ call[r].op = "sweep"
    /\ invites' = MovedRows(r, "Expired")
    /\ Commit(r, held[r])
    /\ UNCHANGED absVars

CommitAny(r) ==
    \/ CommitCreate(r)
    \/ CommitTransition(r)
    \/ CommitAccept(r)
    \/ CommitDeparture(r)
    \/ CommitBan(r)
    \/ CommitLift(r)
    \/ CommitDelete(r)
    \/ CommitSweep(r)

(* mutant: a run stops when a batch moved fewer rows than it may *)
RunEndsByCount(r) == Cardinality(news[r]) < Batch

(* The sweep stops on a batch whose reads all came back short. *)
RunEnds(r) == drained[r]

(* InviteService.emit, after the commit; a sweep goes on to its next batch. *)
Announce(r) ==
    /\ pc[r] = "announce"
    /\ told' = [i \in InviteIds |->
                  IF i \in news[r] THEN told[i] + 1 ELSE told[i]]
    /\ news' = [news EXCEPT ![r] = {}]
    /\ drained' = [drained EXCEPT ![r] = TRUE]
    /\ IF call[r].op = "sweep" /\ ~ RunEnds(r)
         THEN Goto(r, "find1") /\ UNCHANGED <<call, due>>
         ELSE /\ Goto(r, "idle")
              /\ call' = [call EXCEPT ![r] = NoCall]
              /\ due' = [due EXCEPT ![r] = {}]
    /\ UNCHANGED <<absVars, invites, settings, stamps, hlock, seen, goal, veil,
                   kept, todo, held, marked>>

-----------------------------------------------------------------------------
(* Refusals roll the transaction back.                                       *)

(* mutant: a settled row past its date is stamped too *)
MeetsPastDate(r) ==
    /\ \/ pc[r] = "offer" /\ ReachesAsInvitee(call[r].actor, call[r].inv)
       \/ pc[r] = "read" /\ IsPartyTo(r)
       \/ pc[r] = "write" /\ todo[r] = {} /\ held[r] = {}
    /\ invites[call[r].inv].overdue

(* refuseIfExpired: the refusal that starts a detached stamp. *)
MeetsExpired(r) ==
    /\ \/ pc[r] = "offer" /\ ReachesAsInvitee(call[r].actor, call[r].inv)
       \/ pc[r] = "read" /\ IsPartyTo(r)
       \/ pc[r] = "write" /\ todo[r] = {} /\ held[r] = {}
    /\ Outstanding(call[r].inv) /\ invites[call[r].inv].overdue

RefuseExpired(r) ==
    /\ MeetsExpired(r)
    /\ stamps' = stamps \cup {<<call[r].inv, invites[call[r].inv].status>>}
    /\ Rollback(r)

NoRowLeft(user) ==
    \A row \in MemberIds : UserOf[row] = user => members[row] # "unborn"

Refused(r) ==
    LET c == call[r] IN
    \/ pc[r] = "waiting" /\ LockIsFree(r) /\ ~ live
    \/ pc[r] = "check" /\ c.op = "create" /\ ~ MayOpen(c)
    \/ pc[r] = "check" /\ c.op # "create" /\ ~ RosterAllows(c)
    \/ /\ pc[r] = "offer"
       /\ \/ ~ Acceptable(r)
          \/ ~ SenderCouldStillSend(c.inv) /\ IsMember(members, c.actor)
    \/ pc[r] = "read" /\ ~ MayMove(r)
    \/ pc[r] = "write" /\ todo[r] = {} /\ held[r] = {}
    \/ pc[r] = "vouch" /\ ~ CouldSend(Terms[c.inv].from, Terms[c.inv].role, TRUE)
    \/ pc[r] = "admit" /\ ~ MayJoin(c.actor)
    \/ /\ pc[r] = "commit" /\ c.op = "create"
       /\ ~ IndexAllows(r) \/ invites[c.inv].status # "none"
    \/ /\ pc[r] = "commit" /\ c.op = "accept" /\ goal[r] = "Accepted"
       /\ \/ ~ MayJoin(c.actor)
          \/ Cardinality(LiveRows(members)) >= Cap
          \/ NoRowLeft(c.actor)       \* the instance ran out of row ids

Refuse(r) ==
    /\ Refused(r) /\ ~ MeetsExpired(r)
    /\ UNCHANGED stamps
    /\ Rollback(r)

(* A create the server's invitee policy turns away, and a create or approve  *)
(* past the cap on the day's invites, neither of which the model follows.    *)
RefuseByLimit(r) ==
    /\ \/ pc[r] = "check" /\ call[r].op = "create"
       \/ pc[r] = "read" /\ call[r].op = "approve"
    /\ UNCHANGED stamps
    /\ Rollback(r)

(* Postgres aborts one of two transactions that wait for each other's rows. *)
WaitsFor(r, s) == \E i \in todo[r] : i \in held[s] \cup marked[s]

DeadlockVictim(r) ==
    /\ \E s \in Reqs \ {r} : WaitsFor(r, s) /\ WaitsFor(s, r)
    /\ UNCHANGED stamps
    /\ Rollback(r)

-----------------------------------------------------------------------------
(* What happens beside the requests.                                         *)

(* mutant: the stamp is bound to the row's id alone *)
StampAppliesById(i, status) == TRUE

StampApplies(i, status) ==
    invites[i].status = status /\ invites[i].overdue

(* persistExpiry, on a connection of its own: one guarded statement, whose   *)
(* failure is only logged.                                                   *)
PersistExpiry ==
    \E stamp \in stamps :
        LET i == stamp[1] IN
        /\ \A s \in Reqs : i \notin held[s] \cup marked[s]
        /\ stamps' = stamps \ {stamp}
        /\ \/ /\ StampApplies(i, stamp[2])
              /\ invites' = [invites EXCEPT ![i].status = "Expired"]
              /\ told' = [told EXCEPT ![i] = @ + 1]
           \/ UNCHANGED <<invites, told>>
        /\ UNCHANGED <<absVars, settings, txVars, pc, call, hlock, news, due>>

(* The clock passes an invite's expires_at. *)
Lapse ==
    /\ \E i \in InviteIds :
           /\ Outstanding(i) /\ ~ invites[i].overdue
           /\ invites' = [invites EXCEPT ![i].overdue = TRUE]
    /\ UNCHANGED <<absVars, settings, stamps, told, txVars, pc, call, hlock,
                   news, due>>

(* updateHousehold switches the policy; no lock orders it with an invite. *)
SetPolicy ==
    /\ \E p \in Policies \ {policy} : policy' = p
    /\ UNCHANGED <<absVars, invites, gate, stamps, told, txVars, pc, call, hlock,
                   news, due>>

(* Someone blocks, unblocks or resets whom they take invites from; no lock   *)
(* of the household orders it, and no invite moves for it.                   *)
ChangeGate ==
    /\ \E g \in Gates \ {gate} : gate' = g
    /\ UNCHANGED <<absVars, invites, policy, stamps, told, txVars, pc, call,
                   hlock, news, due>>

(* A role change or a transfer: no invite moves, but every lock is waited    *)
(* for.                                                                      *)
ChangeRoles ==
    /\ "changeRoles" \in Ops
    /\ \A s \in Reqs : hlock[s] = "none"
    /\ \/ \E actor \in Users, row \in MemberIds, role \in AssignableRoles :
              UpdateMemberRole(actor, row, role)
       \/ \E own, row \in MemberIds : TransferOwnership(own, row)
    /\ UNCHANGED <<inviteVars, txVars, pc, call, hlock, news, due>>

RestoreHousehold ==
    /\ \A s \in Reqs : hlock[s] = "none"
    /\ Restore
    /\ UNCHANGED <<inviteVars, txVars, pc, call, hlock, news, due>>

Proceed(r) ==
    \/ CheckCreate(r)
    \/ CheckRoster(r)
    \/ ReadOffer(r)
    \/ ReadInvite(r)
    \/ FindRows(r)
    \/ EndStatement(r)
    \/ Vouch(r)
    \/ CheckAdmission(r)
    \/ CommitAny(r)
    \/ Announce(r)
    \/ RefuseExpired(r)
    \/ Refuse(r)
    \/ RefuseByLimit(r)
    \/ DeadlockVictim(r)

Next ==
    \/ \E r \in Reqs : \/ Begin(r)
                       \/ BeginSweep(r)
                       \/ LockHousehold(r)
                       \/ UpdateRow(r)
                       \/ Proceed(r)
    \/ PersistExpiry
    \/ Lapse
    \/ SetPolicy
    \/ ChangeGate
    \/ ChangeRoles
    \/ RestoreHousehold

Spec == Init /\ [][Next]_vars

(* Requests run on, the interval keeps firing, and a lock that is free again *)
(* and again is granted: Postgres queues the waiters of a row.               *)
Fairness ==
    \A r \in Reqs : /\ WF_vars(Proceed(r))
                    /\ WF_vars(BeginSweep(r))
                    /\ SF_vars(LockHousehold(r))
                    /\ SF_vars(UpdateRow(r))

FairSpec == Spec /\ Fairness

-----------------------------------------------------------------------------
(* Properties.                                                               *)

(* Every row, lock and message is of its kind; a transition starts from an   *)
(* outstanding status only.                                                  *)
TypeOK ==
    /\ live \in BOOLEAN /\ members \in Rosters
    /\ banned \subseteq Users /\ grants \subseteq Users
    /\ invites \in [InviteIds -> Row]
    /\ policy \in Policies /\ gate \in Gates
    /\ stamps \subseteq InviteIds \X OutstandingStatuses
    /\ told \in [InviteIds -> Nat]
    /\ pc \in [Reqs -> Stages] /\ call \in [Reqs -> Calls]
    /\ hlock \in [Reqs -> {"none", "share", "exclusive"}]
    /\ seen \in [Reqs -> OutstandingStatuses \cup {"none"}]
    /\ goal \in [Reqs -> OutstandingStatuses \cup SettledStatuses \cup {"none"}]
    /\ veil \in [Reqs -> BOOLEAN] /\ drained \in [Reqs -> BOOLEAN]
    /\ todo \in [Reqs -> SUBSET InviteIds] /\ held \in [Reqs -> SUBSET InviteIds]
    /\ marked \in [Reqs -> SUBSET InviteIds] /\ news \in [Reqs -> SUBSET InviteIds]
    /\ due \in [Reqs -> SUBSET InviteIds] /\ kept \in [Reqs -> SUBSET InviteIds]

(* The end of an invite is announced once, by the transaction that ended it  *)
(* and by no rival that found it ended: a settled invite is neither reopened *)
(* nor settled again.                                                        *)
AnnouncedOnce ==
    \A i \in InviteIds :
        told[i] + Cardinality({r \in Reqs : i \in news[r]}) =
            IF Settled(i) THEN 1 ELSE 0

(* A soft delete leaves no invite open behind it, including one approved or  *)
(* created while the delete was closing them.                                *)
NoInviteIntoDeleted == ~ live => \A i \in InviteIds : ~ Outstanding(i)

(* Everyone with an outstanding invite out is a member, or a server owner,   *)
(* who needs no seat to invite: leaving, removal and a ban close what the    *)
(* member sent, in the transaction that takes the row.                       *)
SendersAreMembers ==
    \A i \in InviteIds : Outstanding(i) =>
        IsMember(members, Terms[i].from) \/ Terms[i].from \in ServerOwners

(* An open invite to an address is withheld while its holder is banned or    *)
(* the gate withheld it when last asked, at its create or at a lift, and at  *)
(* no other time, however creates, bans, lifts, blocks and preferences       *)
(* interleave; no invite by id is withheld, or open to a banned user.        *)
WithheldWhileBanned ==
    \A i \in InviteIds : Outstanding(i) =>
        IF Terms[i].byAddress
          THEN invites[i].withheld = (Terms[i].to \in banned \/ invites[i].gated)
          ELSE ~ invites[i].withheld /\ Terms[i].to \notin banned

Joins(row) == members[row] = "unborn" /\ members'[row] \in RoleNames

AcceptedNow(i) == invites[i].status # "Accepted" /\ invites'[i].status = "Accepted"

(* The sender of i may still offer its role. *)
SenderStands(i) ==
    \/ Terms[i].from \in ServerOwners
    \/ HoldsOneOf(members, Terms[i].from, {"HouseholdOwner"})
    \/ /\ Terms[i].role \in {"HouseholdMember", "HouseholdGuest"}
       /\ HoldsOneOf(members, Terms[i].from, RoleNames \ {"HouseholdGuest"})

(* Nobody joins on an invite whose sender has since lost the standing to     *)
(* offer its role, by a demotion or by handing the household over, however   *)
(* the role change and the accept interleave; and an invite is accepted      *)
(* exactly when somebody joins with the role it offers.                      *)
OnlyStandingInvitesAdmit ==
    [][/\ \A i \in InviteIds : AcceptedNow(i) =>
              /\ SenderStands(i)
              /\ \E row \in MemberIds : Joins(row) /\ members'[row] = Terms[i].role
       /\ \A row \in MemberIds : Joins(row) =>
              \E i \in InviteIds : AcceptedNow(i)]_vars

(* A run of the sweep that ends of itself leaves nothing open that was       *)
(* overdue when it began, though rivals settle rows of its batches and       *)
(* approvals move rows between its two reads.                                *)
SweepDrains ==
    [][\A r \in Sweepers : pc[r] = "announce" /\ pc'[r] = "idle" =>
           \A i \in due[r] : ~ Outstanding(i)]_vars

(* An overdue invite is settled in the end, or approved into a new window.   *)
OverdueSettles ==
    \A i \in InviteIds : i \in Overdue ~> i \notin Overdue

=============================================================================
