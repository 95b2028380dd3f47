--------------------------- MODULE HouseholdRoster ---------------------------
(***************************************************************************)
(* One household's roster under concurrent requests, at the granularity of  *)
(* the statements Postgres runs at READ COMMITTED.                          *)
(*                                                                          *)
(* A request reads what it needs before its transaction takes the household *)
(* row's lock, waits for the lock, reads again under it, decides, writes    *)
(* and commits; after the commit it evicts the cached ability graphs of the *)
(* users it touched.  Statements of different requests interleave           *)
(* freely.  A transaction's writes become visible at its commit, so the     *)
(* writes and the commit are one step.                                      *)
(*                                                                          *)
(* Sources, under libs/api/household/src/lib: member/household-member.      *)
(* service.ts, ban/household-ban.service.ts, household.service.ts and       *)
(* household-access.helpers.ts.                                             *)
(***************************************************************************)
EXTENDS HouseholdRules

CONSTANTS
    Reqs,           \* the requests in flight at one time
    Ops,            \* the operations this instance exercises
    OfferedRoles,   \* the assignable roles its requests name
    Crashing        \* whether a request's process may die

OpNames == {"updateMemberRole", "transferOwnership", "removeMember", "leave",
            "admit", "ban", "lift", "delete", "restore"}

ASSUME RosterAssumption ==
    /\ Ops # {} /\ Ops \subseteq OpNames
    /\ OfferedRoles # {} /\ OfferedRoles \subseteq AssignableRoles
    /\ Crashing \in BOOLEAN

VARIABLES
    live, members, banned, grants,  \* as in HouseholdSpec
    stale,      \* users whose cached ability graph predates their standing
    lost,       \* users whose eviction died with the process that owed it
    pc,         \* where each request stands
    call,       \* what each request asks: operation, actor, row, role
    hlock,      \* each transaction's lock on the household row
    rolelock,   \* household_roles rows each transaction holds FOR UPDATE
    quotalock,  \* holders of the member cap's advisory lock
    seen,       \* the owner rows each transaction has read
    evict       \* the evictions each committed request still owes

dbVars == <<live, members, banned, grants>>
cacheVars == <<stale, lost>>
lockVars == <<hlock, rolelock, quotalock>>
reqVars == <<pc, call, seen, evict>>
vars == <<live, members, banned, grants, stale, lost, pc, call,
          hlock, rolelock, quotalock, seen, evict>>

Stages == {"idle", "waiting", "locked", "owners", "decide", "quota",
           "counting", "writing", "committed"}

Calls == [op : Ops, actor : Users, row : MemberIds, role : OfferedRoles]

(* What an idle request's slot holds; nothing reads it. *)
NoCall == CHOOSE c \in Calls : TRUE

Init ==
    /\ live = TRUE
    /\ members = Initial
    /\ banned = {}
    /\ grants = {}
    /\ stale = {}
    /\ lost = {}
    /\ pc = [r \in Reqs |-> "idle"]
    /\ call = [r \in Reqs |-> NoCall]
    /\ hlock = [r \in Reqs |-> "none"]
    /\ rolelock = [r \in Reqs |-> {}]
    /\ quotalock = {}
    /\ seen = [r \in Reqs |-> {}]
    /\ evict = [r \in Reqs |-> {}]

-----------------------------------------------------------------------------
(* What a request reads before its transaction locks the household: the      *)
(* existence probe and the scoped read, whose refusals change nothing.  For  *)
(* the delete and the restore it is the snapshot their UPDATE evaluates its  *)
(* conditions in.                                                            *)

(* A request whose ability graph was loaded earlier carries at most the      *)
(* rules its roles render, and each rule asks the roster again; the graph    *)
(* itself can only refuse more than these guards do.                         *)
BeforeLock(c) ==
    LET user == UserOf[c.row] IN
    \/ /\ c.op = "updateMemberRole"
       /\ live /\ c.row \in LiveRows(members)
       /\ user # c.actor
       /\ MayManage(members, c.actor, members[c.row])
    \/ /\ c.op = "transferOwnership"
       /\ live /\ IsMember(members, c.actor)
       /\ members[c.row] # "unborn"     \* nobody can name an id not yet made
    \/ /\ c.op = "removeMember"
       /\ live /\ c.row \in LiveRows(members)
       /\ MayManage(members, c.actor, members[c.row])
    \/ /\ c.op = "leave"
       /\ live /\ c.row \in RowsOfUser(members, c.actor)
    \/ /\ c.op = "admit"
       /\ live /\ user = c.actor
       /\ members[c.row] = "unborn"
    \/ /\ c.op = "ban"
       /\ live /\ user # c.actor
       /\ MayBan(members, c.actor)
    \/ /\ c.op = "lift"
       /\ live /\ MayBan(members, c.actor)
    \/ /\ c.op = "delete"
       /\ live /\ MayDelete(members, c.actor)
    \/ /\ c.op = "restore"
       /\ ~ live /\ (c.actor \in Staff \/ c.actor \in grants)

(* Parameters an operation does not have are pinned to one value. *)
Canonical(c) ==
    /\ c.op \notin {"updateMemberRole", "admit"} =>
           c.role = CHOOSE role \in OfferedRoles : TRUE
    /\ c.op \in {"delete", "restore"} => c.row = CHOOSE i \in MemberIds : TRUE
    /\ c.op \in {"ban", "lift"} =>
           c.row = CHOOSE i \in MemberIds : UserOf[i] = UserOf[c.row]

Begin(r) ==
    /\ pc[r] = "idle"
    /\ \E c \in Calls :
           /\ Canonical(c) /\ BeforeLock(c)
           /\ call' = [call EXCEPT ![r] = c]
    /\ pc' = [pc EXCEPT ![r] = "waiting"]
    /\ UNCHANGED <<dbVars, cacheVars, lockVars, seen, evict>>

-----------------------------------------------------------------------------
(* mutant: the advisory lock is taken for the session, not the transaction *)
ReleaseAllButQuota(r) ==
    /\ hlock' = [hlock EXCEPT ![r] = "none"]
    /\ rolelock' = [rolelock EXCEPT ![r] = {}]
    /\ seen' = [seen EXCEPT ![r] = {}]
    /\ UNCHANGED quotalock

(* Leaving a transaction, by commit or by rollback, frees what it holds. *)
Release(r) ==
    /\ hlock' = [hlock EXCEPT ![r] = "none"]
    /\ rolelock' = [rolelock EXCEPT ![r] = {}]
    /\ quotalock' = quotalock \ {r}
    /\ seen' = [seen EXCEPT ![r] = {}]

End(r) ==
    /\ pc' = [pc EXCEPT ![r] = "idle"]
    /\ call' = [call EXCEPT ![r] = NoCall]

(* An admission takes the household row FOR SHARE, everything else takes it  *)
(* FOR NO KEY UPDATE or writes it.                                           *)
LockMode(r) == IF call[r].op = "admit" THEN "share" ELSE "exclusive"

(* mutant: the household row is not locked for role transitions *)
NoHouseholdLock(r) == TRUE

LockIsFree(r) ==
    \A s \in Reqs \ {r} :
        /\ hlock[s] # "exclusive"
        /\ LockMode(r) = "exclusive" => hlock[s] = "none"

(* mutant: the lock statement does not ask for deleted_at *)
NoLivenessCheck(r) == TRUE

(* The row is checked again once the wait is over (EvalPlanQual): deleted_at *)
(* is on the locked row itself, so this check is never stale.                *)
StillApplies(r) == live <=> call[r].op # "restore"

LockHousehold(r) ==
    /\ pc[r] = "waiting"
    /\ LockIsFree(r)
    /\ StillApplies(r)
    /\ hlock' = [hlock EXCEPT ![r] = LockMode(r)]
    /\ pc' = [pc EXCEPT ![r] = "locked"]
    /\ UNCHANGED <<dbVars, cacheVars, rolelock, quotalock, call, seen, evict>>

(* What is decided from the roster read under the lock, before a member is   *)
(* removed.  A ban asks all of this first, the others ask nothing yet.       *)
MayStart(r) ==
    LET c == call[r]
        user == UserOf[c.row]
    IN  c.op = "ban" =>
            /\ MayBan(members, c.actor)
            /\ user \notin banned
            /\ \A i \in RowsOfUser(members, user) :
                   MayManage(members, c.actor, members[i])

ActsOnOwners(r) ==
    \/ call[r].op \in {"transferOwnership", "removeMember", "leave"}
    \/ call[r].op = "ban" /\ IsMember(members, UserOf[call[r].row])

(* SELECT ... FOR UPDATE OF hr starts: its snapshot locates the owner rows.  *)
LocateOwners(r) ==
    /\ pc[r] = "locked"
    /\ ActsOnOwners(r) /\ MayStart(r)
    /\ seen' = [seen EXCEPT ![r] = Owners(members)]
    /\ pc' = [pc EXCEPT ![r] = "owners"]
    /\ UNCHANGED <<dbVars, cacheVars, lockVars, call, evict>>

RoleRowsFree(r, rows) == \A s \in Reqs \ {r} : rolelock[s] \cap rows = {}

(* It locks the rows it located, waiting for each; a row that is no longer   *)
(* an owner's drops out, and a row that became one since is never added.     *)
LockOwnerRows(r) ==
    /\ pc[r] = "owners"
    /\ RoleRowsFree(r, seen[r])
    /\ seen' = [seen EXCEPT ![r] = @ \cap Owners(members)]
    /\ rolelock' = [rolelock EXCEPT ![r] = seen[r] \cap Owners(members)]
    /\ pc' = [pc EXCEPT ![r] = "decide"]
    /\ UNCHANGED <<dbVars, cacheVars, hlock, quotalock, call, evict>>

-----------------------------------------------------------------------------
(* What each operation decides under the lock, from a read of the roster     *)
(* and, where it locked them, of the owner rows.                             *)

(* mutant: the role change trusts the member it read before the lock *)
MayUpdateRoleUnlocked(r) == call[r].row \in LiveRows(members)

MayUpdateRole(r) ==
    LET c == call[r] IN
    /\ c.row \in LiveRows(members)
    /\ c.row \notin Owners(members)
    /\ MayManage(members, c.actor, members[c.row])
    /\ MayManage(members, c.actor, c.role)

ActorRows(r) == RowsOfUser(members, call[r].actor)

MayTransfer(r) ==
    LET c == call[r] IN
    /\ \E own \in ActorRows(r) :
           MayManage(members, c.actor, members[own]) /\ own \in seen[r]
    /\ c.row \in LiveRows(members)
    /\ MayManage(members, c.actor, members[c.row])
    /\ UserOf[c.row] # c.actor
    /\ c.row \notin seen[r]

(* The rows a departure deletes: the one it named, or for a ban the target's. *)
Departing(r) ==
    IF call[r].op = "ban" THEN RowsOfUser(members, UserOf[call[r].row])
                          ELSE {call[r].row}

NotLastOwner(r) ==
    ~ (Departing(r) \cap seen[r] # {} /\ Cardinality(seen[r]) <= 1)

MayDepart(r) ==
    LET c == call[r] IN
    /\ Departing(r) \subseteq LiveRows(members)
    /\ c.op # "leave" =>
           \A i \in Departing(r) : MayManage(members, c.actor, members[i])
    /\ NotLastOwner(r)

MayLift(r) ==
    /\ MayBan(members, call[r].actor)
    /\ UserOf[call[r].row] \in banned

Allowed(r) ==
    \/ call[r].op = "updateMemberRole" /\ MayUpdateRole(r)
    \/ call[r].op = "transferOwnership" /\ MayTransfer(r)
    \/ call[r].op \in {"removeMember", "leave", "ban"} /\ MayDepart(r)
    \/ call[r].op = "lift" /\ MayLift(r)
    \/ call[r].op \in {"delete", "restore"}

(* The stage an operation decides at. *)
Deciding(r) ==
    \/ pc[r] = "decide"
    \/ pc[r] = "locked" /\ call[r].op # "admit" /\ ~ ActsOnOwners(r) /\ MayStart(r)

(* The delete reads the roster here, after its UPDATE holds the row. *)
Decide(r) ==
    /\ Deciding(r)
    /\ Allowed(r)
    /\ seen' = IF call[r].op = "delete"
                 THEN [seen EXCEPT ![r] = Owners(members)] ELSE seen
    /\ pc' = [pc EXCEPT ![r] = "writing"]
    /\ UNCHANGED <<dbVars, cacheVars, lockVars, call, evict>>

(* mutant: an admission does not ask for a ban *)
MayJoinBanned(r) == ~ IsMember(members, call[r].actor)

(* An admission: neither banned nor a member, then one place under the cap,  *)
(* counted while holding the cap's advisory lock.                            *)
MayJoin(r) ==
    /\ call[r].actor \notin banned
    /\ ~ IsMember(members, call[r].actor)

AskQuota(r) ==
    /\ pc[r] = "locked" /\ call[r].op = "admit"
    /\ MayJoin(r)
    /\ pc' = [pc EXCEPT ![r] = "quota"]
    /\ UNCHANGED <<dbVars, cacheVars, lockVars, call, seen, evict>>

(* mutant: the member count is read without the advisory lock *)
CountUnlocked(r) ==
    /\ pc[r] = "quota"
    /\ pc' = [pc EXCEPT ![r] = "counting"]
    /\ UNCHANGED <<dbVars, cacheVars, lockVars, call, seen, evict>>

LockQuota(r) ==
    /\ pc[r] = "quota"
    /\ quotalock = {}
    /\ quotalock' = {r}
    /\ pc' = [pc EXCEPT ![r] = "counting"]
    /\ UNCHANGED <<dbVars, cacheVars, hlock, rolelock, call, seen, evict>>

UnderCap == Cardinality(LiveRows(members)) + 1 <= Cap

CountMembers(r) ==
    /\ pc[r] = "counting"
    /\ UnderCap
    /\ pc' = [pc EXCEPT ![r] = "writing"]
    /\ UNCHANGED <<dbVars, cacheVars, lockVars, call, seen, evict>>

-----------------------------------------------------------------------------
(* The writes, each with its commit.                                         *)

(* What a user's ability graph is rendered from: their roles in a live       *)
(* household, and their recovery grant.                                      *)
Standing(isLive, roster, granted, user) ==
    <<IF isLive THEN {roster[i] : i \in RowsOfUser(roster, user)} ELSE {},
      user \in granted>>

Commit(r, owed) ==
    /\ pc[r] = "writing"
    /\ pc' = [pc EXCEPT ![r] = "committed"]
    /\ evict' = [evict EXCEPT ![r] = owed]
    /\ stale' = stale \cup
           {u \in Users : Standing(live, members, grants, u)
                            # Standing(live', members', grants', u)}
    /\ Release(r)
    /\ UNCHANGED <<lost, call>>

UpdateMemberRole(r) ==
    LET c == call[r] IN
    /\ c.op = "updateMemberRole"
    /\ RoleRowsFree(r, {c.row})
    /\ members' = [members EXCEPT ![c.row] = c.role]
    /\ UNCHANGED <<live, banned, grants>>
    /\ Commit(r, {UserOf[c.row]})

TransferOwnership(r) ==
    LET c == call[r] IN
    /\ c.op = "transferOwnership"
    /\ RoleRowsFree(r, {c.row} \cup ActorRows(r))
    /\ members' = [i \in MemberIds |->
                      IF i = c.row THEN "HouseholdOwner"
                      ELSE IF i \in ActorRows(r) THEN "HouseholdAdmin"
                      ELSE members[i]]
    /\ UNCHANGED <<live, banned, grants>>
    /\ Commit(r, {c.actor, UserOf[c.row]})

Gone(rows) ==
    [i \in MemberIds |-> IF i \in rows THEN "gone" ELSE members[i]]

(* mutant: evicts by the membership's id instead of its user's *)
DeleteEvictsRows(r) ==
    /\ call[r].op \in {"removeMember", "leave"}
    /\ RoleRowsFree(r, Departing(r))
    /\ members' = Gone(Departing(r))
    /\ UNCHANGED <<live, banned, grants>>
    /\ Commit(r, Departing(r))

DeleteMembership(r) ==
    /\ call[r].op \in {"removeMember", "leave"}
    /\ RoleRowsFree(r, Departing(r))
    /\ members' = Gone(Departing(r))
    /\ UNCHANGED <<live, banned, grants>>
    /\ Commit(r, UsersOf(Departing(r)))

BanUser(r) ==
    /\ call[r].op = "ban"
    /\ RoleRowsFree(r, Departing(r))
    /\ members' = Gone(Departing(r))
    /\ banned' = banned \cup {UserOf[call[r].row]}
    /\ UNCHANGED <<live, grants>>
    /\ Commit(r, UsersOf(Departing(r)))

LiftBan(r) ==
    /\ call[r].op = "lift"
    /\ banned' = banned \ {UserOf[call[r].row]}
    /\ UNCHANGED <<live, members, grants>>
    /\ Commit(r, {})

(* The unique index on (household_id, user_id): of two inserts for one user  *)
(* the second fails, and its transaction with it.                            *)
UniqueIndexAllows(user) == ~ IsMember(members, user)

AdmitMember(r) ==
    /\ call[r].op = "admit"
    /\ UniqueIndexAllows(call[r].actor)
    /\ \E i \in MemberIds :
           /\ UserOf[i] = call[r].actor /\ members[i] = "unborn"
           /\ members' = [members EXCEPT ![i] = call[r].role]
    /\ UNCHANGED <<live, banned, grants>>
    /\ Commit(r, {call[r].actor})

(* grantRecovery: only when the deleter is among the owners read under the   *)
(* lock, and then to every one of them.                                      *)
DeleteHousehold(r) ==
    /\ call[r].op = "delete"
    /\ live' = FALSE
    /\ grants' = IF call[r].actor \in UsersOf(seen[r])
                   THEN grants \cup UsersOf(seen[r]) ELSE grants
    /\ UNCHANGED <<members, banned>>
    /\ Commit(r, UsersOf(LiveRows(members)))

(* mutant: the recovery grants outlive the restore *)
RestoreKeepsGrants(r) ==
    /\ call[r].op = "restore"
    /\ live' = TRUE
    /\ UNCHANGED <<members, banned, grants>>
    /\ Commit(r, UsersOf(LiveRows(members)))

(* mutant: only the restorer is evicted *)
RestoreEvictsActor(r) ==
    /\ call[r].op = "restore"
    /\ live' = TRUE
    /\ grants' = {}
    /\ UNCHANGED <<members, banned>>
    /\ Commit(r, {call[r].actor})

RestoreHousehold(r) ==
    /\ call[r].op = "restore"
    /\ live' = TRUE
    /\ grants' = {}
    /\ UNCHANGED <<members, banned>>
    /\ Commit(r, UsersOf(LiveRows(members)))

Write(r) ==
    \/ UpdateMemberRole(r)
    \/ TransferOwnership(r)
    \/ DeleteMembership(r)
    \/ BanUser(r)
    \/ LiftBan(r)
    \/ AdmitMember(r)
    \/ DeleteHousehold(r)
    \/ RestoreHousehold(r)

-----------------------------------------------------------------------------
(* A refusal, at whichever statement it comes, rolls the transaction back.   *)
Refused(r) ==
    \/ pc[r] = "waiting" /\ LockIsFree(r) /\ ~ StillApplies(r)
    \/ pc[r] = "locked" /\ ~ MayStart(r)
    \/ pc[r] = "locked" /\ call[r].op = "admit" /\ ~ MayJoin(r)
    \/ Deciding(r) /\ ~ Allowed(r)
    \/ pc[r] = "counting" /\ ~ UnderCap
    \/ /\ pc[r] = "writing" /\ call[r].op = "admit"
       /\ \/ ~ UniqueIndexAllows(call[r].actor)
          \/ \A i \in MemberIds :     \* the instance ran out of row ids
                 UserOf[i] = call[r].actor => members[i] # "unborn"

Refuse(r) ==
    /\ Refused(r)
    /\ End(r)
    /\ Release(r)
    /\ UNCHANGED <<dbVars, cacheVars, evict>>

(* PermissionsService.invalidateUser(s), after the commit. *)
Evict(r) ==
    /\ pc[r] = "committed"
    /\ stale' = stale \ evict[r]
    /\ lost' = lost \ evict[r]
    /\ evict' = [evict EXCEPT ![r] = {}]
    /\ End(r)
    /\ UNCHANGED <<dbVars, lockVars, seen>>

(* The process dies: its transaction rolls back, or, once committed, its     *)
(* evictions are never sent.                                                 *)
Crash(r) ==
    /\ Crashing
    /\ pc[r] # "idle"
    /\ End(r)
    /\ Release(r)
    /\ lost' = lost \cup evict[r]
    /\ evict' = [evict EXCEPT ![r] = {}]
    /\ UNCHANGED <<dbVars, stale>>

(* The store's time to live drops a cached graph nobody evicted. *)
ExpireGraph(u) ==
    /\ u \in lost
    /\ stale' = stale \ {u}
    /\ lost' = lost \ {u}
    /\ UNCHANGED <<dbVars, lockVars, reqVars>>

(* What a request in flight does next, without a choice of its own. *)
Proceed(r) ==
    \/ LocateOwners(r)
    \/ LockOwnerRows(r)
    \/ Decide(r)
    \/ AskQuota(r)
    \/ CountMembers(r)
    \/ Write(r)
    \/ Refuse(r)
    \/ Evict(r)

Next ==
    \/ \E r \in Reqs : \/ Begin(r)
                       \/ LockHousehold(r)
                       \/ LockQuota(r)
                       \/ Proceed(r)
                       \/ Crash(r)
    \/ \E u \in Users : ExpireGraph(u)

Spec == Init /\ [][Next]_vars

(* The wait for the household row ends: the row is the request's, or no      *)
(* longer what it asked for.                                                 *)
HouseholdRowComes(r) == LockHousehold(r) \/ (pc[r] = "waiting" /\ Refuse(r))

(* Node runs a request to its end once started, and a lock that is free      *)
(* again and again is granted: Postgres queues the waiters of one row and of *)
(* one advisory key in the order they came.                                  *)
Fairness ==
    \A r \in Reqs : /\ WF_vars(Proceed(r))
                    /\ SF_vars(HouseholdRowComes(r))
                    /\ SF_vars(LockQuota(r))

FairSpec == Spec /\ Fairness

-----------------------------------------------------------------------------
(* Rows hold roles of the catalog, locks are held in one of their modes and  *)
(* evictions name users, at every statement of every request.                *)
TypeOK ==
    /\ live \in BOOLEAN
    /\ members \in Rosters
    /\ banned \in SUBSET Users
    /\ grants \in SUBSET Users
    /\ stale \in SUBSET Users
    /\ lost \in SUBSET Users
    /\ pc \in [Reqs -> Stages]
    /\ call \in [Reqs -> Calls]
    /\ hlock \in [Reqs -> {"none", "share", "exclusive"}]
    /\ rolelock \in [Reqs -> SUBSET MemberIds]
    /\ quotalock \in SUBSET Reqs
    /\ seen \in [Reqs -> SUBSET MemberIds]
    /\ evict \in [Reqs -> SUBSET Users]

(* However role changes, transfers, departures and bans interleave, somebody *)
(* owns the household: the guard of deleteMembershipWithin (#239, #248).     *)
OwnerKept == Owners(members) # {}

(* The owner rows a transaction read and locked are exactly the owners when  *)
(* it acts on them: the household lock, taken first, is what makes the       *)
(* re-checked set of lockHouseholdOwnerRows complete.                        *)
LockedOwnersCurrent ==
    \A r \in Reqs : rolelock[r] # {} => rolelock[r] = Owners(members)

(* A user never has two memberships, whoever admits them at the same time.   *)
NoDuplicateMember == OneRowPerUser(members)

(* The hard cap of household_member_count is never passed by concurrent      *)
(* admissions (addMemberWithin consumes under the advisory lock); a          *)
(* household that starts past its cap only never grows.                      *)
CapHeld ==
    \/ Cardinality(LiveRows(members)) <= Cap
    \/ Cardinality(LiveRows(members)) <= Cardinality(LiveRows(Initial))

(* No admission outlives a ban: nobody is a member and banned (#782).        *)
BannedAreOut == UsersOf(LiveRows(members)) \cap banned = {}

(* Recovery grants exist only between an owner's delete and the next         *)
(* restore, and only its owners hold them (#175).                            *)
RecoveryGrantsFit ==
    /\ live => grants = {}
    /\ grants \subseteq UsersOf(Owners(members))

(* Every user whose standing a commit changed is evicted by the request that *)
(* committed, unless its process died in between.                            *)
EveryChangeEvicts ==
    stale \subseteq lost \cup UNION {evict[r] : r \in Reqs}

(* What the household row's lock buys, request by request: a transaction     *)
(* holds the lock from its grant to its end, and what it read and decided    *)
(* under the lock is still true when it writes.                              *)
Inside(r) ==
    pc[r] \in {"locked", "owners", "decide", "quota", "counting", "writing"}

LocksExclude ==
    \A r, s \in Reqs : (r # s /\ hlock[r] = "exclusive") => hlock[s] = "none"

LockSpansTransaction(r) ==
    hlock[r] = IF Inside(r) THEN LockMode(r) ELSE "none"

ReadsStayTrue(r) ==
    /\ pc[r] \in {"owners", "decide"} =>
           /\ ActsOnOwners(r)
           /\ seen[r] = Owners(members)
    /\ pc[r] \in {"owners", "decide", "writing"} => MayStart(r)
    /\ pc[r] \in {"quota", "counting"} => call[r].op = "admit"
    /\ pc[r] \in {"quota", "counting", "writing"} /\ call[r].op = "admit" =>
           call[r].actor \notin banned
    /\ pc[r] = "writing" /\ call[r].op # "admit" =>
           /\ Allowed(r)
           /\ ActsOnOwners(r) => seen[r] = Owners(members)
    /\ rolelock[r] # {} =>
           /\ pc[r] \in {"decide", "writing"}
           /\ call[r].op # "admit"
           /\ rolelock[r] = Owners(members)

(* The strengthening of OwnerKept that every step preserves. *)
RosterInv ==
    /\ TypeOK
    /\ LocksExclude
    /\ \A r \in Reqs : LockSpansTransaction(r) /\ ReadsStayTrue(r)
    /\ NoDuplicateMember
    /\ OwnerKept
    /\ BannedAreOut

Commits(r) == pc[r] = "writing" /\ pc'[r] = "committed"

(* Whoever changes a roster still holds the authority for it at the moment   *)
(* the change takes effect, whatever changed while the request waited (#168). *)
AuthorityHolds ==
    [][\A r \in Reqs : Commits(r) =>
          LET c == call[r] IN
          /\ c.op = "updateMemberRole" =>
                 /\ MayManage(members, c.actor, members[c.row])
                 /\ MayManage(members, c.actor, c.role)
          /\ c.op = "transferOwnership" =>
                 HoldsOneOf(members, c.actor, {"HouseholdOwner"})
          /\ c.op = "removeMember" => MayManage(members, c.actor, members[c.row])
          /\ c.op \in {"ban", "lift"} => MayBan(members, c.actor)]_vars

(* Nobody becomes an owner except by a transfer, which takes the role from   *)
(* another: the household never gains owners.                                *)
OwnersNeverGrow ==
    [][Cardinality(Owners(members')) <= Cardinality(Owners(members))]_vars

(* Every request ends: no two requests wait on each other's locks.           *)
EveryRequestEnds ==
    \A r \in Reqs : (pc[r] # "idle") ~> (pc[r] = "idle")

(* A household deleted by anyone but staff can be restored by its owners     *)
(* (household.service.ts: only a staff delete, or one with no user behind    *)
(* it, opens no window).                                                     *)
OwnersCanUndo ==
    [][\A r \in Reqs :
          (Commits(r) /\ call[r].op = "delete" /\ call[r].actor \notin Staff)
              => UsersOf(Owners(members)) \subseteq grants']_vars

(* The household as its callers see it. *)
H == INSTANCE HouseholdSpec WITH live <- live, members <- members,
                                  banned <- banned, grants <- grants

(* Every operation takes effect at one instant, on the roster of that        *)
(* instant: the locks make the requests above look like HouseholdSpec's.     *)
ImplementsHousehold == H!AbsSpec

=============================================================================
