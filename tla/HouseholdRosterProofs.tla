------------------------ MODULE HouseholdRosterProofs ------------------------
(***************************************************************************)
(* The household's owner is never lost, for every set of users, rows and    *)
(* concurrent requests: RosterInv is inductive.                             *)
(***************************************************************************)
EXTENDS HouseholdRoster, FiniteSetTheorems, TLAPS

USE RulesAssumption, RosterAssumption

(* There is something to ask for: an owner's row names a user. *)
LEMMA NoCallType == NoCall \in Calls
<1>1. PICK i \in MemberIds : TRUE
  BY DEF Owners
<1>2. PICK op \in Ops, role \in OfferedRoles : TRUE
  OBVIOUS
<1>3. UserOf[i] \in Users
  BY <1>1
<1>4. [op |-> op, actor |-> UserOf[i], row |-> i, role |-> role] \in Calls
  BY <1>1, <1>2, <1>3 DEF Calls
<1> QED
  BY <1>4 DEF NoCall

(* Init has every type of TypeOK. *)
LEMMA TypeInit == Init => TypeOK
  BY NoCallType DEF Init, TypeOK, Stages

(* Leaving a transaction keeps the types of what it frees. *)
LEMMA ReleaseType ==
  ASSUME NEW r \in Reqs, TypeOK, Release(r)
  PROVE  /\ hlock' \in [Reqs -> {"none", "share", "exclusive"}]
         /\ rolelock' \in [Reqs -> SUBSET MemberIds]
         /\ quotalock' \in SUBSET Reqs
         /\ seen' \in [Reqs -> SUBSET MemberIds]
  BY DEF TypeOK, Release

(* A commit with well-typed evictions keeps every type but the data's. *)
LEMMA CommitType ==
  ASSUME NEW r \in Reqs, NEW owed \in SUBSET Users, TypeOK, Commit(r, owed),
         live' \in BOOLEAN, members' \in Rosters,
         banned' \in SUBSET Users, grants' \in SUBSET Users
  PROVE  TypeOK'
<1>1. Release(r)
  BY DEF Commit
<1>2. pc' \in [Reqs -> Stages]
  BY DEF Commit, TypeOK, Stages
<1>3. stale' \in SUBSET Users /\ lost' \in SUBSET Users
  BY DEF Commit, TypeOK
<1>4. call' \in [Reqs -> Calls] /\ evict' \in [Reqs -> SUBSET Users]
  BY DEF Commit, TypeOK
<1> QED
  BY <1>1, <1>2, <1>3, <1>4, ReleaseType DEF TypeOK

(* Membership rows belong to users. *)
LEMMA RowUsers ==
  ASSUME NEW rows \in SUBSET MemberIds
  PROVE  UsersOf(rows) \in SUBSET Users
  BY DEF UsersOf

(* What a call names. *)
LEMMA CallType ==
  ASSUME NEW r \in Reqs, TypeOK
  PROVE  /\ call[r].op \in Ops /\ call[r].actor \in Users
         /\ call[r].row \in MemberIds /\ call[r].role \in OfferedRoles
         /\ UserOf[call[r].row] \in Users
         /\ Departing(r) \in SUBSET MemberIds
         /\ call[r].role \in RoleNames
<1>1. call[r] \in Calls
  BY DEF TypeOK
<1>2. /\ call[r].op \in Ops /\ call[r].actor \in Users
      /\ call[r].row \in MemberIds /\ call[r].role \in OfferedRoles
  BY <1>1 DEF Calls
<1> QED
  BY <1>2 DEF Departing, RowsOfUser, LiveRows, RoleNames, AssignableRoles

(* Rows that go leave a roster. *)
LEMMA GoneType ==
  ASSUME NEW rows, members \in Rosters
  PROVE  Gone(rows) \in Rosters
  BY DEF Gone, Rosters

(* Each write keeps every type. *)
LEMMA WriteType ==
  ASSUME NEW r \in Reqs, TypeOK, Write(r)
  PROVE  TypeOK'
<1> DEFINE c == call[r]
<1>t. members \in Rosters /\ banned \in SUBSET Users /\ grants \in SUBSET Users
      /\ live \in BOOLEAN /\ seen[r] \in SUBSET MemberIds
  BY DEF TypeOK
<1>c. /\ c.actor \in Users /\ c.row \in MemberIds /\ UserOf[c.row] \in Users
      /\ Departing(r) \in SUBSET MemberIds /\ c.role \in RoleNames
  BY CallType
<1>l. LiveRows(members) \in SUBSET MemberIds
  BY DEF LiveRows
<1> HIDE DEF c
<1>1. CASE UpdateMemberRole(r)
  <2>1. members' \in Rosters
    BY <1>1, <1>t, <1>c DEF UpdateMemberRole, Rosters, c
  <2> QED
    BY <1>1, <1>t, <1>c, <2>1, CommitType DEF UpdateMemberRole, c
<1>2. CASE TransferOwnership(r)
  <2>1. members' \in Rosters
    BY <1>2, <1>t, <1>c DEF TransferOwnership, Rosters, RoleNames, AssignableRoles, c
  <2> QED
    BY <1>2, <1>t, <1>c, <2>1, CommitType DEF TransferOwnership, c
<1>3. CASE DeleteMembership(r)
  <2>1. members' \in Rosters
    BY <1>3, <1>t, GoneType DEF DeleteMembership
  <2>2. UsersOf(Departing(r)) \in SUBSET Users
    BY <1>c, RowUsers
  <2> QED
    BY <1>3, <1>t, <2>1, <2>2, CommitType DEF DeleteMembership
<1>4. CASE BanUser(r)
  <2>1. members' \in Rosters /\ banned' \in SUBSET Users
    BY <1>4, <1>t, <1>c, GoneType DEF BanUser, c
  <2>2. UsersOf(Departing(r)) \in SUBSET Users
    BY <1>c, RowUsers
  <2> QED
    BY <1>4, <1>t, <2>1, <2>2, CommitType DEF BanUser
<1>5. CASE LiftBan(r)
  BY <1>5, <1>t, CommitType DEF LiftBan
<1>6. CASE AdmitMember(r)
  <2>1. members' \in Rosters
    BY <1>6, <1>t, <1>c DEF AdmitMember, Rosters, c
  <2> QED
    BY <1>6, <1>t, <1>c, <2>1, CommitType DEF AdmitMember, c
<1>7. CASE DeleteHousehold(r)
  <2>1. grants' \in SUBSET Users
    BY <1>7, <1>t, RowUsers DEF DeleteHousehold
  <2>2. UsersOf(LiveRows(members)) \in SUBSET Users
    BY <1>l, RowUsers
  <2> QED
    BY <1>7, <1>t, <2>1, <2>2, CommitType DEF DeleteHousehold
<1>8. CASE RestoreHousehold(r)
  <2>2. UsersOf(LiveRows(members)) \in SUBSET Users
    BY <1>l, RowUsers
  <2> QED
    BY <1>8, <1>t, <2>2, CommitType DEF RestoreHousehold
<1> QED
  BY <1>1, <1>2, <1>3, <1>4, <1>5, <1>6, <1>7, <1>8 DEF Write

(* Every step keeps every type. *)
LEMMA TypeStep == TypeOK /\ [Next]_vars => TypeOK'
<1> SUFFICES ASSUME TypeOK, [Next]_vars PROVE TypeOK'
  OBVIOUS
<1>0. CASE UNCHANGED vars
  BY <1>0 DEF vars, TypeOK
<1>1. ASSUME NEW r \in Reqs, Begin(r) PROVE TypeOK'
  BY <1>1 DEF Begin, TypeOK, Stages, dbVars, cacheVars, lockVars
<1>2. ASSUME NEW r \in Reqs, LockHousehold(r) PROVE TypeOK'
  BY <1>2 DEF LockHousehold, LockMode, TypeOK, Stages, dbVars, cacheVars
<1>3. ASSUME NEW r \in Reqs, LockQuota(r) PROVE TypeOK'
  BY <1>3 DEF LockQuota, TypeOK, Stages, dbVars, cacheVars
<1>4. ASSUME NEW r \in Reqs, LocateOwners(r) PROVE TypeOK'
  BY <1>4 DEF LocateOwners, Owners, TypeOK, Stages, dbVars, cacheVars, lockVars
<1>5. ASSUME NEW r \in Reqs, LockOwnerRows(r) PROVE TypeOK'
  BY <1>5 DEF LockOwnerRows, Owners, TypeOK, Stages, dbVars, cacheVars
<1>6. ASSUME NEW r \in Reqs, Decide(r) PROVE TypeOK'
  BY <1>6 DEF Decide, Owners, TypeOK, Stages, dbVars, cacheVars, lockVars
<1>7. ASSUME NEW r \in Reqs, AskQuota(r) PROVE TypeOK'
  BY <1>7 DEF AskQuota, TypeOK, Stages, dbVars, cacheVars, lockVars
<1>8. ASSUME NEW r \in Reqs, CountMembers(r) PROVE TypeOK'
  BY <1>8 DEF CountMembers, TypeOK, Stages, dbVars, cacheVars, lockVars
<1>9. ASSUME NEW r \in Reqs, Refuse(r) PROVE TypeOK'
  BY <1>9, NoCallType, ReleaseType
     DEF Refuse, End, TypeOK, Stages, dbVars, cacheVars
<1>10. ASSUME NEW r \in Reqs, Evict(r) PROVE TypeOK'
  BY <1>10, NoCallType DEF Evict, End, TypeOK, Stages, dbVars, lockVars
<1>11. ASSUME NEW r \in Reqs, Crash(r) PROVE TypeOK'
  BY <1>11, NoCallType, ReleaseType DEF Crash, End, TypeOK, Stages, dbVars
<1>12. ASSUME NEW u \in Users, ExpireGraph(u) PROVE TypeOK'
  BY <1>12 DEF ExpireGraph, TypeOK, dbVars, lockVars, reqVars
<1> QED
  BY <1>0, <1>1, <1>2, <1>3, <1>4, <1>5, <1>6, <1>7, <1>8, <1>9, <1>10,
     <1>11, <1>12, WriteType DEF Next, Proceed

(* Every reachable state has its types: rows hold roles, calls name real     *)
(* operations, and only users are evicted, banned or granted.                *)
THEOREM TypeCorrect == Spec => []TypeOK
  BY TypeInit, TypeStep, PTL DEF Spec

-----------------------------------------------------------------------------
(* The inductive invariant.  Only a write changes the roster or the bans; a   *)
(* writer that is not an admission is alone inside the household lock, and an *)
(* admission shares it with admissions only, so what the others read stands.  *)

(* Initially nobody holds a lock and the roster is the founder's. *)
LEMMA InvInit == Init => RosterInv
<1> SUFFICES ASSUME Init PROVE RosterInv
  OBVIOUS
<1>1. TypeOK
  BY TypeInit
<1>2. LocksExclude
  BY DEF Init, LocksExclude
<1>3. \A r \in Reqs : LockSpansTransaction(r) /\ ReadsStayTrue(r)
  BY DEF Init, LockSpansTransaction, Inside, ReadsStayTrue
<1>4. NoDuplicateMember /\ OwnerKept /\ BannedAreOut
  BY DEF Init, NoDuplicateMember, OwnerKept, BannedAreOut
<1> QED
  BY <1>1, <1>2, <1>3, <1>4 DEF RosterInv

(* What a request read stays true as long as the roster, the bans and its    *)
(* own state do.                                                             *)
LEMMA ReadsKept ==
  ASSUME NEW s \in Reqs, ReadsStayTrue(s),
         members' = members, banned' = banned,
         pc'[s] = pc[s], call'[s] = call[s],
         seen'[s] = seen[s], rolelock'[s] = rolelock[s]
  PROVE  ReadsStayTrue(s)'
<1>1. ActsOnOwners(s)' <=> ActsOnOwners(s)
  BY DEF ActsOnOwners
<1>2. Departing(s)' = Departing(s) /\ ActorRows(s)' = ActorRows(s)
  BY DEF Departing, ActorRows
<1>3. Allowed(s)' <=> Allowed(s)
  <2>1. MayUpdateRole(s)' <=> MayUpdateRole(s)
    BY DEF MayUpdateRole
  <2>2. MayTransfer(s)' <=> MayTransfer(s)
    BY <1>2 DEF MayTransfer
  <2>3. MayDepart(s)' <=> MayDepart(s)
    BY <1>2 DEF MayDepart, NotLastOwner
  <2>4. MayLift(s)' <=> MayLift(s)
    BY DEF MayLift
  <2> QED
    BY <2>1, <2>2, <2>3, <2>4 DEF Allowed
<1>4. MayStart(s)' <=> MayStart(s)
  BY DEF MayStart
<1> QED
  BY <1>1, <1>3, <1>4 DEF ReadsStayTrue

(* A request that moves inside its transaction or outside it keeps its lock. *)
LEMMA LocksKept ==
  ASSUME NEW s \in Reqs, LockSpansTransaction(s),
         hlock'[s] = hlock[s], call'[s] = call[s], Inside(s)' <=> Inside(s)
  PROVE  LockSpansTransaction(s)'
  BY DEF LockSpansTransaction, LockMode

(* A request outside a transaction has no read to keep true. *)
LEMMA NothingRead ==
  ASSUME NEW s \in Reqs, pc'[s] \in {"idle", "waiting", "committed"},
         rolelock'[s] = {}
  PROVE  ReadsStayTrue(s)'
  BY DEF ReadsStayTrue

(* A step that leaves the roster and the bans alone keeps the invariant when *)
(* it keeps the locks and the reads.                                         *)
LEMMA QuietStep ==
  ASSUME RosterInv, TypeOK', LocksExclude',
         members' = members, banned' = banned,
         \A s \in Reqs : LockSpansTransaction(s)' /\ ReadsStayTrue(s)'
  PROVE  RosterInv'
  BY DEF RosterInv, NoDuplicateMember, OwnerKept, BannedAreOut

(* A step of r that keeps the locks, the roster and the bans, and what r     *)
(* itself has read.                                                          *)
LEMMA LocalStep ==
  ASSUME NEW r \in Reqs, RosterInv, TypeOK',
         members' = members, banned' = banned, hlock' = hlock,
         Inside(r)' <=> Inside(r),
         call'[r] = call[r] \/ ~ Inside(r),
         ReadsStayTrue(r)',
         \A s \in Reqs \ {r} :
             /\ pc'[s] = pc[s] /\ call'[s] = call[s]
             /\ seen'[s] = seen[s] /\ rolelock'[s] = rolelock[s]
  PROVE  RosterInv'
<1>1. LocksExclude'
  BY DEF RosterInv, LocksExclude
<1>2. ASSUME NEW s \in Reqs
      PROVE  LockSpansTransaction(s)' /\ ReadsStayTrue(s)'
  <2>1. CASE s = r
    BY <2>1 DEF RosterInv, LockSpansTransaction, LockMode
  <2>2. CASE s # r
    <3>1. pc'[s] = pc[s] /\ call'[s] = call[s]
          /\ seen'[s] = seen[s] /\ rolelock'[s] = rolelock[s]
      BY <2>2
    <3>2. LockSpansTransaction(s) /\ ReadsStayTrue(s)
      BY DEF RosterInv
    <3>3. Inside(s)' <=> Inside(s)
      BY <3>1 DEF Inside
    <3> QED
      BY <3>1, <3>2, <3>3, ReadsKept, LocksKept
  <2> QED
    BY <2>1, <2>2
<1> QED
  BY <1>1, <1>2, QuietStep

(* A request that ends its transaction gives up its locks and its reads. *)
LEMMA ReleaseStep ==
  ASSUME NEW r \in Reqs, RosterInv, Release(r),
         pc' \in [Reqs -> Stages], pc'[r] \in {"idle", "committed"},
         \A s \in Reqs \ {r} : pc'[s] = pc[s] /\ call'[s] = call[s]
  PROVE  /\ LocksExclude'
         /\ LockSpansTransaction(r)' /\ ReadsStayTrue(r)'
         /\ \A s \in Reqs \ {r} :
                /\ LockSpansTransaction(s)'
                /\ seen'[s] = seen[s] /\ rolelock'[s] = rolelock[s]
<1>0. TypeOK /\ LocksExclude
  BY DEF RosterInv
<1>1. hlock'[r] = "none" /\ rolelock'[r] = {}
  BY <1>0 DEF Release, TypeOK
<1>2. \A s \in Reqs \ {r} : /\ hlock'[s] = hlock[s] /\ seen'[s] = seen[s]
                            /\ rolelock'[s] = rolelock[s]
  BY <1>0 DEF Release, TypeOK
<1>3. LocksExclude'
  BY <1>0, <1>1, <1>2 DEF LocksExclude
<1>4. LockSpansTransaction(r)' /\ ReadsStayTrue(r)'
  BY <1>1, NothingRead DEF LockSpansTransaction, Inside
<1>5. ASSUME NEW s \in Reqs \ {r} PROVE LockSpansTransaction(s)'
  BY <1>2, LocksKept DEF RosterInv, Inside
<1> QED
  BY <1>2, <1>3, <1>4, <1>5

(* The steps that read: each leaves the roster, the bans and the locks of    *)
(* others alone, and what it notes down is what it just read.                *)
LEMMA ReadingStep ==
  ASSUME NEW r \in Reqs, RosterInv, TypeOK',
         \/ Begin(r) \/ LocateOwners(r) \/ LockOwnerRows(r) \/ Decide(r)
         \/ AskQuota(r) \/ LockQuota(r) \/ CountMembers(r) \/ Evict(r)
  PROVE  RosterInv'
<1>t. TypeOK /\ LockSpansTransaction(r) /\ ReadsStayTrue(r)
  BY DEF RosterInv
<1>1. CASE Begin(r)
  <2>1. pc[r] = "idle" /\ pc'[r] = "waiting" /\ rolelock'[r] = {}
    BY <1>1, <1>t DEF Begin, TypeOK, ReadsStayTrue, lockVars
  <2>2. ReadsStayTrue(r)'
    BY <2>1, NothingRead
  <2>3. Inside(r)' <=> Inside(r)
    BY <2>1 DEF Inside
  <2>4. \A s \in Reqs \ {r} :
            /\ pc'[s] = pc[s] /\ call'[s] = call[s]
            /\ seen'[s] = seen[s] /\ rolelock'[s] = rolelock[s]
    BY <1>1, <1>t DEF Begin, TypeOK, lockVars
  <2> QED
    BY <1>1, <2>1, <2>2, <2>3, <2>4, LocalStep
       DEF Begin, dbVars, lockVars, Inside
<1>2. CASE LocateOwners(r)
  <2>1. /\ pc[r] = "locked" /\ pc'[r] = "owners" /\ call' = call
        /\ seen'[r] = Owners(members) /\ members' = members
        /\ rolelock' = rolelock /\ ActsOnOwners(r)
        /\ MayStart(r) /\ banned' = banned
    BY <1>2, <1>t DEF LocateOwners, TypeOK, lockVars, dbVars
  <2>2. ReadsStayTrue(r)'
    BY <2>1, <1>t DEF ReadsStayTrue, ActsOnOwners, MayStart
  <2>3. Inside(r)' <=> Inside(r)
    BY <2>1 DEF Inside
  <2>4. \A s \in Reqs \ {r} :
            /\ pc'[s] = pc[s] /\ call'[s] = call[s]
            /\ seen'[s] = seen[s] /\ rolelock'[s] = rolelock[s]
    BY <1>2, <1>t, <2>1 DEF LocateOwners, TypeOK
  <2> QED
    BY <1>2, <2>1, <2>2, <2>3, <2>4, LocalStep
       DEF LocateOwners, dbVars, lockVars
<1>3. CASE LockOwnerRows(r)
  <2>1. /\ pc[r] = "owners" /\ pc'[r] = "decide" /\ call' = call
        /\ members' = members /\ seen[r] = Owners(members)
        /\ seen'[r] = Owners(members) /\ rolelock'[r] = Owners(members)
        /\ ActsOnOwners(r) /\ MayStart(r) /\ banned' = banned
    BY <1>3, <1>t DEF LockOwnerRows, TypeOK, dbVars, ReadsStayTrue
  <2>2. ReadsStayTrue(r)'
    BY <2>1, <1>t DEF ReadsStayTrue, ActsOnOwners, MayStart
  <2>3. Inside(r)' <=> Inside(r)
    BY <2>1 DEF Inside
  <2>4. \A s \in Reqs \ {r} :
            /\ pc'[s] = pc[s] /\ call'[s] = call[s]
            /\ seen'[s] = seen[s] /\ rolelock'[s] = rolelock[s]
    BY <1>3, <1>t, <2>1 DEF LockOwnerRows, TypeOK
  <2> QED
    BY <1>3, <2>1, <2>2, <2>3, <2>4, LocalStep DEF LockOwnerRows, dbVars
<1>4. CASE Decide(r)
  <2>1. /\ pc[r] \in {"locked", "decide"} /\ pc'[r] = "writing"
        /\ call' = call /\ members' = members /\ banned' = banned
        /\ rolelock' = rolelock
        /\ Allowed(r) /\ MayStart(r)
    BY <1>4, <1>t
       DEF Decide, Deciding, TypeOK, dbVars, lockVars, ReadsStayTrue
  <2>2. call[r].op # "admit"
    BY <2>1 DEF Allowed
  <2>3. ASSUME call[r].op = "delete" PROVE ReadsStayTrue(r)'
    <3>1. Allowed(r)'
      BY <2>1, <2>3 DEF Allowed
    <3>2. ~ ActsOnOwners(r)'
      BY <2>1, <2>3 DEF ActsOnOwners
    <3> QED
      BY <2>1, <2>3, <3>1, <3>2, <1>t DEF ReadsStayTrue, MayStart
  <2>4. ASSUME call[r].op # "delete" PROVE ReadsStayTrue(r)'
    <3>1. seen' = seen
      BY <1>4, <2>4 DEF Decide
    <3>2. Departing(r)' = Departing(r) /\ ActorRows(r)' = ActorRows(r)
      BY <2>1 DEF Departing, ActorRows
    <3>3. Allowed(r)'
      BY <2>1, <3>1, <3>2
         DEF Allowed, MayUpdateRole, MayTransfer, MayDepart, NotLastOwner,
             MayLift
    <3>4. ActsOnOwners(r)' => seen[r] = Owners(members)
      BY <1>4, <1>t, <2>1
         DEF Decide, Deciding, ReadsStayTrue, ActsOnOwners
    <3> QED
      BY <1>t, <2>1, <2>2, <3>1, <3>3, <3>4 DEF ReadsStayTrue, MayStart
  <2>5. ReadsStayTrue(r)'
    BY <2>3, <2>4
  <2>6. Inside(r)' <=> Inside(r)
    BY <2>1 DEF Inside
  <2>7. \A s \in Reqs \ {r} :
            /\ pc'[s] = pc[s] /\ call'[s] = call[s]
            /\ seen'[s] = seen[s] /\ rolelock'[s] = rolelock[s]
    BY <1>4, <1>t, <2>1 DEF Decide, TypeOK
  <2> QED
    BY <1>4, <2>1, <2>5, <2>6, <2>7, LocalStep DEF Decide, dbVars, lockVars
<1>5. CASE AskQuota(r)
  <2>1. /\ pc[r] = "locked" /\ pc'[r] = "quota" /\ call' = call
        /\ banned' = banned /\ rolelock' = rolelock
        /\ call[r].op = "admit" /\ call[r].actor \notin banned
    BY <1>5, <1>t DEF AskQuota, MayJoin, TypeOK, dbVars, lockVars
  <2>2. ReadsStayTrue(r)'
    BY <2>1, <1>t DEF ReadsStayTrue
  <2>3. Inside(r)' <=> Inside(r)
    BY <2>1 DEF Inside
  <2>4. \A s \in Reqs \ {r} :
            /\ pc'[s] = pc[s] /\ call'[s] = call[s]
            /\ seen'[s] = seen[s] /\ rolelock'[s] = rolelock[s]
    BY <1>5, <1>t, <2>1 DEF AskQuota, TypeOK
  <2> QED
    BY <1>5, <2>1, <2>2, <2>3, <2>4, LocalStep DEF AskQuota, dbVars, lockVars
<1>6. CASE LockQuota(r) \/ CountMembers(r)
  <2>1. /\ pc[r] \in {"quota", "counting"} /\ call' = call
        /\ pc'[r] \in {"counting", "writing"} /\ seen' = seen
        /\ members' = members /\ banned' = banned /\ rolelock' = rolelock
        /\ hlock' = hlock
    BY <1>6, <1>t DEF LockQuota, CountMembers, TypeOK, dbVars, lockVars
  <2>2. ReadsStayTrue(r)'
    BY <2>1, <1>t DEF ReadsStayTrue, MayStart
  <2>3. Inside(r)' <=> Inside(r)
    BY <2>1 DEF Inside
  <2>4. \A s \in Reqs \ {r} :
            /\ pc'[s] = pc[s] /\ call'[s] = call[s]
            /\ seen'[s] = seen[s] /\ rolelock'[s] = rolelock[s]
    BY <1>6, <1>t, <2>1 DEF LockQuota, CountMembers, TypeOK
  <2> QED
    BY <2>1, <2>2, <2>3, <2>4, LocalStep
<1>7. CASE Evict(r)
  <2>1. pc[r] = "committed" /\ pc'[r] = "idle" /\ rolelock'[r] = {}
    BY <1>7, <1>t DEF Evict, End, TypeOK, ReadsStayTrue, lockVars
  <2>2. ReadsStayTrue(r)'
    BY <2>1, NothingRead
  <2>3. (Inside(r)' <=> Inside(r)) /\ ~ Inside(r)
    BY <2>1 DEF Inside
  <2>4. \A s \in Reqs \ {r} :
            /\ pc'[s] = pc[s] /\ call'[s] = call[s]
            /\ seen'[s] = seen[s] /\ rolelock'[s] = rolelock[s]
    BY <1>7, <1>t DEF Evict, End, TypeOK, lockVars
  <2> QED
    BY <1>7, <2>1, <2>2, <2>3, <2>4, LocalStep DEF Evict, dbVars, lockVars
<1> QED
  BY <1>1, <1>2, <1>3, <1>4, <1>5, <1>6, <1>7

(* The household lock is granted only where LocksExclude allows it. *)
LEMMA LockingStep ==
  ASSUME NEW r \in Reqs, RosterInv, TypeOK', LockHousehold(r)
  PROVE  RosterInv'
<1>t. /\ TypeOK /\ LocksExclude /\ LockIsFree(r)
      /\ LockSpansTransaction(r) /\ ReadsStayTrue(r)
  BY DEF RosterInv, LockHousehold
<1>1. /\ pc[r] = "waiting" /\ pc'[r] = "locked" /\ hlock'[r] = LockMode(r)
      /\ call' = call /\ seen' = seen /\ rolelock' = rolelock
      /\ members' = members /\ banned' = banned
  BY <1>t DEF LockHousehold, TypeOK, dbVars
<1>2. \A s \in Reqs \ {r} : pc'[s] = pc[s] /\ hlock'[s] = hlock[s]
  BY <1>t DEF LockHousehold, TypeOK
<1>3. LocksExclude'
  BY <1>t, <1>1, <1>2 DEF LocksExclude, LockIsFree, LockMode
<1>4. LockSpansTransaction(r)' /\ ReadsStayTrue(r)'
  BY <1>t, <1>1 DEF LockSpansTransaction, Inside, LockMode, ReadsStayTrue
<1>5. ASSUME NEW s \in Reqs \ {r}
      PROVE  LockSpansTransaction(s)' /\ ReadsStayTrue(s)'
  <2>1. LockSpansTransaction(s) /\ ReadsStayTrue(s)
    BY DEF RosterInv
  <2>2. Inside(s)' <=> Inside(s)
    BY <1>2 DEF Inside
  <2> QED
    BY <1>1, <1>2, <2>1, <2>2, ReadsKept, LocksKept
<1> QED
  BY <1>1, <1>3, <1>4, <1>5, QuietStep

(* A rollback, by refusal or by a crash, changes neither roster nor bans. *)
LEMMA RollbackStep ==
  ASSUME NEW r \in Reqs, RosterInv, TypeOK', Refuse(r) \/ Crash(r)
  PROVE  RosterInv'
<1>1. TypeOK
  BY DEF RosterInv
<1>2. /\ Release(r) /\ members' = members /\ banned' = banned
      /\ pc'[r] = "idle"
      /\ \A s \in Reqs \ {r} : pc'[s] = pc[s] /\ call'[s] = call[s]
  BY <1>1 DEF Refuse, Crash, End, TypeOK, dbVars
<1>3. /\ LocksExclude'
      /\ LockSpansTransaction(r)' /\ ReadsStayTrue(r)'
      /\ \A s \in Reqs \ {r} :
             /\ LockSpansTransaction(s)'
             /\ seen'[s] = seen[s] /\ rolelock'[s] = rolelock[s]
  BY <1>2, ReleaseStep DEF TypeOK
<1>4. ASSUME NEW s \in Reqs \ {r} PROVE ReadsStayTrue(s)'
  BY <1>2, <1>3, ReadsKept DEF RosterInv
<1> QED
  BY <1>2, <1>3, <1>4, QuietStep

(* Whoever writes is alone inside the household lock, unless it admits; then *)
(* only other admissions are inside with it.                                 *)
LEMMA WriterExcludes ==
  ASSUME NEW r \in Reqs, NEW s \in Reqs, s # r, RosterInv,
         pc[r] = "writing", Inside(s)
  PROVE  call[r].op = "admit" /\ call[s].op = "admit"
<1>1. hlock[r] = LockMode(r) /\ hlock[s] = LockMode(s)
  BY DEF RosterInv, LockSpansTransaction, Inside
<1> QED
  BY <1>1 DEF RosterInv, LocksExclude, LockMode

(* So a write leaves true what the others have read, provided an admission   *)
(* leaves the bans alone.                                                    *)
LEMMA OthersReadsKept ==
  ASSUME NEW r \in Reqs, NEW s \in Reqs, s # r, RosterInv, pc[r] = "writing",
         call[r].op = "admit" => banned' = banned,
         pc'[s] = pc[s], call'[s] = call[s],
         seen'[s] = seen[s], rolelock'[s] = rolelock[s]
  PROVE  ReadsStayTrue(s)'
<1>1. ReadsStayTrue(s)
  BY DEF RosterInv
<1>2. CASE Inside(s)
  <2>1. call[s].op = "admit" /\ banned' = banned
    BY <1>2, WriterExcludes
  <2> QED
    BY <1>1, <2>1 DEF ReadsStayTrue, ActsOnOwners, MayStart
<1>3. CASE ~ Inside(s)
  BY <1>1, <1>3 DEF ReadsStayTrue, Inside
<1> QED
  BY <1>2, <1>3

(* What a departure leaves: the other rows, one of them an owner's. *)
LEMMA DepartureKeepsOwner ==
  ASSUME NEW r \in Reqs, RosterInv, pc[r] = "writing",
         call[r].op \in {"removeMember", "leave", "ban"}
  PROVE  /\ LiveRows(Gone(Departing(r))) = LiveRows(members) \ Departing(r)
         /\ Owners(Gone(Departing(r))) # {}
<1> DEFINE D == Departing(r)
<1>t. /\ TypeOK /\ OneRowPerUser(members) /\ Owners(members) # {}
      /\ ReadsStayTrue(r) /\ D \in SUBSET MemberIds
  BY CallType DEF RosterInv, NoDuplicateMember, OwnerKept
<1>1. MayDepart(r)
  BY <1>t DEF ReadsStayTrue, Allowed
<1>2. \A i, j \in D : i = j
  BY <1>t DEF Departing, OneRowPerUser, RowsOfUser
<1> HIDE DEF D
<1>3. /\ LiveRows(Gone(D)) = LiveRows(members) \ D
      /\ Owners(Gone(D)) = Owners(members) \ D
  BY <1>t DEF Gone, LiveRows, Owners, RoleNames, AssignableRoles
<1>4. SUFFICES ASSUME Owners(members) \subseteq D PROVE FALSE
  BY <1>3 DEF D
<1>5. PICK o \in MemberIds : Owners(members) = {o} /\ D = {o}
  BY <1>t, <1>2, <1>4 DEF Owners
<1>6. ActsOnOwners(r)
  BY <1>5 DEF ActsOnOwners, D, Departing, IsMember
<1>7. seen[r] = {o}
  BY <1>t, <1>5, <1>6 DEF ReadsStayTrue
<1>8. Cardinality(seen[r]) = 1
  BY <1>7, FS_Singleton
<1> QED
  BY <1>1, <1>5, <1>7, <1>8 DEF MayDepart, NotLastOwner, D

(* Each write keeps one row per user, an owner, and the banned out. *)
LEMMA WriteKeepsRoster ==
  ASSUME NEW r \in Reqs, RosterInv, Write(r)
  PROVE  NoDuplicateMember' /\ OwnerKept' /\ BannedAreOut'
<1> DEFINE c == call[r]
<1>t. /\ TypeOK /\ OneRowPerUser(members) /\ Owners(members) # {}
      /\ BannedAreOut /\ ReadsStayTrue(r) /\ members \in Rosters
      /\ c.row \in MemberIds /\ c.role \in AssignableRoles
      /\ c.actor \in Users
  BY CallType DEF RosterInv, NoDuplicateMember, OwnerKept, TypeOK
<1>w. pc[r] = "writing"
  BY DEF Write, UpdateMemberRole, TransferOwnership, DeleteMembership,
         BanUser, LiftBan, AdmitMember, DeleteHousehold, RestoreHousehold,
         Commit
<1>a. c.op # "admit" => Allowed(r)
  BY <1>t, <1>w DEF ReadsStayTrue
<1> HIDE DEF c
<1>1. CASE UpdateMemberRole(r)
  <2>1. c.row \in LiveRows(members) \ Owners(members)
    BY <1>1, <1>a DEF UpdateMemberRole, Allowed, MayUpdateRole, c
  <2>2. members' = [members EXCEPT ![c.row] = c.role] /\ banned' = banned
    BY <1>1 DEF UpdateMemberRole, c
  <2>3. LiveRows(members') = LiveRows(members)
    BY <1>t, <2>1, <2>2 DEF LiveRows, Rosters, RoleNames
  <2>4. Owners(members') = Owners(members)
    BY <1>t, <2>1, <2>2 DEF Owners, Rosters, AssignableRoles
  <2> QED
    BY <1>t, <2>2, <2>3, <2>4
       DEF NoDuplicateMember, OneRowPerUser, OwnerKept, BannedAreOut
<1>2. CASE TransferOwnership(r)
  <2>1. c.row \in LiveRows(members) /\ ActorRows(r) \subseteq LiveRows(members)
    BY <1>2, <1>a
       DEF TransferOwnership, Allowed, MayTransfer, ActorRows, RowsOfUser, c
  <2>2. /\ banned' = banned
        /\ members' = [i \in MemberIds |->
                          IF i = c.row THEN "HouseholdOwner"
                          ELSE IF i \in ActorRows(r) THEN "HouseholdAdmin"
                          ELSE members[i]]
    BY <1>2 DEF TransferOwnership, c
  <2>3. LiveRows(members') = LiveRows(members)
    BY <2>1, <2>2 DEF LiveRows, RoleNames, AssignableRoles
  <2>4. c.row \in Owners(members')
    BY <1>t, <2>2 DEF Owners
  <2> QED
    BY <1>t, <2>2, <2>3, <2>4
       DEF NoDuplicateMember, OneRowPerUser, OwnerKept, BannedAreOut
<1>3. CASE DeleteMembership(r)
  <2>1. /\ members' = Gone(Departing(r)) /\ banned' = banned
        /\ call[r].op \in {"removeMember", "leave", "ban"}
    BY <1>3 DEF DeleteMembership
  <2>2. /\ LiveRows(members') = LiveRows(members) \ Departing(r)
        /\ Owners(members') # {}
    BY <1>w, <2>1, DepartureKeepsOwner
  <2> QED
    BY <1>t, <2>1, <2>2
       DEF NoDuplicateMember, OneRowPerUser, OwnerKept, BannedAreOut, UsersOf
<1>4. CASE BanUser(r)
  <2>1. /\ members' = Gone(Departing(r)) /\ call[r].op = "ban"
        /\ banned' = banned \cup {UserOf[call[r].row]}
    BY <1>4 DEF BanUser
  <2>2. /\ LiveRows(members') = LiveRows(members) \ Departing(r)
        /\ Owners(members') # {}
    BY <1>w, <2>1, DepartureKeepsOwner
  <2>3. \A i \in LiveRows(members') : UserOf[i] # UserOf[call[r].row]
    BY <2>1, <2>2 DEF Departing, RowsOfUser
  <2> QED
    BY <1>t, <2>1, <2>2, <2>3
       DEF NoDuplicateMember, OneRowPerUser, OwnerKept, BannedAreOut, UsersOf
<1>5. CASE LiftBan(r)
  BY <1>5, <1>t
     DEF LiftBan, NoDuplicateMember, OwnerKept, BannedAreOut
<1>6. CASE AdmitMember(r)
  <2>1. PICK i \in MemberIds :
            /\ UserOf[i] = c.actor /\ members[i] = "unborn"
            /\ members' = [members EXCEPT ![i] = c.role]
    BY <1>6 DEF AdmitMember, c
  <2>2. /\ banned' = banned /\ c.actor \notin banned
        /\ RowsOfUser(members, c.actor) = {}
    BY <1>6, <1>t, <1>w
       DEF AdmitMember, UniqueIndexAllows, IsMember, ReadsStayTrue, c
  <2>3. LiveRows(members') = LiveRows(members) \cup {i}
    BY <1>t, <2>1 DEF LiveRows, Rosters, RoleNames
  <2>4. Owners(members') = Owners(members)
    BY <1>t, <2>1 DEF Owners, Rosters, AssignableRoles
  <2>5. \A j \in LiveRows(members) : UserOf[j] # c.actor
    BY <2>2 DEF RowsOfUser
  <2> QED
    BY <1>t, <2>1, <2>2, <2>3, <2>4, <2>5
       DEF NoDuplicateMember, OneRowPerUser, OwnerKept, BannedAreOut, UsersOf
<1>7. CASE DeleteHousehold(r) \/ RestoreHousehold(r)
  BY <1>7, <1>t
     DEF DeleteHousehold, RestoreHousehold, NoDuplicateMember, OwnerKept,
         BannedAreOut
<1> QED
  BY <1>1, <1>2, <1>3, <1>4, <1>5, <1>6, <1>7 DEF Write

(* A write keeps the invariant. *)
LEMMA WriteStep ==
  ASSUME NEW r \in Reqs, RosterInv, TypeOK', Write(r)
  PROVE  RosterInv'
<1>1. TypeOK
  BY DEF RosterInv
<1>2. PICK owed : Commit(r, owed)
  BY DEF Write, UpdateMemberRole, TransferOwnership, DeleteMembership,
         BanUser, LiftBan, AdmitMember, DeleteHousehold, RestoreHousehold
<1>3. /\ pc[r] = "writing" /\ pc'[r] = "committed" /\ Release(r)
      /\ \A s \in Reqs \ {r} : pc'[s] = pc[s] /\ call'[s] = call[s]
  BY <1>1, <1>2 DEF Commit, TypeOK
<1>4. call[r].op = "admit" => banned' = banned
  BY DEF Write, UpdateMemberRole, TransferOwnership, DeleteMembership,
         BanUser, LiftBan, AdmitMember, DeleteHousehold, RestoreHousehold
<1>5. /\ LocksExclude'
      /\ LockSpansTransaction(r)' /\ ReadsStayTrue(r)'
      /\ \A s \in Reqs \ {r} :
             /\ LockSpansTransaction(s)'
             /\ seen'[s] = seen[s] /\ rolelock'[s] = rolelock[s]
  BY <1>3, ReleaseStep DEF TypeOK
<1>6. ASSUME NEW s \in Reqs \ {r} PROVE ReadsStayTrue(s)'
  BY <1>3, <1>4, <1>5, OthersReadsKept
<1> QED
  BY <1>5, <1>6, WriteKeepsRoster DEF RosterInv

(* The expiry of a cached graph touches nothing of the invariant. *)
LEMMA ExpiryStep ==
  ASSUME RosterInv, TypeOK', UNCHANGED <<dbVars, lockVars, reqVars>>
  PROVE  RosterInv'
<1>1. /\ members' = members /\ banned' = banned /\ hlock' = hlock
      /\ pc' = pc /\ call' = call /\ seen' = seen /\ rolelock' = rolelock
  BY DEF dbVars, lockVars, reqVars
<1>2. LocksExclude'
  BY <1>1 DEF RosterInv, LocksExclude
<1>3. ASSUME NEW s \in Reqs
      PROVE  LockSpansTransaction(s)' /\ ReadsStayTrue(s)'
  <2>1. LockSpansTransaction(s) /\ ReadsStayTrue(s)
    BY DEF RosterInv
  <2>2. Inside(s)' <=> Inside(s)
    BY <1>1 DEF Inside
  <2> QED
    BY <1>1, <2>1, <2>2, ReadsKept, LocksKept
<1> QED
  BY <1>1, <1>2, <1>3, QuietStep

(* RosterInv is inductive. *)
LEMMA InvStep == RosterInv /\ [Next]_vars => RosterInv'
<1> SUFFICES ASSUME RosterInv, [Next]_vars PROVE RosterInv'
  OBVIOUS
<1>t. TypeOK'
  BY TypeStep DEF RosterInv
<1>0. CASE UNCHANGED vars
  BY <1>0, <1>t, ExpiryStep DEF vars, dbVars, lockVars, reqVars
<1>1. ASSUME NEW r \in Reqs, LockHousehold(r) PROVE RosterInv'
  BY <1>1, <1>t, LockingStep
<1>2. ASSUME NEW r \in Reqs,
             \/ Begin(r) \/ LocateOwners(r) \/ LockOwnerRows(r) \/ Decide(r)
             \/ AskQuota(r) \/ LockQuota(r) \/ CountMembers(r) \/ Evict(r)
      PROVE  RosterInv'
  BY <1>2, <1>t, ReadingStep
<1>3. ASSUME NEW r \in Reqs, Refuse(r) \/ Crash(r) PROVE RosterInv'
  BY <1>3, <1>t, RollbackStep
<1>4. ASSUME NEW r \in Reqs, Write(r) PROVE RosterInv'
  BY <1>4, <1>t, WriteStep
<1>5. ASSUME NEW u \in Users, ExpireGraph(u) PROVE RosterInv'
  BY <1>5, <1>t, ExpiryStep DEF ExpireGraph
<1> QED
  BY <1>0, <1>1, <1>2, <1>3, <1>4, <1>5 DEF Next, Proceed

(* RosterInv holds in every reachable state. *)
THEOREM Invariance == Spec => []RosterInv
  BY InvInit, InvStep, PTL DEF Spec

(* The household always has an owner, however many requests race over it:    *)
(* the guard of deleteMembershipWithin, read under lockHouseholdForRole-     *)
(* Transition's lock, is enough.                                             *)
THEOREM OwnerAlwaysKept == Spec => []OwnerKept
<1>1. RosterInv => OwnerKept
  BY DEF RosterInv
<1> QED
  BY <1>1, Invariance, PTL

(* Nobody is ever two members of one household. *)
THEOREM MembersAreDistinct == Spec => []NoDuplicateMember
<1>1. RosterInv => NoDuplicateMember
  BY DEF RosterInv
<1> QED
  BY <1>1, Invariance, PTL

(* A ban and a membership of one user never coexist: an admission that read  *)
(* "not banned" holds the household row until it commits.                    *)
THEOREM BansHold == Spec => []BannedAreOut
<1>1. RosterInv => BannedAreOut
  BY DEF RosterInv
<1> QED
  BY <1>1, Invariance, PTL

(* The owner rows locked by lockHouseholdOwnerRows are all the owners there  *)
(* are, for as long as they are locked.                                      *)
THEOREM OwnerLocksComplete == Spec => []LockedOwnersCurrent
<1>1. RosterInv => LockedOwnersCurrent
  BY DEF RosterInv, ReadsStayTrue, LockedOwnersCurrent
<1> QED
  BY <1>1, Invariance, PTL

-----------------------------------------------------------------------------
(* What a step may never do.                                                 *)

(* A commit comes with the authority RosterInv says was read and kept. *)
LEMMA CommitHasAuthority ==
  ASSUME RosterInv, NEW r \in Reqs, Commits(r)
  PROVE  LET c == call[r] IN
         /\ c.op = "updateMemberRole" =>
                /\ MayManage(members, c.actor, members[c.row])
                /\ MayManage(members, c.actor, c.role)
         /\ c.op = "transferOwnership" =>
                HoldsOneOf(members, c.actor, {"HouseholdOwner"})
         /\ c.op = "removeMember" => MayManage(members, c.actor, members[c.row])
         /\ c.op \in {"ban", "lift"} => MayBan(members, c.actor)
<1>1. /\ pc[r] = "writing" /\ ReadsStayTrue(r)
      /\ call[r].op # "admit" => Allowed(r)
  BY DEF RosterInv, Commits, ReadsStayTrue
<1>2. ASSUME call[r].op = "transferOwnership"
      PROVE  HoldsOneOf(members, call[r].actor, {"HouseholdOwner"})
  <2>1. seen[r] = Owners(members) /\ MayTransfer(r)
    BY <1>1, <1>2 DEF ReadsStayTrue, ActsOnOwners, Allowed
  <2>2. PICK own \in ActorRows(r) : own \in Owners(members)
    BY <2>1 DEF MayTransfer
  <2> QED
    BY <2>2 DEF ActorRows, RowsOfUser, LiveRows, Owners, HoldsOneOf
<1>3. call[r].op = "removeMember" =>
          MayManage(members, call[r].actor, members[call[r].row])
  BY <1>1 DEF Allowed, MayDepart, Departing
<1>4. call[r].op \in {"ban", "lift"} => MayBan(members, call[r].actor)
  BY <1>1 DEF ReadsStayTrue, MayStart, Allowed, MayLift
<1>5. call[r].op = "updateMemberRole" =>
          /\ MayManage(members, call[r].actor, members[call[r].row])
          /\ MayManage(members, call[r].actor, call[r].role)
  BY <1>1 DEF Allowed, MayUpdateRole
<1> QED
  BY <1>2, <1>3, <1>4, <1>5

(* Authority is never stale when it is used: whoever changes the roster or   *)
(* the bans may do so in the very state the change applies to.               *)
THEOREM AuthorityNeverStale == Spec => AuthorityHolds
<1> DEFINE A(r) ==
      LET c == call[r] IN
      /\ c.op = "updateMemberRole" =>
             /\ MayManage(members, c.actor, members[c.row])
             /\ MayManage(members, c.actor, c.role)
      /\ c.op = "transferOwnership" =>
             HoldsOneOf(members, c.actor, {"HouseholdOwner"})
      /\ c.op = "removeMember" => MayManage(members, c.actor, members[c.row])
      /\ c.op \in {"ban", "lift"} => MayBan(members, c.actor)
<1>1. RosterInv => \A r \in Reqs : Commits(r) => A(r)
  BY CommitHasAuthority
<1>2. RosterInv /\ [Next]_vars => [\A r \in Reqs : Commits(r) => A(r)]_vars
  BY <1>1
<1> QED
  BY <1>2, Invariance, PTL DEF Spec, AuthorityHolds

(* A write adds an owner only where it takes the role from another. *)
LEMMA WriteKeepsOwnerCount ==
  ASSUME NEW r \in Reqs, RosterInv, Write(r)
  PROVE  Cardinality(Owners(members')) <= Cardinality(Owners(members))
<1> DEFINE c == call[r]
<1>t. /\ TypeOK /\ ReadsStayTrue(r) /\ members \in Rosters
      /\ c.row \in MemberIds /\ c.role \in AssignableRoles
  BY CallType DEF RosterInv, TypeOK
<1>w. pc[r] = "writing"
  BY DEF Write, UpdateMemberRole, TransferOwnership, DeleteMembership,
         BanUser, LiftBan, AdmitMember, DeleteHousehold, RestoreHousehold,
         Commit
<1>f. IsFiniteSet(Owners(members))
  <2>1. Owners(members) \subseteq MemberIds
    BY DEF Owners
  <2> QED
    BY <2>1, FS_Subset
<1>s. ASSUME Owners(members') \subseteq Owners(members)
      PROVE  Cardinality(Owners(members')) <= Cardinality(Owners(members))
  BY <1>f, <1>s, FS_Subset
<1> HIDE DEF c
<1>1. CASE ~ TransferOwnership(r)
  <2>1. CASE UpdateMemberRole(r)
    BY <1>s, <1>t, <2>1
       DEF UpdateMemberRole, Owners, Rosters, AssignableRoles, c
  <2>2. CASE DeleteMembership(r) \/ BanUser(r)
    BY <1>s, <2>2 DEF DeleteMembership, BanUser, Gone, Owners
  <2>3. CASE LiftBan(r) \/ DeleteHousehold(r) \/ RestoreHousehold(r)
    BY <1>s, <2>3 DEF LiftBan, DeleteHousehold, RestoreHousehold
  <2>4. CASE AdmitMember(r)
    BY <1>s, <1>t, <2>4 DEF AdmitMember, Owners, Rosters, AssignableRoles, c
  <2> QED
    BY <1>1, <2>1, <2>2, <2>3, <2>4 DEF Write
<1>2. CASE TransferOwnership(r)
  <2>1. c.op = "transferOwnership"
    BY <1>2 DEF TransferOwnership, c
  <2>2. MayTransfer(r) /\ seen[r] = Owners(members)
    BY <1>t, <1>w, <2>1 DEF ReadsStayTrue, Allowed, ActsOnOwners, c
  <2>3. PICK own \in ActorRows(r) : own \in Owners(members)
    BY <2>2 DEF MayTransfer
  <2>4. c.row \notin Owners(members)
    BY <2>2 DEF MayTransfer, c
  <2> DEFINE Kept == Owners(members) \ {own}
  <2>5. Owners(members') \subseteq Kept \cup {c.row}
    BY <1>2, <2>3, <2>4 DEF TransferOwnership, Owners, c
  <2>6. /\ IsFiniteSet(Kept) /\ c.row \notin Kept
        /\ Cardinality(Kept) = Cardinality(Owners(members)) - 1
    BY <1>f, <2>3, <2>4, FS_RemoveElement
  <2>7. Cardinality(Owners(members)) \in Nat
    BY <1>f, FS_CardinalityType
  <2> HIDE DEF Kept
  <2>8. /\ IsFiniteSet(Kept \cup {c.row})
        /\ Cardinality(Kept \cup {c.row}) = Cardinality(Kept) + 1
    BY <2>6, FS_AddElement
  <2>9. Cardinality(Owners(members')) <= Cardinality(Kept \cup {c.row})
    BY <2>5, <2>8, FS_Subset
  <2> QED
    BY <2>6, <2>7, <2>8, <2>9
<1> QED
  BY <1>1, <1>2

(* No step of any request adds an owner without taking one away. *)
THEOREM OwnershipOnlyMoves == Spec => OwnersNeverGrow
<1>1. ASSUME RosterInv, Next
      PROVE  Cardinality(Owners(members')) <= Cardinality(Owners(members))
  <2>1. CASE members' = members
    <3>1. IsFiniteSet(Owners(members))
      <4>1. Owners(members) \subseteq MemberIds
        BY DEF Owners
      <4> QED
        BY <4>1, FS_Subset
    <3>2. Cardinality(Owners(members)) \in Nat
      BY <3>1, FS_CardinalityType
    <3> QED
      BY <2>1, <3>2
  <2>2. ASSUME NEW r \in Reqs, Write(r)
        PROVE  Cardinality(Owners(members')) <= Cardinality(Owners(members))
    BY <1>1, <2>2, WriteKeepsOwnerCount
  <2>3. members' = members \/ \E r \in Reqs : Write(r)
    BY <1>1
       DEF Next, Proceed, Begin, LockHousehold, LockQuota, LocateOwners,
           LockOwnerRows, Decide, AskQuota, CountMembers, Refuse, Evict,
           Crash, ExpireGraph, dbVars
  <2> QED
    BY <2>1, <2>2, <2>3
<1>2. RosterInv /\ [Next]_vars =>
          [Cardinality(Owners(members')) <= Cardinality(Owners(members))]_vars
  BY <1>1
<1> QED
  BY <1>2, Invariance, PTL DEF Spec, OwnersNeverGrow

=============================================================================
