---------------------- MODULE HouseholdRefinementProofs ----------------------
(***************************************************************************)
(* The requests of HouseholdRoster implement HouseholdSpec, for every set of *)
(* users, rows and requests: each commit is one operation of the household  *)
(* its callers see, and every other step is invisible to them.  On the way, *)
(* the cap, the recovery grants and the evictions.                          *)
(*                                                                          *)
(* RosterInv says what the household row's lock keeps true of the roster.   *)
(* ServiceInv adds what the lock keeps true of the household's own row, and *)
(* what the advisory lock keeps true of the member count.                   *)
(***************************************************************************)
EXTENDS HouseholdRosterProofs

USE RulesAssumption, RosterAssumption

(* An admission that may count, or has counted, the members. *)
Counts(r) == pc[r] = "counting" \/ (pc[r] = "writing" /\ call[r].op = "admit")

(* What stays true of one request. *)
Steady(r) ==
    /\ r \in quotalock <=> Counts(r)
    /\ pc[r] = "writing" /\ call[r].op = "admit" => UnderCap
    /\ Inside(r) => (live <=> call[r].op # "restore")
    /\ pc[r] # "idle" /\ call[r].op \in {"updateMemberRole", "ban"} =>
           UserOf[call[r].row] # call[r].actor
    /\ pc[r] = "writing" /\ call[r].op = "delete" => seen[r] = Owners(members)
    /\ pc[r] # "committed" => evict[r] = {}

ServiceInv ==
    /\ \A r \in Reqs : Steady(r)
    /\ \A r, s \in quotalock : r = s
    /\ CapHeld
    /\ RecoveryGrantsFit
    /\ EveryChangeEvicts

(* Initially nobody is inside a transaction, and nothing is owed. *)
LEMMA ServiceInit == Init => ServiceInv
<1> SUFFICES ASSUME Init PROVE ServiceInv
  OBVIOUS
<1>1. ASSUME NEW r \in Reqs PROVE Steady(r)
  BY DEF Init, Steady, Counts, Inside
<1>2. IsFiniteSet(LiveRows(Initial))
  <2>1. LiveRows(Initial) \subseteq MemberIds
    BY DEF LiveRows
  <2> QED
    BY <2>1, FS_Subset
<1>3. CapHeld
  BY <1>2, FS_CardinalityType DEF Init, CapHeld
<1>4. RecoveryGrantsFit /\ EveryChangeEvicts /\ \A r, s \in quotalock : r = s
  BY DEF Init, RecoveryGrantsFit, EveryChangeEvicts
<1> QED
  BY <1>1, <1>3, <1>4 DEF ServiceInv

-----------------------------------------------------------------------------
(* Steps that leave the household as it is.                                  *)

(* A request that does not move keeps what is true of it. *)
LEMMA SteadyKept ==
  ASSUME NEW s \in Reqs, Steady(s),
         live' = live, members' = members,
         pc'[s] = pc[s], call'[s] = call[s],
         seen'[s] = seen[s], evict'[s] = evict[s],
         s \in quotalock' <=> s \in quotalock
  PROVE  Steady(s)'
  BY DEF Steady, Counts, UnderCap, Inside

(* A step of r that leaves the household, the cache and the evictions alone. *)
LEMMA UnseenStep ==
  ASSUME NEW r \in Reqs, ServiceInv, Steady(r)',
         UNCHANGED <<dbVars, cacheVars, evict>>,
         \A s \in quotalock' \ {r} : s \in quotalock,
         r \in quotalock' => quotalock' \subseteq {r},
         \A s \in Reqs \ {r} :
             /\ pc'[s] = pc[s] /\ call'[s] = call[s] /\ seen'[s] = seen[s]
             /\ s \in quotalock' <=> s \in quotalock
  PROVE  ServiceInv'
<1>1. live' = live /\ members' = members /\ grants' = grants /\ evict' = evict
      /\ stale' = stale /\ lost' = lost
  BY DEF dbVars, cacheVars
<1>2. \A s \in Reqs \ {r} : Steady(s)'
  BY <1>1, SteadyKept DEF ServiceInv
<1>3. \A s, t \in quotalock' : s = t
  BY DEF ServiceInv
<1>4. CapHeld' /\ RecoveryGrantsFit' /\ EveryChangeEvicts'
  BY <1>1 DEF ServiceInv, CapHeld, RecoveryGrantsFit, EveryChangeEvicts
<1> QED
  BY <1>2, <1>3, <1>4 DEF ServiceInv

(* Beginning, reading, locking and deciding. *)
LEMMA ServiceReading ==
  ASSUME NEW r \in Reqs, RosterInv, ServiceInv,
         \/ Begin(r) \/ LockHousehold(r) \/ LocateOwners(r) \/ LockOwnerRows(r)
         \/ Decide(r) \/ AskQuota(r) \/ LockQuota(r) \/ CountMembers(r)
  PROVE  ServiceInv'
<1>t. TypeOK /\ Steady(r) /\ ReadsStayTrue(r) /\ \A s, t \in quotalock : s = t
  BY DEF RosterInv, ServiceInv
<1>1. CASE Begin(r)
  <2>1. PICK c \in Calls : BeforeLock(c) /\ call' = [call EXCEPT ![r] = c]
    BY <1>1 DEF Begin
  <2>2. call'[r] = c /\ pc[r] = "idle" /\ pc'[r] = "waiting"
    BY <1>1, <1>t, <2>1 DEF Begin, TypeOK
  <2>3. c.op \in {"updateMemberRole", "ban"} => UserOf[c.row] # c.actor
    BY <2>1 DEF BeforeLock
  <2>4. evict' = evict /\ quotalock' = quotalock
    BY <1>1 DEF Begin, lockVars
  <2>5. Steady(r)'
    BY <1>t, <2>2, <2>3, <2>4 DEF Steady, Counts, Inside
  <2> QED
    BY <1>1, <1>t, <2>2, <2>4, <2>5, UnseenStep DEF Begin, TypeOK, Steady, Counts
<1>2. CASE LockHousehold(r)
  <2>1. /\ pc[r] = "waiting" /\ pc'[r] = "locked" /\ call' = call /\ seen' = seen
        /\ evict' = evict /\ quotalock' = quotalock /\ live' = live
        /\ live <=> call[r].op # "restore"
    BY <1>2, <1>t DEF LockHousehold, StillApplies, TypeOK, dbVars
  <2>2. Steady(r)'
    BY <1>t, <2>1 DEF Steady, Counts
  <2> QED
    BY <1>2, <1>t, <2>1, <2>2, UnseenStep DEF LockHousehold, TypeOK, Steady, Counts
<1>3. CASE LocateOwners(r) \/ LockOwnerRows(r)
  <2>1. /\ pc[r] \in {"locked", "owners"} /\ pc'[r] \in {"owners", "decide"}
        /\ call' = call /\ evict' = evict /\ quotalock' = quotalock /\ live' = live
        /\ \A s \in Reqs \ {r} : pc'[s] = pc[s] /\ seen'[s] = seen[s]
    BY <1>3, <1>t DEF LocateOwners, LockOwnerRows, TypeOK, dbVars, lockVars
  <2>2. Steady(r)'
    BY <1>t, <2>1 DEF Steady, Counts, Inside
  <2> QED
    BY <1>3, <1>t, <2>1, <2>2, UnseenStep
       DEF LocateOwners, LockOwnerRows, Steady, Counts
<1>4. CASE Decide(r)
  <2>1. /\ pc[r] \in {"locked", "decide"} /\ pc'[r] = "writing"
        /\ call' = call /\ evict' = evict /\ quotalock' = quotalock /\ live' = live
        /\ members' = members /\ call[r].op # "admit"
        /\ call[r].op = "delete" => seen'[r] = Owners(members)
        /\ \A s \in Reqs \ {r} : pc'[s] = pc[s] /\ seen'[s] = seen[s]
    BY <1>4, <1>t DEF Decide, Deciding, Allowed, TypeOK, dbVars, lockVars
  <2>2. Steady(r)'
    BY <1>t, <2>1 DEF Steady, Counts, Inside
  <2> QED
    BY <1>4, <1>t, <2>1, <2>2, UnseenStep DEF Decide, Steady, Counts
<1>5. CASE AskQuota(r)
  <2>1. /\ pc[r] = "locked" /\ pc'[r] = "quota" /\ call' = call /\ seen' = seen
        /\ evict' = evict /\ quotalock' = quotalock /\ live' = live
        /\ \A s \in Reqs \ {r} : pc'[s] = pc[s]
    BY <1>5, <1>t DEF AskQuota, TypeOK, dbVars, lockVars
  <2>2. Steady(r)'
    BY <1>t, <2>1 DEF Steady, Counts, Inside
  <2> QED
    BY <1>5, <1>t, <2>1, <2>2, UnseenStep DEF AskQuota, Steady, Counts
<1>6. CASE LockQuota(r)
  <2>1. /\ pc[r] = "quota" /\ pc'[r] = "counting" /\ call' = call /\ seen' = seen
        /\ evict' = evict /\ live' = live /\ quotalock = {} /\ quotalock' = {r}
        /\ \A s \in Reqs \ {r} : pc'[s] = pc[s]
    BY <1>6, <1>t DEF LockQuota, TypeOK, dbVars
  <2>2. Steady(r)'
    BY <1>t, <2>1 DEF Steady, Counts, Inside
  <2> QED
    BY <1>6, <1>t, <2>1, <2>2, UnseenStep DEF LockQuota
<1>7. CASE CountMembers(r)
  <2>1. /\ pc[r] = "counting" /\ pc'[r] = "writing" /\ call' = call /\ seen' = seen
        /\ evict' = evict /\ quotalock' = quotalock /\ live' = live
        /\ UnderCap' /\ call[r].op = "admit"
        /\ \A s \in Reqs \ {r} : pc'[s] = pc[s]
    BY <1>7, <1>t DEF CountMembers, TypeOK, dbVars, lockVars, UnderCap, ReadsStayTrue
  <2>2. Steady(r)'
    BY <1>t, <2>1 DEF Steady, Counts, Inside
  <2>3. quotalock' \subseteq {r}
    BY <1>t, <2>1 DEF Steady, Counts
  <2> QED
    BY <1>7, <1>t, <2>1, <2>2, <2>3, UnseenStep DEF CountMembers
<1> QED
  BY <1>1, <1>2, <1>3, <1>4, <1>5, <1>6, <1>7

(* A refusal frees what the request held. *)
LEMMA ServiceRefusal ==
  ASSUME NEW r \in Reqs, RosterInv, ServiceInv, Refuse(r)
  PROVE  ServiceInv'
<1>t. TypeOK /\ Steady(r)
  BY DEF RosterInv, ServiceInv
<1>1. /\ pc'[r] = "idle" /\ evict' = evict /\ quotalock' = quotalock \ {r}
      /\ pc[r] # "committed"
  BY <1>t DEF Refuse, Refused, Deciding, End, Release, TypeOK
<1>2. Steady(r)'
  BY <1>t, <1>1 DEF Steady, Counts, Inside
<1> QED
  BY <1>t, <1>1, <1>2, UnseenStep DEF Refuse, End, Release, TypeOK

(* The end of a request that owes evictions: sent, or lost with its process. *)
LEMMA ServiceEnding ==
  ASSUME NEW r \in Reqs, RosterInv, ServiceInv, Evict(r) \/ Crash(r)
  PROVE  ServiceInv'
<1>t. TypeOK /\ Steady(r) /\ \A s, t \in quotalock : s = t
  BY DEF RosterInv, ServiceInv
<1>1. /\ live' = live /\ members' = members /\ grants' = grants
      /\ pc'[r] = "idle" /\ evict'[r] = {} /\ quotalock' = quotalock \ {r}
  <2>1. CASE Evict(r)
    BY <1>t, <2>1 DEF Evict, End, TypeOK, dbVars, lockVars, Steady, Counts
  <2>2. CASE Crash(r)
    BY <1>t, <2>2 DEF Crash, End, Release, TypeOK, dbVars
  <2> QED
    BY <2>1, <2>2
<1>2. \A s \in Reqs \ {r} : /\ pc'[s] = pc[s] /\ call'[s] = call[s]
                            /\ seen'[s] = seen[s] /\ evict'[s] = evict[s]
  BY <1>t DEF Evict, Crash, End, Release, TypeOK
<1>3. Steady(r)'
  BY <1>1 DEF Steady, Counts, Inside
<1>4. \A s \in Reqs \ {r} : Steady(s)'
  BY <1>1, <1>2, SteadyKept DEF ServiceInv
<1>5. CapHeld' /\ RecoveryGrantsFit'
  BY <1>1 DEF ServiceInv, CapHeld, RecoveryGrantsFit
<1>6. EveryChangeEvicts'
  <2>1. SUFFICES ASSUME NEW u \in stale' PROVE u \in lost' \/ \E s \in Reqs : u \in evict'[s]
    BY DEF EveryChangeEvicts
  <2>2. u \in stale /\ (u \in lost \/ \E s \in Reqs : u \in evict[s])
    BY <2>1 DEF Evict, Crash, ServiceInv, EveryChangeEvicts
  <2>3. CASE Evict(r)
    BY <1>2, <2>1, <2>2, <2>3 DEF Evict
  <2>4. CASE Crash(r)
    BY <1>2, <2>1, <2>2, <2>4 DEF Crash
  <2> QED
    BY <2>3, <2>4
<1> QED
  BY <1>t, <1>1, <1>3, <1>4, <1>5, <1>6 DEF ServiceInv

-----------------------------------------------------------------------------
(* Commits: each is an operation of HouseholdSpec.                           *)

(* The rules are the same in both specifications. *)
LEMMA RulesAgree ==
  /\ H!AssignableRoles = AssignableRoles
  /\ H!LiveRows(members) = LiveRows(members)
  /\ H!Owners(members) = Owners(members)
  /\ \A user : H!RowsOfUser(members, user) = RowsOfUser(members, user)
  /\ \A user : H!IsMember(members, user) <=> IsMember(members, user)
  /\ \A actor, role : H!MayManage(members, actor, role) <=> MayManage(members, actor, role)
  /\ \A actor : H!MayBan(members, actor) <=> MayBan(members, actor)
  /\ \A rows : H!UsersOf(rows) = UsersOf(rows)
<1>1. H!AssignableRoles = AssignableRoles /\ H!RoleNames = RoleNames
  BY DEF AssignableRoles, H!AssignableRoles, RoleNames, H!RoleNames
<1>2. H!LiveRows(members) = LiveRows(members)
  BY <1>1 DEF LiveRows, H!LiveRows
<1>3. H!Owners(members) = Owners(members)
  BY DEF Owners, H!Owners
<1>4. \A user : H!RowsOfUser(members, user) = RowsOfUser(members, user)
  BY <1>2 DEF RowsOfUser, H!RowsOfUser
<1>5. \A user : H!IsMember(members, user) <=> IsMember(members, user)
  BY <1>4 DEF IsMember, H!IsMember
<1>6. \A actor, role : H!MayManage(members, actor, role) <=> MayManage(members, actor, role)
  BY DEF MayManage, H!MayManage, HoldsOneOf, H!HoldsOneOf
<1>7. \A actor : H!MayBan(members, actor) <=> MayBan(members, actor)
  BY DEF MayBan, H!MayBan, HoldsOneOf, H!HoldsOneOf
<1>8. \A rows : H!UsersOf(rows) = UsersOf(rows)
  BY DEF UsersOf, H!UsersOf
<1> QED
  BY <1>1, <1>2, <1>3, <1>4, <1>5, <1>6, <1>7, <1>8

(* So is the size of a set. *)
LEMMA CardinalityAgrees == \A S : H!Cardinality(S) = Cardinality(S)
  BY DEF Cardinality, H!Cardinality

(* What a request that is about to write knows. *)
LEMMA AtWriting ==
  ASSUME NEW r \in Reqs, RosterInv, ServiceInv, Write(r)
  PROVE  /\ TypeOK /\ pc[r] = "writing" /\ MayStart(r)
         /\ members \in Rosters /\ OneRowPerUser(members)
         /\ live \in BOOLEAN /\ (live <=> call[r].op # "restore")
         /\ call[r].op # "admit" => Allowed(r)
         /\ call[r].op = "admit" => UnderCap /\ call[r].actor \notin banned
         /\ call[r].op \in {"updateMemberRole", "ban"} =>
                UserOf[call[r].row] # call[r].actor
         /\ call[r].op = "delete" => seen[r] = Owners(members)
         /\ ActsOnOwners(r) => seen[r] = Owners(members)
         /\ live => grants = {}
         /\ grants \subseteq UsersOf(Owners(members))
<1>1. pc[r] = "writing"
  BY DEF Write, UpdateMemberRole, TransferOwnership, DeleteMembership,
         BanUser, LiftBan, AdmitMember, DeleteHousehold, RestoreHousehold, Commit
<1>2. TypeOK /\ ReadsStayTrue(r) /\ Steady(r) /\ OneRowPerUser(members)
      /\ RecoveryGrantsFit
  BY DEF RosterInv, ServiceInv, NoDuplicateMember
<1>3. ActsOnOwners(r) => call[r].op # "admit"
  BY DEF ActsOnOwners
<1> QED
  BY <1>1, <1>2, <1>3 DEF ReadsStayTrue, Steady, Inside, TypeOK, RecoveryGrantsFit

(* A changed role. *)
LEMMA RoleChangeImplements ==
  ASSUME NEW r \in Reqs, RosterInv, ServiceInv, Write(r), UpdateMemberRole(r)
  PROVE  H!AbsNext
<1> DEFINE c == call[r]
<1>1. /\ c.actor \in Users /\ c.row \in MemberIds /\ c.role \in AssignableRoles
      /\ c.op = "updateMemberRole"
  BY CallType DEF RosterInv, UpdateMemberRole
<1>2. live /\ MayUpdateRole(r) /\ UserOf[c.row] # c.actor
  BY <1>1, AtWriting DEF Allowed
<1>3. members' = [members EXCEPT ![c.row] = c.role] /\ UNCHANGED <<live, banned, grants>>
  BY DEF UpdateMemberRole
<1>4. H!UpdateMemberRole(c.actor, c.row, c.role)
  BY <1>1, <1>2, <1>3, RulesAgree DEF H!UpdateMemberRole, MayUpdateRole
<1> QED
  BY <1>1, <1>4, RulesAgree DEF H!AbsNext

(* A transfer: the actor's one row is the owner's that it gives up. *)
LEMMA TransferImplements ==
  ASSUME NEW r \in Reqs, RosterInv, ServiceInv, Write(r), TransferOwnership(r)
  PROVE  H!AbsNext
<1> DEFINE c == call[r]
<1>1. c.row \in MemberIds /\ c.op = "transferOwnership"
  BY CallType DEF RosterInv, TransferOwnership
<1>2. live /\ MayTransfer(r) /\ seen[r] = Owners(members) /\ OneRowPerUser(members)
      /\ members \in Rosters
  BY <1>1, AtWriting DEF Allowed, ActsOnOwners
<1>3. PICK own \in ActorRows(r) : own \in Owners(members)
  BY <1>2 DEF MayTransfer
<1>4. c.row \in LiveRows(members) \ Owners(members) /\ UserOf[c.row] # c.actor
  BY <1>2 DEF MayTransfer
<1>5. ActorRows(r) = {own} /\ own # c.row /\ own \in MemberIds
  BY <1>2, <1>3, <1>4 DEF ActorRows, RowsOfUser, OneRowPerUser, LiveRows
<1>6. members' = [members EXCEPT ![own] = "HouseholdAdmin", ![c.row] = "HouseholdOwner"]
      /\ UNCHANGED <<live, banned, grants>>
  <2>1. members' = [i \in MemberIds |->
                       IF i = c.row THEN "HouseholdOwner"
                       ELSE IF i = own THEN "HouseholdAdmin" ELSE members[i]]
    BY <1>5 DEF TransferOwnership
  <2>2. UNCHANGED <<live, banned, grants>>
    BY DEF TransferOwnership
  <2> QED
    BY <1>1, <1>2, <1>5, <2>1, <2>2 DEF Rosters
<1>7. H!TransferOwnership(own, c.row)
  BY <1>2, <1>3, <1>4, <1>6, RulesAgree DEF H!TransferOwnership
<1> QED
  BY <1>1, <1>5, <1>7 DEF H!AbsNext

(* A departure takes one row, and never the last owner's. *)
LEMMA RowDeparts ==
  ASSUME NEW r \in Reqs, RosterInv, ServiceInv, Write(r), NEW i \in MemberIds,
         call[r].op \in {"removeMember", "leave", "ban"},
         Departing(r) = {i}, members' = Gone(Departing(r))
  PROVE  H!Departs(i)
<1>1. pc[r] = "writing" /\ members \in Rosters /\ MayDepart(r)
  BY AtWriting DEF Allowed
<1>2. i \in LiveRows(members)
  BY <1>1 DEF MayDepart
<1>3. Owners(members) # {i}
  <2>1. Owners(Gone({i})) # {}
    BY <1>1, DepartureKeepsOwner
  <2> QED
    BY <2>1 DEF Owners, Gone
<1>4. members' = [members EXCEPT ![i] = "gone"]
  BY <1>1 DEF Gone, Rosters
<1> QED
  BY <1>2, <1>3, <1>4, RulesAgree DEF H!Departs

(* Leaving, or being removed. *)
LEMMA DepartureImplements ==
  ASSUME NEW r \in Reqs, RosterInv, ServiceInv, Write(r), DeleteMembership(r)
  PROVE  H!AbsNext
<1> DEFINE c == call[r]
<1>1. /\ c.row \in MemberIds /\ c.actor \in Users /\ c.op \in {"removeMember", "leave"}
      /\ Departing(r) = {c.row}
  BY CallType DEF RosterInv, DeleteMembership, Departing
<1>2. live /\ MayDepart(r)
  BY <1>1, AtWriting DEF Allowed
<1>3. H!Departs(c.row)
  BY <1>1, RowDeparts DEF DeleteMembership
<1>4. UNCHANGED <<live, banned, grants>>
  BY DEF DeleteMembership
<1>5. CASE c.op = "leave"
  <2>1. H!Leave(c.row)
    BY <1>2, <1>3, <1>4 DEF H!Leave
  <2> QED
    BY <1>1, <2>1 DEF H!AbsNext
<1>6. CASE c.op = "removeMember"
  <2>1. MayManage(members, c.actor, members[c.row])
    BY <1>1, <1>2, <1>6 DEF MayDepart
  <2>2. H!RemoveMember(c.actor, c.row)
    BY <1>2, <1>3, <1>4, <2>1, RulesAgree DEF H!RemoveMember
  <2> QED
    BY <1>1, <2>2 DEF H!AbsNext
<1> QED
  BY <1>1, <1>5, <1>6

(* A ban takes its target's row, if there is one. *)
LEMMA BanImplements ==
  ASSUME NEW r \in Reqs, RosterInv, ServiceInv, Write(r), BanUser(r)
  PROVE  H!AbsNext
<1> DEFINE c == call[r]
           user == UserOf[c.row]
<1>1. /\ c.row \in MemberIds /\ c.actor \in Users /\ c.op = "ban" /\ user \in Users
      /\ Departing(r) = RowsOfUser(members, user)
  BY CallType DEF RosterInv, BanUser, Departing
<1>2. /\ live /\ user # c.actor /\ MayStart(r) /\ OneRowPerUser(members)
      /\ members \in Rosters
  BY <1>1, AtWriting
<1>3. user \notin banned /\ MayBan(members, c.actor)
      /\ \A i \in RowsOfUser(members, user) : MayManage(members, c.actor, members[i])
  BY <1>1, <1>2 DEF MayStart
<1>4. /\ members' = Gone(Departing(r)) /\ banned' = banned \cup {user}
      /\ UNCHANGED <<live, grants>>
  BY DEF BanUser
<1> HIDE DEF c, user
<1>5. CASE RowsOfUser(members, user) = {}
  <2>1. members' = members /\ ~ IsMember(members, user)
    BY <1>1, <1>2, <1>4, <1>5 DEF Gone, Rosters, IsMember
  <2>2. H!Ban(c.actor, user)
    BY <1>2, <1>3, <1>4, <2>1, RulesAgree DEF H!Ban
  <2> QED
    BY <1>1, <2>2 DEF H!AbsNext
<1>6. CASE RowsOfUser(members, user) # {}
  <2>1. PICK i \in RowsOfUser(members, user) : TRUE
    BY <1>6
  <2>2. i \in MemberIds /\ RowsOfUser(members, user) = {i}
    BY <1>2, <2>1 DEF RowsOfUser, LiveRows, OneRowPerUser
  <2>3. H!Departs(i)
    BY <1>1, <1>4, <2>2, RowDeparts DEF c
  <2>4. H!Ban(c.actor, user)
    BY <1>2, <1>3, <1>4, <2>1, <2>3, RulesAgree DEF H!Ban
  <2> QED
    BY <1>1, <2>4 DEF H!AbsNext
<1> QED
  BY <1>5, <1>6

(* A lift, an admission under the cap, a delete and a restore. *)
LEMMA OtherWritesImplement ==
  ASSUME NEW r \in Reqs, RosterInv, ServiceInv, Write(r),
         LiftBan(r) \/ AdmitMember(r) \/ DeleteHousehold(r) \/ RestoreHousehold(r)
  PROVE  H!AbsNext
<1> DEFINE c == call[r]
<1>1. /\ c.row \in MemberIds /\ c.actor \in Users /\ c.role \in AssignableRoles
      /\ UserOf[c.row] \in Users
  BY CallType DEF RosterInv
<1>2. CASE LiftBan(r)
  <2>1. c.op = "lift" /\ live /\ MayLift(r)
    BY <1>2, AtWriting DEF LiftBan, Allowed
  <2>2. H!Lift(c.actor, UserOf[c.row])
    BY <1>2, <2>1, RulesAgree DEF LiftBan, MayLift, H!Lift
  <2> QED
    BY <1>1, <2>2 DEF H!AbsNext
<1>3. CASE AdmitMember(r)
  <2>1. c.op = "admit" /\ live /\ UnderCap /\ c.actor \notin banned
    BY <1>3, AtWriting DEF AdmitMember
  <2>2. PICK i \in MemberIds : /\ UserOf[i] = c.actor /\ members[i] = "unborn"
                               /\ members' = [members EXCEPT ![i] = c.role]
    BY <1>3 DEF AdmitMember
  <2>3. ~ IsMember(members, c.actor) /\ UNCHANGED <<live, banned, grants>>
    BY <1>3 DEF AdmitMember, UniqueIndexAllows
  <2>4. Cardinality(LiveRows(members)) < Cap
    <3>1. LiveRows(members) \subseteq MemberIds
      BY DEF LiveRows
    <3>2. Cardinality(LiveRows(members)) \in Nat
      BY <3>1, FS_Subset, FS_CardinalityType
    <3> QED
      BY <2>1, <3>2 DEF UnderCap
  <2>5. ~ H!IsMember(members, UserOf[i]) /\ UserOf[i] \notin banned
    BY <2>1, <2>2, <2>3, RulesAgree
  <2>6. H!Cardinality(H!LiveRows(members)) < Cap
    BY <2>4, RulesAgree, CardinalityAgrees
  <2>7. H!Admit(i, c.role)
    BY <2>1, <2>2, <2>3, <2>5, <2>6 DEF H!Admit
  <2> QED
    BY <1>1, <2>2, <2>7, RulesAgree DEF H!AbsNext
<1>4. CASE DeleteHousehold(r)
  <2>1. c.op = "delete" /\ live /\ grants = {} /\ seen[r] = Owners(members)
    BY <1>4, AtWriting DEF DeleteHousehold
  <2>2. H!SoftDelete(c.actor)
    BY <1>4, <2>1, RulesAgree DEF DeleteHousehold, H!SoftDelete
  <2> QED
    BY <1>1, <2>2 DEF H!AbsNext
<1>5. CASE RestoreHousehold(r)
  <2>1. c.op = "restore" /\ ~ live
    BY <1>5, AtWriting DEF RestoreHousehold
  <2>2. H!Restore
    BY <1>5, <2>1 DEF RestoreHousehold, H!Restore
  <2> QED
    BY <2>2 DEF H!AbsNext
<1> QED
  BY <1>2, <1>3, <1>4, <1>5

(* Every write is one operation of the household its callers see. *)
LEMMA WriteImplements ==
  ASSUME NEW r \in Reqs, RosterInv, ServiceInv, Write(r)
  PROVE  H!AbsNext
  BY RoleChangeImplements, TransferImplements, DepartureImplements, BanImplements,
     OtherWritesImplement DEF Write

-----------------------------------------------------------------------------
(* What every operation of the household keeps, its requests keep.           *)

(* A recovery grant comes with a delete, and goes with the restore that has  *)
(* to come before anything else.                                             *)
LEMMA OperationKeepsGrants ==
  ASSUME RecoveryGrantsFit, live \in BOOLEAN, H!AbsNext
  PROVE  RecoveryGrantsFit'
<1>1. \/ live /\ live' = live /\ grants' = grants
      \/ \E actor \in Users : H!SoftDelete(actor)
      \/ H!Restore
  BY DEF H!AbsNext, H!UpdateMemberRole, H!TransferOwnership, H!Leave, H!RemoveMember,
         H!Admit, H!Ban, H!Lift
<1>2. CASE live /\ live' = live /\ grants' = grants
  BY <1>2 DEF RecoveryGrantsFit
<1>3. ASSUME NEW actor \in Users, H!SoftDelete(actor) PROVE RecoveryGrantsFit'
  BY <1>3, RulesAgree DEF H!SoftDelete, RecoveryGrantsFit
<1>4. CASE H!Restore
  BY <1>4 DEF H!Restore, RecoveryGrantsFit
<1> QED
  BY <1>1, <1>2, <1>3, <1>4

(* Only an admission adds a row, and only where the cap leaves room. *)
LEMMA OperationAddsRow ==
  ASSUME members \in Rosters, H!AbsNext
  PROVE  \/ LiveRows(members') \subseteq LiveRows(members)
         \/ \E row \in MemberIds : /\ LiveRows(members') \subseteq LiveRows(members) \cup {row}
                                   /\ Cardinality(LiveRows(members)) < Cap
<1> DEFINE Same == LiveRows(members') \subseteq LiveRows(members)
<1>1. ASSUME NEW actor \in Users, NEW row \in MemberIds, NEW role \in H!AssignableRoles,
             H!UpdateMemberRole(actor, row, role)
      PROVE  Same
  BY <1>1, RulesAgree DEF H!UpdateMemberRole, LiveRows, Rosters
<1>2. ASSUME NEW own \in MemberIds, NEW row \in MemberIds, H!TransferOwnership(own, row)
      PROVE  Same
  <2>1. own \in LiveRows(members) /\ row \in LiveRows(members)
    BY <1>2, RulesAgree DEF H!TransferOwnership, LiveRows, Owners, RoleNames
  <2>2. \A i \in MemberIds \ {own, row} : members'[i] = members[i]
    BY <1>2 DEF H!TransferOwnership, Rosters
  <2> QED
    BY <2>1, <2>2 DEF LiveRows
<1>3. ASSUME NEW row \in MemberIds, H!Departs(row)
      PROVE  Same
  BY <1>3 DEF H!Departs, LiveRows, Rosters, RoleNames, AssignableRoles
<1>4. ASSUME NEW row \in MemberIds, NEW role \in H!AssignableRoles, H!Admit(row, role)
      PROVE  /\ LiveRows(members') \subseteq LiveRows(members) \cup {row}
             /\ Cardinality(LiveRows(members)) < Cap
  <2>1. \A i \in MemberIds \ {row} : members'[i] = members[i]
    BY <1>4 DEF H!Admit, Rosters
  <2> QED
    BY <1>4, <2>1, RulesAgree, CardinalityAgrees DEF H!Admit, LiveRows
<1>5. ASSUME NEW actor \in Users, NEW user \in Users, H!Ban(actor, user) \/ H!Lift(actor, user)
      PROVE  Same
  <2>1. members' = members \/ \E row \in RowsOfUser(members, user) : H!Departs(row)
    BY <1>5, RulesAgree DEF H!Ban, H!Lift
  <2>2. RowsOfUser(members, user) \subseteq MemberIds
    BY DEF RowsOfUser, LiveRows
  <2> QED
    BY <1>3, <2>1, <2>2
<1>6. (\E actor \in Users : H!SoftDelete(actor)) \/ H!Restore => Same
  BY DEF H!SoftDelete, H!Restore
<1>7. ASSUME NEW row \in MemberIds, H!Leave(row) \/ \E actor \in Users : H!RemoveMember(actor, row)
      PROVE  Same
  BY <1>3, <1>7 DEF H!Leave, H!RemoveMember
<1> HIDE DEF Same
<1>8. Same \/ \E row \in MemberIds : /\ LiveRows(members') \subseteq LiveRows(members) \cup {row}
                                     /\ Cardinality(LiveRows(members)) < Cap
  BY <1>1, <1>2, <1>4, <1>5, <1>6, <1>7 DEF H!AbsNext
<1> QED
  BY <1>8 DEF Same

(* So the cap holds after every operation. *)
LEMMA OperationKeepsCap ==
  ASSUME CapHeld, members \in Rosters, H!AbsNext
  PROVE  CapHeld'
<1> DEFINE Now == LiveRows(members)
           Then == LiveRows(members')
<1>1. IsFiniteSet(Now) /\ Cardinality(Now) \in Nat
  <2>1. Now \subseteq MemberIds
    BY DEF LiveRows
  <2> QED
    BY <2>1, FS_Subset, FS_CardinalityType
<1>2. IsFiniteSet(Then) /\ Cardinality(Then) \in Nat
  <2>1. Then \subseteq MemberIds
    BY DEF LiveRows
  <2> QED
    BY <2>1, FS_Subset, FS_CardinalityType
<1>3. Cardinality(LiveRows(Initial)) \in Nat
  <2>1. LiveRows(Initial) \subseteq MemberIds
    BY DEF LiveRows
  <2> QED
    BY <2>1, FS_Subset, FS_CardinalityType
<1> HIDE DEF Now, Then
<1>4. CASE Then \subseteq Now
  <2>1. Cardinality(Then) <= Cardinality(Now)
    BY <1>1, <1>4, FS_Subset
  <2> QED
    BY <1>1, <1>2, <1>3, <2>1 DEF CapHeld, Now, Then
<1>5. ASSUME NEW row \in MemberIds, Then \subseteq Now \cup {row}, Cardinality(Now) < Cap
      PROVE  CapHeld'
  <2>1. IsFiniteSet(Now \cup {row}) /\ Cardinality(Now \cup {row}) <= Cardinality(Now) + 1
    <3>1. CASE row \in Now
      <4>1. Now \cup {row} = Now
        BY <3>1
      <4> QED
        BY <1>1, <4>1
    <3>2. CASE row \notin Now
      <4>1. /\ IsFiniteSet(Now \cup {row})
            /\ Cardinality(Now \cup {row}) = Cardinality(Now) + 1
        BY <1>1, <3>2, FS_AddElement
      <4> QED
        BY <1>1, <4>1
    <3> QED
      BY <3>1, <3>2
  <2>2. Cardinality(Then) <= Cardinality(Now \cup {row})
        /\ Cardinality(Now \cup {row}) \in Nat
    BY <1>5, <2>1, FS_Subset, FS_CardinalityType
  <2>3. Cardinality(Then) <= Cap
    BY <1>1, <1>2, <1>5, <2>1, <2>2
  <2> QED
    BY <2>3 DEF CapHeld, Then
<1> QED
  BY <1>4, <1>5, OperationAddsRow DEF Now, Then

-----------------------------------------------------------------------------
(* The evictions a commit owes are those of everyone whose standing changed. *)

(* A standing is what a user's rows, the household's life and the user's      *)
(* grant make of it.                                                          *)
LEMMA SameStanding ==
  ASSUME NEW u \in Users, live' = live, grants' = grants,
         \A i \in MemberIds : UserOf[i] = u => members'[i] = members[i]
  PROVE  Standing(live, members, grants, u) = Standing(live', members', grants', u)
<1>1. RowsOfUser(members', u) = RowsOfUser(members, u)
  BY DEF RowsOfUser, LiveRows
<1>2. {members'[i] : i \in RowsOfUser(members', u)} = {members[i] : i \in RowsOfUser(members, u)}
  BY <1>1 DEF RowsOfUser, LiveRows
<1> QED
  BY <1>2 DEF Standing

(* A user with no row and no grant is unaffected by a delete or a restore. *)
LEMMA OutsiderStanding ==
  ASSUME NEW u \in Users, members' = members, RowsOfUser(members, u) = {},
         u \notin grants, u \notin grants'
  PROVE  Standing(live, members, grants, u) = Standing(live', members', grants', u)
<1>1. {members[i] : i \in RowsOfUser(members, u)} = {}
  OBVIOUS
<1>2. {members'[i] : i \in RowsOfUser(members', u)} = {}
  BY <1>1
<1>3. Standing(live, members, grants, u) = <<{}, u \in grants>>
  BY <1>1 DEF Standing
<1>4. Standing(live', members', grants', u) = <<{}, u \in grants'>>
  BY <1>2 DEF Standing
<1>5. (u \in grants) = (u \in grants')
  OBVIOUS
<1> QED
  BY <1>3, <1>4, <1>5

(* Whoever's standing a write changes is owed an eviction by it. *)
LEMMA WriteOwes ==
  ASSUME NEW r \in Reqs, RosterInv, ServiceInv, Write(r)
  PROVE  \E owed \in SUBSET Users :
             /\ Commit(r, owed)
             /\ \A u \in Users \ owed :
                    Standing(live, members, grants, u)
                        = Standing(live', members', grants', u)
<1> DEFINE c == call[r]
           Owes(owed) ==
               /\ Commit(r, owed)
               /\ \A u \in Users \ owed :
                      Standing(live, members, grants, u)
                          = Standing(live', members', grants', u)
<1>t. /\ TypeOK /\ members \in Rosters /\ c.row \in MemberIds /\ c.actor \in Users
      /\ UserOf[c.row] \in Users /\ Departing(r) \in SUBSET MemberIds
  BY CallType DEF RosterInv, TypeOK
<1>l. LiveRows(members) \subseteq MemberIds /\ Owners(members) \subseteq LiveRows(members)
  BY DEF LiveRows, Owners, RoleNames
<1> SUFFICES \E owed \in SUBSET Users : Owes(owed)
  OBVIOUS
<1> HIDE DEF c
<1>1. CASE UpdateMemberRole(r)
  <2>1. Commit(r, {UserOf[c.row]}) /\ live' = live /\ grants' = grants
        /\ members' = [members EXCEPT ![c.row] = c.role]
    BY <1>1 DEF UpdateMemberRole, c
  <2>2. \A i \in MemberIds : UserOf[i] # UserOf[c.row] => members'[i] = members[i]
    BY <1>t, <2>1 DEF Rosters
  <2>3. Owes({UserOf[c.row]})
    BY <2>1, <2>2, SameStanding
  <2> QED
    BY <1>t, <2>3
<1>2. CASE TransferOwnership(r)
  <2>1. /\ Commit(r, {c.actor, UserOf[c.row]}) /\ live' = live /\ grants' = grants
        /\ members' = [i \in MemberIds |->
                          IF i = c.row THEN "HouseholdOwner"
                          ELSE IF i \in ActorRows(r) THEN "HouseholdAdmin"
                          ELSE members[i]]
    BY <1>2 DEF TransferOwnership, c
  <2>2. \A i \in MemberIds : UserOf[i] \notin {c.actor, UserOf[c.row]} => members'[i] = members[i]
    BY <1>t, <2>1 DEF ActorRows, RowsOfUser, c
  <2>3. Owes({c.actor, UserOf[c.row]})
    BY <2>1, <2>2, SameStanding
  <2> QED
    BY <1>t, <2>3
<1>3. CASE DeleteMembership(r) \/ BanUser(r)
  <2>1. /\ Commit(r, UsersOf(Departing(r))) /\ live' = live /\ grants' = grants
        /\ members' = Gone(Departing(r))
    BY <1>3 DEF DeleteMembership, BanUser
  <2>2. \A i \in MemberIds : UserOf[i] \notin UsersOf(Departing(r)) => members'[i] = members[i]
    BY <1>t, <2>1 DEF Gone, UsersOf
  <2>3. Owes(UsersOf(Departing(r))) /\ UsersOf(Departing(r)) \in SUBSET Users
    BY <1>t, <2>1, <2>2, SameStanding, RowUsers
  <2> QED
    BY <2>3
<1>4. CASE LiftBan(r)
  <2>1. Commit(r, {}) /\ live' = live /\ grants' = grants /\ members' = members
    BY <1>4 DEF LiftBan
  <2>2. Owes({})
    BY <2>1, SameStanding
  <2> QED
    BY <2>2
<1>5. CASE AdmitMember(r)
  <2>1. /\ Commit(r, {c.actor}) /\ live' = live /\ grants' = grants
        /\ \E i \in MemberIds : /\ UserOf[i] = c.actor
                                /\ members' = [members EXCEPT ![i] = c.role]
    BY <1>5 DEF AdmitMember, c
  <2>2. \A i \in MemberIds : UserOf[i] # c.actor => members'[i] = members[i]
    BY <1>t, <2>1 DEF Rosters
  <2>3. Owes({c.actor})
    BY <2>1, <2>2, SameStanding
  <2> QED
    BY <1>t, <2>3
<1>6. CASE DeleteHousehold(r) \/ RestoreHousehold(r)
  <2>1. /\ Commit(r, UsersOf(LiveRows(members))) /\ members' = members
    BY <1>6 DEF DeleteHousehold, RestoreHousehold
  <2>2. grants \subseteq UsersOf(LiveRows(members))
    BY <1>l, AtWriting DEF UsersOf
  <2>3. grants' \subseteq UsersOf(LiveRows(members))
    <3>1. CASE DeleteHousehold(r)
      <4>1. seen[r] = Owners(members)
        BY <3>1, AtWriting DEF DeleteHousehold
      <4> QED
        BY <1>l, <2>2, <3>1, <4>1 DEF DeleteHousehold, UsersOf
    <3>2. CASE RestoreHousehold(r)
      BY <3>2 DEF RestoreHousehold
    <3> QED
      BY <1>6, <3>1, <3>2
  <2>4. \A u \in Users \ UsersOf(LiveRows(members)) : RowsOfUser(members, u) = {}
    BY DEF RowsOfUser, UsersOf
  <2>5. Owes(UsersOf(LiveRows(members))) /\ UsersOf(LiveRows(members)) \in SUBSET Users
    BY <1>l, <2>1, <2>2, <2>3, <2>4, OutsiderStanding, RowUsers
  <2> QED
    BY <2>5
<1> QED
  BY <1>1, <1>2, <1>3, <1>4, <1>5, <1>6 DEF Write

(* A write keeps everything. *)
LEMMA ServiceWrite ==
  ASSUME NEW r \in Reqs, RosterInv, ServiceInv, Write(r)
  PROVE  ServiceInv'
<1>t. /\ TypeOK /\ pc[r] = "writing" /\ Steady(r) /\ CapHeld /\ RecoveryGrantsFit
      /\ members \in Rosters /\ live \in BOOLEAN
      /\ \A s, t \in quotalock : s = t
  BY AtWriting DEF ServiceInv
<1>1. PICK owed \in SUBSET Users :
          /\ Commit(r, owed)
          /\ \A u \in Users \ owed :
                 Standing(live, members, grants, u)
                     = Standing(live', members', grants', u)
  BY WriteOwes
<1>2. /\ pc'[r] = "committed" /\ call' = call /\ quotalock' = quotalock \ {r}
      /\ evict'[r] = owed /\ lost' = lost /\ evict[r] = {}
      /\ \A s \in Reqs \ {r} : /\ pc'[s] = pc[s] /\ seen'[s] = seen[s]
                               /\ evict'[s] = evict[s]
  BY <1>t, <1>1 DEF Commit, Release, TypeOK, Steady
<1>3. Steady(r)'
  BY <1>t, <1>2 DEF Steady, Counts, Inside
<1>4. ASSUME NEW s \in Reqs \ {r} PROVE Steady(s)'
  <2>1. Steady(s) /\ (s \in quotalock' <=> s \in quotalock)
    BY <1>2 DEF ServiceInv
  <2>2. CASE Inside(s)
    <3>1. call[r].op = "admit" /\ call[s].op = "admit"
      BY <1>t, <2>2, WriterExcludes
    <3>2. r \in quotalock
      BY <1>t, <3>1 DEF Steady, Counts
    <3>3. s \notin quotalock
      BY <1>t, <3>2
    <3>4. pc[s] \notin {"counting", "writing"}
      BY <2>1, <3>1, <3>3 DEF Steady, Counts
    <3>5. AdmitMember(r) /\ live' = live
      BY <3>1 DEF Write, UpdateMemberRole, TransferOwnership, DeleteMembership,
                  BanUser, LiftBan, AdmitMember, DeleteHousehold, RestoreHousehold
    <3> QED
      BY <1>2, <2>1, <3>1, <3>4, <3>5 DEF Steady, Counts, Inside
  <2>3. CASE ~ Inside(s)
    BY <1>2, <2>1, <2>3 DEF Steady, Counts, Inside
  <2> QED
    BY <2>2, <2>3
<1>5. CapHeld' /\ RecoveryGrantsFit'
  BY <1>t, WriteImplements, OperationKeepsCap, OperationKeepsGrants
<1>6. EveryChangeEvicts'
  <2>1. SUFFICES ASSUME NEW u \in stale' PROVE u \in lost' \/ \E s \in Reqs : u \in evict'[s]
    BY DEF EveryChangeEvicts
  <2>2. u \in stale \/ u \in owed
    BY <1>1, <2>1 DEF Commit
  <2>3. CASE u \in owed
    BY <1>2, <2>3
  <2>4. CASE u \in stale
    <3>1. u \in lost \/ \E s \in Reqs : u \in evict[s]
      BY <2>4 DEF ServiceInv, EveryChangeEvicts
    <3> QED
      BY <1>2, <3>1
  <2> QED
    BY <2>2, <2>3, <2>4
<1>7. \A s, t \in quotalock' : s = t
  BY <1>t, <1>2
<1> QED
  BY <1>3, <1>4, <1>5, <1>6, <1>7 DEF ServiceInv

(* The expiry of a cached graph, and steps that change nothing. *)
LEMMA ServiceExpiry ==
  ASSUME ServiceInv,
         UNCHANGED vars \/ \E u \in Users : ExpireGraph(u)
  PROVE  ServiceInv'
<1>1. /\ live' = live /\ members' = members /\ grants' = grants /\ pc' = pc
      /\ call' = call /\ seen' = seen /\ evict' = evict /\ quotalock' = quotalock
  BY DEF ExpireGraph, vars, dbVars, lockVars, reqVars
<1>2. \A s \in Reqs : Steady(s)'
  BY <1>1, SteadyKept DEF ServiceInv
<1>3. CapHeld' /\ RecoveryGrantsFit' /\ \A s, t \in quotalock' : s = t
  BY <1>1 DEF ServiceInv, CapHeld, RecoveryGrantsFit
<1>4. EveryChangeEvicts'
  BY <1>1 DEF ServiceInv, EveryChangeEvicts, ExpireGraph, vars
<1> QED
  BY <1>2, <1>3, <1>4 DEF ServiceInv

(* ServiceInv is inductive, given RosterInv. *)
LEMMA ServiceStep == RosterInv /\ ServiceInv /\ [Next]_vars => ServiceInv'
<1> SUFFICES ASSUME RosterInv, ServiceInv, [Next]_vars PROVE ServiceInv'
  OBVIOUS
<1> QED
  BY ServiceReading, ServiceRefusal, ServiceEnding, ServiceWrite, ServiceExpiry
     DEF Next, Proceed

-----------------------------------------------------------------------------
(* Theorems. *)

(* ServiceInv holds in every reachable state: the household's row stays as a *)
(* transaction found it while it holds the lock, and the member count stays  *)
(* as it was while the advisory lock is held.                                *)
THEOREM ServiceInvariance == Spec => []ServiceInv
  BY ServiceInit, ServiceStep, Invariance, PTL DEF Spec

(* The member cap is never passed: addMemberWithin counts and inserts under  *)
(* the cap's advisory lock, held to the end of the transaction.              *)
THEOREM CapNeverPassed == Spec => []CapHeld
<1>1. ServiceInv => CapHeld
  BY DEF ServiceInv
<1> QED
  BY <1>1, ServiceInvariance, PTL

(* Recovery grants exist only while the household is deleted, and only its   *)
(* owners hold them.                                                         *)
THEOREM RecoveryGrantsAlwaysFit == Spec => []RecoveryGrantsFit
<1>1. ServiceInv => RecoveryGrantsFit
  BY DEF ServiceInv
<1> QED
  BY <1>1, ServiceInvariance, PTL

(* No cached ability graph is stale unless a request still owes its eviction *)
(* or died owing it: each commit evicts everyone whose standing it changed.  *)
THEOREM ChangesAlwaysEvict == Spec => []EveryChangeEvicts
<1>1. ServiceInv => EveryChangeEvicts
  BY DEF ServiceInv
<1> QED
  BY <1>1, ServiceInvariance, PTL

(* The requests implement the household its callers see: each commit is one  *)
(* of HouseholdSpec's operations, on the roster of that instant, and no      *)
(* other step shows.                                                         *)
THEOREM RequestsImplementHousehold == Spec => ImplementsHousehold
<1>1. Init => H!AbsInit
  BY DEF Init, H!AbsInit
<1>2. ASSUME RosterInv, ServiceInv, [Next]_vars
      PROVE  H!AbsNext \/ UNCHANGED H!absVars
  <2>1. UNCHANGED dbVars \/ \E r \in Reqs : Write(r)
    BY <1>2 DEF Next, Proceed, Begin, LockHousehold, LockQuota, LocateOwners,
                LockOwnerRows, Decide, AskQuota, CountMembers, Refuse, Evict,
                Crash, ExpireGraph, vars, dbVars
  <2>2. UNCHANGED dbVars => UNCHANGED H!absVars
    BY DEF dbVars, H!absVars
  <2> QED
    BY <1>2, <2>1, <2>2, WriteImplements
<1>3. RosterInv /\ ServiceInv /\ [Next]_vars => [H!AbsNext]_(H!absVars)
  BY <1>2
<1> QED
  BY <1>1, <1>3, Invariance, ServiceInvariance, PTL DEF Spec, ImplementsHousehold, H!AbsSpec

=============================================================================
