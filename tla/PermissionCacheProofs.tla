----------------------- MODULE PermissionCacheProofs -----------------------
(***************************************************************************)
(* No eviction is undone by a load that was under way when it landed, for   *)
(* every number of users, readers, writers and tokens and every batch size: *)
(* CacheInv is inductive.                                                   *)
(***************************************************************************)
EXTENDS PermissionCache, TLAPS

USE CacheAssumption

(* The default of an idle reader's key. *)
LEMMA SomeUserType == SomeUser \in Users
  BY DEF SomeUser

(* Every version is a natural number up to the bound. *)
LEMMA VersionsAreNat == \A v \in Versions : v \in Nat /\ v <= MaxVersion
  BY DEF Versions

(* The empty cache, with nothing in flight, satisfies the invariant. *)
LEMMA InvInit == Init => CacheInv
<1> SUFFICES ASSUME Init PROVE CacheInv
  OBVIOUS
<1>1. TypeOK
  BY SomeUserType DEF Init, TypeOK, Versions, Missing, Stages
<1>2. \A u \in Users : EntryKeepsUp(u)
  BY DEF Init, EntryKeepsUp, Hit, NoEntry, Missing
<1>3. \A r \in Readers : ReaderKeepsUp(r)
  BY DEF Init, ReaderKeepsUp
<1>4. ReadsKeepUp /\ ProvisionedAreServed
  BY DEF Init, ReadsKeepUp, ProvisionedAreServed
<1> QED
  BY <1>1, <1>2, <1>3, <1>4 DEF CacheInv

(* A cached graph that carries its key's token is an entry, not the lack of one. *)
LEMMA HitIsEntry ==
  ASSUME TypeOK, NEW u \in Users, Hit(u)
  PROVE  entry[u] \in Entries
  BY DEF TypeOK, Hit, NoEntry, Entries

(* What no step changes of the version a user's key must keep up with: the   *)
(* database, the last eviction and the evictions owed.                       *)
Steady ==
  /\ UNCHANGED <<db, floor>>
  /\ \A u \in Users : Excused(u) => Excused(u)'

(* While those are steady, an up-to-date version stays so. *)
LEMMA SteadyUpToDate ==
  ASSUME Steady, NEW u \in Users, NEW v, UpToDate(u, v)
  PROVE  UpToDate(u, v)'
  BY DEF Steady, UpToDate

(* A reader's own steps touch no eviction. *)
LEMMA ReadersAreSteady ==
  ASSUME UNCHANGED <<db, writeVars, flushVars, faultVars>>
  PROVE  Steady
  BY DEF Steady, Excused, OwedBy, OwedByFlush, writeVars, flushVars, faultVars

(* Every kind of step keeps the types. *)
LEMMA TypeStep ==
  ASSUME CacheInv, [Next]_vars
  PROVE  TypeOK'
<1> USE SomeUserType
<1>0. TypeOK
  BY DEF CacheInv
<1>1. ASSUME NEW r \in Readers, NEW u \in Users, ServeHit(r, u) PROVE TypeOK'
  BY <1>0, <1>1 DEF TypeOK, ServeHit, Begin, Stages, Entries, NoEntry, Versions,
     Missing, Cacheable, Bare, storeVars, writeVars, flushVars, faultVars, Hit
<1>2. ASSUME NEW r \in Readers, NEW u \in Users,
             Miss(r, u) \/ MissTokenless(r, u)
      PROVE TypeOK'
  BY <1>0, <1>2 DEF TypeOK, Miss, MissTokenless, Begin, Stages,
     storeVars, writeVars, flushVars, faultVars
<1>3. ASSUME NEW r \in Readers, WriteFirstToken(r) PROVE TypeOK'
  BY <1>0, <1>3 DEF TypeOK, WriteFirstToken, FreshTokens, Stages, writeVars,
     flushVars, faultVars
<1>4. ASSUME NEW r \in Readers, Load(r) PROVE TypeOK'
  BY <1>0, <1>4 DEF TypeOK, Load, AfterLoad, Stages, storeVars, writeVars,
     flushVars, faultVars
<1>5. ASSUME NEW r \in Readers, Store(r) PROVE TypeOK'
  <2>1. tag[r] \in Tokens /\ Cacheable(graph[r]) /\ graph[r] \in Versions
    BY <1>0, <1>5 DEF CacheInv, ReaderKeepsUp, Store, TypeOK
  <2>2. [version |-> tag[r], value |-> graph[r]] \in Entries
    BY <2>1 DEF Entries
  <2>3. entry' \in [Users -> Entries \cup {NoEntry}]
    BY <1>0, <1>5, <2>2 DEF TypeOK, Store
  <2> QED
    BY <1>0, <1>5, <2>3 DEF TypeOK, Store, Stages, writeVars, flushVars, faultVars
<1>6. ASSUME NEW r \in Readers, Finish(r) PROVE TypeOK'
  BY <1>0, <1>6 DEF TypeOK, Finish, Stages, Versions, Missing, storeVars,
     writeVars, flushVars, faultVars
<1>7. ASSUME NEW u \in Users, SignUp(u) PROVE TypeOK'
  BY <1>0, <1>7 DEF TypeOK, SignUp, Changed, Versions, Missing, Bare, storeVars,
     readVars, writeVars, flushVars, faultVars
<1>8. ASSUME NEW w \in Writers, NEW users \in SUBSET Users, Commit(w, users)
      PROVE TypeOK'
  BY <1>0, <1>8 DEF TypeOK, Commit, Changed, Versions, storeVars, readVars,
     flushVars, faultVars
<1>9. ASSUME NEW w \in Writers, NEW batch \in SUBSET Users, StartBatch(w, batch)
      PROVE TypeOK'
  <2>1. batch \X {"token", "entry"} \in SUBSET (Users \X {"token", "entry"})
    OBVIOUS
  <2> QED
    BY <1>0, <1>9, <2>1 DEF TypeOK, StartBatch, storeVars, readVars, flushVars,
       faultVars
<1>10. ASSUME NEW w \in Writers, NEW u \in Users,
              ReplaceToken(w, u) \/ FailToken(w, u) \/ DeleteEntry(w, u)
       PROVE TypeOK'
  BY <1>0, <1>10 DEF TypeOK, ReplaceToken, FailToken, DeleteEntry, Settle, Evicted,
     FreshTokens, storeVars, readVars, flushVars, faultVars
<1>11. ASSUME NEW w \in Writers, Die(w) PROVE TypeOK'
  BY <1>0, <1>11 DEF TypeOK, Die, OwedBy, storeVars, readVars, flushVars
<1>12. ASSUME Reconcile PROVE TypeOK'
  BY <1>0, <1>12 DEF TypeOK, Reconcile, Changed, Versions, storeVars, readVars,
     writeVars, faultVars
<1>13. ASSUME NEW u \in Users, FlushGraph(u) \/ FlushToken(u) PROVE TypeOK'
  BY <1>0, <1>13 DEF TypeOK, FlushGraph, FlushToken, Evicted, readVars, writeVars,
     faultVars
<1>14. ASSUME FlushTokensNext \/ FlushDone \/ FlushFails PROVE TypeOK'
  BY <1>0, <1>14 DEF TypeOK, FlushTokensNext, FlushDone, FlushFails, OwedByFlush,
     storeVars, readVars, writeVars, faultVars
<1>15. ASSUME NEW u \in Users, ExpireEntry(u) \/ ExpireToken(u) PROVE TypeOK'
  BY <1>0, <1>15 DEF TypeOK, ExpireEntry, ExpireToken, readVars, writeVars,
     flushVars, faultVars
<1>16. CASE UNCHANGED vars
  BY <1>0, <1>16 DEF TypeOK, vars
<1> QED
  BY <1>1, <1>2, <1>3, <1>4, <1>5, <1>6, <1>7, <1>8, <1>9, <1>10, <1>11, <1>12,
     <1>13, <1>14, <1>15, <1>16
     DEF Next, ReaderStep, WriterStep, FlushStep

-----------------------------------------------------------------------------
(* A step that at most drops tokens and entries, and forgives no eviction. *)
LEMMA DroppingStep ==
  ASSUME CacheInv, TypeOK', Steady, UNCHANGED readVars,
         \A u \in Users : /\ token'[u] \in {token[u], NoToken}
                          /\ entry'[u] \in {entry[u], NoEntry}
  PROVE  CacheInv'
<1>1. \A u \in Users : EntryKeepsUp(u)'
  <2> SUFFICES ASSUME NEW u \in Users PROVE EntryKeepsUp(u)'
    OBVIOUS
  <2>1. EntryKeepsUp(u) /\ db[u] \in Nat
    BY VersionsAreNat DEF CacheInv, TypeOK
  <2>2. CASE entry'[u] = NoEntry
    BY <2>1, <2>2 DEF EntryKeepsUp, Hit, NoEntry, Missing, Steady
  <2>3. CASE entry'[u] = entry[u]
    <3>1. Hit(u)' => Hit(u)
      BY <2>3 DEF Hit
    <3> QED
      BY <2>1, <2>3, <3>1, SteadyUpToDate DEF EntryKeepsUp, Steady
  <2> QED
    BY <2>2, <2>3
<1>2. \A r \in Readers : ReaderKeepsUp(r)'
  <2> SUFFICES ASSUME NEW r \in Readers PROVE ReaderKeepsUp(r)'
    OBVIOUS
  <2>1. ReaderKeepsUp(r) /\ who[r] \in Users
    BY DEF CacheInv, TypeOK
  <2>2. stage[r] = "store" /\ tag[r] = token'[who[r]] => tag[r] = token[who[r]]
    BY <2>1 DEF ReaderKeepsUp
  <2>3. UpToDate(who[r], graph[r]) => UpToDate(who[r], graph[r])'
    BY <2>1, SteadyUpToDate DEF readVars
  <2> QED
    BY <2>1, <2>2, <2>3 DEF ReaderKeepsUp, readVars, Steady
<1>3. ReadsKeepUp' /\ ProvisionedAreServed'
  BY DEF CacheInv, ReadsKeepUp, ProvisionedAreServed, readVars
<1> QED
  BY <1>1, <1>2, <1>3 DEF CacheInv

(* A key whose token nobody carries any more has no stale graph to serve. *)
LEMMA EvictingStep ==
  ASSUME CacheInv, TypeOK', UNCHANGED <<db, entry, readVars>>,
         NEW u \in Users, NEW t, Evicted(u),
         token' = [token EXCEPT ![u] = t],
         \/ t = NoToken
         \/ t # entry[u].version /\ \A r \in Readers : tag[r] # t,
         \A v \in Users \ {u} : Excused(v) => Excused(v)'
  PROVE  CacheInv'
<1>1. \A v \in Users : EntryKeepsUp(v)'
  <2> SUFFICES ASSUME NEW v \in Users PROVE EntryKeepsUp(v)'
    OBVIOUS
  <2>1. EntryKeepsUp(v) /\ db[v] \in Nat
    BY VersionsAreNat DEF CacheInv, TypeOK
  <2>2. CASE v = u
    <3>1. ~ Hit(u)'
      BY DEF Hit, CacheInv, TypeOK
    <3>2. floor'[u] = db[u]
      BY DEF Evicted, CacheInv, TypeOK
    <3> QED
      BY <2>1, <2>2, <3>1, <3>2 DEF EntryKeepsUp
  <2>3. CASE v # u
    <3>1. floor'[v] = floor[v] /\ (Hit(v)' <=> Hit(v))
      BY <2>3 DEF Evicted, Hit, CacheInv, TypeOK
    <3>2. Excused(v) => Excused(v)'
      BY <2>3
    <3> QED
      BY <2>1, <3>1, <3>2 DEF EntryKeepsUp, UpToDate
  <2> QED
    BY <2>2, <2>3
<1>2. \A r \in Readers : ReaderKeepsUp(r)'
  <2> SUFFICES ASSUME NEW r \in Readers PROVE ReaderKeepsUp(r)'
    OBVIOUS
  <2>1. /\ ReaderKeepsUp(r) /\ who[r] \in Users
        /\ floor[who[r]] \in Nat /\ db[who[r]] \in Nat /\ since[r] \in Nat
        /\ EntryKeepsUp(who[r])
    BY VersionsAreNat DEF CacheInv, TypeOK
  <2>2. floor[who[r]] <= floor'[who[r]]
    BY <2>1 DEF Evicted, CacheInv, TypeOK, EntryKeepsUp
  <2>3. floor'[who[r]] \in Nat
    BY <2>1, VersionsAreNat DEF TypeOK
  <2>4. CASE who[r] = u
    <3>1. stage[r] = "store" => tag[r] # token'[u]
      BY <2>1 DEF ReaderKeepsUp, CacheInv, TypeOK
    <3> QED
      BY <2>1, <2>2, <2>3, <2>4, <3>1 DEF ReaderKeepsUp, readVars
  <2>5. CASE who[r] # u
    <3>1. token'[who[r]] = token[who[r]] /\ floor'[who[r]] = floor[who[r]]
      BY <2>1, <2>5 DEF Evicted, CacheInv, TypeOK
    <3>2. UpToDate(who[r], graph[r]) => UpToDate(who[r], graph[r])'
      BY <2>1, <2>5, <3>1 DEF UpToDate, readVars
    <3> QED
      BY <2>1, <3>1, <3>2 DEF ReaderKeepsUp, readVars
  <2> QED
    BY <2>4, <2>5
<1>3. ReadsKeepUp' /\ ProvisionedAreServed'
  BY DEF CacheInv, ReadsKeepUp, ProvisionedAreServed, readVars
<1> QED
  BY <1>1, <1>2, <1>3 DEF CacheInv

(* A commit makes graphs stale only where it leaves an eviction owed, or     *)
(* where there was no row to read.                                           *)
LEMMA ChangingStep ==
  ASSUME CacheInv, TypeOK', UNCHANGED <<storeVars, readVars, floor>>,
         NEW users \in SUBSET Users, db' = Changed(users),
         \A u \in users : Excused(u)' \/ db[u] = Missing,
         \A u \in Users : Excused(u) => Excused(u)'
  PROVE  CacheInv'
<1>1. \A u \in Users : /\ db[u] \in Nat /\ db'[u] \in Nat /\ db[u] <= db'[u]
                       /\ u \notin users => db'[u] = db[u]
  <2> SUFFICES ASSUME NEW u \in Users
               PROVE  /\ db[u] \in Nat /\ db'[u] \in Nat /\ db[u] <= db'[u]
                      /\ u \notin users => db'[u] = db[u]
    OBVIOUS
  <2>1. db[u] \in Nat
    BY VersionsAreNat DEF CacheInv, TypeOK
  <2>2. db'[u] = IF u \in users THEN db[u] + 1 ELSE db[u]
    BY DEF Changed
  <2> QED
    BY <2>1, <2>2
<1>2. ASSUME NEW u \in Users, NEW v \in Versions, UpToDate(u, v),
             Cacheable(v), v <= db[u]
      PROVE  UpToDate(u, v)'
  <2>1. u \in users => Excused(u)'
    BY <1>1, <1>2, VersionsAreNat DEF Cacheable, Bare, Missing
  <2> QED
    BY <1>1, <1>2, <2>1 DEF UpToDate
<1>3. \A u \in Users : EntryKeepsUp(u)'
  <2> SUFFICES ASSUME NEW u \in Users PROVE EntryKeepsUp(u)'
    OBVIOUS
  <2>1. EntryKeepsUp(u) /\ floor[u] \in Nat /\ entry[u].value \in Nat
    BY VersionsAreNat DEF CacheInv, TypeOK, Entries, NoEntry, Missing
  <2>2. Hit(u) => UpToDate(u, entry[u].value)'
    <3> SUFFICES ASSUME Hit(u) PROVE UpToDate(u, entry[u].value)'
      OBVIOUS
    <3>1. entry[u].value \in Versions /\ Cacheable(entry[u].value)
      BY HitIsEntry DEF CacheInv, Entries
    <3>2. UpToDate(u, entry[u].value) /\ entry[u].value <= db[u]
      BY <2>1 DEF EntryKeepsUp
    <3>3. entry'[u].value = entry[u].value
      BY DEF storeVars
    <3> HIDE DEF UpToDate
    <3>4. \A v \in Versions : /\ UpToDate(u, v) /\ Cacheable(v) /\ v <= db[u]
                              => UpToDate(u, v)'
      BY <1>2
    <3> QED
      BY <3>1, <3>2, <3>3, <3>4 DEF UpToDate
  <2> QED
    BY <1>1, <2>1, <2>2 DEF EntryKeepsUp, Hit, storeVars
<1>4. \A r \in Readers : ReaderKeepsUp(r)'
  <2> SUFFICES ASSUME NEW r \in Readers PROVE ReaderKeepsUp(r)'
    OBVIOUS
  <2>1. /\ ReaderKeepsUp(r) /\ who[r] \in Users /\ graph[r] \in Versions
        /\ begun[r] \in Nat /\ graph[r] \in Nat
    BY VersionsAreNat DEF CacheInv, TypeOK
  <2>2. stage[r] = "store" /\ tag[r] = token[who[r]]
          => UpToDate(who[r], graph[r])'
    BY <1>2, <2>1 DEF ReaderKeepsUp, UpToDate, readVars
  <2> QED
    BY <1>1, <2>1, <2>2 DEF ReaderKeepsUp, readVars, storeVars
<1>5. ReadsKeepUp' /\ ProvisionedAreServed'
  BY DEF CacheInv, ReadsKeepUp, ProvisionedAreServed, readVars
<1> QED
  BY <1>3, <1>4, <1>5 DEF CacheInv

(* A reader that begins has the floor and the version of that moment, and a  *)
(* hit gives it a graph that is up to date with both.                        *)
LEMMA BeginningStep ==
  ASSUME CacheInv, TypeOK', NEW r \in Readers, NEW u \in Users,
         ServeHit(r, u) \/ Miss(r, u) \/ MissTokenless(r, u)
  PROVE  CacheInv'
<1>0. /\ TypeOK /\ EntryKeepsUp(u)
      /\ floor[u] \in Nat /\ db[u] \in Nat
  BY VersionsAreNat DEF CacheInv, TypeOK
<1>1. Begin(r, u)
  BY DEF ServeHit, Miss, MissTokenless
<1>2. Steady
  BY <1>1, ReadersAreSteady DEF Begin
<1>3. UNCHANGED <<db, token, entry, floor>>
  BY <1>1 DEF Begin, storeVars, faultVars
<1>4. \A v \in Users : EntryKeepsUp(v)'
  BY <1>2, <1>3, SteadyUpToDate DEF CacheInv, EntryKeepsUp, Hit
<1>5. /\ who'[r] = u /\ since'[r] = floor[u] /\ begun'[r] = db[u]
      /\ stage'[r] \in {"served", "load", "tokenless"}
      /\ stage'[r] = "load" => tag'[r] = token[u] /\ token[u] \in Tokens
      /\ stage'[r] = "served" => Hit(u) /\ graph'[r] = entry[u].value
  BY <1>0, <1>1 DEF Begin, ServeHit, Miss, MissTokenless, TypeOK
<1>6. \A s \in Readers \ {r} : /\ stage'[s] = stage[s] /\ who'[s] = who[s]
                               /\ tag'[s] = tag[s] /\ graph'[s] = graph[s]
                               /\ since'[s] = since[s] /\ begun'[s] = begun[s]
  BY <1>0, <1>1 DEF Begin, ServeHit, Miss, MissTokenless, TypeOK
<1>7. \A s \in Readers : ReaderKeepsUp(s)'
  <2> SUFFICES ASSUME NEW s \in Readers PROVE ReaderKeepsUp(s)'
    OBVIOUS
  <2>1. CASE s = r
    BY <1>0, <1>3, <1>5, <2>1 DEF ReaderKeepsUp
  <2>2. CASE s # r
    <3>1. ReaderKeepsUp(s) /\ who[s] \in Users
      BY <1>0 DEF CacheInv, TypeOK
    <3>2. UpToDate(who[s], graph[s]) => UpToDate(who[s], graph[s])'
      BY <1>2, <1>6, <2>2, <3>1, SteadyUpToDate DEF UpToDate
    <3> QED
      BY <1>3, <1>6, <2>2, <3>1, <3>2 DEF ReaderKeepsUp
  <2> QED
    BY <2>1, <2>2
<1>8. stage'[r] = "served" => graph'[r] >= since'[r] /\ Cacheable(graph'[r])
  BY <1>0, <1>5, HitIsEntry DEF EntryKeepsUp, UpToDate, Entries
<1>9. ReadsKeepUp' /\ ProvisionedAreServed'
  <2> SUFFICES ASSUME NEW s \in Readers, stage'[s] = "served"
               PROVE  /\ graph'[s] >= since'[s]
                      /\ Cacheable(begun'[s]) => Cacheable(graph'[s])
    BY DEF ReadsKeepUp, ProvisionedAreServed, Cacheable
  <2> QED
    BY <1>6, <1>8 DEF CacheInv, ReadsKeepUp, ProvisionedAreServed, Cacheable
<1> QED
  BY <1>4, <1>7, <1>9 DEF CacheInv

(* A first token is one nobody carries, so it makes nothing cached a hit. *)
LEMMA FirstTokenStep ==
  ASSUME CacheInv, TypeOK', NEW r \in Readers, WriteFirstToken(r)
  PROVE  CacheInv'
<1>0. TypeOK /\ who[r] \in Users
  BY DEF CacheInv, TypeOK
<1>1. Steady
  BY ReadersAreSteady DEF WriteFirstToken
<1>2. UNCHANGED <<db, entry, who, graph, since, begun, floor>>
  BY DEF WriteFirstToken, faultVars
<1>3. PICK t \in FreshTokens(who[r]) :
         /\ tag' = [tag EXCEPT ![r] = t]
         /\ token' = [token EXCEPT ![who[r]] = t] \/ token' = token
  BY DEF WriteFirstToken
<1>4. /\ t \in Tokens /\ t # entry[who[r]].version
      /\ \A s \in Readers : tag[s] # t
  BY DEF FreshTokens
<1>5. \A u \in Users : EntryKeepsUp(u)'
  <2> SUFFICES ASSUME NEW u \in Users PROVE EntryKeepsUp(u)'
    OBVIOUS
  <2>1. Hit(u)' => Hit(u)
    BY <1>0, <1>2, <1>3, <1>4 DEF Hit, TypeOK
  <2>2. EntryKeepsUp(u)
    BY DEF CacheInv
  <2>3. UpToDate(u, entry[u].value) => UpToDate(u, entry[u].value)'
    BY <1>1, <1>2, SteadyUpToDate DEF UpToDate
  <2> QED
    BY <1>2, <2>1, <2>2, <2>3 DEF EntryKeepsUp
<1>6. \A s \in Readers : ReaderKeepsUp(s)'
  <2> SUFFICES ASSUME NEW s \in Readers PROVE ReaderKeepsUp(s)'
    OBVIOUS
  <2>0. ReaderKeepsUp(s) /\ who[s] \in Users
    BY <1>0 DEF CacheInv, TypeOK
  <2>1. CASE s = r
    <3>1. stage[r] = "tokenless" /\ stage'[r] = "load" /\ tag'[r] = t
      BY <1>0, <1>3 DEF WriteFirstToken, TypeOK
    <3> QED
      BY <1>2, <1>4, <2>0, <2>1, <3>1 DEF ReaderKeepsUp
  <2>2. CASE s # r
    <3>1. stage'[s] = stage[s] /\ tag'[s] = tag[s]
      BY <1>0, <1>3, <2>2 DEF WriteFirstToken, TypeOK
    <3>2. tag[s] = token'[who[s]] => tag[s] = token[who[s]]
      BY <1>0, <1>3, <1>4, <2>0 DEF TypeOK
    <3>3. UpToDate(who[s], graph[s]) => UpToDate(who[s], graph[s])'
      BY <1>1, <1>2, <2>0, SteadyUpToDate DEF UpToDate
    <3> QED
      BY <1>2, <2>0, <3>1, <3>2, <3>3 DEF ReaderKeepsUp
  <2> QED
    BY <2>1, <2>2
<1>7. \A s \in Readers : stage'[s] = "served" => stage[s] = "served"
  BY <1>0 DEF WriteFirstToken, TypeOK
<1>8. ReadsKeepUp' /\ ProvisionedAreServed'
  BY <1>2, <1>7 DEF CacheInv, ReadsKeepUp, ProvisionedAreServed
<1> QED
  BY <1>5, <1>6, <1>8 DEF CacheInv

(* A load reads what is committed, so it is up to date with everything. *)
LEMMA LoadingStep ==
  ASSUME CacheInv, TypeOK', NEW r \in Readers, Load(r)
  PROVE  CacheInv'
<1>0. /\ TypeOK /\ who[r] \in Users /\ ReaderKeepsUp(r)
      /\ EntryKeepsUp(who[r])
      /\ db[who[r]] \in Nat /\ floor[who[r]] \in Nat
      /\ since[r] \in Nat /\ begun[r] \in Nat
  BY VersionsAreNat DEF CacheInv, TypeOK
<1>1. Steady
  BY ReadersAreSteady DEF Load
<1>2. UNCHANGED <<db, token, entry, who, tag, since, begun, floor>>
  BY DEF Load, storeVars, faultVars
<1>3. /\ stage[r] = "load" /\ graph'[r] = db[who[r]]
      /\ stage'[r] = AfterLoad(db[who[r]])
      /\ \A s \in Readers \ {r} : stage'[s] = stage[s] /\ graph'[s] = graph[s]
  BY <1>0 DEF Load, TypeOK
<1>4. \A u \in Users : EntryKeepsUp(u)'
  BY <1>1, <1>2, SteadyUpToDate DEF CacheInv, EntryKeepsUp, Hit
<1>5. since[r] <= db[who[r]] /\ begun[r] <= db[who[r]]
  BY <1>0, <1>3 DEF ReaderKeepsUp, EntryKeepsUp
<1>6. UpToDate(who[r], graph[r])'
  BY <1>0, <1>2, <1>3 DEF UpToDate, EntryKeepsUp
<1>7. \A s \in Readers : ReaderKeepsUp(s)'
  <2> SUFFICES ASSUME NEW s \in Readers PROVE ReaderKeepsUp(s)'
    OBVIOUS
  <2>0. ReaderKeepsUp(s) /\ who[s] \in Users
    BY <1>0 DEF CacheInv, TypeOK
  <2>1. CASE s = r
    BY <1>0, <1>2, <1>3, <1>5, <1>6, <2>1 DEF ReaderKeepsUp, AfterLoad
  <2>2. CASE s # r
    <3>1. UpToDate(who[s], graph[s]) => UpToDate(who[s], graph[s])'
      BY <1>1, <1>2, <1>3, <2>0, <2>2, SteadyUpToDate DEF UpToDate
    <3> QED
      BY <1>2, <1>3, <2>0, <2>2, <3>1 DEF ReaderKeepsUp
  <2> QED
    BY <2>1, <2>2
<1>8. stage'[r] = "served" => /\ graph'[r] >= since'[r]
                              /\ Cacheable(begun'[r]) => Cacheable(graph'[r])
  BY <1>0, <1>2, <1>3, <1>5 DEF Cacheable, Bare
<1>9. ReadsKeepUp' /\ ProvisionedAreServed'
  <2> SUFFICES ASSUME NEW s \in Readers, stage'[s] = "served"
               PROVE  /\ graph'[s] >= since'[s]
                      /\ Cacheable(begun'[s]) => Cacheable(graph'[s])
    BY DEF ReadsKeepUp, ProvisionedAreServed, Cacheable
  <2> QED
    BY <1>2, <1>3, <1>8 DEF CacheInv, ReadsKeepUp, ProvisionedAreServed, Cacheable
<1> QED
  BY <1>4, <1>7, <1>9 DEF CacheInv

(* What a reader caches is a hit only if its tag is still the key's token,   *)
(* and then nothing was evicted since it loaded.                             *)
LEMMA StoringStep ==
  ASSUME CacheInv, TypeOK', NEW r \in Readers, Store(r)
  PROVE  CacheInv'
<1>0. /\ TypeOK /\ who[r] \in Users /\ ReaderKeepsUp(r)
  BY DEF CacheInv, TypeOK
<1>1. Steady
  BY ReadersAreSteady DEF Store
<1>2. UNCHANGED <<db, token, who, tag, graph, since, begun, floor>>
  BY DEF Store, faultVars
<1>3. /\ stage[r] = "store" /\ stage'[r] = "served"
      /\ \A s \in Readers \ {r} : stage'[s] = stage[s]
  BY <1>0 DEF Store, TypeOK
<1>4. \A u \in Users : EntryKeepsUp(u)'
  <2> SUFFICES ASSUME NEW u \in Users PROVE EntryKeepsUp(u)'
    OBVIOUS
  <2>0. EntryKeepsUp(u)
    BY DEF CacheInv
  <2>1. CASE entry'[u] = entry[u]
    BY <1>1, <1>2, <2>0, <2>1, SteadyUpToDate DEF EntryKeepsUp, Hit
  <2>2. CASE entry'[u] # entry[u]
    <3>1. u = who[r] /\ entry'[u] = [version |-> tag[r], value |-> graph[r]]
      BY <1>0, <2>2 DEF Store, TypeOK
    <3>2. entry'[u].version = tag[r] /\ entry'[u].value = graph[r]
      BY <3>1
    <3>3. Hit(u)' => UpToDate(u, graph[r])
      BY <1>0, <1>2, <1>3, <3>1, <3>2 DEF Hit, ReaderKeepsUp
    <3>4. UpToDate(u, graph[r]) => UpToDate(u, graph[r])'
      BY <1>1, <1>2, SteadyUpToDate DEF UpToDate
    <3>5. UpToDate(u, graph[r])' <=> UpToDate(u, entry[u].value)'
      BY <1>2, <3>2 DEF UpToDate
    <3> QED
      BY <1>0, <1>2, <1>3, <2>0, <3>1, <3>2, <3>3, <3>4, <3>5
         DEF EntryKeepsUp, ReaderKeepsUp
  <2> QED
    BY <2>1, <2>2
<1>5. \A s \in Readers : ReaderKeepsUp(s)'
  <2> SUFFICES ASSUME NEW s \in Readers PROVE ReaderKeepsUp(s)'
    OBVIOUS
  <2>0. ReaderKeepsUp(s) /\ who[s] \in Users
    BY <1>0 DEF CacheInv, TypeOK
  <2>1. UpToDate(who[s], graph[s]) => UpToDate(who[s], graph[s])'
    BY <1>1, <1>2, <2>0, SteadyUpToDate DEF UpToDate
  <2>2. CASE s = r
    BY <1>2, <1>3, <2>0, <2>2 DEF ReaderKeepsUp
  <2>3. CASE s # r
    BY <1>2, <1>3, <2>0, <2>1, <2>3 DEF ReaderKeepsUp
  <2> QED
    BY <2>2, <2>3
<1>6. ReadsKeepUp' /\ ProvisionedAreServed'
  <2> SUFFICES ASSUME NEW s \in Readers, stage'[s] = "served"
               PROVE  /\ graph'[s] >= since'[s]
                      /\ Cacheable(begun'[s]) => Cacheable(graph'[s])
    BY DEF ReadsKeepUp, ProvisionedAreServed, Cacheable
  <2> QED
    BY <1>0, <1>2, <1>3
       DEF CacheInv, ReadsKeepUp, ProvisionedAreServed, ReaderKeepsUp, Cacheable
<1> QED
  BY <1>4, <1>5, <1>6 DEF CacheInv

(* A reader that is done holds nothing. *)
LEMMA FinishingStep ==
  ASSUME CacheInv, TypeOK', NEW r \in Readers, Finish(r)
  PROVE  CacheInv'
<1>0. TypeOK
  BY DEF CacheInv
<1>1. Steady
  BY ReadersAreSteady DEF Finish
<1>2. UNCHANGED <<db, token, entry, floor>>
  BY DEF Finish, storeVars, faultVars
<1>3. /\ stage'[r] = "idle"
      /\ \A s \in Readers \ {r} : /\ stage'[s] = stage[s] /\ who'[s] = who[s]
                                  /\ tag'[s] = tag[s] /\ graph'[s] = graph[s]
                                  /\ since'[s] = since[s] /\ begun'[s] = begun[s]
  BY <1>0 DEF Finish, TypeOK
<1>4. \A u \in Users : EntryKeepsUp(u)'
  BY <1>1, <1>2, SteadyUpToDate DEF CacheInv, EntryKeepsUp, Hit
<1>5. \A s \in Readers : ReaderKeepsUp(s)'
  <2> SUFFICES ASSUME NEW s \in Readers PROVE ReaderKeepsUp(s)'
    OBVIOUS
  <2>1. CASE s = r
    BY <1>3, <2>1 DEF ReaderKeepsUp
  <2>2. CASE s # r
    <3>1. ReaderKeepsUp(s) /\ who[s] \in Users
      BY <1>0 DEF CacheInv, TypeOK
    <3>2. UpToDate(who[s], graph[s]) => UpToDate(who[s], graph[s])'
      BY <1>1, <1>3, <2>2, <3>1, SteadyUpToDate DEF UpToDate
    <3> QED
      BY <1>2, <1>3, <2>2, <3>1, <3>2 DEF ReaderKeepsUp
  <2> QED
    BY <2>1, <2>2
<1>6. ReadsKeepUp' /\ ProvisionedAreServed'
  BY <1>3 DEF CacheInv, ReadsKeepUp, ProvisionedAreServed, Cacheable
<1> QED
  BY <1>4, <1>5, <1>6 DEF CacheInv

-----------------------------------------------------------------------------
(* Changes, each owing what it makes stale. *)
LEMMA WritersChange ==
  ASSUME CacheInv, TypeOK',
         \/ \E u \in Users : SignUp(u)
         \/ \E w \in Writers : \E users \in SUBSET Users : Commit(w, users)
         \/ Reconcile
  PROVE  CacheInv'
<1>0. TypeOK
  BY DEF CacheInv
<1>1. ASSUME NEW u \in Users, SignUp(u) PROVE CacheInv'
  <2>1. \A v \in Users : Excused(v) => Excused(v)'
    BY <1>1 DEF SignUp, Excused, OwedBy, OwedByFlush, writeVars, flushVars, faultVars
  <2>2. UNCHANGED <<storeVars, readVars, floor>> /\ db' = Changed({u})
    BY <1>1 DEF SignUp, faultVars
  <2>3. db[u] = Missing
    BY <1>1 DEF SignUp
  <2> QED
    BY <2>1, <2>2, <2>3, ChangingStep
<1>2. ASSUME NEW w \in Writers, NEW users \in SUBSET Users, Commit(w, users)
      PROVE CacheInv'
  <2>1. todo[w] = {} /\ calls' = calls /\ todo' = [todo EXCEPT ![w] = users]
    BY <1>2 DEF Commit, Idle
  <2>2. \A v \in users : Excused(v)'
    BY <1>0, <2>1 DEF Excused, OwedBy, TypeOK
  <2>3. \A v \in Users : Excused(v) => Excused(v)'
    BY <1>0, <1>2, <2>1 DEF Commit, Excused, OwedBy, OwedByFlush, TypeOK,
       flushVars, faultVars
  <2>4. UNCHANGED <<storeVars, readVars, floor>> /\ db' = Changed(users)
    BY <1>2 DEF Commit, faultVars
  <2> QED
    BY <2>2, <2>3, <2>4, ChangingStep
<1>3. ASSUME Reconcile PROVE CacheInv'
  <2>1. \A v \in Users : Excused(v)'
    BY <1>3 DEF Reconcile, Excused, OwedByFlush
  <2>2. UNCHANGED <<storeVars, readVars, floor>> /\ db' = Changed(Users)
    BY <1>3 DEF Reconcile, faultVars
  <2> QED
    BY <2>1, <2>2, ChangingStep
<1> QED
  BY <1>1, <1>2, <1>3

(* Evictions: a token replaced or removed. *)
LEMMA TokensGo ==
  ASSUME CacheInv, TypeOK', NEW u \in Users,
         (\E w \in Writers : ReplaceToken(w, u)) \/ FlushToken(u)
  PROVE  CacheInv'
<1>0. TypeOK
  BY DEF CacheInv
<1>1. ASSUME NEW w \in Writers, ReplaceToken(w, u) PROVE CacheInv'
  <2>1. PICK t \in FreshTokens(u) : token' = [token EXCEPT ![u] = t]
    BY <1>1 DEF ReplaceToken
  <2>2. t # entry[u].version /\ \A r \in Readers : tag[r] # t
    BY DEF FreshTokens
  <2>3. \A v \in Users \ {u} : Excused(v) => Excused(v)'
    BY <1>0, <1>1 DEF ReplaceToken, Settle, Evicted, Excused, OwedBy, OwedByFlush,
       TypeOK, flushVars
  <2>4. UNCHANGED <<db, entry, readVars>> /\ Evicted(u)
    BY <1>1 DEF ReplaceToken, Settle
  <2> QED
    BY <2>1, <2>2, <2>3, <2>4, EvictingStep
<1>2. ASSUME FlushToken(u) PROVE CacheInv'
  <2>1. \A v \in Users \ {u} : Excused(v) => Excused(v)'
    BY <1>2 DEF FlushToken, Evicted, Excused, OwedBy, OwedByFlush, writeVars
  <2>2. /\ UNCHANGED <<db, entry, readVars>> /\ Evicted(u)
        /\ token' = [token EXCEPT ![u] = NoToken]
    BY <1>2 DEF FlushToken
  <2> QED
    BY <2>1, <2>2, EvictingStep
<1> QED
  BY <1>1, <1>2

(* Everything else drops what is cached, or moves an eviction along. *)
LEMMA RestDrops ==
  ASSUME CacheInv, TypeOK',
         \/ \E w \in Writers : \/ \E batch \in SUBSET Users : StartBatch(w, batch)
                               \/ \E u \in Users : \/ FailToken(w, u)
                                                   \/ DeleteEntry(w, u)
                               \/ Die(w)
         \/ \E u \in Users : \/ FlushGraph(u)
                             \/ ExpireEntry(u) \/ ExpireToken(u)
         \/ FlushTokensNext \/ FlushDone \/ FlushFails
         \/ UNCHANGED vars
  PROVE  CacheInv'
<1>0. TypeOK
  BY DEF CacheInv
<1>1. UNCHANGED <<db, floor, readVars>>
  BY DEF StartBatch, FailToken, DeleteEntry, Settle, Die, FlushGraph, ExpireEntry,
     ExpireToken, FlushTokensNext, FlushDone, FlushFails, faultVars, vars, readVars
<1>2. \A u \in Users : /\ token'[u] \in {token[u], NoToken}
                       /\ entry'[u] \in {entry[u], NoEntry}
  BY <1>0 DEF StartBatch, FailToken, DeleteEntry, Settle, Die, FlushGraph,
     ExpireEntry, ExpireToken, FlushTokensNext, FlushDone, FlushFails, storeVars,
     vars, TypeOK
<1>3. ASSUME NEW v \in Users, Excused(v) PROVE Excused(v)'
  <2>1. ASSUME NEW w \in Writers, NEW batch \in SUBSET Users, StartBatch(w, batch)
        PROVE Excused(v)'
    <3>1. \A x \in Writers : OwedBy(x) \subseteq OwedBy(x)'
      BY <1>0, <2>1 DEF StartBatch, OwedBy, TypeOK
    <3> QED
      BY <1>3, <2>1, <3>1 DEF Excused, StartBatch, OwedByFlush, flushVars, faultVars
  <2>2. ASSUME NEW w \in Writers, NEW u \in Users,
               FailToken(w, u) \/ DeleteEntry(w, u)
        PROVE Excused(v)'
    <3>1. CASE FailToken(w, u)
      BY <1>0, <1>3, <3>1 DEF FailToken, Settle, Excused, OwedBy, OwedByFlush, TypeOK,
         flushVars, faultVars
    <3>2. CASE DeleteEntry(w, u)
      BY <1>0, <1>3, <3>2 DEF DeleteEntry, Settle, Excused, OwedBy, OwedByFlush, TypeOK,
         flushVars, faultVars
    <3> QED
      BY <2>2, <3>1, <3>2
  <2>3. ASSUME NEW w \in Writers, Die(w) PROVE Excused(v)'
    BY <1>0, <1>3, <2>3 DEF Die, Excused, OwedBy, OwedByFlush, TypeOK, flushVars
  <2>4. ASSUME NEW u \in Users, FlushGraph(u) \/ ExpireEntry(u) \/ ExpireToken(u)
        PROVE Excused(v)'
    BY <1>3, <2>4 DEF FlushGraph, ExpireEntry, ExpireToken, Excused, OwedBy,
       OwedByFlush, writeVars, flushVars, faultVars
  <2>5. ASSUME FlushTokensNext \/ FlushDone \/ FlushFails PROVE Excused(v)'
    BY <1>3, <2>5 DEF FlushTokensNext, FlushDone, FlushFails, Excused, OwedBy,
       OwedByFlush, writeVars, faultVars
  <2>6. CASE UNCHANGED vars
    BY <1>3, <2>6 DEF vars, Excused, OwedBy, OwedByFlush
  <2> QED
    BY <2>1, <2>2, <2>3, <2>4, <2>5, <2>6
<1>4. Steady
  BY <1>1, <1>3 DEF Steady
<1> QED
  BY <1>1, <1>2, <1>4, DroppingStep

(* Every step preserves the invariant. *)
LEMMA InvStep == CacheInv /\ [Next]_vars => CacheInv'
<1> SUFFICES ASSUME CacheInv, [Next]_vars PROVE CacheInv'
  OBVIOUS
<1>1. TypeOK'
  BY TypeStep
<1> QED
  BY <1>1, BeginningStep, FirstTokenStep, LoadingStep, StoringStep, FinishingStep,
     WritersChange, TokensGo, RestDrops
     DEF Next, ReaderStep, WriterStep, FlushStep

(* What carries its key's current token was read after the last eviction,    *)
(* whatever getOrLoad, evict and the boot flush do at the same time.         *)
THEOREM CacheInvariance == Spec => []CacheInv
<1>1. Init => CacheInv
  BY InvInit
<1>2. CacheInv /\ [Next]_vars => CacheInv'
  BY InvStep
<1> QED
  BY <1>1, <1>2, PTL DEF Spec

(* getOrLoad never answers a request that began after an eviction with a     *)
(* graph from before it (#588).                                              *)
THEOREM ReadsAlwaysKeepUp == Spec => []ReadsKeepUp
<1>1. CacheInv => ReadsKeepUp
  BY DEF CacheInv
<1> QED
  BY <1>1, CacheInvariance, PTL

(* A stale graph is served only while an eviction is owed or was lost: evict *)
(* and the flush, when they succeed, leave none behind.                      *)
THEOREM StalenessExcused == Spec => []StaleIsExcused
<1>1. CacheInv => StaleIsExcused
  <2> SUFFICES ASSUME CacheInv, NEW u \in Users, StaleHit(u) PROVE Excused(u)
    BY DEF StaleIsExcused
  <2>1. EntryKeepsUp(u) /\ db[u] \in Nat /\ Hit(u) /\ entry[u].value < db[u]
    BY VersionsAreNat DEF CacheInv, TypeOK, StaleHit
  <2>2. entry[u].value \in Nat
    BY <2>1, HitIsEntry, VersionsAreNat DEF CacheInv, Entries
  <2> QED
    BY <2>1, <2>2 DEF EntryKeepsUp, UpToDate
<1> QED
  BY <1>1, CacheInvariance, PTL

(* A request that begins after a user's provisioning committed gets a graph  *)
(* with their roles, whether or not the eviction after it ran (#490).        *)
THEOREM ProvisioningHolds == Spec => []ProvisionedAreServed
<1>1. CacheInv => ProvisionedAreServed
  BY DEF CacheInv
<1> QED
  BY <1>1, CacheInvariance, PTL

(* Every reachable state of the cache is well typed: in particular nothing   *)
(* is cached under no token, or without a role.                              *)
THEOREM CacheTypeCorrect == Spec => []TypeOK
<1>1. CacheInv => TypeOK
  BY DEF CacheInv
<1> QED
  BY <1>1, CacheInvariance, PTL

=============================================================================
