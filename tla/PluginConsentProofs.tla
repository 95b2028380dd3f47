------------------------- MODULE PluginConsentProofs -------------------------
(***************************************************************************)
(* What consent to a plugin promises, for every set of units, permissions,  *)
(* manifests and concurrent requests.  ConsentInv is inductive: the share   *)
(* of the plugin row keeps the manifest a request judged by the active one, *)
(* the advisory lock of a unit keeps the row and the denials it read, and   *)
(* what replaces the manifest meets nobody who holds either.                *)
(***************************************************************************)
EXTENDS PluginConsent, FiniteSetTheorems, TLAPS

USE PluginAssumption

-----------------------------------------------------------------------------
(* The inductive invariant. *)

(* Decisions on record, and the request records. *)
Grants == [status : {"Granted", "Denied"}, risk : Nat] \cup {Pending}
OpNames == {"idle", "decide", "reenable", "suspend", "revoke", "stage", "approve", "reject",
            "install", "uninstall", "setEnabled", "updateConfig"} \cup UnitOps
AnswerNames == {"", "Granted", "Denied", "living", "never", "tombstone", "on", "off",
                "purge", "keep", "pend", "activate"}
Requests ==
    [op : OpNames, pc : {"idle", "loaded", "reviewed", "claimed", "locked"},
     who : Holders, slug : Slugs \cup {""}, answer : AnswerNames,
     config : Configs \cup {""}, next : Manifests, reviewed : Manifests,
     m : Manifests, epoch : Nat, staging : Nat, levels : [Slugs -> Nat],
     risky : SUBSET (Scopes \X Slugs), seed : SUBSET Slugs,
     row : Rows \cup {NoRow}, short : SUBSET Slugs]

Types ==
    /\ TypeOK
    /\ grants \in [Holders -> [Slugs -> Grants]]
    /\ req \in [Reqs -> Requests]
    /\ plugin.pending = NoStaging \/ plugin.pending.id # 0

Passes == {"reenable", "suspend"}
HouseholdOps == {"enableHousehold", "updateHouseholdConfig", "disableHousehold"}

(* What a request was given when it began, or judged then. *)
Given(q) ==
    /\ q.op \in Passes \cup {"revoke"} \cup UnitOps => q.who \in Units
    /\ q.op \in Passes \cup {"decide"} => q.slug \in Slugs
    /\ q.op \in HouseholdOps => ScopeOf[q.who] = "household"
    /\ q.op = "setUserEnabled" => ScopeOf[q.who] = "user"
    /\ q.op = "decide" =>
           /\ q.answer \in {"Granted", "Denied"}
           /\ q.slug \in Asks(q.m, Scope(q.who))
           /\ q.answer = "Denied" /\ Check[q.m][q.slug].required => q.who # Server
    /\ q.op = "enableHousehold" => q.config = "" \/ q.config \in Accepts[q.m]
    /\ q.op \in {"updateHouseholdConfig", "updateConfig"} => q.config \in Accepts[q.m]
    /\ q.op = "install" => q.config \in Configs /\ q.answer # "living"
    /\ q.op = "stage" =>
           /\ q.staging = 0 /\ q.seed = {}
           /\ q.answer = "activate" => ~ServerGating(q.m, q.next, q.risky)

(* The operations that judge by a manifest under the share of the row. *)
JudgingOps == Passes \cup {"decide", "enableHousehold", "updateHouseholdConfig"}

(* What the share of the plugin row p keeps true. *)
Claimed(q, p) ==
    q.pc \in {"claimed", "locked"} =>
        /\ p.state = "living"
        /\ q.op \in Passes \cup {"decide"} \cup UnitOps
        /\ q.op \in JudgingOps => q.m = p.m
        /\ q.op \in {"enableHousehold", "updateHouseholdConfig"} =>
               Surface[q.m] = "household"

(* The denials q's transaction has to reckon with: a grant replaces one.     *)
Reckoned(q, g) ==
    DeniedRequired(q.m, Scope(q.who), g[q.who])
    \ (IF q.op = "decide" /\ q.answer = "Granted" THEN {q.slug} ELSE {})

(* What the unit's advisory lock keeps true. *)
Under(q, g, rows) ==
    q.pc = "locked" =>
        /\ q.who \in Units /\ q.row = rows[q.who]
        /\ q.op = "decide" => TouchesUnit(q)
        /\ q.op \in Passes \cup {"decide", "enableHousehold"} => Reckoned(q, g) \subseteq q.short
        /\ q.op = "decide" /\ q.answer = "Denied" => q.slug \in q.short

(* What an approval reviewed, and what it will seed. *)
Approving(q, p, d) ==
    q.op = "approve" =>
        /\ q.pc \in {"reviewed", "loaded"}
        /\ q.staging # 0
        /\ p.pending.id = q.staging => p.pending.m = q.reviewed
        /\ q.pc = "loaded" =>
               /\ q.next = q.reviewed
               /\ q.seed \subseteq Asks(q.next, "server")
               /\ q.epoch = p.epoch /\ ~d =>
                      Asks(q.next, "server") \ Asks(q.m, "server") \subseteq q.seed

Fits(r) ==
    /\ Given(req[r])
    /\ Claimed(req[r], plugin)
    /\ Under(req[r], grants, units)
    /\ Approving(req[r], plugin, drifted)

LocksExclude ==
    \A r, s \in Reqs :
        req[r].pc = "locked" /\ req[s].pc = "locked" /\ req[r].who = req[s].who => r = s

Consented ==
    DenialsSuspend /\ ServerConsentHolds /\ ConsentIsAskedFor /\ ServedConfigConforms

ConsentInv ==
    /\ Types
    /\ \A r \in Reqs : Fits(r)
    /\ LocksExclude
    /\ Consented

-----------------------------------------------------------------------------
(* The operators of the model. *)

(* Every household and user consents in its own scope, and no other holder   *)
(* in the server's.                                                          *)
LEMMA ScopeType ==
  /\ \A u \in Units : Scope(u) = ScopeOf[u] /\ u \in Holders /\ u # Server
  /\ \A h \in Holders : Scope(h) \in Scopes /\ (h # Server => h \in Units)
  /\ Server \in Holders /\ Scope(Server) = "server"
  /\ \A h \in Holders : Scope(h) = "server" => h = Server
  BY DEF Scope, Scopes, Holders

(* A request that is not under way fits whatever the rows are. *)
LEMMA IdleType ==
  /\ Idle \in Requests /\ Idle.pc = "idle" /\ Idle.op = "idle" /\ Given(Idle)
  /\ \A p : Claimed(Idle, p)
  /\ \A g, rows : Under(Idle, g, rows)
  /\ \A p, d : Approving(Idle, p, d)
<1>1. NoRow \in Rows \cup {NoRow} /\ [s \in Slugs |-> 0] \in [Slugs -> Nat]
  OBVIOUS
<1>2. Server \in Holders
  BY ScopeType
<1>3. Idle \in Requests
  <2>1. {} \in SUBSET (Scopes \X Slugs) /\ {} \in SUBSET Slugs
        /\ First \in Manifests /\ Empty \in Configs
        /\ "idle" \in OpNames /\ "" \in AnswerNames
    BY DEF OpNames, AnswerNames
  <2> QED
    BY ONLY <1>1, <1>2, <2>1 DEF Idle, Requests
<1>4. Idle.op = "idle" /\ Idle.pc = "idle"
  BY DEF Idle
<1> QED
  BY <1>3, <1>4 DEF Given, Claimed, Under, Approving, Passes, UnitOps, HouseholdOps

(* A new mark is one that none of the finitely many in use equals. *)
LEMMA FreshIsNew ==
  ASSUME NEW used, IsFiniteSet(used)
  PROVE  Fresh(used) \in Nat /\ Fresh(used) # 0 /\ Fresh(used) \notin used
<1> DEFINE c == Cardinality(used)
<1>1. c \in Nat
  BY FS_CardinalityType
<1>2. \E n \in 1 .. c + 1 : n \notin used
  <2> SUFFICES ASSUME 1 .. c + 1 \subseteq used PROVE FALSE
    OBVIOUS
  <2>1. Cardinality(1 .. c + 1) = c + 1
    BY <1>1, FS_Interval
  <2>2. Cardinality(1 .. c + 1) <= c
    BY FS_Subset
  <2> QED
    BY <1>1, <2>1, <2>2
<1>3. Fresh(used) \in 1 .. c + 1 /\ Fresh(used) \notin used
  BY <1>2 DEF Fresh
<1> QED
  BY <1>1, <1>3

(* A mark of each of finitely many requests is finitely many marks. *)
LEMMA MarksFinite ==
  ASSUME NEW f, NEW x, f = [r \in Reqs |-> f[r]]
  PROVE  IsFiniteSet({x} \cup {f[r] : r \in Reqs})
<1> DEFINE T == {f[r] : r \in Reqs}
<1>1. f \in Surjection(Reqs, T)
  BY DEF Surjection
<1>2. IsFiniteSet(T)
  BY <1>1, FS_Surjection
<1>3. IsFiniteSet(T \cup {x})
  BY <1>2, FS_AddElement
<1>4. T \cup {x} = {x} \cup T
  OBVIOUS
<1> QED
  BY <1>3, <1>4

(* The new id of a staging is nobody's, and not the one of no staging. *)
LEMMA NewStaging ==
  ASSUME Types
  PROVE  /\ Fresh(StagingIds) \in Nat \ {0}
         /\ \A r \in Reqs : req[r].staging # Fresh(StagingIds)
<1> DEFINE f == [r \in Reqs |-> req[r].staging]
<1>1. IsFiniteSet({plugin.pending.id} \cup {f[r] : r \in Reqs})
  <2> HIDE DEF f
  <2>1. f = [r \in Reqs |-> f[r]]
    BY DEF f
  <2> QED
    BY ONLY <2>1, MarksFinite
<1>2. {f[r] : r \in Reqs} = {req[r].staging : r \in Reqs}
  OBVIOUS
<1>3. IsFiniteSet(StagingIds)
  BY <1>1, <1>2 DEF StagingIds
<1>4. \A r \in Reqs : req[r].staging \in StagingIds
  BY DEF StagingIds
<1> QED
  BY <1>3, <1>4, FreshIsNew

(* The mark of a new installation is nobody's. *)
LEMMA NewEpoch ==
  ASSUME Types
  PROVE  /\ Fresh(Epochs) \in Nat
         /\ \A r \in Reqs : req[r].epoch # Fresh(Epochs)
<1> DEFINE f == [r \in Reqs |-> req[r].epoch]
<1>1. IsFiniteSet({plugin.epoch} \cup {f[r] : r \in Reqs})
  <2> HIDE DEF f
  <2>1. f = [r \in Reqs |-> f[r]]
    BY DEF f
  <2> QED
    BY ONLY <2>1, MarksFinite
<1>2. {f[r] : r \in Reqs} = {req[r].epoch : r \in Reqs}
  OBVIOUS
<1>3. IsFiniteSet(Epochs)
  BY <1>1, <1>2 DEF Epochs
<1>4. \A r \in Reqs : req[r].epoch \in Epochs
  BY DEF Epochs
<1> QED
  BY <1>3, <1>4, FreshIsNew

(* The initial state, of a plugin never installed or freshly installed. *)
LEMMA ConsentInit == Init => ConsentInv
<1> SUFFICES ASSUME Init PROVE ConsentInv
  OBVIOUS
<1>1. Types
  <2>1. plugin \in [state : {"never", "living", "tombstone"}, m : Manifests,
                   epoch : Nat, enabled : BOOLEAN, config : Configs,
                   pending : [id : Nat, m : Manifests]]
    <3>1. NoStaging \in [id : Nat, m : Manifests]
      BY DEF NoStaging
    <3> HIDE DEF NoStaging
    <3>2. PICK k : k = NoStaging
      OBVIOUS
    <3>3. plugin = [state |-> Start, m |-> First, epoch |-> 1,
                    enabled |-> (Start = "living"), config |-> Empty, pending |-> k]
      BY <3>2 DEF Init
    <3>4. Start \in {"never", "living", "tombstone"} /\ (Start = "living") \in BOOLEAN
      OBVIOUS
    <3> QED
      BY <3>1, <3>2, <3>3, <3>4
  <2>2. grants \in [Holders -> [Slugs -> Grants]]
    BY DEF Init, Grants, Decision
  <2>3. units \in [Units -> Rows \cup {NoRow}]
    BY DEF Init
  <2>4. risk \in [Slugs -> 0 .. MaxRisk] /\ catalog \subseteq Slugs
    BY DEF Init
  <2>5. req \in [Reqs -> Requests] /\ DOMAIN req = Reqs
    BY IdleType DEF Init
  <2>6. \A h \in Holders, s \in Slugs :
           grants[h][s].status \in {"Pending", "Granted", "Denied"}
    BY <2>2 DEF Grants, Pending
  <2>7. drifted \in BOOLEAN /\ plugin.pending = NoStaging
    BY DEF Init
  <2> QED
    BY <2>1, <2>2, <2>3, <2>4, <2>5, <2>6, <2>7 DEF Types, TypeOK
<1>2. \A r \in Reqs : Fits(r)
  BY IdleType DEF Init, Fits
<1>3. LocksExclude
  BY IdleType DEF Init, LocksExclude
<1>4. \A u \in Units : ~units[u].row
  BY DEF Init, NoRow
<1>5. \A h \in Holders, s \in Slugs :
         grants[h][s] = IF Start = "living" /\ h = Server /\ s \in Asks(First, "server")
                        THEN Decision("Granted", 0) ELSE Pending
  BY DEF Init
<1>6. Decision("Granted", 0).status = "Granted" /\ Pending.status = "Pending"
      /\ Decision("Granted", 0) # Pending
  BY DEF Decision, Pending
<1>7. plugin.state = Start /\ plugin.m = First /\ plugin.config = Empty
      /\ plugin.pending = NoStaging /\ plugin.enabled = (Start = "living")
  BY DEF Init
<1>8. DenialsSuspend /\ ServedConfigConforms
  BY <1>4, <1>7 DEF DenialsSuspend, ServedConfigConforms
<1>9. ServerConsentHolds
  BY <1>5, <1>6, <1>7, ScopeType DEF ServerConsentHolds, Requires, Asks
<1>10. ConsentIsAskedFor
  <2>1. catalog = IF Start = "living" THEN Declares[First] ELSE {}
    BY DEF Init
  <2>2. ASSUME Start = "living", NEW h \in Holders, NEW s \in Slugs, grants[h][s] # Pending
        PROVE  s \in Asks(plugin.m, Scope(h))
    BY <1>5, <1>7, <2>2, ScopeType
  <2>3. ASSUME Start # "living", NEW h \in Holders, NEW s \in Slugs
        PROVE  grants[h][s] = Pending
    BY <1>5, <2>3
  <2> QED
    BY <1>7, <2>1, <2>2, <2>3 DEF ConsentIsAskedFor
<1> QED
  BY <1>1, <1>2, <1>3, <1>8, <1>9, <1>10 DEF ConsentInv, Consented

-----------------------------------------------------------------------------
(* Steps that change no row. *)

Tables == <<plugin, catalog, risk, grants, units, drifted>>

(* A request that moves on without writing: what it becomes has to fit, and  *)
(* a unit it locks must not be another's.                                    *)
LEMMA RequestStep ==
  ASSUME ConsentInv, NEW r \in Reqs, NEW q \in Requests,
         req' = [req EXCEPT ![r] = q], UNCHANGED Tables,
         Given(q), Claimed(q, plugin), Under(q, grants, units),
         Approving(q, plugin, drifted),
         q.pc = "locked" => \A s \in Reqs \ {r} : ~(req[s].pc = "locked" /\ req[s].who = q.who)
  PROVE  ConsentInv'
<1>1. Types' /\ \A s \in Reqs : req'[s] = IF s = r THEN q ELSE req[s]
  BY DEF ConsentInv, Types, TypeOK, Tables
<1>2. \A s \in Reqs : Fits(s)'
  BY <1>1 DEF ConsentInv, Fits, Tables
<1>3. LocksExclude'
  BY <1>1 DEF ConsentInv, LocksExclude
<1>4. Consented'
  <2>1. plugin' = plugin /\ catalog' = catalog /\ grants' = grants /\ units' = units
        /\ drifted' = drifted
    BY DEF Tables
  <2>2. DenialsSuspend' = DenialsSuspend /\ ServedConfigConforms' = ServedConfigConforms
    BY <2>1 DEF DenialsSuspend, ServedConfigConforms
  <2>3. ServerConsentHolds' = ServerConsentHolds /\ ConsentIsAskedFor' = ConsentIsAskedFor
    BY <2>1 DEF ServerConsentHolds, ConsentIsAskedFor
  <2> QED
    BY <2>2, <2>3 DEF ConsentInv, Consented
<1> QED
  BY <1>1, <1>2, <1>3, <1>4 DEF ConsentInv

(* A request begins. *)
LEMMA BeginStep ==
  ASSUME ConsentInv, NEW r \in Reqs, NEW q \in Requests, Begin(r, q),
         q.pc \in {"loaded", "reviewed"}, Given(q), Approving(q, plugin, drifted)
  PROVE  ConsentInv'
<1>1. Claimed(q, plugin) /\ Under(q, grants, units)
  BY DEF Claimed, Under
<1> QED
  BY <1>1, RequestStep DEF Begin, Tables

(* A request is refused or dies. *)
LEMMA AbortStep ==
  ASSUME ConsentInv, NEW r \in Reqs, Abort(r)
  PROVE  ConsentInv'
  BY IdleType, RequestStep DEF Abort, End, Tables

(* The plugin's manifest is one of them. *)
LEMMA PluginType ==
  ASSUME ConsentInv
  PROVE  /\ plugin.m \in Manifests /\ plugin.epoch \in Nat /\ plugin.config \in Configs
         /\ plugin.state \in {"never", "living", "tombstone"}
         /\ plugin.pending.id \in Nat /\ plugin.pending.m \in Manifests
         /\ plugin.enabled \in BOOLEAN
  BY DEF ConsentInv, Types, TypeOK

(* A decision is judged by the manifest that is loaded. *)
LEMMA DecideStep ==
  ASSUME ConsentInv, NEW r \in Reqs, NEW h \in Holders, NEW s \in Slugs,
         NEW status \in {"Granted", "Denied"}, Decide(r, h, s, status)
  PROVE  ConsentInv'
<1>1. PICK k \in Requests : k = Idle
  BY IdleType
<1> DEFINE q == Seen([k EXCEPT !.op = "decide", !.pc = "loaded", !.who = h,
                               !.slug = s, !.answer = status])
<1>2. Begin(r, q) /\ s \in Asks(plugin.m, Scope(h))
      /\ ~(status = "Denied" /\ h = Server /\ Check[plugin.m][s].required)
  BY <1>1 DEF Decide
<1>3. q \in Requests /\ q.op = "decide" /\ q.pc = "loaded" /\ q.who = h /\ q.slug = s
      /\ q.answer = status /\ q.m = plugin.m
  <2>1. "decide" \in OpNames /\ status \in AnswerNames
    BY DEF OpNames, AnswerNames
  <2> QED
    BY <2>1, PluginType DEF Seen, Requests
<1> HIDE DEF q
<1>4. Given(q)
  BY <1>2, <1>3 DEF Given, Passes, UnitOps, HouseholdOps
<1>5. Approving(q, plugin, drifted)
  BY <1>3 DEF Approving
<1> QED
  BY <1>2, <1>3, <1>4, <1>5, BeginStep

(* The granted decisions of a unit are looked up to be revoked. *)
LEMMA RevokeStep ==
  ASSUME ConsentInv, NEW r \in Reqs, NEW u \in Units, Revoke(r, u)
  PROVE  ConsentInv'
<1>1. PICK k \in Requests : k = Idle
  BY IdleType
<1>2. PICK granted \in SUBSET Slugs : granted = {s \in Slugs : grants[u][s].status = "Granted"}
  OBVIOUS
<1> DEFINE q == [k EXCEPT !.op = "revoke", !.pc = "loaded", !.who = u, !.seed = granted]
<1>3. Begin(r, q)
  BY <1>1, <1>2 DEF Revoke
<1>4. q \in Requests /\ q.op = "revoke" /\ q.pc = "loaded" /\ q.who = u
  BY ScopeType DEF Requests, OpNames
<1> HIDE DEF q
<1>5. Given(q)
  BY <1>4 DEF Given, Passes, UnitOps, HouseholdOps
<1>6. Approving(q, plugin, drifted)
  BY <1>4 DEF Approving
<1> QED
  BY <1>3, <1>4, <1>5, <1>6, BeginStep

(* A household enables the plugin, with a document the manifest accepts. *)
LEMMA EnableStep ==
  ASSUME ConsentInv, NEW r \in Reqs, NEW u \in Units, NEW c \in Configs \cup {""},
         ScopeOf[u] = "household", EnableHousehold(r, u, c)
  PROVE  ConsentInv'
<1>1. PICK k \in Requests : k = Idle
  BY IdleType
<1> DEFINE q == Seen([k EXCEPT !.op = "enableHousehold", !.pc = "loaded",
                               !.who = u, !.config = c])
<1>2. Begin(r, q) /\ (c # "" => c \in Accepts[plugin.m])
  BY <1>1 DEF EnableHousehold
<1>3. q \in Requests /\ q.op = "enableHousehold" /\ q.pc = "loaded" /\ q.who = u
      /\ q.config = c /\ q.m = plugin.m
  <2>1. "enableHousehold" \in OpNames
    BY DEF OpNames, UnitOps
  <2> QED
    BY <2>1, PluginType, ScopeType DEF Seen, Requests
<1> HIDE DEF q
<1>4. Given(q)
  BY <1>2, <1>3 DEF Given, Passes, UnitOps, HouseholdOps
<1>5. Approving(q, plugin, drifted)
  BY <1>3 DEF Approving
<1> QED
  BY <1>2, <1>3, <1>4, <1>5, BeginStep

(* A household's document is checked against the manifest. *)
LEMMA UpdateHouseholdConfigStep ==
  ASSUME ConsentInv, NEW r \in Reqs, NEW u \in Units, NEW c \in Configs,
         ScopeOf[u] = "household", UpdateHouseholdConfig(r, u, c)
  PROVE  ConsentInv'
<1>1. PICK k \in Requests : k = Idle
  BY IdleType
<1> DEFINE q == Seen([k EXCEPT !.op = "updateHouseholdConfig", !.pc = "loaded",
                               !.who = u, !.config = c])
<1>2. Begin(r, q) /\ c \in Accepts[plugin.m]
  BY <1>1 DEF UpdateHouseholdConfig
<1>3. q \in Requests /\ q.op = "updateHouseholdConfig" /\ q.pc = "loaded" /\ q.who = u
      /\ q.config = c /\ q.m = plugin.m
  <2>1. "updateHouseholdConfig" \in OpNames
    BY DEF OpNames, UnitOps
  <2> QED
    BY <2>1, PluginType, ScopeType DEF Seen, Requests
<1> HIDE DEF q
<1>4. Given(q)
  BY <1>2, <1>3 DEF Given, Passes, UnitOps, HouseholdOps
<1>5. Approving(q, plugin, drifted)
  BY <1>3 DEF Approving
<1> QED
  BY <1>2, <1>3, <1>4, <1>5, BeginStep

(* A household switches the plugin off. *)
LEMMA DisableStep ==
  ASSUME ConsentInv, NEW r \in Reqs, NEW u \in Units,
         ScopeOf[u] = "household", DisableHousehold(r, u)
  PROVE  ConsentInv'
<1>1. PICK k \in Requests : k = Idle
  BY IdleType
<1> DEFINE q == [k EXCEPT !.op = "disableHousehold", !.pc = "loaded", !.who = u]
<1>2. Begin(r, q)
  BY <1>1 DEF DisableHousehold
<1>3. q \in Requests /\ q.op = "disableHousehold" /\ q.pc = "loaded" /\ q.who = u
  <2>1. "disableHousehold" \in OpNames
    BY DEF OpNames, UnitOps
  <2> QED
    BY <2>1, ScopeType DEF Requests
<1> HIDE DEF q
<1>4. Given(q)
  BY <1>3 DEF Given, Passes, UnitOps, HouseholdOps
<1>5. Approving(q, plugin, drifted)
  BY <1>3 DEF Approving
<1> QED
  BY <1>2, <1>3, <1>4, <1>5, BeginStep

(* A user switches the plugin on or off. *)
LEMMA SetUserEnabledStep ==
  ASSUME ConsentInv, NEW r \in Reqs, NEW u \in Units, NEW on \in {"on", "off"},
         ScopeOf[u] = "user", SetUserEnabled(r, u, on)
  PROVE  ConsentInv'
<1>1. PICK k \in Requests : k = Idle
  BY IdleType
<1> DEFINE q == [k EXCEPT !.op = "setUserEnabled", !.pc = "loaded", !.who = u,
                          !.answer = on]
<1>2. Begin(r, q)
  BY <1>1 DEF SetUserEnabled
<1>3. q \in Requests /\ q.op = "setUserEnabled" /\ q.pc = "loaded" /\ q.who = u
  <2>1. "setUserEnabled" \in OpNames /\ on \in AnswerNames /\ u \in Holders
    BY ScopeType DEF OpNames, UnitOps, AnswerNames
  <2> QED
    BY <2>1 DEF Requests
<1> HIDE DEF q
<1>4. Given(q)
  BY <1>3 DEF Given, Passes, UnitOps, HouseholdOps
<1>5. Approving(q, plugin, drifted)
  BY <1>3 DEF Approving
<1> QED
  BY <1>2, <1>3, <1>4, <1>5, BeginStep

(* The staged update's risks are of scopes and permissions. *)
LEMMA RiskyType ==
  ASSUME NEW m, NEW n
  PROVE  Risky(m, n) \in SUBSET (Scopes \X Slugs)
  BY DEF Risky

(* A risk level, whoever set it. *)
LEMMA RiskType ==
  ASSUME NEW m \in Manifests, NEW s \in Slugs, NEW levels \in [Slugs -> Nat]
  PROVE  RiskOf(m, s, levels) \in Nat
  BY DEF RiskOf

(* The core catalog's levels are levels. *)
LEMMA LevelsType == ConsentInv => risk \in [Slugs -> Nat]
<1> SUFFICES ASSUME ConsentInv PROVE risk \in [Slugs -> Nat]
  OBVIOUS
<1>1. risk \in [Slugs -> 0 .. MaxRisk] /\ MaxRisk \in Nat
  BY DEF ConsentInv, Types, TypeOK
<1> QED
  BY <1>1

(* What a comparison with a manifest puts into a request. *)
LEMMA ComparedType ==
  ASSUME ConsentInv, NEW k \in Requests, NEW n \in Manifests
  PROVE  /\ Compared(k, n) \in Requests
         /\ Compared(k, n).m = plugin.m /\ Compared(k, n).epoch = plugin.epoch
         /\ Compared(k, n).next = n /\ Compared(k, n).risky = Risky(plugin.m, n)
         /\ Compared(k, n).seed = k.seed /\ Compared(k, n).staging = k.staging
         /\ Compared(k, n).op = k.op /\ Compared(k, n).reviewed = k.reviewed
<1>1. PICK risks \in SUBSET (Scopes \X Slugs) : risks = Risky(plugin.m, n)
  BY RiskyType
<1>2. PICK levels \in [Slugs -> Nat] : levels = risk
  BY LevelsType
<1> DEFINE c == [Seen(k) EXCEPT !.next = n, !.levels = levels, !.risky = risks]
<1>3. c = Compared(k, n)
  BY <1>1, <1>2 DEF Compared
<1>4. c \in Requests /\ c.m = plugin.m /\ c.epoch = plugin.epoch /\ c.next = n
      /\ c.risky = risks /\ c.seed = k.seed /\ c.staging = k.staging /\ c.op = k.op
      /\ c.reviewed = k.reviewed
  BY PluginType DEF Seen, Requests
<1> HIDE DEF c
<1> QED
  BY <1>1, <1>3, <1>4

(* An update is compared with the active manifest. *)
LEMMA StageStep ==
  ASSUME ConsentInv, NEW r \in Reqs, NEW n \in Manifests, Stage(r, n)
  PROVE  ConsentInv'
<1>1. PICK k \in Requests : k = Compared(Idle, n)
  BY IdleType, ComparedType
<1>2. k.m = plugin.m /\ k.next = n /\ k.risky = Risky(plugin.m, n) /\ k.seed = {}
      /\ k.staging = 0
  <2>1. Idle.seed = {} /\ Idle.staging = 0
    BY DEF Idle
  <2>2. PICK z \in Requests : z = Idle
    BY IdleType
  <2>3. /\ Compared(z, n).m = plugin.m /\ Compared(z, n).next = n
        /\ Compared(z, n).risky = Risky(plugin.m, n)
        /\ Compared(z, n).seed = z.seed /\ Compared(z, n).staging = z.staging
    BY ComparedType
  <2> QED
    BY <1>1, <2>1, <2>2, <2>3
<1>3. PICK a \in {"pend", "activate"} :
         a = IF ServerGating(plugin.m, n, Risky(plugin.m, n)) \/ BlockedByDenial(n) # {}
             THEN "pend" ELSE "activate"
  OBVIOUS
<1> DEFINE q == [k EXCEPT !.op = "stage", !.pc = "loaded", !.answer = a]
<1>4. Begin(r, q)
  BY <1>1, <1>3 DEF Stage
<1>5. q \in Requests /\ q.op = "stage" /\ q.pc = "loaded" /\ q.answer = a /\ q.m = k.m
      /\ q.next = k.next /\ q.risky = k.risky /\ q.seed = k.seed /\ q.staging = k.staging
  <2>1. "stage" \in OpNames /\ a \in AnswerNames
    BY DEF OpNames, AnswerNames
  <2> QED
    BY <2>1 DEF Requests
<1> HIDE DEF q
<1>6. Given(q)
  BY <1>2, <1>3, <1>5 DEF Given, Passes, UnitOps, HouseholdOps
<1>7. Approving(q, plugin, drifted)
  BY <1>5 DEF Approving
<1> QED
  BY <1>4, <1>5, <1>6, <1>7, BeginStep

(* An admin reads the staged update. *)
LEMMA ReviewStep ==
  ASSUME ConsentInv, NEW r \in Reqs, NEW answer \in {"approve", "reject"}, Review(r, answer)
  PROVE  ConsentInv'
<1>1. PICK k \in Requests : k = Idle
  BY IdleType
<1> DEFINE q == [k EXCEPT !.op = answer, !.pc = "reviewed",
                          !.staging = plugin.pending.id, !.reviewed = plugin.pending.m]
<1>2. Begin(r, q) /\ plugin.pending # NoStaging
  BY <1>1 DEF Review
<1>3. q \in Requests /\ q.op = answer /\ q.pc = "reviewed"
      /\ q.staging = plugin.pending.id /\ q.reviewed = plugin.pending.m
  <2>1. answer \in OpNames
    BY DEF OpNames
  <2> QED
    BY <2>1, PluginType DEF Requests
<1>4. plugin.pending.id # 0
  BY <1>2 DEF ConsentInv, Types
<1> HIDE DEF q
<1>5. Given(q)
  BY <1>3 DEF Given, Passes, UnitOps, HouseholdOps
<1>6. Approving(q, plugin, drifted)
  BY <1>3, <1>4 DEF Approving
<1> QED
  BY <1>2, <1>3, <1>5, <1>6, BeginStep

(* An install reads what the tombstone left. *)
LEMMA InstallStep ==
  ASSUME ConsentInv, NEW r \in Reqs, NEW n \in Manifests, Install(r, n)
  PROVE  ConsentInv'
<1>1. PICK k \in Requests : k = Idle
  BY IdleType
<1>2. PICK levels \in [Slugs -> Nat] : levels = risk
  BY LevelsType
<1>3. PICK state \in {"never", "tombstone"} : state = plugin.state
  BY PluginType DEF Install
<1> DEFINE q == [k EXCEPT !.op = "install", !.pc = "loaded", !.next = n,
                          !.levels = levels, !.answer = state, !.config = plugin.config]
<1>4. Begin(r, q)
  BY <1>1, <1>2, <1>3 DEF Install
<1>5. q \in Requests /\ q.op = "install" /\ q.pc = "loaded" /\ q.config = plugin.config
      /\ q.answer = state
  <2>1. "install" \in OpNames /\ state \in AnswerNames
    BY DEF OpNames, AnswerNames
  <2> QED
    BY <2>1, PluginType DEF Requests
<1> HIDE DEF q
<1>6. Given(q)
  BY <1>5, PluginType DEF Given, Passes, UnitOps, HouseholdOps
<1>7. Approving(q, plugin, drifted)
  BY <1>5 DEF Approving
<1> QED
  BY <1>4, <1>5, <1>6, <1>7, BeginStep

(* An uninstall and a switch of the plugin carry only their answer. *)
LEMMA SwitchStep ==
  ASSUME ConsentInv, NEW r \in Reqs, NEW answer,
         (answer \in {"purge", "keep"} /\ Uninstall(r, answer))
         \/ (answer \in {"on", "off"} /\ SetEnabled(r, answer))
  PROVE  ConsentInv'
<1>1. PICK k \in Requests : k = Idle
  BY IdleType
<1>2. PICK op \in {"uninstall", "setEnabled"} :
         Begin(r, [k EXCEPT !.op = op, !.pc = "loaded", !.answer = answer])
  BY <1>1 DEF Uninstall, SetEnabled
<1> DEFINE q == [k EXCEPT !.op = op, !.pc = "loaded", !.answer = answer]
<1>3. q \in Requests /\ q.op = op /\ q.pc = "loaded"
  <2>1. op \in OpNames /\ answer \in AnswerNames
    BY DEF OpNames, AnswerNames
  <2> QED
    BY <2>1 DEF Requests
<1>4. Begin(r, q)
  BY <1>2
<1> HIDE DEF q
<1>5. Given(q)
  BY <1>3 DEF Given, Passes, UnitOps, HouseholdOps
<1>6. Approving(q, plugin, drifted)
  BY <1>3 DEF Approving
<1> QED
  BY <1>3, <1>4, <1>5, <1>6, BeginStep

(* The server's document is checked against the manifest. *)
LEMMA UpdateConfigStep ==
  ASSUME ConsentInv, NEW r \in Reqs, NEW c \in Configs, UpdateConfig(r, c)
  PROVE  ConsentInv'
<1>1. PICK k \in Requests : k = Idle
  BY IdleType
<1> DEFINE q == Seen([k EXCEPT !.op = "updateConfig", !.pc = "loaded", !.config = c])
<1>2. Begin(r, q) /\ c \in Accepts[plugin.m]
  BY <1>1 DEF UpdateConfig
<1>3. q \in Requests /\ q.op = "updateConfig" /\ q.pc = "loaded" /\ q.config = c
      /\ q.m = plugin.m
  BY PluginType DEF Seen, Requests, OpNames
<1> HIDE DEF q
<1>4. Given(q)
  BY <1>2, <1>3 DEF Given, Passes, UnitOps, HouseholdOps
<1>5. Approving(q, plugin, drifted)
  BY <1>3 DEF Approving
<1> QED
  BY <1>2, <1>3, <1>4, <1>5, BeginStep

-----------------------------------------------------------------------------
(* The claims and the locks. *)

(* A request that holds nothing and approves nothing relies on nothing. *)
LEMMA FreeFits ==
  ASSUME NEW q, q.pc \notin {"claimed", "locked"}, q.op # "approve", NEW p, NEW g,
         NEW rows, NEW d
  PROVE  Claimed(q, p) /\ Under(q, g, rows) /\ Approving(q, p, d)
  BY DEF Claimed, Under, Approving

(* The pass that follows a decision. *)
LEMMA PassType ==
  ASSUME NEW q \in Requests, q.op = "decide", Given(q)
  PROVE  /\ Pass(q) \in Requests /\ Given(Pass(q))
         /\ Pass(q).pc \notin {"claimed", "locked"} /\ Pass(q).op # "approve"
<1>1. PICK k \in Requests : k = Idle
  BY IdleType
<1>2. q.slug \in Slugs /\ q.who \in Holders
  BY DEF Given, Requests
<1>3. CASE q.who = Server \/ (q.answer = "Denied" /\ ~Check[q.m][q.slug].required)
  BY <1>3, IdleType DEF Pass
<1>4. CASE ~(q.who = Server \/ (q.answer = "Denied" /\ ~Check[q.m][q.slug].required))
  <2>1. PICK op \in Passes : op = IF q.answer = "Granted" THEN "reenable" ELSE "suspend"
    BY DEF Passes
  <2> DEFINE n == [k EXCEPT !.op = op, !.pc = "loaded", !.who = q.who, !.slug = q.slug]
  <2>2. Pass(q) = n
    BY <1>1, <1>4, <2>1 DEF Pass
  <2>3. n \in Requests /\ n.op = op /\ n.pc = "loaded" /\ n.who = q.who /\ n.slug = q.slug
    <3>1. op \in OpNames
      BY DEF OpNames, Passes
    <3> QED
      BY <1>2, <3>1 DEF Requests
  <2>4. q.who \in Units
    BY <1>2, <1>4, ScopeType
  <2> HIDE DEF n
  <2>5. Given(n)
    BY <1>2, <2>3, <2>4 DEF Given, Passes, UnitOps, HouseholdOps
  <2> QED
    BY <2>2, <2>3, <2>5 DEF Passes
<1> QED
  BY <1>3, <1>4

(* A decision claims the plugin row, or finds itself on record already. *)
LEMMA ClaimDecisionStep ==
  ASSUME ConsentInv, NEW r \in Reqs, ClaimDecision(r)
  PROVE  ConsentInv'
<1>1. PICK k \in Requests : k = req[r] /\ Given(k)
  BY DEF ConsentInv, Types, Fits
<1>2. k.op = "decide" /\ k.pc = "loaded" /\ plugin.state = "living" /\ k.m = plugin.m
  BY <1>1 DEF ClaimDecision, Unmoved
<1>3. UNCHANGED Tables
  BY DEF ClaimDecision, Tables
<1>4. PICK level \in Nat : level = Decision(k.answer, RiskOf(k.m, k.slug, risk)).risk
  <2>1. k.slug \in Slugs /\ k.m \in Manifests
    BY <1>1, <1>2 DEF Given, Requests
  <2> QED
    BY <2>1, LevelsType, RiskType DEF Decision
<1>5. CASE req' = [req EXCEPT ![r] = Pass(k)]
  BY <1>1, <1>2, <1>3, <1>5, PassType, FreeFits, RequestStep
<1>6. CASE req' = [req EXCEPT ![r].pc = "claimed", ![r].levels[k.slug] = level]
  <2> DEFINE n == [k EXCEPT !.pc = "claimed", !.levels = [k.levels EXCEPT ![k.slug] = level]]
  <2>1. req' = [req EXCEPT ![r] = n]
    BY <1>1, <1>6 DEF ConsentInv, Types, Requests
  <2>2. [k.levels EXCEPT ![k.slug] = level] \in [Slugs -> Nat]
    BY <1>1 DEF Requests
  <2>3. n \in Requests
    BY <2>2 DEF Requests
  <2>4. n.op = k.op /\ n.pc = "claimed" /\ n.who = k.who /\ n.slug = k.slug
        /\ n.answer = k.answer /\ n.m = k.m
    BY DEF Requests
  <2> HIDE DEF n
  <2>5. Given(n)
    BY <1>1, <1>2, <2>4 DEF Given, Passes, UnitOps, HouseholdOps
  <2>6. Claimed(n, plugin)
    BY <1>2, <2>4 DEF Claimed, Passes
  <2>7. Under(n, grants, units) /\ Approving(n, plugin, drifted)
    BY <1>2, <2>4 DEF Under, Approving
  <2> QED
    BY <1>3, <2>1, <2>3, <2>4, <2>5, <2>6, <2>7, RequestStep
<1> QED
  BY <1>1, <1>4, <1>5, <1>6 DEF ClaimDecision

(* A pass claims the plugin row and judges by the manifest it finds. *)
LEMMA ClaimPassStep ==
  ASSUME ConsentInv, NEW r \in Reqs, ClaimPass(r)
  PROVE  ConsentInv'
<1>1. PICK k \in Requests : k = req[r] /\ Given(k)
  BY DEF ConsentInv, Types, Fits
<1>2. k.op \in Passes /\ plugin.state = "living"
      /\ req' = [req EXCEPT ![r].pc = "claimed", ![r].m = plugin.m]
  BY <1>1 DEF ClaimPass, Passes
<1> DEFINE n == [k EXCEPT !.pc = "claimed", !.m = plugin.m]
<1>3. req' = [req EXCEPT ![r] = n]
  BY <1>1, <1>2 DEF ConsentInv, Types, Requests
<1>4. n \in Requests /\ n.op = k.op /\ n.pc = "claimed" /\ n.who = k.who /\ n.slug = k.slug
      /\ n.m = plugin.m
  BY PluginType DEF Requests
<1> HIDE DEF n
<1>5. Given(n)
  BY <1>1, <1>2, <1>4 DEF Given, Passes, UnitOps, HouseholdOps
<1>6. Claimed(n, plugin)
  BY <1>2, <1>4 DEF Claimed, Passes
<1>7. Under(n, grants, units) /\ Approving(n, plugin, drifted)
  BY <1>2, <1>4 DEF Under, Approving, Passes
<1>8. UNCHANGED Tables
  BY DEF ClaimPass, Tables
<1> QED
  BY <1>3, <1>4, <1>5, <1>6, <1>7, <1>8, RequestStep

(* A unit's writer claims the plugin row. *)
LEMMA ClaimUnitStep ==
  ASSUME ConsentInv, NEW r \in Reqs, ClaimUnit(r)
  PROVE  ConsentInv'
<1>1. PICK k \in Requests : k = req[r] /\ Given(k)
  BY DEF ConsentInv, Types, Fits
<1>2. /\ k.op \in UnitOps /\ plugin.state = "living"
      /\ k.op \in {"enableHousehold", "updateHouseholdConfig"} =>
             k.m = plugin.m /\ Surface[plugin.m] = "household"
      /\ req' = [req EXCEPT ![r].pc = "claimed"]
  BY <1>1 DEF ClaimUnit, Unmoved
<1> DEFINE n == [k EXCEPT !.pc = "claimed"]
<1>3. req' = [req EXCEPT ![r] = n]
  BY <1>1, <1>2 DEF ConsentInv, Types, Requests
<1>4. n \in Requests /\ n.op = k.op /\ n.pc = "claimed" /\ n.who = k.who
      /\ n.m = k.m /\ n.config = k.config
  BY DEF Requests
<1> HIDE DEF n
<1>5. Given(n)
  BY <1>1, <1>2, <1>4 DEF Given, Passes, UnitOps, HouseholdOps
<1>6. Claimed(n, plugin)
  BY <1>2, <1>4 DEF Claimed, JudgingOps, Passes, UnitOps
<1>7. Under(n, grants, units) /\ Approving(n, plugin, drifted)
  BY <1>2, <1>4 DEF Under, Approving, UnitOps
<1>8. UNCHANGED Tables
  BY DEF ClaimUnit, Tables
<1> QED
  BY <1>3, <1>4, <1>5, <1>6, <1>7, <1>8, RequestStep

(* A denial that counts is outstanding. *)
LEMMA DeniedAreOutstanding ==
  ASSUME NEW m, NEW sc, NEW g
  PROVE  DeniedRequired(m, sc, g) \subseteq Outstanding(m, sc, g)
  BY DEF DeniedRequired, Outstanding, Requires

(* What is read under the unit's lock covers the denials there are. *)
LEMMA ConsentCovers ==
  ASSUME ConsentInv, NEW k \in Requests, Given(k), k.op = "decide" => TouchesUnit(k),
         k.op \in Passes \cup {"decide", "enableHousehold"}
  PROVE  /\ Reckoned(k, grants) \subseteq Consent(k)
         /\ k.op = "decide" /\ k.answer = "Denied" => k.slug \in Consent(k)
<1>1. CASE k.op = "decide" /\ k.answer = "Granted"
  <2>1. Scope(k.who) = "user"
    BY <1>1 DEF TouchesUnit
  <2>2. Consent(k) = DeniedRequired(k.m, "user", grants[k.who]) \ {k.slug}
    BY <1>1 DEF Consent
  <2> QED
    BY <1>1, <2>1, <2>2 DEF Reckoned
<1>2. CASE k.op = "enableHousehold"
  <2>1. Scope(k.who) = "household"
    BY <1>2, ScopeType DEF Given, HouseholdOps, UnitOps
  <2>2. Consent(k) = DeniedRequired(k.m, "household", grants[k.who])
    BY <1>2 DEF Consent
  <2> QED
    BY <1>2, <2>1, <2>2 DEF Reckoned
<1>3. CASE k.op \in Passes
  <2>1. Consent(k) = Outstanding(k.m, Scope(k.who), grants[k.who])
    BY <1>3 DEF Consent, Overlay, Passes
  <2> QED
    BY <1>3, <2>1, DeniedAreOutstanding DEF Reckoned, Passes
<1>4. CASE k.op = "decide" /\ k.answer = "Denied"
  <2>1. PICK g : g = Overlay(k)
    OBVIOUS
  <2>2. k.who \in Holders /\ k.slug \in Slugs /\ k.slug \in Asks(k.m, Scope(k.who))
    BY <1>4 DEF Given, Requests
  <2>3. Check[k.m][k.slug].required
    BY <1>4 DEF TouchesUnit
  <2>4. \A s \in Slugs : g[s].status = IF s = k.slug THEN "Denied" ELSE grants[k.who][s].status
    <3>1. grants[k.who] \in [Slugs -> Grants]
      BY <2>2 DEF ConsentInv, Types
    <3>2. g = [grants[k.who] EXCEPT ![k.slug] = Decision(k.answer, k.levels[k.slug])]
      BY <1>4, <2>1 DEF Overlay
    <3>3. Decision(k.answer, k.levels[k.slug]).status = "Denied"
      BY <1>4 DEF Decision
    <3> QED
      BY <2>2, <3>1, <3>2, <3>3
  <2>5. Consent(k) = Outstanding(k.m, Scope(k.who), g)
    BY <1>4, <2>1 DEF Consent
  <2>6. k.slug \in Requires(k.m, Scope(k.who))
    BY <2>2, <2>3 DEF Requires
  <2>7. DeniedRequired(k.m, Scope(k.who), grants[k.who]) \cup {k.slug}
        \subseteq DeniedRequired(k.m, Scope(k.who), g)
    BY <2>2, <2>4, <2>6 DEF DeniedRequired, Requires, Asks
  <2> QED
    BY <1>4, <2>5, <2>7, DeniedAreOutstanding DEF Reckoned
<1>5. k.op = "decide" => k.answer \in {"Granted", "Denied"}
  BY DEF Given
<1> QED
  BY <1>1, <1>2, <1>3, <1>4, <1>5 DEF Passes

(* The consent a transaction reads is about permissions. *)
LEMMA ConsentType ==
  ASSUME NEW k
  PROVE  Consent(k) \in SUBSET Slugs
<1>1. \A m, sc, g : DeniedRequired(m, sc, g) \subseteq Slugs /\ Outstanding(m, sc, g) \subseteq Slugs
  BY DEF DeniedRequired, Outstanding, Requires, Asks
<1> QED
  BY <1>1 DEF Consent

(* A transaction takes the advisory lock of its unit and reads under it. *)
LEMMA LockUnitStep ==
  ASSUME ConsentInv, NEW r \in Reqs, LockUnit(r)
  PROVE  ConsentInv'
<1>1. PICK k \in Requests : k = req[r] /\ Given(k) /\ Claimed(k, plugin)
  BY DEF ConsentInv, Types, Fits
<1>2. k.pc = "claimed" /\ (k.op = "decide" => TouchesUnit(k)) /\ ~Locked(k.who)
      /\ req' = [req EXCEPT ![r].pc = "locked", ![r].row = units[k.who],
                            ![r].short = Consent(k)]
  BY <1>1 DEF LockUnit
<1>3. k.op \in Passes \cup {"decide"} \cup UnitOps
  BY <1>1, <1>2 DEF Claimed
<1>4. k.who \in Units
  <2>1. CASE k.op = "decide"
    <3>1. k.who # Server
      BY <1>2, <2>1, ScopeType DEF TouchesUnit
    <3>2. k.who \in Holders
      BY DEF Requests
    <3> QED
      BY <3>1, <3>2, ScopeType
  <2>2. CASE k.op # "decide"
    BY <1>1, <1>3, <2>2 DEF Given
  <2> QED
    BY <2>1, <2>2
<1>5. PICK row \in Rows \cup {NoRow} : row = units[k.who]
  BY <1>4 DEF ConsentInv, Types, TypeOK
<1>6. PICK short \in SUBSET Slugs : short = Consent(k)
  BY ConsentType
<1> DEFINE n == [k EXCEPT !.pc = "locked", !.row = row, !.short = short]
<1>7. req' = [req EXCEPT ![r] = n]
  BY <1>1, <1>2, <1>5, <1>6 DEF ConsentInv, Types, Requests
<1>8. n \in Requests /\ n.op = k.op /\ n.pc = "locked" /\ n.who = k.who /\ n.slug = k.slug
      /\ n.answer = k.answer /\ n.m = k.m /\ n.config = k.config /\ n.row = row
      /\ n.short = short
  BY DEF Requests
<1> HIDE DEF n
<1>9. Given(n)
  BY <1>1, <1>3, <1>8 DEF Given, Passes, UnitOps, HouseholdOps
<1>10. Claimed(n, plugin)
  BY <1>1, <1>2, <1>8 DEF Claimed
<1>11. Under(n, grants, units)
  <2>1. TouchesUnit(n) = TouchesUnit(k) /\ Reckoned(n, grants) = Reckoned(k, grants)
    BY <1>8 DEF TouchesUnit, Reckoned
  <2>2. k.op \in Passes \cup {"decide", "enableHousehold"} =>
           /\ Reckoned(k, grants) \subseteq short
           /\ k.op = "decide" /\ k.answer = "Denied" => k.slug \in short
    BY <1>1, <1>2, <1>6, ConsentCovers
  <2> QED
    BY <1>2, <1>4, <1>5, <1>8, <2>1, <2>2 DEF Under
<1>12. Approving(n, plugin, drifted)
  BY <1>3, <1>8 DEF Approving, Passes, UnitOps
<1>13. \A s \in Reqs \ {r} : ~(req[s].pc = "locked" /\ req[s].who = n.who)
  BY <1>2, <1>8 DEF Locked
<1>14. UNCHANGED Tables
  BY DEF LockUnit, Tables
<1> QED
  BY <1>7, <1>8, <1>9, <1>10, <1>11, <1>12, <1>13, <1>14, RequestStep

(* An approval finds the staging its approver read, and what to seed. *)
LEMMA ApproveStep ==
  ASSUME ConsentInv, NEW r \in Reqs, Approve(r)
  PROVE  ConsentInv'
<1>1. PICK k \in Requests : k = req[r] /\ Given(k) /\ Approving(k, plugin, drifted)
  BY DEF ConsentInv, Types, Fits
<1>2. PICK n \in Manifests : n = plugin.pending.m
  BY PluginType
<1>3. PICK seeds \in SUBSET Slugs :
         seeds = {s \in Asks(n, "server") : grants[Server][s] = Pending}
  BY DEF Asks
<1>4. PICK c \in Requests : c = Compared(k, n)
  BY ComparedType
<1> DEFINE q == [c EXCEPT !.pc = "loaded", !.staging = plugin.pending.id, !.seed = seeds]
<1>5. k.op = "approve" /\ plugin.state = "living" /\ plugin.pending.id = k.staging
  BY <1>1 DEF Approve, AnswersStaging
<1>6. req' = [req EXCEPT ![r] = q]
  BY <1>1, <1>2, <1>3, <1>4 DEF Approve
<1>7. c.op = "approve" /\ c.m = plugin.m /\ c.next = n /\ c.reviewed = k.reviewed
      /\ c.epoch = plugin.epoch
  BY <1>4, <1>5, ComparedType
<1>8. q \in Requests /\ q.op = "approve" /\ q.pc = "loaded" /\ q.staging = plugin.pending.id
      /\ q.seed = seeds /\ q.next = n /\ q.m = plugin.m /\ q.reviewed = k.reviewed
  BY <1>7, PluginType DEF Requests
<1> HIDE DEF q
<1>9. Given(q)
  BY <1>8 DEF Given, Passes, UnitOps, HouseholdOps
<1>10. Approving(q, plugin, drifted)
  <2>1. k.staging # 0 /\ plugin.pending.m = k.reviewed
    BY <1>1, <1>5 DEF Approving
  <2>2. ASSUME ~drifted, NEW s \in Asks(n, "server"), s \notin Asks(plugin.m, "server")
        PROVE  s \in seeds
    <3>1. s \in Slugs
      BY <2>2 DEF Asks
    <3>2. grants[Server][s] = Pending
      BY <1>5, <2>2, <3>1, ScopeType DEF ConsentInv, Consented, ConsentIsAskedFor
    <3> QED
      BY <1>3, <2>2, <3>2
  <2>3. seeds \subseteq Asks(n, "server")
    BY <1>3
  <2> QED
    BY <1>2, <1>5, <1>8, <2>1, <2>2, <2>3 DEF Approving
<1>11. Claimed(q, plugin) /\ Under(q, grants, units)
  BY <1>8 DEF Claimed, Under
<1>12. UNCHANGED Tables
  BY DEF Approve, Tables
<1> QED
  BY <1>6, <1>8, <1>9, <1>10, <1>11, <1>12, RequestStep

-----------------------------------------------------------------------------
(* Commits under the share of the plugin row. *)

(* A row of a unit keeps to manifest m. *)
Conforms(m, u, row) ==
    row.row /\ ScopeOf[u] = "household" =>
        /\ Surface[m] = "server" <=> row.dormant = "ScopeOrphaned"
        /\ row.dormant = "none" =>
               \/ row.config \in Accepts[m]
               \/ row.config = Empty /\ m \notin NeedsConfig
               \/ m \in Unusable

(* A request ends in a commit that leaves the plugin's own row alone. *)
LEMMA CommitStep ==
  ASSUME ConsentInv, NEW r \in Reqs, NEW n \in Requests, req' = [req EXCEPT ![r] = n],
         UNCHANGED <<plugin, catalog, risk, drifted>>, Given(n),
         n.pc \notin {"claimed", "locked"}, n.op # "approve",
         grants' \in [Holders -> [Slugs -> Grants]], units' \in [Units -> Rows \cup {NoRow}],
         \A s \in Reqs \ {r} : Under(req[s], grants', units'),
         Consented'
  PROVE  ConsentInv'
<1>1. \A s \in Reqs : req'[s] = IF s = r THEN n ELSE req[s]
  BY DEF ConsentInv, Types
<1>2. Types'
  <2>1. TypeOK'
    <3>1. \A h \in Holders, s \in Slugs :
             grants'[h][s].status \in {"Pending", "Granted", "Denied"}
      BY DEF Grants, Pending
    <3> QED
      BY <3>1 DEF ConsentInv, Types, TypeOK
  <2>2. req' \in [Reqs -> Requests]
    BY DEF ConsentInv, Types
  <2> QED
    BY <2>1, <2>2 DEF ConsentInv, Types
<1>3. ASSUME NEW s \in Reqs PROVE Fits(s)'
  <2>1. CASE s = r
    <3>1. Claimed(n, plugin') /\ Under(n, grants', units') /\ Approving(n, plugin', drifted')
      BY FreeFits
    <3> QED
      BY <1>1, <2>1, <3>1 DEF Fits
  <2>2. CASE s # r
    BY <1>1, <2>2 DEF ConsentInv, Fits
  <2> QED
    BY <2>1, <2>2
<1>4. LocksExclude'
  BY <1>1 DEF ConsentInv, LocksExclude
<1> QED
  BY <1>2, <1>3, <1>4 DEF ConsentInv

(* A commit on the rows of holder h leaves alone what the others read: it    *)
(* has the lock of h's unit, or adds no denial that counts.                  *)
LEMMA OthersUnder ==
  ASSUME ConsentInv, NEW r \in Reqs, NEW h \in Holders, NEW g, NEW rows,
         \A x \in Holders \ {h} : g[x] = grants[x],
         \A x \in Units \ {h} : rows[x] = units[x],
         \/ req[r].pc = "locked" /\ req[r].who = h
         \/ /\ rows = units
            /\ plugin.state = "living" =>
                   DeniedRequired(plugin.m, Scope(h), g[h])
                   \subseteq DeniedRequired(plugin.m, Scope(h), grants[h])
  PROVE  \A s \in Reqs \ {r} : Under(req[s], g, rows)
<1> SUFFICES ASSUME NEW s \in Reqs \ {r}, req[s].pc = "locked"
             PROVE  Under(req[s], g, rows)
  BY DEF Under
<1>1. PICK k \in Requests : k = req[s]
  BY DEF ConsentInv, Types
<1>2. Claimed(k, plugin) /\ Under(k, grants, units) /\ k.pc = "locked"
  BY <1>1 DEF ConsentInv, Fits
<1>3. plugin.state = "living" /\ (k.op \in JudgingOps => k.m = plugin.m) /\ k.who \in Units
  BY <1>2 DEF Claimed, Under
<1>4. CASE k.who # h
  <2>1. g[k.who] = grants[k.who] /\ rows[k.who] = units[k.who]
    BY <1>3, <1>4, ScopeType
  <2>2. Reckoned(k, g) = Reckoned(k, grants)
    BY <2>1 DEF Reckoned
  <2> QED
    BY <1>1, <1>2, <2>1, <2>2 DEF Under
<1>5. CASE k.who = h
  <2>1. rows = units /\ DeniedRequired(plugin.m, Scope(h), g[h])
                        \subseteq DeniedRequired(plugin.m, Scope(h), grants[h])
    BY <1>1, <1>2, <1>3, <1>5 DEF ConsentInv, LocksExclude
  <2>2. k.op \in Passes \cup {"decide", "enableHousehold"} =>
           Reckoned(k, g) \subseteq Reckoned(k, grants)
    BY <1>3, <1>5, <2>1 DEF Reckoned, JudgingOps
  <2> QED
    BY <1>1, <1>2, <2>1, <2>2 DEF Under
<1> QED
  BY <1>4, <1>5

(* What a commit on the rows of one holder has to keep. *)
LEMMA ConsentedStep ==
  ASSUME ConsentInv, plugin.state = "living", UNCHANGED <<plugin, catalog, drifted>>,
         NEW h \in Holders, \A x \in Holders \ {h} : grants'[x] = grants[x],
         \A x \in Units \ {h} : units'[x] = units[x],
         \A s \in Slugs : grants'[h][s] # Pending =>
             grants[h][s] # Pending \/ s \in Asks(plugin.m, Scope(h)),
         h = Server => /\ \A s \in Slugs : grants[h][s] # Pending => grants'[h][s] # Pending
                       /\ DeniedRequired(plugin.m, "server", grants'[h])
                          \subseteq DeniedRequired(plugin.m, "server", grants[h]),
         h \in Units => /\ Conforms(plugin.m, h, units'[h])
                        /\ ~drifted /\ units'[h].row
                           /\ DeniedRequired(plugin.m, ScopeOf[h], grants'[h]) # {} =>
                               units'[h].suspended
  PROVE  Consented'
<1>1. DenialsSuspend'
  BY ScopeType DEF ConsentInv, Consented, DenialsSuspend
<1>2. ServerConsentHolds'
  <2>1. CASE h = Server
    <3>1. \A s \in Requires(plugin.m, "server") : grants'[Server][s].status # "Denied"
      BY <2>1 DEF ConsentInv, Consented, ServerConsentHolds, DeniedRequired
    <3>2. ~drifted => \A s \in Asks(plugin.m, "server") : grants'[Server][s] # Pending
      BY <2>1 DEF ConsentInv, Consented, ServerConsentHolds, Asks
    <3> QED
      BY <3>1, <3>2 DEF ServerConsentHolds
  <2>2. CASE h # Server
    BY <2>2, ScopeType DEF ConsentInv, Consented, ServerConsentHolds
  <2> QED
    BY <2>1, <2>2
<1>3. ConsentIsAskedFor'
  <2>1. ~drifted => catalog = Declares[plugin.m]
    BY DEF ConsentInv, Consented, ConsentIsAskedFor
  <2>2. ASSUME ~drifted, NEW x \in Holders, NEW s \in Slugs, grants'[x][s] # Pending
        PROVE  s \in Asks(plugin.m, Scope(x))
    <3>1. grants[x][s] # Pending \/ s \in Asks(plugin.m, Scope(x))
      BY <2>2
    <3>2. grants[x][s] # Pending => s \in Asks(plugin.m, Scope(x))
      BY <2>2 DEF ConsentInv, Consented, ConsentIsAskedFor
    <3> QED
      BY <3>1, <3>2
  <2> QED
    BY <2>1, <2>2 DEF ConsentIsAskedFor
<1>4. ServedConfigConforms'
  BY DEF ConsentInv, Consented, ServedConfigConforms, Conforms
<1> QED
  BY <1>1, <1>2, <1>3, <1>4 DEF Consented

(* What holds of the row of a unit. *)
LEMMA RowFacts ==
  ASSUME ConsentInv, NEW u \in Units
  PROVE  /\ units[u] \in Rows \cup {NoRow}
         /\ plugin.state = "living" => Conforms(plugin.m, u, units[u])
         /\ plugin.state = "living" /\ ~drifted /\ units[u].row
            /\ DeniedRequired(plugin.m, ScopeOf[u], grants[u]) # {} => units[u].suspended
<1>1. units[u] \in Rows \cup {NoRow}
  BY DEF ConsentInv, Types, TypeOK
<1>2. plugin.state = "living" => Conforms(plugin.m, u, units[u])
  BY DEF ConsentInv, Consented, ServedConfigConforms, Conforms
<1> QED
  BY <1>1, <1>2 DEF ConsentInv, Consented, DenialsSuspend

(* A row that is suspended, or switched on or off, keeps to the manifest. *)
LEMMA SameConforms ==
  ASSUME NEW m, NEW u, NEW row, NEW new, Conforms(m, u, row),
         new.row => row.row, new.dormant = row.dormant, new.config = row.config
  PROVE  Conforms(m, u, new)
  BY DEF Conforms

(* The rows of units, by what is asked of them. *)
LEMMA RowsType ==
  ASSUME NEW row \in Rows \cup {NoRow}
  PROVE  /\ row.row \in BOOLEAN /\ row.enabled \in BOOLEAN /\ row.suspended \in BOOLEAN
         /\ row.dormant \in {"none", "ScopeOrphaned", "NeedsConfiguration"}
         /\ row.config \in Configs
         /\ row.row => row \in Rows
         /\ ~row.row => row = NoRow /\ ~row.suspended /\ row.dormant = "none"
                        /\ row.config = Empty
<1>1. CASE row \in Rows
  BY <1>1 DEF Rows
<1>2. CASE row = NoRow
  <2>1. row.row = FALSE /\ row.enabled = FALSE /\ row.suspended = FALSE
        /\ row.dormant = "none" /\ row.config = Empty
    BY <1>2 DEF NoRow
  <2> QED
    BY <1>2, <2>1
<1> QED
  BY <1>1, <1>2

(* suspendHouseholdUnit and suspendUserUnit. *)
LEMMA SuspendedType ==
  ASSUME NEW q, q.row \in Rows \cup {NoRow}
  PROVE  /\ Suspended(q) \in Rows \cup {NoRow}
         /\ Suspended(q).row = q.row.row /\ Suspended(q).dormant = q.row.dormant
         /\ Suspended(q).config = q.row.config
         /\ q.row.suspended => Suspended(q).suspended
         /\ q.slug \in q.short /\ q.row.row => Suspended(q).suspended
<1>1. PICK row \in Rows \cup {NoRow} : row = q.row
  OBVIOUS
<1>2. CASE row.row /\ ~row.suspended /\ q.slug \in q.short
  <2>1. row \in Rows
    BY <1>2, RowsType
  <2> DEFINE n == [row EXCEPT !.suspended = TRUE]
  <2>2. n \in Rows /\ n.row = row.row /\ n.dormant = row.dormant /\ n.config = row.config
        /\ n.suspended
    BY <2>1 DEF Rows
  <2>3. Suspended(q) = n
    BY <1>1, <1>2 DEF Suspended
  <2> HIDE DEF n
  <2> QED
    BY <1>1, <2>2, <2>3
<1>3. CASE ~(row.row /\ ~row.suspended /\ q.slug \in q.short)
  <2>1. Suspended(q) = row
    BY <1>1, <1>3 DEF Suspended
  <2> QED
    BY <1>1, <1>3, <2>1
<1> QED
  BY <1>2, <1>3

(* The upsert of a granted user decision. *)
LEMMA AnchoredType ==
  ASSUME NEW q, q.row \in Rows \cup {NoRow}
  PROVE  /\ Anchored(q) \in Rows
         /\ q.row.row => Anchored(q) = q.row
         /\ ~q.row.row => (Anchored(q).suspended <=> q.short # {})
<1>1. CASE q.row.row
  BY <1>1, RowsType DEF Anchored
<1>2. CASE ~q.row.row
  <2>1. PICK b \in BOOLEAN : b = (q.short # {})
    OBVIOUS
  <2>2. Anchored(q) = [row |-> TRUE, enabled |-> TRUE, suspended |-> b,
                       dormant |-> "none", config |-> Empty]
    BY <1>2, <2>1 DEF Anchored, NoRow
  <2>3. Anchored(q).suspended = b
    BY <2>2
  <2>4. Anchored(q) \in Rows
    BY <2>1, <2>2 DEF Rows
  <2> QED
    BY <1>2, <2>1, <2>3, <2>4
<1> QED
  BY <1>1, <1>2

(* The holder's decisions once a decision is written. *)
LEMMA OverlayType ==
  ASSUME ConsentInv, NEW q \in Requests, Given(q), q.op = "decide"
  PROVE  /\ Overlay(q) \in [Slugs -> Grants]
         /\ \A s \in Slugs : Overlay(q)[s] =
                IF s = q.slug THEN Decision(q.answer, q.levels[q.slug]) ELSE grants[q.who][s]
         /\ Overlay(q)[q.slug].status = q.answer /\ Overlay(q)[q.slug] # Pending
<1>1. q.slug \in Slugs /\ q.who \in Holders /\ q.answer \in {"Granted", "Denied"}
      /\ q.levels[q.slug] \in Nat
  BY DEF Given, Requests
<1>2. PICK d : d = Decision(q.answer, q.levels[q.slug])
  OBVIOUS
<1>3. d \in Grants /\ d.status = q.answer /\ d # Pending
  BY <1>1, <1>2 DEF Decision, Grants, Pending
<1>4. PICK g \in [Slugs -> Grants] : g = grants[q.who]
  BY <1>1 DEF ConsentInv, Types
<1>5. Overlay(q) = [g EXCEPT ![q.slug] = d]
  BY <1>2, <1>4 DEF Overlay
<1> QED
  BY <1>1, <1>2, <1>3, <1>4, <1>5

(* The denials that count once a decision is written. *)
LEMMA OverlayDenies ==
  ASSUME ConsentInv, NEW q \in Requests, Given(q), q.op = "decide"
  PROVE  LET sc == Scope(q.who) IN
         /\ q.answer = "Granted" =>
                DeniedRequired(q.m, sc, Overlay(q))
                \subseteq DeniedRequired(q.m, sc, grants[q.who]) \ {q.slug}
         /\ q.answer = "Denied" /\ ~Check[q.m][q.slug].required =>
                DeniedRequired(q.m, sc, Overlay(q))
                \subseteq DeniedRequired(q.m, sc, grants[q.who])
<1>1. \A s \in Slugs : s # q.slug => Overlay(q)[s] = grants[q.who][s]
  BY OverlayType
<1>2. Overlay(q)[q.slug].status = q.answer
  BY OverlayType
<1>3. \A s \in Requires(q.m, Scope(q.who)) : s \in Slugs /\ Check[q.m][s].required
  BY DEF Requires, Asks
<1>4. q.answer = "Granted" => q.slug \notin DeniedRequired(q.m, Scope(q.who), Overlay(q))
  BY <1>2 DEF DeniedRequired
<1>5. ~Check[q.m][q.slug].required =>
          q.slug \notin DeniedRequired(q.m, Scope(q.who), Overlay(q))
  BY <1>3 DEF DeniedRequired
<1>6. \A s \in DeniedRequired(q.m, Scope(q.who), Overlay(q)) :
          s # q.slug => s \in DeniedRequired(q.m, Scope(q.who), grants[q.who])
  BY <1>1, <1>3 DEF DeniedRequired
<1> QED
  BY <1>4, <1>5, <1>6

(* A decision commits. *)
LEMMA CommitDecisionStep ==
  ASSUME ConsentInv, NEW r \in Reqs, CommitDecision(r)
  PROVE  ConsentInv'
<1>1. PICK q \in Requests : q = req[r]
  BY DEF ConsentInv, Types
<1>2. Given(q) /\ Claimed(q, plugin) /\ Under(q, grants, units)
  BY <1>1 DEF ConsentInv, Fits
<1>3. /\ q.op = "decide" /\ q.pc = (IF TouchesUnit(q) THEN "locked" ELSE "claimed")
      /\ grants' = [grants EXCEPT ![q.who] = Overlay(q)]
      /\ units' = IF TouchesUnit(q)
                  THEN [units EXCEPT ![q.who] = IF q.answer = "Denied" THEN Suspended(q)
                                                                       ELSE Anchored(q)]
                  ELSE units
      /\ req' = [req EXCEPT ![r] = IF q.answer = "Granted" THEN Pass(q) ELSE Idle]
      /\ UNCHANGED <<plugin, catalog, risk, drifted>>
  BY <1>1 DEF CommitDecision
<1>4. plugin.state = "living" /\ q.m = plugin.m
  BY <1>2, <1>3 DEF Claimed, JudgingOps
<1>5. q.who \in Holders /\ q.answer \in {"Granted", "Denied"} /\ q.slug \in Slugs
      /\ q.slug \in Asks(q.m, Scope(q.who))
      /\ (q.answer = "Denied" /\ Check[q.m][q.slug].required => q.who # Server)
  BY <1>2, <1>3 DEF Given, Requests
<1>6. PICK n \in Requests : n = (IF q.answer = "Granted" THEN Pass(q) ELSE Idle)
         /\ Given(n) /\ n.pc \notin {"claimed", "locked"} /\ n.op # "approve"
  BY <1>2, <1>3, PassType, IdleType
<1>7. PICK g \in [Slugs -> Grants] : g = Overlay(q)
  BY <1>2, <1>3, OverlayType
<1>8. grants' \in [Holders -> [Slugs -> Grants]] /\ grants'[q.who] = g
      /\ \A x \in Holders \ {q.who} : grants'[x] = grants[x]
  BY <1>3, <1>5, <1>7 DEF ConsentInv, Types
<1>9. TouchesUnit(q) => /\ q.pc = "locked" /\ q.who \in Units /\ q.row = units[q.who]
                        /\ Reckoned(q, grants) \subseteq q.short
                        /\ q.answer = "Denied" => q.slug \in q.short
  BY <1>2, <1>3 DEF Under
<1>10. PICK row : row = IF q.answer = "Denied" THEN Suspended(q) ELSE Anchored(q)
  OBVIOUS
<1>11. ASSUME TouchesUnit(q)
       PROVE  /\ row \in Rows \cup {NoRow} /\ Conforms(plugin.m, q.who, row)
              /\ ~drifted /\ row.row /\ DeniedRequired(plugin.m, ScopeOf[q.who], g) # {} =>
                     row.suspended
  <2>1. q.row \in Rows \cup {NoRow} /\ Conforms(plugin.m, q.who, q.row)
        /\ (~drifted /\ q.row.row /\ DeniedRequired(plugin.m, ScopeOf[q.who], grants[q.who]) # {}
              => q.row.suspended)
    BY <1>4, <1>9, <1>11, RowFacts
  <2>2. CASE q.answer = "Denied"
    <3>1. row = Suspended(q) /\ q.slug \in q.short
      BY <1>9, <1>10, <1>11, <2>2
    <3>2. row \in Rows \cup {NoRow} /\ row.row = q.row.row /\ row.dormant = q.row.dormant
          /\ row.config = q.row.config /\ (q.row.row => row.suspended)
      BY <2>1, <3>1, SuspendedType
    <3> QED
      BY <2>1, <3>2, SameConforms
  <2>3. CASE q.answer = "Granted"
    <3>1. row = Anchored(q)
      BY <1>10, <2>3
    <3>2. row \in Rows /\ (q.row.row => row = q.row)
          /\ (~q.row.row => (row.suspended <=> q.short # {}))
      BY <2>1, <3>1, AnchoredType
    <3>3. Scope(q.who) = "user" /\ ScopeOf[q.who] = "user"
      BY <1>9, <1>11, <2>3, ScopeType DEF TouchesUnit
    <3>4. Conforms(plugin.m, q.who, row)
      BY <3>3 DEF Conforms
    <3>5. DeniedRequired(plugin.m, "user", g)
          \subseteq DeniedRequired(plugin.m, "user", grants[q.who]) \ {q.slug}
      BY <1>2, <1>3, <1>4, <1>7, <2>3, <3>3, OverlayDenies
    <3>6. DeniedRequired(plugin.m, "user", grants[q.who]) \ {q.slug} \subseteq q.short
      BY <1>3, <1>4, <1>9, <1>11, <2>3, <3>3 DEF Reckoned
    <3> QED
      BY <2>1, <3>2, <3>3, <3>4, <3>5, <3>6
  <2> QED
    BY <1>5, <2>2, <2>3
<1>12. units' = IF TouchesUnit(q) THEN [units EXCEPT ![q.who] = row] ELSE units
  BY <1>3, <1>10
<1>13. units' \in [Units -> Rows \cup {NoRow}] /\ (\A x \in Units \ {q.who} : units'[x] = units[x])
       /\ (TouchesUnit(q) => units'[q.who] = row)
  BY <1>9, <1>11, <1>12 DEF ConsentInv, Types, TypeOK
<1>14. ~TouchesUnit(q) => DeniedRequired(plugin.m, Scope(q.who), g)
                          \subseteq DeniedRequired(plugin.m, Scope(q.who), grants[q.who])
  BY <1>2, <1>3, <1>4, <1>5, <1>7, OverlayDenies DEF TouchesUnit
<1>15. \A s \in Reqs \ {r} : Under(req[s], grants', units')
  BY <1>1, <1>5, <1>8, <1>9, <1>12, <1>13, <1>14, OthersUnder
<1>16. Consented'
  <2>1. \A s \in Slugs : grants'[q.who][s] # Pending =>
           grants[q.who][s] # Pending \/ s \in Asks(plugin.m, Scope(q.who))
    BY <1>2, <1>3, <1>4, <1>5, <1>7, <1>8, OverlayType
  <2>2. q.who = Server =>
           /\ \A s \in Slugs : grants[q.who][s] # Pending => grants'[q.who][s] # Pending
           /\ DeniedRequired(plugin.m, "server", grants'[q.who])
              \subseteq DeniedRequired(plugin.m, "server", grants[q.who])
    <3> SUFFICES ASSUME q.who = Server
                 PROVE  /\ \A s \in Slugs : grants[q.who][s] # Pending => grants'[q.who][s] # Pending
                        /\ DeniedRequired(plugin.m, "server", grants'[q.who])
                           \subseteq DeniedRequired(plugin.m, "server", grants[q.who])
      OBVIOUS
    <3>1. ~TouchesUnit(q) /\ Scope(q.who) = "server"
      BY <1>9, ScopeType
    <3>2. \A s \in Slugs : grants[q.who][s] # Pending => g[s] # Pending
      BY <1>2, <1>3, <1>7, OverlayType
    <3> QED
      BY <1>8, <1>14, <3>1, <3>2
  <2>3. q.who \in Units =>
           /\ Conforms(plugin.m, q.who, units'[q.who])
           /\ ~drifted /\ units'[q.who].row
              /\ DeniedRequired(plugin.m, ScopeOf[q.who], grants'[q.who]) # {} =>
                  units'[q.who].suspended
    <3>1. CASE TouchesUnit(q)
      BY <1>8, <1>11, <1>13, <3>1
    <3>2. CASE ~TouchesUnit(q)
      BY <1>4, <1>8, <1>12, <1>14, <3>2, RowFacts, ScopeType
    <3> QED
      BY <3>1, <3>2
  <2> QED
    BY <1>3, <1>4, <1>5, <1>8, <1>13, <2>1, <2>2, <2>3, ConsentedStep
<1>17. req' = [req EXCEPT ![r] = n]
  BY <1>3, <1>6
<1> QED
  BY <1>3, <1>6, <1>8, <1>13, <1>15, <1>16, <1>17, CommitStep

(* A pass commits: it suspends, or lifts a suspension with nothing owed. *)
LEMMA CommitPassStep ==
  ASSUME ConsentInv, NEW r \in Reqs, CommitPass(r)
  PROVE  ConsentInv'
<1>1. PICK q \in Requests : q = req[r]
  BY DEF ConsentInv, Types
<1>2. Given(q) /\ Claimed(q, plugin) /\ Under(q, grants, units)
  BY <1>1 DEF ConsentInv, Fits
<1>3. PICK row : row = IF q.op = "suspend" THEN Suspended(q)
                       ELSE IF q.row.row /\ q.short = {}
                            THEN [q.row EXCEPT !.suspended = FALSE] ELSE q.row
  OBVIOUS
<1>4. /\ q.op \in Passes /\ q.pc = "locked"
      /\ units' = [units EXCEPT ![q.who] = row]
      /\ req' = [req EXCEPT ![r] = Idle]
      /\ UNCHANGED <<plugin, catalog, risk, grants, drifted>>
  BY <1>1, <1>3 DEF CommitPass, End, Passes
<1>5. plugin.state = "living" /\ q.m = plugin.m
  BY <1>2, <1>4 DEF Claimed, JudgingOps
<1>6. q.who \in Units /\ q.row = units[q.who] /\ Reckoned(q, grants) \subseteq q.short
  BY <1>2, <1>4 DEF Under
<1>7. q.row \in Rows \cup {NoRow} /\ Conforms(plugin.m, q.who, q.row)
      /\ (~drifted /\ q.row.row /\ DeniedRequired(plugin.m, ScopeOf[q.who], grants[q.who]) # {}
           => q.row.suspended)
  BY <1>5, <1>6, RowFacts
<1>8. DeniedRequired(plugin.m, ScopeOf[q.who], grants[q.who]) \subseteq q.short
  BY <1>4, <1>5, <1>6, ScopeType DEF Reckoned, Passes
<1>9. /\ row \in Rows \cup {NoRow} /\ Conforms(plugin.m, q.who, row)
      /\ ~drifted /\ row.row /\ DeniedRequired(plugin.m, ScopeOf[q.who], grants[q.who]) # {} =>
             row.suspended
  <2>1. CASE q.op = "suspend"
    <3>1. row \in Rows \cup {NoRow} /\ row.row = q.row.row /\ row.dormant = q.row.dormant
          /\ row.config = q.row.config /\ (q.row.suspended => row.suspended)
      BY <1>3, <1>7, <2>1, SuspendedType
    <3> QED
      BY <1>7, <3>1, SameConforms
  <2>2. CASE q.op # "suspend" /\ q.row.row /\ q.short = {}
    <3>1. PICK k \in Rows : k = q.row
      BY <1>7, <2>2, RowsType
    <3>2. row = [k EXCEPT !.suspended = FALSE]
      BY <1>3, <2>2, <3>1
    <3>3. row \in Rows /\ row.row = k.row /\ row.dormant = k.dormant /\ row.config = k.config
      BY <3>2 DEF Rows
    <3>4. Conforms(plugin.m, q.who, row)
      BY <1>7, <3>1, <3>3, SameConforms
    <3> QED
      BY <1>8, <2>2, <3>3, <3>4
  <2>3. CASE q.op # "suspend" /\ ~(q.row.row /\ q.short = {})
    BY <1>3, <1>7, <2>3
  <2> QED
    BY <2>1, <2>2, <2>3
<1>10. units' \in [Units -> Rows \cup {NoRow}] /\ units'[q.who] = row
       /\ \A x \in Units \ {q.who} : units'[x] = units[x]
  BY <1>4, <1>6, <1>9 DEF ConsentInv, Types, TypeOK
<1>11. q.who \in Holders /\ q.who # Server
  BY <1>6, ScopeType
<1>12. \A s \in Reqs \ {r} : Under(req[s], grants', units')
  BY <1>1, <1>4, <1>10, <1>11, OthersUnder
<1>13. Consented'
  BY <1>4, <1>5, <1>9, <1>10, <1>11, ConsentedStep
<1>14. grants' \in [Holders -> [Slugs -> Grants]]
  BY <1>4 DEF ConsentInv, Types
<1> QED
  BY <1>4, <1>10, <1>12, <1>13, <1>14, IdleType, CommitStep

(* The decisions that are still granted are forgotten. *)
LEMMA CommitRevokeStep ==
  ASSUME ConsentInv, NEW r \in Reqs, CommitRevoke(r)
  PROVE  ConsentInv'
<1>1. PICK q \in Requests : q = req[r]
  BY DEF ConsentInv, Types
<1>2. Given(q) /\ q.op = "revoke" /\ q.pc = "loaded"
  BY <1>1 DEF ConsentInv, Fits, CommitRevoke
<1>3. q.who \in Units /\ q.who \in Holders /\ q.who # Server
  BY <1>2, ScopeType DEF Given
<1>4. PICK old \in [Slugs -> Grants] : old = grants[q.who]
  BY <1>3 DEF ConsentInv, Types
<1>5. PICK g : g = [s \in Slugs |-> IF s \in StillGranted(q.who, q.seed) THEN Pending ELSE old[s]]
  OBVIOUS
<1>6. g \in [Slugs -> Grants]
  BY <1>5 DEF Grants
<1>7. grants' = [grants EXCEPT ![q.who] = g]
  BY <1>1, <1>4, <1>5 DEF CommitRevoke
<1>8. grants' \in [Holders -> [Slugs -> Grants]] /\ grants'[q.who] = g
      /\ \A x \in Holders \ {q.who} : grants'[x] = grants[x]
  BY <1>3, <1>6, <1>7 DEF ConsentInv, Types
<1>9. /\ req' = [req EXCEPT ![r] = Idle]
      /\ UNCHANGED <<plugin, catalog, risk, units, drifted>>
  BY DEF CommitRevoke, End
<1>10. \A s \in Slugs : g[s] = Pending \/ g[s] = grants[q.who][s]
  BY <1>4, <1>5
<1>11. \A m, sc : DeniedRequired(m, sc, g) \subseteq DeniedRequired(m, sc, grants[q.who])
  <2>1. Pending.status # "Denied"
    BY DEF Pending
  <2> QED
    BY <1>10, <2>1 DEF DeniedRequired, Requires, Asks
<1>12. \A s \in Reqs \ {r} : Under(req[s], grants', units')
  BY <1>3, <1>8, <1>9, <1>11, OthersUnder
<1>13. units' \in [Units -> Rows \cup {NoRow}]
  BY <1>9 DEF ConsentInv, Types, TypeOK
<1>14. Consented'
  <2>1. CASE plugin.state = "living"
    <3>1. Conforms(plugin.m, q.who, units'[q.who])
          /\ (~drifted /\ units'[q.who].row
               /\ DeniedRequired(plugin.m, ScopeOf[q.who], grants'[q.who]) # {} =>
                   units'[q.who].suspended)
      BY <1>3, <1>8, <1>9, <1>11, <2>1, RowFacts
    <3>2. \A s \in Slugs : grants'[q.who][s] # Pending => grants[q.who][s] # Pending
      BY <1>8, <1>10
    <3> QED
      BY <1>3, <1>8, <1>9, <2>1, <3>1, <3>2, ConsentedStep
  <2>2. CASE plugin.state # "living"
    <3>1. \A h \in Holders, s \in Slugs : grants[h][s] = Pending
      BY <2>2 DEF ConsentInv, Consented, ConsentIsAskedFor
    <3>2. \A h \in Holders, s \in Slugs : grants'[h][s] = Pending
      <4> SUFFICES ASSUME NEW h \in Holders, NEW s \in Slugs PROVE grants'[h][s] = Pending
        OBVIOUS
      <4>1. CASE h = q.who
        BY <1>8, <1>10, <3>1, <4>1
      <4>2. CASE h # q.who
        BY <1>8, <3>1, <4>2
      <4> QED
        BY <4>1, <4>2
    <3> QED
      BY <1>9, <2>2, <3>2 DEF ConsentInv, Consented, ConsentIsAskedFor, DenialsSuspend,
             ServerConsentHolds, ServedConfigConforms
  <2> QED
    BY <2>1, <2>2
<1> QED
  BY <1>8, <1>9, <1>12, <1>13, <1>14, IdleType, CommitStep

(* An enabled household's row. *)
LEMMA EnabledRowType ==
  ASSUME NEW q \in Requests, Surface[q.m] = "household", Conforms(q.m, q.who, q.row),
         q.config = "" \/ q.config \in Accepts[q.m],
         GateHolds(q), ScopeOf[q.who] = "household"
  PROVE  /\ EnabledRow(q) \in Rows /\ Conforms(q.m, q.who, EnabledRow(q))
         /\ q.row.row => EnabledRow(q).suspended = q.row.suspended
         /\ ~q.row.row => (EnabledRow(q).suspended <=> q.short # {})
<1>1. PICK row \in Rows \cup {NoRow} : row = q.row
  BY DEF Requests
<1>2. PICK c \in Configs : c = IF q.config = "" THEN row.config ELSE q.config
  BY RowsType DEF Requests
<1>3. CASE ~row.row
  <2>1. PICK b \in BOOLEAN : b = (q.short # {})
    OBVIOUS
  <2>0. PICK z : z = NoRow
    OBVIOUS
  <2>2. PICK k : k = [z EXCEPT !.row = TRUE, !.enabled = TRUE, !.suspended = b,
                               !.config = c]
    OBVIOUS
  <2>3. EnabledRow(q) = k
    BY <1>1, <1>2, <1>3, <2>0, <2>1, <2>2 DEF EnabledRow
  <2>4. k \in Rows /\ k.row /\ k.suspended = b /\ k.dormant = "none" /\ k.config = c
    <3>1. z \in [row : BOOLEAN, enabled : BOOLEAN, suspended : BOOLEAN,
                 dormant : {"none", "ScopeOrphaned", "NeedsConfiguration"}, config : Configs]
          /\ z.dormant = "none"
      BY <2>0 DEF NoRow
    <3>2. b \in BOOLEAN /\ c \in Configs
      OBVIOUS
    <3>3. k \in Rows
      BY ONLY <2>2, <3>1, <3>2 DEF Rows
    <3> QED
      BY ONLY <2>2, <3>1, <3>2, <3>3
  <2>5. c \in Accepts[q.m] \/ (c = Empty /\ q.m \notin NeedsConfig)
    BY <1>1, <1>2, <1>3, RowsType DEF GateHolds
  <2>6. Conforms(q.m, q.who, k)
    BY <2>4, <2>5 DEF Conforms
  <2> QED
    BY <1>1, <1>3, <2>1, <2>3, <2>4, <2>6
<1>4. CASE row.row
  <2>1. row \in Rows
    BY <1>4, RowsType
  <2>2. row.dormant # "ScopeOrphaned"
    BY <1>1, <1>4 DEF Conforms
  <2>3. PICK k : k = Configured(row)
    OBVIOUS
  <2>4. k \in Rows /\ k.row /\ k.suspended = row.suspended /\ k.dormant = "none"
    BY <2>1, <2>2, <2>3 DEF Configured, Rows
  <2>5. PICK n : n = [k EXCEPT !.enabled = TRUE, !.config = c]
    OBVIOUS
  <2>6. n \in Rows /\ n.suspended = row.suspended /\ n.dormant = "none" /\ n.config = c
    BY <2>4, <2>5 DEF Rows
  <2>7. EnabledRow(q) = n
    BY <1>1, <1>2, <1>4, <2>3, <2>5 DEF EnabledRow
  <2>8. c \in Accepts[q.m] \/ (c = Empty /\ q.m \notin NeedsConfig) \/ q.m \in Unusable
    <3>1. CASE q.config # ""
      BY <1>2, <3>1
    <3>2. CASE q.config = "" /\ row.dormant = "NeedsConfiguration"
      BY <1>1, <1>2, <3>2 DEF GateHolds
    <3>3. CASE q.config = "" /\ row.dormant = "none"
      BY <1>1, <1>2, <1>4, <3>3 DEF Conforms
    <3> QED
      BY <2>2, <3>1, <3>2, <3>3, RowsType
  <2>9. Conforms(q.m, q.who, n)
    BY <2>6, <2>8 DEF Conforms
  <2> QED
    BY <1>1, <1>4, <2>6, <2>7, <2>9
<1> QED
  BY <1>3, <1>4

(* A document written to a row. *)
LEMMA ConfiguredRowType ==
  ASSUME NEW row \in Rows, NEW m \in Manifests, NEW u, Surface[m] = "household",
         ScopeOf[u] = "household", Conforms(m, u, row), NEW c \in Accepts[m]
  PROVE  LET n == [Configured(row) EXCEPT !.config = c]
         IN  n \in Rows /\ Conforms(m, u, n) /\ n.suspended = row.suspended
<1>1. row.row /\ row.dormant # "ScopeOrphaned"
  BY DEF Conforms, Rows
<1>2. PICK k : k = Configured(row)
  OBVIOUS
<1>3. k \in Rows /\ k.row /\ k.suspended = row.suspended /\ k.dormant = "none"
  BY <1>1, <1>2 DEF Configured, Rows
<1>4. PICK n : n = [k EXCEPT !.config = c]
  OBVIOUS
<1>5. c \in Configs
  OBVIOUS
<1>6. n \in Rows /\ n.suspended = row.suspended /\ n.dormant = "none" /\ n.config = c
  BY <1>3, <1>4, <1>5 DEF Rows
<1>7. Conforms(m, u, n)
  BY <1>6 DEF Conforms
<1> QED
  BY <1>2, <1>4, <1>6, <1>7

(* A unit's writer commits. *)
LEMMA CommitUnitStep ==
  ASSUME ConsentInv, NEW r \in Reqs, CommitUnit(r)
  PROVE  ConsentInv'
<1>1. PICK q \in Requests : q = req[r]
  BY DEF ConsentInv, Types
<1>2. Given(q) /\ Claimed(q, plugin) /\ Under(q, grants, units)
  BY <1>1 DEF ConsentInv, Fits
<1>3. PICK same : same = (q.op = "enableHousehold" /\ q.config = "" /\ q.row.row
                          /\ q.row.enabled /\ q.row.dormant = "none")
  OBVIOUS
<1>4. PICK row : row =
         CASE same -> q.row
           [] q.op = "enableHousehold" /\ ~same -> EnabledRow(q)
           [] q.op = "updateHouseholdConfig" -> [Configured(q.row) EXCEPT !.config = q.config]
           [] q.op = "disableHousehold" -> [q.row EXCEPT !.enabled = FALSE]
           [] q.op = "setUserEnabled" -> [q.row EXCEPT !.enabled = (q.answer = "on")]
  OBVIOUS
<1>5. /\ q.op \in UnitOps /\ q.pc = "locked" /\ RowFound(q)
      /\ q.op = "enableHousehold" /\ ~same => GateHolds(q)
      /\ units' = [units EXCEPT ![q.who] = row]
      /\ req' = [req EXCEPT ![r] = Idle]
      /\ UNCHANGED <<plugin, catalog, risk, grants, drifted>>
  BY <1>1, <1>3, <1>4 DEF CommitUnit, End
<1>6. plugin.state = "living" /\ plugin.m \in Manifests
      /\ (q.op \in {"enableHousehold", "updateHouseholdConfig"} =>
             q.m = plugin.m /\ Surface[q.m] = "household")
  BY <1>2, <1>5, PluginType DEF Claimed, JudgingOps
<1>7. /\ q.who \in Units /\ q.row = units[q.who]
      /\ q.op = "enableHousehold" => Reckoned(q, grants) \subseteq q.short
  BY <1>2, <1>5 DEF Under
<1>8. q.row \in Rows \cup {NoRow} /\ Conforms(plugin.m, q.who, q.row)
      /\ (~drifted /\ q.row.row /\ DeniedRequired(plugin.m, ScopeOf[q.who], grants[q.who]) # {}
           => q.row.suspended)
  BY <1>6, <1>7, RowFacts
<1>9. /\ row \in Rows \cup {NoRow} /\ Conforms(plugin.m, q.who, row)
      /\ ~drifted /\ row.row /\ DeniedRequired(plugin.m, ScopeOf[q.who], grants[q.who]) # {} =>
             row.suspended
  <2>1. CASE same
    BY <1>3, <1>4, <1>8, <2>1
  <2>2. CASE q.op = "enableHousehold" /\ ~same
    <3>1. row = EnabledRow(q)
      BY <1>4, <2>2
    <3>2. ScopeOf[q.who] = "household" /\ (q.config = "" \/ q.config \in Accepts[plugin.m])
      BY <1>2, <1>6, <2>2 DEF Given, HouseholdOps
    <3>3. /\ row \in Rows /\ Conforms(plugin.m, q.who, row)
          /\ q.row.row => row.suspended = q.row.suspended
          /\ ~q.row.row => (row.suspended <=> q.short # {})
      <4>1. q.m = plugin.m /\ Surface[plugin.m] = "household" /\ GateHolds(q)
        BY <1>5, <1>6, <2>2
      <4> QED
        BY <1>6, <1>8, <3>1, <3>2, <4>1, EnabledRowType
    <3>4. DeniedRequired(plugin.m, ScopeOf[q.who], grants[q.who]) \subseteq q.short
      BY <1>6, <1>7, <2>2, ScopeType DEF Reckoned
    <3> QED
      BY <1>8, <3>3, <3>4
  <2>3. CASE q.op = "updateHouseholdConfig"
    <3>1. row = [Configured(q.row) EXCEPT !.config = q.config] /\ q.row.row
      BY <1>3, <1>4, <1>5, <2>3 DEF RowFound
    <3>2. q.row \in Rows /\ ScopeOf[q.who] = "household" /\ q.config \in Accepts[plugin.m]
      BY <1>2, <1>6, <1>8, <2>3, <3>1, RowsType DEF Given, HouseholdOps
    <3>3. row \in Rows /\ Conforms(plugin.m, q.who, row) /\ row.suspended = q.row.suspended
      BY <1>6, <1>8, <2>3, <3>1, <3>2, ConfiguredRowType
    <3> QED
      BY <1>8, <3>1, <3>3
  <2>4. CASE q.op \in {"disableHousehold", "setUserEnabled"}
    <3>1. PICK k \in Rows : k = q.row /\ k.row
      BY <1>5, <1>8, <2>4, RowsType DEF RowFound
    <3>2. PICK b \in BOOLEAN : row = [k EXCEPT !.enabled = b]
      BY <1>3, <1>4, <2>4, <3>1
    <3>3. row \in Rows /\ row.row = k.row /\ row.dormant = k.dormant /\ row.config = k.config
          /\ row.suspended = k.suspended
      BY <3>2 DEF Rows
    <3>4. Conforms(plugin.m, q.who, row)
      BY <1>8, <3>1, <3>3, SameConforms
    <3> QED
      BY <1>8, <3>1, <3>3, <3>4
  <2> QED
    BY <1>5, <2>1, <2>2, <2>3, <2>4 DEF UnitOps
<1>10. units' \in [Units -> Rows \cup {NoRow}] /\ units'[q.who] = row
       /\ \A x \in Units \ {q.who} : units'[x] = units[x]
  BY <1>5, <1>7, <1>9 DEF ConsentInv, Types, TypeOK
<1>11. q.who \in Holders /\ q.who # Server
  BY <1>7, ScopeType
<1>12. \A s \in Reqs \ {r} : Under(req[s], grants', units')
  BY <1>1, <1>5, <1>10, <1>11, OthersUnder
<1>13. Consented'
  BY <1>5, <1>6, <1>9, <1>10, <1>11, ConsentedStep
<1>14. grants' \in [Holders -> [Slugs -> Grants]]
  BY <1>5 DEF ConsentInv, Types
<1> QED
  BY <1>5, <1>10, <1>12, <1>13, <1>14, IdleType, CommitStep

-----------------------------------------------------------------------------
(* Commits that hold the plugin row exclusively. *)

(* A request ends in a commit that met nobody's share of the plugin row. *)
LEMMA ExclusiveStep ==
  ASSUME ConsentInv, NEW r \in Reqs, Sharing = {}, req' = [req EXCEPT ![r] = Idle],
         TypeOK', grants' \in [Holders -> [Slugs -> Grants]],
         plugin'.pending = NoStaging \/ plugin'.pending.id # 0,
         \A s \in Reqs \ {r} : Approving(req[s], plugin', drifted'),
         Consented'
  PROVE  ConsentInv'
<1>1. \A s \in Reqs : req'[s] = IF s = r THEN Idle ELSE req[s]
  BY DEF ConsentInv, Types
<1>2. Types'
  BY IdleType DEF ConsentInv, Types
<1>3. \A s \in Reqs : req[s].pc \notin {"claimed", "locked"}
  BY DEF Sharing
<1>4. ASSUME NEW s \in Reqs PROVE Fits(s)'
  <2>1. CASE s = r
    BY <1>1, <2>1, IdleType DEF Fits
  <2>2. CASE s # r
    <3>1. Given(req[s])
      BY DEF ConsentInv, Fits
    <3>2. Claimed(req[s], plugin') /\ Under(req[s], grants', units')
      BY <1>3 DEF Claimed, Under
    <3> QED
      BY <1>1, <2>2, <3>1, <3>2 DEF Fits
  <2> QED
    BY <2>1, <2>2
<1>5. LocksExclude'
  BY <1>1, <1>3, IdleType DEF LocksExclude
<1> QED
  BY <1>2, <1>4, <1>5 DEF ConsentInv

(* What the approvals under way have to know of the plugin row that follows. *)
LEMMA ApprovingStep ==
  ASSUME ConsentInv, drifted' \in BOOLEAN,
         \A s \in Reqs : plugin'.pending.id = req[s].staging =>
             plugin'.pending.id = 0 \/ plugin'.pending = plugin.pending,
         \A s \in Reqs : plugin'.epoch = req[s].epoch => plugin'.epoch = plugin.epoch,
         plugin'.epoch = plugin.epoch /\ drifted => drifted'
  PROVE  \A s \in Reqs : Approving(req[s], plugin', drifted')
<1> SUFFICES ASSUME NEW s \in Reqs PROVE Approving(req[s], plugin', drifted')
  OBVIOUS
<1>1. Approving(req[s], plugin, drifted)
  BY DEF ConsentInv, Fits
<1>2. drifted \in BOOLEAN
  BY DEF ConsentInv, Types, TypeOK
<1> QED
  BY <1>1, <1>2 DEF Approving

(* The plugin row. *)
PluginRows == [state : {"never", "living", "tombstone"}, m : Manifests,
               epoch : Nat, enabled : BOOLEAN, config : Configs,
               pending : [id : Nat, m : Manifests]]

(* A commit on the row of a plugin whose manifest and installation stay. *)
LEMMA PluginRowStep ==
  ASSUME ConsentInv, NEW r \in Reqs, Sharing = {}, req' = [req EXCEPT ![r] = Idle],
         plugin.state = "living", plugin' \in PluginRows, plugin'.state = plugin.state,
         plugin'.m = plugin.m, plugin'.epoch = plugin.epoch,
         plugin'.config = plugin.config \/ plugin'.config \in Accepts[plugin.m],
         \/ plugin'.pending = plugin.pending
         \/ plugin'.pending = NoStaging
         \/ plugin'.pending.id # 0 /\ \A s \in Reqs : plugin'.pending.id # req[s].staging,
         UNCHANGED <<catalog, risk, grants, units, drifted>>
  PROVE  ConsentInv'
<1>1. TypeOK' /\ grants' \in [Holders -> [Slugs -> Grants]]
  <2>1. DOMAIN req' = Reqs
    BY DEF ConsentInv, Types
  <2> QED
    BY <2>1 DEF ConsentInv, Types, TypeOK, PluginRows
<1>2. NoStaging.id = 0
  BY DEF NoStaging
<1>3. plugin'.pending = NoStaging \/ plugin'.pending.id # 0
  BY DEF ConsentInv, Types
<1>4. drifted' \in BOOLEAN
  BY DEF ConsentInv, Types, TypeOK
<1>5. \A s \in Reqs : plugin'.pending.id = req[s].staging =>
          plugin'.pending.id = 0 \/ plugin'.pending = plugin.pending
  BY <1>2
<1>6. \A s \in Reqs : Approving(req[s], plugin', drifted')
  BY <1>4, <1>5, ApprovingStep
<1>7. Consented'
  <2>1. DenialsSuspend' /\ ServerConsentHolds'
    BY DEF ConsentInv, Consented, DenialsSuspend, ServerConsentHolds
  <2>2. ConsentIsAskedFor'
    BY DEF ConsentInv, Consented, ConsentIsAskedFor
  <2>3. ServedConfigConforms'
    BY DEF ConsentInv, Consented, ServedConfigConforms
  <2> QED
    BY <2>1, <2>2, <2>3 DEF Consented
<1> QED
  BY <1>1, <1>3, <1>6, <1>7, ExclusiveStep

(* An update is staged, under an id nobody answered yet. *)
LEMMA CommitStageStep ==
  ASSUME ConsentInv, NEW r \in Reqs, CommitStage(r)
  PROVE  ConsentInv'
<1>1. PICK p \in PluginRows : p = plugin
  BY DEF ConsentInv, Types, TypeOK, PluginRows
<1>2. PICK t \in [id : Nat \ {0}, m : Manifests] :
         t = [id |-> Fresh(StagingIds), m |-> req[r].next]
  BY NewStaging DEF ConsentInv, Types, Requests
<1>3. /\ Sharing = {} /\ plugin.state = "living"
      /\ plugin' = [p EXCEPT !.pending = t]
      /\ req' = [req EXCEPT ![r] = Idle]
      /\ UNCHANGED <<catalog, risk, grants, units, drifted>>
  BY <1>1, <1>2 DEF CommitStage, End
<1>4. /\ plugin' \in PluginRows
      /\ plugin'.pending = t /\ plugin'.state = plugin.state /\ plugin'.m = plugin.m
      /\ plugin'.epoch = plugin.epoch /\ plugin'.config = plugin.config
  BY <1>1, <1>3 DEF PluginRows
<1>5. t.id # 0 /\ \A s \in Reqs : t.id # req[s].staging
  BY <1>2, NewStaging DEF ConsentInv, Types
<1> QED
  BY <1>3, <1>4, <1>5, PluginRowStep

(* A staged update is rejected. *)
LEMMA RejectStep ==
  ASSUME ConsentInv, NEW r \in Reqs, Reject(r)
  PROVE  ConsentInv'
<1>1. PICK p \in PluginRows : p = plugin
  BY DEF ConsentInv, Types, TypeOK, PluginRows
<1>2. PICK t \in [id : Nat, m : Manifests] : t = NoStaging
  BY DEF NoStaging
<1>3. /\ Sharing = {} /\ plugin.state = "living"
      /\ plugin' = [p EXCEPT !.pending = t]
      /\ req' = [req EXCEPT ![r] = Idle]
      /\ UNCHANGED <<catalog, risk, grants, units, drifted>>
  BY <1>1, <1>2 DEF Reject, End
<1>4. /\ plugin' \in PluginRows
      /\ plugin'.pending = t /\ plugin'.state = plugin.state /\ plugin'.m = plugin.m
      /\ plugin'.epoch = plugin.epoch /\ plugin'.config = plugin.config
  BY <1>1, <1>3 DEF PluginRows
<1> QED
  BY <1>2, <1>3, <1>4, PluginRowStep

(* The server's switch is turned. *)
LEMMA CommitSetEnabledStep ==
  ASSUME ConsentInv, NEW r \in Reqs, CommitSetEnabled(r)
  PROVE  ConsentInv'
<1>1. PICK p \in PluginRows : p = plugin
  BY DEF ConsentInv, Types, TypeOK, PluginRows
<1>2. PICK b \in BOOLEAN : b = ~p.enabled
  OBVIOUS
<1>3. /\ Sharing = {} /\ plugin.state = "living"
      /\ plugin' = [p EXCEPT !.enabled = b]
      /\ req' = [req EXCEPT ![r] = Idle]
      /\ UNCHANGED <<catalog, risk, grants, units, drifted>>
  BY <1>1, <1>2 DEF CommitSetEnabled, End
<1>4. /\ plugin' \in PluginRows
      /\ plugin'.pending = plugin.pending /\ plugin'.state = plugin.state
      /\ plugin'.m = plugin.m
      /\ plugin'.epoch = plugin.epoch /\ plugin'.config = plugin.config
  BY <1>1, <1>3 DEF PluginRows
<1> QED
  BY <1>3, <1>4, PluginRowStep

(* The server's document is replaced by one the active manifest accepts. *)
LEMMA CommitUpdateConfigStep ==
  ASSUME ConsentInv, NEW r \in Reqs, CommitUpdateConfig(r)
  PROVE  ConsentInv'
<1>1. PICK p \in PluginRows : p = plugin
  BY DEF ConsentInv, Types, TypeOK, PluginRows
<1>2. req[r].config \in Accepts[req[r].m] /\ req[r].m = plugin.m /\ plugin.state = "living"
  BY DEF ConsentInv, Fits, Given, CommitUpdateConfig, Unmoved
<1>3. PICK c \in Configs : c = req[r].config
  BY <1>1, <1>2 DEF PluginRows
<1>4. /\ Sharing = {}
      /\ plugin' = [p EXCEPT !.config = c]
      /\ req' = [req EXCEPT ![r] = Idle]
      /\ UNCHANGED <<catalog, risk, grants, units, drifted>>
  BY <1>1, <1>3 DEF CommitUpdateConfig, End
<1>5. /\ plugin' \in PluginRows
      /\ plugin'.pending = plugin.pending /\ plugin'.state = plugin.state
      /\ plugin'.m = plugin.m
      /\ plugin'.epoch = plugin.epoch /\ plugin'.config = c
  BY <1>1, <1>4 DEF PluginRows
<1>6. plugin'.config \in Accepts[plugin.m]
  BY <1>2, <1>3, <1>5
<1> QED
  BY <1>2, <1>4, <1>5, <1>6, PluginRowStep

(* The plugin is uninstalled: nothing of consent remains. *)
LEMMA CommitUninstallStep ==
  ASSUME ConsentInv, NEW r \in Reqs, CommitUninstall(r)
  PROVE  ConsentInv'
<1>1. PICK p \in PluginRows : p = plugin
  BY DEF ConsentInv, Types, TypeOK, PluginRows
<1>2. PICK t \in [id : Nat, m : Manifests] : t = NoStaging
  BY DEF NoStaging
<1>3. /\ Sharing = {} /\ catalog' = {} /\ grants' = Forgotten
      /\ plugin' = [p EXCEPT !.state = "tombstone", !.enabled = FALSE, !.pending = t]
      /\ units' = IF req[r].answer = "purge" THEN [u \in Units |-> NoRow] ELSE units
      /\ req' = [req EXCEPT ![r] = Idle]
      /\ UNCHANGED <<risk, drifted>>
  BY <1>1, <1>2 DEF CommitUninstall, End
<1>4. /\ plugin' \in PluginRows
      /\ plugin'.pending = t /\ plugin'.state = "tombstone" /\ plugin'.enabled = FALSE
      /\ plugin'.epoch = plugin.epoch
  BY <1>1, <1>3 DEF PluginRows
<1>5. grants' \in [Holders -> [Slugs -> Grants]]
      /\ \A h \in Holders, s \in Slugs : grants'[h][s] = Pending
  BY <1>3 DEF Forgotten, Grants
<1>6. TypeOK'
  <2>1. DOMAIN req' = Reqs
    BY <1>3 DEF ConsentInv, Types
  <2>2. units' \in [Units -> Rows \cup {NoRow}]
    BY <1>3 DEF ConsentInv, Types, TypeOK
  <2>3. \A h \in Holders, s \in Slugs :
            grants'[h][s].status \in {"Pending", "Granted", "Denied"}
    BY <1>5 DEF Pending
  <2> QED
    BY <1>3, <1>4, <2>1, <2>2, <2>3 DEF ConsentInv, Types, TypeOK, PluginRows
<1>7. NoStaging.id = 0
  BY DEF NoStaging
<1>8. drifted' \in BOOLEAN
  BY <1>6 DEF TypeOK
<1>9. \A s \in Reqs : Approving(req[s], plugin', drifted')
  BY <1>2, <1>3, <1>4, <1>7, <1>8, ApprovingStep
<1>10. Consented'
  BY <1>2, <1>3, <1>4, <1>5 DEF Consented, DenialsSuspend, ServerConsentHolds,
     ConsentIsAskedFor, ServedConfigConforms
<1> QED
  BY <1>2, <1>3, <1>4, <1>5, <1>6, <1>9, <1>10, ExclusiveStep

(* The shipped catalog raises a permission's risk. *)
LEMMA ReclassifyStep ==
  ASSUME ConsentInv, NEW s \in Slugs, Reclassify(s)
  PROVE  ConsentInv'
<1>1. /\ risk[s] < MaxRisk /\ risk' = [risk EXCEPT ![s] = risk[s] + 1]
      /\ UNCHANGED <<plugin, catalog, grants, units, req, drifted>>
  BY DEF Reclassify
<1>2. risk \in [Slugs -> 0 .. MaxRisk]
  BY DEF ConsentInv, Types, TypeOK
<1>3. risk' \in [Slugs -> 0 .. MaxRisk]
  BY <1>1, <1>2
<1>4. Types'
  BY <1>1, <1>3 DEF ConsentInv, Types, TypeOK
<1>5. \A r \in Reqs : Fits(r)'
  BY <1>1 DEF ConsentInv, Fits
<1>6. LocksExclude'
  BY <1>1 DEF ConsentInv, LocksExclude
<1>7. Consented'
  BY <1>1 DEF ConsentInv, Consented, DenialsSuspend, ServerConsentHolds,
     ConsentIsAskedFor, ServedConfigConforms
<1> QED
  BY <1>4, <1>5, <1>6, <1>7 DEF ConsentInv

-----------------------------------------------------------------------------
(* Replacing the manifest. *)

(* reconcileHouseholdDormancy leaves a row that keeps to the new manifest,   *)
(* with the suspension it had.                                               *)
LEMMA ReconciledType ==
  ASSUME NEW n \in Manifests, NEW u \in Units, NEW row \in Rows \cup {NoRow}
  PROVE  /\ Reconciled(n, u, row) \in Rows \cup {NoRow}
         /\ Reconciled(n, u, row).row = row.row
         /\ Reconciled(n, u, row).suspended = row.suspended
         /\ Conforms(n, u, Reconciled(n, u, row))
<1>1. CASE ~row.row \/ ScopeOf[u] = "user"
  <2>1. Reconciled(n, u, row) = row
    BY <1>1 DEF Reconciled
  <2> QED
    BY <1>1, <2>1 DEF Conforms
<1>2. CASE row.row /\ ScopeOf[u] = "household" /\ Surface[n] = "server"
  <2>1. row \in Rows
    BY <1>2, RowsType
  <2>2. PICK k : k = [row EXCEPT !.dormant = "ScopeOrphaned"]
    OBVIOUS
  <2>3. k \in Rows /\ k.row = row.row /\ k.suspended = row.suspended
        /\ k.dormant = "ScopeOrphaned"
    BY <2>1, <2>2 DEF Rows
  <2>4. Reconciled(n, u, row) = k
    BY <1>2, <2>2 DEF Reconciled
  <2>5. Conforms(n, u, k)
    BY <1>2, <2>3 DEF Conforms
  <2> QED
    BY <2>3, <2>4, <2>5
<1>3. CASE row.row /\ ScopeOf[u] = "household" /\ Surface[n] = "household"
  <2>1. row \in Rows
    BY <1>3, RowsType
  <2>2. PICK d \in {"none", "NeedsConfiguration"} :
           d = IF row.dormant = "NeedsConfiguration" \/ ~ConfigConforms(n, row.config)
               THEN "NeedsConfiguration" ELSE "none"
    OBVIOUS
  <2>3. PICK k : k = [row EXCEPT !.dormant = d]
    OBVIOUS
  <2>4. k \in Rows /\ k.row = row.row /\ k.suspended = row.suspended
        /\ k.dormant = d /\ k.config = row.config
    BY <2>1, <2>3 DEF Rows
  <2>5. Reconciled(n, u, row) = k
    BY <1>3, <2>2, <2>3 DEF Reconciled
  <2>6. Conforms(n, u, k)
    BY <1>3, <2>2, <2>4 DEF Conforms, ConfigConforms
  <2> QED
    BY <2>4, <2>5, <2>6
<1> QED
  BY <1>1, <1>2, <1>3, RowsType

(* A document that is kept conforms, and so does the empty one. *)
LEMMA RetainedType ==
  ASSUME NEW n \in Manifests, NEW c \in Configs
  PROVE  Retained(n, c) \in Configs /\ Retained(n, c) \in Accepts[n] \cup {Empty}
  BY DEF Retained

(* The mark of no staging. *)
LEMMA NoStagingType == NoStaging \in [id : Nat, m : Manifests] /\ NoStaging.id = 0
  BY DEF NoStaging

(* A permission's risk is a level. *)
LEMMA RiskOfType ==
  ASSUME NEW n \in Manifests, NEW s \in Slugs, NEW levels \in [Slugs -> Nat]
  PROVE  RiskOf(n, s, levels) \in Nat
  BY DEF RiskOf

(* The plugin is installed, fresh or over its tombstone. *)
LEMMA CommitInstallStep ==
  ASSUME ConsentInv, NEW r \in Reqs, CommitInstall(r)
  PROVE  ConsentInv'
<1>1. PICK q \in Requests : q = req[r]
  BY DEF ConsentInv, Types
<1>2. PICK n \in Manifests : n = q.next
  BY DEF Requests
<1>3. q.op = "install" /\ plugin.state = q.answer /\ q.config \in Configs
      /\ plugin.state # "living" /\ Sharing = {}
  BY <1>1 DEF CommitInstall, ConsentInv, Fits, Given
<1>4. /\ catalog = {} /\ \A h \in Holders, s \in Slugs : grants[h][s] = Pending
  BY <1>3 DEF ConsentInv, Consented, ConsentIsAskedFor
<1>5. PICK e \in Nat : e = Fresh(Epochs) /\ \A s \in Reqs : req[s].epoch # e
  BY NewEpoch DEF ConsentInv, Types
<1>6. PICK t \in [id : Nat, m : Manifests] : t = NoStaging /\ t.id = 0
  BY NoStagingType
<1>7. PICK c \in Configs : c = Retained(n, q.config) /\ c \in Accepts[n] \cup {Empty}
  BY <1>3, RetainedType
<1>8. /\ plugin' = [state |-> "living", m |-> n, epoch |-> e, enabled |-> FALSE,
                    config |-> c, pending |-> t]
      /\ catalog' = catalog \cup Declares[n]
      /\ grants' = [grants EXCEPT ![Server] = [s \in Slugs |->
             IF s \in Asks(n, "server") THEN Decision("Granted", RiskOf(n, s, q.levels))
             ELSE grants[Server][s]]]
      /\ units' = [u \in Units |-> Reconciled(n, u, units[u])]
      /\ drifted' = FALSE /\ req' = [req EXCEPT ![r] = Idle] /\ risk' = risk
  BY <1>1, <1>2, <1>5, <1>6, <1>7 DEF CommitInstall, End
<1>9. /\ plugin' \in PluginRows /\ plugin'.state = "living" /\ plugin'.m = n
      /\ plugin'.epoch = e /\ plugin'.pending = t /\ plugin'.config = c
  BY <1>8 DEF PluginRows
<1>10. \A u \in Units : /\ units'[u] \in Rows \cup {NoRow}
                        /\ Conforms(n, u, units'[u])
  <2> TAKE u \in Units
  <2>1. units[u] \in Rows \cup {NoRow}
    BY RowFacts
  <2>2. units'[u] = Reconciled(n, u, units[u])
    BY <1>8
  <2> QED
    BY <2>1, <2>2, ReconciledType
<1>11. \A h \in Holders, s \in Slugs :
          /\ grants'[h][s] \in Grants /\ grants'[h][s].status # "Denied"
          /\ grants'[h][s] # Pending <=> h = Server /\ s \in Asks(n, "server")
  <2> TAKE h \in Holders, s \in Slugs
  <2>1. CASE h = Server /\ s \in Asks(n, "server")
    <3>1. PICK x \in Nat : x = RiskOf(n, s, q.levels)
      BY RiskOfType DEF Requests
    <3>2. grants'[h][s] = [status |-> "Granted", risk |-> x]
      BY <1>8, <2>1, <3>1, ScopeType DEF ConsentInv, Types, Decision
    <3> QED
      BY <2>1, <3>2 DEF Grants, Pending
  <2>2. CASE ~(h = Server /\ s \in Asks(n, "server"))
    <3>1. grants'[h][s] = grants[h][s]
      BY <1>8, <2>2, ScopeType DEF ConsentInv, Types
    <3>2. grants'[h][s] = Pending
      BY <1>4, <3>1
    <3> QED
      BY <2>2, <3>2 DEF Grants, Pending
  <2> QED
    BY <2>1, <2>2
<1>12. grants' \in [Holders -> [Slugs -> Grants]]
  <2>1. DOMAIN grants' = Holders
    BY <1>8 DEF ConsentInv, Types
  <2>2. \A h \in Holders : grants'[h] = [s \in Slugs |-> grants'[h][s]]
    BY <1>8 DEF ConsentInv, Types
  <2>3. grants' = [h \in Holders |-> grants'[h]]
    BY <1>8 DEF ConsentInv, Types
  <2>4. \A h \in Holders, s \in Slugs : grants'[h][s] \in Grants
    BY <1>11
  <2>5. \A h \in Holders : grants'[h] \in [Slugs -> Grants]
    BY ONLY <2>2, <2>4
  <2> QED
    BY ONLY <2>3, <2>5
<1>13. TypeOK'
  <2>1. DOMAIN req' = Reqs
    BY <1>8 DEF ConsentInv, Types
  <2>2. units' \in [Units -> Rows \cup {NoRow}]
    BY <1>8, <1>10
  <2>3. \A h \in Holders, s \in Slugs :
            grants'[h][s].status \in {"Pending", "Granted", "Denied"}
    BY <1>11 DEF Grants, Pending
  <2>4. catalog' \subseteq Slugs
    BY <1>4, <1>8
  <2> QED
    BY <1>8, <1>9, <2>1, <2>2, <2>3, <2>4 DEF ConsentInv, Types, TypeOK, PluginRows
<1>14. \A s \in Reqs : Approving(req[s], plugin', drifted')
  <2>1. /\ drifted' \in BOOLEAN
        /\ \A s \in Reqs : plugin'.pending.id = req[s].staging =>
               plugin'.pending.id = 0 \/ plugin'.pending = plugin.pending
        /\ \A s \in Reqs : plugin'.epoch # req[s].epoch
        /\ \A s \in Reqs : plugin'.epoch = req[s].epoch => plugin'.epoch = plugin.epoch
    BY <1>5, <1>6, <1>8, <1>9
  <2> SUFFICES ASSUME NEW s \in Reqs PROVE Approving(req[s], plugin', drifted')
    OBVIOUS
  <2>2. Approving(req[s], plugin, drifted)
    BY DEF ConsentInv, Fits
  <2> QED
    BY <1>6, <1>9, <2>1, <2>2 DEF Approving
<1>15. Consented'
  <2>1. DenialsSuspend'
    BY <1>11, ScopeType DEF DenialsSuspend, DeniedRequired, Requires, Asks
  <2>2. ServerConsentHolds'
    BY <1>9, <1>11, ScopeType DEF ServerConsentHolds, Requires, Asks
  <2>3. ConsentIsAskedFor'
    BY <1>4, <1>8, <1>9, <1>11, ScopeType DEF ConsentIsAskedFor
  <2>4. ServedConfigConforms'
    BY <1>7, <1>9, <1>10 DEF ServedConfigConforms, Conforms
  <2> QED
    BY <2>1, <2>2, <2>3, <2>4 DEF Consented
<1> QED
  BY <1>3, <1>6, <1>8, <1>9, <1>12, <1>13, <1>14, <1>15, ExclusiveStep

(* A permission that the new manifest asks of a holder keeps its decision. *)
LEMMA AskedIsKept ==
  ASSUME NEW m \in Manifests, NEW n \in Manifests, NEW h \in Holders,
         NEW s \in Asks(n, Scope(h))
  PROVE  s \notin Lapsed(m, n, h)
<1>1. s \in Slugs /\ Check[n][s].scope = Scope(h) /\ Check[n][s].scope # "none"
  BY ScopeType DEF Asks, Scopes
<1>2. s \notin Declares[m] \ Declares[n]
  BY <1>1
<1>3. s \in Requested(n)
  BY <1>1 DEF Requested
<1>4. ~(s \in Moved(m, n) /\ Check[m][s].scope = Scope(h))
  BY <1>1 DEF Moved
<1> QED
  BY <1>2, <1>3, <1>4 DEF Lapsed

(* A decision that does not lapse stays with its holder. *)
LEMMA KeptIsAsked ==
  ASSUME NEW m \in Manifests, NEW n \in Manifests, NEW h \in Holders,
         NEW s \in Asks(m, Scope(h)), s \notin Lapsed(m, n, h)
  PROVE  s \in Asks(n, Scope(h))
<1>1. s \in Slugs /\ Check[m][s].scope = Scope(h) /\ s \in Requested(m)
  BY ScopeType DEF Asks, Scopes, Requested
<1>2. s \in Requested(n)
  BY <1>1 DEF Lapsed
<1>3. s \notin Moved(m, n)
  BY <1>1 DEF Lapsed
<1> QED
  BY <1>1, <1>2, <1>3 DEF Moved, Asks

(* What an activation makes of a decision: it drops it, seeds it or keeps    *)
(* its answer.                                                               *)
LEMMA ActivatedType ==
  ASSUME ConsentInv, NEW q \in Requests, NEW seeded \in SUBSET Slugs,
         \A s \in Slugs : <<"server", s>> \in q.risky => grants[Server][s] # Pending,
         NEW h \in Holders, NEW s \in Slugs, NEW g, g = ActivatedGrants(q, seeded)[h][s]
  PROVE  /\ g \in Grants
         /\ s \in Lapsed(q.m, q.next, h) => g = Pending
         /\ g # Pending => grants[h][s] # Pending \/ (h = Server /\ s \in seeded)
         /\ g.status = "Denied" => grants[h][s].status = "Denied"
         /\ s \notin Lapsed(q.m, q.next, h) =>
                /\ grants[h][s] # Pending => g # Pending
                /\ h = Server /\ s \in seeded => g # Pending
<1>1. PICK x \in Nat : x = RiskOf(q.next, s, q.levels)
  BY RiskOfType DEF Requests
<1>2. PICK old \in Grants : old = grants[h][s]
  BY DEF ConsentInv, Types
<1>3. g = IF s \in Lapsed(q.m, q.next, h) THEN Pending
          ELSE IF h = Server /\ s \in seeded THEN Decision("Granted", x)
               ELSE IF h = Server /\ <<"server", s>> \in q.risky
                    THEN [old EXCEPT !.risk = x] ELSE old
  BY <1>1, <1>2 DEF ActivatedGrants
<1>4. CASE s \in Lapsed(q.m, q.next, h)
  <2>1. g = Pending
    BY <1>3, <1>4
  <2> QED
    BY <1>4, <2>1 DEF Grants, Pending
<1>5. CASE s \notin Lapsed(q.m, q.next, h) /\ h = Server /\ s \in seeded
  <2>1. g = [status |-> "Granted", risk |-> x]
    BY <1>3, <1>5 DEF Decision
  <2>2. g \in Grants /\ g # Pending /\ g.status = "Granted"
    BY <2>1 DEF Grants, Pending
  <2> QED
    BY <1>5, <2>2
<1>6. CASE s \notin Lapsed(q.m, q.next, h) /\ ~(h = Server /\ s \in seeded)
           /\ h = Server /\ <<"server", s>> \in q.risky
  <2>1. g = [old EXCEPT !.risk = x]
    BY <1>3, <1>6
  <2>2. old \in [status : {"Granted", "Denied"}, risk : Nat]
    BY <1>2, <1>6 DEF Grants
  <2>3. g \in Grants /\ g # Pending /\ g.status = old.status
    BY <2>1, <2>2 DEF Grants, Pending
  <2> QED
    BY <1>2, <1>6, <2>3
<1>7. CASE s \notin Lapsed(q.m, q.next, h) /\ ~(h = Server /\ s \in seeded)
           /\ ~(h = Server /\ <<"server", s>> \in q.risky)
  <2>1. g = old
    BY <1>3, <1>7
  <2> QED
    BY <1>2, <1>7, <2>1
<1> QED
  BY <1>4, <1>5, <1>6, <1>7

(* What an activation commits, by what it replaces. *)
LEMMA ActivateFacts ==
  ASSUME ConsentInv, NEW r \in Reqs, Activate(r), NEW q \in Requests, q = req[r]
  PROVE  /\ Sharing = {} /\ plugin.state = "living" /\ BlockedByDenial(q.next) = {}
         /\ plugin' \in PluginRows /\ plugin'.state = "living" /\ plugin'.m = q.next
         /\ plugin'.epoch = plugin.epoch /\ plugin'.pending = NoStaging
         /\ plugin'.config \in Accepts[q.next] \cup {Empty}
         /\ catalog' = (catalog \ (Declares[q.m] \ Declares[q.next]))
                       \cup (Declares[q.next] \ Declares[q.m])
         /\ drifted' = (drifted \/ q.m # plugin.m \/ q.epoch # plugin.epoch)
         /\ req' = [req EXCEPT ![r] = Idle] /\ risk' = risk
         /\ \A u \in Units : /\ units'[u] \in Rows \cup {NoRow}
                             /\ units'[u].row = units[u].row
                             /\ Conforms(q.next, u, units'[u])
                             /\ units[u].suspended => units'[u].suspended
                             /\ units[u].row /\ OwesConsent(q, grants', u) =>
                                    units'[u].suspended
         /\ units' = [u \in Units |-> units'[u]]
<1>1. PICK n \in Manifests : n = q.next
  BY DEF Requests
<1>2. PICK p \in PluginRows : p = plugin
  BY DEF ConsentInv, Types, TypeOK, PluginRows
<1>3. PICK t \in [id : Nat, m : Manifests] : t = NoStaging
  BY NoStagingType
<1>4. PICK c \in Configs : c = Retained(n, p.config) /\ c \in Accepts[n] \cup {Empty}
  BY RetainedType DEF PluginRows
<1>5. plugin' = [p EXCEPT !.m = n, !.pending = t, !.config = c]
  BY <1>1, <1>2, <1>3, <1>4 DEF Activate
<1>6. /\ plugin' \in PluginRows /\ plugin'.state = p.state /\ plugin'.m = n
      /\ plugin'.epoch = p.epoch /\ plugin'.pending = t /\ plugin'.config = c
  BY <1>5 DEF PluginRows
<1>7. /\ Sharing = {} /\ plugin.state = "living" /\ BlockedByDenial(q.next) = {}
      /\ catalog' = (catalog \ (Declares[q.m] \ Declares[q.next]))
                    \cup (Declares[q.next] \ Declares[q.m])
      /\ drifted' = (drifted \/ q.m # plugin.m \/ q.epoch # plugin.epoch)
      /\ req' = [req EXCEPT ![r] = Idle] /\ risk' = risk
  BY DEF Activate, End
<1>8. units' = [u \in Units |-> Reconciled(n, u,
          IF units[u].row /\ OwesConsent(q, grants', u)
          THEN [units[u] EXCEPT !.suspended = TRUE] ELSE units[u])]
  BY <1>1 DEF Activate
<1>9. ASSUME NEW u \in Units
      PROVE  /\ units'[u] \in Rows \cup {NoRow}
             /\ units'[u].row = units[u].row
             /\ Conforms(n, u, units'[u])
             /\ units[u].suspended => units'[u].suspended
             /\ units[u].row /\ OwesConsent(q, grants', u) => units'[u].suspended
  <2>1. PICK row \in Rows \cup {NoRow} : row = units[u]
    BY RowFacts
  <2>2. PICK k : k = IF row.row /\ OwesConsent(q, grants', u)
                     THEN [row EXCEPT !.suspended = TRUE] ELSE row
    OBVIOUS
  <2>3. /\ k \in Rows \cup {NoRow} /\ k.row = row.row
        /\ row.suspended => k.suspended
        /\ row.row /\ OwesConsent(q, grants', u) => k.suspended
    <3>1. CASE row.row /\ OwesConsent(q, grants', u)
      <4>1. row \in Rows
        BY <3>1, RowsType
      <4>2. k = [row EXCEPT !.suspended = TRUE]
        BY <2>2, <3>1
      <4> QED
        BY <4>1, <4>2 DEF Rows
    <3>2. CASE ~(row.row /\ OwesConsent(q, grants', u))
      BY <2>2, <3>2
    <3> QED
      BY <3>1, <3>2
  <2>4. units'[u] = Reconciled(n, u, k)
    BY <1>8, <2>1, <2>2
  <2>5. /\ units'[u] \in Rows \cup {NoRow} /\ units'[u].row = k.row
        /\ units'[u].suspended = k.suspended /\ Conforms(n, u, units'[u])
    BY <2>3, <2>4, ReconciledType
  <2> QED
    BY <2>1, <2>3, <2>5
<1>10. units' = [u \in Units |-> units'[u]]
  BY <1>8
<1> QED
  BY <1>1, <1>2, <1>3, <1>4, <1>6, <1>7, <1>9, <1>10

(* An update is activated. *)
LEMMA ActivateStep ==
  ASSUME ConsentInv, NEW r \in Reqs, Activate(r)
  PROVE  ConsentInv'
<1>1. PICK q \in Requests : q = req[r]
  BY DEF ConsentInv, Types
<1>2. PICK m \in Manifests : m = q.m
  BY DEF Requests
<1>3. PICK n \in Manifests : n = q.next
  BY DEF Requests
<1>4. /\ Sharing = {} /\ plugin.state = "living" /\ BlockedByDenial(n) = {}
      /\ plugin' \in PluginRows /\ plugin'.state = "living" /\ plugin'.m = n
      /\ plugin'.epoch = plugin.epoch /\ plugin'.pending = NoStaging
      /\ plugin'.config \in Accepts[n] \cup {Empty}
      /\ catalog' = (catalog \ (Declares[m] \ Declares[n])) \cup (Declares[n] \ Declares[m])
      /\ drifted' = (drifted \/ m # plugin.m \/ q.epoch # plugin.epoch)
      /\ req' = [req EXCEPT ![r] = Idle] /\ risk' = risk
  BY <1>1, <1>2, <1>3, ActivateFacts
<1>5. /\ \A u \in Units : /\ units'[u] \in Rows \cup {NoRow}
                          /\ units'[u].row = units[u].row
                          /\ Conforms(n, u, units'[u])
                          /\ units[u].suspended => units'[u].suspended
                          /\ units[u].row /\ OwesConsent(q, grants', u) =>
                                 units'[u].suspended
      /\ units' = [u \in Units |-> units'[u]]
  BY <1>1, <1>3, ActivateFacts
<1>6. PICK seeded \in SUBSET Slugs : seeded = {s \in q.seed : grants[Server][s] = Pending}
  BY DEF Requests
<1>7. /\ grants' = ActivatedGrants(q, seeded)
      /\ \A s \in Slugs : <<"server", s>> \in q.risky => grants[Server][s] # Pending
      /\ \/ q.op = "stage" /\ q.answer = "activate"
         \/ q.op = "approve" /\ q.pc = "loaded"
  BY <1>1, <1>6 DEF Activate
<1>8. Given(q) /\ Approving(q, plugin, drifted)
  BY <1>1 DEF ConsentInv, Fits
<1>9. ASSUME NEW h \in Holders, NEW s \in Slugs
      PROVE  /\ grants'[h][s] \in Grants
             /\ s \in Lapsed(m, n, h) => grants'[h][s] = Pending
             /\ grants'[h][s] # Pending => grants[h][s] # Pending \/ (h = Server /\ s \in seeded)
             /\ grants'[h][s].status = "Denied" => grants[h][s].status = "Denied"
             /\ s \notin Lapsed(m, n, h) =>
                    /\ grants[h][s] # Pending => grants'[h][s] # Pending
                    /\ h = Server /\ s \in seeded => grants'[h][s] # Pending
  <2>1. PICK g : g = ActivatedGrants(q, seeded)[h][s]
    OBVIOUS
  <2>2. g = grants'[h][s]
    BY <1>7, <2>1
  <2>3. /\ g \in Grants
        /\ s \in Lapsed(q.m, q.next, h) => g = Pending
        /\ g # Pending => grants[h][s] # Pending \/ (h = Server /\ s \in seeded)
        /\ g.status = "Denied" => grants[h][s].status = "Denied"
        /\ s \notin Lapsed(q.m, q.next, h) =>
               /\ grants[h][s] # Pending => g # Pending
               /\ h = Server /\ s \in seeded => g # Pending
    <3>1. \A x \in Slugs : <<"server", x>> \in q.risky => grants[Server][x] # Pending
      BY <1>7
    <3>2. q \in Requests /\ seeded \in SUBSET Slugs /\ h \in Holders /\ s \in Slugs
      OBVIOUS
    <3>3. ConsentInv
      OBVIOUS
    <3> QED
      BY ONLY <2>1, <3>1, <3>2, <3>3, ActivatedType
  <2> QED
    BY <1>2, <1>3, <2>2, <2>3
<1>10. grants' \in [Holders -> [Slugs -> Grants]]
  <2>1. grants' = [h \in Holders |-> [s \in Slugs |-> grants'[h][s]]]
    BY <1>7 DEF ActivatedGrants
  <2> QED
    BY <1>9, <2>1
<1>11. TypeOK'
  <2>1. DOMAIN req' = Reqs
    BY <1>4 DEF ConsentInv, Types
  <2>2. units' \in [Units -> Rows \cup {NoRow}]
    BY <1>5
  <2>3. \A h \in Holders, s \in Slugs :
            grants'[h][s].status \in {"Pending", "Granted", "Denied"}
    BY <1>9 DEF Grants, Pending
  <2>4. catalog' \subseteq Slugs
    BY <1>4 DEF ConsentInv, Types, TypeOK
  <2>5. drifted' \in BOOLEAN
    BY <1>4 DEF ConsentInv, Types, TypeOK
  <2> QED
    BY <1>4, <2>1, <2>2, <2>3, <2>4, <2>5 DEF ConsentInv, Types, TypeOK, PluginRows
<1>12. \A s \in Reqs : Approving(req[s], plugin', drifted')
  <2>1. drifted' \in BOOLEAN /\ (drifted => drifted')
    BY <1>4, <1>11 DEF TypeOK
  <2> QED
    BY <1>4, <2>1, NoStagingType, ApprovingStep
<1>13. q.seed \subseteq Asks(n, "server")
  BY <1>3, <1>7, <1>8 DEF Given, Approving
<1>14. ~drifted' => ~drifted /\ m = plugin.m /\ q.epoch = plugin.epoch
  BY <1>4
<1>15. ServerConsentHolds'
  <2>1. \A s \in Requires(n, "server") : grants'[Server][s].status # "Denied"
    <3> SUFFICES ASSUME NEW s \in Requires(n, "server"), grants'[Server][s].status = "Denied"
                 PROVE  FALSE
      OBVIOUS
    <3>1. s \in Slugs
      BY DEF Requires, Asks
    <3>2. grants[Server][s].status = "Denied"
      BY <1>9, <3>1, ScopeType
    <3> QED
      BY <1>4, <3>2 DEF BlockedByDenial
  <2>2. ASSUME ~drifted', NEW s \in Asks(n, "server") PROVE grants'[Server][s] # Pending
    <3>1. s \in Slugs /\ Check[n][s].scope = "server"
      BY DEF Asks
    <3>2. s \notin Lapsed(m, n, Server)
      BY AskedIsKept, ScopeType
    <3>3. CASE s \in Asks(m, "server")
      <4>1. grants[Server][s] # Pending
        BY <1>4, <1>14, <2>2, <3>3 DEF ConsentInv, Consented, ServerConsentHolds
      <4> QED
        BY <1>9, <3>1, <3>2, <4>1, ScopeType
    <3>4. CASE s \notin Asks(m, "server")
      <4>1. q.op = "approve"
        <5> SUFFICES ASSUME q.op = "stage", q.answer = "activate" PROVE FALSE
          BY <1>7
        <5>1. ~ServerGating(m, n, q.risky)
          BY <1>2, <1>3, <1>8 DEF Given
        <5>2. s \in New(m, n) \cup Moved(m, n)
          BY <3>1, <3>4 DEF New, Moved, Requested, Asks
        <5> QED
          BY <3>1, <5>1, <5>2 DEF ServerGating
      <4>2. s \in q.seed
        BY <1>2, <1>3, <1>7, <1>8, <1>14, <2>2, <3>4, <4>1 DEF Approving
      <4>3. s \in seeded \/ grants[Server][s] # Pending
        BY <1>6, <4>2
      <4> QED
        BY <1>9, <3>1, <3>2, <4>3, ScopeType
    <3> QED
      BY <3>3, <3>4
  <2> QED
    BY <1>4, <2>1, <2>2 DEF ServerConsentHolds
<1>16. ASSUME ~drifted', NEW h \in Holders, NEW s \in Slugs, grants'[h][s] # Pending,
              grants[h][s] # Pending
       PROVE  s \in Asks(m, Scope(h)) /\ s \in Asks(n, Scope(h))
  <2>1. s \in Asks(m, Scope(h))
    BY <1>4, <1>14, <1>16 DEF ConsentInv, Consented, ConsentIsAskedFor
  <2>2. s \notin Lapsed(m, n, h)
    BY <1>9, <1>16
  <2> QED
    BY <2>1, <2>2, KeptIsAsked
<1>17. ConsentIsAskedFor'
  <2>1. ~drifted' => catalog' = Declares[n]
    <3>1. ~drifted' => catalog = Declares[m]
      BY <1>4, <1>14 DEF ConsentInv, Consented, ConsentIsAskedFor
    <3> QED
      BY <1>4, <3>1
  <2>2. ASSUME ~drifted', NEW h \in Holders, NEW s \in Slugs, grants'[h][s] # Pending
        PROVE  s \in Asks(n, Scope(h))
    <3>1. CASE grants[h][s] # Pending
      BY <1>16, <2>2, <3>1
    <3>2. CASE h = Server /\ s \in seeded
      BY <1>6, <1>13, <3>2, ScopeType
    <3> QED
      BY <1>9, <2>2, <3>1, <3>2
  <2> QED
    BY <1>4, <2>1, <2>2 DEF ConsentIsAskedFor
<1>18. DenialsSuspend'
  <2> SUFFICES ASSUME ~drifted', NEW u \in Units, units'[u].row,
                      NEW s \in DeniedRequired(n, ScopeOf[u], grants'[u])
               PROVE  units'[u].suspended
    BY <1>4 DEF DenialsSuspend
  <2>1. /\ s \in Slugs /\ s \in Asks(n, ScopeOf[u]) /\ Check[n][s].required
        /\ grants'[u][s].status = "Denied"
    BY DEF DeniedRequired, Requires, Asks
  <2>2. u \in Holders /\ Scope(u) = ScopeOf[u] /\ Pending.status # "Denied"
    BY ScopeType DEF Pending
  <2>3. grants[u][s].status = "Denied"
    BY <1>9, <2>1, <2>2
  <2>4. s \in Asks(m, ScopeOf[u])
    BY <1>16, <2>1, <2>2, <2>3
  <2>5. CASE Check[m][s].required
    <3>1. s \in DeniedRequired(m, ScopeOf[u], grants[u])
      BY <2>3, <2>4, <2>5 DEF DeniedRequired, Requires
    <3>2. units[u].suspended
      BY <1>4, <1>5, <1>14, <3>1, RowFacts
    <3> QED
      BY <1>5, <3>2
  <2>6. CASE ~Check[m][s].required
    <3>1. s \in Promoted(m, n)
      BY <2>1, <2>2, <2>4, <2>6, ScopeType DEF Promoted, Moved, Requested, Asks, Scopes
    <3>2. s \in Reconsent(m, n, ScopeOf[u], q.risky)
      BY <2>1, <3>1 DEF Reconsent
    <3>3. OwesConsent(q, grants', u)
      BY <1>2, <1>3, <2>1, <3>2 DEF OwesConsent
    <3> QED
      BY <1>5, <3>3
  <2> QED
    BY <2>5, <2>6
<1>19. ServedConfigConforms'
  BY <1>4, <1>5 DEF ServedConfigConforms, Conforms
<1>20. Consented'
  BY <1>15, <1>17, <1>18, <1>19 DEF Consented
<1> QED
  BY <1>4, <1>10, <1>11, <1>12, <1>20, ExclusiveStep

-----------------------------------------------------------------------------
(* The theorems. *)

(* Every step keeps the invariant. *)
LEMMA ConsentNext ==
  ASSUME ConsentInv, [Next]_vars
  PROVE  ConsentInv'
<1>1. ASSUME NEW r \in Reqs, Decisions(r) PROVE ConsentInv'
  <2>1. CASE \E h \in Holders, s \in Slugs, d \in {"Granted", "Denied"} : Decide(r, h, s, d)
    BY <2>1, DecideStep
  <2>2. CASE \E u \in Units : Revoke(r, u)
    BY <2>2, RevokeStep
  <2> QED
    BY <1>1, <2>1, <2>2, ClaimDecisionStep, CommitDecisionStep, ClaimPassStep, CommitPassStep,
       CommitRevokeStep DEF Decisions
<1>2. ASSUME NEW r \in Reqs, Enablement(r) PROVE ConsentInv'
  <2>1. CASE \E u \in Units, c \in Configs \cup {""} :
                ScopeOf[u] = "household" /\ EnableHousehold(r, u, c)
    BY <2>1, EnableStep
  <2>2. CASE \E u \in Units, c \in Configs :
                ScopeOf[u] = "household" /\ UpdateHouseholdConfig(r, u, c)
    BY <2>2, UpdateHouseholdConfigStep
  <2>3. CASE \E u \in Units : ScopeOf[u] = "household" /\ DisableHousehold(r, u)
    BY <2>3, DisableStep
  <2>4. CASE \E u \in Units, on \in {"on", "off"} :
                ScopeOf[u] = "user" /\ SetUserEnabled(r, u, on)
    BY <2>4, SetUserEnabledStep
  <2> QED
    BY <1>2, <2>1, <2>2, <2>3, <2>4, ClaimUnitStep, LockUnitStep, CommitUnitStep
       DEF Enablement
<1>3. ASSUME NEW r \in Reqs, Updates(r) PROVE ConsentInv'
  <2>1. CASE \E n \in Manifests : Stage(r, n)
    BY <2>1, StageStep
  <2>2. CASE \E answer \in {"approve", "reject"} : Review(r, answer)
    BY <2>2, ReviewStep
  <2> QED
    BY <1>3, <2>1, <2>2, CommitStageStep, ApproveStep, ActivateStep, RejectStep DEF Updates
<1>4. ASSUME NEW r \in Reqs, Administration(r) PROVE ConsentInv'
  <2>1. CASE \E n \in Manifests : Install(r, n)
    BY <2>1, InstallStep
  <2>2. CASE \E purge \in {"purge", "keep"} : Uninstall(r, purge)
    BY <2>2, SwitchStep
  <2>3. CASE \E on \in {"on", "off"} : SetEnabled(r, on)
    BY <2>3, SwitchStep
  <2>4. CASE \E c \in Configs : UpdateConfig(r, c)
    BY <2>4, UpdateConfigStep
  <2> QED
    BY <1>4, <2>1, <2>2, <2>3, <2>4, CommitInstallStep, CommitUninstallStep,
       CommitSetEnabledStep, CommitUpdateConfigStep DEF Administration
<1>5. CASE UNCHANGED vars
  <2>1. Types'
    BY <1>5 DEF vars, ConsentInv, Types, TypeOK
  <2>3. LocksExclude'
    BY <1>5 DEF vars, ConsentInv, LocksExclude
  <2>4. Consented'
    <3>1. DenialsSuspend' /\ ServerConsentHolds'
      BY <1>5 DEF vars, ConsentInv, Consented, DenialsSuspend, ServerConsentHolds
    <3>2. ConsentIsAskedFor'
      BY <1>5 DEF vars, ConsentInv, Consented, ConsentIsAskedFor
    <3>3. ServedConfigConforms'
      BY <1>5 DEF vars, ConsentInv, Consented, ServedConfigConforms
    <3> QED
      BY <3>1, <3>2, <3>3 DEF Consented
  <2>2. \A r \in Reqs : Fits(r)'
    BY <1>5 DEF vars, ConsentInv, Fits
  <2> QED
    BY <2>1, <2>2, <2>3, <2>4 DEF ConsentInv
<1> QED
  BY <1>1, <1>2, <1>3, <1>4, <1>5, AbortStep, ReclassifyStep DEF Next

(* The invariant holds of the plugin's rows and of everyone who writes them, *)
(* in every order of claims, locks, commits and aborted transactions.        *)
THEOREM ConsentInvariance == Spec => []ConsentInv
  BY ConsentInit, ConsentNext, PTL DEF Spec

(* The rows keep their types. *)
THEOREM ConsentTypeCorrect == Spec => []TypeOK
<1>1. ConsentInv => TypeOK
  BY DEF ConsentInv, Types
<1> QED
  BY <1>1, ConsentInvariance, PTL

(* A unit that denied what the active manifest requires of it is suspended:  *)
(* decide, enable and activate all see to it.                                *)
THEOREM DenialsSuspended == Spec => []DenialsSuspend
<1>1. ConsentInv => DenialsSuspend
  BY DEF ConsentInv, Consented
<1> QED
  BY <1>1, ConsentInvariance, PTL

(* The server decided what the active manifest asks of it and denies nothing *)
(* that one requires: activateInTransaction reads the denials again.         *)
THEOREM ServerConsents == Spec => []ServerConsentHolds
<1>1. ConsentInv => ServerConsentHolds
  BY DEF ConsentInv, Consented
<1> QED
  BY <1>1, ConsentInvariance, PTL

(* No decision outlives the manifest that asks for it, nor the plugin. *)
THEOREM ConsentAskedFor == Spec => []ConsentIsAskedFor
<1>1. ConsentInv => ConsentIsAskedFor
  BY DEF ConsentInv, Consented
<1> QED
  BY <1>1, ConsentInvariance, PTL

(* What serves a household conforms to the active manifest, whatever was     *)
(* written while it was being replaced.                                      *)
THEOREM ServedConforms == Spec => []ServedConfigConforms
<1>1. ConsentInv => ServedConfigConforms
  BY DEF ConsentInv, Consented
<1> QED
  BY <1>1, ConsentInvariance, PTL

(* The commits of requests that write the rows of units. *)
WritesUnits(r) ==
    \/ CommitDecision(r) \/ CommitPass(r) \/ CommitUnit(r)
    \/ Activate(r) \/ CommitInstall(r) \/ CommitUninstall(r)

(* No other step touches them. *)
LEMMA UnitWriters ==
  ASSUME [Next]_vars
  PROVE  units' = units \/ \E r \in Reqs : WritesUnits(r)
<1>1. ASSUME NEW r \in Reqs, Decisions(r) PROVE units' = units \/ WritesUnits(r)
  BY <1>1 DEF Decisions, Decide, ClaimDecision, ClaimPass, Revoke, CommitRevoke, Begin,
     WritesUnits
<1>2. ASSUME NEW r \in Reqs, Enablement(r) PROVE units' = units \/ WritesUnits(r)
  BY <1>2 DEF Enablement, EnableHousehold, UpdateHouseholdConfig, DisableHousehold,
     SetUserEnabled, ClaimUnit, LockUnit, Begin, WritesUnits
<1>3. ASSUME NEW r \in Reqs, Updates(r) PROVE units' = units \/ WritesUnits(r)
  BY <1>3 DEF Updates, Stage, CommitStage, Review, Approve, Reject, Begin, WritesUnits
<1>4. ASSUME NEW r \in Reqs, Administration(r) PROVE units' = units \/ WritesUnits(r)
  BY <1>4 DEF Administration, Install, Uninstall, SetEnabled, CommitSetEnabled, UpdateConfig,
     CommitUpdateConfig, Begin, WritesUnits
<1>5. \A s \in Slugs : Reclassify(s) => units' = units
  BY DEF Reclassify
<1>6. \A r \in Reqs : Abort(r) => units' = units
  BY DEF Abort
<1>7. UNCHANGED vars => units' = units
  BY DEF vars
<1> QED
  BY <1>1, <1>2, <1>3, <1>4, <1>5, <1>6, <1>7 DEF Next

(* A unit's writer keeps a suspension it read. *)
LEMMA UnitKeepsSuspension ==
  ASSUME ConsentInv, NEW r \in Reqs, CommitUnit(r), NEW u \in Units, units[u].suspended
  PROVE  units'[u].suspended
<1>1. PICK q \in Requests : q = req[r]
  BY DEF ConsentInv, Types
<1>2. q.op \in UnitOps /\ q.pc = "locked"
  BY <1>1 DEF CommitUnit
<1>3. q.who \in Units /\ q.row = units[q.who]
  BY <1>1, <1>2 DEF ConsentInv, Fits, Under
<1>4. CASE u # q.who
  <2>1. units'[u] = units[u]
    BY <1>1, <1>4 DEF CommitUnit, ConsentInv, Types, TypeOK
  <2> QED
    BY <2>1
<1>5. CASE u = q.who
  <2>1. PICK row \in Rows : row = units[u] /\ row.suspended /\ row.row
    BY RowFacts, RowsType
  <2>2. PICK same : same = (q.op = "enableHousehold" /\ q.config = "" /\ q.row.row
                            /\ q.row.enabled /\ q.row.dormant = "none")
    OBVIOUS
  <2>3. units'[u] =
          CASE same -> q.row
            [] q.op = "enableHousehold" /\ ~same -> EnabledRow(q)
            [] q.op = "updateHouseholdConfig" -> [Configured(q.row) EXCEPT !.config = q.config]
            [] q.op = "disableHousehold" -> [q.row EXCEPT !.enabled = FALSE]
            [] q.op = "setUserEnabled" -> [q.row EXCEPT !.enabled = (q.answer = "on")]
    BY <1>1, <1>5, <2>2 DEF CommitUnit, ConsentInv, Types, TypeOK
  <2>4. PICK k : k = Configured(row)
    OBVIOUS
  <2>5. k \in Rows /\ k.suspended
    BY <2>1, <2>4 DEF Configured, Rows
  <2>6. CASE same
    BY <1>3, <1>5, <2>1, <2>2, <2>3, <2>6
  <2>7. CASE q.op = "enableHousehold" /\ ~same
    <3>1. PICK c : c = IF q.config = "" THEN row.config ELSE q.config
      OBVIOUS
    <3>2. EnabledRow(q) = [k EXCEPT !.enabled = TRUE, !.config = c]
      BY <1>3, <1>5, <2>1, <2>4, <3>1 DEF EnabledRow
    <3>3. units'[u] = EnabledRow(q)
      BY <2>3, <2>7
    <3> QED
      BY <2>5, <3>2, <3>3 DEF Rows
  <2>8. CASE q.op = "updateHouseholdConfig"
    <3>1. units'[u] = [k EXCEPT !.config = q.config]
      BY <1>3, <1>5, <2>1, <2>2, <2>3, <2>4, <2>8
    <3> QED
      BY <2>5, <3>1 DEF Rows
  <2>9. CASE q.op \in {"disableHousehold", "setUserEnabled"}
    <3>1. PICK b : units'[u] = [row EXCEPT !.enabled = b]
      BY <1>3, <1>5, <2>1, <2>2, <2>3, <2>9
    <3> QED
      BY <2>1, <3>1 DEF Rows
  <2> QED
    BY <1>2, <2>6, <2>7, <2>8, <2>9 DEF UnitOps
<1> QED
  BY <1>4, <1>5

(* A decision never lifts a suspension: only its pass does. *)
LEMMA DecisionKeepsSuspension ==
  ASSUME ConsentInv, NEW r \in Reqs, CommitDecision(r), NEW u \in Units, units[u].suspended
  PROVE  units'[u].suspended
<1>1. PICK q \in Requests : q = req[r]
  BY DEF ConsentInv, Types
<1>2. CASE ~TouchesUnit(q) \/ u # q.who
  <2>1. units'[u] = units[u]
    BY <1>1, <1>2 DEF CommitDecision, ConsentInv, Types, TypeOK
  <2> QED
    BY <2>1
<1>3. CASE TouchesUnit(q) /\ u = q.who
  <2>1. q.op = "decide" /\ q.pc = "locked"
        /\ units'[u] = IF q.answer = "Denied" THEN Suspended(q) ELSE Anchored(q)
    BY <1>1, <1>3 DEF CommitDecision, ConsentInv, Types, TypeOK
  <2>2. q.row = units[u]
    BY <1>1, <1>3, <2>1 DEF ConsentInv, Fits, Under
  <2>3. q.row \in Rows \cup {NoRow} /\ q.row.row /\ q.row.suspended
    BY <2>2, RowFacts, RowsType
  <2>4. Suspended(q).suspended
    BY <2>3, SuspendedType
  <2>5. Anchored(q) = q.row
    BY <2>3 DEF Anchored
  <2> QED
    BY <2>1, <2>3, <2>4, <2>5
<1> QED
  BY <1>2, <1>3

(* A pass lifts a suspension only when its transaction found no consent      *)
(* outstanding, under the unit's lock and by the active manifest.            *)
LEMMA PassLifts ==
  ASSUME ConsentInv, NEW r \in Reqs, CommitPass(r), NEW u \in Units, units[u].suspended,
         ~units'[u].suspended
  PROVE  /\ DeniedRequired(plugin.m, ScopeOf[u], grants[u]) = {}
         /\ req[r].op = "reenable" /\ req[r].who = u /\ req[r].m = plugin.m
<1>1. PICK q \in Requests : q = req[r]
  BY DEF ConsentInv, Types
<1>2. /\ q.op \in Passes /\ q.pc = "locked"
      /\ units' = [units EXCEPT ![q.who] =
             IF q.op = "suspend" THEN Suspended(q)
             ELSE IF q.row.row /\ q.short = {}
                  THEN [q.row EXCEPT !.suspended = FALSE]
                  ELSE q.row]
  BY <1>1 DEF CommitPass, Passes
<1>3. q.m = plugin.m /\ q.who \in Units /\ q.row = units[q.who]
      /\ Reckoned(q, grants) \subseteq q.short
  BY <1>1, <1>2 DEF ConsentInv, Fits, Claimed, Under, JudgingOps
<1>4. u = q.who
  BY <1>2 DEF ConsentInv, Types, TypeOK
<1>5. units'[u] = IF q.op = "suspend" THEN Suspended(q)
                  ELSE IF q.row.row /\ q.short = {}
                       THEN [q.row EXCEPT !.suspended = FALSE]
                       ELSE q.row
  BY <1>2, <1>4 DEF ConsentInv, Types, TypeOK
<1>6. q.row \in Rows \cup {NoRow} /\ q.row.suspended
  BY <1>3, <1>4, RowFacts
<1>7. Suspended(q).suspended
  BY <1>6, SuspendedType
<1>8. q.op = "reenable" /\ q.short = {}
  BY <1>2, <1>5, <1>6, <1>7 DEF Passes
<1>9. DeniedRequired(plugin.m, ScopeOf[u], grants[u]) = {}
  BY <1>3, <1>4, <1>8, ScopeType DEF Reckoned
<1> QED
  BY <1>1, <1>3, <1>4, <1>8, <1>9

(* Nothing but such a pass lifts a suspension, whichever request or update   *)
(* commits last.                                                             *)
THEOREM SuspensionLiftedByConsent == Spec => ClearedOnlyWithConsent
<1> DEFINE Lifted ==
      \A u \in Units :
          units[u].suspended /\ units'[u].row /\ ~units'[u].suspended =>
              /\ DeniedRequired(plugin.m, ScopeOf[u], grants[u]) = {}
              /\ \E r \in Reqs : req[r].op = "reenable" /\ req[r].who = u
                                 /\ req[r].m = plugin.m
<1>1. ASSUME ConsentInv, [Next]_vars PROVE [Lifted]_vars
  <2> SUFFICES ASSUME NEW u \in Units, units[u].suspended, units'[u].row,
                      ~units'[u].suspended
               PROVE  /\ DeniedRequired(plugin.m, ScopeOf[u], grants[u]) = {}
                      /\ \E r \in Reqs : req[r].op = "reenable" /\ req[r].who = u
                                         /\ req[r].m = plugin.m
    OBVIOUS
  <2>1. PICK r \in Reqs : WritesUnits(r)
    BY <1>1, UnitWriters
  <2>2. ~CommitDecision(r) /\ ~CommitUnit(r)
    BY <1>1, DecisionKeepsSuspension, UnitKeepsSuspension
  <2>3. ~Activate(r)
    <3> SUFFICES ASSUME Activate(r) PROVE FALSE
      OBVIOUS
    <3>1. PICK q \in Requests : q = req[r]
      BY <1>1 DEF ConsentInv, Types
    <3>2. units'[u].suspended
      BY <1>1, <3>1, ActivateFacts
    <3> QED
      BY <3>2
  <2>4. ~CommitInstall(r)
    <3> SUFFICES ASSUME CommitInstall(r) PROVE FALSE
      OBVIOUS
    <3>1. PICK n \in Manifests : n = req[r].next
      BY <1>1 DEF ConsentInv, Types, Requests
    <3>2. units'[u] = Reconciled(n, u, units[u])
      BY <3>1 DEF CommitInstall
    <3>3. units[u] \in Rows \cup {NoRow}
      BY <1>1, RowFacts
    <3>4. units'[u].suspended = units[u].suspended
      BY <3>2, <3>3, ReconciledType
    <3> QED
      BY <3>4
  <2>5. ~CommitUninstall(r)
    <3>1. ~NoRow.row
      BY DEF NoRow
    <3> QED
      BY <3>1 DEF CommitUninstall
  <2>6. CommitPass(r)
    BY <2>1, <2>2, <2>3, <2>4, <2>5 DEF WritesUnits
  <2> QED
    BY <1>1, <2>6, PassLifts
<1>2. [][Lifted]_vars <=> ClearedOnlyWithConsent
  BY DEF ClearedOnlyWithConsent
<1> HIDE DEF Lifted
<1>3. Spec => [][Lifted]_vars
  BY <1>1, ConsentInvariance, PTL DEF Spec
<1> QED
  BY <1>2, <1>3

(* Only an activation and an install replace the manifest. *)
LEMMA ManifestWriters ==
  ASSUME ConsentInv, [Next]_vars, plugin'.m # plugin.m
  PROVE  \E r \in Reqs : Activate(r) \/ CommitInstall(r)
<1>1. PICK p \in PluginRows : p = plugin
  BY DEF ConsentInv, Types, TypeOK, PluginRows
<1>2. ASSUME NEW r \in Reqs
      PROVE  /\ CommitStage(r) \/ Reject(r) => plugin'.m = plugin.m
             /\ CommitUninstall(r) \/ CommitSetEnabled(r) \/ CommitUpdateConfig(r) =>
                    plugin'.m = plugin.m
  <2>1. CommitStage(r) => plugin'.m = plugin.m
    BY <1>1 DEF CommitStage, PluginRows
  <2>2. Reject(r) => plugin'.m = plugin.m
    BY <1>1 DEF Reject, PluginRows
  <2>3. CommitUninstall(r) => plugin'.m = plugin.m
    BY <1>1 DEF CommitUninstall, PluginRows
  <2>4. CommitSetEnabled(r) => plugin'.m = plugin.m
    BY <1>1 DEF CommitSetEnabled, PluginRows
  <2>5. CommitUpdateConfig(r) => plugin'.m = plugin.m
    BY <1>1 DEF CommitUpdateConfig, PluginRows
  <2> QED
    BY <2>1, <2>2, <2>3, <2>4, <2>5
<1>3. ASSUME NEW r \in Reqs PROVE ~Decisions(r)
  BY DEF Decisions, Decide, ClaimDecision, CommitDecision, ClaimPass, CommitPass, Revoke,
     CommitRevoke, Begin
<1>4. ASSUME NEW r \in Reqs PROVE ~Enablement(r)
  BY DEF Enablement, EnableHousehold, UpdateHouseholdConfig, DisableHousehold,
     SetUserEnabled, ClaimUnit, LockUnit, CommitUnit, Begin
<1>5. ASSUME NEW r \in Reqs, Updates(r) PROVE Activate(r)
  BY <1>2, <1>5 DEF Updates, Stage, Review, Approve, Begin
<1>6. ASSUME NEW r \in Reqs, Administration(r) PROVE CommitInstall(r)
  BY <1>2, <1>6 DEF Administration, Install, Uninstall, SetEnabled, UpdateConfig, Begin
<1>7. \A r \in Reqs : ~Abort(r)
  BY DEF Abort
<1>8. \A s \in Slugs : ~Reclassify(s)
  BY DEF Reclassify
<1>9. ~UNCHANGED vars
  BY DEF vars
<1> QED
  BY <1>3, <1>4, <1>5, <1>6, <1>7, <1>8, <1>9 DEF Next

(* resolvePendingUpdate holds an approval to the staging its approver saw,   *)
(* and a staging's id is never used again.                                   *)
THEOREM ApprovalActivatesReviewed == Spec => ApprovedIsReviewed
<1> DEFINE Reviewed ==
      \A r \in Reqs :
          req[r].op = "approve" /\ plugin'.m # plugin.m /\ req'[r] = Idle =>
              plugin'.m = req[r].reviewed
<1>1. ASSUME ConsentInv, [Next]_vars PROVE [Reviewed]_vars
  <2> SUFFICES ASSUME NEW r \in Reqs, req[r].op = "approve", plugin'.m # plugin.m,
                      req'[r] = Idle
               PROVE  plugin'.m = req[r].reviewed
    OBVIOUS
  <2>1. PICK s \in Reqs : Activate(s) \/ CommitInstall(s)
    BY <1>1, ManifestWriters
  <2>2. req' = [req EXCEPT ![s] = Idle]
    BY <2>1 DEF Activate, CommitInstall, End
  <2>3. s = r
    BY <1>1, <2>2, IdleType DEF ConsentInv, Types
  <2>4. Activate(r)
    BY <2>1, <2>3 DEF CommitInstall
  <2>5. PICK q \in Requests : q = req[r]
    BY <1>1 DEF ConsentInv, Types
  <2>6. plugin'.m = q.next
    BY <1>1, <2>4, <2>5, ActivateFacts
  <2>7. q.pc = "loaded"
    BY <2>4, <2>5 DEF Activate
  <2>8. Approving(q, plugin, drifted)
    BY <1>1, <2>5 DEF ConsentInv, Fits
  <2> QED
    BY <2>5, <2>6, <2>7, <2>8 DEF Approving
<1>2. [][Reviewed]_vars <=> ApprovedIsReviewed
  BY DEF ApprovedIsReviewed
<1> HIDE DEF Reviewed
<1>3. Spec => [][Reviewed]_vars
  BY <1>1, ConsentInvariance, PTL DEF Spec
<1> QED
  BY <1>2, <1>3
=============================================================================
