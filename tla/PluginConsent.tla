---------------------------- MODULE PluginConsent ----------------------------
(***************************************************************************)
(* One plugin's rows in the database: the plugin with its active manifest   *)
(* and its staged update, the consent decisions (grants) of the server, the *)
(* households and the users, and the rows that enable it for one household  *)
(* or one user (units).                                                     *)
(*                                                                          *)
(* A request reads the plugin outside its transaction, judges the request   *)
(* by the manifest it read, and then opens the transaction.  Unit writers   *)
(* and decisions claim the plugin row FOR SHARE and compare it with what    *)
(* they read; then they take the advisory lock of their unit, read, write   *)
(* and commit.  Installs, updates, uninstalls and configuration writes hold *)
(* the plugin row exclusively, so each is one step here, possible while no  *)
(* request holds the share.  A decision's write to its grant stays invisible *)
(* until it commits.  A granted decision is followed, in a transaction of   *)
(* its own, by the pass that lifts the suspension of its unit.  Any request *)
(* may die between two steps, and its open transaction with it.             *)
(*                                                                          *)
(* Sources, under libs/plugin/runtime/src/lib: grants/plugin-grant.service, *)
(* units/plugin-unit-lifecycle.service, units/household-dormancy,           *)
(* update/plugin-update.service, update/escalation-comparator,              *)
(* install/plugin-installer.service, lifecycle/plugin-lifecycle.service and *)
(* manifest/manifest-move.                                                  *)
(***************************************************************************)
EXTENDS Integers, FiniteSets

CONSTANTS
    Units,          \* the households and users that may run the plugin
    ScopeOf,        \* the consent scope of each: "household" or "user"
    Server,         \* the holder of server-scope decisions
    Slugs,          \* permissions
    Manifests,      \* manifest documents, told apart by their content
    Number,         \* the version each one carries
    Check,          \* [scope, required] of each permission in each manifest
    Declares,       \* the permissions each manifest declares itself
    Surface,        \* the plugin scope of each: "household" or "server"
    Reach,          \* its outbound domains and the core models it writes
    Accepts,        \* the configuration documents its schema accepts
    Unusable,       \* the manifests whose schema does not compile
    NeedsConfig,    \* requiresHouseholdConfig
    Configs,        \* configuration documents
    Empty,          \* the document {}
    MaxRisk,        \* bound: the highest risk level a permission is given
    Reqs,           \* the requests that may be under way at one time
    Ops,            \* the operations they perform
    First,          \* the manifest installed at the beginning
    Start           \* whether it is: "living", or "never"

Holders == Units \cup {Server}
Scope(h) == IF h = Server THEN "server" ELSE ScopeOf[h]
Scopes == {"server", "household", "user"}

ASSUME PluginAssumption ==
    /\ Server \notin Units
    /\ ScopeOf \in [Units -> {"household", "user"}]
    /\ Check \in [Manifests -> [Slugs -> [scope : Scopes \cup {"none"},
                                          required : BOOLEAN]]]
    /\ Declares \in [Manifests -> SUBSET Slugs]
    \* a manifest cannot ask for another's own permission without declaring it
    /\ \A m, n \in Manifests : \A s \in Declares[m] :
           Check[n][s].scope # "none" => s \in Declares[n]
    /\ Surface \in [Manifests -> {"household", "server"}]
    /\ Accepts \in [Manifests -> SUBSET Configs]
    /\ Empty \in Configs
    /\ NeedsConfig \in SUBSET Manifests
    /\ MaxRisk \in Nat
    /\ First \in Manifests
    /\ Start \in {"living", "never"}
    /\ IsFiniteSet(Reqs)

(* Every validation against a schema that does not compile throws. *)
ASSUME UnusableAssumption ==
    Unusable \in SUBSET Manifests /\ \A m \in Unusable : Accepts[m] = {}

VARIABLES
    plugin,     \* the plugin row
    catalog,    \* the PluginPermission rows
    risk,       \* the core catalog's risk level of each permission
    grants,     \* each holder's decision on each permission
    units,      \* each unit's enablement row
    req,        \* the requests under way
    drifted     \* history: an activation replaced a manifest it did not compare

vars == <<plugin, catalog, risk, grants, units, req, drifted>>

-----------------------------------------------------------------------------
(* Manifests. *)

Requested(m) == {s \in Slugs : Check[m][s].scope # "none"}
Asks(m, sc) == {s \in Slugs : Check[m][s].scope = sc}
Requires(m, sc) == {s \in Asks(m, sc) : Check[m][s].required}

(* Decisions.  A plugin's own permissions are locked to the lowest risk. *)
Pending == [status |-> "Pending", risk |-> 0]
Decision(status, r) == [status |-> status, risk |-> r]
RiskOf(m, s, levels) == IF s \in Declares[m] THEN 0 ELSE levels[s]

(* outstandingUnitSlugs: the checks of manifest m that a unit still owes a   *)
(* decision on, given its decisions g and today's risk levels.               *)
Outstanding(m, sc, g) ==
    {s \in Asks(m, sc) :
        IF g[s].status = "Granted" THEN g[s].risk < RiskOf(m, s, risk)
                                   ELSE Check[m][s].required}

(* deniedRequiredHouseholdSlugs *)
DeniedRequired(m, sc, g) == {s \in Requires(m, sc) : g[s].status = "Denied"}

(* Enablement rows. *)
NoRow == [row |-> FALSE, enabled |-> FALSE, suspended |-> FALSE,
          dormant |-> "none", config |-> Empty]
Rows == [row : {TRUE}, enabled : BOOLEAN, suspended : BOOLEAN,
         dormant : {"none", "ScopeOrphaned", "NeedsConfiguration"},
         config : Configs]

(* The serving predicate. *)
Serves(u) ==
    /\ plugin.state = "living" /\ plugin.enabled
    /\ units[u].row /\ units[u].enabled
    /\ ~units[u].suspended /\ units[u].dormant = "none"

-----------------------------------------------------------------------------
(* Requests.  A request holds the share of the plugin row from "claimed" on, *)
(* and the advisory lock of its unit while "locked".                         *)

Idle ==
    [op |-> "idle", pc |-> "idle", who |-> Server, slug |-> "", answer |-> "",
     config |-> Empty, next |-> First, reviewed |-> First, m |-> First,
     epoch |-> 0, staging |-> 0,
     levels |-> [s \in Slugs |-> 0], risky |-> {}, seed |-> {}, row |-> NoRow,
     short |-> {}]

Sharing == {r \in Reqs : req[r].pc \in {"claimed", "locked"}}
Locked(u) == \E r \in Reqs : req[r].pc = "locked" /\ req[r].who = u
Deciding(h, s) ==
    \E r \in Sharing : req[r].op = "decide" /\ req[r].who = h /\ req[r].slug = s

(* The parts of the plugin row a request compares at its claim. *)
Seen(q) == [q EXCEPT !.m = plugin.m, !.epoch = plugin.epoch]

(* mutant: a decision is held to the installation, not to its manifest *)
UnmovedInstall(q) == plugin.state = "living" /\ q.epoch = plugin.epoch

(* classifyManifestMove = null, on a row that is not a tombstone. *)
Unmoved(q) ==
    /\ plugin.state = "living"
    /\ q.epoch = plugin.epoch
    /\ q.m = plugin.m

Fresh(used) == CHOOSE n \in 1 .. Cardinality(used) + 1 : n \notin used

Begin(r, q) ==
    /\ req[r] = Idle
    /\ q.op \in Ops
    /\ req' = [req EXCEPT ![r] = q]
    /\ UNCHANGED <<plugin, catalog, risk, grants, units, drifted>>

End(r) == req' = [req EXCEPT ![r] = Idle]

(* The request dies, is refused or is aborted: nothing it wrote remains. *)
Abort(r) ==
    /\ req[r] # Idle
    /\ End(r)
    /\ UNCHANGED <<plugin, catalog, risk, grants, units, drifted>>

-----------------------------------------------------------------------------
(* Decisions: PluginGrantService.decide. *)

Decide(r, h, s, status) ==
    /\ plugin.state = "living"
    /\ s \in Asks(plugin.m, Scope(h))
    /\ ~(status = "Denied" /\ h = Server /\ Check[plugin.m][s].required)
    /\ Begin(r, Seen([Idle EXCEPT !.op = "decide", !.pc = "loaded", !.who = h,
                                  !.slug = s, !.answer = status]))

(* The pass that follows a decision, in a transaction of its own. *)
Pass(q) ==
    IF q.who = Server \/ (q.answer = "Denied" /\ ~Check[q.m][q.slug].required)
    THEN Idle
    ELSE [Idle EXCEPT !.op = IF q.answer = "Granted" THEN "reenable" ELSE "suspend",
                      !.pc = "loaded", !.who = q.who, !.slug = q.slug]

(* The claim of the plugin row.  A decision that repeats the one on record   *)
(* goes straight to its pass, unless the record names another version (the   *)
(* model leaves that open); any other is written.  A row another decision is *)
(* writing is waited for.                                                    *)
ClaimDecision(r) ==
    LET q == req[r]
        mine == Decision(q.answer, RiskOf(q.m, q.slug, risk))
    IN  /\ q.op = "decide" /\ q.pc = "loaded"
        /\ Unmoved(q)
        /\ q.slug \in Declares[q.m] => q.slug \in catalog
        /\ \/ /\ grants[q.who][q.slug] = mine
              /\ req' = [req EXCEPT ![r] = Pass(q)]
           \/ /\ ~Deciding(q.who, q.slug)
              /\ req' = [req EXCEPT ![r].pc = "claimed",
                                    ![r].levels[q.slug] = mine.risk]
        /\ UNCHANGED <<plugin, catalog, risk, grants, units, drifted>>

(* Whether the decision's transaction goes on to its unit. *)
TouchesUnit(q) ==
    \/ q.answer = "Denied" /\ q.who # Server /\ Check[q.m][q.slug].required
    \/ q.answer = "Granted" /\ Scope(q.who) = "user"

(* The holder's decisions as the transaction of q sees them. *)
Overlay(q) ==
    IF q.op = "decide"
    THEN [grants[q.who] EXCEPT ![q.slug] =
             Decision(q.answer, q.levels[q.slug])]
    ELSE grants[q.who]

(* What the transaction of q reads of consent once it holds its unit's lock. *)
Consent(q) ==
    CASE q.op = "decide" /\ q.answer = "Granted" ->
             DeniedRequired(q.m, "user", grants[q.who]) \ {q.slug}
      [] q.op = "enableHousehold" ->
             DeniedRequired(q.m, "household", grants[q.who])
      [] q.op \in {"reenable", "suspend"} \/ (q.op = "decide" /\ q.answer = "Denied") ->
             Outstanding(q.m, Scope(q.who), Overlay(q))
      [] OTHER -> {}

(* mutant: the unit's advisory lock is not taken *)
LockUnitUnguarded(r) ==
    LET q == req[r]
    IN  /\ q.pc = "claimed"
        /\ q.op = "decide" => TouchesUnit(q)
        /\ req' = [req EXCEPT ![r].pc = "locked", ![r].row = units[q.who],
                              ![r].short = Consent(q)]
        /\ UNCHANGED <<plugin, catalog, risk, grants, units, drifted>>

(* lockHouseholdUnitScope, lockUserUnitScope and the reads under the lock. *)
LockUnit(r) ==
    LET q == req[r]
    IN  /\ q.pc = "claimed"
        /\ q.op = "decide" => TouchesUnit(q)
        /\ ~Locked(q.who)
        /\ req' = [req EXCEPT ![r].pc = "locked", ![r].row = units[q.who],
                              ![r].short = Consent(q)]
        /\ UNCHANGED <<plugin, catalog, risk, grants, units, drifted>>

(* suspendHouseholdUnit and suspendUserUnit, on the row q read. *)
Suspended(q) ==
    IF q.row.row /\ ~q.row.suspended /\ q.slug \in q.short
    THEN [q.row EXCEPT !.suspended = TRUE]
    ELSE q.row

(* The userPlugin upsert of a granted user decision. *)
Anchored(q) ==
    IF q.row.row
    THEN q.row
    ELSE [NoRow EXCEPT !.row = TRUE, !.enabled = TRUE,
                       !.suspended = (q.short # {})]

CommitDecision(r) ==
    LET q == req[r]
    IN  /\ q.op = "decide"
        /\ q.pc = IF TouchesUnit(q) THEN "locked" ELSE "claimed"
        /\ grants' = [grants EXCEPT ![q.who] = Overlay(q)]
        /\ units' = IF TouchesUnit(q)
                    THEN [units EXCEPT ![q.who] =
                             IF q.answer = "Denied" THEN Suspended(q)
                                                    ELSE Anchored(q)]
                    ELSE units
        /\ req' = [req EXCEPT ![r] = IF q.answer = "Granted" THEN Pass(q)
                                                             ELSE Idle]
        /\ UNCHANGED <<plugin, catalog, risk, drifted>>

(* maybeReenableSuspended..., maybeSuspend...: they judge by the manifest    *)
(* that is active when they claim the row.                                   *)
ClaimPass(r) ==
    /\ req[r].op \in {"reenable", "suspend"} /\ req[r].pc = "loaded"
    /\ plugin.state = "living"
    /\ req' = [req EXCEPT ![r].pc = "claimed", ![r].m = plugin.m]
    /\ UNCHANGED <<plugin, catalog, risk, grants, units, drifted>>

CommitPass(r) ==
    LET q == req[r]
    IN  /\ q.op \in {"reenable", "suspend"} /\ q.pc = "locked"
        /\ units' = [units EXCEPT ![q.who] =
               IF q.op = "suspend" THEN Suspended(q)
               ELSE IF q.row.row /\ q.short = {}
                    THEN [q.row EXCEPT !.suspended = FALSE]
                    ELSE q.row]
        /\ End(r)
        /\ UNCHANGED <<plugin, catalog, risk, grants, drifted>>

(* revokeForAuthorityLoss reads the granted decisions of a unit and deletes  *)
(* those that are still granted, waiting for the decisions that write them.  *)
Revoke(r, u) ==
    /\ \E s \in Slugs : grants[u][s].status = "Granted"
    /\ Begin(r, [Idle EXCEPT !.op = "revoke", !.pc = "loaded", !.who = u,
                             !.seed = {s \in Slugs : grants[u][s].status = "Granted"}])

StillGranted(u, rows) == {s \in rows : grants[u][s].status = "Granted"}

CommitRevoke(r) ==
    LET q == req[r]
    IN  /\ q.op = "revoke" /\ q.pc = "loaded"
        /\ \A s \in q.seed : ~Deciding(q.who, s)
        /\ grants' = [grants EXCEPT ![q.who] =
               [s \in Slugs |-> IF s \in StillGranted(q.who, q.seed)
                                THEN Pending ELSE @[s]]]
        /\ End(r)
        /\ UNCHANGED <<plugin, catalog, risk, units, drifted>>

-----------------------------------------------------------------------------
(* Enablement: PluginUnitLifecycleService.  A configuration of "" stands for *)
(* an enable call that carries none.                                         *)

EnableHousehold(r, u, c) ==
    /\ plugin.state = "living" /\ Surface[plugin.m] = "household"
    /\ c # "" => c \in Accepts[plugin.m]
    /\ Begin(r, Seen([Idle EXCEPT !.op = "enableHousehold", !.pc = "loaded",
                                  !.who = u, !.config = c]))

UpdateHouseholdConfig(r, u, c) ==
    /\ plugin.state = "living" /\ Surface[plugin.m] = "household"
    /\ c \in Accepts[plugin.m]
    /\ Begin(r, Seen([Idle EXCEPT !.op = "updateHouseholdConfig", !.pc = "loaded",
                                  !.who = u, !.config = c]))

DisableHousehold(r, u) ==
    /\ plugin.state = "living"
    /\ Begin(r, [Idle EXCEPT !.op = "disableHousehold", !.pc = "loaded", !.who = u])

SetUserEnabled(r, u, on) ==
    /\ plugin.state = "living"
    /\ Begin(r, [Idle EXCEPT !.op = "setUserEnabled", !.pc = "loaded", !.who = u,
                             !.answer = on])

UnitOps == {"enableHousehold", "updateHouseholdConfig", "disableHousehold",
            "setUserEnabled"}

(* openHouseholdUnit and openUserUnit, up to the advisory lock. *)
ClaimUnit(r) ==
    LET q == req[r]
    IN  /\ q.op \in UnitOps /\ q.pc = "loaded"
        /\ plugin.state = "living"
        /\ q.op \in {"enableHousehold", "updateHouseholdConfig"} =>
               Unmoved(q) /\ Surface[plugin.m] = "household"
        /\ req' = [req EXCEPT ![r].pc = "claimed"]
        /\ UNCHANGED <<plugin, catalog, risk, grants, units, drifted>>

(* configDormancyCleared *)
Configured(row) ==
    IF row.dormant = "NeedsConfiguration" THEN [row EXCEPT !.dormant = "none"] ELSE row

(* assertRetainedConfigSatisfiesGate, where enableHousehold applies it. *)
GateHolds(q) ==
    q.config = "" /\ (q.m \in NeedsConfig \/ q.row.dormant = "NeedsConfiguration") =>
        q.row.row /\ q.row.config \in Accepts[q.m]

(* mutant: a new row starts unsuspended *)
EnabledRowUnasked(q) ==
    LET given == IF q.config = "" THEN q.row.config ELSE q.config
    IN  [Configured(q.row) EXCEPT !.row = TRUE, !.enabled = TRUE, !.config = given]

EnabledRow(q) ==
    LET given == IF q.config = "" THEN q.row.config ELSE q.config
    IN  IF ~q.row.row
        THEN [NoRow EXCEPT !.row = TRUE, !.enabled = TRUE,
                           !.suspended = (q.short # {}), !.config = given]
        ELSE [Configured(q.row) EXCEPT !.enabled = TRUE, !.config = given]

(* mutant: a missing row is written to *)
RowAssumed(q) == q.op \in UnitOps

RowFound(q) == q.op # "enableHousehold" => q.row.row

CommitUnit(r) ==
    LET q == req[r]
        unchanged == q.op = "enableHousehold" /\ q.config = "" /\ q.row.row
                     /\ q.row.enabled /\ q.row.dormant = "none"
    IN  /\ q.op \in UnitOps /\ q.pc = "locked"
        /\ RowFound(q)
        /\ q.op = "enableHousehold" /\ ~unchanged => GateHolds(q)
        /\ units' = [units EXCEPT ![q.who] =
               CASE unchanged -> q.row
                 [] q.op = "enableHousehold" /\ ~unchanged -> EnabledRow(q)
                 [] q.op = "updateHouseholdConfig" ->
                        [Configured(q.row) EXCEPT !.config = q.config]
                 [] q.op = "disableHousehold" -> [q.row EXCEPT !.enabled = FALSE]
                 [] q.op = "setUserEnabled" ->
                        [q.row EXCEPT !.enabled = (q.answer = "on")]]
        /\ End(r)
        /\ UNCHANGED <<plugin, catalog, risk, grants, drifted>>

-----------------------------------------------------------------------------
(* Replacing the manifest: what a manifest change escalates                  *)
(* (compareForEscalations), and what it does to the rows.                    *)

New(m, n) == Requested(n) \ Requested(m)
Moved(m, n) ==
    {s \in Requested(m) \cap Requested(n) : Check[m][s].scope # Check[n][s].scope}
Promoted(m, n) ==
    {s \in (Requested(m) \cap Requested(n)) \ Moved(m, n) :
        Check[n][s].required /\ ~Check[m][s].required}

(* Granted decisions whose risk level no longer covers today's. *)
Risky(m, n) ==
    {<<Scope(h), s>> : h \in Holders, s \in Requested(n) \ Moved(m, n)} \cap
    {x \in Scopes \X Slugs : \E h \in Holders :
        /\ Scope(h) = x[1]
        /\ grants[h][x[2]].status = "Granted"
        /\ grants[h][x[2]].risk < RiskOf(n, x[2], risk)}

ServerGating(m, n, risky) ==
    \/ \E s \in New(m, n) \cup Moved(m, n) : Check[n][s].scope = "server"
    \/ \E s \in Slugs : <<"server", s>> \in risky
    \/ ~(Reach[n] \subseteq Reach[m])

(* mutant: only denials of newly requested permissions block *)
BlockedByNewDenial(n) ==
    {s \in Requires(n, "server") \ Requested(plugin.m) : grants[Server][s].status = "Denied"}

BlockedByDenial(n) ==
    {s \in Requires(n, "server") : grants[Server][s].status = "Denied"}

(* The permissions a unit of scope sc has to consent to again. *)
Reconsent(m, n, sc, risky) ==
    {s \in Asks(n, sc) : (s \in New(m, n) \cup Moved(m, n) /\ Check[n][s].required)
                         \/ s \in Promoted(m, n)}
    \cup {s \in Slugs : <<sc, s>> \in risky}

(* retainedServerConfig: a schema that does not compile resets, too. *)
Retained(n, c) == IF c \in Accepts[n] THEN c ELSE Empty

(* configConforms: a household's document passes a schema that does not      *)
(* compile.                                                                  *)
ConfigConforms(n, c) == n \in Unusable \/ c \in Accepts[n]

(* mutant: a document the new schema refuses goes on serving *)
ReconciledOrphans(n, u, row) ==
    CASE ~row.row \/ ScopeOf[u] = "user" -> row
      [] row.row /\ ScopeOf[u] = "household" /\ Surface[n] = "server" ->
             [row EXCEPT !.dormant = "ScopeOrphaned"]
      [] row.row /\ ScopeOf[u] = "household" /\ Surface[n] = "household" ->
             IF row.dormant # "ScopeOrphaned" \/ ~ConfigConforms(n, row.config)
             THEN row ELSE [row EXCEPT !.dormant = "none"]

(* reconcileHouseholdDormancy *)
Reconciled(n, u, row) ==
    CASE ~row.row \/ ScopeOf[u] = "user" -> row
      [] row.row /\ ScopeOf[u] = "household" /\ Surface[n] = "server" ->
             [row EXCEPT !.dormant = "ScopeOrphaned"]
      [] row.row /\ ScopeOf[u] = "household" /\ Surface[n] = "household" ->
             [row EXCEPT !.dormant =
                 IF @ = "NeedsConfiguration" \/ ~ConfigConforms(n, row.config)
                 THEN "NeedsConfiguration" ELSE "none"]

NoStaging == [id |-> 0, m |-> First]
StagingIds == {plugin.pending.id} \cup {req[r].staging : r \in Reqs}
Epochs == {plugin.epoch} \cup {req[r].epoch : r \in Reqs}

-----------------------------------------------------------------------------
(* Updates: PluginUpdateService. *)

Compared(q, n) ==
    [Seen(q) EXCEPT !.next = n, !.levels = risk, !.risky = Risky(plugin.m, n)]

(* stage, up to its write.  An update that escalates nothing the server      *)
(* consents to is activated at once.                                         *)
Stage(r, n) ==
    /\ plugin.state = "living" /\ plugin.pending = NoStaging
    /\ Number[n] # Number[plugin.m]
    /\ Begin(r, [Compared(Idle, n) EXCEPT !.op = "stage", !.pc = "loaded",
            !.answer = IF ServerGating(plugin.m, n, Risky(plugin.m, n))
                          \/ BlockedByDenial(n) # {}
                       THEN "pend" ELSE "activate"])

(* The guarded write of the staging, under a fresh id. *)
CommitStage(r) ==
    /\ req[r].op = "stage" /\ req[r].answer = "pend"
    /\ Sharing = {}
    /\ plugin.state = "living" /\ plugin.pending = NoStaging
    /\ plugin' = [plugin EXCEPT !.pending = [id |-> Fresh(StagingIds), m |-> req[r].next]]
    /\ End(r)
    /\ UNCHANGED <<catalog, risk, grants, units, drifted>>

(* An admin reads the staged update (describePending) and answers it. *)
Review(r, answer) ==
    /\ plugin.state = "living" /\ plugin.pending # NoStaging
    /\ Begin(r, [Idle EXCEPT !.op = answer, !.pc = "reviewed",
                             !.staging = plugin.pending.id,
                             !.reviewed = plugin.pending.m])

Reject(r) ==
    /\ req[r].op = "reject"
    /\ Sharing = {}
    /\ plugin.state = "living" /\ plugin.pending.id = req[r].staging
    /\ plugin' = [plugin EXCEPT !.pending = NoStaging]
    /\ End(r)
    /\ UNCHANGED <<catalog, risk, grants, units, drifted>>

(* mutant: an approval takes whatever is staged now *)
AnswersAnyStaging(q) == plugin.pending # NoStaging

(* The staging the approver saw is the one that is staged. *)
AnswersStaging(q) ==
    plugin.pending # NoStaging /\ plugin.pending.id = q.staging

(* approve, up to the activation: resolvePendingUpdate, the denials and      *)
(* serverChecksToSeed.                                                       *)
Approve(r) ==
    LET q == req[r]
        n == plugin.pending.m
    IN  /\ q.op = "approve" /\ q.pc = "reviewed"
        /\ plugin.state = "living" /\ AnswersStaging(q)
        /\ BlockedByDenial(n) = {}
        /\ req' = [req EXCEPT ![r] =
               [Compared(q, n) EXCEPT !.pc = "loaded",
                                      !.staging = plugin.pending.id, !.seed =
                   {s \in Asks(n, "server") : grants[Server][s] = Pending}]]
        /\ UNCHANGED <<plugin, catalog, risk, grants, units, drifted>>

(* The decisions an activation deletes: on what the new manifest no longer   *)
(* declares or requests, and of a scope that no longer owns them.            *)
Lapsed(m, n, h) ==
    (Declares[m] \ Declares[n]) \cup (Requested(m) \ Requested(n))
    \cup {s \in Moved(m, n) : Check[m][s].scope = Scope(h)}

ActivatedGrants(q, seeded) ==
    [h \in Holders |-> [s \in Slugs |->
        IF s \in Lapsed(q.m, q.next, h) THEN Pending
        ELSE IF h = Server /\ s \in seeded
             THEN Decision("Granted", RiskOf(q.next, s, q.levels))
             ELSE IF h = Server /\ <<"server", s>> \in q.risky
                  THEN [grants[h][s] EXCEPT !.risk = RiskOf(q.next, s, q.levels)]
                  ELSE grants[h][s]]]

(* suspensionCandidates *)
OwesConsent(q, g, u) ==
    \E s \in Reconsent(q.m, q.next, ScopeOf[u], q.risky) :
        g[u][s].status # "Granted" \/ g[u][s].risk < RiskOf(q.next, s, q.levels)

(* activateInTransaction *)
Activate(r) ==
    LET q == req[r]
        seeded == {s \in q.seed : grants[Server][s] = Pending}
        after == ActivatedGrants(q, seeded)
    IN  /\ \/ q.op = "stage" /\ q.answer = "activate"
           \/ q.op = "approve" /\ q.pc = "loaded"
        /\ Sharing = {}
        /\ plugin.state = "living" /\ plugin.pending.id = q.staging
        /\ BlockedByDenial(q.next) = {}
        \* the critical slugs re-entered are those still granted by this approval
        /\ \A s \in q.seed \ seeded : RiskOf(q.next, s, q.levels) < MaxRisk
        /\ (Declares[q.next] \ Declares[q.m]) \cap catalog = {}
        /\ \A s \in Slugs : <<"server", s>> \in q.risky => grants[Server][s] # Pending
        /\ plugin' = [plugin EXCEPT !.m = q.next, !.pending = NoStaging,
                                    !.config = Retained(q.next, @)]
        /\ catalog' = (catalog \ (Declares[q.m] \ Declares[q.next]))
                      \cup (Declares[q.next] \ Declares[q.m])
        /\ grants' = after
        /\ units' = [u \in Units |->
               Reconciled(q.next, u,
                   IF units[u].row /\ OwesConsent(q, after, u)
                   THEN [units[u] EXCEPT !.suspended = TRUE] ELSE units[u])]
        /\ drifted' = (drifted \/ q.m # plugin.m \/ q.epoch # plugin.epoch)
        /\ End(r)
        /\ UNCHANGED risk

-----------------------------------------------------------------------------
(* Install, uninstall and the server's own switch and configuration:         *)
(* PluginInstallerService and PluginLifecycleService.                        *)

Install(r, n) ==
    /\ plugin.state # "living"
    /\ Begin(r, [Idle EXCEPT !.op = "install", !.pc = "loaded", !.next = n,
                             !.levels = risk, !.answer = plugin.state,
                             !.config = plugin.config])

(* persist: a fresh row, or a tombstone cleared in place. *)
CommitInstall(r) ==
    LET q == req[r]
    IN  /\ q.op = "install"
        /\ Sharing = {}
        /\ plugin.state = q.answer
        /\ Declares[q.next] \cap catalog = {}
        /\ \A s \in Asks(q.next, "server") : grants[Server][s] = Pending
        /\ plugin' = [state |-> "living", m |-> q.next, epoch |-> Fresh(Epochs),
                      enabled |-> FALSE, config |-> Retained(q.next, q.config),
                      pending |-> NoStaging]
        /\ catalog' = catalog \cup Declares[q.next]
        /\ grants' = [grants EXCEPT ![Server] = [s \in Slugs |->
               IF s \in Asks(q.next, "server")
               THEN Decision("Granted", RiskOf(q.next, s, q.levels))
               ELSE @[s]]]
        /\ units' = [u \in Units |-> Reconciled(q.next, u, units[u])]
        /\ drifted' = FALSE
        /\ End(r)
        /\ UNCHANGED risk

Uninstall(r, purge) ==
    /\ plugin.state = "living"
    /\ Begin(r, [Idle EXCEPT !.op = "uninstall", !.pc = "loaded", !.answer = purge])

Forgotten == [h \in Holders |-> [s \in Slugs |-> Pending]]

CommitUninstall(r) ==
    /\ req[r].op = "uninstall"
    /\ Sharing = {}
    /\ plugin.state = "living"
    /\ plugin' = [plugin EXCEPT !.state = "tombstone", !.enabled = FALSE,
                                !.pending = NoStaging]
    /\ catalog' = {}
    /\ grants' = Forgotten
    /\ units' = IF req[r].answer = "purge" THEN [u \in Units |-> NoRow] ELSE units
    /\ End(r)
    /\ UNCHANGED <<risk, drifted>>

SetEnabled(r, on) ==
    /\ plugin.state = "living" /\ plugin.enabled # (on = "on")
    /\ Begin(r, [Idle EXCEPT !.op = "setEnabled", !.pc = "loaded", !.answer = on])

CommitSetEnabled(r) ==
    /\ req[r].op = "setEnabled"
    /\ Sharing = {}
    /\ plugin.state = "living" /\ plugin.enabled # (req[r].answer = "on")
    /\ plugin' = [plugin EXCEPT !.enabled = ~@]
    /\ End(r)
    /\ UNCHANGED <<catalog, risk, grants, units, drifted>>

UpdateConfig(r, c) ==
    /\ plugin.state = "living" /\ c \in Accepts[plugin.m]
    /\ Begin(r, Seen([Idle EXCEPT !.op = "updateConfig", !.pc = "loaded",
                                  !.config = c]))

CommitUpdateConfig(r) ==
    /\ req[r].op = "updateConfig"
    /\ Sharing = {}
    /\ Unmoved(req[r])
    /\ plugin' = [plugin EXCEPT !.config = req[r].config]
    /\ End(r)
    /\ UNCHANGED <<catalog, risk, grants, units, drifted>>

(* The catalog the deployment ships raises a core permission's risk level. *)
Reclassify(s) ==
    /\ "reclassify" \in Ops
    /\ \A m \in Manifests : s \notin Declares[m]
    /\ risk[s] < MaxRisk
    /\ risk' = [risk EXCEPT ![s] = @ + 1]
    /\ UNCHANGED <<plugin, catalog, grants, units, req, drifted>>

-----------------------------------------------------------------------------
Init ==
    /\ plugin \in [state : {Start}, m : {First}, epoch : {1},
                   enabled : {Start = "living"}, config : {Empty},
                   pending : {NoStaging}]
    /\ catalog = IF Start = "living" THEN Declares[First] ELSE {}
    /\ risk = [s \in Slugs |-> 0]
    /\ grants = [h \in Holders |-> [s \in Slugs |->
           IF Start = "living" /\ h = Server /\ s \in Asks(First, "server")
           THEN Decision("Granted", 0) ELSE Pending]]
    /\ units = [u \in Units |-> NoRow]
    /\ req = [r \in Reqs |-> Idle]
    /\ drifted = FALSE

Decisions(r) ==
    \/ \E h \in Holders, s \in Slugs, d \in {"Granted", "Denied"} : Decide(r, h, s, d)
    \/ ClaimDecision(r)
    \/ CommitDecision(r)
    \/ ClaimPass(r)
    \/ CommitPass(r)
    \/ \E u \in Units : Revoke(r, u)
    \/ CommitRevoke(r)

Enablement(r) ==
    \/ \E u \in Units, c \in Configs \cup {""} :
           ScopeOf[u] = "household" /\ EnableHousehold(r, u, c)
    \/ \E u \in Units, c \in Configs :
           ScopeOf[u] = "household" /\ UpdateHouseholdConfig(r, u, c)
    \/ \E u \in Units : ScopeOf[u] = "household" /\ DisableHousehold(r, u)
    \/ \E u \in Units, on \in {"on", "off"} :
           ScopeOf[u] = "user" /\ SetUserEnabled(r, u, on)
    \/ ClaimUnit(r)
    \/ LockUnit(r)
    \/ CommitUnit(r)

Updates(r) ==
    \/ \E n \in Manifests : Stage(r, n)
    \/ CommitStage(r)
    \/ \E answer \in {"approve", "reject"} : Review(r, answer)
    \/ Approve(r)
    \/ Activate(r)
    \/ Reject(r)

Administration(r) ==
    \/ \E n \in Manifests : Install(r, n)
    \/ CommitInstall(r)
    \/ \E purge \in {"purge", "keep"} : Uninstall(r, purge)
    \/ CommitUninstall(r)
    \/ \E on \in {"on", "off"} : SetEnabled(r, on)
    \/ CommitSetEnabled(r)
    \/ \E c \in Configs : UpdateConfig(r, c)
    \/ CommitUpdateConfig(r)

Next ==
    \/ \E r \in Reqs :
           Decisions(r) \/ Enablement(r) \/ Updates(r) \/ Administration(r) \/ Abort(r)
    \/ \E s \in Slugs : Reclassify(s)

Spec == Init /\ [][Next]_vars

-----------------------------------------------------------------------------
(* Properties. *)

TypeOK ==
    /\ plugin \in [state : {"never", "living", "tombstone"}, m : Manifests,
                   epoch : Nat, enabled : BOOLEAN, config : Configs,
                   pending : [id : Nat, m : Manifests]]
    /\ catalog \subseteq Slugs
    /\ risk \in [Slugs -> 0 .. MaxRisk]
    /\ \A h \in Holders, s \in Slugs :
           grants[h][s].status \in {"Pending", "Granted", "Denied"}
    /\ units \in [Units -> Rows \cup {NoRow}]
    /\ DOMAIN req = Reqs
    /\ drifted \in BOOLEAN

(* A unit that denied a permission the active manifest requires of it is     *)
(* suspended, whichever came first: the denial, the row or the manifest.     *)
(* Activations compared with a manifest that was no longer active are set    *)
(* aside; DeniedNeverServed is about those.                                  *)
DenialsSuspend ==
    plugin.state = "living" /\ ~drifted =>
        \A u \in Units :
            units[u].row /\ DeniedRequired(plugin.m, ScopeOf[u], grants[u]) # {} =>
                units[u].suspended

(* Every permission the active manifest asks of the server is decided, and   *)
(* none it requires is denied: an activation never commits over a refusal.   *)
ServerConsentHolds ==
    plugin.state = "living" =>
        /\ \A s \in Requires(plugin.m, "server") : grants[Server][s].status # "Denied"
        /\ ~drifted => \A s \in Asks(plugin.m, "server") : grants[Server][s] # Pending

(* Consent is on record only for what the active manifest asks of that       *)
(* holder; an uninstalled plugin keeps no decision, no declared permission,  *)
(* no staged update and no switch that is on.                                *)
ConsentIsAskedFor ==
    /\ plugin.state = "living" /\ ~drifted =>
           /\ catalog = Declares[plugin.m]
           /\ \A h \in Holders, s \in Slugs :
                  grants[h][s] # Pending => s \in Asks(plugin.m, Scope(h))
    /\ plugin.state # "living" =>
           /\ ~plugin.enabled /\ plugin.pending = NoStaging /\ catalog = {}
           /\ \A h \in Holders, s \in Slugs : grants[h][s] = Pending

(* A household row serves only under a manifest that has a household         *)
(* surface, and then with a document the manifest's schema accepts (or the   *)
(* empty one, where the manifest needs none), unless that schema does not    *)
(* compile and nothing can be said; what such a manifest let through does    *)
(* not outlast it.  The server's own document keeps to the schema too.       *)
ServedConfigConforms ==
    plugin.state = "living" =>
        /\ plugin.config \in Accepts[plugin.m] \cup {Empty}
        /\ \A u \in Units : units[u].row /\ ScopeOf[u] = "household" =>
               /\ Surface[plugin.m] = "server" <=> units[u].dormant = "ScopeOrphaned"
               /\ units[u].dormant = "none" =>
                      \/ units[u].config \in Accepts[plugin.m]
                      \/ units[u].config = Empty /\ plugin.m \notin NeedsConfig
                      \/ plugin.m \in Unusable

(* A suspension is lifted only by a pass that judged the unit by the         *)
(* manifest now active, and never over a denial of what that one requires,   *)
(* however late the acceptance that lifts it runs.                           *)
ClearedOnlyWithConsent ==
    [][\A u \in Units :
          units[u].suspended /\ units'[u].row /\ ~units'[u].suspended =>
              /\ DeniedRequired(plugin.m, ScopeOf[u], grants[u]) = {}
              /\ \E r \in Reqs : req[r].op = "reenable" /\ req[r].who = u
                                 /\ req[r].m = plugin.m]_vars

(* An approval activates the very manifest its approver reviewed. *)
ApprovedIsReviewed ==
    [][\A r \in Reqs :
          req[r].op = "approve" /\ plugin'.m # plugin.m /\ req'[r] = Idle =>
              plugin'.m = req[r].reviewed]_vars

(* No unit serves while it denies a permission the active manifest requires  *)
(* of it.                                                                    *)
DeniedNeverServed ==
    \A u \in Units :
        Serves(u) => DeniedRequired(plugin.m, ScopeOf[u], grants[u]) = {}
=============================================================================
