# Verification of the board games backend

TLA+ models of the parts of this NestJS/Prisma backend in which concurrent
requests, background jobs and a shared cache meet, with TLC runs on small
instances and TLAPS proofs for instances of every size. Paths are relative to
the repository root (`libs/...`, `apps/...`).

Contents: [inventory](#1-inventory) - [modules](#2-modules-and-the-code) -
[runs](#3-runs) - [fairness](#4-fairness) - [proofs](#5-proofs) -
[limits](#6-what-is-not-shown) - [findings](#7-findings) - [plan](#8-plan)

## 1. Inventory

All processes (the api, its workers, the gateway) share one Postgres database,
used at READ COMMITTED through Prisma, and one Redis, used as a cache and by
BullMQ. No process keeps domain state of its own between requests, so
components interact through rows and their locks, advisory locks, unique
indexes, cache keys, and in-process events emitted after a commit.

| component | state | operations | what is hard | correct when |
| --- | --- | --- | --- | --- |
| household roster (`libs/api/household/.../member`) | `household_members` x `household_roles` | role change, transfer, admit, remove, leave | checks made before the household row's lock is granted; owner rows located in a stale snapshot; two admissions under a share lock | the household keeps an owner, nobody joins twice or beyond the cap, nobody acts on authority lost while waiting |
| household bans (`.../ban`) | `household_bans` | ban, lift, change of reason | a ban removes the member, closes or withholds invites and must exclude a concurrent admission | nobody is a member and banned |
| household lifecycle (`household.service.ts`) | `households.deleted_at`, recovery grants, settings | create, update, soft delete, restore | the owner condition is evaluated before the row is waited for; create is retried by clients | a deleted household is frozen, its owners can undo their own delete |
| invites (`.../invite`, `libs/common/invites`) | `invites` rows | create, accept, decline, withdraw, revoke, approve, expire | every transition races every other; detached expiry stamps; bulk closings in departures, bans and deletes; deadlocks on rows | an invite ends once and is announced once, and only a standing offer admits |
| expiry sweep (`libs/common/invites/.../expiry-sweep`) | none | runs on an interval, in batches | rivals settle part of a batch | a run that ends leaves nothing overdue that it found overdue |
| permission graphs (`libs/common/permissions`) | cached graphs and version tokens in Redis | load, evict, boot flush | a load overtaken by an eviction; failing cache calls; death after a commit | a request that begins after an eviction is not answered from before it |
| permission catalog (`libs/database/.../catalog`) | roles, permissions and their conditions | reconcile at boot | changes all abilities at once, then flushes the graphs | the conditions grant what the services rely on |
| quota (`libs/common/quota`) | limits, counters or counts | consume, release | counts of rows that concurrent transactions add to | a hard cap is never passed |
| household game shares and pool | share policy, requests, exclusions | request, approve, withdraw | approval beside departures and deletes | nothing is shared by a non-member |
| plugin runtime (`libs/plugin/runtime`) | the plugin row with its manifest and staged update, declared permissions, consent decisions, rows that enable it for a household or a user | install, stage, approve, reject, activate, uninstall, decide, revoke, enable, configure | every request judges by a manifest read before its transaction; passes that follow a decision in a transaction of their own; a risk level raised underneath | no unit runs over a denial of what the active manifest requires, no consent outlives what asked for it, an approval activates what was reviewed |
| events (`libs/api/event`) | attendees, game lists, dates, nominations with votes, the lineup, the event row | answer, list, nominate, vote, resolve, approve, add directly, date, confirm, cancel, archive, delete | four kinds of row locks taken in turn; settlements beside departures, list changes and cancelled dates | each game still ahead has someone who brings it, an outcome counts every vote and is final, no two requests wait for each other |
| gateway drivers (`libs/gateway/driver`) | per process: the cached driver, the connect and the interview under way, failure counts; shared: the row and its capabilities | connect, interview, stale check, fail, disable, config event, shutdown, restart | callbacks at every await; a connect overtaken by an event; two processes writing one row | no driver leaks or is served closed, an announced change is what was written |
| game search and import | BullMQ jobs | fan out, merge, upsert | retries of what was done, partial answers | an import is applied once |
| webhooks | subscriptions, deliveries | dispatch, retry, disable | retries that race a disable | no delivery after a disable |
| bootstrap | an advisory lock | migrate, reconcile | several processes boot at once | one process migrates, the others wait |
| throttler, media/storage, friendships, auth, users, feedback, notifications, settings, i18n, telemetry | rows or counters | mostly single-row writes | few races of their own | see `PROJECT.json` |

`PROJECT.json` lists every component with its status, and under `hazards` each
place, at its line, where a test would hardly reach the interleaving that
matters, with the property that covers it.

## 2. Modules and the code

    HouseholdRules              roster data, catalog conditions
      |-- HouseholdSpec         abstract: each operation at one instant
      |     `-- HouseholdInvites         invites + sweep over HouseholdSpec
      |           |-- MCHouseholdInvites
      |           `-- HouseholdInvitesProofs
      `-- HouseholdRoster       statements, locks, cache evictions
            |   (H == INSTANCE HouseholdSpec, implements H!AbsSpec)
            |-- MCHouseholdRoster
            `-- HouseholdRosterProofs
                  `-- HouseholdRefinementProofs
    PermissionCache             graphs, tokens, evictions, flush
      |-- MCPermissionCache
      `-- PermissionCacheProofs
    PluginConsent               manifests, decisions, units, updates
      |-- MCPluginConsent
      `-- PluginConsentProofs
    VoteRules                   voting policies (pure)
      `-- EventLineup           attendance, dates, nominations, lineup
            |-- MCEventLineup
            `-- EventLineupProofs
    GatewayRegistry             drivers, interviews, config events
      |-- MCGatewayRegistry
      `-- GatewayRegistryProofs

Operators named "mutant: ..." in their comment are not part of a model: each is
a plausible mistake in the definition that follows it, and replacing that
definition by it must break a property (`mutants` in `PROJECT.json`).

### HouseholdRules
A roster maps a `household_members` id to the role its row holds, to `unborn`
before its insert and to `gone` after its delete: ids are never reused. The
catalog's conditions (`permission.catalog.ts`) become predicates on a roster:
`MayManage` (owners reach every row, admins the member and guest rows, staff
all), `MayBan`, `MayDelete`. `ServerOwners` are the staff whose role carries
`manage:all`: they ban, lift, invite, revoke and approve in a household without a
seat in it. `RulesAssumption` asks for a finite set of ids, a
starting roster with an owner and one row per user, as
`HouseholdService.create` founds it. Several owners are allowed: nothing in the
schema forbids them and the services are written for them.

### HouseholdSpec
What callers are promised: nine operations, each one atomic step with its guard
on the state of that instant. `SoftDelete` and `Restore` do not promise that
the caller still holds the authority when they take effect (see findings).

### HouseholdRoster
Requests as processes. `pc` is the statement a request is about to run:

| stage | code |
| --- | --- |
| `idle` -> `waiting` (`Begin`) | existence probe, scoped read of the abilities, outside the lock (`BeforeLock`) |
| `waiting` -> `locked` (`LockHousehold`) | the household row locked `FOR NO KEY UPDATE`, `FOR SHARE` for an admission (`household-share-lock.ts`), re-reading `deleted_at` |
| `locked` -> `owners` (`LocateOwners`) | `lockHouseholdOwnerRows`: the rows the statement's snapshot finds |
| `owners` -> `decide` (`LockOwnerRows`) | the same statement once its rows are free: rows that no longer qualify are dropped, none is added |
| `decide` -> `writing` (`Decide`) | re-checks under the lock: authority, last-owner guard, target's role |
| `locked` -> `quota` -> `counting` -> `writing` | an admission: ban and membership checks, `pg_advisory_xact_lock` of the cap, the count |
| `writing` -> `committed` | the writes with their commit; the unique index refuses a second row |
| `committed` -> `idle` (`Evict`) | eviction of the cached graphs of everyone the commit affected |

`Refuse` is every early return and exception (the transaction rolls back).
`Crash` is a process that dies at any stage: a transaction rolls back, a
committed request loses its evictions (`lost`), until `ExpireGraph`, the cache's
time to live. `stale` holds the users whose cached graph predates their
standing. The eviction is one step here; PermissionCache has its details.

### HouseholdInvites
Extends HouseholdSpec: roster operations happen in the commit of the
transaction that also closes, withholds or releases invites, which
HouseholdRoster's refinement justifies. Each request again has a program
counter. A transition (accept, decline, withdraw, revoke, approve) reads its
row (`ReadInvite`) and updates it with the status it read in the `WHERE`
(`UpdateRow`, `Matches`). Bulk statements (`expireRivalsWithin`,
`closeOutstanding...`, the sweep's batches) locate rows (`FindRows`), then visit
them one at a time in any order, waiting for rows others hold; this is where
Postgres may find a deadlock (`DeadlockVictim`). A bulk closing runs one
statement per outstanding status, as the code does (`find1/lock1` ...), and a
ban or a lift flips the `withheld` marks in a further one. `PersistExpiry` is
the detached statement an expired accept leaves behind. `Announce` emits the
events after the commit. `Lapse` is the clock passing `expires_at`.

An invite is withheld for either of two reasons. A ban withholds what is open to
the banned user's address, and a create by address reads it (`veil`). The
invitee gate (`invitee-gate.ts`: a block between sender and invitee, or the
invitee's preference) refuses a create by id, and stores one by address withheld
(`kept`); a lift asks it again of each row it found and leaves those it still
withholds (`KeptBack`). `gate` is the set of pairs it keeps apart, and
`ChangeGate` switches it at any time: neither friendships nor preferences are
ordered with the household's lock, and no invite moves for them. An invite
therefore follows the gate's answer when last asked, at its create or at a lift,
which the history field `gated` records.

A server owner's `manage:all` passes every question `CouldSend`, `MayRevoke` and
`MayApprove` ask, for the sender as `userAbilityWithin` asks it too: such an
invite needs no seat of its sender, and a departure does not end its standing,
though `revokeOutstandingOfUserWithin` closes what was out at that time.

Abstractions: addresses are fixed per user; the gate's three reads are one
instant's answer; the server's invitee policy and the cap on the day's invites
are refusals that may come at any create or approve (`RefuseByLimit`), since
neither leaves anything else behind; tokens are left out, so an accept names
the invite; server ownership is fixed; `SetPolicy` takes no lock, since a
settings-only update does not touch the household row (a superset of what the
code can do); a crash between commit and announcement is not modelled.

### PermissionCache
`db[u]` counts the commits that changed user u's grants: 0 is no row, 1 the bare
row that better-auth inserts, from 2 on a graph with a role. A cached graph is
the version it was read at, tagged with a token. A reader follows `getOrLoad`:
one `mget` of graph and token (`ServeHit`, `Miss`, or `MissTokenless` when no
token is there or the call failed), its first token written (`WriteFirstToken`),
the load, the tagged `set`, the answer. A writer commits and then evicts in
batches: token and delete run side by side, each may fail. `Reconcile` and the
`Flush...` actions are the boot flush: all graphs, then all tokens, key by key.
`floor`, `since` and `begun` are history variables for the properties.

Abstractions: Prisma assembles a graph from several queries, and `graph` is the
version of the oldest part. A new token is any that nothing carries: tokens are
random UUIDs and are only compared with ones still carried, so reusing a
forgotten one is indistinguishable from a new one. API key scope graphs go
through the same `getOrLoad` and are evicted by the flush alone.

### PluginConsent
One plugin. `plugin` is its row (`state` is `never`, `living` or `tombstone`;
`m` the active manifest; `pending` the staged update), `catalog` the permissions
it declares, `grants` each holder's decision on each permission, `units` the
rows that enable it for a household or a user, `risk` the core catalog's risk
levels.

| stage | code |
| --- | --- |
| `idle` -> `loaded` (`Decide`, `EnableHousehold`, `Stage`, ...) | the plugin is read and the request judged by that manifest, outside the transaction |
| `loaded` -> `claimed` (`ClaimDecision`, `ClaimUnit`, `ClaimPass`) | the row locked `FOR SHARE` and compared with what was read (`classifyManifestMove`) |
| `claimed` -> `locked` (`LockUnit`) | the unit's advisory lock, then the reads under it |
| `locked` -> `idle` or the pass (`CommitDecision`, `CommitUnit`, `CommitPass`) | the writes and the commit; a decision is followed by the pass that suspends or re-enables its unit |
| one step, while nobody holds the share | what locks the row exclusively: `CommitStage`, `Activate`, `Reject`, `CommitInstall`, `CommitUninstall`, `CommitSetEnabled`, `CommitUpdateConfig` |

`Compared`, `Reconsent`, `Lapsed` and `Reconciled` are the escalation comparison
and what an activation does with it. A schema may not compile (`Unusable`): every
write through it is refused and the server's own document is reset, but an
activation leaves or revives a household's row, as `configConforms` says yes on
the error (`ConfigConforms`); `ServedConfigConforms` excepts exactly that. `Abort` is a refusal, an error or a death
at any stage. `drifted` is a history variable: an activation replaced a
manifest other than the one it had compared with (finding 2).

Abstractions: the load of the plugin row and of the grants is one read; a
decision is identified by its permission's slug, not its row (a superset); the
version column of a grant only decides whether a repeated decision is written
again, and is left open; `revokeForAuthorityLoss` takes no unit lock, as in the
code (nothing calls it in production yet). Left out: permissions retired from
the core catalog, the lock against a household's deletion, manifest validation
and static analysis, the re-entered text of critical permissions, retries after
a deadlock, the administrators' authority, domain events.

### VoteRules and EventLineup
`VoteRules` is `vote-resolver.ts`: quorum and threshold of each policy, as
operators. Percentages are rounded up exactly; the code rounds in floating
point, which differs for a few (28% of 25); no property depends on the rounding. As in the code, a unanimous vote
passes with nobody eligible and no quorum.

In `EventLineup` a request first reads without a lock (`Load`: one action per
service method), then takes its row locks in the order the code takes them
(`Lock`, `Locks`), reading each row as it locks it (`Checks`), and with the last
of them what its write depends on; `Commit` makes its writes visible
(`WrittenDates`, `WrittenPerson`, `WrittenNoms`, `Added`, `Dropped`). It may be
refused or die between any two steps (`Abort`). `Tick` is the clock that starts
a date.

Abstractions: a start of 0 is "unset" and a date ends when it starts; the lineup
is a set; votes are kept in the nomination. Left out: availability votes,
updates of descriptive fields, the creation's replay, new attendees and guests,
the voting deadline, capacity.

### GatewayRegistry
One DataGateway and the processes that route to it. What lies between two
awaits of a process is one step. A connect, its driver, the driver's stale check
and its interview are one record (`conn`): no driver has two of any of these.
`client`, `connecting` and `inFlight` are the registry's maps, `outbox` and
`inbox` the config events committed and those published, `failures` and `disabling` the
counting of failures and the automatic disable. The invalidation counter is a
mark on the connects under way (`stale`): has it moved since.

Abstractions: `connectionChanged` only makes a stale check certain, and is left
open; a `created` event precedes `Init`, and `deleted` is handled as `disabled`,
as in the code; writing a capability change and announcing it is one step; the
two shutdown hooks (`onModuleDestroy`, `onApplicationShutdown`) and the wait for
disposals are one step, and `ChangesAreAnnounced` says nothing of a process that
dies after the write and before the event; the admins' connect
and disconnect calls are not tied to the update or delete they follow, and a
failed connect frees its slot before its automatic disable ends (supersets); a
failed publication loses its event. In-process registration and
`reconnect-requested` have no caller and are left out, as are vocabularies,
coverage, and the payloads of calls.

## 3. Runs

Passing runs check deadlock too; nothing in these systems may stop for good.

| run | configuration | properties | shows |
| --- | --- | --- | --- |
| `household` | all nine operations, two owners, a second row of cy, a member cap, staff, 2 requests | `TypeOK` `OwnerKept` `BannedAreOut` `CapHeld` `RecoveryGrantsFit` `EveryChangeEvicts` `AuthorityHolds` `ImplementsHousehold` | co-owners leaving, removing, banning, transferring and deleting at once never orphan the household; nobody joins while banned or beyond the cap; each request takes effect at one instant of HouseholdSpec |
| `progress` | fair, with processes that die | `EveryRequestEnds` | no request waits forever on the three kinds of lock |
| `undo` (violation) | admit, transfer, delete | `OwnersCanUndo` | finding 1 |
| `invite_lifecycle` | rival invites by id from an owner and a member, and one from a server owner without a seat; create, accept, decline, approve, role changes | `TypeOK` `OnlyStandingInvitesAdmit` | an accept asks the sender's standing again, and admission and settlement come together |
| `invite_bans` | a member invites by address, with and without a block between the two, and a server owner without a seat by id; create, accept, revoke, leave, bans of the invitee, lifts, sweeps in batches of two | `SendersAreMembers` `WithheldWhileBanned` `AnnouncedOnce` | what a ban or the gate withholds stays withheld and nothing else does; bulk closings and guarded updates against late expiry stamps, deadlock victims included |
| `invite_sweep` | a fair sweep in batches of one against delete, removal, approve, withdraw, create | `NoInviteIntoDeleted` `SweepDrains` `OverdueSettles` | the drain condition, the delete's closings, and that no overdue invite keeps its place forever |
| `cache` | a reader, writers, the flush, sign-up; two users in one batch; fair | `TypeOK` `ReadsKeepUp` `StaleIsExcused` `ProvisionedAreServed` `StalenessEnds` | no late fill undoes an eviction, whatever fails or expires, and the time to live ends every stale answer |
| `plugin_updates` | a household, a user, an own and a core permission, five manifests, one with an unusable schema, from never installed | `TypeOK` `DenialsSuspend` `ServerConsentHolds` `ConsentIsAskedFor` `ServedConfigConforms` `ClearedOnlyWithConsent` `ApprovedIsReviewed` | decisions and their passes against installs, staged and immediate updates, revocations, a raised risk, uninstalls |
| `plugin_drift` (violation) | one household, immediate updates, decisions | `DeniedNeverServed` | finding 2 |
| `event_lineup` | two people, one game, one nomination, two dates, every operation | `TypeOK` `SomebodyBringsIt` `PausedWhileOut` `NoWaitCycle` `OnlyWonGames` `CancelledIsOff` `OutcomesAreFinal` | a supplier leaves and returns while their game is nominated, voted on, settled or added, and dates and the event change |
| `gateway` | a coordinator with two drivers, a worker with one, two configurations | `TypeOK` `DriversAccountedFor` `AsksThroughOpenDrivers` `ChangesAreAnnounced` | connects, interviews, failures, disables, events, shutdowns and restarts of two processes |
| `gateway_stale` (violation) | a lazy connect and an update | `StaleDriversDropped` | finding 3 |

Bounds, and why they are enough for the questions asked:

- Two requests (`Reqs`): the hazards here are pairs, one request acting on what
  another has changed. Every operation is paired with every other of its run,
  except where a constraint named below keeps two apart.
  The safety properties are proved for any number.
- Three users, three or four rows of a household: owner, co-owner or member,
  newcomer. A second row of cy lets her be admitted twice at once and come back
  after a removal. The cap puts the last free place within reach of two
  admissions.
- Two invites to one person are the smallest set with rivals. `invite_lifecycle`
  has a third, the server owner's, which role changes leave standing; it is
  sent alone, declines come without role changes, and `FewDemotions` names the
  few roles each member moves between. `Batch` 1 makes a
  sweep run take several batches, the case its drain condition is about; with
  `Batch` 2, in `invite_bans`, two statements can meet in a deadlock. A victim
  may be chosen again and again, so `OverdueSettles` is not claimed there.
- `MaxVersion` 3 allows sign-up, provisioning and one more change; `Tokens` has
  one more than can be carried at once (a fifth adds no state). The constraint
  of `cache` bounds which graph is read, not how often anything fails.
- `MCPluginConsent`'s five manifests make a permission required, optional,
  moved to another scope and withdrawn, a configuration needed or refused, and a
  schema unusable.
  `OneThing` splits the behaviours in those about consent to updates (two updates
  meet while no unit has anything on record) and those about configuration
  through installs; an activation that drifted ends a
  behaviour, `plugin_drift` is about what follows. Of the marks that tell
  installations apart one is kept, as they are only compared.
- `MCEventLineup`'s `OneThing` follows a game on the lineup (`OneGame`), a vote
  (`OneVote`), or the event's own life (`NoGame`); a majority policy with a quorum
  of half is exercised. The theorems cover every mode and policy, `Fixed`
  scheduling and `HostOnly` included.
- `MCGatewayRegistry`'s `OneThing` keeps to one process's races, or to two
  processes sharing the row. `FailureThreshold` 1 puts a disable within reach of
  each failure.
- Symmetry: requests, readers, tokens and drivers of one process are
  interchangeable; no fair run uses symmetry.

## 4. Fairness

- `HouseholdRoster`: weak fairness of each request's own steps (an awaited
  statement returns), strong fairness of a lock's grant: Postgres queues
  waiters, so a lock that becomes free again and again is granted.
  The grant of the household row is strongly fair as such (`HouseholdRowComes`).
- `HouseholdInvites`: the same, and weak fairness of the sweep's start, which
  an interval fires.
- `PermissionCache`: awaited calls settle or their process dies; Redis expires
  what was given a time to live. No eviction has to succeed, and no user has to
  do anything.

Beginning a request is never fair. `PluginConsent`, `EventLineup` and
`GatewayRegistry` state safety only, and assume no fairness.

## 5. Proofs

`HouseholdRosterProofs` (assumptions `RulesAssumption`, `RosterAssumption`). The
owner's safety does not follow from the state alone: a request that has counted
another owner must still be right when it writes. The inductive invariant
`RosterInv` adds what the household row's lock buys:

- `LocksExclude`: an exclusive holder is alone;
- `LockSpansTransaction`: a request holds its lock exactly from the grant to
  the end of its transaction, in the mode of its operation;
- `ReadsStayTrue`: owner rows read under the lock are all the owners there are,
  and every decision made (`MayStart`, `Allowed`) still holds when writing.

The proof has a lemma per action. The two cases that carry it: a commit happens
only under an exclusive lock, so nobody else is inside a transaction whose
reads it could falsify; an admission commits under a share lock, but changes
neither an owner nor a ban. From `Invariance` follow `TypeCorrect`,
`OwnerAlwaysKept`, `OwnerLocksComplete`, `MembersAreDistinct`, `BansHold`, and
the action properties `AuthorityNeverStale` and `OwnershipOnlyMoves` (finite
cardinalities of the owner rows).

`PermissionCacheProofs` (assumption `CacheAssumption`). `CacheInv` says that
whatever carries its key's current token, in the cache or in a reader's hands,
was read after the last eviction, and is what the database holds unless an
eviction is owed or was lost. An eviction keeps it by replacing the token with
one nobody carries; a load keeps it because its tag was read before the
database was; an expired or flushed token keeps it because no token never
matches. From `CacheInvariance` follow `CacheTypeCorrect`, `ReadsAlwaysKeepUp`,
`StalenessExcused` and `ProvisioningHolds`.

`HouseholdRefinementProofs` (the same assumptions as the roster's). `ServiceInv`
adds to `RosterInv` what stays true of a request (`Steady`): the household is
live, or deleted for a restore, for as long as its row is locked; the owners a
delete read are still the owners when it writes; the quota's advisory lock is
held from the count to the commit, by one admission at a time, so the place it
counted is still free; and evictions are owed to everyone whose standing a
commit changed. `CapNeverPassed`, `RecoveryGrantsAlwaysFit` and `ChangesAlwaysEvict` follow.
`RequestsImplementHousehold` has a lemma per writing action: under `ServiceInv`
the write's guard is that of one HouseholdSpec operation on the state of its
instant, and its effect is that operation's; every other action leaves the
abstract variables alone. `RulesAgree` carries the rules across the INSTANCE.

`HouseholdInvitesProofs` (assumption `InvitesAssumption`; invite ids are finite,
as every table is). `InvitesInv` says of each request what it may rely on at its
stage (`RequestFits`), that locks on the household and on invite rows exclude
each other (`HouseholdExclusion`, `RowExclusion`), and that each end is
announced or owed by exactly one request (`Told`). The step lemmas rest on two
tables of what a commit does (`RowEffect`, `RosterEffect`), and on four facts
about what it leaves alone for the others: the rows they hold (`HandsKept`), the
household as a sharer read it (`SharedKept`), every open row for whoever holds
the household exclusively (`AloneKept`), and what a sweep still owes
(`DueKept`). `ScanFits`: a bulk closing under the exclusive lock misses no row.
`SweepFits`: a batch all of whose reads came back short misses nothing due, by
the cardinality of a finite subset. `KeptFits`, part of what a request may rely
on, says what the gate's answers in its hands are about: the invite of a create, or
rows to the lifted user's address. With it, and as under the exclusive lock every
withheld row to that address is released or kept, a lift leaves withheld exactly
what the gate kept (`CommitWithheld`).

`EventLineupProofs` (assumption `EventAssumption`). In `LineupInv`, held row
locks exclude each other as their strengths say (`Exclusion`), and what a
request found under the locks it holds is still so (`Fact`). A commit keeps the
others' facts because it changes only what its own holdings allow (`Effects`).
`LockOrdersAgree` needs no more than the climb: attendees and list entries
before the event, the event before its dates, dates before nominations.

`GatewayRegistryProofs` (assumption `GatewayAssumption`). `RegistryInv` says of
each driver what its stage means (`DriverSound`): open from its answered ping
until it is let go, cached exactly when its stage says so, and every question of
it either gone or of an open driver that holds its process's interview slot.
Each action changes few drivers, and the lemmas on `Blank`, `LetGo` and the
slots say which.

`PluginConsentProofs` (assumption `PluginAssumption`: what the constants are,
that requests are finitely many, so a fresh id exists, and that no manifest asks
for another's own permission without declaring it, which manifest validation
(`libs/plugin/manifest/src/lib/manifest-validator.ts`) sees to). `ConsentInv` says of each request what it was given (`Given`), what the
share of the plugin row keeps true from its claim on, that it judges by the
active manifest (`Claimed`), what the unit's advisory lock keeps true, the row and
the denials it read (`Under`), and what an approval reviewed and will seed
(`Approving`); and that unit locks exclude each other. With these the four state
properties are inductive. A commit under a unit's lock writes that unit alone,
and a revocation only deletes grants, so what others read stays so
(`OthersUnder`); what holds the plugin row exclusively meets no claim
(`ExclusiveStep`). The activation carries the argument: a denial that survives it
was of something the replaced manifest asked in the same scope, so it was
required before and the unit is suspended, or it was promoted and is on the
re-consent list. That needs the comparison to be with the manifest replaced,
which is what `drifted` records (finding 2). `SuspensionLiftedByConsent` and
`ApprovalActivatesReviewed` follow step by step from the few actions that write
units or replace the manifest.

TLC and the proofs use the same definitions; the assumptions are evaluated by
every run of the modules that state them. The safety properties of all passing
runs are theorems; 47 results are listed in `PROJECT.json`.

## 6. What is not shown

Weaker than they may look: `EveryChangeEvicts` is checked by `household` without
processes that die; a death between commit and eviction is in `progress` and in
the theorem `ChangesAlwaysEvict`, where it counts as lost until the time to live.
`NoWaitCycle` is about two requests waiting for each other; a longer cycle is
excluded by the climb its proof rests on, but is not stated.

Only model-checked, on the instances above: liveness (`EveryRequestEnds`,
`OverdueSettles`, `StalenessEnds`), which is out of the prover's reach. That
the three findings' steps happen is TLC's to show as well. `VoteRules` is used
by the proofs as it stands: no theorem says what a policy's count should be.

Not modelled in the modelled components: listings and other reads, formatting
and translation of errors, descriptive fields, a ban's reason, notifications,
the rendering of a permission graph into CASL rules, plugin grant snapshots,
event/system/campaign invites, quota resources other than the member cap, and
what section 2 names per module. The remaining components are in the plan or are
single-row writes with no protocol of their own; `PROJECT.json` says which, and
why.

Three hazards have no property: two dates added at once under `Fixed` scheduling
(nothing relies on there being one), the floating point of percentages, and the
replay of a retried create, which is not modelled yet.

Outside the repository and modelled from its use: Postgres row and advisory
locks at READ COMMITTED (a statement that waits re-evaluates its condition on
the row it waited for only if that row changed, and never finds a new row),
unique indexes, Redis commands, and the event emitter.

## 7. Findings

1. `undo`: `deleteHousehold` evaluates the owner condition in its UPDATE's
   snapshot and then waits for the row. A transfer locks that row without
   changing it, so the condition is not evaluated again: a former owner's delete
   goes through, and as the actor is no longer an owner, no recovery grant is
   written. The method's comment says only staff deletes open no window.
2. `plugin_drift`: an update with nothing for the server to consent to is
   activated at once, by the comparison with the manifest its `stage` loaded.
   The activation's claim asks only about the pending columns, null before and
   after, so a rival activation in between goes unnoticed: a household denies
   what version 2 made optional, version 3 (compared with 1) finds nothing
   promoted, and the household goes on serving under a denial of what is now
   required.
3. `gateway_stale`: a connect captures the invalidation counter after its caller
   has read the options. An update handled in between moved the counter before
   it was captured, and the driver of the old options is cached and served.

`findings` in `PROJECT.json` quotes the lines.

## 8. Plan

Done: roster (rules, abstract specification, detailed specification, refinement),
invites and sweep, permission cache, plugin consent, event lineup, gateway
registry, each with its proofs.

Next, in order of what would hurt most if wrong:

1. Idempotent creates (`createOrReplay`) and the quota library in full.
2. Household game shares over HouseholdSpec.
3. Bootstrap's advisory lock; game import and webhooks: BullMQ retries,
   automatic disabling.
4. Throttler, media and its sweep, friendships.

Proofs to come: what the counting policies of `VoteRules` decide, and the proofs
of the modules above as they are written.
