--------------------------- MODULE PermissionCache ---------------------------
(***************************************************************************)
(* The shared cache of permission graphs, read and filled by every process  *)
(* and invalidated by whoever changes a user's grants.                      *)
(*                                                                          *)
(* A reader takes the cached graph and its key's version token in one round *)
(* trip, serves the graph if it carries that token, and otherwise loads it  *)
(* from the database and caches it under the token it read before loading.  *)
(* A writer commits first and evicts afterwards: a fresh token and a delete *)
(* for each user, side by side, in batches.  The api's boot flush removes   *)
(* every graph and then every token.  Any cache call may fail, any process  *)
(* may die, and anything cached may expire between two steps.               *)
(*                                                                          *)
(* Sources: libs/common/permissions/src/lib/permissions.service.ts,         *)
(* libs/common/bootstrap/src/lib/redis-key-flush.ts and                     *)
(* libs/database/src/lib/catalog/catalog-reconciler.ts.                     *)
(***************************************************************************)
EXTENDS Integers, FiniteSets

CONSTANTS
    Users,
    Readers,        \* the requests that may read graphs at one time
    Writers,        \* the mutations that may be under way at one time
    Tokens,         \* the version tokens, random UUIDs
    NoToken,        \* what a key that holds no token reads as
    BatchSize,      \* EVICTION_BATCH_SIZE
    Start,          \* the version of a user's grants at the beginning
    MaxVersion,     \* bound: how often the grants of a user change
    Crashing        \* whether a writer's process may die

ASSUME CacheAssumption ==
    /\ Users # {}
    /\ NoToken \notin Tokens
    /\ BatchSize \in Nat \ {0}
    /\ Start \in Nat /\ MaxVersion \in Nat /\ Start <= MaxVersion
    /\ Crashing \in BOOLEAN

VARIABLES
    db,         \* the version of each user's grants the database holds
    token,      \* the version token of each user's key
    entry,      \* each user's cached graph and the token it is tagged with
    stage,      \* where each reader stands
    who,        \* whose graph it reads
    tag,        \* the token it will cache under
    graph,      \* the version it read
    todo,       \* users each writer has not begun to evict
    calls,      \* the cache calls of its current batch still to settle
    flush,      \* what the boot flush is removing
    toFlush,    \* the users whose key it has not reached
    lost,       \* users whose last eviction failed or died
    floor,      \* history: the version each user's last eviction saw committed
    since,      \* history: each reader's floor when it began
    begun       \* history: the committed version when it began

storeVars == <<token, entry>>
readVars == <<stage, who, tag, graph, since, begun>>
writeVars == <<todo, calls>>
flushVars == <<flush, toFlush>>
faultVars == <<lost, floor>>
vars == <<db, token, entry, stage, who, tag, graph, todo, calls, flush,
          toFlush, lost, floor, since, begun>>

Stages == {"idle", "tokenless", "load", "store", "served"}

(* A user's grants, as versions in the order they commit: no row yet, the    *)
(* row better-auth inserts, and from then on a graph that holds a role.      *)
Missing == 0
Bare == 1

(* graph.roles.length > 0: what getUserRoleGraph lets be cached. *)
Cacheable(v) == v > Bare

Versions == 0 .. MaxVersion

Entries == [version : Tokens, value : {v \in Versions : Cacheable(v)}]
NoEntry == [version |-> NoToken, value |-> Missing]

SomeUser == CHOOSE u \in Users : TRUE

Init ==
    /\ db = [u \in Users |-> Start]
    /\ token = [u \in Users |-> NoToken]
    /\ entry = [u \in Users |-> NoEntry]
    /\ stage = [r \in Readers |-> "idle"]
    /\ who = [r \in Readers |-> SomeUser]
    /\ tag = [r \in Readers |-> NoToken]
    /\ graph = [r \in Readers |-> Missing]
    /\ todo = [w \in Writers |-> {}]
    /\ calls = [w \in Writers |-> {}]
    /\ flush = "none"
    /\ toFlush = {}
    /\ lost = {}
    /\ floor = [u \in Users |-> Missing]
    /\ since = [r \in Readers |-> Missing]
    /\ begun = [r \in Readers |-> Missing]

-----------------------------------------------------------------------------
(* randomUUID: a token nothing in the system carries for this user.  Tokens  *)
(* are only ever compared with ones still carried, so a token nobody carries *)
(* any more is as good as new.                                               *)
FreshTokens(u) ==
    Tokens \ ({token[u], entry[u].version} \cup {tag[r] : r \in Readers})

(* A cached graph is served only while it carries its key's token. *)
Hit(u) == token[u] # NoToken /\ entry[u].version = token[u]

(* getOrLoad's mget: one MGET of the graph and the token. *)
Begin(r, u) ==
    /\ stage[r] = "idle"
    /\ who' = [who EXCEPT ![r] = u]
    /\ since' = [since EXCEPT ![r] = floor[u]]
    /\ begun' = [begun EXCEPT ![r] = db[u]]
    /\ UNCHANGED <<db, storeVars, writeVars, flushVars, faultVars>>

ServeHit(r, u) ==
    /\ Begin(r, u)
    /\ Hit(u)
    /\ graph' = [graph EXCEPT ![r] = entry[u].value]
    /\ stage' = [stage EXCEPT ![r] = "served"]
    /\ UNCHANGED tag

Miss(r, u) ==
    /\ Begin(r, u)
    /\ ~ Hit(u) /\ token[u] # NoToken
    /\ tag' = [tag EXCEPT ![r] = token[u]]
    /\ stage' = [stage EXCEPT ![r] = "load"]
    /\ UNCHANGED graph

(* No token, or a failed read, which the store reports as nothing cached. *)
MissTokenless(r, u) ==
    /\ Begin(r, u)
    /\ stage' = [stage EXCEPT ![r] = "tokenless"]
    /\ UNCHANGED <<tag, graph>>

(* mutant: a key that holds no token is loaded and cached as holding none *)
SkipFirstToken(r) ==
    /\ stage[r] = "tokenless"
    /\ stage' = [stage EXCEPT ![r] = "load"]
    /\ UNCHANGED <<db, storeVars, who, tag, graph, since, begun, writeVars,
                   flushVars, faultVars>>

(* The token is written before the load; a write that fails quietly leaves   *)
(* the reader with a token the key does not hold.                            *)
WriteFirstToken(r) ==
    /\ stage[r] = "tokenless"
    /\ \E t \in FreshTokens(who[r]) :
           /\ tag' = [tag EXCEPT ![r] = t]
           /\ \/ token' = [token EXCEPT ![who[r]] = t]
              \/ UNCHANGED token
    /\ stage' = [stage EXCEPT ![r] = "load"]
    /\ UNCHANGED <<db, entry, who, graph, since, begun, writeVars, flushVars,
                   faultVars>>

(* mutant: a graph without a global role is cached like any other *)
AfterLoadAlways(v) == IF v = Missing THEN "served" ELSE "store"

AfterLoad(v) == IF Cacheable(v) THEN "store" ELSE "served"

(* The loader's read.  Its relations are read one query after another, so    *)
(* the version is that of the oldest part.                                   *)
Load(r) ==
    /\ stage[r] = "load"
    /\ graph' = [graph EXCEPT ![r] = db[who[r]]]
    /\ stage' = [stage EXCEPT ![r] = AfterLoad(db[who[r]])]
    /\ UNCHANGED <<db, storeVars, who, tag, since, begun, writeVars, flushVars,
                   faultVars>>

(* cache.set, which may land at any later time or, failing quietly, never. *)
Store(r) ==
    /\ stage[r] = "store"
    /\ \/ entry' = [entry EXCEPT ![who[r]] =
                        [version |-> tag[r], value |-> graph[r]]]
       \/ UNCHANGED entry
    /\ stage' = [stage EXCEPT ![r] = "served"]
    /\ UNCHANGED <<db, token, who, tag, graph, since, begun, writeVars,
                   flushVars, faultVars>>

(* The request answers, or its process dies before it does. *)
Finish(r) ==
    /\ stage[r] # "idle"
    /\ stage' = [stage EXCEPT ![r] = "idle"]
    /\ who' = [who EXCEPT ![r] = SomeUser]
    /\ tag' = [tag EXCEPT ![r] = NoToken]
    /\ graph' = [graph EXCEPT ![r] = Missing]
    /\ since' = [since EXCEPT ![r] = Missing]
    /\ begun' = [begun EXCEPT ![r] = Missing]
    /\ UNCHANGED <<db, storeVars, writeVars, flushVars, faultVars>>

-----------------------------------------------------------------------------
Idle(w) == todo[w] = {} /\ calls[w] = {}

Changed(users) == [u \in Users |-> IF u \in users THEN db[u] + 1 ELSE db[u]]

(* better-auth inserts the user's row; there is nothing to evict. *)
SignUp(u) ==
    /\ db[u] = Missing /\ Bare <= MaxVersion
    /\ db' = Changed({u})
    /\ UNCHANGED <<storeVars, readVars, writeVars, flushVars, faultVars>>

(* A mutation of these users' grants commits: it owes each an eviction. *)
Commit(w, users) ==
    /\ Idle(w)
    /\ users # {}
    /\ \A u \in users : db[u] # Missing /\ db[u] < MaxVersion
    /\ db' = Changed(users)
    /\ todo' = [todo EXCEPT ![w] = users]
    /\ UNCHANGED <<storeVars, readVars, calls, flushVars, faultVars>>

(* invalidateUsers: the next slice, its evictions started together. *)
StartBatch(w, batch) ==
    /\ calls[w] = {}
    /\ batch # {} /\ batch \subseteq todo[w]
    /\ Cardinality(batch) <= BatchSize
    /\ Cardinality(batch) < BatchSize => batch = todo[w]
    /\ calls' = [calls EXCEPT ![w] = batch \X {"token", "entry"}]
    /\ todo' = [todo EXCEPT ![w] = @ \ batch]
    /\ UNCHANGED <<db, storeVars, readVars, flushVars, faultVars>>

Settle(w, u, kind) ==
    /\ <<u, kind>> \in calls[w]
    /\ calls' = [calls EXCEPT ![w] = @ \ {<<u, kind>>}]
    /\ UNCHANGED <<db, readVars, todo, flushVars>>

(* The user's key has lost the token everything cached or loading carries. *)
Evicted(u) ==
    /\ floor' = [floor EXCEPT ![u] = db[u]]
    /\ lost' = lost \ {u}

(* mutant: an eviction only deletes the cached graph *)
KeepToken(w, u) ==
    /\ Settle(w, u, "token")
    /\ Evicted(u)
    /\ UNCHANGED storeVars

ReplaceToken(w, u) ==
    /\ Settle(w, u, "token")
    /\ \E t \in FreshTokens(u) : token' = [token EXCEPT ![u] = t]
    /\ Evicted(u)
    /\ UNCHANGED entry

(* A failed write of the token.  createPermissionsCache builds the store     *)
(* without throwOnErrors, so the call resolves and evict goes on.            *)
FailToken(w, u) ==
    /\ Settle(w, u, "token")
    /\ lost' = lost \cup {u}
    /\ UNCHANGED <<storeVars, floor>>

(* The delete lands, or fails and leaves the graph to its token. *)
DeleteEntry(w, u) ==
    /\ Settle(w, u, "entry")
    /\ \/ entry' = [entry EXCEPT ![u] = NoEntry]
       \/ UNCHANGED entry
    /\ UNCHANGED <<token, faultVars>>

OwedBy(w) == todo[w] \cup {u \in Users : <<u, "token">> \in calls[w]}

(* The writer's process dies with its evictions unsent. *)
Die(w) ==
    /\ Crashing /\ ~ Idle(w)
    /\ lost' = lost \cup OwedBy(w)
    /\ todo' = [todo EXCEPT ![w] = {}]
    /\ calls' = [calls EXCEPT ![w] = {}]
    /\ UNCHANGED <<db, storeVars, readVars, flushVars, floor>>

-----------------------------------------------------------------------------
(* The catalog reconcile at boot commits a change to every user's graph and  *)
(* hands over to the flush, pattern by pattern, key by key.                  *)
Reconcile ==
    /\ flush = "none"
    /\ \A u \in Users : db[u] # Missing /\ db[u] < MaxVersion
    /\ db' = Changed(Users)
    /\ flush' = "graphs"
    /\ toFlush' = Users
    /\ UNCHANGED <<storeVars, readVars, writeVars, faultVars>>

FlushGraph(u) ==
    /\ flush = "graphs" /\ u \in toFlush
    /\ entry' = [entry EXCEPT ![u] = NoEntry]
    /\ toFlush' = toFlush \ {u}
    /\ UNCHANGED <<db, token, readVars, writeVars, flush, faultVars>>

FlushTokensNext ==
    /\ flush = "graphs" /\ toFlush = {}
    /\ flush' = "tokens"
    /\ toFlush' = Users
    /\ UNCHANGED <<db, storeVars, readVars, writeVars, faultVars>>

(* mutant: the flush's patterns name the graphs and not their tokens *)
FlushNoToken(u) ==
    /\ flush = "tokens" /\ u \in toFlush
    /\ toFlush' = toFlush \ {u}
    /\ Evicted(u)
    /\ UNCHANGED <<db, storeVars, readVars, writeVars, flush>>

FlushToken(u) ==
    /\ flush = "tokens" /\ u \in toFlush
    /\ token' = [token EXCEPT ![u] = NoToken]
    /\ toFlush' = toFlush \ {u}
    /\ Evicted(u)
    /\ UNCHANGED <<db, entry, readVars, writeVars, flush>>

FlushDone ==
    /\ flush = "tokens" /\ toFlush = {}
    /\ flush' = "none"
    /\ UNCHANGED <<db, storeVars, readVars, writeVars, toFlush, faultVars>>

OwedByFlush ==
    CASE flush = "graphs" -> Users
      [] flush = "tokens" -> toFlush
      [] OTHER -> {}

(* A SCAN or an UNLINK fails: CacheFlushError ends the flush where it is.    *)
FlushFails ==
    /\ flush # "none"
    /\ lost' = lost \cup OwedByFlush
    /\ flush' = "none"
    /\ toFlush' = {}
    /\ UNCHANGED <<db, storeVars, readVars, writeVars, floor>>

(* mutant: graphs are cached without a time to live *)
NeverExpires(u) == FALSE

(* What is cached expires, and the token may go before the graph. *)
ExpireEntry(u) ==
    /\ entry[u] # NoEntry
    /\ entry' = [entry EXCEPT ![u] = NoEntry]
    /\ UNCHANGED <<db, token, readVars, writeVars, flushVars, faultVars>>

ExpireToken(u) ==
    /\ token[u] # NoToken
    /\ token' = [token EXCEPT ![u] = NoToken]
    /\ UNCHANGED <<db, entry, readVars, writeVars, flushVars, faultVars>>

ReaderStep(r) ==
    \/ WriteFirstToken(r)
    \/ Load(r)
    \/ Store(r)
    \/ Finish(r)

WriterStep(w) ==
    \/ \E batch \in SUBSET Users : StartBatch(w, batch)
    \/ \E u \in Users : \/ ReplaceToken(w, u)
                        \/ FailToken(w, u)
                        \/ DeleteEntry(w, u)
    \/ Die(w)

FlushStep ==
    \/ \E u \in Users : FlushGraph(u) \/ FlushToken(u)
    \/ FlushTokensNext
    \/ FlushDone
    \/ FlushFails

Next ==
    \/ \E r \in Readers : \/ \E u \in Users : \/ ServeHit(r, u)
                                              \/ Miss(r, u)
                                              \/ MissTokenless(r, u)
                          \/ ReaderStep(r)
    \/ \E w \in Writers : \/ \E users \in SUBSET Users : Commit(w, users)
                          \/ WriterStep(w)
    \/ Reconcile \/ FlushStep
    \/ \E u \in Users : SignUp(u) \/ ExpireEntry(u) \/ ExpireToken(u)

Spec == Init /\ [][Next]_vars

(* A promise that is awaited settles or its process dies, and the store      *)
(* expires what it was given a time to live for.  No eviction has to succeed. *)
Fairness ==
    /\ \A r \in Readers : WF_vars(ReaderStep(r))
    /\ \A w \in Writers : WF_vars(WriterStep(w))
    /\ WF_vars(FlushStep)
    /\ \A u \in Users : WF_vars(ExpireEntry(u))

FairSpec == Spec /\ Fairness

-----------------------------------------------------------------------------
(* Nothing is cached without a token of its own or for a user without a      *)
(* role: getOrLoad skips the write rather than tag a graph with no token.    *)
TypeOK ==
    /\ db \in [Users -> Versions]
    /\ token \in [Users -> Tokens \cup {NoToken}]
    /\ entry \in [Users -> Entries \cup {NoEntry}]
    /\ stage \in [Readers -> Stages]
    /\ who \in [Readers -> Users]
    /\ tag \in [Readers -> Tokens \cup {NoToken}]
    /\ graph \in [Readers -> Versions]
    /\ todo \in [Writers -> SUBSET Users]
    /\ calls \in [Writers -> SUBSET (Users \X {"token", "entry"})]
    /\ flush \in {"none", "graphs", "tokens"}
    /\ toFlush \in SUBSET Users
    /\ lost \in SUBSET Users
    /\ floor \in [Users -> Versions]
    /\ since \in [Readers -> Versions]
    /\ begun \in [Readers -> Versions]

(* A request that begins after a change was evicted is never answered from   *)
(* before that change, whichever load was under way when the eviction landed *)
(* and however late it caches what it read (#588).                           *)
ReadsKeepUp ==
    \A r \in Readers : stage[r] = "served" => graph[r] >= since[r]

Excused(u) ==
    \/ u \in lost \cup OwedByFlush
    \/ \E w \in Writers : u \in OwedBy(w)

StaleHit(u) == Hit(u) /\ entry[u].value < db[u]

(* A graph older than the database's is served only while its eviction is    *)
(* still owed, or was lost to a failed call or a dead process.               *)
StaleIsExcused == \A u \in Users : StaleHit(u) => Excused(u)

(* Nobody is refused for a graph read before their provisioning, once it has *)
(* committed, even if its eviction never runs (#490).                        *)
ProvisionedAreServed ==
    \A r \in Readers :
        stage[r] = "served" /\ Cacheable(begun[r]) => Cacheable(graph[r])

(* What the version tokens buy: whatever carries its key's current token, in *)
(* the cache or in a reader's hands, was read after the last eviction, and   *)
(* unless another is owed or was lost it is what the database holds.         *)
UpToDate(u, v) ==
    /\ v >= floor[u]
    /\ ~ Excused(u) => v >= db[u]

EntryKeepsUp(u) ==
    /\ floor[u] <= db[u]
    /\ entry[u].value <= db[u]
    /\ Hit(u) => UpToDate(u, entry[u].value)

ReaderKeepsUp(r) ==
    /\ stage[r] # "idle" => begun[r] <= db[who[r]] /\ since[r] <= floor[who[r]]
    /\ stage[r] \in {"load", "store"} => tag[r] \in Tokens
    /\ stage[r] = "store" => /\ Cacheable(graph[r])
                             /\ graph[r] >= since[r]
                             /\ graph[r] <= db[who[r]]
                             /\ tag[r] = token[who[r]] => UpToDate(who[r], graph[r])

CacheInv ==
    /\ TypeOK
    /\ \A u \in Users : EntryKeepsUp(u)
    /\ \A r \in Readers : ReaderKeepsUp(r)
    /\ ReadsKeepUp
    /\ ProvisionedAreServed

(* Once the changes stop, stale graphs stop being served for good, even when *)
(* evictions failed: the time to live is the backstop evictUserGraph names.  *)
StalenessEnds == <>[](\A u \in Users : ~ StaleHit(u))

=============================================================================
