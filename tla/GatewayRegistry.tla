--------------------------- MODULE GatewayRegistry ---------------------------
(***************************************************************************)
(* One DataGateway as the processes that route to it see it: its row in the *)
(* database, the drivers each process builds, caches and disposes, the      *)
(* interviews that store its answers on the row, and the config events that *)
(* tell the processes the row changed.                                      *)
(*                                                                          *)
(* Each process runs one thread: what lies between two awaits is one step,  *)
(* and events, answers and other callers come in at every await.  A connect *)
(* is followed from the read of the connection options, which its caller    *)
(* does, through the ping and the first interview to the cache.  A connect, *)
(* its driver, the driver's stale check and the interview asked through it  *)
(* are one record: no driver has two of any of these.  The invalidation     *)
(* counter that a connect captures and compares is a mark on the connects   *)
(* under way: whether it has moved since.                                   *)
(*                                                                          *)
(* Sources: libs/gateway/driver/runtime/src/lib, gateway-registry.service,  *)
(* gateway-interview.service, gateway-registry.bootstrap.service,           *)
(* gateway-interview.scheduler, gateway-config-events.service; its callers  *)
(* in libs/api/data-gateway and apps/gateway-coordinator.                   *)
(***************************************************************************)
EXTENDS Integers, Sequences, FiniteSets

CONSTANTS
    Procs,              \* processes that host the registry
    Coordinator,        \* the one that takes the admins' calls
    Drivers,            \* drivers a process may have at one time
    HostOf,             \* whose each of them is
    None,               \* no driver
    Configs,            \* connection configurations
    Answers,            \* lists of capabilities a DataGateway may declare
    Undeclared,         \* the empty list, before the first interview
    FailureThreshold,   \* FAILURE_THRESHOLD
    StoreAttempts,      \* STORE_ATTEMPTS
    MaxInbox,           \* bound: config events on their way to a process
    Ops                 \* what this instance exercises

ASSUME GatewayAssumption ==
    /\ Coordinator \in Procs
    /\ HostOf \in [Drivers -> Procs]
    /\ None \notin Drivers
    /\ Undeclared \in Answers
    /\ FailureThreshold \in Nat \ {0}
    /\ StoreAttempts \in Nat \ {0}
    /\ MaxInbox \in Nat \ {0}

VARIABLES
    row,        \* the data_gateways row
    conn,       \* each driver, with its connect, stale check and interview
    client,     \* the driver each process caches
    connecting, \* the lazy connect whose callers share it
    inFlight,   \* the driver whose interview callers would join
    failures,   \* consecutive failures counted
    disabling,  \* how far an automatic disable has come
    down,       \* whether the process is shutting down
    outbox,     \* config events committed and not yet published
    inbox       \* config events published and not yet handled

memory == <<conn, client, connecting, inFlight>>
vars == <<row, memory, failures, disabling, down, outbox, inbox>>

-----------------------------------------------------------------------------
(* Rows and drivers. *)

Usable == row.enabled /\ ~row.deleted

NoStore == [caps |-> Undeclared, first |-> FALSE]
Stored == [caps |-> row.caps, first |-> row.first]

NoInterview == [stage |-> "none", gone |-> FALSE, before |-> NoStore,
                answer |-> Undeclared, tries |-> 0]
NoCheck == [stage |-> "none", gone |-> FALSE]

(* A driver not built, or disposed and no longer asked through. *)
Blank == [stage |-> "none", lazy |-> FALSE, open |-> FALSE, stale |-> FALSE,
          config |-> None, first |-> FALSE, on |-> None, passed |-> FALSE,
          check |-> NoCheck, interview |-> NoInterview]

Unread == {"reading", "loaded"}
Building == {"pinging", "lookup", "looked", "interviewing", "interviewed"}

Mine(p) == {d \in Drivers : HostOf[d] = p}
Free(d) == conn[d] = Blank /\ \A e \in Drivers : conn[e].on # d

Event(type, config) == [type |-> type, config |-> config]

-----------------------------------------------------------------------------
(* Letting go of drivers. *)

(* abandon, on a check or an interview that may be under way. *)
Abandoned(task) == IF task.stage = "none" THEN task ELSE [task EXCEPT !.gone = TRUE]

(* mutant: only the interview is abandoned, not the stale check. *)
DisposedOnly(c, d) ==
    [c EXCEPT ![d] = [Blank EXCEPT !.check = c[d].check,
                                   !.interview = Abandoned(c[d].interview)]]

(* disposeDriver: drivers c, without d. *)
Disposed(c, d) ==
    [c EXCEPT ![d] = [Blank EXCEPT !.check = Abandoned(c[d].check),
                                   !.interview = Abandoned(c[d].interview)]]

(* disconnect: drivers c, without the one p caches. *)
Disconnected(c, p) == IF client[p] = None THEN c ELSE Disposed(c, client[p])

Without(slot, p, d) == IF slot[p] = d THEN [slot EXCEPT ![p] = None] ELSE slot

(* bumpConnectGeneration: every connect of p past its capture is invalid. *)
Bumped(c, p) ==
    [d \in Drivers |->
        IF HostOf[d] # p THEN c[d]
        ELSE [c[d] EXCEPT !.stale = @ \/ c[d].stage \in Building,
                          !.check = Abandoned(@), !.interview = Abandoned(@)]]

(* The end of a connect, for those who wait on a lazy one. *)
Finish(d) ==
    connecting' = IF conn[d].lazy THEN [connecting EXCEPT ![HostOf[d]] = None]
                                  ELSE connecting

(* reportFailure: the failures of one window add up. *)
ReportFailure(p) ==
    /\ \/ failures' = [failures EXCEPT ![p] = IF @ < FailureThreshold THEN @ + 1 ELSE @]
       \/ failures' = [failures EXCEPT ![p] = 1]
    /\ disabling' = IF failures'[p] = FailureThreshold /\ disabling[p] = "none"
                    THEN [disabling EXCEPT ![p] = "due"] ELSE disabling

-----------------------------------------------------------------------------
(* Connecting. *)

(* An admin's connect call, whose options were read with the row. *)
ConnectGateway(d) ==
    /\ "connect" \in Ops /\ HostOf[d] = Coordinator
    /\ Free(d) /\ Usable
    /\ conn' = [conn EXCEPT ![d] = [Blank EXCEPT !.stage = "loaded", !.config = row.config]]
    /\ UNCHANGED <<row, client, connecting, inFlight, failures, disabling,
                   down, outbox, inbox>>

(* ensureConnected, for whoever reaches a DataGateway that is not cached. *)
EnsureConnected(d) ==
    LET p == HostOf[d]
    IN  /\ Free(d)
        /\ client[p] = None /\ connecting[p] = None
        /\ conn' = [conn EXCEPT ![d] = [Blank EXCEPT !.stage = "reading", !.lazy = TRUE]]
        /\ connecting' = [connecting EXCEPT ![p] = d]
        /\ UNCHANGED <<row, client, inFlight, failures, disabling, down,
                       outbox, inbox>>

(* The read of connectFromDb. *)
ReadOptions(d) ==
    /\ conn[d].stage = "reading"
    /\ \/ /\ Usable
          /\ conn' = [conn EXCEPT ![d].stage = "loaded", ![d].config = row.config]
          /\ UNCHANGED connecting
       \/ /\ ~Usable
          /\ conn' = [conn EXCEPT ![d] = Blank]
          /\ Finish(d)
    /\ UNCHANGED <<row, client, inFlight, failures, disabling, down,
                   outbox, inbox>>

(* connect, up to its ping: what is cached goes, and the counter is captured. *)
Connect(d) ==
    LET p == HostOf[d]
    IN  /\ conn[d].stage = "loaded"
        /\ conn' = [Disconnected(conn, p) EXCEPT ![d].stage = "pinging"]
        /\ client' = [client EXCEPT ![p] = None]
        /\ inFlight' = Without(inFlight, p, client[p])
        /\ UNCHANGED <<row, connecting, failures, disabling, down, outbox,
                       inbox>>

ConnectFails(d) ==
    /\ conn[d].stage = "pinging"
    /\ conn' = [conn EXCEPT ![d] = Blank]
    /\ Finish(d)
    /\ ReportFailure(HostOf[d])
    /\ UNCHANGED <<row, client, inFlight, down, outbox, inbox>>

(* discardIfInvalidated *)
Invalidated(d) == conn[d].stale \/ down[HostOf[d]]

(* The ping answers, and the first interview looks at the row. *)
ConnectAnswers(d) ==
    /\ conn[d].stage = "pinging"
    /\ \/ /\ Invalidated(d)
          /\ conn' = Disposed(conn, d)
          /\ Finish(d)
       \/ /\ ~Invalidated(d)
          /\ conn' = [conn EXCEPT ![d].stage = "lookup", ![d].open = TRUE]
          /\ UNCHANGED connecting
    /\ UNCHANGED <<row, client, inFlight, failures, disabling, down,
                   outbox, inbox>>

LookUp(d) ==
    /\ conn[d].stage = "lookup"
    /\ conn' = [conn EXCEPT ![d].stage = "looked", ![d].first = row.first]
    /\ UNCHANGED <<row, client, connecting, inFlight, failures, disabling,
                   down, outbox, inbox>>

(* startOrJoin: drivers c and the slot, once d's interview is asked for. *)
Started(c, p, d) ==
    IF inFlight[p] # None THEN c ELSE [c EXCEPT ![d].interview.stage = "reading"]
Slotted(p, d) == IF inFlight[p] # None THEN inFlight ELSE [inFlight EXCEPT ![p] = d]

(* interviewUnlessDone, for a DataGateway never interviewed. *)
FirstInterview(d) ==
    LET p == HostOf[d]
    IN  /\ conn[d].stage = "looked" /\ ~conn[d].first
        /\ \/ /\ conn[d].stale
              /\ conn' = Disposed(conn, d)
              /\ Finish(d)
              /\ UNCHANGED inFlight
           \/ /\ ~conn[d].stale
              /\ conn' = [Started(conn, p, d) EXCEPT ![d].stage = "interviewing",
                                                     ![d].on = Slotted(p, d)[p]]
              /\ inFlight' = Slotted(p, d)
              /\ UNCHANGED connecting
        /\ UNCHANGED <<row, client, failures, disabling, down, outbox,
                       inbox>>

(* mutant: the driver that loses the slot is forgotten. *)
ReplacedQuietly(c, d) == c

(* The driver that loses the slot to d is disposed. *)
Replaced(c, d) ==
    IF client[HostOf[d]] \in {None, d} THEN c ELSE Disposed(c, client[HostOf[d]])

(* The end of interviewAndCache.  A driver that was not interviewed now is   *)
(* checked in the background.                                                *)
Cache(d, now) ==
    LET p == HostOf[d]
        check == IF now THEN NoCheck
                 ELSE [NoCheck EXCEPT !.stage = "reading"]
    IN  /\ conn' = [Replaced(conn, d) EXCEPT ![d] =
               [Blank EXCEPT !.stage = "cached", !.open = TRUE,
                             !.config = conn[d].config, !.check = check,
                             !.interview = conn[d].interview]]
        /\ client' = [client EXCEPT ![p] = d]
        /\ inFlight' = IF client[p] = None THEN inFlight
                       ELSE Without(inFlight, p, client[p])
        /\ failures' = [failures EXCEPT ![p] = 0]

Discard(d) ==
    /\ conn' = Disposed(conn, d)
    /\ inFlight' = Without(inFlight, HostOf[d], d)
    /\ UNCHANGED <<client, failures>>

(* Whether the wait for the first interview is over, well. *)
Done(d) ==
    \/ conn[d].stage = "looked" /\ conn[d].first
    \/ conn[d].stage = "interviewed" /\ conn[d].passed

CacheOrDiscard(d) ==
    /\ Done(d)
    /\ IF Invalidated(d) THEN Discard(d) ELSE Cache(d, ~conn[d].first)
    /\ Finish(d)
    /\ UNCHANGED <<row, disabling, down, outbox, inbox>>

InterviewFailed(d) ==
    /\ conn[d].stage = "interviewed" /\ ~conn[d].passed
    /\ Discard(d)
    /\ Finish(d)
    /\ UNCHANGED <<row, disabling, down, outbox, inbox>>

-----------------------------------------------------------------------------
(* Interviews: conductInterview and store, through driver d. *)

At(d, stage) == conn[d].interview.stage = stage

(* The interview through d ends, and those who wait for it go on. *)
Ends(d, passed) ==
    /\ conn' = [e \in Drivers |->
           LET ended == IF e = d THEN [conn[e] EXCEPT !.interview = NoInterview]
                        ELSE conn[e]
           IN  IF conn[e].on = d
               THEN [ended EXCEPT !.stage = "interviewed", !.on = None, !.passed = passed]
               ELSE ended]
    /\ inFlight' = Without(inFlight, HostOf[d], d)

(* The first read of the row. *)
ReadRow(d) ==
    /\ At(d, "reading")
    /\ \/ /\ Usable
          /\ conn' = [conn EXCEPT ![d].interview.stage = "asking",
                                  ![d].interview.before = Stored]
          /\ UNCHANGED inFlight
       \/ ~Usable /\ Ends(d, FALSE)
    /\ UNCHANGED <<row, client, connecting, failures, disabling, down,
                   outbox, inbox>>

(* Ping and Describe: an answer, a failure the row records, or the end of an *)
(* abandoned interview.                                                      *)
Ask(d) ==
    /\ At(d, "asking")
    /\ \/ /\ ~conn[d].interview.gone
          /\ \E answer \in Answers :
                 conn' = [conn EXCEPT ![d].interview.stage = "storing",
                                      ![d].interview.answer = answer]
          /\ UNCHANGED inFlight
       \/ Ends(d, FALSE)
    /\ UNCHANGED <<row, client, connecting, failures, disabling, down,
                   outbox, inbox>>

(* mutant: the write does not ask what the row holds. *)
StillHoldsAnything(before) == Usable

(* The condition of storeOver's update. *)
StillHolds(before) ==
    /\ Usable
    /\ row.caps = before.caps
    /\ ~before.first => ~row.first

(* The next try of the write, unless the interview was abandoned.  One that  *)
(* was sent lands whatever happens to the interview.                         *)
SendAnswers(d) ==
    /\ At(d, "storing")
    /\ IF conn[d].interview.gone
       THEN Ends(d, FALSE)
       ELSE /\ conn' = [conn EXCEPT ![d].interview.stage = "writing"]
            /\ UNCHANGED inFlight
    /\ UNCHANGED <<row, client, connecting, failures, disabling, down,
                   outbox, inbox>>

(* storeOver: the write lands, and when the answer differs from what it was  *)
(* built on, the change from that to the answer is announced.                *)
StoreOver(d) ==
    LET t == conn[d].interview
    IN  /\ At(d, "writing")
        /\ StillHolds(t.before)
        /\ row' = [row EXCEPT !.caps = t.answer, !.first = TRUE]
        /\ Ends(d, TRUE)
        /\ UNCHANGED <<client, connecting, failures, disabling, down, outbox,
                       inbox>>

StoreMisses(d) ==
    /\ At(d, "writing")
    /\ ~StillHolds(conn[d].interview.before)
    /\ conn' = [conn EXCEPT ![d].interview.stage = "rereading"]
    /\ UNCHANGED <<row, client, connecting, inFlight, failures, disabling,
                   down, outbox, inbox>>

(* mutant: one try too many. *)
OneMoreTry(d) == conn[d].interview.tries < StoreAttempts

(* The bound of store's loop. *)
TriesLeft(d) == conn[d].interview.tries + 1 < StoreAttempts

(* The row as another interview left it, to try again over. *)
Reread(d) ==
    /\ At(d, "rereading")
    /\ IF Usable /\ TriesLeft(d)
       THEN /\ conn' = [conn EXCEPT ![d].interview.stage = "storing",
                                    ![d].interview.before = Stored,
                                    ![d].interview.tries = @ + 1]
            /\ UNCHANGED inFlight
       ELSE Ends(d, FALSE)
    /\ UNCHANGED <<row, client, connecting, failures, disabling, down,
                   outbox, inbox>>

(* reinterview of a DataGateway that is cached. *)
Reinterview(d) ==
    LET p == HostOf[d]
    IN  /\ "reinterview" \in Ops /\ p = Coordinator
        /\ Usable /\ client[p] = d
        /\ conn' = Started(conn, p, d)
        /\ inFlight' = Slotted(p, d)
        /\ UNCHANGED <<row, client, connecting, failures, disabling, down,
                       outbox, inbox>>

-----------------------------------------------------------------------------
(* Stale checks: refreshIfStale, through driver d. *)

(* The hourly backstop; a check that still waits is not repeated. *)
RefreshInterview(d) ==
    /\ "backstop" \in Ops
    /\ client[HostOf[d]] = d /\ conn[d].check = NoCheck
    /\ conn' = [conn EXCEPT ![d].check.stage = "reading"]
    /\ UNCHANGED <<row, client, connecting, inFlight, failures, disabling,
                   down, outbox, inbox>>

ReadCheck(d) ==
    /\ conn[d].check.stage = "reading"
    /\ conn' = [conn EXCEPT ![d].check =
           IF Usable THEN [@ EXCEPT !.stage = "pinging"] ELSE NoCheck]
    /\ UNCHANGED <<row, client, connecting, inFlight, failures, disabling,
                   down, outbox, inbox>>

(* A ping that fails, or an answer that gives no reason to interview (what   *)
(* the reasons are is left open).                                            *)
CheckPasses(d) ==
    /\ conn[d].check.stage = "pinging"
    /\ conn' = [conn EXCEPT ![d].check = NoCheck]
    /\ UNCHANGED <<row, client, connecting, inFlight, failures, disabling,
                   down, outbox, inbox>>

(* A reason to interview again.  The check is over with the interview; here  *)
(* it is over once that is asked for, as a further one would join it.        *)
CheckInterviews(d) ==
    LET p == HostOf[d]
    IN  /\ conn[d].check.stage = "pinging" /\ ~conn[d].check.gone
        /\ conn' = [Started(conn, p, d) EXCEPT ![d].check = NoCheck]
        /\ inFlight' = Slotted(p, d)
        /\ UNCHANGED <<row, client, connecting, failures, disabling, down,
                       outbox, inbox>>

-----------------------------------------------------------------------------
(* Failures and the automatic disable. *)

CallFails(p) ==
    /\ "fail" \in Ops /\ client[p] # None
    /\ ReportFailure(p)
    /\ UNCHANGED <<row, memory, down, outbox, inbox>>

(* reportSuccess *)
CallSucceeds(p) ==
    /\ client[p] # None /\ failures[p] > 0
    /\ failures' = [failures EXCEPT ![p] = 0]
    /\ UNCHANGED <<row, memory, disabling, down, outbox, inbox>>

(* disableGateway: its write, conditional on enabled. *)
DisableGateway(p) ==
    /\ disabling[p] = "due"
    /\ disabling' = [disabling EXCEPT ![p] = IF row.enabled THEN "won" ELSE "lost"]
    /\ row' = [row EXCEPT !.enabled = FALSE]
    /\ UNCHANGED <<memory, failures, down, outbox, inbox>>

(* What follows the write; the winner alone publishes. *)
DisableEnds(p) ==
    /\ disabling[p] \in {"won", "lost"}
    /\ disabling' = [disabling EXCEPT ![p] = "none"]
    /\ conn' = Disconnected(conn, p)
    /\ inFlight' = Without(inFlight, p, client[p])
    /\ client' = [client EXCEPT ![p] = None]
    /\ failures' = [failures EXCEPT ![p] = 0]
    /\ outbox' = IF disabling[p] = "won" THEN outbox \cup {Event("disabled", None)}
                                         ELSE outbox
    /\ UNCHANGED <<row, connecting, down, inbox>>

-----------------------------------------------------------------------------
(* The row's administration, and the events that follow a write. *)

(* update: the connection options, or the switch. *)
Update(config, enabled) ==
    /\ "update" \in Ops /\ ~row.deleted
    /\ row' = [row EXCEPT !.config = config, !.enabled = enabled]
    /\ outbox' = outbox \cup {Event("updated", config)}
    /\ UNCHANGED <<memory, failures, disabling, down, inbox>>

(* delete: a deletion is handled as a disable is. *)
Delete ==
    /\ "delete" \in Ops /\ ~row.deleted
    /\ row' = [row EXCEPT !.deleted = TRUE]
    /\ outbox' = outbox \cup {Event("disabled", None)}
    /\ UNCHANGED <<memory, failures, disabling, down, inbox>>

(* publish, which may fail, and then only logs. *)
Publish(e) ==
    /\ e \in outbox
    /\ outbox' = outbox \ {e}
    /\ \/ /\ \A p \in Procs : Len(inbox[p]) < MaxInbox
          /\ inbox' = [p \in Procs |-> IF down[p] THEN <<>> ELSE Append(inbox[p], e)]
       \/ "lose" \in Ops /\ UNCHANGED inbox
    /\ UNCHANGED <<row, memory, failures, disabling, down>>

(* handleConfigUpdate: an update that names the options in use changes       *)
(* nothing.                                                                  *)
HandleConfigUpdate(p) ==
    LET e == Head(inbox[p])
        known == client[p] # None /\ conn[client[p]].config = e.config
    IN  /\ inbox[p] # <<>>
        /\ inbox' = [inbox EXCEPT ![p] = Tail(@)]
        /\ IF e.type = "updated" /\ known
           THEN UNCHANGED <<memory, failures>>
           ELSE /\ conn' = Disconnected(Bumped(conn, p), p)
                /\ inFlight' = [inFlight EXCEPT ![p] = None]
                /\ client' = [client EXCEPT ![p] = None]
                /\ failures' = IF e.type = "updated" THEN failures
                               ELSE [failures EXCEPT ![p] = 0]
                /\ UNCHANGED connecting
        /\ UNCHANGED <<row, disabling, down, outbox>>

(* An admin's disconnect call. *)
DisconnectGateway ==
    LET p == Coordinator
    IN  /\ "disconnect" \in Ops /\ client[p] # None
        /\ conn' = Disconnected(conn, p)
        /\ inFlight' = Without(inFlight, p, client[p])
        /\ client' = [client EXCEPT ![p] = None]
        /\ UNCHANGED <<row, connecting, failures, disabling, down, outbox, inbox>>

-----------------------------------------------------------------------------
(* The processes. *)

(* onModuleDestroy and onApplicationShutdown. *)
Shutdown(p) ==
    /\ "shutdown" \in Ops /\ ~down[p]
    /\ down' = [down EXCEPT ![p] = TRUE]
    /\ conn' = Disconnected(conn, p)
    /\ inFlight' = Without(inFlight, p, client[p])
    /\ client' = [client EXCEPT ![p] = None]
    /\ connecting' = [connecting EXCEPT ![p] = None]
    /\ failures' = [failures EXCEPT ![p] = 0]
    /\ inbox' = [inbox EXCEPT ![p] = <<>>]
    /\ UNCHANGED <<row, disabling, outbox>>

(* The process ends, in order or not, and another takes its place: it        *)
(* subscribes, and its bootstrap reads the row and connects by what it read. *)
Restart(p) ==
    /\ "restart" \in Ops
    /\ \E ds \in {{}} \cup {{d} : d \in Mine(p)} :
           /\ ds # {} <=> Usable
           /\ conn' = [d \in Drivers |->
                  IF d \in ds THEN [Blank EXCEPT !.stage = "loaded", !.config = row.config]
                  ELSE IF d \in Mine(p) THEN Blank ELSE conn[d]]
    /\ client' = [client EXCEPT ![p] = None]
    /\ connecting' = [connecting EXCEPT ![p] = None]
    /\ inFlight' = [inFlight EXCEPT ![p] = None]
    /\ failures' = [failures EXCEPT ![p] = 0]
    /\ disabling' = [disabling EXCEPT ![p] = "none"]
    /\ down' = [down EXCEPT ![p] = FALSE]
    /\ inbox' = [inbox EXCEPT ![p] = <<>>]
    /\ UNCHANGED <<row, outbox>>

-----------------------------------------------------------------------------
(* A DataGateway just created: enabled, and never interviewed. *)
Init ==
    /\ row \in [enabled : {TRUE}, deleted : {FALSE}, config : Configs,
                 first : {FALSE}, caps : {Undeclared}]
    /\ conn = [d \in Drivers |-> Blank]
    /\ client = [p \in Procs |-> None]
    /\ connecting = [p \in Procs |-> None]
    /\ inFlight = [p \in Procs |-> None]
    /\ failures = [p \in Procs |-> 0]
    /\ disabling = [p \in Procs |-> "none"]
    /\ down = [p \in Procs |-> FALSE]
    /\ outbox = {}
    /\ inbox = [p \in Procs |-> <<>>]

Connecting(d) ==
    \/ ConnectGateway(d)
    \/ EnsureConnected(d)
    \/ ReadOptions(d)
    \/ Connect(d)
    \/ ConnectFails(d)
    \/ ConnectAnswers(d)
    \/ LookUp(d)
    \/ FirstInterview(d)
    \/ CacheOrDiscard(d)
    \/ InterviewFailed(d)

Interviewing(d) ==
    \/ ReadRow(d)
    \/ Ask(d)
    \/ SendAnswers(d)
    \/ StoreOver(d)
    \/ StoreMisses(d)
    \/ Reread(d)
    \/ Reinterview(d)

Checking(d) ==
    \/ RefreshInterview(d)
    \/ ReadCheck(d)
    \/ CheckPasses(d)
    \/ CheckInterviews(d)

Process(p) ==
    \/ CallFails(p)
    \/ CallSucceeds(p)
    \/ DisableGateway(p)
    \/ DisableEnds(p)
    \/ HandleConfigUpdate(p)
    \/ Shutdown(p)
    \/ Restart(p)

Next ==
    \/ \E d \in Drivers : Connecting(d) \/ Interviewing(d) \/ Checking(d)
    \/ \E p \in Procs : Process(p)
    \/ \E config \in Configs, enabled \in BOOLEAN : Update(config, enabled)
    \/ \E e \in outbox : Publish(e)
    \/ Delete
    \/ DisconnectGateway

Spec == Init /\ [][Next]_vars

-----------------------------------------------------------------------------
(* Properties. *)

Stages == {"none", "reading", "loaded", "cached"} \cup Building

TypeOK ==
    /\ row \in [enabled : BOOLEAN, deleted : BOOLEAN, config : Configs,
                 first : BOOLEAN, caps : Answers]
    /\ \A d \in Drivers :
           /\ conn[d].stage \in Stages
           /\ conn[d].config \in Configs \cup {None}
           /\ conn[d].on \in {None} \cup Mine(HostOf[d])
           /\ conn[d].check.stage \in {"none", "reading", "pinging"}
           /\ conn[d].interview.tries \in 0 .. StoreAttempts - 1
    /\ \A p \in Procs :
           {client[p], connecting[p], inFlight[p]} \subseteq {None} \cup Mine(p)
    /\ failures \in [Procs -> 0 .. FailureThreshold]
    /\ disabling \in [Procs -> {"none", "due", "won", "lost"}]
    /\ down \in [Procs -> BOOLEAN]

(* Every open driver is cached or still being connected, and every cached    *)
(* one is open and of a DataGateway that some process has interviewed:       *)
(* whichever of racing connects, events, disables and shutdowns comes last,  *)
(* no channel leaks and no closed driver is served.                          *)
DriversAccountedFor ==
    /\ \A d \in Drivers : conn[d].open => \/ client[HostOf[d]] = d
                                          \/ conn[d].stage \in Building
    /\ \A p \in Procs : client[p] # None => conn[client[p]].open /\ row.first

(* A question that is not abandoned goes through an open driver, and callers *)
(* who come now would join the only interview that is not abandoned.         *)
AsksThroughOpenDrivers ==
    \A d \in Drivers :
        /\ conn[d].check.stage # "none" /\ ~conn[d].check.gone => conn[d].open
        /\ conn[d].interview.stage # "none" /\ ~conn[d].interview.gone =>
               conn[d].open /\ inFlight[HostOf[d]] = d

(* A change of the capabilities on the row is announced for what it is: the  *)
(* write that makes it was built on what the row held, whichever processes   *)
(* interview at once; and a disabled or deleted row is left as it is.        *)
ChangesAreAnnounced ==
    [][row'.caps # row.caps =>
           /\ Usable
           /\ \E d \in Drivers : /\ At(d, "writing")
                                 /\ conn[d].interview.before.caps = row.caps
                                 /\ conn[d].interview.answer = row'.caps]_vars

(* Once every event has been handled, a process caches no driver of options  *)
(* that the row no longer holds.                                             *)
StaleDriversDropped ==
    outbox = {} =>
        \A p \in Procs : inbox[p] = <<>> /\ client[p] # None =>
            conn[client[p]].config = row.config
=============================================================================
