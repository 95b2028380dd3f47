----------------------------- MODULE EventLineup -----------------------------
(***************************************************************************)
(* One event: its attendees and the games they offer, its dates, the        *)
(* nominations with their votes, and the lineup.                            *)
(*                                                                          *)
(* A request first reads without a lock (Load), and refuses early.  Its     *)
(* transaction then takes its row locks one after the other (Lock), in the  *)
(* order the code takes them, reading each row as it locks it; with the     *)
(* last lock it reads what its write depends on; and it commits (Commit),   *)
(* which is when the others see what it wrote.  A request may end between   *)
(* any two steps: it is refused, or dies, or the database aborts it.        *)
(*                                                                          *)
(* Sources, under libs/api/event/src/lib: nomination/                       *)
(* event-game-nomination.service, attendee/event-attendee.service,          *)
(* attendee/attendance, occurrence/event-occurrence.service,                *)
(* lifecycle/event-lifecycle.service and .helpers, event.service.           *)
(***************************************************************************)
EXTENDS VoteRules, Sequences

CONSTANTS
    Attendees,      \* the people the event may have on its list
    CanVote,        \* those of them with an account and a role that votes
    Entries,        \* entries of their game lists
    Owner,          \* whose list each entry is on
    Noms,           \* nominations, by id
    Dates,          \* dates, by id
    NoDate,         \* stands for the event as a whole
    NoNom,          \* a lineup game that no nomination brought
    Mode,           \* the game addition mode of each date, and of the event
    Policy,         \* the voting policy of each
    Answers,        \* the participation statuses people give
    MaxClock,       \* bound: how late it gets
    Starts,         \* when a date may start; 0 is "unset"
    Fixed,          \* whether schedulingMode is Fixed
    Reqs,           \* requests that may be under way at one time
    Ops             \* the operations they perform

Places == Dates \cup {NoDate}

ASSUME EventAssumption ==
    /\ CanVote \subseteq Attendees
    /\ Owner \in [Entries -> Attendees]
    /\ Mode \in [Places -> {"Direct", "RequiresVote", "HostApproval", "HostOnly"}]
    /\ Policy \in [Places -> Policies]
    /\ Answers \subseteq {"Invited", "Attending", "Maybe", "NotAttending"}
    /\ MaxClock \in Nat
    /\ Starts \subseteq Nat
    /\ NoDate \notin Dates /\ NoNom \notin Noms
    /\ Fixed \in BOOLEAN

VARIABLES
    event,      \* the event row: deleted, cancelled, archived
    people,     \* the attendee rows
    list,       \* the game-list entries: "absent", "listed" or "removed"
    dates,      \* the occurrence rows
    noms,       \* the nomination rows, votes included
    lineup,     \* the EventGame rows
    clock,
    req

rows == <<event, people, list, dates, noms, lineup>>
vars == <<rows, clock, req>>

-----------------------------------------------------------------------------
(* Rows. *)

Pausable == {"Open", "AwaitingApproval"}
Active == Pausable \cup {"Paused"}
Won == {"Passed", "Approved"}
Settled == Won \cup {"Failed", "QuorumNotMet", "Rejected", "Withdrawn"}

NoRow == [status |-> "none", paused |-> "none", entry |-> "none",
          date |-> NoDate, votes |-> [a \in Attendees |-> "none"]]
NoStart == [status |-> "none", start |-> 0]
Person(removed, status) == [removed |-> removed, status |-> status]
Game(e, d, n) == [entry |-> e, date |-> d, nom |-> n]

In(a) == ~Out(people[a])

(* lineupStillAhead, by the dates given and the time given. *)
DateAhead(ds, d, at) ==
    ds[d].status \in {"Proposed", "Confirmed"} /\ (ds[d].start = 0 \/ ds[d].start > at)
Ahead(ds, g, at) ==
    IF g.date # NoDate
    THEN DateAhead(ds, g.date, at)
    ELSE (\E d \in Dates : DateAhead(ds, d, at)) \/ \A d \in Dates : ds[d].status = "none"

(* assertSupplies *)
Supplies(e) == list[e] = "listed" /\ In(Owner[e])

Voters(policy) ==
    {a \in Attendees : Eligible(policy, people[a], a \in CanVote,
                                \E e \in Entries : Owner[e] = a /\ list[e] = "listed")}

(* deriveEventStatus.  A date ends when it starts. *)
EventStatus(at) ==
    LET counted == {d \in Dates : dates[d].status = "Confirmed" /\ dates[d].start # 0}
    IN  CASE event.archived -> "Archived"
          [] ~event.archived /\ event.cancelled -> "Cancelled"
          [] ~event.archived /\ ~event.cancelled ->
                 CASE counted = {} -> "Planning"
                   [] counted # {} /\ \A d \in counted : dates[d].start > at -> "Scheduled"
                   [] counted # {} /\ \A d \in counted : dates[d].start <= at -> "Completed"
                   [] OTHER -> "Ongoing"

-----------------------------------------------------------------------------
(* Requests and their locks.  A lock is a set of rows and a mode: "key" and  *)
(* "share" readers, "write" (FOR NO KEY UPDATE) and "delete" (FOR UPDATE).   *)

Idle == [op |-> "idle", step |-> 0, who |-> "none", entry |-> "none",
         nom |-> NoNom, date |-> NoDate, answer |-> "none", start |-> 0, at |-> 0,
         noms |-> {}, drop |-> {}, ballot |-> NoRow.votes, outcome |-> "none"]

Conflict(x, y) ==
    \/ "delete" \in {x, y}
    \/ x = "write" /\ y \in {"share", "write"}
    \/ y = "write" /\ x \in {"share", "write"}

EventRow == <<"event", NoDate>>
AttendeeOps == {"rsvp", "removeAttendee", "addAttendee"}
LineupOps == {"nominate", "directAdd"}
SettleOps == {"resolve", "approve", "reject"}
TransitionOps == {"confirm", "decline", "cancelDate"}
LifecycleOps == {"cancel", "reopen", "archive", "unarchive", "delete"}
DateOps == {"addDate", "moveDate", "removeDate"}

(* The nominations that syncSuppliedGames updates for an attendee who is now *)
(* in, or out.                                                               *)
ToSync(q) ==
    {n \in Noms : /\ noms[n].status # "none" /\ Owner[noms[n].entry] = q.who
                  /\ noms[n].status \in
                         IF q.op = "removeAttendee" \/ q.answer = "NotAttending"
                         THEN Pausable ELSE {"Paused"}}

(* The nominations whose date a removal clears (ON DELETE SET NULL). *)
Naming(d) == {n \in Noms : noms[n].status # "none" /\ noms[n].date = d}

On(row, mode) == [on |-> {row}, mode |-> mode]
OnNoms(ns, mode) == [on |-> {<<"nom", n>> : n \in ns}, mode |-> mode]

(* mutant: the supplier is read and not locked. *)
OnSupplierUnlocked(q) == [on |-> {}, mode |-> "share"]

(* lockSupplier *)
OnSupplier(q) ==
    [on |-> {<<"entry", q.entry>>, <<"attendee", Owner[q.entry]>>}, mode |-> "share"]

(* mutant: the nomination is locked before the event. *)
SettleNomFirst(q) ==
    <<OnSupplier(q), OnNoms({q.nom}, "delete"), On(EventRow, "share")>>

(* The locks of settle. *)
SettleLocks(q) ==
    <<OnSupplier(q), On(EventRow, "share"), OnNoms({q.nom}, "delete")>>

(* The locks of each transaction, in the order it takes them. *)
Locks(q) ==
    CASE q.op \in LineupOps -> IF q.date = NoDate
                               THEN <<OnSupplier(q)>>
                               ELSE <<OnSupplier(q), On(<<"date", q.date>>, "key")>>
      [] q.op = "vote" -> <<OnNoms({q.nom}, "share")>>
      [] q.op = "withdraw" -> <<OnNoms({q.nom}, "write")>>
      [] q.op \in SettleOps -> SettleLocks(q)
      [] q.op \in AttendeeOps ->
             <<On(<<"attendee", q.who>>, "write"), On(EventRow, "share"),
               OnNoms(IF q.step < 3 THEN ToSync(q) ELSE q.noms, "write")>>
      [] q.op = "addGame" -> <<On(<<"entry", q.entry>>, "write")>>
      [] q.op = "removeGame" ->
             <<On(<<"entry", q.entry>>, "delete"), On(EventRow, "share")>>
      [] q.op = "removeDate" ->
             <<On(EventRow, "write"), On(<<"date", q.date>>, "delete"),
               OnNoms(IF q.step < 3 THEN Naming(q.date) ELSE q.noms, "write")>>
      [] q.op \in {"addDate", "moveDate"} \cup TransitionOps \cup LifecycleOps ->
             <<On(EventRow, "write")>>
      [] OTHER -> <<>>

Held(q) == {Locks(q)[i] : i \in 1 .. q.step}

(* Whether the next lock of r waits for one that s holds. *)
WaitsFor(r, s) ==
    LET q == req[r]
    IN  /\ r # s /\ q.op # "idle" /\ q.step < Len(Locks(q))
        /\ \E h \in Held(req[s]) :
               /\ h.on \cap Locks(q)[q.step + 1].on # {}
               /\ Conflict(h.mode, Locks(q)[q.step + 1].mode)

Begin(r, q) ==
    /\ req[r] = Idle
    /\ q.op \in Ops
    /\ req' = [req EXCEPT ![r] = [q EXCEPT !.at = clock]]
    /\ UNCHANGED <<rows, clock>>

Abort(r) ==
    /\ req[r] # Idle
    /\ req' = [req EXCEPT ![r] = Idle]
    /\ UNCHANGED <<rows, clock>>

-----------------------------------------------------------------------------
(* Load: what each operation reads before its transaction. *)

(* A nomination by someone on the event of a game for one of its dates, or   *)
(* for all; HostOnly events take none.  directAddGame needs Direct or        *)
(* HostOnly.                                                                 *)
Nominate(r, n, e, d) ==
    /\ ~event.deleted /\ \E a \in Attendees : ~people[a].removed
    /\ d # NoDate => dates[d].status # "none"
    /\ Mode[d] # "HostOnly"
    /\ \A s \in Reqs : req[s].op = "nominate" => req[s].nom # n
    /\ noms[n].status = "none"
    /\ Begin(r, [Idle EXCEPT !.op = "nominate", !.nom = n, !.entry = e, !.date = d])

DirectAdd(r, e, d) ==
    /\ ~event.deleted /\ \E a \in Attendees : ~people[a].removed
    /\ d # NoDate => dates[d].status # "none"
    /\ Mode[d] \in {"Direct", "HostOnly"}
    /\ Begin(r, [Idle EXCEPT !.op = "directAdd", !.entry = e, !.date = d])

CastVote(r, n, a, v) ==
    /\ ~people[a].removed /\ a \in CanVote
    /\ noms[n].status = "Open"
    /\ Begin(r, [Idle EXCEPT !.op = "vote", !.nom = n, !.who = a, !.answer = v])

Withdraw(r, n) ==
    /\ noms[n].status \in Active
    /\ Begin(r, [Idle EXCEPT !.op = "withdraw", !.nom = n])

(* resolveNomination, hostApprove and hostReject. *)
Settle(r, n, op) ==
    /\ noms[n].status = IF op = "resolve" THEN "Open" ELSE "AwaitingApproval"
    /\ Begin(r, [Idle EXCEPT !.op = op, !.nom = n, !.entry = noms[n].entry,
                             !.date = noms[n].date])

UpdateStatus(r, a, status) ==
    /\ ~event.deleted /\ ~people[a].removed
    /\ Begin(r, [Idle EXCEPT !.op = "rsvp", !.who = a, !.answer = status])

RemoveAttendee(r, a) ==
    /\ ~event.deleted /\ ~people[a].removed
    /\ Begin(r, [Idle EXCEPT !.op = "removeAttendee", !.who = a])

(* addAttendee of someone a host removed revives their row. *)
AddAttendee(r, a, status) ==
    /\ ~event.deleted /\ people[a].removed
    /\ Begin(r, [Idle EXCEPT !.op = "addAttendee", !.who = a, !.answer = status])

AddGameToList(r, e) ==
    /\ ~event.deleted /\ ~people[Owner[e]].removed /\ list[e] # "listed"
    /\ Begin(r, [Idle EXCEPT !.op = "addGame", !.entry = e, !.answer = list[e]])

RemoveGameFromList(r, e) ==
    /\ ~people[Owner[e]].removed /\ list[e] = "listed"
    /\ Begin(r, [Idle EXCEPT !.op = "removeGame", !.entry = e])

AddOccurrence(r, d, status, start) ==
    /\ ~event.deleted /\ dates[d] = NoStart
    /\ \A s \in Reqs : req[s].op = "addDate" => req[s].date # d
    /\ Fixed => \A x \in Dates : dates[x].status = "none"
    /\ Begin(r, [Idle EXCEPT !.op = "addDate", !.date = d, !.answer = status,
                             !.start = start])

UpdateOccurrence(r, d, start) ==
    /\ dates[d].status # "none"
    /\ Begin(r, [Idle EXCEPT !.op = "moveDate", !.date = d, !.start = start])

RemoveOccurrence(r, d) ==
    /\ dates[d].status # "none"
    /\ Begin(r, [Idle EXCEPT !.op = "removeDate", !.date = d])

From(op) == IF op = "cancelDate" THEN "Confirmed" ELSE "Proposed"
To(op) == CASE op = "confirm" -> "Confirmed"
            [] op = "decline" -> "Declined"
            [] op = "cancelDate" -> "Cancelled"

Transition(r, d, op) ==
    /\ dates[d].status = From(op)
    /\ Begin(r, [Idle EXCEPT !.op = op, !.date = d])

(* The host's decisions on the event read nothing before their transaction. *)
Lifecycle(r, op) == Begin(r, [Idle EXCEPT !.op = op])

-----------------------------------------------------------------------------
(* Lock: what each operation checks of the rows under its locks.             *)

(* assertTransitionAllowed, under the event's lock. *)
StillFrom(q) == dates[q.date].status = From(q.op)

(* mutant: only the status read before the lock counts. *)
WithdrawableBefore(q) == TRUE

(* assertWithdrawable, under the nomination's lock. *)
Withdrawable(q) == noms[q.nom].status \in Active

(* mutant: a cancelled event takes dates. *)
NotCancelledUnasked == TRUE

(* assertEventNotCancelled *)
NotCancelled == ~event.cancelled

(* What the i-th lock finds, or the request is refused. *)
Checks(q, i) ==
    CASE q.op \in LineupOps ->
             IF i = 1 THEN Supplies(q.entry) ELSE dates[q.date].status # "none"
      [] q.op = "vote" -> noms[q.nom].status = "Open"
      [] q.op = "withdraw" -> Withdrawable(q)
      [] q.op \in SettleOps ->
             i = 3 => noms[q.nom].status =
                          IF q.op = "resolve" THEN "Open" ELSE "AwaitingApproval"
      [] q.op \in {"rsvp", "removeAttendee"} -> i = 1 => ~people[q.who].removed
      [] q.op = "addAttendee" -> i = 1 => people[q.who].removed
      [] q.op = "addGame" -> list[q.entry] = q.answer
      [] q.op = "removeGame" ->
             IF i = 1
             THEN list[q.entry] = "listed"
             ELSE /\ \A n \in Noms : noms[n].entry = q.entry => noms[n].status \notin Active
                  /\ \A g \in lineup : g.entry = q.entry => ~Ahead(dates, g, q.at)
      [] q.op = "addDate" -> NotCancelled
      [] q.op = "moveDate" -> dates[q.date].status # "none"
      [] q.op = "removeDate" -> i = 1 => dates[q.date].status \notin {"none", "Confirmed"}
      [] q.op = "confirm" -> NotCancelled /\ StillFrom(q)
      [] q.op \in {"decline", "cancelDate"} -> StillFrom(q)
      [] q.op = "cancel" -> ~event.deleted /\ ~event.cancelled /\ ~event.archived
      [] q.op = "reopen" -> ~event.deleted /\ event.cancelled /\ ~event.archived
      [] q.op = "archive" -> ~event.deleted /\ EventStatus(q.at) \in {"Cancelled", "Completed"}
      [] q.op = "unarchive" -> ~event.deleted /\ event.archived
      [] q.op = "delete" -> ~event.deleted
      [] OTHER -> TRUE

(* The dates as a date write leaves them. *)
WrittenDates(q) ==
    [dates EXCEPT ![q.date] =
        CASE q.op = "addDate" -> [status |-> q.answer, start |-> q.start]
          [] q.op = "moveDate" -> [dates[q.date] EXCEPT !.start = q.start]
          [] q.op = "removeDate" -> NoStart]

(* The games a date write finds ahead that nobody brings, by dates ds. *)
Unbrought(ds, q) == {g \in lineup : ~Supplies(g.entry) /\ Ahead(ds, g, q.at)}

(* mutant: the sweep reads before the write. *)
SweptBefore(q) == Unbrought(dates, q)

(* The sweep of writeEventDates, which reads after the write. *)
Swept(q) == Unbrought(WrittenDates(q), q)

(* The lineup games a transaction takes off: syncSuppliedGames,              *)
(* writeEventDates, and the games a removed date takes with it.              *)
Dropped(q) ==
    CASE q.op \in AttendeeOps ->
             IF q.op = "removeAttendee" \/ q.answer = "NotAttending"
             THEN {g \in lineup : Owner[g.entry] = q.who /\ Ahead(dates, g, q.at)}
             ELSE {}
      [] q.op \in DateOps ->
             Swept(q) \cup {g \in lineup : q.op = "removeDate" /\ g.date = q.date}
      [] OTHER -> {}

(* decide, in settle. *)
Outcome(q) ==
    CASE q.op = "resolve" ->
             LET policy == Policy[noms[q.nom].date]
             IN  Resolve(policy, noms[q.nom].votes, Voters(policy))
      [] q.op = "approve" -> "Approved"
      [] q.op = "reject" -> "Rejected"
      [] OTHER -> "none"

Lock(r) ==
    LET q == req[r]
        i == q.step + 1
        last == i = Len(Locks(q))
        outcome == IF last THEN Outcome(q) ELSE "none"
    IN  /\ q.op # "idle" /\ i <= Len(Locks(q))
        /\ \A s \in Reqs : ~WaitsFor(r, s)
        /\ Checks(q, i)
        /\ outcome \in Won => Supplies(q.entry)
        /\ req' = [req EXCEPT ![r] =
               [q EXCEPT !.step = i,
                         !.noms = CASE q.op \in AttendeeOps /\ last -> ToSync(q)
                                    [] q.op = "removeDate" /\ last -> Naming(q.date)
                                    [] OTHER -> {},
                         !.drop = IF last THEN Dropped(q) ELSE {},
                         !.ballot = IF q.op = "resolve" /\ last THEN noms[q.nom].votes
                                    ELSE NoRow.votes,
                         !.outcome = outcome]]
        /\ UNCHANGED <<rows, clock>>

-----------------------------------------------------------------------------
(* Commit: what each operation writes. *)

(* The status a nomination starts in, by mode. *)
Initial(mode) ==
    CASE mode = "RequiresVote" -> "Open"
      [] mode = "HostApproval" -> "AwaitingApproval"
      [] mode = "Direct" -> "Passed"

(* The attendee's row as the write leaves it. *)
WrittenPerson(q) ==
    CASE q.op = "rsvp" -> [people[q.who] EXCEPT !.status = q.answer]
      [] q.op = "removeAttendee" -> [people[q.who] EXCEPT !.removed = TRUE]
      [] q.op = "addAttendee" -> Person(FALSE, q.answer)

(* syncSuppliedGames: a pausing nomination remembers its status. *)
Synced(q) ==
    [n \in Noms |->
        IF n \notin q.noms THEN noms[n]
        ELSE IF Out(WrittenPerson(q))
             THEN [noms[n] EXCEPT !.status = "Paused", !.paused = noms[n].status]
             ELSE [noms[n] EXCEPT !.status = noms[n].paused, !.paused = "none"]]

(* mutant: the status it paused from stays. *)
WithdrawnPaused(row) == [row EXCEPT !.status = "Withdrawn"]

(* The write of withdraw. *)
Withdrawn(row) == [row EXCEPT !.status = "Withdrawn", !.paused = "none"]

(* The nominations as each operation leaves them. *)
WrittenNoms(q) ==
    CASE q.op = "nominate" ->
             [noms EXCEPT ![q.nom] = [NoRow EXCEPT !.status = Initial(Mode[q.date]),
                                                   !.entry = q.entry, !.date = q.date]]
      [] q.op = "vote" -> [noms EXCEPT ![q.nom].votes[q.who] = q.answer]
      [] q.op = "withdraw" -> [noms EXCEPT ![q.nom] = Withdrawn(@)]
      [] q.op \in SettleOps -> [noms EXCEPT ![q.nom].status = q.outcome]
      [] q.op \in AttendeeOps -> Synced(q)
      [] q.op = "removeDate" ->
             [n \in Noms |-> IF n \in q.noms THEN [noms[n] EXCEPT !.date = NoDate]
                                             ELSE noms[n]]
      [] OTHER -> noms

(* mutant: the game goes on the date read before the lock. *)
ElevatedOn(q) == q.date

(* The date a settled nomination's game goes on, read under its lock. *)
ElevatesTo(q) == noms[q.nom].date

(* elevateToEventGame, and the game of a direct add. *)
Added(q) ==
    CASE q.op = "nominate" /\ Mode[q.date] = "Direct" -> {Game(q.entry, q.date, q.nom)}
      [] q.op = "directAdd" -> {Game(q.entry, q.date, NoNom)}
      [] q.op \in SettleOps /\ q.outcome \in Won ->
             {Game(q.entry, ElevatesTo(q), q.nom)}
      [] OTHER -> {}

(* The cascade of cancelEvent. *)
CalledOff ==
    [d \in Dates |-> [dates[d] EXCEPT !.status =
        CASE @ = "Confirmed" -> "Cancelled" [] @ = "Proposed" -> "Declined" [] OTHER -> @]]

Commit(r) ==
    LET q == req[r]
    IN  /\ q.op # "idle" /\ q.step = Len(Locks(q))
        /\ event' = CASE q.op = "cancel" -> [event EXCEPT !.cancelled = TRUE]
                      [] q.op = "reopen" -> [event EXCEPT !.cancelled = FALSE]
                      [] q.op = "archive" -> [event EXCEPT !.archived = TRUE]
                      [] q.op = "unarchive" -> [event EXCEPT !.archived = FALSE]
                      [] q.op = "delete" -> [event EXCEPT !.deleted = TRUE]
                      [] OTHER -> event
        /\ people' = IF q.op \in AttendeeOps
                     THEN [people EXCEPT ![q.who] = WrittenPerson(q)] ELSE people
        /\ list' = CASE q.op = "addGame" -> [list EXCEPT ![q.entry] = "listed"]
                     [] q.op = "removeGame" -> [list EXCEPT ![q.entry] = "removed"]
                     [] OTHER -> list
        /\ dates' = CASE q.op \in DateOps -> WrittenDates(q)
                      [] q.op \in TransitionOps ->
                             [dates EXCEPT ![q.date].status = To(q.op)]
                      [] q.op = "cancel" -> CalledOff
                      [] OTHER -> dates
        /\ noms' = WrittenNoms(q)
        /\ lineup' = (lineup \ q.drop) \cup Added(q)
        /\ req' = [req EXCEPT ![r] = Idle]
        /\ UNCHANGED clock

Tick ==
    /\ clock < MaxClock
    /\ clock' = clock + 1
    /\ UNCHANGED <<rows, req>>

-----------------------------------------------------------------------------
(* A new event before its first date, with its host and whom it invites. *)
Init ==
    /\ event = [deleted |-> FALSE, cancelled |-> FALSE, archived |-> FALSE]
    /\ people \in [Attendees -> {Person(FALSE, s) : s \in Answers \ {"NotAttending"}}]
    /\ list = [e \in Entries |-> "absent"]
    /\ dates = [d \in Dates |-> NoStart]
    /\ noms = [n \in Noms |-> NoRow]
    /\ lineup = {}
    /\ clock = 0
    /\ req = [r \in Reqs |-> Idle]

Load(r) ==
    \/ \E n \in Noms, e \in Entries, d \in Places : Nominate(r, n, e, d)
    \/ \E e \in Entries, d \in Places : DirectAdd(r, e, d)
    \/ \E n \in Noms, a \in Attendees, v \in VoteTypes : CastVote(r, n, a, v)
    \/ \E n \in Noms : Withdraw(r, n)
    \/ \E n \in Noms, op \in SettleOps : Settle(r, n, op)
    \/ \E a \in Attendees, s \in Answers : UpdateStatus(r, a, s)
    \/ \E a \in Attendees : RemoveAttendee(r, a)
    \/ \E a \in Attendees, s \in Answers : AddAttendee(r, a, s)
    \/ \E e \in Entries : AddGameToList(r, e)
    \/ \E e \in Entries : RemoveGameFromList(r, e)
    \/ \E d \in Dates, s \in {"Proposed", "Confirmed"}, t \in Starts : AddOccurrence(r, d, s, t)
    \/ \E d \in Dates, t \in Starts : UpdateOccurrence(r, d, t)
    \/ \E d \in Dates : RemoveOccurrence(r, d)
    \/ \E d \in Dates, op \in TransitionOps : Transition(r, d, op)
    \/ \E op \in LifecycleOps : Lifecycle(r, op)

Next ==
    \/ \E r \in Reqs : Load(r) \/ Lock(r) \/ Commit(r) \/ Abort(r)
    \/ Tick

Spec == Init /\ [][Next]_vars

-----------------------------------------------------------------------------
(* Properties. *)

TypeOK ==
    /\ event \in [deleted : BOOLEAN, cancelled : BOOLEAN, archived : BOOLEAN]
    /\ people \in [Attendees -> [removed : BOOLEAN, status : Answers]]
    /\ list \in [Entries -> {"absent", "listed", "removed"}]
    /\ dates \in [Dates -> [status : {"Proposed", "Confirmed", "Declined", "Cancelled"},
                            start : Starts] \cup {NoStart}]
    /\ \A n \in Noms : noms[n] = NoRow \/
           /\ noms[n].status \in Active \cup Settled
           /\ noms[n].paused \in IF noms[n].status = "Paused" THEN Pausable ELSE {"none"}
           /\ noms[n].entry \in Entries /\ noms[n].date \in Places
    /\ lineup \subseteq [entry : Entries, date : Places, nom : Noms \cup {NoNom}]
    /\ clock \in 0 .. MaxClock

(* Somebody brings every game that is still ahead: its supplier is in the    *)
(* event and still offers it, however leaving, taking the game off the list, *)
(* moving, adding and removing dates, and settling nominations interleave.   *)
SomebodyBringsIt == \A g \in lineup : Ahead(dates, g, clock) => Supplies(g.entry)

(* A nomination awaits its outcome exactly while its supplier is in: it is   *)
(* paused whenever the supplier is out, and resumed when they are back.      *)
PausedWhileOut ==
    \A n \in Noms :
        /\ noms[n].status \in Pausable => Supplies(noms[n].entry)
        /\ noms[n].status = "Paused" =>
               Out(people[Owner[noms[n].entry]]) /\ list[noms[n].entry] = "listed"

(* No two transactions wait for each other: the lock orders agree. *)
NoWaitCycle == \A r, s \in Reqs : ~(WaitsFor(r, s) /\ WaitsFor(s, r))

(* Only a won nomination brought a game to the lineup, and the game is on    *)
(* the date the nomination names, also when that date was removed meanwhile. *)
OnlyWonGames ==
    \A g \in lineup : g.nom # NoNom =>
        /\ noms[g.nom].status \in Won
        /\ noms[g.nom].entry = g.entry /\ noms[g.nom].date = g.date

(* A nomination that reached an outcome keeps it, and its votes; and the     *)
(* votes a resolution counted are all the votes there are when it settles.   *)
OutcomesAreFinal ==
    [][\A n \in Noms :
          /\ noms[n].status \in Settled =>
                 noms'[n].status = noms[n].status /\ noms'[n].votes = noms[n].votes
          /\ noms[n].status = "Open" /\ noms'[n].status \in {"Passed", "Failed", "QuorumNotMet"} =>
                 \E r \in Reqs : req[r].op = "resolve" /\ req[r].nom = n
                                 /\ req[r].ballot = noms[n].votes /\ req'[r] = Idle]_vars

(* A cancelled event has no date that is on or proposed. *)
CancelledIsOff ==
    event.cancelled => \A d \in Dates : dates[d].status \notin {"Proposed", "Confirmed"}
=============================================================================
