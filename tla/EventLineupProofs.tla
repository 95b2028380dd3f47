------------------------- MODULE EventLineupProofs -------------------------
(***************************************************************************)
(* The row locks are enough: whatever a request checked under its locks is  *)
(* still true when it commits, for every set of attendees, games, dates,    *)
(* nominations and requests.  LineupInv is inductive, and with it every     *)
(* game ahead has someone who brings it, nominations pause exactly while    *)
(* their supplier is out, an outcome is final, and no two transactions wait *)
(* for each other.                                                          *)
(***************************************************************************)
EXTENDS EventLineup, TLAPS

USE EventAssumption

-----------------------------------------------------------------------------
(* Types. *)

Statuses == Active \cup Settled
NomRows == [status : Statuses \cup {"none"}, paused : Pausable \cup {"none"},
            entry : Entries \cup {"none"}, date : Places,
            votes : [Attendees -> VoteTypes \cup {"none"}]]
DateRows == [status : {"Proposed", "Confirmed", "Declined", "Cancelled"},
             start : Starts] \cup {NoStart}
Games == [entry : Entries, date : Places, nom : Noms \cup {NoNom}]
AllOps == AttendeeOps \cup LineupOps \cup SettleOps \cup TransitionOps \cup LifecycleOps
          \cup DateOps \cup {"vote", "withdraw", "addGame", "removeGame"}

(* How many locks an operation takes. *)
Depth(q) ==
    CASE q.op \in LineupOps -> IF q.date = NoDate THEN 1 ELSE 2
      [] q.op \in SettleOps \cup AttendeeOps \cup {"removeDate"} -> 3
      [] q.op = "removeGame" -> 2
      [] OTHER -> 1

Words == Answers \cup VoteTypes \cup {"Proposed", "Confirmed", "none", "absent", "listed", "removed"}
Results == {"none", "Passed", "Failed", "QuorumNotMet", "Approved", "Rejected"}

Requests ==
    [op : AllOps, step : 0 .. 3, who : Attendees \cup {"none"},
     entry : Entries \cup {"none"}, nom : Noms \cup {NoNom}, date : Places,
     answer : Words, start : Starts \cup {0}, at : Nat,
     noms : SUBSET Noms, drop : SUBSET Games,
     ballot : [Attendees -> VoteTypes \cup {"none"}], outcome : Results]

(* A request names the rows its operation is about. *)
Apt(q) ==
    /\ q.step <= Depth(q) /\ q.at <= clock
    /\ q.op \in AttendeeOps \cup {"vote"} => q.who \in Attendees
    /\ q.op \in LineupOps \cup SettleOps \cup {"addGame", "removeGame"} => q.entry \in Entries
    /\ q.op \in SettleOps \cup {"nominate", "vote", "withdraw"} => q.nom \in Noms
    /\ q.op \in DateOps \cup TransitionOps => q.date \in Dates
    /\ q.op \in {"rsvp", "addAttendee"} => q.answer \in Answers
    /\ q.op = "vote" => q.answer \in VoteTypes
    /\ q.op = "addDate" => q.answer \in {"Proposed", "Confirmed"}
    /\ q.op \in {"addDate", "moveDate"} => q.start \in Starts
    /\ q.op = "nominate" => Mode[q.date] # "HostOnly"

Types ==
    /\ event \in [deleted : BOOLEAN, cancelled : BOOLEAN, archived : BOOLEAN]
    /\ people \in [Attendees -> [removed : BOOLEAN, status : Answers]]
    /\ list \in [Entries -> {"absent", "listed", "removed"}]
    /\ dates \in [Dates -> DateRows]
    /\ noms \in [Noms -> NomRows]
    /\ lineup \subseteq Games
    /\ clock \in 0 .. MaxClock
    /\ DOMAIN req = Reqs
    /\ \A r \in Reqs : req[r] = Idle \/ (req[r] \in Requests /\ Apt(req[r]))

(* A nomination's row agrees with its status. *)
NomSound(n) ==
    IF noms[n].status = "none" THEN noms[n] = NoRow
    ELSE /\ noms[n].entry \in Entries
         /\ noms[n].paused \in IF noms[n].status = "Paused" THEN Pausable ELSE {"none"}

-----------------------------------------------------------------------------
(* The rows a request holds, for itself alone or with others. *)

WritesEvent(q) ==
    q.step >= 1 /\ q.op \in DateOps \cup TransitionOps \cup LifecycleOps
ReadsEvent(q) == q.step >= 2 /\ q.op \in SettleOps \cup AttendeeOps \cup {"removeGame"}
WritesPerson(q, a) == q.step >= 1 /\ q.op \in AttendeeOps /\ q.who = a
WritesEntry(q, e) == q.step >= 1 /\ q.op \in {"addGame", "removeGame"} /\ q.entry = e
KeepsSupplier(q) == q.step >= 1 /\ q.op \in LineupOps \cup SettleOps
DropsDate(q, d) == q.step >= 2 /\ q.op = "removeDate" /\ q.date = d
KeepsDate(q, d) == q.step >= 2 /\ q.op \in LineupOps /\ q.date = d
WritesNom(q, n) ==
    \/ q.step >= 1 /\ q.op = "withdraw" /\ q.nom = n
    \/ q.step >= 3 /\ q.op \in SettleOps /\ q.nom = n
    \/ q.step >= 3 /\ q.op \in AttendeeOps \cup {"removeDate"} /\ n \in q.noms
KeepsNom(q, n) == q.step >= 1 /\ q.op = "vote" /\ q.nom = n

(* What q holds for itself alone, s does not hold. *)
Excludes(q, s) ==
    /\ WritesEvent(q) => ~WritesEvent(s) /\ ~ReadsEvent(s)
    /\ \A a \in Attendees : WritesPerson(q, a) =>
           ~WritesPerson(s, a) /\ ~(KeepsSupplier(s) /\ Owner[s.entry] = a)
    /\ \A e \in Entries : WritesEntry(q, e) =>
           ~WritesEntry(s, e) /\ ~(KeepsSupplier(s) /\ s.entry = e)
    /\ \A d \in Dates : DropsDate(q, d) => ~KeepsDate(s, d)
    /\ \A n \in Noms : WritesNom(q, n) => ~WritesNom(s, n) /\ ~KeepsNom(s, n)

Exclusion == \A r, s \in Reqs : r # s => Excludes(req[r], req[s])

-----------------------------------------------------------------------------
(* What a request has found under its locks, and relies on. *)

GoesOut(q) == q.op = "removeAttendee" \/ q.answer = "NotAttending"
Expected(op) == IF op = "resolve" THEN "Open" ELSE "AwaitingApproval"
Outcomes(op) == CASE op = "resolve" -> {"Passed", "Failed", "QuorumNotMet"}
                  [] op = "approve" -> {"Approved"}
                  [] OTHER -> {"Rejected"}

LineupFact(q) == q.step >= 1 => Supplies(q.entry)
NominateFact(q) == noms[q.nom].status = "none"
VoteFact(q) == /\ noms[q.nom].status # "none"
               /\ q.step >= 1 => noms[q.nom].status = "Open"
WithdrawFact(q) == /\ noms[q.nom].status # "none"
                   /\ q.step >= 1 => noms[q.nom].status \in Active
SettleFact(q) ==
    /\ noms[q.nom].status # "none" /\ noms[q.nom].entry = q.entry
    /\ q.step >= 3 =>
           /\ noms[q.nom].status = Expected(q.op)
           /\ q.outcome \in Outcomes(q.op)
           /\ q.outcome \in Won => Supplies(q.entry)
           /\ q.op = "resolve" => q.ballot = noms[q.nom].votes
AttendeeFact(q) ==
    /\ q.step >= 1 /\ q.op = "rsvp" => ~people[q.who].removed
    /\ q.step >= 3 =>
           /\ q.noms = ToSync(q)
           /\ GoesOut(q) =>
                  {g \in lineup : Owner[g.entry] = q.who /\ Ahead(dates, g, q.at)} \subseteq q.drop
RemoveGameFact(q) ==
    q.step >= 2 =>
        /\ \A n \in Noms : noms[n].entry = q.entry => noms[n].status \notin Active
        /\ \A g \in lineup : g.entry = q.entry => ~Ahead(dates, g, q.at)
DateFact(q) ==
    /\ q.step = Depth(q) => Swept(q) \subseteq q.drop
    /\ q.op = "addDate" /\ q.step >= 1 => ~event.cancelled
    /\ q.op = "moveDate" /\ q.step >= 1 => dates[q.date].status # "none"
    /\ q.op = "removeDate" /\ q.step >= 3 =>
           q.noms = Naming(q.date) /\ {g \in lineup : g.date = q.date} \subseteq q.drop
TransitionFact(q) ==
    q.step >= 1 => StillFrom(q) /\ (q.op = "confirm" => ~event.cancelled)

Fact(q) ==
    /\ q.op \in LineupOps => LineupFact(q)
    /\ q.op = "nominate" => NominateFact(q)
    /\ q.op = "vote" => VoteFact(q)
    /\ q.op = "withdraw" => WithdrawFact(q)
    /\ q.op \in SettleOps => SettleFact(q)
    /\ q.op \in AttendeeOps => AttendeeFact(q)
    /\ q.op = "removeGame" => RemoveGameFact(q)
    /\ q.op \in DateOps => DateFact(q)
    /\ q.op \in TransitionOps => TransitionFact(q)

(* No two nominations under way have one id. *)
NewIds == \A r, s \in Reqs : r # s /\ req[r].op = "nominate" /\ req[s].op = "nominate" =>
              req[r].nom # req[s].nom

(* The inductive invariant. *)
LineupInv ==
    /\ Types
    /\ \A n \in Noms : NomSound(n)
    /\ Exclusion
    /\ \A r \in Reqs : Fact(req[r])
    /\ NewIds
    /\ SomebodyBringsIt /\ PausedWhileOut /\ OnlyWonGames /\ CancelledIsOff

-----------------------------------------------------------------------------
(* The locks. *)

(* What Locks is, operation by operation. *)
LockTable(q) ==
    /\ q.op \in LineupOps =>
           Locks(q) = IF q.date = NoDate THEN <<OnSupplier(q)>>
                      ELSE <<OnSupplier(q), On(<<"date", q.date>>, "key")>>
    /\ q.op = "vote" => Locks(q) = <<OnNoms({q.nom}, "share")>>
    /\ q.op = "withdraw" => Locks(q) = <<OnNoms({q.nom}, "write")>>
    /\ q.op \in SettleOps =>
           Locks(q) = <<OnSupplier(q), On(EventRow, "share"), OnNoms({q.nom}, "delete")>>
    /\ q.op \in AttendeeOps =>
           Locks(q) = <<On(<<"attendee", q.who>>, "write"), On(EventRow, "share"),
                        OnNoms(IF q.step < 3 THEN ToSync(q) ELSE q.noms, "write")>>
    /\ q.op = "addGame" => Locks(q) = <<On(<<"entry", q.entry>>, "write")>>
    /\ q.op = "removeGame" =>
           Locks(q) = <<On(<<"entry", q.entry>>, "delete"), On(EventRow, "share")>>
    /\ q.op = "removeDate" =>
           Locks(q) = <<On(EventRow, "write"), On(<<"date", q.date>>, "delete"),
                        OnNoms(IF q.step < 3 THEN Naming(q.date) ELSE q.noms, "write")>>
    /\ q.op \in {"addDate", "moveDate"} \cup TransitionOps \cup LifecycleOps =>
           Locks(q) = <<On(EventRow, "write")>>

(* The table is what Locks says. *)
LEMMA LocksAre ==
    ASSUME NEW q
    PROVE  LockTable(q)
  BY DEF LockTable, Locks, SettleLocks, LineupOps, SettleOps, AttendeeOps, TransitionOps,
         LifecycleOps

(* How many locks there are. *)
LEMMA LocksCount ==
    ASSUME NEW q, q.op \in AllOps
    PROVE  Len(Locks(q)) = Depth(q)
<1>t. LockTable(q)
  BY LocksAre
<1>1. CASE q.op \in LineupOps
  BY <1>1, <1>t DEF LockTable, Depth, LineupOps
<1>2. CASE q.op \in SettleOps
  BY <1>2, <1>t DEF LockTable, Depth, LineupOps, SettleOps
<1>3. CASE q.op \in AttendeeOps
  BY <1>3, <1>t DEF LockTable, Depth, LineupOps, AttendeeOps
<1>4. CASE q.op \in {"removeGame", "removeDate"}
  BY <1>4, <1>t DEF LockTable, Depth, LineupOps, SettleOps, AttendeeOps
<1>5. CASE q.op \in {"vote", "withdraw", "addGame", "addDate", "moveDate"}
                    \cup TransitionOps \cup LifecycleOps
  BY <1>5, <1>t DEF LockTable, Depth, LineupOps, SettleOps, AttendeeOps, TransitionOps,
                    LifecycleOps
<1>6. QED BY <1>1, <1>2, <1>3, <1>4, <1>5 DEF AllOps, DateOps

(* At least one and at most three. *)
LEMMA DepthIs ==
    ASSUME NEW q
    PROVE  Depth(q) \in 1 .. 3
  BY DEF Depth

(* The number of each operation. *)
LEMMA Depths ==
    ASSUME NEW q, q.op \in AllOps
    PROVE  /\ q.op \in LineupOps => Depth(q) = IF q.date = NoDate THEN 1 ELSE 2
           /\ q.op \in SettleOps \cup AttendeeOps \cup {"removeDate"} => Depth(q) = 3
           /\ q.op = "removeGame" => Depth(q) = 2
           /\ q.op \in {"vote", "withdraw", "addGame", "addDate", "moveDate"}
                       \cup TransitionOps \cup LifecycleOps => Depth(q) = 1
  BY DEF Depth, LineupOps, SettleOps, AttendeeOps, TransitionOps, LifecycleOps

(* The locks held are the first of them. *)
LEMMA FirstsHeld ==
    ASSUME NEW q \in Requests
    PROVE  /\ q.step >= 1 => Locks(q)[1] \in Held(q)
           /\ q.step >= 2 => Locks(q)[2] \in Held(q)
           /\ q.step >= 3 => Locks(q)[3] \in Held(q)
  BY DEF Held, Requests

Has(q, row, modes) == \E h \in Held(q) : row \in h.on /\ h.mode \in modes

(* The row and mode of the lock behind each holding. *)
LEMMA HoldingsAreLocks ==
    ASSUME NEW q \in Requests, Apt(q)
    PROVE  /\ WritesEvent(q) => Has(q, EventRow, {"write"})
           /\ ReadsEvent(q) => Has(q, EventRow, {"share"})
           /\ \A a \in Attendees : WritesPerson(q, a) => Has(q, <<"attendee", a>>, {"write"})
           /\ \A e \in Entries : WritesEntry(q, e) => Has(q, <<"entry", e>>, {"write", "delete"})
           /\ KeepsSupplier(q) => /\ Has(q, <<"entry", q.entry>>, {"share"})
                                  /\ Has(q, <<"attendee", Owner[q.entry]>>, {"share"})
           /\ \A d \in Dates : DropsDate(q, d) => Has(q, <<"date", d>>, {"delete"})
           /\ \A d \in Dates : KeepsDate(q, d) => Has(q, <<"date", d>>, {"key"})
           /\ \A n \in Noms : WritesNom(q, n) => Has(q, <<"nom", n>>, {"write", "delete"})
           /\ \A n \in Noms : KeepsNom(q, n) => Has(q, <<"nom", n>>, {"share"})
<1>t. LockTable(q)
  BY LocksAre
<1>0. q.step \in 0 .. 3 /\ q.step <= Depth(q)
  BY DEF Requests, Apt
<1>1. WritesEvent(q) => Has(q, EventRow, {"write"})
  <2>1. WritesEvent(q) => Locks(q)[1] = On(EventRow, "write")
    BY <1>t DEF LockTable, WritesEvent, DateOps
  <2>2. QED BY <1>0, <2>1, FirstsHeld DEF WritesEvent, Has, On
<1>2. ReadsEvent(q) => Has(q, EventRow, {"share"})
  <2>1. ReadsEvent(q) => Locks(q)[2] = On(EventRow, "share")
    BY <1>t DEF LockTable, ReadsEvent
  <2>2. QED BY <1>0, <2>1, FirstsHeld DEF ReadsEvent, Has, On
<1>3. ASSUME NEW a \in Attendees, WritesPerson(q, a) PROVE Has(q, <<"attendee", a>>, {"write"})
  <2>1. Locks(q)[1] = On(<<"attendee", a>>, "write")
    BY <1>3, <1>t DEF LockTable, WritesPerson
  <2>2. QED BY <1>0, <1>3, <2>1, FirstsHeld DEF WritesPerson, Has, On
<1>4. ASSUME NEW e \in Entries, WritesEntry(q, e)
      PROVE  Has(q, <<"entry", e>>, {"write", "delete"})
  <2>1. Locks(q)[1] = On(<<"entry", e>>, "write") \/ Locks(q)[1] = On(<<"entry", e>>, "delete")
    BY <1>4, <1>t DEF LockTable, WritesEntry
  <2>2. QED BY <1>0, <1>4, <2>1, FirstsHeld DEF WritesEntry, Has, On
<1>5. KeepsSupplier(q) => /\ Has(q, <<"entry", q.entry>>, {"share"})
                          /\ Has(q, <<"attendee", Owner[q.entry]>>, {"share"})
  <2>1. KeepsSupplier(q) => Locks(q)[1] = OnSupplier(q)
    BY <1>t DEF LockTable, KeepsSupplier
  <2>2. QED BY <1>0, <2>1, FirstsHeld DEF KeepsSupplier, Has, OnSupplier
<1>6. ASSUME NEW d \in Dates, DropsDate(q, d) PROVE Has(q, <<"date", d>>, {"delete"})
  <2>1. Locks(q)[2] = On(<<"date", d>>, "delete")
    BY <1>6, <1>t DEF LockTable, DropsDate
  <2>2. QED BY <1>0, <1>6, <2>1, FirstsHeld DEF DropsDate, Has, On
<1>7. ASSUME NEW d \in Dates, KeepsDate(q, d) PROVE Has(q, <<"date", d>>, {"key"})
  <2>1. Locks(q)[2] = On(<<"date", d>>, "key")
    BY <1>7, <1>t DEF LockTable, KeepsDate
  <2>2. QED BY <1>0, <1>7, <2>1, FirstsHeld DEF KeepsDate, Has, On
<1>8. ASSUME NEW n \in Noms, WritesNom(q, n) PROVE Has(q, <<"nom", n>>, {"write", "delete"})
  <2>1. CASE q.step >= 1 /\ q.op = "withdraw" /\ q.nom = n
    <3>1. Locks(q)[1] = OnNoms({n}, "write")
      BY <2>1, <1>t DEF LockTable
    <3>2. QED BY <1>0, <2>1, <3>1, FirstsHeld DEF Has, OnNoms
  <2>2. CASE q.step >= 3 /\ q.op \in SettleOps /\ q.nom = n
    <3>1. Locks(q)[3] = OnNoms({n}, "delete")
      BY <2>2, <1>t DEF LockTable
    <3>2. QED BY <1>0, <2>2, <3>1, FirstsHeld DEF Has, OnNoms
  <2>3. CASE q.step >= 3 /\ q.op \in AttendeeOps \cup {"removeDate"} /\ n \in q.noms
    <3>1. Locks(q)[3] = OnNoms(q.noms, "write")
      BY <1>0, <2>3, <1>t DEF LockTable
    <3>2. QED BY <1>0, <2>3, <3>1, FirstsHeld DEF Has, OnNoms
  <2>4. QED BY <1>8, <2>1, <2>2, <2>3 DEF WritesNom
<1>9. ASSUME NEW n \in Noms, KeepsNom(q, n) PROVE Has(q, <<"nom", n>>, {"share"})
  <2>1. Locks(q)[1] = OnNoms({n}, "share")
    BY <1>9, <1>t DEF LockTable, KeepsNom
  <2>2. QED BY <1>0, <1>9, <2>1, FirstsHeld DEF KeepsNom, Has, OnNoms
<1>10. QED BY <1>1, <1>2, <1>3, <1>4, <1>5, <1>6, <1>7, <1>8, <1>9

(* The next lock of q. *)
Takes(q, row, modes) ==
    row \in Locks(q)[q.step + 1].on /\ Locks(q)[q.step + 1].mode \in modes

(* q after its next lock. *)
Advances(q, k) ==
    /\ k.op = q.op /\ k.who = q.who /\ k.entry = q.entry /\ k.nom = q.nom /\ k.date = q.date
    /\ k.answer = q.answer /\ k.start = q.start /\ k.at = q.at
    /\ k.step = q.step + 1 /\ k.step <= Depth(q)
    /\ q.op \in AttendeeOps /\ k.step = 3 => k.noms = ToSync(q)
    /\ q.op = "removeDate" /\ k.step = 3 => k.noms = Naming(q.date)

(* A holding that is new after a lock is one the lock takes. *)
LEMMA NewHoldingsAreTaken ==
    ASSUME NEW q \in Requests, NEW k, Advances(q, k)
    PROVE  /\ WritesEvent(k) => WritesEvent(q) \/ Takes(q, EventRow, {"write"})
           /\ ReadsEvent(k) => ReadsEvent(q) \/ Takes(q, EventRow, {"share"})
           /\ \A a \in Attendees : WritesPerson(k, a) =>
                  WritesPerson(q, a) \/ Takes(q, <<"attendee", a>>, {"write"})
           /\ \A e \in Entries : WritesEntry(k, e) =>
                  WritesEntry(q, e) \/ Takes(q, <<"entry", e>>, {"write", "delete"})
           /\ KeepsSupplier(k) => KeepsSupplier(q) \/
                  /\ Takes(q, <<"entry", k.entry>>, {"share"})
                  /\ Takes(q, <<"attendee", Owner[k.entry]>>, {"share"})
           /\ \A d \in Dates : DropsDate(k, d) =>
                  DropsDate(q, d) \/ Takes(q, <<"date", d>>, {"delete"})
           /\ \A d \in Dates : KeepsDate(k, d) =>
                  KeepsDate(q, d) \/ Takes(q, <<"date", d>>, {"key"})
           /\ \A n \in Noms : WritesNom(k, n) =>
                  WritesNom(q, n) \/ Takes(q, <<"nom", n>>, {"write", "delete"})
           /\ \A n \in Noms : KeepsNom(k, n) =>
                  KeepsNom(q, n) \/ Takes(q, <<"nom", n>>, {"share"})
<1>t. LockTable(q)
  BY LocksAre
<1>0. q.step \in 0 .. 3 /\ k.step = q.step + 1 /\ k.op = q.op
  BY DEF Requests, Advances
<1>1. WritesEvent(k) => WritesEvent(q) \/ Takes(q, EventRow, {"write"})
  BY <1>0, <1>t DEF LockTable, WritesEvent, DateOps, Takes, On
<1>2. ReadsEvent(k) => ReadsEvent(q) \/ Takes(q, EventRow, {"share"})
  BY <1>0, <1>t DEF LockTable, ReadsEvent, Takes, On
<1>3. ASSUME NEW a \in Attendees, WritesPerson(k, a), ~WritesPerson(q, a)
      PROVE  Takes(q, <<"attendee", a>>, {"write"})
  BY <1>0, <1>3, <1>t DEF LockTable, Advances, WritesPerson, Takes, On
<1>4. ASSUME NEW e \in Entries, WritesEntry(k, e), ~WritesEntry(q, e)
      PROVE  Takes(q, <<"entry", e>>, {"write", "delete"})
  BY <1>0, <1>4, <1>t DEF LockTable, Advances, WritesEntry, Takes, On
<1>5. KeepsSupplier(k) => KeepsSupplier(q) \/
          /\ Takes(q, <<"entry", k.entry>>, {"share"})
          /\ Takes(q, <<"attendee", Owner[k.entry]>>, {"share"})
  BY <1>0, <1>t DEF LockTable, Advances, KeepsSupplier, Takes, OnSupplier
<1>6. ASSUME NEW d \in Dates, DropsDate(k, d), ~DropsDate(q, d)
      PROVE  Takes(q, <<"date", d>>, {"delete"})
  BY <1>0, <1>6, <1>t DEF LockTable, Advances, DropsDate, Takes, On
<1>7. ASSUME NEW d \in Dates, KeepsDate(k, d), ~KeepsDate(q, d)
      PROVE  Takes(q, <<"date", d>>, {"key"})
  BY <1>0, <1>7, <1>t DEF LockTable, Advances, KeepsDate, Takes, On
<1>8. ASSUME NEW n \in Noms, WritesNom(k, n), ~WritesNom(q, n)
      PROVE  Takes(q, <<"nom", n>>, {"write", "delete"})
  <2>1. CASE k.step >= 1 /\ k.op = "withdraw" /\ k.nom = n
    BY <1>0, <1>8, <2>1, <1>t DEF LockTable, Advances, WritesNom, Takes, OnNoms
  <2>2. CASE k.step >= 3 /\ k.op \in SettleOps /\ k.nom = n
    <3>1. q.step = 2 /\ Locks(q)[3] = OnNoms({n}, "delete")
      BY <1>0, <1>8, <2>2, <1>t DEF LockTable, Advances, WritesNom
    <3>2. QED BY <3>1 DEF Takes, OnNoms
  <2>3. CASE k.step >= 3 /\ k.op \in AttendeeOps \cup {"removeDate"} /\ n \in k.noms
    <3>1. q.step = 2
      BY <1>0, <2>3 DEF Advances, Depth, LineupOps, SettleOps, AttendeeOps
    <3>2. Locks(q)[3] = OnNoms(k.noms, "write")
      BY <1>0, <3>1, <2>3, <1>t DEF LockTable, Advances
    <3>3. QED BY <2>3, <3>1, <3>2 DEF Takes, OnNoms
  <2>4. QED BY <1>8, <2>1, <2>2, <2>3 DEF WritesNom
<1>9. ASSUME NEW n \in Noms, KeepsNom(k, n), ~KeepsNom(q, n)
      PROVE  Takes(q, <<"nom", n>>, {"share"})
  BY <1>0, <1>9, <1>t DEF LockTable, Advances, KeepsNom, Takes, OnNoms
<1>10. QED BY <1>1, <1>2, <1>3, <1>4, <1>5, <1>6, <1>7, <1>8, <1>9

(* A request that does not wait takes no row that another holds against it. *)
LEMMA NotWaiting ==
    ASSUME NEW r, NEW s, r # s, ~WaitsFor(r, s),
           req[r].op # "idle", req[r].step < Len(Locks(req[r])),
           NEW row, NEW taken, NEW held, Takes(req[r], row, taken),
           \A x \in taken, y \in held : Conflict(y, x)
    PROVE  ~Has(req[s], row, held)
  BY DEF WaitsFor, Takes, Has

(* A request before its first lock holds nothing. *)
LEMMA NothingHeld ==
    ASSUME NEW q, NEW s, q.step = 0
    PROVE  Excludes(q, s) /\ Excludes(s, q)
  BY DEF Excludes, WritesEvent, ReadsEvent, WritesPerson, WritesEntry, KeepsSupplier,
         DropsDate, KeepsDate, WritesNom, KeepsNom

(* Locking keeps every holding exclusive. *)
LEMMA LockExcludes ==
    ASSUME NEW r \in Reqs, NEW s \in Reqs, r # s, ~WaitsFor(r, s),
           req[r] \in Requests, Apt(req[r]), req[s] \in Requests, Apt(req[s]),
           NEW k, Advances(req[r], k),
           Excludes(req[r], req[s]), Excludes(req[s], req[r])
    PROVE  Excludes(k, req[s]) /\ Excludes(req[s], k)
<1> DEFINE q == req[r]
           t == req[s]
<1>1. q.op \in AllOps /\ q.op # "idle" /\ q.step \in 0 .. 3 /\ q.step + 1 <= Depth(q)
      /\ k.entry = q.entry /\ k.op = q.op /\ k.step = q.step + 1
  BY DEF Requests, Advances, AllOps, AttendeeOps, LineupOps, SettleOps, TransitionOps,
         LifecycleOps, DateOps
<1>2. q.step < Len(Locks(q))
  BY <1>1, LocksCount, DepthIs
<1>3. ASSUME NEW row, NEW taken, NEW held, Takes(q, row, taken),
             \A x \in taken, y \in held : Conflict(y, x)
      PROVE  ~Has(t, row, held)
  BY <1>1, <1>2, <1>3, NotWaiting
<1>4. /\ KeepsSupplier(k) => k.entry \in Entries /\ Owner[k.entry] \in Attendees
      /\ KeepsSupplier(t) => t.entry \in Entries /\ Owner[t.entry] \in Attendees
  BY <1>1 DEF KeepsSupplier, Apt
<1> HIDE DEF q, t
<1>5. Excludes(k, t)
  <2>1. WritesEvent(k) => ~WritesEvent(t) /\ ~ReadsEvent(t)
    <3>1. Takes(q, EventRow, {"write"}) => ~Has(t, EventRow, {"write"}) /\ ~Has(t, EventRow, {"share"})
      BY <1>3 DEF Conflict
    <3>2. QED BY <3>1, HoldingsAreLocks, NewHoldingsAreTaken DEF Excludes, q, t
  <2>2. ASSUME NEW a \in Attendees, WritesPerson(k, a)
        PROVE  ~WritesPerson(t, a) /\ ~(KeepsSupplier(t) /\ Owner[t.entry] = a)
    <3>1. Takes(q, <<"attendee", a>>, {"write"}) =>
              ~Has(t, <<"attendee", a>>, {"write"}) /\ ~Has(t, <<"attendee", a>>, {"share"})
      BY <1>3 DEF Conflict
    <3>2. QED BY <2>2, <3>1, HoldingsAreLocks, NewHoldingsAreTaken DEF Excludes, q, t
  <2>3. ASSUME NEW e \in Entries, WritesEntry(k, e)
        PROVE  ~WritesEntry(t, e) /\ ~(KeepsSupplier(t) /\ t.entry = e)
    <3>1. Takes(q, <<"entry", e>>, {"write", "delete"}) =>
              ~Has(t, <<"entry", e>>, {"write", "delete"}) /\ ~Has(t, <<"entry", e>>, {"share"})
      BY <1>3 DEF Conflict
    <3>2. QED BY <2>3, <3>1, HoldingsAreLocks, NewHoldingsAreTaken DEF Excludes, q, t
  <2>4. ASSUME NEW d \in Dates, DropsDate(k, d) PROVE ~KeepsDate(t, d)
    <3>1. Takes(q, <<"date", d>>, {"delete"}) => ~Has(t, <<"date", d>>, {"key"})
      BY <1>3 DEF Conflict
    <3>2. QED BY <2>4, <3>1, HoldingsAreLocks, NewHoldingsAreTaken DEF Excludes, q, t
  <2>5. ASSUME NEW n \in Noms, WritesNom(k, n) PROVE ~WritesNom(t, n) /\ ~KeepsNom(t, n)
    <3>1. Takes(q, <<"nom", n>>, {"write", "delete"}) =>
              ~Has(t, <<"nom", n>>, {"write", "delete"}) /\ ~Has(t, <<"nom", n>>, {"share"})
      BY <1>3 DEF Conflict
    <3>2. QED BY <2>5, <3>1, HoldingsAreLocks, NewHoldingsAreTaken DEF Excludes, q, t
  <2>6. QED BY <2>1, <2>2, <2>3, <2>4, <2>5 DEF Excludes
<1>6. Excludes(t, k)
  <2>1. WritesEvent(t) => ~WritesEvent(k) /\ ~ReadsEvent(k)
    <3>1. Has(t, EventRow, {"write"}) =>
              ~Takes(q, EventRow, {"write"}) /\ ~Takes(q, EventRow, {"share"})
      BY <1>3 DEF Conflict
    <3>2. QED BY <3>1, HoldingsAreLocks, NewHoldingsAreTaken DEF Excludes, q, t
  <2>2. ASSUME NEW a \in Attendees, WritesPerson(t, a)
        PROVE  ~WritesPerson(k, a) /\ ~(KeepsSupplier(k) /\ Owner[k.entry] = a)
    <3>1. Has(t, <<"attendee", a>>, {"write"}) =>
              ~Takes(q, <<"attendee", a>>, {"write"}) /\ ~Takes(q, <<"attendee", a>>, {"share"})
      BY <1>3 DEF Conflict
    <3>2. QED BY <1>1, <2>2, <3>1, HoldingsAreLocks, NewHoldingsAreTaken DEF Excludes, q, t
  <2>3. ASSUME NEW e \in Entries, WritesEntry(t, e)
        PROVE  ~WritesEntry(k, e) /\ ~(KeepsSupplier(k) /\ k.entry = e)
    <3>1. Has(t, <<"entry", e>>, {"write", "delete"}) =>
              ~Takes(q, <<"entry", e>>, {"write", "delete"}) /\ ~Takes(q, <<"entry", e>>, {"share"})
      BY <1>3 DEF Conflict
    <3>2. QED BY <1>1, <2>3, <3>1, HoldingsAreLocks, NewHoldingsAreTaken DEF Excludes, q, t
  <2>4. ASSUME NEW d \in Dates, DropsDate(t, d) PROVE ~KeepsDate(k, d)
    <3>1. Has(t, <<"date", d>>, {"delete"}) => ~Takes(q, <<"date", d>>, {"key"})
      BY <1>3 DEF Conflict
    <3>2. QED BY <2>4, <3>1, HoldingsAreLocks, NewHoldingsAreTaken DEF Excludes, q, t
  <2>5. ASSUME NEW n \in Noms, WritesNom(t, n) PROVE ~WritesNom(k, n) /\ ~KeepsNom(k, n)
    <3>1. Has(t, <<"nom", n>>, {"write", "delete"}) =>
              ~Takes(q, <<"nom", n>>, {"write", "delete"}) /\ ~Takes(q, <<"nom", n>>, {"share"})
      BY <1>3 DEF Conflict
    <3>2. QED BY <2>5, <3>1, HoldingsAreLocks, NewHoldingsAreTaken DEF Excludes, q, t
  <2>6. QED BY <2>1, <2>2, <2>3, <2>4, <2>5 DEF Excludes
<1>7. QED BY <1>5, <1>6 DEF t

-----------------------------------------------------------------------------
(* Lock order. *)

(* The order in which rows are locked. *)
Level(row) == CASE row[1] \in {"attendee", "entry"} -> 1
                [] row[1] = "event" -> 2
                [] row[1] = "date" -> 3
                [] OTHER -> 4

(* Every row a transaction holds comes before the next it takes. *)
LEMMA LocksClimb ==
    ASSUME NEW q \in Requests, q.step < Depth(q),
           NEW h \in Held(q), NEW x \in h.on, NEW y \in Locks(q)[q.step + 1].on
    PROVE  Level(x) \in Nat /\ Level(y) \in Nat /\ Level(x) < Level(y)
<1>t. LockTable(q)
  BY LocksAre
<1>0. q.step \in 0 .. 3 /\ q.op \in AllOps
  BY DEF Requests
<1>1. PICK i \in 1 .. q.step : h = Locks(q)[i]
  BY DEF Held
<1>2. /\ \A row \in On(EventRow, "write").on \cup On(EventRow, "share").on : Level(row) = 2
      /\ \A z : \A row \in On(<<"attendee", z>>, "write").on : Level(row) = 1
      /\ \A z : \A row \in On(<<"entry", z>>, "delete").on : Level(row) = 1
      /\ \A z : \A row \in On(<<"date", z>>, "delete").on \cup On(<<"date", z>>, "key").on :
             Level(row) = 3
      /\ \A z, mode : \A row \in OnNoms(z, mode).on : Level(row) = 4
      /\ \A row \in OnSupplier(q).on : Level(row) = 1
  BY DEF Level, On, OnNoms, OnSupplier, EventRow
<1>3. CASE q.op \in LineupOps
  <2>1. q.step = 1 /\ q.date # NoDate
    <3>1. Depth(q) = IF q.date = NoDate THEN 1 ELSE 2
      BY <1>3 DEF Depth, LineupOps, SettleOps, AttendeeOps
    <3>2. q.step >= 1
      BY <1>0, <1>1
    <3>3. QED BY <1>0, <3>1, <3>2
  <2>2. QED BY <1>1, <1>2, <1>3, <2>1, <1>t DEF LockTable
<1>4. CASE q.op \in SettleOps
  <2>1. q.step \in 1 .. 2
    BY <1>0, <1>1, <1>4 DEF Depth, LineupOps, SettleOps
  <2>2. QED BY <1>1, <1>2, <1>4, <2>1, <1>t DEF LockTable
<1>5. CASE q.op \in AttendeeOps
  <2>1. q.step \in 1 .. 2
    BY <1>0, <1>1, <1>5 DEF Depth, LineupOps, AttendeeOps
  <2>2. QED BY <1>1, <1>2, <1>5, <2>1, <1>t DEF LockTable
<1>6. CASE q.op = "removeDate"
  <2>1. q.step \in 1 .. 2
    BY <1>0, <1>1, <1>6 DEF Depth, LineupOps, AttendeeOps
  <2>2. QED BY <1>1, <1>2, <1>6, <2>1, <1>t DEF LockTable
<1>7. CASE q.op = "removeGame"
  <2>1. q.step = 1
    BY <1>0, <1>1, <1>7 DEF Depth, LineupOps, SettleOps, AttendeeOps
  <2>2. QED BY <1>1, <1>2, <1>7, <2>1, <1>t DEF LockTable
<1>8. CASE q.op \in {"vote", "withdraw", "addGame", "addDate", "moveDate"}
                    \cup TransitionOps \cup LifecycleOps
  <2>1. q.step = 0
    BY <1>0, <1>8 DEF Depth, LineupOps, SettleOps, AttendeeOps, TransitionOps, LifecycleOps
  <2>2. QED BY <1>1, <2>1
<1>9. QED BY <1>0, <1>3, <1>4, <1>5, <1>6, <1>7, <1>8 DEF AllOps, DateOps

(* So no two requests wait for each other. *)
LEMMA WaitsClimb ==
    ASSUME Types
    PROVE  NoWaitCycle
<1> SUFFICES ASSUME NEW r \in Reqs, NEW s \in Reqs, WaitsFor(r, s), WaitsFor(s, r)
             PROVE  FALSE
  BY DEF NoWaitCycle
<1> DEFINE q == req[r]
           t == req[s]
<1>1. q \in Requests /\ t \in Requests
  BY DEF Types, WaitsFor, Idle
<1>2. q.step < Depth(q) /\ t.step < Depth(t)
  <2>1. q.op \in AllOps /\ t.op \in AllOps
    BY <1>1 DEF Requests
  <2>2. QED BY <2>1, LocksCount DEF WaitsFor
<1>3. PICK h \in Held(t) : h.on \cap Locks(q)[q.step + 1].on # {}
  BY DEF WaitsFor
<1>4. PICK g \in Held(q) : g.on \cap Locks(t)[t.step + 1].on # {}
  BY DEF WaitsFor
<1>5. PICK x : x \in h.on /\ x \in Locks(q)[q.step + 1].on
  BY <1>3
<1>6. PICK y : y \in g.on /\ y \in Locks(t)[t.step + 1].on
  BY <1>4
<1> HIDE DEF q, t
<1>7. Level(x) \in Nat /\ Level(y) \in Nat /\ Level(x) < Level(y)
  BY <1>1, <1>2, <1>3, <1>5, <1>6, LocksClimb
<1>8. Level(y) < Level(x)
  BY <1>1, <1>2, <1>4, <1>5, <1>6, LocksClimb
<1>9. QED BY <1>7, <1>8

-----------------------------------------------------------------------------
(* What a commit changes, and by which holdings. *)

(* q makes nomination n. *)
Makes(q, n) ==
    /\ q.op = "nominate" /\ q.nom = n /\ noms[n].status = "none" /\ KeepsSupplier(q)
    /\ q.date # NoDate => KeepsDate(q, q.date)
    /\ noms'[n].status \in Pausable \cup {"Passed"} /\ noms'[n].paused = "none"
    /\ noms'[n].entry = q.entry /\ noms'[n].date = q.date
    /\ Mode[q.date] = "Direct" => noms'[n].status = "Passed"

(* The row of n keeps everything but its votes. *)
VotesOn(q, n) ==
    /\ KeepsNom(q, n) /\ q.op = "vote" /\ noms[n].status = "Open"
    /\ noms'[n].status = noms[n].status /\ noms'[n].paused = noms[n].paused
    /\ noms'[n].entry = noms[n].entry /\ noms'[n].date = noms[n].date

(* q gives n its outcome. *)
Closes(q, n) ==
    /\ WritesNom(q, n) /\ q.op \in SettleOps \cup {"withdraw"} /\ q.nom = n
    /\ noms[n].status \in Active /\ noms'[n].status \in Settled /\ noms'[n].paused = "none"
    /\ q.op = "withdraw" => noms'[n].status = "Withdrawn"
    /\ q.op \in SettleOps => noms[n].status = Expected(q.op) /\ noms'[n].status = q.outcome
    /\ noms'[n].entry = noms[n].entry /\ noms'[n].date = noms[n].date
    /\ noms'[n].votes = noms[n].votes

(* q pauses or resumes n with its supplier. *)
Syncs(q, n) ==
    /\ WritesNom(q, n) /\ q.op \in AttendeeOps /\ Owner[noms[n].entry] = q.who
    /\ IF GoesOut(q)
       THEN noms[n].status \in Pausable /\ noms'[n].status = "Paused"
            /\ noms'[n].paused = noms[n].status
       ELSE noms[n].status = "Paused" /\ noms'[n].status = noms[n].paused
            /\ noms'[n].paused = "none"
    /\ noms'[n].entry = noms[n].entry /\ noms'[n].date = noms[n].date
    /\ noms'[n].votes = noms[n].votes

(* q takes the date of n away. *)
Undates(q, n) ==
    /\ WritesNom(q, n) /\ WritesEvent(q) /\ q.op = "removeDate" /\ noms[n].date = q.date
    /\ noms[n].status # "none" /\ noms'[n].date = NoDate
    /\ noms'[n].status = noms[n].status /\ noms'[n].paused = noms[n].paused
    /\ noms'[n].entry = noms[n].entry /\ noms'[n].votes = noms[n].votes

(* q puts g on the lineup. *)
PutsOn(q, g) ==
    /\ KeepsSupplier(q) /\ g.entry = q.entry /\ Supplies(q.entry)
    /\ \/ /\ q.op \in LineupOps /\ g.date = q.date
          /\ g.date # NoDate => KeepsDate(q, g.date)
          /\ g.nom # NoNom => q.op = "nominate" /\ g.nom = q.nom /\ Mode[q.date] = "Direct"
       \/ /\ q.op \in SettleOps /\ WritesNom(q, q.nom) /\ g.date = noms[q.nom].date
          /\ g.nom = q.nom /\ q.outcome \in Won

Effects(q) ==
    /\ \A a \in Attendees : people'[a] # people[a] => WritesPerson(q, a) /\ ReadsEvent(q)
    /\ \A e \in Entries : list'[e] # list[e] => WritesEntry(q, e)
    /\ \A e \in Entries : list[e] = "listed" /\ list'[e] # "listed" => ReadsEvent(q)
    /\ dates' # dates => WritesEvent(q)
    /\ event' # event => WritesEvent(q)
    /\ \A n \in Noms : noms'[n] = noms[n] \/ Makes(q, n) \/ VotesOn(q, n) \/ Closes(q, n)
                        \/ Syncs(q, n) \/ Undates(q, n)
    /\ \A g \in lineup' : g \in lineup \/ PutsOn(q, g)

(* A request that commits holds every lock of its operation. *)
LEMMA Committing ==
    ASSUME LineupInv, NEW r \in Reqs, Commit(r)
    PROVE  /\ req[r] \in Requests /\ Apt(req[r]) /\ Fact(req[r])
           /\ req[r].op \in AllOps /\ req[r].step = Depth(req[r])
<1>1. req[r] \in Requests /\ Apt(req[r]) /\ Fact(req[r])
  BY DEF LineupInv, Types, Commit, Idle
<1>2. req[r].op \in AllOps
  BY <1>1 DEF Requests
<1>3. QED BY <1>1, <1>2, LocksCount DEF Commit

(* Going out, as the write leaves the attendee's row. *)
LEMMA WrittenOut ==
    ASSUME NEW q \in Requests, Types, Apt(q), q.op \in AttendeeOps, AttendeeFact(q), q.step = 3
    PROVE  /\ WrittenPerson(q) \in [removed : BOOLEAN, status : Answers]
           /\ Out(WrittenPerson(q)) <=> GoesOut(q)
<1>1. q.who \in Attendees /\ people[q.who] \in [removed : BOOLEAN, status : Answers]
  BY DEF Types, Apt
<1>2. CASE q.op = "rsvp"
  <2>1. ~people[q.who].removed /\ q.answer \in Answers
    BY <1>2 DEF AttendeeFact, Apt
  <2>2. WrittenPerson(q) = [people[q.who] EXCEPT !.status = q.answer]
    BY <1>2 DEF WrittenPerson
  <2>3. QED BY <1>1, <1>2, <2>1, <2>2 DEF Out, GoesOut
<1>3. CASE q.op = "removeAttendee"
  <2>1. WrittenPerson(q) = [people[q.who] EXCEPT !.removed = TRUE]
    BY <1>3 DEF WrittenPerson
  <2>2. QED BY <1>1, <1>3, <2>1 DEF Out, GoesOut
<1>4. CASE q.op = "addAttendee"
  <2>1. WrittenPerson(q) = [removed |-> FALSE, status |-> q.answer] /\ q.answer \in Answers
    BY <1>4 DEF WrittenPerson, Person, Apt
  <2>2. QED BY <1>4, <2>1 DEF Out, GoesOut
<1>5. QED BY <1>2, <1>3, <1>4 DEF AttendeeOps

(* What a commit writes, operation by operation. *)
WriteTable(q) ==
    /\ q.op \in AttendeeOps => people' = [people EXCEPT ![q.who] = WrittenPerson(q)]
    /\ q.op \notin AttendeeOps => people' = people
    /\ q.op = "addGame" => list' = [list EXCEPT ![q.entry] = "listed"]
    /\ q.op = "removeGame" => list' = [list EXCEPT ![q.entry] = "removed"]
    /\ q.op \notin {"addGame", "removeGame"} => list' = list
    /\ q.op \in DateOps => dates' = WrittenDates(q)
    /\ q.op \in TransitionOps => dates' = [dates EXCEPT ![q.date].status = To(q.op)]
    /\ q.op = "cancel" => dates' = CalledOff /\ event' = [event EXCEPT !.cancelled = TRUE]
    /\ q.op \notin DateOps \cup TransitionOps \cup {"cancel"} => dates' = dates
    /\ q.op = "reopen" => event' = [event EXCEPT !.cancelled = FALSE]
    /\ q.op = "archive" => event' = [event EXCEPT !.archived = TRUE]
    /\ q.op = "unarchive" => event' = [event EXCEPT !.archived = FALSE]
    /\ q.op = "delete" => event' = [event EXCEPT !.deleted = TRUE]
    /\ q.op \notin LifecycleOps => event' = event
    /\ q.op = "nominate" =>
           noms' = [noms EXCEPT ![q.nom] = [NoRow EXCEPT !.status = Initial(Mode[q.date]),
                                                         !.entry = q.entry, !.date = q.date]]
    /\ q.op = "vote" => noms' = [noms EXCEPT ![q.nom].votes[q.who] = q.answer]
    /\ q.op = "withdraw" => noms' = [noms EXCEPT ![q.nom] = Withdrawn(noms[q.nom])]
    /\ q.op \in SettleOps => noms' = [noms EXCEPT ![q.nom].status = q.outcome]
    /\ q.op \in AttendeeOps => noms' = Synced(q)
    /\ q.op = "removeDate" =>
           noms' = [n \in Noms |-> IF n \in q.noms THEN [noms[n] EXCEPT !.date = NoDate]
                                                   ELSE noms[n]]
    /\ q.op \notin SettleOps \cup AttendeeOps \cup {"nominate", "vote", "withdraw", "removeDate"}
           => noms' = noms
    /\ lineup' = (lineup \ q.drop) \cup Added(q)
    /\ q.op = "nominate" =>
           Added(q) = IF Mode[q.date] = "Direct" THEN {Game(q.entry, q.date, q.nom)} ELSE {}
    /\ q.op = "directAdd" => Added(q) = {Game(q.entry, q.date, NoNom)}
    /\ q.op \in SettleOps =>
           Added(q) = IF q.outcome \in Won THEN {Game(q.entry, noms[q.nom].date, q.nom)} ELSE {}
    /\ q.op \notin LineupOps \cup SettleOps => Added(q) = {}

(* The table is what Commit says. *)
LEMMA CommitWrites ==
    ASSUME NEW r, Commit(r)
    PROVE  WriteTable(req[r]) /\ req' = [req EXCEPT ![r] = Idle] /\ clock' = clock
<1> DEFINE q == req[r]
<1>1. req' = [req EXCEPT ![r] = Idle] /\ clock' = clock
  BY DEF Commit
<1>2. /\ q.op \in AttendeeOps => people' = [people EXCEPT ![q.who] = WrittenPerson(q)]
      /\ q.op \notin AttendeeOps => people' = people
  BY DEF Commit
<1>3. /\ q.op = "addGame" => list' = [list EXCEPT ![q.entry] = "listed"]
      /\ q.op = "removeGame" => list' = [list EXCEPT ![q.entry] = "removed"]
      /\ q.op \notin {"addGame", "removeGame"} => list' = list
  BY DEF Commit
<1>4. /\ q.op \in DateOps => dates' = WrittenDates(q)
      /\ q.op \in TransitionOps => dates' = [dates EXCEPT ![q.date].status = To(q.op)]
      /\ q.op = "cancel" => dates' = CalledOff
      /\ q.op \notin DateOps \cup TransitionOps \cup {"cancel"} => dates' = dates
  BY DEF Commit, DateOps, TransitionOps
<1>5. /\ q.op = "cancel" => event' = [event EXCEPT !.cancelled = TRUE]
      /\ q.op = "reopen" => event' = [event EXCEPT !.cancelled = FALSE]
      /\ q.op = "archive" => event' = [event EXCEPT !.archived = TRUE]
      /\ q.op = "unarchive" => event' = [event EXCEPT !.archived = FALSE]
      /\ q.op = "delete" => event' = [event EXCEPT !.deleted = TRUE]
      /\ q.op \notin LifecycleOps => event' = event
  BY DEF Commit, LifecycleOps
<1>6. noms' = WrittenNoms(q) /\ lineup' = (lineup \ q.drop) \cup Added(q)
  BY DEF Commit
<1> HIDE DEF q
<1>7. /\ q.op = "nominate" =>
             noms' = [noms EXCEPT ![q.nom] = [NoRow EXCEPT !.status = Initial(Mode[q.date]),
                                                           !.entry = q.entry, !.date = q.date]]
      /\ q.op = "vote" => noms' = [noms EXCEPT ![q.nom].votes[q.who] = q.answer]
      /\ q.op = "withdraw" => noms' = [noms EXCEPT ![q.nom] = Withdrawn(noms[q.nom])]
      /\ q.op \in SettleOps => noms' = [noms EXCEPT ![q.nom].status = q.outcome]
  BY <1>6 DEF WrittenNoms, SettleOps, AttendeeOps
<1>8. /\ q.op \in AttendeeOps => noms' = Synced(q)
      /\ q.op = "removeDate" =>
             noms' = [n \in Noms |-> IF n \in q.noms THEN [noms[n] EXCEPT !.date = NoDate]
                                                     ELSE noms[n]]
      /\ q.op \notin SettleOps \cup AttendeeOps \cup {"nominate", "vote", "withdraw", "removeDate"}
             => noms' = noms
  BY <1>6 DEF WrittenNoms, SettleOps, AttendeeOps
<1>9. /\ q.op = "nominate" =>
             Added(q) = IF Mode[q.date] = "Direct" THEN {Game(q.entry, q.date, q.nom)} ELSE {}
      /\ q.op = "directAdd" => Added(q) = {Game(q.entry, q.date, NoNom)}
      /\ q.op \in SettleOps =>
             Added(q) = IF q.outcome \in Won THEN {Game(q.entry, noms[q.nom].date, q.nom)} ELSE {}
      /\ q.op \notin LineupOps \cup SettleOps => Added(q) = {}
  BY DEF Added, ElevatesTo, SettleOps, LineupOps
<1>10. WriteTable(q)
  BY <1>2, <1>3, <1>4, <1>5, <1>6, <1>7, <1>8, <1>9 DEF WriteTable, q
<1>11. QED BY <1>1, <1>10 DEF q

(* The nominations a commit touches. *)
LEMMA CommitNoms ==
    ASSUME LineupInv, NEW q \in Requests, Apt(q), Fact(q), q.step = Depth(q), WriteTable(q),
           NEW n \in Noms
    PROVE  noms'[n] = noms[n] \/ Makes(q, n) \/ VotesOn(q, n) \/ Closes(q, n)
           \/ Syncs(q, n) \/ Undates(q, n)
<1>0. noms \in [Noms -> NomRows] /\ q.op \in AllOps /\ Types /\ NomSound(n)
  BY DEF LineupInv, Types, Requests
<1>1. CASE q.op = "nominate"
  <2>1. q.nom \in Noms /\ noms[q.nom].status = "none" /\ Mode[q.date] # "HostOnly"
        /\ q.date \in Places
    BY <1>1 DEF Apt, Fact, NominateFact, Requests
  <2>2. KeepsSupplier(q) /\ (q.date # NoDate => KeepsDate(q, q.date))
    BY <1>0, <1>1, Depths DEF KeepsSupplier, KeepsDate, LineupOps
  <2>3. noms' = [noms EXCEPT ![q.nom] = [NoRow EXCEPT !.status = Initial(Mode[q.date]),
                                                      !.entry = q.entry, !.date = q.date]]
    BY <1>1 DEF WriteTable
  <2>4. Mode[q.date] \in {"Direct", "RequiresVote", "HostApproval"}
    BY <2>1
  <2>5. Initial(Mode[q.date]) \in Pausable \cup {"Passed"}
        /\ (Mode[q.date] = "Direct" => Initial(Mode[q.date]) = "Passed")
    BY <2>4 DEF Initial, Pausable
  <2>6. n # q.nom => noms'[n] = noms[n]
    BY <1>0, <2>3
  <2>7. n = q.nom => /\ noms'[n].status = Initial(Mode[q.date]) /\ noms'[n].paused = "none"
                     /\ noms'[n].entry = q.entry /\ noms'[n].date = q.date
    BY <1>0, <2>3 DEF NoRow
  <2>8. QED BY <1>1, <2>1, <2>2, <2>5, <2>6, <2>7 DEF Makes
<1>2. CASE q.op = "vote"
  <2>1. q.step >= 1
    BY <1>0, <1>2, Depths
  <2>2. q.nom \in Noms /\ noms[q.nom].status = "Open" /\ KeepsNom(q, q.nom)
    BY <1>2, <2>1 DEF Apt, Fact, VoteFact, KeepsNom
  <2>3. noms' = [noms EXCEPT ![q.nom].votes[q.who] = q.answer]
    BY <1>2 DEF WriteTable
  <2>4. n # q.nom => noms'[n] = noms[n]
    BY <1>0, <2>3
  <2>5. n = q.nom => /\ noms'[n].status = noms[n].status /\ noms'[n].paused = noms[n].paused
                     /\ noms'[n].entry = noms[n].entry /\ noms'[n].date = noms[n].date
    BY <1>0, <2>3 DEF NomRows
  <2>6. QED BY <1>2, <2>2, <2>4, <2>5 DEF VotesOn
<1>3. CASE q.op = "withdraw"
  <2>1. q.step >= 1
    BY <1>0, <1>3, Depths
  <2>2. q.nom \in Noms /\ noms[q.nom].status \in Active /\ WritesNom(q, q.nom)
    BY <1>3, <2>1 DEF Apt, Fact, WithdrawFact, WritesNom
  <2>3. noms' = [noms EXCEPT ![q.nom] = Withdrawn(noms[q.nom])]
    BY <1>3 DEF WriteTable
  <2>4. n # q.nom => noms'[n] = noms[n]
    BY <1>0, <2>3
  <2>5. n = q.nom => /\ noms'[n].status = "Withdrawn" /\ noms'[n].paused = "none"
                     /\ noms'[n].entry = noms[n].entry /\ noms'[n].date = noms[n].date
                     /\ noms'[n].votes = noms[n].votes
    BY <1>0, <2>3 DEF NomRows, Withdrawn
  <2>6. QED BY <1>3, <2>2, <2>4, <2>5 DEF Closes, Settled, SettleOps
<1>4. CASE q.op \in SettleOps
  <2>1. q.step = 3
    BY <1>0, <1>4, Depths
  <2>2. q.nom \in Noms /\ noms[q.nom].status = Expected(q.op) /\ WritesNom(q, q.nom)
        /\ q.outcome \in Outcomes(q.op)
    BY <1>4, <2>1 DEF Apt, Fact, SettleFact, WritesNom
  <2>3. noms' = [noms EXCEPT ![q.nom].status = q.outcome]
    BY <1>4 DEF WriteTable
  <2>4. n # q.nom => noms'[n] = noms[n]
    BY <1>0, <2>3
  <2>5. n = q.nom => /\ noms'[n].status = q.outcome /\ noms'[n].paused = noms[n].paused
                     /\ noms'[n].entry = noms[n].entry /\ noms'[n].date = noms[n].date
                     /\ noms'[n].votes = noms[n].votes
    BY <1>0, <2>3 DEF NomRows
  <2>6. q.outcome \in Settled
    BY <1>4, <2>2 DEF Outcomes, SettleOps, Settled, Won
  <2>7. Expected(q.op) \in Active /\ Expected(q.op) \notin {"Paused", "none"}
    BY DEF Expected, Active, Pausable
  <2>8. n = q.nom => noms[n].paused = "none"
    BY <1>0, <2>2, <2>7 DEF NomSound
  <2>9. q.op # "withdraw"
    BY <1>4 DEF SettleOps
  <2>10. QED BY <1>4, <2>2, <2>4, <2>5, <2>6, <2>7, <2>8, <2>9 DEF Closes
<1>5. CASE q.op \in AttendeeOps
  <2>1. q.step = 3
    BY <1>0, <1>5, Depths
  <2>2. q.noms = ToSync(q) /\ (Out(WrittenPerson(q)) <=> GoesOut(q))
    BY <1>0, <1>5, <2>1, WrittenOut DEF Fact, AttendeeFact
  <2>3. noms' = Synced(q)
    BY <1>5 DEF WriteTable
  <2>4. n \notin q.noms => noms'[n] = noms[n]
    BY <2>3 DEF Synced
  <2>5. n \in q.noms => noms'[n] =
            IF GoesOut(q) THEN [noms[n] EXCEPT !.status = "Paused", !.paused = noms[n].status]
            ELSE [noms[n] EXCEPT !.status = noms[n].paused, !.paused = "none"]
    BY <2>2, <2>3 DEF Synced
  <2>6. n \in q.noms => /\ Owner[noms[n].entry] = q.who
                        /\ GoesOut(q) => noms[n].status \in Pausable
                        /\ ~GoesOut(q) => noms[n].status = "Paused"
    BY <2>2 DEF ToSync, GoesOut
  <2>7. n \in q.noms => WritesNom(q, n)
    BY <1>5, <2>1 DEF WritesNom
  <2>8. n \in q.noms => /\ noms'[n].entry = noms[n].entry /\ noms'[n].date = noms[n].date
                        /\ noms'[n].votes = noms[n].votes
                        /\ GoesOut(q) => noms'[n].status = "Paused" /\ noms'[n].paused = noms[n].status
                        /\ ~GoesOut(q) => noms'[n].status = noms[n].paused /\ noms'[n].paused = "none"
    <3>1. PICK m : m = noms[n]
      OBVIOUS
    <3>2. m \in NomRows
      BY <1>0, <3>1
    <3>3. CASE n \in q.noms /\ GoesOut(q)
      <4>1. noms'[n] = [m EXCEPT !.status = "Paused", !.paused = m.status]
        BY <2>5, <3>1, <3>3
      <4>2. QED BY <3>1, <3>2, <3>3, <4>1 DEF NomRows
    <3>4. CASE n \in q.noms /\ ~GoesOut(q)
      <4>1. noms'[n] = [m EXCEPT !.status = m.paused, !.paused = "none"]
        BY <2>5, <3>1, <3>4
      <4>2. QED BY <3>1, <3>2, <3>4, <4>1 DEF NomRows
    <3>5. QED BY <3>3, <3>4
  <2>9. QED BY <1>5, <2>4, <2>6, <2>7, <2>8 DEF Syncs
<1>6. CASE q.op = "removeDate"
  <2>1. q.step = 3
    BY <1>0, <1>6, Depths
  <2>2. q.noms = Naming(q.date) /\ WritesEvent(q)
    BY <1>6, <2>1 DEF Fact, DateFact, DateOps, WritesEvent
  <2>3. noms' = [x \in Noms |-> IF x \in q.noms THEN [noms[x] EXCEPT !.date = NoDate] ELSE noms[x]]
    BY <1>6 DEF WriteTable
  <2>4. n \notin q.noms => noms'[n] = noms[n]
    BY <2>3
  <2>5. n \in q.noms => /\ noms'[n].status = noms[n].status /\ noms'[n].paused = noms[n].paused
                        /\ noms'[n].entry = noms[n].entry /\ noms'[n].date = NoDate
                        /\ noms'[n].votes = noms[n].votes
    BY <1>0, <2>3 DEF NomRows
  <2>6. n \in q.noms => WritesNom(q, n) /\ noms[n].date = q.date /\ noms[n].status # "none"
    BY <1>6, <2>1, <2>2 DEF WritesNom, Naming
  <2>7. QED BY <1>6, <2>2, <2>4, <2>5, <2>6 DEF Undates
<1>7. CASE q.op \notin SettleOps \cup AttendeeOps \cup {"nominate", "vote", "withdraw", "removeDate"}
  BY <1>7 DEF WriteTable
<1>8. QED BY <1>1, <1>2, <1>3, <1>4, <1>5, <1>6, <1>7

(* The games a commit puts on the lineup. *)
LEMMA CommitGames ==
    ASSUME LineupInv, NEW q \in Requests, Apt(q), Fact(q), q.step = Depth(q), WriteTable(q),
           NEW g \in lineup'
    PROVE  g \in lineup \/ PutsOn(q, g)
<1>0. q.op \in AllOps
  BY DEF Requests
<1>1. g \in lineup \/ g \in Added(q)
  BY DEF WriteTable
<1>2. CASE q.op \in LineupOps /\ g \in Added(q)
  <2>1. q.step >= 1 /\ KeepsSupplier(q) /\ (q.date # NoDate => KeepsDate(q, q.date))
    BY <1>0, <1>2, Depths DEF KeepsSupplier, KeepsDate
  <2>2. Supplies(q.entry)
    BY <1>2, <2>1 DEF Fact, LineupFact
  <2>3. g.entry = q.entry /\ g.date = q.date
        /\ (g.nom # NoNom => q.op = "nominate" /\ g.nom = q.nom /\ Mode[q.date] = "Direct")
    BY <1>2 DEF LineupOps, WriteTable, Game
  <2>4. QED BY <1>2, <2>1, <2>2, <2>3 DEF PutsOn
<1>3. CASE q.op \in SettleOps /\ g \in Added(q)
  <2>1. q.step = 3
    BY <1>0, <1>3, Depths
  <2>2. KeepsSupplier(q) /\ WritesNom(q, q.nom)
    BY <1>3, <2>1 DEF KeepsSupplier, WritesNom
  <2>3. q.outcome \in Won /\ g = Game(q.entry, noms[q.nom].date, q.nom)
    BY <1>3 DEF WriteTable
  <2>4. Supplies(q.entry)
    BY <1>3, <2>1, <2>3 DEF Fact, SettleFact
  <2>5. QED BY <1>3, <2>2, <2>3, <2>4 DEF PutsOn, Game
<1>4. CASE q.op \notin LineupOps \cup SettleOps
  BY <1>1, <1>4 DEF WriteTable
<1>5. QED BY <1>1, <1>2, <1>3, <1>4

(* A commit changes only what its holdings allow. *)
LEMMA CommitEffects ==
    ASSUME LineupInv, NEW q \in Requests, Apt(q), Fact(q), q.step = Depth(q), WriteTable(q)
    PROVE  Effects(q)
<1>0. q.op \in AllOps /\ Types
  BY DEF Requests, LineupInv
<1>1. ASSUME NEW a \in Attendees, people'[a] # people[a]
      PROVE  WritesPerson(q, a) /\ ReadsEvent(q)
  <2>1. q.op \in AttendeeOps /\ people' = [people EXCEPT ![q.who] = WrittenPerson(q)]
    BY <1>1 DEF WriteTable
  <2>2. q.who = a
    BY <1>0, <1>1, <2>1 DEF Types
  <2>3. QED BY <1>0, <2>1, <2>2, Depths DEF WritesPerson, ReadsEvent
<1>2. ASSUME NEW e \in Entries, list'[e] # list[e]
      PROVE  WritesEntry(q, e) /\ (list'[e] # "listed" => ReadsEvent(q))
  <2>1. CASE q.op = "addGame"
    <3>1. list' = [list EXCEPT ![q.entry] = "listed"]
      BY <2>1 DEF WriteTable
    <3>2. q.entry = e /\ list'[e] = "listed"
      BY <1>0, <1>2, <3>1 DEF Types
    <3>3. QED BY <1>0, <2>1, <3>2, Depths DEF WritesEntry
  <2>2. CASE q.op = "removeGame"
    <3>1. list' = [list EXCEPT ![q.entry] = "removed"]
      BY <2>2 DEF WriteTable
    <3>2. q.entry = e
      BY <1>0, <1>2, <3>1 DEF Types
    <3>3. QED BY <1>0, <2>2, <3>2, Depths DEF WritesEntry, ReadsEvent
  <2>3. QED BY <1>2, <2>1, <2>2 DEF WriteTable
<1>3. dates' # dates \/ event' # event => WritesEvent(q)
  <2>1. dates' # dates \/ event' # event => q.op \in DateOps \cup TransitionOps \cup LifecycleOps
    BY DEF WriteTable, LifecycleOps
  <2>2. q.step >= 1
    BY DepthIs
  <2>3. QED BY <2>1, <2>2 DEF WritesEvent
<1>4. QED BY <1>1, <1>2, <1>3, CommitNoms, CommitGames DEF Effects

-----------------------------------------------------------------------------
(* What a request found stays true while others commit. *)

(* q commits while t is under way. *)
Beside(q, t) ==
    /\ q \in Requests /\ Apt(q) /\ Fact(q) /\ Effects(q)
    /\ t \in Requests /\ Apt(t) /\ Fact(t)
    /\ Excludes(q, t) /\ Excludes(t, q)
    /\ q.op = "nominate" /\ t.op = "nominate" => q.nom # t.nom

(* The supplier a request keeps stays. *)
LEMMA SupplierStands ==
    ASSUME NEW CONSTANT q, NEW CONSTANT t, Beside(q, t), KeepsSupplier(t), Supplies(t.entry)
    PROVE  Supplies(t.entry)'
<1>1. t.entry \in Entries /\ Owner[t.entry] \in Attendees
  BY DEF Beside, Apt, KeepsSupplier
<1>2. list'[t.entry] = list[t.entry]
  BY <1>1 DEF Beside, Effects, Excludes
<1>3. people'[Owner[t.entry]] = people[Owner[t.entry]]
  BY <1>1 DEF Beside, Effects, Excludes
<1>4. QED BY <1>2, <1>3 DEF Supplies, In

(* A nomination stays one, and its entry with it. *)
LEMMA NomStands ==
    ASSUME NEW CONSTANT q, NEW CONSTANT t, Beside(q, t), NEW n \in Noms, noms[n].status # "none"
    PROVE  /\ noms'[n].entry = noms[n].entry
           /\ noms[n] \in NomRows /\ NomSound(n) => noms'[n].status # "none"
           /\ ~WritesNom(q, n) => noms'[n].status = noms[n].status /\ noms'[n].date = noms[n].date
           /\ ~WritesNom(q, n) /\ ~KeepsNom(q, n) => noms'[n] = noms[n]
<1>1. noms'[n] = noms[n] \/ VotesOn(q, n) \/ Closes(q, n) \/ Syncs(q, n) \/ Undates(q, n)
  BY DEF Beside, Effects, Makes
<1>2. CASE noms'[n] = noms[n]
  BY <1>2
<1>3. CASE VotesOn(q, n)
  BY <1>3 DEF VotesOn
<1>4. CASE Closes(q, n)
  BY <1>4 DEF Closes, Settled, Won
<1>5. CASE Syncs(q, n)
  BY <1>5 DEF Syncs, NomSound, Pausable
<1>6. CASE Undates(q, n)
  BY <1>6 DEF Undates
<1>7. QED BY <1>1, <1>2, <1>3, <1>4, <1>5, <1>6

(* What nominations and direct adds found. *)
LEMMA LineupFactStands ==
    ASSUME NEW CONSTANT q, NEW CONSTANT t, LineupInv, Beside(q, t)
    PROVE  /\ t.op \in LineupOps => LineupFact(t)'
           /\ t.op = "nominate" => NominateFact(t)'
<1>1. t.op \in LineupOps => LineupFact(t)'
  BY SupplierStands DEF Beside, Fact, LineupFact, KeepsSupplier
<1>2. ASSUME t.op = "nominate" PROVE noms'[t.nom].status = "none"
  <2>1. t.nom \in Noms /\ noms[t.nom].status = "none"
    BY <1>2 DEF Beside, Apt, Fact, NominateFact
  <2>2. ~Makes(q, t.nom) /\ ~VotesOn(q, t.nom) /\ ~Closes(q, t.nom)
        /\ ~Syncs(q, t.nom) /\ ~Undates(q, t.nom)
    BY <1>2, <2>1 DEF Beside, Makes, VotesOn, Closes, Syncs, Undates, Active, Pausable
  <2>3. QED BY <2>1, <2>2 DEF Beside, Effects
<1>3. QED BY <1>1, <1>2 DEF NominateFact

(* What votes, withdrawals and settlements found. *)
LEMMA NomFactsStand ==
    ASSUME NEW CONSTANT q, NEW CONSTANT t, LineupInv, Beside(q, t)
    PROVE  /\ t.op = "vote" => VoteFact(t)'
           /\ t.op = "withdraw" => WithdrawFact(t)'
           /\ t.op \in SettleOps => SettleFact(t)'
<1> DEFINE n == t.nom
<1>0. SUFFICES ASSUME t.op \in SettleOps \cup {"vote", "withdraw"}
               PROVE  /\ t.op = "vote" => VoteFact(t)'
                      /\ t.op = "withdraw" => WithdrawFact(t)'
                      /\ t.op \in SettleOps => SettleFact(t)'
  OBVIOUS
<1>1. n \in Noms /\ noms[n].status # "none"
  BY <1>0 DEF Beside, Apt, Fact, VoteFact, WithdrawFact, SettleFact
<1>2. noms[n] \in NomRows /\ NomSound(n)
  BY <1>1 DEF LineupInv, Types
<1>3. /\ noms'[n].entry = noms[n].entry /\ noms'[n].status # "none"
      /\ ~WritesNom(q, n) => noms'[n].status = noms[n].status
      /\ ~WritesNom(q, n) /\ ~KeepsNom(q, n) => noms'[n] = noms[n]
  BY <1>1, <1>2, NomStands
<1>4. CASE t.op = "vote"
  <2>1. t.step >= 1 => ~WritesNom(q, n)
    BY <1>1, <1>4 DEF Beside, Excludes, KeepsNom
  <2>2. VoteFact(t)'
    BY <1>3, <1>4, <2>1 DEF Beside, Fact, VoteFact
  <2>3. QED BY <1>4, <2>2 DEF SettleOps
<1>5. CASE t.op = "withdraw"
  <2>1. t.step >= 1 => ~WritesNom(q, n)
    BY <1>1, <1>5 DEF Beside, Excludes, WritesNom
  <2>2. WithdrawFact(t)'
    BY <1>3, <1>5, <2>1 DEF Beside, Fact, WithdrawFact
  <2>3. QED BY <1>5, <2>2 DEF SettleOps
<1>6. CASE t.op \in SettleOps
  <2>1. noms[n].entry = t.entry
    BY <1>6 DEF Beside, Fact, SettleFact
  <2>2. t.step >= 3 => noms'[n] = noms[n]
    <3>1. t.step >= 3 => WritesNom(t, n)
      BY <1>6 DEF WritesNom
    <3>2. QED BY <1>1, <1>3, <3>1 DEF Beside, Excludes
  <2>3. t.step >= 3 /\ t.outcome \in Won => Supplies(t.entry)'
    <3>1. t.step \in 0 .. 3
      BY DEF Beside, Requests
    <3>2. QED BY <1>6, <3>1, SupplierStands DEF Beside, Fact, SettleFact, KeepsSupplier
  <2>4. SettleFact(t)'
    BY <1>3, <1>6, <2>1, <2>2, <2>3 DEF Beside, Fact, SettleFact
  <2>5. QED BY <1>6, <2>4 DEF SettleOps
<1>7. QED BY <1>0, <1>4, <1>5, <1>6

(* The dates and the event stay for a request that reads or writes the event. *)
LEMMA EventStands ==
    ASSUME NEW CONSTANT q, NEW CONSTANT t, Beside(q, t)
    PROVE  /\ WritesEvent(t) \/ ReadsEvent(t) => dates' = dates /\ event' = event
           /\ WritesEvent(t) => ~ReadsEvent(q) /\ ~WritesEvent(q)
  BY DEF Beside, Effects, Excludes

(* What an attendee's answer or removal found. *)
LEMMA AttendeeFactStands ==
    ASSUME NEW CONSTANT q, NEW CONSTANT t, LineupInv, Beside(q, t), t.op \in AttendeeOps
    PROVE  AttendeeFact(t)'
<1>0. t.who \in Attendees /\ t.step \in 0 .. 3 /\ AttendeeFact(t)
  BY DEF Beside, Apt, Requests, Fact
<1>1. t.step >= 1 => /\ people'[t.who] = people[t.who]
                     /\ ~(KeepsSupplier(q) /\ Owner[q.entry] = t.who)
                     /\ ~WritesPerson(q, t.who)
  <2>1. t.step >= 1 => WritesPerson(t, t.who)
    BY DEF WritesPerson
  <2>2. QED BY <1>0, <2>1 DEF Beside, Effects, Excludes
<1>2. ASSUME t.step >= 3 PROVE t.noms = ToSync(t)'
  <2>1. t.noms = ToSync(t)
    BY <1>0, <1>2 DEF AttendeeFact
  <2>2. ASSUME NEW n \in Noms PROVE n \in t.noms <=> n \in ToSync(t)'
    <3>0. noms[n] \in NomRows /\ NomSound(n)
      BY DEF LineupInv, Types
    <3>1. CASE n \in t.noms
      <4>1. WritesNom(t, n) /\ noms[n].status # "none"
        BY <1>2, <2>1, <3>1 DEF WritesNom, ToSync
      <4>2. ~WritesNom(q, n) /\ ~KeepsNom(q, n)
        BY <4>1 DEF Beside, Excludes
      <4>3. noms'[n] = noms[n]
        BY <4>1, <4>2, NomStands
      <4>4. QED BY <2>1, <3>1, <4>3 DEF ToSync
    <3>2. CASE n \notin t.noms
      <4>1. CASE noms'[n] = noms[n]
        BY <2>1, <3>2, <4>1 DEF ToSync
      <4>2. CASE Makes(q, n)
        <5>1. KeepsSupplier(q) /\ noms'[n].entry = q.entry
          BY <4>2 DEF Makes
        <5>2. QED BY <1>0, <1>1, <1>2, <3>2, <5>1 DEF ToSync
      <4>3. CASE VotesOn(q, n)
        BY <2>1, <3>2, <4>3 DEF ToSync, VotesOn
      <4>4. CASE Closes(q, n)
        <5>1. noms'[n].status \notin Active
          BY <4>4 DEF Closes, Settled, Won, Active, Pausable
        <5>2. QED BY <3>2, <5>1 DEF ToSync, Active
      <4>5. CASE Syncs(q, n)
        <5>1. WritesPerson(q, q.who) /\ Owner[noms'[n].entry] = q.who
          <6>1. q.step >= 1
            BY <4>5 DEF Syncs, WritesNom, Beside, Requests
          <6>2. QED BY <4>5, <6>1 DEF Syncs, WritesPerson
        <5>2. q.who # t.who
          BY <1>0, <1>1, <1>2, <5>1
        <5>3. QED BY <3>2, <5>1, <5>2 DEF ToSync
      <4>6. CASE Undates(q, n)
        BY <2>1, <3>2, <4>6 DEF ToSync, Undates
      <4>7. QED BY <4>1, <4>2, <4>3, <4>4, <4>5, <4>6 DEF Beside, Effects
    <3>3. QED BY <3>1, <3>2
  <2>3. t.noms \subseteq Noms /\ ToSync(t)' \subseteq Noms
    BY DEF Beside, Requests, ToSync
  <2>4. QED BY <2>2, <2>3
<1>3. ASSUME t.step >= 3, GoesOut(t),
             NEW g \in lineup', Owner[g.entry] = t.who, Ahead(dates', g, t.at)
      PROVE  g \in t.drop
  <2>1. dates' = dates
    BY <1>0, <1>3, EventStands DEF ReadsEvent
  <2>2. ~PutsOn(q, g)
    BY <1>0, <1>1, <1>3 DEF PutsOn
  <2>3. g \in lineup
    BY <2>2 DEF Beside, Effects
  <2>4. QED BY <1>0, <1>3, <2>1, <2>3 DEF AttendeeFact
<1>4. t.step >= 1 /\ t.op = "rsvp" => ~people'[t.who].removed
  BY <1>0, <1>1 DEF AttendeeFact
<1>5. QED BY <1>2, <1>3, <1>4 DEF AttendeeFact, Ahead, DateAhead

(* What taking a game off a list found. *)
LEMMA RemoveGameFactStands ==
    ASSUME NEW CONSTANT q, NEW CONSTANT t, LineupInv, Beside(q, t), t.op = "removeGame"
    PROVE  RemoveGameFact(t)'
<1> SUFFICES ASSUME t.step >= 2
             PROVE  /\ \A n \in Noms : noms'[n].entry = t.entry => noms'[n].status \notin Active
                    /\ \A g \in lineup' : g.entry = t.entry => ~Ahead(dates', g, t.at)
  BY DEF RemoveGameFact, Ahead, DateAhead
<1>0. t.entry \in Entries /\ t.step \in 0 .. 3 /\ RemoveGameFact(t)
  BY DEF Beside, Apt, Requests, Fact
<1>1. ~(KeepsSupplier(q) /\ q.entry = t.entry)
  <2>1. WritesEntry(t, t.entry)
    BY <1>0 DEF WritesEntry
  <2>2. QED BY <1>0, <2>1 DEF Beside, Excludes
<1>2. ASSUME NEW n \in Noms, noms'[n].entry = t.entry PROVE noms'[n].status \notin Active
  <2>1. CASE noms'[n] = noms[n]
    BY <1>0, <1>2, <2>1 DEF RemoveGameFact
  <2>2. ~Makes(q, n)
    BY <1>1, <1>2 DEF Makes
  <2>3. CASE VotesOn(q, n) \/ Undates(q, n)
    BY <1>0, <1>2, <2>3 DEF RemoveGameFact, VotesOn, Undates
  <2>4. CASE Closes(q, n)
    BY <2>4 DEF Closes, Settled, Won, Active, Pausable
  <2>5. CASE Syncs(q, n)
    <3>1. noms[n].status \in Active /\ noms[n].entry = t.entry
      BY <1>2, <2>5 DEF Syncs, Active
    <3>2. QED BY <1>0, <3>1 DEF RemoveGameFact
  <2>6. QED BY <2>1, <2>2, <2>3, <2>4, <2>5 DEF Beside, Effects
<1>3. ASSUME NEW g \in lineup', g.entry = t.entry PROVE ~Ahead(dates', g, t.at)
  <2>1. dates' = dates
    BY <1>0, EventStands DEF ReadsEvent
  <2>2. g \in lineup
    BY <1>1, <1>3 DEF Beside, Effects, PutsOn
  <2>3. QED BY <1>0, <1>3, <2>1, <2>2 DEF RemoveGameFact
<1>4. QED BY <1>2, <1>3

(* What a write of the dates found. *)
LEMMA DateFactStands ==
    ASSUME NEW CONSTANT q, NEW CONSTANT t, LineupInv, Beside(q, t), t.op \in DateOps
    PROVE  DateFact(t)'
<1>0. t.date \in Dates /\ t.step \in 0 .. 3 /\ DateFact(t) /\ Depth(t) \in 1 .. 3
  BY DepthIs DEF Beside, Apt, Requests, Fact
<1>1. t.step >= 1 => dates' = dates /\ event' = event /\ ~ReadsEvent(q) /\ ~WritesEvent(q)
  BY EventStands DEF WritesEvent
<1>2. ASSUME t.step = Depth(t), NEW g \in lineup', ~Supplies(g.entry)', Ahead(WrittenDates(t)', g, t.at)
      PROVE  g \in t.drop
  <2>1. dates' = dates /\ ~ReadsEvent(q)
    BY <1>0, <1>1, <1>2
  <2>2. WrittenDates(t)' = WrittenDates(t)
    BY <2>1 DEF WrittenDates
  <2>3. g \in lineup
    <3>1. SUFFICES ASSUME PutsOn(q, g) PROVE FALSE
      BY DEF Beside, Effects
    <3>2. q.entry = g.entry /\ q.entry \in Entries /\ Owner[q.entry] \in Attendees /\ Supplies(q.entry)
          /\ q.op \in LineupOps \cup SettleOps
      BY <3>1 DEF PutsOn, KeepsSupplier, Beside, Apt
    <3>3. list'[q.entry] = list[q.entry] /\ people'[Owner[q.entry]] = people[Owner[q.entry]]
      BY <3>2 DEF Beside, Effects, WritesEntry, WritesPerson, LineupOps, SettleOps, AttendeeOps
    <3>4. QED BY <1>2, <3>2, <3>3 DEF Supplies, In
  <2>4. ~Supplies(g.entry)
    <3>1. g.entry \in Entries /\ Owner[g.entry] \in Attendees
      BY <2>3 DEF LineupInv, Types, Games
    <3>2. people'[Owner[g.entry]] = people[Owner[g.entry]]
      BY <2>1, <3>1 DEF Beside, Effects
    <3>3. list[g.entry] = "listed" => list'[g.entry] = "listed"
      BY <2>1, <3>1 DEF Beside, Effects
    <3>4. QED BY <1>2, <3>2, <3>3 DEF Supplies, In
  <2>5. g \in Swept(t)
    BY <1>2, <2>2, <2>3, <2>4 DEF Swept, Unbrought
  <2>6. QED BY <1>0, <1>2, <2>5 DEF DateFact
<1>3. t.step = Depth(t) => Swept(t)' \subseteq t.drop
  BY <1>2 DEF Swept, Unbrought, Ahead, DateAhead
<1>4. /\ t.op = "addDate" /\ t.step >= 1 => ~event'.cancelled
      /\ t.op = "moveDate" /\ t.step >= 1 => dates'[t.date].status # "none"
  BY <1>0, <1>1 DEF DateFact
<1>5. ASSUME t.op = "removeDate", t.step >= 3
      PROVE  t.noms = Naming(t.date)' /\ {g \in lineup' : g.date = t.date} \subseteq t.drop
  <2>1. t.noms = Naming(t.date) /\ {g \in lineup : g.date = t.date} \subseteq t.drop
    BY <1>0, <1>5 DEF DateFact
  <2>2. ~KeepsDate(q, t.date) /\ ~WritesEvent(q)
    <3>1. DropsDate(t, t.date)
      BY <1>0, <1>5 DEF DropsDate
    <3>2. QED BY <1>0, <1>1, <1>5, <3>1 DEF Beside, Excludes
  <2>3. ASSUME NEW n \in Noms PROVE n \in t.noms <=> n \in Naming(t.date)'
    <3>0. noms[n] \in NomRows /\ NomSound(n)
      BY DEF LineupInv, Types
    <3>1. n \in t.noms => WritesNom(t, n)
      BY <1>5 DEF WritesNom
    <3>2. CASE noms[n].status # "none"
      <4>1. noms'[n].status # "none" /\ noms'[n].date = noms[n].date
        <5>1. noms'[n].status # "none"
          BY <3>0, <3>2, NomStands
        <5>2. noms'[n] = noms[n] \/ VotesOn(q, n) \/ Closes(q, n) \/ Syncs(q, n)
          BY <2>2, <3>2 DEF Beside, Effects, Makes, Undates
        <5>3. QED BY <5>1, <5>2 DEF VotesOn, Closes, Syncs
      <4>2. QED BY <2>1, <3>2, <4>1 DEF Naming
    <3>3. CASE noms[n].status = "none"
      <4>1. n \notin t.noms
        BY <2>1, <3>3 DEF Naming
      <4>2. noms'[n] = noms[n] \/ Makes(q, n)
        BY <3>3 DEF Beside, Effects, VotesOn, Closes, Syncs, Undates, Active, Pausable
      <4>3. CASE Makes(q, n)
        <5>1. noms'[n].date # t.date
          BY <1>0, <2>2, <4>3 DEF Makes
        <5>2. QED BY <4>1, <5>1 DEF Naming
      <4>4. QED BY <3>3, <4>1, <4>2, <4>3 DEF Naming
    <3>4. QED BY <3>2, <3>3
  <2>4. t.noms \subseteq Noms /\ Naming(t.date)' \subseteq Noms
    BY DEF Beside, Requests, Naming
  <2>5. ASSUME NEW g \in lineup', g.date = t.date PROVE g \in t.drop
    <3>1. SUFFICES ASSUME PutsOn(q, g) PROVE FALSE
      BY <2>1, <2>5 DEF Beside, Effects
    <3>2. q.op \in SettleOps /\ WritesNom(q, q.nom) /\ noms[q.nom].date = t.date
      BY <1>0, <2>2, <2>5, <3>1 DEF PutsOn
    <3>3. q.nom \in Noms /\ noms[q.nom].status # "none"
      BY <3>2 DEF Beside, Apt, Fact, SettleFact
    <3>4. WritesNom(t, q.nom)
      BY <1>5, <2>1, <3>2, <3>3 DEF Naming, WritesNom
    <3>5. QED BY <3>2, <3>3, <3>4 DEF Beside, Excludes
  <2>6. QED BY <2>3, <2>4, <2>5
<1>6. QED BY <1>3, <1>4, <1>5 DEF DateFact, Depth

(* What a decision on a date found. *)
LEMMA TransitionFactStands ==
    ASSUME NEW CONSTANT q, NEW CONSTANT t, LineupInv, Beside(q, t), t.op \in TransitionOps
    PROVE  TransitionFact(t)'
<1>1. t.step >= 1 => dates' = dates /\ event' = event
  BY EventStands DEF WritesEvent
<1>2. TransitionFact(t)
  BY DEF Beside, Fact
<1>3. QED BY <1>1, <1>2 DEF TransitionFact, StillFrom

(* Whatever a request found stays true while others commit. *)
LEMMA FactsStand ==
    ASSUME NEW CONSTANT q, NEW CONSTANT t, LineupInv, Beside(q, t)
    PROVE  Fact(t)'
  BY LineupFactStands, NomFactsStand, AttendeeFactStands, RemoveGameFactStands, DateFactStands,
     TransitionFactStands DEF Fact

-----------------------------------------------------------------------------
(* What a commit leaves. *)

(* q commits: it holds its locks and writes what the table says. *)
Commits(q) ==
    /\ q \in Requests /\ Apt(q) /\ Fact(q) /\ q.op \in AllOps /\ q.step = Depth(q)
    /\ WriteTable(q) /\ Effects(q) /\ clock' = clock

(* Time takes nothing off the past: what is ahead later was ahead before. *)
LEMMA AheadEarlier ==
    ASSUME NEW ds, \A d \in Dates : ds[d].start \in Nat, NEW g \in Games,
           NEW early \in Nat, NEW late \in Nat, early <= late, Ahead(ds, g, late)
    PROVE  Ahead(ds, g, early)
<1>1. ASSUME NEW d \in Dates, DateAhead(ds, d, late) PROVE DateAhead(ds, d, early)
  BY <1>1 DEF DateAhead
<1>2. CASE g.date # NoDate
  <2>1. g.date \in Dates
    BY <1>2 DEF Games, Places
  <2>2. QED BY <1>1, <1>2, <2>1 DEF Ahead
<1>3. CASE g.date = NoDate
  BY <1>1, <1>3 DEF Ahead
<1>4. QED BY <1>2, <1>3

(* Every date row starts at some time, or has none. *)
LEMMA DatesWritten ==
    ASSUME NEW CONSTANT q, LineupInv, Commits(q)
    PROVE  dates' \in [Dates -> DateRows]
<1>0. dates \in [Dates -> DateRows] /\ Starts \subseteq Nat
  BY DEF LineupInv, Types
<1>1. CASE q.op \in DateOps
  <2>1. q.date \in Dates /\ dates' = WrittenDates(q)
    BY <1>1 DEF Commits, Apt, WriteTable
  <2>2. CASE q.op = "addDate"
    <3>1. q.answer \in {"Proposed", "Confirmed"} /\ q.start \in Starts
      BY <2>2 DEF Commits, Apt
    <3>2. dates' = [dates EXCEPT ![q.date] = [status |-> q.answer, start |-> q.start]]
      BY <2>1, <2>2 DEF WrittenDates
    <3>3. [status |-> q.answer, start |-> q.start] \in DateRows
      BY <3>1 DEF DateRows
    <3>4. QED BY <1>0, <2>1, <3>2, <3>3
  <2>3. CASE q.op = "moveDate"
    <3>1. q.start \in Starts /\ dates[q.date].status # "none"
      BY <2>3, Depths DEF Commits, Apt, Fact, DateFact, DateOps
    <3>2. dates' = [dates EXCEPT ![q.date] = [dates[q.date] EXCEPT !.start = q.start]]
      BY <2>1, <2>3 DEF WrittenDates
    <3>3. [dates[q.date] EXCEPT !.start = q.start] \in DateRows
      BY <1>0, <2>1, <3>1 DEF DateRows, NoStart
    <3>4. QED BY <1>0, <2>1, <3>2, <3>3
  <2>4. CASE q.op = "removeDate"
    <3>1. dates' = [dates EXCEPT ![q.date] = NoStart]
      BY <2>1, <2>4 DEF WrittenDates
    <3>2. QED BY <1>0, <2>1, <3>1 DEF DateRows
  <2>5. QED BY <1>1, <2>2, <2>3, <2>4 DEF DateOps
<1>2. CASE q.op \in TransitionOps
  <2>1. q.date \in Dates /\ dates' = [dates EXCEPT ![q.date].status = To(q.op)]
    BY <1>2 DEF Commits, Apt, WriteTable
  <2>2. To(q.op) \in {"Confirmed", "Declined", "Cancelled"}
    BY <1>2 DEF To, TransitionOps
  <2>3. dates[q.date].status \in {"Confirmed", "Proposed"}
    BY <1>2, Depths DEF Commits, Fact, TransitionFact, StillFrom, From
  <2>4. [dates[q.date] EXCEPT !.status = To(q.op)] \in DateRows
    BY <1>0, <2>1, <2>2, <2>3 DEF DateRows, NoStart
  <2>5. dates' = [dates EXCEPT ![q.date] = [dates[q.date] EXCEPT !.status = To(q.op)]]
    BY <2>1
  <2>6. QED BY <1>0, <2>1, <2>4, <2>5
<1>3. CASE q.op = "cancel"
  <2>1. dates' = CalledOff
    BY <1>3 DEF Commits, WriteTable
  <2>2. ASSUME NEW d \in Dates
        PROVE  [dates[d] EXCEPT !.status = CASE @ = "Confirmed" -> "Cancelled"
                                             [] @ = "Proposed" -> "Declined"
                                             [] OTHER -> @] \in DateRows
    BY <1>0 DEF DateRows, NoStart
  <2>3. QED BY <2>1, <2>2 DEF CalledOff
<1>4. CASE q.op \notin DateOps \cup TransitionOps \cup {"cancel"}
  BY <1>0, <1>4 DEF Commits, WriteTable
<1>5. QED BY <1>1, <1>2, <1>3, <1>4

(* A commit leaves rows of the right shape. *)
LEMMA RowsWritten ==
    ASSUME NEW CONSTANT q, LineupInv, Commits(q)
    PROVE  /\ event' \in [deleted : BOOLEAN, cancelled : BOOLEAN, archived : BOOLEAN]
           /\ people' \in [Attendees -> [removed : BOOLEAN, status : Answers]]
           /\ list' \in [Entries -> {"absent", "listed", "removed"}]
           /\ lineup' \subseteq Games
<1>0. Types
  BY DEF LineupInv
<1>1. event' \in [deleted : BOOLEAN, cancelled : BOOLEAN, archived : BOOLEAN]
  <2>1. \/ event' = event
        \/ event' = [event EXCEPT !.cancelled = TRUE] \/ event' = [event EXCEPT !.cancelled = FALSE]
        \/ event' = [event EXCEPT !.archived = TRUE] \/ event' = [event EXCEPT !.archived = FALSE]
        \/ event' = [event EXCEPT !.deleted = TRUE]
    BY DEF Commits, WriteTable, LifecycleOps
  <2>2. event \in [deleted : BOOLEAN, cancelled : BOOLEAN, archived : BOOLEAN]
    BY <1>0 DEF Types
  <2>3. QED BY <2>1, <2>2
<1>2. people' \in [Attendees -> [removed : BOOLEAN, status : Answers]]
  <2>1. CASE q.op \in AttendeeOps
    <3>1. WrittenPerson(q) \in [removed : BOOLEAN, status : Answers] /\ q.who \in Attendees
      BY <1>0, <2>1, Depths, WrittenOut DEF Commits, Fact, Apt
    <3>2. QED BY <1>0, <2>1, <3>1 DEF Commits, WriteTable, Types
  <2>2. QED BY <1>0, <2>1 DEF Commits, WriteTable, Types
<1>3. list' \in [Entries -> {"absent", "listed", "removed"}]
  <2>1. q.op \in {"addGame", "removeGame"} => q.entry \in Entries
    BY DEF Commits, Apt
  <2>2. QED BY <1>0, <2>1 DEF Commits, WriteTable, Types
<1>4. lineup' \subseteq Games
  <2>1. Added(q) \subseteq Games
    <3>1. CASE q.op \in LineupOps
      <4>1. q.entry \in Entries /\ q.date \in Places /\ q.nom \in Noms \cup {NoNom}
        BY <3>1 DEF Commits, Apt, Requests
      <4>2. Game(q.entry, q.date, q.nom) \in Games /\ Game(q.entry, q.date, NoNom) \in Games
        BY <4>1 DEF Game, Games
      <4>3. QED BY <3>1, <4>2 DEF Commits, WriteTable, LineupOps
    <3>2. CASE q.op \in SettleOps
      <4>1. q.entry \in Entries /\ q.nom \in Noms
        BY <3>2 DEF Commits, Apt
      <4>2. noms[q.nom].date \in Places
        BY <1>0, <4>1 DEF Types, NomRows
      <4>3. Game(q.entry, noms[q.nom].date, q.nom) \in Games
        BY <4>1, <4>2 DEF Game, Games
      <4>4. QED BY <3>2, <4>3 DEF Commits, WriteTable
    <3>3. CASE q.op \notin LineupOps \cup SettleOps
      BY <3>3 DEF Commits, WriteTable
    <3>4. QED BY <3>1, <3>2, <3>3
  <2>2. QED BY <1>0, <2>1 DEF Commits, WriteTable, Types
<1>5. QED BY <1>1, <1>2, <1>3, <1>4

(* A commit leaves sound nominations. *)
LEMMA NomsWritten ==
    ASSUME NEW CONSTANT q, LineupInv, Commits(q)
    PROVE  noms' \in [Noms -> NomRows] /\ \A n \in Noms : NomSound(n)'
<1>0. noms \in [Noms -> NomRows] /\ q.op \in AllOps /\ \A n \in Noms : NomSound(n)
  BY DEF LineupInv, Types, Commits
<1>1. CASE q.op = "nominate"
  <2>1. q.nom \in Noms /\ q.entry \in Entries /\ q.date \in Places /\ Mode[q.date] # "HostOnly"
    BY <1>1 DEF Commits, Apt, Requests, LineupOps
  <2>2. noms' = [noms EXCEPT ![q.nom] = [NoRow EXCEPT !.status = Initial(Mode[q.date]),
                                                      !.entry = q.entry, !.date = q.date]]
    BY <1>1 DEF Commits, WriteTable
  <2>3. Initial(Mode[q.date]) \in Pausable \cup {"Passed"}
    BY <2>1 DEF Initial, Pausable
  <2> DEFINE row == [NoRow EXCEPT !.status = Initial(Mode[q.date]), !.entry = q.entry,
                                  !.date = q.date]
  <2>4. NoRow \in NomRows /\ NoRow.paused = "none"
    <3>1. PICK v : v = [a \in Attendees |-> "none"]
      OBVIOUS
    <3>2. NoRow = [status |-> "none", paused |-> "none", entry |-> "none", date |-> NoDate,
                   votes |-> v]
      BY <3>1 DEF NoRow
    <3>3. v \in [Attendees -> VoteTypes \cup {"none"}]
      BY <3>1
    <3>4. QED BY <3>2, <3>3 DEF NomRows, Places
  <2>5. row \in NomRows /\ row.status = Initial(Mode[q.date]) /\ row.entry = q.entry
        /\ row.paused = "none"
    BY <2>1, <2>3, <2>4 DEF NomRows, Statuses, Active, Settled, Won
  <2>6. row.status \notin {"none", "Paused"} /\ row.entry \in Entries /\ row.paused = "none"
    BY <2>1, <2>3, <2>5 DEF Pausable
  <2>7. noms' = [noms EXCEPT ![q.nom] = row]
    BY <2>2
  <2> HIDE DEF row
  <2>8. ASSUME NEW n \in Noms PROVE NomSound(n)'
    BY <1>0, <2>1, <2>6, <2>7 DEF NomSound
  <2>9. QED BY <1>0, <2>1, <2>5, <2>7, <2>8
<1>2. CASE q.op = "vote"
  <2>1. q.nom \in Noms /\ q.who \in Attendees /\ q.answer \in VoteTypes
        /\ noms' = [noms EXCEPT ![q.nom].votes[q.who] = q.answer]
    BY <1>2 DEF Commits, Apt, WriteTable
  <2>2. noms[q.nom].status = "Open"
    BY <1>2, <1>0, Depths DEF Commits, Fact, VoteFact
  <2> DEFINE row == [noms[q.nom] EXCEPT !.votes = [noms[q.nom].votes EXCEPT ![q.who] = q.answer]]
  <2>3. noms[q.nom] \in NomRows
    BY <1>0, <2>1
  <2>4. row \in NomRows /\ row.status = noms[q.nom].status /\ row.paused = noms[q.nom].paused
        /\ row.entry = noms[q.nom].entry
    BY <2>1, <2>3 DEF NomRows
  <2>5. noms' = [noms EXCEPT ![q.nom] = row]
    BY <1>0, <2>1, <2>3 DEF NomRows
  <2> HIDE DEF row
  <2>6. ASSUME NEW n \in Noms PROVE NomSound(n)'
    BY <1>0, <2>1, <2>2, <2>4, <2>5 DEF NomSound
  <2>7. QED BY <1>0, <2>1, <2>4, <2>5, <2>6
<1>3. CASE q.op \in SettleOps \cup {"withdraw"}
  <2>1. q.nom \in Noms /\ noms[q.nom].status \in Active
    <3>1. CASE q.op = "withdraw"
      BY <1>0, <3>1, Depths DEF Commits, Apt, Fact, WithdrawFact
    <3>2. CASE q.op \in SettleOps
      BY <1>0, <3>2, Depths DEF Commits, Apt, Fact, SettleFact, Expected, Active, Pausable
    <3>3. QED BY <1>3, <3>1, <3>2
  <2> DEFINE row == IF q.op = "withdraw" THEN Withdrawn(noms[q.nom])
                    ELSE [noms[q.nom] EXCEPT !.status = q.outcome]
  <2>2. noms' = [noms EXCEPT ![q.nom] = row]
    BY <1>0, <1>3 DEF Commits, WriteTable, SettleOps
  <2>3. noms[q.nom] \in NomRows /\ NomSound(q.nom)
    BY <1>0, <2>1
  <2>4. q.op # "withdraw" => q.outcome \in Settled /\ noms[q.nom].status # "Paused"
    <3>1. q.op # "withdraw" => q.outcome \in Outcomes(q.op) /\ noms[q.nom].status = Expected(q.op)
      BY <1>0, <1>3, Depths DEF Commits, Fact, SettleFact
    <3>2. QED BY <1>3, <3>1 DEF Outcomes, Expected, SettleOps, Settled, Won
  <2>5. row \in NomRows /\ row.status \in Settled /\ row.paused = "none" /\ row.entry \in Entries
    BY <2>1, <2>3, <2>4 DEF NomRows, NomSound, Withdrawn, Statuses, Settled, Active, Pausable
  <2>6. row.status \notin {"none", "Paused"}
    BY <2>5 DEF Settled, Won
  <2> HIDE DEF row
  <2>7. ASSUME NEW n \in Noms PROVE NomSound(n)'
    BY <1>0, <2>1, <2>2, <2>5, <2>6 DEF NomSound
  <2>8. QED BY <1>0, <2>1, <2>2, <2>5, <2>7
<1>4. CASE q.op \in AttendeeOps
  <2>1. noms' = Synced(q)
    BY <1>4 DEF Commits, WriteTable
  <2>2. ASSUME NEW n \in Noms PROVE noms'[n] \in NomRows /\ NomSound(n)'
    <3>0. noms[n] \in NomRows /\ NomSound(n)
      BY <1>0
    <3>1. noms'[n] = noms[n] \/ Syncs(q, n)
      BY <1>4 DEF Commits, Effects, Makes, VotesOn, Closes, Undates, AttendeeOps, SettleOps
    <3>2. CASE noms'[n] = noms[n]
      BY <3>0, <3>2 DEF NomSound
    <3>3. CASE Syncs(q, n)
      <4>1. noms[n].status \in Active /\ noms[n].entry \in Entries
        BY <3>0, <3>3 DEF Syncs, Active, NomSound, Pausable
      <4>2. \/ noms[n].status \in Pausable /\ noms'[n].status = "Paused"
               /\ noms'[n].paused = noms[n].status
            \/ noms[n].status = "Paused" /\ noms[n].paused \in Pausable
               /\ noms'[n].status = noms[n].paused /\ noms'[n].paused = "none"
        BY <3>0, <3>3 DEF Syncs, NomSound
      <4>3. NomSound(n)'
        BY <3>3, <4>1, <4>2 DEF NomSound, Syncs, Pausable
      <4>4. noms'[n] = noms[n] \/ noms'[n] = [noms[n] EXCEPT !.status = noms'[n].status,
                                                            !.paused = noms'[n].paused]
        BY <2>1, <3>0 DEF Synced, NomRows
      <4>5. noms'[n] \in NomRows
        BY <3>0, <4>2, <4>4 DEF NomRows, Statuses, Active, Pausable
      <4>6. QED BY <4>3, <4>5
    <3>4. QED BY <3>1, <3>2, <3>3
  <2>3. QED BY <2>1, <2>2 DEF Synced
<1>5. CASE q.op = "removeDate"
  <2>1. noms' = [x \in Noms |-> IF x \in q.noms THEN [noms[x] EXCEPT !.date = NoDate] ELSE noms[x]]
    BY <1>5 DEF Commits, WriteTable
  <2>2. q.noms = Naming(q.date)
    BY <1>0, <1>5, Depths DEF Commits, Fact, DateFact, DateOps
  <2>3. ASSUME NEW n \in Noms PROVE noms'[n] \in NomRows /\ NomSound(n)'
    <3>0. noms[n] \in NomRows /\ NomSound(n)
      BY <1>0
    <3>1. CASE n \notin q.noms
      BY <2>1, <3>0, <3>1 DEF NomSound
    <3>2. CASE n \in q.noms
      <4>1. noms'[n] = [noms[n] EXCEPT !.date = NoDate] /\ noms[n].status # "none"
        BY <2>1, <2>2, <3>2 DEF Naming
      <4>2. noms'[n] \in NomRows
        BY <3>0, <4>1 DEF NomRows, Places
      <4>3. noms'[n].status = noms[n].status /\ noms'[n].paused = noms[n].paused
            /\ noms'[n].entry = noms[n].entry
        BY <3>0, <4>1 DEF NomRows
      <4>4. QED BY <3>0, <4>1, <4>2, <4>3 DEF NomSound
    <3>3. QED BY <3>1, <3>2
  <2>4. QED BY <2>1, <2>3
<1>6. CASE q.op \notin SettleOps \cup AttendeeOps \cup {"nominate", "vote", "withdraw", "removeDate"}
  BY <1>0, <1>6 DEF Commits, WriteTable, NomSound
<1>7. QED BY <1>1, <1>2, <1>3, <1>4, <1>5, <1>6

(* What a commit of each kind leaves alone. *)
LEMMA LeftAlone ==
    ASSUME NEW CONSTANT q, LineupInv, Commits(q), NEW e \in Entries, Supplies(e)
    PROVE  \/ Supplies(e)'
           \/ q.op \in AttendeeOps /\ q.who = Owner[e] /\ GoesOut(q)
           \/ q.op = "removeGame" /\ q.entry = e
<1>0. Owner[e] \in Attendees /\ Types
  BY DEF LineupInv
<1>1. CASE q.op \in AttendeeOps
  <2>1. list' = list /\ people' = [people EXCEPT ![q.who] = WrittenPerson(q)] /\ q.who \in Attendees
    BY <1>1 DEF Commits, WriteTable, AttendeeOps, Apt
  <2>2. Out(WrittenPerson(q)) <=> GoesOut(q)
    BY <1>0, <1>1, Depths, WrittenOut DEF Commits, Fact
  <2>3. people \in [Attendees -> [removed : BOOLEAN, status : Answers]]
    BY <1>0 DEF Types
  <2>4. CASE q.who = Owner[e]
    <3>1. people'[Owner[e]] = WrittenPerson(q)
      BY <1>0, <2>1, <2>3, <2>4
    <3>2. QED BY <1>1, <2>1, <2>2, <2>4, <3>1 DEF Supplies, In
  <2>5. CASE q.who # Owner[e]
    <3>1. people'[Owner[e]] = people[Owner[e]]
      BY <1>0, <2>1, <2>3, <2>5
    <3>2. QED BY <2>1, <3>1 DEF Supplies, In
  <2>6. QED BY <2>4, <2>5
<1>2. CASE q.op \notin AttendeeOps
  <2>1. people' = people
    BY <1>2 DEF Commits, WriteTable
  <2>2. list' = list \/ list' = [list EXCEPT ![q.entry] = "listed"]
        \/ (q.op = "removeGame" /\ list' = [list EXCEPT ![q.entry] = "removed"])
    BY DEF Commits, WriteTable
  <2>3. list'[e] = "listed" \/ (q.op = "removeGame" /\ q.entry = e)
    BY <1>0, <2>2 DEF Supplies, Types
  <2>4. QED BY <2>1, <2>3 DEF Supplies, In
<1>3. QED BY <1>1, <1>2

(* Transitions and a cancellation only take dates out of those ahead. *)
LEMMA AheadShrinks ==
    ASSUME NEW CONSTANT q, LineupInv, Commits(q), q.op \in TransitionOps \cup {"cancel"},
           NEW g \in Games, NEW at \in Nat, Ahead(dates', g, at)
    PROVE  Ahead(dates, g, at)
<1>0. dates \in [Dates -> DateRows]
  BY DEF LineupInv, Types
<1>1. ASSUME NEW d \in Dates
      PROVE  /\ DateAhead(dates', d, at) => DateAhead(dates, d, at)
             /\ dates'[d].status = "none" => dates[d].status = "none"
  <2>1. CASE q.op \in TransitionOps
    <3>1. q.date \in Dates /\ dates' = [dates EXCEPT ![q.date].status = To(q.op)]
      BY <2>1 DEF Commits, Apt, WriteTable
    <3>2. To(q.op) \in {"Confirmed", "Declined", "Cancelled"}
      BY <2>1 DEF To, TransitionOps
    <3>3. q.op = "confirm" <=> To(q.op) = "Confirmed"
      BY <2>1 DEF To, TransitionOps
    <3>4. q.op = "confirm" => dates[q.date].status = "Proposed"
      BY <2>1, Depths DEF Commits, Fact, TransitionFact, StillFrom, From
    <3>5. d # q.date => dates'[d] = dates[d]
      BY <1>0, <3>1
    <3>6. d = q.date => dates'[d].status = To(q.op) /\ dates'[d].start = dates[d].start
      BY <1>0, <3>1 DEF DateRows, NoStart
    <3>7. QED BY <3>2, <3>3, <3>4, <3>5, <3>6 DEF DateAhead
  <2>2. CASE q.op = "cancel"
    <3>1. dates' = CalledOff
      BY <2>2 DEF Commits, WriteTable
    <3>2. dates[d] \in DateRows
      BY <1>0
    <3>3. /\ dates'[d].status \notin {"Proposed", "Confirmed"}
          /\ dates'[d].status = "none" => dates[d].status = "none"
      BY <3>1, <3>2 DEF CalledOff, DateRows, NoStart
    <3>4. QED BY <3>3 DEF DateAhead
  <2>3. QED BY <2>1, <2>2
<1>2. CASE g.date # NoDate
  <2>1. g.date \in Dates
    BY <1>2 DEF Games, Places
  <2>2. QED BY <1>1, <1>2, <2>1 DEF Ahead
<1>3. CASE g.date = NoDate
  BY <1>1, <1>3 DEF Ahead
<1>4. QED BY <1>2, <1>3

(* After a commit, somebody still brings every game ahead. *)
LEMMA CommitBrings ==
    ASSUME NEW CONSTANT q, LineupInv, Commits(q)
    PROVE  SomebodyBringsIt'
<1> SUFFICES ASSUME NEW g \in lineup', Ahead(dates', g, clock'), ~Supplies(g.entry)'
             PROVE  FALSE
  BY DEF SomebodyBringsIt, Ahead, DateAhead
<1>0. /\ Types /\ dates \in [Dates -> DateRows] /\ q.op \in AllOps /\ Starts \subseteq Nat
      /\ q.at \in Nat /\ clock \in Nat /\ clock' = clock /\ q.at <= clock
  BY DEF LineupInv, Types, Commits, Requests, Apt
<1>1. g \in Games /\ g.entry \in Entries
  BY RowsWritten DEF Games
<1>2. g \in lineup /\ g \notin q.drop
  <2>1. SUFFICES ASSUME g \in Added(q) PROVE FALSE
    BY DEF Commits, WriteTable
  <2>2. q.op \in LineupOps \cup SettleOps
    BY <2>1 DEF Commits, WriteTable
  <2>3. g.entry = q.entry /\ Supplies(q.entry)
    <3>1. CASE q.op \in LineupOps
      <4>1. Supplies(q.entry)
        BY <1>0, <3>1, DepthIs DEF Commits, Fact, LineupFact
      <4>2. QED BY <2>1, <3>1, <4>1 DEF Commits, WriteTable, LineupOps, Game
    <3>2. CASE q.op \in SettleOps
      <4>1. q.outcome \in Won /\ g.entry = q.entry
        BY <2>1, <3>2 DEF Commits, WriteTable, Game
      <4>2. QED BY <1>0, <3>2, <4>1, Depths DEF Commits, Fact, SettleFact
    <3>3. QED BY <2>2, <3>1, <3>2
  <2>4. QED BY <1>1, <2>2, <2>3, LeftAlone DEF LineupOps, SettleOps, AttendeeOps
<1>3. CASE q.op \in DateOps
  <2>1. dates' = WrittenDates(q) /\ Swept(q) \subseteq q.drop
    BY <1>3 DEF Commits, WriteTable, Fact, DateFact
  <2>2. \A d \in Dates : dates'[d].start \in Nat
    BY <1>0, DatesWritten DEF DateRows, NoStart
  <2>3. Ahead(WrittenDates(q), g, q.at)
    BY <1>0, <1>1, <2>1, <2>2, AheadEarlier
  <2>4. ~Supplies(g.entry)
    BY <1>1, <1>3, LeftAlone DEF DateOps, AttendeeOps
  <2>5. QED BY <1>2, <2>1, <2>3, <2>4 DEF Swept, Unbrought
<1>4. CASE q.op \notin DateOps
  <2>1. Ahead(dates, g, clock)
    <3>1. CASE q.op \in TransitionOps \cup {"cancel"}
      BY <1>0, <1>1, <3>1, AheadShrinks
    <3>2. CASE q.op \notin TransitionOps \cup {"cancel"}
      BY <1>0, <1>4, <3>2 DEF Commits, WriteTable
    <3>3. QED BY <3>1, <3>2
  <2>2. Supplies(g.entry)
    BY <1>2, <2>1 DEF LineupInv, SomebodyBringsIt
  <2>3. Ahead(dates, g, q.at)
    <3>1. \A d \in Dates : dates[d].start \in Nat
      <4>1. \A row \in DateRows : row.start \in Nat
        <5>1. SUFFICES ASSUME NEW row \in DateRows PROVE row.start \in Nat
          OBVIOUS
        <5>2. CASE row = NoStart
          BY <5>2 DEF NoStart
        <5>3. CASE row # NoStart
          BY <1>0, <5>3 DEF DateRows
        <5>4. QED BY <5>2, <5>3
      <4>2. QED BY <1>0, <4>1
    <3>2. QED BY <1>0, <1>1, <2>1, <3>1, AheadEarlier
  <2>4. CASE q.op \in AttendeeOps /\ q.who = Owner[g.entry] /\ GoesOut(q)
    BY <1>0, <1>2, <2>3, <2>4, Depths DEF Commits, Fact, AttendeeFact
  <2>5. CASE q.op = "removeGame" /\ q.entry = g.entry
    BY <1>0, <1>2, <2>3, <2>5, Depths DEF Commits, Fact, RemoveGameFact
  <2>6. QED BY <1>1, <2>2, <2>4, <2>5, LeftAlone
<1>5. QED BY <1>3, <1>4

(* After a commit, nominations are paused exactly while their supplier is out. *)
LEMMA CommitPauses ==
    ASSUME NEW CONSTANT q, LineupInv, Commits(q)
    PROVE  PausedWhileOut'
<1> SUFFICES ASSUME NEW n \in Noms
             PROVE  /\ noms'[n].status \in Pausable => Supplies(noms[n].entry)'
                    /\ noms'[n].status = "Paused" =>
                           Out(people'[Owner[noms'[n].entry]]) /\ list'[noms'[n].entry] = "listed"
  BY DEF PausedWhileOut
<1>0. /\ Types /\ q.op \in AllOps /\ NomSound(n) /\ NomSound(n)'
      /\ noms[n].status \in Pausable => Supplies(noms[n].entry)
      /\ noms[n].status = "Paused" =>
             Out(people[Owner[noms[n].entry]]) /\ list[noms[n].entry] = "listed"
  BY NomsWritten DEF LineupInv, Commits, PausedWhileOut
<1>1. "none" \notin Active /\ "Paused" \notin Pausable
  BY DEF Active, Pausable
<1>2. CASE Makes(q, n)
  <2>1. noms'[n].status # "Paused" /\ noms'[n].entry = q.entry
    BY <1>2 DEF Makes, Pausable
  <2>2. q.entry \in Entries /\ Supplies(q.entry)
    BY <1>0, <1>2, DepthIs DEF Makes, Commits, Apt, Fact, LineupFact, LineupOps
  <2>3. Supplies(q.entry)'
    BY <1>2, <2>2, LeftAlone DEF Makes, AttendeeOps
  <2>4. QED BY <2>1, <2>3 DEF Supplies, In
<1>3. CASE VotesOn(q, n) \/ Closes(q, n) \/ Undates(q, n)
  <2>1. q.op \notin AttendeeOps \cup {"addGame", "removeGame"}
    BY <1>3 DEF VotesOn, Closes, Undates, SettleOps, AttendeeOps
  <2>2. people' = people /\ list' = list
    BY <2>1 DEF Commits, WriteTable
  <2>3. noms'[n].entry = noms[n].entry
        /\ (noms'[n].status = noms[n].status \/ noms'[n].status \notin Active)
    BY <1>3 DEF VotesOn, Closes, Undates, Active, Pausable, Settled, Won
  <2>4. QED BY <1>0, <2>2, <2>3 DEF Supplies, In, Active
<1>4. CASE Syncs(q, n)
  <2>1. /\ q.op \in AttendeeOps /\ q.who \in Attendees /\ Owner[noms[n].entry] = q.who
        /\ noms'[n].entry = noms[n].entry /\ list' = list
        /\ people' = [people EXCEPT ![q.who] = WrittenPerson(q)]
    BY <1>4 DEF Syncs, Commits, Apt, WriteTable, AttendeeOps
  <2>2. people'[q.who] = WrittenPerson(q) /\ (Out(WrittenPerson(q)) <=> GoesOut(q))
    BY <1>0, <2>1, Depths, WrittenOut DEF Commits, Fact, Types
  <2>3. CASE GoesOut(q)
    <3>1. noms[n].status \in Pausable /\ noms'[n].status = "Paused"
      BY <1>4, <2>3 DEF Syncs
    <3>2. QED BY <1>0, <1>1, <2>1, <2>2, <2>3, <3>1 DEF Supplies
  <2>4. CASE ~GoesOut(q)
    <3>1. noms[n].status = "Paused" /\ noms'[n].status \in Pausable
      BY <1>0, <1>4, <2>4 DEF Syncs, NomSound
    <3>2. QED BY <1>0, <1>1, <2>1, <2>2, <2>4, <3>1 DEF Supplies, In
  <2>5. QED BY <2>3, <2>4
<1>5. CASE noms'[n] = noms[n]
  <2> DEFINE e == noms[n].entry
  <2>1. SUFFICES ASSUME noms[n].status \in Active
                 PROVE  /\ noms[n].status \in Pausable => Supplies(e)'
                        /\ noms[n].status = "Paused" => Out(people'[Owner[e]]) /\ list'[e] = "listed"
    BY <1>5 DEF Active, Supplies, In
  <2>2. e \in Entries /\ Owner[e] \in Attendees
    BY <1>0, <1>1, <2>1 DEF NomSound
  <2>3. ~(q.op = "removeGame" /\ q.entry = e)
    BY <1>0, <2>1, Depths DEF Commits, Fact, RemoveGameFact
  <2>4. q.op \in AttendeeOps /\ q.who = Owner[e] =>
            n \notin ToSync(q)
    <3>1. ASSUME q.op \in AttendeeOps, n \in ToSync(q) PROVE FALSE
      <4>1. q.noms = ToSync(q) /\ noms' = Synced(q) /\ (Out(WrittenPerson(q)) <=> GoesOut(q))
        BY <1>0, <3>1, Depths, WrittenOut DEF Commits, Fact, AttendeeFact, WriteTable
      <4>2. noms'[n] = IF GoesOut(q)
                       THEN [noms[n] EXCEPT !.status = "Paused", !.paused = noms[n].status]
                       ELSE [noms[n] EXCEPT !.status = noms[n].paused, !.paused = "none"]
        BY <3>1, <4>1 DEF Synced
      <4>3. noms[n] \in NomRows
        BY <1>0 DEF Types
      <4>4. GoesOut(q) => noms'[n].status = "Paused" /\ noms[n].status \in Pausable
        BY <3>1, <4>2, <4>3 DEF ToSync, GoesOut, NomRows
      <4>5. ~GoesOut(q) => noms[n].status = "Paused" /\ noms'[n].paused = "none"
                           /\ noms'[n].status = noms[n].paused
        BY <3>1, <4>2, <4>3 DEF ToSync, GoesOut, NomRows
      <4>6. noms[n].status = "Paused" => noms[n].paused \in Pausable
        BY <1>0 DEF NomSound
      <4>7. QED BY <1>1, <1>5, <4>4, <4>5, <4>6
    <3>2. QED BY <3>1
  <2>5. q.op \in AttendeeOps /\ q.who = Owner[e] =>
            IF GoesOut(q) THEN noms[n].status = "Paused" ELSE noms[n].status \in Pausable
    BY <1>1, <2>1, <2>4 DEF ToSync, GoesOut, Active
  <2>6. noms[n].status \in Pausable => Supplies(e)'
    <3>1. PICK x \in Entries : x = e
      BY <2>2
    <3>2. noms[n].status \in Pausable => Supplies(x)'
      BY <1>0, <1>1, <2>3, <2>5, <3>1, LeftAlone
    <3>3. QED BY <1>5, <3>1, <3>2 DEF Supplies, In
  <2>7. ASSUME noms[n].status = "Paused" PROVE Out(people'[Owner[e]]) /\ list'[e] = "listed"
    <3>1. list[e] = "listed" /\ Out(people[Owner[e]])
      BY <1>0, <2>7
    <3>2. list'[e] = "listed"
      BY <1>0, <2>2, <2>3, <3>1 DEF Commits, WriteTable, Types
    <3>3. CASE q.op \in AttendeeOps /\ q.who = Owner[e]
      <4>1. people'[q.who] = WrittenPerson(q) /\ (Out(WrittenPerson(q)) <=> GoesOut(q))
        BY <1>0, <2>2, <3>3, Depths, WrittenOut DEF Commits, Fact, Types, WriteTable
      <4>2. GoesOut(q)
        BY <1>1, <2>5, <2>7, <3>3
      <4>3. QED BY <3>2, <3>3, <4>1, <4>2
    <3>4. CASE ~(q.op \in AttendeeOps /\ q.who = Owner[e])
      <4>1. people'[Owner[e]] = people[Owner[e]]
        BY <2>2, <3>4 DEF Commits, Effects, WritesPerson
      <4>2. QED BY <3>1, <3>2, <4>1
    <3>5. QED BY <3>3, <3>4
  <2>8. QED BY <2>6, <2>7
<1>6. QED BY <1>2, <1>3, <1>4, <1>5 DEF Commits, Effects

(* After a commit, only won nominations have brought games. *)
LEMMA CommitWon ==
    ASSUME NEW CONSTANT q, LineupInv, Commits(q)
    PROVE  OnlyWonGames'
<1> SUFFICES ASSUME NEW g \in lineup', g.nom # NoNom
             PROVE  /\ noms'[g.nom].status \in Won
                    /\ noms'[g.nom].entry = g.entry /\ noms'[g.nom].date = g.date
  BY DEF OnlyWonGames
<1>0. g \in Games /\ g.nom \in Noms /\ q.op \in AllOps
  BY RowsWritten DEF Games, Commits
<1>1. CASE g \in lineup /\ g \notin q.drop
  <2>1. /\ noms[g.nom].status \in Won
        /\ noms[g.nom].entry = g.entry /\ noms[g.nom].date = g.date
    BY <1>1 DEF LineupInv, OnlyWonGames
  <2>2. noms[g.nom].status \notin Active \cup {"none", "Open"}
    BY <2>1 DEF Won, Active, Pausable
  <2>3. noms'[g.nom] = noms[g.nom] \/ Undates(q, g.nom)
    BY <1>0, <2>2 DEF Commits, Effects, Makes, VotesOn, Closes, Syncs, Active
  <2>4. ~Undates(q, g.nom)
    <3>1. SUFFICES ASSUME q.op = "removeDate", g.date = q.date PROVE FALSE
      BY <2>1 DEF Undates
    <3>2. {x \in lineup : x.date = q.date} \subseteq q.drop
      BY <1>0, <3>1, Depths DEF Commits, Fact, DateFact, DateOps
    <3>3. QED BY <1>1, <3>1, <3>2
  <2>5. QED BY <2>1, <2>3, <2>4
<1>2. CASE g \in Added(q) /\ q.op = "nominate"
  <2>1. Mode[q.date] = "Direct" /\ g.nom = q.nom /\ g.entry = q.entry /\ g.date = q.date
    BY <1>2 DEF Commits, WriteTable, Game
  <2>2. noms[q.nom].status = "none" /\ noms \in [Noms -> NomRows] /\ Initial(Mode[q.date]) = "Passed"
    BY <1>2, <2>1 DEF Commits, Fact, NominateFact, LineupInv, Types, Initial
  <2>3. noms'[q.nom] = [NoRow EXCEPT !.status = Initial(Mode[q.date]), !.entry = q.entry,
                                     !.date = q.date]
    BY <1>0, <1>2, <2>1, <2>2 DEF Commits, WriteTable
  <2>4. QED BY <2>1, <2>2, <2>3 DEF NoRow, Won
<1>3. CASE g \in Added(q) /\ q.op \in SettleOps
  <2>1. q.outcome \in Won /\ g.nom = q.nom /\ g.entry = q.entry /\ g.date = noms[q.nom].date
    BY <1>3 DEF Commits, WriteTable, Game
  <2>2. noms[q.nom].entry = q.entry /\ noms \in [Noms -> NomRows]
    BY <1>3 DEF Commits, Fact, SettleFact, LineupInv, Types
  <2>3. noms' = [noms EXCEPT ![q.nom].status = q.outcome]
    BY <1>3 DEF Commits, WriteTable
  <2>4. QED BY <1>0, <2>1, <2>2, <2>3 DEF NomRows
<1>4. CASE g \in Added(q) /\ q.op = "directAdd"
  BY <1>4 DEF Commits, WriteTable, Game
<1>5. QED BY <1>1, <1>2, <1>3, <1>4 DEF Commits, WriteTable, LineupOps

(* After a commit, a cancelled event is off. *)
LEMMA CommitOff ==
    ASSUME NEW CONSTANT q, LineupInv, Commits(q)
    PROVE  CancelledIsOff'
<1> SUFFICES ASSUME event'.cancelled, NEW d \in Dates
             PROVE  dates'[d].status \notin {"Proposed", "Confirmed"}
  BY DEF CancelledIsOff
<1>0. q.op \in AllOps /\ dates \in [Dates -> DateRows] /\ Types /\ CancelledIsOff
  BY DEF Commits, LineupInv, Types
<1>1. CASE q.op = "cancel"
  <2>1. dates' = CalledOff /\ dates[d] \in DateRows
    BY <1>0, <1>1 DEF Commits, WriteTable
  <2>2. QED BY <2>1 DEF CalledOff, DateRows, NoStart
<1>2. CASE q.op # "cancel"
  <2>1. event.cancelled
    <3>1. \/ event' = event
          \/ event' = [event EXCEPT !.cancelled = FALSE]
          \/ event' = [event EXCEPT !.archived = TRUE] \/ event' = [event EXCEPT !.archived = FALSE]
          \/ event' = [event EXCEPT !.deleted = TRUE]
      BY <1>2 DEF Commits, WriteTable, LifecycleOps
    <3>2. event \in [deleted : BOOLEAN, cancelled : BOOLEAN, archived : BOOLEAN]
      BY <1>0 DEF Types
    <3>3. QED BY <3>1, <3>2
  <2>2. \A x \in Dates : dates[x].status \notin {"Proposed", "Confirmed"}
    BY <1>0, <2>1 DEF CancelledIsOff
  <2>3. q.op \notin {"addDate", "confirm"}
    BY <1>0, <2>1, Depths DEF Commits, Fact, DateFact, TransitionFact, DateOps, TransitionOps
  <2>4. CASE q.op \in {"moveDate", "removeDate"}
    <3>1. q.date \in Dates /\ dates' = WrittenDates(q)
      BY <2>4 DEF Commits, Apt, WriteTable, DateOps
    <3>2. d # q.date => dates'[d] = dates[d]
      BY <1>0, <3>1 DEF WrittenDates
    <3>3. CASE q.op = "moveDate" /\ d = q.date
      <4>1. dates'[d] = [dates[d] EXCEPT !.start = q.start]
        BY <1>0, <3>1, <3>3 DEF WrittenDates
      <4>2. dates'[d].status = dates[d].status
        BY <1>0, <4>1 DEF DateRows, NoStart
      <4>3. QED BY <2>2, <4>2
    <3>4. CASE q.op = "removeDate" /\ d = q.date
      <4>1. dates'[d] = NoStart
        BY <1>0, <3>1, <3>4 DEF WrittenDates
      <4>2. QED BY <4>1 DEF NoStart
    <3>5. QED BY <2>2, <2>4, <3>2, <3>3, <3>4
  <2>5. CASE q.op \in {"decline", "cancelDate"}
    <3>1. q.date \in Dates /\ dates' = [dates EXCEPT ![q.date].status = To(q.op)]
      BY <2>5 DEF Commits, Apt, WriteTable, TransitionOps
    <3>2. To(q.op) \in {"Declined", "Cancelled"}
      BY <2>5 DEF To
    <3>3. QED BY <1>0, <2>2, <3>1, <3>2 DEF DateRows, NoStart
  <2>6. CASE q.op \notin DateOps \cup TransitionOps
    BY <1>2, <2>2, <2>6 DEF Commits, WriteTable
  <2>7. QED BY <2>3, <2>4, <2>5, <2>6 DEF DateOps, TransitionOps
<1>3. QED BY <1>1, <1>2

-----------------------------------------------------------------------------
(* The steps. *)

(* Facts are about rows. *)
LEMMA SameFacts ==
    ASSUME NEW CONSTANT t, Fact(t), people' = people, list' = list, dates' = dates,
           event' = event, noms' = noms, lineup' = lineup
    PROVE  Fact(t)'
<1>1. Supplies(t.entry) => Supplies(t.entry)'
  BY DEF Supplies, In
<1>2. ToSync(t)' = ToSync(t) /\ Naming(t.date)' = Naming(t.date) /\ Swept(t)' = Swept(t)
  BY DEF ToSync, Naming, Swept, Unbrought, WrittenDates, Supplies, In, Ahead, DateAhead
<1>3. /\ LineupFact(t) => LineupFact(t)'
      /\ NominateFact(t) => NominateFact(t)'
      /\ VoteFact(t) => VoteFact(t)'
      /\ WithdrawFact(t) => WithdrawFact(t)'
      /\ TransitionFact(t) => TransitionFact(t)'
      /\ RemoveGameFact(t) => RemoveGameFact(t)'
  BY <1>1 DEF LineupFact, NominateFact, VoteFact, WithdrawFact, TransitionFact,
                    StillFrom, RemoveGameFact, Ahead, DateAhead
<1>4. SettleFact(t) => SettleFact(t)'
  BY <1>1 DEF SettleFact
<1>5. AttendeeFact(t) => AttendeeFact(t)'
  BY <1>2 DEF AttendeeFact, Ahead, DateAhead
<1>6. DateFact(t) => DateFact(t)'
  BY <1>2 DEF DateFact, Depth
<1>7. QED BY <1>3, <1>4, <1>5, <1>6 DEF Fact

(* A step that changes one request and no row. *)
LEMMA RequestStep ==
    ASSUME LineupInv, NEW r \in Reqs, NEW CONSTANT k, UNCHANGED <<rows, clock>>,
           req' = [req EXCEPT ![r] = k], k = Idle \/ (k \in Requests /\ Apt(k)), Fact(k),
           \A s \in Reqs \ {r} : Excludes(k, req[s]) /\ Excludes(req[s], k),
           k.op = "nominate" =>
               \A s \in Reqs \ {r} : req[s].op = "nominate" => req[s].nom # k.nom
    PROVE  LineupInv'
<1>0. /\ event' = event /\ people' = people /\ list' = list /\ dates' = dates
      /\ noms' = noms /\ lineup' = lineup /\ clock' = clock
  BY DEF rows
<1>1. DOMAIN req = Reqs /\ DOMAIN req' = Reqs /\ req'[r] = k
      /\ \A s \in Reqs \ {r} : req'[s] = req[s]
  BY DEF LineupInv, Types
<1>3. ASSUME NEW s \in Reqs PROVE Fact(req[s])'
  <2>1. PICK t : t = req'[s]
    OBVIOUS
  <2>2. Fact(t)
    BY <1>1, <2>1 DEF LineupInv
  <2>3. Fact(t)'
    BY <1>0, <2>2, SameFacts
  <2>4. QED BY <2>1, <2>3
<1>4. ASSUME NEW s \in Reqs PROVE req'[s] = Idle \/ (req'[s] \in Requests /\ Apt(req[s])')
  <2>1. CASE s = r
    BY <1>0, <1>1, <2>1 DEF Apt, Depth
  <2>2. CASE s # r
    <3>1. req'[s] = req[s] /\ (req[s] = Idle \/ (req[s] \in Requests /\ Apt(req[s])))
      BY <1>1, <2>2 DEF LineupInv, Types
    <3>2. QED BY <1>0, <3>1 DEF Apt, Depth
  <2>3. QED BY <2>1, <2>2
<1>5. Types'
  BY <1>0, <1>1, <1>4 DEF LineupInv, Types
<1>6. Exclusion'
  BY <1>1 DEF LineupInv, Exclusion, Excludes
<1>7. NewIds'
  BY <1>1 DEF LineupInv, NewIds
<1>8. \A n \in Noms : NomSound(n)'
  BY <1>0 DEF LineupInv, NomSound
<1>9. SomebodyBringsIt' /\ PausedWhileOut' /\ OnlyWonGames' /\ CancelledIsOff'
  BY <1>0 DEF LineupInv, SomebodyBringsIt, PausedWhileOut, OnlyWonGames, CancelledIsOff,
              Supplies, In, Ahead, DateAhead
<1>10. QED BY <1>3, <1>5, <1>6, <1>7, <1>8, <1>9 DEF LineupInv

(* An idle request promises and holds nothing. *)
LEMMA IdleIsFree ==
    Fact(Idle) /\ Idle.op = "idle" /\ Idle.step = 0
  BY DEF Idle, Fact, LineupOps, SettleOps, AttendeeOps, DateOps, TransitionOps

(* A request may end at any time. *)
LEMMA AbortKeeps ==
    ASSUME LineupInv, NEW r \in Reqs, Abort(r)
    PROVE  LineupInv'
<1>1. PICK k : k = Idle
  OBVIOUS
<1>2. req' = [req EXCEPT ![r] = k] /\ UNCHANGED <<rows, clock>>
  BY <1>1 DEF Abort
<1>3. Fact(k) /\ k.op # "nominate" /\ k.step = 0
  BY <1>1, IdleIsFree
<1>4. QED BY <1>1, <1>2, <1>3, NothingHeld, RequestStep

(* Time passes. *)
LEMMA TickKeeps ==
    ASSUME LineupInv, Tick
    PROVE  LineupInv'
<1>0. /\ event' = event /\ people' = people /\ list' = list /\ dates' = dates
      /\ noms' = noms /\ lineup' = lineup /\ req' = req
      /\ clock \in Nat /\ clock' = clock + 1 /\ clock' \in 0 .. MaxClock
  BY DEF rows, Tick, LineupInv, Types
<1>1. ASSUME NEW s \in Reqs PROVE Fact(req[s])'
  <2>1. PICK t : t = req[s]
    OBVIOUS
  <2>2. Fact(t)
    BY <2>1 DEF LineupInv
  <2>3. Fact(t)'
    BY <1>0, <2>2, SameFacts
  <2>4. QED BY <1>0, <2>1, <2>3
<1>2. ASSUME NEW s \in Reqs PROVE req'[s] = Idle \/ (req'[s] \in Requests /\ Apt(req[s])')
  <2>1. req[s] = Idle \/ (req[s] \in Requests /\ Apt(req[s]))
    BY DEF LineupInv, Types
  <2>2. ASSUME req[s] \in Requests, Apt(req[s]) PROVE Apt(req[s])'
    <3>1. req[s].at \in Nat /\ req[s].at <= clock'
      BY <1>0, <2>2 DEF Requests, Apt
    <3>2. QED BY <1>0, <2>2, <3>1 DEF Apt, Depth
  <2>3. QED BY <1>0, <2>1, <2>2
<1>3. Types'
  BY <1>0, <1>2 DEF LineupInv, Types
<1>4. Exclusion' /\ NewIds'
  BY <1>0 DEF LineupInv, Exclusion, Excludes, NewIds
<1>5. \A n \in Noms : NomSound(n)'
  BY <1>0 DEF LineupInv, NomSound
<1>6. PausedWhileOut' /\ OnlyWonGames' /\ CancelledIsOff'
  BY <1>0 DEF LineupInv, PausedWhileOut, OnlyWonGames, CancelledIsOff, Supplies, In
<1>7. SomebodyBringsIt'
  <2> SUFFICES ASSUME NEW g \in lineup, Ahead(dates, g, clock') PROVE Supplies(g.entry)
    BY <1>0 DEF SomebodyBringsIt, Supplies, In, Ahead, DateAhead
  <2>1. \A d \in Dates : dates[d].start \in Nat
    <3>1. SUFFICES ASSUME NEW row \in DateRows PROVE row.start \in Nat
      BY DEF LineupInv, Types
    <3>2. CASE row = NoStart
      BY <3>2 DEF NoStart
    <3>3. CASE row # NoStart
      BY <3>3 DEF DateRows
    <3>4. QED BY <3>2, <3>3
  <2>2. g \in Games
    BY DEF LineupInv, Types
  <2>3. Ahead(dates, g, clock)
    BY <1>0, <2>1, <2>2, AheadEarlier
  <2>4. QED BY <2>3 DEF LineupInv, SomebodyBringsIt
<1>8. QED BY <1>1, <1>3, <1>4, <1>5, <1>6, <1>7 DEF LineupInv

(* A commit keeps the invariant. *)
LEMMA CommitKeeps ==
    ASSUME LineupInv, NEW r \in Reqs, Commit(r)
    PROVE  LineupInv'
<1>1. PICK q : q = req[r]
  OBVIOUS
<1>2. Commits(q)
  BY <1>1, Committing, CommitWrites, CommitEffects DEF Commits
<1>3. req' = [req EXCEPT ![r] = Idle] /\ DOMAIN req = Reqs /\ clock' = clock
  BY CommitWrites DEF LineupInv, Types
<1>4. req'[r] = Idle /\ DOMAIN req' = Reqs /\ \A s \in Reqs \ {r} : req'[s] = req[s]
  BY <1>3
<1>5. ASSUME NEW s \in Reqs PROVE Fact(req[s])'
  <2>1. CASE s = r
    <3>1. Fact(Idle)'
      BY DEF Idle, Fact, LineupOps, SettleOps, AttendeeOps, DateOps, TransitionOps
    <3>2. QED BY <1>4, <2>1, <3>1
  <2>2. CASE s # r /\ req[s] = Idle
    <3>1. Fact(Idle)'
      BY DEF Idle, Fact, LineupOps, SettleOps, AttendeeOps, DateOps, TransitionOps
    <3>2. QED BY <1>4, <2>2, <3>1
  <2>3. CASE s # r /\ req[s] # Idle
    <3>1. PICK t : t = req[s]
      OBVIOUS
    <3>2. Beside(q, t)
      BY <1>1, <1>2, <2>3, <3>1 DEF Beside, Commits, LineupInv, Types, Exclusion, NewIds
    <3>3. Fact(t)'
      BY <3>2, FactsStand
    <3>4. QED BY <1>4, <2>3, <3>1, <3>3
  <2>4. QED BY <2>1, <2>2, <2>3
<1>6. Types'
  <2>1. ASSUME NEW s \in Reqs PROVE req'[s] = Idle \/ (req'[s] \in Requests /\ Apt(req[s])')
    <3>1. CASE s = r
      BY <1>4, <3>1
    <3>2. CASE s # r
      <4>1. req'[s] = req[s] /\ (req[s] = Idle \/ (req[s] \in Requests /\ Apt(req[s])))
        BY <1>4, <3>2 DEF LineupInv, Types
      <4>2. QED BY <1>3, <4>1 DEF Apt, Depth
    <3>3. QED BY <3>1, <3>2
  <2>2. QED BY <1>2, <1>3, <1>4, <2>1, RowsWritten, DatesWritten, NomsWritten DEF LineupInv, Types
<1>7. Exclusion'
  <2>1. SUFFICES ASSUME NEW s \in Reqs, NEW t \in Reqs, s # t PROVE Excludes(req'[s], req'[t])
    BY DEF Exclusion, Excludes
  <2>2. CASE s = r \/ t = r
    BY <1>4, <2>2, IdleIsFree, NothingHeld
  <2>3. CASE s # r /\ t # r
    BY <1>4, <2>1, <2>3 DEF LineupInv, Exclusion
  <2>4. QED BY <2>2, <2>3
<1>8. NewIds'
  BY <1>4, IdleIsFree DEF LineupInv, NewIds
<1>9. QED BY <1>2, <1>5, <1>6, <1>7, <1>8, NomsWritten, CommitBrings, CommitPauses, CommitWon,
             CommitOff DEF LineupInv

(* What an operation has read when its transaction begins. *)
Read(q) ==
    /\ q \in Requests /\ Apt(q) /\ q.step = 0
    /\ q.op = "nominate" =>
           /\ noms[q.nom].status = "none"
           /\ \A s \in Reqs : req[s].op = "nominate" => req[s].nom # q.nom
    /\ q.op \in SettleOps \cup {"vote", "withdraw"} => noms[q.nom].status # "none"
    /\ q.op \in SettleOps => noms[q.nom].entry = q.entry

(* A transaction begins. *)
LEMMA BeginKeeps ==
    ASSUME LineupInv, NEW r \in Reqs, NEW CONSTANT q, Read(q), Begin(r, q)
    PROVE  LineupInv'
<1>1. PICK k : k = [q EXCEPT !.at = clock]
  OBVIOUS
<1>2. req' = [req EXCEPT ![r] = k] /\ UNCHANGED <<rows, clock>> /\ clock \in Nat
  BY <1>1 DEF Begin, LineupInv, Types
<1>3. q \in Requests /\ Apt(q)
  BY DEF Read
<1>4. /\ k.op = q.op /\ k.step = q.step /\ k.who = q.who /\ k.entry = q.entry /\ k.nom = q.nom
      /\ k.date = q.date /\ k.answer = q.answer /\ k.start = q.start /\ k.at = clock
      /\ k \in Requests
  BY <1>1, <1>2, <1>3 DEF Requests
<1>5. Depth(k) = Depth(q)
  BY <1>4 DEF Depth
<1>6. Apt(k)
  BY <1>2, <1>3, <1>4, <1>5 DEF Apt
<1>7. k.step = 0 /\ Depth(k) \in 1 .. 3
  BY <1>4, DepthIs DEF Read
<1>8. Fact(k)
  <2>1. LineupFact(k) /\ AttendeeFact(k) /\ RemoveGameFact(k) /\ DateFact(k) /\ TransitionFact(k)
    BY <1>7 DEF LineupFact, AttendeeFact, RemoveGameFact, DateFact, TransitionFact
  <2>2. /\ k.op = "nominate" => NominateFact(k)
        /\ k.op = "vote" => VoteFact(k)
        /\ k.op = "withdraw" => WithdrawFact(k)
        /\ k.op \in SettleOps => SettleFact(k)
    BY <1>4, <1>7 DEF Read, NominateFact, VoteFact, WithdrawFact, SettleFact
  <2>3. QED BY <2>1, <2>2 DEF Fact
<1>9. k.op = "nominate" => \A s \in Reqs \ {r} : req[s].op = "nominate" => req[s].nom # k.nom
  BY <1>4 DEF Read
<1>10. QED BY <1>2, <1>4, <1>6, <1>7, <1>8, <1>9, NothingHeld, RequestStep

(* A request made of an idle one, with the rows its operation is about. *)
Fresh(q, votes, op, who, entry, nom, date, answer, start) ==
    q = [op |-> op, step |-> 0, who |-> who, entry |-> entry, nom |-> nom, date |-> date,
         answer |-> answer, start |-> start, at |-> 0, noms |-> {}, drop |-> {},
         ballot |-> votes, outcome |-> "none"]

(* Its fields. *)
Fields(q, op, who, entry, nom, date, answer, start) ==
    /\ q \in Requests /\ q.step = 0 /\ q.at = 0 /\ q.step <= Depth(q) /\ q.at <= clock
    /\ q.op = op /\ q.who = who /\ q.entry = entry /\ q.nom = nom /\ q.date = date
    /\ q.answer = answer /\ q.start = start

(* They are what it was made of. *)
LEMMA FreshFields ==
    ASSUME LineupInv, NEW op \in AllOps, NEW who \in Attendees \cup {"none"},
           NEW entry \in Entries \cup {"none"}, NEW nom \in Noms \cup {NoNom}, NEW date \in Places,
           NEW answer \in Words, NEW start \in Starts \cup {0},
           NEW votes \in [Attendees -> VoteTypes \cup {"none"}],
           NEW q, Fresh(q, votes, op, who, entry, nom, date, answer, start)
    PROVE  Fields(q, op, who, entry, nom, date, answer, start)
<1>1. q.op = op /\ q.who = who /\ q.entry = entry /\ q.nom = nom /\ q.date = date
      /\ q.answer = answer /\ q.start = start /\ q.step = 0 /\ q.at = 0
  BY DEF Fresh
<1>2. q \in Requests
  BY DEF Fresh, Requests, Results
<1>3. Depth(q) \in 1 .. 3 /\ clock \in Nat
  BY DepthIs DEF LineupInv, Types
<1>4. QED BY <1>1, <1>2, <1>3 DEF Fields

(* Every operation begins with what it has read. *)
LEMMA LoadKeeps ==
    ASSUME LineupInv, NEW r \in Reqs, Load(r)
    PROVE  LineupInv'
<1>0. /\ LineupInv /\ noms \in [Noms -> NomRows]
      /\ list \in [Entries -> {"absent", "listed", "removed"}]
      /\ \A n \in Noms : noms[n].status # "none" => noms[n].entry \in Entries
      /\ \A n \in Noms : noms[n].date \in Places
  BY DEF LineupInv, Types, NomSound, NomRows
<1>b. PICK b : b = NoRow.votes
  OBVIOUS
<1>v. b \in [Attendees -> VoteTypes \cup {"none"}]
  <2>1. NoRow.votes = [a \in Attendees |-> "none"]
    BY DEF NoRow
  <2>2. QED BY <1>b, <2>1
<1>i. PICK i : i = [op |-> "idle", step |-> 0, who |-> "none", entry |-> "none",
                    nom |-> NoNom, date |-> NoDate, answer |-> "none", start |-> 0, at |-> 0,
                    noms |-> {}, drop |-> {}, ballot |-> b, outcome |-> "none"]
  OBVIOUS
<1>j. i = Idle
  BY <1>b, <1>i DEF Idle
<1>1. ASSUME NEW n \in Noms, NEW e \in Entries, NEW d \in Places, Nominate(r, n, e, d) PROVE LineupInv'
  <2>1. PICK q : q = [i EXCEPT !.op = "nominate", !.entry = e, !.nom = n, !.date = d]
    OBVIOUS
  <2>2. Fresh(q, b, "nominate", "none", e, n, d, "none", 0)
    BY ONLY <1>i, <2>1 DEF Fresh
  <2>3. Begin(r, q) /\ noms[n].status = "none" /\ Mode[d] # "HostOnly"
        /\ \A s \in Reqs : req[s].op = "nominate" => req[s].nom # n
    BY <1>j, <1>1, <2>1 DEF Nominate
  <2>4. /\ "nominate" \in AllOps
        /\ "none" \in Attendees \cup {"none"}
        /\ e \in Entries \cup {"none"}
        /\ n \in Noms \cup {NoNom}
        /\ d \in Places
        /\ "none" \in Words
        /\ 0 \in Starts \cup {0}
    BY <1>0, <1>1, <2>3 DEF Words, Places, AllOps, AttendeeOps, LineupOps, SettleOps, TransitionOps, LifecycleOps, DateOps
  <2>5. q \in Requests /\ q.op = "nominate" /\ q.step = 0 /\ q.step <= Depth(q) /\ q.at <= clock
        /\ q.entry = e /\ q.nom = n /\ q.date = d
    <3>1. Fields(q, "nominate", "none", e, n, d, "none", 0)
      BY <1>0, <1>v, <2>2, <2>4, FreshFields, Zenon
    <3>2. QED BY <3>1 DEF Fields
  <2>6. Read(q)
    BY <1>0, <1>1, <2>3, <2>5 DEF Read, Apt, AllOps, AttendeeOps, LineupOps, SettleOps, TransitionOps, LifecycleOps, DateOps
  <2>7. QED BY <2>3, <2>6, BeginKeeps
<1>2. ASSUME NEW e \in Entries, NEW d \in Places, DirectAdd(r, e, d) PROVE LineupInv'
  <2>1. PICK q : q = [i EXCEPT !.op = "directAdd", !.entry = e, !.date = d]
    OBVIOUS
  <2>2. Fresh(q, b, "directAdd", "none", e, NoNom, d, "none", 0)
    BY ONLY <1>i, <2>1 DEF Fresh
  <2>3. Begin(r, q)
    BY <1>j, <1>2, <2>1 DEF DirectAdd
  <2>4. /\ "directAdd" \in AllOps
        /\ "none" \in Attendees \cup {"none"}
        /\ e \in Entries \cup {"none"}
        /\ NoNom \in Noms \cup {NoNom}
        /\ d \in Places
        /\ "none" \in Words
        /\ 0 \in Starts \cup {0}
    BY <1>0, <1>2 DEF Words, Places, AllOps, AttendeeOps, LineupOps, SettleOps, TransitionOps, LifecycleOps, DateOps
  <2>5. q \in Requests /\ q.op = "directAdd" /\ q.step = 0 /\ q.step <= Depth(q) /\ q.at <= clock
        /\ q.entry = e /\ q.date = d
    <3>1. Fields(q, "directAdd", "none", e, NoNom, d, "none", 0)
      BY <1>0, <1>v, <2>2, <2>4, FreshFields, Zenon
    <3>2. QED BY <3>1 DEF Fields
  <2>6. Read(q)
    BY <1>0, <1>2, <2>3, <2>5 DEF Read, Apt, AllOps, AttendeeOps, LineupOps, SettleOps, TransitionOps, LifecycleOps, DateOps
  <2>7. QED BY <2>3, <2>6, BeginKeeps
<1>3. ASSUME NEW n \in Noms, NEW a \in Attendees, NEW v \in VoteTypes, CastVote(r, n, a, v) PROVE LineupInv'
  <2>1. PICK q : q = [i EXCEPT !.op = "vote", !.who = a, !.nom = n, !.answer = v]
    OBVIOUS
  <2>2. Fresh(q, b, "vote", a, "none", n, NoDate, v, 0)
    BY ONLY <1>i, <2>1 DEF Fresh
  <2>3. Begin(r, q) /\ noms[n].status # "none"
    BY <1>j, <1>3, <2>1 DEF CastVote
  <2>4. /\ "vote" \in AllOps
        /\ a \in Attendees \cup {"none"}
        /\ "none" \in Entries \cup {"none"}
        /\ n \in Noms \cup {NoNom}
        /\ NoDate \in Places
        /\ v \in Words
        /\ 0 \in Starts \cup {0}
    BY <1>0, <1>3, <2>3 DEF Words, Places, AllOps, AttendeeOps, LineupOps, SettleOps, TransitionOps, LifecycleOps, DateOps
  <2>5. q \in Requests /\ q.op = "vote" /\ q.step = 0 /\ q.step <= Depth(q) /\ q.at <= clock
        /\ q.who = a /\ q.nom = n /\ q.answer = v
    <3>1. Fields(q, "vote", a, "none", n, NoDate, v, 0)
      BY <1>0, <1>v, <2>2, <2>4, FreshFields, Zenon
    <3>2. QED BY <3>1 DEF Fields
  <2>6. Read(q)
    BY <1>0, <1>3, <2>3, <2>5 DEF Read, Apt, AllOps, AttendeeOps, LineupOps, SettleOps, TransitionOps, LifecycleOps, DateOps
  <2>7. QED BY <2>3, <2>6, BeginKeeps
<1>4. ASSUME NEW n \in Noms, Withdraw(r, n) PROVE LineupInv'
  <2>1. PICK q : q = [i EXCEPT !.op = "withdraw", !.nom = n]
    OBVIOUS
  <2>2. Fresh(q, b, "withdraw", "none", "none", n, NoDate, "none", 0)
    BY ONLY <1>i, <2>1 DEF Fresh
  <2>3. Begin(r, q) /\ noms[n].status # "none"
    BY <1>j, <1>4, <2>1 DEF Withdraw, Active, Pausable
  <2>4. /\ "withdraw" \in AllOps
        /\ "none" \in Attendees \cup {"none"}
        /\ "none" \in Entries \cup {"none"}
        /\ n \in Noms \cup {NoNom}
        /\ NoDate \in Places
        /\ "none" \in Words
        /\ 0 \in Starts \cup {0}
    BY <1>0, <1>4, <2>3 DEF Words, Places, AllOps, AttendeeOps, LineupOps, SettleOps, TransitionOps, LifecycleOps, DateOps
  <2>5. q \in Requests /\ q.op = "withdraw" /\ q.step = 0 /\ q.step <= Depth(q) /\ q.at <= clock
        /\ q.nom = n
    <3>1. Fields(q, "withdraw", "none", "none", n, NoDate, "none", 0)
      BY <1>0, <1>v, <2>2, <2>4, FreshFields, Zenon
    <3>2. QED BY <3>1 DEF Fields
  <2>6. Read(q)
    BY <1>0, <1>4, <2>3, <2>5 DEF Read, Apt, AllOps, AttendeeOps, LineupOps, SettleOps, TransitionOps, LifecycleOps, DateOps
  <2>7. QED BY <2>3, <2>6, BeginKeeps
<1>5. ASSUME NEW n \in Noms, NEW op \in SettleOps, Settle(r, n, op) PROVE LineupInv'
  <2>1. PICK q : q = [i EXCEPT !.op = op, !.entry = noms[n].entry, !.nom = n, !.date = noms[n].date]
    OBVIOUS
  <2>2. Fresh(q, b, op, "none", noms[n].entry, n, noms[n].date, "none", 0)
    BY ONLY <1>i, <2>1 DEF Fresh
  <2>3. Begin(r, q) /\ noms[n].status # "none"
    BY <1>j, <1>5, <2>1 DEF Settle
  <2>4. /\ op \in AllOps
        /\ "none" \in Attendees \cup {"none"}
        /\ noms[n].entry \in Entries \cup {"none"}
        /\ n \in Noms \cup {NoNom}
        /\ noms[n].date \in Places
        /\ "none" \in Words
        /\ 0 \in Starts \cup {0}
    BY <1>0, <1>5, <2>3 DEF Words, Places, AllOps, AttendeeOps, LineupOps, SettleOps, TransitionOps, LifecycleOps, DateOps
  <2>5. q \in Requests /\ q.op = op /\ q.step = 0 /\ q.step <= Depth(q) /\ q.at <= clock
        /\ q.entry = noms[n].entry /\ q.nom = n /\ q.date = noms[n].date
    <3>1. Fields(q, op, "none", noms[n].entry, n, noms[n].date, "none", 0)
      BY <1>0, <1>v, <2>2, <2>4, FreshFields, Zenon
    <3>2. QED BY <3>1 DEF Fields
  <2>6. Read(q)
    BY <1>0, <1>5, <2>3, <2>5 DEF Read, Apt, AllOps, AttendeeOps, LineupOps, SettleOps, TransitionOps, LifecycleOps, DateOps
  <2>7. QED BY <2>3, <2>6, BeginKeeps
<1>6. ASSUME NEW a \in Attendees, NEW s \in Answers, UpdateStatus(r, a, s) PROVE LineupInv'
  <2>1. PICK q : q = [i EXCEPT !.op = "rsvp", !.who = a, !.answer = s]
    OBVIOUS
  <2>2. Fresh(q, b, "rsvp", a, "none", NoNom, NoDate, s, 0)
    BY ONLY <1>i, <2>1 DEF Fresh
  <2>3. Begin(r, q)
    BY <1>j, <1>6, <2>1 DEF UpdateStatus
  <2>4. /\ "rsvp" \in AllOps
        /\ a \in Attendees \cup {"none"}
        /\ "none" \in Entries \cup {"none"}
        /\ NoNom \in Noms \cup {NoNom}
        /\ NoDate \in Places
        /\ s \in Words
        /\ 0 \in Starts \cup {0}
    BY <1>0, <1>6 DEF Words, Places, AllOps, AttendeeOps, LineupOps, SettleOps, TransitionOps, LifecycleOps, DateOps
  <2>5. q \in Requests /\ q.op = "rsvp" /\ q.step = 0 /\ q.step <= Depth(q) /\ q.at <= clock
        /\ q.who = a /\ q.answer = s
    <3>1. Fields(q, "rsvp", a, "none", NoNom, NoDate, s, 0)
      BY <1>0, <1>v, <2>2, <2>4, FreshFields, Zenon
    <3>2. QED BY <3>1 DEF Fields
  <2>6. Read(q)
    BY <1>0, <1>6, <2>3, <2>5 DEF Read, Apt, AllOps, AttendeeOps, LineupOps, SettleOps, TransitionOps, LifecycleOps, DateOps
  <2>7. QED BY <2>3, <2>6, BeginKeeps
<1>7. ASSUME NEW a \in Attendees, RemoveAttendee(r, a) PROVE LineupInv'
  <2>1. PICK q : q = [i EXCEPT !.op = "removeAttendee", !.who = a]
    OBVIOUS
  <2>2. Fresh(q, b, "removeAttendee", a, "none", NoNom, NoDate, "none", 0)
    BY ONLY <1>i, <2>1 DEF Fresh
  <2>3. Begin(r, q)
    BY <1>j, <1>7, <2>1 DEF RemoveAttendee
  <2>4. /\ "removeAttendee" \in AllOps
        /\ a \in Attendees \cup {"none"}
        /\ "none" \in Entries \cup {"none"}
        /\ NoNom \in Noms \cup {NoNom}
        /\ NoDate \in Places
        /\ "none" \in Words
        /\ 0 \in Starts \cup {0}
    BY <1>0, <1>7 DEF Words, Places, AllOps, AttendeeOps, LineupOps, SettleOps, TransitionOps, LifecycleOps, DateOps
  <2>5. q \in Requests /\ q.op = "removeAttendee" /\ q.step = 0 /\ q.step <= Depth(q) /\ q.at <= clock
        /\ q.who = a
    <3>1. Fields(q, "removeAttendee", a, "none", NoNom, NoDate, "none", 0)
      BY <1>0, <1>v, <2>2, <2>4, FreshFields, Zenon
    <3>2. QED BY <3>1 DEF Fields
  <2>6. Read(q)
    BY <1>0, <1>7, <2>3, <2>5 DEF Read, Apt, AllOps, AttendeeOps, LineupOps, SettleOps, TransitionOps, LifecycleOps, DateOps
  <2>7. QED BY <2>3, <2>6, BeginKeeps
<1>8. ASSUME NEW a \in Attendees, NEW s \in Answers, AddAttendee(r, a, s) PROVE LineupInv'
  <2>1. PICK q : q = [i EXCEPT !.op = "addAttendee", !.who = a, !.answer = s]
    OBVIOUS
  <2>2. Fresh(q, b, "addAttendee", a, "none", NoNom, NoDate, s, 0)
    BY ONLY <1>i, <2>1 DEF Fresh
  <2>3. Begin(r, q)
    BY <1>j, <1>8, <2>1 DEF AddAttendee
  <2>4. /\ "addAttendee" \in AllOps
        /\ a \in Attendees \cup {"none"}
        /\ "none" \in Entries \cup {"none"}
        /\ NoNom \in Noms \cup {NoNom}
        /\ NoDate \in Places
        /\ s \in Words
        /\ 0 \in Starts \cup {0}
    BY <1>0, <1>8 DEF Words, Places, AllOps, AttendeeOps, LineupOps, SettleOps, TransitionOps, LifecycleOps, DateOps
  <2>5. q \in Requests /\ q.op = "addAttendee" /\ q.step = 0 /\ q.step <= Depth(q) /\ q.at <= clock
        /\ q.who = a /\ q.answer = s
    <3>1. Fields(q, "addAttendee", a, "none", NoNom, NoDate, s, 0)
      BY <1>0, <1>v, <2>2, <2>4, FreshFields, Zenon
    <3>2. QED BY <3>1 DEF Fields
  <2>6. Read(q)
    BY <1>0, <1>8, <2>3, <2>5 DEF Read, Apt, AllOps, AttendeeOps, LineupOps, SettleOps, TransitionOps, LifecycleOps, DateOps
  <2>7. QED BY <2>3, <2>6, BeginKeeps
<1>9. ASSUME NEW e \in Entries, AddGameToList(r, e) PROVE LineupInv'
  <2>1. PICK q : q = [i EXCEPT !.op = "addGame", !.entry = e, !.answer = list[e]]
    OBVIOUS
  <2>2. Fresh(q, b, "addGame", "none", e, NoNom, NoDate, list[e], 0)
    BY ONLY <1>i, <2>1 DEF Fresh
  <2>3. Begin(r, q)
    BY <1>j, <1>9, <2>1 DEF AddGameToList
  <2>4. /\ "addGame" \in AllOps
        /\ "none" \in Attendees \cup {"none"}
        /\ e \in Entries \cup {"none"}
        /\ NoNom \in Noms \cup {NoNom}
        /\ NoDate \in Places
        /\ list[e] \in Words
        /\ 0 \in Starts \cup {0}
    BY <1>0, <1>9 DEF Words, Places, AllOps, AttendeeOps, LineupOps, SettleOps, TransitionOps, LifecycleOps, DateOps
  <2>5. q \in Requests /\ q.op = "addGame" /\ q.step = 0 /\ q.step <= Depth(q) /\ q.at <= clock
        /\ q.entry = e /\ q.answer = list[e]
    <3>1. Fields(q, "addGame", "none", e, NoNom, NoDate, list[e], 0)
      BY <1>0, <1>v, <2>2, <2>4, FreshFields, Zenon
    <3>2. QED BY <3>1 DEF Fields
  <2>6. Read(q)
    BY <1>0, <1>9, <2>3, <2>5 DEF Read, Apt, AllOps, AttendeeOps, LineupOps, SettleOps, TransitionOps, LifecycleOps, DateOps
  <2>7. QED BY <2>3, <2>6, BeginKeeps
<1>10. ASSUME NEW e \in Entries, RemoveGameFromList(r, e) PROVE LineupInv'
  <2>1. PICK q : q = [i EXCEPT !.op = "removeGame", !.entry = e]
    OBVIOUS
  <2>2. Fresh(q, b, "removeGame", "none", e, NoNom, NoDate, "none", 0)
    BY ONLY <1>i, <2>1 DEF Fresh
  <2>3. Begin(r, q)
    BY <1>j, <1>10, <2>1 DEF RemoveGameFromList
  <2>4. /\ "removeGame" \in AllOps
        /\ "none" \in Attendees \cup {"none"}
        /\ e \in Entries \cup {"none"}
        /\ NoNom \in Noms \cup {NoNom}
        /\ NoDate \in Places
        /\ "none" \in Words
        /\ 0 \in Starts \cup {0}
    BY <1>0, <1>10 DEF Words, Places, AllOps, AttendeeOps, LineupOps, SettleOps, TransitionOps, LifecycleOps, DateOps
  <2>5. q \in Requests /\ q.op = "removeGame" /\ q.step = 0 /\ q.step <= Depth(q) /\ q.at <= clock
        /\ q.entry = e
    <3>1. Fields(q, "removeGame", "none", e, NoNom, NoDate, "none", 0)
      BY <1>0, <1>v, <2>2, <2>4, FreshFields, Zenon
    <3>2. QED BY <3>1 DEF Fields
  <2>6. Read(q)
    BY <1>0, <1>10, <2>3, <2>5 DEF Read, Apt, AllOps, AttendeeOps, LineupOps, SettleOps, TransitionOps, LifecycleOps, DateOps
  <2>7. QED BY <2>3, <2>6, BeginKeeps
<1>11. ASSUME NEW d \in Dates, NEW s \in {"Proposed", "Confirmed"}, NEW t \in Starts, AddOccurrence(r, d, s, t) PROVE LineupInv'
  <2>1. PICK q : q = [i EXCEPT !.op = "addDate", !.date = d, !.answer = s, !.start = t]
    OBVIOUS
  <2>2. Fresh(q, b, "addDate", "none", "none", NoNom, d, s, t)
    BY ONLY <1>i, <2>1 DEF Fresh
  <2>3. Begin(r, q)
    BY <1>j, <1>11, <2>1 DEF AddOccurrence
  <2>4. /\ "addDate" \in AllOps
        /\ "none" \in Attendees \cup {"none"}
        /\ "none" \in Entries \cup {"none"}
        /\ NoNom \in Noms \cup {NoNom}
        /\ d \in Places
        /\ s \in Words
        /\ t \in Starts \cup {0}
    BY <1>0, <1>11 DEF Words, Places, AllOps, AttendeeOps, LineupOps, SettleOps, TransitionOps, LifecycleOps, DateOps
  <2>5. q \in Requests /\ q.op = "addDate" /\ q.step = 0 /\ q.step <= Depth(q) /\ q.at <= clock
        /\ q.date = d /\ q.answer = s /\ q.start = t
    <3>1. Fields(q, "addDate", "none", "none", NoNom, d, s, t)
      BY <1>0, <1>v, <2>2, <2>4, FreshFields, Zenon
    <3>2. QED BY <3>1 DEF Fields
  <2>6. Read(q)
    BY <1>0, <1>11, <2>3, <2>5 DEF Read, Apt, AllOps, AttendeeOps, LineupOps, SettleOps, TransitionOps, LifecycleOps, DateOps
  <2>7. QED BY <2>3, <2>6, BeginKeeps
<1>12. ASSUME NEW d \in Dates, NEW t \in Starts, UpdateOccurrence(r, d, t) PROVE LineupInv'
  <2>1. PICK q : q = [i EXCEPT !.op = "moveDate", !.date = d, !.start = t]
    OBVIOUS
  <2>2. Fresh(q, b, "moveDate", "none", "none", NoNom, d, "none", t)
    BY ONLY <1>i, <2>1 DEF Fresh
  <2>3. Begin(r, q)
    BY <1>j, <1>12, <2>1 DEF UpdateOccurrence
  <2>4. /\ "moveDate" \in AllOps
        /\ "none" \in Attendees \cup {"none"}
        /\ "none" \in Entries \cup {"none"}
        /\ NoNom \in Noms \cup {NoNom}
        /\ d \in Places
        /\ "none" \in Words
        /\ t \in Starts \cup {0}
    BY <1>0, <1>12 DEF Words, Places, AllOps, AttendeeOps, LineupOps, SettleOps, TransitionOps, LifecycleOps, DateOps
  <2>5. q \in Requests /\ q.op = "moveDate" /\ q.step = 0 /\ q.step <= Depth(q) /\ q.at <= clock
        /\ q.date = d /\ q.start = t
    <3>1. Fields(q, "moveDate", "none", "none", NoNom, d, "none", t)
      BY <1>0, <1>v, <2>2, <2>4, FreshFields, Zenon
    <3>2. QED BY <3>1 DEF Fields
  <2>6. Read(q)
    BY <1>0, <1>12, <2>3, <2>5 DEF Read, Apt, AllOps, AttendeeOps, LineupOps, SettleOps, TransitionOps, LifecycleOps, DateOps
  <2>7. QED BY <2>3, <2>6, BeginKeeps
<1>13. ASSUME NEW d \in Dates, RemoveOccurrence(r, d) PROVE LineupInv'
  <2>1. PICK q : q = [i EXCEPT !.op = "removeDate", !.date = d]
    OBVIOUS
  <2>2. Fresh(q, b, "removeDate", "none", "none", NoNom, d, "none", 0)
    BY ONLY <1>i, <2>1 DEF Fresh
  <2>3. Begin(r, q)
    BY <1>j, <1>13, <2>1 DEF RemoveOccurrence
  <2>4. /\ "removeDate" \in AllOps
        /\ "none" \in Attendees \cup {"none"}
        /\ "none" \in Entries \cup {"none"}
        /\ NoNom \in Noms \cup {NoNom}
        /\ d \in Places
        /\ "none" \in Words
        /\ 0 \in Starts \cup {0}
    BY <1>0, <1>13 DEF Words, Places, AllOps, AttendeeOps, LineupOps, SettleOps, TransitionOps, LifecycleOps, DateOps
  <2>5. q \in Requests /\ q.op = "removeDate" /\ q.step = 0 /\ q.step <= Depth(q) /\ q.at <= clock
        /\ q.date = d
    <3>1. Fields(q, "removeDate", "none", "none", NoNom, d, "none", 0)
      BY <1>0, <1>v, <2>2, <2>4, FreshFields, Zenon
    <3>2. QED BY <3>1 DEF Fields
  <2>6. Read(q)
    BY <1>0, <1>13, <2>3, <2>5 DEF Read, Apt, AllOps, AttendeeOps, LineupOps, SettleOps, TransitionOps, LifecycleOps, DateOps
  <2>7. QED BY <2>3, <2>6, BeginKeeps
<1>14. ASSUME NEW d \in Dates, NEW op \in TransitionOps, Transition(r, d, op) PROVE LineupInv'
  <2>1. PICK q : q = [i EXCEPT !.op = op, !.date = d]
    OBVIOUS
  <2>2. Fresh(q, b, op, "none", "none", NoNom, d, "none", 0)
    BY ONLY <1>i, <2>1 DEF Fresh
  <2>3. Begin(r, q)
    BY <1>j, <1>14, <2>1 DEF Transition
  <2>4. /\ op \in AllOps
        /\ "none" \in Attendees \cup {"none"}
        /\ "none" \in Entries \cup {"none"}
        /\ NoNom \in Noms \cup {NoNom}
        /\ d \in Places
        /\ "none" \in Words
        /\ 0 \in Starts \cup {0}
    BY <1>0, <1>14 DEF Words, Places, AllOps, AttendeeOps, LineupOps, SettleOps, TransitionOps, LifecycleOps, DateOps
  <2>5. q \in Requests /\ q.op = op /\ q.step = 0 /\ q.step <= Depth(q) /\ q.at <= clock
        /\ q.date = d
    <3>1. Fields(q, op, "none", "none", NoNom, d, "none", 0)
      BY <1>0, <1>v, <2>2, <2>4, FreshFields, Zenon
    <3>2. QED BY <3>1 DEF Fields
  <2>6. Read(q)
    BY <1>0, <1>14, <2>3, <2>5 DEF Read, Apt, AllOps, AttendeeOps, LineupOps, SettleOps, TransitionOps, LifecycleOps, DateOps
  <2>7. QED BY <2>3, <2>6, BeginKeeps
<1>15. ASSUME NEW op \in LifecycleOps, Lifecycle(r, op) PROVE LineupInv'
  <2>1. PICK q : q = [i EXCEPT !.op = op]
    OBVIOUS
  <2>2. Fresh(q, b, op, "none", "none", NoNom, NoDate, "none", 0)
    BY ONLY <1>i, <2>1 DEF Fresh
  <2>3. Begin(r, q)
    BY <1>j, <1>15, <2>1 DEF Lifecycle
  <2>4. /\ op \in AllOps
        /\ "none" \in Attendees \cup {"none"}
        /\ "none" \in Entries \cup {"none"}
        /\ NoNom \in Noms \cup {NoNom}
        /\ NoDate \in Places
        /\ "none" \in Words
        /\ 0 \in Starts \cup {0}
    BY <1>0, <1>15 DEF Words, Places, AllOps, AttendeeOps, LineupOps, SettleOps, TransitionOps, LifecycleOps, DateOps
  <2>5. q \in Requests /\ q.op = op /\ q.step = 0 /\ q.step <= Depth(q) /\ q.at <= clock
    <3>1. Fields(q, op, "none", "none", NoNom, NoDate, "none", 0)
      BY <1>0, <1>v, <2>2, <2>4, FreshFields, Zenon
    <3>2. QED BY <3>1 DEF Fields
  <2>6. Read(q)
    BY <1>0, <1>15, <2>3, <2>5 DEF Read, Apt, AllOps, AttendeeOps, LineupOps, SettleOps, TransitionOps, LifecycleOps, DateOps
  <2>7. QED BY <2>3, <2>6, BeginKeeps
<1>16. QED BY <1>1, <1>2, <1>3, <1>4, <1>5, <1>6, <1>7, <1>8, <1>9, <1>10, <1>11, <1>12, <1>13, <1>14, <1>15
             DEF Load

(* What a lock checks, operation by operation. *)
CheckTable(q, i) ==
    /\ q.op \in LineupOps /\ i = 1 => Supplies(q.entry)
    /\ q.op = "vote" => noms[q.nom].status = "Open"
    /\ q.op = "withdraw" => noms[q.nom].status \in Active
    /\ q.op \in SettleOps /\ i = 3 => noms[q.nom].status = Expected(q.op)
    /\ q.op = "rsvp" /\ i = 1 => ~people[q.who].removed
    /\ q.op = "removeGame" /\ i = 2 =>
           /\ \A n \in Noms : noms[n].entry = q.entry => noms[n].status \notin Active
           /\ \A g \in lineup : g.entry = q.entry => ~Ahead(dates, g, q.at)
    /\ q.op = "addDate" => ~event.cancelled
    /\ q.op = "moveDate" => dates[q.date].status # "none"
    /\ q.op \in TransitionOps => StillFrom(q)
    /\ q.op = "confirm" => ~event.cancelled

(* The table is what Checks says. *)
LEMMA ChecksAre ==
    ASSUME NEW q, NEW i, Checks(q, i)
    PROVE  CheckTable(q, i)
<1>1. /\ q.op \in LineupOps /\ i = 1 => Supplies(q.entry)
      /\ q.op = "vote" => noms[q.nom].status = "Open"
      /\ q.op = "withdraw" => noms[q.nom].status \in Active
      /\ q.op \in SettleOps /\ i = 3 => noms[q.nom].status = Expected(q.op)
      /\ q.op = "rsvp" /\ i = 1 => ~people[q.who].removed
  BY DEF Checks, Withdrawable, LineupOps, SettleOps, Expected
<1>2. q.op = "removeGame" /\ i = 2 =>
           /\ \A n \in Noms : noms[n].entry = q.entry => noms[n].status \notin Active
           /\ \A g \in lineup : g.entry = q.entry => ~Ahead(dates, g, q.at)
  BY DEF Checks, LineupOps, SettleOps
<1>3. /\ q.op = "addDate" => ~event.cancelled
      /\ q.op = "moveDate" => dates[q.date].status # "none"
  BY DEF Checks, NotCancelled, LineupOps, SettleOps
<1>4. /\ q.op \in TransitionOps => StillFrom(q)
      /\ q.op = "confirm" => ~event.cancelled
  BY DEF Checks, NotCancelled, LineupOps, SettleOps, TransitionOps
<1>5. QED BY <1>1, <1>2, <1>3, <1>4 DEF CheckTable

(* The outcomes a settlement can come to. *)
LEMMA OutcomeIs ==
    ASSUME NEW q
    PROVE  /\ q.op \in SettleOps => Outcome(q) \in Outcomes(q.op)
           /\ Outcome(q) \in Results
<1>1. CASE q.op = "resolve"
  <2>1. ASSUME NEW policy, NEW votes, NEW voters
        PROVE  Resolve(policy, votes, voters) \in {"Passed", "Failed", "QuorumNotMet"}
    BY DEF Resolve
  <2>2. Outcome(q) \in {"Passed", "Failed", "QuorumNotMet"}
    BY <1>1, <2>1 DEF Outcome
  <2>3. QED BY <1>1, <2>2 DEF Outcomes, Results
<1>2. CASE q.op \in {"approve", "reject"}
  BY <1>2 DEF Outcome, Outcomes, Results
<1>3. CASE q.op \notin SettleOps
  <2>1. Outcome(q) = "none"
    BY <1>3 DEF Outcome, SettleOps
  <2>2. QED BY <1>3, <2>1 DEF Results
<1>4. QED BY <1>1, <1>2, <1>3 DEF SettleOps

(* k is q after its next lock. *)
Locked(q, k) ==
    /\ k \in Requests /\ Apt(k) /\ Advances(q, k) /\ CheckTable(q, k.step)
    /\ k.step = Depth(q) => k.drop = Dropped(q) /\ k.outcome = Outcome(q)
    /\ k.step = Depth(q) /\ q.op = "resolve" => k.ballot = noms[q.nom].votes
    /\ k.outcome \in Won => Supplies(q.entry)

(* What a request knows after a lock. *)
LEMMA LockFact ==
    ASSUME LineupInv, NEW q \in Requests, Apt(q), Fact(q), NEW k, Locked(q, k)
    PROVE  Fact(k)
<1>0. /\ k.op = q.op /\ k.who = q.who /\ k.entry = q.entry /\ k.nom = q.nom /\ k.date = q.date
      /\ k.answer = q.answer /\ k.start = q.start /\ k.at = q.at
      /\ k.step = q.step + 1 /\ k.step <= Depth(q) /\ q.step \in 0 .. 3 /\ q.op \in AllOps
  BY DEF Locked, Advances, Requests
<1>1. Depth(k) = Depth(q) /\ Depth(q) \in 1 .. 3
  BY <1>0, DepthIs DEF Depth
<1>2. CheckTable(q, k.step)
  BY DEF Locked
<1>3. k.op \in LineupOps => LineupFact(k)
  BY <1>0, <1>2 DEF CheckTable, Fact, LineupFact
<1>4. /\ k.op = "nominate" => NominateFact(k)
      /\ k.op = "vote" => VoteFact(k)
      /\ k.op = "withdraw" => WithdrawFact(k)
  BY <1>0, <1>2 DEF CheckTable, Fact, NominateFact, VoteFact, WithdrawFact
<1>5. ASSUME k.op \in SettleOps PROVE SettleFact(k)
  <2>1. Depth(q) = 3 /\ SettleFact(q)
    BY <1>0, <1>5, Depths DEF Fact
  <2>2. k.step >= 3 => k.step = 3
    BY <1>0, <2>1
  <2>3. k.step = 3 => k.outcome = Outcome(q) /\ k.outcome \in Outcomes(q.op)
    BY <1>0, <1>5, <2>1, OutcomeIs DEF Locked
  <2>4. QED BY <1>0, <1>2, <1>5, <2>1, <2>2, <2>3 DEF Locked, CheckTable, SettleFact
<1>6. ASSUME k.op \in AttendeeOps PROVE AttendeeFact(k)
  <2>1. Depth(q) = 3 /\ AttendeeFact(q)
    BY <1>0, <1>6, Depths DEF Fact
  <2>2. k.step >= 1 /\ k.op = "rsvp" => ~people[k.who].removed
    BY <1>0, <1>2, <2>1 DEF CheckTable, AttendeeFact
  <2>3. ASSUME k.step >= 3
        PROVE  /\ k.noms = ToSync(k)
               /\ GoesOut(k) =>
                      {g \in lineup : Owner[g.entry] = k.who /\ Ahead(dates, g, k.at)} \subseteq k.drop
    <3>1. k.step = 3 /\ k.noms = ToSync(q) /\ k.drop = Dropped(q)
      BY <1>0, <1>6, <2>1, <2>3 DEF Locked, Advances
    <3>2. ToSync(k) = ToSync(q)
      BY <1>0 DEF ToSync
    <3>3. GoesOut(k) =>
              Dropped(q) = {g \in lineup : Owner[g.entry] = q.who /\ Ahead(dates, g, q.at)}
      BY <1>0, <1>6 DEF Dropped, GoesOut, DateOps, AttendeeOps
    <3>4. QED BY <1>0, <3>1, <3>2, <3>3
  <2>4. QED BY <2>2, <2>3 DEF AttendeeFact
<1>7. ASSUME k.op = "removeGame" PROVE RemoveGameFact(k)
  <2>1. Depth(q) = 2
    BY <1>0, <1>7, Depths
  <2>2. k.step >= 2 => k.step = 2
    BY <1>0, <2>1
  <2>3. QED BY <1>0, <1>2, <1>7, <2>2 DEF CheckTable, RemoveGameFact
<1>8. ASSUME k.op \in DateOps PROVE DateFact(k)
  <2>1. k.op = "addDate" /\ k.step >= 1 => ~event.cancelled
    BY <1>0, <1>2 DEF CheckTable
  <2>2. k.op = "moveDate" /\ k.step >= 1 => dates[k.date].status # "none"
    BY <1>0, <1>2 DEF CheckTable
  <2>3. Dropped(q) = Swept(q) \cup {g \in lineup : q.op = "removeDate" /\ g.date = q.date}
    BY <1>0, <1>8 DEF Dropped, DateOps, AttendeeOps
  <2>4. Swept(k) = Swept(q)
    BY <1>0 DEF Swept, Unbrought, WrittenDates
  <2>5. k.step = Depth(k) => Swept(k) \subseteq k.drop
    BY <1>1, <2>3, <2>4 DEF Locked
  <2>6. ASSUME k.op = "removeDate", k.step >= 3
        PROVE  k.noms = Naming(k.date) /\ {g \in lineup : g.date = k.date} \subseteq k.drop
    <3>1. Depth(q) = 3
      BY <1>0, <2>6, Depths
    <3>2. k.step = 3
      BY <1>0, <2>6, <3>1
    <3>3. QED BY <1>0, <2>3, <2>6, <3>1, <3>2 DEF Locked, Advances
  <2>7. QED BY <2>1, <2>2, <2>5, <2>6 DEF DateFact
<1>9. k.op \in TransitionOps => TransitionFact(k)
  BY <1>0, <1>2 DEF CheckTable, TransitionFact, StillFrom
<1>10. QED BY <1>3, <1>4, <1>5, <1>6, <1>7, <1>8, <1>9 DEF Fact

(* Taking a lock keeps the invariant. *)
LEMMA LockKeeps ==
    ASSUME LineupInv, NEW r \in Reqs, Lock(r)
    PROVE  LineupInv'
<1>1. PICK q : q = req[r]
  OBVIOUS
<1>2. q.op # "idle" /\ q.step + 1 <= Len(Locks(q)) /\ Checks(q, q.step + 1)
      /\ \A s \in Reqs : ~WaitsFor(r, s)
  BY <1>1 DEF Lock
<1>3. q \in Requests /\ Apt(q) /\ Fact(q) /\ q.op \in AllOps
  <2>1. q # Idle
    BY <1>2 DEF Idle
  <2>2. QED BY <1>1, <2>1 DEF LineupInv, Types, Requests
<1>4. Len(Locks(q)) = Depth(q) /\ Depth(q) \in 1 .. 3 /\ q.step \in 0 .. 3
  BY <1>3, LocksCount, DepthIs DEF Requests
<1> DEFINE i == q.step + 1
           last == i = Depth(q)
           newNoms == CASE q.op \in AttendeeOps /\ last -> ToSync(q)
                        [] q.op = "removeDate" /\ last -> Naming(q.date)
                        [] OTHER -> {}
           newDrop == IF last THEN Dropped(q) ELSE {}
           newBallot == IF q.op = "resolve" /\ last THEN noms[q.nom].votes ELSE NoRow.votes
           newOutcome == IF last THEN Outcome(q) ELSE "none"
<1>5. PICK k : k = [q EXCEPT !.step = i, !.noms = newNoms, !.drop = newDrop,
                             !.ballot = newBallot, !.outcome = newOutcome]
  OBVIOUS
<1>6. req' = [req EXCEPT ![r] = k] /\ UNCHANGED <<rows, clock>>
      /\ (newOutcome \in Won => Supplies(q.entry))
  BY <1>1, <1>4, <1>5 DEF Lock
<1>7. newNoms \in SUBSET Noms /\ newDrop \in SUBSET Games /\ newOutcome \in Results
      /\ newBallot \in [Attendees -> VoteTypes \cup {"none"}] /\ i \in 0 .. 3
  <2>1. newNoms \in SUBSET Noms
    BY DEF ToSync, Naming
  <2>2. Dropped(q) \subseteq lineup
    BY DEF Dropped, Swept, Unbrought
  <2>3. newDrop \in SUBSET Games
    BY <2>2 DEF LineupInv, Types
  <2>4. newOutcome \in Results
    BY OutcomeIs DEF Results
  <2>5. newBallot \in [Attendees -> VoteTypes \cup {"none"}]
    <3>1. NoRow.votes = [a \in Attendees |-> "none"]
      BY DEF NoRow
    <3>2. NoRow.votes \in [Attendees -> VoteTypes \cup {"none"}]
      BY <3>1
    <3>3. q.op = "resolve" => q.nom \in Noms
      BY <1>3 DEF Apt, SettleOps
    <3>4. q.op = "resolve" => noms[q.nom].votes \in [Attendees -> VoteTypes \cup {"none"}]
      BY <3>3 DEF LineupInv, Types, NomRows
    <3>5. QED BY <3>2, <3>4
  <2>6. QED BY <1>2, <1>4, <2>1, <2>3, <2>4, <2>5
<1>8. /\ q.op \in AttendeeOps /\ last => newNoms = ToSync(q)
      /\ q.op = "removeDate" /\ last => newNoms = Naming(q.date)
  BY DEF AttendeeOps
<1>9. /\ k.op = q.op /\ k.who = q.who /\ k.entry = q.entry /\ k.nom = q.nom /\ k.date = q.date
      /\ k.answer = q.answer /\ k.start = q.start /\ k.at = q.at /\ k.step = i
      /\ k.noms = newNoms /\ k.drop = newDrop /\ k.ballot = newBallot /\ k.outcome = newOutcome
      /\ k \in Requests
  <2> HIDE DEF i, newNoms, newDrop, newBallot, newOutcome
  <2>1. QED BY <1>3, <1>5, <1>7 DEF Requests
<1>10. Advances(q, k)
  <2>1. q.op \in AttendeeOps \cup {"removeDate"} => Depth(q) = 3
    BY <1>3, Depths
  <2> HIDE DEF newNoms, newDrop, newBallot, newOutcome
  <2>2. QED BY <1>2, <1>4, <1>8, <1>9, <2>1 DEF Advances
<1>11. Apt(k)
  <2>1. Depth(k) = Depth(q)
    BY <1>9 DEF Depth
  <2> HIDE DEF newNoms, newDrop, newBallot, newOutcome
  <2>2. QED BY <1>2, <1>3, <1>4, <1>9, <2>1 DEF Apt
<1>12. Locked(q, k)
  <2>1. CheckTable(q, k.step)
    BY <1>2, <1>9, ChecksAre
  <2>2. QED BY <1>6, <1>9, <1>10, <1>11, <2>1 DEF Locked
<1> HIDE DEF i, last, newNoms, newDrop, newBallot, newOutcome
<1>13. Fact(k)
  BY <1>3, <1>12, LockFact
<1>14. ASSUME NEW s \in Reqs \ {r} PROVE Excludes(k, req[s]) /\ Excludes(req[s], k)
  <2>1. CASE req[s] = Idle
    BY <2>1, IdleIsFree, NothingHeld
  <2>2. CASE req[s] # Idle
    <3>1. req[s] \in Requests /\ Apt(req[s]) /\ Excludes(q, req[s]) /\ Excludes(req[s], q)
      BY <1>1, <2>2 DEF LineupInv, Types, Exclusion
    <3>2. QED BY <1>1, <1>2, <1>3, <1>10, <3>1, LockExcludes
  <2>3. QED BY <2>1, <2>2
<1>15. k.op = "nominate" => \A s \in Reqs \ {r} : req[s].op = "nominate" => req[s].nom # k.nom
  <2>1. k.op = req[r].op /\ k.nom = req[r].nom
    BY <1>1, <1>9
  <2>2. NewIds
    BY DEF LineupInv
  <2>3. QED BY <2>1, <2>2 DEF NewIds
<1>16. QED BY <1>6, <1>9, <1>11, <1>13, <1>14, <1>15, RequestStep

-----------------------------------------------------------------------------
(* Theorems. *)

(* A new event satisfies the invariant. *)
LEMMA InitKeeps ==
    ASSUME Init
    PROVE  LineupInv
<1>1. /\ event = [deleted |-> FALSE, cancelled |-> FALSE, archived |-> FALSE]
      /\ people \in [Attendees -> {Person(FALSE, s) : s \in Answers \ {"NotAttending"}}]
      /\ list = [e \in Entries |-> "absent"]
      /\ dates = [d \in Dates |-> NoStart]
      /\ noms = [n \in Noms |-> NoRow]
      /\ lineup = {} /\ clock = 0 /\ req = [r \in Reqs |-> Idle]
  BY DEF Init
<1>2. NoRow \in NomRows /\ NoRow.status = "none"
  <2>1. PICK v : v = [a \in Attendees |-> "none"]
    OBVIOUS
  <2>2. NoRow = [status |-> "none", paused |-> "none", entry |-> "none", date |-> NoDate,
                 votes |-> v]
    BY <2>1 DEF NoRow
  <2>3. v \in [Attendees -> VoteTypes \cup {"none"}]
    BY <2>1
  <2>4. QED BY <2>2, <2>3 DEF NomRows, Places
<1>3. Types
  <2>1. event \in [deleted : BOOLEAN, cancelled : BOOLEAN, archived : BOOLEAN]
    BY <1>1
  <2>2. people \in [Attendees -> [removed : BOOLEAN, status : Answers]]
    <3>1. ASSUME NEW s \in Answers
          PROVE  Person(FALSE, s) \in [removed : BOOLEAN, status : Answers]
      BY DEF Person
    <3>2. ASSUME NEW a \in Attendees
          PROVE  people[a] \in [removed : BOOLEAN, status : Answers]
      <4>1. people[a] \in {Person(FALSE, s) : s \in Answers \ {"NotAttending"}}
        BY <1>1
      <4>2. PICK s \in Answers : people[a] = Person(FALSE, s)
        BY <4>1
      <4>3. QED BY <4>2, <3>1
    <3>3. people = [a \in Attendees |-> people[a]]
      BY <1>1
    <3>4. QED BY <3>2, <3>3
  <2>3. dates \in [Dates -> DateRows]
    BY <1>1 DEF DateRows
  <2>4. noms \in [Noms -> NomRows]
    BY <1>1, <1>2
  <2>5. list \in [Entries -> {"absent", "listed", "removed"}]
    BY <1>1
  <2>6. lineup \subseteq Games /\ clock \in 0 .. MaxClock
    BY <1>1
  <2>7. DOMAIN req = Reqs /\ \A r \in Reqs : req[r] = Idle
    BY <1>1
  <2>8. QED BY <2>1, <2>2, <2>3, <2>4, <2>5, <2>6, <2>7 DEF Types
<1>4. \A n \in Noms : NomSound(n) /\ noms[n].status = "none"
  BY <1>1, <1>2 DEF NomSound
<1>5. ASSUME NEW r \in Reqs PROVE req[r] = Idle /\ Fact(req[r]) /\ req[r].step = 0
                                  /\ req[r].op = "idle"
  BY <1>1, IdleIsFree
<1>6. Exclusion /\ NewIds
  BY <1>5, NothingHeld DEF Exclusion, NewIds
<1>7. SomebodyBringsIt /\ OnlyWonGames
  BY <1>1 DEF SomebodyBringsIt, OnlyWonGames
<1>8. PausedWhileOut
  BY <1>4 DEF PausedWhileOut, Pausable
<1>9. CancelledIsOff
  BY <1>1 DEF CancelledIsOff
<1>10. QED BY <1>3, <1>4, <1>5, <1>6, <1>7, <1>8, <1>9 DEF LineupInv

(* Nothing happens. *)
LEMMA StutterKeeps ==
    ASSUME LineupInv, UNCHANGED vars
    PROVE  LineupInv'
<1>0. /\ event' = event /\ people' = people /\ list' = list /\ dates' = dates
      /\ noms' = noms /\ lineup' = lineup /\ clock' = clock /\ req' = req
  BY DEF vars, rows
<1>1. ASSUME NEW s \in Reqs PROVE Fact(req[s])'
  <2>1. PICK t : t = req[s]
    OBVIOUS
  <2>2. Fact(t)
    BY <2>1 DEF LineupInv
  <2>3. Fact(t)'
    BY <1>0, <2>2, SameFacts
  <2>4. QED BY <1>0, <2>1, <2>3
<1>2. Types'
  BY <1>0 DEF LineupInv, Types, Apt, Depth
<1>3. Exclusion' /\ NewIds'
  BY <1>0 DEF LineupInv, Exclusion, Excludes, NewIds
<1>4. \A n \in Noms : NomSound(n)'
  BY <1>0 DEF LineupInv, NomSound
<1>5. PausedWhileOut' /\ OnlyWonGames' /\ CancelledIsOff'
  BY <1>0 DEF LineupInv, PausedWhileOut, OnlyWonGames, CancelledIsOff, Supplies, In
<1>6. SomebodyBringsIt'
  BY <1>0 DEF LineupInv, SomebodyBringsIt, Supplies, In, Ahead, DateAhead
<1>7. QED BY <1>1, <1>2, <1>3, <1>4, <1>5, <1>6 DEF LineupInv

(* LineupInv is inductive: it holds of a new event and every load, lock,     *)
(* commit, abort and tick keeps it.                                          *)
THEOREM LineupInvariance == Spec => []LineupInv
<1>1. Init => LineupInv
  BY InitKeeps
<1>2. LineupInv /\ [Next]_vars => LineupInv'
  <2> SUFFICES ASSUME LineupInv, [Next]_vars PROVE LineupInv'
    OBVIOUS
  <2>1. ASSUME NEW r \in Reqs, Load(r) \/ Lock(r) \/ Commit(r) \/ Abort(r) PROVE LineupInv'
    BY <2>1, LoadKeeps, LockKeeps, CommitKeeps, AbortKeeps
  <2>2. CASE Tick
    BY <2>2, TickKeeps
  <2>3. CASE UNCHANGED vars
    BY <2>3, StutterKeeps
  <2>4. QED BY <2>1, <2>2, <2>3 DEF Next
<1>3. QED BY <1>1, <1>2, PTL DEF Spec

(* Every row of the event has its type in every state: a paused nomination   *)
(* remembers what it was, and no other one does.                             *)
THEOREM LineupTypeCorrect == Spec => []TypeOK
<1>1. LineupInv => TypeOK
  <2> SUFFICES ASSUME LineupInv PROVE TypeOK
    OBVIOUS
  <2>1. ASSUME NEW n \in Noms PROVE noms[n] = NoRow \/
           /\ noms[n].status \in Active \cup Settled
           /\ noms[n].paused \in IF noms[n].status = "Paused" THEN Pausable ELSE {"none"}
           /\ noms[n].entry \in Entries /\ noms[n].date \in Places
    <3>1. NomSound(n) /\ noms[n].status \in Active \cup Settled \cup {"none"} /\ noms[n].date \in Places
      BY DEF LineupInv, Types, NomRows, Statuses
    <3>2. QED BY <3>1 DEF NomSound
  <2>2. QED BY <2>1 DEF LineupInv, Types, TypeOK, DateRows, Games
<1>2. QED BY <1>1, LineupInvariance, PTL

(* Every game still ahead has a supplier who is in and offers it, whatever   *)
(* answers, removals, list edits, date edits and settlements interleave.     *)
THEOREM GamesAreBrought == Spec => []SomebodyBringsIt
<1>1. LineupInv => SomebodyBringsIt
  BY DEF LineupInv
<1>2. QED BY <1>1, LineupInvariance, PTL

(* Nominations are paused exactly while their supplier is out, which is what *)
(* syncSuppliedGames is for.                                                 *)
THEOREM NominationsFollowSuppliers == Spec => []PausedWhileOut
<1>1. LineupInv => PausedWhileOut
  BY DEF LineupInv
<1>2. QED BY <1>1, LineupInvariance, PTL

(* The lock orders of all transactions agree: rows are locked by rising      *)
(* Level, so no two of any number of requests wait for each other.           *)
THEOREM LockOrdersAgree == Spec => []NoWaitCycle
<1>1. LineupInv => NoWaitCycle
  BY WaitsClimb DEF LineupInv
<1>2. QED BY <1>1, LineupInvariance, PTL

(* Games come to the lineup only through won nominations, on their dates.    *)
THEOREM NominatedGamesWereWon == Spec => []OnlyWonGames
<1>1. LineupInv => OnlyWonGames
  BY DEF LineupInv
<1>2. QED BY <1>1, LineupInvariance, PTL

(* No date is proposed or confirmed in a cancelled event, although dates are *)
(* added and confirmed by requests that began before the cancellation.       *)
THEOREM CancelledEventsAreOff == Spec => []CancelledIsOff
<1>1. LineupInv => CancelledIsOff
  BY DEF LineupInv
<1>2. QED BY <1>1, LineupInvariance, PTL

(* A step that is not a commit leaves the nominations alone. *)
LEMMA NomsKept ==
    ASSUME [Next]_vars, NEW n \in Noms, noms'[n] # noms[n]
    PROVE  \E r \in Reqs : Commit(r)
<1>1. ASSUME NEW r \in Reqs, Load(r) PROVE noms' = noms
  BY <1>1 DEF Load, Begin, rows, Nominate, DirectAdd, CastVote, Withdraw, Settle, UpdateStatus,
              RemoveAttendee, AddAttendee, AddGameToList, RemoveGameFromList, AddOccurrence,
              UpdateOccurrence, RemoveOccurrence, Transition, Lifecycle
<1>2. ASSUME NEW r \in Reqs, Lock(r) \/ Abort(r) PROVE noms' = noms
  BY <1>2 DEF Lock, Abort, rows
<1>3. Tick \/ UNCHANGED vars => noms' = noms
  BY DEF Tick, vars, rows
<1>4. QED BY <1>1, <1>2, <1>3 DEF Next

(* An outcome is final and so are the votes behind it; and a resolution      *)
(* counts every vote there is when it settles, although votes are cast under *)
(* a lock of the nomination's row alone.                                     *)
THEOREM OutcomesStand == Spec => OutcomesAreFinal
<1>1. LineupInv /\ [Next]_vars =>
          [\A n \in Noms :
              /\ noms[n].status \in Settled =>
                     noms'[n].status = noms[n].status /\ noms'[n].votes = noms[n].votes
              /\ noms[n].status = "Open"
                 /\ noms'[n].status \in {"Passed", "Failed", "QuorumNotMet"} =>
                     \E r \in Reqs : req[r].op = "resolve" /\ req[r].nom = n
                                     /\ req[r].ballot = noms[n].votes /\ req'[r] = Idle]_vars
  <2> SUFFICES ASSUME LineupInv, [Next]_vars, NEW n \in Noms
               PROVE  /\ noms[n].status \in Settled =>
                             noms'[n].status = noms[n].status /\ noms'[n].votes = noms[n].votes
                      /\ noms[n].status = "Open"
                         /\ noms'[n].status \in {"Passed", "Failed", "QuorumNotMet"} =>
                             \E r \in Reqs : req[r].op = "resolve" /\ req[r].nom = n
                                             /\ req[r].ballot = noms[n].votes /\ req'[r] = Idle
    OBVIOUS
  <2>1. CASE noms'[n] = noms[n]
    BY <2>1
  <2>2. CASE noms'[n] # noms[n]
    <3>1. PICK r \in Reqs : Commit(r)
      BY <2>2, NomsKept
    <3>2. PICK q : q = req[r]
      OBVIOUS
    <3>3. Commits(q)
      BY <3>1, <3>2, Committing, CommitWrites, CommitEffects DEF Commits
    <3>4. req'[r] = Idle
      BY <3>1, CommitWrites DEF LineupInv, Types
    <3>5. Makes(q, n) \/ VotesOn(q, n) \/ Closes(q, n) \/ Syncs(q, n) \/ Undates(q, n)
      BY <2>2, <3>3 DEF Commits, Effects
    <3>6. ASSUME noms[n].status \in Settled
          PROVE  noms'[n].status = noms[n].status /\ noms'[n].votes = noms[n].votes
      <4>1. noms[n].status \notin Active \cup {"none", "Open"}
        BY <3>6 DEF Settled, Won, Active, Pausable
      <4>2. Undates(q, n)
        BY <3>5, <4>1 DEF Makes, VotesOn, Closes, Syncs, Active
      <4>3. QED BY <4>2 DEF Undates
    <3>7. ASSUME noms[n].status = "Open", noms'[n].status \in {"Passed", "Failed", "QuorumNotMet"}
          PROVE  q.op = "resolve" /\ q.nom = n /\ q.ballot = noms[n].votes
      <4>1. Closes(q, n)
        <5>1. NomSound(n)
          BY DEF LineupInv
        <5>2. QED BY <3>5, <3>7, <5>1 DEF Makes, VotesOn, Syncs, Undates, Pausable, NomSound
      <4>2. q.op = "resolve" /\ q.nom = n
        BY <3>7, <4>1 DEF Closes, Expected, SettleOps
      <4>3. q.ballot = noms[n].votes
        <5>1. Depth(q) = 3
          BY <3>3, <4>2, Depths DEF Commits, SettleOps
        <5>2. QED BY <3>3, <4>2, <5>1 DEF Commits, Fact, SettleFact, SettleOps
      <4>4. QED BY <4>2, <4>3
    <3>8. QED BY <3>2, <3>4, <3>6, <3>7
  <2>3. QED BY <2>1, <2>2
<1>2. QED BY <1>1, LineupInvariance, PTL DEF Spec, OutcomesAreFinal
=============================================================================
