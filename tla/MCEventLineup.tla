---------------------------- MODULE MCEventLineup ----------------------------
(* A small instance of EventLineup for TLC: a brings the game g, and b comes *)
(* and votes.                                                                *)
EXTENDS EventLineup, TLC

CONSTANTS a, b, g, n1, d1, d2, r1, r2

AnOwner == [e \in Entries |-> a]

(* The host approves what is nominated for d1, what is nominated for d2 is   *)
(* voted on, and the event as a whole takes games directly.                  *)
AMode == [d \in Places |->
    CASE d = d1 -> "HostApproval" [] d = d2 -> "RequiresVote" [] d = NoDate -> "Direct"]

(* A majority of those attending or invited, half of whom must vote. *)
APolicy == [d \in Places |->
    [eligibility |-> "AllAttendees", threshold |-> "SimpleMajority", thresholdValue |-> 0,
     quorum |-> "PercentOfAttendees", quorumValue |-> 50, interested |-> "AsAbstain"]]

(* Bounds: b stays, and a behaviour is about the lineup, or about a vote, or *)
(* about the event's own life.                                               *)
Only(ops) == \A r \in Reqs : req[r].op \in ops \cup {"idle"}
Unvoted == \A n \in Noms : noms[n].votes = NoRow.votes

(* One game at a time, dates stay proposed, and d2 has no time. *)
OneGame ==
    /\ Only(LineupOps \cup {"withdraw", "approve", "reject", "rsvp", "addGame", "removeGame"}
            \cup DateOps)
    /\ Cardinality(lineup) <= 1
    /\ Unvoted /\ ~event.cancelled /\ ~event.deleted
    /\ \A d \in Dates : dates[d].status \in {"none", "Proposed"}
    /\ \A r \in Reqs : req[r].answer # "Confirmed"
    /\ dates[d2].start = 0 /\ \A r \in Reqs : req[r].date = d2 => req[r].start = 0
    /\ \A r \in Reqs : req[r].op = "nominate" => req[r].date # d2
    /\ \A n \in Noms : noms[n].date # d2

(* A game is nominated for d2 and voted on. *)
OneVote ==
    /\ Only({"nominate", "vote", "withdraw", "resolve", "rsvp", "removeAttendee",
             "addAttendee", "addGame", "addDate"})
    /\ clock = 0 /\ ~event.cancelled /\ ~event.deleted
    /\ dates[d1] = NoStart
    /\ \A r \in Reqs : req[r].op \in {"nominate", "addDate"} => req[r].date = d2
    /\ \A n \in Noms : noms[n] = NoRow \/ noms[n].date = d2
    /\ \A r \in Reqs : req[r].answer # "Confirmed" /\ req[r].start = 0

(* No game, and the one date d1. *)
NoGame ==
    /\ Only({"addDate"} \cup TransitionOps \cup LifecycleOps)
    /\ list = [e \in Entries |-> "absent"]
    /\ people = [x \in Attendees |-> Person(FALSE, "Attending")]
    /\ dates[d2] = NoStart
    /\ \A r \in Reqs : req[r].date # d2 /\ (req[r].op = "addDate" => req[r].start = 1)

OneThing ==
    /\ people[b] = Person(FALSE, "Attending")
    /\ \A r \in Reqs : req[r].who = b => req[r].op = "vote"
    /\ OneGame \/ OneVote \/ NoGame

Symmetry == Permutations(Reqs)
=============================================================================
