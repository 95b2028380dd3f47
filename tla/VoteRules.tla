------------------------------ MODULE VoteRules ------------------------------
(***************************************************************************)
(* How a vote on a nomination is counted: libs/api/event/src/lib/vote,      *)
(* vote-resolver and vote-grant.  A policy is a record of the fields the    *)
(* resolver reads; votes is a function from attendees to what each cast, or *)
(* "none".                                                                  *)
(***************************************************************************)
EXTENDS Integers, FiniteSets

VoteTypes == {"For", "Against", "Interested"}

Policies ==
    [eligibility : {"AllAttendees", "ConfirmedOnly", "PoolParticipants"},
     threshold : {"SimpleMajority", "Supermajority", "Unanimous", "FixedCount"},
     thresholdValue : Nat,
     quorum : {"None", "FixedCount", "PercentOfAttendees"},
     quorumValue : Nat,
     interested : {"AsFor", "AsAgainst", "AsAbstain"}]

(* isOutOfEvent, on an attendee's row. *)
Out(row) == row.removed \/ row.status = "NotAttending"

(* isEligibleVoter: in the event, able to vote, and in the policy's pool. *)
Eligible(policy, row, able, offers) ==
    /\ ~Out(row) /\ able
    /\ CASE policy.eligibility = "AllAttendees" -> TRUE
         [] policy.eligibility = "ConfirmedOnly" -> row.status = "Attending"
         [] policy.eligibility = "PoolParticipants" -> offers

(* Math.ceil(n * percent / 100) *)
PercentOf(n, percent) == (n * percent + 99) \div 100

(* tally: the votes of the given voters, by kind. *)
Cast(votes, voters, kind) == Cardinality({a \in voters : votes[a] = kind})

ForCount(policy, votes, voters) ==
    Cast(votes, voters, "For")
    + IF policy.interested = "AsFor" THEN Cast(votes, voters, "Interested") ELSE 0
AgainstCount(policy, votes, voters) ==
    Cast(votes, voters, "Against")
    + IF policy.interested = "AsAgainst" THEN Cast(votes, voters, "Interested") ELSE 0
Total(policy, votes, voters) ==
    ForCount(policy, votes, voters) + AgainstCount(policy, votes, voters)

(* checkQuorum *)
QuorumMet(policy, total, pool) ==
    CASE policy.quorum = "None" -> TRUE
      [] policy.quorum = "FixedCount" -> total >= policy.quorumValue
      [] policy.quorum = "PercentOfAttendees" ->
             pool > 0 /\ total >= PercentOf(pool, policy.quorumValue)

(* checkThreshold *)
ThresholdMet(policy, for, against, pool) ==
    CASE policy.threshold = "SimpleMajority" -> 2 * for > for + against
      [] policy.threshold = "Supermajority" ->
             for + against > 0 /\ for >= PercentOf(for + against, policy.thresholdValue)
      [] policy.threshold = "Unanimous" -> against = 0 /\ for = pool
      [] policy.threshold = "FixedCount" -> for >= policy.thresholdValue

(* resolve: voters is the set of attendees who count, the pool as well as    *)
(* the electorate.                                                           *)
Resolve(policy, votes, voters) ==
    LET pool == Cardinality(voters)
        for == ForCount(policy, votes, voters)
        against == AgainstCount(policy, votes, voters)
    IN  CASE ~QuorumMet(policy, for + against, pool) -> "QuorumNotMet"
          [] QuorumMet(policy, for + against, pool)
             /\ ThresholdMet(policy, for, against, pool) -> "Passed"
          [] OTHER -> "Failed"
=============================================================================
