------------------------- MODULE MCHouseholdInvites -------------------------
(* Small instances of HouseholdInvites for TLC. *)
EXTENDS HouseholdInvites, TLC

CONSTANTS ann, bob, cy, dee, a1, b1, c1, i1, i2, i3, r1, r2

(* ann owns the household, bob is a member of it, cy is invited; where dee    *)
(* takes part, dee owns the server and has no seat in the household.         *)
MCUserOf == a1 :> ann @@ b1 :> bob @@ c1 :> cy
MCInitial == a1 :> "HouseholdOwner" @@ b1 :> "HouseholdMember" @@ c1 :> "unborn"

Offer(from, byAddress, role) ==
    [from |-> from, to |-> cy, byAddress |-> byAddress, role |-> role]

(* Rival invites to cy by id, of which only an owner may send the first.     *)
ById == i1 :> Offer(ann, FALSE, "HouseholdAdmin")
            @@ i2 :> Offer(bob, FALSE, "HouseholdMember")
            @@ i3 :> Offer(dee, FALSE, "HouseholdAdmin")

(* bob invites cy by address, and the server's owner invites cy by id.       *)
FromWithout == i1 :> Offer(bob, TRUE, "HouseholdMember")
                 @@ i2 :> Offer(dee, FALSE, "HouseholdMember")

(* One invite to cy's address, and one to cy from within. *)
FromWithin == i1 :> Offer(bob, TRUE, "HouseholdMember")
                @@ i2 :> Offer(ann, FALSE, "HouseholdMember")

(* No block between bob and cy, or one. *)
Blocks == {{}, {<<bob, cy>>, <<cy, bob>>}}

(* Bounds: one detached expiry stamp is on its way at a time; and, in the    *)
(* lifecycle run, ann stays an owner or an admin, bob becomes no admin, the  *)
(* newcomer neither owner nor guest; the server owner's invite is alone and  *)
(* under one policy; and a decline meets neither ann's invite nor a role     *)
(* change.                                                                   *)
OneStamp == Cardinality(stamps) <= 1

Unsent(i) == invites[i].status = "none"
Declining == \/ \E r \in Reqs : call[r].op = "decline"
             \/ \E i \in InviteIds : invites[i].status = "Declined"

FewDemotions ==
    /\ members[a1] \in {"HouseholdOwner", "HouseholdAdmin"}
    /\ members[b1] # "HouseholdAdmin"
    /\ members[c1] \notin {"HouseholdOwner", "HouseholdGuest"}
    /\ ~ Unsent(i3) => Unsent(i1) /\ Unsent(i2) /\ policy = "Direct"
    /\ Declining => members = MCInitial /\ Unsent(i1)
    /\ OneStamp

(* In the run with bans, they are of cy, dee does nothing but invite, and a  *)
(* block stands only while dee has not.                                      *)
OnlyOfCy ==
    /\ banned \subseteq {cy}
    /\ \A r \in Reqs : call[r].op = "ban" => call[r].user = cy
    /\ \A r \in Reqs : call[r].op # "sweep" /\ call[r].actor = dee =>
           call[r].op = "create" \/ pc[r] = "idle"
    /\ ~ Unsent(i2) => gate = {}
    /\ OneStamp

Symmetry == Permutations(Reqs)
=============================================================================
