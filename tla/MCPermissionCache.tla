------------------------- MODULE MCPermissionCache -------------------------
(* PermissionCache for TLC: two users, evicted in batches of one. *)
EXTENDS PermissionCache

CONSTANTS ann, bob, r1, w1, t1, t2, t3

(* Bounds: ann's graph is read, and changes once more after it can be        *)
(* cached; bob's changes and is evicted beside it.                           *)
AnnIsRead ==
    /\ db[bob] <= 2
    /\ \A r \in Readers : stage[r] # "idle" => who[r] = ann
=============================================================================
