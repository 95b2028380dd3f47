------------------------- MODULE MCGatewayRegistry -------------------------
(* Small instances of GatewayRegistry for TLC: the coordinator c, which may  *)
(* be connecting twice at a time, and the gateway worker w.                  *)
EXTENDS GatewayRegistry, TLC

CONSTANTS c, w, c1, c2, w1, k1, k2

AHost == [d \in Drivers |-> IF d = w1 THEN w ELSE c]

(* Bounds: one event at a time is on its way, and a behaviour is about the   *)
(* coordinator or about both processes.                                      *)
Quiet == Cardinality(outbox) <= IF \A p \in Procs : inbox[p] = <<>> THEN 1 ELSE 0

(* The coordinator alone, which fails and is disabled or shut down with one  *)
(* driver at a time; every interview it stores found some capability.        *)
Lone == Cardinality({d \in Drivers : conn[d] # Blank}) <= 1
Coordinating ==
    /\ \A d \in Drivers :
           conn[d].interview.stage \in {"storing", "writing", "rereading"} =>
               conn[d].interview.answer # Undeclared
    /\ conn[w1] = Blank /\ ~down[w] /\ disabling[w] = "none"
    /\ (\E p \in Procs : disabling[p] # "none" \/ failures[p] > 0 \/ down[p]) => Lone
    /\ row.deleted => row.enabled /\ \A d \in Drivers : conn[d].interview.tries = 0

(* Both, with a driver each, while nothing is switched or changed. *)
Sharing ==
    /\ \E d \in Mine(c) : conn[d] = Blank
    /\ \A p \in Procs : ~down[p] /\ disabling[p] = "none" /\ failures[p] = 0
    /\ Usable /\ outbox = {} /\ \A p \in Procs : inbox[p] = <<>>
    /\ \A d \in Drivers : conn[d].check = NoCheck

OneThing == Quiet /\ (Coordinating \/ Sharing)

Symmetry == Permutations(Configs) \cup Permutations({c1, c2})
=============================================================================
