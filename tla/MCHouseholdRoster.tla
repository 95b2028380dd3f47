------------------------- MODULE MCHouseholdRoster -------------------------
(* Small instances of HouseholdRoster for TLC. *)
EXTENDS HouseholdRoster, TLC

CONSTANTS ann, bob, cy, a1, b1, b2, c1, c2, r1, r2

(* Two owners, a user to come, and a second row for cy: with the household   *)
(* at its cap, cy can leave and come back while bob joins.                   *)
TwoRowsOfCy == a1 :> ann @@ b1 :> bob @@ c1 :> cy @@ c2 :> cy
CoOwners == a1 :> "HouseholdOwner" @@ c1 :> "HouseholdOwner"
               @@ b1 :> "unborn" @@ c2 :> "unborn"

(* The founder and one user to come. *)
OneRowOfBob == a1 :> ann @@ b1 :> bob
FoundedForBob == a1 :> "HouseholdOwner" @@ b1 :> "unborn"

(* The founder alone, as a household is created, with two users to come. *)
OneRowEach == a1 :> ann @@ b1 :> bob @@ c1 :> cy
Founded == a1 :> "HouseholdOwner" @@ b1 :> "unborn" @@ c1 :> "unborn"

Symmetry == Permutations(Reqs)
=============================================================================
