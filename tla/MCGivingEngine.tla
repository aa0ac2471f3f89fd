--------------------------- MODULE MCGivingEngine ---------------------------
(***************************************************************************)
(* Instances of GivingEngine for TLC: the registries the state file holds  *)
(* at first, and the symmetry of the processes.                            *)
(***************************************************************************)
EXTENDS GivingSafety

CONSTANTS e1, e2, shelter, food, clinic

C(n, p) == [name |-> n, pct |-> p, active |-> TRUE]

(* The registry of two even causes, alone and beside no file at all. *)
HalfHalf == {<<C(shelter, 5000), C(food, 5000)>>}
FreshOrHalf == HalfHalf \cup {<<>>}

(* Every registry of three causes with these shares that is within the     *)
(* tolerance of 100 %: below, at and above it, a cause of 0 % anywhere.    *)
Shares == {0, 2, 3333, 3334, 6667, 9999}
Splits == {<<C(shelter, p), C(food, q), C(clinic, r)>> : p, q, r \in Shares}
Rounding == {cs \in Splits : AllocationsValid(cs)}

(* Processes differ in nothing but their identity: no property of a run    *)
(* with this symmetry names one, and none is a liveness property.          *)
Twins == Permutations(Engines)
=============================================================================
