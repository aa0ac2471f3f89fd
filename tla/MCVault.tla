------------------------------ MODULE MCVault ------------------------------
(***************************************************************************)
(* Instances of VaultClient for TLC.                                       *)
(***************************************************************************)
EXTENDS VaultSafety

(* Collaterals in and out of range. *)
Lots == {-10, 10}

(* Thresholds out of range, and one that the older answer is within.       *)
Seconds == {0, 301}
=============================================================================
