------------------------------ MODULE MC_AppHome ------------------------------
(***************************************************************************)
(* Instances of AppHome for TLC.  Set-up runs are alike and so are fresh   *)
(* key pairs; no liveness is checked here, so both may be permuted.        *)
(***************************************************************************)
EXTENDS AppHome, TLC

MCSymmetry == Permutations(Setups) \cup Permutations(Keys)

=============================================================================
