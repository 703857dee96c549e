-------------------------- MODULE MC_ReceiptChain --------------------------
(***************************************************************************)
(* Instances of ReceiptChain for TLC.                                      *)
(***************************************************************************)
EXTENDS ReceiptChain

=============================================================================
