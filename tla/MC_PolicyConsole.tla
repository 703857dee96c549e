-------------------------- MODULE MC_PolicyConsole --------------------------
(***************************************************************************)
(* Instances of PolicyConsole for TLC: a plain and a sensitive capability  *)
(* that are shipped, and one an operator may compose.                      *)
(***************************************************************************)
EXTENDS PolicyConsole

MCBuiltIn == [draft |-> FALSE, payment |-> TRUE]

MCCustomIds == {"refund"}

Granting(granted, paused) == [granted |-> granted, paused |-> paused]

MCCandidates ==
    {Granting({"draft"}, {}),
     Granting({"draft"}, {"draft"}),
     Granting({"draft", "payment"}, {}),
     Granting({"draft", "refund"}, {})}

=============================================================================
