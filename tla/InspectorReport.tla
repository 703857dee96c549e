-------------------------- MODULE InspectorReport --------------------------
(***************************************************************************)
(* The report of the back office (inspector.py, build_report) over the     *)
(* rows of a ledger.  A row is a record with the fields status, reason,    *)
(* principal and cap; its place in the sequence is its seq.  The walk over *)
(* the chain, which the report begins with, is in module ReceiptChain.     *)
(***************************************************************************)
EXTENDS Naturals, FiniteSets, Sequences

Rule(severity, code) == [severity |-> severity, code |-> code]

(* Faulty: the rules as they were before consumer mode. *)
ReasonRulesEnterprise ==
    [OFF_MENU           |-> Rule("high", "OFF_MENU_ATTEMPTS"),
     REPLAY             |-> Rule("high", "REPLAY_ATTEMPTS"),
     OUT_OF_SCOPE       |-> Rule("medium", "SCOPE_VIOLATIONS"),
     ROLE_NOT_PERMITTED |-> Rule("medium", "ROLE_VIOLATIONS"),
     RATE_LIMITED       |-> Rule("low", "RATE_PRESSURE"),
     EXECUTION_FAILED   |-> Rule("medium", "EXECUTION_FAILURES"),
     CAPABILITY_PAUSED  |-> Rule("low", "PAUSED_CAPABILITY_HITS"),
     MALFORMED_ORDER    |-> Rule("medium", "MALFORMED_INTAKE")]

(* The reason codes with a rule of their own, and what it says of them. *)
ReasonRules ==
    [OFF_MENU           |-> Rule("high", "OFF_MENU_ATTEMPTS"),
     REPLAY             |-> Rule("high", "REPLAY_ATTEMPTS"),
     OUT_OF_SCOPE       |-> Rule("medium", "SCOPE_VIOLATIONS"),
     ROLE_NOT_PERMITTED |-> Rule("medium", "ROLE_VIOLATIONS"),
     RATE_LIMITED       |-> Rule("low", "RATE_PRESSURE"),
     EXECUTION_FAILED   |-> Rule("medium", "EXECUTION_FAILURES"),
     CAPABILITY_PAUSED  |-> Rule("low", "PAUSED_CAPABILITY_HITS"),
     USER_DENIED        |-> Rule("medium", "USER_DENIALS"),
     USER_BLOCKED       |-> Rule("medium", "BLOCKED_CAPABILITY_HITS"),
     MALFORMED_ORDER    |-> Rule("medium", "MALFORMED_INTAKE")]

Fulfilled(rows) == {seq \in DOMAIN rows : rows[seq].status = "FULFILLED"}

(* Whatever is not FULFILLED counts as rejected. *)
ByReason(rows, reason) ==
    {seq \in DOMAIN rows \ Fulfilled(rows) : rows[seq].reason = reason}

Reasons(rows) == {rows[seq].reason : seq \in DOMAIN rows \ Fulfilled(rows)}

Finding(rule, receipts) ==
    [severity |-> rule.severity, code |-> rule.code, receipts |-> receipts]

Findings(rows) ==
    {Finding(ReasonRules[reason], ByReason(rows, reason)) :
        reason \in Reasons(rows) \cap DOMAIN ReasonRules}
    \cup
    {Finding(Rule("medium", "UNRECOGNIZED_REASON"), ByReason(rows, reason)) :
        reason \in Reasons(rows) \ DOMAIN ReasonRules}

(* Faulty: rows are counted by their tickets, so refusals are missing. *)
EntryOfTicketed(rows, principal) ==
    LET own == {seq \in DOMAIN rows : /\ rows[seq].principal = principal
                                      /\ rows[seq].ticket} IN
    [orders |-> Cardinality(own),
     fulfilled |-> Cardinality(own \cap Fulfilled(rows)),
     rejected |-> Cardinality(own \ Fulfilled(rows)),
     capabilities |-> {rows[seq].cap : seq \in own}]

(* The line of one principal. *)
Entry(rows, principal) ==
    LET own == {seq \in DOMAIN rows : rows[seq].principal = principal} IN
    [orders |-> Cardinality(own),
     fulfilled |-> Cardinality(own \cap Fulfilled(rows)),
     rejected |-> Cardinality(own \ Fulfilled(rows)),
     capabilities |-> {rows[seq].cap : seq \in own}]

=============================================================================
