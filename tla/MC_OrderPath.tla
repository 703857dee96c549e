---------------------------- MODULE MC_OrderPath ----------------------------
(***************************************************************************)
(* Instances of OrderPath for TLC: a manager whose role may use the        *)
(* capabilities "read" and "pay" and has "ship" granted but paused.        *)
(***************************************************************************)
EXTENDS OrderPath

MCPrincipals == {"kenji", "mori"}
MCRoles == {"manager", "intern"}
MCCapabilities == {"read", "pay", "ship", "forward"}
MCMenu == {"read", "pay", "ship"}
MCConfirm == {"pay"}
MCOrderIds == {"o1", "o2", "o3"}
MCNonces == {"n1", "n2", "n3"}

MCPolicySet ==
    << [role |-> "manager", allowed |-> {"read", "pay", "ship"},
        paused |-> {"ship"}, limit |-> 1],
       [role |-> "manager", allowed |-> MCCapabilities, paused |-> {},
        limit |-> 9] >>

(* A menu of two and a limit out of reach, for the runs about the gate. *)
MCShortMenu == {"read", "pay"}

MCLaxPolicySet ==
    << [role |-> "manager", allowed |-> MCShortMenu, paused |-> {},
        limit |-> 3] >>

Thread == [owner |-> "kenji", clean |-> TRUE, local |-> TRUE]
Traversal == [Thread EXCEPT !.local = FALSE]

Good(oid, cap, nonce) ==
    [oid |-> oid, principal |-> "kenji", role |-> "manager", cap |-> cap,
     resource |-> Thread, nonce |-> nonce]

(* Orders that repeat ids and nonces, one that is paused, one out of scope
   and one of a role without a policy. *)
MCGatewayOrders ==
    {Good("o1", "read", "n1"), Good("o1", "pay", "n2"),
     Good("o2", "read", "n2"), Good("o2", "ship", "n3"),
     [Good("o2", "read", "n1") EXCEPT !.resource = Traversal],
     [Good("o3", "pay", "n3") EXCEPT !.role = "intern", !.principal = "mori"]}

(* Orders as the MCP gateway builds them: the i-th id with the i-th nonce. *)
MCToolCalls ==
    {Good("o1", cap, "n1") : cap \in {"read", "pay"}}
    \cup {Good("o2", cap, "n2") : cap \in {"read", "pay"}}
    \cup {Good("o3", "pay", "n3")}

Exit(rc, left) == [rc |-> rc, left |-> left]

(* A chef that works and one that fails before it writes. *)
MCGatewayExits == {Exit(0, "draft"), Exit(1, "nothing")}

(* The same, and one that is killed while it writes. *)
MCSandboxExits == MCGatewayExits \cup {Exit(1, "torn")}

(* A backend that may also report success without an output file. *)
MCSilentExits == MCSandboxExits \cup {Exit(0, "nothing")}

=============================================================================
