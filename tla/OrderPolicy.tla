---------------------------- MODULE OrderPolicy ----------------------------
(***************************************************************************)
(* The cashier's decision procedure (cashier/engine.py, cashier/policy.py) *)
(* as a pure operator: six checks in a fixed order, the first one that     *)
(* fails names the verdict.  The order path, the console's Simulate and    *)
(* the drill all run this one procedure.                                   *)
(***************************************************************************)
EXTENDS Naturals, Sequences

CONSTANTS
    Principals,     \* who an order is placed for
    Roles,
    Capabilities,   \* every capability id an order may name
    OrderIds,       \* ids the caller (or the MCP gateway) puts on orders
    Nonces,
    Nobody,         \* the empty string, as an owner or a principal
    Unscoped,       \* a resource that is no string or holds no "/"
    Menu,           \* the enabled catalog, read once when the process starts
    PolicySet       \* the loaded policies, in file-name order

(* "<owner>/<local>" after the split: "clean" says that it holds no control
   character, "local" that the part after the first "/" is one safe path
   component. *)
ScopedResources ==
    [owner : Principals \cup {Nobody}, clean : BOOLEAN, local : BOOLEAN]

Resources == ScopedResources \cup {Unscoped}

OrderType ==
    [oid : OrderIds, principal : Principals \cup {Nobody}, role : Roles,
     cap : Capabilities, resource : Resources, nonce : Nonces]

PolicyType ==
    [role : Roles, allowed : SUBSET Capabilities,
     paused : SUBSET Capabilities, limit : Nat]

ASSUME PolicyAssumption ==
    /\ Menu \subseteq Capabilities
    /\ PolicySet \in Seq(PolicyType)

(* PolicySet.for_role: the policies of a role; the first one applies. *)
PolicyIndexes(role) == {i \in DOMAIN PolicySet : PolicySet[i].role = role}

HasPolicy(role) == PolicyIndexes(role) # {}

PolicyFor(role) ==
    PolicySet[CHOOSE i \in PolicyIndexes(role) :
                \A j \in PolicyIndexes(role) : i <= j]

(* The arguments that scope passes are a single safe component in the
   namespace of the principal itself. *)
InScope(order) ==
    /\ order.resource # Unscoped
    /\ order.resource.clean
    /\ order.resource.local
    /\ order.resource.owner # Nobody
    /\ order.resource.owner = order.principal

RejectReasons ==
    {"REPLAY", "OFF_MENU", "ROLE_NOT_PERMITTED", "CAPABILITY_PAUSED",
     "OUT_OF_SCOPE", "RATE_LIMITED"}

Verdicts == RejectReasons \cup {"ACCEPT"}

(* Faulty: evaluate_order without the test for a paused capability. *)
EvaluateUnpaused(order, spent, count) ==
    IF order.nonce \in spent THEN "REPLAY"
    ELSE IF order.cap \notin Menu THEN "OFF_MENU"
    ELSE IF ~HasPolicy(order.role) THEN "ROLE_NOT_PERMITTED"
    ELSE IF order.cap \notin PolicyFor(order.role).allowed
         THEN "ROLE_NOT_PERMITTED"
    ELSE IF ~InScope(order) THEN "OUT_OF_SCOPE"
    ELSE IF count >= PolicyFor(order.role).limit THEN "RATE_LIMITED"
    ELSE "ACCEPT"

(* evaluate_order: `spent` is the set of registered nonces and `count` the
   accepts of the order's (principal, capability) in the trailing window. *)
Evaluate(order, spent, count) ==
    IF order.nonce \in spent THEN "REPLAY"
    ELSE IF order.cap \notin Menu THEN "OFF_MENU"
    ELSE IF ~HasPolicy(order.role) THEN "ROLE_NOT_PERMITTED"
    ELSE IF order.cap \notin PolicyFor(order.role).allowed
         THEN "ROLE_NOT_PERMITTED"
    ELSE IF order.cap \in PolicyFor(order.role).paused
         THEN "CAPABILITY_PAUSED"
    ELSE IF ~InScope(order) THEN "OUT_OF_SCOPE"
    ELSE IF count >= PolicyFor(order.role).limit THEN "RATE_LIMITED"
    ELSE "ACCEPT"

=============================================================================
