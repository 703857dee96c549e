-------------------------- MODULE OrderPathProofs --------------------------
(***************************************************************************)
(* Theorems about OrderPath, for every value of its constants.             *)
(***************************************************************************)
EXTENDS OrderPath, FiniteSetTheorems, WellFoundedInduction, TLAPS

(***************************************************************************)
(* Facts about the policies.                                               *)
(***************************************************************************)

(* for_role returns one of the loaded policies, and one of that role, if
   there is any. *)
LEMMA PolicyForIsLoaded ==
    ASSUME NEW role, HasPolicy(role)
    PROVE  \E p \in DOMAIN PolicySet :
               /\ PolicyFor(role) = PolicySet[p]
               /\ PolicySet[p].role = role
<1> DEFINE S == PolicyIndexes(role)
<1>1. S \subseteq Nat /\ S # {}
  BY PolicyAssumption DEF PolicyIndexes, HasPolicy
<1>2. PICK x \in S : \A y \in S : ~(<<y, x>> \in OpToRel(<, Nat))
  BY <1>1, NatLessThanWellFounded, WFMin
<1>3. ASSUME NEW y \in S PROVE x <= y
  <2>1. <<y, x>> \notin OpToRel(<, Nat)
    BY <1>2
  <2>2. y \in Nat /\ x \in Nat
    BY <1>1
  <2>3. ~(y < x)
    BY <2>1, <2>2 DEF OpToRel
  <2> QED
    BY <2>2, <2>3
<1> DEFINE c == CHOOSE i \in S : \A j \in S : i <= j
<1>4. c \in S
  BY <1>3
<1> QED
  BY <1>4 DEF PolicyFor, PolicyIndexes

(* The limit of a policy in force is a number. *)
LEMMA LimitType ==
    ASSUME NEW role, HasPolicy(role)
    PROVE  PolicyFor(role).limit \in Nat
<1>1. PICK p \in DOMAIN PolicySet : PolicyFor(role) = PolicySet[p]
  BY PolicyForIsLoaded
<1>2. PolicySet[p] \in PolicyType
  BY PolicyAssumption
<1> QED
  BY <1>1, <1>2 DEF PolicyType

(***************************************************************************)
(* Type correctness.                                                       *)
(***************************************************************************)

(* TypeOK is not inductive by itself: a policy refusal is receipted with
   the verdict as its reason, so what waits for its rejection must not be
   an accept. *)
RejectingInv ==
    pc = "rejecting" => placed[Current].verdict \in RejectReasons

TypeInv == TypeOK /\ RejectingInv

(* The order in progress is an order, of a key the history has. *)
LEMMA CurrentOrderType ==
    ASSUME TypeOK, pc # "idle"
    PROVE  /\ Current \in 1..Len(placed)
           /\ placed[Current] \in PlacedType
           /\ CurrentOrder \in Orders
           /\ CurrentOrder \in OrderType
           /\ KeyOf(CurrentOrder) \in Keys
<1>1. Len(placed) \in Nat /\ placed # << >>
  BY DEF TypeOK
<1>2. Len(placed) # 0
  BY <1>1 DEF TypeOK
<1>3. Current \in 1..Len(placed)
  BY <1>1, <1>2 DEF Current
<1>4. placed[Current] \in PlacedType
  BY <1>3 DEF TypeOK
<1>5. CurrentOrder \in Orders
  BY <1>4 DEF PlacedType, CurrentOrder
<1>6. CurrentOrder \in OrderType
  BY <1>5, OrderPathAssumption
<1>7. KeyOf(CurrentOrder) \in Keys
  BY <1>6 DEF KeyOf, OrderType, Keys
<1> QED
  BY <1>3, <1>4, <1>5, <1>6, <1>7

(* The cashier's decision is one of the verdicts. *)
LEMMA EvaluateType ==
    ASSUME NEW order, NEW registered, NEW count
    PROVE  Evaluate(order, registered, count) \in Verdicts
BY DEF Evaluate, Verdicts, RejectReasons

(* Ending the order in progress keeps the trace well typed. *)
LEMMA EndType ==
    ASSUME TypeOK, pc # "idle", NEW how \in {"returned", "raised", "crashed"},
           placed' = [placed EXCEPT ![Current].end = how]
    PROVE  /\ placed' \in Seq(PlacedType)
           /\ Len(placed') = Len(placed)
           /\ \A i \in 1..Len(placed) :
                  /\ placed'[i].order = placed[i].order
                  /\ placed'[i].epoch = placed[i].epoch
                  /\ placed'[i].verdict = placed[i].verdict
                  /\ i # Current => placed'[i] = placed[i]
                  /\ i = Current => placed'[i].end = how
<1>1. placed \in Seq(PlacedType)
  BY DEF TypeOK
<1>2. Current \in 1..Len(placed) /\ placed[Current] \in PlacedType
  BY CurrentOrderType
<1>3. \A i \in 1..Len(placed) : placed[i] \in PlacedType
  BY <1>1
<1>4. [placed[Current] EXCEPT !.end = how] \in PlacedType
  BY <1>2 DEF PlacedType
<1>5. placed' = [placed EXCEPT ![Current] = [placed[Current] EXCEPT !.end = how]]
  OBVIOUS
<1>6. placed' \in Seq(PlacedType) /\ Len(placed') = Len(placed)
  BY <1>1, <1>2, <1>4, <1>5
<1>7. ASSUME NEW i \in 1..Len(placed)
      PROVE  /\ placed'[i].order = placed[i].order
             /\ placed'[i].epoch = placed[i].epoch
             /\ placed'[i].verdict = placed[i].verdict
             /\ i # Current => placed'[i] = placed[i]
             /\ i = Current => placed'[i].end = how
  <2>1. CASE i = Current
    BY <2>1, <1>1, <1>2, <1>5 DEF PlacedType
  <2>2. CASE i # Current
    BY <2>2, <1>1, <1>2, <1>5
  <2> QED
    BY <2>1, <2>2
<1> QED
  BY <1>6, <1>7

(* A receipt of the order in progress is a receipt. *)
LEMMA ReceiptIsTyped ==
    ASSUME TypeOK, pc # "idle",
           NEW status \in {"FULFILLED", "REJECTED"},
           NEW reason \in ReceiptReasons,
           NEW digest \in Drafts \cup {Torn, NoDraft}
    PROVE  Receipt(status, reason, digest) \in ReceiptType
<1>1. /\ CurrentOrder.oid \in OrderIds /\ Current \in Nat
      /\ CurrentOrder.principal \in Principals \cup {Nobody}
      /\ CurrentOrder.cap \in Capabilities
  BY CurrentOrderType DEF OrderType
<1> QED
  BY <1>1 DEF Receipt, ReceiptType

(* The rows stay receipts, whether the commit succeeds or not. *)
LEMMA RowsType ==
    ASSUME TypeOK, NEW receipt \in ReceiptType,
           Commit(receipt) \/ CommitRaises(receipt)
    PROVE  session' \in Seq(ReceiptType) /\ ledger' \in Seq(ReceiptType)
<1>1. Append(session, receipt) \in Seq(ReceiptType)
  BY DEF TypeOK
<1> QED
  BY <1>1 DEF Commit, CommitRaises, TypeOK

(* The end of run_chef touches no workspace but its own. *)
LEMMA RemoveWorkspaceType ==
    ASSUME TypeOK, pc # "idle", RemoveWorkspace
    PROVE  /\ workspaces' \subseteq workspaces
           /\ undeleted' \subseteq 1..Len(placed)
BY CurrentOrderType DEF RemoveWorkspace, TypeOK

(* Settling an order writes its receipt; the call is at its return then, or
   it raised. *)
LEMMA SettleType ==
    ASSUME TypeOK, pc # "idle", NEW receipt \in ReceiptType, Settle(receipt)
    PROVE  /\ session' \in Seq(ReceiptType) /\ ledger' \in Seq(ReceiptType)
           /\ pc' \in {"receipted", "idle"}
           /\ placed' \in Seq(PlacedType) /\ Len(placed') = Len(placed)
           /\ workspaces' \subseteq workspaces
           /\ undeleted' \subseteq 1..Len(placed)
<1>1. Commit(receipt) \/ CommitRaises(receipt)
  BY DEF Settle
<1>2. CASE pc' = "receipted" /\ UNCHANGED <<placed, dirVars>>
  BY <1>1, <1>2, RowsType DEF TypeOK, dirVars
<1>3. CASE End("raised") /\ RemoveWorkspace
  <2>1. placed' = [placed EXCEPT ![Current].end = "raised"] /\ pc' = "idle"
    BY <1>3 DEF End
  <2> QED
    BY <1>1, <1>3, <2>1, EndType, RowsType, RemoveWorkspaceType
<1> QED
  BY <1>2, <1>3 DEF Settle

(* What the steps that settle an order have in common. *)
LEMMA SettleKeepsTypeInv ==
    ASSUME TypeOK, pc # "idle", NEW receipt \in ReceiptType, Settle(receipt),
           UNCHANGED <<clock, epoch, storeVars, prefVars, traceVars, window>>
    PROVE  TypeInv'
<1>1. /\ session' \in Seq(ReceiptType) /\ ledger' \in Seq(ReceiptType)
      /\ pc' \in {"receipted", "idle"}
      /\ placed' \in Seq(PlacedType) /\ Len(placed') = Len(placed)
      /\ workspaces' \subseteq workspaces
      /\ undeleted' \subseteq 1..Len(placed)
  BY SettleType
<1>2. placed # << >> /\ Len(placed) \in Nat
  BY DEF TypeOK
<1>3. placed' # << >>
  BY <1>1, <1>2 DEF TypeOK
<1> QED
  BY <1>1, <1>3 DEF TypeInv, RejectingInv, TypeOK, Locations, storeVars,
                    prefVars, traceVars

LEMMA InitTypeInv == Init => TypeInv
BY OrderPathAssumption
   DEF Init, TypeInv, RejectingInv, TypeOK, PrefStates, EmptyHistory,
       Locations

LEMMA NextTypeInv == TypeInv /\ [Next]_vars => TypeInv'
<1> SUFFICES ASSUME TypeInv, [Next]_vars PROVE TypeInv'
  OBVIOUS
<1> USE DEF TypeInv, storeVars, prefVars, traceVars, dirVars, rowVars
<1>1. ASSUME NEW order \in Orders, Receive(order) PROVE TypeInv'
  <2> DEFINE v == Decide(order)
             entry == [order |-> order, epoch |-> epoch, verdict |-> v,
                       end |-> "open"]
  <2>1. v \in Verdicts
    BY EvaluateType DEF Decide
  <2>2. entry \in PlacedType
    BY <2>1 DEF PlacedType, TypeOK
  <2>3. /\ placed' = Append(placed, entry)
        /\ pc' = IF v = "ACCEPT" THEN "accepted" ELSE "rejecting"
        /\ spent' = spent \cup {order.nonce}
        /\ UNCHANGED <<clock, epoch, history, prefs, prefsFile, minted,
                       allowed, executed, workspaces, undeleted, window,
                       session, ledger>>
    BY <1>1 DEF Receive, NonceSeen
  <2>4. /\ placed' \in Seq(PlacedType) /\ Len(placed') = Len(placed) + 1
        /\ placed'[Len(placed) + 1] = entry
    <3> HIDE DEF entry
    <3> QED BY <2>2, <2>3 DEF TypeOK
  <2>5. order.nonce \in Nonces
    BY OrderPathAssumption DEF OrderType
  <2>6. RejectingInv'
    BY <2>1, <2>3, <2>4 DEF RejectingInv, Current, Verdicts
  <2>7. placed' # << >>
    BY <2>4 DEF TypeOK
  <2> QED
    BY <2>3, <2>4, <2>5, <2>6, <2>7 DEF TypeOK, Locations
<1>2. CASE RejectMalformed
  <2>1. IntakeReceipt \in ReceiptType
    BY DEF IntakeReceipt, ReceiptType, ReceiptReasons
  <2>2. session' \in Seq(ReceiptType) /\ ledger' \in Seq(ReceiptType)
    BY <1>2, <2>1, RowsType DEF RejectMalformed
  <2> QED
    BY <1>2, <2>2 DEF RejectMalformed, TypeOK, RejectingInv, Current
<1>3. CASE AppendRejection
  <2>1. placed[Current].verdict \in ReceiptReasons
    BY <1>3 DEF AppendRejection, RejectingInv, ReceiptReasons
  <2>2. Rejected(placed[Current].verdict) \in ReceiptType
    BY <1>3, <2>1, ReceiptIsTyped DEF Rejected, AppendRejection
  <2> QED
    BY <1>3, <2>2, SettleKeepsTypeInv DEF AppendRejection
<1>4. CASE MintTicket
  <2>1. KeyOf(CurrentOrder) \in Keys /\ Current \in 1..Len(placed)
    BY <1>4, CurrentOrderType DEF MintTicket, RecordAccept
  <2>2. history' \in [Keys -> Seq(Nat)]
    BY <1>4, <2>1 DEF MintTicket, RecordAccept, TypeOK
  <2> QED
    BY <1>4, <2>1, <2>2
       DEF MintTicket, RecordAccept, TypeOK, Locations, RejectingInv, Current
<1>5. CASE GateBlock
  <2>1. Rejected("USER_BLOCKED") \in ReceiptType
    BY <1>5, ReceiptIsTyped DEF Rejected, GateBlock, ReceiptReasons
  <2> QED
    BY <1>5, <2>1, SettleKeepsTypeInv DEF GateBlock
<1>6. CASE GateAllow \/ GateAsk \/ AnswerOnce
  <2>1. Current \in 1..Len(placed)
    BY <1>6, CurrentOrderType DEF GateAllow, GateAsk, AnswerOnce
  <2> QED
    BY <1>6, <2>1 DEF GateAllow, GateAsk, AnswerOnce, TypeOK, Locations,
                      RejectingInv, Current
<1>7. CASE AnswerAlways
  <2>1. Current \in 1..Len(placed)
    BY <1>7, CurrentOrderType DEF AnswerAlways
  <2>2. prefs' \in [Menu -> PrefStates] /\ prefsFile' \in [Menu -> PrefStates]
    BY <1>7 DEF AnswerAlways, TypeOK, PrefStates
  <2> QED
    BY <1>7, <2>1, <2>2
       DEF AnswerAlways, TypeOK, Locations, RejectingInv, Current
<1>8. CASE AnswerAlwaysSaveRaises
  <2>1. /\ placed' \in Seq(PlacedType) /\ Len(placed') = Len(placed)
        /\ pc' = "idle"
    BY <1>8, EndType DEF AnswerAlwaysSaveRaises, End
  <2>2. prefs' \in [Menu -> PrefStates]
    BY <1>8 DEF AnswerAlwaysSaveRaises, TypeOK, PrefStates
  <2> QED
    BY <1>8, <2>1, <2>2
       DEF AnswerAlwaysSaveRaises, TypeOK, Locations, RejectingInv
<1>9. CASE AnswerDeny
  <2>1. Rejected("USER_DENIED") \in ReceiptType
    BY <1>9, ReceiptIsTyped DEF Rejected, AnswerDeny, ReceiptReasons
  <2> QED
    BY <1>9, <2>1, SettleKeepsTypeInv DEF AnswerDeny
<1>10. CASE StartChef
  <2>1. Current \in 1..Len(placed)
    BY <1>10, CurrentOrderType DEF StartChef
  <2> QED
    BY <1>10, <2>1 DEF StartChef, TypeOK, Locations, RejectingInv, Current
<1>11. ASSUME NEW exit \in SandboxExits, ChefExits(exit) PROVE TypeInv'
  <2>1. CurrentOrder \in OrderType
    BY <1>11, CurrentOrderType DEF ChefExits
  <2>2. DraftOf(CurrentOrder) \in Drafts
    BY <2>1 DEF DraftOf, Drafts, OrderType
  <2>3. exit.left \in {"nothing", "draft", "torn"}
    BY OrderPathAssumption DEF ExitType
  <2>4. window' \in [OrderIds -> Drafts \cup {Torn, NoDraft}]
    BY <1>11, <2>2, <2>3 DEF ChefExits, TypeOK
  <2> QED
    BY <1>11, <2>4 DEF ChefExits, TypeOK, Locations, RejectingInv, Current
<1>12. CASE Fulfil
  <2>1. CurrentOrder.oid \in OrderIds
    BY <1>12, CurrentOrderType DEF Fulfil, OrderType
  <2>2. window[CurrentOrder.oid] \in Drafts \cup {Torn, NoDraft}
    BY <2>1 DEF TypeOK
  <2>3. Receipt("FULFILLED", "none", window[CurrentOrder.oid]) \in ReceiptType
    BY <1>12, <2>2, ReceiptIsTyped DEF Fulfil, ReceiptReasons
  <2> QED
    BY <1>12, <2>3, SettleKeepsTypeInv DEF Fulfil
<1>13. CASE FailExecution
  <2>1. pc # "idle"
    BY <1>13 DEF FailExecution
  <2>2. Rejected("EXECUTION_FAILED") \in ReceiptType
    BY <2>1, ReceiptIsTyped DEF Rejected, ReceiptReasons
  <2> QED
    BY <1>13, <2>1, <2>2, SettleKeepsTypeInv DEF FailExecution
<1>14. CASE Raise \/ Return
  <2>1. PICK how \in {"raised", "returned"} :
            pc # "idle" /\ End(how) /\ RemoveWorkspace
    BY <1>14 DEF Raise, Return
  <2>2. /\ placed' \in Seq(PlacedType) /\ Len(placed') = Len(placed)
        /\ pc' = "idle"
    BY <2>1, EndType DEF End
  <2>3. workspaces' \subseteq workspaces /\ undeleted' \subseteq 1..Len(placed)
    BY <2>1, RemoveWorkspaceType
  <2> QED
    BY <1>14, <2>2, <2>3 DEF Raise, Return, TypeOK, Locations, RejectingInv
<1>15. CASE Restart
  <2>1. placed' \in Seq(PlacedType) /\ Len(placed') = Len(placed)
    <3>1. CASE pc = "idle"
      BY <1>15, <3>1 DEF Restart, TypeOK
    <3>2. CASE pc # "idle"
      BY <1>15, <3>2, EndType DEF Restart
    <3> QED
      BY <3>1, <3>2
  <2>2. history' \in [Keys -> Seq(Nat)]
    BY <1>15 DEF Restart, EmptyHistory
  <2> QED
    BY <1>15, <2>1, <2>2 DEF Restart, TypeOK, Locations, RejectingInv
<1>16. CASE Tick
  BY <1>16 DEF Tick, TypeOK, RejectingInv, Current
<1>17. CASE UNCHANGED vars
  BY <1>17 DEF vars, TypeOK, RejectingInv, Current
<1> QED
  BY <1>1, <1>2, <1>3, <1>4, <1>5, <1>6, <1>7, <1>8, <1>9, <1>10, <1>11,
     <1>12, <1>13, <1>14, <1>15, <1>16, <1>17
     DEF Next, Proceed, Gate, Answer, RunChef

(* Every variable keeps its type, whatever is ordered, answered or lost. *)
THEOREM TypeCorrect == Spec => []TypeOK
<1>1. TypeInv => TypeOK
  BY DEF TypeInv
<1> QED
  BY <1>1, InitTypeInv, NextTypeInv, PTL DEF Spec

(***************************************************************************)
(* The trace of placed orders only grows.                                  *)
(***************************************************************************)

(* What was decided of the orders placed so far stands. *)
TraceKept ==
    /\ Len(placed') = Len(placed) /\ DOMAIN placed' = DOMAIN placed
    /\ \A i \in DOMAIN placed :
          /\ placed'[i].order = placed[i].order
          /\ placed'[i].epoch = placed[i].epoch
          /\ placed'[i].verdict = placed[i].verdict

(* Only the arrival of an order adds to the trace; and only that and a
   restart touch the registered nonces. *)
LEMMA StepKeepsTrace ==
    ASSUME TypeOK, [Next]_vars
    PROVE  \/ \E order \in Orders : Receive(order)
           \/ TraceKept /\ (Restart \/ UNCHANGED <<spent, epoch>>)
<1> USE DEF storeVars, prefVars, traceVars
<1> DEFINE Quiet == UNCHANGED <<spent, epoch>>
<1>1. ASSUME pc # "idle", NEW how \in {"returned", "raised", "crashed"},
             placed' = [placed EXCEPT ![Current].end = how]
      PROVE  TraceKept
  BY <1>1, EndType DEF TraceKept, TypeOK
<1>2. ASSUME UNCHANGED placed PROVE TraceKept
  BY <1>2 DEF TraceKept, TypeOK
<1>3. CASE AppendRejection \/ GateBlock \/ AnswerDeny \/ Fulfil \/ FailExecution
  <2>1. /\ pc # "idle"
        /\ \/ UNCHANGED placed
           \/ placed' = [placed EXCEPT ![Current].end = "raised"]
    BY <1>3 DEF AppendRejection, GateBlock, AnswerDeny, Fulfil, FailExecution,
                Settle, End
  <2> QED
    BY <1>1, <1>2, <1>3, <2>1
       DEF AppendRejection, GateBlock, AnswerDeny, Fulfil, FailExecution
<1>4. CASE AnswerAlwaysSaveRaises \/ Raise \/ Return
  <2>1. /\ pc # "idle"
        /\ \E how \in {"raised", "returned"} :
               placed' = [placed EXCEPT ![Current].end = how]
    BY <1>4 DEF AnswerAlwaysSaveRaises, Raise, Return, End
  <2> QED
    BY <1>1, <1>4, <2>1 DEF AnswerAlwaysSaveRaises, Raise, Return
<1>5. CASE Restart
  BY <1>1, <1>2, <1>5 DEF Restart
<1>6. CASE \/ RejectMalformed \/ MintTicket \/ GateAllow \/ GateAsk \/ AnswerOnce
           \/ AnswerAlways \/ StartChef \/ Tick \/ UNCHANGED vars
  BY <1>2, <1>6
     DEF RejectMalformed, MintTicket, RecordAccept, GateAllow, GateAsk, AnswerOnce,
         AnswerAlways, StartChef, Tick, vars
<1>7. ASSUME NEW exit \in SandboxExits, ChefExits(exit)
      PROVE  TraceKept /\ Quiet
  BY <1>2, <1>7 DEF ChefExits
<1> QED
  BY <1>3, <1>4, <1>5, <1>6, <1>7 DEF Next, Proceed, Gate, Answer, RunChef

(* What the arrival of an order does to the trace and the store. *)
LEMMA ReceiveExtendsTrace ==
    ASSUME TypeOK, NEW order \in Orders, Receive(order)
    PROVE  /\ pc = "idle"
           /\ pc' = IF Decide(order) = "ACCEPT" THEN "accepted" ELSE "rejecting"
           /\ Len(placed') = Len(placed) + 1 /\ Current' = Len(placed) + 1
           /\ DOMAIN placed' = 1 .. Len(placed) + 1
           /\ \A i \in 1..Len(placed) : placed'[i] = placed[i]
           /\ placed'[Len(placed) + 1] =
                  [order |-> order, epoch |-> epoch,
                   verdict |-> Decide(order), end |-> "open"]
           /\ spent' = spent \cup {order.nonce}
           /\ UNCHANGED <<clock, epoch, history, minted, allowed, executed,
                          workspaces, undeleted, session, ledger>>
<1> DEFINE entry == [order |-> order, epoch |-> epoch,
                     verdict |-> Decide(order), end |-> "open"]
<1>1. placed' = Append(placed, entry)
  BY DEF Receive, NonceSeen
<1>2. /\ Len(placed') = Len(placed) + 1
      /\ DOMAIN placed' = 1 .. Len(placed) + 1
      /\ \A i \in 1..Len(placed) : placed'[i] = placed[i]
      /\ placed'[Len(placed) + 1] = entry
  <2> HIDE DEF entry
  <2> QED BY <1>1 DEF TypeOK
<1> QED
  BY <1>2 DEF Receive, NonceSeen, Current, traceVars, dirVars, rowVars

(***************************************************************************)
(* Replay protection.                                                      *)
(***************************************************************************)

(* ReplayExactly follows from what the set of registered nonces is: the
   nonces of the orders placed in this life of the process.  Epochs never
   run ahead, so a new life starts with no order of its own. *)
NonceInv ==
    /\ \A i \in DOMAIN placed : placed[i].epoch <= epoch
    /\ \A nonce : nonce \in spent <=>
           \E i \in DOMAIN placed : /\ placed[i].epoch = epoch
                                   /\ placed[i].order.nonce = nonce

ReplayInv == NonceInv /\ ReplayExactly

LEMMA ReplayVerdict ==
    ASSUME NEW order, NEW count
    PROVE  Evaluate(order, spent, count) = "REPLAY" <=> order.nonce \in spent
BY DEF Evaluate

LEMMA InitReplayInv == Init => ReplayInv
BY DEF Init, ReplayInv, NonceInv, ReplayExactly

LEMMA NextReplayInv == TypeOK /\ ReplayInv /\ [Next]_vars => ReplayInv'
<1> SUFFICES ASSUME TypeOK, ReplayInv, [Next]_vars PROVE ReplayInv'
  OBVIOUS
<1> USE DEF ReplayInv
<1>0. Len(placed) \in Nat /\ DOMAIN placed = 1..Len(placed) /\ epoch \in Nat
  BY DEF TypeOK
<1>1. ASSUME NEW order \in Orders, Receive(order) PROVE ReplayInv'
  <2> DEFINE n == Len(placed) + 1
  <2>1. /\ DOMAIN placed' = 1..n
        /\ \A i \in 1..Len(placed) : placed'[i] = placed[i]
        /\ placed'[n].order = order /\ placed'[n].epoch = epoch
        /\ placed'[n].verdict = Decide(order)
        /\ spent' = spent \cup {order.nonce} /\ epoch' = epoch
    <3>1. /\ DOMAIN placed' = 1..n
          /\ \A i \in 1..Len(placed) : placed'[i] = placed[i]
          /\ placed'[n] = [order |-> order, epoch |-> epoch,
                           verdict |-> Decide(order), end |-> "open"]
          /\ spent' = spent \cup {order.nonce} /\ epoch' = epoch
      BY <1>1, ReceiveExtendsTrace
    <3> HIDE DEF n
    <3> QED BY <3>1
  <2>2. Decide(order) = "REPLAY" <=> order.nonce \in spent
    BY ReplayVerdict DEF Decide
  <2>3. NonceInv'
    BY <1>0, <2>1 DEF NonceInv
  <2>4. ASSUME NEW j \in 1..n
        PROVE placed'[j].verdict = "REPLAY" <=>
                \E i \in 1 .. j - 1 :
                    /\ placed'[i].epoch = placed'[j].epoch
                    /\ placed'[i].order.nonce = placed'[j].order.nonce
    <3>1. CASE j = n
      BY <1>0, <2>1, <2>2, <3>1 DEF NonceInv
    <3>2. CASE j \in 1..Len(placed)
      <4>1. \A i \in 1 .. j - 1 : placed'[i] = placed[i]
        BY <1>0, <2>1, <3>2
      <4>2. placed'[j] = placed[j]
        BY <2>1, <3>2
      <4> QED
        BY <1>0, <3>2, <4>1, <4>2 DEF ReplayExactly
    <3> QED BY <1>0, <3>1, <3>2
  <2> QED
    BY <2>1, <2>3, <2>4 DEF ReplayExactly
<1>2. CASE TraceKept /\ (Restart \/ UNCHANGED <<spent, epoch>>)
  <2>1. ASSUME NEW j \in DOMAIN placed
        PROVE placed'[j].verdict = "REPLAY" <=>
                \E i \in 1 .. j - 1 :
                    /\ placed'[i].epoch = placed'[j].epoch
                    /\ placed'[i].order.nonce = placed'[j].order.nonce
    <3>1. \A i \in 1 .. j - 1 : i \in DOMAIN placed
      BY <1>0
    <3>2. \A i \in 1 .. j - 1 : /\ placed'[i].epoch = placed[i].epoch
                               /\ placed'[i].order = placed[i].order
      BY <1>2, <3>1 DEF TraceKept
    <3> QED
      BY <1>2, <3>2 DEF TraceKept, ReplayExactly
  <2>2. NonceInv'
    <3>1. CASE Restart
      <4>1. epoch' = epoch + 1 /\ spent' = {}
        BY <3>1 DEF Restart
      <4>2. \A i \in DOMAIN placed :
                placed'[i].epoch \in Nat /\ placed'[i].epoch <= epoch
        <5> SUFFICES ASSUME NEW i \in DOMAIN placed
                     PROVE placed'[i].epoch \in Nat /\ placed'[i].epoch <= epoch
          OBVIOUS
        <5>1. placed[i] \in PlacedType
          BY DEF TypeOK
        <5> QED
          BY <1>2, <5>1 DEF TraceKept, NonceInv, PlacedType
      <4>3. \A i \in DOMAIN placed' :
                placed'[i].epoch <= epoch' /\ placed'[i].epoch # epoch'
        BY <1>0, <1>2, <4>1, <4>2 DEF TraceKept
      <4> QED
        BY <4>1, <4>3 DEF NonceInv
    <3>2. CASE UNCHANGED <<spent, epoch>>
      BY <1>0, <1>2, <3>2 DEF TraceKept, NonceInv
    <3> QED BY <1>2, <3>1, <3>2
  <2> QED
    BY <1>2, <2>1, <2>2 DEF TraceKept, ReplayExactly
<1> QED
  BY <1>1, <1>2, StepKeepsTrace

(* Replay protection is exact within one life of the process. *)
THEOREM ReplayExact == Spec => []ReplayExactly
<1>1. TypeInv => TypeOK
  BY DEF TypeInv
<1>2. ReplayInv => ReplayExactly
  BY DEF ReplayInv
<1> QED
  BY <1>1, <1>2, InitTypeInv, NextTypeInv, InitReplayInv, NextReplayInv, PTL
     DEF Spec

(***************************************************************************)
(* Execution is governed.                                                  *)
(***************************************************************************)

(* A chef can only be started from location "spawn", which is reached only
   with a ticket and, in consumer mode, past the gate; and tickets are
   minted only at "accepted", which is reached only by an ACCEPT. *)
GovernedInv ==
    /\ \A i \in DOMAIN placed :
           placed[i].verdict = "ACCEPT" => Admissible(placed[i].order)
    /\ \A i \in minted : placed[i].verdict = "ACCEPT"
    /\ executed \subseteq minted
    /\ Consumer => executed \subseteq allowed
    /\ pc = "accepted" => placed[Current].verdict = "ACCEPT"
    /\ pc \in {"gate", "asking", "spawn"} => Current \in minted
    /\ pc = "spawn" /\ Consumer => Current \in allowed

(* An order is accepted only if it passes the checks of the policy. *)
LEMMA AcceptIsAdmissible ==
    ASSUME NEW order, NEW count, Evaluate(order, spent, count) = "ACCEPT"
    PROVE  Admissible(order) /\ ~(count >= PolicyFor(order.role).limit)
BY DEF Evaluate, Admissible

LEMMA InitGovernedInv == Init => GovernedInv
BY DEF Init, GovernedInv

LEMMA NextGovernedInv == TypeOK /\ GovernedInv /\ [Next]_vars => GovernedInv'
<1> SUFFICES ASSUME TypeOK, GovernedInv, [Next]_vars PROVE GovernedInv'
  OBVIOUS
<1> USE DEF storeVars, prefVars, traceVars
<1>0. /\ DOMAIN placed = 1..Len(placed) /\ Len(placed) \in Nat
      /\ minted \subseteq DOMAIN placed
  BY DEF TypeOK
<1>1. ASSUME NEW order \in Orders, Receive(order) PROVE GovernedInv'
  <2>1. /\ DOMAIN placed' = 1 .. Len(placed) + 1
        /\ Current' = Len(placed) + 1
        /\ \A i \in 1..Len(placed) : placed'[i] = placed[i]
        /\ pc' = IF Decide(order) = "ACCEPT" THEN "accepted" ELSE "rejecting"
        /\ UNCHANGED <<minted, allowed, executed>>
    BY <1>1, ReceiveExtendsTrace
  <2>2. placed'[Len(placed) + 1] =
            [order |-> order, epoch |-> epoch,
             verdict |-> Decide(order), end |-> "open"]
    BY <1>1, ReceiveExtendsTrace
  <2>3. Decide(order) = "ACCEPT" => Admissible(order)
    BY AcceptIsAdmissible DEF Decide
  <2>4. ASSUME NEW i \in DOMAIN placed', placed'[i].verdict = "ACCEPT"
        PROVE  Admissible(placed'[i].order)
    <3>1. CASE i = Len(placed) + 1
      BY <2>2, <2>3, <2>4, <3>1
    <3>2. CASE i \in 1..Len(placed)
      BY <1>0, <2>1, <2>4, <3>2 DEF GovernedInv
    <3> QED BY <1>0, <2>1, <3>1, <3>2
  <2>5. \A i \in minted' : placed'[i].verdict = "ACCEPT"
    BY <1>0, <2>1 DEF GovernedInv
  <2>6. pc' = "accepted" => placed'[Current'].verdict = "ACCEPT"
    BY <2>1, <2>2
  <2>7. pc' \notin {"gate", "asking", "spawn"}
    BY <2>1
  <2> QED
    BY <2>1, <2>4, <2>5, <2>6, <2>7 DEF GovernedInv, Admissible, InScope
<1>2. CASE TraceKept
  <2>1. \A i \in DOMAIN placed' :
            placed'[i].verdict = "ACCEPT" => Admissible(placed'[i].order)
    BY <1>2 DEF TraceKept, GovernedInv
  <2>2. /\ Current' = Current
        /\ \A i \in DOMAIN placed : placed'[i].verdict = placed[i].verdict
    BY <1>2 DEF TraceKept, Current
  <2>3. ASSUME UNCHANGED traceVars,
               \/ pc' \in {pc, "idle", "running", "exited0", "exited1", "receipted"}
               \/ pc = "gate" /\ pc' = "asking"
        PROVE  GovernedInv'
    <3>1. pc' = "accepted" => placed'[Current].verdict = "ACCEPT"
      <4> SUFFICES ASSUME pc = "accepted"
                   PROVE  placed'[Current].verdict = "ACCEPT"
        BY <2>3
      <4> QED
        BY <2>2, CurrentOrderType DEF GovernedInv, Current
    <3> QED
      BY <1>0, <2>1, <2>2, <2>3, <3>1 DEF GovernedInv
  <2>4. CASE MintTicket
    <3>1. Current \in DOMAIN placed
      BY <1>0, <2>4, CurrentOrderType DEF MintTicket, RecordAccept
    <3>2. \A i \in minted' : placed'[i].verdict = "ACCEPT"
      BY <1>0, <2>2, <2>4, <3>1 DEF MintTicket, RecordAccept, GovernedInv
    <3>3. pc' \in {"gate", "spawn"} /\ (Consumer => pc' = "gate")
      BY <2>4 DEF MintTicket, RecordAccept
    <3> QED
      BY <2>1, <2>2, <2>4, <3>2, <3>3 DEF MintTicket, RecordAccept, GovernedInv
  <2>5. CASE GateAllow \/ AnswerOnce \/ AnswerAlways
    BY <1>0, <2>1, <2>2, <2>5
       DEF GateAllow, AnswerOnce, AnswerAlways, GovernedInv
  <2>6. CASE StartChef
    BY <1>0, <2>1, <2>2, <2>6 DEF StartChef, GovernedInv
  <2>7. CASE \/ AppendRejection \/ GateBlock \/ AnswerDeny \/ Fulfil
             \/ FailExecution \/ AnswerAlwaysSaveRaises \/ Raise \/ Return
    BY <2>3, <2>7 DEF AppendRejection, GateBlock, AnswerDeny, Fulfil,
                      FailExecution, AnswerAlwaysSaveRaises, Raise, Return,
                      Settle, End
  <2>8. CASE RejectMalformed \/ GateAsk \/ Restart \/ Tick \/ UNCHANGED vars
    BY <2>3, <2>8 DEF RejectMalformed, GateAsk, Restart, Tick, vars
  <2>9. ASSUME NEW exit \in SandboxExits, ChefExits(exit) PROVE GovernedInv'
    BY <2>3, <2>9 DEF ChefExits
  <2> QED
    BY <1>1, <2>4, <2>5, <2>6, <2>7, <2>8, <2>9
       DEF Next, Proceed, Gate, Answer, RunChef
<1> QED
  BY <1>1, <1>2, StepKeepsTrace

(* No chef runs outside the policy, nor past the personal gate. *)
THEOREM Governed == Spec => []ExecutionGoverned
<1>1. TypeInv => TypeOK
  BY DEF TypeInv
<1>2. TypeOK /\ GovernedInv => ExecutionGoverned
  BY DEF TypeOK, GovernedInv, ExecutionGoverned
<1> QED
  BY <1>1, <1>2, InitTypeInv, NextTypeInv, InitGovernedInv, NextGovernedInv,
     PTL DEF Spec

(***************************************************************************)
(* The rate limit.                                                         *)
(***************************************************************************)

(* RateWindow follows because the accept in progress was decided with room
   left in the window, and nothing but the clock, which only empties the
   window, moves between the decision and the record of the accept. *)
RoomLeft ==
    LET order == CurrentOrder IN
    /\ HasPolicy(order.role)
    /\ order.cap \in PolicyFor(order.role).allowed
    /\ RateCount(KeyOf(order), clock) < PolicyFor(order.role).limit

RateInv == RateWindow /\ (pc = "accepted" => RoomLeft)

(* The accepts of a sequence that a reading of the clock still counts. *)
Counted(accepts, now) == {i \in DOMAIN accepts : now - accepts[i] < Window}

(* What is counted is finite, and never more at a later reading. *)
LEMMA CountedShrinks ==
    ASSUME NEW accepts \in Seq(Nat), NEW now \in Nat, NEW later \in Nat,
           now <= later
    PROVE  /\ IsFiniteSet(Counted(accepts, now))
           /\ Cardinality(Counted(accepts, now)) \in Nat
           /\ Cardinality(Counted(accepts, later)) \in Nat
           /\ Cardinality(Counted(accepts, later))
                <= Cardinality(Counted(accepts, now))
<1>1. Counted(accepts, now) \subseteq 1..Len(accepts)
  BY DEF Counted
<1>2. IsFiniteSet(1..Len(accepts))
  BY FS_Interval
<1>3. IsFiniteSet(Counted(accepts, now))
  BY <1>1, <1>2, FS_Subset
<1>4. Window \in Nat
  BY OrderPathAssumption
<1>5. Counted(accepts, later) \subseteq Counted(accepts, now)
  BY <1>4 DEF Counted
<1>6. IsFiniteSet(Counted(accepts, later))
  BY <1>3, <1>5, FS_Subset
<1> QED
  BY <1>3, <1>5, <1>6, FS_Subset, FS_CardinalityType

LEMMA RateCountShrinks ==
    ASSUME TypeOK, NEW key \in Keys, NEW now \in Nat, NEW later \in Nat,
           now <= later
    PROVE  /\ RateCount(key, now) \in Nat /\ RateCount(key, later) \in Nat
           /\ RateCount(key, later) <= RateCount(key, now)
<1>1. history[key] \in Seq(Nat)
  BY DEF TypeOK
<1>2. \A t : RateCount(key, t) = Cardinality(Counted(history[key], t))
  BY DEF RateCount, Counted
<1> QED
  BY <1>1, <1>2, CountedShrinks

(* Recording an accept takes one more place in the window. *)
LEMMA AcceptTakesOnePlace ==
    ASSUME NEW accepts \in Seq(Nat), NEW now \in Nat
    PROVE  LET n == Len(accepts) + 1
               longer == Append(accepts, now)
           IN  Cardinality({i \in 1..n : longer[n] - longer[i] < Window}) =
                   Cardinality(Counted(accepts, now)) + 1
<1> DEFINE n == Len(accepts) + 1
           longer == Append(accepts, now)
           S == {i \in 1..n : longer[n] - longer[i] < Window}
<1>1. /\ longer[n] = now /\ Len(accepts) \in Nat
      /\ DOMAIN accepts = 1..Len(accepts)
      /\ \A i \in 1..Len(accepts) : longer[i] = accepts[i]
  OBVIOUS
<1>2. Window \in Nat /\ Window > 0
  BY OrderPathAssumption
<1>3. S = Counted(accepts, now) \cup {n}
  <2> HIDE DEF longer
  <2> QED BY <1>1, <1>2 DEF Counted
<1>4. n \notin Counted(accepts, now)
  BY <1>1 DEF Counted
<1>5. IsFiniteSet(Counted(accepts, now))
  BY CountedShrinks
<1>6. Cardinality(Counted(accepts, now) \cup {n}) =
          Cardinality(Counted(accepts, now)) + 1
  BY <1>4, <1>5, FS_AddElement
<1> QED
  BY <1>3, <1>6

LEMMA InitRateInv == Init => RateInv
BY DEF Init, RateInv, RateWindow, EmptyHistory

LEMMA NextRateInv == TypeOK /\ RateInv /\ [Next]_vars => RateInv'
<1> SUFFICES ASSUME TypeOK, RateInv, [Next]_vars PROVE RateInv'
  OBVIOUS
<1> USE DEF storeVars, prefVars, traceVars
<1>0. /\ \A key \in Keys : history[key] \in Seq(Nat)
      /\ clock \in Nat
  BY DEF TypeOK
<1>1. ASSUME NEW order \in Orders, Receive(order) PROVE RateInv'
  <2>1. /\ pc' = IF Decide(order) = "ACCEPT" THEN "accepted" ELSE "rejecting"
        /\ Current' = Len(placed) + 1
        /\ placed'[Len(placed) + 1] =
               [order |-> order, epoch |-> epoch,
                verdict |-> Decide(order), end |-> "open"]
        /\ UNCHANGED <<clock, history>>
    BY <1>1, ReceiveExtendsTrace
  <2>2. CurrentOrder' = order
    BY <2>1 DEF CurrentOrder
  <2>3. ASSUME Decide(order) = "ACCEPT" PROVE RoomLeft'
    <3>1. /\ Admissible(order)
          /\ ~(RateCount(KeyOf(order), clock) >= PolicyFor(order.role).limit)
      BY <2>3, AcceptIsAdmissible DEF Decide
    <3>2. PolicyFor(order.role).limit \in Nat
      BY <3>1, LimitType DEF Admissible
    <3>3. KeyOf(order) \in Keys
      BY OrderPathAssumption DEF OrderType, KeyOf, Keys
    <3>4. RateCount(KeyOf(order), clock) \in Nat
      BY <1>0, <3>3, RateCountShrinks
    <3>5. RateCount(KeyOf(order), clock) < PolicyFor(order.role).limit
      BY <3>1, <3>2, <3>4
    <3> QED
      BY <2>1, <2>2, <3>1, <3>5 DEF RoomLeft, Admissible, RateCount, KeyOf
  <2> QED
    BY <2>1, <2>3 DEF RateInv, RateWindow
<1>2. CASE MintTicket
  <2> DEFINE key == KeyOf(CurrentOrder)
             n == Len(history[key]) + 1
             role == CurrentOrder.role
  <2>1. key \in Keys /\ history[key] \in Seq(Nat)
    BY <1>0, <1>2, CurrentOrderType DEF MintTicket, RecordAccept
  <2>2. /\ history' = [history EXCEPT ![key] = Append(history[key], clock)]
        /\ pc' # "accepted"
    BY <1>2 DEF MintTicket, RecordAccept
  <2>3. /\ history'[key] = Append(history[key], clock)
        /\ \A other \in Keys \ {key} : history'[other] = history[other]
    BY <2>1, <2>2 DEF TypeOK
  <2>4. RoomLeft
    BY <1>2 DEF MintTicket, RecordAccept, RateInv
  <2>5. role \in Roles
    BY <1>2, CurrentOrderType, OrderPathAssumption DEF MintTicket, OrderType
  <2>6. /\ HasPolicy(role) /\ key[2] \in PolicyFor(role).allowed
        /\ PolicyFor(role).limit \in Nat
    BY <2>4, LimitType DEF RoomLeft, KeyOf
  <2>7. Cardinality(Counted(history[key], clock)) < PolicyFor(role).limit
    BY <2>4 DEF RoomLeft, RateCount, Counted
  <2>8. Cardinality({i \in 1..n : history'[key][n] - history'[key][i] < Window})
          <= PolicyFor(role).limit
    <3>1. Cardinality({i \in 1..n :
                history'[key][n] - history'[key][i] < Window}) =
            Cardinality(Counted(history[key], clock)) + 1
      BY <1>0, <2>1, <2>3, AcceptTakesOnePlace
    <3>2. Cardinality(Counted(history[key], clock)) \in Nat
      BY <1>0, <2>1, CountedShrinks
    <3> QED
      BY <2>6, <2>7, <3>1, <3>2
  <2>9. ASSUME NEW k \in Keys, NEW j \in DOMAIN history'[k]
        PROVE  \E r \in Roles :
                  /\ HasPolicy(r)
                  /\ k[2] \in PolicyFor(r).allowed
                  /\ Cardinality({i \in 1..j :
                         history'[k][j] - history'[k][i] < Window})
                       <= PolicyFor(r).limit
    <3>1. CASE k # key
      <4>1. history'[k] = history[k]
        BY <2>3, <3>1
      <4>2. j \in DOMAIN history[k]
        BY <4>1
      <4> QED
        BY <4>1, <4>2 DEF RateInv, RateWindow
    <3>2. CASE k = key /\ j = n
      BY <2>5, <2>6, <2>8, <3>2
    <3>3. CASE k = key /\ j \in 1..Len(history[key])
      <4>1. \A i \in 1..j : history'[key][i] = history[key][i]
        BY <2>1, <2>3, <3>3
      <4>2. {i \in 1..j : history'[key][j] - history'[key][i] < Window} =
            {i \in 1..j : history[key][j] - history[key][i] < Window}
        BY <3>3, <4>1
      <4>3. key \in Keys /\ j \in DOMAIN history[key]
        BY <2>1, <3>3
      <4> QED
        BY <3>3, <4>2, <4>3 DEF RateInv, RateWindow
    <3>4. DOMAIN history'[key] = 1..n
      BY <2>1, <2>3
    <3>5. CASE k = key
      <4>1. j \in 1..n /\ Len(history[key]) \in Nat
        BY <2>1, <3>4, <3>5
      <4>2. j = n \/ j \in 1..Len(history[key])
        BY <4>1
      <4> QED
        BY <3>2, <3>3, <3>5, <4>2
    <3> QED
      BY <3>1, <3>5
  <2> QED
    BY <2>2, <2>9 DEF RateInv, RateWindow
<1>3. CASE Restart
  BY <1>3 DEF Restart, RateInv, RateWindow, EmptyHistory
<1>4. CASE Tick
  <2>1. /\ clock' = clock + 1 /\ UNCHANGED <<pc, placed, history>>
    BY <1>4 DEF Tick
  <2>2. ASSUME pc = "accepted" PROVE RoomLeft'
    <3>1. RoomLeft
      BY <2>2 DEF RateInv
    <3>2. KeyOf(CurrentOrder) \in Keys
      BY <2>2, CurrentOrderType
    <3>3. /\ RateCount(KeyOf(CurrentOrder), clock + 1) \in Nat
          /\ RateCount(KeyOf(CurrentOrder), clock) \in Nat
          /\ RateCount(KeyOf(CurrentOrder), clock + 1)
               <= RateCount(KeyOf(CurrentOrder), clock)
      BY <1>0, <3>2, RateCountShrinks
    <3>4. PolicyFor(CurrentOrder.role).limit \in Nat
      BY <3>1, LimitType DEF RoomLeft
    <3>5. /\ CurrentOrder' = CurrentOrder
          /\ RateCount(KeyOf(CurrentOrder), clock)' =
                 RateCount(KeyOf(CurrentOrder), clock + 1)
      BY <2>1 DEF CurrentOrder, Current, RateCount, KeyOf
    <3> QED
      BY <3>1, <3>3, <3>4, <3>5 DEF RoomLeft, RateCount, KeyOf
  <2> QED
    BY <2>1, <2>2 DEF RateInv, RateWindow
<1>5. CASE RejectMalformed \/ UNCHANGED vars
  <2>1. UNCHANGED <<clock, pc, placed, history>>
    BY <1>5 DEF RejectMalformed, vars
  <2> QED
    BY <2>1 DEF RateInv, RateWindow, RoomLeft, RateCount, CurrentOrder,
                Current, KeyOf
<1>6. CASE \/ AppendRejection \/ Gate \/ StartChef \/ Fulfil \/ FailExecution
           \/ Raise \/ Return
  <2>1. UNCHANGED history /\ pc' # "accepted"
    BY <1>6 DEF AppendRejection, Gate, GateBlock, GateAllow, GateAsk, Answer,
                AnswerOnce, AnswerAlways, AnswerAlwaysSaveRaises, AnswerDeny,
                StartChef, Fulfil, FailExecution, Raise, Return, Settle, End
  <2> QED
    BY <2>1 DEF RateInv, RateWindow
<1>7. ASSUME NEW exit \in SandboxExits, ChefExits(exit) PROVE RateInv'
  <2>1. UNCHANGED history /\ pc' # "accepted"
    BY <1>7 DEF ChefExits
  <2> QED
    BY <2>1 DEF RateInv, RateWindow
<1> QED
  BY <1>1, <1>2, <1>3, <1>4, <1>5, <1>6, <1>7 DEF Next, Proceed, RunChef

(* No accept exceeds the limit of the policy that granted it. *)
THEOREM RateLimited == Spec => []RateWindow
<1>1. TypeInv => TypeOK
  BY DEF TypeInv
<1>2. RateInv => RateWindow
  BY DEF RateInv
<1> QED
  BY <1>1, <1>2, InitTypeInv, NextTypeInv, InitRateInv, NextRateInv, PTL
     DEF Spec

=============================================================================
