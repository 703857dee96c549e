------------------------- MODULE OrderReceiptProofs -------------------------
(***************************************************************************)
(* Theorems about what the order path leaves behind: the receipts and the  *)
(* report made of them, the serving window, the workspaces, the settings,  *)
(* and the refinement of the lifecycle of an order.                        *)
(***************************************************************************)
EXTENDS OrderPathProofs

(***************************************************************************)
(* Where the order in progress stands.                                     *)
(***************************************************************************)

(* The only open order is the one in progress, and it was placed in this
   life of the process: a restart closes what it interrupts. *)
OpenInv ==
    /\ \A i \in DOMAIN placed :
           placed[i].end = "open" <=> i = Current /\ pc # "idle"
    /\ pc # "idle" => placed[Current].epoch = epoch

(* A ticket is minted once and a chef is started once: the location tells
   whether it was done.  GovernedInv has the other direction, that what runs
   has its ticket. *)
ProgressInv ==
    /\ pc \in {"rejecting", "accepted"} => Current \notin minted
    /\ pc \in {"rejecting", "accepted", "gate", "asking", "spawn"} =>
           Current \notin executed /\ Current \notin workspaces
    /\ pc \in {"running", "exited0", "exited1"} => Current \in executed

(* What a receipt tells of order i. *)
Account(r, i) ==
    /\ r.serial = i
    /\ r.oid = placed[i].order.oid
    /\ r.principal = placed[i].order.principal
    /\ r.cap = placed[i].order.cap
    /\ r.ticket <=> i \in minted
    /\ \/ /\ r.status = "REJECTED" /\ r.reason = placed[i].verdict
          /\ r.reason \in RejectReasons /\ i \notin minted
       \/ /\ r.status = "REJECTED"
          /\ r.reason \in {"USER_BLOCKED", "USER_DENIED"}
          /\ i \in minted /\ i \notin executed
       \/ /\ r.status = "REJECTED" /\ r.reason = "EXECUTION_FAILED"
          /\ i \in minted /\ i \in executed
       \/ /\ r.status = "FULFILLED" /\ r.reason = "none"
          /\ i \in minted /\ i \in executed

(* The receipt of an intake that never became an order. *)
Intake(r) ==
    /\ r.serial = 0 /\ r.principal = Unadmitted
    /\ r.status = "REJECTED" /\ r.reason = "MALFORMED_ORDER"

(* The calls that are over, and the one whose receipt is committed. *)
Closed == {i \in DOMAIN placed : i # Current \/ pc \in {"idle", "receipted"}}

(* A receipt is of an intake, or tells what became of an order. *)
Known(r) == Intake(r) \/ (r.serial \in Closed /\ Account(r, r.serial))

(* What is committed is what this process wrote first; every row is true;
   their orders stand in turn; an order whose call returned, or is about to,
   has its receipt among the committed. *)
RowsInv ==
    /\ Len(ledger) <= Len(session)
    /\ \A k \in DOMAIN ledger : ledger[k] = session[k]
    /\ \A k \in DOMAIN session : Known(session[k])
    /\ \A k, m \in DOMAIN session :
           k < m /\ 0 \notin {session[k].serial, session[m].serial} =>
               session[k].serial < session[m].serial
    /\ Returned \subseteq Receipted
    /\ pc = "receipted" => Current \in Receipted

(* What of it concerns the committed receipts alone: all are true, and no
   order has two. *)
LedgerInv ==
    /\ \A k \in DOMAIN ledger : Known(ledger[k])
    /\ \A k, m \in DOMAIN ledger :
           ledger[k].serial = ledger[m].serial => k = m \/ ledger[k].serial = 0

(* No BLOCK is lifted between the file and the memory, so a restart brings
   none back that the memory had not; what the gate lets pass, or asks the
   user about, is not blocked. *)
BlockInv ==
    /\ allowed \subseteq minted
    /\ \A cap \in Menu : prefsFile[cap] = "block" => prefs[cap] = "block"
    /\ \A i \in allowed : prefs[placed[i].order.cap] # "block"
    /\ pc = "asking" => prefs[CurrentOrder.cap] # "block"

(* The orders of this life of the process that took a place of the key. *)
Slots(key) == {i \in minted : /\ placed[i].epoch = epoch
                              /\ KeyOf(placed[i].order) = key}

(* With ids of its own an order finds its window empty, and finds there
   what its chef left. *)
WindowInv ==
    /\ \A i, j \in DOMAIN placed :
           placed[i].order.oid = placed[j].order.oid => i = j
    /\ \A oid \in OrderIds :
           (\A i \in DOMAIN placed : placed[i].order.oid # oid) =>
               window[oid] = NoDraft
    /\ pc \notin {"idle", "exited0", "exited1", "receipted"} =>
           window[CurrentOrder.oid] = NoDraft
    /\ pc = "exited0" =>
           window[CurrentOrder.oid] \in {DraftOf(CurrentOrder), NoDraft}

(***************************************************************************)
(* The kinds of steps.  What the rows and the trace see of a step is one   *)
(* of five things.                                                         *)
(***************************************************************************)

(* A row is inserted, and committed with all before it or not. *)
Added(r) ==
    /\ r \in ReceiptType
    /\ session' = Append(session, r) /\ ledger' \in {ledger, session'}

(* The receipt of the call in progress is appended: it tells what became of
   its order, and if the order was fulfilled, its digest is of what the
   window of the order holds.  The call goes on to its return, or raises. *)
Written(r) ==
    /\ pc \notin {"idle", "spawn", "receipted"} /\ Account(r, Current)
    /\ r.status = "FULFILLED" => /\ pc = "exited0" /\ r.digest # NoDraft
                                 /\ r.digest = window[CurrentOrder.oid]
    /\ Added(r) /\ UNCHANGED <<epoch, traceVars, window>>
    /\ \/ ledger' = session' /\ pc' = "receipted" /\ UNCHANGED placed
       \/ /\ ledger' = ledger /\ pc' = "idle"
          /\ placed' = [placed EXCEPT ![Current].end = "raised"]

(* The call in progress returns or raises, or the process dies in it; what
   is not committed may be lost. *)
Ended(how) ==
    /\ pc # "idle" /\ pc' = "idle"
    /\ how = "returned" => pc = "receipted"
    /\ placed' = [placed EXCEPT ![Current].end = how]
    /\ session' \in {session, ledger}
    /\ UNCHANGED <<traceVars, window, ledger>>

(* The receipt of an intake is appended. *)
Noted(r) ==
    /\ pc = "idle" /\ Intake(r) /\ Added(r)
    /\ UNCHANGED <<pc, placed, epoch, traceVars, window>>

(* The call in progress goes on, or there is none. *)
Continued ==
    /\ UNCHANGED <<placed, ledger>>
    /\ session' \in {session, ledger}
    /\ pc = "idle" => UNCHANGED traceVars
    /\ pc # "idle" => UNCHANGED <<epoch, session>>
    /\ minted' \in {minted, minted \cup {Current}}
    /\ pc \in {"idle", "receipted"} => UNCHANGED <<pc, minted>>
    /\ \/ pc' = pc /\ UNCHANGED executed
       \/ /\ pc \in {"accepted", "gate", "asking"}
          /\ pc' \in {"gate", "asking", "spawn"} /\ UNCHANGED executed
       \/ /\ pc = "spawn" /\ pc' = "running"
          /\ executed' = executed \cup {Current}
       \/ /\ pc = "running" /\ pc' \in {"exited0", "exited1"}
          /\ UNCHANGED executed

StateInv == TypeInv /\ GovernedInv /\ OpenInv /\ ProgressInv

(* What is written down for the order in progress. *)
LEMMA ReceiptFields ==
    ASSUME NEW status, NEW reason, NEW digest
    PROVE  LET r == Receipt(status, reason, digest) IN
           /\ r.serial = Current /\ r.oid = placed[Current].order.oid
           /\ r.principal = placed[Current].order.principal
           /\ r.cap = placed[Current].order.cap
           /\ r.ticket <=> Current \in minted
           /\ r.status = status /\ r.reason = reason /\ r.digest = digest
BY Zenon DEF Receipt, CurrentOrder

(* Settling with a receipt is to write it, or to raise and lose it. *)
LEMMA SettleShapes ==
    ASSUME NEW r \in ReceiptType, Settle(r), Account(r, Current),
           pc \notin {"idle", "spawn", "receipted"},
           r.status = "FULFILLED" => /\ pc = "exited0" /\ r.digest # NoDraft
                                     /\ r.digest = window[CurrentOrder.oid],
           UNCHANGED <<epoch, traceVars, window>>
    PROVE  Written(r) \/ Ended("raised")
<1>1. CASE Commit(r) /\ pc' = "receipted" /\ UNCHANGED placed
  BY <1>1 DEF Commit, Written, Added
<1>2. CASE CommitRaises(r) /\ End("raised")
  <2>1. CASE session' = Append(session, r)
    BY <1>2, <2>1 DEF CommitRaises, End, Written, Added
  <2>2. CASE session' = ledger
    BY <1>2, <2>2 DEF CommitRaises, End, Ended
  <2> QED
    BY <1>2, <2>1, <2>2 DEF CommitRaises
<1> QED
  BY <1>1, <1>2 DEF Settle

LEMMA StepShapes ==
    ASSUME StateInv, [Next]_vars
    PROVE  \/ \E order \in Orders : Receive(order)
           \/ \E r : Written(r)
           \/ \E how \in {"returned", "raised", "crashed"} : Ended(how)
           \/ \E r : Noted(r)
           \/ Continued
<1> USE DEF storeVars, prefVars, traceVars, rowVars
<1>0. TypeOK /\ RejectingInv
  BY DEF StateInv, TypeInv
<1> DEFINE Shaped == \/ \E r : Written(r)
                     \/ \E how \in {"returned", "raised", "crashed"} : Ended(how)
<1>1. CASE AppendRejection
  <2> DEFINE v == placed[Current].verdict
  <2>1. pc = "rejecting" /\ Settle(Rejected(v))
        /\ UNCHANGED <<epoch, traceVars, window>>
    BY <1>1 DEF AppendRejection
  <2>2. v \in RejectReasons /\ Current \notin minted
    BY <1>0, <2>1 DEF RejectingInv, StateInv, ProgressInv
  <2>3. Rejected(v) \in ReceiptType
    BY <1>0, <2>1, <2>2, ReceiptIsTyped DEF Rejected, ReceiptReasons
  <2>4. Account(Rejected(v), Current) /\ Rejected(v).status = "REJECTED"
    BY <2>2, ReceiptFields DEF Rejected, Account
  <2>5. Written(Rejected(v)) \/ Ended("raised")
    BY <2>1, <2>3, <2>4, SettleShapes
  <2> QED
    BY <2>5
<1>2. ASSUME NEW reason \in {"USER_BLOCKED", "USER_DENIED"},
             pc \in {"gate", "asking"}, Settle(Rejected(reason)),
             UNCHANGED <<epoch, traceVars, window>>
      PROVE  Shaped
  <2>1. Current \in minted /\ Current \notin executed
    BY <1>2 DEF StateInv, GovernedInv, ProgressInv
  <2>2. Rejected(reason) \in ReceiptType
    BY <1>0, <1>2, ReceiptIsTyped DEF Rejected, ReceiptReasons
  <2>3. /\ Account(Rejected(reason), Current)
        /\ Rejected(reason).status = "REJECTED"
    BY <2>1, ReceiptFields DEF Rejected, Account
  <2>4. Written(Rejected(reason)) \/ Ended("raised")
    BY <1>2, <2>2, <2>3, SettleShapes
  <2> QED
    BY <2>4
<1>3. CASE GateBlock \/ AnswerDeny
  BY <1>2, <1>3 DEF GateBlock, AnswerDeny
<1>4. CASE FailExecution
  <2> DEFINE r == Rejected("EXECUTION_FAILED")
  <2>1. /\ pc \in {"exited0", "exited1"} /\ Settle(r)
        /\ UNCHANGED <<epoch, traceVars, window>>
    BY <1>4 DEF FailExecution
  <2>2. Current \in minted /\ Current \in executed
    BY <2>1 DEF StateInv, GovernedInv, ProgressInv
  <2>3. r \in ReceiptType
    BY <1>0, <2>1, ReceiptIsTyped DEF Rejected, ReceiptReasons
  <2>4. Account(r, Current) /\ r.status = "REJECTED"
    BY <2>2, ReceiptFields DEF Rejected, Account
  <2>5. Written(r) \/ Ended("raised")
    BY <2>1, <2>3, <2>4, SettleShapes
  <2> QED
    BY <2>5
<1>5. CASE Fulfil
  <2> DEFINE digest == window[CurrentOrder.oid]
             r == Receipt("FULFILLED", "none", digest)
  <2>1. /\ pc = "exited0" /\ digest # NoDraft /\ Settle(r)
        /\ UNCHANGED <<epoch, traceVars, window>>
    BY <1>5 DEF Fulfil
  <2>2. Current \in minted /\ Current \in executed
    BY <2>1 DEF StateInv, GovernedInv, ProgressInv
  <2>3. digest \in Drafts \cup {Torn, NoDraft}
    BY <1>0, <2>1, CurrentOrderType DEF OrderType, TypeOK
  <2>4. r \in ReceiptType
    BY <1>0, <2>1, <2>3, ReceiptIsTyped DEF ReceiptReasons
  <2>5. Account(r, Current) /\ r.digest = digest
    BY <2>2, ReceiptFields DEF Account
  <2>6. Written(r) \/ Ended("raised")
    BY <2>1, <2>4, <2>5, SettleShapes
  <2> QED
    BY <2>6
<1>6. CASE Return \/ Raise \/ AnswerAlwaysSaveRaises
  <2>1. \E how \in {"returned", "raised"} : Ended(how)
    BY <1>6 DEF Return, Raise, AnswerAlwaysSaveRaises, End, Ended
  <2> QED
    BY <2>1
<1>7. CASE Restart
  <2>1. CASE pc = "idle"
    BY <1>7, <2>1 DEF Restart, Continued
  <2>2. CASE pc # "idle"
    BY <1>7, <2>2 DEF Restart, Ended
  <2> QED
    BY <2>1, <2>2
<1>8. CASE \/ MintTicket \/ GateAllow \/ GateAsk \/ AnswerOnce
           \/ AnswerAlways \/ StartChef
  BY <1>8 DEF MintTicket, RecordAccept, GateAllow, GateAsk, AnswerOnce,
              AnswerAlways, StartChef, Continued
<1>9. ASSUME NEW exit \in SandboxExits, ChefExits(exit) PROVE Continued
  BY <1>9 DEF ChefExits, Continued
<1>10. CASE Tick \/ UNCHANGED vars
  BY <1>10 DEF Tick, vars, Continued
<1>11. CASE RejectMalformed
  <2>1. IntakeReceipt \in ReceiptType /\ Intake(IntakeReceipt)
    BY DEF IntakeReceipt, ReceiptType, ReceiptReasons, Intake
  <2>2. /\ pc = "idle" /\ UNCHANGED <<pc, placed, epoch, traceVars, window>>
        /\ Commit(IntakeReceipt) \/ CommitRaises(IntakeReceipt)
    BY <1>11 DEF RejectMalformed
  <2>3. CASE Added(IntakeReceipt)
    BY <2>1, <2>2, <2>3 DEF Noted
  <2>4. CASE ledger' = ledger /\ session' = ledger
    BY <2>2, <2>4 DEF Continued
  <2> QED
    BY <2>1, <2>2, <2>3, <2>4 DEF Commit, CommitRaises, Added
<1> QED
  BY <1>1, <1>3, <1>4, <1>5, <1>6, <1>7, <1>8, <1>9, <1>10, <1>11
     DEF Next, Proceed, Gate, Answer, RunChef

(* What the insertion of a row does to the rows. *)
LEMMA AddedEffect ==
    ASSUME StateInv, NEW r, Added(r)
    PROVE  /\ DOMAIN session = 1..Len(session) /\ Len(session) \in Nat
           /\ DOMAIN session' = 1 .. Len(session) + 1
           /\ Len(session') = Len(session) + 1
           /\ session'[Len(session) + 1] = r
           /\ \A k \in 1..Len(session) : session'[k] = session[k]
           /\ DOMAIN ledger = 1..Len(ledger) /\ Len(ledger) \in Nat
<1>1. session \in Seq(ReceiptType) /\ ledger \in Seq(ReceiptType)
  BY DEF StateInv, TypeInv, TypeOK
<1>2. r \in ReceiptType /\ session' = Append(session, r)
  BY DEF Added
<1> QED
  BY <1>1, <1>2

(* What the end of a call does to the trace. *)
LEMMA EndEffect ==
    ASSUME StateInv, pc # "idle", NEW how \in {"returned", "raised", "crashed"},
           placed' = [placed EXCEPT ![Current].end = how]
    PROVE  /\ DOMAIN placed' = DOMAIN placed /\ Current' = Current
           /\ Len(placed') = Len(placed)
           /\ Current \in DOMAIN placed /\ placed'[Current].end = how
           /\ \A i \in DOMAIN placed : /\ placed'[i].order = placed[i].order
                                       /\ placed'[i].epoch = placed[i].epoch
                                       /\ placed'[i].verdict = placed[i].verdict
                                       /\ i # Current => placed'[i] = placed[i]
<1>0. TypeOK
  BY DEF StateInv, TypeInv
<1>1. Current \in 1..Len(placed) /\ DOMAIN placed = 1..Len(placed)
  BY <1>0, CurrentOrderType DEF TypeOK
<1>2. /\ placed' \in Seq(PlacedType) /\ Len(placed') = Len(placed)
      /\ \A i \in 1..Len(placed) : /\ placed'[i].order = placed[i].order
                                   /\ placed'[i].epoch = placed[i].epoch
                                   /\ placed'[i].verdict = placed[i].verdict
                                   /\ i # Current => placed'[i] = placed[i]
                                   /\ i = Current => placed'[i].end = how
  BY <1>0, EndType
<1>3. DOMAIN placed' = DOMAIN placed /\ Current' = Current
  BY <1>2 DEF Current
<1> QED
  BY <1>1, <1>2, <1>3

(***************************************************************************)
(* One order at a time.                                                    *)
(***************************************************************************)

LEMMA InitStateInv == Init => StateInv
BY InitTypeInv, InitGovernedInv DEF Init, StateInv, OpenInv, ProgressInv

LEMMA NextOpenInv == StateInv /\ [Next]_vars => OpenInv'
<1> SUFFICES ASSUME StateInv, [Next]_vars PROVE OpenInv'
  OBVIOUS
<1>0. TypeOK /\ OpenInv /\ DOMAIN placed = 1..Len(placed) /\ Len(placed) \in Nat
  BY DEF StateInv, TypeInv, TypeOK
<1>1. ASSUME NEW order \in Orders, Receive(order) PROVE OpenInv'
  <2> DEFINE n == Len(placed) + 1
  <2>1. /\ pc = "idle" /\ pc' # "idle" /\ Current' = n /\ epoch' = epoch
        /\ DOMAIN placed' = 1..n
        /\ \A i \in 1..Len(placed) : placed'[i] = placed[i]
        /\ placed'[n] = [order |-> order, epoch |-> epoch,
                         verdict |-> Decide(order), end |-> "open"]
    BY <1>0, <1>1, ReceiveExtendsTrace
  <2>2. placed'[n].end = "open" /\ placed'[n].epoch = epoch
    <3> HIDE DEF n
    <3> QED BY <2>1
  <2>3. \A i \in 1..n : i # n => placed'[i].end # "open"
    BY <1>0, <2>1 DEF OpenInv
  <2> HIDE DEF n
  <2> QED
    BY <2>1, <2>2, <2>3 DEF OpenInv
<1>2. ASSUME pc # "idle", pc' = "idle",
             NEW how \in {"returned", "raised", "crashed"},
             placed' = [placed EXCEPT ![Current].end = how]
      PROVE  OpenInv'
  BY <1>0, <1>2, EndEffect DEF OpenInv
<1>3. ASSUME UNCHANGED placed, pc' = "idle" <=> pc = "idle",
             pc # "idle" => UNCHANGED epoch
      PROVE  OpenInv'
  BY <1>0, <1>3 DEF OpenInv, Current
<1>4. ASSUME NEW r, Written(r) PROVE OpenInv'
  BY <1>2, <1>3, <1>4 DEF Written
<1>5. ASSUME NEW how \in {"returned", "raised", "crashed"}, Ended(how)
      PROVE  OpenInv'
  BY <1>2, <1>5 DEF Ended
<1>6. ASSUME NEW r, Noted(r) PROVE OpenInv'
  BY <1>3, <1>6 DEF Noted
<1>7. CASE Continued
  BY <1>3, <1>7 DEF Continued
<1> QED
  BY <1>1, <1>4, <1>5, <1>6, <1>7, StepShapes

LEMMA NextProgressInv == StateInv /\ [Next]_vars => ProgressInv'
<1> SUFFICES ASSUME StateInv, [Next]_vars PROVE ProgressInv'
  OBVIOUS
<1> USE DEF storeVars, prefVars, traceVars, dirVars, ProgressInv
<1>0. /\ TypeOK /\ ProgressInv /\ Len(placed) \in Nat
      /\ minted \subseteq 1..Len(placed) /\ executed \subseteq 1..Len(placed)
      /\ workspaces \subseteq 1..Len(placed)
  BY DEF StateInv, TypeInv, TypeOK
<1>1. ASSUME NEW order \in Orders, Receive(order) PROVE ProgressInv'
  <2>1. /\ pc' \in {"accepted", "rejecting"} /\ Current' = Len(placed) + 1
        /\ UNCHANGED <<minted, executed, workspaces>>
    BY <1>0, <1>1, ReceiveExtendsTrace
  <2>2. Len(placed) + 1 \notin 1..Len(placed)
    BY <1>0
  <2> QED
    BY <1>0, <2>1, <2>2
<1>2. ASSUME pc' \in {"idle", "receipted"} PROVE ProgressInv'
  BY <1>2
<1>3. CASE \/ AppendRejection \/ GateBlock \/ AnswerDeny \/ Fulfil
           \/ FailExecution \/ AnswerAlwaysSaveRaises \/ Raise \/ Restart
           \/ Return
  BY <1>2, <1>3 DEF AppendRejection, GateBlock, AnswerDeny, Fulfil,
                    FailExecution, AnswerAlwaysSaveRaises, Raise, Restart,
                    Return, Settle, End
<1>4. CASE \/ MintTicket \/ GateAllow \/ GateAsk \/ AnswerOnce
           \/ AnswerAlways \/ StartChef
  BY <1>0, <1>4 DEF MintTicket, RecordAccept, GateAllow, GateAsk, AnswerOnce,
                    AnswerAlways, StartChef, Current
<1>5. ASSUME NEW exit \in SandboxExits, ChefExits(exit) PROVE ProgressInv'
  BY <1>0, <1>5 DEF ChefExits, Current
<1>6. CASE RejectMalformed \/ Tick \/ UNCHANGED vars
  BY <1>0, <1>6 DEF RejectMalformed, Tick, vars, Current
<1> QED
  BY <1>1, <1>3, <1>4, <1>5, <1>6 DEF Next, Proceed, Gate, Answer, RunChef

LEMMA NextStateInv == StateInv /\ [Next]_vars => StateInv'
<1>1. StateInv => TypeOK
  BY DEF StateInv, TypeInv
<1> QED
  BY <1>1, NextTypeInv, NextGovernedInv, NextOpenInv, NextProgressInv
     DEF StateInv

(* What became of an order stands once its call is over, or has nothing left
   to do than to return: later steps touch only the order in progress. *)
LEMMA ClosedStays ==
    ASSUME StateInv, [Next]_vars, NEW i \in Closed
    PROVE  /\ i \in Closed' /\ i \in DOMAIN placed'
           /\ placed'[i].order = placed[i].order
           /\ placed'[i].verdict = placed[i].verdict
           /\ i # Current \/ pc = "idle" => placed'[i] = placed[i]
           /\ i \in minted' <=> i \in minted
           /\ i \in executed' <=> i \in executed
<1> DEFINE Stays == /\ i \in Closed' /\ i \in DOMAIN placed'
                    /\ placed'[i].order = placed[i].order
                    /\ placed'[i].verdict = placed[i].verdict
                    /\ i # Current \/ pc = "idle" => placed'[i] = placed[i]
                    /\ i \in minted' <=> i \in minted
                    /\ i \in executed' <=> i \in executed
<1>0. /\ TypeOK /\ DOMAIN placed = 1..Len(placed) /\ Len(placed) \in Nat
      /\ i \in DOMAIN placed
      /\ i # Current \/ pc \in {"idle", "receipted"}
  BY DEF StateInv, TypeInv, TypeOK, Closed
<1>1. ASSUME NEW order \in Orders, Receive(order) PROVE Stays
  <2>1. /\ DOMAIN placed' = 1 .. Len(placed) + 1 /\ Current' = Len(placed) + 1
        /\ \A j \in 1..Len(placed) : placed'[j] = placed[j]
        /\ minted' = minted /\ executed' = executed
    BY <1>0, <1>1, ReceiveExtendsTrace
  <2> QED
    BY <1>0, <2>1 DEF Closed
<1>2. ASSUME pc # "idle", pc' = "idle",
             NEW how \in {"returned", "raised", "crashed"},
             placed' = [placed EXCEPT ![Current].end = how],
             UNCHANGED traceVars
      PROVE  Stays
  BY <1>0, <1>2, EndEffect DEF Closed, traceVars
<1>3. ASSUME NEW r, Written(r) PROVE Stays
  <2>1. CASE UNCHANGED placed
    BY <1>0, <1>3, <2>1 DEF Written, Closed, Current, traceVars
  <2> QED
    BY <1>2, <1>3, <2>1 DEF Written
<1>4. ASSUME NEW how \in {"returned", "raised", "crashed"}, Ended(how)
      PROVE  Stays
  BY <1>2, <1>4 DEF Ended
<1>5. ASSUME NEW r, Noted(r) PROVE Stays
  BY <1>0, <1>5 DEF Noted, Closed, Current, traceVars
<1>6. CASE Continued
  BY <1>0, <1>6 DEF Continued, Closed, Current, traceVars
<1> QED
  BY <1>1, <1>3, <1>4, <1>5, <1>6, StepShapes

(***************************************************************************)
(* The rows.                                                               *)
(***************************************************************************)

LEMMA InitRowsInv == Init => RowsInv
BY DEF Init, RowsInv, Returned, Receipted

(* A true receipt stays true. *)
LEMMA KnownStays ==
    ASSUME StateInv, [Next]_vars, NEW r, Known(r)
    PROVE  Known(r)'
<1>1. CASE Intake(r)
  BY <1>1 DEF Known, Intake
<1>2. CASE r.serial \in Closed /\ Account(r, r.serial)
  <2>1. /\ r.serial \in Closed' /\ r.serial \in DOMAIN placed'
        /\ placed'[r.serial].order = placed[r.serial].order
        /\ placed'[r.serial].verdict = placed[r.serial].verdict
        /\ r.serial \in minted' <=> r.serial \in minted
        /\ r.serial \in executed' <=> r.serial \in executed
    BY <1>2, ClosedStays
  <2> QED
    BY <1>2, <2>1 DEF Known, Account
<1> QED
  BY <1>1, <1>2 DEF Known

(* A step that adds no row. *)
LEMMA RowsInvKept ==
    ASSUME StateInv, RowsInv, [Next]_vars,
           ledger' = ledger, session' \in {session, ledger},
           Returned' \subseteq Receipted,
           pc' = "receipted" => pc = "receipted" /\ Current' = Current
    PROVE  RowsInv'
<1>0. /\ DOMAIN ledger = 1..Len(ledger) /\ Len(ledger) \in Nat
      /\ DOMAIN session = 1..Len(session) /\ Len(session) \in Nat
  BY DEF StateInv, TypeInv, TypeOK
<1>1. Receipted' = Receipted
  BY DEF Receipted
<1>2. /\ DOMAIN session' \subseteq DOMAIN session
      /\ \A k \in DOMAIN session' : session'[k] = session[k]
  BY <1>0 DEF RowsInv
<1>3. (\A k \in DOMAIN session : Known(session[k]))'
  BY <1>2, KnownStays DEF RowsInv
<1>4. \A k, m \in DOMAIN session' :
          k < m /\ 0 \notin {session'[k].serial, session'[m].serial} =>
              session'[k].serial < session'[m].serial
  BY <1>2 DEF RowsInv
<1>5. Len(ledger') <= Len(session') /\ \A k \in DOMAIN ledger' : ledger'[k] = session'[k]
  BY <1>0 DEF RowsInv
<1> QED
  BY <1>1, <1>3, <1>4, <1>5 DEF RowsInv

(* A step that adds a row, of an intake or of an order later than those of
   the rows so far. *)
LEMMA RowsInvAdded ==
    ASSUME StateInv, RowsInv, [Next]_vars, NEW r, Added(r), Known(r)',
           r.serial = 0 \/ \A k \in DOMAIN session : session[k].serial < r.serial,
           Returned' \subseteq Returned,
           pc' = "receipted" => ledger' = session' /\ Current' = r.serial,
           r.serial \in Nat, Current' # 0 \/ pc' # "receipted"
    PROVE  RowsInv'
<1> DEFINE n == Len(session) + 1
<1>0. /\ DOMAIN session = 1..Len(session) /\ Len(session) \in Nat
      /\ DOMAIN session' = 1..n /\ Len(session') = n /\ session'[n] = r
      /\ \A k \in 1..Len(session) : session'[k] = session[k]
      /\ DOMAIN ledger = 1..Len(ledger) /\ Len(ledger) \in Nat
  BY AddedEffect
<1>1. /\ \A k \in DOMAIN session' : k = n \/ k \in DOMAIN session
      /\ \A k \in DOMAIN session : k \in DOMAIN session' /\ k < n
      /\ n \in DOMAIN session' /\ n \in Nat
  BY <1>0
<1>2. ledger' = ledger \/ ledger' = session'
  BY DEF Added
<1>3. Len(ledger') <= Len(session')
  BY <1>0, <1>2 DEF RowsInv
<1>4. \A k \in DOMAIN ledger' : ledger'[k] = session'[k]
  BY <1>0, <1>2 DEF RowsInv
<1>5. Receipted \subseteq Receipted'
  <2> SUFFICES ASSUME NEW k \in DOMAIN ledger, ledger[k].serial # 0
               PROVE  ledger[k].serial \in Receipted'
    BY DEF Receipted
  <2>1. k \in DOMAIN ledger' /\ ledger'[k] = ledger[k]
    BY <1>0, <1>2 DEF RowsInv
  <2> QED
    BY <2>1 DEF Receipted
<1> HIDE DEF n
<1>6. (\A k \in DOMAIN session : Known(session[k]))'
  BY <1>0, <1>1, KnownStays DEF RowsInv
<1>7. \A k, m \in DOMAIN session' :
          k < m /\ 0 \notin {session'[k].serial, session'[m].serial} =>
              session'[k].serial < session'[m].serial
  <2> SUFFICES ASSUME NEW k \in DOMAIN session', NEW m \in DOMAIN session',
                      k < m, session'[k].serial # 0, session'[m].serial # 0
               PROVE  session'[k].serial < session'[m].serial
    OBVIOUS
  <2>1. k \in DOMAIN session
    BY <1>0, <1>1
  <2>2. CASE m = n
    BY <1>0, <2>1, <2>2
  <2>3. CASE m \in DOMAIN session
    BY <1>0, <2>1, <2>3 DEF RowsInv
  <2> QED
    BY <1>1, <2>2, <2>3
<1>8. pc' = "receipted" => Current' \in Receipted'
  BY <1>0, <1>1 DEF Receipted
<1>9. Returned' \subseteq Receipted'
  BY <1>5 DEF RowsInv
<1> QED
  BY <1>3, <1>4, <1>6, <1>7, <1>8, <1>9 DEF RowsInv

LEMMA NextRowsInv == StateInv /\ RowsInv /\ [Next]_vars => RowsInv'
<1> SUFFICES ASSUME StateInv, RowsInv, [Next]_vars PROVE RowsInv'
  OBVIOUS
<1>0. /\ TypeOK /\ OpenInv /\ DOMAIN placed = 1..Len(placed)
      /\ Len(placed) \in Nat
  BY DEF StateInv, TypeInv, TypeOK
<1>1. ASSUME NEW order \in Orders, Receive(order) PROVE RowsInv'
  <2>1. /\ DOMAIN placed' = 1 .. Len(placed) + 1
        /\ ledger' = ledger /\ session' = session /\ pc' # "receipted"
        /\ \A i \in 1..Len(placed) : placed'[i] = placed[i]
        /\ placed'[Len(placed) + 1] =
               [order |-> order, epoch |-> epoch,
                verdict |-> Decide(order), end |-> "open"]
    BY <1>0, <1>1, ReceiveExtendsTrace
  <2>2. placed'[Len(placed) + 1].end # "returned"
    BY <2>1
  <2>3. Returned' \subseteq Returned
    BY <1>0, <2>1, <2>2 DEF Returned
  <2> QED
    BY <2>1, <2>3, RowsInvKept DEF RowsInv
<1>2. ASSUME NEW r, Written(r) PROVE RowsInv'
  <2>1. /\ Added(r) /\ r.serial = Current /\ Account(r, Current)
        /\ pc \notin {"idle", "receipted"} /\ UNCHANGED traceVars
        /\ Current \in DOMAIN placed
    BY <1>0, <1>2, CurrentOrderType DEF Written, Account
  <2>2. /\ Current' = Current /\ DOMAIN placed' = DOMAIN placed
        /\ \A i \in DOMAIN placed : /\ placed'[i].order = placed[i].order
                                    /\ placed'[i].verdict = placed[i].verdict
        /\ Returned' \subseteq Returned
        /\ pc' = "receipted" => ledger' = session'
        /\ pc' \in {"idle", "receipted"}
    <3>1. CASE UNCHANGED placed
      BY <1>2, <3>1 DEF Written, Current, Returned
    <3>2. CASE /\ pc' = "idle"
               /\ placed' = [placed EXCEPT ![Current].end = "raised"]
      BY <2>1, <3>2, EndEffect DEF Returned
    <3> QED
      BY <1>2, <3>1, <3>2 DEF Written
  <2>3. Known(r)'
    BY <2>1, <2>2 DEF Known, Closed, Account, traceVars
  <2>4. \A k \in DOMAIN session : session[k].serial < r.serial
    <3> SUFFICES ASSUME NEW k \in DOMAIN session
                 PROVE  session[k].serial < Current
      BY <2>1
    <3>1. Known(session[k])
      BY DEF RowsInv
    <3>2. CASE Intake(session[k])
      BY <1>0, <2>1, <3>2 DEF Intake
    <3>3. CASE session[k].serial \in Closed
      BY <1>0, <2>1, <3>3 DEF Closed, Current
    <3> QED
      BY <3>1, <3>2, <3>3 DEF Known
  <2> QED
    BY <1>0, <2>1, <2>2, <2>3, <2>4, RowsInvAdded
<1>3. ASSUME NEW how \in {"returned", "raised", "crashed"}, Ended(how)
      PROVE  RowsInv'
  <2>1. /\ ledger' = ledger /\ session' \in {session, ledger} /\ pc' = "idle"
        /\ pc # "idle"
        /\ how = "returned" => pc = "receipted"
        /\ placed' = [placed EXCEPT ![Current].end = how]
    BY <1>3 DEF Ended
  <2>2. /\ DOMAIN placed' = DOMAIN placed /\ placed'[Current].end = how
        /\ \A i \in DOMAIN placed : i # Current => placed'[i] = placed[i]
    BY <2>1, EndEffect
  <2>3. Returned' \subseteq Receipted
    BY <2>1, <2>2 DEF Returned, RowsInv
  <2> QED
    BY <2>1, <2>3, RowsInvKept
<1>4. ASSUME NEW r, Noted(r) PROVE RowsInv'
  <2>1. /\ Added(r) /\ Intake(r) /\ r.serial = 0
        /\ Returned' = Returned /\ pc' = "idle"
    BY <1>4 DEF Noted, Returned, Intake
  <2>2. Known(r)'
    BY <2>1 DEF Known, Intake
  <2> QED
    BY <2>1, <2>2, RowsInvAdded
<1>5. CASE Continued
  <2>1. /\ ledger' = ledger /\ session' \in {session, ledger}
        /\ Returned' = Returned /\ Current' = Current
        /\ pc' = "receipted" => pc = "receipted"
    BY <1>5 DEF Continued, Returned, Current
  <2> QED
    BY <2>1, RowsInvKept DEF RowsInv
<1> QED
  BY <1>1, <1>2, <1>3, <1>4, <1>5, StepShapes

(* The facts the theorems below start from. *)
LEMMA RowsCorrect == Spec => [](StateInv /\ RowsInv)
BY InitStateInv, NextStateInv, InitRowsInv, NextRowsInv, PTL DEF Spec

LEMMA RowsGiveLedger ==
    ASSUME StateInv, RowsInv
    PROVE  LedgerInv
<1>0. /\ DOMAIN ledger = 1..Len(ledger) /\ Len(ledger) \in Nat
      /\ DOMAIN session = 1..Len(session) /\ Len(session) \in Nat
      /\ \A k \in DOMAIN session : session[k] \in ReceiptType
  BY DEF StateInv, TypeInv, TypeOK
<1>1. /\ DOMAIN ledger \subseteq DOMAIN session
      /\ \A k \in DOMAIN ledger : ledger[k] = session[k]
  BY <1>0 DEF RowsInv
<1>2. \A k \in DOMAIN session : session[k].serial \in Nat
  BY <1>0 DEF ReceiptType
<1>3. \A k \in DOMAIN ledger : Known(ledger[k])
  BY <1>1 DEF RowsInv
<1>4. ASSUME NEW k \in DOMAIN ledger, NEW m \in DOMAIN ledger,
             ledger[k].serial = ledger[m].serial, ledger[k].serial # 0
      PROVE  k = m
  <2>1. k \in Nat /\ m \in Nat
    BY <1>0
  <2>2. ~(k < m) /\ ~(m < k)
    BY <1>1, <1>2, <1>4 DEF RowsInv
  <2> QED
    BY <2>1, <2>2
<1> QED
  BY <1>3, <1>4 DEF LedgerInv

(* A receipt with a serial is an account of an order. *)
LEMMA ReceiptIsAccount ==
    ASSUME StateInv, LedgerInv, NEW k \in DOMAIN ledger,
           ledger[k].serial # 0 \/ ledger[k].reason # "MALFORMED_ORDER"
    PROVE  /\ ledger[k].serial \in Receipted /\ ledger[k].serial \in Closed
           /\ Account(ledger[k], ledger[k].serial)
<1>1. /\ ledger[k].serial \in Closed
      /\ Account(ledger[k], ledger[k].serial)
  BY DEF LedgerInv, Known, Intake
<1>2. ledger[k].serial # 0
  BY <1>1 DEF Closed, StateInv, TypeInv, TypeOK
<1> QED
  BY <1>1, <1>2 DEF Receipted

(* The receipts stand in the order in which the orders came, none twice, and
   what returned has its receipt, whatever was committed, left pending, taken
   along by a later commit or lost with the process. *)
THEOREM ReceiptsInTurn == Spec => []ReceiptedInTurn
<1>1. ASSUME StateInv, RowsInv PROVE ReceiptedInTurn
  <2>0. /\ DOMAIN ledger \subseteq DOMAIN session
        /\ \A k \in DOMAIN ledger : ledger[k] = session[k]
    BY <1>1 DEF StateInv, TypeInv, TypeOK, RowsInv
  <2>1. \A k, m \in DOMAIN ledger :
            k < m /\ 0 \notin {ledger[k].serial, ledger[m].serial} =>
                ledger[k].serial < ledger[m].serial
    BY <1>1, <2>0 DEF RowsInv
  <2>2. ASSUME NEW i \in Receipted, placed[i].end = "open"
        PROVE  pc = "receipted"
    <3>1. PICK k \in DOMAIN ledger : ledger[k].serial = i /\ i # 0
      BY DEF Receipted
    <3>2. i \in Closed
      BY <1>1, <3>1, RowsGiveLedger, ReceiptIsAccount
    <3> QED
      BY <1>1, <2>2, <3>2 DEF Closed, StateInv, OpenInv
  <2> QED
    BY <1>1, <2>1, <2>2 DEF ReceiptedInTurn, RowsInv
<1> QED
  BY <1>1, RowsCorrect, PTL

(* The receipts of any ledger agree with what was decided, minted and run. *)
THEOREM ReceiptsTellTheRun == Spec => []ReceiptMatchesRun
<1>1. ASSUME StateInv, RowsInv PROVE ReceiptMatchesRun
  <2> SUFFICES ASSUME NEW k \in DOMAIN ledger, ledger[k].serial # 0
               PROVE  LET r == ledger[k] IN
                      /\ r.oid = placed[r.serial].order.oid
                      /\ r.ticket <=> r.serial \in minted
                      /\ r.reason \in RejectReasons <=> r.serial \notin minted
                      /\ r.reason \in {"USER_BLOCKED", "USER_DENIED"} =>
                             r.serial \notin executed
                      /\ r.reason = "EXECUTION_FAILED" => r.serial \in executed
                      /\ r.status = "FULFILLED" => r.serial \in executed
    BY DEF ReceiptMatchesRun
  <2>1. Account(ledger[k], ledger[k].serial)
    BY <1>1, RowsGiveLedger, ReceiptIsAccount
  <2> QED
    BY <2>1 DEF Account, RejectReasons
<1> QED
  BY <1>1, RowsCorrect, PTL

(***************************************************************************)
(* What a run leaves behind.                                               *)
(***************************************************************************)

(* WorkspaceGone is inductive with OpenInv: what a crash left behind is of a
   call that is over, and only the run in progress adds to it. *)
LEMMA NextWorkspaceGone ==
    StateInv /\ WorkspaceGone /\ [Next]_vars => WorkspaceGone'
<1> SUFFICES ASSUME StateInv, WorkspaceGone, [Next]_vars PROVE WorkspaceGone'
  OBVIOUS
<1> USE DEF storeVars, prefVars, traceVars, dirVars
<1>0. /\ TypeOK /\ OpenInv /\ DOMAIN placed = 1..Len(placed)
      /\ workspaces \subseteq DOMAIN placed
  BY DEF StateInv, TypeInv, TypeOK
<1>1. ASSUME NEW order \in Orders, Receive(order) PROVE WorkspaceGone'
  <2>1. /\ pc = "idle" /\ workspaces' = workspaces /\ undeleted' = undeleted
        /\ \A i \in 1..Len(placed) : placed'[i] = placed[i]
    BY <1>0, <1>1, ReceiveExtendsTrace
  <2> QED
    BY <1>0, <2>1 DEF WorkspaceGone
(* A call that ends removes its workspace, tries to, has none or dies. *)
<1>2. ASSUME pc # "idle", NEW how \in {"returned", "raised", "crashed"},
             placed' = [placed EXCEPT ![Current].end = how],
             \/ RemoveWorkspace
             \/ /\ UNCHANGED dirVars
                /\ how = "crashed" \/ Current \notin workspaces
      PROVE  WorkspaceGone'
  <2>1. \A i \in DOMAIN placed : /\ i # Current => placed'[i] = placed[i]
                                 /\ i = Current => placed'[i].end = how
    BY <1>2, EndEffect
  <2>2. /\ workspaces' \subseteq workspaces /\ undeleted \subseteq undeleted'
        /\ Current \in workspaces' \ undeleted' => how = "crashed"
    BY <1>2 DEF RemoveWorkspace
  <2> QED
    BY <1>0, <2>1, <2>2 DEF WorkspaceGone
<1>3. ASSUME pc # "idle", UNCHANGED <<placed, dirVars>>, pc' = "receipted"
      PROVE  WorkspaceGone'
  BY <1>3 DEF WorkspaceGone, Current
<1>4. CASE \/ AppendRejection \/ GateBlock \/ AnswerDeny \/ Fulfil
           \/ FailExecution
  <2>1. pc # "idle"
    BY <1>4 DEF AppendRejection, GateBlock, AnswerDeny, Fulfil, FailExecution
  <2>2. \/ UNCHANGED <<placed, dirVars>> /\ pc' = "receipted"
        \/ End("raised") /\ RemoveWorkspace
    BY <1>4 DEF AppendRejection, GateBlock, AnswerDeny, Fulfil, FailExecution,
                Settle
  <2> QED
    BY <1>2, <1>3, <2>1, <2>2 DEF End
<1>5. CASE Raise \/ Return
  <2>1. pc # "idle" /\ RemoveWorkspace
    BY <1>5 DEF Raise, Return
  <2>2. \E how \in {"returned", "raised"} :
            placed' = [placed EXCEPT ![Current].end = how]
    BY <1>5 DEF Raise, Return, End
  <2> QED
    BY <1>2, <2>1, <2>2
<1>6. CASE AnswerAlwaysSaveRaises
  BY <1>2, <1>6 DEF AnswerAlwaysSaveRaises, End, StateInv, ProgressInv
<1>7. CASE Restart
  <2>1. CASE pc = "idle"
    BY <1>7, <2>1 DEF Restart, WorkspaceGone
  <2>2. CASE pc # "idle"
    BY <1>2, <1>7, <2>2 DEF Restart
  <2> QED
    BY <2>1, <2>2
<1>8. CASE \/ MintTicket \/ GateAllow \/ GateAsk \/ AnswerOnce \/ AnswerAlways
           \/ StartChef
  BY <1>8 DEF MintTicket, RecordAccept, GateAllow, GateAsk, AnswerOnce,
              AnswerAlways, StartChef, WorkspaceGone, Current
<1>9. ASSUME NEW exit \in SandboxExits, ChefExits(exit) PROVE WorkspaceGone'
  BY <1>9 DEF ChefExits, WorkspaceGone, Current
<1>10. CASE RejectMalformed \/ Tick \/ UNCHANGED vars
  BY <1>10 DEF RejectMalformed, Tick, vars, WorkspaceGone, Current
<1> QED
  BY <1>1, <1>4, <1>5, <1>6, <1>7, <1>8, <1>9, <1>10
     DEF Next, Proceed, Gate, Answer, RunChef

(* A workspace outlives its run only when the process died in that run, or
   when its removal failed. *)
THEOREM WorkspacesRemoved == Spec => []WorkspaceGone
<1>1. Init => WorkspaceGone
  BY DEF Init, WorkspaceGone
<1> QED
  BY <1>1, InitStateInv, NextStateInv, NextWorkspaceGone, PTL DEF Spec

(***************************************************************************)
(* The places of the rate window.                                          *)
(***************************************************************************)

LEMMA SlotsFinite ==
    ASSUME TypeOK, NEW key
    PROVE  IsFiniteSet(Slots(key))
<1>1. minted \subseteq 1..Len(placed) /\ Len(placed) \in Nat
  BY DEF TypeOK
<1>2. IsFiniteSet(1..Len(placed))
  BY <1>1, FS_Interval
<1>3. Slots(key) \subseteq minted
  BY DEF Slots
<1> QED
  BY <1>1, <1>2, <1>3, FS_Subset

(* SlotPerTicket is inductive with the invariants so far: a ticket is minted
   once, for an order of this life, and no order is of a life to come. *)
LEMMA NextSlotPerTicket ==
    StateInv /\ ReplayInv /\ SlotPerTicket /\ [Next]_vars => SlotPerTicket'
<1> SUFFICES ASSUME StateInv, ReplayInv, SlotPerTicket, [Next]_vars
             PROVE  SlotPerTicket'
  OBVIOUS
<1> USE DEF storeVars, prefVars, traceVars
<1>0. /\ TypeOK /\ OpenInv /\ DOMAIN placed = 1..Len(placed)
      /\ minted \subseteq DOMAIN placed /\ epoch \in Nat
      /\ \A key \in Keys : history[key] \in Seq(Nat)
  BY DEF StateInv, TypeInv, TypeOK
<1>1. \A key \in Keys : Len(history[key]) = Cardinality(Slots(key))
  BY DEF SlotPerTicket, Slots
<1>2. SUFFICES \A key \in Keys : Len(history'[key]) = Cardinality(Slots(key)')
  BY DEF SlotPerTicket, Slots
<1>3. ASSUME UNCHANGED <<history, minted, epoch>>,
             \A i \in DOMAIN placed : /\ placed'[i].order = placed[i].order
                                      /\ placed'[i].epoch = placed[i].epoch
      PROVE  \A key \in Keys : Len(history'[key]) = Cardinality(Slots(key)')
  <2>1. ASSUME NEW key PROVE Slots(key)' = Slots(key)
    BY <1>0, <1>3 DEF Slots, KeyOf
  <2> QED
    BY <1>1, <1>3, <2>1
<1>4. ASSUME NEW order \in Orders, Receive(order)
      PROVE  \A key \in Keys : Len(history'[key]) = Cardinality(Slots(key)')
  <2>1. /\ UNCHANGED <<history, minted, epoch>>
        /\ \A i \in DOMAIN placed : placed'[i] = placed[i]
    BY <1>0, <1>4, ReceiveExtendsTrace
  <2> QED
    BY <1>3, <2>1
<1>5. CASE MintTicket
  <2>0. PICK key : key = KeyOf(CurrentOrder)
    OBVIOUS
  <2>1. /\ pc = "accepted" /\ UNCHANGED <<placed, epoch>>
        /\ minted' = minted \cup {Current}
        /\ history' = [history EXCEPT ![key] = Append(history[key], clock)]
    BY <1>5, <2>0 DEF MintTicket, RecordAccept
  <2>2. /\ key \in Keys /\ Current \in DOMAIN placed /\ Current \notin minted
        /\ placed[Current].epoch = epoch
    BY <1>0, <2>0, <2>1, CurrentOrderType DEF OpenInv, StateInv, ProgressInv
  <2>3. /\ Len(history'[key]) = Len(history[key]) + 1
        /\ \A other \in Keys \ {key} : history'[other] = history[other]
    <3>1. history'[key] = Append(history[key], clock)
      BY <2>1, <2>2 DEF TypeOK, StateInv, TypeInv
    <3>2. Len(Append(history[key], clock)) = Len(history[key]) + 1
      BY <1>0, <2>2
    <3>3. \A other \in Keys \ {key} : history'[other] = history[other]
      BY <2>1, <2>2 DEF TypeOK, StateInv, TypeInv
    <3> QED
      BY <3>1, <3>2, <3>3
  <2>4. Slots(key)' = Slots(key) \cup {Current}
    <3>1. KeyOf(placed[Current].order) = key
      BY <2>0 DEF CurrentOrder
    <3>2. \A k : Slots(k)' = {i \in minted \cup {Current} :
                                 /\ placed[i].epoch = epoch
                                 /\ KeyOf(placed[i].order) = k}
      BY <2>1 DEF Slots, KeyOf
    <3> QED
      BY <2>2, <3>1, <3>2 DEF Slots
  <2>5. Current \notin Slots(key)
    BY <2>2 DEF Slots
  <2>6. Cardinality(Slots(key) \cup {Current}) = Cardinality(Slots(key)) + 1
    BY <1>0, <2>5, SlotsFinite, FS_AddElement
  <2>7. ASSUME NEW other \in Keys \ {key} PROVE Slots(other)' = Slots(other)
    BY <1>0, <2>0, <2>1, <2>2 DEF Slots, KeyOf, CurrentOrder
  <2>8. ASSUME NEW k \in Keys PROVE Len(history'[k]) = Cardinality(Slots(k)')
    <3>1. CASE k = key
      BY <1>1, <2>2, <2>3, <2>4, <2>6, <3>1
    <3>2. CASE k # key
      BY <1>1, <2>3, <2>7, <3>2
    <3> QED
      BY <3>1, <3>2
  <2> QED
    BY <2>8
<1>6. CASE Restart
  <2>1. /\ history' = EmptyHistory /\ epoch' = epoch + 1 /\ minted' = minted
    BY <1>6 DEF Restart
  <2>2. \A i \in minted : placed'[i].epoch # epoch'
    <3>1. \A i \in DOMAIN placed : placed'[i].epoch = placed[i].epoch
      <4>1. CASE pc = "idle"
        BY <1>6, <4>1 DEF Restart
      <4>2. CASE pc # "idle"
        BY <1>0, <1>6, <4>2, EndType DEF Restart
      <4> QED
        BY <4>1, <4>2
    <3>2. \A i \in DOMAIN placed : placed[i].epoch <= epoch
      BY DEF ReplayInv, NonceInv
    <3>3. \A i \in DOMAIN placed : placed[i].epoch \in Nat
      <4>1. \A i \in DOMAIN placed : placed[i] \in PlacedType
        BY <1>0 DEF TypeOK
      <4> QED
        BY <4>1 DEF PlacedType
    <3> QED
      BY <1>0, <2>1, <3>1, <3>2, <3>3
  <2>3. ASSUME NEW key \in Keys
        PROVE  Len(history'[key]) = 0 /\ Slots(key)' = {}
    BY <2>1, <2>2 DEF EmptyHistory, Slots
  <2> QED
    BY <2>3, FS_EmptySet
<1>7. CASE /\ UNCHANGED <<history, minted>>
           /\ TraceKept /\ (Restart \/ UNCHANGED <<spent, epoch>>)
  <2>1. CASE UNCHANGED <<spent, epoch>>
    BY <1>3, <1>7, <2>1 DEF TraceKept
  <2> QED
    BY <1>6, <1>7, <2>1
<1>8. \/ \E order \in Orders : Receive(order)
      \/ MintTicket \/ Restart
      \/ UNCHANGED <<history, minted>>
  <2>1. ASSUME NEW exit \in SandboxExits, ChefExits(exit)
        PROVE  UNCHANGED <<history, minted>>
    BY <2>1 DEF ChefExits
  <2> QED
    BY <2>1
       DEF Next, Proceed, RunChef, Gate, Answer, RejectMalformed,
           AppendRejection, GateBlock, GateAllow, GateAsk, AnswerOnce,
           AnswerAlways, AnswerAlwaysSaveRaises, AnswerDeny, StartChef,
           Fulfil, FailExecution, Return, Raise, Tick, vars
<1> QED
  BY <1>0, <1>4, <1>5, <1>6, <1>7, <1>8, StepKeepsTrace

(* The rate window holds one place for each ticket of this process, and no
   other: the count the cashier decides by is a count of tickets. *)
THEOREM SlotsAreTickets == Spec => []SlotPerTicket
<1>1. Init => SlotPerTicket
  <2> SUFFICES ASSUME Init, NEW key \in Keys
               PROVE  /\ Len(history[key]) = 0
                      /\ {i \in minted : /\ placed[i].epoch = epoch
                                         /\ KeyOf(placed[i].order) = key} = {}
    BY FS_EmptySet DEF SlotPerTicket
  <2> QED
    BY DEF Init, EmptyHistory
<1>2. StateInv => TypeOK
  BY DEF StateInv, TypeInv
<1> QED
  BY <1>1, <1>2, InitStateInv, NextStateInv, InitReplayInv, NextReplayInv,
     NextSlotPerTicket, PTL DEF Spec

(***************************************************************************)
(* What the settings block.                                                *)
(***************************************************************************)

LEMMA InitBlockInv == Init => BlockInv
BY DEF Init, BlockInv

LEMMA NextBlockInv == StateInv /\ BlockInv /\ [Next]_vars => BlockInv'
<1> SUFFICES ASSUME StateInv, BlockInv, [Next]_vars PROVE BlockInv'
  OBVIOUS
<1> USE DEF storeVars, prefVars, traceVars
<1>0. /\ TypeOK /\ GovernedInv /\ DOMAIN placed = 1..Len(placed)
      /\ minted \subseteq DOMAIN placed
      /\ prefs \in [Menu -> PrefStates] /\ prefsFile \in [Menu -> PrefStates]
  BY DEF StateInv, TypeInv, TypeOK
(* What has a ticket is on the menu. *)
<1>1. \A i \in minted : placed[i].order.cap \in Menu
  BY <1>0 DEF GovernedInv, Admissible
<1>2. ASSUME NEW order \in Orders, Receive(order) PROVE BlockInv'
  <2>1. /\ pc' # "asking" /\ UNCHANGED <<minted, allowed>>
        /\ \A i \in DOMAIN placed : placed'[i] = placed[i]
    BY <1>0, <1>2, ReceiveExtendsTrace
  <2>2. UNCHANGED <<prefs, prefsFile>>
    BY <1>2 DEF Receive
  <2> QED
    BY <1>0, <2>1, <2>2 DEF BlockInv
<1>3. ASSUME UNCHANGED <<minted, allowed, prefs, prefsFile>>, TraceKept,
             pc' = "asking" => pc = "asking"
      PROVE  BlockInv'
  BY <1>0, <1>3, CurrentOrderType
     DEF BlockInv, TraceKept, Current, CurrentOrder
<1>4. CASE TraceKept
  <2>0. /\ Current' = Current
        /\ \A i \in DOMAIN placed : placed'[i].order = placed[i].order
    BY <1>4 DEF TraceKept, Current
  <2>1. CASE MintTicket
    BY <1>0, <2>0, <2>1 DEF MintTicket, RecordAccept, BlockInv
  <2>2. CASE GateAllow
    <3>1. Current \in minted
      BY <1>0, <2>2 DEF GateAllow, GovernedInv
    <3>2. prefs[CurrentOrder.cap] # "block"
      BY <2>2 DEF GateAllow, EffectiveState
    <3> QED
      BY <1>0, <2>0, <2>2, <3>1, <3>2 DEF GateAllow, BlockInv, CurrentOrder
  <2>3. CASE GateAsk
    <3>1. prefs[CurrentOrder.cap] # "block"
      BY <2>3 DEF GateAsk, EffectiveState
    <3>2. UNCHANGED <<prefs, prefsFile, placed, minted, allowed>>
      BY <2>3 DEF GateAsk
    <3> QED
      BY <3>1, <3>2 DEF BlockInv, CurrentOrder, Current
  <2>4. CASE AnswerOnce
    <3>1. Current \in minted /\ prefs[CurrentOrder.cap] # "block"
      BY <1>0, <2>4 DEF AnswerOnce, GovernedInv, BlockInv
    <3> QED
      BY <1>0, <2>0, <2>4, <3>1 DEF AnswerOnce, BlockInv, CurrentOrder
  <2>5. CASE AnswerAlways \/ AnswerAlwaysSaveRaises
    <3> DEFINE cap == CurrentOrder.cap
    <3>1. /\ prefs' = [prefs EXCEPT ![cap] = "allow"]
          /\ prefsFile' \in {prefs', prefsFile} /\ minted' = minted
          /\ allowed' \in {allowed, allowed \cup {Current}}
          /\ pc' # "asking" /\ pc = "asking"
      BY <2>5 DEF AnswerAlways, AnswerAlwaysSaveRaises, End
    <3>2. Current \in minted /\ cap \in Menu /\ prefs[cap] # "block"
      BY <1>0, <1>1, <3>1 DEF GovernedInv, BlockInv, CurrentOrder
    <3>3. \A c \in Menu : prefs'[c] = IF c = cap THEN "allow" ELSE prefs[c]
      BY <1>0, <3>1
    <3>4. \A c \in Menu : prefsFile'[c] = "block" => prefs'[c] = "block"
      BY <3>1, <3>2, <3>3 DEF BlockInv
    <3>5. \A i \in allowed' :
              i \in minted /\ prefs'[placed'[i].order.cap] # "block"
      BY <1>0, <1>1, <2>0, <3>1, <3>2, <3>3 DEF BlockInv, CurrentOrder
    <3> QED
      BY <3>1, <3>4, <3>5 DEF BlockInv
  <2>6. CASE Restart
    <3>1. /\ prefs' = prefsFile /\ prefsFile' = prefsFile /\ pc' = "idle"
          /\ UNCHANGED <<minted, allowed>>
      BY <2>6 DEF Restart
    <3>2. \A i \in allowed : prefsFile[placed'[i].order.cap] # "block"
      BY <1>0, <1>1, <2>0 DEF BlockInv
    <3> QED
      BY <3>1, <3>2 DEF BlockInv
  <2>7. CASE \/ RejectMalformed \/ AppendRejection \/ GateBlock \/ AnswerDeny
             \/ StartChef \/ Fulfil \/ FailExecution \/ Return \/ Raise
             \/ Tick \/ UNCHANGED vars
    BY <1>3, <1>4, <2>7
       DEF RejectMalformed, AppendRejection, GateBlock, AnswerDeny, StartChef,
           Fulfil, FailExecution, Return, Raise, Tick, vars, Settle, End
  <2>8. ASSUME NEW exit \in SandboxExits, ChefExits(exit) PROVE BlockInv'
    BY <1>3, <1>4, <2>8 DEF ChefExits
  <2> QED
    BY <1>2, <2>1, <2>2, <2>3, <2>4, <2>5, <2>6, <2>7, <2>8
       DEF Next, Proceed, Gate, Answer, RunChef
<1> QED
  BY <1>0, <1>2, <1>4, StepKeepsTrace

(* A BLOCK holds against every answer, save, failed save and restart. *)
THEOREM BlockHolds == Spec => []BlockedNeverRuns
<1>1. StateInv /\ BlockInv => BlockedNeverRuns
  BY DEF StateInv, GovernedInv, BlockInv, BlockedNeverRuns
<1> QED
  BY <1>1, InitStateInv, NextStateInv, InitBlockInv, NextBlockInv, PTL
     DEF Spec

(***************************************************************************)
(* The draft behind a fulfilled receipt.                                   *)
(***************************************************************************)

(* Exit status 0 means that the chef finished: no torn output passes for a
   draft. *)
HonestExits == \A exit \in SandboxExits : exit.rc = 0 => exit.left # "torn"

LEMMA InitWindowInv == Init => WindowInv
BY DEF Init, WindowInv

LEMMA NextWindowInv ==
    ASSUME UniqueIds, HonestExits, StateInv, WindowInv, [Next]_vars
    PROVE  WindowInv'
<1> USE DEF storeVars, prefVars, traceVars
<1>0. /\ TypeOK /\ DOMAIN placed = 1..Len(placed) /\ Len(placed) \in Nat
      /\ \A i \in DOMAIN placed : placed[i].order.oid \in OrderIds
  <2>1. TypeOK /\ DOMAIN placed = 1..Len(placed) /\ Len(placed) \in Nat
    BY DEF StateInv, TypeInv, TypeOK
  <2>2. \A i \in DOMAIN placed : placed[i] \in PlacedType
    BY <2>1 DEF TypeOK
  <2>3. \A i \in DOMAIN placed : placed[i].order \in OrderType
    BY <2>2, OrderPathAssumption DEF PlacedType
  <2> QED
    BY <2>1, <2>3 DEF OrderType
<1>1. ASSUME NEW order \in Orders, Receive(order) PROVE WindowInv'
  <2> DEFINE n == Len(placed) + 1
  <2>1. /\ DOMAIN placed' = 1..n /\ Current' = n
        /\ \A i \in 1..Len(placed) : placed'[i] = placed[i]
        /\ placed'[n] = [order |-> order, epoch |-> epoch,
                         verdict |-> Decide(order), end |-> "open"]
        /\ pc' \notin {"exited0", "exited1"}
    BY <1>0, <1>1, ReceiveExtendsTrace
  <2>2. placed'[n].order = order
    <3> HIDE DEF n
    <3> QED BY <2>1
  <2>3. \A i \in DOMAIN placed : placed[i].order.oid # order.oid
    BY <1>1 DEF Receive
  <2>4. window' = window /\ order.oid \in OrderIds
    BY <1>1, OrderPathAssumption DEF Receive, OrderType
  <2>5. window[order.oid] = NoDraft
    BY <2>3, <2>4 DEF WindowInv
  <2>6. \A i \in 1..n : i = n \/ i \in 1..Len(placed)
    BY <1>0
  <2>7. /\ n \in 1..n /\ \A i \in 1..Len(placed) : i \in 1..n
    BY <1>0
  <2> HIDE DEF n
  <2>8. \A i, j \in DOMAIN placed' :
            placed'[i].order.oid = placed'[j].order.oid => i = j
    BY <1>0, <2>1, <2>2, <2>3, <2>6 DEF WindowInv
  <2>9. \A oid \in OrderIds :
            (\A i \in DOMAIN placed' : placed'[i].order.oid # oid) =>
                window'[oid] = NoDraft
    BY <1>0, <2>1, <2>4, <2>7 DEF WindowInv
  <2> QED
    BY <2>1, <2>2, <2>4, <2>5, <2>8, <2>9 DEF WindowInv, CurrentOrder
<1>2. ASSUME TraceKept, window' = window,
             pc' \notin {"idle", "exited0", "exited1", "receipted"} =>
                 pc \notin {"idle", "exited0", "exited1", "receipted"},
             pc' = "exited0" => pc = "exited0"
      PROVE  WindowInv'
  <2>1. /\ DOMAIN placed' = DOMAIN placed /\ Current' = Current
        /\ \A i \in DOMAIN placed : placed'[i].order = placed[i].order
    BY <1>2 DEF TraceKept, Current
  <2>2. pc # "idle" => CurrentOrder' = CurrentOrder
    BY <1>0, <1>2, <2>1, CurrentOrderType DEF CurrentOrder
  <2> QED
    BY <1>2, <2>1, <2>2 DEF WindowInv, DraftOf
<1>3. ASSUME NEW exit \in SandboxExits, ChefExits(exit) PROVE WindowInv'
  <2> DEFINE oid == CurrentOrder.oid
  <2>1. /\ pc = "running" /\ placed' = placed
        /\ pc' \in {"exited0", "exited1"}
        /\ pc' = "exited0" => exit.rc = 0
    BY <1>3 DEF ChefExits
  <2>2. window \in [OrderIds -> Drafts \cup {Torn, NoDraft}]
    BY <1>0 DEF TypeOK
  <2>3. /\ exit.left \in {"nothing", "draft", "torn"}
        /\ exit.rc = 0 => exit.left # "torn"
    BY OrderPathAssumption DEF ExitType, HonestExits
  <2>4. oid \in OrderIds /\ Current \in DOMAIN placed
    BY <1>0, <2>1, CurrentOrderType DEF CurrentOrder
  <2>5. window[oid] = NoDraft
    BY <2>1 DEF WindowInv
  <2>6. /\ \A other \in OrderIds : other # oid => window'[other] = window[other]
        /\ exit.left = "nothing" => window'[oid] = window[oid]
        /\ exit.left = "draft" => window'[oid] = DraftOf(CurrentOrder)
    BY <1>3, <2>2, <2>3, <2>4 DEF ChefExits
  <2>7. CurrentOrder' = CurrentOrder
    BY <2>1 DEF CurrentOrder, Current
  <2>8. pc' = "exited0" => window'[oid] \in {DraftOf(CurrentOrder), NoDraft}
    BY <2>1, <2>3, <2>5, <2>6
  <2>9. \A other \in OrderIds :
            (\A i \in DOMAIN placed : placed[i].order.oid # other) =>
                window'[other] = NoDraft
    BY <2>4, <2>6 DEF WindowInv, CurrentOrder
  <2> QED
    BY <2>1, <2>7, <2>8, <2>9 DEF WindowInv, DraftOf
<1>4. CASE TraceKept
  <2>1. CASE \/ AppendRejection \/ GateBlock \/ AnswerDeny \/ Fulfil
             \/ FailExecution \/ AnswerAlwaysSaveRaises \/ Raise \/ Restart
             \/ Return
    BY <1>2, <1>4, <2>1
       DEF AppendRejection, GateBlock, AnswerDeny, Fulfil, FailExecution,
           AnswerAlwaysSaveRaises, Raise, Restart, Return, Settle, End
  <2>2. CASE \/ MintTicket \/ GateAllow \/ GateAsk \/ AnswerOnce
             \/ AnswerAlways \/ StartChef
    BY <1>2, <1>4, <2>2
       DEF MintTicket, RecordAccept, GateAllow, GateAsk, AnswerOnce,
           AnswerAlways, StartChef
  <2>3. CASE RejectMalformed \/ Tick \/ UNCHANGED vars
    BY <1>2, <1>4, <2>3 DEF RejectMalformed, Tick, vars
  <2> QED
    BY <1>1, <1>3, <2>1, <2>2, <2>3
       DEF Next, Proceed, Gate, Answer, RunChef
<1> QED
  BY <1>0, <1>1, <1>4, StepKeepsTrace

(* What DraftStands says of the committed receipts holds of every row. *)
SessionStands ==
    \A k \in DOMAIN session :
        LET r == session[k] IN
        r.status = "FULFILLED" =>
            /\ r.digest = DraftOf(placed[r.serial].order)
            /\ window[r.oid] = r.digest

LEMMA NextSessionStands ==
    ASSUME StateInv, RowsInv, WindowInv, SessionStands, [Next]_vars
    PROVE  SessionStands'
<1> USE DEF storeVars, prefVars, traceVars
<1> DEFINE Stands(r) == /\ r.digest = DraftOf(placed[r.serial].order)
                        /\ window[r.oid] = r.digest
<1>0. /\ TypeOK /\ DOMAIN placed = 1..Len(placed) /\ Len(placed) \in Nat
      /\ \A i \in DOMAIN placed : placed[i].order.oid \in OrderIds
  <2>1. /\ TypeOK /\ DOMAIN placed = 1..Len(placed) /\ Len(placed) \in Nat
    BY DEF StateInv, TypeInv, TypeOK
  <2>2. \A i \in DOMAIN placed : placed[i] \in PlacedType
    BY <2>1 DEF TypeOK
  <2>3. \A i \in DOMAIN placed : placed[i].order \in OrderType
    BY <2>2, OrderPathAssumption DEF PlacedType
  <2> QED
    BY <2>1, <2>3 DEF OrderType
(* A fulfilled receipt is of an order that is not in progress. *)
<1>1. ASSUME NEW k \in DOMAIN session, session[k].status = "FULFILLED"
      PROVE  /\ session[k].serial \in Closed
             /\ session[k].serial \in DOMAIN placed
             /\ session[k].oid = placed[session[k].serial].order.oid
             /\ Stands(session[k])
  <2>1. /\ session[k].serial \in Closed
        /\ Account(session[k], session[k].serial)
    BY <1>1 DEF RowsInv, Known, Intake
  <2> QED
    BY <1>1, <2>1 DEF Closed, Account, SessionStands
(* What is in its window stands. *)
<1>2. ASSUME NEW k \in DOMAIN session, session[k].status = "FULFILLED"
      PROVE  /\ placed'[session[k].serial].order = placed[session[k].serial].order
             /\ window'[session[k].oid] = window[session[k].oid]
  <2>1. /\ session[k].serial \in Closed
        /\ session[k].serial \in DOMAIN placed
        /\ session[k].oid = placed[session[k].serial].order.oid
    BY <1>1, <1>2
  <2>2. placed'[session[k].serial].order = placed[session[k].serial].order
    BY <2>1, ClosedStays
  <2>3. ASSUME NEW exit \in SandboxExits, ChefExits(exit)
        PROVE  window'[session[k].oid] = window[session[k].oid]
    <3>1. pc = "running" /\ Current \in DOMAIN placed
      BY <1>0, <2>3, CurrentOrderType DEF ChefExits
    <3>2. session[k].oid # CurrentOrder.oid /\ session[k].oid \in OrderIds
      BY <1>0, <2>1, <3>1 DEF WindowInv, CurrentOrder, Closed
    <3>3. window \in [OrderIds -> Drafts \cup {Torn, NoDraft}]
      BY <1>0 DEF TypeOK
    <3>4. exit.left \in {"nothing", "draft", "torn"}
      BY OrderPathAssumption DEF ExitType
    <3> QED
      BY <2>3, <3>2, <3>3, <3>4 DEF ChefExits
  <2>4. \/ window' = window
        \/ \E exit \in SandboxExits : ChefExits(exit)
    BY DEF Next, Proceed, Gate, Answer, RunChef, RejectMalformed,
           AppendRejection, MintTicket, GateBlock, GateAllow,
           GateAsk, AnswerOnce, AnswerAlways, AnswerAlwaysSaveRaises,
           AnswerDeny, StartChef, Fulfil, FailExecution, Return, Raise,
           Restart, Tick, Receive, vars
  <2> QED
    BY <2>2, <2>3, <2>4
<1>3. ASSUME NEW k \in DOMAIN session, session[k].status = "FULFILLED"
      PROVE  /\ session[k].digest = DraftOf(placed'[session[k].serial].order)
             /\ window'[session[k].oid] = session[k].digest
  BY <1>1, <1>2, <1>3
<1>4. ASSUME session' \in {session, ledger} PROVE SessionStands'
  <2>1. /\ DOMAIN session' \subseteq DOMAIN session
        /\ \A k \in DOMAIN session' : session'[k] = session[k]
    BY <1>4 DEF RowsInv, StateInv, TypeInv, TypeOK
  <2> QED
    BY <1>3, <2>1 DEF SessionStands, DraftOf
<1>5. ASSUME NEW r, Added(r),
             r.status = "FULFILLED" =>
                 /\ r.digest = DraftOf(placed'[r.serial].order)
                 /\ window'[r.oid] = r.digest
      PROVE  SessionStands'
  <2>1. /\ DOMAIN session = 1..Len(session) /\ Len(session) \in Nat
        /\ DOMAIN session' = 1 .. Len(session) + 1
        /\ session'[Len(session) + 1] = r
        /\ \A k \in 1..Len(session) : session'[k] = session[k]
    BY <1>5, AddedEffect
  <2>2. \A k \in DOMAIN session' : k = Len(session) + 1 \/ k \in DOMAIN session
    BY <2>1
  <2> QED
    BY <1>3, <1>5, <2>1, <2>2 DEF SessionStands, DraftOf
<1>6. ASSUME NEW r, Written(r) PROVE SessionStands'
  <2>1. ASSUME r.status = "FULFILLED"
        PROVE  /\ r.digest = DraftOf(placed'[r.serial].order)
               /\ window'[r.oid] = r.digest
    <3>1. /\ r.digest = window[CurrentOrder.oid] /\ r.digest # NoDraft
          /\ pc = "exited0" /\ window' = window /\ r.serial = Current
          /\ r.oid = CurrentOrder.oid
      BY <1>6, <2>1 DEF Written, Account, CurrentOrder
    <3>2. r.digest = DraftOf(CurrentOrder)
      BY <3>1 DEF WindowInv
    <3>3. Current \in DOMAIN placed
      BY <1>0, <3>1, CurrentOrderType
    <3>4. placed'[Current].order = CurrentOrder
      <4>1. CASE UNCHANGED placed
        BY <4>1 DEF CurrentOrder
      <4> QED
        BY <1>6, <3>1, <3>3, <4>1, EndEffect DEF Written, CurrentOrder
    <3> QED
      BY <3>1, <3>2, <3>4
  <2> QED
    BY <1>5, <1>6, <2>1 DEF Written
<1>7. ASSUME NEW r, Noted(r) PROVE SessionStands'
  BY <1>5, <1>7 DEF Noted, Intake
<1>8. CASE Continued \/ \E how \in {"returned", "raised", "crashed"} : Ended(how)
  BY <1>4, <1>8 DEF Continued, Ended
<1>9. CASE \E order \in Orders : Receive(order)
  BY <1>4, <1>9 DEF Receive, rowVars
<1> QED
  BY <1>6, <1>7, <1>8, <1>9, StepShapes

(* Where ids are fresh and exit status 0 is honest, a fulfilled receipt
   names the output of its own order, which stands in the window for good. *)
THEOREM FulfilledDraftStands ==
    ASSUME UniqueIds, HonestExits
    PROVE  Spec => []DraftStands
<1>1. Init => SessionStands
  BY DEF Init, SessionStands
<1>2. StateInv /\ WindowInv /\ [Next]_vars => WindowInv'
  BY NextWindowInv
<1>3. StateInv /\ RowsInv /\ WindowInv /\ SessionStands /\ [Next]_vars =>
          SessionStands'
  BY NextSessionStands
<1>4. StateInv /\ RowsInv /\ SessionStands => DraftStands
  BY DEF StateInv, TypeInv, TypeOK, RowsInv, SessionStands, DraftStands
<1> QED
  BY <1>1, <1>2, <1>3, <1>4, InitWindowInv, InitStateInv, NextStateInv,
     InitRowsInv, NextRowsInv, PTL DEF Spec

(***************************************************************************)
(* The lifecycle of an order.                                              *)
(***************************************************************************)

(* The abstract state that the order path stands for. *)
Stages == [i \in 1..MaxOrders |-> StageOf(i)]
Doubts == {i \in 1..MaxOrders : Doubted(i)}

BoundInv == Len(placed) <= MaxOrders

LEMMA InitBoundInv == Init => BoundInv
BY OrderPathAssumption DEF Init, BoundInv

LEMMA ReceiveLeavesRoom ==
    ASSUME TypeOK, NEW order, Receive(order)
    PROVE  Len(placed) < MaxOrders
<1>1. Len(placed) \in Nat /\ Len(session) \in Nat /\ MaxOrders \in Nat
      /\ Intakes \subseteq 1..Len(session)
  BY OrderPathAssumption DEF TypeOK, Intakes
<1>2. Cardinality(Intakes) \in Nat
  <2>1. IsFiniteSet(1..Len(session))
    BY <1>1, FS_Interval
  <2>2. IsFiniteSet(Intakes)
    BY <1>1, <2>1, FS_Subset
  <2> QED
    BY <2>2, FS_CardinalityType
<1>3. Len(placed) + Cardinality(Intakes) < MaxOrders
  BY DEF Receive, MoreCalls
<1> QED
  BY <1>1, <1>2, <1>3

LEMMA NextBoundInv == StateInv /\ BoundInv /\ [Next]_vars => BoundInv'
<1> SUFFICES ASSUME StateInv, BoundInv, [Next]_vars PROVE BoundInv'
  OBVIOUS
<1>0. TypeOK /\ Len(placed) \in Nat /\ MaxOrders \in Nat
  BY OrderPathAssumption DEF StateInv, TypeInv, TypeOK
<1>1. ASSUME NEW order \in Orders, Receive(order) PROVE BoundInv'
  <2>1. Len(placed') = Len(placed) + 1
    BY <1>0, <1>1, ReceiveExtendsTrace
  <2>2. Len(placed) < MaxOrders
    BY <1>0, <1>1, ReceiveLeavesRoom
  <2> QED
    BY <1>0, <2>1, <2>2 DEF BoundInv
<1>2. CASE TraceKept
  BY <1>2 DEF TraceKept, BoundInv
<1> QED
  BY <1>0, <1>1, <1>2, StepKeepsTrace

(* The stage an outcome stands for. *)
Outcome(r) == IF r.status = "FULFILLED" THEN "fulfilled"
              ELSE IF r.reason = "EXECUTION_FAILED" THEN "failed"
              ELSE "refused"

(* No order in progress has a row; the rows of the others are of orders that
   were placed. *)
LEMMA RowIsOfClosed ==
    ASSUME StateInv, RowsInv, NEW i, RowsOf(i, session) # {}, i # 0
    PROVE  i \in Closed /\ i \in DOMAIN placed
BY DEF RowsOf, RowsInv, Known, Intake, Closed

(* While a call is in progress its location tells the stage of its order. *)
LEMMA StageOfCurrent ==
    ASSUME StateInv, RowsInv, pc \notin {"idle", "receipted"}
    PROVE  /\ RowsOf(Current, session) = {}
           /\ StageOf(Current) =
                  IF pc \in {"running", "exited0", "exited1"} THEN "running"
                  ELSE IF pc = "spawn" THEN "granted" ELSE "placed"
           /\ StageOf(Current) = "running" <=> Current \in executed
<1>1. TypeOK /\ OpenInv /\ ProgressInv
  BY DEF StateInv, TypeInv
<1>2. Current \in 1..Len(placed) /\ ~(Current > Len(placed)) /\ Current # 0
  BY <1>1, CurrentOrderType DEF TypeOK
<1>3. placed[Current].end = "open"
  BY <1>1, <1>2 DEF OpenInv, TypeOK
<1>4. pc \in Locations
  BY <1>1 DEF TypeOK
<1>5. RowsOf(Current, session) = {}
  BY <1>2, RowIsOfClosed DEF Closed
<1>6. StageOf(Current) = ProgressOf(Current)
  BY <1>5 DEF StageOf
<1>7. ProgressOf(Current) =
          IF pc \in {"running", "exited0", "exited1"} THEN "running"
          ELSE IF pc = "spawn" THEN "granted" ELSE "placed"
  BY <1>1, <1>2, <1>3, <1>4 DEF ProgressOf, ProgressInv, Locations
<1>8. ProgressOf(Current) = "running" <=> Current \in executed
  BY <1>2, <1>3 DEF ProgressOf
<1> QED
  BY <1>5, <1>6, <1>7, <1>8

(* An order that is not in progress is at none of the stages in progress. *)
LEMMA ClosedIsNotInProgress ==
    ASSUME StateInv, NEW i \in 1..MaxOrders, i # Current \/ pc = "idle"
    PROVE  /\ StageOf(i) \notin Lifecycle!InProgress
           /\ i \in DOMAIN placed => StageOf(i) # "absent"
<1>1. TypeOK /\ OpenInv /\ DOMAIN placed = 1..Len(placed) /\ Len(placed) \in Nat
  BY DEF StateInv, TypeInv, TypeOK
<1>2. ProgressOf(i) \in {"absent", "lost"}
  <2>1. CASE i \in DOMAIN placed
    BY <1>1, <2>1 DEF OpenInv, ProgressOf
  <2>2. CASE i \notin DOMAIN placed
    BY <1>1, <2>2 DEF ProgressOf
  <2> QED
    BY <2>1, <2>2
<1>3. i \in DOMAIN placed => ProgressOf(i) # "absent"
  BY <1>1 DEF OpenInv, ProgressOf
<1>4. OutcomeOf(i) \in {"fulfilled", "failed", "refused"}
  BY DEF OutcomeOf
<1> QED
  BY <1>2, <1>3, <1>4 DEF StageOf, Lifecycle!InProgress

(* An order that is not in progress has come as far as it will. *)
LEMMA ProgressStays ==
    ASSUME StateInv, [Next]_vars, NEW i \in 1..MaxOrders,
           i # Current \/ pc = "idle",
           i \in DOMAIN placed \/ i > Len(placed')
    PROVE  ProgressOf(i)' = ProgressOf(i)
<1>1. /\ TypeOK /\ OpenInv /\ DOMAIN placed = 1..Len(placed)
      /\ Len(placed) \in Nat
  BY DEF StateInv, TypeInv, TypeOK
<1>2. Len(placed') = Len(placed) \/ Len(placed') = Len(placed) + 1
  <2>1. ASSUME NEW order \in Orders, Receive(order)
        PROVE  Len(placed') = Len(placed) + 1
    BY <1>1, <2>1, ReceiveExtendsTrace
  <2> QED
    BY <1>1, <2>1, StepKeepsTrace DEF TraceKept
<1>3. CASE i \in DOMAIN placed
  <2>1. placed'[i] = placed[i] /\ placed[i].end # "open"
    BY <1>1, <1>3, ClosedStays DEF OpenInv, Closed
  <2>2. ~(i > Len(placed)) /\ ~(i > Len(placed'))
    BY <1>1, <1>2, <1>3
  <2> QED
    BY <2>1, <2>2 DEF ProgressOf
<1>4. CASE i > Len(placed')
  <2>1. i > Len(placed)
    BY <1>1, <1>2, <1>4
  <2> QED
    BY <1>4, <2>1 DEF ProgressOf
<1> QED
  BY <1>3, <1>4

(* What the rows tell of an order, if none is added for it: without a row it
   is the progress of the call that counts. *)
LEMMA RowsUnchanged ==
    ASSUME UNCHANGED rowVars, NEW i
    PROVE  /\ RowsOf(i, session)' = RowsOf(i, session)
           /\ StageOf(i)' = IF RowsOf(i, session) # {} THEN StageOf(i)
                            ELSE ProgressOf(i)'
           /\ Doubted(i)' = Doubted(i)
<1>1. RowsOf(i, session)' = RowsOf(i, session)
  BY DEF RowsOf, rowVars
<1>2. RowsOf(i, ledger)' = RowsOf(i, ledger)
  BY DEF RowsOf, rowVars
<1>3. OutcomeOf(i)' = OutcomeOf(i)
  BY <1>1 DEF OutcomeOf, rowVars
<1> QED
  BY <1>1, <1>2, <1>3 DEF StageOf, Doubted

(* With the rows that are not committed go the stages they stood for. *)
LEMMA RowsLost ==
    ASSUME StateInv, RowsInv, session' = ledger, ledger' = ledger,
           NEW i, i # 0
    PROVE  /\ ~Doubted(i)'
           /\ Doubted(i) => StageOf(i)' = ProgressOf(i)'
           /\ ~Doubted(i) =>
                  StageOf(i)' = IF RowsOf(i, session) # {} THEN StageOf(i)
                                ELSE ProgressOf(i)'
<1>0. /\ DOMAIN ledger = 1..Len(ledger) /\ Len(ledger) \in Nat
      /\ DOMAIN session = 1..Len(session) /\ Len(session) \in Nat
      /\ \A k \in DOMAIN session : session[k] \in ReceiptType
  BY DEF StateInv, TypeInv, TypeOK
<1>1. /\ DOMAIN ledger \subseteq DOMAIN session
      /\ \A k \in DOMAIN ledger : ledger[k] = session[k]
  BY <1>0 DEF RowsInv
<1>2. /\ RowsOf(i, session)' = RowsOf(i, ledger)
      /\ RowsOf(i, ledger)' = RowsOf(i, ledger)
  BY DEF RowsOf
<1>3. RowsOf(i, ledger) \subseteq RowsOf(i, session)
  BY <1>1 DEF RowsOf
<1>4. ASSUME RowsOf(i, ledger) # {}
      PROVE  RowsOf(i, session) = RowsOf(i, ledger)
  <2>1. PICK k \in DOMAIN ledger : ledger[k].serial = i
    BY <1>4 DEF RowsOf
  <2>2. ASSUME NEW m \in DOMAIN session, session[m].serial = i PROVE m = k
    <3>1. k \in DOMAIN session /\ session[k].serial = i
      BY <1>1, <2>1
    <3>2. k \in Nat /\ m \in Nat /\ i \in Nat
      BY <1>0, <2>2, <3>1 DEF ReceiptType
    <3>3. ~(k < m) /\ ~(m < k)
      BY <2>2, <3>1, <3>2 DEF RowsInv
    <3> QED
      BY <3>2, <3>3
  <2> QED
    BY <1>3, <2>1, <2>2 DEF RowsOf
<1>5. ASSUME RowsOf(i, ledger) # {} PROVE OutcomeOf(i)' = OutcomeOf(i)
  BY <1>1, <1>2, <1>4, <1>5 DEF OutcomeOf, RowsOf
<1> QED
  BY <1>2, <1>3, <1>4, <1>5 DEF StageOf, Doubted

(* A row added for something else. *)
LEMMA RowOfAnother ==
    ASSUME StateInv, NEW r, Added(r), NEW i, r.serial # i
    PROVE  /\ RowsOf(i, session)' = RowsOf(i, session)
           /\ StageOf(i)' = IF RowsOf(i, session) # {} THEN StageOf(i)
                            ELSE ProgressOf(i)'
           /\ ledger' = ledger => Doubted(i)' = Doubted(i)
           /\ ledger' = session' => ~Doubted(i)'
<1> DEFINE n == Len(session) + 1
<1>0. /\ DOMAIN session = 1..Len(session) /\ Len(session) \in Nat
      /\ DOMAIN session' = 1..n /\ session'[n] = r
      /\ \A k \in 1..Len(session) : session'[k] = session[k]
  BY AddedEffect
<1>1. /\ \A k \in DOMAIN session' : k = n \/ k \in DOMAIN session
      /\ \A k \in DOMAIN session :
             k \in DOMAIN session' /\ session'[k] = session[k]
  BY <1>0
<1> HIDE DEF n
<1>2. RowsOf(i, session)' = RowsOf(i, session)
  BY <1>0, <1>1 DEF RowsOf
<1>3. OutcomeOf(i)' = OutcomeOf(i)
  BY <1>1, <1>2 DEF OutcomeOf, RowsOf
<1>4. ledger' = ledger => RowsOf(i, ledger)' = RowsOf(i, ledger)
  BY DEF RowsOf
<1>5. ledger' = session' => RowsOf(i, ledger)' = RowsOf(i, session)'
  BY DEF RowsOf
<1> QED
  BY <1>2, <1>3, <1>4, <1>5 DEF StageOf, Doubted

(* The first row of an order tells its outcome. *)
LEMMA RowOfIts ==
    ASSUME StateInv, NEW r, Added(r), NEW i, r.serial = i,
           RowsOf(i, session) = {}, RowsOf(i, ledger) = {}
    PROVE  /\ StageOf(i)' = Outcome(r)
           /\ Doubted(i)' <=> ledger' # session'
<1> DEFINE n == Len(session) + 1
<1>0. /\ DOMAIN session = 1..Len(session) /\ Len(session) \in Nat
      /\ DOMAIN session' = 1..n /\ session'[n] = r
      /\ \A k \in 1..Len(session) : session'[k] = session[k]
  BY AddedEffect
<1>1. /\ \A k \in DOMAIN session' : k = n \/ k \in DOMAIN session
      /\ \A k \in DOMAIN session : session'[k] = session[k]
      /\ n \in DOMAIN session'
  BY <1>0
<1> HIDE DEF n
<1>2. RowsOf(i, session)' = {n}
  BY <1>0, <1>1 DEF RowsOf
<1>3. OutcomeOf(i)' = Outcome(r)
  BY <1>0, <1>2 DEF OutcomeOf, Outcome
<1>4. ledger' = ledger => RowsOf(i, ledger)' = {}
  BY DEF RowsOf
<1>5. ledger' = session' => RowsOf(i, ledger)' = {n}
  BY <1>2 DEF RowsOf
<1>6. ledger' = ledger \/ ledger' = session'
  BY DEF Added
<1> QED
  BY <1>2, <1>3, <1>4, <1>5, <1>6 DEF StageOf, Doubted

(* A step that moves one order to a stage. *)
LEMMA MoveOne ==
    ASSUME NEW i \in 1..MaxOrders, NEW from, NEW to,
           StageOf(i) \in from, StageOf(i)' = to,
           \A j \in 1..MaxOrders : j # i => StageOf(j)' = StageOf(j)
    PROVE  Lifecycle!Move(i, from, to)
BY DEF Lifecycle!Move

(* A step that is not seen. *)
LEMMA SameStages ==
    ASSUME \A i \in 1..MaxOrders : /\ StageOf(i)' = StageOf(i)
                                   /\ Doubted(i)' = Doubted(i)
    PROVE  UNCHANGED <<Stages, Doubts>>
BY DEF Stages, Doubts

LEMMA InitRefines == Init => Lifecycle!Start
BY DEF Init, Lifecycle!Start, Lifecycle!Serials, StageOf, ProgressOf, RowsOf,
       Doubted

(* The stages of the orders not in progress, when rows are neither added nor
   lost, and when those that are not committed are lost. *)
LEMMA OthersStay ==
    ASSUME StateInv, RowsInv, [Next]_vars, Len(placed') = Len(placed),
           UNCHANGED rowVars,
           NEW j \in 1..MaxOrders, j # Current \/ pc \in {"idle", "receipted"}
    PROVE  StageOf(j)' = StageOf(j) /\ Doubted(j)' = Doubted(j)
<1>0. /\ DOMAIN placed = 1..Len(placed) /\ Len(placed) \in Nat
      /\ DOMAIN ledger \subseteq DOMAIN session
      /\ \A k \in DOMAIN ledger : ledger[k] = session[k]
  BY DEF StateInv, TypeInv, TypeOK, RowsInv
<1>1. CASE RowsOf(j, session) # {}
  BY <1>1, RowsUnchanged
<1>2. CASE RowsOf(j, session) = {}
  <2>1. j # Current \/ pc = "idle"
    BY <1>0, <1>2 DEF RowsInv, Receipted, RowsOf
  <2>2. j \in DOMAIN placed \/ j > Len(placed')
    BY <1>0
  <2> QED
    BY <1>2, <2>1, <2>2, RowsUnchanged, ProgressStays DEF StageOf
<1> QED
  BY <1>1, <1>2

LEMMA OthersRolledBack ==
    ASSUME StateInv, RowsInv, [Next]_vars, Len(placed') = Len(placed),
           session' = ledger, ledger' = ledger,
           NEW j \in 1..MaxOrders, j # Current \/ pc \in {"idle", "receipted"}
    PROVE  /\ StageOf(j)' = IF Doubted(j) THEN "lost" ELSE StageOf(j)
           /\ ~Doubted(j)'
<1>0. /\ TypeOK /\ OpenInv
      /\ DOMAIN placed = 1..Len(placed) /\ Len(placed) \in Nat
      /\ DOMAIN ledger \subseteq DOMAIN session
      /\ \A k \in DOMAIN ledger : ledger[k] = session[k]
  BY DEF StateInv, TypeInv, TypeOK, RowsInv
<1>1. CASE j = Current /\ pc = "receipted"
  <2>1. RowsOf(j, session) # {} /\ RowsOf(j, ledger) # {}
    BY <1>0, <1>1 DEF RowsInv, Receipted, RowsOf
  <2>2. ~Doubted(j)
    BY <2>1 DEF Doubted
  <2> QED
    BY <2>1, <2>2, RowsLost
<1>2. CASE j # Current \/ pc = "idle"
  <2>1. j \in DOMAIN placed \/ j > Len(placed')
    BY <1>0
  <2>2. ProgressOf(j)' = ProgressOf(j)
    BY <1>2, <2>1, ProgressStays
  <2>3. ASSUME Doubted(j) PROVE ProgressOf(j) = "lost"
    <3>1. j \in DOMAIN placed
      BY <2>3, RowIsOfClosed DEF Doubted
    <3> QED
      BY <1>0, <1>2, <3>1 DEF OpenInv, ProgressOf
  <2> QED
    BY <2>2, <2>3, RowsLost DEF StageOf
<1> QED
  BY <1>1, <1>2

(* An order arrives. *)
LEMMA ReceiveRefines ==
    ASSUME StateInv, RowsInv, BoundInv, [Next]_vars,
           NEW order \in Orders, Receive(order)
    PROVE  Lifecycle!Step
<1>0. /\ TypeOK /\ DOMAIN placed = 1..Len(placed)
      /\ Len(placed) \in Nat /\ executed \subseteq 1..Len(placed)
      /\ MaxOrders \in Nat /\ Len(placed) <= MaxOrders
  BY OrderPathAssumption DEF StateInv, TypeInv, TypeOK, BoundInv
<1>1. PICK n : n = Len(placed) + 1
  OBVIOUS
<1>2. /\ pc = "idle" /\ pc' \in {"accepted", "rejecting"}
      /\ Len(placed') = n /\ executed' = executed /\ UNCHANGED rowVars
      /\ placed'[n] = [order |-> order, epoch |-> epoch,
                       verdict |-> Decide(order), end |-> "open"]
  BY <1>0, <1>1, ReceiveExtendsTrace DEF rowVars
<1>3. n \in 1..MaxOrders /\ n \notin executed /\ n \notin DOMAIN placed
  <2>1. Len(placed) < MaxOrders
    BY <1>0, ReceiveLeavesRoom
  <2> QED
    BY <1>0, <1>1, <2>1
<1>4. RowsOf(n, session) = {}
  BY <1>3, RowIsOfClosed
<1>5. StageOf(n) = "absent"
  BY <1>0, <1>1, <1>4 DEF StageOf, ProgressOf
<1>6. StageOf(n)' = "placed"
  <2>1. placed'[n].end = "open"
    BY <1>2
  <2>2. ~(n > Len(placed'))
    BY <1>2, <1>3
  <2>3. ProgressOf(n)' = "placed"
    BY <1>2, <1>3, <2>1, <2>2 DEF ProgressOf
  <2> QED
    BY <1>2, <1>4, <2>3, RowsUnchanged
<1>7. ASSUME NEW j \in 1..MaxOrders, j # n PROVE StageOf(j)' = StageOf(j)
  <2>1. j \in DOMAIN placed \/ j > Len(placed')
    BY <1>0, <1>1, <1>2, <1>7
  <2> QED
    BY <1>2, <2>1, RowsUnchanged, ProgressStays DEF StageOf
<1>8. Lifecycle!Move(n, {"absent"}, "placed")
  BY <1>3, <1>5, <1>6, <1>7, MoveOne
<1>9. \A j \in 1..MaxOrders :
          /\ Stages[j] \notin Lifecycle!InProgress
          /\ j < n => Stages[j] # "absent"
  BY <1>0, <1>1, <1>2, ClosedIsNotInProgress DEF Stages
<1>10. UNCHANGED Doubts
  BY <1>2, RowsUnchanged DEF Doubts
<1>11. Lifecycle!Place(n)
  BY <1>8, <1>9, <1>10, Zenon
     DEF Lifecycle!Place, Lifecycle!Serials, Stages, Doubts
<1> QED
  BY <1>3, <1>11 DEF Lifecycle!Step, Lifecycle!Serials

(* A receipt is written: with the commit the doubt about it and all before
   it is over, without it the order is in doubt too. *)
LEMMA WrittenRefines ==
    ASSUME StateInv, RowsInv, BoundInv, [Next]_vars, NEW r, Written(r)
    PROVE  Lifecycle!Step
<1>0. /\ TypeOK /\ DOMAIN placed = 1..Len(placed) /\ Len(placed) \in Nat
      /\ MaxOrders \in Nat /\ Len(placed) <= MaxOrders
      /\ DOMAIN ledger \subseteq DOMAIN session
      /\ \A k \in DOMAIN ledger : ledger[k] = session[k]
  BY OrderPathAssumption DEF StateInv, TypeInv, TypeOK, RowsInv, BoundInv
<1>1. PICK i : i = Current
  OBVIOUS
<1>2. /\ pc \notin {"idle", "spawn", "receipted"} /\ Added(r) /\ Account(r, i)
      /\ r.serial = i
  BY <1>1 DEF Written, Account
<1>3. i \in 1..MaxOrders /\ Len(placed') = Len(placed)
  <2>1. CASE UNCHANGED placed
    BY <1>0, <1>1, <1>2, <2>1, CurrentOrderType
  <2> QED
    BY <1>0, <1>1, <1>2, <2>1, CurrentOrderType, EndEffect DEF Written
<1>4. /\ RowsOf(i, session) = {}
      /\ StageOf(i) = IF i \in executed THEN "running" ELSE "placed"
  BY <1>1, <1>2, StageOfCurrent
<1>5. RowsOf(i, ledger) = {}
  BY <1>0, <1>4 DEF RowsOf
<1>6. StageOf(i)' = Outcome(r) /\ (Doubted(i)' <=> ledger' # session')
  BY <1>2, <1>4, <1>5, RowOfIts
<1>7. ASSUME NEW j \in 1..MaxOrders, j # i
      PROVE  /\ StageOf(j)' = StageOf(j)
             /\ ledger' = ledger => Doubted(j)' = Doubted(j)
             /\ ledger' = session' => ~Doubted(j)'
  <2>1. j \in DOMAIN placed \/ j > Len(placed')
    BY <1>0, <1>3
  <2>2. ProgressOf(j)' = ProgressOf(j)
    BY <1>1, <1>7, <2>1, ProgressStays
  <2> QED
    BY <1>2, <1>7, <2>2, RowOfAnother DEF StageOf
<1>8. \/ /\ StageOf(i) = "placed" /\ Outcome(r) = "refused"
      \/ /\ StageOf(i) = "running" /\ Outcome(r) \in {"fulfilled", "failed"}
  <2>1. i \in executed => i \in minted
    BY DEF StateInv, GovernedInv
  <2> QED
    BY <1>2, <1>4, <2>1 DEF Account, Outcome, RejectReasons
<1>9. PICK to : to = Outcome(r)
  OBVIOUS
<1>10. \/ to = "refused" /\ Lifecycle!Move(i, {"placed"}, "refused")
       \/ /\ to \in {"fulfilled", "failed"}
          /\ Lifecycle!Move(i, {"running"}, to)
  <2>1. CASE StageOf(i) = "placed" /\ to = "refused"
    BY <1>3, <1>6, <1>7, <1>9, <2>1, MoveOne
  <2>2. CASE StageOf(i) = "running" /\ to \in {"fulfilled", "failed"}
    BY <1>3, <1>6, <1>7, <1>9, <2>2, MoveOne
  <2> QED
    BY <1>8, <1>9, <2>1, <2>2
<1>11. CASE ledger' = session'
  <2>1. Doubts' = {}
    BY <1>6, <1>7, <1>11 DEF Doubts
  <2>2. Lifecycle!Refuse(i) \/ Lifecycle!Finish(i)
    BY <1>10, <2>1 DEF Lifecycle!Refuse, Lifecycle!Finish, Doubts
  <2> QED
    BY <1>3, <2>2 DEF Lifecycle!Step, Lifecycle!Advance, Lifecycle!Serials
<1>12. CASE ledger' = ledger /\ ledger' # session'
  <2>1. Doubts' = Doubts \cup {i}
    BY <1>3, <1>6, <1>7, <1>12 DEF Doubts
  <2>2. Lifecycle!Doubt(i)
    BY <1>10, <2>1 DEF Lifecycle!Doubt, Doubts
  <2> QED
    BY <1>3, <2>2 DEF Lifecycle!Step, Lifecycle!Advance, Lifecycle!Serials
<1> QED
  BY <1>2, <1>11, <1>12 DEF Added

(* A call ends.  What is committed by then is seen already; the others are
   lost, and those in doubt may be lost with them. *)
LEMMA EndedRefines ==
    ASSUME StateInv, RowsInv, BoundInv, [Next]_vars,
           NEW how \in {"returned", "raised", "crashed"}, Ended(how)
    PROVE  Lifecycle!Step \/ UNCHANGED <<Stages, Doubts>>
<1>0. /\ TypeOK /\ DOMAIN placed = 1..Len(placed) /\ Len(placed) \in Nat
      /\ MaxOrders \in Nat /\ Len(placed) <= MaxOrders
  BY OrderPathAssumption DEF StateInv, TypeInv, TypeOK, BoundInv
<1>1. PICK i : i = Current
  OBVIOUS
<1>2. /\ pc # "idle" /\ Len(placed') = Len(placed) /\ Current' = Current
      /\ placed'[i].end = how /\ i \in DOMAIN placed /\ ledger' = ledger
      /\ session' = session \/ session' = ledger
  BY <1>1, EndEffect DEF Ended
<1>3. i \in 1..MaxOrders /\ ~(i > Len(placed'))
  BY <1>0, <1>2
<1>4. ASSUME session' = ledger, pc = "receipted" PROVE Lifecycle!Step
  <2>1. ASSUME NEW j \in 1..MaxOrders
        PROVE  /\ StageOf(j)' = IF Doubted(j) THEN "lost" ELSE StageOf(j)
               /\ ~Doubted(j)'
    BY <1>2, <1>4, OthersRolledBack
  <2>2. /\ Stages' = [j \in 1..MaxOrders |->
                         IF j \in Doubts THEN "lost" ELSE Stages[j]]
        /\ Doubts' = {}
    BY <2>1 DEF Stages, Doubts
  <2> QED
    BY <2>2 DEF Lifecycle!Step, Lifecycle!Forget, Lifecycle!Serials, Stages,
                Doubts
<1>5. ASSUME session' = session, pc = "receipted"
      PROVE  UNCHANGED <<Stages, Doubts>>
  <2>1. ASSUME NEW j \in 1..MaxOrders
        PROVE  StageOf(j)' = StageOf(j) /\ Doubted(j)' = Doubted(j)
    BY <1>2, <1>5, OthersStay DEF rowVars
  <2> QED
    BY <2>1, SameStages
<1>6. ASSUME pc # "receipted" PROVE Lifecycle!Step
  <2>1. /\ RowsOf(i, session) = {}
        /\ StageOf(i) \in {"running", "granted", "placed"}
    BY <1>1, <1>2, <1>6, StageOfCurrent
  <2>2. ProgressOf(i)' = "lost"
    BY <1>2, <1>3 DEF ProgressOf
  <2>3. ~Doubted(i)
    BY <2>1 DEF Doubted
  <2>4. StageOf(i)' = "lost" /\ ~Doubted(i)'
    <3>1. CASE session' = session
      BY <1>2, <2>1, <2>2, <2>3, <3>1, RowsUnchanged DEF rowVars
    <3>2. CASE session' = ledger
      BY <1>2, <1>3, <2>1, <2>2, <2>3, <3>2, RowsLost
    <3> QED
      BY <1>2, <3>1, <3>2
  <2>5. CASE session' = session
    <3>1. ASSUME NEW j \in 1..MaxOrders, j # i
          PROVE  StageOf(j)' = StageOf(j) /\ Doubted(j)' = Doubted(j)
      BY <1>1, <1>2, <2>5, <3>1, OthersStay DEF rowVars
    <3>2. /\ Stages' = [j \in 1..MaxOrders |->
                           IF j \in {} \cup {i} THEN "lost" ELSE Stages[j]]
          /\ Doubts' = Doubts \ {}
      BY <2>3, <2>4, <3>1 DEF Stages, Doubts
    <3>3. Stages[i] \in Lifecycle!InProgress
      BY <1>3, <2>1 DEF Stages, Lifecycle!InProgress
    <3>4. Lifecycle!Lose(i)
      BY <3>2, <3>3 DEF Lifecycle!Lose, Lifecycle!Serials, Stages, Doubts
    <3> QED
      BY <1>3, <3>4 DEF Lifecycle!Step, Lifecycle!Advance, Lifecycle!Serials
  <2>6. CASE session' = ledger
    <3>1. ASSUME NEW j \in 1..MaxOrders, j # i
          PROVE  /\ StageOf(j)' = IF Doubted(j) THEN "lost" ELSE StageOf(j)
                 /\ ~Doubted(j)'
      BY <1>1, <1>2, <2>6, <3>1, OthersRolledBack
    <3>2. /\ Stages' = [j \in 1..MaxOrders |->
                           IF j \in Doubts \cup {i} THEN "lost" ELSE Stages[j]]
          /\ Doubts' = Doubts \ Doubts
      BY <2>3, <2>4, <3>1 DEF Stages, Doubts
    <3>3. Stages[i] \in Lifecycle!InProgress
      BY <1>3, <2>1 DEF Stages, Lifecycle!InProgress
    <3>4. Lifecycle!Lose(i)
      BY <3>2, <3>3 DEF Lifecycle!Lose, Lifecycle!Serials, Stages, Doubts
    <3> QED
      BY <1>3, <3>4 DEF Lifecycle!Step, Lifecycle!Advance, Lifecycle!Serials
  <2> QED
    BY <1>2, <2>5, <2>6
<1> QED
  BY <1>2, <1>4, <1>5, <1>6

(* The receipt of an intake takes along what is in doubt, or joins it. *)
LEMMA NotedRefines ==
    ASSUME StateInv, RowsInv, BoundInv, [Next]_vars, NEW r, Noted(r)
    PROVE  Lifecycle!Step \/ UNCHANGED <<Stages, Doubts>>
<1>0. DOMAIN placed = 1..Len(placed) /\ Len(placed) \in Nat
  BY DEF StateInv, TypeInv, TypeOK
<1>1. /\ Added(r) /\ r.serial = 0 /\ pc = "idle" /\ placed' = placed
      /\ ledger' = ledger \/ ledger' = session'
  BY DEF Noted, Added, Intake
<1>2. ASSUME NEW j \in 1..MaxOrders
      PROVE  /\ StageOf(j)' = StageOf(j)
             /\ ledger' = ledger => Doubted(j)' = Doubted(j)
             /\ ledger' = session' => ~Doubted(j)'
  <2>1. j \in DOMAIN placed \/ j > Len(placed')
    BY <1>0, <1>1
  <2>2. ProgressOf(j)' = ProgressOf(j)
    BY <1>1, <2>1, ProgressStays
  <2>3. j # 0
    OBVIOUS
  <2> QED
    BY <1>1, <2>2, <2>3, RowOfAnother DEF StageOf
<1>3. CASE ledger' = ledger
  BY <1>2, <1>3, SameStages
<1>4. CASE ledger' = session'
  <2>1. Doubts' = {} /\ Stages' = Stages
    BY <1>2, <1>4 DEF Stages, Doubts
  <2> QED
    BY <2>1 DEF Lifecycle!Step, Lifecycle!Confirm, Stages, Doubts
<1> QED
  BY <1>1, <1>3, <1>4

(* A call goes on, or the process is started again while none is. *)
LEMMA ContinuedRefines ==
    ASSUME StateInv, RowsInv, BoundInv, [Next]_vars, Continued
    PROVE  Lifecycle!Step \/ UNCHANGED <<Stages, Doubts>>
<1>0. /\ TypeOK /\ OpenInv /\ DOMAIN placed = 1..Len(placed)
      /\ Len(placed) \in Nat
      /\ MaxOrders \in Nat /\ Len(placed) <= MaxOrders
  BY OrderPathAssumption DEF StateInv, TypeInv, TypeOK, BoundInv
<1>1. /\ placed' = placed /\ ledger' = ledger /\ Len(placed') = Len(placed)
      /\ session' = session \/ session' = ledger
      /\ pc # "idle" => session' = session
  BY DEF Continued
<1>2. CASE session' = ledger /\ pc = "idle"
  <2>1. ASSUME NEW j \in 1..MaxOrders
        PROVE  /\ StageOf(j)' = IF Doubted(j) THEN "lost" ELSE StageOf(j)
               /\ ~Doubted(j)'
    BY <1>1, <1>2, OthersRolledBack
  <2>2. /\ Stages' = [j \in 1..MaxOrders |->
                         IF j \in Doubts THEN "lost" ELSE Stages[j]]
        /\ Doubts' = {}
    BY <2>1 DEF Stages, Doubts
  <2> QED
    BY <2>2 DEF Lifecycle!Step, Lifecycle!Forget, Lifecycle!Serials, Stages,
                Doubts
<1>3. CASE session' = session /\ pc \in {"idle", "receipted"}
  <2>1. ASSUME NEW j \in 1..MaxOrders
        PROVE  StageOf(j)' = StageOf(j) /\ Doubted(j)' = Doubted(j)
    BY <1>1, <1>3, OthersStay DEF rowVars
  <2> QED
    BY <2>1, SameStages
<1>4. CASE session' = session /\ pc \notin {"idle", "receipted"}
  <2>0. PICK i : i = Current
    OBVIOUS
  <2>1. /\ i \in 1..MaxOrders /\ ~(i > Len(placed)) /\ placed[i].end = "open"
    BY <1>0, <1>4, <2>0, CurrentOrderType DEF OpenInv
  <2>2. RowsOf(i, session) = {}
    BY <1>4, <2>0, StageOfCurrent
  <2>3. ASSUME NEW j \in 1..MaxOrders
        PROVE  /\ Doubted(j)' = Doubted(j)
               /\ j # i => StageOf(j)' = StageOf(j)
    BY <1>1, <1>4, <2>0, RowsUnchanged, OthersStay DEF rowVars
  <2>4. UNCHANGED Doubts
    BY <2>3 DEF Doubts
  <2>5. StageOf(i)' = IF i \in executed' THEN "running"
                      ELSE IF pc' = "spawn" THEN "granted" ELSE "placed"
    BY <1>1, <1>4, <2>1, <2>2, RowsUnchanged DEF ProgressOf, rowVars
  <2>6. StageOf(i) = IF i \in executed THEN "running"
                     ELSE IF pc = "spawn" THEN "granted" ELSE "placed"
    BY <2>1, <2>2 DEF StageOf, ProgressOf
  <2>7. pc \in {"accepted", "gate", "asking", "spawn"} => i \notin executed
    BY <2>0 DEF StateInv, ProgressInv
  <2>8. ASSUME NEW from, NEW to, StageOf(i) = from, StageOf(i)' = to
        PROVE  Lifecycle!Move(i, {from}, to)
    BY <2>1, <2>3, <2>8, MoveOne
  <2>9. CASE StageOf(i)' = StageOf(i)
    BY <2>3, <2>9, SameStages
  <2>10. CASE /\ pc \in {"accepted", "gate", "asking"} /\ pc' = "spawn"
              /\ executed' = executed
    <3>1. Lifecycle!Move(i, {"placed"}, "granted")
      BY <2>5, <2>6, <2>7, <2>8, <2>10
    <3>2. Lifecycle!Grant(i)
      BY <2>4, <3>1 DEF Lifecycle!Grant, Doubts
    <3> QED
      BY <2>1, <3>2 DEF Lifecycle!Step, Lifecycle!Advance, Lifecycle!Serials
  <2>11. CASE pc = "spawn" /\ pc' = "running" /\ i \in executed'
    <3>1. Lifecycle!Move(i, {"granted"}, "running")
      BY <2>5, <2>6, <2>7, <2>8, <2>11
    <3>2. Lifecycle!Run(i)
      BY <2>4, <3>1 DEF Lifecycle!Run, Doubts
    <3> QED
      BY <2>1, <3>2 DEF Lifecycle!Step, Lifecycle!Advance, Lifecycle!Serials
  <2>12. CASE /\ pc \in {"accepted", "gate", "asking"}
              /\ pc' \in {"gate", "asking"} /\ executed' = executed
    BY <2>5, <2>6, <2>7, <2>9, <2>12
  <2>13. CASE pc = "running" /\ pc' \in {"exited0", "exited1"}
              /\ executed' = executed
    BY <2>5, <2>6, <2>9, <2>13
  <2>14. CASE pc' = pc /\ executed' = executed
    BY <2>5, <2>6, <2>9, <2>14
  <2> QED
    BY <2>0, <2>10, <2>11, <2>12, <2>13, <2>14 DEF Continued
<1> QED
  BY <1>1, <1>2, <1>3, <1>4

(* Every step is one of the lifecycle, or is not seen there. *)
LEMMA StepRefines ==
    StateInv /\ RowsInv /\ BoundInv /\ [Next]_vars =>
        [Lifecycle!Step]_<<Stages, Doubts>>
<1> SUFFICES ASSUME StateInv, RowsInv, BoundInv, [Next]_vars
             PROVE  Lifecycle!Step \/ UNCHANGED <<Stages, Doubts>>
  OBVIOUS
<1> QED
  BY StepShapes, ReceiveRefines, WrittenRefines, EndedRefines, NotedRefines,
     ContinuedRefines

(* The order path implements the lifecycle, for any number of orders: each
   is granted before it runs, none that was refused ran, each is settled
   once, what a failed commit left in doubt is confirmed or lost, and the
   next order is taken up only when none is in progress. *)
THEOREM RefinesLifecycle == Spec => Lifecycle!LifecycleSpec
<1>1. StateInv /\ RowsInv /\ BoundInv /\ [Next]_vars =>
          [Lifecycle!Step]_<<Stages, Doubts>>
  BY StepRefines
<1> QED
  BY <1>1, InitRefines, InitStateInv, NextStateInv, InitRowsInv,
     NextRowsInv, InitBoundInv, NextBoundInv, PTL
     DEF Spec, Lifecycle!LifecycleSpec, Lifecycle!lifecycleVars, Stages, Doubts


(***************************************************************************)
(* The report of the back office.                                          *)
(***************************************************************************)

(* The code under which the report lists a refusal. *)
CodeOf(reason) ==
    IF reason \in DOMAIN ReasonRules THEN ReasonRules[reason].code
    ELSE "UNRECOGNIZED_REASON"

(* The rules tell the reasons apart. *)
LEMMA CodesOfReasons ==
    /\ DOMAIN ReasonRules =
           RejectReasons \cup {"EXECUTION_FAILED", "USER_DENIED",
                               "USER_BLOCKED", "MALFORMED_ORDER"}
    /\ ReasonRules["OFF_MENU"].code = "OFF_MENU_ATTEMPTS"
    /\ ReasonRules["REPLAY"].code = "REPLAY_ATTEMPTS"
    /\ ReasonRules["OUT_OF_SCOPE"].code = "SCOPE_VIOLATIONS"
    /\ ReasonRules["ROLE_NOT_PERMITTED"].code = "ROLE_VIOLATIONS"
    /\ ReasonRules["RATE_LIMITED"].code = "RATE_PRESSURE"
    /\ ReasonRules["EXECUTION_FAILED"].code = "EXECUTION_FAILURES"
    /\ ReasonRules["CAPABILITY_PAUSED"].code = "PAUSED_CAPABILITY_HITS"
    /\ ReasonRules["USER_DENIED"].code = "USER_DENIALS"
    /\ ReasonRules["USER_BLOCKED"].code = "BLOCKED_CAPABILITY_HITS"
    /\ ReasonRules["MALFORMED_ORDER"].code = "MALFORMED_INTAKE"
BY DEF ReasonRules, Rule, RejectReasons

(* The findings list exactly the rows that were not fulfilled, each under
   the code of its reason. *)
LEMMA ListedByCode ==
    ASSUME NEW codes, NEW s
    PROVE  s \in Listed(codes) <=>
               \E k \in DOMAIN ledger :
                   /\ ledger[k].status # "FULFILLED"
                   /\ ledger[k].serial = s
                   /\ CodeOf(ledger[k].reason) \in codes
<1> DEFINE Row(k) == /\ ledger[k].status # "FULFILLED"
                     /\ ledger[k].serial = s
                     /\ CodeOf(ledger[k].reason) \in codes
<1>1. ASSUME NEW f \in Findings(ledger)
      PROVE  \E reason : /\ f.code = CodeOf(reason)
                         /\ f.receipts = ByReason(ledger, reason)
  <2>1. CASE \E reason \in Reasons(ledger) \cap DOMAIN ReasonRules :
                 f = Finding(ReasonRules[reason], ByReason(ledger, reason))
    BY <2>1 DEF Finding, CodeOf
  <2>2. CASE \E reason \in Reasons(ledger) \ DOMAIN ReasonRules :
                 f = Finding(Rule("medium", "UNRECOGNIZED_REASON"),
                             ByReason(ledger, reason))
    BY <2>2 DEF Finding, Rule, CodeOf
  <2> QED
    BY <2>1, <2>2 DEF Findings
<1>2. ASSUME NEW k \in DOMAIN ledger, ledger[k].status # "FULFILLED"
      PROVE  \E f \in Findings(ledger) :
                 f.code = CodeOf(ledger[k].reason) /\ k \in f.receipts
  <2> DEFINE reason == ledger[k].reason
  <2>1. reason \in Reasons(ledger) /\ k \in ByReason(ledger, reason)
    BY <1>2 DEF Reasons, ByReason, Fulfilled
  <2>2. CASE reason \in DOMAIN ReasonRules
    <3> DEFINE f == Finding(ReasonRules[reason], ByReason(ledger, reason))
    <3>1. f \in Findings(ledger)
      BY <2>1, <2>2 DEF Findings
    <3>2. f.code = CodeOf(reason) /\ f.receipts = ByReason(ledger, reason)
      BY <2>2 DEF Finding, CodeOf
    <3> QED
      BY <2>1, <3>1, <3>2
  <2>3. CASE reason \notin DOMAIN ReasonRules
    <3> DEFINE f == Finding(Rule("medium", "UNRECOGNIZED_REASON"),
                            ByReason(ledger, reason))
    <3>1. f \in Findings(ledger)
      BY <2>1, <2>3 DEF Findings
    <3>2. f.code = CodeOf(reason) /\ f.receipts = ByReason(ledger, reason)
      BY <2>3 DEF Finding, CodeOf, Rule
    <3> QED
      BY <2>1, <3>1, <3>2
  <2> QED
    BY <2>2, <2>3
<1>3. s \in Listed(codes) <=>
          \E f \in Findings(ledger) :
              f.code \in codes /\ \E k \in f.receipts : ledger[k].serial = s
  BY DEF Listed
<1>4. ASSUME s \in Listed(codes) PROVE \E k \in DOMAIN ledger : Row(k)
  <2>1. PICK f \in Findings(ledger) :
            f.code \in codes /\ \E k \in f.receipts : ledger[k].serial = s
    BY <1>3, <1>4
  <2>2. PICK k \in f.receipts : ledger[k].serial = s
    BY <2>1
  <2>3. PICK reason : /\ f.code = CodeOf(reason)
                      /\ f.receipts = ByReason(ledger, reason)
    BY <1>1
  <2>4. /\ k \in DOMAIN ledger /\ ledger[k].status # "FULFILLED"
        /\ ledger[k].reason = reason
    BY <2>2, <2>3 DEF ByReason, Fulfilled
  <2> QED
    BY <2>1, <2>2, <2>3, <2>4
<1>5. ASSUME NEW k \in DOMAIN ledger, Row(k) PROVE s \in Listed(codes)
  <2>1. PICK f \in Findings(ledger) :
            f.code = CodeOf(ledger[k].reason) /\ k \in f.receipts
    BY <1>2, <1>5
  <2> QED
    BY <1>3, <1>5, <2>1
<1> QED
  BY <1>4, <1>5

(* What each kind of end looks like in the ledger. *)
LEMMA RowOfOrder ==
    ASSUME StateInv, LedgerInv, NEW i \in Receipted
    PROVE  \E k \in DOMAIN ledger :
               /\ ledger[k].serial = i /\ Account(ledger[k], i)
               /\ \A m \in DOMAIN ledger : ledger[m].serial = i => m = k
<1>1. i # 0
  BY DEF Receipted
<1>2. PICK k \in DOMAIN ledger : ledger[k].serial = i
  BY DEF Receipted
<1>3. Account(ledger[k], i)
  BY <1>1, <1>2, ReceiptIsAccount
<1> QED
  BY <1>1, <1>2, <1>3 DEF LedgerInv

(* Every refusal has a rule. *)
LEMMA RefusalHasRule ==
    ASSUME LedgerInv, NEW k \in DOMAIN ledger,
           ledger[k].status # "FULFILLED"
    PROVE  ledger[k].reason \in DOMAIN ReasonRules
BY CodesOfReasons DEF LedgerInv, Known, Intake, Account

LEMMA NothingUnrecognized ==
    ASSUME LedgerInv
    PROVE  Listed({"UNRECOGNIZED_REASON"}) = {}
<1> SUFFICES ASSUME NEW s \in Listed({"UNRECOGNIZED_REASON"}) PROVE FALSE
  OBVIOUS
<1>1. PICK k \in DOMAIN ledger :
          /\ ledger[k].status # "FULFILLED"
          /\ CodeOf(ledger[k].reason) = "UNRECOGNIZED_REASON"
  BY ListedByCode
<1>2. ledger[k].reason \in DOMAIN ReasonRules
  BY <1>1, RefusalHasRule
<1> QED
  BY <1>1, <1>2, CodesOfReasons DEF CodeOf, RejectReasons

LEMMA RefusalsListed ==
    ASSUME StateInv, LedgerInv, NEW reason \in RejectReasons
    PROVE  Listed({ReasonRules[reason].code}) =
               {i \in Receipted : placed[i].verdict = reason}
<1> DEFINE code == ReasonRules[reason].code
<1>1. \A other \in DOMAIN ReasonRules : CodeOf(other) = code => other = reason
  BY CodesOfReasons DEF CodeOf, RejectReasons
<1>2. CodeOf(reason) = code
  BY CodesOfReasons DEF CodeOf
<1>3. ASSUME NEW s \in Listed({code})
      PROVE  s \in Receipted /\ placed[s].verdict = reason
  <2>1. PICK k \in DOMAIN ledger : /\ ledger[k].status # "FULFILLED"
                                   /\ ledger[k].serial = s
                                   /\ CodeOf(ledger[k].reason) = code
    BY ListedByCode
  <2>2. ledger[k].reason = reason
    BY <1>1, <2>1, RefusalHasRule
  <2> QED
    BY <2>1, <2>2, ReceiptIsAccount DEF Account, RejectReasons
<1>4. ASSUME NEW s \in Receipted, placed[s].verdict = reason
      PROVE  s \in Listed({code})
  <2>1. PICK k \in DOMAIN ledger : ledger[k].serial = s /\ Account(ledger[k], s)
    BY RowOfOrder
  <2>2. s \notin minted
    BY <1>4 DEF StateInv, GovernedInv, RejectReasons
  <2>3. ledger[k].status # "FULFILLED" /\ ledger[k].reason = reason
    BY <1>4, <2>1, <2>2 DEF Account
  <2> QED
    BY <1>2, <2>1, <2>3, ListedByCode
<1> QED
  BY <1>3, <1>4

LEMMA TurnedDownListed ==
    ASSUME StateInv, LedgerInv
    PROVE  Listed({"USER_DENIALS", "BLOCKED_CAPABILITY_HITS"}) =
               (Receipted \cap minted) \ executed
<1> DEFINE codes == {"USER_DENIALS", "BLOCKED_CAPABILITY_HITS"}
<1>1. \A other \in DOMAIN ReasonRules :
          CodeOf(other) \in codes <=> other \in {"USER_DENIED", "USER_BLOCKED"}
  BY CodesOfReasons DEF CodeOf, RejectReasons
<1>2. ASSUME NEW s \in Listed(codes)
      PROVE  s \in Receipted /\ s \in minted /\ s \notin executed
  <2>1. PICK k \in DOMAIN ledger : /\ ledger[k].status # "FULFILLED"
                                   /\ ledger[k].serial = s
                                   /\ CodeOf(ledger[k].reason) \in codes
    BY ListedByCode
  <2>2. ledger[k].reason \in {"USER_DENIED", "USER_BLOCKED"}
    BY <1>1, <2>1, RefusalHasRule
  <2> QED
    BY <2>1, <2>2, ReceiptIsAccount DEF Account, RejectReasons
<1>3. ASSUME NEW s \in (Receipted \cap minted) \ executed
      PROVE  s \in Listed(codes)
  <2>1. PICK k \in DOMAIN ledger : ledger[k].serial = s /\ Account(ledger[k], s)
    BY RowOfOrder
  <2>2. /\ ledger[k].status # "FULFILLED"
        /\ ledger[k].reason \in {"USER_DENIED", "USER_BLOCKED"}
    BY <1>3, <2>1 DEF Account
  <2>3. CodeOf(ledger[k].reason) \in codes
    BY <1>1, <2>2, RefusalHasRule
  <2> QED
    BY <2>1, <2>2, <2>3, ListedByCode
<1> QED
  BY <1>2, <1>3

(* The serials of the orders the ledger has as fulfilled. *)
FulfilledSerials == {ledger[seq].serial : seq \in Fulfilled(ledger)}

LEMMA FailuresListed ==
    ASSUME StateInv, LedgerInv
    PROVE  Listed({"EXECUTION_FAILURES"}) =
               (Receipted \cap executed) \ FulfilledSerials
<1> DEFINE codes == {"EXECUTION_FAILURES"}
<1>1. \A other \in DOMAIN ReasonRules :
          CodeOf(other) \in codes <=> other = "EXECUTION_FAILED"
  BY CodesOfReasons DEF CodeOf, RejectReasons
<1>2. ASSUME NEW s \in Listed(codes)
      PROVE  s \in Receipted /\ s \in executed /\ s \notin FulfilledSerials
  <2>1. PICK k \in DOMAIN ledger : /\ ledger[k].status # "FULFILLED"
                                   /\ ledger[k].serial = s
                                   /\ CodeOf(ledger[k].reason) \in codes
    BY ListedByCode
  <2>2. ledger[k].reason = "EXECUTION_FAILED"
    BY <1>1, <2>1, RefusalHasRule
  <2>3. s \in Receipted /\ s \in executed
    BY <2>1, <2>2, ReceiptIsAccount DEF Account, RejectReasons
  <2>4. s # 0
    BY <2>3 DEF Receipted
  <2>5. \A m \in DOMAIN ledger : ledger[m].serial = s => m = k
    BY <2>1, <2>4 DEF LedgerInv
  <2> QED
    BY <2>1, <2>3, <2>5 DEF FulfilledSerials, Fulfilled
<1>3. ASSUME NEW s \in (Receipted \cap executed) \ FulfilledSerials
      PROVE  s \in Listed(codes)
  <2>1. PICK k \in DOMAIN ledger : ledger[k].serial = s /\ Account(ledger[k], s)
    BY RowOfOrder
  <2>2. ledger[k].status # "FULFILLED"
    BY <1>3, <2>1 DEF FulfilledSerials, Fulfilled
  <2>3. s \in minted
    BY <1>3 DEF StateInv, GovernedInv
  <2>4. ledger[k].reason = "EXECUTION_FAILED"
    BY <1>3, <2>1, <2>2, <2>3 DEF Account
  <2> QED
    BY <1>1, <2>1, <2>2, <2>4, RefusalHasRule, ListedByCode
<1> QED
  BY <1>2, <1>3

(* A set of receipts of orders has as many members as it has orders. *)
LEMMA AsManyReceipts ==
    ASSUME StateInv, LedgerInv,
           NEW R \in SUBSET (DOMAIN ledger), NEW S,
           \A k \in R : ledger[k].serial # 0 /\ ledger[k].serial \in S,
           \A i \in S : \E k \in R : ledger[k].serial = i
    PROVE  Cardinality(R) = Cardinality(S)
<1> DEFINE f == [k \in R |-> ledger[k].serial]
<1>1. IsFiniteSet(R)
  <2>1. DOMAIN ledger = 1..Len(ledger) /\ Len(ledger) \in Nat
    BY DEF StateInv, TypeInv, TypeOK
  <2>2. IsFiniteSet(1..Len(ledger))
    BY <2>1, FS_Interval
  <2> QED
    BY <2>1, <2>2, FS_Subset
<1>2. f \in [R -> S]
  OBVIOUS
<1>3. \A k, m \in R : f[k] = f[m] => k = m
  BY DEF LedgerInv
<1>4. \A i \in S : \E k \in R : f[k] = i
  OBVIOUS
<1>5. f \in Bijection(R, S)
  <2>1. DOMAIN f = R
    OBVIOUS
  <2> HIDE DEF f
  <2> QED
    BY <1>2, <1>3, <1>4, <2>1
       DEF Bijection, Injection, Surjection, IsInjective
<1>6. ExistsBijection(R, S)
  BY <1>5 DEF ExistsBijection
<1> QED
  BY <1>1, <1>6, FS_Bijection

(* The line of a principal counts its orders.  The name under which the
   gateway receipts an intake is no principal's. *)
LEMMA EntryCounts ==
    ASSUME StateInv, LedgerInv, Unadmitted \notin Principals,
           NEW p \in Principals
    PROVE  LET own == {i \in Receipted : placed[i].order.principal = p} IN
           /\ Entry(ledger, p).orders = Cardinality(own)
           /\ Entry(ledger, p).rejected = Cardinality(own \ FulfilledSerials)
           /\ Entry(ledger, p).capabilities = {placed[i].order.cap : i \in own}
<1> DEFINE own == {i \in Receipted : placed[i].order.principal = p}
           R == {seq \in DOMAIN ledger : ledger[seq].principal = p}
<1>1. /\ Entry(ledger, p).orders = Cardinality(R)
      /\ Entry(ledger, p).rejected = Cardinality(R \ Fulfilled(ledger))
      /\ Entry(ledger, p).capabilities = {ledger[seq].cap : seq \in R}
  BY DEF Entry
<1>2. ASSUME NEW k \in R
      PROVE  /\ ledger[k].serial # 0 /\ ledger[k].serial \in own
             /\ ledger[k].cap = placed[ledger[k].serial].order.cap
  <2>1. ~Intake(ledger[k])
    BY <1>2 DEF Intake
  <2>2. ledger[k].serial \in Closed /\ ledger[k].serial # 0
    BY <1>2, <2>1 DEF LedgerInv, Known, Closed, StateInv, TypeInv, TypeOK
  <2>3. /\ ledger[k].serial \in Receipted
        /\ Account(ledger[k], ledger[k].serial)
    BY <1>2, <2>2, ReceiptIsAccount
  <2> QED
    BY <1>2, <2>2, <2>3 DEF Account
<1>3. ASSUME NEW i \in own
      PROVE  \E k \in R : /\ ledger[k].serial = i
                          /\ ledger[k].cap = placed[i].order.cap
                          /\ \A m \in DOMAIN ledger :
                                 ledger[m].serial = i => m = k
  BY <1>3, RowOfOrder DEF Account
<1>4. Cardinality(R) = Cardinality(own)
  <2> HIDE DEF own
  <2> QED
    BY <1>2, <1>3, AsManyReceipts
<1>5. Cardinality(R \ Fulfilled(ledger)) = Cardinality(own \ FulfilledSerials)
  <2> DEFINE Q == R \ Fulfilled(ledger)
             S == own \ FulfilledSerials
  <2>1. ASSUME NEW k \in Q
        PROVE  ledger[k].serial # 0 /\ ledger[k].serial \in S
    <3>1. ledger[k].serial # 0 /\ ledger[k].serial \in own
      BY <1>2
    <3>2. \A m \in DOMAIN ledger : ledger[m].serial = ledger[k].serial => m = k
      BY <3>1 DEF LedgerInv
    <3> QED
      BY <3>1, <3>2 DEF FulfilledSerials, Fulfilled
  <2>2. ASSUME NEW i \in S PROVE \E k \in Q : ledger[k].serial = i
    <3>1. PICK k \in R : ledger[k].serial = i
      BY <1>3
    <3> QED
      BY <3>1 DEF FulfilledSerials
  <2>3. Q \in SUBSET (DOMAIN ledger)
    OBVIOUS
  <2> HIDE DEF Q, S
  <2>4. Cardinality(Q) = Cardinality(S)
    BY <2>1, <2>2, <2>3, AsManyReceipts
  <2> QED
    BY <2>4 DEF Q, S
<1>6. {ledger[seq].cap : seq \in R} = {placed[i].order.cap : i \in own}
  <2>1. \A k \in R : \E i \in own : ledger[k].cap = placed[i].order.cap
    BY <1>2
  <2>2. \A i \in own : \E k \in R : ledger[k].cap = placed[i].order.cap
    BY <1>3
  <2> HIDE DEF own, R
  <2> QED
    BY <2>1, <2>2
<1> QED
  BY <1>1, <1>4, <1>5, <1>6

(* What the report tells the operator is what became of the orders, for any
   number of orders and principals, provided that no principal bears the
   name the gateway uses for an intake without an order. *)
THEOREM ReportIsTrue ==
    ASSUME Unadmitted \notin Principals
    PROVE  Spec => []ReportTellsOrders
<1>1. ASSUME StateInv, RowsInv PROVE ReportTellsOrders
  <2>1. LedgerInv /\ Returned \subseteq Receipted
    BY <1>1, RowsGiveLedger DEF RowsInv
  <2> QED
    BY <1>1, <2>1, NothingUnrecognized, RefusalsListed, TurnedDownListed,
       FailuresListed, EntryCounts
       DEF ReportTellsOrders, FulfilledSerials
<1> QED
  BY <1>1, RowsCorrect, PTL

=============================================================================
