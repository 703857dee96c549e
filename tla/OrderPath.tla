----------------------------- MODULE OrderPath -----------------------------
(***************************************************************************)
(* One gateway process and what it leaves behind: an order is placed, the  *)
(* cashier decides it, the personal gate of consumer mode may ask the      *)
(* user, a chef runs in a sandbox, and a receipt is appended.  The process *)
(* serves one order at a time (SentinelLoop.place, ConsumerLoop.place), so *)
(* the order in progress is always the last of `placed`.  Between two      *)
(* steps of an order the clock may advance, the process may die and be     *)
(* started again, and any call that does I/O may raise.                    *)
(*                                                                         *)
(* The ledger is a sequence here: this process is its only writer.  A row  *)
(* is inserted on the connection of the process and then committed; what   *)
(* the process reads is `session`, what everyone else reads and what       *)
(* outlives the process is `ledger`.  The hash chain and several writers   *)
(* are the subject of module ReceiptChain.                                 *)
(***************************************************************************)
EXTENDS OrderPolicy, InspectorReport

CONSTANTS
    Orders,         \* the orders that callers place
    UniqueIds,      \* TRUE: ids and nonces are fresh uuids (mcp_gateway.py)
    Consumer,       \* TRUE: ConsumerLoop, FALSE: SentinelLoop
    ConfirmCaps,    \* capabilities with requires_user_confirmation
    SandboxExits,   \* the ways a sandbox backend may return
    Torn,           \* an output file cut off in the middle of the write
    NoDraft,        \* no output file
    Window,         \* RATE_WINDOW_SECONDS, in ticks of the clock
    MaxOrders, MaxMalformed, MaxUndeleted,
    MaxTime, MaxEpochs      \* bounds of the model

PrefStates == {"allow", "ask", "block", "unset"}

(* Exit status of the chef and what it left in the serving window. *)
ExitType == [rc : {0, 1}, left : {"nothing", "draft", "torn"}]

ASSUME OrderPathAssumption ==
    /\ Orders \subseteq OrderType
    /\ UniqueIds \in BOOLEAN /\ Consumer \in BOOLEAN
    /\ ConfirmCaps \subseteq Menu
    /\ SandboxExits \subseteq ExitType
    /\ Window \in Nat \ {0}
    /\ {MaxOrders, MaxMalformed, MaxUndeleted, MaxTime, MaxEpochs} \subseteq Nat

VARIABLES
    clock,       \* the host's clock; assumed never to run backwards
    epoch,       \* how often the process has been started
    spent,       \* CashierStore._seen_nonces: memory of this process
    history,     \* CashierStore._history: memory of this process
    prefs,       \* Preferences._settings: memory of this process
    prefsFile,   \* the settings file
    pc,          \* where the order in progress stands
    placed,      \* every order ever placed, with its verdict and its end
    minted,      \* serials of the orders a ticket was signed for
    allowed,     \* serials the personal gate let pass
    executed,    \* serials a chef was started for
    workspaces,  \* serials whose chef_ws_ directory exists
    undeleted,   \* those whose rmtree failed; told to nobody
    window,      \* the output file of each order id
    session,     \* the receipts as this process's connection has them
    ledger       \* the receipts that are committed: a prefix of session

storeVars == <<spent, history>>
prefVars == <<prefs, prefsFile>>
traceVars == <<minted, allowed, executed>>
dirVars == <<workspaces, undeleted>>
rowVars == <<session, ledger>>
vars == <<clock, epoch, spent, history, prefs, prefsFile, pc, placed,
          minted, allowed, executed, workspaces, undeleted, window, session,
          ledger>>

Keys == (Principals \cup {Nobody}) \X Capabilities

(* The handlers are deterministic: the capability and the resource
   determine the bytes of the output. *)
DraftOf(order) == <<order.cap, order.resource>>

Drafts == Capabilities \X Resources

Locations ==
    {"idle", "rejecting", "accepted", "gate", "asking", "spawn", "running",
     "exited0", "exited1", "receipted"}

(* -------------------------------------------------------------------- *)
(* The cashier's store (cashier/store.py).                               *)

(* Faulty: the window is one tick short. *)
RateCountShort(key, now) ==
    Cardinality({i \in DOMAIN history[key] : now - history[key][i] < Window - 1})

RateCount(key, now) ==
    Cardinality({i \in DOMAIN history[key] : now - history[key][i] < Window})

KeyOf(order) == <<order.principal, order.cap>>

(* The cashier's verdict on an order that arrives now. *)
Decide(order) == Evaluate(order, spent, RateCount(KeyOf(order), clock))

EmptyHistory == [key \in Keys |-> << >>]

(* Faulty: only the nonce of an accepted order is registered. *)
NonceSeenIfAccepted(order) ==
    spent' = IF Decide(order) = "ACCEPT" THEN spent \cup {order.nonce} ELSE spent

(* Faulty: an accept replaces the earlier ones of its key. *)
RecordOnlyLast(key) == history' = [history EXCEPT ![key] = <<clock>>]

NonceSeen(order) == spent' = spent \cup {order.nonce}

RecordAccept(key) == history' = [history EXCEPT ![key] = Append(@, clock)]

(* -------------------------------------------------------------------- *)
(* The order in progress.                                                *)

Current == Len(placed)
CurrentOrder == placed[Current].order

Receipt(status, reason, digest) ==
    [serial |-> Current, oid |-> CurrentOrder.oid,
     principal |-> CurrentOrder.principal, cap |-> CurrentOrder.cap,
     ticket |-> Current \in minted,
     status |-> status, reason |-> reason, digest |-> digest]

(* Faulty: the status of the outcome where its reason code belongs. *)
RejectedByPolicy(reason) == Receipt("REJECTED", "REJECTED_BY_POLICY", NoDraft)

(* Faulty: a refusal never names the ticket. *)
RejectedTicketless(reason) ==
    [Receipt("REJECTED", reason, NoDraft) EXCEPT !.ticket = FALSE]

Rejected(reason) == Receipt("REJECTED", reason, NoDraft)

(* place() is over: it returned or raised. *)
End(how) ==
    /\ placed' = [placed EXCEPT ![Current].end = how]
    /\ pc' = "idle"

(* The end of run_chef, however it is left: the workspace is removed, and
   an error in that is ignored. *)
RemoveWorkspace ==
    \/ workspaces' = workspaces \ {Current} /\ UNCHANGED undeleted
    \/ /\ Current \in workspaces /\ Cardinality(undeleted) < MaxUndeleted
       /\ UNCHANGED workspaces
       /\ undeleted' = undeleted \cup {Current}

(* The commit takes along whatever the connection inserted before. *)
Commit(receipt) ==
    /\ session' = Append(session, receipt)
    /\ ledger' = session'

(* Faulty: a commit that raises is tried again with the row inserted anew. *)
CommitTwice(receipt) ==
    /\ session' \in {session \o <<receipt, receipt>>, ledger}
    /\ UNCHANGED ledger

(* INSERT or COMMIT raises.  Nothing in append rolls back: the row stays on
   the connection, for the next commit or for the end of the process, unless
   sqlite itself rolled back all that was not committed. *)
CommitRaises(receipt) ==
    /\ session' \in {Append(session, receipt), ledger}
    /\ UNCHANGED ledger

(* The receipt of the order in progress is appended: it is committed and
   the call goes on to its return, or the append raises through place(). *)
Settle(receipt) ==
    \/ /\ Commit(receipt)
       /\ pc' = "receipted"
       /\ UNCHANGED <<placed, dirVars>>
    \/ CommitRaises(receipt) /\ End("raised") /\ RemoveWorkspace

(* Faulty: of the explicit settings only "allow" is honoured. *)
EffectiveStateLax(cap) ==
    IF prefs[cap] = "allow" THEN "allow"
    ELSE IF cap \in ConfirmCaps THEN "ask" ELSE "allow"

EffectiveState(cap) ==
    IF prefs[cap] # "unset" THEN prefs[cap]
    ELSE IF cap \in ConfirmCaps THEN "ask" ELSE "allow"

Init ==
    /\ clock = 0 /\ epoch = 1
    /\ spent = {} /\ history = EmptyHistory
    /\ prefsFile \in IF Consumer THEN [Menu -> PrefStates]
                     ELSE [Menu -> {"unset"}]
    /\ prefs = prefsFile
    /\ pc = "idle" /\ placed = << >>
    /\ minted = {} /\ allowed = {} /\ executed = {}
    /\ workspaces = {} /\ undeleted = {}
    /\ window = [oid \in OrderIds |-> NoDraft]
    /\ session = << >> /\ ledger = << >>

(* The intakes that were receipted, of those rows that are not lost. *)
Intakes == {k \in DOMAIN session : session[k].serial = 0}

(* A bound of the model: the calls a run makes of the gateway. *)
MoreCalls == Len(placed) + Cardinality(Intakes) < MaxOrders

(* An order reaches process_order: the verdict is computed and the nonce
   is registered whatever the verdict. *)
Receive(order) ==
    /\ pc = "idle" /\ MoreCalls
    /\ UniqueIds => \A i \in DOMAIN placed :
                       /\ placed[i].order.oid # order.oid
                       /\ placed[i].order.nonce # order.nonce
    /\ placed' = Append(placed, [order |-> order, epoch |-> epoch,
                                 verdict |-> Decide(order), end |-> "open"])
    /\ pc' = IF Decide(order) = "ACCEPT" THEN "accepted" ELSE "rejecting"
    /\ NonceSeen(order)
    /\ UNCHANGED <<clock, epoch, history, prefVars, traceVars, dirVars,
                   window, rowVars>>

(* What the receipt of an intake says of whom and what, where no order was
   admitted. *)
Unadmitted == "gateway:unadmitted"
Unparsed == "(unparsed)"

IntakeReceipt ==
    [serial |-> 0, oid |-> Nobody, ticket |-> FALSE,
     principal |-> Unadmitted, cap |-> Unparsed, status |-> "REJECTED",
     reason |-> "MALFORMED_ORDER", digest |-> NoDraft]

(* parse_order failed: the gateway receipts the intake under an identity
   of its own; no order was placed. *)
RejectMalformed ==
    /\ pc = "idle" /\ ~UniqueIds /\ MoreCalls
    /\ Cardinality(Intakes) < MaxMalformed
    /\ Commit(IntakeReceipt) \/ CommitRaises(IntakeReceipt)
    /\ UNCHANGED <<clock, epoch, storeVars, prefVars, pc, placed, traceVars,
                   dirVars, window>>

AppendRejection ==
    /\ pc = "rejecting"
    /\ Settle(Rejected(placed[Current].verdict))
    /\ UNCHANGED <<clock, epoch, storeVars, prefVars, traceVars, window>>

(* The ticket is signed and the accept enters the rate window, with a
   reading of the clock that is later than the one of the decision. *)
MintTicket ==
    /\ pc = "accepted"
    /\ minted' = minted \cup {Current}
    /\ RecordAccept(KeyOf(CurrentOrder))
    /\ pc' = IF Consumer THEN "gate" ELSE "spawn"
    /\ UNCHANGED <<clock, epoch, spent, prefVars, placed, allowed, executed,
                   dirVars, window, rowVars>>

(* -------------------------------------------------------------------- *)
(* The personal gate (consumer/loop.py).                                 *)

GateBlock ==
    /\ pc = "gate" /\ EffectiveState(CurrentOrder.cap) = "block"
    /\ Settle(Rejected("USER_BLOCKED"))
    /\ UNCHANGED <<clock, epoch, storeVars, prefVars, traceVars, window>>

GateAllow ==
    /\ pc = "gate" /\ EffectiveState(CurrentOrder.cap) = "allow"
    /\ allowed' = allowed \cup {Current}
    /\ pc' = "spawn"
    /\ UNCHANGED <<clock, epoch, storeVars, prefVars, placed, minted,
                   executed, dirVars, window, rowVars>>

GateAsk ==
    /\ pc = "gate" /\ EffectiveState(CurrentOrder.cap) = "ask"
    /\ pc' = "asking"
    /\ UNCHANGED <<clock, epoch, storeVars, prefVars, placed, traceVars,
                   dirVars, window, rowVars>>

AnswerOnce ==
    /\ pc = "asking"
    /\ allowed' = allowed \cup {Current}
    /\ pc' = "spawn"
    /\ UNCHANGED <<clock, epoch, storeVars, prefVars, placed, minted,
                   executed, dirVars, window, rowVars>>

(* "Always": the preference is upgraded in memory and the settings file is
   rewritten from memory. *)
AnswerAlways ==
    /\ pc = "asking"
    /\ prefs' = [prefs EXCEPT ![CurrentOrder.cap] = "allow"]
    /\ prefsFile' = prefs'
    /\ allowed' = allowed \cup {Current}
    /\ pc' = "spawn"
    /\ UNCHANGED <<clock, epoch, storeVars, placed, minted, executed,
                   dirVars, window, rowVars>>

(* The upgrade is in memory when the write of the file raises. *)
AnswerAlwaysSaveRaises ==
    /\ pc = "asking"
    /\ prefs' = [prefs EXCEPT ![CurrentOrder.cap] = "allow"]
    /\ End("raised")
    /\ UNCHANGED <<clock, epoch, storeVars, prefsFile, traceVars, dirVars,
                   window, rowVars>>

AnswerDeny ==
    /\ pc = "asking"
    /\ Settle(Rejected("USER_DENIED"))
    /\ UNCHANGED <<clock, epoch, storeVars, prefVars, traceVars, window>>

(* -------------------------------------------------------------------- *)
(* The chef (chef/runner.py).                                            *)

(* Faulty: the chef is started without waiting for the personal gate. *)
StartChefUngated ==
    /\ pc \in {"gate", "spawn"}
    /\ workspaces' = workspaces \cup {Current}
    /\ executed' = executed \cup {Current}
    /\ pc' = "running"
    /\ UNCHANGED <<clock, epoch, storeVars, prefVars, placed, minted,
                   allowed, undeleted, window, rowVars>>

StartChef ==
    /\ pc = "spawn"
    /\ workspaces' = workspaces \cup {Current}
    /\ executed' = executed \cup {Current}
    /\ pc' = "running"
    /\ UNCHANGED <<clock, epoch, storeVars, prefVars, placed, minted,
                   allowed, undeleted, window, rowVars>>

(* The sandbox returns; the chef may have written the window of the order
   id, whoever else used that id before. *)
ChefExits(exit) ==
    /\ pc = "running"
    /\ window' =
         CASE exit.left = "nothing" -> window
           [] exit.left = "draft" ->
                [window EXCEPT ![CurrentOrder.oid] = DraftOf(CurrentOrder)]
           [] exit.left = "torn" ->
                [window EXCEPT ![CurrentOrder.oid] = Torn]
    /\ pc' = IF exit.rc = 0 THEN "exited0" ELSE "exited1"
    /\ UNCHANGED <<clock, epoch, storeVars, prefVars, placed, traceVars,
                   dirVars, rowVars>>

(* Faulty: any output counts, whatever the exit status. *)
FulfilAnyExit ==
    /\ pc \in {"exited0", "exited1"} /\ window[CurrentOrder.oid] # NoDraft
    /\ Settle(Receipt("FULFILLED", "none", window[CurrentOrder.oid]))
    /\ UNCHANGED <<clock, epoch, storeVars, prefVars, traceVars, window>>

(* Success needs a zero exit and a readable file. *)
Fulfil ==
    /\ pc = "exited0" /\ window[CurrentOrder.oid] # NoDraft
    /\ Settle(Receipt("FULFILLED", "none", window[CurrentOrder.oid]))
    /\ UNCHANGED <<clock, epoch, storeVars, prefVars, traceVars, window>>

(* Faulty: exit status 0 without a draft is forgotten. *)
FailNonzeroExit ==
    /\ pc = "exited1"
    /\ Settle(Rejected("EXECUTION_FAILED"))
    /\ UNCHANGED <<clock, epoch, storeVars, prefVars, traceVars, window>>

FailExecution ==
    /\ \/ pc = "exited1"
       \/ pc = "exited0" /\ window[CurrentOrder.oid] = NoDraft
    /\ Settle(Rejected("EXECUTION_FAILED"))
    /\ UNCHANGED <<clock, epoch, storeVars, prefVars, traceVars, window>>

(* The receipt is committed: run_chef, if it ran, removes the workspace, and
   place() gives the outcome to its caller. *)
Return ==
    /\ pc = "receipted"
    /\ End("returned")
    /\ RemoveWorkspace
    /\ UNCHANGED <<clock, epoch, storeVars, prefVars, traceVars, window,
                   rowVars>>

(* -------------------------------------------------------------------- *)
(* What may go wrong.                                                    *)

(* Faulty: the removal follows what run_chef returns, not what it raises. *)
RaiseLeaving ==
    /\ pc \notin {"idle", "accepted", "receipted"}
    /\ End("raised")
    /\ UNCHANGED <<clock, epoch, storeVars, prefVars, traceVars, dirVars,
                   window, rowVars>>

(* An exception leaves place() before a row was inserted: the head of the
   ledger cannot be read, the approver has no terminal, the sandbox is not
   available.  Whoever called place() may carry on; the MCP gateway dies of
   it, which is Restart. *)
Raise ==
    /\ pc \notin {"idle", "accepted", "receipted"}
    /\ End("raised")
    /\ RemoveWorkspace
    /\ UNCHANGED <<clock, epoch, storeVars, prefVars, traceVars, window,
                   rowVars>>

(* The process dies and is started again: the store is empty, the settings
   are read from the file, an order in progress is gone, and so is every row
   that was not committed. *)
Restart ==
    /\ epoch < MaxEpochs
    /\ epoch' = epoch + 1
    /\ spent' = {} /\ history' = EmptyHistory
    /\ prefs' = prefsFile
    /\ pc' = "idle"
    /\ placed' = IF pc = "idle" THEN placed
                 ELSE [placed EXCEPT ![Current].end = "crashed"]
    /\ session' = ledger
    /\ UNCHANGED <<clock, prefsFile, traceVars, dirVars, window, ledger>>

Tick ==
    /\ clock < MaxTime
    /\ clock' = clock + 1
    /\ UNCHANGED <<epoch, storeVars, prefVars, pc, placed, traceVars,
                   dirVars, window, rowVars>>

(* -------------------------------------------------------------------- *)

Answer == AnswerOnce \/ AnswerAlways \/ AnswerAlwaysSaveRaises \/ AnswerDeny

Gate == GateBlock \/ GateAllow \/ GateAsk \/ Answer

RunChef ==
    \/ StartChef
    \/ \E exit \in SandboxExits : ChefExits(exit)
    \/ Fulfil
    \/ FailExecution

(* The steps with which the process carries on with an order. *)
Proceed == AppendRejection \/ MintTicket \/ Gate \/ RunChef \/ Return

Next ==
    \/ \E order \in Orders : Receive(order)
    \/ RejectMalformed
    \/ Proceed
    \/ Raise
    \/ Restart
    \/ Tick

Spec == Init /\ [][Next]_vars

(* The process keeps running, the user answers and the sandbox returns;
   nothing obliges a caller to place orders, the clock to be read or
   anything to fail. *)
FairSpec == Spec /\ WF_vars(Proceed)

(***************************************************************************)
(* Properties                                                              *)
(***************************************************************************)

PlacedType ==
    [order : Orders, epoch : Nat \ {0}, verdict : Verdicts,
     end : {"open", "returned", "raised", "crashed"}]

ReceiptReasons ==
    RejectReasons \cup {"none", "MALFORMED_ORDER", "USER_BLOCKED",
                        "USER_DENIED", "EXECUTION_FAILED"}

ReceiptType ==
    [serial : Nat, oid : OrderIds \cup {Nobody}, ticket : BOOLEAN,
     principal : Principals \cup {Nobody, Unadmitted},
     cap : Capabilities \cup {Unparsed},
     status : {"FULFILLED", "REJECTED"}, reason : ReceiptReasons,
     digest : Drafts \cup {Torn, NoDraft}]

(* The type of every variable; an order in progress is the last one placed
   and is the only one that is open. *)
TypeOK ==
    /\ clock \in Nat /\ epoch \in Nat \ {0}
    /\ spent \subseteq Nonces
    /\ history \in [Keys -> Seq(Nat)]
    /\ prefs \in [Menu -> PrefStates] /\ prefsFile \in [Menu -> PrefStates]
    /\ pc \in Locations
    /\ placed \in Seq(PlacedType)
    /\ minted \subseteq 1..Len(placed) /\ allowed \subseteq 1..Len(placed)
    /\ executed \subseteq 1..Len(placed)
    /\ workspaces \subseteq 1..Len(placed)
    /\ undeleted \subseteq 1..Len(placed)
    /\ window \in [OrderIds -> Drafts \cup {Torn, NoDraft}]
    /\ session \in Seq(ReceiptType) /\ ledger \in Seq(ReceiptType)
    /\ pc # "idle" => placed # << >>

(* Within the life of one process an order is refused as a replay exactly
   when an earlier order of that life carried the same nonce, whatever
   became of the earlier one. *)
ReplayExactly ==
    \A j \in DOMAIN placed :
        placed[j].verdict = "REPLAY" <=>
            \E i \in 1 .. j - 1 :
                /\ placed[i].epoch = placed[j].epoch
                /\ placed[i].order.nonce = placed[j].order.nonce

(* rate_limit_per_hour: at the moment of any accept, the accepts of that
   principal and capability in the window that ends there are no more than
   the policy that applies to some role granted the capability permits,
   although the count is read before the accept is recorded. *)
RateWindow ==
    \A key \in Keys : \A j \in DOMAIN history[key] :
        \E role \in Roles :
            /\ HasPolicy(role)
            /\ key[2] \in PolicyFor(role).allowed
            /\ Cardinality({i \in 1..j :
                   history[key][j] - history[key][i] < Window})
                 <= PolicyFor(role).limit

(* A place in the rate window is taken by each ticket of this process and
   by nothing else: refused orders are free, and an order that the user or
   the chef turns down later keeps its place. *)
SlotPerTicket ==
    \A key \in Keys :
        Len(history[key]) =
            Cardinality({i \in minted : /\ placed[i].epoch = epoch
                                        /\ KeyOf(placed[i].order) = key})

Admissible(order) ==
    /\ order.cap \in Menu
    /\ HasPolicy(order.role)
    /\ order.cap \in PolicyFor(order.role).allowed
    /\ order.cap \notin PolicyFor(order.role).paused
    /\ InScope(order)

(* A chef runs only for an order that is on the menu, granted to the role,
   not paused and in the scope of its own principal, and in consumer mode
   only after the personal gate let it pass. *)
ExecutionGoverned ==
    \A i \in executed : /\ i \in minted
                        /\ Admissible(placed[i].order)
                        /\ Consumer => i \in allowed

(* The ledger says what happened: a policy refusal had no ticket, a refusal
   of the user had one that was never run, a failed or fulfilled execution
   did run, and a receipt claims a ticket exactly when one was minted. *)
ReceiptMatchesRun ==
    \A k \in DOMAIN ledger :
        LET r == ledger[k] IN
        r.serial # 0 =>
            /\ r.oid = placed[r.serial].order.oid
            /\ r.ticket <=> r.serial \in minted
            /\ r.reason \in RejectReasons <=> r.serial \notin minted
            /\ r.reason \in {"USER_BLOCKED", "USER_DENIED"} =>
                   r.serial \notin executed
            /\ r.reason = "EXECUTION_FAILED" => r.serial \in executed
            /\ r.status = "FULFILLED" => r.serial \in executed

Returned == {i \in DOMAIN placed : placed[i].end = "returned"}

(* The orders that have a receipt that anyone can read. *)
Receipted == {ledger[k].serial : k \in DOMAIN ledger} \ {0}

(* The receipts stand in the ledger in the order in which their orders
   arrived and no order has two, although a commit that raised leaves its row
   to a later one.  Every call of place() that returned has its receipt, and
   an order in progress has none before the commit that leads to its return.
   A call that raised or died may have one: of the row that a later commit
   took along, or of its own commit just before the process died. *)
ReceiptedInTurn ==
    /\ \A k, m \in DOMAIN ledger :
           k < m /\ 0 \notin {ledger[k].serial, ledger[m].serial} =>
               ledger[k].serial < ledger[m].serial
    /\ Returned \subseteq Receipted
    /\ \A i \in Receipted : placed[i].end = "open" => pc = "receipted"

(* The serials behind the findings with these codes. *)
Listed(codes) ==
    {ledger[seq].serial : seq \in
        UNION {f.receipts : f \in {g \in Findings(ledger) : g.code \in codes}}}

(* inspector.py: what the report tells the operator is what became of the
   orders that have a receipt, whether their calls returned, raised or died.
   It has a rule for every reason the loop gives; each refusal of the policy
   is listed under its finding, and nothing else is; orders that were run are
   counted as fulfilled or listed as failed, those that user or settings
   turned down are listed too; and the line of each principal counts all its
   orders with a receipt, those whose call returned among them.  The others
   are in no finding. *)
ReportTellsOrders ==
    /\ Returned \subseteq Receipted
    /\ Listed({"UNRECOGNIZED_REASON"}) = {}
    /\ \A reason \in RejectReasons :
           Listed({ReasonRules[reason].code}) =
               {i \in Receipted : placed[i].verdict = reason}
    /\ Listed({"USER_DENIALS", "BLOCKED_CAPABILITY_HITS"}) =
           (Receipted \cap minted) \ executed
    /\ Listed({"EXECUTION_FAILURES"}) =
           (Receipted \cap executed)
               \ {ledger[seq].serial : seq \in Fulfilled(ledger)}
    /\ \A p \in Principals :
           LET own == {i \in Receipted : placed[i].order.principal = p} IN
           /\ Entry(ledger, p).orders = Cardinality(own)
           /\ Entry(ledger, p).rejected = Cardinality(own \
                  {ledger[seq].serial : seq \in Fulfilled(ledger)})
           /\ Entry(ledger, p).capabilities =
                  {placed[i].order.cap : i \in own}

(* With ids of its own (mcp_gateway.py), and a backend whose exit status 0
   means that the chef finished, every fulfilled receipt carries the digest
   of the output of its own order, and the serving window still holds that
   output. *)
DraftStands ==
    \A k \in DOMAIN ledger :
        LET r == ledger[k] IN
        r.status = "FULFILLED" =>
            /\ r.digest = DraftOf(placed[r.serial].order)
            /\ window[r.oid] = r.digest

(* Every path out of run_chef, by return or by exception, tries to remove the
   workspace: the only ones left are of the run in progress, of runs the
   process died in, and those whose removal failed, which nobody is told. *)
WorkspaceGone ==
    \A i \in workspaces \ undeleted :
        \/ placed[i].end = "crashed"
        \/ i = Current /\ pc \in {"running", "exited0", "exited1", "receipted"}

(* What the settings block is never run, in this life of the process or an
   earlier one: no answer and no save of the gate lifts a BLOCK, and nothing
   runs that the gate did not let pass. *)
BlockedNeverRuns ==
    \A i \in executed : Consumer =>
        i \in allowed /\ prefs[placed[i].order.cap] # "block"

(* Every order that is placed comes to an end. *)
OrderEnds == pc # "idle" ~> pc = "idle"

(* The stage of each order in the abstract lifecycle: the row that was
   inserted for it tells what became of it, without a row the progress of its
   call does.  In doubt are the orders whose row is not committed. *)
RowsOf(i, rows) == {k \in DOMAIN rows : rows[k].serial = i}

OutcomeOf(i) ==
    IF \E k \in RowsOf(i, session) : session[k].status = "FULFILLED"
    THEN "fulfilled"
    ELSE IF \E k \in RowsOf(i, session) : session[k].reason = "EXECUTION_FAILED"
    THEN "failed" ELSE "refused"

ProgressOf(i) ==
    IF i > Len(placed) THEN "absent"
    ELSE IF placed[i].end # "open" THEN "lost"
    ELSE IF i \in executed THEN "running"
    ELSE IF pc = "spawn" THEN "granted" ELSE "placed"

StageOf(i) == IF RowsOf(i, session) # {} THEN OutcomeOf(i) ELSE ProgressOf(i)

Doubted(i) == RowsOf(i, session) # {} /\ RowsOf(i, ledger) = {}

Lifecycle == INSTANCE OrderLifecycle
    WITH MaxSerial <- MaxOrders,
         stage <- [i \in 1..MaxOrders |-> StageOf(i)],
         doubt <- {i \in 1..MaxOrders : Doubted(i)}

(* Every behaviour of the order path is one of the abstract lifecycle: an
   order is granted before it runs, is settled once and stays settled, what a
   failed commit leaves in doubt is settled with the next commit or lost, and
   (with the fairness of FairSpec) no order stays in progress. *)
ImplementsLifecycle == Lifecycle!FairLifecycleSpec

(* SPEC.md, claim 4: every order, fulfilled or rejected, produces a
   receipt.  Stated of the orders whose process lived on. *)
EveryOrderReceipted ==
    \A i \in DOMAIN placed :
        placed[i].end \notin {"open", "crashed"} =>
            \E k \in DOMAIN ledger : ledger[k].serial = i

=============================================================================
