----------------------------- MODULE ChefSandbox -----------------------------
(***************************************************************************)
(* The sandbox backends (chef/sandbox.py, appcontainer.py,                 *)
(* linux_sandbox.py, mac_sandbox.py, microvm_sandbox.py): what each does   *)
(* before and after the chef runs, and what it reports to run_chef.        *)
(*                                                                         *)
(* "plain" is every backend that starts the chef, waits for it without a   *)
(* timeout and passes on its exit status.  "appcontainer" grants the       *)
(* package SID, which is the same for all runs, access to three            *)
(* directories and revokes it afterwards.  "microvm" runs the chef on a    *)
(* disk of its own and takes the output from there.                        *)
(*                                                                         *)
(* Several gateways run side by side; each starts one run after another,   *)
(* with a fresh workspace and a fresh order id.                            *)
(***************************************************************************)
EXTENDS Naturals

CONSTANTS
    Gateways,
    Kitchen         \* the owner of the fixtures, which all runs share

ASSUME SandboxAssumption == Kitchen \notin Gateways

Backends == {"plain", "appcontainer", "microvm"}

VARIABLES
    backend,        \* the backend of each gateway
    pc,             \* where its run stands
    chef,           \* the process of the chef
    output,         \* what the chef has written, where it writes
    copied,         \* what came out of the disk of the VM
    result,         \* what run() did last
    granted,        \* how many directories are in the list `granted`
    revoked,        \* how many of them are revoked again
    acl,            \* the directories that grant the package SID access
    leaked,         \* TRUE: a run left its grant on the fixtures behind
    overlapped      \* TRUE: two AppContainer runs were up at the same time

progressVars == <<pc, chef, output, copied, result>>
grantVars == <<granted, revoked, acl, leaked>>
vars == <<backend, pc, chef, output, copied, result, granted, revoked, acl,
          leaked, overlapped>>

(* The chef's output file: missing, opened, cut off, or complete. *)
Contents == {"nothing", "empty", "torn", "draft"}

Results == {"none", "ok", "failed", "raised"}

(* In the order of the code: the workspace, the fixtures, the window. *)
Dir(g, i) == <<IF i = 2 THEN Kitchen ELSE g, i>>

Fixtures == <<Kitchen, 2>>

OwnDirs(g) == {Dir(g, 1), Dir(g, 3)}

Needs(g) == {Dir(g, i) : i \in 1..3}

Busy == {"started", "read", "writing"}

Init ==
    /\ backend \in [Gateways -> Backends]
    /\ pc = [g \in Gateways |-> "idle"]
    /\ chef = [g \in Gateways |-> "off"]
    /\ output = [g \in Gateways |-> "nothing"]
    /\ copied = [g \in Gateways |-> "nothing"]
    /\ result = [g \in Gateways |-> "none"]
    /\ granted = [g \in Gateways |-> 0] /\ revoked = [g \in Gateways |-> 0]
    /\ acl = {} /\ leaked = FALSE /\ overlapped = FALSE

(* The serving window of the run. *)
Window(g) == IF backend[g] = "microvm" THEN copied[g] ELSE output[g]

(* -------------------------------------------------------------------- *)
(* The run begins; its directories are new.                              *)

(* Faulty: the list of grants is kept from run to run. *)
BeginKeepingList(g, where, process, outcome) ==
    /\ pc[g] = "idle"
    /\ pc' = [pc EXCEPT ![g] = where]
    /\ chef' = [chef EXCEPT ![g] = process]
    /\ output' = [output EXCEPT ![g] = "nothing"]
    /\ copied' = [copied EXCEPT ![g] = "nothing"]
    /\ result' = [result EXCEPT ![g] = outcome]
    /\ acl' = acl \ OwnDirs(g)
    /\ UNCHANGED <<backend, granted, revoked, leaked>>

Begin(g, where, process, outcome) ==
    /\ pc[g] = "idle"
    /\ pc' = [pc EXCEPT ![g] = where]
    /\ chef' = [chef EXCEPT ![g] = process]
    /\ output' = [output EXCEPT ![g] = "nothing"]
    /\ copied' = [copied EXCEPT ![g] = "nothing"]
    /\ result' = [result EXCEPT ![g] = outcome]
    /\ granted' = [granted EXCEPT ![g] = 0]
    /\ revoked' = [revoked EXCEPT ![g] = 0]
    /\ acl' = acl \ OwnDirs(g)
    /\ UNCHANGED <<backend, leaked>>

(* The chef is started at once; a VM is staged first. *)
StartChef(g) ==
    /\ backend[g] # "appcontainer"
    /\ Begin(g, "running", "started", "none")
    /\ UNCHANGED overlapped

(* The backend is not there, or its staging fails; seccomp reports exit
   status 126 where the others raise. *)
StartFails(g) ==
    /\ backend[g] # "appcontainer"
    /\ \E outcome \in {"raised"} \cup
            (IF backend[g] = "plain" THEN {"failed"} ELSE {}) :
          Begin(g, "idle", "off", outcome)
    /\ UNCHANGED overlapped

StartGranting(g) ==
    /\ backend[g] = "appcontainer"
    /\ Begin(g, "granting", "off", "none")
    /\ overlapped' = (overlapped \/ \E h \in Gateways :
                          backend[h] = "appcontainer" /\ pc[h] # "idle")

(* Faulty: the chef is launched before the window is granted. *)
GrantTwo(g) ==
    /\ pc[g] = "granting"
    /\ acl' = acl \cup {Dir(g, granted[g] + 1)}
    /\ granted' = [granted EXCEPT ![g] = @ + 1]
    /\ pc' = [pc EXCEPT ![g] = IF granted[g] = 1 THEN "launching" ELSE @]
    /\ UNCHANGED <<backend, chef, output, copied, result, revoked, leaked,
                   overlapped>>

Grant(g) ==
    /\ pc[g] = "granting"
    /\ acl' = acl \cup {Dir(g, granted[g] + 1)}
    /\ granted' = [granted EXCEPT ![g] = @ + 1]
    /\ pc' = [pc EXCEPT ![g] = IF granted[g] = 2 THEN "launching" ELSE @]
    /\ UNCHANGED <<backend, chef, output, copied, result, revoked, leaked,
                   overlapped>>

(* Faulty: the grants stand outside the `try`. *)
GrantRaisesAtOnce(g) ==
    /\ pc[g] = "granting"
    /\ result' = [result EXCEPT ![g] = "raised"]
    /\ pc' = [pc EXCEPT ![g] = "idle"]
    /\ UNCHANGED <<backend, chef, output, copied, grantVars, overlapped>>

(* icacls fails, possibly half way through the tree: the directory is not
   in the list of those to revoke. *)
GrantRaises(g) ==
    /\ pc[g] = "granting"
    /\ acl' \in {acl, acl \cup {Dir(g, granted[g] + 1)}}
    /\ leaked' = (leaked \/ (granted[g] = 1 /\ acl' # acl))
    /\ result' = [result EXCEPT ![g] = "raised"]
    /\ pc' = [pc EXCEPT ![g] = "revoking"]
    /\ UNCHANGED <<backend, chef, output, copied, granted, revoked,
                   overlapped>>

Launch(g) ==
    /\ pc[g] = "launching"
    /\ pc' = [pc EXCEPT ![g] = "running"]
    /\ chef' = [chef EXCEPT ![g] = "started"]
    /\ UNCHANGED <<backend, output, copied, result, grantVars, overlapped>>

LaunchRaises(g) ==
    /\ pc[g] = "launching"
    /\ result' = [result EXCEPT ![g] = "raised"]
    /\ pc' = [pc EXCEPT ![g] = "revoking"]
    /\ UNCHANGED <<backend, chef, output, copied, grantVars, overlapped>>

(* -------------------------------------------------------------------- *)
(* The chef (chef/chef_main.py), a process of its own.                   *)

Accessible(g, dirs) == backend[g] = "appcontainer" => dirs \subseteq acl

ChefStep(g, from, to, content) ==
    /\ chef[g] = from
    /\ chef' = [chef EXCEPT ![g] = to]
    /\ output' = [output EXCEPT ![g] = content]
    /\ UNCHANGED <<backend, pc, copied, result, grantVars, overlapped>>

ChefReads(g) ==
    /\ Accessible(g, {Dir(g, 1), Fixtures})
    /\ ChefStep(g, "started", "read", output[g])

ChefOpens(g) ==
    /\ Accessible(g, {Dir(g, 3)})
    /\ ChefStep(g, "read", "writing", "empty")

ChefFlushes(g) == ChefStep(g, "writing", "writing", "torn")

ChefCloses(g) == ChefStep(g, "writing", "done", "draft")

(* Exit with a status other than 0: the ticket does not verify, a file is
   missing or denied, a write fails. *)
ChefFails(g) ==
    \E from \in Busy : ChefStep(g, from, "failed", output[g])

(* -------------------------------------------------------------------- *)
(* The run ends.                                                         *)

(* Faulty: any output is a success. *)
ReportByOutput(g) == IF output[g] = "nothing" THEN "failed" ELSE "ok"

Report(g) == IF chef[g] = "done" THEN "ok" ELSE "failed"

ReturnPlain(g) ==
    /\ backend[g] = "plain" /\ chef[g] \in {"done", "failed"}
    /\ result' = [result EXCEPT ![g] = Report(g)]
    /\ pc' = [pc EXCEPT ![g] = "idle"]
    /\ chef' = [chef EXCEPT ![g] = "off"]
    /\ UNCHANGED <<backend, output, copied, grantVars, overlapped>>

ContainerExits(g) ==
    /\ backend[g] = "appcontainer" /\ chef[g] \in {"done", "failed"}
    /\ result' = [result EXCEPT ![g] = Report(g)]
    /\ pc' = [pc EXCEPT ![g] = "revoking"]
    /\ chef' = [chef EXCEPT ![g] = "off"]
    /\ UNCHANGED <<backend, output, copied, grantVars, overlapped>>

(* Faulty: the wait has no limit. *)
ContainerTimeoutNever(g) ==
    /\ backend[g] = "appcontainer" /\ chef[g] = "done"
    /\ result' = [result EXCEPT ![g] = "failed"]
    /\ pc' = [pc EXCEPT ![g] = "revoking"]
    /\ chef' = [chef EXCEPT ![g] = "off"]
    /\ UNCHANGED <<backend, output, copied, grantVars, overlapped>>

(* The job is terminated with everything in it, even a chef that finishes
   just then. *)
ContainerTimeout(g) ==
    /\ backend[g] = "appcontainer" /\ pc[g] = "running"
    /\ result' = [result EXCEPT ![g] = "failed"]
    /\ pc' = [pc EXCEPT ![g] = "revoking"]
    /\ chef' = [chef EXCEPT ![g] = "off"]
    /\ UNCHANGED <<backend, output, copied, grantVars, overlapped>>

(* What the disk of a VM holds that was stopped without a sync. *)
Unsynced(content) ==
    CASE content = "nothing" -> {"nothing"}
      [] content = "empty" -> {"nothing", "empty"}
      [] content = "torn" -> {"nothing", "empty", "torn"}
      [] content = "draft" -> Contents

(* The guest's init syncs and powers off when the chef has exited. *)
VmPowersOff(g) ==
    /\ backend[g] = "microvm" /\ chef[g] \in {"done", "failed"}
    /\ pc' = [pc EXCEPT ![g] = "collecting"]
    /\ chef' = [chef EXCEPT ![g] = "off"]
    /\ UNCHANGED <<backend, output, copied, result, grantVars, overlapped>>

(* The VM is killed at the timeout, or dies, at any moment. *)
VmStops(g) ==
    /\ backend[g] = "microvm" /\ pc[g] = "running"
    /\ \E content \in Unsynced(output[g]) :
          output' = [output EXCEPT ![g] = content]
    /\ pc' = [pc EXCEPT ![g] = "collecting"]
    /\ chef' = [chef EXCEPT ![g] = "off"]
    /\ UNCHANGED <<backend, copied, result, grantVars, overlapped>>

(* Output that is not empty is a success, whatever the exit status. *)
CollectOutput(g) ==
    /\ pc[g] = "collecting" /\ output[g] \in {"torn", "draft"}
    /\ copied' = [copied EXCEPT ![g] = output[g]]
    /\ result' = [result EXCEPT ![g] = "ok"]
    /\ pc' = [pc EXCEPT ![g] = "idle"]
    /\ UNCHANGED <<backend, chef, output, grantVars, overlapped>>

CollectNothing(g) ==
    /\ pc[g] = "collecting" /\ output[g] \in {"nothing", "empty"}
    /\ result' = [result EXCEPT ![g] = "failed"]
    /\ pc' = [pc EXCEPT ![g] = "idle"]
    /\ UNCHANGED <<backend, chef, output, copied, grantVars, overlapped>>

(* debugfs is missing, or the copy into the window is cut short. *)
CollectRaises(g) ==
    /\ pc[g] = "collecting"
    /\ \E content \in {"nothing", "empty", "torn"} :
          copied' = [copied EXCEPT ![g] = content]
    /\ result' = [result EXCEPT ![g] = "raised"]
    /\ pc' = [pc EXCEPT ![g] = "idle"]
    /\ UNCHANGED <<backend, chef, output, grantVars, overlapped>>

(* The `finally` of AppContainerSandbox.run: each directory of the list, in
   its order.  A revoke takes away whatever grant the directory has. *)
Revoke(g) ==
    /\ pc[g] = "revoking" /\ revoked[g] < granted[g]
    /\ acl' = acl \ {Dir(g, revoked[g] + 1)}
    /\ leaked' = (leaked /\ Dir(g, revoked[g] + 1) # Fixtures)
    /\ revoked' = [revoked EXCEPT ![g] = @ + 1]
    /\ UNCHANGED <<backend, progressVars, granted, overlapped>>

Revoked(g) ==
    /\ pc[g] = "revoking" /\ revoked[g] = granted[g]
    /\ pc' = [pc EXCEPT ![g] = "idle"]
    /\ UNCHANGED <<backend, chef, output, copied, result, grantVars,
                   overlapped>>

Holds(g) == revoked[g] < 2 /\ 2 <= granted[g]

(* A revoke that fails ends the loop, and its exception takes the place of
   the result. *)
RevokeRaises(g) ==
    /\ pc[g] = "revoking" /\ revoked[g] < granted[g]
    /\ result' = [result EXCEPT ![g] = "raised"]
    /\ leaked' = (leaked \/ Holds(g))
    /\ pc' = [pc EXCEPT ![g] = "idle"]
    /\ UNCHANGED <<backend, chef, output, copied, granted, revoked, acl,
                   overlapped>>

(* The gateway dies: the job dies with it, an icacls that was started ends
   on its own, nothing is revoked.  (A chef or a VM that outlives it has
   nobody to report to.) *)
Crash(g) ==
    /\ pc[g] # "idle"
    /\ acl' \in {acl} \cup (IF pc[g] = "granting"
                            THEN {acl \cup {Dir(g, granted[g] + 1)}} ELSE {})
    /\ leaked' = (leaked \/ Holds(g) \/ (granted[g] = 1 /\ acl' # acl))
    /\ result' = [result EXCEPT ![g] = "none"]
    /\ pc' = [pc EXCEPT ![g] = "idle"]
    /\ chef' = [chef EXCEPT ![g] = "off"]
    /\ UNCHANGED <<backend, output, copied, granted, revoked, overlapped>>

(* -------------------------------------------------------------------- *)

Start(g) == StartChef(g) \/ StartFails(g) \/ StartGranting(g)

Chef(g) ==
    ChefReads(g) \/ ChefOpens(g) \/ ChefFlushes(g) \/ ChefCloses(g)
    \/ ChefFails(g)

(* The steps the gateway takes by itself, or after its timeout. *)
Host(g) ==
    \/ Grant(g) \/ Launch(g) \/ LaunchRaises(g) \/ GrantRaises(g)
    \/ ReturnPlain(g)
    \/ ContainerExits(g) \/ ContainerTimeout(g)
    \/ VmPowersOff(g) \/ VmStops(g)
    \/ CollectOutput(g) \/ CollectNothing(g) \/ CollectRaises(g)
    \/ Revoke(g) \/ Revoked(g) \/ RevokeRaises(g)

Next == \E g \in Gateways : Start(g) \/ Chef(g) \/ Host(g) \/ Crash(g)

Spec == Init /\ [][Next]_vars

(* A gateway carries on with its run, and its timeouts expire.  Nothing is
   assumed of the chef. *)
FairSpec == Spec /\ \A g \in Gateways : WF_vars(Host(g))

(***************************************************************************)
(* Properties                                                              *)
(***************************************************************************)

(* The type of every variable. *)
TypeOK ==
    /\ backend \in [Gateways -> Backends]
    /\ pc \in [Gateways -> {"idle", "granting", "launching", "running",
                            "collecting", "revoking"}]
    /\ chef \in [Gateways -> Busy \cup {"off", "done", "failed"}]
    /\ output \in [Gateways -> Contents] /\ copied \in [Gateways -> Contents]
    /\ result \in [Gateways -> Results]
    /\ granted \in [Gateways -> 0..3] /\ revoked \in [Gateways -> 0..3]
    /\ acl \subseteq (Gateways \cup {Kitchen}) \X (1..3)
    /\ leaked \in BOOLEAN /\ overlapped \in BOOLEAN

(* runner.py takes exit status 0 for a draft: whatever other runs do to the
   grants meanwhile, a backend without a VM that reports success leaves the
   whole draft; a VM leaves at least something, and nothing if it reports a
   failure. *)
ReportIsOutput ==
    \A g \in Gateways :
        IF backend[g] = "microvm"
        THEN /\ result[g] = "ok" => Window(g) \in {"torn", "draft"}
             /\ result[g] = "failed" => Window(g) = "nothing"
        ELSE result[g] = "ok" => Window(g) = "draft"

(* appcontainer.py, "Grants: workspace RX, kitchen scope RX, serving window
   M": a chef that works has access to what it needs until it ends, as long
   as AppContainer runs do not overlap. *)
GrantsLast ==
    ~overlapped =>
        \A g \in Gateways :
            backend[g] = "appcontainer" /\ chef[g] \in Busy =>
                Needs(g) \subseteq acl

(* The grant on the fixtures, which outlive every run, is held by a run
   that will revoke it, or was left behind by one that died or whose icacls
   failed, and has not been revoked by another since. *)
NoGrantLeft ==
    Fixtures \in acl =>
        leaked \/ \E g \in Gateways : pc[g] # "idle" /\ Holds(g)

(* A run with a timeout ends although the chef hangs. *)
RunEnds ==
    \A g \in Gateways :
        backend[g] # "plain" /\ pc[g] # "idle" ~> pc[g] = "idle"

(* runner.py: success is "chef exit 0 WITH a readable draft". *)
SuccessIsWholeDraft ==
    \A g \in Gateways : result[g] = "ok" => Window(g) = "draft"

=============================================================================
