------------------------------- MODULE AppHome -------------------------------
(***************************************************************************)
(* The per-user home of an installed Sentinel (apphome.py) and the         *)
(* programs that set it up and live in it: sentinel-init (init_app.py,     *)
(* keygen.py), the desktop app's first-run readiness (app/firstrun.py),    *)
(* the installer (installer.py) and a gateway (mcp_gateway.py,             *)
(* loop.build_default).                                                    *)
(*                                                                         *)
(* The home is a handful of files, each rewritten in place: opening a file *)
(* empties it, closing it leaves the new content.  Nothing is locked, so   *)
(* several set-up runs may be in progress at once and each may die between *)
(* two of its writes.                                                      *)
(***************************************************************************)
EXTENDS Naturals

CONSTANTS
    Setups,         \* set-up runs that may be in progress side by side
    Keys,           \* key pairs that may be generated
    NoKey, Torn,    \* a key file that is absent; one that was emptied
    Available,      \* TRUE: appcontainer.is_available() on this machine
    MaxRuns         \* bound of the model: set-up runs ever started

ASSUME AppHomeAssumption ==
    /\ {NoKey, Torn} \cap Keys = {} /\ NoKey # Torn
    /\ Available \in BOOLEAN
    /\ MaxRuns \in Nat

VARIABLES
    private, public,    \* the two PEM files of the home
    marker,             \* sandbox.json
    granted,            \* the container may read and execute the runtime
    runtime,            \* the installed Python environment exists
    setup,              \* what each set-up run is and where it stands
    signer, contained,  \* the key in a gateway's memory and its backend
    signedBy,           \* the keys that signed a receipt of the home's ledger
    started,            \* how many set-up runs were started
    mishaps             \* what went wrong so far

keyFiles == <<private, public>>
sandboxVars == <<marker, granted>>
gatewayVars == <<signer, contained, signedBy>>
vars == <<private, public, marker, granted, runtime, setup, signer, contained,
          signedBy, started, mishaps>>

KeyFile == Keys \cup {NoKey, Torn}

(* The steps of a run between its decision to generate a pair and the end of
   the second file. *)
KeySteps == {"emptyPrivate", "writePrivate", "emptyPublic", "writePublic"}

Locations ==
    {"off", "venv", "readiness", "init", "sandbox", "grant", "emptyMarker",
     "writeMarker", "open"} \cup KeySteps

(* sentinel-init [--force] [--sandbox], the installer, or the app; `enabled`
   is Readiness.sandbox_enabled as the app read it, `held` the pair a run has
   generated. *)
Run ==
    [at : Locations, program : {"init", "install", "open"}, force : BOOLEAN,
     sandbox : BOOLEAN, enabled : BOOLEAN, held : Keys \cup {NoKey}]

Off == [at |-> "off", program |-> "init", force |-> FALSE, sandbox |-> FALSE,
        enabled |-> FALSE, held |-> NoKey]

InitRuns ==
    [at : {"init"}, program : {"init"}, force : BOOLEAN, sandbox : BOOLEAN,
     enabled : {FALSE}, held : {NoKey}]

(* sentinel-keygen --keys, on the keys of this home: the same without the
   sandbox. *)
KeygenRuns == {r \in InitRuns : ~r.sandbox}

InstallRuns ==
    [at : {"venv"}, program : {"install"}, force : {FALSE}, sandbox : BOOLEAN,
     enabled : {FALSE}, held : {NoKey}]

OpenRun ==
    [Off EXCEPT !.at = "readiness", !.program = "open", !.sandbox = TRUE]

(* is_initialized: there is a private key file, whatever is in it. *)
Initialized == private # NoKey

(* read_sandbox_backend: the marker is there and can be read. *)
MarkerRead == marker = "set"

(* No set-up run is between two of its steps. *)
Quiet == \A p \in Setups : setup[p].at \in {"off", "open"}

Happened(what) == what \cap mishaps # {}

Init ==
    /\ private = NoKey /\ public = NoKey
    /\ marker = "absent" /\ granted = FALSE /\ runtime = FALSE
    /\ setup = [p \in Setups |-> Off]
    /\ signer = NoKey /\ contained = FALSE /\ signedBy = {}
    /\ started = 0 /\ mishaps = {}

GoTo(p, location) == setup' = [setup EXCEPT ![p].at = location]

Leave(p) == setup' = [setup EXCEPT ![p] = Off]

(* -------------------------------------------------------------------- *)
(* Starting a run.  The installer brings the runtime the others need.    *)

Start(p, r) ==
    /\ setup[p].at = "off" /\ started < MaxRuns
    /\ started' = started + 1
    /\ setup' = [setup EXCEPT ![p] = r]
    /\ UNCHANGED <<keyFiles, sandboxVars, runtime, gatewayVars, mishaps>>

StartInit(p) == runtime /\ \E r \in InitRuns : Start(p, r)
StartKeygen(p) == runtime /\ \E r \in KeygenRuns : Start(p, r)
StartInstall(p) == \E r \in InstallRuns : Start(p, r)
OpenApp(p) == runtime /\ Start(p, OpenRun)

MakeRuntime(p) ==
    /\ setup[p].at = "venv"
    /\ runtime' = TRUE
    /\ GoTo(p, "init")
    /\ UNCHANGED <<keyFiles, sandboxVars, gatewayVars, started, mishaps>>

(* Faulty: any marker file counts, be it empty. *)
CheckAnyMarker(p) ==
    /\ setup[p].at = "readiness"
    /\ setup' = [setup EXCEPT
                    ![p].enabled = (marker # "absent"),
                    ![p].at = IF Initialized THEN "sandbox" ELSE "init"]
    /\ UNCHANGED <<keyFiles, sandboxVars, runtime, gatewayVars, started,
                   mishaps>>

(* ensure_ready looks at the home once, before it does anything. *)
CheckReadiness(p) ==
    /\ setup[p].at = "readiness"
    /\ setup' = [setup EXCEPT
                    ![p].enabled = MarkerRead,
                    ![p].at = IF Initialized THEN "sandbox" ELSE "init"]
    /\ UNCHANGED <<keyFiles, sandboxVars, runtime, gatewayVars, started,
                   mishaps>>

(* -------------------------------------------------------------------- *)
(* sentinel-init.                                                        *)

(* A run that finds a key and may not replace it returns 1: the app goes on,
   for the installer "already initialized" is fine. *)
Refuse(p) ==
    /\ setup[p].at = "init" /\ Initialized /\ ~setup[p].force
    /\ IF setup[p].program = "open" THEN GoTo(p, "sandbox") ELSE Leave(p)
    /\ UNCHANGED <<keyFiles, sandboxVars, runtime, gatewayVars, started,
                   mishaps>>

Generating(p) == {q \in Setups \ {p} : setup[q].at \in KeySteps}

UnusedKeys ==
    {k \in Keys : k \notin {private, public, signer} \cup signedBy
                     \cup {setup[p].held : p \in Setups}}

(* Faulty: an existing key is replaced without --force. *)
GenerateAnyway(p) ==
    /\ setup[p].at = "init"
    /\ \E k \in UnusedKeys :
          setup' = [setup EXCEPT ![p].held = k, ![p].at = "emptyPrivate"]
    /\ mishaps' = mishaps \cup (IF setup[p].force THEN {"forced"} ELSE {})
                          \cup (IF Generating(p) # {} THEN {"overlap"} ELSE {})
    /\ UNCHANGED <<keyFiles, sandboxVars, runtime, gatewayVars, started>>

Generate(p) ==
    /\ setup[p].at = "init" /\ (~Initialized \/ setup[p].force)
    /\ \E k \in UnusedKeys :
          setup' = [setup EXCEPT ![p].held = k, ![p].at = "emptyPrivate"]
    /\ mishaps' = mishaps \cup (IF setup[p].force THEN {"forced"} ELSE {})
                          \cup (IF Generating(p) # {} THEN {"overlap"} ELSE {})
    /\ UNCHANGED <<keyFiles, sandboxVars, runtime, gatewayVars, started>>

EmptyPrivate(p) ==
    /\ setup[p].at = "emptyPrivate"
    /\ private' = Torn
    /\ GoTo(p, "writePrivate")
    /\ UNCHANGED <<public, sandboxVars, runtime, gatewayVars, started,
                   mishaps>>

WritePrivate(p) ==
    /\ setup[p].at = "writePrivate"
    /\ private' = setup[p].held
    /\ GoTo(p, "emptyPublic")
    /\ UNCHANGED <<public, sandboxVars, runtime, gatewayVars, started,
                   mishaps>>

EmptyPublic(p) ==
    /\ setup[p].at = "emptyPublic"
    /\ public' = Torn
    /\ GoTo(p, "writePublic")
    /\ UNCHANGED <<private, sandboxVars, runtime, gatewayVars, started,
                   mishaps>>

WritePublic(p) ==
    /\ setup[p].at = "writePublic"
    /\ public' = setup[p].held
    /\ setup' = [setup EXCEPT ![p].held = NoKey, ![p].at = "sandbox"]
    /\ UNCHANGED <<private, sandboxVars, runtime, gatewayVars, started,
                   mishaps>>

(* -------------------------------------------------------------------- *)
(* The containment backend: the grants, then the marker.                 *)

WantsSandbox(p) == Available /\ setup[p].sandbox /\ ~setup[p].enabled

(* A program that is done: the app shows its window, the others exit. *)
Finish(p) ==
    IF setup[p].program = "open" THEN GoTo(p, "open") ELSE Leave(p)

(* Faulty: the marker is written before the runtime is granted. *)
MarkFirst(p) ==
    /\ setup[p].at = "sandbox"
    /\ IF WantsSandbox(p) THEN GoTo(p, "grant") ELSE Finish(p)
    /\ marker' = IF WantsSandbox(p) THEN "set" ELSE marker
    /\ UNCHANGED <<keyFiles, granted, runtime, gatewayVars, started, mishaps>>

DecideSandbox(p) ==
    /\ setup[p].at = "sandbox"
    /\ IF WantsSandbox(p) THEN GoTo(p, "grant") ELSE Finish(p)
    /\ UNCHANGED <<keyFiles, sandboxVars, runtime, gatewayVars, started,
                   mishaps>>

GrantRuntime(p) ==
    /\ setup[p].at = "grant"
    /\ granted' = TRUE
    /\ GoTo(p, "emptyMarker")
    /\ UNCHANGED <<keyFiles, marker, runtime, gatewayVars, started, mishaps>>

(* icacls fails: the exception ends the program, the app opens no window. *)
GrantRaises(p) ==
    /\ setup[p].at = "grant"
    /\ Leave(p)
    /\ UNCHANGED <<keyFiles, sandboxVars, runtime, gatewayVars, started,
                   mishaps>>

EmptyMarker(p) ==
    /\ setup[p].at = "emptyMarker"
    /\ marker' = "torn"
    /\ GoTo(p, "writeMarker")
    /\ UNCHANGED <<keyFiles, granted, runtime, gatewayVars, started, mishaps>>

WriteMarker(p) ==
    /\ setup[p].at = "writeMarker"
    /\ marker' = "set"
    /\ Finish(p)
    /\ UNCHANGED <<keyFiles, granted, runtime, gatewayVars, started, mishaps>>

(* -------------------------------------------------------------------- *)
(* The end of a program, expected or not.                                *)

CloseApp(p) ==
    /\ setup[p].at = "open"
    /\ Leave(p)
    /\ UNCHANGED <<keyFiles, sandboxVars, runtime, gatewayVars, started,
                   mishaps>>

(* A run dies to some harm while the key files are half done, and beside
   another run while the marker is: alone it is written anew next time. *)
Harmful(p) ==
    \/ setup[p].at \in {"writePrivate", "emptyPublic", "writePublic"}
    \/ setup[p].at = "writeMarker" /\ \E q \in Setups \ {p} : setup[q].at # "off"

Crash(p) ==
    /\ setup[p].at \notin {"off", "open"}
    /\ Leave(p)
    /\ mishaps' = mishaps \cup (IF Harmful(p) THEN {"crash"} ELSE {})
    /\ UNCHANGED <<keyFiles, sandboxVars, runtime, gatewayVars, started>>

(* uninstall, with the app closed: the grants are withdrawn, unless that
   fails, and the runtime is deleted a while later, unless a gateway still
   runs from it.  The home stays as it is. *)
Uninstall ==
    /\ runtime /\ \A p \in Setups : setup[p].at = "off"
    /\ \/ /\ signer = NoKey /\ runtime' = FALSE /\ granted' = FALSE
          /\ mishaps' = mishaps \cup {"uninstalled"}
       \/ /\ runtime' = TRUE /\ granted' \in {FALSE, granted}
          /\ mishaps' = mishaps \cup {"uninstalled", "remains"}
    /\ UNCHANGED <<keyFiles, marker, setup, gatewayVars, started>>

(* -------------------------------------------------------------------- *)
(* A gateway over the home.                                              *)

(* Faulty: whatever the key file holds is taken for a key. *)
StartGatewayUnread ==
    /\ signer = NoKey /\ runtime /\ private # NoKey
    /\ signer' = private
    /\ contained' = (Available /\ MarkerRead)
    /\ UNCHANGED <<keyFiles, sandboxVars, runtime, setup, signedBy, started,
                   mishaps>>

(* Faulty: a container that is available is used, marker or not. *)
StartGatewayUnmarked ==
    /\ signer = NoKey /\ runtime /\ private \in Keys
    /\ signer' = private
    /\ contained' = Available
    /\ UNCHANGED <<keyFiles, sandboxVars, runtime, setup, signedBy, started,
                   mishaps>>

(* main, _resolve_sandbox and build_default: the marker chooses the backend,
   the private key is read once.  An absent key makes it exit with 2, an
   empty one with a traceback. *)
StartGateway ==
    /\ signer = NoKey /\ runtime /\ private \in Keys
    /\ signer' = private
    /\ contained' = (Available /\ MarkerRead)
    /\ UNCHANGED <<keyFiles, sandboxVars, runtime, setup, signedBy, started,
                   mishaps>>

StopGateway ==
    /\ signer # NoKey
    /\ signer' = NoKey /\ contained' = FALSE
    /\ UNCHANGED <<keyFiles, sandboxVars, runtime, setup, signedBy, started,
                   mishaps>>

(* An order leaves a receipt signed with the key in memory, whether its chef
   could verify the ticket or not. *)
PlaceOrder ==
    /\ signer # NoKey
    /\ signedBy' = signedBy \cup {signer}
    /\ UNCHANGED <<keyFiles, sandboxVars, runtime, setup, signer, contained,
                   started, mishaps>>

(* The chef accepts the ticket if the public key file is the signer's, and
   runs in a container if the container may execute the runtime. *)
ChefRuns == public = signer /\ (contained => granted)

(* activity_report of the app: the signatures are checked if the public key
   can be loaded, and the chain is taken as it is if not. *)
ActivityChainValid == public \in Keys => signedBy \subseteq {public}

(* -------------------------------------------------------------------- *)

Begin(p) == StartInit(p) \/ StartKeygen(p) \/ StartInstall(p) \/ OpenApp(p)

KeyStep(p) ==
    Generate(p) \/ EmptyPrivate(p) \/ WritePrivate(p) \/ EmptyPublic(p)
        \/ WritePublic(p)

SandboxStep(p) ==
    DecideSandbox(p) \/ GrantRuntime(p) \/ GrantRaises(p) \/ EmptyMarker(p)
        \/ WriteMarker(p)

Setup(p) ==
    \/ Begin(p) \/ MakeRuntime(p) \/ CheckReadiness(p) \/ Refuse(p)
    \/ KeyStep(p) \/ SandboxStep(p)
    \/ CloseApp(p) \/ Crash(p)

Gateway == StartGateway \/ StopGateway \/ PlaceOrder

Next == (\E p \in Setups : Setup(p)) \/ Uninstall \/ Gateway

Spec == Init /\ [][Next]_vars

(***************************************************************************)
(* Properties                                                              *)
(***************************************************************************)

(* The type of every variable. *)
TypeOK ==
    /\ private \in KeyFile /\ public \in KeyFile
    /\ marker \in {"absent", "torn", "set"}
    /\ granted \in BOOLEAN /\ runtime \in BOOLEAN
    /\ setup \in [Setups -> Run]
    /\ signer \in Keys \cup {NoKey} /\ contained \in BOOLEAN
    /\ signedBy \subseteq Keys
    /\ started \in Nat
    /\ mishaps \subseteq
           {"forced", "overlap", "crash", "uninstalled", "remains"}

(* Receipts do not stop verifying by themselves: until somebody says --force,
   and unless two programs generate at once, the public key of the home
   verifies every receipt of its ledger, through crashes, second
   installations and however often the app is opened. *)
LedgerVerifies ==
    ~Happened({"forced", "overlap"}) => ActivityChainValid

(* The marker tells the truth about the grants, through failed and
   interrupted set-ups, as long as nobody uninstalls. *)
MarkerAfterGrants ==
    marker = "set" /\ ~Happened({"uninstalled"}) => granted

(* A gateway that runs beside a home at rest serves: its tickets pass the
   chef's check and its container can start. *)
GatewayServes ==
    Quiet /\ signer # NoKey /\ mishaps = {} => ChefRuns

(* app/firstrun.py: what an app that has opened needs of its home. *)
Usable ==
    /\ private = public /\ private \in Keys
    /\ Available => marker = "set" /\ granted

(* The two key files of a home at rest are a pair, or both absent: only a
   crash between them or two generations side by side part them.  And an app
   that has opened finds a usable home, however many set-ups failed or were
   interrupted before, as long as nobody uninstalls. *)
HomeAtRest ==
    Quiet /\ ~Happened({"crash", "overlap"}) =>
        /\ private = public /\ private # Torn
        /\ ~Happened({"uninstalled"}) =>
               \A p \in Setups : setup[p].at = "open" => Usable

(* app/firstrun.py, "bring the app home to a usable state": the same of a
   home that has been uninstalled completely and installed again. *)
ReinstalledIsUsable ==
    Quiet /\ ~Happened({"crash", "overlap", "remains"}) =>
        \A p \in Setups : setup[p].at = "open" => Usable

=============================================================================
