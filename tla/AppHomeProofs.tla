---------------------------- MODULE AppHomeProofs ----------------------------
(***************************************************************************)
(* Theorems about AppHome, for any number of set-up runs side by side and  *)
(* any supply of keys.                                                     *)
(***************************************************************************)
EXTENDS AppHome, TLAPS

(***************************************************************************)
(* What a step does to the table of runs.                                  *)
(***************************************************************************)

(* Every other run stays as it is. *)
Others(p) == \A q \in Setups \ {p} : setup'[q] = setup[q]

(* The run goes on as the program it is. *)
SameProgram(p) ==
    /\ setup'[p].program = setup[p].program
    /\ setup'[p].sandbox = setup[p].sandbox
    /\ setup'[p].enabled = setup[p].enabled

LEMMA OffIsRun == /\ Off \in Run /\ Off.at = "off"
                  /\ ~Off.enabled /\ Off.program = "init"
BY DEF Off, Run, Locations

LEMMA GoToFacts ==
    ASSUME TypeOK, NEW p \in Setups, NEW location \in Locations,
           GoTo(p, location)
    PROVE  /\ setup' \in [Setups -> Run]
           /\ setup'[p].at = location /\ setup'[p].held = setup[p].held
           /\ SameProgram(p) /\ Others(p)
<1> DEFINE moved == [setup[p] EXCEPT !.at = location]
<1>1. setup[p] \in Run
  BY DEF TypeOK
<1>2. /\ moved \in Run /\ moved.at = location
      /\ moved.held = setup[p].held /\ moved.program = setup[p].program
      /\ moved.sandbox = setup[p].sandbox /\ moved.enabled = setup[p].enabled
  BY <1>1 DEF Run
<1>3. setup' = [setup EXCEPT ![p] = moved]
  BY DEF GoTo
<1> HIDE DEF moved
<1> QED
  BY <1>2, <1>3 DEF TypeOK, Others, SameProgram

LEMMA LeaveFacts ==
    ASSUME TypeOK, NEW p \in Setups, Leave(p)
    PROVE  setup' \in [Setups -> Run] /\ setup'[p] = Off /\ Others(p)
BY OffIsRun DEF Leave, TypeOK, Others

LEMMA StartFacts ==
    ASSUME TypeOK, NEW p \in Setups, Begin(p)
    PROVE  /\ setup' \in [Setups -> Run] /\ Others(p)
           /\ setup[p].at = "off" /\ setup'[p].held = NoKey
           /\ setup'[p].at \in {"init", "venv", "readiness"}
           /\ setup'[p].program = "open" => setup'[p].sandbox
           /\ ~setup'[p].enabled
           /\ started' \in Nat
           /\ UNCHANGED <<keyFiles, sandboxVars, runtime, gatewayVars, mishaps>>
<1>1. ASSUME NEW r \in InitRuns \cup InstallRuns \cup {OpenRun}
      PROVE  /\ r \in Run /\ r.held = NoKey
             /\ r.at \in {"init", "venv", "readiness"}
             /\ r.program = "open" => r.sandbox
             /\ ~r.enabled
  <2>1. CASE r \in InitRuns
    BY <2>1 DEF InitRuns, Run, Locations
  <2>2. CASE r \in InstallRuns
    BY <2>2 DEF InstallRuns, Run, Locations
  <2>3. CASE r = OpenRun
    <3>1. r = [at |-> "readiness", program |-> "open", force |-> FALSE,
               sandbox |-> TRUE, enabled |-> FALSE, held |-> NoKey]
      BY <2>3 DEF OpenRun, Off
    <3> QED
      BY <3>1 DEF Run, Locations
  <2> QED
    BY <2>1, <2>2, <2>3
<1>2. \E r \in InitRuns \cup InstallRuns \cup {OpenRun} : Start(p, r)
  BY DEF Begin, StartInit, StartKeygen, StartInstall, OpenApp, KeygenRuns
<1>3. PICK r \in InitRuns \cup InstallRuns \cup {OpenRun} : Start(p, r)
  BY <1>2
<1>4. setup' = [setup EXCEPT ![p] = r] /\ started' = started + 1
  BY <1>3 DEF Start
<1> QED
  BY <1>1, <1>3, <1>4 DEF Start, TypeOK, Others

LEMMA FinishFacts ==
    ASSUME TypeOK, NEW p \in Setups, Finish(p)
    PROVE  /\ setup' \in [Setups -> Run] /\ Others(p)
           /\ \/ /\ setup[p].program = "open"
                 /\ setup'[p].at = "open" /\ SameProgram(p)
              \/ setup'[p] = Off
<1>1. CASE setup[p].program = "open"
  BY <1>1, GoToFacts DEF Finish, Locations
<1>2. CASE setup[p].program # "open"
  BY <1>2, LeaveFacts DEF Finish
<1> QED
  BY <1>1, <1>2

(***************************************************************************)
(* Type correctness.                                                       *)
(***************************************************************************)

LEMMA InitTypeOK == Init => TypeOK
<1> SUFFICES ASSUME Init PROVE TypeOK
  OBVIOUS
<1>1. /\ private \in KeyFile /\ public \in KeyFile
      /\ marker \in {"absent", "torn", "set"}
      /\ signer \in Keys \cup {NoKey}
      /\ signedBy \subseteq Keys /\ started \in Nat
  BY DEF Init, KeyFile
<1>2. granted \in BOOLEAN /\ runtime \in BOOLEAN /\ contained \in BOOLEAN
  BY DEF Init
<1>3. setup \in [Setups -> Run]
  BY OffIsRun DEF Init
<1>4. mishaps \subseteq {"forced", "overlap", "crash", "uninstalled", "remains"}
  BY DEF Init
<1> QED
  BY <1>1, <1>2, <1>3, <1>4 DEF TypeOK

(* The two steps that write to the fields of a run. *)
LEMMA GenerateFacts ==
    ASSUME TypeOK, NEW p \in Setups, Generate(p)
    PROVE  /\ setup' \in [Setups -> Run] /\ Others(p)
           /\ setup'[p].held \in Keys /\ setup'[p].at = "emptyPrivate"
           /\ SameProgram(p)
<1>1. PICK k \in Keys :
          setup' = [setup EXCEPT ![p].held = k, ![p].at = "emptyPrivate"]
  BY DEF Generate, UnusedKeys
<1>2. setup[p] \in Run
  BY DEF TypeOK
<1>3. [setup[p] EXCEPT !.held = k, !.at = "emptyPrivate"] \in Run
  BY <1>2 DEF Run, Locations, KeySteps
<1>4. setup'[p] = [setup[p] EXCEPT !.held = k, !.at = "emptyPrivate"]
  BY <1>1 DEF TypeOK
<1>5. setup' \in [Setups -> Run] /\ Others(p)
  BY <1>1, <1>3 DEF TypeOK, Others
<1> QED
  BY <1>2, <1>4, <1>5 DEF Run, SameProgram

LEMMA WritePublicFacts ==
    ASSUME TypeOK, NEW p \in Setups, WritePublic(p)
    PROVE  /\ setup' \in [Setups -> Run] /\ Others(p)
           /\ setup'[p].at = "sandbox" /\ SameProgram(p)
<1> DEFINE done == [setup[p] EXCEPT !.held = NoKey, !.at = "sandbox"]
<1>1. setup[p] \in Run
  BY DEF TypeOK
<1>2. /\ done \in Run /\ done.at = "sandbox"
      /\ done.program = setup[p].program
      /\ done.sandbox = setup[p].sandbox /\ done.enabled = setup[p].enabled
  BY <1>1 DEF Run, Locations
<1>3. setup' = [setup EXCEPT ![p] = done]
  BY DEF WritePublic
<1> HIDE DEF done
<1> QED
  BY <1>2, <1>3 DEF TypeOK, Others, SameProgram

LEMMA CheckFacts ==
    ASSUME TypeOK, NEW p \in Setups, CheckReadiness(p)
    PROVE  /\ setup' \in [Setups -> Run] /\ Others(p)
           /\ setup'[p].at = IF Initialized THEN "sandbox" ELSE "init"
           /\ setup'[p].program = setup[p].program
           /\ setup'[p].sandbox = setup[p].sandbox
           /\ setup'[p].enabled = MarkerRead
<1> DEFINE place == IF Initialized THEN "sandbox" ELSE "init"
           seen == [setup[p] EXCEPT !.enabled = MarkerRead, !.at = place]
<1>1. setup[p] \in Run
  BY DEF TypeOK
<1>2. MarkerRead \in BOOLEAN /\ place \in Locations
  BY DEF MarkerRead, Locations
<1>3. setup' = [setup EXCEPT ![p] = seen]
  BY DEF CheckReadiness
<1>4. /\ seen \in Run /\ seen.at = place
      /\ seen.program = setup[p].program
      /\ seen.sandbox = setup[p].sandbox /\ seen.enabled = MarkerRead
  <2> HIDE DEF place
  <2> QED
    BY <1>1, <1>2 DEF Run
<1> HIDE DEF seen
<1> QED
  BY <1>3, <1>4 DEF TypeOK, Others

(* Uninstalling and the steps of the gateway leave the runs alone. *)
LEMMA UninstallType == TypeOK /\ Uninstall => TypeOK'
<1> SUFFICES ASSUME TypeOK, Uninstall PROVE TypeOK'
  OBVIOUS
<1>1. granted' \in BOOLEAN /\ runtime' \in BOOLEAN
  BY DEF Uninstall, TypeOK
<1>2. UNCHANGED <<private, public, marker, setup, signer, contained, signedBy,
                  started>>
  BY DEF Uninstall, keyFiles, gatewayVars
<1>3. mishaps' \subseteq {"forced", "overlap", "crash", "uninstalled", "remains"}
  BY DEF Uninstall, TypeOK
<1> QED
  BY <1>1, <1>2, <1>3 DEF TypeOK

LEMMA GatewayType == TypeOK /\ Gateway => TypeOK'
<1> SUFFICES ASSUME TypeOK, Gateway PROVE TypeOK'
  OBVIOUS
<1>1. UNCHANGED <<private, public, marker, granted, runtime, setup, started,
                  mishaps>>
  BY DEF Gateway, StartGateway, StopGateway, PlaceOrder, keyFiles, sandboxVars
<1>2. signer' \in Keys \cup {NoKey} /\ signedBy' \subseteq Keys
  BY DEF Gateway, StartGateway, StopGateway, PlaceOrder, TypeOK
<1>3. contained' \in BOOLEAN
  BY AppHomeAssumption
     DEF Gateway, StartGateway, StopGateway, PlaceOrder, MarkerRead, TypeOK
<1> QED
  BY <1>1, <1>2, <1>3 DEF TypeOK

LEMMA SetupType ==
    ASSUME TypeOK, NEW p \in Setups, Setup(p)
    PROVE  TypeOK'
<1>1. ASSUME UNCHANGED <<signer, contained, signedBy>>,
             private' \in KeyFile, public' \in KeyFile,
             marker' \in {"absent", "torn", "set"},
             granted' \in BOOLEAN, runtime' \in BOOLEAN, started' \in Nat,
             mishaps' \subseteq
                 mishaps \cup {"forced", "overlap", "crash"},
             setup' \in [Setups -> Run]
      PROVE  TypeOK'
  BY <1>1 DEF TypeOK
<1>2. setup[p] \in Run /\ setup[p].held \in Keys \cup {NoKey}
  BY DEF TypeOK, Run
<1>3. CASE Begin(p)
  BY <1>1, <1>3, StartFacts DEF TypeOK, keyFiles, sandboxVars, gatewayVars
<1>4. CASE MakeRuntime(p)
  BY <1>1, <1>4, GoToFacts
     DEF MakeRuntime, Locations, TypeOK, keyFiles, sandboxVars, gatewayVars
<1>5. CASE CheckReadiness(p)
  BY <1>1, <1>5, CheckFacts
     DEF CheckReadiness, TypeOK, keyFiles, sandboxVars, gatewayVars
<1>6. CASE Refuse(p)
  BY <1>1, <1>6, GoToFacts, LeaveFacts
     DEF Refuse, Locations, TypeOK, keyFiles, sandboxVars, gatewayVars
<1>7. CASE Generate(p)
  BY <1>1, <1>7, GenerateFacts
     DEF Generate, TypeOK, keyFiles, sandboxVars, gatewayVars
<1>8. CASE EmptyPrivate(p)
  BY <1>1, <1>8, GoToFacts
     DEF EmptyPrivate, Locations, KeySteps, KeyFile, TypeOK, sandboxVars,
         gatewayVars
<1>9. CASE WritePrivate(p)
  BY <1>1, <1>2, <1>9, GoToFacts
     DEF WritePrivate, Locations, KeySteps, KeyFile, TypeOK, sandboxVars,
         gatewayVars
<1>10. CASE EmptyPublic(p)
  BY <1>1, <1>10, GoToFacts
     DEF EmptyPublic, Locations, KeySteps, KeyFile, TypeOK, sandboxVars,
         gatewayVars
<1>11. CASE WritePublic(p)
  BY <1>1, <1>2, <1>11, WritePublicFacts
     DEF WritePublic, KeyFile, TypeOK, sandboxVars, gatewayVars
<1>12. CASE DecideSandbox(p)
  BY <1>1, <1>12, GoToFacts, FinishFacts
     DEF DecideSandbox, Locations, TypeOK, keyFiles, sandboxVars, gatewayVars
<1>13. CASE GrantRuntime(p)
  BY <1>1, <1>13, GoToFacts
     DEF GrantRuntime, Locations, TypeOK, keyFiles, gatewayVars
<1>14. CASE GrantRaises(p)
  BY <1>1, <1>14, LeaveFacts
     DEF GrantRaises, TypeOK, keyFiles, sandboxVars, gatewayVars
<1>15. CASE EmptyMarker(p)
  BY <1>1, <1>15, GoToFacts
     DEF EmptyMarker, Locations, TypeOK, keyFiles, gatewayVars
<1>16. CASE WriteMarker(p)
  BY <1>1, <1>16, FinishFacts DEF WriteMarker, TypeOK, keyFiles, gatewayVars
<1>17. CASE CloseApp(p)
  BY <1>1, <1>17, LeaveFacts
     DEF CloseApp, TypeOK, keyFiles, sandboxVars, gatewayVars
<1>18. CASE Crash(p)
  BY <1>1, <1>18, LeaveFacts
     DEF Crash, TypeOK, keyFiles, sandboxVars, gatewayVars
<1> QED
  BY <1>3, <1>4, <1>5, <1>6, <1>7, <1>8, <1>9, <1>10, <1>11, <1>12, <1>13,
     <1>14, <1>15, <1>16, <1>17, <1>18 DEF Setup, KeyStep, SandboxStep

LEMMA NextTypeOK == TypeOK /\ [Next]_vars => TypeOK'
<1> SUFFICES ASSUME TypeOK, [Next]_vars PROVE TypeOK'
  OBVIOUS
<1>1. CASE UNCHANGED vars
  BY <1>1 DEF vars, TypeOK
<1> QED
  BY <1>1, SetupType, UninstallType, GatewayType DEF Next

(* Every variable keeps its type. *)
THEOREM TypeCorrect == Spec => []TypeOK
BY InitTypeOK, NextTypeOK, PTL DEF Spec

(***************************************************************************)
(* The key files.                                                          *)
(***************************************************************************)

(* A step of one run that has nothing to do with the keys. *)
Aside(p) ==
    /\ Others(p)
    /\ setup[p].at \notin KeySteps /\ setup'[p].at \notin KeySteps
    /\ UNCHANGED <<keyFiles, gatewayVars, mishaps>>

(* A step outside the runs. *)
Outside ==
    /\ UNCHANGED <<keyFiles, setup>>
    /\ \A m \in {"forced", "overlap", "crash"} : m \in mishaps' <=> m \in mishaps

LEMMA KeyCases ==
    ASSUME TypeOK, NEW p \in Setups, Setup(p)
    PROVE  KeyStep(p) \/ Crash(p) \/ Aside(p)
<1>1. CASE Begin(p)
  BY <1>1, StartFacts DEF Aside, KeySteps
<1>2. CASE MakeRuntime(p)
  BY <1>2, GoToFacts DEF MakeRuntime, Locations, Aside, KeySteps, TypeOK, Run
<1>3. CASE CheckReadiness(p)
  <2>1. Others(p) /\ setup'[p].at \in {"sandbox", "init"}
    BY <1>3, CheckFacts
  <2>2. /\ setup[p].at = "readiness"
        /\ UNCHANGED <<keyFiles, gatewayVars, mishaps>>
    BY <1>3 DEF CheckReadiness
  <2> QED
    BY <2>1, <2>2 DEF Aside, KeySteps
<1>4. CASE Refuse(p)
  BY <1>4, GoToFacts, LeaveFacts, OffIsRun
     DEF Refuse, Locations, Aside, KeySteps, TypeOK, Run
<1>5. CASE DecideSandbox(p)
  BY <1>5, GoToFacts, FinishFacts, OffIsRun
     DEF DecideSandbox, Locations, Aside, KeySteps, TypeOK, Run
<1>6. CASE GrantRuntime(p) \/ EmptyMarker(p)
  BY <1>6, GoToFacts
     DEF GrantRuntime, EmptyMarker, Locations, Aside, KeySteps, TypeOK, Run
<1>7. CASE GrantRaises(p) \/ CloseApp(p)
  BY <1>7, LeaveFacts, OffIsRun DEF GrantRaises, CloseApp, Aside, KeySteps
<1>8. CASE WriteMarker(p)
  BY <1>8, FinishFacts, OffIsRun DEF WriteMarker, Aside, KeySteps, TypeOK, Run
<1> QED
  BY <1>1, <1>2, <1>3, <1>4, <1>5, <1>6, <1>7, <1>8 DEF Setup, SandboxStep

LEMMA OutsideCases ==
    TypeOK /\ (Uninstall \/ Gateway \/ UNCHANGED vars) => Outside
BY DEF Uninstall, Gateway, StartGateway, StopGateway, PlaceOrder, vars, Outside,
       keyFiles

(* The places of the two runs that take a step with the keys. *)
LEMMA KeyPlaces ==
    ASSUME TypeOK, NEW p \in Setups, KeyStep(p)
    PROVE  /\ Others(p) /\ setup' \in [Setups -> Run]
           /\ \/ /\ Generate(p) /\ setup[p].at = "init"
                 /\ setup'[p].at = "emptyPrivate" /\ setup'[p].held \in Keys
              \/ /\ EmptyPrivate(p) /\ setup[p].at = "emptyPrivate"
                 /\ setup'[p].at = "writePrivate"
                 /\ setup'[p].held = setup[p].held
              \/ /\ WritePrivate(p) /\ setup[p].at = "writePrivate"
                 /\ setup'[p].at = "emptyPublic"
                 /\ setup'[p].held = setup[p].held
              \/ /\ EmptyPublic(p) /\ setup[p].at = "emptyPublic"
                 /\ setup'[p].at = "writePublic"
                 /\ setup'[p].held = setup[p].held
              \/ /\ WritePublic(p) /\ setup[p].at = "writePublic"
                 /\ setup'[p].at = "sandbox"
           /\ UNCHANGED gatewayVars
<1>1. setup[p] \in Run
  BY DEF TypeOK
<1>2. CASE Generate(p)
  BY <1>2, GenerateFacts DEF Generate
<1>3. CASE EmptyPrivate(p)
  BY <1>1, <1>3, GoToFacts DEF EmptyPrivate, Locations, KeySteps, Run
<1>4. CASE WritePrivate(p)
  BY <1>1, <1>4, GoToFacts DEF WritePrivate, Locations, KeySteps, Run
<1>5. CASE EmptyPublic(p)
  BY <1>1, <1>5, GoToFacts DEF EmptyPublic, Locations, KeySteps, Run
<1>6. CASE WritePublic(p)
  BY <1>1, <1>6, WritePublicFacts DEF WritePublic, Run
<1> QED
  BY <1>2, <1>3, <1>4, <1>5, <1>6 DEF KeyStep

(* A run that writes keys holds a pair, and it is alone with that. *)
KeyInv ==
    /\ \A p \in Setups : setup[p].at \in KeySteps => setup[p].held \in Keys
    /\ "overlap" \notin mishaps =>
           \A p \in Setups, q \in Setups :
               setup[p].at \in KeySteps /\ setup[q].at \in KeySteps => p = q

LEMMA InitKeys == Init => KeyInv
BY DEF Init, KeyInv, Off, KeySteps

LEMMA NextKeys == TypeOK /\ KeyInv /\ [Next]_vars => KeyInv'
<1> SUFFICES ASSUME TypeOK, KeyInv, [Next]_vars PROVE KeyInv'
  OBVIOUS
<1>1. ASSUME NEW p \in Setups, KeyStep(p) PROVE KeyInv'
  <2>1. CASE Generate(p)
    BY <1>1, <2>1, KeyPlaces
       DEF Generate, Generating, KeyInv, KeySteps, Others
  <2>2. CASE setup[p].at \in KeySteps
    <3>1. UNCHANGED mishaps
      BY <1>1, <2>2 DEF KeyStep, KeySteps, Generate, EmptyPrivate,
                        WritePrivate, EmptyPublic, WritePublic
    <3> QED
      BY <1>1, <2>2, <3>1, KeyPlaces DEF KeyInv, KeySteps, Others, Generate
  <2> QED
    BY <1>1, <2>1, <2>2, KeyPlaces DEF KeySteps
<1>2. ASSUME NEW p \in Setups, Crash(p) PROVE KeyInv'
  <2>1. mishaps \subseteq mishaps' /\ setup'[p].at = "off" /\ Others(p)
    BY <1>2, LeaveFacts, OffIsRun DEF Crash
  <2> QED
    BY <2>1 DEF KeyInv, KeySteps, Others
<1>3. ASSUME NEW p \in Setups, Aside(p) PROVE KeyInv'
  BY <1>3 DEF Aside, KeyInv, Others
<1>4. CASE Outside
  BY <1>4 DEF Outside, KeyInv
<1> QED
  BY <1>1, <1>2, <1>3, <1>4, KeyCases, OutsideCases DEF Next

(* The two files are a pair except between the writes of a run. *)
PairInv ==
    "crash" \notin mishaps /\ "overlap" \notin mishaps =>
        /\ \/ private = public /\ private # Torn
           \/ \E p \in Setups : setup[p].at \in KeySteps \ {"emptyPrivate"}
        /\ \A p \in Setups :
               setup[p].at \in {"emptyPublic", "writePublic"} =>
                   private = setup[p].held

LEMMA InitPair == Init => PairInv
BY AppHomeAssumption DEF Init, PairInv, Off

LEMMA NextPair == TypeOK /\ KeyInv /\ PairInv /\ [Next]_vars => PairInv'
<1> SUFFICES ASSUME TypeOK, KeyInv, PairInv, [Next]_vars,
                    "crash" \notin mishaps', "overlap" \notin mishaps'
             PROVE  PairInv'
  BY DEF PairInv
<1>1. ASSUME NEW p \in Setups, KeyStep(p) PROVE PairInv'
  <2>1. "crash" \notin mishaps /\ "overlap" \notin mishaps
    BY <1>1 DEF KeyStep, Generate, EmptyPrivate, WritePrivate, EmptyPublic,
                WritePublic
  <2>2. \A q \in Setups \ {p} : setup[q].at \notin KeySteps
    <3>1. CASE Generate(p)
      BY <3>1 DEF Generate, Generating
    <3>2. CASE setup[p].at \in KeySteps
      BY <3>2, <2>1 DEF KeyInv
    <3> QED
      BY <1>1, <3>1, <3>2, KeyPlaces DEF KeySteps
  <2>3. \A q \in Setups \ {p} : setup'[q].at \notin KeySteps
    BY <1>1, <2>2, KeyPlaces DEF Others
  <2>4. CASE Generate(p)
    <3>1. private = public /\ private # Torn
      BY <2>1, <2>2, <2>4 DEF PairInv, Generate, KeySteps
    <3>2. UNCHANGED <<private, public>> /\ setup'[p].at = "emptyPrivate"
      BY <2>4, GenerateFacts DEF Generate, keyFiles
    <3> QED
      BY <2>3, <3>1, <3>2 DEF PairInv, KeySteps
  <2>5. CASE EmptyPrivate(p) \/ EmptyPublic(p)
    BY <1>1, <2>1, <2>3, <2>5, KeyPlaces
       DEF EmptyPrivate, EmptyPublic, PairInv, KeySteps
  <2>6. CASE WritePrivate(p)
    BY <1>1, <2>3, <2>6, KeyPlaces DEF WritePrivate, PairInv, KeySteps
  <2>7. CASE WritePublic(p)
    <3>1. setup[p].held \in Keys /\ private = setup[p].held
      BY <2>1, <2>7 DEF WritePublic, KeyInv, PairInv, KeySteps
    <3>2. private' = public' /\ private' # Torn /\ setup'[p].at = "sandbox"
      BY <2>7, <3>1, WritePublicFacts, AppHomeAssumption DEF WritePublic
    <3> QED
      BY <2>3, <3>2 DEF PairInv, KeySteps
  <2> QED
    BY <1>1, <2>4, <2>5, <2>6, <2>7 DEF KeyStep
<1>2. ASSUME NEW p \in Setups, Crash(p) PROVE PairInv'
  <2>1. /\ "crash" \notin mishaps /\ "overlap" \notin mishaps
        /\ ~Harmful(p) /\ UNCHANGED <<private, public>>
    BY <1>2 DEF Crash, keyFiles
  <2>2. setup'[p].at = "off" /\ Others(p)
    BY <1>2, LeaveFacts, OffIsRun DEF Crash
  <2>3. setup[p].at \notin {"writePrivate", "emptyPublic", "writePublic"}
    BY <2>1 DEF Harmful
  <2> QED
    BY <2>1, <2>2, <2>3 DEF PairInv, Others, KeySteps
<1>3. ASSUME NEW p \in Setups, Aside(p) PROVE PairInv'
  BY <1>3 DEF Aside, PairInv, Others, KeySteps, keyFiles
<1>4. CASE Outside
  BY <1>4 DEF Outside, PairInv, keyFiles
<1> QED
  BY <1>1, <1>2, <1>3, <1>4, KeyCases, OutsideCases DEF Next

(***************************************************************************)
(* The receipts of the home.                                               *)
(***************************************************************************)

(* Without --force a key that has signed is never replaced: a run that is
   about to write one found none. *)
SignedInv ==
    "forced" \notin mishaps /\ "overlap" \notin mishaps =>
        /\ signedBy \subseteq {private}
        /\ signer # NoKey => signer = private
        /\ public \in Keys => public = private
        /\ \A p \in Setups :
               /\ setup[p].at \in {"emptyPrivate", "writePrivate"} =>
                      private \notin Keys
               /\ setup[p].at \in {"emptyPublic", "writePublic"} =>
                      private = setup[p].held

LEMMA InitSigned == Init => SignedInv
BY DEF Init, SignedInv, Off

LEMMA NextSigned == TypeOK /\ KeyInv /\ SignedInv /\ [Next]_vars => SignedInv'
<1> SUFFICES ASSUME TypeOK, KeyInv, SignedInv, [Next]_vars,
                    "forced" \notin mishaps', "overlap" \notin mishaps'
             PROVE  SignedInv'
  BY DEF SignedInv
<1>1. ASSUME NEW p \in Setups, KeyStep(p) PROVE SignedInv'
  <2>1. "forced" \notin mishaps /\ "overlap" \notin mishaps
    BY <1>1 DEF KeyStep, Generate, EmptyPrivate, WritePrivate, EmptyPublic,
                WritePublic
  <2>2. \A q \in Setups \ {p} : setup'[q].at \notin KeySteps
    <3>1. CASE Generate(p)
      BY <3>1, GenerateFacts DEF Generate, Generating, Others
    <3>2. CASE setup[p].at \in KeySteps
      BY <1>1, <3>2, <2>1, KeyPlaces DEF KeyInv, Others
    <3> QED
      BY <1>1, <3>1, <3>2, KeyPlaces DEF KeySteps
  <2>3. UNCHANGED <<signer, signedBy>>
    BY <1>1, KeyPlaces DEF gatewayVars
  <2>4. NoKey \notin Keys /\ Torn \notin Keys
    BY AppHomeAssumption
  <2>5. CASE Generate(p)
    <3>1. private \notin Keys /\ UNCHANGED <<private, public>>
      BY <2>4, <2>5 DEF Generate, Initialized, keyFiles
    <3> QED
      BY <1>1, <2>1, <2>2, <2>3, <2>5, <3>1, GenerateFacts
         DEF SignedInv, KeySteps
  <2>6. private \notin Keys => signedBy = {} /\ signer = NoKey
    BY <2>1 DEF SignedInv, TypeOK
  <2>7. CASE EmptyPrivate(p)
    <3>1. private \notin Keys /\ public \notin Keys
      BY <2>1, <2>7 DEF EmptyPrivate, SignedInv
    <3>2. private' = Torn /\ public' = public /\ setup'[p].at = "writePrivate"
      BY <1>1, <2>7, GoToFacts DEF EmptyPrivate, Locations, KeySteps
    <3> QED
      BY <2>2, <2>3, <2>4, <2>6, <3>1, <3>2 DEF SignedInv, KeySteps
  <2>8. CASE WritePrivate(p)
    <3>1. private \notin Keys /\ public \notin Keys
      BY <2>1, <2>8 DEF WritePrivate, SignedInv
    <3>2. /\ private' = setup'[p].held /\ public' = public
          /\ setup'[p].at = "emptyPublic"
      BY <1>1, <2>8, GoToFacts DEF WritePrivate, Locations, KeySteps
    <3> QED
      BY <2>2, <2>3, <2>6, <3>1, <3>2 DEF SignedInv, KeySteps
  <2>9. CASE EmptyPublic(p)
    <3>1. private = setup[p].held
      BY <2>1, <2>9 DEF EmptyPublic, SignedInv
    <3>2. /\ private' = private /\ public' = Torn
          /\ setup'[p].at = "writePublic" /\ setup'[p].held = setup[p].held
      BY <1>1, <2>9, GoToFacts DEF EmptyPublic, Locations, KeySteps
    <3> QED
      BY <2>1, <2>2, <2>3, <2>4, <3>1, <3>2 DEF SignedInv, KeySteps
  <2>10. CASE WritePublic(p)
    <3>1. private = setup[p].held
      BY <2>1, <2>10 DEF WritePublic, SignedInv
    <3>2. /\ private' = private /\ public' = setup[p].held
          /\ setup'[p].at = "sandbox"
      BY <2>10, WritePublicFacts DEF WritePublic
    <3> QED
      BY <2>1, <2>2, <2>3, <3>1, <3>2 DEF SignedInv, KeySteps
  <2> QED
    BY <1>1, <2>5, <2>7, <2>8, <2>9, <2>10 DEF KeyStep
<1>2. ASSUME NEW p \in Setups, Crash(p) PROVE SignedInv'
  <2>1. /\ "forced" \notin mishaps /\ "overlap" \notin mishaps
        /\ UNCHANGED <<private, public, signer, signedBy>>
    BY <1>2 DEF Crash, keyFiles, gatewayVars
  <2>2. setup'[p].at = "off" /\ Others(p)
    BY <1>2, LeaveFacts, OffIsRun DEF Crash
  <2> QED
    BY <2>1, <2>2 DEF SignedInv, Others
<1>3. ASSUME NEW p \in Setups, Aside(p) PROVE SignedInv'
  BY <1>3 DEF Aside, SignedInv, Others, KeySteps, keyFiles, gatewayVars
<1>4. CASE Uninstall \/ UNCHANGED vars
  BY <1>4 DEF Uninstall, vars, SignedInv, keyFiles, gatewayVars
<1>5. CASE Gateway
  <2>1. UNCHANGED <<private, public, setup, mishaps>>
    BY <1>5 DEF Gateway, StartGateway, StopGateway, PlaceOrder, keyFiles
  <2>2. /\ signedBy' \subseteq {private}
        /\ signer' # NoKey => signer' = private
    BY <1>5, <2>1 DEF Gateway, StartGateway, StopGateway, PlaceOrder, SignedInv
  <2> QED
    BY <2>1, <2>2 DEF SignedInv
<1> QED
  BY <1>1, <1>2, <1>3, <1>4, <1>5, KeyCases DEF Next

(* The public key of the home verifies its receipts. *)
THEOREM ReceiptsVerify == Spec => []LedgerVerifies
<1>1. SignedInv => LedgerVerifies
  BY DEF SignedInv, LedgerVerifies, ActivityChainValid, Happened
<1> QED
  BY <1>1, InitTypeOK, NextTypeOK, InitKeys, NextKeys, InitSigned, NextSigned,
     PTL DEF Spec

(***************************************************************************)
(* The marker and the grants.                                              *)
(***************************************************************************)

(* A step of one run that leaves the marker and the grants alone. *)
BesideMarker(p) ==
    /\ Others(p)
    /\ setup[p].at # "writeMarker"
    /\ setup'[p].at \notin {"emptyMarker", "writeMarker"}
    /\ UNCHANGED <<sandboxVars, contained, signer>>
    /\ "crash" \in mishaps' <=> "crash" \in mishaps
    /\ "uninstalled" \in mishaps' <=> "uninstalled" \in mishaps

LEMMA MarkerCases ==
    ASSUME TypeOK, NEW p \in Setups, Setup(p)
    PROVE  GrantRuntime(p) \/ EmptyMarker(p) \/ WriteMarker(p) \/ Crash(p)
               \/ BesideMarker(p)
<1>1. ASSUME Others(p), setup[p].at # "writeMarker",
             setup'[p].at \notin {"emptyMarker", "writeMarker"},
             UNCHANGED <<sandboxVars, gatewayVars, mishaps>>
      PROVE  BesideMarker(p)
  BY <1>1 DEF BesideMarker, gatewayVars
<1>2. CASE Begin(p)
  BY <1>1, <1>2, StartFacts
<1>3. CASE MakeRuntime(p)
  BY <1>1, <1>3, GoToFacts DEF MakeRuntime, Locations
<1>4. CASE CheckReadiness(p)
  <2>1. Others(p) /\ setup'[p].at \in {"sandbox", "init"}
    BY <1>4, CheckFacts
  <2> QED
    BY <1>1, <1>4, <2>1 DEF CheckReadiness
<1>5. CASE Refuse(p)
  BY <1>1, <1>5, GoToFacts, LeaveFacts, OffIsRun DEF Refuse, Locations
<1>6. CASE KeyStep(p)
  <2>1. UNCHANGED <<sandboxVars, gatewayVars>>
    BY <1>6 DEF KeyStep, Generate, EmptyPrivate, WritePrivate, EmptyPublic,
                WritePublic
  <2>2. /\ "crash" \in mishaps' <=> "crash" \in mishaps
        /\ "uninstalled" \in mishaps' <=> "uninstalled" \in mishaps
    BY <1>6 DEF KeyStep, Generate, EmptyPrivate, WritePrivate, EmptyPublic,
                WritePublic
  <2>3. /\ Others(p) /\ setup[p].at # "writeMarker"
        /\ setup'[p].at \notin {"emptyMarker", "writeMarker"}
    BY <1>6, KeyPlaces
  <2> QED
    BY <2>1, <2>2, <2>3 DEF BesideMarker, gatewayVars
<1>7. CASE DecideSandbox(p)
  BY <1>1, <1>7, GoToFacts, FinishFacts, OffIsRun DEF DecideSandbox, Locations
<1>8. CASE GrantRaises(p) \/ CloseApp(p)
  BY <1>1, <1>8, LeaveFacts, OffIsRun DEF GrantRaises, CloseApp
<1> QED
  BY <1>2, <1>3, <1>4, <1>5, <1>6, <1>7, <1>8 DEF Setup, SandboxStep

(* Whoever is about to write the marker has granted the runtime, and a
   gateway took its backend from a marker. *)
MarkInv ==
    "uninstalled" \notin mishaps =>
        /\ marker = "set" => granted
        /\ contained => granted
        /\ \A p \in Setups :
               setup[p].at \in {"emptyMarker", "writeMarker"} => granted

LEMMA InitMark == Init => MarkInv
BY DEF Init, MarkInv, Off

LEMMA NextMark == TypeOK /\ MarkInv /\ [Next]_vars => MarkInv'
<1> SUFFICES ASSUME TypeOK, MarkInv, [Next]_vars, "uninstalled" \notin mishaps'
             PROVE  MarkInv'
  BY DEF MarkInv
<1>1. ASSUME NEW p \in Setups, GrantRuntime(p) PROVE MarkInv'
  BY <1>1 DEF GrantRuntime, MarkInv
<1>2. ASSUME NEW p \in Setups, EmptyMarker(p) PROVE MarkInv'
  <2>1. granted /\ UNCHANGED <<granted, contained>>
    BY <1>2 DEF EmptyMarker, MarkInv, gatewayVars
  <2> QED
    BY <2>1 DEF MarkInv
<1>3. ASSUME NEW p \in Setups, WriteMarker(p) PROVE MarkInv'
  <2>1. granted /\ UNCHANGED <<granted, contained>>
    BY <1>3 DEF WriteMarker, MarkInv, gatewayVars
  <2> QED
    BY <2>1 DEF MarkInv
<1>4. ASSUME NEW p \in Setups, Crash(p) PROVE MarkInv'
  <2>1. "uninstalled" \notin mishaps /\ UNCHANGED <<marker, granted, contained>>
    BY <1>4 DEF Crash, sandboxVars, gatewayVars
  <2>2. setup'[p].at = "off" /\ Others(p)
    BY <1>4, LeaveFacts, OffIsRun DEF Crash
  <2> QED
    BY <2>1, <2>2 DEF MarkInv, Others
<1>5. ASSUME NEW p \in Setups, BesideMarker(p) PROVE MarkInv'
  BY <1>5 DEF BesideMarker, MarkInv, Others, sandboxVars
<1>6. CASE Uninstall
  BY <1>6 DEF Uninstall
<1>7. CASE Gateway
  <2>1. UNCHANGED <<marker, granted, setup, mishaps>>
    BY <1>7 DEF Gateway, StartGateway, StopGateway, PlaceOrder, sandboxVars
  <2>2. contained' => granted
    BY <1>7, <2>1
       DEF Gateway, StartGateway, StopGateway, PlaceOrder, MarkerRead, MarkInv
  <2> QED
    BY <2>1, <2>2 DEF MarkInv
<1>8. CASE UNCHANGED vars
  BY <1>8 DEF vars, MarkInv
<1> QED
  BY <1>1, <1>2, <1>3, <1>4, <1>5, <1>6, <1>7, <1>8, MarkerCases DEF Next

(* No marker without the grants it stands for. *)
THEOREM MarkerTrue == Spec => []MarkerAfterGrants
<1>1. MarkInv => MarkerAfterGrants
  BY DEF MarkInv, MarkerAfterGrants, Happened
<1> QED
  BY <1>1, InitTypeOK, NextTypeOK, InitMark, NextMark, PTL DEF Spec

(* A gateway beside a home at rest serves. *)
THEOREM GatewayServesAtRest == Spec => []GatewayServes
<1>1. TypeOK /\ PairInv /\ SignedInv /\ MarkInv => GatewayServes
  <2> SUFFICES ASSUME PairInv, SignedInv, MarkInv,
                      Quiet, signer # NoKey, mishaps = {}
               PROVE  ChefRuns
    BY DEF GatewayServes
  <2>1. signer = private
    BY DEF SignedInv
  <2>2. private = public
    BY DEF PairInv, Quiet, KeySteps
  <2>3. contained => granted
    BY DEF MarkInv
  <2> QED
    BY <2>1, <2>2, <2>3 DEF ChefRuns
<1> QED
  BY <1>1, InitTypeOK, NextTypeOK, InitKeys, NextKeys, InitPair, NextPair,
     InitSigned, NextSigned, InitMark, NextMark, PTL DEF Spec

(***************************************************************************)
(* What an app that has opened finds.                                      *)
(***************************************************************************)

(* A run that has come past the private key has seen it. *)
PastKey(r) ==
    \/ r.at \in {"writePrivate", "emptyPublic", "writePublic"}
    \/ /\ r.program = "open"
       /\ r.at \in {"sandbox", "grant", "emptyMarker", "writeMarker", "open"}

FileInv == \A p \in Setups : PastKey(setup[p]) => private # NoKey

(* A step after which its run is past the key is taken by a run that was, or
   that looked. *)
LEMMA PastKeySteps ==
    ASSUME TypeOK, KeyInv, FileInv, NEW p \in Setups, Setup(p)
    PROVE  /\ Others(p)
           /\ private # NoKey => private' # NoKey
           /\ PastKey(setup'[p]) => private' # NoKey
<1>1. ASSUME Others(p), private' = private,
             PastKey(setup'[p]) => PastKey(setup[p]) \/ Initialized
      PROVE  /\ Others(p)
             /\ private # NoKey => private' # NoKey
             /\ PastKey(setup'[p]) => private' # NoKey
  BY <1>1 DEF FileInv, Initialized
<1>2. setup[p] \in Run /\ NoKey \notin Keys /\ Torn # NoKey
  BY AppHomeAssumption DEF TypeOK
<1>3. CASE Begin(p)
  BY <1>1, <1>3, StartFacts DEF PastKey, keyFiles
<1>4. CASE MakeRuntime(p)
  BY <1>1, <1>4, GoToFacts DEF MakeRuntime, Locations, PastKey, keyFiles
<1>5. CASE CheckReadiness(p)
  <2>1. Others(p) /\ (setup'[p].at = "sandbox" => Initialized)
        /\ setup'[p].at \in {"sandbox", "init"}
    BY <1>5, CheckFacts
  <2> QED
    BY <1>1, <1>5, <2>1 DEF CheckReadiness, PastKey, keyFiles
<1>6. CASE Refuse(p)
  <2>1. Initialized /\ private' = private
    BY <1>6 DEF Refuse, keyFiles
  <2>2. Others(p)
    BY <1>6, GoToFacts, LeaveFacts DEF Refuse, Locations
  <2> QED
    BY <1>1, <2>1, <2>2
<1>7. CASE Generate(p)
  <2>1. Others(p) /\ setup'[p].at = "emptyPrivate" /\ private' = private
    BY <1>7, GenerateFacts DEF Generate, keyFiles
  <2> QED
    BY <1>1, <2>1 DEF PastKey
<1>8. CASE EmptyPrivate(p)
  <2>1. Others(p) /\ private' = Torn
    BY <1>8, GoToFacts DEF EmptyPrivate, Locations, KeySteps
  <2> QED
    BY <1>2, <2>1
<1>9. CASE WritePrivate(p)
  <2>1. Others(p) /\ private' = setup[p].held
    BY <1>9, GoToFacts DEF WritePrivate, Locations, KeySteps
  <2>2. setup[p].held \in Keys
    BY <1>9 DEF WritePrivate, KeyInv, KeySteps
  <2> QED
    BY <1>2, <2>1, <2>2
<1>10. CASE EmptyPublic(p)
  <2>1. Others(p) /\ private' = private
    BY <1>10, GoToFacts DEF EmptyPublic, Locations, KeySteps
  <2> QED
    BY <1>1, <1>10, <2>1 DEF EmptyPublic, PastKey
<1>11. CASE WritePublic(p)
  <2>1. Others(p) /\ private' = private
    BY <1>11, WritePublicFacts DEF WritePublic
  <2> QED
    BY <1>1, <1>11, <2>1 DEF WritePublic, PastKey
<1>12. CASE DecideSandbox(p)
  <2>1. private' = private /\ setup[p].at = "sandbox"
    BY <1>12 DEF DecideSandbox, keyFiles
  <2>2. CASE WantsSandbox(p)
    BY <1>1, <1>12, <2>1, <2>2, GoToFacts
       DEF DecideSandbox, Locations, PastKey, SameProgram
  <2>3. CASE ~WantsSandbox(p)
    BY <1>1, <1>12, <2>1, <2>3, FinishFacts, OffIsRun
       DEF DecideSandbox, PastKey
  <2> QED
    BY <2>2, <2>3
<1>13. CASE GrantRuntime(p)
  BY <1>1, <1>13, GoToFacts
     DEF GrantRuntime, Locations, PastKey, SameProgram, keyFiles
<1>14. CASE EmptyMarker(p)
  BY <1>1, <1>14, GoToFacts
     DEF EmptyMarker, Locations, PastKey, SameProgram, keyFiles
<1>15. CASE WriteMarker(p)
  BY <1>1, <1>15, FinishFacts, OffIsRun DEF WriteMarker, PastKey, keyFiles
<1>16. CASE GrantRaises(p) \/ CloseApp(p) \/ Crash(p)
  BY <1>1, <1>16, LeaveFacts, OffIsRun
     DEF GrantRaises, CloseApp, Crash, PastKey, keyFiles
<1> QED
  BY <1>3, <1>4, <1>5, <1>6, <1>7, <1>8, <1>9, <1>10, <1>11, <1>12, <1>13,
     <1>14, <1>15, <1>16 DEF Setup, KeyStep, SandboxStep

LEMMA InitFile == Init => FileInv
BY DEF Init, FileInv, PastKey, Off

LEMMA NextFile == TypeOK /\ KeyInv /\ FileInv /\ [Next]_vars => FileInv'
<1> SUFFICES ASSUME TypeOK, KeyInv, FileInv, [Next]_vars PROVE FileInv'
  OBVIOUS
<1>1. ASSUME NEW p \in Setups, Setup(p) PROVE FileInv'
  BY <1>1, PastKeySteps DEF FileInv, Others, PastKey
<1>2. CASE Outside
  BY <1>2 DEF Outside, FileInv, PastKey, keyFiles
<1> QED
  BY <1>1, <1>2, OutsideCases DEF Next

(* A run that calls the backend set up, or whose window is open, relies on
   the marker. *)
Relies(r) == r.enabled \/ r.at = "open"

(* Only an app opens a window, it always asks for the sandbox, and a run that
   has ended relies on nothing. *)
OpenInv ==
    \A p \in Setups :
        /\ setup[p].at = "open" => setup[p].program = "open"
        /\ setup[p].program = "open" => setup[p].sandbox
        /\ setup[p].at = "off" => ~setup[p].enabled

(* The run of a step afterwards. *)
LEMMA OpenSteps ==
    ASSUME TypeOK, OpenInv, NEW p \in Setups, Setup(p)
    PROVE  /\ Others(p)
           /\ setup'[p].at = "open" => setup'[p].program = "open"
           /\ setup'[p].program = "open" => setup'[p].sandbox
           /\ setup'[p].at = "off" => ~setup'[p].enabled
           /\ Available /\ Relies(setup'[p]) =>
                  Relies(setup[p]) \/ MarkerRead \/ WriteMarker(p)
<1>1. ASSUME Others(p), SameProgram(p), setup'[p].at \notin {"open", "off"}
      PROVE  /\ Others(p)
             /\ setup'[p].at = "open" => setup'[p].program = "open"
             /\ setup'[p].program = "open" => setup'[p].sandbox
             /\ setup'[p].at = "off" => ~setup'[p].enabled
             /\ Relies(setup'[p]) => Relies(setup[p])
  BY <1>1 DEF OpenInv, SameProgram, Relies
<1>2. ASSUME Others(p), setup'[p] = Off
      PROVE  /\ Others(p)
             /\ setup'[p].at = "open" => setup'[p].program = "open"
             /\ setup'[p].program = "open" => setup'[p].sandbox
             /\ setup'[p].at = "off" => ~setup'[p].enabled
             /\ ~Relies(setup'[p])
  BY <1>2, OffIsRun DEF Relies
<1>3. CASE Begin(p)
  BY <1>3, StartFacts DEF Relies
<1>4. CASE MakeRuntime(p)
  BY <1>1, <1>4, GoToFacts DEF MakeRuntime, Locations
<1>5. CASE CheckReadiness(p)
  <2>1. /\ Others(p) /\ setup'[p].at \in {"sandbox", "init"}
        /\ setup'[p].program = setup[p].program
        /\ setup'[p].sandbox = setup[p].sandbox
        /\ setup'[p].enabled = MarkerRead
    BY <1>5, CheckFacts
  <2> QED
    BY <2>1 DEF OpenInv, Relies
<1>6. CASE Refuse(p)
  BY <1>1, <1>2, <1>6, GoToFacts, LeaveFacts DEF Refuse, Locations
<1>7. CASE KeyStep(p)
  <2>1. SameProgram(p)
    BY <1>7, GenerateFacts, GoToFacts, WritePublicFacts
       DEF KeyStep, EmptyPrivate, WritePrivate, EmptyPublic, Locations, KeySteps
  <2> QED
    BY <1>1, <1>7, <2>1, KeyPlaces
<1>8. CASE DecideSandbox(p) /\ WantsSandbox(p)
  BY <1>1, <1>8, GoToFacts DEF DecideSandbox, Locations
<1>9. CASE DecideSandbox(p) /\ ~WantsSandbox(p)
  <2>1. CASE setup'[p] = Off
    BY <1>2, <1>9, <2>1, FinishFacts DEF DecideSandbox
  <2>2. CASE setup[p].program = "open" /\ setup'[p].at = "open"
                 /\ SameProgram(p)
    <3>1. Others(p)
      BY <1>9, FinishFacts DEF DecideSandbox
    <3>2. setup[p].sandbox
      BY <2>2 DEF OpenInv
    <3>3. Available => setup[p].enabled
      BY <1>9, <3>2 DEF WantsSandbox
    <3> QED
      BY <2>2, <3>1, <3>2, <3>3 DEF SameProgram, Relies
  <2> QED
    BY <1>9, <2>1, <2>2, FinishFacts DEF DecideSandbox
<1>10. CASE GrantRuntime(p)
  BY <1>1, <1>10, GoToFacts DEF GrantRuntime, Locations
<1>11. CASE EmptyMarker(p)
  BY <1>1, <1>11, GoToFacts DEF EmptyMarker, Locations
<1>12. CASE WriteMarker(p)
  <2>1. CASE setup'[p] = Off
    BY <1>2, <1>12, <2>1, FinishFacts DEF WriteMarker
  <2>2. CASE setup[p].program = "open" /\ setup'[p].at = "open"
                 /\ SameProgram(p)
    BY <1>12, <2>2, FinishFacts DEF WriteMarker, SameProgram, OpenInv
  <2> QED
    BY <1>12, <2>1, <2>2, FinishFacts DEF WriteMarker
<1>13. CASE GrantRaises(p) \/ CloseApp(p) \/ Crash(p)
  BY <1>2, <1>13, LeaveFacts DEF GrantRaises, CloseApp, Crash
<1> QED
  BY <1>3, <1>4, <1>5, <1>6, <1>7, <1>8, <1>9, <1>10, <1>11, <1>12, <1>13
     DEF Setup, SandboxStep

LEMMA InitOpen == Init => OpenInv
BY OffIsRun DEF Init, OpenInv

LEMMA NextOpen == TypeOK /\ OpenInv /\ [Next]_vars => OpenInv'
<1> SUFFICES ASSUME TypeOK, OpenInv, [Next]_vars PROVE OpenInv'
  OBVIOUS
<1>1. ASSUME NEW p \in Setups, Setup(p) PROVE OpenInv'
  BY <1>1, OpenSteps DEF OpenInv, Others
<1>2. CASE Outside
  BY <1>2 DEF Outside, OpenInv
<1> QED
  BY <1>1, <1>2, OutsideCases DEF Next

(* Where somebody relies on the marker it is there, or a run that emptied it
   is about to write it: only a run that dies beside another leaves an empty
   one. *)
RelyInv ==
    Available /\ "crash" \notin mishaps =>
        \A p \in Setups : Relies(setup[p]) =>
            MarkerRead \/ \E q \in Setups : setup[q].at = "writeMarker"

LEMMA InitRely == Init => RelyInv
BY OffIsRun DEF Init, RelyInv, Relies

LEMMA NextRely == TypeOK /\ OpenInv /\ RelyInv /\ [Next]_vars => RelyInv'
<1> SUFFICES ASSUME TypeOK, OpenInv, RelyInv, [Next]_vars,
                    Available, "crash" \notin mishaps'
             PROVE  RelyInv'
  BY DEF RelyInv
<1>1. ASSUME NEW p \in Setups, EmptyMarker(p) PROVE RelyInv'
  <2>1. setup'[p].at = "writeMarker"
    BY <1>1, GoToFacts DEF EmptyMarker, Locations
  <2> QED
    BY <2>1 DEF RelyInv
<1>2. ASSUME NEW p \in Setups, WriteMarker(p) PROVE RelyInv'
  BY <1>2 DEF WriteMarker, RelyInv, MarkerRead
<1>3. ASSUME NEW p \in Setups, Crash(p) PROVE RelyInv'
  <2>1. "crash" \notin mishaps /\ ~Harmful(p) /\ marker' = marker
    BY <1>3 DEF Crash, sandboxVars
  <2>2. setup'[p] = Off /\ Others(p) /\ ~Relies(Off)
    BY <1>3, LeaveFacts, OffIsRun DEF Crash, Relies
  <2>3. CASE setup[p].at = "writeMarker"
    <3>1. \A q \in Setups \ {p} : setup[q].at = "off" /\ ~setup[q].enabled
      BY <2>1, <2>3 DEF Harmful, OpenInv
    <3>2. \A q \in Setups : ~Relies(setup'[q])
      BY <2>2, <3>1 DEF Others, Relies
    <3> QED
      BY <3>2 DEF RelyInv
  <2>4. CASE setup[p].at # "writeMarker"
    BY <2>1, <2>2, <2>4 DEF RelyInv, Others, MarkerRead, Relies
  <2> QED
    BY <2>3, <2>4
<1>4. ASSUME NEW p \in Setups, Setup(p), ~WriteMarker(p),
             Others(p), setup[p].at # "writeMarker",
             marker' = marker, "crash" \notin mishaps
      PROVE  RelyInv'
  <2>1. Relies(setup'[p]) => Relies(setup[p]) \/ MarkerRead
    BY <1>4, OpenSteps
  <2>2. \A q \in Setups : Relies(setup'[q]) => Relies(setup[q]) \/ MarkerRead
    BY <1>4, <2>1 DEF Others, Relies
  <2>3. \A q \in Setups :
            setup[q].at = "writeMarker" => setup'[q].at = "writeMarker"
    BY <1>4 DEF Others
  <2> QED
    BY <1>4, <2>2, <2>3 DEF RelyInv, MarkerRead
<1>5. ASSUME NEW p \in Setups, GrantRuntime(p) PROVE RelyInv'
  BY <1>4, <1>5, GoToFacts
     DEF GrantRuntime, WriteMarker, Setup, SandboxStep, Locations
<1>6. ASSUME NEW p \in Setups, Setup(p), BesideMarker(p) PROVE RelyInv'
  BY <1>4, <1>6 DEF BesideMarker, WriteMarker, sandboxVars
<1>7. CASE Outside /\ marker' = marker
  BY <1>7 DEF Outside, RelyInv, Relies, MarkerRead
<1>8. Uninstall \/ Gateway \/ UNCHANGED vars => marker' = marker
  BY DEF Uninstall, Gateway, StartGateway, StopGateway, PlaceOrder, sandboxVars,
         vars
<1> QED
  BY <1>1, <1>2, <1>3, <1>5, <1>6, <1>7, <1>8, MarkerCases, OutsideCases
     DEF Next

(* A home at rest is whole, and an app that has opened can use it. *)
THEOREM RestIsWhole == Spec => []HomeAtRest
<1>1. /\ TypeOK /\ PairInv /\ MarkInv /\ FileInv /\ OpenInv /\ RelyInv
      => HomeAtRest
  <2> SUFFICES ASSUME TypeOK, PairInv, MarkInv, FileInv, OpenInv, RelyInv,
                      Quiet, ~Happened({"crash", "overlap"})
               PROVE  /\ private = public /\ private # Torn
                      /\ ~Happened({"uninstalled"}) =>
                             \A p \in Setups :
                                 setup[p].at = "open" => Usable
    BY DEF HomeAtRest
  <2>1. "crash" \notin mishaps /\ "overlap" \notin mishaps
    BY DEF Happened
  <2>2. private = public /\ private # Torn
    BY <2>1 DEF PairInv, Quiet, KeySteps
  <2>3. ASSUME "uninstalled" \notin mishaps,
               NEW p \in Setups, setup[p].at = "open"
        PROVE  Usable
    <3>1. private # NoKey
      BY <2>3 DEF FileInv, OpenInv, PastKey
    <3>2. private \in Keys
      BY <2>2, <3>1 DEF TypeOK, KeyFile
    <3>3. Available => MarkerRead
      BY <2>1, <2>3 DEF RelyInv, Relies, Quiet
    <3>4. MarkerRead => marker = "set" /\ granted
      BY <2>3 DEF MarkInv, MarkerRead
    <3> QED
      BY <2>2, <3>2, <3>3, <3>4 DEF Usable
  <2> QED
    BY <2>2, <2>3 DEF Happened
<1> QED
  BY <1>1, InitTypeOK, NextTypeOK, InitKeys, NextKeys, InitPair, NextPair,
     InitMark, NextMark, InitFile, NextFile, InitOpen, NextOpen, InitRely,
     NextRely, PTL DEF Spec

=============================================================================
