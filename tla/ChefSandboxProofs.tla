-------------------------- MODULE ChefSandboxProofs --------------------------
(***************************************************************************)
(* Theorems about ChefSandbox, for any number of gateways with any         *)
(* backends.                                                               *)
(***************************************************************************)
EXTENDS ChefSandbox, TLAPS

USE DEF progressVars, grantVars, Busy

(***************************************************************************)
(* Type correctness.                                                       *)
(***************************************************************************)

LEMMA DirType ==
    ASSUME NEW g \in Gateways, NEW i \in 1..3
    PROVE  /\ Dir(g, i) \in (Gateways \cup {Kitchen}) \X (1..3)
           /\ Dir(g, i) = Fixtures <=> i = 2
BY DEF Dir, Fixtures

(* What the actions of one gateway leave of the type of each variable. *)
LEMMA TypeStart ==
    ASSUME TypeOK, NEW g \in Gateways, Start(g)
    PROVE  TypeOK'
<1> USE DEF TypeOK
<1>1. CASE StartChef(g)
  BY <1>1 DEF StartChef, Begin, Results, Contents
<1>2. CASE StartFails(g)
  BY <1>2 DEF StartFails, Begin, Results, Contents
<1>3. CASE StartGranting(g)
  BY <1>3 DEF StartGranting, Begin, Results, Contents
<1> QED
  BY <1>1, <1>2, <1>3 DEF Start

LEMMA TypeChef ==
    ASSUME TypeOK, NEW g \in Gateways, Chef(g)
    PROVE  TypeOK'
BY DEF TypeOK, Chef, ChefReads, ChefOpens, ChefFlushes, ChefCloses, ChefFails,
       ChefStep, Contents

(* While a run is granting, a next directory is left to grant. *)
GrantingInv ==
    \A g \in Gateways :
        /\ pc[g] = "granting" => granted[g] < 3 /\ revoked[g] = 0
        /\ pc[g] \in {"launching", "running"} => revoked[g] = 0
        /\ revoked[g] <= granted[g]
        /\ backend[g] # "appcontainer" => granted[g] = 0
        /\ pc[g] \in {"granting", "launching", "revoking"} =>
               backend[g] = "appcontainer"
        /\ pc[g] = "collecting" => backend[g] = "microvm"
        /\ chef[g] # "off" => pc[g] = "running"
        /\ backend[g] = "appcontainer" /\ pc[g] \in {"launching", "running"}
               => granted[g] = 3

LEMMA TypeHost ==
    ASSUME TypeOK, GrantingInv, NEW g \in Gateways, Host(g) \/ Crash(g)
    PROVE  TypeOK'
<1> USE DEF TypeOK
<1>1. CASE Grant(g) \/ GrantRaises(g) \/ Crash(g)
  <2>1. pc[g] = "granting" => granted[g] + 1 \in 1..3
    BY DEF GrantingInv
  <2>2. pc[g] = "granting" =>
           Dir(g, granted[g] + 1) \in (Gateways \cup {Kitchen}) \X (1..3)
    BY <2>1, DirType
  <2>3. CASE Grant(g)
    BY <2>1, <2>2, <2>3 DEF Grant
  <2>4. CASE GrantRaises(g)
    BY <2>2, <2>4 DEF GrantRaises, Results
  <2>5. CASE Crash(g)
    BY <2>2, <2>5 DEF Crash, Results
  <2> QED
    BY <1>1, <2>3, <2>4, <2>5
<1>2. CASE Launch(g) \/ LaunchRaises(g)
  BY <1>2 DEF Launch, LaunchRaises, Results
<1>3. CASE ReturnPlain(g) \/ ContainerExits(g) \/ ContainerTimeout(g)
  BY <1>3 DEF ReturnPlain, ContainerExits, ContainerTimeout, Report, Results
<1>4. CASE VmPowersOff(g)
  BY <1>4 DEF VmPowersOff
<1>5. CASE VmStops(g)
  <2>1. Unsynced(output[g]) \subseteq Contents
    BY DEF Unsynced, Contents
  <2> QED
    BY <1>5, <2>1 DEF VmStops
<1>6. CASE CollectOutput(g) \/ CollectNothing(g) \/ CollectRaises(g)
  BY <1>6 DEF CollectOutput, CollectNothing, CollectRaises, Results, Contents
<1>7. CASE Revoke(g) \/ Revoked(g) \/ RevokeRaises(g)
  <2>1. CASE Revoke(g)
    BY <2>1 DEF Revoke
  <2> QED
    BY <1>7, <2>1 DEF Revoked, RevokeRaises, Results
<1> QED
  BY <1>1, <1>2, <1>3, <1>4, <1>5, <1>6, <1>7 DEF Host

(***************************************************************************)
(* How far a run has come bounds what it has granted.                      *)
(***************************************************************************)

LEMMA GrantingInit ==
    ASSUME Init
    PROVE  TypeOK /\ GrantingInv
<1>1. /\ backend \in [Gateways -> Backends]
      /\ pc = [g \in Gateways |-> "idle"]
      /\ chef = [g \in Gateways |-> "off"]
      /\ output = [g \in Gateways |-> "nothing"]
      /\ copied = [g \in Gateways |-> "nothing"]
      /\ result = [g \in Gateways |-> "none"]
      /\ granted = [g \in Gateways |-> 0]
      /\ revoked = [g \in Gateways |-> 0]
      /\ acl = {}
  BY DEF Init
<1>2. leaked \in BOOLEAN /\ overlapped \in BOOLEAN
  BY DEF Init
<1>3. TypeOK
  BY <1>1, <1>2 DEF TypeOK, Contents, Results
<1>4. \A g \in Gateways : /\ pc[g] = "idle" /\ chef[g] = "off"
                          /\ granted[g] = 0 /\ revoked[g] = 0
  BY <1>1
<1>5. GrantingInv
  <2>1. ASSUME NEW g \in Gateways, pc[g] = "idle", chef[g] = "off",
               granted[g] = 0, revoked[g] = 0
        PROVE  GrantingInv!(g)
    BY <2>1
  <2> QED
    BY <2>1, <1>4 DEF GrantingInv
<1> QED
  BY <1>3, <1>5

LEMMA GrantingNext ==
    ASSUME TypeOK, GrantingInv, Next
    PROVE  GrantingInv'
<1> USE DEF TypeOK, GrantingInv
<1>1. PICK g \in Gateways : Start(g) \/ Chef(g) \/ Host(g) \/ Crash(g)
  BY DEF Next
<1>2. CASE Start(g)
  BY <1>2 DEF Start, StartChef, StartFails, StartGranting, Begin
<1>3. CASE Chef(g)
  BY <1>3 DEF Chef, ChefReads, ChefOpens, ChefFlushes, ChefCloses, ChefFails,
              ChefStep
<1>4. CASE Grant(g) \/ GrantRaises(g) \/ Launch(g) \/ LaunchRaises(g)
  <2>1. CASE Grant(g)
    BY <2>1 DEF Grant
  <2>2. CASE GrantRaises(g)
    BY <2>2 DEF GrantRaises
  <2>3. CASE Launch(g) \/ LaunchRaises(g)
    BY <2>3 DEF Launch, LaunchRaises
  <2> QED
    BY <1>4, <2>1, <2>2, <2>3
<1>5. CASE ReturnPlain(g) \/ ContainerExits(g) \/ ContainerTimeout(g)
  BY <1>5 DEF ReturnPlain, ContainerExits, ContainerTimeout
<1>6. CASE VmPowersOff(g) \/ VmStops(g)
  BY <1>6 DEF VmPowersOff, VmStops
<1>7. CASE CollectOutput(g) \/ CollectNothing(g) \/ CollectRaises(g)
  BY <1>7 DEF CollectOutput, CollectNothing, CollectRaises
<1>8. CASE Revoke(g)
  BY <1>8 DEF Revoke
<1>9. CASE Revoked(g) \/ RevokeRaises(g)
  BY <1>9 DEF Revoked, RevokeRaises
<1>10. CASE Crash(g)
  BY <1>10 DEF Crash
<1> QED
  BY <1>1, <1>2, <1>3, <1>4, <1>5, <1>6, <1>7, <1>8, <1>9, <1>10 DEF Host

LEMMA TypeNext ==
    ASSUME TypeOK, GrantingInv, Next
    PROVE  TypeOK'
<1>1. PICK g \in Gateways : Start(g) \/ Chef(g) \/ Host(g) \/ Crash(g)
  BY DEF Next
<1> QED
  BY <1>1, TypeStart, TypeChef, TypeHost

LEMMA BaseStutter ==
    ASSUME TypeOK, GrantingInv, UNCHANGED vars
    PROVE  TypeOK' /\ GrantingInv'
BY DEF TypeOK, GrantingInv, vars

LEMMA Base == Spec => [](TypeOK /\ GrantingInv)
<1>1. TypeOK /\ GrantingInv /\ [Next]_vars => (TypeOK /\ GrantingInv)'
  BY TypeNext, GrantingNext, BaseStutter
<1> QED
  BY <1>1, GrantingInit, PTL DEF Spec

(* Every variable keeps its type, for any number of gateways. *)
THEOREM TypeCorrect == Spec => []TypeOK
BY Base, PTL

(***************************************************************************)
(* The report of a backend and the output it stands for.                   *)
(***************************************************************************)

(* A chef that exited with status 0 has written the whole draft; a run that
   goes on has reported nothing; nothing is copied out of a VM before its
   run has ended. *)
ReportInv ==
    \A g \in Gateways :
        /\ chef[g] = "done" => output[g] = "draft"
        /\ pc[g] \in {"granting", "launching", "running", "collecting"} =>
               result[g] = "none"
        /\ backend[g] = "microvm" /\ result[g] = "none" =>
               copied[g] = "nothing"

LEMMA ReportInit ==
    ASSUME Init
    PROVE  ReportInv /\ ReportIsOutput
BY DEF Init, ReportInv, ReportIsOutput

LEMMA ReportNext ==
    ASSUME TypeOK, GrantingInv, ReportInv, ReportIsOutput, Next
    PROVE  (ReportInv /\ ReportIsOutput)'
<1> USE DEF TypeOK, GrantingInv, ReportInv, ReportIsOutput, Window
<1>1. PICK g \in Gateways : Start(g) \/ Chef(g) \/ Host(g) \/ Crash(g)
  BY DEF Next
<1>2. CASE Start(g)
  BY <1>2 DEF Start, StartChef, StartFails, StartGranting, Begin
<1>3. CASE Chef(g)
  BY <1>3 DEF Chef, ChefReads, ChefOpens, ChefFlushes, ChefCloses, ChefFails,
              ChefStep
<1>4. CASE Grant(g) \/ GrantRaises(g) \/ Launch(g) \/ LaunchRaises(g)
  BY <1>4 DEF Grant, GrantRaises, Launch, LaunchRaises
<1>5. CASE ReturnPlain(g) \/ ContainerExits(g) \/ ContainerTimeout(g)
  BY <1>5 DEF ReturnPlain, ContainerExits, ContainerTimeout, Report
<1>6. CASE VmPowersOff(g) \/ VmStops(g)
  BY <1>6 DEF VmPowersOff, VmStops
<1>7. CASE CollectOutput(g) \/ CollectNothing(g) \/ CollectRaises(g)
  BY <1>7 DEF CollectOutput, CollectNothing, CollectRaises
<1>8. CASE Revoke(g) \/ Revoked(g) \/ RevokeRaises(g)
  BY <1>8 DEF Revoke, Revoked, RevokeRaises
<1>9. CASE Crash(g)
  BY <1>9 DEF Crash
<1> QED
  BY <1>1, <1>2, <1>3, <1>4, <1>5, <1>6, <1>7, <1>8, <1>9 DEF Host

(* Whatever the chefs, the timeouts and the other gateways do, a backend
   without a VM reports success only over a whole draft. *)
THEOREM ReportsHonestly == Spec => []ReportIsOutput
<1>1. ReportInv /\ ReportIsOutput /\ UNCHANGED vars =>
          (ReportInv /\ ReportIsOutput)'
  BY DEF ReportInv, ReportIsOutput, Window, vars
<1>2. TypeOK /\ GrantingInv /\ ReportInv /\ ReportIsOutput /\ [Next]_vars =>
          (ReportInv /\ ReportIsOutput)'
  BY <1>1, ReportNext
<1> QED
  BY <1>2, Base, ReportInit, PTL DEF Spec

(***************************************************************************)
(* The grant on the fixtures.                                              *)
(***************************************************************************)

LEMMA HoldsGoesOn ==
    ASSUME TypeOK, GrantingInv, NoGrantLeft, Next
    PROVE  NoGrantLeft'
<1> USE DEF TypeOK, GrantingInv, NoGrantLeft, Holds
<1>1. PICK g \in Gateways : Start(g) \/ Chef(g) \/ Host(g) \/ Crash(g)
  BY DEF Next
<1>2. CASE Start(g)
  BY <1>2, SandboxAssumption
     DEF Start, StartChef, StartFails, StartGranting, Begin, OwnDirs, Dir,
         Fixtures
<1>3. CASE Chef(g)
  BY <1>3 DEF Chef, ChefReads, ChefOpens, ChefFlushes, ChefCloses, ChefFails,
              ChefStep
<1>4. CASE Grant(g)
  <2>1. granted[g] + 1 \in 1..3
    BY <1>4 DEF Grant
  <2>2. Dir(g, granted[g] + 1) = Fixtures <=> granted[g] = 1
    BY <2>1, DirType
  <2> QED
    BY <1>4, <2>2 DEF Grant
<1>5. CASE GrantRaises(g)
  <2>1. Dir(g, granted[g] + 1) = Fixtures <=> granted[g] = 1
    BY <1>5, DirType DEF GrantRaises
  <2>2. leaked' <=> leaked \/ (granted[g] = 1 /\ acl' # acl)
    BY <1>5 DEF GrantRaises
  <2>3. /\ pc[g] = "granting" /\ UNCHANGED <<granted, revoked>>
        /\ acl' \in {acl, acl \cup {Dir(g, granted[g] + 1)}}
        /\ \A h \in Gateways : pc[h] # "idle" => pc'[h] # "idle"
    BY <1>5 DEF GrantRaises
  <2> QED
    BY <2>1, <2>2, <2>3
<1>6. CASE Launch(g) \/ LaunchRaises(g)
  BY <1>6 DEF Launch, LaunchRaises
<1>7. CASE ReturnPlain(g) \/ ContainerExits(g) \/ ContainerTimeout(g)
  BY <1>7 DEF ReturnPlain, ContainerExits, ContainerTimeout
<1>8. CASE VmPowersOff(g) \/ VmStops(g)
  BY <1>8 DEF VmPowersOff, VmStops
<1>9. CASE CollectOutput(g) \/ CollectNothing(g) \/ CollectRaises(g)
  BY <1>9 DEF CollectOutput, CollectNothing, CollectRaises
<1>10. CASE Revoke(g)
  <2>1. Dir(g, revoked[g] + 1) = Fixtures <=> revoked[g] = 1
    BY <1>10, DirType DEF Revoke
  <2> QED
    BY <1>10, <2>1 DEF Revoke
<1>11. CASE Revoked(g)
  BY <1>11 DEF Revoked
<1>12. CASE RevokeRaises(g)
  <2>1. leaked' <=> leaked \/ Holds(g)
    BY <1>12 DEF RevokeRaises
  <2>2. /\ UNCHANGED <<granted, revoked, acl>>
        /\ \A h \in Gateways : h # g => pc'[h] = pc[h]
    BY <1>12 DEF RevokeRaises
  <2> QED
    BY <2>1, <2>2
<1>13. CASE Crash(g)
  <2>1. pc[g] = "granting" =>
            (Dir(g, granted[g] + 1) = Fixtures <=> granted[g] = 1)
    BY DirType
  <2>2. leaked' <=> leaked \/ Holds(g) \/ (granted[g] = 1 /\ acl' # acl)
    BY <1>13 DEF Crash
  <2>3. \/ acl' = acl
        \/ pc[g] = "granting" /\ acl' = acl \cup {Dir(g, granted[g] + 1)}
    BY <1>13 DEF Crash
  <2>4. UNCHANGED <<granted, revoked>> /\ pc' = [pc EXCEPT ![g] = "idle"]
    BY <1>13 DEF Crash
  <2> QED
    BY <2>1, <2>2, <2>3, <2>4
<1> QED
  BY <1>1, <1>2, <1>3, <1>4, <1>5, <1>6, <1>7, <1>8, <1>9, <1>10, <1>11,
     <1>12, <1>13 DEF Host

(* The grant on the fixtures outlives every run only if one died, or its
   icacls failed. *)
THEOREM GrantsAreTakenBack == Spec => []NoGrantLeft
<1>1. Init => NoGrantLeft
  BY DEF Init, NoGrantLeft
<1>2. NoGrantLeft /\ UNCHANGED vars => NoGrantLeft'
  BY DEF NoGrantLeft, Holds, vars
<1>3. TypeOK /\ GrantingInv /\ NoGrantLeft /\ [Next]_vars => NoGrantLeft'
  BY <1>2, HoldsGoesOn
<1> QED
  BY <1>1, <1>3, Base, PTL DEF Spec

(***************************************************************************)
(* The grants of the only AppContainer run.                                *)
(***************************************************************************)

(* While AppContainer runs do not overlap, there is at most one, and what
   it has granted stays granted until it revokes. *)
OnlyRunInv ==
    ~overlapped =>
        /\ \A g, h \in Gateways :
               /\ backend[g] = "appcontainer" /\ pc[g] # "idle"
               /\ backend[h] = "appcontainer" /\ pc[h] # "idle"
               => g = h
        /\ \A g \in Gateways :
               /\ backend[g] = "appcontainer"
               /\ pc[g] \in {"granting", "launching", "running"}
               => \A i \in 1..3 : i <= granted[g] => Dir(g, i) \in acl

(* New directories are no run's but the one that begins. *)
LEMMA OwnDirsApart ==
    ASSUME NEW g \in Gateways, NEW h \in Gateways, g # h, NEW i \in 1..3
    PROVE  Dir(g, i) \notin OwnDirs(h)
BY SandboxAssumption DEF Dir, OwnDirs

LEMMA OnlyRunNext ==
    ASSUME TypeOK, GrantingInv, OnlyRunInv, Next
    PROVE  OnlyRunInv'
<1> USE DEF TypeOK, GrantingInv, OnlyRunInv
<1>1. PICK g \in Gateways : Start(g) \/ Chef(g) \/ Host(g) \/ Crash(g)
  BY DEF Next
<1>2. CASE StartChef(g) \/ StartFails(g)
  <2>1. /\ backend[g] # "appcontainer" /\ backend' = backend
        /\ granted' = [granted EXCEPT ![g] = 0] /\ acl' = acl \ OwnDirs(g)
        /\ overlapped' = overlapped
    BY <1>2 DEF StartChef, StartFails, Begin
  <2>2. \A h \in Gateways : h # g => pc'[h] = pc[h]
    BY <1>2 DEF StartChef, StartFails, Begin
  <2>3. \A h \in Gateways, i \in 1..3 :
            h # g /\ Dir(h, i) \in acl => Dir(h, i) \in acl'
    BY <2>1, OwnDirsApart
  <2>4. \A h \in Gateways, i \in 1..3 : Dir(h, i)' = Dir(h, i)
    BY DEF Dir
  <2> QED
    BY <2>1, <2>2, <2>3, <2>4
<1>3. CASE StartGranting(g)
  <2>1. overlapped' <=>
            overlapped \/ \E h \in Gateways :
                              backend[h] = "appcontainer" /\ pc[h] # "idle"
    BY <1>3 DEF StartGranting
  <2>2. /\ pc' = [pc EXCEPT ![g] = "granting"]
        /\ granted' = [granted EXCEPT ![g] = 0]
        /\ backend' = backend
    BY <1>3 DEF StartGranting, Begin
  <2> QED
    BY <2>1, <2>2
<1>4. CASE Chef(g)
  BY <1>4 DEF Chef, ChefReads, ChefOpens, ChefFlushes, ChefCloses, ChefFails,
              ChefStep, Dir
<1>5. CASE Grant(g)
  BY <1>5 DEF Grant, Dir
<1>6. CASE GrantRaises(g)
  BY <1>6 DEF GrantRaises, Dir
<1>7. CASE Launch(g) \/ LaunchRaises(g)
  BY <1>7 DEF Launch, LaunchRaises, Dir
<1>8. CASE ReturnPlain(g) \/ ContainerExits(g) \/ ContainerTimeout(g)
  BY <1>8 DEF ReturnPlain, ContainerExits, ContainerTimeout, Dir
<1>9. CASE VmPowersOff(g) \/ VmStops(g)
  BY <1>9 DEF VmPowersOff, VmStops, Dir
<1>10. CASE CollectOutput(g) \/ CollectNothing(g) \/ CollectRaises(g)
  <2>1. /\ pc' = [pc EXCEPT ![g] = "idle"]
        /\ UNCHANGED <<backend, granted, acl, overlapped>>
    BY <1>10 DEF CollectOutput, CollectNothing, CollectRaises
  <2> QED
    BY <2>1 DEF Dir
<1>11. CASE Revoke(g)
  BY <1>11 DEF Revoke, Dir
<1>12. CASE Revoked(g) \/ RevokeRaises(g)
  BY <1>12 DEF Revoked, RevokeRaises, Dir
<1>13. CASE Crash(g)
  BY <1>13 DEF Crash, Dir
<1> QED
  BY <1>1, <1>2, <1>3, <1>4, <1>5, <1>6, <1>7, <1>8, <1>9, <1>10, <1>11,
     <1>12, <1>13 DEF Host, Start

(* A chef has access to all it needs until it ends, as long as no two
   AppContainer runs overlap. *)
THEOREM GrantsHold == Spec => []GrantsLast
<1>1. Init => OnlyRunInv
  BY DEF Init, OnlyRunInv
<1>2. OnlyRunInv /\ UNCHANGED vars => OnlyRunInv'
  BY DEF OnlyRunInv, Dir, vars
<1>3. TypeOK /\ GrantingInv /\ OnlyRunInv /\ [Next]_vars => OnlyRunInv'
  BY <1>2, OnlyRunNext
<1>4. TypeOK /\ GrantingInv /\ OnlyRunInv => GrantsLast
  BY DEF TypeOK, GrantingInv, OnlyRunInv, GrantsLast, Needs
<1> QED
  BY <1>1, <1>3, <1>4, Base, PTL DEF Spec

=============================================================================
