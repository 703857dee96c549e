----------------------- MODULE PersonalSettingsProofs -----------------------
(***************************************************************************)
(* Theorems about PersonalSettings, for every menu and any number of       *)
(* programs.                                                               *)
(***************************************************************************)
EXTENDS PersonalSettings, TLAPS

(* The steps of one program, as the proofs split Next. *)
ChoiceOf(p) ==
    \E cap \in Caps : \E state \in States : \E next \in {"ready", "saving"} :
        /\ p \in Gateways => EffectiveState(p, cap) = "ask"
        /\ Choose(p, cap, state, next)

LEMMA NextCases ==
    ASSUME Next
    PROVE  \E p \in Programs :
              \/ Start(p) \/ OpenFile(p) \/ WriteFile(p) \/ SaveRaises(p)
              \/ Stop(p) \/ ChoiceOf(p) \/ (p \in Editors /\ Quit(p))
<1>1. CASE \E p \in Programs : Start(p) \/ Save(p) \/ Stop(p)
  BY <1>1 DEF Save
<1>2. CASE \E cap \in Caps : \E g \in Gateways : AnswerAlways(g, cap)
  <2>1. PICK cap \in Caps, g \in Gateways : AnswerAlways(g, cap)
    BY <1>2
  <2>2. g \in Programs /\ ChoiceOf(g)
    BY <2>1 DEF AnswerAlways, ChoiceOf, States, Programs
  <2> QED
    BY <2>2
<1>3. CASE \E cap \in Caps : \E state \in States :
              \/ \E a \in Apps : SetPermission(a, cap, state)
              \/ \E e \in Editors : Edit(e, cap, state)
  <2>1. PICK cap \in Caps, state \in States, p \in Apps \cup Editors :
            SetPermission(p, cap, state) \/ Edit(p, cap, state)
    BY <1>3
  <2>2. p \in Programs /\ p \notin Gateways
    BY SettingsAssumption DEF Programs
  <2>3. ChoiceOf(p)
    BY <2>1, <2>2 DEF SetPermission, Edit, ChoiceOf
  <2> QED
    BY <2>2, <2>3
<1>4. CASE \E e \in Editors : Quit(e)
  BY <1>4 DEF Programs
<1> QED
  BY <1>1, <1>2, <1>3, <1>4 DEF Next

(***************************************************************************)
(* Type correctness.                                                       *)
(***************************************************************************)

LEMMA TypeNext == TypeOK /\ [Next]_vars => TypeOK'
<1> SUFFICES ASSUME TypeOK, [Next]_vars PROVE TypeOK'
  OBVIOUS
<1> USE DEF TypeOK
<1>1. CASE UNCHANGED vars
  BY <1>1 DEF vars
<1>2. CASE Next
  <2>1. PICK p \in Programs :
            \/ Start(p) \/ OpenFile(p) \/ WriteFile(p) \/ SaveRaises(p)
            \/ Stop(p) \/ ChoiceOf(p) \/ (p \in Editors /\ Quit(p))
    BY <1>2, NextCases
  <2>2. CASE Start(p)
    BY <2>2 DEF Start, traceVars, Unset, Settings
  <2>3. CASE OpenFile(p)
    BY <2>3 DEF OpenFile, traceVars
  <2>4. CASE WriteFile(p)
    <3>1. wish' \in Settings
      BY <2>4 DEF WriteFile, Settings
    <3>2. file' \in Settings \cup {NoFile, Empty, Garbled}
      BY <2>4 DEF WriteFile, Saved
    <3>3. pc' \in [Programs -> {"down", "ready", "saving", "writing"}]
      BY <2>4 DEF WriteFile
    <3> QED
      BY <2>4, <3>1, <3>2, <3>3 DEF WriteFile
  <2>5. CASE SaveRaises(p)
    BY <2>5 DEF SaveRaises, traceVars
  <2>6. CASE Stop(p)
    BY <2>6 DEF Stop, traceVars
  <2>7. CASE ChoiceOf(p)
    <3>1. PICK cap \in Caps, state \in States, next \in {"ready", "saving"} :
              Choose(p, cap, state, next)
      BY <2>7 DEF ChoiceOf
    <3>2. mem' \in [Programs -> Settings]
      BY <3>1 DEF Choose, Settings
    <3>3. touched' \in [Programs -> SUBSET Caps]
      BY <3>1 DEF Choose
    <3> QED
      BY <3>1, <3>2, <3>3 DEF Choose
  <2>8. CASE p \in Editors /\ Quit(p)
    BY <2>8 DEF Quit, traceVars
  <2> QED
    BY <2>1, <2>2, <2>3, <2>4, <2>5, <2>6, <2>7, <2>8
<1> QED
  BY <1>1, <1>2

LEMMA TypeInit == Init => TypeOK
<1> SUFFICES ASSUME Init PROVE TypeOK
  OBVIOUS
<1>1. wish \in Settings
  BY DEF Init, Unset, Settings
<1>2. mem \in [Programs -> Settings]
  BY DEF Init, Unset, Settings
<1>3. ever \subseteq Caps \X (States \cup {"unset"})
  BY <1>1 DEF Init, Settings
<1> QED
  BY <1>1, <1>2, <1>3 DEF Init, TypeOK

(* Type correctness, for every menu and any programs. *)
THEOREM TypeCorrect == Spec => []TypeOK
<1>1. TypeOK /\ [Next]_vars => TypeOK'
  BY TypeNext
<1> QED
  BY <1>1, TypeInit, PTL DEF Spec

(***************************************************************************)
(* Nothing is invented, however many programs share the file.              *)
(***************************************************************************)

LEMMA NothingInventedNext ==
    TypeOK /\ NothingInvented /\ [Next]_vars => NothingInvented'
<1> SUFFICES ASSUME TypeOK, NothingInvented, [Next]_vars
             PROVE  NothingInvented'
  OBVIOUS
<1> USE DEF NothingInvented
<1>1. CASE UNCHANGED vars
  BY <1>1 DEF vars
<1>2. CASE Next
  <2>1. PICK p \in Programs :
            \/ Start(p) \/ OpenFile(p) \/ WriteFile(p) \/ SaveRaises(p)
            \/ Stop(p) \/ ChoiceOf(p) \/ (p \in Editors /\ Quit(p))
    BY <1>2, NextCases
  <2>2. CASE Start(p)
    BY <2>2 DEF Start, traceVars, Unset, TypeOK
  <2>3. CASE OpenFile(p)
    BY <2>3, SettingsAssumption DEF OpenFile, traceVars, TypeOK
  <2>4. CASE WriteFile(p)
    <3>1. /\ file' \in Settings => file' = mem[p]
          /\ pc[p] # "down" /\ mem' = mem /\ ever' = ever
          /\ \A q \in Programs : pc'[q] # "down" => pc[q] # "down"
      BY <2>4, SettingsAssumption DEF WriteFile, Saved, TypeOK
    <3> QED
      BY <3>1
  <2>5. CASE SaveRaises(p)
    BY <2>5 DEF SaveRaises, traceVars, TypeOK
  <2>6. CASE Stop(p)
    BY <2>6 DEF Stop, traceVars, TypeOK
  <2>7. CASE ChoiceOf(p)
    <3>1. PICK cap \in Caps, state \in States, next \in {"ready", "saving"} :
              Choose(p, cap, state, next)
      BY <2>7 DEF ChoiceOf
    <3>2. /\ file' = file /\ ever' = ever \cup {<<cap, state>>}
          /\ \A q \in Programs : pc'[q] # "down" => pc[q] # "down"
      BY <3>1 DEF Choose, TypeOK
    <3>3. \A q \in Programs : \A c \in Caps :
             mem'[q][c] = IF q = p /\ c = cap THEN state ELSE mem[q][c]
      BY <3>1 DEF Choose, TypeOK, Settings
    <3> QED
      BY <3>2, <3>3
  <2>8. CASE p \in Editors /\ Quit(p)
    BY <2>8 DEF Quit, traceVars, TypeOK
  <2> QED
    BY <2>1, <2>2, <2>3, <2>4, <2>5, <2>6, <2>7, <2>8
<1> QED
  BY <1>1, <1>2

LEMMA NothingInventedInit == Init => NothingInvented
<1> SUFFICES ASSUME Init PROVE NothingInvented
  OBVIOUS
<1>1. file \in Settings => \A cap \in Caps : <<cap, file[cap]>> \in ever
  BY SettingsAssumption DEF Init
<1>2. \A p \in Programs : pc[p] = "down"
  BY DEF Init
<1> QED
  BY <1>1, <1>2 DEF NothingInvented

(* A setting in the file or in a running copy is one the user chose, with
   any number of programs that die or overwrite each other's saves. *)
THEOREM ChoicesAreTheUsers == Spec => []NothingInvented
<1>1. TypeOK /\ NothingInvented /\ [Next]_vars => NothingInvented'
  BY NothingInventedNext
<1> QED
  BY <1>1, NothingInventedInit, TypeCorrect, PTL DEF Spec

(* No gateway passes over the question for a capability that requires
   confirmation unless the user allowed that capability at some time. *)
THEOREM GateShut == Spec => []GateStaysShut
<1>1. TypeOK /\ NothingInvented => GateStaysShut
  BY SettingsAssumption
     DEF TypeOK, NothingInvented, GateStaysShut, EffectiveState, Programs
<1> QED
  BY <1>1, ChoicesAreTheUsers, TypeCorrect, PTL

(***************************************************************************)
(* Programs that use the file in turn.                                     *)
(***************************************************************************)

Running(p) == pc[p] # "down"

(* Only one program runs. *)
Alone == \A p, q \in Programs : Running(p) /\ Running(q) => p = q

(* The file is the user's saved wishes, and so is a running copy except for
   what was chosen in it since; a gateway never chooses against a block. *)
Faithful ==
    /\ file \in Settings => file = wish
    /\ file = NoFile => wish = Unset
    /\ \A p \in Programs : Running(p) =>
          \A cap \in Caps \ touched[p] : mem[p][cap] = wish[cap]
    /\ \A g \in Gateways : Running(g) =>
          \A cap \in touched[g] : wish[cap] # "block"
    /\ \A p \in Programs : ~Running(p) => touched[p] = {}

ExclusiveInv == ~shared => Alone /\ Faithful

LEMMA ExclusiveNext ==
    TypeOK /\ ExclusiveInv /\ [Next]_vars => ExclusiveInv'
<1> SUFFICES ASSUME TypeOK, ExclusiveInv, [Next]_vars, ~shared'
             PROVE  (Alone /\ Faithful)'
  BY DEF ExclusiveInv
<1>s. ~shared
  BY NextCases DEF vars, Start, OpenFile, WriteFile, SaveRaises, Stop,
                   ChoiceOf, Choose, Quit, traceVars
<1>a. Alone /\ Faithful
  BY <1>s DEF ExclusiveInv
<1> USE <1>a DEF Alone, Faithful, Running, TypeOK
<1>1. CASE UNCHANGED vars
  BY <1>1 DEF vars, Unset
<1>2. CASE Next
  <2>1. PICK p \in Programs :
            \/ Start(p) \/ OpenFile(p) \/ WriteFile(p) \/ SaveRaises(p)
            \/ Stop(p) \/ ChoiceOf(p) \/ (p \in Editors /\ Quit(p))
    BY <1>2, NextCases
  <2>g. Gateways \subseteq Programs
    BY DEF Programs
  <2>2. CASE Start(p)
    <3>1. /\ \A q \in Programs : pc[q] = "down"
          /\ \A q \in Programs : pc'[q] # "down" => q = p
      BY <2>2, <1>s DEF Start
    <3>2. mem'[p] = wish /\ wish' = wish /\ file' = file
      BY <2>2, SettingsAssumption DEF Start, traceVars
    <3>3. touched' = touched
      BY <2>2 DEF Start
    <3> QED
      BY <3>1, <3>2, <3>3, <2>g DEF Unset
  <2>3. CASE OpenFile(p)
    BY <2>3, <2>g, SettingsAssumption DEF OpenFile, traceVars
  <2>4. CASE WriteFile(p)
    <3>1. /\ Running(p) /\ mem' = mem
          /\ \A q \in Programs : q # p => pc'[q] = pc[q] /\ touched'[q] = touched[q]
          /\ touched'[p] = {}
      BY <2>4 DEF WriteFile
    <3>2. \A q \in Programs : q # p => ~Running(q)
      BY <3>1
    <3>3. wish' = mem[p]
      <4>1. wish' = [cap \in Caps |->
                       IF cap \in touched[p] THEN mem[p][cap] ELSE wish[cap]]
        BY <2>4 DEF WriteFile
      <4>2. \A cap \in Caps : wish'[cap] = mem[p][cap]
        BY <3>1, <4>1
      <4> QED
        BY <4>1, <4>2 DEF Settings
    <3>4. /\ file' \in Settings => file' = wish'
          /\ file' # NoFile
      BY <2>4, <3>3, SettingsAssumption DEF WriteFile, Saved
    <3>5. Alone'
      BY <3>1, <3>2
    <3>6. \A q \in Programs : Running(q)' =>
              \A cap \in Caps \ touched'[q] : mem'[q][cap] = wish'[cap]
      BY <3>1, <3>2, <3>3
    <3>7. \A q \in Programs : touched'[q] = {}
      BY <3>1, <3>2
    <3> QED
      BY <3>4, <3>5, <3>6, <3>7, <2>g
  <2>5. CASE SaveRaises(p)
    BY <2>5, <2>g DEF SaveRaises, traceVars, Unset
  <2>6. CASE Stop(p)
    BY <2>6, <2>g DEF Stop, traceVars, Unset
  <2>7. CASE ChoiceOf(p)
    <3>1. PICK cap \in Caps, state \in States, next \in {"ready", "saving"} :
              /\ p \in Gateways => EffectiveState(p, cap) = "ask"
              /\ Choose(p, cap, state, next)
      BY <2>7 DEF ChoiceOf
    <3>2. /\ file' = file /\ wish' = wish
          /\ \A q \in Programs : Running(q)' <=> Running(q)
          /\ Running(p)
      BY <3>1 DEF Choose
    <3>3. \A q \in Programs :
             touched'[q] = IF q = p THEN touched[p] \cup {cap} ELSE touched[q]
      BY <3>1 DEF Choose
    <3>4. \A q \in Programs : \A c \in Caps :
             c \notin touched'[q] => mem'[q][c] = mem[q][c]
      BY <3>1, <3>3 DEF Choose, Settings
    <3>5. Alone'
      BY <3>2
    <3>6. \A q \in Programs : Running(q)' =>
              \A c \in Caps \ touched'[q] : mem'[q][c] = wish'[c]
      BY <3>2, <3>3, <3>4
    <3>7. p \in Gateways => wish[cap] # "block"
      <4>1. p \in Gateways /\ cap \notin touched[p] => mem[p][cap] # "block"
        BY <3>1 DEF EffectiveState
      <4> QED
        BY <3>2, <4>1
    <3>8. \A g \in Gateways : Running(g)' =>
              \A c \in touched'[g] : wish'[c] # "block"
      BY <3>2, <3>3, <3>7, <2>g
    <3>9. \A q \in Programs : ~Running(q)' => touched'[q] = {}
      BY <3>2, <3>3
    <3>10. /\ file' \in Settings => file' = wish'
           /\ file' = NoFile => wish' = Unset
      BY <3>2
    <3> QED
      BY <3>5, <3>6, <3>8, <3>9, <3>10 DEF Unset
  <2>8. CASE p \in Editors /\ Quit(p)
    BY <2>8, <2>g DEF Quit, traceVars, Unset
  <2> QED
    BY <2>1, <2>2, <2>3, <2>4, <2>5, <2>6, <2>7, <2>8
<1> QED
  BY <1>1, <1>2

LEMMA ExclusiveInit == Init => ExclusiveInv
<1> SUFFICES ASSUME Init PROVE ExclusiveInv
  OBVIOUS
<1>1. \A p \in Programs : pc[p] = "down" /\ touched[p] = {}
  BY DEF Init
<1>2. /\ file \in Settings => file = wish
      /\ file = NoFile => wish = Unset
  BY SettingsAssumption DEF Init
<1> QED
  BY <1>1, <1>2 DEF ExclusiveInv, Alone, Faithful, Running, Programs

(* As long as the programs use it in turn, the file holds the last choice that was saved
   of every capability, through crashes and failed saves. *)
THEOREM SettingsStand == Spec => []SavedChoiceStands
<1>1. TypeOK /\ ExclusiveInv /\ [Next]_vars => ExclusiveInv'
  BY ExclusiveNext
<1>2. ExclusiveInv => SavedChoiceStands
  BY DEF ExclusiveInv, Faithful, SavedChoiceStands, ChoicesStick
<1> QED
  BY <1>1, <1>2, ExclusiveInit, TypeCorrect, PTL DEF Spec

(* As long as the programs use the file in turn, a running gateway knows every saved block. *)
THEOREM BlocksHold == Spec => []BlockHolds
<1>1. TypeOK /\ ExclusiveInv /\ [Next]_vars => ExclusiveInv'
  BY ExclusiveNext
<1>2. ExclusiveInv => BlockHolds
  <2> SUFFICES ASSUME ExclusiveInv, NEW g \in Gateways, NEW cap \in Caps,
                      ~shared, pc[g] # "down", wish[cap] = "block"
               PROVE  EffectiveState(g, cap) = "block"
    BY DEF BlockHolds
  <2>1. mem[g][cap] = "block"
    BY DEF ExclusiveInv, Faithful, Running, Programs
  <2> QED
    BY <2>1 DEF EffectiveState
<1> QED
  BY <1>1, <1>2, ExclusiveInit, TypeCorrect, PTL DEF Spec

=============================================================================
