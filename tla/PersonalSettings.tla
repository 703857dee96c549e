-------------------------- MODULE PersonalSettings --------------------------
(***************************************************************************)
(* The user's permissions file and those who keep a copy of it             *)
(* (consumer/preferences.py): gateways, which upgrade a capability to      *)
(* ALLOW when the user answers "Always" (consumer/loop.py), the app, which *)
(* saves every change at once (app/model.py), and the permissions editor,  *)
(* which saves when the user leaves it (consumer/permissions.py).          *)
(*                                                                         *)
(* Each of them reads the file once, when it starts, and saves its whole   *)
(* copy.  A save opens the file, which empties it, and writes the text     *)
(* when the file is closed; nothing locks the file.                        *)
(***************************************************************************)
EXTENDS Naturals

CONSTANTS
    Caps,           \* the capabilities on the menu
    ConfirmCaps,    \* those with requires_user_confirmation
    Gateways, Apps, Editors,    \* the programs that may be started
    NoFile,         \* no settings file
    Empty, Garbled, \* one without text; one that is no JSON
    MaxChoices      \* bound of the model

Programs == Gateways \cup Apps \cup Editors

States == {"allow", "ask", "block"}

Settings == [Caps -> States \cup {"unset"}]

ASSUME SettingsAssumption ==
    /\ ConfirmCaps \subseteq Caps
    /\ Gateways \cap (Apps \cup Editors) = {}
    /\ {NoFile, Empty, Garbled} \cap Settings = {}
    /\ NoFile \notin {Empty, Garbled}
    /\ MaxChoices \in Nat

VARIABLES
    file,       \* the settings file
    mem,        \* Preferences._settings of each program
    pc,         \* what each program is doing
    touched,    \* the capabilities it has a choice for that is not saved
    wish,       \* of each capability, the last choice of the user that was saved
    ever,       \* every choice the user ever made
    choices,    \* how many choices were made
    shared      \* TRUE: two programs have used the file at the same time

traceVars == <<wish, ever, choices, shared>>
vars == <<file, mem, pc, touched, wish, ever, choices, shared>>

Unset == [cap \in Caps |-> "unset"]

Init ==
    /\ file \in Settings \cup {NoFile}
    /\ mem = [p \in Programs |-> Unset]
    /\ pc = [p \in Programs |-> "down"]
    /\ touched = [p \in Programs |-> {}]
    /\ wish = IF file = NoFile THEN Unset ELSE file
    /\ ever = {<<cap, wish[cap]>> : cap \in Caps}
    /\ choices = 0 /\ shared = FALSE

(* -------------------------------------------------------------------- *)

(* Faulty: the default does not look at requires_user_confirmation. *)
EffectiveStateOpen(p, cap) ==
    IF mem[p][cap] # "unset" THEN mem[p][cap] ELSE "allow"

(* Faulty: a block is asked about. *)
EffectiveStateAsking(p, cap) ==
    IF mem[p][cap] = "allow" THEN "allow"
    ELSE IF cap \in ConfirmCaps \/ mem[p][cap] # "unset" THEN "ask" ELSE "allow"

(* Preferences.effective_state *)
EffectiveState(p, cap) ==
    IF mem[p][cap] # "unset" THEN mem[p][cap]
    ELSE IF cap \in ConfirmCaps THEN "ask" ELSE "allow"

(* Preferences.load: a missing file is an empty one, a file that cannot be
   parsed ends the program before it starts. *)
Start(p) ==
    /\ pc[p] = "down" /\ file \in Settings \cup {NoFile}
    /\ mem' = [mem EXCEPT ![p] = IF file = NoFile THEN Unset ELSE file]
    /\ pc' = [pc EXCEPT ![p] = "ready"]
    /\ shared' = (shared \/ \E q \in Programs : pc[q] # "down")
    /\ UNCHANGED <<file, touched, wish, ever, choices>>

(* The user chooses; `next` is what the program does about it. *)
Choose(p, cap, state, next) ==
    /\ pc[p] = "ready" /\ choices < MaxChoices
    /\ mem' = [mem EXCEPT ![p][cap] = state]
    /\ touched' = [touched EXCEPT ![p] = @ \cup {cap}]
    /\ ever' = ever \cup {<<cap, state>>}
    /\ choices' = choices + 1
    /\ pc' = [pc EXCEPT ![p] = next]
    /\ UNCHANGED <<file, wish, shared>>

AnswerAlways(g, cap) ==
    /\ EffectiveState(g, cap) = "ask"
    /\ Choose(g, cap, "allow", "saving")

SetPermission(a, cap, state) == Choose(a, cap, state, "saving")

Edit(e, cap, state) == Choose(e, cap, state, "ready")

Quit(e) ==
    /\ pc[e] = "ready"
    /\ pc' = [pc EXCEPT ![e] = "saving"]
    /\ UNCHANGED <<file, mem, touched, traceVars>>

(* Preferences.save: open(..., "w") *)
OpenFile(p) ==
    /\ pc[p] = "saving"
    /\ file' = Empty
    /\ pc' = [pc EXCEPT ![p] = "writing"]
    /\ UNCHANGED <<mem, touched, traceVars>>

(* Faulty: the states that apply are saved, the defaults among them. *)
SavedEffective(p) == [cap \in Caps |-> EffectiveState(p, cap)]

(* Faulty: the copy is saved with null for what was never set. *)
SavedNull(p) ==
    [cap \in Caps |-> IF mem[p][cap] = "unset" THEN "null" ELSE mem[p][cap]]

(* Faulty: only what was chosen since the last save is written. *)
SavedTouched(p) ==
    [cap \in Caps |-> IF cap \in touched[p] THEN mem[p][cap] ELSE "unset"]

(* A copy is saved as it is: what the user never set stays unset. *)
Saved(p) == mem[p]

(* The text goes to the start of the file; over a longer text that another
   program has written since, it leaves the tail of that text behind it. *)
WriteFile(p) ==
    /\ pc[p] = "writing"
    /\ file' \in {Saved(p)} \cup (IF file = Empty THEN {} ELSE {Garbled})
    /\ wish' = [cap \in Caps |->
                   IF cap \in touched[p] THEN mem[p][cap] ELSE wish[cap]]
    /\ touched' = [touched EXCEPT ![p] = {}]
    /\ pc' = [pc EXCEPT ![p] = IF p \in Editors THEN "down" ELSE "ready"]
    /\ UNCHANGED <<mem, ever, choices, shared>>

(* The file cannot be opened or written.  The app reports it and carries on
   with a copy that is ahead of the file; a gateway and the editor end. *)
SaveRaises(p) ==
    /\ p \in Apps /\ pc[p] \in {"saving", "writing"}
    /\ pc' = [pc EXCEPT ![p] = "ready"]
    /\ UNCHANGED <<file, mem, touched, traceVars>>

(* The program is closed, or dies, at any moment, of a save that raises for
   one. *)
Stop(p) ==
    /\ pc[p] # "down"
    /\ pc' = [pc EXCEPT ![p] = "down"]
    /\ touched' = [touched EXCEPT ![p] = {}]
    /\ UNCHANGED <<file, mem, traceVars>>

(* -------------------------------------------------------------------- *)

Save(p) == OpenFile(p) \/ WriteFile(p) \/ SaveRaises(p)

Next ==
    \/ \E p \in Programs : Start(p) \/ Save(p) \/ Stop(p)
    \/ \E cap \in Caps :
          \/ \E g \in Gateways : AnswerAlways(g, cap)
          \/ \E state \in States :
                \/ \E a \in Apps : SetPermission(a, cap, state)
                \/ \E e \in Editors : Edit(e, cap, state)
    \/ \E e \in Editors : Quit(e)

Spec == Init /\ [][Next]_vars

(***************************************************************************)
(* Properties                                                              *)
(***************************************************************************)

(* The type of every variable. *)
TypeOK ==
    /\ file \in Settings \cup {NoFile, Empty, Garbled}
    /\ mem \in [Programs -> Settings]
    /\ pc \in [Programs -> {"down", "ready", "saving", "writing"}]
    /\ touched \in [Programs -> SUBSET Caps]
    /\ wish \in Settings
    /\ ever \subseteq Caps \X (States \cup {"unset"})
    /\ choices \in Nat /\ shared \in BOOLEAN

(* consumer/preferences.py, "the choices stick between runs": of every
   capability, a file that can be read holds the last choice that was saved,
   whichever program saved it. *)
ChoicesStick ==
    file \in Settings =>
        \A cap \in Caps : wish[cap] # "unset" => file[cap] = wish[cap]

(* The choices stick as long as the programs use the file one after the
   other, whatever saves fail or are cut off by the death of a program. *)
SavedChoiceStands == ~shared => ChoicesStick

(* consumer/permissions.py, "Block: never let the agent do it": while a
   capability is saved as blocked, no gateway runs it or asks for it, as
   long as the programs use the file one after the other. *)
BlockHolds ==
    ~shared =>
        \A g \in Gateways : \A cap \in Caps :
            pc[g] # "down" /\ wish[cap] = "block" =>
                EffectiveState(g, cap) = "block"

(* Whatever programs run side by side, die or lose each other's saves, a
   setting in the file or in a running copy is one the user chose for that
   capability at some time; a default is never written down as a choice. *)
NothingInvented ==
    /\ file \in Settings => \A cap \in Caps :
           file[cap] # "unset" => <<cap, file[cap]>> \in ever
    /\ \A p \in Programs : \A cap \in Caps :
           pc[p] # "down" /\ mem[p][cap] # "unset" =>
               <<cap, mem[p][cap]>> \in ever

(* mcp_gateway.py, "the confirmation gate must not fail open": a gateway
   passes over the question for a capability that requires confirmation only
   if the user allowed that capability at some time. *)
GateStaysShut ==
    \A g \in Gateways : \A cap \in ConfirmCaps :
        pc[g] # "down" /\ EffectiveState(g, cap) = "allow" =>
            <<cap, "allow">> \in ever

=============================================================================
