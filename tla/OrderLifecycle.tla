--------------------------- MODULE OrderLifecycle ---------------------------
(***************************************************************************)
(* What the order path promises of each order, whatever policy, user and   *)
(* chef do: it is settled once; it runs only after it was granted; one     *)
(* that was refused never ran; and the gateway takes up the next order     *)
(* only when the last one is no longer in progress.  Where the receipt     *)
(* could not be committed the outcome is in doubt, until the next receipt  *)
(* that is committed confirms it or the process loses it.                  *)
(***************************************************************************)
EXTENDS Naturals

CONSTANT MaxSerial      \* orders are numbered 1..MaxSerial as they arrive

VARIABLES
    stage,      \* what became of each order
    doubt       \* the orders of which that is not yet certain

lifecycleVars == <<stage, doubt>>

Settled == {"refused", "fulfilled", "failed"}

InProgress == {"placed", "granted", "running"}

Serials == 1..MaxSerial

LifecycleTypeOK ==
    /\ stage \in [Serials -> {"absent", "lost"} \cup Settled \cup InProgress]
    /\ doubt \subseteq {i \in Serials : stage[i] \in Settled}

Start == stage = [i \in Serials |-> "absent"] /\ doubt = {}

Move(i, from, to) ==
    /\ stage[i] \in from
    /\ stage' = [stage EXCEPT ![i] = to]

Place(i) ==
    /\ \A j \in Serials : /\ stage[j] \notin InProgress
                          /\ j < i => stage[j] # "absent"
    /\ Move(i, {"absent"}, "placed")
    /\ UNCHANGED doubt

Grant(i) == Move(i, {"placed"}, "granted") /\ UNCHANGED doubt

Run(i) == Move(i, {"granted"}, "running") /\ UNCHANGED doubt

(* With the receipt of this order all that are in doubt are committed. *)
Refuse(i) == Move(i, {"placed"}, "refused") /\ doubt' = {}

Finish(i) ==
    /\ \E to \in {"fulfilled", "failed"} : Move(i, {"running"}, to)
    /\ doubt' = {}

(* The receipt is written and not committed. *)
Doubt(i) ==
    /\ \/ Move(i, {"placed"}, "refused")
       \/ \E to \in {"fulfilled", "failed"} : Move(i, {"running"}, to)
    /\ doubt' = doubt \cup {i}

(* The call raised, or the process died and lost what was in doubt. *)
Lose(i) ==
    /\ stage[i] \in InProgress
    /\ \E gone \in {{}, doubt} :
          /\ stage' = [j \in Serials |->
                          IF j \in gone \cup {i} THEN "lost" ELSE stage[j]]
          /\ doubt' = doubt \ gone

Advance == \E i \in Serials :
               Refuse(i) \/ Grant(i) \/ Run(i) \/ Finish(i) \/ Doubt(i) \/ Lose(i)

(* The receipt of something else is committed. *)
Confirm == doubt' = {} /\ UNCHANGED stage

(* Nothing is in progress, and what is in doubt is lost. *)
Forget ==
    /\ stage' = [j \in Serials |-> IF j \in doubt THEN "lost" ELSE stage[j]]
    /\ doubt' = {}

Step == Advance \/ Confirm \/ Forget \/ \E i \in Serials : Place(i)

LifecycleSpec == Start /\ [][Step]_lifecycleVars

FairLifecycleSpec == LifecycleSpec /\ WF_lifecycleVars(Advance)

=============================================================================
