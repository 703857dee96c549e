------------------------------ MODULE HostConfig ------------------------------
(***************************************************************************)
(* The configuration file of an MCP host and the two who write it: the     *)
(* host itself, when its user adds or removes a server, and the Connect    *)
(* screen of the app (app/connect.py, AppModel.toggle_connection), which   *)
(* adds or removes the one entry named "sentinel".                         *)
(*                                                                         *)
(* Both read the whole file, change their copy and rewrite the file in     *)
(* place: opening it empties it, the text follows when it is closed, and   *)
(* over a longer text that somebody wrote in between it leaves a tail.     *)
(* Nothing locks the file, and either may die between two steps.  The app  *)
(* takes a file that it cannot open or parse for an empty one and writes   *)
(* over it.                                                                *)
(***************************************************************************)
EXTENDS Naturals

CONSTANTS
    Servers,        \* what else the file may hold: other servers, other keys
    Apps, Hosts,    \* app windows and host processes
    NoFile,         \* no file
    Empty, Garbled, \* one without text; one that is no JSON
    MaxEdits        \* bound of the model: edits of the host's user

Writers == Apps \cup Hosts

(* A file that can be parsed; "sentinel" is SERVER_KEY. *)
Config == [servers : SUBSET Servers, sentinel : BOOLEAN]

ASSUME HostConfigAssumption ==
    /\ Apps \cap Hosts = {}
    /\ {NoFile, Empty, Garbled} \cap Config = {}
    /\ NoFile \notin {Empty, Garbled}
    /\ Empty # Garbled
    /\ MaxEdits \in Nat

VARIABLES
    config,     \* the file
    at,         \* what each writer is doing
    held,       \* its copy of the file
    wanted,     \* what the host's user has configured beside sentinel
    ever,       \* all that was wanted so far
    linked,     \* how the switch stands after the toggles that were written
    edits,      \* how many edits the host's user has made
    overlap,    \* TRUE: somebody wrote while another operation was going on
    cut,        \* TRUE: a rewrite ended between its two steps
    blind       \* TRUE: the app went on from a read that did not tell the file

traceVars == <<wanted, ever, linked, edits>>
vars == <<config, at, held, wanted, ever, linked, edits, overlap, cut, blind>>

NoConfig == [servers |-> {}, sentinel |-> FALSE]

(* The file for who can read it. *)
Parsed == IF config \in Config THEN config ELSE NoConfig

(* read_config: a file that is absent or cannot be parsed is an empty one, and
   so is one that cannot be opened just now. *)
ReadConfig == {Parsed, NoConfig}

Misread(read) == config # NoFile /\ read # config

Resting == \A w \in Writers : at[w] = "idle"

(* The host may be able to read more than the app can: of a file that is no
   JSON for the app, any servers may be wanted. *)
Init ==
    /\ config \in Config \cup {NoFile, Garbled}
    /\ at = [w \in Writers |-> "idle"]
    /\ held = [w \in Writers |-> NoConfig]
    /\ wanted \in IF config = Garbled THEN SUBSET Servers ELSE {Parsed.servers}
    /\ ever = {wanted}
    /\ linked = Parsed.sentinel /\ edits = 0
    /\ overlap = FALSE /\ cut = FALSE /\ blind = FALSE

GoTo(w, where) == at' = [at EXCEPT ![w] = where]

(* Another operation is in progress, with a copy that will be out of date. *)
Behind(w) == \E v \in Writers \ {w} : at[v] # "idle"

(* -------------------------------------------------------------------- *)
(* The Connect screen.                                                   *)

(* toggle_connection asks is_connected, which reads the file once ... *)
Toggle(a) ==
    /\ at[a] = "idle"
    /\ \E read \in ReadConfig :
           /\ GoTo(a, IF read.sentinel THEN "disconnect" ELSE "connect")
           /\ blind' = (blind \/ Misread(read))
    /\ UNCHANGED <<config, held, traceVars, overlap, cut>>

(* Faulty: the entry is written over what else the map held. *)
ConnectAlone(a) ==
    /\ at[a] = "connect"
    /\ held' = [held EXCEPT ![a] = [NoConfig EXCEPT !.sentinel = TRUE]]
    /\ GoTo(a, "opening")
    /\ UNCHANGED <<config, traceVars, overlap, cut, blind>>

(* ... connect and disconnect read it again. *)
Connect(a) ==
    /\ at[a] = "connect"
    /\ \E read \in ReadConfig :
           /\ held' = [held EXCEPT ![a] = [read EXCEPT !.sentinel = TRUE]]
           /\ blind' = (blind \/ Misread(read))
    /\ GoTo(a, "opening")
    /\ UNCHANGED <<config, traceVars, overlap, cut>>

(* Faulty: an entry that is gone by now leaves the window waiting. *)
DisconnectWaiting(a) ==
    /\ at[a] = "disconnect"
    /\ \E read \in ReadConfig :
           /\ held' = [held EXCEPT ![a] = [read EXCEPT !.sentinel = FALSE]]
           /\ GoTo(a, IF read.sentinel THEN "opening" ELSE "absent")
    /\ UNCHANGED <<config, traceVars, overlap, cut, blind>>

(* "absent" when the entry is gone by now, or cannot be read: nothing is
   written. *)
Disconnect(a) ==
    /\ at[a] = "disconnect"
    /\ \E read \in ReadConfig :
           /\ held' = [held EXCEPT ![a] = [read EXCEPT !.sentinel = FALSE]]
           /\ GoTo(a, IF read.sentinel THEN "opening" ELSE "idle")
    /\ UNCHANGED <<config, traceVars, overlap, cut, blind>>

(* -------------------------------------------------------------------- *)
(* The host (external): its user edits the list of servers; a file it      *)
(* cannot read it leaves alone.  It keeps an entry it does not know.       *)

HostEdits(h, servers) ==
    /\ at[h] = "idle" /\ edits < MaxEdits
    /\ config \in Config \cup {NoFile}
    /\ held' = [held EXCEPT ![h] = [Parsed EXCEPT !.servers = servers]]
    /\ edits' = edits + 1
    /\ GoTo(h, "opening")
    /\ UNCHANGED <<config, wanted, ever, linked, overlap, cut, blind>>

(* -------------------------------------------------------------------- *)
(* The rewrite, _write_config of the app.                                *)

OpenFile(w) ==
    /\ at[w] = "opening"
    /\ config' = Empty
    /\ overlap' = (overlap \/ Behind(w))
    /\ GoTo(w, "writing")
    /\ UNCHANGED <<held, traceVars, cut, blind>>

Write(w) ==
    /\ at[w] = "writing"
    /\ config' \in {held[w]} \cup (IF config = Empty THEN {} ELSE {Garbled})
    /\ wanted' = IF w \in Hosts THEN held[w].servers ELSE wanted
    /\ ever' = ever \cup {wanted'}
    /\ linked' = IF w \in Apps THEN ~linked ELSE linked
    /\ overlap' = (overlap \/ Behind(w))
    /\ GoTo(w, "idle")
    /\ UNCHANGED <<held, edits, cut, blind>>

(* The open or the write raises, or the program dies. *)
Stop(w) ==
    /\ at[w] # "idle"
    /\ cut' = (cut \/ at[w] = "writing")
    /\ GoTo(w, "idle")
    /\ UNCHANGED <<config, held, traceVars, overlap, blind>>

(* -------------------------------------------------------------------- *)

Next ==
    \/ \E a \in Apps : Toggle(a) \/ Connect(a) \/ Disconnect(a)
    \/ \E h \in Hosts : \E servers \in SUBSET Servers : HostEdits(h, servers)
    \/ \E w \in Writers : OpenFile(w) \/ Write(w) \/ Stop(w)

Spec == Init /\ [][Next]_vars

(***************************************************************************)
(* Properties                                                              *)
(***************************************************************************)

(* The type of every variable. *)
TypeOK ==
    /\ config \in Config \cup {NoFile, Empty, Garbled}
    /\ at \in [Writers ->
                 {"idle", "connect", "disconnect", "opening", "writing"}]
    /\ held \in [Writers -> Config]
    /\ wanted \subseteq Servers /\ ever \subseteq SUBSET Servers
    /\ linked \in BOOLEAN /\ edits \in Nat
    /\ overlap \in BOOLEAN /\ cut \in BOOLEAN /\ blind \in BOOLEAN

(* When the writers take turns: at rest the file holds every server the host's
   user configured and no other, and sentinel exactly if the switch of the
   Connect screen stands there after the toggles that were written.  A rewrite
   that was cut off leaves an empty file, and a file the app never could read
   is left as it is. *)
KeptInTurn ==
    Resting /\ ~overlap /\ ~blind =>
        /\ config = Empty => cut
        /\ config \in Config =>
               config = [servers |-> wanted, sentinel |-> linked]
        /\ config = NoFile => wanted = {} /\ ~linked

(* However the writers overlap, fail and die, the servers in the file are at
   all times those that its user once had there, never a mixture; they are
   gone altogether only after the app could not read the file. *)
EverConfigured ==
    config \in Config => config.servers \in ever \/ (config.servers = {} /\ blind)

(* app/connect.py, "without clobbering any other MCP servers he has", as far as
   it goes: to lose a server it takes two operations at a time, or an app that
   went on from a file it could not read; to lose all of them, the latter. *)
FileAsLeft == KeptInTurn /\ EverConfigured

=============================================================================
