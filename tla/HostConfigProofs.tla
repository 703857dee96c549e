--------------------------- MODULE HostConfigProofs ---------------------------
(***************************************************************************)
(* Theorems about HostConfig, for any number of app windows and hosts over *)
(* one file and any contents.                                              *)
(***************************************************************************)
EXTENDS HostConfig, TLAPS

(* What is read is a map of servers, and tells the file or is known to fail. *)
LEMMA ReadType ==
    ASSUME NEW read \in ReadConfig
    PROVE  /\ read \in Config /\ Parsed \in Config
           /\ Misread(read) \in BOOLEAN
           /\ read.servers = Parsed.servers \/ read.servers = {}
           /\ ~Misread(read) =>
                  \/ config \in Config /\ read = config
                  \/ config = NoFile /\ read = [servers |-> {}, sentinel |-> FALSE]
<1>1. NoConfig \in Config /\ Parsed \in Config
  BY DEF Parsed, NoConfig, Config
<1>2. NoConfig.servers = {}
  BY DEF NoConfig
<1> QED
  BY <1>1, <1>2, HostConfigAssumption DEF ReadConfig, Parsed, Misread, NoConfig

LEMMA ParsedType == Parsed \in Config
BY ReadType DEF ReadConfig

(***************************************************************************)
(* Type correctness.                                                       *)
(***************************************************************************)

Places == {"idle", "connect", "disconnect", "opening", "writing"}

LEMMA GoToFacts ==
    ASSUME TypeOK, NEW w \in Writers, NEW where \in Places, GoTo(w, where)
    PROVE  /\ at' \in [Writers -> Places]
           /\ at'[w] = where
           /\ \A v \in Writers \ {w} : at'[v] = at[v]
BY DEF GoTo, TypeOK, Places

(* A copy that is changed is the map that was read with one field replaced. *)
LEMMA CopyFacts ==
    ASSUME NEW read \in Config, NEW sentinel \in BOOLEAN,
           NEW servers \in SUBSET Servers
    PROVE  /\ [read EXCEPT !.sentinel = sentinel] \in Config
           /\ [read EXCEPT !.servers = servers] \in Config
           /\ [read EXCEPT !.sentinel = sentinel]
                  = [servers |-> read.servers, sentinel |-> sentinel]
           /\ [read EXCEPT !.servers = servers]
                  = [servers |-> servers, sentinel |-> read.sentinel]
BY DEF Config

LEMMA InitTypeOK == Init => TypeOK
<1> SUFFICES ASSUME Init PROVE TypeOK
  OBVIOUS
<1>1. config \in Config \cup {NoFile, Empty, Garbled}
  BY DEF Init
<1>2. at \in [Writers ->
                {"idle", "connect", "disconnect", "opening", "writing"}]
  BY DEF Init
<1>3. NoConfig \in Config
  BY DEF NoConfig, Config
<1>4. held \in [Writers -> Config]
  BY <1>3 DEF Init
<1>5. wanted \subseteq Servers /\ linked \in BOOLEAN
  BY ParsedType DEF Init, Config
<1>6. ever \subseteq SUBSET Servers
  BY <1>5 DEF Init
<1>7. /\ edits \in Nat /\ overlap \in BOOLEAN
      /\ cut \in BOOLEAN /\ blind \in BOOLEAN
  BY DEF Init
<1> QED
  BY <1>1, <1>2, <1>4, <1>5, <1>6, <1>7 DEF TypeOK

(* What a window does before the rewrite, by what it read. *)
LEMMA ToggleFacts ==
    ASSUME TypeOK, NEW a \in Apps, Toggle(a)
    PROVE  \E read \in ReadConfig :
               /\ at' \in [Writers -> Places]
               /\ at[a] = "idle"
               /\ at'[a] = IF read.sentinel THEN "disconnect" ELSE "connect"
               /\ \A v \in Writers \ {a} : at'[v] = at[v]
               /\ blind' = (blind \/ Misread(read))
               /\ UNCHANGED <<config, held, wanted, ever, linked, edits,
                              overlap, cut>>
<1>1. PICK read \in ReadConfig :
          /\ GoTo(a, IF read.sentinel THEN "disconnect" ELSE "connect")
          /\ blind' = (blind \/ Misread(read))
  BY DEF Toggle
<1>2. a \in Writers
  BY DEF Writers
<1> QED
  BY <1>1, <1>2, GoToFacts DEF Toggle, traceVars, Places

LEMMA ConnectFacts ==
    ASSUME TypeOK, NEW a \in Apps, Connect(a)
    PROVE  \E read \in ReadConfig :
               /\ at' \in [Writers -> Places] /\ held' \in [Writers -> Config]
               /\ at[a] = "connect" /\ at'[a] = "opening"
               /\ held'[a] = [servers |-> read.servers, sentinel |-> TRUE]
               /\ \A v \in Writers \ {a} : at'[v] = at[v] /\ held'[v] = held[v]
               /\ blind' = (blind \/ Misread(read))
               /\ UNCHANGED <<config, wanted, ever, linked, edits, overlap, cut>>
<1>1. PICK read \in ReadConfig :
          /\ held' = [held EXCEPT ![a] = [read EXCEPT !.sentinel = TRUE]]
          /\ blind' = (blind \/ Misread(read))
  BY DEF Connect
<1>2. a \in Writers /\ GoTo(a, "opening") /\ "opening" \in Places
  BY DEF Writers, Connect, Places
<1>3. /\ at' \in [Writers -> Places] /\ at'[a] = "opening"
      /\ \A v \in Writers \ {a} : at'[v] = at[v]
  BY <1>2, GoToFacts
<1>4. /\ [read EXCEPT !.sentinel = TRUE] \in Config
      /\ [read EXCEPT !.sentinel = TRUE]
             = [servers |-> read.servers, sentinel |-> TRUE]
  BY ReadType, CopyFacts
<1>5. /\ held' \in [Writers -> Config]
      /\ held'[a] = [servers |-> read.servers, sentinel |-> TRUE]
      /\ \A v \in Writers \ {a} : held'[v] = held[v]
  BY <1>1, <1>2, <1>4 DEF TypeOK
<1> QED
  BY <1>1, <1>3, <1>5 DEF Connect, traceVars

LEMMA DisconnectFacts ==
    ASSUME TypeOK, NEW a \in Apps, Disconnect(a)
    PROVE  \E read \in ReadConfig :
               /\ at' \in [Writers -> Places] /\ held' \in [Writers -> Config]
               /\ at[a] = "disconnect"
               /\ at'[a] = IF read.sentinel THEN "opening" ELSE "idle"
               /\ held'[a] = [servers |-> read.servers, sentinel |-> FALSE]
               /\ \A v \in Writers \ {a} : at'[v] = at[v] /\ held'[v] = held[v]
               /\ UNCHANGED <<config, wanted, ever, linked, edits, overlap, cut,
                              blind>>
<1>1. PICK read \in ReadConfig :
          /\ held' = [held EXCEPT ![a] = [read EXCEPT !.sentinel = FALSE]]
          /\ GoTo(a, IF read.sentinel THEN "opening" ELSE "idle")
  BY DEF Disconnect
<1>2. a \in Writers
  BY DEF Writers
<1>3. /\ at' \in [Writers -> Places]
      /\ at'[a] = IF read.sentinel THEN "opening" ELSE "idle"
      /\ \A v \in Writers \ {a} : at'[v] = at[v]
  BY <1>1, <1>2, GoToFacts DEF Places
<1>4. /\ [read EXCEPT !.sentinel = FALSE] \in Config
      /\ [read EXCEPT !.sentinel = FALSE]
             = [servers |-> read.servers, sentinel |-> FALSE]
  BY ReadType, CopyFacts
<1>5. /\ held' \in [Writers -> Config]
      /\ held'[a] = [servers |-> read.servers, sentinel |-> FALSE]
      /\ \A v \in Writers \ {a} : held'[v] = held[v]
  BY <1>1, <1>2, <1>4 DEF TypeOK
<1> QED
  BY <1>1, <1>3, <1>5 DEF Disconnect, traceVars

LEMMA HostFacts ==
    ASSUME TypeOK, NEW h \in Hosts, NEW servers \in SUBSET Servers,
           HostEdits(h, servers)
    PROVE  /\ at' \in [Writers -> Places] /\ held' \in [Writers -> Config]
           /\ at[h] = "idle" /\ at'[h] = "opening"
           /\ held'[h] = [servers |-> servers, sentinel |-> Parsed.sentinel]
           /\ \A v \in Writers \ {h} : at'[v] = at[v] /\ held'[v] = held[v]
           /\ edits' \in Nat /\ config \in Config \cup {NoFile}
           /\ UNCHANGED <<config, wanted, ever, linked, overlap, cut, blind>>
<1>0. h \in Writers
  BY DEF Writers
<1>1. /\ at' \in [Writers -> Places]
      /\ at'[h] = "opening"
      /\ \A v \in Writers \ {h} : at'[v] = at[v]
  BY <1>0, GoToFacts DEF HostEdits, Places
<1>2. /\ held' \in [Writers -> Config]
      /\ \A v \in Writers \ {h} : held'[v] = held[v]
      /\ held'[h] = [servers |-> servers, sentinel |-> Parsed.sentinel]
  BY <1>0, ParsedType, CopyFacts DEF HostEdits, TypeOK
<1> QED
  BY <1>1, <1>2 DEF HostEdits, TypeOK

LEMMA WriteFacts ==
    ASSUME TypeOK, NEW w \in Writers, Write(w)
    PROVE  /\ at[w] = "writing" /\ at'[w] = "idle" /\ held[w] \in Config
           /\ config' = held[w] \/ (config # Empty /\ config' = Garbled)
           /\ \A v \in Writers \ {w} : at'[v] = at[v]
           /\ w \in Hosts => wanted' = held[w].servers
           /\ w \notin Hosts => wanted' = wanted
           /\ ever' = ever \cup {wanted'}
BY GoToFacts DEF Write, TypeOK, Places

LEMMA NextTypeOK == TypeOK /\ [Next]_vars => TypeOK'
<1> SUFFICES ASSUME TypeOK, [Next]_vars PROVE TypeOK'
  OBVIOUS
<1>0. ASSUME NEW w \in Writers PROVE Behind(w) \in BOOLEAN
  BY DEF Behind
<1>1. ASSUME NEW a \in Apps, Toggle(a) PROVE TypeOK'
  BY <1>1, ToggleFacts, ReadType DEF TypeOK, Places
<1>2. ASSUME NEW a \in Apps, Connect(a) PROVE TypeOK'
  BY <1>2, ConnectFacts, ReadType DEF TypeOK, Places
<1>3. ASSUME NEW a \in Apps, Disconnect(a) PROVE TypeOK'
  BY <1>3, DisconnectFacts DEF TypeOK, Places
<1>4. ASSUME NEW h \in Hosts, NEW servers \in SUBSET Servers,
             HostEdits(h, servers)
      PROVE  TypeOK'
  BY <1>4, HostFacts DEF TypeOK, Places
<1>5. ASSUME NEW w \in Writers, OpenFile(w) PROVE TypeOK'
  <2>1. at' \in [Writers -> Places] /\ overlap' \in BOOLEAN
    BY <1>0, <1>5, GoToFacts DEF OpenFile, TypeOK, Places
  <2> QED
    BY <1>5, <2>1 DEF OpenFile, TypeOK, traceVars, Places
<1>6. ASSUME NEW w \in Writers, Write(w) PROVE TypeOK'
  <2>1. at' \in [Writers -> Places]
    BY <1>6, GoToFacts DEF Write, Places
  <2>2. overlap' \in BOOLEAN /\ linked' \in BOOLEAN
    BY <1>0, <1>6 DEF Write, TypeOK
  <2>3. held[w] \in Config
    BY DEF TypeOK
  <2>4. config' \in Config \cup {NoFile, Empty, Garbled}
    BY <1>6, <2>3 DEF Write
  <2>5. wanted' \subseteq Servers
    BY <1>6, <2>3 DEF Write, TypeOK, Config
  <2>6. ever' \subseteq SUBSET Servers
    BY <1>6, <2>5 DEF Write, TypeOK
  <2> QED
    BY <1>6, <2>1, <2>2, <2>4, <2>5, <2>6 DEF Write, TypeOK, Places
<1>7. ASSUME NEW w \in Writers, Stop(w) PROVE TypeOK'
  BY <1>7, GoToFacts DEF Stop, TypeOK, traceVars, Places
<1>8. CASE UNCHANGED vars
  BY <1>8 DEF vars, TypeOK
<1> QED
  BY <1>1, <1>2, <1>3, <1>4, <1>5, <1>6, <1>7, <1>8 DEF Next

(* Every variable keeps its type. *)
THEOREM TypeCorrect == Spec => []TypeOK
BY InitTypeOK, NextTypeOK, PTL DEF Spec

(***************************************************************************)
(* What the file holds when the writers take turns.                        *)
(***************************************************************************)

(* The file as its writers left it. *)
InStep ==
    /\ config = Empty => cut
    /\ config \in Config => config = [servers |-> wanted, sentinel |-> linked]
    /\ config = NoFile => wanted = {} /\ linked = FALSE

(* A writer's copy is the file with the one change it wants, and a toggle has
   seen how the switch stands. *)
CopyRight(w) ==
    /\ at[w] \in {"connect", "disconnect"} => w \in Apps
    /\ at[w] = "connect" => linked = FALSE
    /\ at[w] = "disconnect" => linked = TRUE
    /\ w \in Apps /\ at[w] \in {"opening", "writing"} =>
           held[w] = [servers |-> wanted, sentinel |-> ~linked]
    /\ w \in Hosts /\ at[w] \in {"opening", "writing"} =>
           held[w] = [servers |-> held[w].servers, sentinel |-> linked]

NobodyWrites == \A w \in Writers : at[w] # "writing"

(* Until two operations have overlapped or a read has failed: a writer between
   its two steps is alone, since who reads meanwhile reads an empty file; at
   any other time the file is as it was left; and every copy is right. *)
FileInv ==
    ~overlap /\ ~blind =>
        /\ \A w \in Writers : at[w] = "writing" =>
               config = Empty /\ \A v \in Writers \ {w} : at[v] = "idle"
        /\ NobodyWrites => InStep
        /\ \A w \in Writers : CopyRight(w)

LEMMA InitFile == Init => FileInv
<1> SUFFICES ASSUME Init PROVE FileInv
  OBVIOUS
<1>1. \A w \in Writers : at[w] = "idle"
  BY DEF Init
<1>2. config # Empty
  BY HostConfigAssumption DEF Init
<1>3. config \in Config => config = [servers |-> wanted, sentinel |-> linked]
  <2>1. config \in Config => wanted = config.servers /\ linked = config.sentinel
    BY HostConfigAssumption DEF Init, Parsed
  <2> QED
    BY <2>1 DEF Config
<1>4. config = NoFile => wanted = {} /\ linked = FALSE
  BY HostConfigAssumption DEF Init, Parsed, NoConfig
<1> QED
  BY <1>1, <1>2, <1>3, <1>4 DEF FileInv, InStep, CopyRight, NobodyWrites

(* A read that tells the file is in step, and nobody is writing. *)
LEMMA ReadFacts ==
    ASSUME FileInv, ~overlap, ~blind, NEW read,
           \/ config \in Config /\ read = config
           \/ config = NoFile /\ read = [servers |-> {}, sentinel |-> FALSE]
    PROVE  /\ read.servers = wanted /\ read.sentinel = linked
           /\ NobodyWrites
<1>1. config # Empty
  BY HostConfigAssumption
<1>2. NobodyWrites
  BY <1>1 DEF FileInv, NobodyWrites
<1>3. InStep
  BY <1>2 DEF FileInv
<1>4. CASE config \in Config /\ read = config
  <2>1. read = [servers |-> wanted, sentinel |-> linked]
    BY <1>3, <1>4 DEF InStep
  <2> QED
    BY <1>2, <2>1
<1>5. CASE config = NoFile /\ read = [servers |-> {}, sentinel |-> FALSE]
  BY <1>2, <1>3, <1>5 DEF InStep
<1> QED
  BY <1>4, <1>5

(* A step that touches neither the file nor its history, and after which the
   copy of its writer is right, keeps the invariant. *)
LEMMA KeepFile ==
    ASSUME FileInv, NEW w \in Writers,
           UNCHANGED <<config, wanted, linked, overlap, cut>>,
           blind => blind',
           at[w] # "writing", at'[w] # "writing",
           \A v \in Writers \ {w} : at'[v] = at[v] /\ held'[v] = held[v],
           ~overlap /\ ~blind' =>
               CopyRight(w)' /\ (NobodyWrites \/ at'[w] = "idle")
    PROVE  FileInv'
<1> SUFFICES ASSUME ~overlap, ~blind', ~blind PROVE FileInv'
  BY DEF FileInv
<1>1. NobodyWrites' <=> NobodyWrites
  BY DEF NobodyWrites
<1>2. InStep' <=> InStep
  BY DEF InStep
<1>3. \A v \in Writers \ {w} : CopyRight(v)' <=> CopyRight(v)
  BY DEF CopyRight
<1>4. ASSUME NEW v \in Writers, at'[v] = "writing"
      PROVE  config' = Empty /\ \A u \in Writers \ {v} : at'[u] = "idle"
  <2>1. v # w /\ at[v] = "writing" /\ ~NobodyWrites
    BY <1>4 DEF NobodyWrites
  <2>2. at'[w] = "idle"
    BY <2>1
  <2> QED
    BY <2>1, <2>2 DEF FileInv
<1>5. \A v \in Writers : CopyRight(v)'
  BY <1>3 DEF FileInv
<1>6. NobodyWrites' => InStep'
  BY <1>1, <1>2 DEF FileInv
<1> QED
  BY <1>4, <1>5, <1>6 DEF FileInv

LEMMA ToggleKeeps ==
    ASSUME TypeOK, FileInv, NEW a \in Apps, Toggle(a)
    PROVE  FileInv'
<1>0. a \in Writers /\ a \notin Hosts
  BY HostConfigAssumption DEF Writers
<1>1. PICK read \in ReadConfig :
          /\ at[a] = "idle"
          /\ at'[a] = IF read.sentinel THEN "disconnect" ELSE "connect"
          /\ \A v \in Writers \ {a} : at'[v] = at[v]
          /\ blind' = (blind \/ Misread(read))
          /\ UNCHANGED <<config, held, wanted, ever, linked, edits, overlap,
                         cut>>
  BY ToggleFacts
<1>2. ASSUME ~overlap, ~blind' PROVE CopyRight(a)' /\ NobodyWrites
  <2>1. /\ \/ config \in Config /\ read = config
           \/ config = NoFile /\ read = [servers |-> {}, sentinel |-> FALSE]
        /\ ~blind
    BY <1>1, <1>2, ReadType
  <2>2. read.sentinel = linked /\ NobodyWrites /\ linked \in BOOLEAN
    BY <1>2, <2>1, ReadFacts DEF TypeOK
  <2> QED
    BY <1>0, <1>1, <2>2 DEF CopyRight
<1>3. at'[a] # "writing" /\ at[a] # "writing"
  BY <1>1
<1>4. \A v \in Writers \ {a} : at'[v] = at[v] /\ held'[v] = held[v]
  BY <1>1
<1> QED
  BY <1>0, <1>1, <1>2, <1>3, <1>4, KeepFile

LEMMA ConnectKeeps ==
    ASSUME TypeOK, FileInv, NEW a \in Apps, Connect(a)
    PROVE  FileInv'
<1>0. a \in Writers /\ a \notin Hosts
  BY HostConfigAssumption DEF Writers
<1>1. PICK read \in ReadConfig :
          /\ at[a] = "connect" /\ at'[a] = "opening"
          /\ held'[a] = [servers |-> read.servers, sentinel |-> TRUE]
          /\ \A v \in Writers \ {a} : at'[v] = at[v] /\ held'[v] = held[v]
          /\ blind' = (blind \/ Misread(read))
          /\ UNCHANGED <<config, wanted, ever, linked, edits, overlap, cut>>
  BY ConnectFacts
<1>2. ASSUME ~overlap, ~blind' PROVE CopyRight(a)' /\ NobodyWrites
  <2>1. /\ \/ config \in Config /\ read = config
           \/ config = NoFile /\ read = [servers |-> {}, sentinel |-> FALSE]
        /\ ~blind
    BY <1>1, <1>2, ReadType
  <2>2. read.servers = wanted /\ NobodyWrites
    BY <1>2, <2>1, ReadFacts
  <2>3. linked = FALSE
    BY <1>0, <1>1, <1>2, <2>1 DEF FileInv, CopyRight
  <2> QED
    BY <1>0, <1>1, <2>2, <2>3 DEF CopyRight
<1>3. at'[a] # "writing" /\ at[a] # "writing"
  BY <1>1
<1> QED
  BY <1>0, <1>1, <1>2, <1>3, KeepFile

LEMMA DisconnectKeeps ==
    ASSUME TypeOK, FileInv, NEW a \in Apps, Disconnect(a)
    PROVE  FileInv'
<1>0. a \in Writers /\ a \notin Hosts
  BY HostConfigAssumption DEF Writers
<1>1. PICK read \in ReadConfig :
          /\ at[a] = "disconnect"
          /\ at'[a] = IF read.sentinel THEN "opening" ELSE "idle"
          /\ held'[a] = [servers |-> read.servers, sentinel |-> FALSE]
          /\ \A v \in Writers \ {a} : at'[v] = at[v] /\ held'[v] = held[v]
          /\ UNCHANGED <<config, wanted, ever, linked, edits, overlap, cut,
                         blind>>
  BY DisconnectFacts
<1>2. ASSUME ~overlap, ~blind'
      PROVE  CopyRight(a)' /\ (NobodyWrites \/ at'[a] = "idle")
  <2>1. CASE read.sentinel = TRUE
    <3>1. config \in Config /\ read = config
      <4>1. read # NoConfig
        BY <2>1 DEF NoConfig
      <4> QED
        BY <4>1 DEF ReadConfig, Parsed
    <3>2. read.servers = wanted /\ NobodyWrites
      BY <1>1, <1>2, <3>1, ReadFacts
    <3>3. linked = TRUE
      BY <1>0, <1>1, <1>2 DEF FileInv, CopyRight
    <3> QED
      BY <1>0, <1>1, <2>1, <3>2, <3>3 DEF CopyRight
  <2>2. CASE read.sentinel # TRUE
    <3>1. at'[a] = "idle"
      BY <1>1, <2>2, ReadType DEF Config
    <3> QED
      BY <3>1 DEF CopyRight
  <2> QED
    BY <2>1, <2>2
<1>3. at'[a] # "writing" /\ at[a] # "writing"
  BY <1>1
<1> QED
  BY <1>0, <1>1, <1>2, <1>3, KeepFile

LEMMA HostKeeps ==
    ASSUME TypeOK, FileInv, NEW h \in Hosts, NEW servers \in SUBSET Servers,
           HostEdits(h, servers)
    PROVE  FileInv'
<1>0. h \in Writers /\ h \notin Apps
  BY HostConfigAssumption DEF Writers
<1>1. /\ UNCHANGED <<config, wanted, linked, overlap, cut, blind>>
      /\ at[h] = "idle" /\ at'[h] = "opening"
      /\ config \in Config \cup {NoFile}
      /\ held'[h] = [servers |-> servers, sentinel |-> Parsed.sentinel]
      /\ \A v \in Writers \ {h} : at'[v] = at[v] /\ held'[v] = held[v]
  BY HostFacts
<1>2. ASSUME ~overlap, ~blind PROVE CopyRight(h)' /\ NobodyWrites
  <2>1. \/ config \in Config /\ Parsed = config
        \/ config = NoFile /\ Parsed = [servers |-> {}, sentinel |-> FALSE]
    BY <1>1, HostConfigAssumption DEF Parsed, NoConfig
  <2>2. Parsed.sentinel = linked /\ NobodyWrites
    BY <1>2, <2>1, ReadFacts
  <2> QED
    BY <1>0, <1>1, <2>2 DEF CopyRight
<1>3. at'[h] # "writing" /\ at[h] # "writing"
  BY <1>1
<1> QED
  BY <1>0, <1>1, <1>2, <1>3, KeepFile

(* A writer that opens the file unseen is alone. *)
LEMMA OpenKeeps ==
    ASSUME TypeOK, FileInv, NEW w \in Writers, OpenFile(w)
    PROVE  FileInv'
<1> SUFFICES ASSUME ~overlap', ~blind' PROVE FileInv'
  BY DEF FileInv
<1>1. /\ ~overlap /\ ~blind /\ ~Behind(w) /\ config' = Empty
      /\ UNCHANGED <<held, wanted, linked>> /\ at[w] = "opening"
  BY DEF OpenFile, traceVars
<1>2. at'[w] = "writing" /\ \A v \in Writers \ {w} : at'[v] = at[v]
  BY GoToFacts DEF OpenFile, Places
<1>3. \A v \in Writers \ {w} : at[v] = "idle" /\ at'[v] = "idle"
  BY <1>1, <1>2 DEF Behind
<1>4. CopyRight(w)
  BY <1>1 DEF FileInv
<1>5. CopyRight(w)'
  BY <1>1, <1>2, <1>4 DEF CopyRight
<1>6. \A v \in Writers \ {w} : CopyRight(v)'
  BY <1>3 DEF CopyRight
<1>7. ~NobodyWrites'
  BY <1>2 DEF NobodyWrites
<1> QED
  BY <1>1, <1>2, <1>3, <1>5, <1>6, <1>7 DEF FileInv

LEMMA WriteKeeps ==
    ASSUME TypeOK, FileInv, NEW w \in Writers, Write(w)
    PROVE  FileInv'
<1> SUFFICES ASSUME ~overlap', ~blind' PROVE FileInv'
  BY DEF FileInv
<1>1. ~overlap /\ ~blind /\ at[w] = "writing"
  BY DEF Write
<1>2. config = Empty /\ CopyRight(w) /\ \A v \in Writers \ {w} : at[v] = "idle"
  BY <1>1 DEF FileInv
<1>3. config' = held[w] /\ held[w] \in Config
  BY <1>2, WriteFacts
<1>4. \A v \in Writers : at'[v] = "idle"
  BY <1>2, WriteFacts
<1>5. held[w] = [servers |-> wanted', sentinel |-> linked']
  <2>1. CASE w \in Apps
    <3>1. wanted' = wanted /\ linked' = ~linked
      BY <2>1, HostConfigAssumption DEF Write
    <3>2. held[w] = [servers |-> wanted, sentinel |-> ~linked]
      BY <1>1, <1>2, <2>1 DEF CopyRight
    <3> QED
      BY <3>1, <3>2
  <2>2. CASE w \in Hosts
    <3>1. wanted' = held[w].servers /\ linked' = linked
      BY <2>2, HostConfigAssumption DEF Write
    <3>2. held[w] = [servers |-> held[w].servers, sentinel |-> linked]
      BY <1>1, <1>2, <2>2 DEF CopyRight
    <3> QED
      BY <3>1, <3>2
  <2> QED
    BY <2>1, <2>2 DEF Writers
<1>6. InStep'
  <2>1. config' # Empty /\ config' # NoFile
    BY <1>3, HostConfigAssumption
  <2> QED
    BY <1>3, <1>5, <2>1 DEF InStep
<1>7. \A v \in Writers : CopyRight(v)'
  BY <1>4 DEF CopyRight
<1> QED
  BY <1>4, <1>6, <1>7 DEF FileInv

LEMMA StopKeeps ==
    ASSUME TypeOK, FileInv, NEW w \in Writers, Stop(w)
    PROVE  FileInv'
<1>1. /\ at'[w] = "idle" /\ \A v \in Writers \ {w} : at'[v] = at[v]
      /\ UNCHANGED <<config, held, wanted, linked, overlap, blind>>
      /\ cut' = (cut \/ at[w] = "writing")
  BY GoToFacts DEF Stop, traceVars, Places
<1>2. CASE at[w] = "writing"
  <2> SUFFICES ASSUME ~overlap, ~blind PROVE FileInv'
    BY <1>1 DEF FileInv
  <2>1. config = Empty /\ \A v \in Writers \ {w} : at[v] = "idle"
    BY <1>2 DEF FileInv
  <2>2. \A v \in Writers : at'[v] = "idle"
    BY <1>1, <2>1
  <2>3. InStep'
    BY <1>1, <1>2, <2>1, HostConfigAssumption DEF InStep
  <2> QED
    BY <2>2, <2>3 DEF FileInv, CopyRight
<1>3. CASE at[w] # "writing"
  <2>1. cut' = cut
    BY <1>1, <1>3 DEF TypeOK
  <2>2. CopyRight(w)'
    BY <1>1 DEF CopyRight
  <2> QED
    BY <1>1, <1>3, <2>1, <2>2, KeepFile
<1> QED
  BY <1>2, <1>3

LEMMA NextFile == TypeOK /\ FileInv /\ [Next]_vars => FileInv'
<1> SUFFICES ASSUME TypeOK, FileInv, [Next]_vars PROVE FileInv'
  OBVIOUS
<1>1. CASE UNCHANGED vars
  BY <1>1 DEF vars, FileInv, InStep, CopyRight, NobodyWrites
<1> QED
  BY <1>1, ToggleKeeps, ConnectKeeps, DisconnectKeeps, HostKeeps, OpenKeeps,
     WriteKeeps, StopKeeps DEF Next

(***************************************************************************)
(* What it holds whatever happens.                                         *)
(***************************************************************************)

(* Servers that were there once, or none after a read that failed. *)
Known(servers) == servers \in ever \/ (servers = {} /\ blind)

(* That holds of the file and of what a window is about to write; what a host
   is about to write its user has wanted by then. *)
EverInv ==
    /\ config \in Config => Known(config.servers)
    /\ config = NoFile => {} \in ever
    /\ \A a \in Apps : at[a] \in {"opening", "writing"} => Known(held[a].servers)
    /\ wanted \in ever

LEMMA InitEver == Init => EverInv
<1> SUFFICES ASSUME Init PROVE EverInv
  OBVIOUS
<1>1. wanted \in ever /\ \A a \in Apps : at[a] = "idle"
  BY DEF Init, Writers
<1>2. config \in Config => config.servers = wanted
  BY HostConfigAssumption DEF Init, Parsed
<1>3. config = NoFile => wanted = {}
  BY HostConfigAssumption DEF Init, Parsed, NoConfig
<1> QED
  BY <1>1, <1>2, <1>3 DEF EverInv, Known

(* What is read for a copy was there once, or the read has failed. *)
LEMMA ReadKnown ==
    ASSUME EverInv, NEW read \in ReadConfig
    PROVE  read.servers \in ever \/ (read.servers = {} /\ (blind \/ Misread(read)))
<1>1. CASE Misread(read)
  <2>1. read = NoConfig \/ (read = config /\ config \in Config)
    BY DEF ReadConfig, Parsed
  <2> QED
    BY <1>1, <2>1 DEF Misread, NoConfig
<1>2. CASE ~Misread(read)
  BY <1>2, ReadType DEF EverInv, Known
<1> QED
  BY <1>1, <1>2

LEMMA NextEver == TypeOK /\ EverInv /\ [Next]_vars => EverInv'
<1> SUFFICES ASSUME TypeOK, EverInv, [Next]_vars PROVE EverInv'
  OBVIOUS
<1> DEFINE KnownNext(s) == s \in ever' \/ (s = {} /\ blind')
<1>0. Apps \subseteq Writers /\ Apps \cap Hosts = {}
  BY HostConfigAssumption DEF Writers
<1>1. ASSUME NEW a \in Apps, Toggle(a) PROVE EverInv'
  <2>1. /\ \A v \in Apps \ {a} : at'[v] = at[v]
        /\ at'[a] \notin {"opening", "writing"} /\ (blind => blind')
        /\ UNCHANGED <<config, held, wanted, ever>>
    BY <1>0, <1>1, ToggleFacts
  <2> QED
    BY <2>1 DEF EverInv, Known
<1>2. ASSUME NEW a \in Apps, Connect(a) PROVE EverInv'
  <2>1. PICK read \in ReadConfig :
            /\ at' \in [Writers -> Places] /\ held' \in [Writers -> Config]
            /\ at[a] = "connect" /\ at'[a] = "opening"
            /\ held'[a] = [servers |-> read.servers, sentinel |-> TRUE]
            /\ \A v \in Writers \ {a} : at'[v] = at[v] /\ held'[v] = held[v]
            /\ blind' = (blind \/ Misread(read))
            /\ UNCHANGED <<config, wanted, ever, linked, edits, overlap, cut>>
    BY <1>2, ConnectFacts
  <2>2. KnownNext(held'[a].servers)
    <3>1. held'[a].servers = read.servers /\ ever' = ever
      BY <2>1
    <3>2. \/ read.servers \in ever
          \/ read.servers = {} /\ (blind \/ Misread(read))
      BY ReadKnown
    <3>3. blind' = (blind \/ Misread(read))
      BY <2>1
    <3> QED
      BY <3>1, <3>2, <3>3
  <2>3. \A servers : Known(servers) => KnownNext(servers)
    BY <2>1 DEF Known
  <2>4. \A b \in Apps : at'[b] \in {"opening", "writing"} =>
            KnownNext(held'[b].servers)
    BY <1>0, <2>1, <2>2, <2>3 DEF EverInv
  <2>5. config' \in Config => KnownNext(config'.servers)
    BY <2>1, <2>3 DEF EverInv
  <2> QED
    BY <2>1, <2>4, <2>5 DEF EverInv, Known
<1>3. ASSUME NEW a \in Apps, Disconnect(a) PROVE EverInv'
  <2>1. PICK read \in ReadConfig :
            /\ at' \in [Writers -> Places] /\ held' \in [Writers -> Config]
            /\ at[a] = "disconnect"
            /\ at'[a] = IF read.sentinel THEN "opening" ELSE "idle"
            /\ held'[a] = [servers |-> read.servers, sentinel |-> FALSE]
            /\ \A v \in Writers \ {a} : at'[v] = at[v] /\ held'[v] = held[v]
            /\ UNCHANGED <<config, wanted, ever, linked, edits, overlap, cut,
                           blind>>
    BY <1>3, DisconnectFacts
  <2>2. at'[a] # "idle" => KnownNext(held'[a].servers)
    <3>1. at'[a] # "idle" => config \in Config /\ read = config
      BY <2>1 DEF ReadConfig, Parsed, NoConfig
    <3> QED
      BY <2>1, <3>1 DEF EverInv, Known
  <2>4. \A b \in Apps : at'[b] \in {"opening", "writing"} =>
            KnownNext(held'[b].servers)
    BY <1>0, <2>1, <2>2 DEF EverInv, Known
  <2> QED
    BY <2>1, <2>4 DEF EverInv, Known
<1>4. ASSUME NEW h \in Hosts, NEW servers \in SUBSET Servers,
             HostEdits(h, servers)
      PROVE  EverInv'
  <2>1. /\ \A a \in Apps : at'[a] = at[a] /\ held'[a] = held[a]
        /\ UNCHANGED <<config, wanted, ever, blind>>
    BY <1>0, <1>4, HostFacts
  <2> QED
    BY <2>1 DEF EverInv, Known
<1>5. ASSUME NEW w \in Writers, OpenFile(w) PROVE EverInv'
  <2>1. /\ \A a \in Apps : at'[a] # at[a] => at[a] = "opening"
        /\ config' = Empty /\ UNCHANGED <<held, wanted, ever, blind>>
    BY <1>0, <1>5, GoToFacts DEF OpenFile, traceVars, Places
  <2> QED
    BY <2>1, HostConfigAssumption DEF EverInv, Known
<1>6. ASSUME NEW w \in Writers, Write(w) PROVE EverInv'
  <2>1. /\ wanted' \in ever' /\ ever \subseteq ever'
        /\ UNCHANGED <<held, blind>>
        /\ \A a \in Apps : at'[a] # "idle" => at'[a] = at[a]
    BY <1>0, <1>6, WriteFacts DEF Write
  <2>2. \A servers : Known(servers) => KnownNext(servers)
    BY <2>1 DEF Known
  <2>3. KnownNext(held[w].servers)
    <3>1. CASE w \in Hosts
      BY <1>6, <2>1, <3>1, WriteFacts
    <3>2. CASE w \in Apps
      BY <1>6, <2>2, <3>2, WriteFacts DEF EverInv
    <3> QED
      BY <3>1, <3>2 DEF Writers
  <2>4. config' # NoFile /\ (config' \in Config => config' = held[w])
    BY <1>6, WriteFacts, HostConfigAssumption
  <2>5. config' \in Config => KnownNext(config'.servers)
    BY <2>3, <2>4
  <2>6. \A a \in Apps : at'[a] \in {"opening", "writing"} =>
            KnownNext(held'[a].servers)
    BY <2>1, <2>2 DEF EverInv
  <2> QED
    BY <2>1, <2>4, <2>5, <2>6 DEF EverInv, Known
<1>7. ASSUME NEW w \in Writers, Stop(w) PROVE EverInv'
  <2>1. /\ \A a \in Apps : at'[a] # "idle" => at'[a] = at[a]
        /\ UNCHANGED <<config, held, wanted, ever, blind>>
    BY <1>0, <1>7, GoToFacts DEF Stop, traceVars, Places
  <2> QED
    BY <2>1 DEF EverInv, Known
<1>8. CASE UNCHANGED vars
  BY <1>8 DEF vars, EverInv, Known
<1> QED
  BY <1>1, <1>2, <1>3, <1>4, <1>5, <1>6, <1>7, <1>8 DEF Next

(* Connecting and disconnecting clobber nothing, and the switch does what it
   shows, as long as the writers take turns and the app can read the file,
   whatever else fails and wherever a writer dies.  Beyond that, no overlap,
   failure or death puts servers into the file that its user did not have
   there once, or takes them all away while the app can read it. *)
THEOREM NothingClobbered == Spec => []FileAsLeft
<1>1. FileInv => KeptInTurn
  BY DEF FileInv, KeptInTurn, Resting, InStep, NobodyWrites
<1>2. EverInv => EverConfigured
  BY DEF EverInv, EverConfigured, Known
<1> QED
  BY <1>1, <1>2, InitTypeOK, NextTypeOK, InitFile, NextFile, InitEver,
     NextEver, PTL DEF Spec, FileAsLeft

=============================================================================
