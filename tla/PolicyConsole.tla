---------------------------- MODULE PolicyConsole ----------------------------
(***************************************************************************)
(* The operator's console (console/service.py): publishing, approving and  *)
(* rolling back policies over the append-only policy history               *)
(* (authoring/policy_store.py), the curation of the menu                   *)
(* (menu/catalog.py), and active.json, the file the active version is      *)
(* written to.                                                             *)
(*                                                                         *)
(* The server handles one request at a time, so a request is one step,     *)
(* except that active.json and the capability files are rewritten in       *)
(* place: opening one empties it, and the write that follows may fail, or  *)
(* the process may die, in between.  Admins send any request at any time,  *)
(* the same one twice included.                                            *)
(***************************************************************************)
EXTENDS Naturals, Sequences

CONSTANTS
    Admins,         \* ids in the registry of public keys
    BuiltIn,        \* shipped capabilities: id -> requires_second_admin
    CustomIds,      \* ids an operator may give a capability
    Candidates,     \* the policy lists that may be published
    Nobody,         \* approved_by of a version nobody approved
    Absent,         \* no capability file of that id
    NoFile, Torn,   \* no active.json; a file that was emptied, not written
    MaxVersions     \* bound of the model

AdminRoles == {"author", "reviewer"}

Capabilities == DOMAIN BuiltIn \cup CustomIds

(* The policies of one version: what they grant to some role, and what of
   it is paused. *)
PolicyList == [granted : SUBSET Capabilities, paused : SUBSET Capabilities]

(* An operator's capability: does it require a second admin, is it on the
   menu. *)
Descriptor == [second : BOOLEAN, enabled : BOOLEAN]

ASSUME ConsoleAssumption ==
    /\ BuiltIn \in [DOMAIN BuiltIn -> BOOLEAN]
    /\ CustomIds \cap DOMAIN BuiltIn = {}
    /\ Candidates \subseteq PolicyList
    /\ Nobody \notin Admins
    /\ {NoFile, Torn} \cap PolicyList = {} /\ NoFile # Torn
    /\ {Absent, Torn} \cap Descriptor = {} /\ Absent # Torn
    /\ MaxVersions \in Nat

VARIABLES
    roleOf,     \* the registry: one role for each admin
    versions,   \* the policy history, as the connection of the server has it
    saved,      \* how many of its versions are committed
    custom,     \* the operator's capability files
    file,       \* active.json
    pc,         \* where the request in progress stands
    saving,     \* the id whose capability file it rewrites
    wanted,     \* what the operators have made of each capability
    missed      \* TRUE: a version became active, but active.json was not
                \* written for it, nor for one after it

menuVars == <<custom, saving, wanted>>
historyVars == <<versions, saved>>
vars == <<roleOf, versions, saved, menuVars, file, pc, missed>>

(* `sensitive` is not stored: what the version granted that the operators
   had declared to require a second admin when it was appended. *)
Version ==
    [policies : PolicyList, author : Admins, approvedBy : Admins \cup {Nobody},
     status : {"active", "pending"}, sensitive : SUBSET Capabilities]

(* -------------------------------------------------------------------- *)
(* The menu and the gate.                                                *)

(* load_catalog without the disabled capabilities. *)
OnMenu(cap) ==
    \/ cap \in DOMAIN BuiltIn
    \/ cap \in CustomIds /\ custom[cap] \in Descriptor /\ custom[cap].enabled

NeedsSecond(cap) ==
    IF cap \in DOMAIN BuiltIn THEN BuiltIn[cap] ELSE custom[cap].second

(* _needs_second_admin *)
Sensitive(policies) ==
    {cap \in policies.granted : OnMenu(cap) /\ NeedsSecond(cap)}

(* load_catalog raises on a capability file that is no JSON. *)
CatalogLoads == \A id \in CustomIds : custom[id] # Torn

(* What the menu would flag if every file held what it should. *)
Declared(policies) ==
    {cap \in policies.granted :
        IF cap \in DOMAIN BuiltIn THEN BuiltIn[cap]
        ELSE wanted[cap] # Absent /\ wanted[cap].enabled /\ wanted[cap].second}

ActiveVersions == {i \in DOMAIN versions : versions[i].status = "active"}

(* active_version: the last of them. *)
ActiveVersion ==
    versions[CHOOSE i \in ActiveVersions : \A j \in ActiveVersions : j <= i]

Init ==
    /\ roleOf \in [Admins -> AdminRoles]
    /\ versions = << >> /\ saved = 0
    /\ custom = [id \in CustomIds |-> Absent] /\ wanted = custom
    /\ saving = Absent
    /\ file = NoFile /\ pc = "idle" /\ missed = FALSE

(* -------------------------------------------------------------------- *)
(* Publishing.                                                           *)

(* The row of an append. *)
Entry(policies, author, status, approver) ==
    [policies |-> policies, author |-> author, approvedBy |-> approver,
     status |-> status, sensitive |-> Declared(policies)]

(* The commit takes along what the connection inserted before; an active
   version is to be materialized next. *)
Commit(version) ==
    /\ versions' = Append(versions, version)
    /\ saved' = Len(versions')
    /\ pc' = IF version.status = "active" THEN "materialize" ELSE "idle"
    /\ UNCHANGED missed

(* INSERT or COMMIT raises and the request ends with a traceback.  Nothing
   rolls back: the version stays on the connection, where every later request
   sees it, for the next commit or for the end of the process, unless sqlite
   itself rolled back all that was not committed. *)
CommitRaises(version) ==
    /\ \/ /\ versions' = Append(versions, version)
          /\ missed' = (missed \/ version.status = "active")
       \/ versions' = SubSeq(versions, 1, saved) /\ UNCHANGED missed
    /\ UNCHANGED <<saved, pc>>

(* Faulty: a pending version is materialized too. *)
AppendAndMaterialize(policies, author, status, approver) ==
    /\ Len(versions) < MaxVersions
    /\ versions' = Append(versions, Entry(policies, author, status, approver))
    /\ saved' = Len(versions')
    /\ pc' = "materialize"
    /\ UNCHANGED <<roleOf, menuVars, file, missed>>

(* Faulty: an approval is not materialized. *)
AppendUnmaterialized(policies, author, status, approver) ==
    /\ Len(versions) < MaxVersions
    /\ versions' = Append(versions, Entry(policies, author, status, approver))
    /\ saved' = Len(versions')
    /\ pc' = IF approver = Nobody /\ status = "active"
             THEN "materialize" ELSE "idle"
    /\ UNCHANGED <<roleOf, menuVars, file, missed>>

AppendVersion(policies, author, status, approver) ==
    LET version == Entry(policies, author, status, approver) IN
    /\ Len(versions) < MaxVersions
    /\ Commit(version) \/ CommitRaises(version)
    /\ UNCHANGED <<roleOf, menuVars, file>>

(* Faulty: a capability file that cannot be read is passed over. *)
PublishSkippingTorn(admin, policies) ==
    AppendVersion(policies, admin,
                  IF Sensitive(policies) # {} THEN "pending" ELSE "active",
                  Nobody)

(* _publish_content: pending if the gate applies, active if it does not; the
   gate needs the menu, and without it the request ends with a traceback. *)
PublishContent(admin, policies) ==
    /\ CatalogLoads
    /\ AppendVersion(policies, admin,
                     IF Sensitive(policies) # {} THEN "pending" ELSE "active",
                     Nobody)

Publish(admin, policies) ==
    /\ pc = "idle" /\ roleOf[admin] = "author"
    /\ PublishContent(admin, policies)

Rollback(admin, seq) ==
    /\ pc = "idle" /\ roleOf[admin] = "author"
    /\ PublishContent(admin, versions[seq].policies)

Approve(admin, seq) ==
    /\ pc = "idle" /\ roleOf[admin] = "reviewer"
    /\ versions[seq].status = "pending"
    /\ versions[seq].author # admin
    /\ AppendVersion(versions[seq].policies, versions[seq].author,
                     "active", admin)

(* materialize_active: the file is opened, which empties it, and written. *)
TruncateFile ==
    /\ pc = "materialize"
    /\ file' = Torn /\ pc' = "writing"
    /\ UNCHANGED <<roleOf, historyVars, menuVars, missed>>

WriteFile ==
    /\ pc = "writing"
    /\ file' = ActiveVersion.policies
    /\ pc' = "idle" /\ missed' = FALSE
    /\ UNCHANGED <<roleOf, historyVars, menuVars>>

(* The open or the write raises: the request ends with a traceback, the
   version stays. *)
MaterializeRaises ==
    /\ pc \in {"materialize", "writing"}
    /\ pc' = "idle" /\ missed' = TRUE
    /\ UNCHANGED <<roleOf, historyVars, menuVars, file>>

(* The process is stopped and started again; the registry is read anew, what
   was not committed is gone, and the active version is not written again. *)
Restart ==
    /\ roleOf' \in [Admins -> AdminRoles]
    /\ versions' = SubSeq(versions, 1, saved)
    /\ pc' = "idle" /\ saving' = Absent
    /\ missed' = (missed \/ pc \in {"materialize", "writing"})
    /\ UNCHANGED <<saved, custom, wanted, file>>

(* -------------------------------------------------------------------- *)
(* Curation of the menu.                                                 *)

(* The file of a capability is emptied; its content follows. *)
OpenCapability(id, descriptor) ==
    /\ wanted' = [wanted EXCEPT ![id] = descriptor]
    /\ custom' = [custom EXCEPT ![id] = Torn]
    /\ saving' = id /\ pc' = "saving"
    /\ UNCHANGED <<roleOf, historyVars, file, missed>>

(* A file of that name is a conflict, whatever is in it. *)
CreateCapability(admin, id, descriptor) ==
    /\ pc = "idle" /\ roleOf[admin] = "author"
    /\ custom[id] = Absent
    /\ OpenCapability(id, descriptor)

(* A file that is no JSON is answered like one that is not there. *)
SetEnabled(admin, id, enabled) ==
    /\ pc = "idle" /\ roleOf[admin] = "author"
    /\ custom[id] \in Descriptor
    /\ OpenCapability(id, [custom[id] EXCEPT !.enabled = enabled])

(* Faulty: the switch is written over the rest of the descriptor. *)
WriteSwitchAlone ==
    /\ pc = "saving"
    /\ custom' = [custom EXCEPT
                     ![saving] = [second |-> FALSE,
                                  enabled |-> wanted[saving].enabled]]
    /\ pc' = "idle" /\ saving' = Absent
    /\ UNCHANGED <<roleOf, historyVars, wanted, file, missed>>

WriteCapability ==
    /\ pc = "saving"
    /\ custom' = [custom EXCEPT ![saving] = wanted[saving]]
    /\ pc' = "idle" /\ saving' = Absent
    /\ UNCHANGED <<roleOf, historyVars, wanted, file, missed>>

WriteRaises ==
    /\ pc = "saving"
    /\ pc' = "idle" /\ saving' = Absent
    /\ UNCHANGED <<roleOf, historyVars, custom, wanted, file, missed>>

(* The only way out for a file that is no JSON. *)
DeleteCapability(admin, id) ==
    /\ pc = "idle" /\ roleOf[admin] = "author"
    /\ custom[id] # Absent
    /\ custom' = [custom EXCEPT ![id] = Absent]
    /\ wanted' = [wanted EXCEPT ![id] = Absent]
    /\ UNCHANGED <<roleOf, historyVars, saving, file, pc, missed>>

(* -------------------------------------------------------------------- *)

Curate(admin) ==
    \E id \in CustomIds :
        \/ \E descriptor \in Descriptor : CreateCapability(admin, id, descriptor)
        \/ \E enabled \in BOOLEAN : SetEnabled(admin, id, enabled)
        \/ DeleteCapability(admin, id)

Request(admin) ==
    \/ \E policies \in Candidates : Publish(admin, policies)
    \/ \E seq \in DOMAIN versions : Rollback(admin, seq) \/ Approve(admin, seq)
    \/ Curate(admin)

Materialize == TruncateFile \/ WriteFile

Next ==
    \/ \E admin \in Admins : Request(admin)
    \/ Materialize \/ MaterializeRaises
    \/ WriteCapability \/ WriteRaises
    \/ Restart

Spec == Init /\ [][Next]_vars

(***************************************************************************)
(* Properties                                                              *)
(***************************************************************************)

(* The type of every variable; active.json is only written when some version
   is active and all are committed, a capability file only after it was
   emptied. *)
TypeOK ==
    /\ roleOf \in [Admins -> AdminRoles]
    /\ versions \in Seq(Version) /\ saved \in 0..Len(versions)
    /\ custom \in [CustomIds -> Descriptor \cup {Absent, Torn}]
    /\ wanted \in [CustomIds -> Descriptor \cup {Absent}]
    /\ saving \in CustomIds \cup {Absent}
    /\ file \in PolicyList \cup {NoFile, Torn}
    /\ pc \in {"idle", "materialize", "writing", "saving"}
    /\ missed \in BOOLEAN
    /\ pc \in {"materialize", "writing"} =>
           ActiveVersions # {} /\ saved = Len(versions)
    /\ pc = "saving" =>
           /\ saving \in CustomIds
           /\ custom[saving] = Torn /\ wanted[saving] # Absent

(* Separation of duties: a version that was sensitive when it became active
   was proposed by one admin and approved by another, and what was approved
   is what had been proposed, word for word.  Rollbacks, repeated requests,
   changes of the registry, capability files that were torn by a failed save
   and versions whose commit raised do not get around it. *)
SeparationOfDuties ==
    \A i \in ActiveVersions :
        versions[i].sensitive # {} =>
            /\ versions[i].approvedBy \notin {Nobody, versions[i].author}
            /\ \E j \in 1 .. i - 1 :
                  /\ versions[j].status = "pending"
                  /\ versions[j].policies = versions[i].policies
                  /\ versions[j].author = versions[i].author

(* active.json follows the history: unless a write of it is due or went
   wrong, it holds the active version.  Even after failed writes, failed
   commits and restarts it never holds what was only proposed, nor a version
   that may still drop out of the history. *)
FileFollowsHistory ==
    /\ pc \notin {"materialize", "writing"} /\ ~missed =>
           IF ActiveVersions = {} THEN file = NoFile
           ELSE file = ActiveVersion.policies
    /\ file \notin {NoFile, Torn} =>
           \E i \in ActiveVersions : i <= saved /\ versions[i].policies = file

(* No capability falls back to an earlier state: through failed saves and
   restarts its file is what the operators last made of it, or it cannot be
   read (and then no policy is published until it is deleted). *)
MenuAsWanted ==
    \A id \in CustomIds : custom[id] \in {wanted[id], Torn}

=============================================================================
