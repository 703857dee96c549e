------------------------ MODULE PolicyConsoleProofs ------------------------
(***************************************************************************)
(* Theorems about PolicyConsole, for every registry, menu and history.     *)
(***************************************************************************)
EXTENDS PolicyConsole, WellFoundedInduction, TLAPS

(***************************************************************************)
(* Facts about the history.                                                *)
(***************************************************************************)

(* A bounded set of numbers has a greatest element. *)
LEMMA GreatestExists ==
    ASSUME NEW n \in Nat, NEW S \in SUBSET (1..n), S # {}
    PROVE  \E i \in S : \A j \in S : j <= i
<1> DEFINE T == {n - i : i \in S}
<1>1. T \subseteq Nat /\ T # {}
  <2>1. \A i \in S : n - i \in Nat
    OBVIOUS
  <2> QED
    BY <2>1
<1>2. PICK x \in T : \A y \in T : ~(<<y, x>> \in OpToRel(<, Nat))
  BY <1>1, NatLessThanWellFounded, WFMin
<1>3. PICK i \in S : x = n - i
  OBVIOUS
<1>4. ASSUME NEW j \in S PROVE j <= i
  <2>1. n - j \in T /\ n - j \in Nat /\ x \in Nat
    BY <1>1
  <2>2. ~(n - j < x)
    BY <1>2, <2>1 DEF OpToRel
  <2> QED
    BY <1>3, <2>1, <2>2
<1> QED
  BY <1>4

(* If any version is active, active_version returns one that is. *)
LEMMA ActiveVersionIsActive ==
    ASSUME versions \in Seq(Version), ActiveVersions # {}
    PROVE  /\ \E i \in ActiveVersions : ActiveVersion = versions[i]
           /\ ActiveVersion \in Version
<1>1. ActiveVersions \subseteq 1..Len(versions) /\ Len(versions) \in Nat
  BY DEF ActiveVersions
<1>2. \E i \in ActiveVersions : \A j \in ActiveVersions : j <= i
  BY <1>1, GreatestExists
<1> DEFINE last == CHOOSE i \in ActiveVersions : \A j \in ActiveVersions : j <= i
<1>3. last \in ActiveVersions
  BY <1>2
<1>4. versions[last] \in Version
  <2> HIDE DEF last
  <2>1. last \in 1..Len(versions)
    BY <1>1, <1>3
  <2> QED
    BY <2>1
<1> QED
  BY <1>3, <1>4 DEF ActiveVersion

(* A row is inserted, whether or not its commit raises. *)
Inserts(policies, author, status, approver) ==
    versions' = Append(versions, Entry(policies, author, status, approver))

(* What an insert leaves of the history, and what it adds. *)
LEMMA AppendKeeps ==
    ASSUME versions \in Seq(Version), NEW policies \in PolicyList,
           NEW author \in Admins, NEW status \in {"active", "pending"},
           NEW approver \in Admins \cup {Nobody},
           Inserts(policies, author, status, approver)
    PROVE  LET n == Len(versions) + 1 IN
           /\ versions' \in Seq(Version)
           /\ DOMAIN versions' = 1..n /\ DOMAIN versions = 1..Len(versions)
           /\ \A i \in 1..Len(versions) : versions'[i] = versions[i]
           /\ versions'[n].policies = policies
           /\ versions'[n].author = author
           /\ versions'[n].approvedBy = approver
           /\ versions'[n].status = status
           /\ versions'[n].sensitive = Declared(policies)
           /\ ActiveVersions' = IF status = "active"
                                THEN ActiveVersions \cup {n} ELSE ActiveVersions
<1> DEFINE n == Len(versions) + 1
           version == [policies |-> policies, author |-> author,
                       approvedBy |-> approver, status |-> status,
                       sensitive |-> Declared(policies)]
<1>1. Declared(policies) \subseteq Capabilities
  BY DEF Declared, PolicyList
<1>2. version \in Version
  BY <1>1 DEF Version
<1>3. versions' = Append(versions, version)
  BY DEF Inserts, Entry
<1>4. /\ versions' \in Seq(Version) /\ Len(versions) \in Nat
      /\ DOMAIN versions' = 1..n /\ DOMAIN versions = 1..Len(versions)
      /\ \A i \in 1..Len(versions) : versions'[i] = versions[i]
      /\ versions'[n] = version
  <2> HIDE DEF version
  <2> QED
    BY <1>2, <1>3
<1>5. ActiveVersions' = IF status = "active"
                        THEN ActiveVersions \cup {n} ELSE ActiveVersions
  <2>1. ActiveVersions' = {i \in 1..n : versions'[i].status = "active"}
    BY <1>4 DEF ActiveVersions
  <2>2. ActiveVersions = {i \in 1..Len(versions) : versions[i].status = "active"}
    BY <1>4 DEF ActiveVersions
  <2>3. 1..n = (1..Len(versions)) \cup {n}
    BY <1>4
  <2>4. versions'[n].status = status
    BY <1>4
  <2> HIDE DEF n
  <2> QED
    BY <1>4, <2>1, <2>2, <2>3, <2>4
<1> QED
  BY <1>4, <1>5

(* The history that is left when what was not committed is gone. *)
Drops == versions' = SubSeq(versions, 1, saved)

LEMMA DropKeeps ==
    ASSUME versions \in Seq(Version), saved \in 0..Len(versions), Drops
    PROVE  /\ versions' \in Seq(Version) /\ Len(versions') = saved
           /\ DOMAIN versions' = 1..saved /\ DOMAIN versions = 1..Len(versions)
           /\ \A i \in 1..saved : versions'[i] = versions[i]
           /\ ActiveVersions' = ActiveVersions \cap (1..saved)
           /\ saved = Len(versions) => versions' = versions
<1>1. /\ versions' \in Seq(Version) /\ Len(versions') = saved
      /\ DOMAIN versions' = 1..saved /\ DOMAIN versions = 1..Len(versions)
      /\ \A i \in 1..saved : versions'[i] = versions[i]
  BY DEF Drops
<1>2. 1..saved \subseteq 1..Len(versions)
  OBVIOUS
<1>3. ActiveVersions' = ActiveVersions \cap (1..saved)
  BY <1>1, <1>2 DEF ActiveVersions
<1>4. saved = Len(versions) => versions' = versions
  BY <1>1
<1> QED
  BY <1>1, <1>3, <1>4

(* While the active versions stay, so does the last of them. *)
LEMMA LastStays ==
    ASSUME versions \in Seq(Version), ActiveVersions # {},
           ActiveVersions' = ActiveVersions,
           \A i \in ActiveVersions : versions'[i] = versions[i]
    PROVE  ActiveVersion' = ActiveVersion
<1> DEFINE last == CHOOSE i \in ActiveVersions : \A j \in ActiveVersions : j <= i
<1>1. ActiveVersions \subseteq 1..Len(versions) /\ Len(versions) \in Nat
  BY DEF ActiveVersions
<1>2. last \in ActiveVersions
  BY <1>1, GreatestExists
<1> QED
  BY <1>2 DEF ActiveVersion

(***************************************************************************)
(* Every step of a request is an insert, a write of the file, or neither.  *)
(***************************************************************************)

(* What the service appends: the content of a publish or a rollback, which is
   active if the gate flags nothing, or a proposal that another admin
   approves. *)
Proper(policies, author, status, approver) ==
    \/ /\ CatalogLoads /\ approver = Nobody
       /\ status = IF Sensitive(policies) # {} THEN "pending" ELSE "active"
    \/ /\ status = "active" /\ approver \in Admins \ {author}
       /\ \E seq \in DOMAIN versions : /\ versions[seq].status = "pending"
                                      /\ versions[seq].policies = policies
                                      /\ versions[seq].author = author

(* A proper row is inserted and committed, or its commit raises. *)
InsertStep ==
    \E policies \in PolicyList, author \in Admins,
       status \in {"active", "pending"}, approver \in Admins \cup {Nobody} :
        /\ pc = "idle"
        /\ Proper(policies, author, status, approver)
        /\ Inserts(policies, author, status, approver)
        /\ \/ /\ saved' = Len(versions') /\ UNCHANGED missed
              /\ pc' = IF status = "active" THEN "materialize" ELSE "idle"
           \/ /\ UNCHANGED <<saved, pc>>
              /\ missed' = (missed \/ status = "active")
        /\ UNCHANGED <<roleOf, menuVars, file>>

(* What TypeOK says of the capability files. *)
MenuType ==
    /\ custom \in [CustomIds -> Descriptor \cup {Absent, Torn}]
    /\ wanted \in [CustomIds -> Descriptor \cup {Absent}]
    /\ saving \in CustomIds \cup {Absent}
    /\ pc = "saving" =>
           /\ saving \in CustomIds
           /\ custom[saving] = Torn /\ wanted[saving] # Absent

(* A step that leaves active.json alone and of the history at least what is
   committed: a step of a curation, a failure or a restart. *)
OtherStep ==
    /\ UNCHANGED <<saved, file>>
    /\ UNCHANGED versions \/ Drops
    /\ \/ UNCHANGED <<pc, missed>>
       \/ pc = "idle" /\ pc' = "saving" /\ UNCHANGED missed
       \/ pc = "saving" /\ pc' = "idle" /\ UNCHANGED missed
       \/ /\ pc' = "idle"
          /\ missed' = (missed \/ pc \in {"materialize", "writing"})
    /\ roleOf' \in [Admins -> AdminRoles]
    /\ MenuType' /\ (MenuAsWanted => MenuAsWanted')

(* A file that is emptied for what its capability is wanted to be. *)
LEMMA OpenIsOther ==
    ASSUME TypeOK, pc = "idle", NEW id \in CustomIds,
           NEW descriptor \in Descriptor, OpenCapability(id, descriptor)
    PROVE  OtherStep
<1>1. /\ custom' \in [CustomIds -> Descriptor \cup {Absent, Torn}]
      /\ wanted' \in [CustomIds -> Descriptor \cup {Absent}]
      /\ custom'[id] = Torn /\ wanted'[id] = descriptor
      /\ \A other \in CustomIds \ {id} :
            custom'[other] = custom[other] /\ wanted'[other] = wanted[other]
  BY DEF OpenCapability, TypeOK
<1>2. MenuType'
  <2>1. descriptor # Absent
    BY ConsoleAssumption
  <2> QED
    BY <1>1, <2>1 DEF OpenCapability, MenuType
<1>3. MenuAsWanted => MenuAsWanted'
  BY <1>1 DEF MenuAsWanted
<1> QED
  BY <1>2, <1>3 DEF OpenCapability, historyVars, OtherStep, TypeOK

LEMMA WriteIsOther == TypeOK /\ WriteCapability => OtherStep
<1> SUFFICES ASSUME TypeOK, WriteCapability PROVE OtherStep
  OBVIOUS
<1>1. /\ custom' \in [CustomIds -> Descriptor \cup {Absent, Torn}]
      /\ custom'[saving] = wanted[saving]
      /\ \A other \in CustomIds \ {saving} : custom'[other] = custom[other]
  BY DEF WriteCapability, TypeOK
<1>2. MenuType'
  BY <1>1 DEF WriteCapability, MenuType, TypeOK
<1>3. MenuAsWanted => MenuAsWanted'
  BY <1>1 DEF WriteCapability, MenuAsWanted, TypeOK
<1> QED
  BY <1>2, <1>3 DEF WriteCapability, historyVars, OtherStep, TypeOK

LEMMA DeleteIsOther ==
    ASSUME TypeOK, NEW admin \in Admins, NEW id \in CustomIds,
           DeleteCapability(admin, id)
    PROVE  OtherStep
<1>1. /\ custom' \in [CustomIds -> Descriptor \cup {Absent, Torn}]
      /\ wanted' \in [CustomIds -> Descriptor \cup {Absent}]
      /\ custom'[id] = wanted'[id]
      /\ \A other \in CustomIds \ {id} :
            custom'[other] = custom[other] /\ wanted'[other] = wanted[other]
  BY DEF DeleteCapability, TypeOK
<1>2. MenuType'
  BY <1>1 DEF DeleteCapability, MenuType, TypeOK
<1>3. MenuAsWanted => MenuAsWanted'
  BY <1>1 DEF MenuAsWanted
<1> QED
  BY <1>2, <1>3 DEF DeleteCapability, historyVars, OtherStep, TypeOK

(* A step that does not touch the capability files. *)
LEMMA SameMenu ==
    TypeOK /\ UNCHANGED <<custom, wanted>>
           /\ (UNCHANGED <<pc, saving>> \/ (pc' # "saving" /\ saving' = Absent))
        => MenuType' /\ (MenuAsWanted => MenuAsWanted')
BY DEF TypeOK, MenuType, MenuAsWanted

(* An append inserts its row, or sqlite drops what was not committed. *)
LEMMA AppendIsInsert ==
    ASSUME TypeOK, pc = "idle", NEW policies \in PolicyList,
           NEW author \in Admins, NEW status \in {"active", "pending"},
           NEW approver \in Admins \cup {Nobody},
           Proper(policies, author, status, approver),
           AppendVersion(policies, author, status, approver)
    PROVE  InsertStep \/ OtherStep
<1> DEFINE version == Entry(policies, author, status, approver)
<1>1. version.status = status
  BY DEF Entry
<1>2. /\ Commit(version) \/ CommitRaises(version)
      /\ UNCHANGED <<roleOf, menuVars, file>>
  BY DEF AppendVersion
<1> HIDE DEF version
<1>3. CASE Commit(version)
  <2>1. versions' = Append(versions, version) /\ saved' = Len(versions')
        /\ UNCHANGED missed
        /\ pc' = IF status = "active" THEN "materialize" ELSE "idle"
    BY <1>1, <1>3 DEF Commit
  <2>2. Inserts(policies, author, status, approver)
    BY <2>1 DEF Inserts, version
  <2> QED
    BY <1>2, <2>1, <2>2 DEF InsertStep
<1>4. CASE CommitRaises(version)
  <2>1. UNCHANGED <<saved, pc>>
    BY <1>4 DEF CommitRaises
  <2>2. CASE versions' = Append(versions, version)
              /\ missed' = (missed \/ version.status = "active")
    <3>1. Inserts(policies, author, status, approver)
      BY <2>2 DEF Inserts, version
    <3> QED
      BY <1>1, <1>2, <2>1, <2>2, <3>1 DEF InsertStep
  <2>3. CASE Drops /\ UNCHANGED missed
    <3>1. MenuType' /\ (MenuAsWanted => MenuAsWanted')
      BY <1>2, <2>1, SameMenu DEF menuVars
    <3> QED
      BY <1>2, <2>1, <2>3, <3>1 DEF OtherStep, TypeOK
  <2> QED
    BY <1>4, <2>2, <2>3 DEF CommitRaises, Drops
<1> QED
  BY <1>2, <1>3, <1>4

LEMMA PublishIsInsert ==
    ASSUME TypeOK, pc = "idle", NEW admin \in Admins,
           NEW policies \in PolicyList, PublishContent(admin, policies)
    PROVE  InsertStep \/ OtherStep
<1> DEFINE status == IF Sensitive(policies) # {} THEN "pending" ELSE "active"
<1>1. AppendVersion(policies, admin, status, Nobody) /\ CatalogLoads
  BY DEF PublishContent
<1>2. Proper(policies, admin, status, Nobody)
  BY <1>1 DEF Proper
<1>3. status \in {"active", "pending"}
  OBVIOUS
<1> HIDE DEF status
<1> QED
  BY <1>1, <1>2, <1>3, AppendIsInsert

LEMMA StepCases ==
    ASSUME TypeOK, [Next]_vars
    PROVE  \/ InsertStep
           \/ TruncateFile
           \/ WriteFile
           \/ OtherStep
<1>1. ASSUME NEW admin \in Admins, NEW policies \in Candidates,
             Publish(admin, policies)
      PROVE  InsertStep \/ OtherStep
  BY <1>1, PublishIsInsert, ConsoleAssumption DEF Publish
<1>0. ASSUME NEW seq \in DOMAIN versions
      PROVE  versions[seq].policies \in PolicyList
             /\ versions[seq].author \in Admins
  <2>1. versions[seq] \in Version
    BY DEF TypeOK
  <2> QED
    BY <2>1 DEF Version
<1>2. ASSUME NEW admin \in Admins, NEW seq \in DOMAIN versions,
             Rollback(admin, seq)
      PROVE  InsertStep \/ OtherStep
  BY <1>0, <1>2, PublishIsInsert DEF Rollback
<1>3. ASSUME NEW admin \in Admins, NEW seq \in DOMAIN versions,
             Approve(admin, seq)
      PROVE  InsertStep \/ OtherStep
  <2>1. Proper(versions[seq].policies, versions[seq].author, "active", admin)
    BY <1>3 DEF Approve, Proper
  <2> QED
    BY <1>0, <1>3, <2>1, AppendIsInsert DEF Approve
<1>4. ASSUME NEW admin \in Admins, Curate(admin)
      PROVE  OtherStep
  <2>1. ASSUME NEW id \in CustomIds, NEW descriptor \in Descriptor,
               CreateCapability(admin, id, descriptor)
        PROVE  OtherStep
    BY <2>1, OpenIsOther DEF CreateCapability
  <2>2. ASSUME NEW id \in CustomIds, NEW enabled \in BOOLEAN,
               SetEnabled(admin, id, enabled)
        PROVE  OtherStep
    <3>1. [custom[id] EXCEPT !.enabled = enabled] \in Descriptor
      BY <2>2 DEF SetEnabled, Descriptor
    <3> QED
      BY <2>2, <3>1, OpenIsOther DEF SetEnabled
  <2> QED
    BY <1>4, <2>1, <2>2, DeleteIsOther DEF Curate
<1>5. CASE MaterializeRaises
  <2>1. MenuType' /\ (MenuAsWanted => MenuAsWanted')
    BY <1>5 DEF MaterializeRaises, historyVars, menuVars, TypeOK, MenuType,
                MenuAsWanted
  <2>2. missed' = (missed \/ pc \in {"materialize", "writing"})
    BY <1>5 DEF MaterializeRaises
  <2> QED
    BY <1>5, <2>1, <2>2 DEF MaterializeRaises, historyVars, OtherStep, TypeOK
<1>6. CASE Restart
  BY <1>6, SameMenu DEF Restart, Drops, OtherStep, TypeOK
<1>7. CASE WriteRaises
  BY <1>7, SameMenu DEF WriteRaises, historyVars, OtherStep, TypeOK
<1>8. CASE UNCHANGED vars
  <2>1. MenuType' /\ (MenuAsWanted => MenuAsWanted')
    BY <1>8, SameMenu DEF vars, menuVars
  <2> QED
    BY <1>8, <2>1 DEF vars, OtherStep, TypeOK
<1> QED
  BY <1>1, <1>2, <1>3, <1>4, <1>5, <1>6, <1>7, <1>8, WriteIsOther
     DEF Next, Request, Materialize, TypeOK

(***************************************************************************)
(* Type correctness.                                                       *)
(***************************************************************************)

LEMMA InitTypeOK == Init => TypeOK
<1> SUFFICES ASSUME Init PROVE TypeOK
  OBVIOUS
<1>1. roleOf \in [Admins -> AdminRoles]
  BY DEF Init
<1>2. versions \in Seq(Version) /\ saved \in 0..Len(versions)
  BY DEF Init
<1>3. /\ custom \in [CustomIds -> Descriptor \cup {Absent, Torn}]
      /\ wanted \in [CustomIds -> Descriptor \cup {Absent}]
      /\ saving \in CustomIds \cup {Absent}
  BY DEF Init
<1>4. /\ file \in PolicyList \cup {NoFile, Torn}
      /\ pc = "idle"
      /\ missed \in BOOLEAN
  BY DEF Init
<1> QED
  BY <1>1, <1>2, <1>3, <1>4 DEF TypeOK

(* An insert keeps the types. *)
LEMMA InsertType == TypeOK /\ InsertStep => TypeOK'
<1> SUFFICES ASSUME TypeOK, InsertStep PROVE TypeOK'
  OBVIOUS
<1>0. PICK policies \in PolicyList, author \in Admins,
           status \in {"active", "pending"}, approver \in Admins \cup {Nobody} :
        /\ pc = "idle"
        /\ Inserts(policies, author, status, approver)
        /\ \/ /\ saved' = Len(versions') /\ UNCHANGED missed
              /\ pc' = IF status = "active" THEN "materialize" ELSE "idle"
           \/ /\ UNCHANGED <<saved, pc>>
              /\ missed' = (missed \/ status = "active")
        /\ UNCHANGED <<roleOf, menuVars, file>>
  BY DEF InsertStep
<1>1. /\ versions' \in Seq(Version) /\ Len(versions) \in Nat
      /\ DOMAIN versions' = 1 .. Len(versions) + 1
      /\ status = "active" => ActiveVersions' # {}
  <2>1. versions \in Seq(Version) /\ Inserts(policies, author, status, approver)
    BY <1>0 DEF TypeOK
  <2>2. Len(versions) \in Nat
    BY <2>1
  <2> QED
    BY <2>1, <2>2, AppendKeeps
<1>2. Len(versions') = Len(versions) + 1
  BY <1>1
<1>3. saved' \in 0..Len(versions')
  BY <1>0, <1>1, <1>2 DEF TypeOK
<1>4. missed' \in BOOLEAN
  BY <1>0 DEF TypeOK
<1>5. /\ pc' \in {"idle", "materialize"}
      /\ pc' = "materialize" => ActiveVersions' # {} /\ saved' = Len(versions')
  BY <1>0, <1>1
<1>6. UNCHANGED <<roleOf, custom, saving, wanted, file>>
  BY <1>0 DEF menuVars
<1> QED
  BY <1>1, <1>3, <1>4, <1>5, <1>6 DEF TypeOK

LEMMA NextTypeOK == TypeOK /\ [Next]_vars => TypeOK'
<1> SUFFICES ASSUME TypeOK, [Next]_vars PROVE TypeOK'
  OBVIOUS
<1>3. CASE TruncateFile
  BY <1>3 DEF TruncateFile, historyVars, menuVars, TypeOK, ActiveVersions
<1>4. CASE WriteFile
  <2>1. ActiveVersion.policies \in PolicyList
    BY <1>4, ActiveVersionIsActive DEF WriteFile, TypeOK, Version
  <2> QED
    BY <1>4, <2>1 DEF WriteFile, historyVars, menuVars, TypeOK, ActiveVersions
<1>5. CASE OtherStep
  <2>1. missed' \in BOOLEAN
    BY <1>5 DEF OtherStep, TypeOK
  <2>2. /\ versions' \in Seq(Version) /\ saved' \in 0..Len(versions')
        /\ saved = Len(versions) => UNCHANGED versions
    BY <1>5, DropKeeps DEF OtherStep, TypeOK
  <2>3. pc' \in {"materialize", "writing"} => pc' = pc
    BY <1>5 DEF OtherStep, TypeOK
  <2>4. /\ pc' \in {"idle", "materialize", "writing", "saving"}
        /\ pc' \in {"materialize", "writing"} =>
               ActiveVersions' # {} /\ saved' = Len(versions')
    BY <1>5, <2>2, <2>3 DEF OtherStep, TypeOK, ActiveVersions
  <2> QED
    BY <1>5, <2>1, <2>2, <2>4 DEF OtherStep, MenuType, TypeOK
<1> QED
  BY <1>3, <1>4, <1>5, InsertType, StepCases

(* Every variable keeps its type, and a file is written only when some
   version is active. *)
THEOREM TypeCorrect == Spec => []TypeOK
BY InitTypeOK, NextTypeOK, PTL DEF Spec

(***************************************************************************)
(* Separation of duties.                                                   *)
(***************************************************************************)

(* When every capability file can be read, the gate flags what the operators
   declared. *)
LEMMA GateIsWhole ==
    ASSUME TypeOK, MenuAsWanted, CatalogLoads, NEW policies \in PolicyList
    PROVE  Declared(policies) = Sensitive(policies)
<1>1. \A id \in CustomIds :
          custom[id] = wanted[id] /\ wanted[id] \in Descriptor \cup {Absent}
  BY DEF MenuAsWanted, CatalogLoads, TypeOK
<1>2. Absent \notin Descriptor
  BY ConsoleAssumption
<1>3. policies.granted \subseteq DOMAIN BuiltIn \cup CustomIds
  BY DEF PolicyList, Capabilities
<1>4. \A id \in CustomIds : id \notin DOMAIN BuiltIn
  BY ConsoleAssumption
<1>5. ASSUME NEW cap \in policies.granted
      PROVE  (IF cap \in DOMAIN BuiltIn THEN BuiltIn[cap]
              ELSE wanted[cap] # Absent /\ wanted[cap].enabled
                                       /\ wanted[cap].second)
             <=> OnMenu(cap) /\ NeedsSecond(cap)
  <2>1. CASE cap \in DOMAIN BuiltIn
    BY <2>1 DEF OnMenu, NeedsSecond
  <2>2. CASE cap \in CustomIds
    BY <2>2, <1>1, <1>2, <1>4 DEF OnMenu, NeedsSecond
  <2> QED
    BY <1>3, <2>1, <2>2
<1> QED
  BY <1>5 DEF Declared, Sensitive

LEMMA InitMenu == Init => MenuAsWanted
BY DEF Init, MenuAsWanted

LEMMA NextMenu == TypeOK /\ MenuAsWanted /\ [Next]_vars => MenuAsWanted'
<1> SUFFICES ASSUME TypeOK, MenuAsWanted, [Next]_vars PROVE MenuAsWanted'
  OBVIOUS
<1>1. ASSUME UNCHANGED <<custom, wanted>> PROVE MenuAsWanted'
  BY <1>1 DEF MenuAsWanted
<1>2. InsertStep => UNCHANGED <<custom, wanted>>
  BY DEF InsertStep, menuVars
<1>3. TruncateFile \/ WriteFile => UNCHANGED <<custom, wanted>>
  BY DEF TruncateFile, WriteFile, menuVars
<1> QED
  BY <1>1, <1>2, <1>3, StepCases DEF OtherStep

(* No capability falls back to an earlier state. *)
THEOREM MenuStands == Spec => []MenuAsWanted
BY InitTypeOK, NextTypeOK, InitMenu, NextMenu, PTL DEF Spec

(* SeparationOfDuties is inductive: versions stay as they are, and the two
   ways to become active are to grant nothing sensitive and to be approved. *)
LEMMA InitSeparation == Init => SeparationOfDuties
BY DEF Init, SeparationOfDuties, ActiveVersions

(* A version that satisfies the rule may be inserted. *)
LEMMA AppendSeparation ==
    ASSUME TypeOK, SeparationOfDuties, NEW policies \in PolicyList,
           NEW author \in Admins, NEW status \in {"active", "pending"},
           NEW approver \in Admins \cup {Nobody},
           Inserts(policies, author, status, approver),
           status = "active" /\ Declared(policies) # {} =>
               /\ approver \notin {Nobody, author}
               /\ \E j \in DOMAIN versions :
                     /\ versions[j].status = "pending"
                     /\ versions[j].policies = policies
                     /\ versions[j].author = author
    PROVE  SeparationOfDuties'
<1> DEFINE n == Len(versions) + 1
<1>1. /\ DOMAIN versions' = 1..n /\ DOMAIN versions = 1..Len(versions)
      /\ \A i \in 1..Len(versions) : versions'[i] = versions[i]
      /\ versions'[n].policies = policies
      /\ versions'[n].author = author
      /\ versions'[n].approvedBy = approver
      /\ versions'[n].status = status
      /\ versions'[n].sensitive = Declared(policies)
      /\ ActiveVersions' = IF status = "active"
                           THEN ActiveVersions \cup {n} ELSE ActiveVersions
      /\ Len(versions) \in Nat
  BY AppendKeeps DEF TypeOK
<1>2. ASSUME NEW i \in ActiveVersions, versions'[i].sensitive # {}
      PROVE  /\ versions'[i].approvedBy \notin {Nobody, versions'[i].author}
             /\ \E j \in 1 .. i - 1 :
                   /\ versions'[j].status = "pending"
                   /\ versions'[j].policies = versions'[i].policies
                   /\ versions'[j].author = versions'[i].author
  <2>1. i \in 1..Len(versions) /\ versions'[i] = versions[i]
    BY <1>1 DEF ActiveVersions
  <2>2. \A j \in 1 .. i - 1 : versions'[j] = versions[j]
    BY <1>1, <2>1
  <2> QED
    BY <1>2, <2>1, <2>2 DEF SeparationOfDuties
<1>3. ASSUME status = "active", versions'[n].sensitive # {}
      PROVE  /\ versions'[n].approvedBy \notin {Nobody, versions'[n].author}
             /\ \E j \in 1 .. n - 1 :
                   /\ versions'[j].status = "pending"
                   /\ versions'[j].policies = versions'[n].policies
                   /\ versions'[j].author = versions'[n].author
  <2>1. Declared(policies) # {} /\ n - 1 = Len(versions)
    BY <1>1, <1>3
  <2> HIDE DEF n
  <2> QED
    BY <1>1, <1>3, <2>1
<1> HIDE DEF n
<1> QED
  BY <1>1, <1>2, <1>3 DEF SeparationOfDuties

LEMMA NextSeparation ==
    TypeOK /\ MenuAsWanted /\ SeparationOfDuties /\ [Next]_vars
        => SeparationOfDuties'
<1> SUFFICES ASSUME TypeOK, MenuAsWanted, SeparationOfDuties, [Next]_vars
             PROVE  SeparationOfDuties'
  OBVIOUS
<1>1. CASE InsertStep
  <2>1. PICK policies \in PolicyList, author \in Admins,
             status \in {"active", "pending"},
             approver \in Admins \cup {Nobody} :
            /\ Proper(policies, author, status, approver)
            /\ Inserts(policies, author, status, approver)
    BY <1>1 DEF InsertStep
  <2>2. ASSUME status = "active", Declared(policies) # {}
        PROVE  /\ approver \notin {Nobody, author}
               /\ \E j \in DOMAIN versions :
                     /\ versions[j].status = "pending"
                     /\ versions[j].policies = policies
                     /\ versions[j].author = author
    <3>1. ~(/\ CatalogLoads /\ approver = Nobody
            /\ status = IF Sensitive(policies) # {} THEN "pending" ELSE "active")
      BY <2>2, GateIsWhole
    <3> QED
      BY <2>1, <3>1, ConsoleAssumption DEF Proper
  <2> QED
    BY <2>1, <2>2, AppendSeparation
<1>2. ASSUME Drops PROVE SeparationOfDuties'
  <2>0. versions \in Seq(Version) /\ saved \in 0..Len(versions) /\ saved \in Nat
    BY DEF TypeOK
  <2>1. /\ ActiveVersions' = ActiveVersions \cap (1..saved)
        /\ \A i \in 1..saved : versions'[i] = versions[i]
    BY <1>2, <2>0, DropKeeps
  <2>2. ASSUME NEW i \in ActiveVersions', versions'[i].sensitive # {}
        PROVE  /\ versions'[i].approvedBy \notin {Nobody, versions'[i].author}
               /\ \E j \in 1 .. i - 1 :
                     /\ versions'[j].status = "pending"
                     /\ versions'[j].policies = versions'[i].policies
                     /\ versions'[j].author = versions'[i].author
    <3>1. i \in ActiveVersions /\ i \in 1..saved /\ versions'[i] = versions[i]
      BY <2>1, <2>2
    <3>2. \A j \in 1 .. i - 1 : versions'[j] = versions[j]
      BY <2>0, <2>1, <3>1
    <3> QED
      BY <2>2, <3>1, <3>2 DEF SeparationOfDuties
  <2> QED
    BY <2>2 DEF SeparationOfDuties
<1>3. ASSUME UNCHANGED versions PROVE SeparationOfDuties'
  BY <1>3 DEF SeparationOfDuties, ActiveVersions
<1> QED
  BY <1>1, <1>2, <1>3, StepCases
     DEF TruncateFile, WriteFile, historyVars, OtherStep

(* Nothing sensitive becomes active on the word of one admin. *)
THEOREM DutiesSeparated == Spec => []SeparationOfDuties
BY InitTypeOK, NextTypeOK, InitMenu, NextMenu, InitSeparation, NextSeparation,
   PTL DEF Spec

(***************************************************************************)
(* The policy file.                                                        *)
(***************************************************************************)

(* The two halves of FileFollowsHistory. *)
Current ==
    pc \notin {"materialize", "writing"} /\ ~missed =>
        IF ActiveVersions = {} THEN file = NoFile
        ELSE file = ActiveVersion.policies

WasActive ==
    file \notin {NoFile, Torn} =>
        \E i \in ActiveVersions : i <= saved /\ versions[i].policies = file

(* Unless a write was missed, no active version can drop out of the history. *)
ActiveSaved == ~missed => ActiveVersions \subseteq 1..saved

FileInv == Current /\ WasActive /\ ActiveSaved

LEMMA InitFile == Init => FileInv
BY DEF Init, FileInv, Current, WasActive, ActiveSaved, ActiveVersions

(* An insert keeps what is active, and a proposal changes nothing else. *)
LEMMA InsertFile == TypeOK /\ FileInv /\ InsertStep => FileInv'
<1> SUFFICES ASSUME TypeOK, FileInv, InsertStep PROVE FileInv'
  OBVIOUS
<1> DEFINE n == Len(versions) + 1
<1>1. PICK policies \in PolicyList, author \in Admins,
           status \in {"active", "pending"}, approver \in Admins \cup {Nobody} :
        /\ pc = "idle"
        /\ Inserts(policies, author, status, approver)
        /\ \/ /\ saved' = Len(versions') /\ UNCHANGED missed
              /\ pc' = IF status = "active" THEN "materialize" ELSE "idle"
           \/ /\ UNCHANGED <<saved, pc>>
              /\ missed' = (missed \/ status = "active")
        /\ UNCHANGED <<roleOf, menuVars, file>>
  BY DEF InsertStep
<1>2. /\ versions' \in Seq(Version) /\ DOMAIN versions' = 1..n
      /\ DOMAIN versions = 1..Len(versions)
      /\ \A i \in 1..Len(versions) : versions'[i] = versions[i]
      /\ ActiveVersions' = IF status = "active"
                           THEN ActiveVersions \cup {n} ELSE ActiveVersions
  BY <1>1, AppendKeeps DEF TypeOK
<1>3. /\ Len(versions') = n /\ saved \in Nat /\ saved' \in Nat
      /\ saved <= saved' /\ saved <= n - 1 /\ n \in Nat
      /\ ActiveVersions \subseteq 1 .. n - 1
  BY <1>1, <1>2 DEF TypeOK, ActiveVersions
<1> HIDE DEF n
<1>4. WasActive'
  <2>1. ASSUME file \notin {NoFile, Torn}
        PROVE  \E i \in ActiveVersions' : i <= saved' /\ versions'[i].policies = file
    <3>1. PICK i \in ActiveVersions : i <= saved /\ versions[i].policies = file
      BY <2>1 DEF FileInv, WasActive
    <3>2. i \in ActiveVersions' /\ i <= saved' /\ versions'[i] = versions[i]
      BY <1>2, <1>3, <3>1 DEF ActiveVersions
    <3> QED
      BY <3>1, <3>2
  <2> QED
    BY <1>1, <2>1 DEF WasActive
<1>5. ActiveSaved'
  <2>1. CASE saved' = Len(versions')
    BY <1>2, <1>3, <2>1 DEF ActiveSaved
  <2>2. CASE saved' = saved /\ missed' = (missed \/ status = "active")
    BY <1>2, <1>3, <2>2 DEF FileInv, ActiveSaved, TypeOK
  <2> QED
    BY <1>1, <2>1, <2>2
<1>6. Current'
  <2>1. CASE status = "active"
    BY <1>1, <2>1 DEF Current
  <2>2. CASE status = "pending"
    <3>1. /\ UNCHANGED <<file, pc>>
          /\ ~missed' => ~missed
      BY <1>1, <2>2 DEF TypeOK
    <3>2. ActiveVersions' = ActiveVersions
      BY <1>2, <2>2
    <3>3. ActiveVersions # {} => ActiveVersion' = ActiveVersion
      BY <1>2, <3>2, LastStays DEF ActiveVersions, TypeOK
    <3> QED
      BY <3>1, <3>2, <3>3 DEF FileInv, Current
  <2> QED
    BY <2>1, <2>2
<1> QED
  BY <1>4, <1>5, <1>6 DEF FileInv

LEMMA OtherFile == TypeOK /\ FileInv /\ OtherStep => FileInv'
<1> SUFFICES ASSUME TypeOK, FileInv, OtherStep PROVE FileInv'
  OBVIOUS
<1>1. /\ UNCHANGED <<saved, file>>
      /\ ~missed' => ~missed
      /\ pc' \notin {"materialize", "writing"} /\ ~missed'
             => pc \notin {"materialize", "writing"}
  <2>1. UNCHANGED <<saved, file>> /\ missed \in BOOLEAN
    BY DEF OtherStep, TypeOK
  <2>2. \/ UNCHANGED <<pc, missed>>
        \/ pc = "idle" /\ pc' = "saving" /\ UNCHANGED missed
        \/ pc = "saving" /\ pc' = "idle" /\ UNCHANGED missed
        \/ /\ pc' = "idle"
           /\ missed' = (missed \/ pc \in {"materialize", "writing"})
    BY DEF OtherStep
  <2> QED
    BY <2>1, <2>2
<1>2. /\ ActiveVersions \cap (1..saved) \subseteq ActiveVersions'
      /\ ActiveVersions' \subseteq ActiveVersions
      /\ \A i \in ActiveVersions' : versions'[i] = versions[i]
  <2>1. CASE UNCHANGED versions
    BY <2>1 DEF ActiveVersions
  <2>2. CASE Drops
    <3>1. /\ ActiveVersions' = ActiveVersions \cap (1..saved)
          /\ \A i \in 1..saved : versions'[i] = versions[i]
      BY <2>2, DropKeeps DEF TypeOK
    <3> QED
      BY <3>1
  <2> QED
    BY <2>1, <2>2 DEF OtherStep
<1>3. ActiveVersions \subseteq 1..Len(versions) /\ saved \in Nat
  BY DEF ActiveVersions, TypeOK
<1>4. WasActive'
  <2>1. ASSUME file \notin {NoFile, Torn}
        PROVE  \E i \in ActiveVersions' : i <= saved /\ versions'[i].policies = file
    <3>1. PICK i \in ActiveVersions : i <= saved /\ versions[i].policies = file
      BY <2>1 DEF FileInv, WasActive
    <3>2. i \in 1..saved
      BY <1>3, <3>1
    <3> QED
      BY <1>2, <3>1, <3>2
  <2> QED
    BY <1>1, <2>1 DEF WasActive
<1>5. ActiveSaved'
  BY <1>1, <1>2 DEF FileInv, ActiveSaved
<1>6. Current'
  <2>1. ASSUME pc' \notin {"materialize", "writing"}, ~missed'
        PROVE  IF ActiveVersions' = {} THEN file = NoFile
               ELSE file = ActiveVersion'.policies
    <3>1. pc \notin {"materialize", "writing"} /\ ~missed
      BY <1>1, <2>1
    <3>2. ActiveVersions' = ActiveVersions
      BY <1>2, <3>1 DEF FileInv, ActiveSaved
    <3>3. ActiveVersions # {} => ActiveVersion' = ActiveVersion
      BY <1>2, <3>2, LastStays DEF TypeOK
    <3> QED
      BY <3>1, <3>2, <3>3 DEF FileInv, Current
  <2> QED
    BY <1>1, <2>1 DEF Current
<1> QED
  BY <1>4, <1>5, <1>6 DEF FileInv

LEMMA NextFile == TypeOK /\ FileInv /\ [Next]_vars => FileInv'
<1> SUFFICES ASSUME TypeOK, FileInv, [Next]_vars PROVE FileInv'
  OBVIOUS
<1>1. CASE TruncateFile
  BY <1>1 DEF TruncateFile, historyVars, FileInv, Current, WasActive,
              ActiveSaved, ActiveVersions
<1>2. CASE WriteFile
  <2>1. /\ ActiveVersions # {} /\ UNCHANGED <<versions, saved>>
        /\ saved = Len(versions) /\ saved \in Nat
    BY <1>2 DEF WriteFile, historyVars, TypeOK
  <2>2. ActiveVersions' = ActiveVersions /\ ActiveVersion' = ActiveVersion
    BY <2>1 DEF ActiveVersions, ActiveVersion
  <2>3. file' = ActiveVersion.policies
    BY <1>2 DEF WriteFile
  <2>4. PICK i \in ActiveVersions : ActiveVersion = versions[i]
    BY <2>1, ActiveVersionIsActive DEF TypeOK
  <2>5. ActiveVersions \subseteq 1..saved
    BY <2>1 DEF ActiveVersions, TypeOK
  <2>6. i <= saved
    BY <2>1, <2>5
  <2>7. WasActive'
    BY <2>1, <2>2, <2>3, <2>4, <2>6 DEF WasActive
  <2>8. ActiveSaved'
    BY <2>1, <2>2, <2>5 DEF ActiveSaved
  <2> QED
    BY <2>1, <2>2, <2>3, <2>7, <2>8 DEF Current, FileInv
<1> QED
  BY <1>1, <1>2, InsertFile, OtherFile, StepCases

(* active.json is the active version unless a write of it is due or went
   wrong, and always one that was active. *)
THEOREM FileIsActive == Spec => []FileFollowsHistory
<1>1. FileInv => FileFollowsHistory
  BY DEF FileInv, Current, WasActive, FileFollowsHistory
<1> QED
  BY <1>1, InitTypeOK, NextTypeOK, InitFile, NextFile, PTL DEF Spec

=============================================================================
