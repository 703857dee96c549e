---------------------------- MODULE ReceiptChain ----------------------------
(***************************************************************************)
(* The hash chain under the receipts (ledger/receipts.py) and under the    *)
(* policy history (authoring/policy_store.py), and those who read it: the  *)
(* standalone verifiers, the inspector and the console's activity screen.  *)
(*                                                                         *)
(* An append reads the hash of the last row and then inserts a row that    *)
(* names it; sqlite makes each of the two steps atomic, but not both       *)
(* together.  Appends are serialized when one process at a time uses the   *)
(* file: the console's server is single-threaded for that reason, while    *)
(* every gateway process opens the ledger on its own.                      *)
(*                                                                         *)
(* The auditor holds a copy of the file, in which rows may have been       *)
(* altered by someone without the private key.                             *)
(***************************************************************************)
EXTENDS SequencesExt

CONSTANTS
    Writers,        \* the processes that append
    Contents,       \* what is hash-bound in a row besides prev_hash
    Cut,            \* a content that lacks one of the core keys
    Unreadable,     \* the content of a row that is no JSON
    Bare,           \* ... that is JSON, but a list, a text or a number
    Forged,         \* a signature the cashier's key did not make
    None,           \* an append that has not read the head yet
    Serialized,     \* TRUE: one append at a time
    MaxRows, MaxAlterations   \* bounds of the model

ASSUME ChainAssumption ==
    /\ Serialized \in BOOLEAN
    /\ {Cut, Unreadable, Bare} \cap Contents = {}
    /\ Bare \notin {Cut, Unreadable}
    /\ Forged \notin Seq(Contents \cup {Cut, Unreadable, Bare})
    /\ {MaxRows, MaxAlterations} \subseteq Nat

(* sha256 is taken to be free of collisions: the hash of a row stands for
   the contents from the genesis to the row. *)
AnyContent == Contents \cup {Cut, Unreadable, Bare}

Hashes == Seq(AnyContent)

Genesis == << >>

Hash(content, prev) == Append(prev, content)

(* A signature is known by the hash it was made for.  A row that is no object
   has no fields: those it has here are never looked at. *)
Row == [content : AnyContent, prev : Hashes, hash : Hashes,
        sig : Hashes \cup {Forged}]

VARIABLES
    rows,           \* the table, in the order of seq
    head,           \* what each append in progress took for the last hash
    copy,           \* the file in the auditor's hands
    alterations     \* how often the copy was altered

vars == <<rows, head, copy, alterations>>

Init ==
    /\ rows = << >>
    /\ head = [w \in Writers |-> None]
    /\ copy = << >> /\ alterations = 0

(* -------------------------------------------------------------------- *)
(* Ledger.append and PolicyStore.append_version.                         *)

(* Faulty: the first row is taken for the last. *)
HeadHashOfFirst == IF rows = << >> THEN Genesis ELSE rows[1].hash

HeadHash == IF rows = << >> THEN Genesis ELSE rows[Len(rows)].hash

ReadHead(w) ==
    /\ head[w] = None /\ Len(rows) < MaxRows
    /\ Serialized => \A v \in Writers : head[v] = None
    /\ head' = [head EXCEPT ![w] = HeadHash]
    /\ UNCHANGED <<rows, copy, alterations>>

(* Faulty: the content is signed, not the hash. *)
SignedContentRow(content, prev) ==
    [content |-> content, prev |-> prev, hash |-> Hash(content, prev),
     sig |-> content]

SignedRow(content, prev) ==
    [content |-> content, prev |-> prev, hash |-> Hash(content, prev),
     sig |-> Hash(content, prev)]

Insert(w, content) ==
    /\ head[w] # None
    /\ rows' = Append(rows, SignedRow(content, head[w]))
    /\ head' = [head EXCEPT ![w] = None]
    /\ UNCHANGED <<copy, alterations>>

(* The insert finds the file locked or the disk full, or the process dies.
   (A commit that raises leaves the row pending and the file locked for
   everybody else; it appears in the file together with the next row of that
   process, which is an Insert that comes late, or not at all.) *)
AppendFails(w) ==
    /\ head[w] # None
    /\ head' = [head EXCEPT ![w] = None]
    /\ UNCHANGED <<rows, copy, alterations>>

(* -------------------------------------------------------------------- *)
(* The copy.  Whoever alters it can compute hashes, and can use every      *)
(* signature there is, but cannot make one.                                *)

Signatures == {rows[k].sig : k \in DOMAIN rows} \cup {Forged}

KnownHashes == {Genesis} \cup {rows[k].hash : k \in DOMAIN rows}

HandOver ==
    /\ copy' = rows /\ alterations' = 0
    /\ UNCHANGED <<rows, head>>

Alter(altered) ==
    /\ alterations < MaxAlterations
    /\ copy' = altered
    /\ alterations' = alterations + 1
    /\ UNCHANGED <<rows, head>>

PlausibleRows ==
    {[content |-> content, prev |-> prev, hash |-> hash, sig |-> sig] :
        content \in Contents \cup {Cut}, prev \in KnownHashes,
        hash \in KnownHashes, sig \in Signatures}
    \cup
    {[content |-> content, prev |-> prev, hash |-> Hash(content, prev),
      sig |-> sig] :
        content \in Contents \cup {Cut}, prev \in KnownHashes,
        sig \in Signatures}
    \cup
    {[content |-> content, prev |-> Genesis, hash |-> Genesis,
      sig |-> Forged] :
        content \in {Unreadable, Bare}}

ChangeRow(i, row) == Alter([copy EXCEPT ![i] = row])

RemoveRow(i) == Alter(RemoveAt(copy, i))

AddRow(i, row) == Alter(InsertAt(copy, i, row))

(* -------------------------------------------------------------------- *)

Next ==
    \/ \E w \in Writers : \/ ReadHead(w)
                          \/ \E content \in Contents : Insert(w, content)
                          \/ AppendFails(w)
    \/ HandOver
    \/ \E i \in DOMAIN copy : \/ \E row \in PlausibleRows : ChangeRow(i, row)
                              \/ RemoveRow(i)
    \/ \E i \in 1 .. Len(copy) + 1 : \E row \in PlausibleRows : AddRow(i, row)

Spec == Init /\ [][Next]_vars

(* -------------------------------------------------------------------- *)
(* verify_ledger.py and verify_policy_history.py: each row in order; the   *)
(* first that fails one of the checks is named with the reason.  (A list or  *)
(* a text that happens to hold the names of all ten keys makes the verifier  *)
(* raise at that row instead of naming it; Bare stands for any other.)       *)

Expected(db, i) == IF i = 1 THEN Genesis ELSE db[i - 1].hash

(* Faulty: the signature is not looked at. *)
RowVerdictUnsigned(db, i) ==
    LET row == db[i] IN
    IF row.content \in {Cut, Unreadable, Bare} THEN "json_parse"
    ELSE IF row.hash # Hash(row.content, row.prev) THEN "hash_mismatch"
    ELSE IF row.prev # Expected(db, i) THEN "prev_hash_mismatch"
    ELSE "ok"

(* Faulty: the stored hash is believed. *)
RowVerdictStoredHash(db, i) ==
    LET row == db[i] IN
    IF row.content \in {Cut, Unreadable, Bare} THEN "json_parse"
    ELSE IF row.prev # Expected(db, i) THEN "prev_hash_mismatch"
    ELSE IF row.sig # row.hash THEN "bad_signature"
    ELSE "ok"

RowVerdict(db, i) ==
    LET row == db[i] IN
    IF row.content \in {Cut, Unreadable, Bare} THEN "json_parse"
    ELSE IF row.hash # Hash(row.content, row.prev) THEN "hash_mismatch"
    ELSE IF row.prev # Expected(db, i) THEN "prev_hash_mismatch"
    ELSE IF row.sig # row.hash THEN "bad_signature"
    ELSE "ok"

FailingRows(db) == {i \in DOMAIN db : RowVerdict(db, i) # "ok"}

Verifies(db) == FailingRows(db) = {}

(* Faulty: the key at hand is not used. *)
InspectorRowUnsigned(db, i, keyed) ==
    LET row == db[i] IN
    IF row.content = Bare THEN "raises"
    ELSE IF row.hash # Hash(row.content, row.prev) THEN "hash_mismatch"
    ELSE IF row.prev # Expected(db, i) THEN "prev_hash_mismatch"
    ELSE "ok"

(* inspector.check_chain: the same walk without the test for the core keys,
   and without the signatures when there is no key at hand.  A row that is no
   object has no items(), and the AttributeError is not caught.  (A row that
   is no JSON never gets here: read_rows raises.) *)
InspectorRowVerdict(db, i, keyed) ==
    LET row == db[i] IN
    IF row.content = Bare THEN "raises"
    ELSE IF row.hash # Hash(row.content, row.prev) THEN "hash_mismatch"
    ELSE IF row.prev # Expected(db, i) THEN "prev_hash_mismatch"
    ELSE IF keyed /\ row.sig # row.hash THEN "bad_signature"
    ELSE "ok"

InspectorFailing(db, keyed) ==
    {i \in DOMAIN db : InspectorRowVerdict(db, i, keyed) # "ok"}

(* inspector.read_rows: json.loads takes a list or a number as well. *)
ReadRowsRaises(db) == \E i \in DOMAIN db : db[i].content = Unreadable

(* inspector.build_report asks every row for its status, also the rows behind
   the one where check_chain stopped. *)
BuildReportRaises(db) == \E i \in DOMAIN db : db[i].content = Bare

(* ConsoleService.activity: a ledger that cannot be read counts as empty;
   what build_report raises is not caught. *)
ConsoleActivity(db) ==
    IF ReadRowsRaises(db) THEN "valid"
    ELSE IF BuildReportRaises(db) THEN "raises"
    ELSE IF InspectorFailing(db, TRUE) = {} THEN "valid"
    ELSE "broken"

(***************************************************************************)
(* Properties                                                              *)
(***************************************************************************)

(* The type of every variable. *)
TypeOK ==
    /\ rows \in Seq(Row) /\ copy \in Seq(Row)
    /\ head \in [Writers -> Hashes \cup {None}]
    /\ alterations \in Nat

(* docs/SPEC.md, claim 4: the receipts are verifiable with the standalone
   script; a ledger nobody touched passes, whatever appends failed or were
   cut short.  It needs serialized appends. *)
LiveChainVerifies == Verifies(rows)

(* Tamper evidence, docs/THREATS.md: a copy the verifier accepts is a
   prefix of what was appended; only the newest rows may be missing. *)
VerifiedIsPrefix == Verifies(copy) => IsPrefix(copy, rows)

(* docs/SPEC.md, acceptance test 6: the row the verifier names is the first
   one that is not the row appended at that place. *)
NamesFirstBroken ==
    ~Verifies(copy) =>
        LET first == CHOOSE i \in FailingRows(copy) :
                        \A j \in FailingRows(copy) : i <= j
        IN  /\ \A j \in 1 .. first - 1 :
                   j \in DOMAIN rows /\ copy[j] = rows[j]
            /\ first \in DOMAIN rows => copy[first] # rows[first]

(* inspector.py walks the chain "exactly like the standalone verifier": with
   the key at hand both accept a file whose rows are JSON, or both stop at the
   same row, where the inspector may not name it but raise.  The activity
   screen calls a ledger valid that the verifier accepts, and no other; only a
   row that is no JSON makes it take the whole ledger for an empty one. *)
InspectorAgrees ==
    /\ ~ReadRowsRaises(copy) =>
           LET verifier == FailingRows(copy)
               inspector == InspectorFailing(copy, TRUE)
               Least(S) == CHOOSE i \in S : \A j \in S : i <= j
           IN  /\ verifier = {} <=> inspector = {}
               /\ verifier # {} => Least(verifier) = Least(inspector)
    /\ Verifies(copy) =>
           ~ReadRowsRaises(copy) /\ ConsoleActivity(copy) = "valid"
    /\ ConsoleActivity(copy) = "valid" =>
           Verifies(copy) \/ ReadRowsRaises(copy)

=============================================================================
