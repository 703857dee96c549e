------------------------- MODULE ReceiptChainProofs -------------------------
(***************************************************************************)
(* Theorems about ReceiptChain, for every number of writers and rows, and  *)
(* for every number of alterations of the copy.                            *)
(***************************************************************************)
EXTENDS ReceiptChain, WellFoundedInduction, TLAPS

(***************************************************************************)
(* Facts about rows.                                                       *)
(***************************************************************************)

(* A hash tells the content and the hash before it: no collisions. *)
LEMMA HashInjective ==
    ASSUME NEW c \in AnyContent, NEW d \in AnyContent,
           NEW p \in Hashes, NEW q \in Hashes
    PROVE  /\ Hash(c, p) \in Hashes
           /\ Len(Hash(c, p)) = Len(p) + 1
           /\ Hash(c, p) = Hash(d, q) => c = d /\ p = q
BY DEF Hash, Hashes

(* What an append inserts is a row, and passes the checks of the verifier
   that do not look at its neighbour. *)
LEMMA SignedRowType ==
    ASSUME NEW content \in Contents, NEW prev \in Hashes
    PROVE  /\ SignedRow(content, prev) \in Row
           /\ SignedRow(content, prev).content \in Contents
           /\ SignedRow(content, prev).prev = prev
           /\ SignedRow(content, prev).hash = Hash(content, prev)
           /\ SignedRow(content, prev).sig = Hash(content, prev)
           /\ SignedRow(content, prev).content = content
BY HashInjective DEF SignedRow, Row, AnyContent

(***************************************************************************)
(* Type correctness.                                                       *)
(***************************************************************************)

LEMMA InitTypeOK == Init => TypeOK
BY DEF Init, TypeOK

(* The hash an append takes for the last one. *)
LEMMA HeadHashType == TypeOK => HeadHash \in Hashes
<1> SUFFICES ASSUME TypeOK PROVE HeadHash \in Hashes
  OBVIOUS
<1>1. CASE rows = << >>
  BY <1>1 DEF HeadHash, Genesis, Hashes
<1>2. CASE rows # << >>
  <2>1. rows[Len(rows)] \in Row
    BY <1>2 DEF TypeOK
  <2> QED
    BY <1>2, <2>1 DEF HeadHash, Row
<1> QED
  BY <1>1, <1>2

(* Whoever alters the copy writes rows. *)
LEMMA PlausibleRowType == TypeOK => PlausibleRows \subseteq Row
<1> SUFFICES ASSUME TypeOK, NEW row \in PlausibleRows PROVE row \in Row
  OBVIOUS
<1>0. /\ \A k \in DOMAIN rows : /\ rows[k].hash \in Hashes
                              /\ rows[k].sig \in Hashes \cup {Forged}
      /\ Genesis \in Hashes
  <2>1. \A k \in DOMAIN rows : rows[k] \in Row
    BY DEF TypeOK
  <2>2. Genesis \in Hashes
    BY DEF Genesis, Hashes
  <2> QED
    BY <2>1, <2>2 DEF Row
<1>1. KnownHashes \subseteq Hashes
  BY <1>0 DEF KnownHashes
<1>2. Signatures \subseteq Hashes \cup {Forged}
  BY <1>0 DEF Signatures
<1> QED
  BY <1>0, <1>1, <1>2, HashInjective DEF PlausibleRows, Row, AnyContent

LEMMA NextTypeOK == TypeOK /\ [Next]_vars => TypeOK'
<1> SUFFICES ASSUME TypeOK, [Next]_vars PROVE TypeOK'
  OBVIOUS
<1>1. ASSUME NEW w \in Writers, ReadHead(w) PROVE TypeOK'
  BY <1>1, HeadHashType DEF ReadHead, TypeOK
<1>2. ASSUME NEW w \in Writers, NEW content \in Contents, Insert(w, content)
      PROVE  TypeOK'
  <2>1. head[w] \in Hashes
    BY <1>2 DEF Insert, TypeOK
  <2>2. SignedRow(content, head[w]) \in Row
    BY <2>1, SignedRowType
  <2> QED
    BY <1>2, <2>2 DEF Insert, TypeOK
<1>3. ASSUME NEW w \in Writers, AppendFails(w) PROVE TypeOK'
  BY <1>3 DEF AppendFails, TypeOK
<1>4. CASE HandOver
  BY <1>4 DEF HandOver, TypeOK
<1>5. ASSUME NEW i \in DOMAIN copy, NEW row \in PlausibleRows,
             ChangeRow(i, row)
      PROVE  TypeOK'
  BY <1>5, PlausibleRowType DEF ChangeRow, Alter, TypeOK
<1>6. ASSUME NEW i \in DOMAIN copy, RemoveRow(i) PROVE TypeOK'
  <2>1. RemoveAt(copy, i) \in Seq(Row)
    BY DEF RemoveAt, TypeOK
  <2> QED
    BY <1>6, <2>1 DEF RemoveRow, Alter, TypeOK
<1>7. ASSUME NEW i \in 1 .. Len(copy) + 1, NEW row \in PlausibleRows,
             AddRow(i, row)
      PROVE  TypeOK'
  <2>1. InsertAt(copy, i, row) \in Seq(Row)
    BY PlausibleRowType DEF InsertAt, TypeOK
  <2> QED
    BY <1>7, <2>1 DEF AddRow, Alter, TypeOK
<1>8. CASE UNCHANGED vars
  BY <1>8 DEF vars, TypeOK
<1> QED
  BY <1>1, <1>2, <1>3, <1>4, <1>5, <1>6, <1>7, <1>8 DEF Next

(* Every variable keeps its type. *)
THEOREM TypeCorrect == Spec => []TypeOK
BY InitTypeOK, NextTypeOK, PTL DEF Spec

(***************************************************************************)
(* Serialized appends keep the chain whole.                                *)
(***************************************************************************)

(* The row at place i continues the chain; its hash, taken as the contents
   it stands for, is as long as its place. *)
Continues(db, i) ==
    /\ db[i].content \in Contents
    /\ db[i].prev = Expected(db, i)
    /\ db[i].hash = Hash(db[i].content, db[i].prev)
    /\ db[i].sig = db[i].hash
    /\ Len(db[i].hash) = i

(* The head an append holds is still the head when it inserts, and nobody
   else appends meanwhile. *)
ChainInv ==
    /\ \A i \in DOMAIN rows : Continues(rows, i)
    /\ \A w \in Writers :
           head[w] # None => /\ head[w] = HeadHash
                             /\ \A v \in Writers \ {w} : head[v] = None

LEMMA InitChainInv == Init => ChainInv
BY DEF Init, ChainInv

(* A row that names the head continues the chain. *)
LEMMA AppendContinues ==
    ASSUME TypeOK, ChainInv, NEW content \in Contents,
           rows' = Append(rows, SignedRow(content, HeadHash))
    PROVE  \A i \in DOMAIN rows' : Continues(rows', i)
<1> DEFINE row == SignedRow(content, HeadHash)
           n == Len(rows)
<1>1. HeadHash \in Hashes
  BY HeadHashType
<1>2. row \in Row
  BY <1>1, SignedRowType
<1>3. /\ n \in Nat /\ DOMAIN rows = 1..n /\ DOMAIN rows' = 1 .. n + 1
      /\ \A i \in 1..n : rows'[i] = rows[i]
      /\ rows'[n + 1] = row
  <2>1. rows' = Append(rows, row)
    OBVIOUS
  <2> HIDE DEF row
  <2> QED
    BY <1>2, <2>1 DEF TypeOK
<1>4. ASSUME NEW i \in 1..n PROVE Continues(rows', i)
  <2>1. Expected(rows', i) = Expected(rows, i)
    BY <1>3 DEF Expected
  <2> QED
    BY <1>3, <2>1 DEF ChainInv, Continues
<1>5. Continues(rows', n + 1)
  <2>1. Expected(rows', n + 1) = HeadHash
    <3>1. CASE n = 0
      <4>1. rows = << >>
        BY <3>1 DEF TypeOK
      <4> QED
        BY <3>1, <4>1 DEF Expected, HeadHash
    <3>2. CASE n # 0
      <4>1. rows # << >>
        BY <3>2
      <4>2. n \in 1..n /\ (n + 1) - 1 = n /\ n + 1 # 1
        BY <1>3, <3>2
      <4> QED
        BY <1>3, <4>1, <4>2 DEF Expected, HeadHash
    <3> QED
      BY <3>1, <3>2
  <2>2. Len(HeadHash) = n
    <3>1. CASE n = 0
      <4>1. rows = << >>
        BY <3>1 DEF TypeOK
      <4> QED
        BY <3>1, <4>1 DEF HeadHash, Genesis
    <3>2. CASE n # 0
      <4>1. rows # << >> /\ n \in DOMAIN rows
        BY <1>3, <3>2
      <4> QED
        BY <4>1 DEF HeadHash, ChainInv, Continues
    <3> QED
      BY <3>1, <3>2
  <2>3. Len(Hash(content, HeadHash)) = n + 1
    BY <1>1, <2>2, HashInjective DEF AnyContent
  <2> HIDE DEF n
  <2> QED
    BY <1>1, <1>3, <2>1, <2>3, SignedRowType DEF Continues
<1> QED
  BY <1>3, <1>4, <1>5

LEMMA NextChainInv ==
    ASSUME Serialized, TypeOK, ChainInv, [Next]_vars
    PROVE  ChainInv'
<1>1. ASSUME NEW w \in Writers, ReadHead(w) PROVE ChainInv'
  <2>1. /\ rows' = rows /\ HeadHash' = HeadHash
        /\ \A v \in Writers : head[v] = None
        /\ head' = [head EXCEPT ![w] = HeadHash]
    BY <1>1 DEF ReadHead, HeadHash
  <2>2. \A i \in DOMAIN rows' : Continues(rows', i)
    BY <2>1 DEF ChainInv
  <2> QED
    BY <2>1, <2>2 DEF ChainInv, TypeOK
<1>2. ASSUME NEW w \in Writers, NEW content \in Contents, Insert(w, content)
      PROVE  ChainInv'
  <2>1. /\ head[w] = HeadHash
        /\ \A v \in Writers \ {w} : head[v] = None
    BY <1>2 DEF Insert, ChainInv
  <2>2. rows' = Append(rows, SignedRow(content, HeadHash))
    BY <1>2, <2>1 DEF Insert
  <2>3. \A v \in Writers : head'[v] = None
    BY <1>2, <2>1 DEF Insert, TypeOK
  <2> QED
    BY <2>2, <2>3, AppendContinues DEF ChainInv
<1>3. ASSUME NEW w \in Writers, AppendFails(w) PROVE ChainInv'
  <2>1. rows' = rows /\ HeadHash' = HeadHash
    BY <1>3 DEF AppendFails, HeadHash
  <2>2. \A v \in Writers : head'[v] # None => head'[v] = head[v]
    BY <1>3 DEF AppendFails, TypeOK
  <2>3. \A v \in Writers : head[v] = None => head'[v] = None
    BY <1>3 DEF AppendFails, TypeOK
  <2> QED
    BY <2>1, <2>2, <2>3 DEF ChainInv
<1>4. ASSUME UNCHANGED <<rows, head>> PROVE ChainInv'
  <2>1. HeadHash' = HeadHash
    BY <1>4 DEF HeadHash
  <2> QED
    BY <1>4, <2>1 DEF ChainInv
<1> QED
  BY <1>1, <1>2, <1>3, <1>4
     DEF Next, HandOver, ChangeRow, RemoveRow, AddRow, Alter, vars

(* A ledger that one process at a time appends to passes the verifier. *)
THEOREM SerializedChainVerifies ==
    ASSUME Serialized
    PROVE  Spec => []LiveChainVerifies
<1>1. ChainInv => LiveChainVerifies
  BY ChainAssumption
     DEF ChainInv, Continues, LiveChainVerifies, Verifies, FailingRows,
         RowVerdict
<1>2. TypeOK /\ ChainInv /\ [Next]_vars => ChainInv'
  BY NextChainInv
<1> QED
  BY <1>1, <1>2, InitTypeOK, NextTypeOK, InitChainInv, PTL DEF Spec

(***************************************************************************)
(* Tamper evidence.                                                        *)
(***************************************************************************)

(* Taking a row out leaves rows that were there. *)
LEMMA RemoveAtKeeps ==
    ASSUME NEW s \in Seq(Row), NEW i \in DOMAIN s, NEW j \in DOMAIN RemoveAt(s, i)
    PROVE  \E k \in DOMAIN s : RemoveAt(s, i)[j] = s[k]
<1> DEFINE a == SubSeq(s, 1, i - 1)
           b == SubSeq(s, i + 1, Len(s))
<1>1. /\ a \in Seq(Row) /\ Len(a) = i - 1
      /\ \A k \in 1 .. i - 1 : a[k] = s[k]
  OBVIOUS
<1>2. /\ b \in Seq(Row) /\ Len(b) = Len(s) - i
      /\ \A k \in 1 .. Len(s) - i : b[k] = s[k + i]
  OBVIOUS
<1>3. /\ DOMAIN (a \o b) = 1 .. Len(s) - 1
      /\ \A k \in 1 .. Len(s) - 1 :
             (a \o b)[k] = IF k <= i - 1 THEN a[k] ELSE b[k - (i - 1)]
  <2> HIDE DEF a, b
  <2> QED
    BY <1>1, <1>2
<1>4. j \in 1 .. Len(s) - 1
  BY <1>3 DEF RemoveAt
<1>5. CASE j <= i - 1
  <2>1. j \in 1 .. i - 1 /\ j \in DOMAIN s
    BY <1>4, <1>5
  <2>2. (a \o b)[j] = s[j]
    BY <1>1, <1>3, <1>4, <1>5, <2>1
  <2> QED
    BY <2>1, <2>2 DEF RemoveAt
<1>6. CASE ~(j <= i - 1)
  <2>1. /\ j - (i - 1) \in 1 .. Len(s) - i
        /\ j + 1 \in DOMAIN s /\ (j - (i - 1)) + i = j + 1
    BY <1>4, <1>6
  <2> QED
    BY <1>2, <1>3, <1>4, <1>6, <2>1 DEF RemoveAt
<1> QED
  BY <1>5, <1>6

(* Putting a row in adds no other. *)
LEMMA InsertAtKeeps ==
    ASSUME NEW s \in Seq(Row), NEW i \in 1 .. Len(s) + 1, NEW row \in Row,
           NEW j \in DOMAIN InsertAt(s, i, row)
    PROVE  \/ InsertAt(s, i, row)[j] = row
           \/ \E k \in DOMAIN s : InsertAt(s, i, row)[j] = s[k]
<1> DEFINE a == SubSeq(s, 1, i - 1)
           b == SubSeq(s, i, Len(s))
           c == a \o <<row>>
<1>1. /\ a \in Seq(Row) /\ Len(a) = i - 1
      /\ \A k \in 1 .. i - 1 : a[k] = s[k]
  OBVIOUS
<1>2. /\ b \in Seq(Row) /\ Len(b) = Len(s) - i + 1
      /\ \A k \in 1 .. Len(s) - i + 1 : b[k] = s[k + i - 1]
  OBVIOUS
<1>3. /\ c \in Seq(Row) /\ Len(c) = i
      /\ \A k \in 1 .. i - 1 : c[k] = a[k]
      /\ c[i] = row
  <2> HIDE DEF a
  <2> QED
    BY <1>1
<1>4. /\ DOMAIN (c \o b) = 1 .. Len(s) + 1
      /\ \A k \in 1 .. Len(s) + 1 :
             (c \o b)[k] = IF k <= i THEN c[k] ELSE b[k - i]
  <2> HIDE DEF c, b
  <2> QED
    BY <1>2, <1>3
<1>5. j \in 1 .. Len(s) + 1
  BY <1>4 DEF InsertAt
<1>6. CASE j <= i - 1
  BY <1>1, <1>3, <1>4, <1>5, <1>6 DEF InsertAt
<1>7. CASE j = i
  BY <1>3, <1>4, <1>5, <1>7 DEF InsertAt
<1>8. CASE j > i
  <2>1. /\ j - i \in 1 .. Len(s) - i + 1
        /\ j - 1 \in DOMAIN s /\ (j - i) + i - 1 = j - 1
    BY <1>5, <1>8
  <2> QED
    BY <1>2, <1>4, <1>5, <1>8, <2>1 DEF InsertAt
<1> QED
  BY <1>5, <1>6, <1>7, <1>8

(* Nobody but the cashier signs: every signature in the copy is one that
   stands in the ledger, or none of the cashier's. *)
SignatureInv == \A i \in DOMAIN copy : copy[i].sig \in Signatures

LEMMA InitSignatureInv == Init => SignatureInv
BY DEF Init, SignatureInv

(* The signatures there are only grow. *)
LEMMA SignaturesGrow ==
    ASSUME TypeOK, [Next]_vars
    PROVE  Signatures \subseteq Signatures'
<1>1. ASSUME NEW w \in Writers, NEW content \in Contents, Insert(w, content)
      PROVE  Signatures \subseteq Signatures'
  <2> DEFINE row == SignedRow(content, head[w])
  <2>1. rows' = Append(rows, row) /\ head[w] \in Hashes
    BY <1>1 DEF Insert, TypeOK
  <2>2. row \in Row
    BY <2>1, SignedRowType
  <2>3. \A k \in DOMAIN rows : k \in DOMAIN rows' /\ rows'[k] = rows[k]
    <3> HIDE DEF row
    <3> QED
      BY <2>1, <2>2 DEF TypeOK
  <2> QED
    BY <2>3 DEF Signatures
<1>2. ASSUME UNCHANGED rows PROVE Signatures \subseteq Signatures'
  BY <1>2 DEF Signatures
<1> QED
  BY <1>1, <1>2 DEF Next, ReadHead, AppendFails, HandOver, ChangeRow,
                    RemoveRow, AddRow, Alter, vars

LEMMA NextSignatureInv == TypeOK /\ SignatureInv /\ [Next]_vars => SignatureInv'
<1> SUFFICES ASSUME TypeOK, SignatureInv, [Next]_vars PROVE SignatureInv'
  OBVIOUS
<1>0. Signatures \subseteq Signatures'
  BY SignaturesGrow
<1>1. CASE HandOver
  <2>1. copy' = rows /\ rows' = rows
    BY <1>1 DEF HandOver
  <2> QED
    BY <2>1 DEF SignatureInv, Signatures
<1>2. ASSUME NEW row \in PlausibleRows PROVE row.sig \in Signatures
  BY DEF PlausibleRows, Signatures
<1>3. ASSUME NEW i \in DOMAIN copy, NEW row \in PlausibleRows,
             ChangeRow(i, row)
      PROVE  SignatureInv'
  <2>1. copy' = [copy EXCEPT ![i] = row] /\ row.sig \in Signatures
    BY <1>2, <1>3 DEF ChangeRow, Alter
  <2> QED
    BY <1>0, <2>1 DEF SignatureInv, TypeOK
<1>4. ASSUME NEW i \in DOMAIN copy, RemoveRow(i) PROVE SignatureInv'
  <2>1. copy' = RemoveAt(copy, i)
    BY <1>4 DEF RemoveRow, Alter
  <2>2. \A j \in DOMAIN copy' : \E k \in DOMAIN copy : copy'[j] = copy[k]
    BY <2>1, RemoveAtKeeps DEF TypeOK
  <2> QED
    BY <1>0, <2>2 DEF SignatureInv
<1>5. ASSUME NEW i \in 1 .. Len(copy) + 1, NEW row \in PlausibleRows,
             AddRow(i, row)
      PROVE  SignatureInv'
  <2>1. copy' = InsertAt(copy, i, row) /\ row.sig \in Signatures /\ row \in Row
    BY <1>2, <1>5, PlausibleRowType DEF AddRow, Alter
  <2>2. \A j \in DOMAIN copy' : \/ copy'[j] = row
                                \/ \E k \in DOMAIN copy : copy'[j] = copy[k]
    BY <2>1, InsertAtKeeps DEF TypeOK
  <2> QED
    BY <1>0, <2>1, <2>2 DEF SignatureInv
<1>6. ASSUME UNCHANGED copy PROVE SignatureInv'
  BY <1>0, <1>6 DEF SignatureInv
<1> QED
  BY <1>1, <1>3, <1>4, <1>5, <1>6
     DEF Next, ReadHead, Insert, AppendFails, vars

(* If the copy agrees with the ledger up to a row that passes the verifier,
   it agrees on that row. *)
LEMMA AcceptedRowIsGenuine ==
    ASSUME TypeOK, ChainInv, SignatureInv, NEW i \in DOMAIN copy,
           RowVerdict(copy, i) = "ok",
           \A j \in 1 .. i - 1 : j \in DOMAIN rows /\ copy[j] = rows[j]
    PROVE  i \in DOMAIN rows /\ copy[i] = rows[i]
<1> DEFINE row == copy[i]
<1>1. row \in Row /\ i \in Nat \ {0}
  BY DEF TypeOK
<1>2. /\ row.hash = Hash(row.content, row.prev)
      /\ row.prev = Expected(copy, i)
      /\ row.sig = row.hash
  BY DEF RowVerdict
<1>3. row.content \in AnyContent /\ row.prev \in Hashes /\ row.hash \in Hashes
  BY <1>1 DEF Row
<1>4. PICK k \in DOMAIN rows : rows[k].sig = row.hash
  <2>1. row.sig \in Signatures
    BY DEF SignatureInv
  <2>2. row.sig # Forged
    BY <1>2, <1>3, ChainAssumption DEF Hashes, AnyContent
  <2> QED
    BY <1>2, <2>1, <2>2 DEF Signatures
<1>5. rows[k] \in Row /\ Continues(rows, k)
  BY DEF TypeOK, ChainInv
<1>6. /\ rows[k].content \in AnyContent /\ rows[k].prev \in Hashes
      /\ Hash(rows[k].content, rows[k].prev) = Hash(row.content, row.prev)
  BY <1>2, <1>4, <1>5 DEF Continues, Row
<1>7. rows[k].content = row.content /\ rows[k].prev = row.prev
  BY <1>3, <1>6, HashInjective
<1>8. Len(row.prev) = i - 1
  <2>1. CASE i = 1
    BY <1>2, <2>1 DEF Expected, Genesis
  <2>2. CASE i # 1
    <3>1. i - 1 \in 1 .. i - 1
      BY <1>1, <2>2
    <3>2. row.prev = rows[i - 1].hash /\ i - 1 \in DOMAIN rows
      BY <1>2, <2>2, <3>1 DEF Expected
    <3> QED
      BY <3>2 DEF ChainInv, Continues
  <2> QED
    BY <2>1, <2>2
<1>9. k = i
  <2>1. Len(rows[k].hash) = k /\ Len(rows[k].hash) = Len(row.prev) + 1
    BY <1>3, <1>5, <1>7, HashInjective DEF Continues
  <2> QED
    BY <1>1, <1>8, <2>1
<1> QED
  BY <1>1, <1>2, <1>4, <1>5, <1>7, <1>9 DEF Continues, Row

(* A copy the verifier accepts up to row n agrees with the ledger there: at
   the first row that did not, AcceptedRowIsGenuine would fail. *)
LEMMA AcceptedPrefix ==
    ASSUME TypeOK, ChainInv, SignatureInv, NEW n \in 0..Len(copy),
           \A i \in 1..n : RowVerdict(copy, i) = "ok"
    PROVE  \A i \in 1..n : i \in DOMAIN rows /\ copy[i] = rows[i]
<1> DEFINE Foreign == {i \in 1..n : ~(i \in DOMAIN rows /\ copy[i] = rows[i])}
<1>0. Len(copy) \in Nat /\ DOMAIN copy = 1..Len(copy)
  BY DEF TypeOK
<1>1. SUFFICES ASSUME Foreign # {} PROVE FALSE
  OBVIOUS
<1>2. Foreign \subseteq Nat
  OBVIOUS
<1>3. PICK x \in Foreign : \A y \in Foreign : ~(<<y, x>> \in OpToRel(<, Nat))
  BY <1>1, <1>2, NatLessThanWellFounded, WFMin
<1>4. ASSUME NEW j \in 1 .. x - 1 PROVE j \in DOMAIN rows /\ copy[j] = rows[j]
  <2>1. j \in 1..n /\ j \in Nat /\ x \in Nat /\ j < x
    BY <1>0, <1>2
  <2>2. j \notin Foreign
    BY <1>3, <2>1 DEF OpToRel
  <2> QED
    BY <2>1, <2>2
<1>5. x \in DOMAIN copy /\ RowVerdict(copy, x) = "ok"
  BY <1>0
<1>6. x \in DOMAIN rows /\ copy[x] = rows[x]
  BY <1>4, <1>5, AcceptedRowIsGenuine
<1> QED
  BY <1>6

LEMMA AcceptedCopyIsPrefix ==
    ASSUME TypeOK, ChainInv, SignatureInv
    PROVE  VerifiedIsPrefix
<1> SUFFICES ASSUME Verifies(copy) PROVE IsPrefix(copy, rows)
  BY DEF VerifiedIsPrefix
<1> DEFINE n == Len(copy)
<1>1. /\ n \in Nat /\ DOMAIN copy = 1..n /\ copy \in Seq(Row)
      /\ Len(rows) \in Nat /\ DOMAIN rows = 1..Len(rows) /\ rows \in Seq(Row)
  BY DEF TypeOK
<1>2. \A i \in 1..n : RowVerdict(copy, i) = "ok"
  BY <1>1 DEF Verifies, FailingRows
<1>3. \A i \in 1..n : i \in DOMAIN rows /\ copy[i] = rows[i]
  BY <1>1, <1>2, AcceptedPrefix
<1>4. n <= Len(rows)
  <2>1. CASE n = 0
    BY <1>1, <2>1
  <2>2. CASE n # 0
    BY <1>1, <1>3, <2>2
  <2> QED
    BY <2>1, <2>2
<1>5. SubSeq(copy, 1, n) = SubSeq(rows, 1, n)
  BY <1>1, <1>3, <1>4
<1> QED
  BY <1>4, <1>5 DEF IsPrefix

(* A copy that the verifier accepts holds the rows that were appended, from
   the first one on and in their order. *)
THEOREM TamperEvident ==
    ASSUME Serialized
    PROVE  Spec => []VerifiedIsPrefix
<1>1. TypeOK /\ ChainInv /\ SignatureInv => VerifiedIsPrefix
  BY AcceptedCopyIsPrefix
<1>2. TypeOK /\ ChainInv /\ [Next]_vars => ChainInv'
  BY NextChainInv
<1> QED
  BY <1>1, <1>2, InitTypeOK, NextTypeOK, InitChainInv, InitSignatureInv,
     NextSignatureInv, PTL DEF Spec

(* Among the rows that fail there is a first one. *)
LEMMA FirstFailingExists ==
    ASSUME NEW S, S \subseteq Nat, S # {}
    PROVE  LET first == CHOOSE i \in S : \A j \in S : i <= j
           IN  first \in S /\ \A j \in S : first <= j
<1>1. PICK x \in S : \A y \in S : ~(<<y, x>> \in OpToRel(<, Nat))
  BY NatLessThanWellFounded, WFMin
<1>2. ASSUME NEW y \in S PROVE x <= y
  <2>1. x \in Nat /\ y \in Nat
    OBVIOUS
  <2>2. ~(y < x)
    BY <1>1, <2>1 DEF OpToRel
  <2> QED
    BY <2>1, <2>2
<1> QED
  BY <1>2

(* A row of the ledger in its place behind the rows of the ledger passes. *)
LEMMA GenuineRowIsAccepted ==
    ASSUME TypeOK, ChainInv, NEW i \in DOMAIN copy, i \in DOMAIN rows,
           copy[i] = rows[i],
           \A j \in 1 .. i - 1 : copy[j] = rows[j]
    PROVE  RowVerdict(copy, i) = "ok"
<1>1. Continues(rows, i) /\ i \in Nat \ {0}
  BY DEF ChainInv, TypeOK
<1>2. Expected(copy, i) = Expected(rows, i)
  <2>1. CASE i = 1
    BY <2>1 DEF Expected
  <2>2. CASE i # 1
    <3>1. i - 1 \in 1 .. i - 1
      BY <1>1, <2>2
    <3> QED
      BY <2>2, <3>1 DEF Expected
  <2> QED
    BY <2>1, <2>2
<1> QED
  BY <1>1, <1>2, ChainAssumption DEF Continues, RowVerdict

(* The row the verifier names is the first that was not appended there. *)
THEOREM FirstBrokenNamed ==
    ASSUME Serialized
    PROVE  Spec => []NamesFirstBroken
<1>1. ASSUME TypeOK, ChainInv, SignatureInv PROVE NamesFirstBroken
  <2> DEFINE S == FailingRows(copy)
             first == CHOOSE i \in S : \A j \in S : i <= j
  <2> SUFFICES ASSUME ~Verifies(copy)
               PROVE  /\ \A j \in 1 .. first - 1 :
                             j \in DOMAIN rows /\ copy[j] = rows[j]
                      /\ first \in DOMAIN rows => copy[first] # rows[first]
    BY DEF NamesFirstBroken
  <2>1. DOMAIN copy = 1..Len(copy) /\ Len(copy) \in Nat
    BY DEF TypeOK
  <2>2. S \subseteq Nat /\ S # {} /\ S \subseteq DOMAIN copy
    BY <2>1 DEF FailingRows, Verifies
  <2>3. first \in S /\ \A j \in S : first <= j
    BY <2>2, FirstFailingExists
  <2> HIDE DEF first
  <2>4. first \in 1..Len(copy) /\ first - 1 \in 0..Len(copy)
    BY <2>1, <2>2, <2>3
  <2>5. \A i \in 1 .. first - 1 : RowVerdict(copy, i) = "ok"
    <3> SUFFICES ASSUME NEW i \in 1 .. first - 1
                 PROVE  RowVerdict(copy, i) = "ok"
      OBVIOUS
    <3>1. i \in DOMAIN copy /\ ~(first <= i)
      BY <2>1, <2>4
    <3> QED
      BY <2>3, <3>1 DEF FailingRows
  <2>6. \A j \in 1 .. first - 1 : j \in DOMAIN rows /\ copy[j] = rows[j]
    BY <1>1, <2>4, <2>5, AcceptedPrefix
  <2>7. RowVerdict(copy, first) # "ok"
    BY <2>3 DEF FailingRows
  <2> QED
    BY <1>1, <2>1, <2>4, <2>6, <2>7, GenuineRowIsAccepted
<1>2. TypeOK /\ ChainInv /\ [Next]_vars => ChainInv'
  BY NextChainInv
<1> QED
  BY <1>1, <1>2, InitTypeOK, NextTypeOK, InitChainInv, InitSignatureInv,
     NextSignatureInv, PTL DEF Spec

(***************************************************************************)
(* The inspector agrees with the verifier, whoever appends.                *)
(***************************************************************************)

(* What the cashier signed holds every core key, whether or not the appends
   are serialized: two rows may name one predecessor, but each is signed as
   it stands. *)
SignedInv ==
    \A k \in DOMAIN rows :
        /\ rows[k].content \in Contents
        /\ rows[k].sig = Hash(rows[k].content, rows[k].prev)

LEMMA InitSignedInv == Init => SignedInv
BY DEF Init, SignedInv

LEMMA NextSignedInv == TypeOK /\ SignedInv /\ [Next]_vars => SignedInv'
<1> SUFFICES ASSUME TypeOK, SignedInv, [Next]_vars PROVE SignedInv'
  OBVIOUS
<1>1. ASSUME NEW w \in Writers, NEW content \in Contents, Insert(w, content)
      PROVE  SignedInv'
  <2> DEFINE row == SignedRow(content, head[w])
  <2>1. rows' = Append(rows, row) /\ head[w] \in Hashes
    BY <1>1 DEF Insert, TypeOK
  <2>2. /\ row \in Row /\ row.content \in Contents
        /\ row.sig = Hash(row.content, row.prev)
    BY <2>1, SignedRowType
  <2> HIDE DEF row
  <2>3. /\ DOMAIN rows = 1..Len(rows) /\ Len(rows) \in Nat
        /\ DOMAIN rows' = 1 .. Len(rows) + 1
        /\ rows'[Len(rows) + 1] = row
        /\ \A k \in 1..Len(rows) : rows'[k] = rows[k]
    BY <2>1, <2>2 DEF TypeOK
  <2>4. \A k \in DOMAIN rows' : k = Len(rows) + 1 \/ k \in 1..Len(rows)
    BY <2>3
  <2> QED
    BY <2>2, <2>3, <2>4 DEF SignedInv
<1>2. ASSUME UNCHANGED rows PROVE SignedInv'
  BY <1>2 DEF SignedInv
<1> QED
  BY <1>1, <1>2 DEF Next, ReadHead, AppendFails, HandOver, ChangeRow,
                    RemoveRow, AddRow, Alter, vars

(* With the key the inspector finds every row that the verifier finds: it
   does not look for the core keys, but a row that lacks one has no
   signature of the cashier that fits. *)
LEMMA SameRowsFail ==
    ASSUME TypeOK, SignatureInv, SignedInv, NEW i \in DOMAIN copy,
           copy[i].content # Unreadable
    PROVE  RowVerdict(copy, i) = "ok" <=> InspectorRowVerdict(copy, i, TRUE) = "ok"
<1> DEFINE row == copy[i]
<1>1. row \in Row
  BY DEF TypeOK
<1>2. row.content \in AnyContent /\ row.prev \in Hashes /\ row.hash \in Hashes
  BY <1>1 DEF Row
<1>3. ASSUME InspectorRowVerdict(copy, i, TRUE) = "ok"
      PROVE  row.content \notin {Cut, Unreadable, Bare}
  <2>1. row.hash = Hash(row.content, row.prev) /\ row.sig = row.hash
    BY <1>3 DEF InspectorRowVerdict
  <2>2. row.sig \in Signatures
    BY DEF SignatureInv
  <2>3. row.sig # Forged
    BY <1>2, <2>1, ChainAssumption DEF Hashes, AnyContent
  <2>4. PICK k \in DOMAIN rows : rows[k].sig = row.sig
    BY <2>2, <2>3 DEF Signatures
  <2>5. rows[k] \in Row
    BY DEF TypeOK
  <2>6. rows[k].content \in AnyContent /\ rows[k].prev \in Hashes
    BY <2>5 DEF Row
  <2>7. /\ rows[k].content \in Contents
        /\ Hash(rows[k].content, rows[k].prev) = Hash(row.content, row.prev)
    BY <2>1, <2>4 DEF SignedInv
  <2>8. row.content \in Contents
    BY <1>2, <2>6, <2>7, HashInjective
  <2> QED
    BY <2>8, ChainAssumption
<1> QED
  BY <1>3 DEF RowVerdict, InspectorRowVerdict

(* Operator and auditor are told the same of a copy: it verifies for both,
   or the walk of both ends at the same row; and the activity screen calls
   valid what the verifier accepts, or a file with a row that is no JSON. *)
THEOREM InspectorIsVerifier == Spec => []InspectorAgrees
<1>1. ASSUME TypeOK, SignatureInv, SignedInv PROVE InspectorAgrees
  <2>1. ASSUME ~ReadRowsRaises(copy)
        PROVE  FailingRows(copy) = InspectorFailing(copy, TRUE)
    BY <1>1, <2>1, SameRowsFail
       DEF ReadRowsRaises, FailingRows, InspectorFailing
  <2>2. ASSUME Verifies(copy)
        PROVE  ~ReadRowsRaises(copy) /\ ~BuildReportRaises(copy)
    <3>1. \A i \in DOMAIN copy :
              copy[i].content # Unreadable /\ copy[i].content # Bare
      BY <2>2 DEF Verifies, FailingRows, RowVerdict
    <3> QED
      BY <3>1 DEF ReadRowsRaises, BuildReportRaises
  <2>3. Verifies(copy) =>
            ~ReadRowsRaises(copy) /\ ConsoleActivity(copy) = "valid"
    BY <2>1, <2>2 DEF ConsoleActivity, Verifies
  <2>4. ConsoleActivity(copy) = "valid" =>
            Verifies(copy) \/ ReadRowsRaises(copy)
    BY <2>1 DEF ConsoleActivity, Verifies
  <2> QED
    BY <2>1, <2>3, <2>4 DEF InspectorAgrees
<1> QED
  BY <1>1, InitTypeOK, NextTypeOK, InitSignatureInv, NextSignatureInv,
     InitSignedInv, NextSignedInv, PTL DEF Spec

(***************************************************************************)
(* What an accepted copy is worth when several gateways append.            *)
(***************************************************************************)

(* Two gateways that read the same head let the chain fork, and the ledger
   itself no longer verifies.  A copy the verifier accepts is then one branch
   of it: every row was appended, and none before the row it follows. *)
AcceptedIsBranch ==
    Verifies(copy) =>
        /\ \A j \in DOMAIN copy : \E m \in DOMAIN rows : rows[m] = copy[j]
        /\ \A j \in DOMAIN copy, m \in DOMAIN rows :
               j > 1 /\ rows[m] = copy[j] =>
                   \E k \in 1 .. m - 1 : rows[k] = copy[j - 1]

(* What a row may name as its predecessor: the hash of a row before n. *)
NamesRowBefore(prev, n) ==
    prev = Genesis \/ \E k \in 1 .. n - 1 : rows[k].hash = prev

(* Every row is as the cashier made it and names an earlier one, and so does
   the row that an append in progress is about to insert. *)
LineageInv ==
    /\ \A m \in DOMAIN rows :
           /\ rows[m].hash = Hash(rows[m].content, rows[m].prev)
           /\ rows[m].sig = rows[m].hash
           /\ NamesRowBefore(rows[m].prev, m)
    /\ \A w \in Writers :
           head[w] # None => NamesRowBefore(head[w], Len(rows) + 1)

LEMMA InitLineageInv == Init => LineageInv
BY DEF Init, LineageInv

LEMMA NextLineageInv == TypeOK /\ LineageInv /\ [Next]_vars => LineageInv'
<1> SUFFICES ASSUME TypeOK, LineageInv, [Next]_vars PROVE LineageInv'
  OBVIOUS
<1> DEFINE n == Len(rows)
<1>0. n \in Nat /\ DOMAIN rows = 1..n
  BY DEF TypeOK
<1>1. ASSUME NEW w \in Writers, ReadHead(w) PROVE LineageInv'
  <2>1. rows' = rows /\ head' = [head EXCEPT ![w] = HeadHash]
    BY <1>1 DEF ReadHead
  <2>2. NamesRowBefore(HeadHash, n + 1)
    <3>1. rows # << >> => n \in 1 .. (n + 1) - 1
      BY <1>0 DEF TypeOK
    <3> QED
      BY <3>1 DEF NamesRowBefore, HeadHash
  <2>3. \A v \in Writers : head'[v] = head[v] \/ head'[v] = HeadHash
    BY <2>1 DEF TypeOK
  <2> QED
    BY <2>1, <2>2, <2>3 DEF LineageInv, NamesRowBefore
<1>2. ASSUME NEW w \in Writers, NEW content \in Contents, Insert(w, content)
      PROVE  LineageInv'
  <2> DEFINE row == SignedRow(content, head[w])
  <2>1. /\ rows' = Append(rows, row) /\ head[w] # None
        /\ head' = [head EXCEPT ![w] = None] /\ head[w] \in Hashes
    BY <1>2 DEF Insert, TypeOK
  <2>2. /\ row \in Row /\ row.prev = head[w] /\ row.sig = row.hash
        /\ row.hash = Hash(row.content, row.prev)
    BY <2>1, SignedRowType DEF SignedRow
  <2> HIDE DEF row
  <2>3. /\ DOMAIN rows' = 1 .. n + 1 /\ Len(rows') = n + 1
        /\ rows'[n + 1] = row
        /\ \A k \in 1..n : rows'[k] = rows[k]
    BY <1>0, <2>1, <2>2 DEF TypeOK
  <2>4. ASSUME NEW prev, NEW m \in 1 .. n + 1, NamesRowBefore(prev, m)
        PROVE  \A i \in {m, n + 2} :
                   prev = Genesis \/ \E k \in 1 .. i - 1 : rows'[k].hash = prev
    <3>1. \A k \in 1 .. m - 1 :
              k \in 1..n /\ k \in 1 .. (n + 2) - 1 /\ rows'[k] = rows[k]
      BY <1>0, <2>3
    <3> QED
      BY <2>4, <3>1 DEF NamesRowBefore
  <2>5. ASSUME NEW m \in DOMAIN rows'
        PROVE  /\ rows'[m].hash = Hash(rows'[m].content, rows'[m].prev)
               /\ rows'[m].sig = rows'[m].hash
               /\ \/ rows'[m].prev = Genesis
                  \/ \E k \in 1 .. m - 1 : rows'[k].hash = rows'[m].prev
    <3>1. CASE m \in 1..n
      BY <1>0, <2>3, <2>4, <3>1 DEF LineageInv
    <3>2. CASE m = n + 1
      <4>1. NamesRowBefore(row.prev, n + 1)
        BY <2>1, <2>2 DEF LineageInv
      <4>2. n + 1 \in 1 .. n + 1
        BY <1>0
      <4> QED
        BY <2>2, <2>3, <2>4, <3>2, <4>1, <4>2
    <3> QED
      BY <1>0, <2>3, <3>1, <3>2
  <2>6. ASSUME NEW v \in Writers, head'[v] # None
        PROVE  \/ head'[v] = Genesis
               \/ \E k \in 1 .. (n + 2) - 1 : rows'[k].hash = head'[v]
    <3>1. head'[v] = head[v] /\ n + 1 \in 1 .. n + 1
      BY <1>0, <2>1, <2>6 DEF TypeOK
    <3>2. NamesRowBefore(head'[v], n + 1)
      BY <2>6, <3>1 DEF LineageInv
    <3> QED
      BY <2>4, <3>1, <3>2
  <2>7. Len(rows') + 1 = n + 2
    BY <1>0, <2>3
  <2> QED
    BY <2>5, <2>6, <2>7 DEF LineageInv, NamesRowBefore
<1>3. ASSUME NEW w \in Writers, AppendFails(w) PROVE LineageInv'
  <2>1. /\ rows' = rows
        /\ \A v \in Writers : head'[v] # None => head'[v] = head[v]
    BY <1>3 DEF AppendFails, TypeOK
  <2> QED
    BY <2>1 DEF LineageInv, NamesRowBefore
<1>4. ASSUME UNCHANGED <<rows, head>> PROVE LineageInv'
  BY <1>4 DEF LineageInv, NamesRowBefore
<1> QED
  BY <1>1, <1>2, <1>3, <1>4
     DEF Next, HandOver, ChangeRow, RemoveRow, AddRow, Alter, vars

(* A hash has one row: whatever bears the hash of an appended row, and stands
   for what it says, has its content and its predecessor. *)
LEMMA HashHasOneRow ==
    ASSUME TypeOK, LineageInv, NEW k \in DOMAIN rows, NEW row \in Row,
           row.hash = Hash(row.content, row.prev), row.sig = row.hash,
           rows[k].hash = row.hash
    PROVE  rows[k] = row
<1>1. rows[k] \in Row
  BY DEF TypeOK
<1>2. /\ rows[k].content \in AnyContent /\ rows[k].prev \in Hashes
      /\ row.content \in AnyContent /\ row.prev \in Hashes
  BY <1>1 DEF Row
<1>3. Hash(rows[k].content, rows[k].prev) = Hash(row.content, row.prev)
  BY DEF LineageInv
<1>4. rows[k].content = row.content /\ rows[k].prev = row.prev
  BY <1>2, <1>3, HashInjective
<1>5. rows[k].sig = row.sig
  BY DEF LineageInv
<1> QED
  BY <1>1, <1>4, <1>5 DEF Row

(* Any number of gateways may append side by side: nothing that the verifier
   accepts was forged, left out of the middle or put in another order. *)
THEOREM AcceptedWasAppended == Spec => []AcceptedIsBranch
<1>1. ASSUME TypeOK, SignatureInv, LineageInv PROVE AcceptedIsBranch
  <2> SUFFICES ASSUME Verifies(copy)
               PROVE  /\ \A j \in DOMAIN copy :
                             \E m \in DOMAIN rows : rows[m] = copy[j]
                      /\ \A j \in DOMAIN copy, m \in DOMAIN rows :
                             j > 1 /\ rows[m] = copy[j] =>
                                 \E k \in 1 .. m - 1 : rows[k] = copy[j - 1]
    BY DEF AcceptedIsBranch
  <2>1. ASSUME NEW j \in DOMAIN copy
        PROVE  /\ copy[j] \in Row
               /\ copy[j].hash = Hash(copy[j].content, copy[j].prev)
               /\ copy[j].prev = Expected(copy, j)
               /\ copy[j].sig = copy[j].hash
    <3>1. RowVerdict(copy, j) = "ok"
      BY DEF Verifies, FailingRows
    <3> QED
      BY <1>1, <3>1 DEF RowVerdict, TypeOK
  <2>2. ASSUME NEW j \in DOMAIN copy
        PROVE  \E m \in DOMAIN rows : rows[m] = copy[j]
    <3>1. copy[j].sig # Forged
      BY <2>1, ChainAssumption DEF Row, Hashes, AnyContent
    <3>2. PICK m \in DOMAIN rows : rows[m].sig = copy[j].sig
      BY <1>1, <3>1 DEF SignatureInv, Signatures
    <3>3. rows[m].hash = copy[j].hash
      BY <1>1, <2>1, <3>2 DEF LineageInv
    <3> QED
      BY <1>1, <2>1, <3>3, HashHasOneRow
  <2>3. ASSUME NEW j \in DOMAIN copy, NEW m \in DOMAIN rows,
               j > 1, rows[m] = copy[j]
        PROVE  \E k \in 1 .. m - 1 : rows[k] = copy[j - 1]
    <3>1. j - 1 \in DOMAIN copy /\ j # 1
      BY <1>1, <2>3 DEF TypeOK
    <3>2. rows[m].prev = copy[j - 1].hash
      BY <2>1, <2>3, <3>1 DEF Expected
    <3>3. rows[m].prev # Genesis
      <4>1. /\ copy[j - 1].content \in AnyContent /\ copy[j - 1].prev \in Hashes
            /\ copy[j - 1].hash = Hash(copy[j - 1].content, copy[j - 1].prev)
        BY <2>1, <3>1 DEF Row
      <4> QED
        BY <3>2, <4>1, HashInjective DEF Genesis
    <3>4. PICK k \in 1 .. m - 1 : rows[k].hash = rows[m].prev
      BY <1>1, <3>3 DEF LineageInv, NamesRowBefore
    <3>5. k \in DOMAIN rows
      BY <1>1 DEF TypeOK
    <3>6. rows[k] = copy[j - 1]
      BY <1>1, <2>1, <3>1, <3>2, <3>4, <3>5, HashHasOneRow
    <3> QED
      BY <3>6
  <2> QED
    BY <2>2, <2>3
<1> QED
  BY <1>1, InitTypeOK, NextTypeOK, InitSignatureInv, NextSignatureInv,
     InitLineageInv, NextLineageInv, PTL DEF Spec


=============================================================================
