-------------------------- MODULE VaultSyncProofs ---------------------------
(***************************************************************************)
(* The properties of VaultSync, for any devices, entries, fields, values,  *)
(* widths and number of operations, over a log that delivers in any order. *)
(***************************************************************************)
EXTENDS VaultSync, CrdtProofs, FiniteSetTheorems

-----------------------------------------------------------------------------
(* Registers and their order.                                              *)

LEMMA TsOrder ==
  ASSUME NEW s \in Timestamp, NEW t \in Timestamp, NEW u \in Timestamp
  PROVE  /\ ~TsLess(s, s)
         /\ TsLess(s, t) /\ TsLess(t, u) => TsLess(s, u)
         /\ TsLess(s, t) \/ s = t \/ TsLess(t, s)
         /\ ~(TsLess(s, t) /\ TsLess(t, s))
<1>1. /\ s.hlc \in Hlc /\ t.hlc \in Hlc /\ u.hlc \in Hlc
      /\ s.device \in Int /\ t.device \in Int /\ u.device \in Int
      /\ s = [hlc |-> s.hlc, device |-> s.device]
      /\ t = [hlc |-> t.hlc, device |-> t.device]
  BY DeviceOrdered DEF Timestamp
<1>2. /\ ~HlcLess(s.hlc, s.hlc) /\ ~HlcLess(t.hlc, t.hlc)
      /\ HlcLess(s.hlc, t.hlc) /\ HlcLess(t.hlc, u.hlc) => HlcLess(s.hlc, u.hlc)
      /\ HlcLess(s.hlc, t.hlc) \/ s.hlc = t.hlc \/ HlcLess(t.hlc, s.hlc)
      /\ ~(HlcLess(s.hlc, t.hlc) /\ HlcLess(t.hlc, s.hlc))
  BY <1>1, HlcOrder
<1>3. /\ s.device < t.device \/ s.device = t.device \/ t.device < s.device
      /\ s.device < t.device /\ t.device < u.device => s.device < u.device
      /\ ~(s.device < s.device) /\ ~(s.device < t.device /\ t.device < s.device)
  BY <1>1
<1> HIDE DEF HlcLess
<1> QED
  BY <1>1, <1>2, <1>3 DEF TsLess

\* set and merge maximise a strict total order of the registers.
LEMMA BeatsOrder ==
  ASSUME NEW p \in Register, NEW q \in Register, NEW r \in Register
  PROVE  /\ ~Beats(p, p)
         /\ ~Beats(p, q) /\ ~Beats(q, r) => ~Beats(p, r)
         /\ ~Beats(p, q) /\ ~Beats(q, p) => p = q
         /\ ~(Beats(p, q) /\ Beats(q, p))
<1>1. /\ p.ts \in Timestamp /\ q.ts \in Timestamp /\ r.ts \in Timestamp
      /\ p.value \in Int /\ q.value \in Int /\ r.value \in Int
      /\ p = [value |-> p.value, ts |-> p.ts] /\ q = [value |-> q.value, ts |-> q.ts]
  BY ValueOrdered DEF Register
<1>2. /\ ~TsLess(p.ts, p.ts) /\ ~TsLess(q.ts, q.ts) /\ ~TsLess(r.ts, r.ts)
      /\ TsLess(p.ts, q.ts) \/ p.ts = q.ts \/ TsLess(q.ts, p.ts)
      /\ TsLess(q.ts, r.ts) \/ q.ts = r.ts \/ TsLess(r.ts, q.ts)
      /\ TsLess(p.ts, q.ts) /\ TsLess(q.ts, r.ts) => TsLess(p.ts, r.ts)
      /\ ~(TsLess(p.ts, q.ts) /\ TsLess(q.ts, p.ts))
      /\ ~(TsLess(p.ts, r.ts) /\ TsLess(r.ts, p.ts))
  BY <1>1, TsOrder
<1>3. /\ ~(p.value > p.value)
      /\ ~(p.value > q.value) /\ ~(q.value > r.value) => ~(p.value > r.value)
      /\ ~(p.value > q.value) /\ ~(q.value > p.value) => p.value = q.value
      /\ ~(p.value > q.value /\ q.value > p.value)
  BY <1>1
<1> QED
  BY <1>1, <1>2, <1>3 DEF Beats

\* x is the largest of the registers of a set, or absent.
IsLargest(x, regs) ==
  IF regs = {} THEN x = Unwritten
  ELSE x \in regs /\ \A r \in regs : ~Beats(r, x)

LEMMA LargestUnique ==
  ASSUME NEW regs \in SUBSET Register, NEW x, NEW y, IsLargest(x, regs), IsLargest(y, regs)
  PROVE  x = y
  BY BeatsOrder DEF IsLargest

LEMMA MergeRegisterFacts ==
  ASSUME NEW a \in Register, NEW b \in Register
  PROVE  /\ MergeRegister(a, b) \in {a, b}
         /\ ~Beats(a, MergeRegister(a, b)) /\ ~Beats(b, MergeRegister(a, b))
  BY BeatsOrder DEF MergeRegister

(***************************************************************************)
(* LwwRegister::merge is idempotent, commutative and associative, for any  *)
(* two writes, those that share a timestamp included (lww.rs:55).          *)
(***************************************************************************)
THEOREM MergeRegisterIsJoin ==
  ASSUME NEW a \in Register, NEW b \in Register, NEW c \in Register
  PROVE  /\ MergeRegister(a, a) = a
         /\ MergeRegister(a, b) = MergeRegister(b, a)
         /\ MergeRegister(MergeRegister(a, b), c) = MergeRegister(a, MergeRegister(b, c))
<1>1. MergeRegister(a, a) = a
  BY DEF MergeRegister
<1>2. MergeRegister(a, b) = MergeRegister(b, a)
  BY BeatsOrder DEF MergeRegister
<1>3. MergeRegister(MergeRegister(a, b), c) = MergeRegister(a, MergeRegister(b, c))
  <2> DEFINE l == MergeRegister(MergeRegister(a, b), c)
             r == MergeRegister(a, MergeRegister(b, c))
  <2>1. l \in {a, b, c} /\ r \in {a, b, c}
    BY DEF MergeRegister
  <2>2. \A x \in {a, b, c} : ~Beats(x, l) /\ ~Beats(x, r)
    <3>1. MergeRegister(a, b) \in Register /\ MergeRegister(b, c) \in Register
      BY DEF MergeRegister
    <3>2. /\ ~Beats(a, MergeRegister(a, b)) /\ ~Beats(b, MergeRegister(a, b))
          /\ ~Beats(b, MergeRegister(b, c)) /\ ~Beats(c, MergeRegister(b, c))
      BY MergeRegisterFacts
    <3>3. /\ ~Beats(MergeRegister(a, b), l) /\ ~Beats(c, l)
          /\ ~Beats(a, r) /\ ~Beats(MergeRegister(b, c), r)
      BY <3>1, MergeRegisterFacts
    <3>4. l \in Register /\ r \in Register
      BY <2>1
    <3> HIDE DEF l, r
    <3> QED
      BY <3>1, <3>2, <3>3, <3>4, BeatsOrder
  <2> HIDE DEF l, r
  <2>3. l = r
    BY <2>1, <2>2, BeatsOrder
  <2> QED
    BY <2>3 DEF l, r
<1> QED
  BY <1>1, <1>2, <1>3

\* A cell, written or not.
Slot == Register \cup {Unwritten}

LEMMA MergeCellFacts ==
  ASSUME NEW a \in Slot, NEW b \in Slot
  PROVE  /\ MergeCell(a, b) \in Slot
         /\ a = Unwritten => MergeCell(a, b) = b
         /\ b = Unwritten => MergeCell(a, b) = a
         /\ a # Unwritten /\ b # Unwritten => MergeCell(a, b) = MergeRegister(a, b)
<1>1. a # Unwritten /\ b # Unwritten => MergeCell(a, b) = MergeRegister(a, b)
  BY DEF MergeCell
<1>2. (a = Unwritten => MergeCell(a, b) = b) /\ (b = Unwritten => MergeCell(a, b) = a)
  BY DEF MergeCell
<1> QED
  BY <1>1, <1>2, MergeRegisterFacts DEF Slot

\* The merge of largest registers is the largest of both sets.
LEMMA MergeIsLargest ==
  ASSUME NEW A \in SUBSET Register, NEW B \in SUBSET Register, NEW a, NEW b,
         IsLargest(a, A), IsLargest(b, B)
  PROVE  /\ a \in Slot /\ b \in Slot
         /\ IsLargest(MergeCell(a, b), A \cup B)
<1>1. a \in Slot /\ b \in Slot
  BY DEF IsLargest, Slot
<1>2. CASE A = {} \/ B = {}
  BY <1>1, <1>2, MergeCellFacts DEF IsLargest
<1>3. CASE A # {} /\ B # {}
  <2>1. a \in A /\ b \in B /\ a \in Register /\ b \in Register
        /\ (\A r \in A : ~Beats(r, a)) /\ (\A r \in B : ~Beats(r, b))
    BY <1>3 DEF IsLargest
  <2>2. a # Unwritten /\ b # Unwritten
    BY <2>1, UnwrittenAssumption
  <2> DEFINE m == MergeRegister(a, b)
  <2>3. MergeCell(a, b) = m /\ m \in {a, b} /\ ~Beats(a, m) /\ ~Beats(b, m)
    BY <1>1, <2>1, <2>2, MergeCellFacts, MergeRegisterFacts
  <2> HIDE DEF m
  <2>4. \A r \in A \cup B : ~Beats(r, m)
    BY <2>1, <2>3, BeatsOrder
  <2> QED
    BY <1>1, <1>3, <2>1, <2>3, <2>4 DEF IsLargest
<1> QED
  BY <1>1, <1>2, <1>3

\* set_field stores the larger of the register and the write attempted.
LEMMA WrittenFacts ==
  ASSUME NEW x \in Slot, NEW document, NEW c, document.fields[c] = x,
         NEW value \in Value, NEW ts \in Timestamp
  PROVE  /\ NewRegister(value, ts) \in Register
         /\ Written(document, c, value, ts) \in Register
         /\ ~Beats(NewRegister(value, ts), Written(document, c, value, ts))
         /\ MergeCell(x, Written(document, c, value, ts)) = Written(document, c, value, ts)
<1> DEFINE new == NewRegister(value, ts)
           w   == Written(document, c, value, ts)
<1>1. new \in Register
  BY DEF NewRegister, Register
<1>2. CASE x = Unwritten
  <2>1. w = new
    BY <1>2 DEF Written
  <2> QED
    BY <1>1, <1>2, <2>1, BeatsOrder, MergeCellFacts DEF Slot
<1>3. CASE x \in Register
  <2>1. x # Unwritten
    BY <1>3, UnwrittenAssumption
  <2>2. w = IF Beats(new, x) THEN new ELSE x
    BY <2>1 DEF Written, SetRegister
  <2> HIDE DEF new, w
  <2>3. w \in Register /\ ~Beats(new, w)
    BY <1>1, <1>3, <2>2, BeatsOrder
  <2>4. w # Unwritten /\ MergeCell(x, w) = MergeRegister(x, w)
    BY <2>1, <2>3, MergeCellFacts, UnwrittenAssumption DEF Slot
  <2>5. MergeRegister(x, w) = w
    BY <1>3, <2>2, <2>3, BeatsOrder DEF MergeRegister
  <2> QED
    BY <1>1, <2>3, <2>4, <2>5 DEF new, w
<1> QED
  BY <1>2, <1>3 DEF Slot
-----------------------------------------------------------------------------
(* Documents.                                                              *)

DocOK(x) == x \in Doc /\ WellFormed(x.entries)

\* The presence half of operations, as the lemmas on joins read it.
Presence(ops) == {[delta |-> op.delta.entries] : op \in ops}

\* x is the join of the deltas of the operations ops.
DocJoin(x, ops) ==
  /\ IsJoin(x.entries, Presence(ops))
  /\ \A c \in Cell : IsLargest(x.fields[c], Carried(ops, c))

LEMMA DocShape ==
  ASSUME NEW x \in Doc
  PROVE  /\ x.entries \in AWSet
         /\ x.fields \in [Cell -> Slot]
         /\ x = [entries |-> x.entries, fields |-> x.fields]
  BY DEF Doc, Fields, Slot

LEMMA CarriedFacts ==
  ASSUME NEW ops1, NEW ops2, NEW c \in Cell,
         \A op \in ops1 \cup ops2 : op.delta \in Doc
  PROVE  /\ Carried(ops1, c) \in SUBSET Register
         /\ Carried(ops1 \cup ops2, c) = Carried(ops1, c) \cup Carried(ops2, c)
<1>1. \A op \in ops1 : op.delta.fields[c] \in Slot
  BY DocShape
<1> QED
  BY <1>1 DEF Carried, Slot

LEMMA MergeDocShape ==
  ASSUME NEW a, NEW b, DocOK(a), DocOK(b)
  PROVE  /\ DocOK(MergeDoc(a, b))
         /\ MergeDoc(a, b).entries = MergeSet(a.entries, b.entries)
         /\ \A c \in Cell : MergeDoc(a, b).fields[c] = MergeCell(a.fields[c], b.fields[c])
<1> DEFINE m  == MergeDoc(a, b)
           fs == [c \in Cell |-> MergeCell(a.fields[c], b.fields[c])]
<1>1. a.fields \in [Cell -> Slot] /\ b.fields \in [Cell -> Slot]
  BY DocShape DEF DocOK
<1>2. \A c \in Cell : MergeCell(a.fields[c], b.fields[c]) \in Slot
  BY <1>1, MergeCellFacts
<1>3. fs \in Fields
  BY <1>2 DEF Fields, Slot
<1>4. m = [entries |-> MergeSet(a.entries, b.entries), fields |-> fs]
  BY DEF MergeDoc
<1>5. WellFormed(MergeSet(a.entries, b.entries)) /\ MergeSet(a.entries, b.entries) \in AWSet
  BY MergeSetFacts DEF DocOK, WellFormed
<1>6. \A c \in Cell : fs[c] = MergeCell(a.fields[c], b.fields[c])
  OBVIOUS
<1> HIDE DEF m, fs
<1>7. m \in Doc /\ m.entries = MergeSet(a.entries, b.entries) /\ m.fields = fs
  BY <1>3, <1>4, <1>5 DEF Doc
<1> QED
  BY <1>5, <1>6, <1>7 DEF m, DocOK

\* merge of a cell, written or not on either side, is a join too.
LEMMA MergeCellIsJoin ==
  ASSUME NEW a \in Slot, NEW b \in Slot, NEW c \in Slot
  PROVE  /\ MergeCell(a, a) = a
         /\ MergeCell(a, b) = MergeCell(b, a)
         /\ MergeCell(MergeCell(a, b), c) = MergeCell(a, MergeCell(b, c))
<1>1. MergeCell(a, a) = a /\ MergeCell(a, b) = MergeCell(b, a)
  BY MergeCellFacts, MergeRegisterIsJoin DEF Slot
<1>2. CASE a = Unwritten \/ b = Unwritten \/ c = Unwritten
  BY <1>1, <1>2, MergeCellFacts
<1>3. CASE a # Unwritten /\ b # Unwritten /\ c # Unwritten
  <2>1. a \in Register /\ b \in Register /\ c \in Register
    BY <1>3 DEF Slot
  <2>2. MergeRegister(a, b) \in Register /\ MergeRegister(b, c) \in Register
    BY <2>1, MergeRegisterFacts
  <2>3. MergeRegister(a, b) # Unwritten /\ MergeRegister(b, c) # Unwritten
    BY <2>2, UnwrittenAssumption
  <2>4. MergeCell(MergeCell(a, b), c) = MergeRegister(MergeRegister(a, b), c)
    BY <1>3, <2>2, <2>3, MergeCellFacts DEF Slot
  <2>5. MergeCell(a, MergeCell(b, c)) = MergeRegister(a, MergeRegister(b, c))
    BY <1>3, <2>2, <2>3, MergeCellFacts DEF Slot
  <2> QED
    BY <1>1, <2>1, <2>4, <2>5, MergeRegisterIsJoin
<1> QED
  BY <1>2, <1>3

(***************************************************************************)
(* The merge of whole documents and partial ones is idempotent,            *)
(* commutative and associative (model/mod.rs:215).                          *)
(***************************************************************************)
THEOREM MergeDocIsJoin ==
  ASSUME NEW a, NEW b, NEW c, DocOK(a), DocOK(b), DocOK(c)
  PROVE  /\ MergeDoc(a, a) = a
         /\ MergeDoc(a, b) = MergeDoc(b, a)
         /\ MergeDoc(MergeDoc(a, b), c) = MergeDoc(a, MergeDoc(b, c))
<1>1. ASSUME NEW x, NEW y, DocOK(x), DocOK(y), x.entries = y.entries,
             \A k \in Cell : x.fields[k] = y.fields[k]
      PROVE  x = y
  <2>1. x.fields = y.fields
    BY <1>1, DocShape DEF DocOK
  <2> QED
    BY <1>1, <2>1, DocShape DEF DocOK
<1>2. /\ WellFormed(a.entries) /\ WellFormed(b.entries) /\ WellFormed(c.entries)
      /\ \A k \in Cell : a.fields[k] \in Slot /\ b.fields[k] \in Slot /\ c.fields[k] \in Slot
  BY DocShape DEF DocOK
<1> DEFINE ab == MergeDoc(a, b)
           bc == MergeDoc(b, c)
<1>3. /\ DocOK(ab) /\ DocOK(bc)
      /\ ab.entries = MergeSet(a.entries, b.entries) /\ bc.entries = MergeSet(b.entries, c.entries)
      /\ \A k \in Cell : /\ ab.fields[k] = MergeCell(a.fields[k], b.fields[k])
                         /\ bc.fields[k] = MergeCell(b.fields[k], c.fields[k])
  BY MergeDocShape
<1>4. MergeDoc(a, a) = a
  <2>1. MergeDoc(a, a).entries = a.entries /\ DocOK(MergeDoc(a, a))
    BY <1>2, MergeDocShape, MergeSetIsJoin
  <2>2. \A k \in Cell : MergeDoc(a, a).fields[k] = a.fields[k]
    BY <1>2, MergeDocShape, MergeCellIsJoin
  <2> QED
    BY <1>1, <2>1, <2>2
<1>5. ab = MergeDoc(b, a)
  <2>1. ab.entries = MergeDoc(b, a).entries /\ DocOK(MergeDoc(b, a))
    BY <1>2, <1>3, MergeDocShape, MergeSetIsJoin
  <2>2. \A k \in Cell : ab.fields[k] = MergeDoc(b, a).fields[k]
    BY <1>2, <1>3, MergeDocShape, MergeCellIsJoin
  <2> QED
    BY <1>1, <1>3, <2>1, <2>2
<1> HIDE DEF ab, bc
<1>6. MergeDoc(ab, c) = MergeDoc(a, bc)
  <2>1. /\ DocOK(MergeDoc(ab, c)) /\ DocOK(MergeDoc(a, bc))
        /\ MergeDoc(ab, c).entries = MergeSet(ab.entries, c.entries)
        /\ MergeDoc(a, bc).entries = MergeSet(a.entries, bc.entries)
        /\ \A k \in Cell : /\ MergeDoc(ab, c).fields[k] = MergeCell(ab.fields[k], c.fields[k])
                           /\ MergeDoc(a, bc).fields[k] = MergeCell(a.fields[k], bc.fields[k])
    BY <1>3, MergeDocShape
  <2>2. MergeDoc(ab, c).entries = MergeDoc(a, bc).entries
    BY <1>2, <1>3, <2>1, MergeSetIsJoin
  <2>3. \A k \in Cell : MergeDoc(ab, c).fields[k] = MergeDoc(a, bc).fields[k]
    BY <1>2, <1>3, <2>1, MergeCellIsJoin
  <2> QED
    BY <1>1, <2>1, <2>2, <2>3
<1> QED
  BY <1>4, <1>5, <1>6 DEF ab, bc

LEMMA MergeDocJoin ==
  ASSUME NEW a, NEW b, DocOK(a), DocOK(b),
         NEW ops1, NEW ops2, DocJoin(a, ops1), DocJoin(b, ops2),
         \A op \in ops1 \cup ops2 : op.delta \in Doc
  PROVE  DocJoin(MergeDoc(a, b), ops1 \cup ops2)
<1>1. WellFormed(a.entries) /\ WellFormed(b.entries)
      /\ IsJoin(a.entries, Presence(ops1)) /\ IsJoin(b.entries, Presence(ops2))
  BY DEF DocOK, DocJoin
<1>2. Presence(ops1 \cup ops2) = Presence(ops1) \cup Presence(ops2)
  BY DEF Presence
<1>3. IsJoin(MergeDoc(a, b).entries, Presence(ops1 \cup ops2))
  <2>1. IsJoin(MergeSet(a.entries, b.entries), Presence(ops1) \cup Presence(ops2))
    BY <1>1, JoinOfJoins
  <2>2. MergeDoc(a, b).entries = MergeSet(a.entries, b.entries)
    BY MergeDocShape
  <2> QED
    BY <1>2, <2>1, <2>2
<1>4. ASSUME NEW c \in Cell
      PROVE  IsLargest(MergeDoc(a, b).fields[c], Carried(ops1 \cup ops2, c))
  <2>1. /\ Carried(ops1, c) \in SUBSET Register /\ Carried(ops2, c) \in SUBSET Register
        /\ Carried(ops1 \cup ops2, c) = Carried(ops1, c) \cup Carried(ops2, c)
    <3>1. \A op \in ops2 \cup ops1 : op.delta \in Doc
      OBVIOUS
    <3> QED
      BY <3>1, CarriedFacts
  <2>2. IsLargest(a.fields[c], Carried(ops1, c)) /\ IsLargest(b.fields[c], Carried(ops2, c))
    BY DEF DocJoin
  <2>3. IsLargest(MergeCell(a.fields[c], b.fields[c]), Carried(ops1, c) \cup Carried(ops2, c))
    BY <2>1, <2>2, MergeIsLargest
  <2>4. MergeDoc(a, b).fields[c] = MergeCell(a.fields[c], b.fields[c])
    BY MergeDocShape
  <2> QED
    BY <2>1, <2>3, <2>4
<1> QED
  BY <1>3, <1>4 DEF DocJoin

LEMMA DocJoinOfOne ==
  ASSUME NEW op, DocOK(op.delta)
  PROVE  DocJoin(op.delta, {op})
<1>1. IsJoin(op.delta.entries, Presence({op}))
  <2> DEFINE p == [delta |-> op.delta.entries]
  <2>1. Presence({op}) = {p} /\ p.delta = op.delta.entries
    BY DEF Presence
  <2>2. WellFormed(p.delta)
    BY <2>1 DEF DocOK
  <2>3. IsJoin(p.delta, {p})
    BY <2>2, JoinOfOne
  <2> QED
    BY <2>1, <2>3
<1>2. ASSUME NEW c \in Cell
      PROVE  IsLargest(op.delta.fields[c], Carried({op}, c))
  <2>1. op.delta.fields[c] \in Slot
    BY DocShape DEF DocOK
  <2>2. Carried({op}, c) = {op.delta.fields[c]} \ {Unwritten}
    BY DEF Carried
  <2> QED
    BY <2>1, <2>2, BeatsOrder DEF IsLargest, Slot
<1> QED
  BY <1>1, <1>2 DEF DocJoin

\* Documents that are the join of the same operations are equal.
LEMMA DocJoinUnique ==
  ASSUME NEW a, NEW b, DocOK(a), DocOK(b), NEW ops, DocJoin(a, ops), DocJoin(b, ops),
         \A op \in ops : op.delta \in Doc
  PROVE  a = b
<1>1. a.entries = b.entries
  BY JoinUnique DEF DocOK, DocJoin
<1>2. \A c \in Cell : a.fields[c] = b.fields[c]
  <2> SUFFICES ASSUME NEW c \in Cell PROVE a.fields[c] = b.fields[c]
    OBVIOUS
  <2>1. Carried(ops, c) \in SUBSET Register
    BY CarriedFacts
  <2> QED
    BY <2>1, LargestUnique DEF DocJoin
<1>3. a.fields = b.fields
  BY <1>2, DocShape DEF DocOK
<1> QED
  BY <1>1, <1>3, DocShape DEF DocOK

\* The empty document and its parts.
LEMMA NewDocFacts ==
  /\ DocOK(NewDoc) /\ DocJoin(NewDoc, {})
  /\ NewDoc.entries = EmptySet /\ NewDoc.fields = NoFields
  /\ NoFields \in Fields /\ \A c \in Cell : NoFields[c] = Unwritten
<1>1. NewDoc.entries = EmptySet /\ NewDoc.fields = NoFields
      /\ NoFields \in Fields /\ \A c \in Cell : NoFields[c] = Unwritten
  BY DEF NewDoc, NoFields, Fields
<1>2. WellFormed(EmptySet) /\ EmptySet \in AWSet
  BY EmptySetFacts DEF WellFormed
<1>3. DocOK(NewDoc)
  BY <1>1, <1>2 DEF DocOK, Doc, NewDoc
<1>4. IsJoin(EmptySet, Presence({}))
  BY EmptySetFacts DEF IsJoin, Presence
<1>5. \A c \in Cell : Carried({}, c) = {}
  BY DEF Carried
<1> QED
  BY <1>1, <1>3, <1>4, <1>5 DEF DocJoin, IsLargest

\* A delta without registers leaves the fields, one without dots the entries.
LEMMA MergeNeutral ==
  ASSUME NEW x, DocOK(x)
  PROVE  /\ MergeSet(x.entries, EmptySet) = x.entries
         /\ [c \in Cell |-> MergeCell(x.fields[c], NoFields[c])] = x.fields
<1>1. WellFormed(x.entries) /\ x.fields \in [Cell -> Slot] /\ x.entries \in AWSet
  BY DocShape DEF DocOK
<1>2. MergeSet(x.entries, EmptySet) = x.entries
  <2> DEFINE m == MergeSet(x.entries, EmptySet)
  <2>1. WellFormed(EmptySet) /\ Dots(EmptySet.ctx) = {}
        /\ \A e \in Entry : EmptySet.entries[e] = {}
    BY EmptySetFacts
  <2>2. \A e \in Entry : \A dot \in Dot : Keeps(EmptySet, e, dot)
    BY <2>1 DEF Keeps, Dots
  <2>3. \A e \in Entry : \A dot \in Dot : dot \in x.entries.entries[e] => Keeps(x.entries, e, dot)
    BY DEF Keeps
  <2>4. WellFormed(m) /\ Dots(m.ctx) = Dots(x.entries.ctx)
    BY <1>1, <2>1, MergeSetFacts
  <2>5. \A e \in Entry : \A dot \in Dot :
          dot \in m.entries[e] <=> dot \in x.entries.entries[e]
    BY <1>1, <2>1, <2>2, <2>3, MergeSetFacts
  <2>6. \A e \in Entry : m.entries[e] \in SUBSET Dot /\ x.entries.entries[e] \in SUBSET Dot
    BY <1>1, <2>4, AWSetShape DEF WellFormed
  <2> HIDE DEF m
  <2>7. \A e \in Entry : m.entries[e] = x.entries.entries[e]
    BY <2>5, <2>6
  <2>8. m = x.entries
    BY <1>1, <2>4, <2>7, AWSetEquality
  <2> QED
    BY <2>8 DEF m
<1>3. \A c \in Cell : MergeCell(x.fields[c], NoFields[c]) = x.fields[c]
  BY <1>1, NewDocFacts, MergeCellFacts DEF Slot
<1> QED
  BY <1>1, <1>2, <1>3

(***************************************************************************)
(* Every local operation of the document is the merge of its own delta, so *)
(* that shipping the deltas is enough (model/mod.rs:22).                   *)
(***************************************************************************)
THEOREM AddEntryIsMergeOfDelta ==
  ASSUME NEW x, DocOK(x), OneElementPerDot(x.entries),
         NEW e \in Entry, NEW d \in Device, CanMint(x.entries.ctx, d)
  PROVE  /\ AddEntryTo(x, e, d) = MergeDoc(x, AddEntryDelta(x, e, d))
         /\ DocOK(AddEntryDelta(x, e, d))
         /\ AddEntryDelta(x, e, d).entries = AddDelta(x.entries, e, d)
<1>1. WellFormed(x.entries) /\ x = [entries |-> x.entries, fields |-> x.fields]
  BY DocShape DEF DocOK
<1>2. AddEntryTo(x, e, d) = [entries |-> Add(x.entries, e, d), fields |-> x.fields]
  BY <1>1 DEF AddEntryTo
<1>3. Add(x.entries, e, d) = MergeSet(x.entries, AddDelta(x.entries, e, d))
  BY <1>1, AddIsMergeOfDelta
<1>4. AddEntryDelta(x, e, d).entries = AddDelta(x.entries, e, d)
      /\ AddEntryDelta(x, e, d).fields = NoFields
  BY DEF AddEntryDelta
<1>5. WellFormed(AddDelta(x.entries, e, d))
  BY <1>1, AddDeltaFacts
<1>6. DocOK(AddEntryDelta(x, e, d))
  BY <1>5, NewDocFacts DEF DocOK, Doc, AddEntryDelta, WellFormed
<1> QED
  BY <1>2, <1>3, <1>4, <1>6, MergeNeutral DEF MergeDoc

THEOREM RemoveEntryIsMergeOfDelta ==
  ASSUME NEW x, DocOK(x), OneElementPerDot(x.entries), NEW e \in Entry
  PROVE  /\ RemoveEntryFrom(x, e) = MergeDoc(x, RemoveEntryDelta(x, e))
         /\ DocOK(RemoveEntryDelta(x, e))
         /\ RemoveEntryDelta(x, e).entries = RemoveDelta(x.entries, e)
<1>1. WellFormed(x.entries) /\ x = [entries |-> x.entries, fields |-> x.fields]
  BY DocShape DEF DocOK
<1>2. RemoveEntryFrom(x, e) = [entries |-> Remove(x.entries, e), fields |-> x.fields]
  BY <1>1 DEF RemoveEntryFrom
<1>3. Remove(x.entries, e) = MergeSet(x.entries, RemoveDelta(x.entries, e))
  BY <1>1, RemoveIsMergeOfDelta
<1>4. RemoveEntryDelta(x, e).entries = RemoveDelta(x.entries, e)
      /\ RemoveEntryDelta(x, e).fields = NoFields
  BY DEF RemoveEntryDelta
<1>5. WellFormed(RemoveDelta(x.entries, e))
  BY <1>1, RemoveDeltaFacts
<1>6. DocOK(RemoveEntryDelta(x, e))
  BY <1>5, NewDocFacts DEF DocOK, Doc, RemoveEntryDelta, WellFormed
<1> QED
  BY <1>2, <1>3, <1>4, <1>6, MergeNeutral DEF MergeDoc

THEOREM SetFieldIsMergeOfDelta ==
  ASSUME NEW x, DocOK(x), NEW c \in Cell, NEW value \in Value, NEW ts \in Timestamp
  PROVE  /\ SetField(x, c, value, ts) = MergeDoc(x, SetFieldDelta(x, c, value, ts))
         /\ DocOK(SetFieldDelta(x, c, value, ts))
         /\ SetFieldDelta(x, c, value, ts).entries = EmptySet
         /\ \A k \in Cell : SetFieldDelta(x, c, value, ts).fields[k] =
              IF k = c THEN Written(x, c, value, ts) ELSE Unwritten
<1> DEFINE w     == Written(x, c, value, ts)
           delta == SetFieldDelta(x, c, value, ts)
           fs    == [NoFields EXCEPT ![c] = w]
<1>1. x.fields \in [Cell -> Slot] /\ x = [entries |-> x.entries, fields |-> x.fields]
      /\ WellFormed(x.entries)
  BY DocShape DEF DocOK
<1>2. w \in Register /\ MergeCell(x.fields[c], w) = w
  BY <1>1, WrittenFacts
<1>3. delta = [entries |-> EmptySet, fields |-> fs]
  BY DEF SetFieldDelta, NewDoc
<1>4. SetField(x, c, value, ts) = [entries |-> x.entries, fields |-> [x.fields EXCEPT ![c] = w]]
  BY <1>1 DEF SetField
<1> HIDE DEF w, delta
<1>5. fs \in Fields /\ \A k \in Cell : fs[k] = IF k = c THEN w ELSE Unwritten
  BY <1>2, NewDocFacts DEF Fields
<1> HIDE DEF fs
<1>6. DocOK(delta)
  BY <1>3, <1>5, EmptySetFacts DEF DocOK, Doc, WellFormed
<1>7. [k \in Cell |-> MergeCell(x.fields[k], fs[k])] = [x.fields EXCEPT ![c] = w]
  <2>1. \A k \in Cell : x.fields[k] \in Slot
    BY <1>1
  <2>2. \A k \in Cell : MergeCell(x.fields[k], fs[k]) = IF k = c THEN w ELSE x.fields[k]
    BY <1>2, <1>5, <2>1, MergeCellFacts DEF Slot
  <2> QED
    BY <1>1, <2>2
<1>8. MergeDoc(x, delta) = [entries |-> x.entries, fields |-> [x.fields EXCEPT ![c] = w]]
  BY <1>3, <1>7, MergeNeutral DEF MergeDoc
<1> QED
  BY <1>3, <1>4, <1>5, <1>6, <1>8 DEF delta, w
-----------------------------------------------------------------------------
(* The log and the replicas.                                               *)

DotsIn(op) == UNION {op.delta.entries.entries[e] : e \in Entry}

\* An operation: dots of its author, one entry each; the register a write
\* ships is not beaten by the write attempted.
GoodOp(op) ==
  /\ DocOK(op.delta) /\ OneElementPerDot(op.delta.entries)
  /\ \A dot \in DotsIn(op) : dot.device = op.id.device
  /\ op.kind = "write" =>
       /\ op.attempt.ts.device = op.id.device
       /\ op.delta.fields[op.cell] \in Register
       /\ ~Beats(op.attempt, op.delta.fields[op.cell])

IssuedIn(ops, d) == {op \in ops : op.id.device = d}

\* Operations are numbered by author, and no two share an identity or a dot.
GoodLog(ops) ==
  /\ ops \subseteq Op \cup Write /\ IsFiniteSet(ops)
  /\ \A op \in ops : /\ GoodOp(op) /\ op.past \subseteq Ids(ops)
                     /\ op.id.seq <= Cardinality(IssuedIn(ops, op.id.device))
  /\ \A op1, op2 \in ops :
       op1 # op2 => op1.id # op2.id /\ DotsIn(op1) \cap DotsIn(op2) = {}

Replicas ==
  \A d \in Device : /\ DocOK(doc[d]) /\ DocJoin(doc[d], seen[d])
                    /\ seen[d] \subseteq log /\ Issued(d) \subseteq seen[d]

\* The inductive invariant.
IInv == TypeOK /\ GoodLog(log) /\ Replicas

LEMMA OpFacts ==
  ASSUME NEW op \in Op \cup Write
  PROVE  /\ op.id \in OpId /\ op.delta \in Doc /\ op.past \in SUBSET OpId
         /\ op.kind = "write" => op \in Write /\ op.cell \in Cell /\ op.attempt \in Register
  BY DEF Op, Write

\* Where operations share no dot, their join gives every dot one entry.
LEMMA JoinOneElementPerDot ==
  ASSUME NEW ops, GoodLog(ops), NEW seenOps \in SUBSET ops,
         NEW a, IsJoin(a, Presence(seenOps))
  PROVE  OneElementPerDot(a)
<1> SUFFICES ASSUME NEW e \in Entry, NEW f \in Entry, e # f,
                    NEW dot, dot \in a.entries[e], dot \in a.entries[f]
             PROVE  FALSE
  BY DEF OneElementPerDot
<1>1. ASSUME NEW g \in Entry, dot \in a.entries[g]
      PROVE  \E op \in seenOps : dot \in op.delta.entries.entries[g]
  <2>1. PICK p \in Presence(seenOps) : dot \in p.delta.entries[g]
    BY <1>1 DEF IsJoin
  <2>2. PICK op \in seenOps : p = [delta |-> op.delta.entries]
    BY DEF Presence
  <2> QED
    BY <2>1, <2>2
<1>2. PICK op1 \in seenOps : dot \in op1.delta.entries.entries[e]
  BY <1>1
<1>3. PICK op2 \in seenOps : dot \in op2.delta.entries.entries[f]
  BY <1>1
<1>4. op1 = op2
  BY <1>2, <1>3 DEF GoodLog, DotsIn
<1>5. OneElementPerDot(op1.delta.entries)
  BY DEF GoodLog, GoodOp
<1> QED
  BY <1>2, <1>3, <1>4, <1>5 DEF OneElementPerDot

\* The log stays good when an operation with the next number is appended.
LEMMA GrowLog ==
  ASSUME NEW ops, GoodLog(ops), NEW op \in Op \cup Write, GoodOp(op),
         op.past \subseteq Ids(ops),
         op.id.seq = Cardinality(IssuedIn(ops, op.id.device)) + 1,
         \A o \in ops : DotsIn(op) \cap DotsIn(o) = {}
  PROVE  /\ GoodLog(ops \cup {op})
         /\ op.id \notin Ids(ops)
<1> DEFINE all == ops \cup {op}
<1>1. /\ ops \subseteq Op \cup Write /\ IsFiniteSet(ops)
      /\ \A o \in ops : /\ GoodOp(o) /\ o.past \subseteq Ids(ops)
                        /\ o.id.seq <= Cardinality(IssuedIn(ops, o.id.device))
      /\ \A o1, o2 \in ops :
           o1 # o2 => o1.id # o2.id /\ DotsIn(o1) \cap DotsIn(o2) = {}
  BY DEF GoodLog
<1>2. IsFiniteSet(all) /\ all \subseteq Op \cup Write
  BY <1>1, FS_AddElement
<1>3. ASSUME NEW d \in Device
      PROVE  /\ Cardinality(IssuedIn(ops, d)) \in Nat
             /\ Cardinality(IssuedIn(ops, d)) <= Cardinality(IssuedIn(all, d))
  <2>1. IssuedIn(ops, d) \subseteq IssuedIn(all, d) /\ IssuedIn(all, d) \subseteq all
    BY DEF IssuedIn
  <2>2. IsFiniteSet(IssuedIn(all, d))
    BY <1>2, <2>1, FS_Subset
  <2>3. IsFiniteSet(IssuedIn(ops, d)) /\ Cardinality(IssuedIn(ops, d)) <= Cardinality(IssuedIn(all, d))
    BY <2>1, <2>2, FS_Subset
  <2> QED
    BY <2>3, FS_CardinalityType
<1>4. \A o \in all : o.id.device \in Device /\ o.id.seq \in Int
  BY <1>2, OpFacts DEF OpId
<1>5. op.id \notin Ids(ops)
  <2> SUFFICES ASSUME NEW o \in ops, o.id = op.id PROVE FALSE
    BY DEF Ids
  <2>1. o.id.seq <= Cardinality(IssuedIn(ops, op.id.device))
    BY <1>1
  <2> QED
    BY <1>3, <1>4, <2>1
<1>6. Cardinality(IssuedIn(all, op.id.device)) = Cardinality(IssuedIn(ops, op.id.device)) + 1
  <2>1. IssuedIn(all, op.id.device) = IssuedIn(ops, op.id.device) \cup {op}
    BY DEF IssuedIn
  <2>2. op \notin IssuedIn(ops, op.id.device)
    BY <1>5 DEF IssuedIn, Ids
  <2>3. IsFiniteSet(IssuedIn(ops, op.id.device))
    BY <1>1, FS_Subset DEF IssuedIn
  <2> QED
    BY <2>1, <2>2, <2>3, FS_AddElement
<1>7. ASSUME NEW o \in all
      PROVE  /\ GoodOp(o) /\ o.past \subseteq Ids(all)
             /\ o.id.seq <= Cardinality(IssuedIn(all, o.id.device))
  <2>1. Ids(ops) \subseteq Ids(all)
    BY DEF Ids
  <2>2. CASE o = op
    <3>1. op.id.seq <= Cardinality(IssuedIn(all, op.id.device))
      BY <1>3, <1>4, <1>6
    <3>2. GoodOp(o) /\ o.past \subseteq Ids(all)
      BY <2>1, <2>2
    <3> QED
      BY <2>2, <3>1, <3>2
  <2>3. CASE o \in ops
    <3>1. /\ GoodOp(o) /\ o.past \subseteq Ids(ops)
          /\ o.id.seq <= Cardinality(IssuedIn(ops, o.id.device))
      BY <1>1, <2>3
    <3>2. /\ Cardinality(IssuedIn(ops, o.id.device)) \in Nat
          /\ Cardinality(IssuedIn(ops, o.id.device)) <= Cardinality(IssuedIn(all, o.id.device))
          /\ IsFiniteSet(IssuedIn(all, o.id.device))
      BY <1>2, <1>3, <1>4, FS_Subset DEF IssuedIn
    <3>3. Cardinality(IssuedIn(all, o.id.device)) \in Nat
      BY <3>2, FS_CardinalityType
    <3> DEFINE n == Cardinality(IssuedIn(ops, o.id.device))
               k == Cardinality(IssuedIn(all, o.id.device))
    <3>4. o.id.seq <= k
      <4>1. o.id.seq \in Int /\ n \in Nat /\ k \in Nat /\ n <= k /\ o.id.seq <= n
        BY <1>4, <3>1, <3>2, <3>3
      <4> HIDE DEF n, k
      <4> QED
        BY <4>1
    <3>5. o.past \subseteq Ids(all)
      BY <2>1, <3>1
    <3> QED
      BY <3>1, <3>4, <3>5
  <2> QED
    BY <2>2, <2>3
<1>8. ASSUME NEW o1 \in all, NEW o2 \in all, o1 # o2
      PROVE  o1.id # o2.id /\ DotsIn(o1) \cap DotsIn(o2) = {}
  BY <1>1, <1>5, <1>8 DEF Ids
<1> QED
  BY <1>2, <1>5, <1>7, <1>8 DEF GoodLog
-----------------------------------------------------------------------------
(* The clock of a replica.                                                 *)

LEMMA MaxHlcFacts ==
  ASSUME NEW x \in Doc
  PROVE  /\ Stamps(x) \in SUBSET Hlc
         /\ Stamps(x) # {} => /\ MaxHlc(x) \in Stamps(x)
                              /\ \A g \in Stamps(x) : HlcLeq(g, MaxHlc(x))
<1> DEFINE S == Stamps(x)
<1>1. S \in SUBSET Hlc
  <2>1. \A c \in Cell : x.fields[c] # Unwritten => x.fields[c].ts.hlc \in Hlc
    BY DocShape DEF Slot, Register, Timestamp
  <2> QED
    BY <2>1 DEF Stamps
<1>2. ASSUME S # {}
      PROVE  \E h \in S : \A g \in S : HlcLeq(g, h)
  <2> DEFINE walls == {h.wall : h \in S}
             m     == Max(walls)
             top   == {h \in S : h.wall = m}
             ticks == {h.counter : h \in top}
             k     == Max(ticks)
  <2> HIDE DEF S
  <2>1. \A h \in S : /\ h.wall \in 0 .. MaxWall /\ h.counter \in 0 .. MaxCounter
                     /\ MaxWall \in Nat /\ MaxCounter \in Nat
    BY <1>1, HlcShape
  <2>2. MaxWall \in Nat /\ MaxCounter \in Nat
    BY HlcAssumption
  <2>3. m \in walls /\ \A y \in walls : y <= m
    <3>1. walls \in SUBSET (0 .. MaxWall) /\ walls # {}
      BY <1>2, <2>1
    <3> HIDE DEF walls
    <3> QED
      BY <2>2, <3>1, MaxExists
  <2> HIDE DEF m
  <2>4. top # {} /\ top \subseteq S
    BY <2>3
  <2>5. k \in ticks /\ \A y \in ticks : y <= k
    <3>1. ticks \in SUBSET (0 .. MaxCounter) /\ ticks # {}
      BY <2>1, <2>4
    <3> HIDE DEF ticks
    <3> QED
      BY <2>2, <3>1, MaxExists
  <2> HIDE DEF k
  <2>6. PICK h \in S : h.wall = m /\ h.counter = k
    BY <2>5
  <2>7. ASSUME NEW g \in S
        PROVE  HlcLeq(g, h)
    <3>1. g \in Hlc /\ h \in Hlc
      BY <1>1
    <3>2. g.wall \in Int /\ h.wall \in Int /\ g.counter \in Int /\ h.counter \in Int
      BY <3>1, HlcShape
    <3>3. g.wall <= h.wall
      BY <2>3, <2>6
    <3>4. g.wall = h.wall => g.counter <= h.counter
      BY <2>5, <2>6
    <3>5. g.wall = h.wall /\ g.counter = h.counter => g = h
      BY <3>1, HlcEqual
    <3> QED
      BY <3>2, <3>3, <3>4, <3>5 DEF HlcLeq, HlcLess
  <2> QED
    BY <2>7
<1>3. S # {} => MaxHlc(x) \in S /\ \A g \in S : HlcLeq(g, MaxHlc(x))
  BY <1>2 DEF MaxHlc
<1> QED
  BY <1>1, <1>3

LEMMA AdvanceTyped ==
  ASSUME NEW last \in Hlc, NEW now \in Now, NEW x \in Doc
  PROVE  Advance(last, now, x) \in Hlc
<1>1. now \in Wall
  BY NowAssumption
<1>2. Stamps(x) # {} => MaxHlc(x) \in Hlc
  BY MaxHlcFacts
<1> QED
  BY <1>1, <1>2, UpdateFacts DEF Advance
-----------------------------------------------------------------------------
(* The steps.                                                              *)

LEMMA InitIInv == Init => IInv
<1> SUFFICES ASSUME Init PROVE IInv
  OBVIOUS
<1>1. \A d \in Device : doc[d] = NewDoc /\ seen[d] = {}
  BY DEF Init
<1>2. log = {} /\ IsFiniteSet(log)
  BY FS_EmptySet DEF Init
<1>3. ZeroHlc \in Hlc
  BY HlcAssumption DEF ZeroHlc, Hlc, Wall
<1>4. NewDoc \in Doc
  BY NewDocFacts DEF DocOK
<1>5. TypeOK
  BY <1>2, <1>3, <1>4 DEF Init, TypeOK
<1>6. GoodLog(log)
  BY <1>2 DEF GoodLog
<1>7. Replicas
  BY <1>1, <1>2, NewDocFacts DEF Replicas, Issued
<1> QED
  BY <1>5, <1>6, <1>7 DEF IInv

\* A replica that takes in operations of the log, its own among them, by
\* merging their join, keeps the invariant.
LEMMA TakeIn ==
  ASSUME IInv, NEW d \in Device, NEW x, DocOK(x), NEW ops, DocJoin(x, ops),
         GoodLog(log'), log \cup ops \subseteq log',
         \A op \in log' \ log : op \in ops /\ op.id.device = d,
         doc'  = [doc EXCEPT ![d] = MergeDoc(doc[d], x)],
         seen' = [seen EXCEPT ![d] = @ \cup ops],
         clock' \in [Device -> Hlc]
  PROVE  IInv'
<1> DEFINE m == MergeDoc(doc[d], x)
<1>1. doc \in [Device -> Doc] /\ seen \in [Device -> SUBSET (Op \cup Write)]
      /\ log' \subseteq Op \cup Write
  BY DEF IInv, TypeOK, GoodLog
<1>2. /\ \A s \in Device : doc'[s] = IF s = d THEN m ELSE doc[s]
      /\ \A s \in Device : seen'[s] = IF s = d THEN seen[d] \cup ops ELSE seen[s]
  BY <1>1
<1>3. DocOK(doc[d]) /\ DocJoin(doc[d], seen[d]) /\ seen[d] \subseteq log
  BY DEF IInv, Replicas
<1>4. DocOK(m) /\ m \in Doc
  BY <1>3, MergeDocShape DEF DocOK
<1>5. DocJoin(m, seen[d] \cup ops)
  <2>1. \A op \in seen[d] \cup ops : op.delta \in Doc
    BY <1>1, <1>3, OpFacts
  <2> QED
    BY <1>3, <2>1, MergeDocJoin
<1> HIDE DEF m
<1>6. TypeOK'
  <2>1. doc' \in [Device -> Doc]
    BY <1>1, <1>4 DEF m
  <2>2. seen' \in [Device -> SUBSET (Op \cup Write)]
    BY <1>1, <1>3
  <2> QED
    BY <1>1, <2>1, <2>2 DEF TypeOK
<1>7. ASSUME NEW s \in Device
      PROVE  /\ DocOK(doc'[s]) /\ DocJoin(doc'[s], seen'[s])
             /\ seen'[s] \subseteq log' /\ {op \in log' : op.id.device = s} \subseteq seen'[s]
  <2>1. /\ DocOK(doc[s]) /\ DocJoin(doc[s], seen[s]) /\ seen[s] \subseteq log
        /\ {op \in log : op.id.device = s} \subseteq seen[s]
    BY DEF IInv, Replicas, Issued
  <2>2. CASE s = d
    <3>1. DocOK(doc'[s]) /\ DocJoin(doc'[s], seen'[s])
      BY <1>2, <1>4, <1>5, <2>2
    <3>2. seen'[s] = seen[d] \cup ops
      BY <1>2, <2>2
    <3> QED
      BY <2>1, <2>2, <3>1, <3>2
  <2>3. CASE s # d
    <3>1. doc'[s] = doc[s] /\ seen'[s] = seen[s]
      BY <1>2, <2>3
    <3> QED
      BY <2>1, <2>3, <3>1
  <2> QED
    BY <2>2, <2>3
<1>8. Replicas'
  BY <1>7 DEF Replicas, Issued
<1> QED
  BY <1>6, <1>8 DEF IInv

\* The number of a new operation of d, and what d knew of.
LEMMA NewOpFacts ==
  ASSUME IInv, NEW d \in Device, Cardinality(log) < MaxOps
  PROVE  /\ NextId(d) \in OpId /\ NextId(d).device = d
         /\ NextId(d).seq = Cardinality(IssuedIn(log, d)) + 1
         /\ Past(d) \in SUBSET OpId /\ Past(d) \subseteq Ids(log)
<1>1. IsFiniteSet(log) /\ IssuedIn(log, d) \in SUBSET log /\ Issued(d) = IssuedIn(log, d)
  BY DEF IInv, GoodLog, Issued, IssuedIn
<1>2. IsFiniteSet(IssuedIn(log, d)) /\ Cardinality(IssuedIn(log, d)) <= Cardinality(log)
  BY <1>1, FS_Subset
<1>3. Cardinality(IssuedIn(log, d)) \in Nat /\ Cardinality(log) \in Nat /\ MaxOps \in Nat
  BY <1>1, <1>2, FS_CardinalityType, MaxOpsAssumption
<1>4. Cardinality(IssuedIn(log, d)) + 1 \in 1 .. MaxOps
  BY <1>2, <1>3
<1>5. Past(d) \subseteq Ids(log) /\ Ids(log) \in SUBSET OpId
  BY OpFacts DEF IInv, Replicas, GoodLog, Past, Ids
<1> QED
  BY <1>1, <1>4, <1>5 DEF NextId, OpId

\* An operation that equals the merge of its delta, with fresh dots.
LEMMA OperateStep ==
  ASSUME IInv, NEW d \in Device, NEW op \in Op \cup Write, GoodOp(op),
         op.id = NextId(d), op.past = Past(d),
         \A dot \in DotsIn(op) : dot \notin Dots(doc[d].entries.ctx),
         doc' = [doc EXCEPT ![d] = MergeDoc(doc[d], op.delta)],
         Ship(d, op),
         clock' \in [Device -> Hlc]
  PROVE  IInv' /\ op.id \notin Ids(log)
<1>1. /\ Cardinality(log) < MaxOps /\ log' = log \cup {op}
      /\ seen' = [seen EXCEPT ![d] = @ \cup {op}]
  BY DEF Ship
<1>2. /\ op.id.device = d
      /\ op.id.seq = Cardinality(IssuedIn(log, d)) + 1
      /\ op.past \subseteq Ids(log)
  BY <1>1, NewOpFacts
<1>3. ASSUME NEW o \in log
      PROVE  DotsIn(op) \cap DotsIn(o) = {}
  <2> SUFFICES ASSUME NEW dot \in DotsIn(op), dot \in DotsIn(o)
               PROVE  FALSE
    OBVIOUS
  <2>1. dot.device = d /\ GoodOp(o)
    BY <1>2 DEF GoodOp, IInv, GoodLog
  <2>2. o.id.device = d /\ WellFormed(o.delta.entries)
    BY <2>1 DEF GoodOp, DocOK
  <2>3. o \in seen[d]
    BY <2>2 DEF IInv, Replicas, Issued
  <2>4. dot \in Dots(o.delta.entries.ctx)
    BY <2>2 DEF DotsIn, WellFormed
  <2>5. Dots(doc[d].entries.ctx) = UNION {Dots(p.delta.ctx) : p \in Presence(seen[d])}
    BY DEF IInv, Replicas, DocJoin, IsJoin
  <2>6. [delta |-> o.delta.entries] \in Presence(seen[d])
    BY <2>3 DEF Presence
  <2>7. dot \in Dots(doc[d].entries.ctx)
    BY <2>4, <2>5, <2>6
  <2> QED
    BY <2>7
<1>4. GoodLog(log \cup {op}) /\ op.id \notin Ids(log)
  BY <1>2, <1>3, GrowLog DEF IInv
<1>5. DocOK(op.delta) /\ DocJoin(op.delta, {op})
  BY DocJoinOfOne DEF GoodOp
<1>6. IInv'
  BY <1>1, <1>2, <1>4, <1>5, TakeIn
<1> QED
  BY <1>4, <1>6

\* An add, a remove and a write are such operations.
LEMMA AddStep ==
  ASSUME IInv, NEW d \in Device, NEW e \in Entry, AddEntry(d, e)
  PROVE  IInv'
<1> DEFINE delta == AddEntryDelta(doc[d], e, d)
           op    == [id |-> NextId(d), kind |-> "add", entry |-> e,
                     delta |-> delta, past |-> Past(d)]
<1>1. CanMint(doc[d].entries.ctx, d) /\ Ship(d, op) /\ clock' = clock
      /\ doc' = [doc EXCEPT ![d] = AddEntryTo(doc[d], e, d)]
  BY DEF AddEntry
<1>2. /\ DocOK(doc[d]) /\ OneElementPerDot(doc[d].entries) /\ WellFormed(doc[d].entries)
  BY JoinOneElementPerDot DEF IInv, Replicas, DocJoin, DocOK
<1>3. /\ AddEntryTo(doc[d], e, d) = MergeDoc(doc[d], delta)
      /\ DocOK(delta) /\ delta.entries = AddDelta(doc[d].entries, e, d)
  BY <1>1, <1>2, AddEntryIsMergeOfDelta
<1>4. \A f \in Entry : delta.entries.entries[f] =
        IF f = e THEN {NextDot(doc[d].entries.ctx, d)} ELSE {}
  BY <1>1, <1>2, <1>3, AddDeltaFacts
<1>5. /\ NextDot(doc[d].entries.ctx, d).device = d
      /\ NextDot(doc[d].entries.ctx, d) \notin Dots(doc[d].entries.ctx)
  BY <1>1, <1>2, NextDotFacts, AWSetShape DEF WellFormed
<1> HIDE DEF delta
<1>6. op \in Op \cup Write /\ op.delta = delta /\ op.kind = "add"
      /\ op.id = NextId(d) /\ op.past = Past(d) /\ op.id.device = d
  <2>1. NextId(d) \in OpId /\ NextId(d).device = d /\ Past(d) \in SUBSET OpId
    BY <1>1, NewOpFacts DEF Ship
  <2> QED
    BY <1>3, <2>1 DEF Op, DocOK
<1> HIDE DEF op
<1>7. \A dot \in DotsIn(op) : dot = NextDot(doc[d].entries.ctx, d)
  BY <1>4, <1>6 DEF DotsIn
<1>8. GoodOp(op)
  <2>1. OneElementPerDot(delta.entries)
    BY <1>4 DEF OneElementPerDot
  <2> QED
    BY <1>3, <1>5, <1>6, <1>7, <2>1 DEF GoodOp
<1>9. clock' \in [Device -> Hlc]
  BY <1>1 DEF IInv, TypeOK
<1> QED
  BY <1>1, <1>3, <1>5, <1>6, <1>7, <1>8, <1>9, OperateStep

LEMMA RemoveStep ==
  ASSUME IInv, NEW d \in Device, NEW e \in Entry, RemoveEntry(d, e)
  PROVE  IInv'
<1> DEFINE delta == RemoveEntryDelta(doc[d], e)
           op    == [id |-> NextId(d), kind |-> "remove", entry |-> e,
                     delta |-> delta, past |-> Past(d)]
<1>1. Ship(d, op) /\ clock' = clock
      /\ doc' = [doc EXCEPT ![d] = RemoveEntryFrom(doc[d], e)]
  BY DEF RemoveEntry
<1>2. /\ DocOK(doc[d]) /\ OneElementPerDot(doc[d].entries) /\ WellFormed(doc[d].entries)
  BY JoinOneElementPerDot DEF IInv, Replicas, DocJoin, DocOK
<1>3. /\ RemoveEntryFrom(doc[d], e) = MergeDoc(doc[d], delta)
      /\ DocOK(delta) /\ delta.entries = RemoveDelta(doc[d].entries, e)
  BY <1>2, RemoveEntryIsMergeOfDelta
<1>4. \A f \in Entry : delta.entries.entries[f] = {}
  BY <1>2, <1>3, RemoveDeltaFacts
<1> HIDE DEF delta
<1>5. op \in Op \cup Write /\ op.delta = delta /\ op.kind = "remove"
      /\ op.id = NextId(d) /\ op.past = Past(d)
  <2>1. NextId(d) \in OpId /\ Past(d) \in SUBSET OpId
    BY <1>1, NewOpFacts DEF Ship
  <2> QED
    BY <1>3, <2>1 DEF Op, DocOK
<1> HIDE DEF op
<1>6. DotsIn(op) = {}
  BY <1>4, <1>5 DEF DotsIn
<1>7. GoodOp(op)
  BY <1>3, <1>4, <1>5, <1>6 DEF GoodOp, OneElementPerDot
<1>8. clock' \in [Device -> Hlc]
  BY <1>1 DEF IInv, TypeOK
<1> QED
  BY <1>1, <1>3, <1>5, <1>6, <1>7, <1>8, OperateStep

\* op is the write that d performed on c, stamped by the clock it is left with.
Wrote(d, c, op) ==
  /\ op.id.device = d /\ op.id \notin Ids(log) /\ op.past = Past(d) /\ op.cell = c
  /\ op.attempt.ts = [hlc |-> clock'[d], device |-> d]
  /\ log' = log \cup {op} /\ seen' = [seen EXCEPT ![d] = @ \cup {op}]
  /\ doc'[d].fields = [doc[d].fields EXCEPT ![c] =
                          Written(doc[d], c, op.attempt.value, op.attempt.ts)]
  /\ \A k \in Cell : op.delta.fields[k] = IF k = c THEN doc'[d].fields[c] ELSE Unwritten
  /\ \A s \in Device : s # d => doc'[s] = doc[s] /\ clock'[s] = clock[s]

LEMMA WriteFacts ==
  ASSUME IInv, NEW d \in Device, NEW c \in Cell, WriteField(d, c)
  PROVE  /\ IInv' /\ CanMove(d)
         /\ \E now \in Now : clock' = [clock EXCEPT ![d] = NextLocal(clock[d], now)]
         /\ \E op \in Write : Wrote(d, c, op)
<1>1. PICK now \in Now, value \in Value :
        LET hlc == NextLocal(clock[d], now)
            ts  == [hlc |-> hlc, device |-> d]
        IN  /\ CanMove(d)
            /\ clock' = [clock EXCEPT ![d] = hlc]
            /\ doc'   = [doc EXCEPT ![d] = SetField(@, c, value, ts)]
            /\ Ship(d, [id |-> NextId(d), kind |-> "write", cell |-> c,
                        attempt |-> NewRegister(value, ts),
                        delta |-> SetFieldDelta(doc[d], c, value, ts), past |-> Past(d)])
  BY DEF WriteField
<1> DEFINE hlc   == NextLocal(clock[d], now)
           ts    == [hlc |-> hlc, device |-> d]
           new   == NewRegister(value, ts)
           delta == SetFieldDelta(doc[d], c, value, ts)
           op    == [id |-> NextId(d), kind |-> "write", cell |-> c,
                     attempt |-> new, delta |-> delta, past |-> Past(d)]
<1>2. /\ CanMove(d) /\ clock' = [clock EXCEPT ![d] = hlc] /\ Ship(d, op)
      /\ doc' = [doc EXCEPT ![d] = SetField(doc[d], c, value, ts)]
  BY <1>1
<1>3. clock \in [Device -> Hlc] /\ doc \in [Device -> Doc] /\ DocOK(doc[d])
  BY DEF IInv, TypeOK, Replicas
<1>4. hlc \in Hlc
  BY <1>3, NextLocalFacts, NowAssumption
<1> HIDE DEF hlc
<1>5. ts \in Timestamp
  BY <1>4 DEF Timestamp
<1>6. clock'[d] = hlc /\ (\A s \in Device : s # d => doc'[s] = doc[s] /\ clock'[s] = clock[s])
      /\ clock' \in [Device -> Hlc] /\ doc'[d] = SetField(doc[d], c, value, ts)
  BY <1>2, <1>3, <1>4
<1>7. new.value = value /\ new.ts = ts
  BY DEF NewRegister
<1>8. ts.device = d /\ ts.hlc = hlc
  OBVIOUS
<1> HIDE DEF ts
<1>9. /\ SetField(doc[d], c, value, ts) = MergeDoc(doc[d], delta)
      /\ DocOK(delta) /\ delta.entries = EmptySet
      /\ \A k \in Cell : delta.fields[k] =
           IF k = c THEN Written(doc[d], c, value, ts) ELSE Unwritten
  BY <1>3, <1>5, SetFieldIsMergeOfDelta
<1>10. /\ new \in Register /\ Written(doc[d], c, value, ts) \in Register
       /\ ~Beats(new, Written(doc[d], c, value, ts))
  <2>1. doc[d].fields[c] \in Slot
    BY <1>3, DocShape
  <2> QED
    BY <1>5, <2>1, WrittenFacts
<1>11. doc'[d].fields = [doc[d].fields EXCEPT ![c] = Written(doc[d], c, value, ts)]
  <2>1. doc[d] = [entries |-> doc[d].entries, fields |-> doc[d].fields]
    BY <1>3, DocShape
  <2> QED
    BY <1>6, <2>1 DEF SetField
<1> HIDE DEF delta, new
<1>12. op \in Write /\ op.delta = delta /\ op.kind = "write" /\ op.cell = c
       /\ op.id = NextId(d) /\ op.past = Past(d) /\ op.attempt = new /\ op.id.device = d
  <2>1. NextId(d) \in OpId /\ NextId(d).device = d /\ Past(d) \in SUBSET OpId
    BY <1>2, NewOpFacts DEF Ship
  <2> QED
    BY <1>9, <1>10, <2>1 DEF Write, DocOK
<1> HIDE DEF op
<1>13. DotsIn(op) = {}
  BY <1>9, <1>12, EmptySetFacts DEF DotsIn
<1>14. GoodOp(op)
  <2>1. OneElementPerDot(delta.entries)
    BY <1>9, EmptySetFacts DEF OneElementPerDot
  <2> QED
    BY <1>7, <1>8, <1>9, <1>10, <1>12, <1>13, <2>1 DEF GoodOp
<1>15. IInv' /\ op.id \notin Ids(log)
  BY <1>2, <1>6, <1>9, <1>12, <1>13, <1>14, OperateStep
<1>16. log' = log \cup {op} /\ seen' = [seen EXCEPT ![d] = @ \cup {op}]
  BY <1>2 DEF Ship
<1>17. op.attempt.ts = [hlc |-> clock'[d], device |-> d]
  BY <1>6, <1>7, <1>12 DEF ts
<1>18. \E n \in Now : clock' = [clock EXCEPT ![d] = NextLocal(clock[d], n)]
  BY <1>2 DEF hlc
<1>19. op.attempt.value = value /\ op.attempt.ts = ts
  BY <1>7, <1>12
<1>20. doc'[d].fields[c] = Written(doc[d], c, value, ts)
  BY <1>3, <1>11, DocShape
<1>21. Wrote(d, c, op)
  BY <1>6, <1>9, <1>11, <1>12, <1>15, <1>16, <1>17, <1>19, <1>20 DEF Wrote
<1> QED
  BY <1>2, <1>12, <1>15, <1>18, <1>21

\* A step without a write keeps the writes and ships no register.
LEMMA QuietStep ==
  ASSUME IInv, NEW d \in Device, NEW e \in Entry, AddEntry(d, e) \/ RemoveEntry(d, e)
  PROVE  /\ clock' = clock /\ \A s \in Device : doc'[s].fields = doc[s].fields
         /\ \E op : /\ log' = log \cup {op} /\ op.kind # "write"
                    /\ \A c \in Cell : op.delta.fields[c] = Unwritten
<1>1. doc \in [Device -> Doc] /\ doc[d] = [entries |-> doc[d].entries, fields |-> doc[d].fields]
  BY DocShape DEF IInv, TypeOK
<1>2. CASE AddEntry(d, e)
  <2> DEFINE op == [id |-> NextId(d), kind |-> "add", entry |-> e,
                    delta |-> AddEntryDelta(doc[d], e, d), past |-> Past(d)]
  <2>1. clock' = clock /\ log' = log \cup {op}
        /\ doc' = [doc EXCEPT ![d] = AddEntryTo(doc[d], e, d)]
    BY <1>2 DEF AddEntry, Ship
  <2>2. AddEntryTo(doc[d], e, d).fields = doc[d].fields
    BY <1>1 DEF AddEntryTo
  <2>3. op.kind # "write" /\ \A c \in Cell : op.delta.fields[c] = Unwritten
    BY DEF AddEntryDelta, NoFields
  <2> HIDE DEF op
  <2> QED
    BY <1>1, <2>1, <2>2, <2>3
<1>3. CASE RemoveEntry(d, e)
  <2> DEFINE op == [id |-> NextId(d), kind |-> "remove", entry |-> e,
                    delta |-> RemoveEntryDelta(doc[d], e), past |-> Past(d)]
  <2>1. clock' = clock /\ log' = log \cup {op}
        /\ doc' = [doc EXCEPT ![d] = RemoveEntryFrom(doc[d], e)]
    BY <1>3 DEF RemoveEntry, Ship
  <2>2. RemoveEntryFrom(doc[d], e).fields = doc[d].fields
    BY <1>1 DEF RemoveEntryFrom
  <2>3. op.kind # "write" /\ \A c \in Cell : op.delta.fields[c] = Unwritten
    BY DEF RemoveEntryDelta, NoFields
  <2> HIDE DEF op
  <2> QED
    BY <1>1, <2>1, <2>2, <2>3
<1> QED
  BY <1>2, <1>3

LEMMA MergeStep ==
  ASSUME IInv, NEW d \in Device, NEW x, DocOK(x), NEW ops \in SUBSET log, DocJoin(x, ops),
         MergeAndAdvance(d, x, ops)
  PROVE  IInv'
<1>1. PICK now \in Now :
        /\ doc'   = [doc EXCEPT ![d] = MergeDoc(doc[d], x)]
        /\ clock' = [clock EXCEPT ![d] = Advance(@, now, MergeDoc(doc[d], x))]
        /\ seen'  = [seen EXCEPT ![d] = @ \cup ops]
        /\ log' = log
  BY DEF MergeAndAdvance
<1>2. clock \in [Device -> Hlc] /\ GoodLog(log) /\ DocOK(doc[d])
  BY DEF IInv, TypeOK, Replicas
<1>3. MergeDoc(doc[d], x) \in Doc
  BY <1>2, MergeDocShape DEF DocOK
<1>4. Advance(clock[d], now, MergeDoc(doc[d], x)) \in Hlc
  BY <1>2, <1>3, AdvanceTyped
<1>5. clock' \in [Device -> Hlc]
  BY <1>1, <1>2, <1>4
<1> QED
  BY <1>1, <1>2, <1>5, TakeIn

LEMMA StepIInv == IInv /\ [Next]_vars => IInv'
<1> SUFFICES ASSUME IInv, [Next]_vars PROVE IInv'
  OBVIOUS
<1>1. ASSUME NEW d \in Device, Operate(d)
      PROVE  IInv'
  BY <1>1, AddStep, RemoveStep, WriteFacts DEF Operate
<1>2. ASSUME NEW d \in Device, Deliver(d)
      PROVE  IInv'
  <2>1. PICK op \in log : MergeAndAdvance(d, op.delta, {op})
    BY <1>2 DEF Deliver
  <2>2. DocOK(op.delta)
    BY DEF IInv, GoodLog, GoodOp
  <2>3. DocJoin(op.delta, {op})
    BY <2>2, DocJoinOfOne
  <2> QED
    BY <2>1, <2>2, <2>3, MergeStep
<1>3. ASSUME NEW d \in Device, Snapshot(d)
      PROVE  IInv'
  <2>1. PICK s \in Device : MergeAndAdvance(d, doc[s], seen[s])
    BY <1>3 DEF Snapshot
  <2>2. DocOK(doc[s]) /\ DocJoin(doc[s], seen[s]) /\ seen[s] \in SUBSET log
    BY DEF IInv, Replicas
  <2> QED
    BY <2>1, <2>2, MergeStep
<1>4. ASSUME NEW d \in Device, Restart(d)
      PROVE  IInv'
  <2>1. PICK now \in Now : clock' = [clock EXCEPT ![d] = Advance(ZeroHlc, now, doc[d])]
    BY <1>4 DEF Restart
  <2>2. doc' = doc /\ log' = log /\ seen' = seen
    BY <1>4 DEF Restart
  <2>3. clock \in [Device -> Hlc] /\ doc[d] \in Doc
    BY DEF IInv, TypeOK
  <2>4. ZeroHlc \in Hlc
    BY HlcAssumption DEF ZeroHlc, Hlc, Wall
  <2>5. Advance(ZeroHlc, now, doc[d]) \in Hlc
    BY <2>3, <2>4, AdvanceTyped
  <2>6. clock' \in [Device -> Hlc]
    BY <2>1, <2>3, <2>5
  <2> QED
    BY <2>2, <2>6 DEF IInv, TypeOK, Replicas, Issued
<1>5. CASE UNCHANGED vars
  BY <1>5 DEF vars, IInv, TypeOK, Replicas, Issued
<1>6. CASE Next
  BY <1>1, <1>2, <1>3, <1>4, <1>6 DEF Next
<1> QED
  BY <1>5, <1>6

THEOREM AlwaysIInv == Spec => []IInv
  BY InitIInv, StepIInv, PTL DEF Spec
-----------------------------------------------------------------------------

\* Documents, clocks, operations and histories keep their types.
THEOREM VaultTyped == Spec => []TypeOK
<1>1. IInv => TypeOK
  BY DEF IInv
<1> QED
  BY <1>1, AlwaysIInv, PTL

(***************************************************************************)
(* Strong eventual consistency of the whole document: replicas that took   *)
(* in the same operations are equal (model/mod.rs:28), whatever the clocks *)
(* say, in and out of their domain.                                        *)
(***************************************************************************)
THEOREM VaultConverges == Spec => []Convergence
<1>1. IInv => Convergence
  <2> SUFFICES ASSUME IInv, NEW d \in Device, NEW s \in Device, seen[d] = seen[s]
               PROVE  doc[d] = doc[s]
    BY DEF Convergence
  <2>1. /\ DocOK(doc[d]) /\ DocJoin(doc[d], seen[d])
        /\ DocOK(doc[s]) /\ DocJoin(doc[s], seen[d])
    BY DEF IInv, Replicas
  <2>2. \A op \in seen[d] : op.delta \in Doc
    BY OpFacts DEF IInv, Replicas, GoodLog
  <2> QED
    BY <2>1, <2>2, DocJoinUnique
<1> QED
  BY <1>1, AlwaysIInv, PTL

\* A register of a replica is beaten by none it took in, and by no attempt.
LEMMA RegisterFacts ==
  ASSUME IInv, NEW d \in Device, NEW c \in Cell
  PROVE  /\ Carried(seen[d], c) \in SUBSET Register
         /\ Carried(seen[d], c) = {} => doc[d].fields[c] = Unwritten
         /\ Carried(seen[d], c) # {} => doc[d].fields[c] \in Carried(seen[d], c)
         /\ \A r \in Carried(seen[d], c) : ~Beats(r, doc[d].fields[c])
         /\ \A r \in Attempts(seen[d], c) : Carried(seen[d], c) # {} /\ ~Beats(r, doc[d].fields[c])
<1> DEFINE regs == Carried(seen[d], c)
           x    == doc[d].fields[c]
<1>1. \A op \in seen[d] : op \in Op \cup Write /\ GoodOp(op) /\ op.delta \in Doc
  BY OpFacts DEF IInv, Replicas, GoodLog
<1>2. regs \in SUBSET Register
  BY <1>1, CarriedFacts
<1>3. IsLargest(x, regs)
  BY DEF IInv, Replicas, DocJoin
<1>4. ASSUME NEW r \in Attempts(seen[d], c)
      PROVE  regs # {} /\ ~Beats(r, x)
  <2>1. PICK w \in seen[d] : w.kind = "write" /\ w.cell = c /\ w.attempt = r
    BY DEF Attempts, Writes
  <2>2. w.delta.fields[c] \in Register /\ ~Beats(r, w.delta.fields[c]) /\ r \in Register
    BY <1>1, <2>1, OpFacts DEF GoodOp
  <2>3. w.delta.fields[c] \in regs
    BY <2>2, UnwrittenAssumption DEF Carried
  <2> HIDE DEF regs, x
  <2>4. x \in Register /\ ~Beats(w.delta.fields[c], x)
    BY <1>2, <1>3, <2>3 DEF IsLargest
  <2> QED
    BY <2>2, <2>3, <2>4, BeatsOrder
<1> QED
  BY <1>2, <1>3, <1>4 DEF IsLargest

(***************************************************************************)
(* The register of a cell is the largest of those taken in, and no write   *)
(* taken in beats it (model/mod.rs:148).                                   *)
(***************************************************************************)
THEOREM RegistersLargest == Spec => []RegisterIsLargestWrite
<1>1. IInv => RegisterIsLargestWrite
  BY RegisterFacts DEF RegisterIsLargestWrite
<1> QED
  BY <1>1, AlwaysIInv, PTL

(***************************************************************************)
(* Once re-added, an entry shows in every field the largest of the writes  *)
(* taken in, those of the time it was absent included (model/mod.rs:111).  *)
(***************************************************************************)
THEOREM ReAddShowsLargest == Spec => ReAddShowsLargestWrite
<1> DEFINE Shows == \A d \in Device, c \in Cell :
             AddEntry(d, c[1]) /\ Carried(seen[d], c) # {} =>
               \E r \in Carried(seen[d], c) :
                 /\ FieldValue(doc'[d], c) = r.value
                 /\ \A q \in Carried(seen[d], c) \cup Attempts(seen[d], c) : ~Beats(q, r)
<1>1. IInv /\ [Next]_vars => [Shows]_vars
  <2> SUFFICES ASSUME IInv, NEW d \in Device, NEW c \in Cell, AddEntry(d, c[1]),
                      Carried(seen[d], c) # {}
               PROVE  \E r \in Carried(seen[d], c) :
                        /\ FieldValue(doc'[d], c) = r.value
                        /\ \A q \in Carried(seen[d], c) \cup Attempts(seen[d], c) : ~Beats(q, r)
    OBVIOUS
  <2> DEFINE r == doc[d].fields[c]
             e == c[1]
  <2>1. doc \in [Device -> Doc] /\ e \in Entry
    BY DEF IInv, TypeOK, Cell
  <2>2. doc'[d] = [doc[d] EXCEPT !.entries = Add(doc[d].entries, e, d)]
    BY <2>1 DEF AddEntry, AddEntryTo
  <2>3. doc'[d].fields = doc[d].fields /\ doc'[d].entries = Add(doc[d].entries, e, d)
    BY <2>1, <2>2, DocShape
  <2>4. Present(doc'[d].entries, e)
    <3>1. doc[d].entries.entries \in [Entry -> SUBSET Dot]
      BY <2>1, DocShape, AWSetShape
    <3> QED
      BY <2>1, <2>3, <3>1 DEF Add, Present
  <2>5. /\ r \in Carried(seen[d], c) /\ r # Unwritten
        /\ \A q \in Carried(seen[d], c) \cup Attempts(seen[d], c) : ~Beats(q, r)
    BY RegisterFacts DEF Carried
  <2>6. FieldValue(doc'[d], c) = r.value
    BY <2>3, <2>4, <2>5 DEF FieldValue
  <2> QED
    BY <2>5, <2>6
<1>2. Spec => [][Shows]_vars
  BY <1>1, AlwaysIInv, PTL DEF Spec
<1> QED
  BY <1>2 DEF ReAddShowsLargestWrite

\* A cell goes from a register to a later one only.
Grows(x, y) == x # y => x = Unwritten \/ (y # Unwritten /\ Beats(y, x))

LEMMA CellGrows ==
  ASSUME NEW a \in Slot, NEW b \in Slot
  PROVE  Grows(a, MergeCell(a, b))
  BY MergeCellFacts, UnwrittenAssumption DEF Grows, MergeRegister, Slot

(***************************************************************************)
(* A register only ever grows, through removals and re-additions of its    *)
(* entry and through restarts (model/mod.rs:111).                          *)
(***************************************************************************)
THEOREM RegistersOnlyGrow == Spec => RegistersGrow
<1>1. ASSUME IInv, [Next]_vars, NEW d \in Device, NEW c \in Cell
      PROVE  Grows(doc[d].fields[c], doc'[d].fields[c])
  <2> DEFINE x == doc[d].fields[c]
             y == doc'[d].fields[c]
  <2>1. doc \in [Device -> Doc] /\ \A s \in Device : DocOK(doc[s])
    BY <1>1 DEF IInv, TypeOK, Replicas
  <2>2. \A s \in Device : doc[s].fields \in [Cell -> Slot]
    BY <2>1, DocShape
  <2>3. ASSUME NEW s \in Device, NEW b, DocOK(b), NEW ops, MergeAndAdvance(s, b, ops)
        PROVE  Grows(x, y)
    <3>1. doc' = [doc EXCEPT ![s] = MergeDoc(doc[s], b)]
      BY <2>3 DEF MergeAndAdvance
    <3>2. CASE s = d
      <4>1. y = MergeCell(x, b.fields[c])
        BY <2>1, <2>3, <3>1, <3>2, MergeDocShape
      <4>2. x \in Slot /\ b.fields[c] \in Slot
        BY <2>2, <2>3, DocShape DEF DocOK
      <4> QED
        BY <4>1, <4>2, CellGrows
    <3>3. CASE s # d
      BY <2>1, <3>1, <3>3 DEF Grows
    <3> QED
      BY <3>2, <3>3
  <2>4. ASSUME NEW s \in Device, NEW e \in Entry, AddEntry(s, e) \/ RemoveEntry(s, e)
        PROVE  Grows(x, y)
    BY <1>1, <2>4, QuietStep DEF Grows
  <2>5. ASSUME NEW s \in Device, NEW k \in Cell, WriteField(s, k)
        PROVE  Grows(x, y)
    <3>1. PICK op \in Write : Wrote(s, k, op)
      BY <1>1, <2>5, WriteFacts
    <3>2. CASE s = d /\ k = c
      <4>1. y = Written(doc[d], c, op.attempt.value, op.attempt.ts)
        BY <2>2, <3>1, <3>2 DEF Wrote
      <4> DEFINE r == NewRegister(op.attempt.value, op.attempt.ts)
      <4>2. r \in Register /\ r # Unwritten
        BY UnwrittenAssumption DEF Write, Register, NewRegister
      <4>3. y = IF x = Unwritten \/ Beats(r, x) THEN r ELSE x
        BY <4>1 DEF Written, SetRegister
      <4> HIDE DEF r, x, y
      <4> QED
        BY <4>2, <4>3 DEF Grows
    <3>3. CASE ~(s = d /\ k = c)
      BY <2>2, <3>1, <3>3 DEF Wrote, Grows
    <3> QED
      BY <3>2, <3>3
  <2>6. ASSUME NEW s \in Device, Deliver(s)
        PROVE  Grows(x, y)
    <3>1. PICK op \in log : MergeAndAdvance(s, op.delta, {op})
      BY <2>6 DEF Deliver
    <3>2. DocOK(op.delta)
      BY <1>1 DEF IInv, GoodLog, GoodOp
    <3> QED
      BY <2>3, <3>1, <3>2
  <2>7. ASSUME NEW s \in Device, Snapshot(s)
        PROVE  Grows(x, y)
    BY <2>1, <2>3, <2>7 DEF Snapshot
  <2>8. ASSUME NEW s \in Device, Restart(s)
        PROVE  Grows(x, y)
    BY <2>8 DEF Restart, Grows
  <2>9. CASE UNCHANGED vars
    BY <2>9 DEF vars, Grows
  <2>10. CASE Next
    BY <2>4, <2>5, <2>6, <2>7, <2>8, <2>10 DEF Next, Operate
  <2> QED
    BY <1>1, <2>9, <2>10
<1>2. IInv /\ [Next]_vars =>
        [\A d \in Device, c \in Cell :
           doc[d].fields[c] # doc'[d].fields[c] =>
             \/ doc[d].fields[c] = Unwritten
             \/ doc'[d].fields[c] # Unwritten /\ Beats(doc'[d].fields[c], doc[d].fields[c])]_vars
  BY <1>1 DEF Grows
<1> QED
  BY <1>2, AlwaysIInv, PTL DEF Spec, RegistersGrow
-----------------------------------------------------------------------------
(* The clocks, in their domain.                                            *)

\* The registers an operation ships are stamped within the bound on clocks.
Low(op) ==
  \A c \in Cell :
    op.delta.fields[c] # Unwritten => op.delta.fields[c].ts.hlc.wall <= LastWall + 1

Covered == \A d \in Device : \A h \in Stamps(doc[d]) : HlcLeq(h, clock[d])

Causal == \A w1, w2 \in Writes(log) :
            w1.id \in w2.past => TsLess(w1.attempt.ts, w2.attempt.ts)

Distinct == \A w1, w2 \in Writes(log) : w1.attempt.ts = w2.attempt.ts => w1 = w2

\* The second layer of the inductive invariant.
ClockInv == (\A op \in log : Low(op)) /\ Covered /\ Causal /\ Distinct

LEMMA LowDoc ==
  ASSUME NEW x, NEW ops, DocJoin(x, ops), \A op \in ops : Low(op),
         NEW h \in Stamps(x)
  PROVE  h.wall <= LastWall + 1
<1>1. PICK c \in Cell : x.fields[c] # Unwritten /\ h = x.fields[c].ts.hlc
  BY DEF Stamps
<1>2. x.fields[c] \in Carried(ops, c)
  BY <1>1 DEF DocJoin, IsLargest
<1>3. PICK op \in ops : x.fields[c] = op.delta.fields[c]
  BY <1>2 DEF Carried
<1> QED
  BY <1>1, <1>3 DEF Low

\* A clock within its bound moves past the registers of a document.
LEMMA AdvanceCovers ==
  ASSUME InDomain, NEW last \in Hlc, last.wall <= LastWall, NEW now \in Now,
         NEW x \in Doc, \A h \in Stamps(x) : h.wall <= LastWall + 1,
         NEW g \in Stamps(x)
  PROVE  HlcLeq(g, Advance(last, now, x))
<1> DEFINE top == MaxHlc(x)
           new == Update(last, now, top)
<1>1. top \in Stamps(x) /\ top \in Hlc /\ g \in Hlc /\ HlcLeq(g, top)
  BY MaxHlcFacts
<1>2. Advance(last, now, x) = new
  BY DEF Advance
<1>3. now \in Wall
  BY NowAssumption
<1> HIDE DEF top
<1>4. last.wall < MaxWall /\ top.wall < MaxWall
  BY <1>1, LastWallAssumption, HlcAssumption, HlcShape DEF InDomain
<1>5. ~Saturated(Later(last, top))
  BY <1>1, <1>4, LaterFacts, HlcAssumption DEF Saturated
<1>6. new \in Hlc /\ HlcLess(top, new)
  BY <1>1, <1>3, <1>5, UpdateFacts
<1> HIDE DEF new
<1>7. HlcLess(g, new)
  BY <1>1, <1>6, HlcOrder DEF HlcLeq
<1> QED
  BY <1>2, <1>7 DEF HlcLeq

\* A clock within its bound ticks above itself and by one wall at most.
LEMMA TickFacts ==
  ASSUME InDomain, NEW h \in Hlc, h.wall <= LastWall, NEW now \in Now
  PROVE  /\ NextLocal(h, now) \in Hlc /\ HlcLess(h, NextLocal(h, now))
         /\ NextLocal(h, now).wall <= LastWall + 1
<1>1. /\ h.wall \in 0 .. MaxWall /\ h.counter \in 0 .. MaxCounter /\ now \in Wall
      /\ MaxWall \in Nat /\ MaxCounter \in Nat /\ LastWall \in Nat
      /\ h = [wall |-> h.wall, counter |-> h.counter]
      /\ h.wall + 1 <= MaxWall /\ now <= LastWall + 1
  BY HlcShape, NowAssumption, LastWallAssumption, HlcAssumption DEF InDomain
<1>2. ~Saturated(h)
  BY <1>1 DEF Saturated
<1>3. NextLocal(h, now) \in Hlc /\ HlcLess(h, NextLocal(h, now))
  BY <1>1, <1>2, NextLocalFacts
<1>4. Inc(h).wall <= h.wall + 1
  <2>1. CASE h.counter < MaxCounter
    BY <1>1, <2>1 DEF Inc
  <2>2. CASE ~(h.counter < MaxCounter)
    <3>1. Min({h.wall + 1, MaxWall}) = h.wall + 1
      BY <1>1 DEF Min
    <3> QED
      BY <1>1, <2>2, <3>1 DEF Inc
  <2> QED
    BY <2>1, <2>2
<1>5. NextLocal(h, now).wall <= LastWall + 1
  <2>1. CASE now > h.wall
    BY <1>1, <2>1 DEF NextLocal
  <2>2. CASE ~(now > h.wall)
    <3>1. NextLocal(h, now) = Inc(h)
      BY <2>2 DEF NextLocal
    <3>2. Inc(h).wall \in Int
      BY <1>1, IncFacts, HlcShape
    <3> QED
      BY <1>1, <1>4, <3>1, <3>2
  <2> QED
    BY <2>1, <2>2
<1> QED
  BY <1>3, <1>5

\* A device's clock is not behind any write it took in.
LEMMA KnownStamps ==
  ASSUME IInv, Covered, NEW d \in Device, NEW w \in seen[d], w.kind = "write"
  PROVE  /\ w.attempt.ts.hlc \in Hlc /\ clock[d] \in Hlc
         /\ HlcLeq(w.attempt.ts.hlc, clock[d])
<1> DEFINE x == doc[d].fields[w.cell]
           r == w.attempt
<1>1. w \in Op \cup Write
  BY DEF IInv, Replicas, GoodLog
<1>2. w.cell \in Cell /\ r \in Register
  BY <1>1, OpFacts
<1>3. r \in Attempts(seen[d], w.cell)
  BY DEF Attempts, Writes
<1>4. /\ Carried(seen[d], w.cell) \in SUBSET Register
      /\ x \in Carried(seen[d], w.cell) /\ ~Beats(r, x)
  BY <1>2, <1>3, RegisterFacts
<1>5. x \in Register /\ x # Unwritten
  BY <1>4, UnwrittenAssumption
<1>6. x.ts.hlc \in Hlc /\ r.ts.hlc \in Hlc /\ x.ts \in Timestamp /\ r.ts \in Timestamp
  BY <1>2, <1>5 DEF Register, Timestamp
<1>7. clock[d] \in Hlc
  BY DEF IInv, TypeOK
<1>8. HlcLeq(x.ts.hlc, clock[d])
  BY <1>2, <1>5 DEF Covered, Stamps
<1>9. ~HlcLess(x.ts.hlc, r.ts.hlc)
  BY <1>4 DEF Beats, TsLess
<1> HIDE DEF x, r
<1>10. HlcLeq(r.ts.hlc, clock[d])
  BY <1>6, <1>7, <1>8, <1>9, HlcOrder DEF HlcLeq
<1> QED
  BY <1>6, <1>7, <1>10 DEF r

\* A write is stamped above all that its author knew, and is what it stores.
LEMMA WriteIsLatest ==
  ASSUME InDomain, IInv, Covered, NEW d \in Device, NEW c \in Cell,
         CanMove(d), \E now \in Now : clock' = [clock EXCEPT ![d] = NextLocal(clock[d], now)],
         NEW op \in Write, Wrote(d, c, op)
  PROVE  /\ clock'[d] \in Hlc /\ clock'[d].wall <= LastWall + 1
         /\ HlcLess(clock[d], clock'[d])
         /\ doc'[d].fields[c] = op.attempt
<1>1. PICK now \in Now : clock' = [clock EXCEPT ![d] = NextLocal(clock[d], now)]
  OBVIOUS
<1>2. clock \in [Device -> Hlc] /\ doc \in [Device -> Doc]
  BY DEF IInv, TypeOK
<1>3. /\ clock'[d] \in Hlc /\ clock'[d].wall <= LastWall + 1
      /\ HlcLess(clock[d], clock'[d])
  BY <1>1, <1>2, TickFacts DEF CanMove
<1> DEFINE x == doc[d].fields[c]
           r == op.attempt
<1>4. x \in Slot /\ r \in Register /\ r.ts = [hlc |-> clock'[d], device |-> d]
  BY <1>2, DocShape DEF Wrote, Write
<1>5. doc'[d].fields[c] = Written(doc[d], c, r.value, r.ts)
  <2>1. doc[d].fields \in [Cell -> Slot]
    BY <1>2, DocShape
  <2> QED
    BY <2>1 DEF Wrote
<1>6. NewRegister(r.value, r.ts) = r
  BY <1>4 DEF NewRegister, Register
<1>7. x # Unwritten => Beats(r, x)
  <2> SUFFICES ASSUME x # Unwritten PROVE Beats(r, x)
    OBVIOUS
  <2>1. x \in Register /\ x.ts.hlc \in Hlc
    BY <1>4 DEF Slot, Register, Timestamp
  <2>2. HlcLeq(x.ts.hlc, clock[d])
    BY DEF Covered, Stamps
  <2>3. HlcLess(x.ts.hlc, clock'[d])
    BY <1>2, <1>3, <2>1, <2>2, HlcOrder DEF HlcLeq
  <2>4. TsLess(x.ts, r.ts)
    BY <1>4, <2>3 DEF TsLess
  <2> QED
    BY <2>4 DEF Beats
<1>8. Written(doc[d], c, r.value, r.ts) = r
  BY <1>6, <1>7 DEF Written, SetRegister
<1> QED
  BY <1>3, <1>5, <1>8

LEMMA InitClock == Init => ClockInv
<1> SUFFICES ASSUME Init PROVE ClockInv
  OBVIOUS
<1>1. log = {} /\ \A d \in Device : doc[d] = NewDoc
  BY DEF Init
<1>2. Stamps(NewDoc) = {}
  BY NewDocFacts DEF Stamps
<1> QED
  BY <1>1, <1>2 DEF ClockInv, Covered, Causal, Distinct, Writes

\* A write keeps the second layer.
LEMMA WriteClock ==
  ASSUME InDomain, IInv, ClockInv, NEW d \in Device, NEW c \in Cell, WriteField(d, c)
  PROVE  ClockInv'
<1>1. PICK op \in Write : Wrote(d, c, op)
  BY WriteFacts
<1>2. /\ clock'[d] \in Hlc /\ clock'[d].wall <= LastWall + 1
      /\ HlcLess(clock[d], clock'[d]) /\ doc'[d].fields[c] = op.attempt
  BY <1>1, WriteFacts, WriteIsLatest DEF ClockInv
<1>3. /\ op.attempt.ts.hlc = clock'[d] /\ op.attempt.ts.device = d
      /\ op.id.device = d /\ op.id \notin Ids(log) /\ op.past = Past(d)
      /\ log' = log \cup {op}
      /\ op.kind = "write"
  BY <1>1 DEF Wrote, Write
<1>4. \A o \in log' : Low(o)
  BY <1>1, <1>2, <1>3 DEF Wrote, Low, ClockInv
<1>5. ASSUME NEW w \in log, w.kind = "write", w \in seen[d]
      PROVE  HlcLess(w.attempt.ts.hlc, clock'[d])
  <2>1. /\ w.attempt.ts.hlc \in Hlc /\ clock[d] \in Hlc
        /\ HlcLeq(w.attempt.ts.hlc, clock[d])
    BY <1>5, KnownStamps DEF ClockInv
  <2> QED
    BY <1>2, <2>1, HlcOrder DEF HlcLeq
<1>6. Covered'
  <2>1. ASSUME NEW s \in Device, NEW k \in Cell, doc'[s].fields[k] # Unwritten
        PROVE  HlcLeq(doc'[s].fields[k].ts.hlc, clock'[s])
    <3>1. \A t \in Device : \A j \in Cell : doc[t].fields[j] # Unwritten =>
            HlcLeq(doc[t].fields[j].ts.hlc, clock[t]) /\ doc[t].fields[j].ts.hlc \in Hlc
      <4>1. \A t \in Device : \A j \in Cell : doc[t].fields[j] \in Slot
        BY DocShape DEF IInv, TypeOK
      <4> QED
        BY <4>1 DEF ClockInv, Covered, Stamps, Slot, Register, Timestamp
    <3>2. CASE s # d
      BY <1>1, <2>1, <3>1, <3>2 DEF Wrote
    <3>3. CASE s = d /\ k = c
      BY <1>2, <1>3, <3>3 DEF HlcLeq
    <3>4. CASE s = d /\ k # c
      <4>1. doc'[d].fields[k] = doc[d].fields[k]
        <5>1. doc[d].fields \in [Cell -> Slot]
          BY DocShape DEF IInv, TypeOK
        <5> QED
          BY <1>1, <3>4, <5>1 DEF Wrote
      <4>2. clock[d] \in Hlc
        BY DEF IInv, TypeOK
      <4> QED
        BY <1>2, <2>1, <3>1, <3>4, <4>1, <4>2, HlcOrder DEF HlcLeq
    <3> QED
      BY <3>2, <3>3, <3>4
  <2> QED
    BY <2>1 DEF Covered, Stamps
<1>7. \A o1, o2 \in log : o1 # o2 => o1.id # o2.id
  BY DEF IInv, GoodLog
<1>8. Causal'
  <2> SUFFICES ASSUME NEW w1 \in Writes(log'), NEW w2 \in Writes(log'), w1.id \in w2.past
               PROVE  TsLess(w1.attempt.ts, w2.attempt.ts)
    BY DEF Causal, Writes
  <2>1. w1 \in log \cup {op} /\ w2 \in log \cup {op} /\ w1.kind = "write" /\ w2.kind = "write"
    BY <1>3 DEF Writes
  <2>2. w2.past \subseteq Ids(log)
    <3>1. Past(d) \subseteq Ids(log)
      BY DEF Past, Ids, IInv, Replicas
    <3> QED
      BY <1>3, <2>1, <3>1 DEF IInv, GoodLog
  <2>3. w1 \in log
    BY <1>3, <2>1, <2>2
  <2>4. CASE w2 = op
    <3>1. PICK o \in seen[d] : o.id = w1.id
      BY <1>3, <2>4 DEF Past, Ids
    <3>2. o \in log
      BY DEF IInv, Replicas
    <3>3. o = w1
      BY <1>7, <2>3, <3>1, <3>2
    <3> QED
      BY <1>3, <1>5, <2>1, <2>3, <2>4, <3>3 DEF TsLess
  <2>5. CASE w2 \in log
    BY <2>1, <2>3, <2>5 DEF ClockInv, Causal, Writes
  <2> QED
    BY <2>1, <2>4, <2>5
<1>9. ASSUME NEW w \in log, w.kind = "write"
      PROVE  w.attempt.ts # op.attempt.ts
  <2> SUFFICES ASSUME w.attempt.ts = op.attempt.ts PROVE FALSE
    OBVIOUS
  <2>1. w.id.device = d
    BY <1>3, <1>9 DEF IInv, GoodLog, GoodOp
  <2>2. w \in seen[d]
    BY <2>1 DEF IInv, Replicas, Issued
  <2>3. HlcLess(clock'[d], clock'[d])
    BY <1>3, <1>5, <1>9, <2>2
  <2> QED
    BY <1>2, <2>3, HlcOrder
<1>10. Distinct'
  BY <1>3, <1>9 DEF Distinct, Writes, ClockInv
<1> QED
  BY <1>4, <1>6, <1>8, <1>10 DEF ClockInv

\* A clock moved past its replica's registers keeps the second layer.
LEMMA AdvanceClock ==
  ASSUME InDomain, IInv, IInv', ClockInv, NEW d \in Device, NEW now \in Now,
         NEW last \in Hlc, last.wall <= LastWall,
         clock' = [clock EXCEPT ![d] = Advance(last, now, doc'[d])],
         log' = log, \A s \in Device : s # d => doc'[s] = doc[s]
  PROVE  ClockInv'
<1>1. clock \in [Device -> Hlc] /\ doc'[d] \in Doc /\ seen'[d] \subseteq log
      /\ DocJoin(doc'[d], seen'[d])
  BY DEF IInv, TypeOK, Replicas
<1>2. \A h \in Stamps(doc'[d]) : h.wall <= LastWall + 1
  <2>1. \A op \in seen'[d] : Low(op)
    BY <1>1 DEF ClockInv
  <2> QED
    BY <1>1, <2>1, LowDoc
<1>3. \A h \in Stamps(doc'[d]) : HlcLeq(h, clock'[d])
  BY <1>1, <1>2, AdvanceCovers
<1>4. \A s \in Device : s # d => clock'[s] = clock[s]
  BY <1>1
<1>5. \A s \in Device : \A h \in Stamps(doc'[s]) : HlcLeq(h, clock'[s])
  BY <1>3, <1>4 DEF ClockInv, Covered
<1> QED
  BY <1>5 DEF ClockInv, Covered, Causal, Distinct, Writes

LEMMA StepClock == InDomain /\ IInv /\ ClockInv /\ [Next]_vars => ClockInv'
<1> SUFFICES ASSUME InDomain, IInv, ClockInv, [Next]_vars PROVE ClockInv'
  OBVIOUS
<1>1. IInv'
  BY StepIInv
<1>2. ASSUME NEW d \in Device, NEW e \in Entry, AddEntry(d, e) \/ RemoveEntry(d, e)
      PROVE  ClockInv'
  <2>1. PICK op : /\ log' = log \cup {op} /\ op.kind # "write"
                  /\ \A c \in Cell : op.delta.fields[c] = Unwritten
    BY <1>2, QuietStep
  <2>2. clock' = clock /\ \A s \in Device : doc'[s].fields = doc[s].fields
    BY <1>2, QuietStep
  <2>3. \A o \in log' : Low(o)
    BY <2>1 DEF Low, ClockInv
  <2>4. Covered'
    BY <2>2 DEF Covered, Stamps, ClockInv
  <2>5. Causal' /\ Distinct'
    BY <2>1 DEF Causal, Distinct, Writes, ClockInv
  <2> QED
    BY <2>3, <2>4, <2>5 DEF ClockInv
<1>3. ASSUME NEW d \in Device, NEW x, NEW ops, MergeAndAdvance(d, x, ops)
      PROVE  ClockInv'
  <2>1. PICK now \in Now :
          /\ CanMove(d) /\ log' = log
          /\ doc'   = [doc EXCEPT ![d] = MergeDoc(doc[d], x)]
          /\ clock' = [clock EXCEPT ![d] = Advance(clock[d], now, MergeDoc(doc[d], x))]
    BY <1>3 DEF MergeAndAdvance
  <2>2. clock[d] \in Hlc /\ clock[d].wall <= LastWall /\ doc \in [Device -> Doc]
    BY <2>1 DEF IInv, TypeOK, CanMove
  <2>3. doc'[d] = MergeDoc(doc[d], x) /\ \A s \in Device : s # d => doc'[s] = doc[s]
    BY <2>1, <2>2
  <2>4. clock' = [clock EXCEPT ![d] = Advance(clock[d], now, doc'[d])]
    BY <2>1, <2>3
  <2> QED
    BY <1>1, <2>1, <2>2, <2>3, <2>4, AdvanceClock
<1>4. ASSUME NEW d \in Device, Restart(d)
      PROVE  ClockInv'
  <2>1. PICK now \in Now : clock' = [clock EXCEPT ![d] = Advance(ZeroHlc, now, doc[d])]
    BY <1>4 DEF Restart
  <2>2. doc' = doc /\ log' = log
    BY <1>4 DEF Restart
  <2>3. ZeroHlc \in Hlc /\ ZeroHlc.wall <= LastWall
    BY HlcAssumption, LastWallAssumption DEF ZeroHlc, Hlc, Wall
  <2>4. clock' = [clock EXCEPT ![d] = Advance(ZeroHlc, now, doc'[d])]
    BY <2>1, <2>2
  <2> QED
    BY <1>1, <2>2, <2>3, <2>4, AdvanceClock
<1>5. ASSUME NEW d \in Device, NEW c \in Cell, WriteField(d, c)
      PROVE  ClockInv'
  BY <1>5, WriteClock
<1>6. CASE UNCHANGED vars
  BY <1>6 DEF vars, ClockInv, Covered, Causal, Distinct
<1>7. CASE Next
  <2>1. PICK d \in Device : Operate(d) \/ Deliver(d) \/ Snapshot(d) \/ Restart(d)
    BY <1>7 DEF Next
  <2>2. CASE Operate(d)
    BY <1>2, <1>5, <2>2 DEF Operate
  <2>3. CASE Deliver(d)
    BY <1>3, <2>3 DEF Deliver
  <2>4. CASE Snapshot(d)
    BY <1>3, <2>4 DEF Snapshot
  <2>5. CASE Restart(d)
    BY <1>4, <2>5
  <2> QED
    BY <2>1, <2>2, <2>3, <2>4, <2>5
<1> QED
  BY <1>6, <1>7

\* In the domain of the clock, the second layer holds.
LEMMA AlwaysClockInv == Spec => [](InDomain => ClockInv)
<1>1. Init => (InDomain => ClockInv)
  BY InitClock
<1>2. IInv /\ (InDomain => ClockInv) /\ [Next]_vars => (InDomain => ClockInv)'
  BY StepClock DEF InDomain
<1> QED
  BY <1>1, <1>2, AlwaysIInv, PTL DEF Spec
-----------------------------------------------------------------------------

(***************************************************************************)
(* A device's clock is never behind a register it holds, of a removed      *)
(* entry or not, restarts included (model/mod.rs:202).                     *)
(***************************************************************************)
THEOREM ClockCovers == Spec => []ClockCoversDoc
<1>1. (InDomain => ClockInv) => ClockCoversDoc
  BY DEF ClockInv, Covered, ClockCoversDoc
<1> QED
  BY <1>1, AlwaysClockInv, PTL

(***************************************************************************)
(* Timestamps respect causality (hlc.rs:1): a write the author of another  *)
(* had taken in has the smaller timestamp.                                 *)
(***************************************************************************)
THEOREM StampsCausal == Spec => []StampsFollowCausality
<1>1. (InDomain => ClockInv) => StampsFollowCausality
  BY DEF ClockInv, Causal, StampsFollowCausality
<1> QED
  BY <1>1, AlwaysClockInv, PTL

(***************************************************************************)
(* No two writes share a timestamp (lww.rs:6), restarts included.          *)
(***************************************************************************)
THEOREM StampsDistinct == Spec => []StampsUnique
<1>1. (InDomain => ClockInv) => StampsUnique
  BY DEF ClockInv, Distinct, StampsUnique
<1> QED
  BY <1>1, AlwaysClockInv, PTL

(***************************************************************************)
(* A device's own write is what it then reads in the register, whatever it *)
(* merged before, whatever its physical clock says and after any restart   *)
(* (lww.rs:49).                                                            *)
(***************************************************************************)
THEOREM LocalWritesWin == Spec => LocalWriteWins
<1> DEFINE Wins == \A d \in Device, c \in Cell :
             InDomain /\ WriteField(d, c) =>
               \E op \in log' \ log : op.id.device = d /\ doc'[d].fields[c] = op.attempt
<1>1. IInv /\ (InDomain => ClockInv) /\ [Next]_vars => [Wins]_vars
  <2> SUFFICES ASSUME IInv, ClockInv, InDomain, NEW d \in Device, NEW c \in Cell, WriteField(d, c)
               PROVE  \E op \in log' \ log : op.id.device = d /\ doc'[d].fields[c] = op.attempt
    OBVIOUS
  <2>1. PICK op \in Write : Wrote(d, c, op)
    BY WriteFacts
  <2>2. doc'[d].fields[c] = op.attempt
    BY <2>1, WriteFacts, WriteIsLatest DEF ClockInv
  <2>3. op \in log' \ log /\ op.id.device = d
    BY <2>1 DEF Wrote, Ids
  <2> QED
    BY <2>2, <2>3
<1>2. Spec => [][Wins]_vars
  BY <1>1, AlwaysIInv, AlwaysClockInv, PTL DEF Spec
<1> QED
  BY <1>2 DEF LocalWriteWins
=============================================================================
