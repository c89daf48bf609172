------------------------------ MODULE VaultDoc ------------------------------
(***************************************************************************)
(* The document of a vault (src/model/mod.rs): which entries are present,  *)
(* an add-wins set, and one last-writer-wins register per written field of *)
(* an entry.  Every operation returns the changed document and a delta, a  *)
(* partial document that is shipped to the other replicas.                 *)
(***************************************************************************)
EXTENDS AddWinsSet, LwwRegister

CONSTANTS
  Field,      (* the field tags (FieldId)                                  *)
  Unwritten   (* stands for the absence of a register from the map         *)

ASSUME UnwrittenAssumption == Unwritten \notin Register

Cell   == Entry \X Field
Fields == [Cell -> Register \cup {Unwritten}]
Doc    == [entries : AWSet, fields : Fields]

NoFields == [c \in Cell |-> Unwritten]
NewDoc   == [entries |-> EmptySet, fields |-> NoFields]

-----------------------------------------------------------------------------

AddEntryTo(doc, e, d)    == [doc EXCEPT !.entries = Add(@, e, d)]
AddEntryDelta(doc, e, d) == [entries |-> AddDelta(doc.entries, e, d), fields |-> NoFields]

\* A slip in remove_entry: the registers of an entry that is there go with it.
RemoveEntryAndFields(doc, e) ==
  [entries |-> Remove(doc.entries, e),
   fields  |-> [c \in Cell |->
                 IF c[1] = e /\ Present(doc.entries, e) THEN Unwritten ELSE doc.fields[c]]]

\* remove_entry keeps the registers, for a write concurrent with the removal.
RemoveEntryFrom(doc, e)  == [doc EXCEPT !.entries = Remove(@, e)]
RemoveEntryDelta(doc, e) == [entries |-> RemoveDelta(doc.entries, e), fields |-> NoFields]

\* set_field: the register after the write, which loses to a later one.
Written(doc, c, value, ts) ==
  IF doc.fields[c] = Unwritten THEN NewRegister(value, ts)
  ELSE SetRegister(doc.fields[c], value, ts)

SetField(doc, c, value, ts) ==
  [doc EXCEPT !.fields[c] = Written(doc, c, value, ts)]

\* The delta of set_field carries the resulting register, not the attempt.
SetFieldDelta(doc, c, value, ts) ==
  [NewDoc EXCEPT !.fields[c] = Written(doc, c, value, ts)]

\* field: the value of a field, of an entry that is present.
FieldValue(doc, c) ==
  IF Present(doc.entries, c[1]) /\ doc.fields[c] # Unwritten
  THEN doc.fields[c].value ELSE Unwritten

\* merge, a map entry at a time: a register one side only has is taken.
MergeCell(a, b) ==
  CASE a = Unwritten                   -> b
    [] a # Unwritten /\ b = Unwritten -> a
    [] OTHER                          -> MergeRegister(a, b)

MergeDoc(a, b) ==
  [entries |-> MergeSet(a.entries, b.entries),
   fields  |-> [c \in Cell |-> MergeCell(a.fields[c], b.fields[c])]]

-----------------------------------------------------------------------------

\* A slip in max_hlc: the registers of removed entries are passed over.
PresentStamps(doc) ==
  {doc.fields[c].ts.hlc :
     c \in {x \in Cell : doc.fields[x] # Unwritten /\ Present(doc.entries, x[1])}}

\* The hybrid times of the registers, those of removed entries included.
Stamps(doc) == {doc.fields[c].ts.hlc : c \in {x \in Cell : doc.fields[x] # Unwritten}}

\* max_hlc, defined when some field has been written.
MaxHlc(doc) == CHOOSE h \in Stamps(doc) : \A g \in Stamps(doc) : HlcLeq(g, h)

\* The clock moved past a document's registers, as its caller does after a
\* merge (the reason given for max_hlc).
Advance(clock, now, doc) ==
  IF Stamps(doc) = {} THEN clock ELSE Update(clock, now, MaxHlc(doc))
=============================================================================
