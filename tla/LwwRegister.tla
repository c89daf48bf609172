---------------------------- MODULE LwwRegister -----------------------------
(***************************************************************************)
(* The last-writer-wins register of src/crdt/lww.rs over the timestamps of *)
(* src/crdt/mod.rs: a value and the hybrid time and device of its writing. *)
(***************************************************************************)
EXTENDS Devices, HybridClock

CONSTANT Value   (* the values of a field; ciphertexts in the vault        *)

\* Timestamps and values have the derived total orders; numbers stand for both.
ASSUME DeviceOrdered == Device \subseteq Int
ASSUME ValueOrdered  == Value \subseteq Int

Timestamp == [hlc : Hlc, device : Device]
Register  == [value : Value, ts : Timestamp]

TsLess(s, t) == HlcLess(s.hlc, t.hlc) \/ (s.hlc = t.hlc /\ s.device < t.device)

NewRegister(value, ts) == [value |-> value, ts |-> ts]

\* The order of the pairs (timestamp, value), which set and merge maximise.
Beats(q, r) == TsLess(r.ts, q.ts) \/ (q.ts = r.ts /\ q.value > r.value)

\* A slip in merge: the register received last stays.
MergeTakesOther(a, b) == b

\* A slip in merge: equal timestamps are not told apart by the value.
MergeByTime(a, b) == IF TsLess(a.ts, b.ts) THEN b ELSE a

\* merge: the larger of the two registers.
MergeRegister(a, b) == IF Beats(b, a) THEN b ELSE a

\* A slip in set: a local write is stored whatever its timestamp.
SetOverwrites(r, value, ts) == NewRegister(value, ts)

\* set: a local write is stored if it beats the register.
SetRegister(r, value, ts) ==
  IF Beats(NewRegister(value, ts), r) THEN NewRegister(value, ts) ELSE r
=============================================================================
