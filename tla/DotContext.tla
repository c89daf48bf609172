----------------------------- MODULE DotContext -----------------------------
(***************************************************************************)
(* Dots and the compact causal context (src/crdt/dot.rs).                  *)
(*                                                                         *)
(* A dot <<device, counter>> labels one add.  A context records the dots a *)
(* replica has observed: per device a contiguous prefix 1 .. cc[device],   *)
(* plus a cloud dc of the dots seen beyond a hole.  cc is a BTreeMap in    *)
(* the code and never stores 0, so a missing key is 0 here.                *)
(***************************************************************************)
EXTENDS Devices, Integers, FiniteSetsExt

CONSTANT MaxDot   (* the largest counter of a dot: u64::MAX in the code    *)

ASSUME MaxDotAssumption == MaxDot \in Nat \ {0}

Dot     == [device : Device, counter : 1 .. MaxDot]
Context == [cc : [Device -> 0 .. MaxDot], dc : SUBSET Dot]

DotOf(d, n) == [device |-> d, counter |-> n]

NewContext == [cc |-> [d \in Device |-> 0], dc |-> {}]

Contains(ctx, dot) == dot.counter <= ctx.cc[dot.device] \/ dot \in ctx.dc

\* The set of dots a context stands for.
Dots(ctx) == {dot \in Dot : Contains(ctx, dot)}

(***************************************************************************)
(* compact_device: starting at cc[d], the loop removes the successor from  *)
(* the cloud as long as it finds it there.  It stops at the first n whose  *)
(* successor is not in the cloud, with d's dots up to n absorbed.          *)
(***************************************************************************)
PrefixEnd(ctx, d) == Min({n \in ctx.cc[d] .. MaxDot : DotOf(d, n + 1) \notin ctx.dc})

\* compact_device called for each device of the set `devices`.
Compact(ctx, devices) ==
  LET end == [d \in Device |-> IF d \in devices THEN PrefixEnd(ctx, d) ELSE ctx.cc[d]]
  IN  [cc |-> end,
       dc |-> {dot \in ctx.dc :
                 dot.counter \notin ctx.cc[dot.device] + 1 .. end[dot.device]}]

Insert(ctx, dot) ==
  IF Contains(ctx, dot) THEN ctx
  ELSE Compact([ctx EXCEPT !.dc = @ \cup {dot}], {dot.device})

\* The counters of d that a context holds, prefix and cloud.
Observed(ctx, d) ==
  {ctx.cc[d]} \cup {dot.counter : dot \in {x \in ctx.dc : x.device = d}}

\* A slip in next_dot: the counters in the cloud are forgotten.
PrefixCounter(ctx, d) == ctx.cc[d]

\* next_dot counts on from the larger of the prefix and the cloud's maximum.
LastCounter(ctx, d) == Max(Observed(ctx, d))

\* next_dot's `+ 1` stays inside u64.
CanMint(ctx, d) == LastCounter(ctx, d) < MaxDot

\* A slip in next_dot: the last counter is used again.
NextDotAgain(ctx, d) == DotOf(d, LastCounter(ctx, d))

\* The dot next_dot returns; it also inserts it (see the callers).
NextDot(ctx, d) == DotOf(d, LastCounter(ctx, d) + 1)

\* A slip in merge: the prefixes are added up.
MergeSums(a, b) ==
  LET cc == [d \in Device |-> a.cc[d] + b.cc[d]]
      dc == {dot \in a.dc \cup b.dc : dot.counter > cc[dot.device]}
  IN  Compact([cc |-> cc, dc |-> dc], {dot.device : dot \in dc})

\* A slip in merge: the cloud is not purged of what the prefix now covers.
MergeUnpurged(a, b) ==
  LET cc == [d \in Device |-> Max({a.cc[d], b.cc[d]})]
      dc == a.dc \cup b.dc
  IN  Compact([cc |-> cc, dc |-> dc], {dot.device : dot \in dc})

\* A slip in merge: the runs that became contiguous are not compacted.
MergeUncompacted(a, b) ==
  LET cc == [d \in Device |-> Max({a.cc[d], b.cc[d]})]
  IN  [cc |-> cc, dc |-> {dot \in a.dc \cup b.dc : dot.counter > cc[dot.device]}]

\* DotContext::merge: larger prefix, union of the clouds, purge, compact.
MergeContext(a, b) ==
  LET cc == [d \in Device |-> Max({a.cc[d], b.cc[d]})]
      dc == {dot \in a.dc \cup b.dc : dot.counter > cc[dot.device]}
  IN  Compact([cc |-> cc, dc |-> dc], {dot.device : dot \in dc})

(***************************************************************************)
(* The context a delta carries is built by inserting its dots one by one   *)
(* into a new context (AddWinsSet::add and ::remove).  The result does not *)
(* depend on the order: it is the compact form of the set.                 *)
(***************************************************************************)
ContextOf(dots) == Compact([NewContext EXCEPT !.dc = dots], Device)

(***************************************************************************)
(* The normal form compaction maintains: nothing in the cloud is covered   *)
(* by the prefix or adjacent to it.                                        *)
(***************************************************************************)
Canonical(ctx) == \A dot \in ctx.dc : dot.counter > ctx.cc[dot.device] + 1
=============================================================================
