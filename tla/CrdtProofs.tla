----------------------------- MODULE CrdtProofs -----------------------------
(***************************************************************************)
(* Facts about the operators of src/crdt, for any devices, elements and    *)
(* widths.  Causal contexts and the add-wins set: what compaction and the  *)
(* merge of contexts keep; that merge is a join, that the delta an         *)
(* operation returns is enough to repeat it by a merge, and what the join  *)
(* of several deltas is.  The hybrid clock: its order, and that update is  *)
(* one rule in four cases.                                                 *)
(***************************************************************************)
EXTENDS AddWinsSet, HybridClock, WellFoundedInduction, TLAPS

-----------------------------------------------------------------------------
(* Contexts.                                                               *)
\* A set of naturals that is not empty has a least element.
LEMMA MinExists ==
  ASSUME NEW S \in SUBSET Nat, S # {}
  PROVE  Min(S) \in S /\ \A y \in S : Min(S) <= y
<1>1. PICK x \in S : \A y \in S : ~ (<<y, x>> \in OpToRel(<, Nat))
  BY WFMin, NatLessThanWellFounded, Zenon
<1>2. \A y \in S : x <= y
  <2>1. TAKE y \in S
  <2>2. ~ (<<y, x>> \in OpToRel(<, Nat))
    BY <1>1
  <2>3. x \in Nat /\ y \in Nat
    OBVIOUS
  <2>4. ~ (y < x)
    BY <2>2, <2>3 DEF OpToRel
  <2> QED
    BY <2>3, <2>4
<1> QED
  BY <1>1, <1>2 DEF Min

\* A set of naturals with an upper bound has a largest element.
LEMMA MaxExists ==
  ASSUME NEW m \in Nat, NEW S \in SUBSET (0 .. m), S # {}
  PROVE  Max(S) \in S /\ \A y \in S : y <= Max(S)
<1> DEFINE T == {m - x : x \in S}
<1>1. T \in SUBSET Nat /\ T # {}
  <2>1. \A x \in S : x \in Int /\ 0 <= x /\ x <= m
    OBVIOUS
  <2>2. \A x \in S : m - x \in Nat
    BY <2>1
  <2> QED
    BY <2>2
<1>2. Min(T) \in T /\ \A t \in T : Min(T) <= t
  BY <1>1, MinExists
<1>3. PICK x \in S : Min(T) = m - x
  BY <1>2
<1>4. \A y \in S : m - x <= m - y
  BY <1>2, <1>3
<1>5. \A y \in S : x >= y
  <2>1. TAKE y \in S
  <2>2. m - x <= m - y /\ x \in Int /\ y \in Int
    BY <1>4
  <2> QED
    BY <2>2
<1>6. Max(S) \in S /\ \A y \in S : Max(S) >= y
  BY <1>5 DEF Max
<1>7. \A y \in S : y \in Int
  OBVIOUS
<1> QED
  BY <1>6, <1>7

-----------------------------------------------------------------------------

LEMMA DotFacts ==
  ASSUME NEW d \in Device, NEW n
  PROVE  /\ DotOf(d, n).device = d /\ DotOf(d, n).counter = n
         /\ DotOf(d, n) \in Dot <=> n \in 1 .. MaxDot
  BY DEF DotOf, Dot

LEMMA DotShape ==
  ASSUME NEW dot \in Dot
  PROVE  /\ dot.device \in Device /\ dot.counter \in 1 .. MaxDot
         /\ dot = DotOf(dot.device, dot.counter)
  BY DEF DotOf, Dot

\* compact_device stops at the end of the run that starts after the prefix.
LEMMA PrefixEndFacts ==
  ASSUME NEW ctx \in Context, NEW d \in Device
  PROVE  /\ PrefixEnd(ctx, d) \in ctx.cc[d] .. MaxDot
         /\ DotOf(d, PrefixEnd(ctx, d) + 1) \notin ctx.dc
         /\ \A k \in ctx.cc[d] + 1 .. PrefixEnd(ctx, d) : DotOf(d, k) \in ctx.dc
<1> DEFINE S == {n \in ctx.cc[d] .. MaxDot : DotOf(d, n + 1) \notin ctx.dc}
<1>1. ctx.cc[d] \in 0 .. MaxDot /\ MaxDot \in Nat /\ ctx.dc \in SUBSET Dot
  BY MaxDotAssumption DEF Context
<1>2. MaxDot \in S
  <2>1. DotOf(d, MaxDot + 1) \notin Dot
    BY <1>1, DotFacts
  <2> QED
    BY <1>1, <2>1
<1>3. S \in SUBSET Nat
  BY <1>1
<1>4. Min(S) \in S /\ \A y \in S : Min(S) <= y
  BY <1>2, <1>3, MinExists
<1>5. PrefixEnd(ctx, d) = Min(S)
  BY DEF PrefixEnd
<1>6. ASSUME NEW k \in ctx.cc[d] + 1 .. PrefixEnd(ctx, d)
      PROVE  DotOf(d, k) \in ctx.dc
  <2>1. k - 1 \in ctx.cc[d] .. MaxDot /\ k - 1 < Min(S) /\ (k - 1) + 1 = k
    BY <1>1, <1>3, <1>4, <1>5
  <2>2. k - 1 \notin S
    BY <1>3, <1>4, <2>1
  <2> QED
    BY <2>1, <2>2
<1> QED
  BY <1>4, <1>5, <1>6

-----------------------------------------------------------------------------

\* Nothing in the cloud is covered by the prefix: what merge's purge ensures.
Purged(ctx) == \A dot \in ctx.dc : dot.counter > ctx.cc[dot.device]

LEMMA CompactFields ==
  ASSUME NEW ctx \in Context, NEW devices
  PROVE  /\ Compact(ctx, devices) \in Context
         /\ \A d \in Device :
              Compact(ctx, devices).cc[d] =
                IF d \in devices THEN PrefixEnd(ctx, d) ELSE ctx.cc[d]
         /\ \A d \in Device : ctx.cc[d] <= Compact(ctx, devices).cc[d]
         /\ Compact(ctx, devices).dc =
              {dot \in ctx.dc : dot.counter \notin
                 ctx.cc[dot.device] + 1 .. Compact(ctx, devices).cc[dot.device]}
<1> DEFINE end == [d \in Device |-> IF d \in devices THEN PrefixEnd(ctx, d) ELSE ctx.cc[d]]
<1>1. \A d \in Device : ctx.cc[d] \in 0 .. MaxDot /\ PrefixEnd(ctx, d) \in ctx.cc[d] .. MaxDot
  BY PrefixEndFacts DEF Context
<1>2. \A d \in Device : end[d] \in 0 .. MaxDot /\ ctx.cc[d] <= end[d]
  <2>1. TAKE d \in Device
  <2>2. /\ ctx.cc[d] \in 0 .. MaxDot /\ PrefixEnd(ctx, d) \in ctx.cc[d] .. MaxDot
        /\ MaxDot \in Nat
    BY <1>1, MaxDotAssumption
  <2>3. end[d] = PrefixEnd(ctx, d) \/ end[d] = ctx.cc[d]
    OBVIOUS
  <2> HIDE DEF end
  <2> QED
    BY <2>2, <2>3
<1>3. end \in [Device -> 0 .. MaxDot]
  BY <1>2
<1>4. ctx.dc \in SUBSET Dot
  BY DEF Context
<1>5. /\ Compact(ctx, devices).cc = end
      /\ Compact(ctx, devices).dc =
           {dot \in ctx.dc : dot.counter \notin ctx.cc[dot.device] + 1 .. end[dot.device]}
      /\ Compact(ctx, devices) = [cc |-> Compact(ctx, devices).cc,
                                  dc |-> Compact(ctx, devices).dc]
  BY DEF Compact
<1>6. Compact(ctx, devices).dc \in SUBSET Dot
  BY <1>4, <1>5
<1>7. Compact(ctx, devices) \in Context
  BY <1>3, <1>5, <1>6 DEF Context
<1> QED
  BY <1>2, <1>5, <1>7

\* Compaction moves dots from the cloud to the prefix and changes no set.
LEMMA CompactDots ==
  ASSUME NEW ctx \in Context, NEW devices
  PROVE  Dots(Compact(ctx, devices)) = Dots(ctx)
<1> DEFINE new == Compact(ctx, devices)
<1>1. ASSUME NEW dot \in Dot
      PROVE  Contains(new, dot) <=> Contains(ctx, dot)
  <2> DEFINE d == dot.device
             k == dot.counter
  <2>1. d \in Device /\ k \in Int /\ dot = DotOf(d, k)
    BY DotShape
  <2>2. /\ ctx.cc[d] \in Int /\ new.cc[d] \in Int /\ ctx.cc[d] <= new.cc[d]
        /\ new.cc[d] = (IF d \in devices THEN PrefixEnd(ctx, d) ELSE ctx.cc[d])
        /\ dot \in new.dc <=> dot \in ctx.dc /\ k \notin ctx.cc[d] + 1 .. new.cc[d]
    BY <2>1, CompactFields DEF Context
  <2>3. CASE k <= ctx.cc[d]
    BY <2>1, <2>2, <2>3 DEF Contains
  <2>4. CASE k \in ctx.cc[d] + 1 .. new.cc[d]
    <3>1. d \in devices /\ k \in ctx.cc[d] + 1 .. PrefixEnd(ctx, d)
      BY <2>1, <2>2, <2>4
    <3>2. dot \in ctx.dc
      BY <2>1, <3>1, PrefixEndFacts
    <3> QED
      BY <2>1, <2>2, <2>4, <3>2 DEF Contains
  <2>5. CASE k > new.cc[d]
    BY <2>1, <2>2, <2>5 DEF Contains
  <2> QED
    BY <2>1, <2>2, <2>3, <2>4, <2>5
<1> QED
  BY <1>1 DEF Dots

\* Compacting every device with a dot next to its prefix gives the normal form.
LEMMA CompactCanonical ==
  ASSUME NEW ctx \in Context, NEW devices, Purged(ctx),
         \A dot \in ctx.dc : dot.device \in devices \/ dot.counter > ctx.cc[dot.device] + 1
  PROVE  Canonical(Compact(ctx, devices))
<1> DEFINE new == Compact(ctx, devices)
<1> SUFFICES ASSUME NEW dot \in new.dc
             PROVE  dot.counter > new.cc[dot.device] + 1
  BY DEF Canonical
<1> DEFINE d == dot.device
           k == dot.counter
<1>1. dot \in ctx.dc /\ k \notin ctx.cc[d] + 1 .. new.cc[d]
  BY CompactFields
<1>2. dot \in Dot /\ d \in Device /\ k \in Int /\ dot = DotOf(d, k)
  BY <1>1, DotShape DEF Context
<1>3. ctx.cc[d] \in Int /\ new.cc[d] \in Int /\ k > ctx.cc[d] /\ k > new.cc[d]
  BY <1>1, <1>2, CompactFields DEF Context, Purged
<1>4. CASE d \in devices
  <2>1. new.cc[d] = PrefixEnd(ctx, d)
    BY <1>2, <1>4, CompactFields
  <2>2. dot # DotOf(d, new.cc[d] + 1)
    BY <1>1, <1>2, <2>1, PrefixEndFacts
  <2>3. k # new.cc[d] + 1
    BY <1>2, <2>2
  <2> QED
    BY <1>2, <1>3, <2>3
<1>5. CASE d \notin devices
  <2>1. new.cc[d] = ctx.cc[d]
    BY <1>2, <1>5, CompactFields
  <2> QED
    BY <1>1, <1>5, <2>1
<1> QED
  BY <1>4, <1>5

-----------------------------------------------------------------------------

\* insert adds its dot to the set and nothing else, and keeps the normal form.
LEMMA InsertFacts ==
  ASSUME NEW ctx \in Context, NEW dot \in Dot
  PROVE  /\ Insert(ctx, dot) \in Context
         /\ Dots(Insert(ctx, dot)) = Dots(ctx) \cup {dot}
         /\ Canonical(ctx) => Canonical(Insert(ctx, dot))
<1>1. CASE Contains(ctx, dot)
  BY <1>1 DEF Insert, Dots
<1>2. CASE ~Contains(ctx, dot)
  <2> DEFINE mid == [ctx EXCEPT !.dc = @ \cup {dot}]
  <2>1. mid.cc = ctx.cc /\ mid.dc = ctx.dc \cup {dot} /\ mid \in Context
    BY DEF Context
  <2>2. Insert(ctx, dot) = Compact(mid, {dot.device})
    BY <1>2 DEF Insert
  <2>3. Dots(mid) = Dots(ctx) \cup {dot}
    BY <2>1 DEF Dots, Contains
  <2>4. ASSUME Canonical(ctx)
        PROVE  Canonical(Insert(ctx, dot))
    <3>1. \A x \in mid.dc : x = dot \/ x.counter > ctx.cc[x.device] + 1
      BY <2>1, <2>4 DEF Canonical
    <3>2. \A x \in mid.dc : /\ x.device \in Device /\ x.counter \in Int
                             /\ ctx.cc[x.device] \in Int
      BY <2>1, DotShape DEF Context
    <3>3. dot.counter > ctx.cc[dot.device]
      BY <1>2, <2>1, <3>2 DEF Contains
    <3>4. Purged(mid)
      BY <2>1, <3>1, <3>2, <3>3 DEF Purged
    <3>5. \A x \in mid.dc : x.device \in {dot.device} \/ x.counter > mid.cc[x.device] + 1
      BY <2>1, <3>1
    <3> QED
      BY <2>1, <2>2, <3>4, <3>5, CompactCanonical
  <2> HIDE DEF mid
  <2>5. Compact(mid, {dot.device}) \in Context
    BY <2>1, CompactFields
  <2>6. Dots(Compact(mid, {dot.device})) = Dots(mid)
    BY <2>1, CompactDots
  <2> QED
    BY <2>2, <2>3, <2>4, <2>5, <2>6
<1> QED
  BY <1>1, <1>2

\* merge is the union of the two sets, and its result is in normal form.
LEMMA MergeFacts ==
  ASSUME NEW a \in Context, NEW b \in Context
  PROVE  /\ MergeContext(a, b) \in Context
         /\ Dots(MergeContext(a, b)) = Dots(a) \cup Dots(b)
         /\ Canonical(MergeContext(a, b))
<1> DEFINE cc == [d \in Device |-> Max({a.cc[d], b.cc[d]})]
           dc == {dot \in a.dc \cup b.dc : dot.counter > cc[dot.device]}
           mid == [cc |-> cc, dc |-> dc]
           devices == {dot.device : dot \in dc}
<1>1. \A d \in Device : /\ a.cc[d] \in 0 .. MaxDot /\ b.cc[d] \in 0 .. MaxDot
                        /\ cc[d] \in {a.cc[d], b.cc[d]}
                        /\ a.cc[d] <= cc[d] /\ b.cc[d] <= cc[d]
  <2>1. TAKE d \in Device
  <2>2. a.cc[d] \in 0 .. MaxDot /\ b.cc[d] \in 0 .. MaxDot
    BY DEF Context
  <2>3. {a.cc[d], b.cc[d]} \in SUBSET (0 .. MaxDot) /\ {a.cc[d], b.cc[d]} # {} /\ MaxDot \in Nat
    BY <2>2, MaxDotAssumption
  <2>4. /\ Max({a.cc[d], b.cc[d]}) \in {a.cc[d], b.cc[d]}
        /\ \A y \in {a.cc[d], b.cc[d]} : y <= Max({a.cc[d], b.cc[d]})
    BY <2>3, MaxExists, Zenon
  <2> QED
    BY <2>2, <2>4
<1>2. mid \in Context
  <2>1. cc \in [Device -> 0 .. MaxDot]
    BY <1>1
  <2>2. dc \in SUBSET Dot
    BY DEF Context
  <2> QED
    BY <2>1, <2>2 DEF Context
<1>3. MergeContext(a, b) = Compact(mid, devices)
  BY DEF MergeContext
<1>4. Dots(mid) = Dots(a) \cup Dots(b)
  <2>1. ASSUME NEW dot \in Dot
        PROVE  Contains(mid, dot) <=> Contains(a, dot) \/ Contains(b, dot)
    <3>1. dot.device \in Device /\ dot.counter \in Int
      BY DotShape
    <3>2. CASE dot.counter <= cc[dot.device]
      BY <1>1, <3>1, <3>2 DEF Contains
    <3>3. CASE dot.counter > cc[dot.device]
      BY <1>1, <3>1, <3>3 DEF Contains
    <3> QED
      BY <1>1, <3>1, <3>2, <3>3
  <2> QED
    BY <2>1 DEF Dots
<1>5. Canonical(Compact(mid, devices))
  <2>1. Purged(mid)
    BY DEF Purged
  <2>2. \A dot \in mid.dc : dot.device \in devices
    OBVIOUS
  <2> QED
    BY <1>2, <2>1, <2>2, CompactCanonical
<1> HIDE DEF mid, devices
<1>6. Compact(mid, devices) \in Context
  BY <1>2, CompactFields
<1>7. Dots(Compact(mid, devices)) = Dots(mid)
  BY <1>2, CompactDots
<1> QED
  BY <1>3, <1>4, <1>5, <1>6, <1>7

\* The context a delta carries stands for exactly the dots it was built from.
LEMMA ContextOfFacts ==
  ASSUME NEW dots \in SUBSET Dot
  PROVE  /\ ContextOf(dots) \in Context
         /\ Dots(ContextOf(dots)) = dots
         /\ Canonical(ContextOf(dots))
<1> DEFINE mid == [NewContext EXCEPT !.dc = dots]
<1>1. mid.cc = [d \in Device |-> 0] /\ mid.dc = dots /\ mid \in Context
  BY MaxDotAssumption DEF NewContext, Context
<1>2. \A dot \in Dot : dot.device \in Device /\ dot.counter \in Int /\ dot.counter > 0
  BY DotShape
<1>3. Dots(mid) = dots
  BY <1>1, <1>2 DEF Dots, Contains
<1>4. Purged(mid)
  BY <1>1, <1>2 DEF Purged
<1>5. \A dot \in mid.dc : dot.device \in Device
  BY <1>1, <1>2
<1>6. Canonical(Compact(mid, Device))
  BY <1>1, <1>4, <1>5, CompactCanonical
<1>7. ContextOf(dots) = Compact(mid, Device)
  BY DEF ContextOf
<1> HIDE DEF mid
<1>8. Compact(mid, Device) \in Context
  BY <1>1, CompactFields
<1>9. Dots(Compact(mid, Device)) = Dots(mid)
  BY <1>1, CompactDots
<1> QED
  BY <1>3, <1>6, <1>7, <1>8, <1>9

LEMMA NewContextFacts ==
  /\ NewContext \in Context
  /\ Dots(NewContext) = {}
  /\ Canonical(NewContext)
<1>1. \A dot \in Dot : dot.device \in Device /\ dot.counter \in Int /\ dot.counter > 0
  BY DotShape
<1> QED
  BY <1>1, MaxDotAssumption DEF NewContext, Context, Dots, Contains, Canonical

(***************************************************************************)
(* The representation is canonical: contexts in normal form that observed  *)
(* the same dots are the same value.  The derived equality of DotContext   *)
(* therefore compares the sets.                                            *)
(***************************************************************************)
THEOREM CanonicalUnique ==
  ASSUME NEW a \in Context, NEW b \in Context,
         Canonical(a), Canonical(b), Dots(a) = Dots(b)
  PROVE  a = b
<1>1. ASSUME NEW x \in Context, NEW y \in Context, Canonical(x), Dots(x) = Dots(y),
             NEW d \in Device
      PROVE  y.cc[d] <= x.cc[d]
  <2> DEFINE next == DotOf(d, x.cc[d] + 1)
  <2>1. x.cc[d] \in 0 .. MaxDot /\ y.cc[d] \in 0 .. MaxDot /\ MaxDot \in Nat
    BY MaxDotAssumption DEF Context
  <2>2. SUFFICES ASSUME x.cc[d] < y.cc[d] PROVE FALSE
    BY <2>1
  <2>3. next \in Dot /\ next.device = d /\ next.counter = x.cc[d] + 1
    BY <2>1, <2>2, DotFacts
  <2>4. Contains(y, next)
    BY <2>1, <2>2, <2>3 DEF Contains
  <2>5. Contains(x, next)
    BY <1>1, <2>3, <2>4 DEF Dots
  <2>6. next \in x.dc
    BY <2>1, <2>3, <2>5 DEF Contains
  <2> QED
    BY <1>1, <2>1, <2>3, <2>6 DEF Canonical
<1>2. \A d \in Device : a.cc[d] = b.cc[d]
  <2>1. TAKE d \in Device
  <2>2. a.cc[d] <= b.cc[d] /\ b.cc[d] <= a.cc[d]
    BY <1>1
  <2>3. a.cc[d] \in Int /\ b.cc[d] \in Int
    BY DEF Context
  <2> QED
    BY <2>2, <2>3
<1>3. ASSUME NEW x \in Context, NEW y \in Context, Canonical(x), Dots(x) = Dots(y),
             \A d \in Device : x.cc[d] = y.cc[d]
      PROVE  x.dc \subseteq y.dc
  <2>1. SUFFICES ASSUME NEW dot \in x.dc PROVE dot \in y.dc
    OBVIOUS
  <2>2. dot \in Dot /\ dot.device \in Device /\ dot.counter \in Int
    BY DotShape DEF Context
  <2>3. x.cc[dot.device] \in Int /\ dot.counter > x.cc[dot.device] + 1
    BY <1>3, <2>2 DEF Canonical, Context
  <2>4. Contains(y, dot)
    BY <1>3, <2>2 DEF Dots, Contains
  <2> QED
    BY <1>3, <2>2, <2>3, <2>4 DEF Contains
<1>4. a.dc = b.dc
  <2>1. a.dc \subseteq b.dc
    BY <1>2, <1>3
  <2>2. b.dc \subseteq a.dc
    BY <1>2, <1>3
  <2> QED
    BY <2>1, <2>2
<1>5. a.cc = b.cc
  BY <1>2 DEF Context
<1> QED
  BY <1>4, <1>5 DEF Context

(***************************************************************************)
(* DotContext::merge (dot.rs:93): the merge of two contexts is a context   *)
(* that has observed what either has and nothing else, and it is in normal *)
(* form, even when its arguments are not.  Merging is therefore            *)
(* idempotent, commutative and associative (awset.rs:10).                  *)
(***************************************************************************)
THEOREM MergeContextIsJoin ==
  ASSUME NEW a \in Context, NEW b \in Context, NEW c \in Context
  PROVE  /\ MergeContext(a, b) \in Context /\ Canonical(MergeContext(a, b))
         /\ \A dot \in Dot :
              Contains(MergeContext(a, b), dot) <=> Contains(a, dot) \/ Contains(b, dot)
         /\ Canonical(a) => MergeContext(a, a) = a
         /\ MergeContext(a, b) = MergeContext(b, a)
         /\ MergeContext(MergeContext(a, b), c) = MergeContext(a, MergeContext(b, c))
<1>1. Canonical(a) => MergeContext(a, a) = a
  BY MergeFacts, CanonicalUnique
<1>2. MergeContext(a, b) = MergeContext(b, a)
  <2>1. Dots(MergeContext(a, b)) = Dots(MergeContext(b, a))
    BY MergeFacts
  <2> QED
    BY <2>1, MergeFacts, CanonicalUnique
<1>3. MergeContext(MergeContext(a, b), c) = MergeContext(a, MergeContext(b, c))
  <2> DEFINE l == MergeContext(MergeContext(a, b), c)
             r == MergeContext(a, MergeContext(b, c))
  <2>1. MergeContext(a, b) \in Context /\ MergeContext(b, c) \in Context
    BY MergeFacts
  <2>2. Dots(l) = (Dots(a) \cup Dots(b)) \cup Dots(c) /\ Dots(r) = Dots(a) \cup (Dots(b) \cup Dots(c))
    BY <2>1, MergeFacts
  <2>3. l \in Context /\ Canonical(l) /\ r \in Context /\ Canonical(r)
    BY <2>1, MergeFacts
  <2> QED
    BY <2>2, <2>3, CanonicalUnique
<1>4. /\ MergeContext(a, b) \in Context /\ Canonical(MergeContext(a, b))
      /\ Dots(MergeContext(a, b)) = Dots(a) \cup Dots(b)
  BY MergeFacts
<1>5. \A dot \in Dot :
        Contains(MergeContext(a, b), dot) <=> Contains(a, dot) \/ Contains(b, dot)
  BY <1>4 DEF Dots
<1> QED
  BY <1>1, <1>2, <1>3, <1>4, <1>5

(***************************************************************************)
(* The context of a delta is built by inserting its dots one by one        *)
(* (awset.rs:83, 99).  Whichever comes last, the result is ContextOf, so   *)
(* the order does not matter.                                              *)
(***************************************************************************)
THEOREM ContextOfIsFold ==
  /\ ContextOf({}) = NewContext
  /\ \A dots \in SUBSET Dot : \A dot \in dots :
       Insert(ContextOf(dots \ {dot}), dot) = ContextOf(dots)
<1>1. ContextOf({}) = NewContext
  <2>1. Dots(ContextOf({})) = Dots(NewContext)
    BY ContextOfFacts, NewContextFacts
  <2> QED
    BY <2>1, ContextOfFacts, NewContextFacts, CanonicalUnique
<1>2. ASSUME NEW dots \in SUBSET Dot, NEW dot \in dots
      PROVE  Insert(ContextOf(dots \ {dot}), dot) = ContextOf(dots)
  <2> DEFINE before == ContextOf(dots \ {dot})
  <2>1. before \in Context /\ Canonical(before) /\ Dots(before) = dots \ {dot}
    BY ContextOfFacts
  <2>2. /\ ContextOf(dots) \in Context /\ Canonical(ContextOf(dots))
        /\ Dots(ContextOf(dots)) = dots
    BY ContextOfFacts
  <2> HIDE DEF before
  <2>3. /\ Insert(before, dot) \in Context /\ Canonical(Insert(before, dot))
        /\ Dots(Insert(before, dot)) = Dots(before) \cup {dot}
    BY <2>1, InsertFacts
  <2>4. Insert(before, dot) = ContextOf(dots)
    BY <2>1, <2>2, <2>3, CanonicalUnique
  <2> QED
    BY <2>4 DEF before
<1> QED
  BY <1>1, <1>2

-----------------------------------------------------------------------------

\* next_dot returns a dot above every dot of its device, and so a new one.
LEMMA NextDotFacts ==
  ASSUME NEW ctx \in Context, NEW d \in Device, CanMint(ctx, d)
  PROVE  /\ NextDot(ctx, d) \in Dot
         /\ NextDot(ctx, d).device = d
         /\ \A dot \in Dots(ctx) : dot.device = d => dot.counter < NextDot(ctx, d).counter
         /\ NextDot(ctx, d) \notin Dots(ctx)
<1>1. Observed(ctx, d) \in SUBSET (0 .. MaxDot) /\ ctx.cc[d] \in Observed(ctx, d) /\ MaxDot \in Nat
  <2>1. ctx.cc[d] \in 0 .. MaxDot /\ MaxDot \in Nat
    BY MaxDotAssumption DEF Context
  <2>2. \A x \in ctx.dc : x.counter \in 0 .. MaxDot
    BY <2>1, DotShape DEF Context
  <2> QED
    BY <2>1, <2>2 DEF Observed
<1>2. /\ LastCounter(ctx, d) \in Observed(ctx, d)
      /\ \A y \in Observed(ctx, d) : y <= LastCounter(ctx, d)
  BY <1>1, MaxExists DEF LastCounter
<1>3. LastCounter(ctx, d) + 1 \in 1 .. MaxDot
  BY <1>1, <1>2 DEF CanMint
<1>4. NextDot(ctx, d) \in Dot /\ NextDot(ctx, d).device = d
      /\ NextDot(ctx, d).counter = LastCounter(ctx, d) + 1
  BY <1>3, DotFacts DEF NextDot
<1>5. ASSUME NEW dot \in Dots(ctx), dot.device = d
      PROVE  dot.counter < NextDot(ctx, d).counter
  <2>1. dot \in Dot /\ dot.counter \in Int
    BY DotShape DEF Dots
  <2>2. CASE dot.counter <= ctx.cc[d]
    BY <1>1, <1>2, <1>4, <2>1, <2>2
  <2>3. CASE dot \in ctx.dc
    <3>1. dot.counter \in Observed(ctx, d)
      BY <1>5, <2>3 DEF Observed
    <3> QED
      BY <1>1, <1>2, <1>4, <2>1, <3>1
  <2> QED
    BY <1>5, <2>2, <2>3 DEF Dots, Contains
<1>6. NextDot(ctx, d) \notin Dots(ctx)
  <2>1. NextDot(ctx, d).counter \in Int
    BY <1>3, <1>4
  <2> QED
    BY <1>4, <1>5, <2>1
<1> QED
  BY <1>4, <1>5, <1>6

\* ... and its predecessor, if it has one, has been observed.
LEMMA PredecessorObserved ==
  ASSUME NEW ctx \in Context, NEW d \in Device, CanMint(ctx, d),
         NextDot(ctx, d).counter > 1
  PROVE  DotOf(d, NextDot(ctx, d).counter - 1) \in Dots(ctx)
<1> DEFINE last == LastCounter(ctx, d)
<1>1. Observed(ctx, d) \in SUBSET (0 .. MaxDot) /\ ctx.cc[d] \in Observed(ctx, d) /\ MaxDot \in Nat
  <2>1. ctx.cc[d] \in 0 .. MaxDot /\ MaxDot \in Nat
    BY MaxDotAssumption DEF Context
  <2>2. \A x \in ctx.dc : x.counter \in 0 .. MaxDot
    BY <2>1, DotShape DEF Context
  <2> QED
    BY <2>1, <2>2 DEF Observed
<1>2. last \in Observed(ctx, d)
  BY <1>1, MaxExists DEF LastCounter
<1>3. NextDot(ctx, d).counter = last + 1
  BY DotFacts DEF NextDot
<1>4. last \in 1 .. MaxDot /\ (last + 1) - 1 = last
  BY <1>1, <1>2, <1>3
<1>5. DotOf(d, last) \in Dot /\ DotOf(d, last).device = d /\ DotOf(d, last).counter = last
  BY <1>4, DotFacts
<1>6. DotOf(d, last) \in Dots(ctx)
  <2>1. CASE last = ctx.cc[d]
    BY <1>4, <1>5, <2>1 DEF Dots, Contains
  <2>2. CASE last \in {dot.counter : dot \in {x \in ctx.dc : x.device = d}}
    <3>1. PICK dot \in ctx.dc : dot.device = d /\ dot.counter = last
      BY <2>2
    <3>2. dot = DotOf(d, last)
      BY <3>1, DotShape DEF Context
    <3> QED
      BY <1>5, <3>1, <3>2 DEF Dots, Contains
  <2> QED
    BY <1>2, <2>1, <2>2 DEF Observed
<1> QED
  BY <1>3, <1>4, <1>6

-----------------------------------------------------------------------------
(* The add-wins set.                                                       *)

\* What every state and every delta satisfies: the dots of the elements have
\* been observed, and the context is in normal form.
WellFormed(a) ==
  /\ a \in AWSet
  /\ Canonical(a.ctx)
  /\ \A e \in Entry : a.entries[e] \subseteq Dots(a.ctx)

\* A dot holds one element.
OneElementPerDot(a) ==
  \A e, f \in Entry : e # f => a.entries[e] \cap a.entries[f] = {}

LEMMA AWSetShape ==
  ASSUME NEW a \in AWSet
  PROVE  /\ a.ctx \in Context
         /\ a.entries \in [Entry -> SUBSET Dot]
         /\ a = [entries |-> a.entries, ctx |-> a.ctx]
  BY DEF AWSet

\* Two sets are equal when their elements have the same dots and they have
\* observed the same dots.
LEMMA AWSetEquality ==
  ASSUME NEW a, NEW b, WellFormed(a), WellFormed(b),
         Dots(a.ctx) = Dots(b.ctx),
         \A e \in Entry : a.entries[e] = b.entries[e]
  PROVE  a = b
<1>1. a \in AWSet /\ b \in AWSet /\ Canonical(a.ctx) /\ Canonical(b.ctx)
  BY DEF WellFormed
<1>2. a.ctx = b.ctx
  BY <1>1, AWSetShape, CanonicalUnique
<1>3. a.entries = b.entries
  BY <1>1, AWSetShape
<1> QED
  BY <1>1, <1>2, <1>3, AWSetShape

LEMMA EmptySetFacts ==
  /\ WellFormed(EmptySet)
  /\ Dots(EmptySet.ctx) = {}
  /\ \A e \in Entry : EmptySet.entries[e] = {}
  BY NewContextFacts DEF EmptySet, NoEntries, WellFormed, AWSet

-----------------------------------------------------------------------------

\* A join loses a dot exactly when one of the two sides has dropped it.
LEMMA MergeSetFacts ==
  ASSUME NEW a, NEW b, WellFormed(a), WellFormed(b)
  PROVE  /\ WellFormed(MergeSet(a, b))
         /\ Dots(MergeSet(a, b).ctx) = Dots(a.ctx) \cup Dots(b.ctx)
         /\ \A e \in Entry : \A dot \in Dot :
              dot \in MergeSet(a, b).entries[e] <=>
                /\ dot \in a.entries[e] \/ dot \in b.entries[e]
                /\ Keeps(a, e, dot) /\ Keeps(b, e, dot)
<1> DEFINE m == MergeSet(a, b)
<1>1. a \in AWSet /\ b \in AWSet
  BY DEF WellFormed
<1>2. m.ctx = MergeContext(a.ctx, b.ctx)
      /\ \A e \in Entry : m.entries[e] =
           {dot \in a.entries[e] \cup b.entries[e] : Keeps(a, e, dot) /\ Keeps(b, e, dot)}
  BY DEF MergeSet
<1>3. m.ctx \in Context /\ Canonical(m.ctx) /\ Dots(m.ctx) = Dots(a.ctx) \cup Dots(b.ctx)
  BY <1>1, <1>2, AWSetShape, MergeFacts
<1>4. \A e \in Entry : a.entries[e] \in SUBSET Dot /\ b.entries[e] \in SUBSET Dot
  BY <1>1, AWSetShape
<1>5. m \in AWSet
  <2> DEFINE es == [e \in Entry |->
                      {dot \in a.entries[e] \cup b.entries[e] :
                         Keeps(a, e, dot) /\ Keeps(b, e, dot)}]
  <2>1. es \in [Entry -> SUBSET Dot]
    BY <1>4
  <2>2. m = [entries |-> es, ctx |-> m.ctx]
    BY DEF MergeSet
  <2> HIDE DEF es, m
  <2> QED
    BY <1>3, <2>1, <2>2 DEF AWSet
<1>6. \A e \in Entry : m.entries[e] \subseteq Dots(m.ctx)
  BY <1>2, <1>3 DEF WellFormed
<1> QED
  BY <1>2, <1>3, <1>5, <1>6 DEF WellFormed

\* Joined with a third side, a dot survives a join iff it survives both parts.
LEMMA MergeKeeps ==
  ASSUME NEW a, NEW b, WellFormed(a), WellFormed(b), NEW e \in Entry, NEW dot \in Dot
  PROVE  Keeps(MergeSet(a, b), e, dot) <=> Keeps(a, e, dot) /\ Keeps(b, e, dot)
<1> DEFINE m == MergeSet(a, b)
<1>1. Contains(m.ctx, dot) <=> Contains(a.ctx, dot) \/ Contains(b.ctx, dot)
  BY MergeSetFacts DEF Dots
<1>2. dot \in m.entries[e] <=> /\ dot \in a.entries[e] \/ dot \in b.entries[e]
                               /\ Keeps(a, e, dot) /\ Keeps(b, e, dot)
  BY MergeSetFacts
<1>3. /\ dot \in a.entries[e] => Contains(a.ctx, dot)
      /\ dot \in b.entries[e] => Contains(b.ctx, dot)
  BY DEF WellFormed, Dots
<1> QED
  BY <1>1, <1>2, <1>3 DEF Keeps

(***************************************************************************)
(* AddWinsSet::merge is idempotent, commutative and associative            *)
(* (awset.rs:10), on which the tolerance of reordered and repeated         *)
(* deltas rests.                                                           *)
(***************************************************************************)
THEOREM MergeSetIsJoin ==
  ASSUME NEW a, NEW b, NEW c, WellFormed(a), WellFormed(b), WellFormed(c)
  PROVE  /\ MergeSet(a, a) = a
         /\ MergeSet(a, b) = MergeSet(b, a)
         /\ MergeSet(MergeSet(a, b), c) = MergeSet(a, MergeSet(b, c))
<1>1. ASSUME NEW x, NEW y, WellFormed(x), WellFormed(y), Dots(x.ctx) = Dots(y.ctx),
             \A e \in Entry : \A dot \in Dot : dot \in x.entries[e] <=> dot \in y.entries[e]
      PROVE  x = y
  <2>1. \A e \in Entry : x.entries[e] = y.entries[e]
    BY <1>1, AWSetShape DEF WellFormed
  <2> QED
    BY <1>1, <2>1, AWSetEquality
<1>2. MergeSet(a, a) = a
  <2>1. \A e \in Entry : \A dot \in Dot : dot \in MergeSet(a, a).entries[e] <=> dot \in a.entries[e]
    BY MergeSetFacts DEF Keeps
  <2>2. WellFormed(MergeSet(a, a)) /\ Dots(MergeSet(a, a).ctx) = Dots(a.ctx)
    BY MergeSetFacts
  <2> QED
    BY <1>1, <2>1, <2>2
<1>3. MergeSet(a, b) = MergeSet(b, a)
  <2>1. \A e \in Entry : \A dot \in Dot :
          dot \in MergeSet(a, b).entries[e] <=> dot \in MergeSet(b, a).entries[e]
    BY MergeSetFacts
  <2>2. /\ WellFormed(MergeSet(a, b)) /\ WellFormed(MergeSet(b, a))
        /\ Dots(MergeSet(a, b).ctx) = Dots(MergeSet(b, a).ctx)
    BY MergeSetFacts
  <2> QED
    BY <1>1, <2>1, <2>2
<1>4. MergeSet(MergeSet(a, b), c) = MergeSet(a, MergeSet(b, c))
  <2> DEFINE ab == MergeSet(a, b)
             bc == MergeSet(b, c)
  <2>1. /\ WellFormed(ab) /\ WellFormed(bc)
        /\ Dots(ab.ctx) = Dots(a.ctx) \cup Dots(b.ctx) /\ Dots(bc.ctx) = Dots(b.ctx) \cup Dots(c.ctx)
    BY MergeSetFacts
  <2>2. /\ WellFormed(MergeSet(ab, c)) /\ WellFormed(MergeSet(a, bc))
        /\ Dots(MergeSet(ab, c).ctx) = Dots(ab.ctx) \cup Dots(c.ctx)
        /\ Dots(MergeSet(a, bc).ctx) = Dots(a.ctx) \cup Dots(bc.ctx)
    BY <2>1, MergeSetFacts
  <2>3. ASSUME NEW e \in Entry, NEW dot \in Dot
        PROVE  dot \in MergeSet(ab, c).entries[e] <=> dot \in MergeSet(a, bc).entries[e]
    <3>1. /\ dot \in MergeSet(ab, c).entries[e] <=>
               /\ dot \in ab.entries[e] \/ dot \in c.entries[e]
               /\ Keeps(ab, e, dot) /\ Keeps(c, e, dot)
          /\ dot \in MergeSet(a, bc).entries[e] <=>
               /\ dot \in a.entries[e] \/ dot \in bc.entries[e]
               /\ Keeps(a, e, dot) /\ Keeps(bc, e, dot)
      BY <2>1, MergeSetFacts
    <3>2. /\ dot \in ab.entries[e] <=> /\ dot \in a.entries[e] \/ dot \in b.entries[e]
                                       /\ Keeps(a, e, dot) /\ Keeps(b, e, dot)
          /\ dot \in bc.entries[e] <=> /\ dot \in b.entries[e] \/ dot \in c.entries[e]
                                       /\ Keeps(b, e, dot) /\ Keeps(c, e, dot)
      BY MergeSetFacts
    <3>3. /\ Keeps(ab, e, dot) <=> Keeps(a, e, dot) /\ Keeps(b, e, dot)
          /\ Keeps(bc, e, dot) <=> Keeps(b, e, dot) /\ Keeps(c, e, dot)
      BY MergeKeeps
    <3> HIDE DEF ab, bc
    <3> QED
      BY <3>1, <3>2, <3>3
  <2> HIDE DEF ab, bc
  <2>4. MergeSet(ab, c) = MergeSet(a, bc)
    <3>1. Dots(MergeSet(ab, c).ctx) = Dots(MergeSet(a, bc).ctx)
      BY <2>1, <2>2
    <3> QED
      BY <1>1, <2>2, <2>3, <3>1
  <2> QED
    BY <2>4 DEF ab, bc
<1> QED
  BY <1>2, <1>3, <1>4

-----------------------------------------------------------------------------

LEMMA AddDeltaFacts ==
  ASSUME NEW a, WellFormed(a), NEW e \in Entry, NEW d \in Device, CanMint(a.ctx, d)
  PROVE  /\ WellFormed(AddDelta(a, e, d))
         /\ Dots(AddDelta(a, e, d).ctx) = {NextDot(a.ctx, d)} \cup a.entries[e]
         /\ \A f \in Entry : AddDelta(a, e, d).entries[f] =
              IF f = e THEN {NextDot(a.ctx, d)} ELSE {}
<1> DEFINE dot == NextDot(a.ctx, d)
           m == AddDelta(a, e, d)
<1>1. a \in AWSet /\ a.ctx \in Context /\ a.entries[e] \in SUBSET Dot
  BY AWSetShape DEF WellFormed
<1>2. dot \in Dot
  BY <1>1, NextDotFacts
<1>3. {dot} \cup a.entries[e] \in SUBSET Dot
  BY <1>1, <1>2
<1>4. m.ctx = ContextOf({dot} \cup a.entries[e]) /\ m.entries = [NoEntries EXCEPT ![e] = {dot}]
      /\ m = [entries |-> m.entries, ctx |-> m.ctx]
  BY DEF AddDelta
<1>5. m.ctx \in Context /\ Canonical(m.ctx) /\ Dots(m.ctx) = {dot} \cup a.entries[e]
  BY <1>3, <1>4, ContextOfFacts
<1>6. \A f \in Entry : m.entries[f] = IF f = e THEN {dot} ELSE {}
  BY <1>4 DEF NoEntries
<1>7. m.entries \in [Entry -> SUBSET Dot]
  BY <1>2, <1>4 DEF NoEntries
<1> HIDE DEF m, dot
<1>8. m \in AWSet
  BY <1>4, <1>5, <1>7 DEF AWSet
<1>9. WellFormed(m)
  BY <1>5, <1>6, <1>8 DEF WellFormed
<1> QED
  BY <1>5, <1>6, <1>9 DEF m, dot

LEMMA RemoveDeltaFacts ==
  ASSUME NEW a, WellFormed(a), NEW e \in Entry
  PROVE  /\ WellFormed(RemoveDelta(a, e))
         /\ Dots(RemoveDelta(a, e).ctx) = a.entries[e]
         /\ \A f \in Entry : RemoveDelta(a, e).entries[f] = {}
<1> DEFINE m == RemoveDelta(a, e)
<1>1. a.entries[e] \in SUBSET Dot
  BY AWSetShape DEF WellFormed
<1>2. m.ctx = ContextOf(a.entries[e]) /\ m.entries = NoEntries
      /\ m = [entries |-> m.entries, ctx |-> m.ctx]
  BY DEF RemoveDelta
<1>3. m.ctx \in Context /\ Canonical(m.ctx) /\ Dots(m.ctx) = a.entries[e]
  BY <1>1, <1>2, ContextOfFacts
<1>4. m.entries \in [Entry -> SUBSET Dot] /\ \A f \in Entry : m.entries[f] = {}
  BY <1>2 DEF NoEntries
<1> HIDE DEF m
<1>5. WellFormed(m)
  BY <1>2, <1>3, <1>4 DEF WellFormed, AWSet
<1> QED
  BY <1>3, <1>4, <1>5 DEF m

(***************************************************************************)
(* The delta of an add reproduces the add ("pour que sa fusion reproduise  *)
(* fidelement le nouvel etat", awset.rs:74).                               *)
(***************************************************************************)
THEOREM AddIsMergeOfDelta ==
  ASSUME NEW a, WellFormed(a), OneElementPerDot(a),
         NEW e \in Entry, NEW d \in Device, CanMint(a.ctx, d)
  PROVE  Add(a, e, d) = MergeSet(a, AddDelta(a, e, d))
<1> DEFINE dot == NextDot(a.ctx, d)
           delta == AddDelta(a, e, d)
           new == Add(a, e, d)
           m == MergeSet(a, delta)
<1>1. a \in AWSet /\ a.ctx \in Context /\ a.entries \in [Entry -> SUBSET Dot] /\ Canonical(a.ctx)
  BY AWSetShape DEF WellFormed
<1>2. dot \in Dot /\ dot \notin Dots(a.ctx)
  BY <1>1, NextDotFacts
<1>3. /\ WellFormed(delta)
      /\ Dots(delta.ctx) = {dot} \cup a.entries[e]
      /\ \A f \in Entry : delta.entries[f] = IF f = e THEN {dot} ELSE {}
  BY AddDeltaFacts
<1>4. new.ctx = Insert(a.ctx, dot) /\ new.entries = [a.entries EXCEPT ![e] = {dot}]
      /\ new = [entries |-> new.entries, ctx |-> new.ctx]
  BY DEF Add
<1>5. new.ctx \in Context /\ Canonical(new.ctx) /\ Dots(new.ctx) = Dots(a.ctx) \cup {dot}
  BY <1>1, <1>2, <1>4, InsertFacts
<1>6. \A f \in Entry : new.entries[f] = IF f = e THEN {dot} ELSE a.entries[f]
  BY <1>1, <1>4
<1>7. new.entries \in [Entry -> SUBSET Dot]
  BY <1>1, <1>2, <1>4
<1>8. WellFormed(m) /\ Dots(m.ctx) = Dots(a.ctx) \cup Dots(delta.ctx)
      /\ \A f \in Entry : \A x \in Dot :
           x \in m.entries[f] <=> /\ x \in a.entries[f] \/ x \in delta.entries[f]
                                  /\ Keeps(a, f, x) /\ Keeps(delta, f, x)
  BY <1>3, MergeSetFacts
<1> HIDE DEF dot, delta, new, m
<1>9. WellFormed(new)
  BY <1>4, <1>5, <1>6, <1>7 DEF WellFormed, AWSet
<1>10. Dots(m.ctx) = Dots(new.ctx)
  BY <1>3, <1>5, <1>8 DEF WellFormed
<1>11. ASSUME NEW f \in Entry, NEW x \in Dot
       PROVE  x \in m.entries[f] <=> x \in new.entries[f]
  <2>1. /\ Contains(a.ctx, x) <=> x \in Dots(a.ctx)
        /\ Contains(delta.ctx, x) <=> x = dot \/ x \in a.entries[e]
        /\ x \in a.entries[f] => x \in Dots(a.ctx)
        /\ x \in a.entries[e] => x \in Dots(a.ctx)
    BY <1>3 DEF Dots, WellFormed
  <2>2. CASE f = e
    BY <1>2, <1>3, <1>6, <1>8, <2>1, <2>2 DEF Keeps
  <2>3. CASE f # e
    <3>1. x \in a.entries[f] => x \notin a.entries[e]
      BY <2>3 DEF OneElementPerDot
    <3> QED
      BY <1>2, <1>3, <1>6, <1>8, <2>1, <2>3, <3>1 DEF Keeps
  <2> QED
    BY <2>2, <2>3
<1>12. \A f \in Entry : m.entries[f] = new.entries[f]
  BY <1>8, <1>9, <1>11, AWSetShape DEF WellFormed
<1>13. new = m
  BY <1>8, <1>9, <1>10, <1>12, AWSetEquality
<1> QED
  BY <1>13 DEF new, m, delta

(***************************************************************************)
(* The delta of a remove reproduces the remove, although it carries no     *)
(* entry at all (model/mod.rs:114).                                        *)
(***************************************************************************)
THEOREM RemoveIsMergeOfDelta ==
  ASSUME NEW a, WellFormed(a), OneElementPerDot(a), NEW e \in Entry
  PROVE  Remove(a, e) = MergeSet(a, RemoveDelta(a, e))
<1> DEFINE delta == RemoveDelta(a, e)
           new == Remove(a, e)
           m == MergeSet(a, delta)
<1>1. a \in AWSet /\ a.ctx \in Context /\ a.entries \in [Entry -> SUBSET Dot] /\ Canonical(a.ctx)
      /\ a = [entries |-> a.entries, ctx |-> a.ctx]
  BY AWSetShape DEF WellFormed
<1>2. /\ WellFormed(delta)
      /\ Dots(delta.ctx) = a.entries[e]
      /\ \A f \in Entry : delta.entries[f] = {}
  BY RemoveDeltaFacts
<1>3. new = [entries |-> [a.entries EXCEPT ![e] = {}], ctx |-> a.ctx]
  BY <1>1 DEF Remove
<1>4. new.ctx = a.ctx /\ \A f \in Entry : new.entries[f] = IF f = e THEN {} ELSE a.entries[f]
  BY <1>1, <1>3
<1>5. new \in AWSet
  BY <1>1, <1>3 DEF AWSet
<1>6. WellFormed(m) /\ Dots(m.ctx) = Dots(a.ctx) \cup Dots(delta.ctx)
      /\ \A f \in Entry : \A x \in Dot :
           x \in m.entries[f] <=> /\ x \in a.entries[f] \/ x \in delta.entries[f]
                                  /\ Keeps(a, f, x) /\ Keeps(delta, f, x)
  BY <1>2, MergeSetFacts
<1> HIDE DEF delta, new, m
<1>7. WellFormed(new)
  BY <1>1, <1>4, <1>5 DEF WellFormed
<1>8. Dots(m.ctx) = Dots(new.ctx)
  BY <1>2, <1>4, <1>6 DEF WellFormed
<1>9. ASSUME NEW f \in Entry, NEW x \in Dot
      PROVE  x \in m.entries[f] <=> x \in new.entries[f]
  <2>1. Contains(delta.ctx, x) <=> x \in a.entries[e]
    BY <1>2 DEF Dots
  <2>2. f # e /\ x \in a.entries[f] => x \notin a.entries[e]
    BY DEF OneElementPerDot
  <2> QED
    BY <1>2, <1>4, <1>6, <2>1, <2>2 DEF Keeps
<1>10. \A f \in Entry : m.entries[f] = new.entries[f]
  BY <1>6, <1>7, <1>9, AWSetShape DEF WellFormed
<1>11. new = m
  BY <1>6, <1>7, <1>8, <1>10, AWSetEquality
<1> QED
  BY <1>11 DEF new, m, delta

-----------------------------------------------------------------------------
(* Joins of the deltas of several operations.                              *)

\* a is the join of the deltas of the operations ops.
IsJoin(a, ops) ==
  /\ Dots(a.ctx) = UNION {Dots(op.delta.ctx) : op \in ops}
  /\ \A e \in Entry :
       a.entries[e] = {dot \in Dot : /\ \E op \in ops : dot \in op.delta.entries[e]
                                     /\ \A op \in ops : Keeps(op.delta, e, dot)}

\* A dot survives a join of deltas iff every one of them keeps it.
LEMMA JoinKeeps ==
  ASSUME NEW a, NEW ops, IsJoin(a, ops), NEW e \in Entry, NEW dot \in Dot
  PROVE  /\ Keeps(a, e, dot) <=> \A op \in ops : Keeps(op.delta, e, dot)
         /\ dot \in a.entries[e] <=>
              Keeps(a, e, dot) /\ \E op \in ops : dot \in op.delta.entries[e]
<1>1. Contains(a.ctx, dot) <=> \E op \in ops : Contains(op.delta.ctx, dot)
  BY DEF IsJoin, Dots
<1>2. dot \in a.entries[e] <=> /\ \E op \in ops : dot \in op.delta.entries[e]
                               /\ \A op \in ops : Keeps(op.delta, e, dot)
  BY DEF IsJoin
<1>3. Keeps(a, e, dot) <=> \A op \in ops : Keeps(op.delta, e, dot)
  BY <1>1, <1>2 DEF Keeps
<1> QED
  BY <1>2, <1>3

\* Joins of operations join to the join of all of them.
LEMMA JoinOfJoins ==
  ASSUME NEW a, NEW b, WellFormed(a), WellFormed(b),
         NEW ops1, NEW ops2, IsJoin(a, ops1), IsJoin(b, ops2)
  PROVE  IsJoin(MergeSet(a, b), ops1 \cup ops2)
<1> DEFINE m == MergeSet(a, b)
<1>1. Dots(m.ctx) = UNION {Dots(op.delta.ctx) : op \in ops1 \cup ops2}
  <2>1. Dots(m.ctx) = Dots(a.ctx) \cup Dots(b.ctx)
    BY MergeSetFacts
  <2> HIDE DEF m
  <2> QED
    BY <2>1 DEF IsJoin
<1>2. ASSUME NEW e \in Entry, NEW dot \in Dot
      PROVE  dot \in m.entries[e] <=>
               /\ \E op \in ops1 \cup ops2 : dot \in op.delta.entries[e]
               /\ \A op \in ops1 \cup ops2 : Keeps(op.delta, e, dot)
  <2>1. dot \in m.entries[e] <=> /\ dot \in a.entries[e] \/ dot \in b.entries[e]
                                 /\ Keeps(a, e, dot) /\ Keeps(b, e, dot)
    BY MergeSetFacts
  <2>2. /\ Keeps(a, e, dot) <=> \A op \in ops1 : Keeps(op.delta, e, dot)
        /\ Keeps(b, e, dot) <=> \A op \in ops2 : Keeps(op.delta, e, dot)
        /\ dot \in a.entries[e] <=> Keeps(a, e, dot) /\ \E op \in ops1 : dot \in op.delta.entries[e]
        /\ dot \in b.entries[e] <=> Keeps(b, e, dot) /\ \E op \in ops2 : dot \in op.delta.entries[e]
    BY JoinKeeps
  <2> HIDE DEF m
  <2>3. (\A op \in ops1 \cup ops2 : Keeps(op.delta, e, dot)) <=> Keeps(a, e, dot) /\ Keeps(b, e, dot)
    BY <2>2
  <2>4. (\E op \in ops1 \cup ops2 : dot \in op.delta.entries[e]) <=>
          \/ \E op \in ops1 : dot \in op.delta.entries[e]
          \/ \E op \in ops2 : dot \in op.delta.entries[e]
    OBVIOUS
  <2> QED
    BY <2>1, <2>2, <2>3, <2>4
<1>3. \A e \in Entry : m.entries[e] \subseteq Dot
  BY MergeSetFacts, AWSetShape DEF WellFormed
<1> HIDE DEF m
<1>4. IsJoin(m, ops1 \cup ops2)
  BY <1>1, <1>2, <1>3 DEF IsJoin
<1> QED
  BY <1>4 DEF m

LEMMA JoinOfOne ==
  ASSUME NEW op, WellFormed(op.delta)
  PROVE  IsJoin(op.delta, {op})
<1>1. \A e \in Entry : op.delta.entries[e] \subseteq Dot
  BY AWSetShape DEF WellFormed
<1> QED
  BY <1>1 DEF IsJoin, Keeps

\* Equal joins are equal states.
LEMMA JoinUnique ==
  ASSUME NEW a, NEW b, WellFormed(a), WellFormed(b), NEW ops, IsJoin(a, ops), IsJoin(b, ops)
  PROVE  a = b
<1>1. Dots(a.ctx) = Dots(b.ctx) /\ \A e \in Entry : a.entries[e] = b.entries[e]
  BY DEF IsJoin
<1> QED
  BY <1>1, AWSetEquality

-----------------------------------------------------------------------------
(* The hybrid clock.                                                       *)

LEMMA HlcShape ==
  ASSUME NEW h \in Hlc
  PROVE  /\ h.wall \in 0 .. MaxWall /\ h.counter \in 0 .. MaxCounter
         /\ h.wall \in Int /\ h.counter \in Int
         /\ MaxWall \in Nat /\ MaxCounter \in Nat
         /\ h = [wall |-> h.wall, counter |-> h.counter]
  BY HlcAssumption DEF Hlc, Wall

LEMMA HlcEqual ==
  ASSUME NEW a \in Hlc, NEW b \in Hlc, a.wall = b.wall, a.counter = b.counter
  PROVE  a = b
  BY DEF Hlc

\* The order of hybrid times is a strict total order.
LEMMA HlcOrder ==
  ASSUME NEW a \in Hlc, NEW b \in Hlc, NEW c \in Hlc
  PROVE  /\ ~HlcLess(a, a)
         /\ HlcLess(a, b) /\ HlcLess(b, c) => HlcLess(a, c)
         /\ HlcLess(a, b) \/ a = b \/ HlcLess(b, a)
         /\ ~(HlcLess(a, b) /\ HlcLess(b, a))
<1>1. /\ a.wall \in Int /\ b.wall \in Int /\ c.wall \in Int
      /\ a.counter \in Int /\ b.counter \in Int /\ c.counter \in Int
  BY HlcShape
<1>2. a.wall = b.wall /\ a.counter = b.counter => a = b
  BY HlcEqual
<1> QED
  BY <1>1, <1>2 DEF HlcLess

LEMMA SaturatedIsTop ==
  ASSUME NEW a \in Hlc, NEW b \in Hlc, Saturated(a)
  PROVE  HlcLeq(b, a)
<1>1. /\ a.wall = MaxWall /\ a.counter = MaxCounter
      /\ b.wall \in 0 .. MaxWall /\ b.counter \in 0 .. MaxCounter
  BY HlcShape DEF Saturated
<1>2. b.wall = a.wall /\ b.counter = a.counter => b = a
  BY HlcEqual
<1> QED
  BY <1>1, <1>2, HlcAssumption DEF HlcLeq, HlcLess

-----------------------------------------------------------------------------

\* Below the saturated value, inc goes up.
LEMMA IncFacts ==
  ASSUME NEW h \in Hlc
  PROVE  /\ Inc(h) \in Hlc
         /\ ~Saturated(h) => HlcLess(h, Inc(h))
<1>1. /\ h.wall \in 0 .. MaxWall /\ h.counter \in 0 .. MaxCounter
      /\ MaxWall \in Nat /\ MaxCounter \in Nat
      /\ h = [wall |-> h.wall, counter |-> h.counter]
  BY HlcShape
<1>2. CASE h.counter < MaxCounter
  <2>1. Inc(h) = [wall |-> h.wall, counter |-> h.counter + 1]
    BY <1>1, <1>2 DEF Inc
  <2> QED
    BY <1>1, <1>2, <2>1 DEF Hlc, Wall, HlcLess
<1>3. CASE ~(h.counter < MaxCounter)
  <2>1. Min({h.wall + 1, MaxWall}) = IF h.wall < MaxWall THEN h.wall + 1 ELSE MaxWall
    BY <1>1 DEF Min
  <2>2. Inc(h) = [wall |-> IF h.wall < MaxWall THEN h.wall + 1 ELSE MaxWall, counter |-> 0]
    BY <1>3, <2>1 DEF Inc
  <2>3. h.counter = MaxCounter
    BY <1>1, <1>3
  <2>4. CASE h.wall < MaxWall
    BY <1>1, <2>2, <2>4 DEF Hlc, Wall, HlcLess
  <2>5. CASE ~(h.wall < MaxWall)
    BY <1>1, <2>2, <2>3, <2>5 DEF Hlc, Wall, Saturated
  <2> QED
    BY <2>4, <2>5
<1> QED
  BY <1>2, <1>3

\* next_local is above its clock, whatever the physical time.
LEMMA NextLocalFacts ==
  ASSUME NEW h \in Hlc, NEW now \in Wall
  PROVE  /\ NextLocal(h, now) \in Hlc
         /\ ~Saturated(h) => HlcLess(h, NextLocal(h, now))
<1>1. h.wall \in Int /\ now \in Int /\ MaxCounter \in Nat
  BY HlcShape, HlcAssumption DEF Wall
<1>2. CASE now > h.wall
  BY <1>1, <1>2 DEF NextLocal, Hlc, HlcLess
<1>3. CASE ~(now > h.wall)
  BY <1>3, IncFacts DEF NextLocal
<1> QED
  BY <1>2, <1>3

\* The later of two hybrid times.
Later(a, b) == IF HlcLess(a, b) THEN b ELSE a

LEMMA LaterFacts ==
  ASSUME NEW a \in Hlc, NEW b \in Hlc
  PROVE  /\ Later(a, b) \in Hlc /\ Later(a, b) \in {a, b}
         /\ HlcLeq(a, Later(a, b)) /\ HlcLeq(b, Later(a, b))
  BY HlcOrder DEF Later, HlcLeq

(***************************************************************************)
(* The four cases of update (hlc.rs:87) are one rule: the local event that *)
(* follows the later of the clock and the value received.                  *)
(***************************************************************************)
THEOREM UpdateIsNextLocal ==
  ASSUME NEW last \in Hlc, NEW now \in Wall, NEW remote \in Hlc
  PROVE  Update(last, now, remote) = NextLocal(Later(last, remote), now)
<1> DEFINE top == Max({last.wall, remote.wall, now})
<1>1. /\ last.wall \in Int /\ remote.wall \in Int /\ now \in Int
      /\ last.counter \in Int /\ remote.counter \in Int
      /\ last = [wall |-> last.wall, counter |-> last.counter]
      /\ remote = [wall |-> remote.wall, counter |-> remote.counter]
  BY HlcShape, HlcAssumption DEF Wall
<1>2. /\ top \in {last.wall, remote.wall, now}
      /\ top >= last.wall /\ top >= remote.wall /\ top >= now
  <2>1. \E x \in {last.wall, remote.wall, now} : \A y \in {last.wall, remote.wall, now} : x >= y
    <3>1. CASE last.wall >= remote.wall /\ last.wall >= now
      BY <1>1, <3>1
    <3>2. CASE remote.wall >= last.wall /\ remote.wall >= now
      BY <1>1, <3>2
    <3>3. CASE now >= last.wall /\ now >= remote.wall
      BY <1>1, <3>3
    <3> QED
      BY <1>1, <3>1, <3>2, <3>3
  <2> QED
    BY <2>1 DEF Max
<1>3. Update(last, now, remote) =
        CASE top = last.wall /\ top = remote.wall ->
               Inc([wall |-> top, counter |-> Max({last.counter, remote.counter})])
          [] top = last.wall /\ top # remote.wall -> Inc(last)
          [] top # last.wall /\ top = remote.wall -> Inc(remote)
          [] OTHER                                -> [wall |-> top, counter |-> 0]
  BY DEF Update
<1> HIDE DEF top
<1>4. CASE top = last.wall /\ top = remote.wall
  <2>1. Max({last.counter, remote.counter}) =
          IF last.counter < remote.counter THEN remote.counter ELSE last.counter
    BY <1>1 DEF Max
  <2>2. Later(last, remote) =
          [wall |-> top, counter |-> Max({last.counter, remote.counter})]
    BY <1>1, <1>4, <2>1 DEF Later, HlcLess
  <2>3. Update(last, now, remote) = Inc(Later(last, remote))
    BY <1>3, <1>4, <2>2
  <2>4. ~(now > Later(last, remote).wall)
    BY <1>1, <1>2, <1>4, <2>2
  <2> QED
    BY <2>3, <2>4 DEF NextLocal
<1>5. CASE top = last.wall /\ top # remote.wall
  <2>1. Later(last, remote) = last
    BY <1>1, <1>2, <1>5 DEF Later, HlcLess
  <2>2. ~(now > last.wall)
    BY <1>1, <1>2, <1>5
  <2> QED
    BY <1>3, <1>5, <2>1, <2>2 DEF NextLocal
<1>6. CASE top # last.wall /\ top = remote.wall
  <2>1. Later(last, remote) = remote
    BY <1>1, <1>2, <1>6 DEF Later, HlcLess
  <2>2. ~(now > remote.wall)
    BY <1>1, <1>2, <1>6
  <2> QED
    BY <1>3, <1>6, <2>1, <2>2 DEF NextLocal
<1>7. CASE top # last.wall /\ top # remote.wall
  <2>1. top = now /\ now > last.wall /\ now > remote.wall
    BY <1>1, <1>2, <1>7
  <2>2. now > Later(last, remote).wall
    BY <2>1 DEF Later
  <2> QED
    BY <1>3, <1>7, <2>1, <2>2 DEF NextLocal
<1> QED
  BY <1>4, <1>5, <1>6, <1>7

(***************************************************************************)
(* update is above both the clock and the value received, in the domain of *)
(* hlc.rs:12.                                                              *)
(***************************************************************************)
THEOREM UpdateFacts ==
  ASSUME NEW last \in Hlc, NEW now \in Wall, NEW remote \in Hlc
  PROVE  /\ Update(last, now, remote) \in Hlc
         /\ ~Saturated(Later(last, remote)) =>
              /\ HlcLess(last, Update(last, now, remote))
              /\ HlcLess(remote, Update(last, now, remote))
<1> DEFINE later == Later(last, remote)
           new == Update(last, now, remote)
<1>1. later \in Hlc /\ HlcLeq(last, later) /\ HlcLeq(remote, later)
  BY LaterFacts
<1>2. new \in Hlc /\ (~Saturated(later) => HlcLess(later, new))
  BY <1>1, UpdateIsNextLocal, NextLocalFacts
<1> HIDE DEF later, new
<1>3. ~Saturated(later) => HlcLess(last, new) /\ HlcLess(remote, new)
  BY <1>1, <1>2, HlcOrder DEF HlcLeq
<1> QED
  BY <1>2, <1>3 DEF later, new
=============================================================================
