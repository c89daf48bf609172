------------------------- MODULE PresenceSyncProofs -------------------------
(***************************************************************************)
(* The properties of PresenceSync, for any devices, entries, counters and  *)
(* number of operations, over a log that delivers in any order.            *)
(*                                                                         *)
(* The induction is about one fact: a replica is the join of the deltas it *)
(* took in.  Local operations preserve it because they equal the merge of  *)
(* their own delta (AddIsMergeOfDelta), which needs that a dot holds one   *)
(* entry, which needs that no two operations carry the same dot, which     *)
(* needs that a device knows its own operations.                           *)
(***************************************************************************)
EXTENDS PresenceSync, CrdtProofs, FiniteSetTheorems

Replicas == \A d \in Device : WellFormed(set[d]) /\ OneElementPerDot(set[d])

\* What the deltas of the log look like: dots of the author, on the entry named.
Deltas ==
  \A op \in log :
    /\ op \in Op
    /\ WellFormed(op.delta)
    /\ \A e \in Entry : \A dot \in op.delta.entries[e] :
         dot.device = op.id.device /\ e = op.entry

\* A device knows its own operations.
OwnDotsKnown == \A d \in Device : Issued(d) \subseteq seen[d]

SeenInLog == \A d \in Device : seen[d] \subseteq log

\* The inductive invariant.
IInv ==
  /\ TypeOK
  /\ IsFiniteSet(log)
  /\ SeenInLog
  /\ Deltas
  /\ Replicas
  /\ OwnDotsKnown
  /\ AddsHaveOwnDots
  /\ StateIsJoinOfSeen

-----------------------------------------------------------------------------

LEMMA StateIsJoin == StateIsJoinOfSeen <=> \A d \in Device : IsJoin(set[d], seen[d])
  BY DEF StateIsJoinOfSeen, ContextIsUnion, EntriesAreJoin, IsJoin

\* Where deltas of different operations share no dot, a join of operations
\* gives every dot one entry.
LEMMA JoinOneElementPerDot ==
  ASSUME NEW a, NEW ops, ops \subseteq log, IsJoin(a, ops), Deltas, AddsHaveOwnDots
  PROVE  OneElementPerDot(a)
<1> SUFFICES ASSUME NEW e \in Entry, NEW f \in Entry, e # f,
                    NEW dot, dot \in a.entries[e], dot \in a.entries[f]
             PROVE  FALSE
  BY DEF OneElementPerDot
<1>1. PICK op1 \in log : dot \in op1.delta.entries[e]
  BY DEF IsJoin
<1>2. PICK op2 \in log : dot \in op2.delta.entries[f]
  BY DEF IsJoin
<1>3. op1 = op2
  BY <1>1, <1>2 DEF AddsHaveOwnDots
<1>4. e = op1.entry /\ f = op1.entry
  BY <1>1, <1>2, <1>3 DEF Deltas
<1> QED
  BY <1>4

-----------------------------------------------------------------------------

LEMMA InitIInv == Init => IInv
<1> SUFFICES ASSUME Init PROVE IInv
  OBVIOUS
<1>1. \A d \in Device : set[d] = EmptySet /\ seen[d] = {}
  BY DEF Init
<1>2. log = {} /\ IsFiniteSet(log)
  BY FS_EmptySet DEF Init
<1>3. TypeOK
  <2>1. EmptySet \in AWSet
    BY EmptySetFacts DEF WellFormed
  <2> QED
    BY <1>2, <2>1 DEF Init, TypeOK
<1>4. Replicas
  BY <1>1, EmptySetFacts DEF Replicas, OneElementPerDot
<1>5. StateIsJoinOfSeen
  <2>1. IsJoin(EmptySet, {})
    BY EmptySetFacts DEF IsJoin
  <2> QED
    BY <1>1, <2>1, StateIsJoin
<1> QED
  BY <1>1, <1>2, <1>3, <1>4, <1>5 DEF IInv, SeenInLog, Deltas, OwnDotsKnown, Issued, AddsHaveOwnDots

\* Taking in a join of operations of the log preserves the invariant.
LEMMA TakeIn ==
  ASSUME IInv, NEW d \in Device, NEW b, WellFormed(b),
         NEW ops \in SUBSET log, IsJoin(b, ops),
         set' = [set EXCEPT ![d] = MergeSet(@, b)],
         seen' = [seen EXCEPT ![d] = @ \cup ops],
         log' = log
  PROVE  IInv'
<1> DEFINE m == MergeSet(set[d], b)
<1> USE DEF IInv
<1>1. set \in [Device -> AWSet] /\ seen \in [Device -> SUBSET Op] /\ log \subseteq Op
  BY DEF TypeOK
<1>2. /\ \A s \in Device : set'[s] = IF s = d THEN m ELSE set[s]
      /\ \A s \in Device : seen'[s] = IF s = d THEN seen[d] \cup ops ELSE seen[s]
  BY <1>1
<1>3. WellFormed(set[d]) /\ IsJoin(set[d], seen[d])
  BY StateIsJoin DEF Replicas
<1>4. WellFormed(m) /\ m \in AWSet
  BY <1>3, MergeSetFacts DEF WellFormed
<1>5. IsJoin(m, seen[d] \cup ops)
  BY <1>3, JoinOfJoins
<1>6. seen[d] \cup ops \subseteq log
  BY DEF SeenInLog
<1>7. OneElementPerDot(m)
  BY <1>5, <1>6, JoinOneElementPerDot
<1> HIDE DEF m
<1>8. TypeOK'
  <2>1. set' \in [Device -> AWSet]
    BY <1>1, <1>4 DEF m
  <2>2. seen' \in [Device -> SUBSET Op]
    BY <1>1
  <2> QED
    BY <1>1, <2>1, <2>2 DEF TypeOK
<1>9. Replicas'
  BY <1>2, <1>4, <1>7 DEF Replicas
<1>10. SeenInLog'
  BY <1>2, <1>6 DEF SeenInLog
<1>11. OwnDotsKnown'
  BY <1>2 DEF OwnDotsKnown, Issued
<1>12. Deltas' /\ AddsHaveOwnDots' /\ IsFiniteSet(log')
  BY DEF Deltas, AddsHaveOwnDots
<1>13. \A s \in Device : IsJoin(set'[s], seen'[s])
  BY <1>2, <1>5, StateIsJoin
<1>14. StateIsJoinOfSeen'
  BY <1>13 DEF StateIsJoinOfSeen, ContextIsUnion, EntriesAreJoin, IsJoin
<1> QED
  BY <1>8, <1>9, <1>10, <1>11, <1>12, <1>14

\* The number of a new operation of d.
LEMMA NewIdFacts ==
  ASSUME IInv, NEW d \in Device, Cardinality(log) < MaxOps
  PROVE  Cardinality(Issued(d)) + 1 \in 1 .. MaxOps
<1>1. IsFiniteSet(log) /\ Issued(d) \in SUBSET log
  BY DEF IInv, Issued
<1>2. IsFiniteSet(Issued(d)) /\ Cardinality(Issued(d)) <= Cardinality(log)
  BY <1>1, FS_Subset
<1>3. Cardinality(Issued(d)) \in Nat /\ Cardinality(log) \in Nat /\ MaxOps \in Nat
  BY <1>1, <1>2, FS_CardinalityType, MaxOpsAssumption
<1> QED
  BY <1>2, <1>3

\* A dot of d that d has not observed is in no delta of the log.
LEMMA FreshInLog ==
  ASSUME IInv, NEW d \in Device, NEW dot, dot.device = d, dot \notin Dots(set[d].ctx),
         NEW op \in log, NEW e \in Entry
  PROVE  dot \notin op.delta.entries[e]
<1> SUFFICES ASSUME dot \in op.delta.entries[e] PROVE FALSE
  OBVIOUS
<1>1. op.id.device = d /\ dot \in Dots(op.delta.ctx)
  BY DEF IInv, Deltas, WellFormed
<1>2. op \in seen[d]
  BY <1>1 DEF IInv, OwnDotsKnown, Issued
<1>3. dot \in Dots(set[d].ctx)
  BY <1>1, <1>2 DEF IInv, StateIsJoinOfSeen, ContextIsUnion
<1> QED
  BY <1>3

\* An operation that equals the merge of its delta preserves the invariant,
\* if the dots of the delta are fresh.
LEMMA OperateStep ==
  ASSUME IInv, NEW d \in Device, NEW kind \in {"add", "remove"}, NEW e \in Entry,
         NEW delta, WellFormed(delta),
         \A f \in Entry : \A dot \in delta.entries[f] :
           f = e /\ dot.device = d /\ dot \notin Dots(set[d].ctx),
         set' = [set EXCEPT ![d] = MergeSet(@, delta)],
         Ship(d, kind, e, delta)
  PROVE  IInv'
<1> DEFINE op == [id |-> [device |-> d, seq |-> Cardinality(Issued(d)) + 1],
                  kind |-> kind, entry |-> e, delta |-> delta, past |-> Past(d)]
           m == MergeSet(set[d], delta)
<1>1. /\ op.delta = delta /\ op.id.device = d /\ op.entry = e
      /\ Cardinality(log) < MaxOps
      /\ log' = log \cup {op}
      /\ seen' = [seen EXCEPT ![d] = @ \cup {op}]
  BY DEF Ship
<1>2. set \in [Device -> AWSet] /\ seen \in [Device -> SUBSET Op] /\ log \subseteq Op
  BY DEF IInv, TypeOK
<1>3. op \in Op
  <2>1. [device |-> d, seq |-> Cardinality(Issued(d)) + 1] \in OpId
    BY <1>1, NewIdFacts DEF OpId
  <2>2. Past(d) \in SUBSET OpId
    <3>1. \A o \in seen[d] : o.id \in OpId /\ o.past \in SUBSET OpId
      BY <1>2 DEF Op
    <3> QED
      BY <3>1 DEF Past, Ids
  <2>3. delta \in AWSet
    BY DEF WellFormed
  <2> QED
    BY <2>1, <2>2, <2>3 DEF Op
<1> HIDE DEF op
<1>4. /\ \A s \in Device : set'[s] = IF s = d THEN m ELSE set[s]
      /\ \A s \in Device : seen'[s] = IF s = d THEN seen[d] \cup {op} ELSE seen[s]
  BY <1>1, <1>2
<1>5. WellFormed(set[d]) /\ IsJoin(set[d], seen[d])
  BY StateIsJoin DEF IInv, Replicas
<1>6. WellFormed(m) /\ m \in AWSet
  BY <1>5, MergeSetFacts DEF WellFormed
<1>7. IsJoin(m, seen[d] \cup {op})
  <2>1. IsJoin(op.delta, {op})
    BY <1>1, JoinOfOne
  <2> QED
    BY <1>1, <1>5, <2>1, JoinOfJoins
<1> HIDE DEF m
<1>8. TypeOK'
  <2>1. set' \in [Device -> AWSet]
    BY <1>2, <1>6 DEF m
  <2>2. seen' \in [Device -> SUBSET Op] /\ log' \subseteq Op
    BY <1>1, <1>2, <1>3
  <2> QED
    BY <2>1, <2>2 DEF TypeOK
<1>9. Deltas'
  <2>1. ASSUME NEW o \in log'
        PROVE  /\ o \in Op /\ WellFormed(o.delta)
               /\ \A f \in Entry : \A dot \in o.delta.entries[f] :
                    dot.device = o.id.device /\ f = o.entry
    <3>1. CASE o = op
      BY <1>1, <1>3, <3>1
    <3>2. CASE o \in log
      BY <3>2 DEF IInv, Deltas
    <3> QED
      BY <1>1, <3>1, <3>2
  <2> QED
    BY <2>1 DEF Deltas
<1>10. AddsHaveOwnDots'
  <2>1. ASSUME NEW op2 \in log, NEW e1 \in Entry, NEW e2 \in Entry
        PROVE  op.delta.entries[e1] \cap op2.delta.entries[e2] = {}
    <3>1. \A dot \in delta.entries[e1] : dot \notin op2.delta.entries[e2]
      BY FreshInLog
    <3> QED
      BY <1>1, <3>1
  <2>2. AddsHaveOwnDots
    BY DEF IInv
  <2> QED
    BY <1>1, <2>1, <2>2 DEF AddsHaveOwnDots
<1>11. SeenInLog'
  BY <1>1, <1>4 DEF IInv, SeenInLog
<1>12. OwnDotsKnown'
  <2>1. \A s \in Device : Issued(s) \subseteq seen[s]
    BY DEF IInv, OwnDotsKnown
  <2>2. \A s \in Device : {o \in log' : o.id.device = s} \subseteq seen'[s]
    BY <1>1, <1>4, <2>1 DEF Issued
  <2> QED
    BY <2>2 DEF OwnDotsKnown, Issued
<1>13. IsFiniteSet(log')
  BY <1>1, FS_AddElement DEF IInv
<1>14. \A s \in Device : IsJoin(set'[s], seen'[s])
  BY <1>4, <1>7, StateIsJoin DEF IInv
<1>15. StateIsJoinOfSeen'
  BY <1>14 DEF StateIsJoinOfSeen, ContextIsUnion, EntriesAreJoin, IsJoin
<1>16. Replicas'
  <2>1. ASSUME NEW s \in Device
        PROVE  OneElementPerDot(set'[s])
    <3> SUFFICES ASSUME NEW f \in Entry, NEW g \in Entry, f # g,
                        NEW dot, dot \in set'[s].entries[f], dot \in set'[s].entries[g]
                 PROVE  FALSE
      BY DEF OneElementPerDot
    <3>1. PICK op1 \in seen'[s] : dot \in op1.delta.entries[f]
      BY <1>14 DEF IsJoin
    <3>2. PICK op2 \in seen'[s] : dot \in op2.delta.entries[g]
      BY <1>14 DEF IsJoin
    <3>3. op1 \in log' /\ op2 \in log'
      BY <1>11, <3>1, <3>2 DEF SeenInLog
    <3>4. op1 = op2
      BY <1>10, <3>1, <3>2, <3>3 DEF AddsHaveOwnDots
    <3> QED
      BY <1>9, <3>1, <3>2, <3>3, <3>4 DEF Deltas
  <2> QED
    BY <1>4, <1>6, <2>1 DEF IInv, Replicas
<1> QED
  BY <1>8, <1>9, <1>10, <1>11, <1>12, <1>13, <1>15, <1>16 DEF IInv

LEMMA StepIInv == IInv /\ [Next]_vars => IInv'
<1> SUFFICES ASSUME IInv, [Next]_vars PROVE IInv'
  OBVIOUS
<1>1. \A d \in Device : WellFormed(set[d]) /\ OneElementPerDot(set[d])
  BY DEF IInv, Replicas
<1>2. ASSUME NEW d \in Device, NEW e \in Entry, AddEntry(d, e)
      PROVE  IInv'
  <2> DEFINE delta == AddDelta(set[d], e, d)
  <2>1. CanMint(set[d].ctx, d) /\ Ship(d, "add", e, delta)
        /\ set' = [set EXCEPT ![d] = Add(set[d], e, d)]
    BY <1>2 DEF AddEntry
  <2>2. set' = [set EXCEPT ![d] = MergeSet(set[d], delta)]
    BY <1>1, <2>1, AddIsMergeOfDelta
  <2>3. WellFormed(delta)
    BY <1>1, <2>1, AddDeltaFacts
  <2>4. \A f \in Entry : \A dot \in delta.entries[f] :
          f = e /\ dot.device = d /\ dot \notin Dots(set[d].ctx)
    <3>1. \A f \in Entry : delta.entries[f] = IF f = e THEN {NextDot(set[d].ctx, d)} ELSE {}
      BY <1>1, <2>1, AddDeltaFacts
    <3>2. NextDot(set[d].ctx, d).device = d /\ NextDot(set[d].ctx, d) \notin Dots(set[d].ctx)
      BY <1>1, <2>1, NextDotFacts, AWSetShape DEF WellFormed
    <3> QED
      BY <3>1, <3>2
  <2> HIDE DEF delta
  <2> QED
    BY <2>1, <2>2, <2>3, <2>4, OperateStep
<1>3. ASSUME NEW d \in Device, NEW e \in Entry, RemoveEntry(d, e)
      PROVE  IInv'
  <2> DEFINE delta == RemoveDelta(set[d], e)
  <2>1. Ship(d, "remove", e, delta) /\ set' = [set EXCEPT ![d] = Remove(set[d], e)]
    BY <1>3 DEF RemoveEntry
  <2>2. set' = [set EXCEPT ![d] = MergeSet(set[d], delta)]
    BY <1>1, <2>1, RemoveIsMergeOfDelta
  <2>3. WellFormed(delta) /\ \A f \in Entry : delta.entries[f] = {}
    BY <1>1, RemoveDeltaFacts
  <2> HIDE DEF delta
  <2> QED
    BY <2>1, <2>2, <2>3, OperateStep
<1>4. ASSUME NEW d \in Device, Deliver(d)
      PROVE  IInv'
  <2>1. PICK op \in log : MergeDelta(d, op)
    BY <1>4 DEF Deliver
  <2>2. WellFormed(op.delta)
    BY DEF IInv, Deltas
  <2>3. IsJoin(op.delta, {op})
    BY <2>2, JoinOfOne
  <2> QED
    BY <2>1, <2>2, <2>3, TakeIn DEF MergeDelta
<1>5. ASSUME NEW d \in Device, Snapshot(d)
      PROVE  IInv'
  <2>1. PICK s \in Device : /\ set'  = [set EXCEPT ![d] = MergeSet(@, set[s])]
                            /\ seen' = [seen EXCEPT ![d] = @ \cup seen[s]]
                            /\ log' = log
    BY <1>5 DEF Snapshot
  <2>2. IsJoin(set[s], seen[s]) /\ seen[s] \in SUBSET log
    BY StateIsJoin DEF IInv, SeenInLog
  <2> QED
    BY <1>1, <2>1, <2>2, TakeIn
<1>6. CASE UNCHANGED vars
  BY <1>6 DEF vars, IInv, TypeOK, SeenInLog, Deltas, Replicas, OwnDotsKnown, Issued,
              AddsHaveOwnDots, StateIsJoinOfSeen, ContextIsUnion, EntriesAreJoin
<1>7. CASE Next
  BY <1>2, <1>3, <1>4, <1>5, <1>7 DEF Next, Operate
<1> QED
  BY <1>6, <1>7

THEOREM AlwaysIInv == Spec => []IInv
  BY InitIInv, StepIInv, PTL DEF Spec

-----------------------------------------------------------------------------

\* Replicas, operations and histories keep their types.
THEOREM PresenceTyped == Spec => []TypeOK
<1>1. IInv => TypeOK
  BY DEF IInv
<1> QED
  BY <1>1, AlwaysIInv, PTL

(***************************************************************************)
(* A replica is the join of the deltas it took in, in any order and number *)
(* and by deltas or snapshots (model/mod.rs:22).                           *)
(***************************************************************************)
THEOREM ReplicaIsJoinOfSeen == Spec => []StateIsJoinOfSeen
<1>1. IInv => StateIsJoinOfSeen
  BY DEF IInv
<1> QED
  BY <1>1, AlwaysIInv, PTL

(***************************************************************************)
(* Strong eventual consistency: replicas that took in the same operations  *)
(* are equal (model/mod.rs:28).                                            *)
(***************************************************************************)
THEOREM ReplicasConverge == Spec => []Convergence
<1>1. IInv => Convergence
  <2> SUFFICES ASSUME IInv, NEW d \in Device, NEW s \in Device, seen[d] = seen[s]
               PROVE  set[d] = set[s]
    BY DEF Convergence
  <2>1. /\ IsJoin(set[d], seen[d]) /\ IsJoin(set[s], seen[d])
        /\ WellFormed(set[d]) /\ WellFormed(set[s])
    BY StateIsJoin DEF IInv, Replicas
  <2> QED
    BY <2>1, JoinUnique
<1> QED
  BY <1>1, AlwaysIInv, PTL

(***************************************************************************)
(* No two operations ever carry the same dot (dot.rs:3), although a device *)
(* knows of the others' dots only what it happened to take in.             *)
(***************************************************************************)
THEOREM DotsAreUnique == Spec => []AddsHaveOwnDots
<1>1. IInv => AddsHaveOwnDots
  BY DEF IInv
<1> QED
  BY <1>1, AlwaysIInv, PTL

(***************************************************************************)
(* No step brings back a dot that was observed and dropped (awset.rs:5):   *)
(* neither the repeated delivery of an add, nor a stale snapshot.          *)
(***************************************************************************)
THEOREM NothingResurrects == Spec => NoResurrection
<1> DEFINE New(d, e) == \A dot \in set'[d].entries[e] \ set[d].entries[e] : ~Contains(set[d].ctx, dot)
<1>1. ASSUME IInv, [Next]_vars, NEW d \in Device, NEW e \in Entry
      PROVE  New(d, e)
  <2>1. \A s \in Device : WellFormed(set[s]) /\ OneElementPerDot(set[s])
    BY <1>1 DEF IInv, Replicas
  <2>2. ASSUME NEW s \in Device, NEW b, WellFormed(b), set' = [set EXCEPT ![s] = MergeSet(set[s], b)]
        PROVE  New(d, e)
    <3>1. set'[d] = IF d = s THEN MergeSet(set[d], b) ELSE set[d]
      BY <1>1, <2>2 DEF IInv, TypeOK
    <3>2. \A dot \in MergeSet(set[d], b).entries[e] : Keeps(set[d], e, dot)
      BY DEF MergeSet
    <3> QED
      BY <3>1, <3>2 DEF Keeps
  <2>3. ASSUME NEW s \in Device, NEW f \in Entry, AddEntry(s, f)
        PROVE  New(d, e)
    <3>1. CanMint(set[s].ctx, s) /\ set' = [set EXCEPT ![s] = Add(set[s], f, s)]
      BY <2>3 DEF AddEntry
    <3>2. WellFormed(AddDelta(set[s], f, s))
          /\ Add(set[s], f, s) = MergeSet(set[s], AddDelta(set[s], f, s))
      BY <2>1, <3>1, AddDeltaFacts, AddIsMergeOfDelta
    <3> QED
      BY <2>2, <3>1, <3>2
  <2>4. ASSUME NEW s \in Device, NEW f \in Entry, RemoveEntry(s, f)
        PROVE  New(d, e)
    <3>1. set' = [set EXCEPT ![s] = Remove(set[s], f)]
      BY <2>4 DEF RemoveEntry
    <3>2. WellFormed(RemoveDelta(set[s], f))
          /\ Remove(set[s], f) = MergeSet(set[s], RemoveDelta(set[s], f))
      BY <2>1, RemoveDeltaFacts, RemoveIsMergeOfDelta
    <3> QED
      BY <2>2, <3>1, <3>2
  <2>5. ASSUME NEW s \in Device, Deliver(s)
        PROVE  New(d, e)
    <3>1. PICK op \in log : set' = [set EXCEPT ![s] = MergeSet(set[s], op.delta)]
      BY <2>5 DEF Deliver, MergeDelta
    <3>2. WellFormed(op.delta)
      BY <1>1 DEF IInv, Deltas
    <3> QED
      BY <2>2, <3>1, <3>2
  <2>6. ASSUME NEW s \in Device, Snapshot(s)
        PROVE  New(d, e)
    <3>1. PICK t \in Device : set' = [set EXCEPT ![s] = MergeSet(set[s], set[t])]
      BY <2>6 DEF Snapshot
    <3> QED
      BY <2>1, <2>2, <3>1
  <2>7. CASE UNCHANGED vars
    BY <2>7 DEF vars
  <2>8. CASE Next
    BY <2>3, <2>4, <2>5, <2>6, <2>8 DEF Next, Operate
  <2> QED
    BY <1>1, <2>7, <2>8
<1>2. IInv /\ [Next]_vars => \A d \in Device, e \in Entry : New(d, e)
  BY <1>1
<1>3. IInv /\ [Next]_vars =>
        [\A d \in Device, e \in Entry :
           \A dot \in set'[d].entries[e] \ set[d].entries[e] : ~Contains(set[d].ctx, dot)]_vars
  BY <1>2
<1> QED
  BY <1>3, AlwaysIInv, PTL DEF Spec, NoResurrection
-----------------------------------------------------------------------------
(* What happened before what.                                              *)

\* An operation of d, with what its delta removes and what it brings.
Performed(d, op) ==
  /\ log' = log \cup {op} /\ seen' = [seen EXCEPT ![d] = @ \cup {op}] /\ op.past = Past(d)
  /\ op.id = [device |-> d, seq |-> Cardinality(Issued(d)) + 1]
  /\ Dots(op.delta.ctx) = set[d].entries[op.entry] \cup op.delta.entries[op.entry]
  /\ op.kind = "remove" => \A e \in Entry : op.delta.entries[e] = {}
  /\ op.kind = "add" =>
       \E dot \in Dot :
         /\ op.delta.entries[op.entry] = {dot} /\ dot.device = d
         /\ dot.counter > 1 => DotOf(d, dot.counter - 1) \in Dots(set[d].ctx)

LEMMA OperateShape ==
  ASSUME IInv, NEW d \in Device, Operate(d)
  PROVE  \E op \in Op : Performed(d, op)
<1>1. /\ WellFormed(set[d]) /\ set[d].ctx \in Context
      /\ set[d].entries \in [Entry -> SUBSET Dot]
  BY AWSetShape DEF IInv, Replicas, WellFormed
<1>2. IInv'
  BY StepIInv DEF Next
<1>3. ASSUME NEW e \in Entry, AddEntry(d, e)
      PROVE  \E op \in Op : Performed(d, op)
  <2> DEFINE delta == AddDelta(set[d], e, d)
             op    == [id |-> [device |-> d, seq |-> Cardinality(Issued(d)) + 1],
                       kind |-> "add", entry |-> e, delta |-> delta, past |-> Past(d)]
             dot   == NextDot(set[d].ctx, d)
  <2>1. CanMint(set[d].ctx, d) /\ log' = log \cup {op} /\ seen' = [seen EXCEPT ![d] = @ \cup {op}]
    BY <1>3 DEF AddEntry, Ship
  <2>2. /\ Dots(delta.ctx) = {dot} \cup set[d].entries[e]
        /\ delta.entries[e] = {dot}
    <3>1. Dots(delta.ctx) = {dot} \cup set[d].entries[e]
      BY <1>1, <2>1, AddDeltaFacts
    <3>2. \A f \in Entry : delta.entries[f] = IF f = e THEN {dot} ELSE {}
      BY <1>1, <2>1, AddDeltaFacts
    <3> HIDE DEF delta, dot
    <3> QED
      BY <3>1, <3>2
  <2>3. dot \in Dot /\ dot.device = d
    BY <1>1, <2>1, NextDotFacts
  <2>4. dot.counter > 1 => DotOf(d, dot.counter - 1) \in Dots(set[d].ctx)
    BY <1>1, <2>1, PredecessorObserved
  <2>5. /\ op.past = Past(d) /\ op.kind = "add" /\ op.entry = e /\ op.delta = delta
        /\ op.id = [device |-> d, seq |-> Cardinality(Issued(d)) + 1]
    OBVIOUS
  <2> HIDE DEF delta, op, dot
  <2>6. op \in Op
    BY <1>2, <2>1 DEF IInv, TypeOK
  <2> QED
    BY <2>1, <2>2, <2>3, <2>4, <2>5, <2>6 DEF Performed
<1>4. ASSUME NEW e \in Entry, RemoveEntry(d, e)
      PROVE  \E op \in Op : Performed(d, op)
  <2> DEFINE delta == RemoveDelta(set[d], e)
             op    == [id |-> [device |-> d, seq |-> Cardinality(Issued(d)) + 1],
                       kind |-> "remove", entry |-> e, delta |-> delta, past |-> Past(d)]
  <2>1. log' = log \cup {op} /\ seen' = [seen EXCEPT ![d] = @ \cup {op}]
    BY <1>4 DEF RemoveEntry, Ship
  <2>2. Dots(delta.ctx) = set[d].entries[e] /\ \A f \in Entry : delta.entries[f] = {}
    BY <1>1, RemoveDeltaFacts
  <2>3. /\ op.past = Past(d) /\ op.kind = "remove" /\ op.entry = e /\ op.delta = delta
        /\ op.id = [device |-> d, seq |-> Cardinality(Issued(d)) + 1]
    OBVIOUS
  <2> HIDE DEF delta, op
  <2>4. op \in Op
    BY <1>2, <2>1 DEF IInv, TypeOK
  <2> QED
    BY <2>1, <2>2, <2>3, <2>4 DEF Performed
<1> QED
  BY <1>3, <1>4 DEF Operate

LEMMA StepShape ==
  ASSUME IInv, Next
  PROVE  log' = log \/ \E d \in Device : \E op \in Op : Performed(d, op)
<1>1. ASSUME NEW d \in Device, Deliver(d) \/ Snapshot(d)
      PROVE  log' = log
  BY <1>1 DEF Deliver, MergeDelta, Snapshot
<1> QED
  BY <1>1, OperateShape DEF Next

\* Identities are unique, and the past of an operation is closed and in the log.
Histories ==
  /\ \A op \in log : op.id.seq <= Cardinality(Issued(op.id.device))
  /\ \A o, p \in log : o.id = p.id => o = p
  /\ \A op \in log : op.past \subseteq Ids(log) /\ op.id \notin op.past
  /\ IsFiniteSet(Ids(log))
  /\ \A o, p \in log : o.id \in p.past => o.past \subseteq p.past

\* A delta names dots of its own or of the past, all of the entry operated on.
Shapes ==
  /\ \A op \in log :
       /\ op.kind = "add" => \E dot \in Dot : op.delta.entries[op.entry] = {dot}
       /\ op.kind = "remove" => \A e \in Entry : op.delta.entries[e] = {}
  /\ \A op \in log : \A dot \in Dots(op.delta.ctx) :
       \E a \in log : dot \in a.delta.entries[op.entry] /\ (a = op \/ a.id \in op.past)

\* The dots of a device in the log are its first ones.
Numbered ==
  \A op \in log : \A e \in Entry : \A dot \in op.delta.entries[e] :
    \A n \in 1 .. dot.counter :
      \E a \in log : \E f \in Entry : DotOf(dot.device, n) \in a.delta.entries[f]

HInv == Histories /\ Shapes /\ Numbered

LEMMA InitHInv == Init => HInv
  BY FS_EmptySet DEF Ids, Init, HInv, Histories, Shapes, Numbered

\* What a device knows of is in the log, and closed.
LEMMA PastFacts ==
  ASSUME IInv, Histories, NEW d \in Device
  PROVE  /\ Past(d) \subseteq Ids(log)
         /\ \A o \in log : o.id \in Past(d) => o.past \subseteq Past(d)
<1>1. seen[d] \subseteq log
  BY DEF IInv, SeenInLog
<1>2. Past(d) \subseteq Ids(log)
  BY <1>1 DEF Past, Ids, Histories
<1>3. ASSUME NEW o \in log, o.id \in Past(d)
      PROVE  o.past \subseteq Past(d)
  <2>1. CASE o.id \in Ids(seen[d])
    <3>1. PICK p \in seen[d] : p.id = o.id
      BY <2>1 DEF Ids
    <3>2. p = o
      BY <1>1, <3>1 DEF Histories
    <3> QED
      BY <3>1, <3>2 DEF Past
  <2>2. CASE \E p \in seen[d] : o.id \in p.past
    <3>1. PICK p \in seen[d] : o.id \in p.past
      BY <2>2
    <3>2. o.past \subseteq p.past
      BY <1>1, <3>1 DEF Histories
    <3> QED
      BY <3>2 DEF Past
  <2> QED
    BY <1>3, <2>1, <2>2 DEF Past
<1> QED
  BY <1>2, <1>3

LEMMA StepHistories ==
  ASSUME IInv, Histories, NEW d \in Device, NEW op \in Op, Performed(d, op)
  PROVE  Histories' /\ op.id \notin Ids(log)
<1> DEFINE count(s) == Cardinality(Issued(s))
           after(s) == Cardinality({o \in log' : o.id.device = s})
<1>1. /\ log' = log \cup {op} /\ op.past = Past(d) /\ op.id.device = d
      /\ op.id.seq = count(d) + 1
  BY DEF Performed
<1>2. log \subseteq Op /\ IsFiniteSet(log) /\ IsFiniteSet(log')
  BY <1>1, FS_AddElement DEF IInv, TypeOK
<1>3. \A o \in log' : o.id.device \in Device /\ o.id.seq \in Int
  BY <1>1, <1>2 DEF Op, OpId
<1>4. ASSUME NEW s \in Device
      PROVE  count(s) \in Nat /\ after(s) \in Nat /\ count(s) <= after(s)
  <2>1. IsFiniteSet({o \in log' : o.id.device = s}) /\ Issued(s) \subseteq {o \in log' : o.id.device = s}
    BY <1>1, <1>2, FS_Subset DEF Issued
  <2>2. IsFiniteSet(Issued(s)) /\ count(s) <= after(s)
    BY <2>1, FS_Subset
  <2> QED
    BY <2>1, <2>2, FS_CardinalityType
<1>5. op.id \notin Ids(log)
  <2> SUFFICES ASSUME NEW o \in log, o.id = op.id PROVE FALSE
    BY DEF Ids
  <2>1. o.id.seq <= count(d) /\ o.id.seq = count(d) + 1
    BY <1>1 DEF Histories
  <2>2. count(d) \in Nat
    BY <1>4
  <2> HIDE DEF count
  <2> QED
    BY <2>1, <2>2
<1>6. after(d) = count(d) + 1
  <2>1. {o \in log' : o.id.device = d} = Issued(d) \cup {op} /\ op \notin Issued(d)
    BY <1>1, <1>5 DEF Issued, Ids
  <2>2. IsFiniteSet(Issued(d))
    BY <1>2, FS_Subset DEF Issued
  <2> QED
    BY <2>1, <2>2, FS_AddElement
<1>7. \A o \in log : o.id.seq <= count(o.id.device)
  BY DEF Histories
<1> HIDE DEF count, after
<1>8. \A o \in log' : o.id.seq <= after(o.id.device)
  BY <1>1, <1>3, <1>4, <1>6, <1>7
<1>9. Past(d) \subseteq Ids(log) /\ \A o \in log : o.id \in Past(d) => o.past \subseteq Past(d)
  BY PastFacts
<1>10. \A o, p \in log' : o.id = p.id => o = p
  BY <1>1, <1>5 DEF Histories, Ids
<1>11. \A o \in log' : o.past \subseteq Ids(log') /\ o.id \notin o.past
  BY <1>1, <1>5, <1>9 DEF Histories, Ids
<1>12. \A o, p \in log' : o.id \in p.past => o.past \subseteq p.past
  <2> SUFFICES ASSUME NEW o \in log', NEW p \in log', o.id \in p.past
               PROVE  o.past \subseteq p.past
    OBVIOUS
  <2>1. p.past \subseteq Ids(log)
    BY <1>1, <1>9 DEF Histories
  <2>2. o \in log
    BY <1>1, <1>5, <2>1
  <2> QED
    BY <1>1, <1>9, <2>2 DEF Histories
<1>13. IsFiniteSet(Ids(log'))
  <2>1. Ids(log') = Ids(log) \cup {op.id}
    BY <1>1 DEF Ids
  <2> QED
    BY <2>1, FS_AddElement DEF Histories
<1> QED
  BY <1>5, <1>8, <1>10, <1>11, <1>12, <1>13 DEF Histories, Issued, after

LEMMA StepShapes ==
  ASSUME IInv, Shapes, NEW d \in Device, NEW op \in Op, Performed(d, op)
  PROVE  Shapes'
<1>1. log' = log \cup {op} /\ op.past = Past(d) /\ op.entry \in Entry
  BY DEF Performed, Op
<1>2. ASSUME NEW dot \in Dots(op.delta.ctx)
      PROVE  \E a \in log' : dot \in a.delta.entries[op.entry] /\ (a = op \/ a.id \in op.past)
  <2>1. CASE dot \in op.delta.entries[op.entry]
    BY <1>1, <2>1
  <2>2. CASE dot \in set[d].entries[op.entry]
    <3>1. PICK a \in seen[d] : dot \in a.delta.entries[op.entry]
      BY <1>1, <2>2 DEF IInv, StateIsJoinOfSeen, EntriesAreJoin
    <3>2. a \in log /\ a.id \in Past(d)
      BY DEF IInv, SeenInLog, Past, Ids
    <3> QED
      BY <1>1, <3>1, <3>2
  <2> QED
    BY <2>1, <2>2 DEF Performed
<1>3. \A o \in log : \A dot \in Dots(o.delta.ctx) :
        \E a \in log' : dot \in a.delta.entries[o.entry] /\ (a = o \/ a.id \in o.past)
  BY <1>1 DEF Shapes
<1>4. /\ op.kind = "add" => \E dot \in Dot : op.delta.entries[op.entry] = {dot}
      /\ op.kind = "remove" => \A e \in Entry : op.delta.entries[e] = {}
  BY DEF Performed
<1> QED
  BY <1>1, <1>2, <1>3, <1>4 DEF Shapes

\* A dot a replica has observed is in the delta of an operation of the log.
LEMMA ObservedInLog ==
  ASSUME IInv, Shapes, NEW d \in Device, NEW dot \in Dots(set[d].ctx)
  PROVE  \E a \in log : \E e \in Entry : dot \in a.delta.entries[e]
<1>1. PICK o \in seen[d] : dot \in Dots(o.delta.ctx)
  BY DEF IInv, StateIsJoinOfSeen, ContextIsUnion
<1>2. o \in log /\ o.entry \in Entry
  BY DEF IInv, SeenInLog, TypeOK, Op
<1> QED
  BY <1>1, <1>2 DEF Shapes

LEMMA StepNumbered ==
  ASSUME IInv, IInv', Shapes, Numbered, NEW d \in Device, NEW op \in Op, Performed(d, op)
  PROVE  Numbered'
<1>1. log' = log \cup {op} /\ op.kind \in {"add", "remove"} /\ op.entry \in Entry
  BY DEF Performed, Op
<1>2. ASSUME NEW o \in log, NEW e \in Entry, NEW dot \in o.delta.entries[e], NEW n \in 1 .. dot.counter
      PROVE  \E a \in log' : \E f \in Entry : DotOf(dot.device, n) \in a.delta.entries[f]
  BY <1>1 DEF Numbered
<1>3. ASSUME NEW e \in Entry, NEW dot \in op.delta.entries[e], NEW n \in 1 .. dot.counter
      PROVE  \E a \in log' : \E f \in Entry : DotOf(dot.device, n) \in a.delta.entries[f]
  <2>1. e = op.entry
    BY <1>1 DEF IInv, Deltas
  <2>2. /\ op.delta.entries[op.entry] = {dot} /\ dot.device = d /\ dot \in Dot
        /\ dot.counter > 1 => DotOf(d, dot.counter - 1) \in Dots(set[d].ctx)
    BY <1>1, <2>1 DEF Performed
  <2>3. dot = DotOf(d, dot.counter) /\ dot.counter \in 1 .. MaxDot /\ MaxDot \in Nat
    BY <2>2, DotShape, MaxDotAssumption
  <2>4. CASE n = dot.counter
    BY <1>1, <2>2, <2>3, <2>4
  <2>5. CASE n # dot.counter
    <3>1. dot.counter > 1 /\ n \in 1 .. (dot.counter - 1)
      BY <2>3, <2>5
    <3> DEFINE before == DotOf(d, dot.counter - 1)
    <3>2. before \in Dots(set[d].ctx) /\ before.device = d /\ before.counter = dot.counter - 1
      BY <2>2, <3>1, DotFacts
    <3> HIDE DEF before
    <3>3. PICK a \in log : \E f \in Entry : before \in a.delta.entries[f]
      BY <3>2, ObservedInLog
    <3>4. \E b \in log : \E f \in Entry : DotOf(before.device, n) \in b.delta.entries[f]
      BY <3>1, <3>2, <3>3 DEF Numbered
    <3> QED
      BY <1>1, <2>2, <3>2, <3>4
  <2> QED
    BY <2>4, <2>5
<1> QED
  BY <1>1, <1>2, <1>3 DEF Numbered

LEMMA StepHInv == IInv /\ HInv /\ [Next]_vars => HInv'
<1> SUFFICES ASSUME IInv, HInv, [Next]_vars PROVE HInv'
  OBVIOUS
<1>1. IInv'
  BY StepIInv
<1>2. CASE log' = log
  BY <1>2 DEF HInv, Histories, Shapes, Numbered, Issued, Ids
<1>3. CASE \E d \in Device : \E op \in Op : Performed(d, op)
  BY <1>1, <1>3, StepHistories, StepShapes, StepNumbered DEF HInv
<1> QED
  BY <1>2, <1>3, StepShape DEF vars

LEMMA AlwaysHInv == Spec => []HInv
  BY InitHInv, StepHInv, AlwaysIInv, PTL DEF Spec
-----------------------------------------------------------------------------

(***************************************************************************)
(* A replica that took in the whole log has no cloud (dot.rs:40).          *)
(***************************************************************************)
THEOREM CompleteHasNoCloud == Spec => []CloudEmptyWhenComplete
<1>1. IInv /\ HInv => CloudEmptyWhenComplete
  <2> SUFFICES ASSUME IInv, HInv, NEW d \in Device, seen[d] = log, NEW dot \in set[d].ctx.dc
               PROVE  FALSE
    BY DEF CloudEmptyWhenComplete
  <2> DEFINE ctx  == set[d].ctx
             next == DotOf(dot.device, ctx.cc[dot.device] + 1)
  <2>1. ctx \in Context /\ Canonical(ctx)
    BY AWSetShape DEF IInv, Replicas, WellFormed
  <2>2. /\ dot \in Dot /\ dot.device \in Device /\ dot.counter \in 1 .. MaxDot
        /\ ctx.cc[dot.device] \in 0 .. MaxDot /\ MaxDot \in Nat
        /\ dot.counter > ctx.cc[dot.device] + 1
    BY <2>1, DotShape, MaxDotAssumption DEF Context, Canonical
  <2>3. dot \in Dots(ctx)
    BY <2>2 DEF Dots, Contains
  <2>4. PICK a \in log : \E e \in Entry : dot \in a.delta.entries[e]
    BY <2>3, ObservedInLog DEF HInv
  <2>5. ctx.cc[dot.device] + 1 \in 1 .. dot.counter
    BY <2>2
  <2>6. PICK b \in log : \E f \in Entry : next \in b.delta.entries[f]
    BY <2>4, <2>5 DEF HInv, Numbered
  <2>7. next \in Dots(b.delta.ctx)
    BY <2>6 DEF IInv, Deltas, WellFormed
  <2>8. next \in Dots(ctx)
    BY <2>7 DEF IInv, StateIsJoinOfSeen, ContextIsUnion
  <2>9. next.device = dot.device /\ next.counter = ctx.cc[dot.device] + 1
    BY <2>2, DotFacts
  <2>10. next \in ctx.dc
    BY <2>2, <2>8, <2>9 DEF Dots, Contains
  <2> QED
    BY <2>1, <2>2, <2>9, <2>10 DEF Canonical
<1> QED
  BY <1>1, AlwaysIInv, AlwaysHInv, PTL

\* The operation that put a dot on e is the one whose delta holds it there,
\* and an operation that observed the dot and dropped it came after.
LEMMA DropperCameAfter ==
  ASSUME IInv, HInv, NEW e \in Entry, NEW a \in log, NEW dot \in a.delta.entries[e],
         NEW o \in log, ~Keeps(o.delta, e, dot)
  PROVE  o.entry = e /\ a.id \in o.past
<1>1. dot \notin o.delta.entries[e] /\ dot \in Dots(o.delta.ctx)
  <2>1. dot \in Dot
    BY AWSetShape DEF IInv, TypeOK, Op
  <2> QED
    BY <2>1 DEF Keeps, Dots
<1>2. PICK b \in log : dot \in b.delta.entries[o.entry] /\ (b = o \/ b.id \in o.past)
  BY <1>1 DEF HInv, Shapes
<1>3. o.entry \in Entry
  BY DEF IInv, TypeOK, Op
<1>4. b = a
  BY <1>2, <1>3 DEF IInv, AddsHaveOwnDots
<1>5. o.entry = e
  BY <1>2, <1>3, <1>4 DEF IInv, Deltas
<1> QED
  BY <1>1, <1>2, <1>4, <1>5

(***************************************************************************)
(* Add wins (awset.rs): an entry is present where an add of it was taken   *)
(* in that no remove taken in had known of.  Of those adds one is not in   *)
(* the past of another, and only such another could have dropped its dot.  *)
(***************************************************************************)
THEOREM AddsWin == Spec => []AddWins
<1>1. IInv /\ HInv => AddWins
  <2> SUFFICES ASSUME IInv, HInv, NEW d \in Device, NEW e \in Entry,
                      \E add \in Adds(seen[d], e) :
                        \A rem \in Removes(seen[d], e) : add.id \notin rem.past
               PROVE  Present(set[d], e)
    BY DEF AddWins
  <2> DEFINE free  == {a \in Adds(seen[d], e) :
                         \A rem \in Removes(seen[d], e) : a.id \notin rem.past}
             sizes == {Cardinality(a.past) : a \in free}
             top   == Max(sizes)
  <2>1. seen[d] \subseteq log /\ log \subseteq Op
    BY DEF IInv, SeenInLog, TypeOK
  <2>2. \A a \in free : a \in log /\ a \in seen[d] /\ a.kind = "add" /\ a.entry = e
    BY <2>1 DEF Adds
  <2>3. IsFiniteSet(Ids(log)) /\ Cardinality(Ids(log)) \in Nat
    BY FS_CardinalityType DEF HInv, Histories
  <2>4. \A a \in log : /\ IsFiniteSet(a.past)
                       /\ Cardinality(a.past) \in Nat
                       /\ Cardinality(a.past) <= Cardinality(Ids(log))
    <3> SUFFICES ASSUME NEW a \in log
                 PROVE  /\ IsFiniteSet(a.past) /\ Cardinality(a.past) \in Nat
                        /\ Cardinality(a.past) <= Cardinality(Ids(log))
      OBVIOUS
    <3>1. a.past \subseteq Ids(log)
      BY DEF HInv, Histories
    <3>2. IsFiniteSet(a.past) /\ Cardinality(a.past) <= Cardinality(Ids(log))
      BY <2>3, <3>1, FS_Subset
    <3> QED
      BY <3>2, FS_CardinalityType
  <2>5. free # {}
    OBVIOUS
  <2> HIDE DEF free
  <2>6. sizes \in SUBSET (0 .. Cardinality(Ids(log))) /\ sizes # {}
    BY <2>2, <2>3, <2>4, <2>5
  <2>7. PICK a \in free : \A b \in free : Cardinality(b.past) <= Cardinality(a.past)
    <3>1. top \in sizes /\ \A y \in sizes : y <= top
      <4> HIDE DEF sizes
      <4> QED
        BY <2>3, <2>6, MaxExists
    <3> HIDE DEF top
    <3> QED
      BY <3>1
  <2>8. PICK dot \in Dot : a.delta.entries[e] = {dot}
    BY <2>2 DEF HInv, Shapes
  <2>9. ASSUME NEW o \in seen[d]
        PROVE  Keeps(o.delta, e, dot)
    <3> SUFFICES ASSUME ~Keeps(o.delta, e, dot) PROVE FALSE
      OBVIOUS
    <3>1. o.entry = e /\ a.id \in o.past /\ o \in log
      BY <2>1, <2>2, <2>8, DropperCameAfter
    <3>2. CASE o.kind = "remove"
      BY <3>1, <3>2 DEF free, Removes
    <3>3. CASE o.kind = "add"
      <4>1. ASSUME NEW rem \in Removes(seen[d], e)
            PROVE  o.id \notin rem.past
        <5> SUFFICES ASSUME o.id \in rem.past PROVE FALSE
          OBVIOUS
        <5>1. o.past \subseteq rem.past
          BY <2>1, <3>1 DEF HInv, Histories, Removes
        <5> QED
          BY <3>1, <5>1 DEF free
      <4>2. o \in free
        BY <3>1, <3>3, <4>1 DEF free, Adds
      <4>3. a.past \subseteq o.past /\ a.id \notin a.past
        BY <2>2, <3>1 DEF HInv, Histories
      <4>4. Cardinality(a.past \cup {a.id}) = Cardinality(a.past) + 1
        BY <2>2, <2>4, <4>3, FS_AddElement
      <4>5. Cardinality(a.past \cup {a.id}) <= Cardinality(o.past)
        <5>1. a.past \cup {a.id} \subseteq o.past
          BY <3>1, <4>3
        <5> QED
          BY <2>4, <3>1, <5>1, FS_Subset
      <4> QED
        BY <2>2, <2>4, <2>7, <3>1, <4>2, <4>4, <4>5
    <3> QED
      BY <2>1, <3>2, <3>3 DEF Op
  <2>10. dot \in set[d].entries[e]
    BY <2>2, <2>8, <2>9 DEF IInv, StateIsJoinOfSeen, EntriesAreJoin
  <2> QED
    BY <2>10 DEF Present
<1> QED
  BY <1>1, AlwaysIInv, AlwaysHInv, PTL
-----------------------------------------------------------------------------
(* What a log in causal order adds.                                        *)

\* What a replica took in is closed under what came before it.
SeenClosed == \A d \in Device : \A op \in seen[d] : op.past \subseteq Ids(seen[d])

\* A dot of an add that a remove knew of is dropped by the remove or before it.
RemovesDrop ==
  \A rem \in log : rem.kind = "remove" =>
    \A a \in log : a.id \in rem.past => \A dot \in a.delta.entries[rem.entry] :
      \E o \in log : (o = rem \/ o.id \in rem.past) /\ ~Keeps(o.delta, rem.entry, dot)

CInv == SeenClosed /\ RemovesDrop

LEMMA InitCInv == Init => CInv
  BY DEF Init, CInv, SeenClosed, RemovesDrop

LEMMA CausalIsNext == CausalNext => Next
  BY DEF CausalNext, Next, DeliverInOrder, Deliver

LEMMA CausalIsSpec == CausalSpec => Spec
  BY CausalIsNext, PTL DEF CausalSpec, Spec

LEMMA StepSeenClosed == IInv /\ SeenClosed /\ CausalNext => SeenClosed'
<1> SUFFICES ASSUME IInv, SeenClosed, CausalNext PROVE SeenClosed'
  OBVIOUS
<1>1. seen \in [Device -> SUBSET Op]
  BY DEF IInv, TypeOK
<1>2. ASSUME NEW d \in Device, NEW more,
             seen' = [seen EXCEPT ![d] = @ \cup more],
             \A op \in more : op.past \subseteq Ids(seen[d] \cup more)
      PROVE  SeenClosed'
  BY <1>1, <1>2 DEF SeenClosed, Ids
<1>3. CASE \E d \in Device : Operate(d)
  <2>1. PICK d \in Device, op \in Op : Performed(d, op)
    BY <1>3, OperateShape
  <2>2. op.past \subseteq Ids(seen[d])
    BY <2>1 DEF Performed, Past, SeenClosed
  <2>3. /\ seen' = [seen EXCEPT ![d] = @ \cup {op}]
        /\ \A o \in {op} : o.past \subseteq Ids(seen[d] \cup {op})
    BY <2>1, <2>2 DEF Performed, Ids
  <2> QED
    BY <1>2, <2>3
<1>4. CASE \E d \in Device : DeliverInOrder(d)
  <2>1. PICK d \in Device, op \in log : op.past \subseteq Ids(seen[d]) /\ MergeDelta(d, op)
    BY <1>4 DEF DeliverInOrder
  <2>2. /\ seen' = [seen EXCEPT ![d] = @ \cup {op}]
        /\ \A o \in {op} : o.past \subseteq Ids(seen[d] \cup {op})
    BY <2>1 DEF MergeDelta, Ids
  <2> QED
    BY <1>2, <2>2
<1>5. CASE \E d \in Device : Snapshot(d)
  <2>1. PICK d \in Device, s \in Device : seen' = [seen EXCEPT ![d] = @ \cup seen[s]]
    BY <1>5 DEF Snapshot
  <2> QED
    BY <1>2, <2>1 DEF SeenClosed, Ids
<1> QED
  BY <1>3, <1>4, <1>5 DEF CausalNext

LEMMA StepRemovesDrop ==
  ASSUME IInv, HInv, CInv, NEW d \in Device, NEW op \in Op, Performed(d, op)
  PROVE  RemovesDrop'
<1>1. log' = log \cup {op} /\ op.past = Past(d) /\ op.entry \in Entry
  BY DEF Performed, Op
<1>2. op.id \notin Ids(log) /\ Past(d) = Ids(seen[d]) /\ seen[d] \subseteq log
  BY StepHistories DEF HInv, CInv, SeenClosed, Past, IInv, SeenInLog
<1>3. ASSUME NEW rem \in log, rem.kind = "remove", NEW a \in log', a.id \in rem.past,
             NEW dot \in a.delta.entries[rem.entry]
      PROVE  \E o \in log' : (o = rem \/ o.id \in rem.past) /\ ~Keeps(o.delta, rem.entry, dot)
  <2>1. a \in log
    BY <1>1, <1>2, <1>3 DEF HInv, Histories
  <2> QED
    BY <1>1, <1>3, <2>1 DEF CInv, RemovesDrop
<1>4. ASSUME op.kind = "remove", NEW a \in log', a.id \in op.past,
             NEW dot \in a.delta.entries[op.entry]
      PROVE  \E o \in log' : (o = op \/ o.id \in op.past) /\ ~Keeps(o.delta, op.entry, dot)
  <2>1. a \in seen[d]
    <3>1. PICK b \in seen[d] : b.id = a.id
      BY <1>1, <1>2, <1>4 DEF Ids
    <3>2. a \in log
      BY <1>1, <1>2, <3>1 DEF Ids
    <3> QED
      BY <1>2, <3>1, <3>2 DEF HInv, Histories
  <2>2. dot \in Dot
    <3>1. a.delta \in AWSet
      BY <1>2, <2>1 DEF IInv, TypeOK, Op
    <3> QED
      BY <1>1, <3>1, AWSetShape
  <2>3. CASE dot \in set[d].entries[op.entry]
    <3>1. dot \in Dots(op.delta.ctx) /\ op.delta.entries[op.entry] = {}
      BY <1>1, <1>4, <2>3 DEF Performed
    <3>2. ~Keeps(op.delta, op.entry, dot)
      BY <3>1 DEF Keeps, Dots
    <3> QED
      BY <1>1, <3>2
  <2>4. CASE dot \notin set[d].entries[op.entry]
    <3>1. PICK o \in seen[d] : ~Keeps(o.delta, op.entry, dot)
      BY <1>1, <2>1, <2>2, <2>4 DEF IInv, StateIsJoinOfSeen, EntriesAreJoin
    <3> QED
      BY <1>1, <1>2, <3>1 DEF Ids
  <2> QED
    BY <2>3, <2>4
<1> QED
  BY <1>1, <1>3, <1>4 DEF RemovesDrop

LEMMA StepCInv == IInv /\ HInv /\ CInv /\ [CausalNext]_vars => CInv'
<1> SUFFICES ASSUME IInv, HInv, CInv, [CausalNext]_vars PROVE CInv'
  OBVIOUS
<1>1. CASE UNCHANGED vars
  BY <1>1 DEF vars, CInv, SeenClosed, RemovesDrop
<1>2. CASE CausalNext
  <2>1. SeenClosed'
    BY <1>2, StepSeenClosed DEF CInv
  <2>2. CASE log' = log
    BY <2>1, <2>2 DEF CInv, RemovesDrop
  <2>3. CASE \E d \in Device : \E op \in Op : Performed(d, op)
    BY <2>1, <2>3, StepRemovesDrop DEF CInv
  <2> QED
    BY <1>2, <2>2, <2>3, CausalIsNext, StepShape
<1> QED
  BY <1>1, <1>2

LEMMA AlwaysCausal == CausalSpec => []IInv /\ []HInv /\ []CInv
  BY CausalIsSpec, AlwaysIInv, AlwaysHInv, InitCInv, StepCInv, PTL DEF CausalSpec

(***************************************************************************)
(* Over a log in causal order an entry is absent where every add of it     *)
(* taken in happened before some remove taken in (awset.rs:96): the remove *)
(* or an operation it knew of has dropped the dot of the add, and what the *)
(* remove knew of came with it.                                            *)
(***************************************************************************)
THEOREM RemovesWork == CausalSpec => []RemoveTakesEffect
<1>1. IInv /\ HInv /\ CInv => RemoveTakesEffect
  <2> SUFFICES ASSUME IInv, HInv, CInv, NEW d \in Device, NEW e \in Entry,
                      \A add \in Adds(seen[d], e) :
                        \E rem \in Removes(seen[d], e) : add.id \in rem.past,
                      NEW dot \in set[d].entries[e]
               PROVE  FALSE
    BY DEF RemoveTakesEffect, Present
  <2>1. seen[d] \subseteq log /\ log \subseteq Op
    BY DEF IInv, SeenInLog, TypeOK
  <2>2. PICK a \in seen[d] : dot \in a.delta.entries[e]
    BY DEF IInv, StateIsJoinOfSeen, EntriesAreJoin
  <2>3. \A o \in seen[d] : Keeps(o.delta, e, dot)
    BY DEF IInv, StateIsJoinOfSeen, EntriesAreJoin
  <2>4. a \in Adds(seen[d], e)
    <3>1. a.entry = e
      BY <2>1, <2>2 DEF IInv, Deltas
    <3>2. a.kind = "add"
      BY <2>1, <2>2 DEF HInv, Shapes, Op
    <3> QED
      BY <3>1, <3>2 DEF Adds
  <2>5. PICK rem \in seen[d] : rem.kind = "remove" /\ rem.entry = e /\ a.id \in rem.past
    BY <2>4 DEF Removes
  <2>6. PICK o \in log : (o = rem \/ o.id \in rem.past) /\ ~Keeps(o.delta, e, dot)
    BY <2>1, <2>2, <2>5 DEF CInv, RemovesDrop
  <2>7. o \in seen[d]
    <3>1. CASE o.id \in rem.past
      <4>1. PICK p \in seen[d] : p.id = o.id
        BY <2>5, <3>1 DEF CInv, SeenClosed, Ids
      <4> QED
        BY <2>1, <4>1 DEF HInv, Histories
    <3> QED
      BY <2>6, <3>1
  <2> QED
    BY <2>3, <2>6, <2>7
<1> QED
  BY <1>1, AlwaysCausal, PTL
-----------------------------------------------------------------------------
(* The replicas implement the observed-remove set of OrSet.                *)

Bare(op) == [id |-> op.id, kind |-> op.kind, entry |-> op.entry, past |-> op.past]

\* What a device shows is what its history says it should.
Reads == \A d \in Device : Members[d] = Abstract!MembersOf({Bare(op) : op \in log}, Ids(seen[d]))

LEMMA MembersRead == IInv /\ HInv /\ AddWins /\ RemoveTakesEffect => Reads
<1> SUFFICES ASSUME IInv, HInv, AddWins, RemoveTakesEffect, NEW d \in Device
             PROVE  Members[d] = Abstract!MembersOf({Bare(op) : op \in log}, Ids(seen[d]))
  BY DEF Reads
<1> DEFINE all  == {Bare(op) : op \in log}
           ids  == Ids(seen[d])
           live == {add \in all : /\ add.id \in ids /\ add.kind = "add"
                                  /\ \A rem \in all : rem.id \in ids /\ rem.kind = "remove"
                                       /\ rem.entry = add.entry => add.id \notin rem.past}
<1>1. Abstract!MembersOf(all, ids) = {op.entry : op \in live}
  BY DEF Abstract!MembersOf
<1>2. seen[d] \subseteq log /\ \A op \in log : op.entry \in Entry
  BY DEF IInv, SeenInLog, TypeOK, Op
<1>3. \A op \in log : op.id \in ids <=> op \in seen[d]
  BY <1>2 DEF Ids, HInv, Histories
<1>4. \A op \in log : /\ Bare(op).id = op.id /\ Bare(op).kind = op.kind
                      /\ Bare(op).entry = op.entry /\ Bare(op).past = op.past
  BY DEF Bare
<1>5. Members[d] = {e \in Entry : Present(set[d], e)}
  BY DEF Members
<1>6. ASSUME NEW e \in Entry, Present(set[d], e)
      PROVE  e \in {op.entry : op \in live}
  <2>1. PICK a \in Adds(seen[d], e) : \A rem \in Removes(seen[d], e) : a.id \notin rem.past
    BY <1>6 DEF RemoveTakesEffect
  <2>2. a \in log /\ a \in seen[d] /\ a.kind = "add" /\ a.entry = e
    BY <1>2, <2>1 DEF Adds
  <2>3. Bare(a) \in live
    <3>1. \A rem \in log : rem.id \in ids /\ rem.kind = "remove" /\ rem.entry = e => a.id \notin rem.past
      BY <1>3, <2>1 DEF Removes
    <3> HIDE DEF ids
    <3> QED
      BY <1>3, <1>4, <2>2, <3>1
  <2> QED
    BY <1>4, <2>2, <2>3
<1>7. ASSUME NEW op \in live
      PROVE  Present(set[d], op.entry)
  <2>1. PICK a \in log : op = Bare(a)
    OBVIOUS
  <2>2. a \in seen[d] /\ a.kind = "add" /\ op.entry = a.entry /\ op.id = a.id
    BY <1>3, <1>4, <2>1
  <2>3. \A rem \in Removes(seen[d], a.entry) : a.id \notin rem.past
    <3> SUFFICES ASSUME NEW rem \in Removes(seen[d], a.entry) PROVE a.id \notin rem.past
      OBVIOUS
    <3>1. rem \in log /\ rem.id \in ids /\ rem.kind = "remove" /\ rem.entry = a.entry
      BY <1>2, <1>3 DEF Removes
    <3>2. Bare(rem) \in all
      BY <3>1
    <3> QED
      BY <1>4, <2>2, <3>1, <3>2
  <2> QED
    BY <1>2, <2>2, <2>3 DEF AddWins, Adds
<1> QED
  BY <1>1, <1>2, <1>5, <1>6, <1>7, <1>4

LEMMA InitSimulation == Init => Abstract!Init
  BY DEF Init, Abstract!Init, Ids, Members, Present, EmptySet, NoEntries

LEMMA PerformSimulation ==
  ASSUME IInv, HInv, CInv, NEW d \in Device, Operate(d)
  PROVE  Abstract!Perform(d)
<1>1. PICK e \in Entry : AddEntry(d, e) \/ RemoveEntry(d, e)
  BY DEF Operate
<1>2. IInv'
  BY StepIInv DEF Next
<1> DEFINE kind  == IF AddEntry(d, e) THEN "add" ELSE "remove"
           delta == IF AddEntry(d, e) THEN AddDelta(set[d], e, d) ELSE RemoveDelta(set[d], e)
           op    == [id |-> [device |-> d, seq |-> Cardinality(Issued(d)) + 1],
                     kind |-> kind, entry |-> e, delta |-> delta, past |-> Past(d)]
<1>3. Ship(d, kind, e, delta)
  BY <1>1 DEF AddEntry, RemoveEntry
<1> HIDE DEF kind, delta
<1>4. log' = log \cup {op} /\ seen' = [seen EXCEPT ![d] = @ \cup {op}]
  BY <1>3 DEF Ship
<1>5. /\ op.id = [device |-> d, seq |-> Cardinality(Issued(d)) + 1]
      /\ op.kind = kind /\ op.entry = e /\ op.past = Past(d)
  OBVIOUS
<1> HIDE DEF op
<1>6. op \in Op /\ op.id \in Abstract!OpId /\ op.id.device = d
  BY <1>2, <1>4, <1>5 DEF IInv, TypeOK, Op, OpId, Abstract!OpId
<1>7. \A o \in log : o.id # op.id
  <2>1. PICK p \in Op : Performed(d, p)
    BY OperateShape
  <2>2. p.id = op.id
    BY <1>5, <2>1 DEF Performed
  <2> QED
    BY <2>1, <2>2, StepHistories DEF HInv, Ids
<1>8. Past(d) = Ids(seen[d])
  BY DEF CInv, SeenClosed, Past
<1>9. {Bare(o) : o \in log'} = {Bare(o) : o \in log}
        \cup {[id |-> op.id, kind |-> kind, entry |-> e, past |-> Ids(seen[d])]}
  BY <1>4, <1>5, <1>8 DEF Bare
<1>10. [s \in Device |-> Ids(seen[s])]' = [[s \in Device |-> Ids(seen[s])] EXCEPT ![d] = @ \cup {op.id}]
  BY <1>4 DEF IInv, TypeOK, Ids
<1>11. Members' = [Members EXCEPT ![d] = IF kind = "add" THEN @ \cup {e} ELSE @ \ {e}]
  <2>1. set \in [Device -> AWSet]
    BY DEF IInv, TypeOK
  <2>2. \A s \in Device \ {d} : set'[s] = set[s]
    BY <1>1, <2>1 DEF AddEntry, RemoveEntry
  <2>3. set[d].entries \in [Entry -> SUBSET Dot]
    BY <2>1, AWSetShape
  <2>4. set'[d].entries = [set[d].entries EXCEPT ![e] = {}] \/ kind = "add"
    <3>1. kind = "add" \/ set'[d] = Remove(set[d], e)
      BY <1>1, <2>1 DEF kind, RemoveEntry
    <3>2. Remove(set[d], e).entries = [set[d].entries EXCEPT ![e] = {}]
      BY <2>1 DEF Remove, AWSet
    <3> QED
      BY <3>1, <3>2
  <2>5. kind = "add" =>
          set'[d].entries = [set[d].entries EXCEPT ![e] = {NextDot(set[d].ctx, d)}]
    BY <2>1 DEF kind, AddEntry, Add
  <2>6. \A f \in Entry \ {e} : set'[d].entries[f] = set[d].entries[f]
    BY <2>3, <2>4, <2>5
  <2>7. Present(set'[d], e) <=> kind = "add"
    BY <2>3, <2>4, <2>5 DEF Present
  <2> DEFINE shown == IF kind = "add" THEN Members[d] \cup {e} ELSE Members[d] \ {e}
  <2>8. \A f \in Entry : Present(set'[d], f) <=> IF f = e THEN kind = "add" ELSE Present(set[d], f)
    BY <2>6, <2>7 DEF Present
  <2>9. Members[d] = {f \in Entry : Present(set[d], f)}
    BY DEF Members
  <2>10. {f \in Entry : Present(set'[d], f)} = shown
    BY <2>8, <2>9
  <2>11. \A s \in Device : {f \in Entry : Present(set'[s], f)} = IF s = d THEN shown ELSE Members[s]
    BY <2>2, <2>10 DEF Members
  <2>12. Members' = [s \in Device |-> {f \in Entry : Present(set'[s], f)}]
    BY DEF Members
  <2>13. Members = [s \in Device |-> Members[s]]
    BY DEF Members
  <2> HIDE DEF shown
  <2>14. Members' = [Members EXCEPT ![d] = shown]
    BY <2>11, <2>12, <2>13
  <2> QED
    BY <2>14 DEF shown
<1>12. kind \in {"add", "remove"}
  BY DEF kind
<1>13. \A o \in {Bare(p) : p \in log} : o.id # op.id
  BY <1>7 DEF Bare
<1>14. [s \in Device |-> Ids(seen[s])][d] = Ids(seen[d])
  OBVIOUS
<1> QED
  BY <1>6, <1>9, <1>10, <1>11, <1>12, <1>13, <1>14 DEF Abstract!Perform, Bare

LEMMA LearnSimulation ==
  ASSUME IInv, HInv, Reads', NEW d \in Device, DeliverInOrder(d) \/ Snapshot(d)
  PROVE  Abstract!Learn(d)
<1>0. set \in [Device -> AWSet]
  BY DEF IInv, TypeOK
<1>1. PICK s \in Device, more \in SUBSET Op :
        /\ \A t \in Device \ {d} : set'[t] = set[t]
        /\ seen' = [seen EXCEPT ![d] = @ \cup more]
        /\ log' = log
        /\ more = seen[s] \/ \E op \in log : more = {op}
  <2>1. CASE DeliverInOrder(d)
    <3>1. PICK op \in log : MergeDelta(d, op)
      BY <2>1 DEF DeliverInOrder
    <3>2. {op} \in SUBSET Op
      BY DEF IInv, TypeOK
    <3> QED
      BY <1>0, <3>1, <3>2 DEF MergeDelta
  <2>2. CASE Snapshot(d)
    <3>1. PICK s \in Device : /\ set'  = [set EXCEPT ![d] = MergeSet(@, set[s])]
                              /\ seen' = [seen EXCEPT ![d] = @ \cup seen[s]]
                              /\ log' = log
      BY <2>2 DEF Snapshot
    <3>2. seen[s] \in SUBSET Op
      BY DEF IInv, TypeOK
    <3> QED
      BY <1>0, <3>1, <3>2
  <2> QED
    BY <2>1, <2>2
<1> DEFINE known == [t \in Device |-> Ids(seen[t])]
           all   == {Bare(op) : op \in log}
           now   == Abstract!MembersOf(all, known'[d])
<1>2. Ids(more) \in {known[s]} \cup {{op.id} : op \in all}
  <2>1. CASE more = seen[s]
    BY <2>1
  <2>2. CASE \E op \in log : more = {op}
    <3>1. PICK op \in log : more = {op}
      BY <2>2
    <3>2. Ids(more) = {Bare(op).id} /\ Bare(op) \in all
      BY <3>1 DEF Ids, Bare
    <3> QED
      BY <3>2
  <2> QED
    BY <1>1, <2>1, <2>2
<1>3. known' = [known EXCEPT ![d] = @ \cup Ids(more)]
  BY <1>1 DEF IInv, TypeOK, Ids
<1>4. all' = all
  BY <1>1
<1>5. Members' = [Members EXCEPT ![d] = now]
  <2>1. Members'[d] = now
    <3>1. known'[d] = Ids(seen'[d])
      OBVIOUS
    <3> QED
      BY <1>4, <3>1 DEF Reads
  <2>2. \A t \in Device \ {d} : Members'[t] = Members[t]
    BY <1>1 DEF Members
  <2>3. Members' = [t \in Device |-> Members'[t]] /\ Members = [t \in Device |-> Members[t]]
    BY DEF Members
  <2> HIDE DEF now
  <2> QED
    BY <2>1, <2>2, <2>3
<1> QED
  BY <1>2, <1>3, <1>4, <1>5 DEF Abstract!Learn, Bare

(***************************************************************************)
(* Refinement: over a log in causal order the replicas implement the       *)
(* observed-remove set of OrSet, which has neither dots nor contexts       *)
(* (awset.rs:1).                                                           *)
(***************************************************************************)
THEOREM CausalImplementsOrSet == CausalSpec => ImplementsOrSet
<1>1. Init => Abstract!Init
  BY InitSimulation
<1>2. ASSUME IInv, HInv, CInv, Reads', CausalNext
      PROVE  \E d \in Device : Abstract!Perform(d) \/ Abstract!Learn(d)
  <2>1. PICK d \in Device : Operate(d) \/ DeliverInOrder(d) \/ Snapshot(d)
    BY <1>2 DEF CausalNext
  <2>2. Abstract!Perform(d) \/ Abstract!Learn(d)
    BY <1>2, <2>1, PerformSimulation, LearnSimulation
  <2> QED
    BY <2>2
<1>3. UNCHANGED vars => UNCHANGED Abstract!vars
  BY DEF vars, Abstract!vars, Ids, Members
<1>4. /\ IInv /\ HInv /\ CInv /\ Reads' /\ [CausalNext]_vars
      => [Abstract!Next]_Abstract!vars
  BY <1>2, <1>3 DEF Abstract!Next
<1>5. CausalSpec => []Reads
  BY CausalIsSpec, AlwaysCausal, AddsWin, RemovesWork, MembersRead, PTL
<1> QED
  BY <1>1, <1>4, <1>5, AlwaysCausal, PTL DEF CausalSpec, ImplementsOrSet, Abstract!Spec
=============================================================================
