---------------------------- MODULE PresenceSync ----------------------------
(***************************************************************************)
(* The entries of a vault replicated by deltas (src/model/mod.rs over      *)
(* src/crdt/awset.rs).  A device adds or removes an entry of its replica   *)
(* and ships the delta the operation returns to a log; any device merges   *)
(* any delta of the log, in any order and any number of times, or merges   *)
(* the full state of another replica (a snapshot).                         *)
(*                                                                         *)
(* The log is the server's; the crate only says what it need not promise   *)
(* (src/model/mod.rs:30).  past and seen are history: the code keeps       *)
(* neither, and no guard of Next reads them.                               *)
(***************************************************************************)
EXTENDS AddWinsSet, FiniteSets

CONSTANT MaxOps   (* the bound on the operations of a behaviour            *)

ASSUME MaxOpsAssumption == MaxOps \in Nat

VARIABLES
  set,   (* set[d]: the replica of device d                                *)
  log,   (* the operations performed so far, each with the delta shipped   *)
  seen   (* seen[d]: the operations whose effect set[d] has taken in       *)

vars == <<set, log, seen>>

OpId == [device : Device, seq : 1 .. MaxOps]
Op   == [id : OpId, kind : {"add", "remove"}, entry : Entry,
         delta : AWSet, past : SUBSET OpId]

Ids(ops)      == {op.id : op \in ops}
Adds(ops, e)    == {op \in ops : op.kind = "add" /\ op.entry = e}
Removes(ops, e) == {op \in ops : op.kind = "remove" /\ op.entry = e}

Init ==
  /\ set  = [d \in Device |-> EmptySet]
  /\ log  = {}
  /\ seen = [d \in Device |-> {}]

-----------------------------------------------------------------------------

\* What happened before a step of d: what d took in, and what came before that.
Past(d) == Ids(seen[d]) \cup UNION {op.past : op \in seen[d]}

Issued(d) == {op \in log : op.id.device = d}

\* Device d ships the delta of an operation it has just applied.
Ship(d, kind, e, delta) ==
  LET op == [id    |-> [device |-> d, seq |-> Cardinality(Issued(d)) + 1],
             kind  |-> kind,
             entry |-> e,
             delta |-> delta,
             past  |-> Past(d)]
  IN  /\ Cardinality(log) < MaxOps
      /\ log'  = log \cup {op}
      /\ seen' = [seen EXCEPT ![d] = @ \cup {op}]

AddEntry(d, e) ==
  /\ CanMint(set[d].ctx, d)
  /\ set' = [set EXCEPT ![d] = Add(@, e, d)]
  /\ Ship(d, "add", e, AddDelta(set[d], e, d))

\* Removing an entry that is absent ships an empty delta.
RemoveEntry(d, e) ==
  /\ set' = [set EXCEPT ![d] = Remove(@, e)]
  /\ Ship(d, "remove", e, RemoveDelta(set[d], e))

MergeDelta(d, op) ==
  /\ set'  = [set EXCEPT ![d] = MergeSet(@, op.delta)]
  /\ seen' = [seen EXCEPT ![d] = @ \cup {op}]
  /\ UNCHANGED log

\* The log serves its deltas in any order, and again.
Deliver(d) == \E op \in log : MergeDelta(d, op)

\* A replica too far behind joins the full state of another one.
Snapshot(d) ==
  \E s \in Device :
    /\ set'  = [set EXCEPT ![d] = MergeSet(@, set[s])]
    /\ seen' = [seen EXCEPT ![d] = @ \cup seen[s]]
    /\ UNCHANGED log

Operate(d) == \E e \in Entry : AddEntry(d, e) \/ RemoveEntry(d, e)

Next == \E d \in Device : Operate(d) \/ Deliver(d) \/ Snapshot(d)

Spec == Init /\ [][Next]_vars

\* Every delta of the log reaches every device in the end (at least once).
FairSpec == Spec /\ \A d \in Device : WF_vars(Deliver(d))

-----------------------------------------------------------------------------
(***************************************************************************)
(* The same replicas over a log that serves an operation only after the    *)
(* operations its author had taken in.  The code asks nothing of the sort: *)
(* this variant is there to say what the order changes.                    *)
(***************************************************************************)
DeliverInOrder(d) ==
  \E op \in log : op.past \subseteq Ids(seen[d]) /\ MergeDelta(d, op)

CausalNext == \E d \in Device : Operate(d) \/ DeliverInOrder(d) \/ Snapshot(d)

CausalSpec == Init /\ [][CausalNext]_vars

-----------------------------------------------------------------------------

\* Replicas, operations and their histories have their shapes.
TypeOK ==
  /\ set  \in [Device -> AWSet]
  /\ log  \subseteq Op
  /\ seen \in [Device -> SUBSET Op]

(***************************************************************************)
(* Strong eventual consistency (model/mod.rs, "Synchronisation par         *)
(* deltas"): two replicas that took in the same operations are equal, in   *)
(* whatever order, how often and by whichever of delta and snapshot the    *)
(* operations came.                                                        *)
(***************************************************************************)
Convergence == \A d, s \in Device : seen[d] = seen[s] => set[d] = set[s]

(***************************************************************************)
(* A replica is the join of the deltas it took in and of nothing else: its *)
(* context is the union of theirs, and a dot holds an entry iff some delta *)
(* put it there and no delta has observed it without holding it.  This is  *)
(* "expedier les deltas" being enough: local operations change the replica *)
(* exactly as their delta changes the others.                              *)
(***************************************************************************)
ContextIsUnion ==
  \A d \in Device : Dots(set[d].ctx) = UNION {Dots(op.delta.ctx) : op \in seen[d]}

EntriesAreJoin ==
  \A d \in Device, e \in Entry :
    set[d].entries[e] =
      {dot \in Dot : /\ \E op \in seen[d] : dot \in op.delta.entries[e]
                     /\ \A op \in seen[d] : Keeps(op.delta, e, dot)}

StateIsJoinOfSeen == ContextIsUnion /\ EntriesAreJoin

(***************************************************************************)
(* "Etiquette chaque ajout de facon globalement unique" (dot.rs): no two   *)
(* adds carry the same dot, on whatever devices and however late a device  *)
(* learns of the others' adds.                                             *)
(***************************************************************************)
AddsHaveOwnDots ==
  \A op1, op2 \in log : \A e1, e2 \in Entry :
    op1 # op2 => op1.delta.entries[e1] \cap op2.delta.entries[e2] = {}

(***************************************************************************)
(* Add wins (awset.rs): an entry is present where an add of it has been    *)
(* taken in that did not happen before any taken-in remove of it, even     *)
(* when the remove arrives first or later adds superseded that one.        *)
(***************************************************************************)
AddWins ==
  \A d \in Device, e \in Entry :
    (\E add \in Adds(seen[d], e) : \A rem \in Removes(seen[d], e) : add.id \notin rem.past)
      => Present(set[d], e)

(***************************************************************************)
(* The other half: where every add of e taken in happened before some      *)
(* taken-in remove of e, e is absent ("la fusion supprime e ailleurs sauf  *)
(* re-ajout concurrent", awset.rs:96).                                     *)
(***************************************************************************)
RemoveTakesEffect ==
  \A d \in Device, e \in Entry :
    (\A add \in Adds(seen[d], e) : \E rem \in Removes(seen[d], e) : add.id \in rem.past)
      => ~Present(set[d], e)

(***************************************************************************)
(* No resurrection (awset.rs): a dot that holds an entry after a step and  *)
(* did not before is one the replica had never observed.  Delivering an    *)
(* add again after its removal, or a stale snapshot, brings nothing back.  *)
(***************************************************************************)
NoResurrection ==
  [][\A d \in Device, e \in Entry :
       \A dot \in set'[d].entries[e] \ set[d].entries[e] : ~Contains(set[d].ctx, dot)]_vars

(***************************************************************************)
(* "Le contexte en O(appareils) et non en O(operations)" (dot.rs): the     *)
(* cloud holds only what was delivered ahead of its predecessors.  A       *)
(* replica that took in the whole log has none.                            *)
(***************************************************************************)
CloudEmptyWhenComplete ==
  \A d \in Device : seen[d] = log => set[d].ctx.dc = {}

(***************************************************************************)
(* "Un pair converge en fusionnant le flux de deltas" (model/mod.rs:27):   *)
(* over a log that delivers every delta at least once, in whatever order,  *)
(* the replicas end up equal and stay so.                                  *)
(***************************************************************************)
EventuallyConverged == <>[](\A d, s \in Device : set[d] = set[s])

-----------------------------------------------------------------------------

\* The entries each device shows.
Members == [d \in Device |-> {e \in Entry : Present(set[d], e)}]

Abstract == INSTANCE OrSet WITH
  ops     <- {[id |-> op.id, kind |-> op.kind, entry |-> op.entry, past |-> op.past] : op \in log},
  known   <- [d \in Device |-> Ids(seen[d])],
  members <- Members

(***************************************************************************)
(* Over the causal log the replicas implement the textbook observed-remove *)
(* set, whose members are read off the histories alone (awset.rs:1).       *)
(***************************************************************************)
ImplementsOrSet == Abstract!Spec
=============================================================================
