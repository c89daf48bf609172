----------------------------- MODULE AddWinsSet -----------------------------
(***************************************************************************)
(* The add-wins set of src/crdt/awset.rs: the dots that hold each element  *)
(* in the set, and the causal context of every dot observed.  An element   *)
(* the code's map has no key for is one without dots here.                 *)
(***************************************************************************)
EXTENDS DotContext

CONSTANT Entry   (* the elements; in the vault, the entry identifiers      *)

AWSet == [entries : [Entry -> SUBSET Dot], ctx : Context]

NoEntries == [e \in Entry |-> {}]

EmptySet == [entries |-> NoEntries, ctx |-> NewContext]

Present(set, e) == set.entries[e] # {}

-----------------------------------------------------------------------------

\* A slip in add: the fresh dot is not recorded in the context.
AddUnrecorded(set, e, d) ==
  [entries |-> [set.entries EXCEPT ![e] = {NextDot(set.ctx, d)}], ctx |-> set.ctx]

\* add: a fresh dot of d takes the place of the dots that held e.
Add(set, e, d) ==
  LET dot == NextDot(set.ctx, d)
  IN  [entries |-> [set.entries EXCEPT ![e] = {dot}], ctx |-> Insert(set.ctx, dot)]

\* A slip in add: the delta does not name the dots it supersedes.
AddDeltaAlone(set, e, d) ==
  LET dot == NextDot(set.ctx, d)
  IN  [entries |-> [NoEntries EXCEPT ![e] = {dot}], ctx |-> ContextOf({dot})]

\* The delta add returns: the fresh dot, and in its context what it superseded.
AddDelta(set, e, d) ==
  LET dot == NextDot(set.ctx, d)
  IN  [entries |-> [NoEntries EXCEPT ![e] = {dot}],
       ctx     |-> ContextOf({dot} \cup set.entries[e])]

\* remove: e loses its dots; the context keeps them.
Remove(set, e) == [set EXCEPT !.entries[e] = {}]

\* The delta remove returns: no entry, the removed dots in the context.
RemoveDelta(set, e) == [entries |-> NoEntries, ctx |-> ContextOf(set.entries[e])]

-----------------------------------------------------------------------------

\* A dot survives a join against a side that holds it or has not observed it.
Keeps(set, e, dot) == dot \in set.entries[e] \/ ~Contains(set.ctx, dot)

\* A slip in merge: a dot the other side holds is taken without asking whether
\* this side has observed and dropped it.
MergeTakesAll(a, b) ==
  [entries |-> [e \in Entry |->
                  b.entries[e] \cup {dot \in a.entries[e] : Keeps(b, e, dot)}],
   ctx     |-> MergeContext(a.ctx, b.ctx)]

\* A slip in merge: what the other side has dropped stays.
MergeKeepsOwn(a, b) ==
  [entries |-> [e \in Entry |->
                  a.entries[e] \cup {dot \in b.entries[e] : Keeps(a, e, dot)}],
   ctx     |-> MergeContext(a.ctx, b.ctx)]

\* A slip in merge: the elements of this side only are walked.
MergeOwnKeys(a, b) ==
  [entries |-> [e \in Entry |->
                  IF a.entries[e] = {} THEN {}
                  ELSE {dot \in a.entries[e] \cup b.entries[e] :
                          Keeps(a, e, dot) /\ Keeps(b, e, dot)}],
   ctx     |-> MergeContext(a.ctx, b.ctx)]

\* merge: the join of two states, or of a state and a delta.
MergeSet(a, b) ==
  [entries |-> [e \in Entry |->
                  {dot \in a.entries[e] \cup b.entries[e] :
                     Keeps(a, e, dot) /\ Keeps(b, e, dot)}],
   ctx     |-> MergeContext(a.ctx, b.ctx)]
=============================================================================
