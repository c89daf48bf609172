-------------------------- MODULE ContextExchange ---------------------------
(***************************************************************************)
(* The causal contexts of a set of devices, driven through the three       *)
(* mutating operations of DotContext (src/crdt/dot.rs): next_dot on a      *)
(* device's own context, insert of a dot received from somewhere, merge    *)
(* with another device's context.  Dots arrive in any order, so prefixes   *)
(* with holes come and go; a device that starts over from a new context    *)
(* meets its own earlier dots out of order too.                            *)
(***************************************************************************)
EXTENDS DotContext

VARIABLE ctx   (* ctx[d]: the causal context held by device d              *)

Init == ctx = [d \in Device |-> NewContext]

MintDot(d) ==
  /\ CanMint(ctx[d], d)
  /\ ctx' = [ctx EXCEPT ![d] = Insert(@, NextDot(@, d))]

InsertDot(d) ==
  \E dot \in UNION {Dots(ctx[s]) : s \in Device} :
    ctx' = [ctx EXCEPT ![d] = Insert(@, dot)]

MergeFrom(d) ==
  \E s \in Device : ctx' = [ctx EXCEPT ![d] = MergeContext(@, ctx[s])]

StartOver(d) == ctx' = [ctx EXCEPT ![d] = NewContext]

Next == \E d \in Device : MintDot(d) \/ InsertDot(d) \/ MergeFrom(d) \/ StartOver(d)

Spec == Init /\ [][Next]_ctx

-----------------------------------------------------------------------------

\* Every context is a prefix per device and a cloud of dots.
TypeOK == ctx \in [Device -> Context]

(***************************************************************************)
(* Whatever the order of mints, inserts and merges, the representation     *)
(* stays in normal form: after a hole is filled the cloud is absorbed as   *)
(* far as it is contiguous (dot.rs, compact_device).                       *)
(***************************************************************************)
AlwaysCanonical == \A d \in Device : Canonical(ctx[d])

(***************************************************************************)
(* Equality of contexts is the derived, structural one, and the replicas'  *)
(* equality tests rest on it: two contexts that observed the same dots     *)
(* along different paths are the same value.                               *)
(***************************************************************************)
SameDotsSameContext ==
  \A d, s \in Device : Dots(ctx[d]) = Dots(ctx[s]) => ctx[d] = ctx[s]

Abstract == INSTANCE DotSet WITH seen <- [d \in Device |-> Dots(ctx[d])]

(***************************************************************************)
(* The compact context implements the plain set of observed dots: no       *)
(* operation loses a dot, invents one or mints one it has observed, even   *)
(* when the device's own dots are in the cloud beyond a hole.              *)
(***************************************************************************)
ImplementsDotSet == Abstract!Spec
=============================================================================
