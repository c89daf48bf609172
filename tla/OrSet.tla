------------------------------- MODULE OrSet --------------------------------
(***************************************************************************)
(* What an add-wins set promises a user of several devices, without dots   *)
(* and contexts: an operation remembers the operations its device knew,    *)
(* a remove cancels the adds it knew, and an entry is a member of a        *)
(* replica iff the replica knows an add of it that it knows no cancelling  *)
(* remove for.                                                             *)
(***************************************************************************)
EXTENDS Integers

CONSTANTS Device, Entry, MaxOps

VARIABLES
  ops,      (* the operations performed                                    *)
  known,    (* known[d]: the identifiers of the operations d knows         *)
  members   (* members[d]: the entries d sees                              *)

vars == <<ops, known, members>>

OpId == [device : Device, seq : 1 .. MaxOps]

MembersOf(all, ids) ==
  LET of(kind, e) == {op \in all : op.id \in ids /\ op.kind = kind /\ op.entry = e}
  IN  {op.entry : op \in
         {add \in all : /\ add.id \in ids
                        /\ add.kind = "add"
                        /\ \A rem \in of("remove", add.entry) : add.id \notin rem.past}}

Init ==
  /\ ops     = {}
  /\ known   = [d \in Device |-> {}]
  /\ members = [d \in Device |-> {}]

Perform(d) ==
  \E id \in OpId, kind \in {"add", "remove"} : \E e \in Entry :
    /\ id.device = d
    /\ \A op \in ops : op.id # id
    /\ ops'   = ops \cup {[id |-> id, kind |-> kind, entry |-> e, past |-> known[d]]}
    /\ known' = [known EXCEPT ![d] = @ \cup {id}]
    /\ members' = [members EXCEPT ![d] = IF kind = "add" THEN @ \cup {e} ELSE @ \ {e}]

Learn(d) ==
  \E s \in Device : \E ids \in {known[s]} \cup {{op.id} : op \in ops} :
    /\ known'   = [known EXCEPT ![d] = @ \cup ids]
    /\ members' = [members EXCEPT ![d] = MembersOf(ops, known'[d])]
    /\ UNCHANGED ops

Next == \E d \in Device : Perform(d) \/ Learn(d)

Spec == Init /\ [][Next]_vars
=============================================================================
