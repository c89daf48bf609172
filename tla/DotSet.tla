------------------------------- MODULE DotSet -------------------------------
(***************************************************************************)
(* What a causal context promises: each replica holds a plain set of dots, *)
(* mints a dot above all of its own device's dots, records a dot another   *)
(* replica already knows, takes the union with another replica's set, or   *)
(* starts over with none.                                                  *)
(***************************************************************************)
EXTENDS Integers

CONSTANTS Device, MaxDot

VARIABLE seen   (* seen[d]: the dots observed by the replica of device d   *)

Dot == [device : Device, counter : 1 .. MaxDot]

Init == seen = [d \in Device |-> {}]

\* The new dot exceeds every dot of d that d has observed, by one.
Mint(d) ==
  \E dot \in Dot :
    /\ dot.device = d
    /\ \A x \in seen[d] : x.device = d => x.counter < dot.counter
    /\ dot.counter > 1 =>
         [device |-> d, counter |-> dot.counter - 1] \in seen[d]
    /\ seen' = [seen EXCEPT ![d] = @ \cup {dot}]

Record(d) ==
  \E dot \in UNION {seen[s] : s \in Device} : seen' = [seen EXCEPT ![d] = @ \cup {dot}]

Join(d) ==
  \E s \in Device : seen' = [seen EXCEPT ![d] = @ \cup seen[s]]

StartOver(d) == seen' = [seen EXCEPT ![d] = {}]

Next == \E d \in Device : Mint(d) \/ Record(d) \/ Join(d) \/ StartOver(d)

Spec == Init /\ [][Next]_seen
=============================================================================
