---------------------------- MODULE MCKeyCustody ----------------------------
(* Devices and accounts of the bounded check of KeyCustody, and symmetry.  *)
EXTENDS KeyCustody, TLC

CONSTANTS d1, d2, d3, a1, a2

\* Two devices of one account and one of another.
TwoAndOne == [d \in Device |-> IF d = d3 THEN a2 ELSE a1]

Interchangeable ==
  Permutations({d1, d2}) \cup Permutations(Password) \cup Permutations(EntryId)
    \cup Permutations(Code)
=============================================================================
