----------------------------- MODULE MCPairing ------------------------------
(* Codes for the bounded check of Pairing.                                 *)
EXTENDS Pairing

\* The codes of one device tell all derivations apart, those of the other
\* devices none, so that every comparison between these succeeds.
Clear  == CHOOSE p \in NewSide : TRUE
Partly == [k \in Key |-> IF k.new = Clear THEN <<k>> ELSE <<>>]
=============================================================================
