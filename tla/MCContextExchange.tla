------------------------ MODULE MCContextExchange ---------------------------
(* Model values for the bounded check of ContextExchange.                  *)
EXTENDS ContextExchange

\* Inserting dots one by one gives the compact form ContextOf names, whichever
\* of them comes last: the order of the insertions does not matter.
ASSUME
  /\ ContextOf({}) = NewContext
  /\ \A dots \in SUBSET Dot : \A dot \in dots :
       Insert(ContextOf(dots \ {dot}), dot) = ContextOf(dots)
=============================================================================
