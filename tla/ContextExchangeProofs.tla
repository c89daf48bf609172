------------------------ MODULE ContextExchangeProofs -----------------------
(***************************************************************************)
(* The properties of ContextExchange, for any number of devices and any    *)
(* width of the counters.                                                  *)
(***************************************************************************)
EXTENDS ContextExchange, CrdtProofs

\* What every operation preserves: the types and the normal form.
IInv == TypeOK /\ AlwaysCanonical

LEMMA InitIInv == Init => IInv
<1> SUFFICES ASSUME Init PROVE IInv
  OBVIOUS
<1>1. \A d \in Device : ctx[d] = NewContext
  BY DEF Init
<1>2. ctx \in [Device -> Context]
  BY NewContextFacts DEF Init
<1> QED
  BY <1>1, <1>2, NewContextFacts DEF IInv, TypeOK, AlwaysCanonical

\* What a step does to the context of the one device that takes it.
LEMMA StepFacts ==
  ASSUME TypeOK, AlwaysCanonical, NEW d \in Device,
         MintDot(d) \/ InsertDot(d) \/ MergeFrom(d) \/ StartOver(d)
  PROVE  \E c \in Context : ctx' = [ctx EXCEPT ![d] = c] /\ Canonical(c)
<1>1. \A s \in Device : ctx[s] \in Context /\ Canonical(ctx[s])
  BY DEF TypeOK, AlwaysCanonical
<1>2. CASE MintDot(d)
  <2>1. NextDot(ctx[d], d) \in Dot
    BY <1>1, <1>2, NextDotFacts DEF MintDot
  <2> QED
    BY <1>1, <1>2, <2>1, InsertFacts DEF MintDot
<1>3. CASE InsertDot(d)
  <2>1. PICK dot \in UNION {Dots(ctx[s]) : s \in Device} : ctx' = [ctx EXCEPT ![d] = Insert(@, dot)]
    BY <1>3 DEF InsertDot
  <2>2. dot \in Dot
    BY <2>1 DEF Dots
  <2> QED
    BY <1>1, <2>1, <2>2, InsertFacts
<1>4. CASE MergeFrom(d)
  <2>1. PICK s \in Device : ctx' = [ctx EXCEPT ![d] = MergeContext(@, ctx[s])]
    BY <1>4 DEF MergeFrom
  <2> QED
    BY <1>1, <2>1, MergeFacts
<1>5. CASE StartOver(d)
  BY <1>5, NewContextFacts DEF StartOver
<1> QED
  BY <1>2, <1>3, <1>4, <1>5

LEMMA StepIInv == IInv /\ [Next]_ctx => IInv'
<1> SUFFICES ASSUME IInv, [Next]_ctx PROVE IInv'
  OBVIOUS
<1>1. TypeOK /\ AlwaysCanonical
  BY DEF IInv
<1>2. CASE UNCHANGED ctx
  BY <1>1, <1>2 DEF IInv, TypeOK, AlwaysCanonical
<1>3. CASE Next
  <2>1. PICK d \in Device : MintDot(d) \/ InsertDot(d) \/ MergeFrom(d) \/ StartOver(d)
    BY <1>3 DEF Next
  <2>2. PICK c \in Context : ctx' = [ctx EXCEPT ![d] = c] /\ Canonical(c)
    BY <1>1, <2>1, StepFacts
  <2>3. ctx' \in [Device -> Context]
    BY <1>1, <2>2 DEF TypeOK
  <2>4. \A s \in Device : ctx'[s] = IF s = d THEN c ELSE ctx[s]
    BY <1>1, <2>2 DEF TypeOK
  <2> QED
    BY <1>1, <2>2, <2>3, <2>4 DEF IInv, TypeOK, AlwaysCanonical
<1> QED
  BY <1>2, <1>3

THEOREM AlwaysIInv == Spec => []IInv
  BY InitIInv, StepIInv, PTL DEF Spec

\* Contexts keep their type: no counter leaves its width, no cloud its dots.
THEOREM ContextsTyped == Spec => []TypeOK
<1>1. IInv => TypeOK
  BY DEF IInv
<1> QED
  BY <1>1, AlwaysIInv, PTL

\* Every context is in normal form in every reachable state (dot.rs:82).
THEOREM ContextsCanonical == Spec => []AlwaysCanonical
<1>1. IInv => AlwaysCanonical
  BY DEF IInv
<1> QED
  BY <1>1, AlwaysIInv, PTL

(***************************************************************************)
(* Two contexts that observed the same dots are the same value, so the     *)
(* structural equality of DotContext is equality of what was observed.     *)
(***************************************************************************)
THEOREM EqualityIsObservation == Spec => []SameDotsSameContext
<1>1. IInv => SameDotsSameContext
  <2> SUFFICES ASSUME IInv, NEW d \in Device, NEW s \in Device,
                      Dots(ctx[d]) = Dots(ctx[s])
               PROVE  ctx[d] = ctx[s]
    BY DEF SameDotsSameContext
  <2> QED
    BY CanonicalUnique DEF IInv, TypeOK, AlwaysCanonical
<1> QED
  BY <1>1, AlwaysIInv, PTL

-----------------------------------------------------------------------------

\* The sets of dots the contexts stand for.
SeenDots == [d \in Device |-> Dots(ctx[d])]

LEMMA InitSimulation == Init => Abstract!Init
  BY NewContextFacts DEF Init, Abstract!Init

LEMMA StepSimulation == IInv /\ [Next]_ctx => [Abstract!Next]_SeenDots
<1> SUFFICES ASSUME IInv, [Next]_ctx PROVE [Abstract!Next]_SeenDots
  OBVIOUS
<1>1. TypeOK /\ AlwaysCanonical
  BY DEF IInv
<1>2. \A s \in Device : ctx[s] \in Context /\ SeenDots[s] = Dots(ctx[s])
  BY <1>1 DEF TypeOK, SeenDots
<1>3. CASE UNCHANGED ctx
  BY <1>3 DEF SeenDots
<1>4. ASSUME NEW d \in Device, NEW c \in Context, ctx' = [ctx EXCEPT ![d] = c]
      PROVE  SeenDots' = [SeenDots EXCEPT ![d] = Dots(c)]
  BY <1>1, <1>4 DEF TypeOK, SeenDots
<1>5. ASSUME NEW d \in Device, MintDot(d)
      PROVE  Abstract!Mint(d)
  <2> DEFINE dot == NextDot(ctx[d], d)
  <2>1. /\ dot \in Dot /\ dot.device = d /\ CanMint(ctx[d], d)
        /\ \A x \in Dots(ctx[d]) : x.device = d => x.counter < dot.counter
    BY <1>2, <1>5, NextDotFacts DEF MintDot
  <2>2. SeenDots' = [SeenDots EXCEPT ![d] = Dots(ctx[d]) \cup {dot}]
    <3>1. Insert(ctx[d], dot) \in Context /\ Dots(Insert(ctx[d], dot)) = Dots(ctx[d]) \cup {dot}
      BY <1>2, <2>1, InsertFacts
    <3>2. ctx' = [ctx EXCEPT ![d] = Insert(ctx[d], dot)]
      BY <1>5 DEF MintDot
    <3> QED
      BY <1>4, <3>1, <3>2
  <2>3. dot.counter > 1 => DotOf(d, dot.counter - 1) \in Dots(ctx[d])
    BY <1>2, <2>1, PredecessorObserved
  <2> QED
    BY <1>2, <2>1, <2>2, <2>3 DEF Abstract!Mint, Abstract!Dot, Dot, DotOf, SeenDots
<1>6. ASSUME NEW d \in Device, InsertDot(d)
      PROVE  Abstract!Record(d)
  <2>1. PICK dot \in UNION {Dots(ctx[s]) : s \in Device} : ctx' = [ctx EXCEPT ![d] = Insert(ctx[d], dot)]
    BY <1>6 DEF InsertDot
  <2>2. dot \in Dot
    BY <2>1 DEF Dots
  <2>3. SeenDots' = [SeenDots EXCEPT ![d] = Dots(ctx[d]) \cup {dot}]
    BY <1>2, <1>4, <2>1, <2>2, InsertFacts
  <2>4. dot \in UNION {SeenDots[s] : s \in Device}
    BY <1>2, <2>1
  <2> QED
    BY <1>2, <2>3, <2>4 DEF Abstract!Record, SeenDots
<1>7. ASSUME NEW d \in Device, MergeFrom(d)
      PROVE  Abstract!Join(d)
  <2>1. PICK s \in Device : ctx' = [ctx EXCEPT ![d] = MergeContext(ctx[d], ctx[s])]
    BY <1>7 DEF MergeFrom
  <2>2. SeenDots' = [SeenDots EXCEPT ![d] = Dots(ctx[d]) \cup Dots(ctx[s])]
    <3>1. /\ MergeContext(ctx[d], ctx[s]) \in Context
          /\ Dots(MergeContext(ctx[d], ctx[s])) = Dots(ctx[d]) \cup Dots(ctx[s])
      BY <1>2, MergeFacts
    <3> QED
      BY <1>4, <2>1, <3>1
  <2> QED
    BY <1>2, <2>2 DEF Abstract!Join, SeenDots
<1>8. ASSUME NEW d \in Device, StartOver(d)
      PROVE  Abstract!StartOver(d)
  <2>1. SeenDots' = [SeenDots EXCEPT ![d] = {}]
    BY <1>4, <1>8, NewContextFacts DEF StartOver
  <2> QED
    BY <2>1 DEF Abstract!StartOver, SeenDots
<1>9. CASE Next
  BY <1>5, <1>6, <1>7, <1>8, <1>9 DEF Next, Abstract!Next
<1> QED
  BY <1>3, <1>9

(***************************************************************************)
(* Refinement: the compact contexts implement the sets of observed dots of *)
(* DotSet; in particular a minted dot is above every dot of its device the *)
(* context has observed, holes or not (dot.rs:58).                         *)
(***************************************************************************)
THEOREM ContextImplementsDotSet == Spec => ImplementsDotSet
<1>1. Init => Abstract!Init
  BY InitSimulation
<1>2. IInv /\ [Next]_ctx => [Abstract!Next]_SeenDots
  BY StepSimulation
<1> QED
  BY <1>1, <1>2, AlwaysIInv, PTL DEF Spec, ImplementsDotSet, Abstract!Spec, SeenDots
=============================================================================
