------------------------- MODULE ClockExchangeProofs ------------------------
(***************************************************************************)
(* The properties of ClockExchange, for any devices, any widths of wall    *)
(* and counter and any number of events.                                   *)
(***************************************************************************)
EXTENDS ClockExchange, CrdtProofs

\* The ticks physical time and the events so far can account for.
Allowed == horizon * (MaxCounter + 1) + events

\* A clock stands at the last value emitted, and at zero before the first.
ClockIsHeard == \A d \in Device : clock[d] \in heard[d] \/ (heard[d] = {} /\ clock[d] = ZeroHlc)

\* In the domain, the last value is the largest of all emitted and received.
ClockIsLargest ==
  \A d \in Device : InDomain(d, {}) => \A h \in heard[d] : HlcLeq(h, clock[d])

HeardBounded ==
  \A d \in Device : /\ Linear(clock[d]) <= Allowed
                    /\ \A h \in heard[d] : Linear(h) <= Allowed

\* The inductive invariant.
IInv == TypeOK /\ ClockIsHeard /\ ClockIsLargest /\ HeardBounded

-----------------------------------------------------------------------------

LEMMA TimesMonotone ==
  ASSUME NEW a \in Nat, NEW b \in Nat, NEW k \in Nat, a <= b
  PROVE  a * k <= b * k
<1>1. PICK c \in Nat : b = a + c
  <2>1. b - a \in Nat /\ b = a + (b - a)
    OBVIOUS
  <2> QED
    BY <2>1
<1>2. b * k = a * k + c * k /\ a * k \in Nat /\ c * k \in Nat
  BY <1>1
<1> QED
  BY <1>2

LEMMA LinearType ==
  ASSUME NEW h \in Hlc
  PROVE  Linear(h) \in Nat
<1>1. h.wall \in Nat /\ h.counter \in Nat /\ MaxCounter + 1 \in Nat
  BY HlcShape
<1> QED
  BY <1>1 DEF Linear

\* inc costs at most one tick, overflow included.
LEMMA LinearInc ==
  ASSUME NEW h \in Hlc
  PROVE  Linear(Inc(h)) <= Linear(h) + 1
<1>1. /\ h.wall \in Nat /\ h.wall <= MaxWall /\ h.counter \in Nat /\ h.counter <= MaxCounter
      /\ MaxWall \in Nat /\ MaxCounter \in Nat
      /\ h = [wall |-> h.wall, counter |-> h.counter]
  BY HlcShape
<1> DEFINE K == MaxCounter + 1
<1>2. CASE h.counter < MaxCounter
  <2>1. Inc(h) = [wall |-> h.wall, counter |-> h.counter + 1]
    BY <1>1, <1>2 DEF Inc
  <2>2. h.wall * K \in Nat
    BY <1>1
  <2>3. Linear(Inc(h)) = h.wall * K + (h.counter + 1) /\ Linear(h) = h.wall * K + h.counter
    BY <2>1 DEF Linear
  <2> HIDE DEF K
  <2> QED
    BY <1>1, <2>2, <2>3
<1>3. CASE ~(h.counter < MaxCounter)
  <2>1. h.counter = MaxCounter
    BY <1>1, <1>3
  <2>2. Min({h.wall + 1, MaxWall}) \in {h.wall, h.wall + 1}
    BY <1>1 DEF Min
  <2>3. PICK w \in {h.wall, h.wall + 1} : Inc(h) = [wall |-> w, counter |-> 0]
    BY <1>3, <2>2 DEF Inc
  <2>4. Linear(Inc(h)) = w * K + 0 /\ Linear(h) = h.wall * K + MaxCounter
    BY <2>1, <2>3 DEF Linear
  <2>5. w * K <= (h.wall + 1) * K
    BY <1>1, <2>3, TimesMonotone
  <2>6. (h.wall + 1) * K = h.wall * K + K /\ h.wall * K \in Nat /\ w * K \in Nat
    BY <1>1, <2>3
  <2> HIDE DEF K
  <2>7. Linear(Inc(h)) <= h.wall * K + K /\ K = MaxCounter + 1
    BY <1>1, <2>4, <2>5, <2>6 DEF K
  <2> QED
    BY <1>1, <2>4, <2>6, <2>7
<1> QED
  BY <1>2, <1>3

\* A local event costs at most one tick over the clock and physical time.
LEMMA LinearNextLocal ==
  ASSUME NEW h \in Hlc, NEW now \in Wall, NEW top \in Wall, now <= top, NEW n \in Nat,
         Linear(h) <= top * (MaxCounter + 1) + n
  PROVE  Linear(NextLocal(h, now)) <= top * (MaxCounter + 1) + (n + 1)
<1>1. now \in Nat /\ top \in Nat /\ MaxCounter + 1 \in Nat /\ top * (MaxCounter + 1) \in Nat
      /\ now * (MaxCounter + 1) \in Nat
  BY HlcAssumption DEF Wall
<1>2. CASE now > h.wall
  <2>1. Linear(NextLocal(h, now)) = now * (MaxCounter + 1) + 0
    BY <1>2 DEF NextLocal, Linear
  <2>2. now * (MaxCounter + 1) <= top * (MaxCounter + 1)
    BY <1>1, TimesMonotone
  <2> QED
    BY <1>1, <2>1, <2>2
<1>3. CASE ~(now > h.wall)
  <2>1. NextLocal(h, now) = Inc(h)
    BY <1>3 DEF NextLocal
  <2>2. Linear(Inc(h)) <= Linear(h) + 1
    BY LinearInc
  <2>3. Linear(h) \in Nat /\ Linear(Inc(h)) \in Nat
    BY LinearType, IncFacts
  <2> QED
    BY <1>1, <2>1, <2>2, <2>3
<1> QED
  BY <1>2, <1>3

-----------------------------------------------------------------------------

LEMMA InitIInv == Init => IInv
<1> SUFFICES ASSUME Init PROVE IInv
  OBVIOUS
<1>1. ZeroHlc \in Hlc /\ Linear(ZeroHlc) = 0
  BY HlcAssumption DEF ZeroHlc, Hlc, Wall, Linear
<1>2. 0 \in Wall /\ 0 \in 0 .. MaxEvents /\ Allowed = 0
  BY HlcAssumption, MaxEventsAssumption DEF Wall, Init, Allowed
<1>3. TypeOK
  BY <1>1, <1>2 DEF Init, TypeOK
<1>4. ClockIsHeard /\ ClockIsLargest
  BY DEF Init, ClockIsHeard, ClockIsLargest
<1>5. HeardBounded
  <2>1. \A d \in Device : clock[d] = ZeroHlc /\ heard[d] = {}
    BY DEF Init
  <2>2. Linear(ZeroHlc) <= Allowed
    BY <1>1, <1>2
  <2> QED
    BY <2>1, <2>2 DEF HeardBounded
<1> QED
  BY <1>3, <1>4, <1>5 DEF IInv

\* The value base is the clock of d or the later of it and a value heard.
LEMMA EmitStep ==
  ASSUME IInv, NEW d \in Device, NEW now \in Wall, NEW base \in Hlc, NEW news \in SUBSET Hlc,
         Emit(d, now, NextLocal(base, now), news),
         base \in {clock[d]} \cup news,
         HlcLeq(clock[d], base), \A h \in news : HlcLeq(h, base),
         \A h \in news : Linear(h) <= Allowed
  PROVE  IInv' /\ EmitsAbove(d, news)
<1> DEFINE next == NextLocal(base, now)
<1>1. /\ events < MaxEvents /\ events' = events + 1
      /\ horizon' = Max({horizon, now})
      /\ clock' = [clock EXCEPT ![d] = next]
      /\ heard' = [heard EXCEPT ![d] = @ \cup news \cup {next}]
  BY DEF Emit
<1>2. /\ clock \in [Device -> Hlc] /\ heard \in [Device -> SUBSET Hlc]
      /\ horizon \in Wall /\ events \in 0 .. MaxEvents /\ MaxEvents \in Nat
      /\ horizon \in Nat /\ now \in Nat /\ events \in Nat /\ MaxCounter + 1 \in Nat
  BY HlcAssumption, MaxEventsAssumption DEF IInv, TypeOK, Wall
<1>3. horizon' \in Wall /\ horizon <= horizon' /\ now <= horizon' /\ horizon' \in Nat
  <2>1. Max({horizon, now}) = IF horizon < now THEN now ELSE horizon
    BY <1>2 DEF Max
  <2> QED
    BY <1>1, <1>2, <2>1
<1>4. next \in Hlc /\ (~Saturated(base) => HlcLess(base, next))
  BY NextLocalFacts
<1>5. TypeOK'
  <2>1. clock' \in [Device -> Hlc] /\ heard' \in [Device -> SUBSET Hlc]
    BY <1>1, <1>2, <1>4
  <2>2. events' \in 0 .. MaxEvents
    BY <1>1, <1>2
  <2> QED
    BY <1>3, <2>1, <2>2 DEF TypeOK
<1>6. Allowed' \in Nat /\ Allowed \in Nat /\ Allowed + 1 <= Allowed'
      /\ Allowed' = horizon' * (MaxCounter + 1) + (events + 1)
  <2>1. horizon * (MaxCounter + 1) <= horizon' * (MaxCounter + 1)
    BY <1>2, <1>3, TimesMonotone
  <2>2. horizon * (MaxCounter + 1) \in Nat /\ horizon' * (MaxCounter + 1) \in Nat
    BY <1>2, <1>3
  <2> QED
    BY <1>1, <1>2, <2>1, <2>2 DEF Allowed
<1>7. Linear(next) <= Allowed'
  <2>1. Linear(base) <= Allowed
    BY DEF IInv, HeardBounded
  <2>2. Linear(base) <= horizon' * (MaxCounter + 1) + events
    <3>1. horizon * (MaxCounter + 1) <= horizon' * (MaxCounter + 1)
      BY <1>2, <1>3, TimesMonotone
    <3>2. horizon * (MaxCounter + 1) \in Nat /\ horizon' * (MaxCounter + 1) \in Nat
          /\ Linear(base) \in Nat
      BY <1>2, <1>3, LinearType
    <3> QED
      BY <1>2, <2>1, <3>1, <3>2 DEF Allowed
  <2>3. Linear(next) <= horizon' * (MaxCounter + 1) + (events + 1)
    BY <1>2, <1>3, <2>2, LinearNextLocal
  <2> QED
    BY <1>6, <2>3
<1> HIDE DEF next
<1>8. /\ \A s \in Device : clock'[s] = IF s = d THEN next ELSE clock[s]
      /\ \A s \in Device : heard'[s] = IF s = d THEN heard[d] \cup news \cup {next} ELSE heard[s]
  BY <1>1, <1>2
<1>9. HeardBounded'
  <2>1. ASSUME NEW h \in Hlc, Linear(h) <= Allowed
        PROVE  Linear(h) <= Allowed'
    BY <1>6, <2>1, LinearType
  <2>2. \A s \in Device : clock[s] \in Hlc /\ heard[s] \subseteq Hlc
    BY <1>2
  <2> QED
    BY <1>7, <1>8, <2>1, <2>2 DEF IInv, HeardBounded
<1>10. ClockIsHeard'
  BY <1>8 DEF IInv, ClockIsHeard
<1>11. EmitsAbove(d, news)
  <2> SUFFICES ASSUME InDomain(d, news), NEW h \in heard[d] \cup news
               PROVE  HlcLess(h, clock'[d])
    BY DEF EmitsAbove
  <2>1. \A g \in heard[d] : HlcLeq(g, clock[d])
    BY DEF IInv, ClockIsLargest, InDomain
  <2>2. HlcLeq(h, base) /\ h \in Hlc /\ clock[d] \in Hlc
    BY <1>2, <2>1, HlcOrder DEF HlcLeq
  <2>3. ~Saturated(base)
    <3>1. CASE base \in news
      BY <3>1 DEF InDomain
    <3>2. CASE base = clock[d] /\ clock[d] \in heard[d]
      BY <3>2 DEF InDomain
    <3>3. CASE base = clock[d] /\ heard[d] = {}
      <4>1. h \in news /\ ~Saturated(h)
        BY <3>3 DEF InDomain
      <4>2. SUFFICES ASSUME Saturated(base) PROVE FALSE
        OBVIOUS
      <4>3. clock[d] = ZeroHlc
        BY <3>3 DEF IInv, ClockIsHeard
      <4>4. MaxWall = 0 /\ MaxCounter = 0
        BY <3>3, <4>2, <4>3 DEF Saturated, ZeroHlc
      <4>5. h.wall = 0 /\ h.counter = 0
        BY <2>2, <4>4, HlcShape
      <4> QED
        BY <4>1, <4>4, <4>5 DEF Saturated
    <3> QED
      BY <3>1, <3>2, <3>3 DEF IInv, ClockIsHeard
  <2>4. HlcLess(h, next)
    BY <1>4, <2>2, <2>3, HlcOrder DEF HlcLeq
  <2> QED
    BY <1>8, <2>4
<1>12. ClockIsLargest'
  <2> SUFFICES ASSUME NEW s \in Device, \A h \in heard'[s] : ~Saturated(h), NEW h \in heard'[s]
               PROVE  HlcLeq(h, clock'[s])
    BY DEF ClockIsLargest, InDomain
  <2>1. CASE s = d
    <3>1. InDomain(d, news)
      BY <1>8, <2>1 DEF InDomain
    <3>2. h = next \/ HlcLess(h, clock'[d])
      BY <1>8, <1>11, <2>1, <3>1 DEF EmitsAbove
    <3> QED
      BY <1>8, <2>1, <3>2 DEF HlcLeq
  <2>2. CASE s # d
    <3>1. heard'[s] = heard[s] /\ clock'[s] = clock[s]
      BY <1>8, <2>2
    <3> QED
      BY <3>1 DEF IInv, ClockIsLargest, InDomain
  <2> QED
    BY <2>1, <2>2
<1> QED
  BY <1>5, <1>9, <1>10, <1>11, <1>12 DEF IInv

LEMMA TickStep ==
  ASSUME IInv, NEW d \in Device, Tick(d)
  PROVE  IInv' /\ EmitsAbove(d, {})
<1>1. PICK now \in Wall : Emit(d, now, NextLocal(clock[d], now), {})
  BY DEF Tick
<1>2. clock[d] \in Hlc
  BY DEF IInv, TypeOK
<1> QED
  BY <1>1, <1>2, EmitStep DEF HlcLeq

LEMMA HearStep ==
  ASSUME IInv, NEW d \in Device, NEW remote \in UNION {heard[s] : s \in Device},
         HearOf(d, remote)
  PROVE  IInv' /\ EmitsAbove(d, {remote})
<1> DEFINE base == Later(clock[d], remote)
<1>1. PICK now \in Wall : Emit(d, now, Update(clock[d], now, remote), {remote})
  BY DEF HearOf
<1>2. clock[d] \in Hlc /\ remote \in Hlc /\ Linear(remote) <= Allowed
  BY DEF IInv, TypeOK, HeardBounded
<1>3. Update(clock[d], now, remote) = NextLocal(base, now)
  BY <1>2, UpdateIsNextLocal
<1>4. base \in Hlc /\ base \in {clock[d], remote} /\ HlcLeq(clock[d], base) /\ HlcLeq(remote, base)
  BY <1>2, LaterFacts
<1> HIDE DEF base
<1> QED
  BY <1>1, <1>2, <1>3, <1>4, EmitStep

LEMMA StepIInv == IInv /\ [Next]_vars => IInv'
<1> SUFFICES ASSUME IInv, [Next]_vars PROVE IInv'
  OBVIOUS
<1>1. CASE UNCHANGED vars
  BY <1>1 DEF vars, IInv, TypeOK, ClockIsHeard, ClockIsLargest, InDomain, HeardBounded, Allowed
<1>2. CASE Next
  BY <1>2, TickStep, HearStep DEF Next, Hear
<1> QED
  BY <1>1, <1>2

THEOREM AlwaysIInv == Spec => []IInv
  BY InitIInv, StepIInv, PTL DEF Spec

-----------------------------------------------------------------------------

\* Walls, counters and the history stay inside their widths.
THEOREM ClocksTyped == Spec => []TypeOK
<1>1. IInv => TypeOK
  BY DEF IInv
<1> QED
  BY <1>1, AlwaysIInv, PTL

(***************************************************************************)
(* A clock gains on physical time one logical tick per event at most, the  *)
(* overflow of the counter into the wall included (hlc.rs:30).             *)
(***************************************************************************)
THEOREM DriftIsBounded == Spec => []DriftBounded
<1>1. IInv => DriftBounded
  BY DEF IInv, HeardBounded, DriftBounded, Allowed
<1> QED
  BY <1>1, AlwaysIInv, PTL

(***************************************************************************)
(* Strict growth and causality of the clocks in the domain of hlc.rs:12,   *)
(* whatever times are injected (hlc.rs:78, hlc.rs:85).                     *)
(***************************************************************************)
THEOREM ClocksGrow == Spec => EmitsAboveHeard
<1>1. ASSUME IInv, NEW d \in Device
      PROVE  /\ Tick(d) => EmitsAbove(d, {})
             /\ \A remote \in UNION {heard[s] : s \in Device} :
                  HearOf(d, remote) => EmitsAbove(d, {remote})
  BY <1>1, TickStep, HearStep
<1>2. IInv => [\A d \in Device :
                 /\ Tick(d) => EmitsAbove(d, {})
                 /\ \A remote \in UNION {heard[s] : s \in Device} :
                      HearOf(d, remote) => EmitsAbove(d, {remote})]_vars
  BY <1>1
<1> QED
  BY <1>2, AlwaysIInv, PTL DEF Spec, EmitsAboveHeard
=============================================================================
