--------------------------- MODULE ClockExchange ----------------------------
(***************************************************************************)
(* The hybrid clocks of the devices (HlcClock of src/crdt/hlc.rs).  A      *)
(* device ticks for a local event and updates its clock on hearing of a    *)
(* stamp another device emitted, old ones too and in any order.  Physical  *)
(* time is injected by the caller and goes back and forth at will.         *)
(*                                                                         *)
(* heard, horizon and events are history.                                  *)
(***************************************************************************)
EXTENDS Devices, HybridClock

CONSTANT MaxEvents   (* the bound on the ticks and updates of a behaviour  *)

ASSUME MaxEventsAssumption == MaxEvents \in Nat

VARIABLES
  clock,    (* clock[d]: the last value of d's clock                       *)
  heard,    (* heard[d]: the values d has emitted or received              *)
  horizon,  (* the largest physical time injected so far                   *)
  events    (* the ticks and updates performed so far                      *)

vars == <<clock, heard, horizon, events>>

Init ==
  /\ clock   = [d \in Device |-> ZeroHlc]
  /\ heard   = [d \in Device |-> {}]
  /\ horizon = 0
  /\ events  = 0

\* d's clock takes the value `next` at physical time now, on hearing `news`.
Emit(d, now, next, news) ==
  /\ events < MaxEvents
  /\ events'  = events + 1
  /\ horizon' = Max({horizon, now})
  /\ clock'   = [clock EXCEPT ![d] = next]
  /\ heard'   = [heard EXCEPT ![d] = @ \cup news \cup {next}]

Tick(d) == \E now \in Wall : Emit(d, now, NextLocal(clock[d], now), {})

HearOf(d, remote) ==
  \E now \in Wall : Emit(d, now, Update(clock[d], now, remote), {remote})

Hear(d) == \E remote \in UNION {heard[s] : s \in Device} : HearOf(d, remote)

Next == \E d \in Device : Tick(d) \/ Hear(d)

Spec == Init /\ [][Next]_vars

-----------------------------------------------------------------------------

\* Every value stays inside its width.
TypeOK ==
  /\ clock   \in [Device -> Hlc]
  /\ heard   \in [Device -> SUBSET Hlc]
  /\ horizon \in Wall
  /\ events  \in 0 .. MaxEvents

\* No value d knows of, nor the one it hears, is the saturated one.
InDomain(d, news) == \A h \in heard[d] \cup news : ~Saturated(h)

EmitsAbove(d, news) ==
  InDomain(d, news) => \A h \in heard[d] \cup news : HlcLess(h, clock'[d])

(***************************************************************************)
(* "Monotonie stricte" and causality (hlc.rs): a value a device emits is   *)
(* above everything it has ever emitted or heard, and above the value it   *)
(* hears in that step, whatever physical time says; outside the domain of  *)
(* hlc.rs:12 (a saturated value) nothing is said.                          *)
(***************************************************************************)
EmitsAboveHeard ==
  [][\A d \in Device :
       /\ Tick(d) => EmitsAbove(d, {})
       /\ \A remote \in UNION {heard[s] : s \in Device} :
            HearOf(d, remote) => EmitsAbove(d, {remote})]_vars

\* A clock value as a number of ticks.
Linear(h) == h.wall * (MaxCounter + 1) + h.counter

(***************************************************************************)
(* The wall of a clock comes from physical time and from nothing else      *)
(* (hlc.rs, "temps physique borne par un compteur logique"): a clock runs  *)
(* ahead of the largest time any device was given by at most one logical   *)
(* tick per event, so it takes MaxCounter + 1 events to gain a             *)
(* millisecond.  The overflow of inc is inside this bound.                 *)
(***************************************************************************)
DriftBounded ==
  \A d \in Device : Linear(clock[d]) <= horizon * (MaxCounter + 1) + events
=============================================================================
