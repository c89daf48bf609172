---------------------------- MODULE HybridClock -----------------------------
(***************************************************************************)
(* The hybrid logical clock of src/crdt/hlc.rs: a wall time in             *)
(* milliseconds and a counter, ordered lexicographically.  The physical    *)
(* time is a parameter of every operation, and may be anything.            *)
(***************************************************************************)
EXTENDS Integers, FiniteSetsExt

CONSTANTS
  MaxWall,     (* the largest wall time: u64::MAX in the code              *)
  MaxCounter   (* the largest counter: u32::MAX in the code                *)

ASSUME HlcAssumption == MaxWall \in Nat /\ MaxCounter \in Nat

Wall == 0 .. MaxWall
Hlc  == [wall : Wall, counter : 0 .. MaxCounter]

ZeroHlc == [wall |-> 0, counter |-> 0]

\* The derived order: wall, then counter.
HlcLess(a, b) == a.wall < b.wall \/ (a.wall = b.wall /\ a.counter < b.counter)
HlcLeq(a, b)  == HlcLess(a, b) \/ a = b

\* The one value the operations cannot step above ("valeurs saturees").
Saturated(h) == h.wall = MaxWall /\ h.counter = MaxCounter

-----------------------------------------------------------------------------

\* A slip in inc: the carry into the wall does not saturate.
IncCarries(h) ==
  IF h.counter < MaxCounter THEN [h EXCEPT !.counter = @ + 1]
  ELSE [wall |-> h.wall + 1, counter |-> 0]

\* A slip in inc: the overflow is seen one tick early.
IncEarly(h) ==
  IF h.counter + 1 < MaxCounter THEN [h EXCEPT !.counter = @ + 1]
  ELSE [wall |-> Min({h.wall + 1, MaxWall}), counter |-> 0]

\* inc: a counter that overflows carries into the wall, which saturates.
Inc(h) ==
  IF h.counter < MaxCounter THEN [h EXCEPT !.counter = @ + 1]
  ELSE [wall |-> Min({h.wall + 1, MaxWall}), counter |-> 0]

\* A slip in next_local: the physical time is believed when it goes back.
NextLocalTrustsNow(h, now) ==
  IF now # h.wall THEN [wall |-> now, counter |-> 0] ELSE Inc(h)

\* next_local, which tick stores: physical time if it has advanced, else inc.
NextLocal(h, now) ==
  IF now > h.wall THEN [wall |-> now, counter |-> 0] ELSE Inc(h)

\* A slip in update: of two equal walls the local counter is kept.
UpdateKeepsCounter(last, now, remote) ==
  LET top == Max({last.wall, remote.wall, now})
  IN  CASE top = last.wall                       -> Inc(last)
        [] top # last.wall /\ top = remote.wall -> Inc(remote)
        [] OTHER                                -> [wall |-> top, counter |-> 0]

\* update: beyond the last local value, the remote one and physical time.
Update(last, now, remote) ==
  LET top == Max({last.wall, remote.wall, now})
  IN  CASE top = last.wall /\ top = remote.wall ->
             Inc([wall |-> top, counter |-> Max({last.counter, remote.counter})])
        [] top = last.wall /\ top # remote.wall -> Inc(last)
        [] top # last.wall /\ top = remote.wall -> Inc(remote)
        [] OTHER                                -> [wall |-> top, counter |-> 0]
=============================================================================
