--------------------------- MODULE MCPresenceSync ---------------------------
(* Model values for the bounded checks of PresenceSync.                    *)
EXTENDS PresenceSync, TLC

Symmetry == Permutations(Device) \cup Permutations(Entry)
=============================================================================
