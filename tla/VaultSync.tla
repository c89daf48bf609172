----------------------------- MODULE VaultSync ------------------------------
(***************************************************************************)
(* The vault replicated on several devices: documents (src/model/mod.rs),  *)
(* the hybrid clock each device stamps its writes with (src/crdt/hlc.rs),  *)
(* and a log of deltas delivered in any order and any number of times.     *)
(*                                                                         *)
(* A device ticks its clock for a write and, after a merge, moves it past  *)
(* the registers it now holds, the use max_hlc is documented for           *)
(* (src/model/mod.rs:199).  The clock lives in memory only: HlcClock is    *)
(* not serialized, so a restart rebuilds it from the document.             *)
(*                                                                         *)
(* The log belongs to the server.  seen and past are history.              *)
(***************************************************************************)
EXTENDS VaultDoc, FiniteSets

CONSTANTS
  MaxOps,   (* the bound on the operations of a behaviour                  *)
  Now,      (* the physical times callers inject                           *)
  LastWall  (* the bound on clocks: a clock past this wall is not moved    *)

ASSUME MaxOpsAssumption   == MaxOps \in Nat
ASSUME NowAssumption      == Now \subseteq Wall
ASSUME LastWallAssumption == LastWall \in Nat

VARIABLES
  doc,     (* doc[d]: the replica of device d                              *)
  clock,   (* clock[d]: the last value of d's hybrid clock                 *)
  log,     (* the operations performed so far, each with its delta         *)
  seen     (* seen[d]: the operations whose effect doc[d] has taken in     *)

vars == <<doc, clock, log, seen>>

OpId  == [device : Device, seq : 1 .. MaxOps]
Op    == [id : OpId, kind : {"add", "remove"}, entry : Entry,
          delta : Doc, past : SUBSET OpId]
Write == [id : OpId, kind : {"write"}, cell : Cell, attempt : Register,
          delta : Doc, past : SUBSET OpId]

Ids(ops)    == {op.id : op \in ops}
Writes(ops) == {op \in ops : op.kind = "write"}

\* The registers attempted for a cell, and those the deltas carry for it.
Attempts(ops, c) == {op.attempt : op \in {w \in Writes(ops) : w.cell = c}}
Carried(ops, c)  == {op.delta.fields[c] : op \in ops} \ {Unwritten}

Init ==
  /\ doc   = [d \in Device |-> NewDoc]
  /\ clock = [d \in Device |-> ZeroHlc]
  /\ log   = {}
  /\ seen  = [d \in Device |-> {}]

-----------------------------------------------------------------------------

Issued(d) == {op \in log : op.id.device = d}

NextId(d) == [device |-> d, seq |-> Cardinality(Issued(d)) + 1]

\* What d knows of when it performs an operation.
Past(d) == Ids(seen[d])

Ship(d, op) ==
  /\ Cardinality(log) < MaxOps
  /\ log'  = log \cup {op}
  /\ seen' = [seen EXCEPT ![d] = @ \cup {op}]

AddEntry(d, e) ==
  /\ CanMint(doc[d].entries.ctx, d)
  /\ doc' = [doc EXCEPT ![d] = AddEntryTo(@, e, d)]
  /\ Ship(d, [id |-> NextId(d), kind |-> "add", entry |-> e,
              delta |-> AddEntryDelta(doc[d], e, d), past |-> Past(d)])
  /\ UNCHANGED clock

RemoveEntry(d, e) ==
  /\ doc' = [doc EXCEPT ![d] = RemoveEntryFrom(@, e)]
  /\ Ship(d, [id |-> NextId(d), kind |-> "remove", entry |-> e,
              delta |-> RemoveEntryDelta(doc[d], e), past |-> Past(d)])
  /\ UNCHANGED clock

\* The bound on clocks.
CanMove(d) == clock[d].wall <= LastWall

\* A write is stamped by a fresh tick; the entry need not be present.
WriteField(d, c) ==
  \E now \in Now, value \in Value :
    LET hlc == NextLocal(clock[d], now)
        ts  == [hlc |-> hlc, device |-> d]
    IN  /\ CanMove(d)
        /\ clock' = [clock EXCEPT ![d] = hlc]
        /\ doc'   = [doc EXCEPT ![d] = SetField(@, c, value, ts)]
        /\ Ship(d, [id |-> NextId(d), kind |-> "write", cell |-> c,
                    attempt |-> NewRegister(value, ts),
                    delta |-> SetFieldDelta(doc[d], c, value, ts), past |-> Past(d)])

\* A slip of the caller: the clock is left where it was after a merge.
MergeOnly(d, other, news) ==
  /\ CanMove(d)
  /\ doc'   = [doc EXCEPT ![d] = MergeDoc(@, other)]
  /\ seen'  = [seen EXCEPT ![d] = @ \cup news]
  /\ UNCHANGED <<clock, log>>

\* A merge of a delta or a full state, followed by the update of the clock.
MergeAndAdvance(d, other, news) ==
  \E now \in Now :
    LET merged == MergeDoc(doc[d], other)
    IN  /\ CanMove(d)
        /\ doc'   = [doc EXCEPT ![d] = merged]
        /\ clock' = [clock EXCEPT ![d] = Advance(@, now, merged)]
        /\ seen'  = [seen EXCEPT ![d] = @ \cup news]
        /\ UNCHANGED log

Deliver(d)  == \E op \in log : MergeAndAdvance(d, op.delta, {op})
Snapshot(d) == \E s \in Device : MergeAndAdvance(d, doc[s], seen[s])

\* A slip of the caller: after a restart the clock starts from zero.
RestartAtZero(d) ==
  /\ clock' = [clock EXCEPT ![d] = ZeroHlc]
  /\ UNCHANGED <<doc, log, seen>>

\* The document is read back from storage, the clock starts from it.
Restart(d) ==
  \E now \in Now :
    /\ clock' = [clock EXCEPT ![d] = Advance(ZeroHlc, now, doc[d])]
    /\ UNCHANGED <<doc, log, seen>>

Operate(d) ==
  \/ \E e \in Entry : AddEntry(d, e) \/ RemoveEntry(d, e)
  \/ \E c \in Cell : WriteField(d, c)

Next == \E d \in Device : Operate(d) \/ Deliver(d) \/ Snapshot(d) \/ Restart(d)

Spec == Init /\ [][Next]_vars

-----------------------------------------------------------------------------

\* Documents, clocks, operations and their histories have their shapes.
TypeOK ==
  /\ doc   \in [Device -> Doc]
  /\ clock \in [Device -> Hlc]
  /\ log   \subseteq Op \cup Write
  /\ seen  \in [Device -> SUBSET (Op \cup Write)]

\* The domain of hlc.rs:12: the bound on clocks keeps them off the saturated
\* value, at most a carry for a write and one for an update above LastWall.
InDomain == LastWall + 2 <= MaxWall /\ \A now \in Now : now <= LastWall + 1

(***************************************************************************)
(* Strong eventual consistency of the whole document (model/mod.rs:28):    *)
(* presence and fields of two replicas agree once they took in the same    *)
(* operations.  It holds in and out of the clock's domain.                 *)
(***************************************************************************)
Convergence == \A d, s \in Device : seen[d] = seen[s] => doc[d] = doc[s]

(***************************************************************************)
(* The register of a cell is the largest of those the deltas taken in      *)
(* carry, and no write taken in beats it: none is lost to a removal of the *)
(* entry, nor to deltas that carry the resulting register in place of the  *)
(* write attempted (model/mod.rs:148).                                     *)
(***************************************************************************)
RegisterIsLargestWrite ==
  \A d \in Device, c \in Cell :
    IF Carried(seen[d], c) = {} THEN doc[d].fields[c] = Unwritten
    ELSE /\ doc[d].fields[c] \in Carried(seen[d], c)
         /\ \A r \in Carried(seen[d], c) \cup Attempts(seen[d], c) :
              ~Beats(r, doc[d].fields[c])

(***************************************************************************)
(* "Un ts issu d'un tick frais domine toujours l'actuel" (lww.rs:49): a    *)
(* device's own write is what it then reads in the register, whatever it   *)
(* merged before, whatever its physical clock says and after any restart.  *)
(***************************************************************************)
LocalWriteWins ==
  [][\A d \in Device, c \in Cell :
       InDomain /\ WriteField(d, c) =>
         \E op \in log' \ log : op.id.device = d /\ doc'[d].fields[c] = op.attempt]_vars

(***************************************************************************)
(* Timestamps respect causality (hlc.rs:1): a write the author of another  *)
(* one had taken in, as a delta or inside a snapshot, has the smaller      *)
(* timestamp, so it never wins a register over the write that knew of it.  *)
(***************************************************************************)
StampsFollowCausality ==
  InDomain => \A w1, w2 \in Writes(log) :
                w1.id \in w2.past => TsLess(w1.attempt.ts, w2.attempt.ts)

(***************************************************************************)
(* "Meme appareil + meme HLC = meme ecriture logique" (lww.rs:6): no two   *)
(* writes share a timestamp, restarts included.                            *)
(***************************************************************************)
StampsUnique ==
  InDomain => \A w1, w2 \in Writes(log) : w1.attempt.ts = w2.attempt.ts => w1 = w2

(***************************************************************************)
(* What max_hlc is for (model/mod.rs:202): a device's clock is never       *)
(* behind a register it holds, of a removed entry or not.                  *)
(***************************************************************************)
ClockCoversDoc ==
  InDomain => \A d \in Device : \A h \in Stamps(doc[d]) : HlcLeq(h, clock[d])

(***************************************************************************)
(* A register only ever grows, through removals and re-additions of its    *)
(* entry and through restarts (model/mod.rs:111, "pour ne pas perdre       *)
(* d'ecritures concurrentes").                                             *)
(***************************************************************************)
RegistersGrow ==
  [][\A d \in Device, c \in Cell :
       doc[d].fields[c] # doc'[d].fields[c] =>
         \/ doc[d].fields[c] = Unwritten
         \/ doc'[d].fields[c] # Unwritten /\ Beats(doc'[d].fields[c], doc[d].fields[c])]_vars


(***************************************************************************)
(* Registers of a removed entry come back with it (model/mod.rs:111): once *)
(* re-added, an entry shows in every field the largest of the writes taken *)
(* in, those of the time it was absent included.                           *)
(***************************************************************************)
ReAddShowsLargestWrite ==
  [][\A d \in Device, c \in Cell :
       AddEntry(d, c[1]) /\ Carried(seen[d], c) # {} =>
         \E r \in Carried(seen[d], c) :
           /\ FieldValue(doc'[d], c) = r.value
           /\ \A q \in Carried(seen[d], c) \cup Attempts(seen[d], c) : ~Beats(q, r)]_vars
=============================================================================
