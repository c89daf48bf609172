# realm-guard-core: a TLA+ verification project

`realm-guard-core` is the shared core of a password manager: a delta-state CRDT
document that several devices of one account edit without coordination, the
hybrid clock its writes are stamped with, the key hierarchy that encrypts it,
the pairing of a new device and OPAQUE registration and login. It is a pure
library: no thread, no I/O, no storage. Physical time is injected, messages are
carried by the caller, and every function takes the state it works on and
returns the new one. What is hard is therefore what the *callers* do with it:
several replicas, deltas that arrive late, twice or in another order, clocks
that go back, restarts, several sessions of a protocol at once.

The models follow the code under `src/src/`; `PROJECT.json` maps every
definition to its lines. Comments in the modules cite the repository's own
paths (`src/crdt/dot.rs:59`).

## Inventory

| component | state | operations | interacts with | hard part | what makes it correct |
|---|---|---|---|---|---|
| dots and causal contexts, `crdt/dot.rs` | a prefix counter per device, a cloud of dots beyond a hole | `next_dot`, `insert`, `merge`, `compact_device` | the add-wins set calls it | dots arriving out of order, holes, own dots in the cloud | stands for exactly the set of dots observed; one representation per set; never mints a dot twice |
| add-wins set, `crdt/awset.rs` | dots per element, a context | `add`, `remove` (each returns a delta), `merge` | held by the document | add against concurrent remove, re-delivery, superseded dots | merging deltas in any order gives the same state; adds win; nothing resurrects |
| hybrid clock, `crdt/hlc.rs` | the last `(wall, counter)` | `tick`/`next_local`, `update` | stamps writes, is advanced after merges | physical time going back, ties, overflow and saturation | strictly increasing and above what was heard; bounded drift |
| timestamps and registers, `crdt/mod.rs`, `crdt/lww.rs` | a value and its timestamp | `set`, `merge` | fields of the document | concurrent writes, equal timestamps | the largest (timestamp, value) stays |
| vault document, `model/mod.rs` | an add-wins set of entries, a register per written field | `add_entry`, `remove_entry`, `set_field`, `field`, `max_hlc`, `merge` | produces and merges the deltas of the server's log | removal against concurrent edit, stale clocks, losing writes | replicas converge; no write is lost that no later one beats |
| device pairing, `crypto/pairing.rs` | an ephemeral secret, then a session key, on each side | `pairing_start`, `pairing_source_begin`, `pairing_new_device_confirm`, `pairing_source_seal`, `pairing_open` | the relay carries two messages, the user compares two codes | concurrent sessions, misrouted or repeated messages | a blob opens only in the session whose code the user compared |
| key hierarchy, `crypto/{aead,entry,kdf,vault_key,recovery,server_blob,device_key}.rs` | none: keys and ciphertexts are the caller's | wrap/unwrap, seal/open, recovery kit, signatures | pairing and the document use it | changing the password or the kit while old wraps exist | a ciphertext opens with the secret it was sealed for and with no other |
| OPAQUE, `auth/mod.rs` | client and server states between two messages | registration and login, start and finish on both sides | external library `opaque-ke` | sessions interleaved, re-registration during a login | both sides finish with the same session key or the login fails |
| serialization, errors, `codec.rs`, `error.rs`, `lib.rs` | none | encode, decode | all of the above | - | pure wrappers |

## Modules

| module | models | notes |
|---|---|---|
| `Devices` | `DeviceId` | the constant every replicated structure is indexed by |
| `DotContext` | `crdt/dot.rs` | pure operators; `MaxDot` is `u64::MAX` |
| `ContextExchange` | contexts of several devices | one action per mutating operation, and a device starting over |
| `DotSet` | what a context promises | abstract: a plain set of dots per device |
| `AddWinsSet` | `crdt/awset.rs` | pure operators for `add`, `remove`, their deltas, `merge` |
| `PresenceSync` | replicas, the server's log, deliveries, snapshots | the system of the presence half of `model/mod.rs` |
| `OrSet` | what an add-wins set promises | abstract: members read off the histories, no dots |
| `HybridClock` | `crdt/hlc.rs` | pure operators; `MaxWall`, `MaxCounter` are the integer widths |
| `ClockExchange` | clocks of several devices | ticks and updates with any physical time |
| `LwwRegister` | `crdt/lww.rs`, `Timestamp` | pure operators |
| `VaultDoc` | `model/mod.rs` | pure operators for the document and its deltas |
| `VaultSync` | documents, clocks, log, restarts | the whole replicated vault |
| `Pairing` | `crypto/pairing.rs` | sessions of several new devices and sources, the relay, the user |
| `KeyHierarchy` | `crypto/{aead,entry,kdf,vault_key,recovery,server_blob}.rs` | pure operators: what each secret derives and what opens what |
| `KeyCustody` | the callers of `KeyHierarchy` | devices of several accounts, the server that keeps what they seal |
| `VaultAccess` | what the key hierarchy promises | abstract: who gets into which vault by which way, no keys |
| `Opaque` | `auth/mod.rs` | registrations and logins at once, the server's files and secret, the relay |
| `MC*` | - | constants and symmetry of the bounded checks |
| `*Proofs` | - | the theorems, see below |

`AddWinsSet` and `VaultDoc` extend the operator modules below them, so one
definition of `merge` serves the runs, the proofs and the modules composed from
it. Operators whose comment says "a slip" are no part of the model: they are
the plausible mistakes the properties are measured against (`mutants` in
`PROJECT.json`).

### How the models correspond to the code

*Contexts.* `cc : BTreeMap<DeviceId, u64>` never holds 0, so it is a function
with 0 for a missing key. `compact_device` removes successors from the cloud
until one is missing; `PrefixEnd` names where that loop stops. `merge` is the
larger prefix, the union of the clouds, the purge and the compaction of the
devices left in the cloud, in that order. `CanMint` is the condition under which
the unchecked `+ 1` of `next_dot` stays inside `u64`; it bounds the model.

*Sets.* An element the code's map has no key for has the empty set of dots (the
code never stores an empty one). A delta is a value of the same type. `ContextOf`
is the context the `insert`s in `add` and `remove` build: it is what inserting
any one of the dots into the context of the others gives, so the order of the
insertions does not matter. The assumption of `MCContextExchange` checks that for
every set of dots of its bounds and the theorem `ContextOfIsFold` proves it.

*The log* is not part of the crate. `model/mod.rs:22-35` says what it may do:
serve deltas in any order, repeat them, or be replaced by a snapshot. So `log`
is the set of the operations performed, each with the delta its call returned;
`Deliver` merges any of them, once more if it likes, and `Snapshot` merges the
full state of any replica. `seen` and `past` are history: they record which
operations a replica has taken in, and no guard of `Next` reads them.

*Clocks.* `Update` keeps the four cases of `update`. Physical time is any value
at any event. `Saturated` is the value outside the domain of `hlc.rs:12`, for
which the code promises no strict growth.

*The vault.* `WriteField` is `tick` followed by `set_field`, and its delta holds
the register that results. After a merge the caller moves its clock past
`max_hlc`, which is the use that function is documented for; `MergeAndAdvance`
is the two together. `HlcClock` is not serialized, so `Restart` keeps the
document and builds the clock again from it. The document survives a restart as
it was: the crate does not store it, and a store that falls back to an older
copy would let `next_dot` use a dot again (listed as a hazard, not modelled).

*Pairing.* The functions are pure and return opaque states; the sets `waiting`,
`sources` and `news` are those states for as long as the comments of the code
let the caller keep them (until round one, until sealing, until opening), and
`qrs`, `hellos` and `blobs` are what was shown or relayed. Nothing is taken out
of these three, so a message may come late, again or to another session, and an
old QR may still be scanned. An ephemeral key pair is named by the call that
drew it, the shared secret is the set of the two pairs, and `Derive` keeps its
four inputs, so two keys are equal iff all of them are. The digits shown are
`Sas[key]` for an arbitrary function `Sas`. `UserConfirms` is the user, who
confirms a source with any screen that shows the same digits. A failing
`pairing_open` changes nothing and is no step. `Restart` drops a state, which
the code says is never persisted. `scanned` and `heard` are history. Messages
are not forged: the model is about mixing sessions up.

*OPAQUE.* The nine functions keep nothing either. `registering`, `loggingIn` and
`awaiting` are the states their callers keep between two calls, `regRequests`,
`regResponses`, `uploads`, `requests`, `responses` and `finished` are what was
sent, and nothing is taken out of the second group. `opaque-ke` is external and
ideal. A run is named by the randomness its first call draws. `Unblind` is what
a client makes of an answer: with the answer to its own run, the account's
secret for the password typed under the server secret of the answer; with the
answer to another run, a value nobody else has (`own`). `client_register_finish`
cannot tell the two apart and the model does not either: such a file is uploaded
and stored, and no password opens it afterwards. The session key is over all that
was sent, so it is named by the response, the file it was made from included.
`GenerateServerSetup` is a server that starts with another secret; the files it
had stay. An unknown user is answered (`NoFile`), as the code does. `offered` is
history: the files the account of a login had for the password typed, from the
first message on.

*Keys.* `KeyHierarchy` has symbolic keys: a key is what it was derived from,
tagged with its domain, and a ciphertext opens with the key it was sealed under
and with no other. `Unwrap` keeps the length check of `unwrap_vault_key`: what
opens and is not a vault key is an error. In `KeyCustody` a device may make any
call it has the keys for, as the crate prescribes no order. The crate stores
nothing: the application and the server replace wraps, blobs and kits one at a
time, so `DropWrap`, `DropBlob` and `DropKit` take any of them away at any
moment, before or after its successor is stored, and until then the server may
hand out any of them, old or another account's. A code a user noted stays noted
when its kit is gone. `Register`, `HasExport` and `Pair` are in one step what
`Opaque` and `Pairing` show of the calls they stand for. `HasExport` stands for
a completed login: the device has the export key of a registration of its
account. Every registration draws a new envelope, so each has an export key of
its own even under the same password (the comment at `auth/mod.rs:79` calls it
stable for a password; it is, for one registration). A vault key is drawn once
per account and named by it.

## Runs

| run | bounds | shows |
|---|---|---|
| `contexts` | 2 devices, 4 counters | normal form, equality of equal contexts, refinement of `DotSet`, with devices that start over and meet their own dots out of order |
| `presence` | 3 devices, 1 entry, 4 operations, devices symmetric | convergence, the join of what was taken in, unique dots, add wins, no resurrection, no cloud left when complete |
| `presence_live` | 2 devices, 2 entries, 3 operations | with every delta delivered at least once, the replicas end equal |
| `causal_log` | 3 devices, 1 entry, 4 operations | over a log that keeps causal order: removes take effect, refinement of `OrSet` |
| `remove_out_of_order` | 2 devices, 1 entry, 3 operations | a violation: what the doc of `remove` says fails without that order |
| `clocks` | 2 devices, walls 0..3, counters 0..1, 6 events | width, strict growth over everything heard, drift |
| `vault` | 2 devices, 1 entry, 2 fields, 3 operations, clocks up to wall 1 in 0..3 | the document and the clocks inside the clock's domain, with restarts |
| `vault_saturated` | 2 devices, 1 entry, 1 field, 2 values, 4 operations, walls 0..1, counter always 0 | the document when clocks are saturated and timestamps collide, and an entry that is written, removed and added again |
| `pairing` | 3 new-device sessions, 2 sources, 1 device key, 2 accounts, one device's codes clear and the others colliding | a device joins through the source that scanned its own request, although comparisons succeed that should not; a confirmed source has met the device compared where codes differ; a confirmed pairing completes unless a restart takes its state |
| `logins` | 2 users, 2 passwords, 2 registrations, 2 logins, 2 answers, 2 server secrets, users and passwords symmetric | both sides of a session agree on key and user; a login needs a password the account had while it was under way |
| `logins_live` | the same with 1 user | a login answered from a registration of its own password completes on both sides |
| `custody` | 3 devices of 2 accounts, 2 passwords, 2 registrations, 2 recovery codes, 2 sealed things, 2 entry identifiers, symmetric | refinement of `VaultAccess` while wraps, blobs and kits are replaced; entries open as written, for their own identifier and account |

The bounds are as small as the cases allow. A hole in a prefix needs two dots of
one device, a dot beyond a filled hole three; four counters let a run of several
dots be absorbed. A superseded dot needs two adds, its loss a remove, and a
third device sees the parts in different orders: four operations on three
devices. Elements do not interact in `add`, `remove` and `merge` except through
the context, so one entry is enough where four operations are allowed, and two
entries share a context in `presence_live`. A counter of one bit makes the carry
of `inc` happen on the second tick; four walls leave room for it below
saturation. An entry that is added, written, removed and added again takes four
operations, and timestamps collide only between writes of one device, so
`vault_saturated` has four operations and two devices; three replicas that
reorder deltas are in `presence`, and `VaultConverges` is for any number.
`MaxOps`, `MaxEvents` and `LastWall` cap what the code does not, and appear as
guards only. Pairing needs no bound: a call is used once. Two sources give a
device a hello that is not for it, a third new session the stale QR of one
device beside another device. The codes of one device tell every key apart and
all the others collide (`Partly`), so the one run shows both what the comparison
gives and what holds without it. Two registrations and two logins are a change
of password under a login, or an answer that reaches the wrong run; two answers
are a request delivered twice. In `custody` two sealed things are an old and a
new blob, a kit and the one that replaces it, or one kit beside another
account's (a code counts although its kit was dropped); two devices of one
account and one of another are a pairing and a stranger.

`CHECK_DEADLOCK FALSE` is set where a bound ends the behaviour: a replicated
vault may rest when nobody edits it and everything is delivered, and pairing and
logins are over when every call has been made.

*Fairness.* `presence_live` assumes weak fairness of `Deliver(d)`, that is, a
device that has deltas left to take in takes one in. It is the at-least-once
delivery of `model/mod.rs:30`; no order is assumed, and edits,
removals and snapshots are never obliged to happen. `pairing` assumes weak
fairness of `Seal` and `Open`: the source's application seals once its user has
confirmed, and the relay brings every blob to the sessions that wait. Nobody is
obliged to start, scan, answer or confirm. `logins_live` assumes weak fairness of
`FinishClient` and `FinishServer`: a client that has an answer it can open calls
`client_login_finish`, and a server that has the finalization of a login it waits
for calls `server_login_finish`. Nobody is obliged to register, to log in or to
answer.

### What the runs found

`AddWinsSet::remove` returns the dots that hold the element now. An add that
replaced an older one is in between: its delta names the older dot as
superseded, the remove's delta does not. A replica that merges the first add and
the remove, and not yet the second add, shows the entry although everything it
knows of happened before the remove and no add is concurrent with it. The
comment of `remove` (`awset.rs:96`) and the paragraph on unordered delivery
(`model/mod.rs:30`) promise more. Convergence is untouched: when the second add
arrives the entry goes. `causal_log` shows that delivery in causal order is all
that is missing.

## Proofs

All theorems hold for every set of devices, entries, users and sessions, every
width and every bound. They assume of the constants only what the modules state:
`MaxDot` is positive, bounds are naturals, devices and values are numbers
(`LwwRegister`: the code compares their bytes), and the dummies (`Unwritten`,
`NoFile`, `NoText`) are not values: `NoText`, the result of an opening that
fails, is no key, no wrapped key and no text of an entry.

`CrdtProofs` has the facts about the operators of contexts, sets and clocks.
`compact` keeps the set of dots and gives the normal form, a context in normal
form is determined by its dots (`CanonicalUnique`), and `merge` of contexts
gives a typed context in normal form that has observed exactly what either side
has, idempotent, commutative and associative (`MergeContextIsJoin`). `ContextOf`
is what inserting its dots gives, whichever comes last (`ContextOfIsFold`). On
well-formed sets, those whose live dots are in the context, `merge` is a join
(`MergeSetIsJoin`) and a local `add` or `remove` is the merge of its own delta
(`AddIsMergeOfDelta`, `RemoveIsMergeOfDelta`). The second pair is what "ship the
deltas, do not recompute them" rests on.

`ContextExchangeProofs` proves `ContextsTyped`, `ContextsCanonical`,
`EqualityIsObservation` and the refinement `ContextImplementsDotSet`. The
inductive invariant is type correctness and normal form together: compaction
gives the normal form of a typed context only.

`PresenceSyncProofs` proves `PresenceTyped`, `ReplicaIsJoinOfSeen`,
`ReplicasConverge`, `DotsAreUnique` and `NothingResurrects`. Convergence is not
inductive: two replicas may be about to diverge for reasons equality does not
show. The invariant says instead what each replica *is*, the join of the deltas
in `seen[d]`, in normal form; equality follows, since equal sets have equal joins
and normal forms are unique. Dots are unique because the device's own adds are
always in its own context, which the invariant states too.

What relates replicas to histories needs a second invariant, `HInv`: pasts are
closed and in the log, a delta names only dots of its own or of its past, and the
dots of a device in the log are its first ones. `CompleteHasNoCloud` is the last
part. For `AddsWin`, of the adds no remove knew of take one with the largest past:
an operation that dropped its dot would be an add with a larger past that no
remove knew of either. Over the causal log `CInv` adds that what a replica took in
is closed under the past, and that a dot a remove knew of was dropped by that
remove or by something it knew of; hence `RemovesWork`. The two together say that
what a device shows is what `OrSet` reads off the history, and
`CausalImplementsOrSet` is the refinement, step by step.

Of clocks, `CrdtProofs` reduces the four cases of `update` to one rule
(`UpdateIsNextLocal`: the local event that follows the later of the two values)
and derives `UpdateFacts` from it. `ClockExchangeProofs` proves `ClocksTyped`,
`DriftIsBounded` and `ClocksGrow`, whose invariant is that a clock is not behind
anything its device has heard.

`PairingProofs` proves `PairingTyped`, `JoinsAreOwn` and `ConfirmationsAreMeetings`
for any number of sessions and any `Sas`. What a device may join is decided
rounds earlier, so the invariant says of every session and every blob from which
request and which hello its key was derived, and that a device has one session
at a time and none once it has joined; opening then compares two derivations,
which are equal only if request and hello are.

`VaultSyncProofs` is the same for the whole document, where a delta may carry a
register that is not the write just made: `set_field` may lose, and ships what
beat it. `merge` is idempotent, commutative and associative for registers and for
documents (`MergeRegisterIsJoin`, `MergeDocIsJoin`), equal timestamps included.
Adding, removing and setting are the merge of the delta they return
(`AddEntryIsMergeOfDelta`, `RemoveEntryIsMergeOfDelta`, `SetFieldIsMergeOfDelta`).
The invariant has three parts: types; `GoodLog`, that deltas are well-formed, share
no identity and no dot, and ship a register the attempt does not beat;
and `Replicas`, that each document is the join of the deltas taken in.
`VaultTyped`, `VaultConverges`, `RegistersLargest`, `ReAddShowsLargest` and
`RegistersOnlyGrow` follow, in and out of the clock's domain. Inside it
(`InDomain`), `ClockInv` says that stamps in the log are below saturation, that a
clock covers the registers of its document, and that stamps grow along the past
and are distinct: `ClockCovers`, `StampsCausal`, `StampsDistinct`,
`LocalWritesWin`. A write is above everything its device took in although the
stamp of a losing write is in no register, because what beat it is larger still.

`OpaqueProofs` proves `LoginsTyped`, `SessionsMutual` and `LoginsHadPassword`. A
login is finished once and then waits no more; and the file in an answer was the
account's when the answer was made, so it is offered to every login under way
whose password opens it. A file that replaces it later is offered too, which is
why the invariant speaks of all the files offered and not of the current one.

`KeyCustodyProofs` proves `CustodyTyped`, `EntriesOpenForTheirVault` and the
refinement `CustodyImplementsAccess`, for any accounts and devices. Its first
lemmas say what opens what: derived keys differ when any of their inputs do. A
step may use an old ciphertext or another account's, so the invariant says of
all there is whose it is: a device holds and keeps the key of its own account
only, a blob holds a wrap of the account whose registration it was sealed for, a
kit is of a code its account noted, an entry is sealed under its account's key.
That nothing crosses accounts rests on numbering: no two registrations share an
export key and no two accounts a code. Then what the openings say (`Reads`) is
what was made and not dropped, and each action is an action of `VaultAccess` or,
for `Register` and `WriteEntry`, a stutter.

All the invariants, action properties and refinements of the passing runs are
proved. Only model-checked is liveness (`EventuallyConverged`,
`ConfirmedComplete`, `LoginCompletes`), which is out of the prover's reach. So is
induction over data, which is why the loops of the code are modelled by where they
stop and not by recursion.

## Not modelled

- `device_key.rs`: generating a key pair, signing and verifying are stateless; the
  challenges and the registry of devices are the server's, which is elsewhere.
- What a device restores: the crate has no storage. A device that came back under
  the same `DeviceId` with an older copy of its document would use a dot again
  (`dot.rs:56`); nothing in the crate could prevent it, so it is listed as a
  hazard and no property is about it.
- What a lost pairing state or an unusable password file costs: a restart after the
  comparison leaves a confirmed pairing that nothing in the crate can complete
  (`ConfirmedComplete` is about the pairings whose state is kept), and a file made
  from an answer to another run is noticed at the next login only. Both happen in
  the models and are listed as hazards no property is about.
- `u64::MAX` dots of one device: the `+ 1` of `next_dot` is unchecked, and
  `CanMint` keeps the models below it.
- The cryptographic primitives and their parameters, encoding (`codec.rs`), error
  texts (`error.rs`), the crate root and the build: no state of their own.
- Randomness (`EntryId::generate`, `DeviceId::generate`, nonces) is taken as fresh,
  and `AddWinsSet::len`, `is_empty` and the iterators read what `Present` reads.
- The document with ciphertexts for values: `VaultSync` compares values as the code
  does, and an entry's ciphertext is a value like another; what opens it is
  `KeyCustody`'s.

What is left to do: the devices of `KeyCustody` taking their export keys from
`Opaque` instead of `HasExport`.
