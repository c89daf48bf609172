----------------------------- MODULE KeyCustody -----------------------------
(***************************************************************************)
(* The callers of the key hierarchy of src/crypto: devices of several      *)
(* accounts that wrap, keep, publish and recover vault keys and encrypt    *)
(* entries, while accounts are registered again under another password or  *)
(* the same and devices are locked or restarted in between.                *)
(*                                                                         *)
(* The crate prescribes no order: a device may make any call it has the    *)
(* keys for.  It stores nothing either: wraps, blobs and kits are replaced *)
(* one at a time, the new one stored before the old one is dropped or      *)
(* after, and until it is dropped the server may hand out any of them, old *)
(* or another account's.  A call that returns an error changes nothing and *)
(* is no step.                                                             *)
(*                                                                         *)
(* OPAQUE is what Opaque shows of it: a login gives the export key of the  *)
(* registration that was current, and no other.  A device may use it long  *)
(* after the account was registered again, so it has that of any of them.  *)
(* The vault key of an account is named by the account.                    *)
(***************************************************************************)
EXTENDS KeyHierarchy, Naturals, FiniteSets

CONSTANTS
  Account, Device,
  Owner,             (* Owner[d]: the account of device d                  *)
  Password, EntryId,
  Text,              (* the contents of entries                            *)
  Code,              (* the recovery codes that may be drawn               *)
  MaxRegistration,   (* the bounds on registrations                        *)
  MaxSealed          (* and on codes drawn, blobs and entries together     *)

Registration == 1 .. MaxRegistration   \* each has an export key of its own
WrappedKey   == {WrapVaultKey(k, MasterKey(p, a)) : k \in VaultKey, p \in Password, a \in Account}

ASSUME OwnerAssumption    == Owner \in [Device -> Account]
ASSUME VaultKeyAssumption == VaultKey = Account
ASSUME TextAssumption     == NoText \notin Account \cup Text \cup WrappedKey
ASSUME BoundsAssumption   == MaxRegistration \in Nat /\ MaxSealed \in Nat

VARIABLES
  created,        (* the accounts whose vault key was drawn                *)
  registrations,  (* the registrations made, with account and password     *)
  key,            (* key[d]: the vault key d holds in memory               *)
  local,          (* local[d]: the wrapped keys d keeps                    *)
  blobs, kits,    (* the server's blobs and recovery kits                  *)
  noted,          (* noted[a]: the codes users of a have noted             *)
  entries         (* the encrypted entries, with who sealed what           *)

secrets == <<created, registrations>>
wraps   == <<local, blobs, kits, noted>>
vars    == <<secrets, key, wraps, entries>>

Init ==
  /\ created = {} /\ registrations = {}
  /\ key    = [d \in Device |-> NoText]
  /\ local  = [d \in Device |-> {}]
  /\ blobs = {} /\ kits = {} /\ entries = {}
  /\ noted  = [a \in Account |-> {}]

-----------------------------------------------------------------------------

Kek(d, p) == MasterKey(p, Owner[d])   \* an account has one salt

Drawn    == UNION {noted[a] : a \in Account}
MaySeal  == Cardinality(blobs) + Cardinality(Drawn) + Cardinality(entries) < MaxSealed
Holds(d) == key[d] # NoText

GenerateVaultKey(d) ==
  /\ Owner[d] \notin created
  /\ created' = created \cup {Owner[d]}
  /\ key'     = [key EXCEPT ![d] = Owner[d]]
  /\ UNCHANGED <<registrations, wraps, entries>>

\* The registration of an account, for the first time or again, with the
\* export key that comes of it.
Register(d, p) ==
  LET r == [id |-> Cardinality(registrations) + 1, account |-> Owner[d], password |-> p]
  IN  /\ r.id \in Registration
      /\ registrations' = registrations \cup {r}
      /\ UNCHANGED <<created, key, wraps, entries>>

HasExport(d, r) == r \in registrations /\ r.account = Owner[d]

Wrap(d, p) ==
  /\ Holds(d)
  /\ local' = [local EXCEPT ![d] = @ \cup {WrapVaultKey(key[d], Kek(d, p))}]
  /\ UNCHANGED <<secrets, key, blobs, kits, noted, entries>>

\* A slip: the vault key is sealed and not its wrap.
PublishKey(d, r, w) ==
  /\ MaySeal /\ Holds(d) /\ HasExport(d, r)
  /\ blobs' = blobs \cup {SealWithExportKey(r.id, key[d])}
  /\ UNCHANGED <<secrets, key, local, kits, noted, entries>>

PublishBlob(d, r, w) ==
  /\ MaySeal /\ HasExport(d, r)
  /\ blobs' = blobs \cup {SealWithExportKey(r.id, w)}
  /\ UNCHANGED <<secrets, key, local, kits, noted, entries>>

FetchBlob(d, r, blob) ==
  LET w == OpenWithExportKey(r.id, blob)
  IN  /\ HasExport(d, r) /\ w # NoText
      /\ local' = [local EXCEPT ![d] = @ \cup {w}]
      /\ UNCHANGED <<secrets, key, blobs, kits, noted, entries>>

TakeKey(d, k) ==
  /\ k # NoText
  /\ key' = [key EXCEPT ![d] = k]
  /\ UNCHANGED <<secrets, wraps, entries>>

Unlock(d, p, w) == TakeKey(d, Unwrap(w, Kek(d, p)))

\* The code is drawn at random: it has not been drawn before.
CreateRecoveryKit(d, code) ==
  /\ MaySeal /\ Holds(d)
  /\ code \notin Drawn
  /\ noted' = [noted EXCEPT ![Owner[d]] = @ \cup {code}]
  /\ kits'  = kits \cup {RecoveryKit(key[d], code)}
  /\ UNCHANGED <<secrets, key, local, blobs, entries>>

RecoverVaultKey(d, code, kit) == TakeKey(d, Recover(code, kit))

\* A pairing that completed: the new device is of the account of the source.
Pair(d, e) == Owner[e] = Owner[d] /\ TakeKey(e, key[d])

\* Storage drops a wrap, a blob or a kit, replaced or about to be.
DropWrap(d, w) ==
  /\ local' = [local EXCEPT ![d] = @ \ {w}]
  /\ UNCHANGED <<secrets, key, blobs, kits, noted, entries>>

DropBlob(blob) ==
  /\ blobs' = blobs \ {blob}
  /\ UNCHANGED <<secrets, key, local, kits, noted, entries>>

DropKit(kit) ==
  /\ kits' = kits \ {kit}
  /\ UNCHANGED <<secrets, key, local, blobs, noted, entries>>

\* The key in memory is erased, by a lock or a restart.
Lock(d) ==
  /\ key' = [key EXCEPT ![d] = NoText]
  /\ UNCHANGED <<secrets, wraps, entries>>

\* Reading an entry changes nothing: EntriesOpenAsWritten says what it gives.
WriteEntry(d, id, text) ==
  /\ MaySeal /\ Holds(d)
  /\ entries' = entries \cup {[account |-> Owner[d], id |-> id, text |-> text,
                               sealed |-> EncryptEntry(key[d], id, text)]}
  /\ UNCHANGED <<secrets, key, wraps>>

Wrapping(d) ==
  \/ \E p \in Password : Register(d, p) \/ Wrap(d, p)
  \/ \E r \in registrations, w \in local[d] : PublishBlob(d, r, w)
  \/ \E r \in registrations, blob \in blobs : FetchBlob(d, r, blob)
  \/ \E code \in Code : CreateRecoveryKit(d, code)

Dropping ==
  \/ \E d \in Device : \E w \in local[d] : DropWrap(d, w)
  \/ \E blob \in blobs : DropBlob(blob)
  \/ \E kit \in kits : DropKit(kit)

Holding(d) ==
  \/ GenerateVaultKey(d)
  \/ \E p \in Password, w \in local[d] : Unlock(d, p, w)
  \/ \E code \in noted[Owner[d]], kit \in kits : RecoverVaultKey(d, code, kit)
  \/ \E e \in Device : Pair(d, e)
  \/ Lock(d)

Write(d) == \E id \in EntryId, text \in Text : WriteEntry(d, id, text)

Next ==
  \/ \E d \in Device : Wrapping(d) \/ Holding(d) \/ Write(d)
  \/ Dropping

Spec == Init /\ [][Next]_vars

-----------------------------------------------------------------------------

\* Keys and ciphertexts have their shapes: a device keeps and publishes a
\* vault key only wrapped.
TypeOK ==
  /\ created \subseteq Account
  /\ registrations \subseteq [id : Registration, account : Account, password : Password]
  /\ key    \in [Device -> VaultKey \cup {NoText}]
  /\ local  \in [Device -> SUBSET WrappedKey]
  /\ blobs  \subseteq {SealWithExportKey(r, w) : r \in Registration, w \in WrappedKey}
  /\ kits   \subseteq {RecoveryKit(k, code) : k \in VaultKey, code \in Code}
  /\ noted  \in [Account -> SUBSET Code]

\* The accounts in whose vaults d is, and the ways in, read off the ciphertexts.
InsideOf(d)   == {a \in Account : key[d] = a}
KeptBy(d)     == {p \in Password : \E w \in local[d] : Unwrap(w, Kek(d, p)) # NoText}
RecoveryOf(a) == {code \in noted[a] : \E kit \in kits : Recover(code, kit) # NoText}
Published ==
  {x \in Account \X Registration \X Password :
     \E blob \in blobs :
       LET w == OpenWithExportKey(x[2], blob)
       IN  w # NoText /\ Unwrap(w, MasterKey(x[3], x[1])) # NoText}

Access == INSTANCE VaultAccess WITH
  inside    <- [d \in Device |-> InsideOf(d)],
  kept      <- [d \in Device |-> KeptBy(d)],
  published <- Published,
  recovery  <- [a \in Account |-> RecoveryOf(a)]

(***************************************************************************)
(* Each way in is a wrap of its own (vault_key.rs:26, recovery.rs:62,      *)
(* server_blob.rs:36): whatever wraps were made under passwords since      *)
(* changed, and whatever old or foreign blob the server hands out, what a  *)
(* device holds and what gets it in change as VaultAccess says; replacing  *)
(* one wrap, at any moment, takes away that way in and no other.           *)
(***************************************************************************)
ImplementsAccess == Access!Spec

(***************************************************************************)
(* "Deux entrees ont des cles independantes" (entry.rs:21), for devices    *)
(* that got the key in different ways: whoever is in the vault reads every *)
(* entry of it as it was written, and nothing opens as another entry or    *)
(* for another account.                                                    *)
(***************************************************************************)
EntriesOpenAsWritten ==
  \A d \in Device, id \in EntryId : \A e \in entries :
    Holds(d) =>
      DecryptEntry(key[d], id, e.sealed) =
        IF e.account = Owner[d] /\ e.id = id THEN e.text ELSE NoText

=============================================================================
