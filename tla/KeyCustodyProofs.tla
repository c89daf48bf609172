-------------------------- MODULE KeyCustodyProofs --------------------------
(***************************************************************************)
(* The properties of KeyCustody, for any accounts, devices, passwords,     *)
(* entries and any number of registrations, wraps, blobs, kits and writes. *)
(***************************************************************************)
EXTENDS KeyCustody, FiniteSetTheorems, TLAPS

-----------------------------------------------------------------------------
(* What opens what.                                                        *)

\* A text opens with the key it was sealed under and with no other.
LEMMA OpenSealed ==
  ASSUME NEW k1, NEW k2, NEW text
  PROVE  Open(k1, Seal(k2, text)) = IF k1 = k2 THEN text ELSE NoText
  BY DEF Open, Seal

\* Keys derived from different secrets, or for different entries, differ.
LEMMA DerivedKeysDiffer ==
  ASSUME NEW x, NEW y, NEW u, NEW v
  PROVE  /\ MasterKey(x, u) = MasterKey(y, v) <=> x = y /\ u = v
         /\ EntrySubkey(x, u) = EntrySubkey(y, v) <=> x = y /\ u = v
         /\ BlobKey(x) = BlobKey(y) <=> x = y
         /\ RecoveryKey(x) = RecoveryKey(y) <=> x = y
  BY DEF MasterKey, EntrySubkey, BlobKey, RecoveryKey

LEMMA SealsDiffer ==
  ASSUME NEW k1, NEW k2, NEW t1, NEW t2, Seal(k1, t1) = Seal(k2, t2)
  PROVE  k1 = k2 /\ t1 = t2
  BY DEF Seal

\* A kit is of one key and one code.
LEMMA KitsDiffer ==
  ASSUME NEW a, NEW b, NEW c1, NEW c2
  PROVE  RecoveryKit(a, c1) = RecoveryKit(b, c2) <=> a = b /\ c1 = c2
  BY SealsDiffer, DerivedKeysDiffer DEF RecoveryKit

\* A wrapped vault key opens with the password and salt it was wrapped under.
LEMMA UnwrapWrapped ==
  ASSUME NEW a \in Account, NEW p, NEW q, NEW u, NEW v
  PROVE  Unwrap(WrapVaultKey(a, MasterKey(p, u)), MasterKey(q, v))
           = IF p = q /\ u = v THEN a ELSE NoText
<1>1. Open(MasterKey(q, v), WrapVaultKey(a, MasterKey(p, u))) = IF p = q /\ u = v THEN a ELSE NoText
  BY OpenSealed, DerivedKeysDiffer DEF WrapVaultKey
<1> QED
  BY <1>1, VaultKeyAssumption, TextAssumption DEF Unwrap

\* A recovery kit opens with the code it was made for.
LEMMA RecoverKit ==
  ASSUME NEW a \in Account, NEW code1, NEW code2
  PROVE  Recover(code1, RecoveryKit(a, code2)) = IF code1 = code2 THEN a ELSE NoText
<1>1. Open(RecoveryKey(code1), RecoveryKit(a, code2)) = IF code1 = code2 THEN a ELSE NoText
  BY OpenSealed, DerivedKeysDiffer DEF RecoveryKit
<1> QED
  BY <1>1, VaultKeyAssumption, TextAssumption DEF Recover, Unwrap

\* A blob opens with the export key of the registration it was sealed for.
LEMMA OpenBlob ==
  ASSUME NEW r1, NEW r2, NEW w
  PROVE  OpenWithExportKey(r1, SealWithExportKey(r2, w)) = IF r1 = r2 THEN w ELSE NoText
  BY OpenSealed, DerivedKeysDiffer DEF OpenWithExportKey, SealWithExportKey

-----------------------------------------------------------------------------
(* The invariant: whatever has been made, of whom it is.                   *)

Wrapped(a, p) == WrapVaultKey(a, MasterKey(p, a))

\* A device holds and keeps the key of its own account only.
KeysAreOwn  == \A d \in Device : Holds(d) => key[d] = Owner[d]
WrapsAreOwn == \A d \in Device : \A w \in local[d] : \E p \in Password : w = Wrapped(Owner[d], p)

\* A blob holds a wrap of the account whose registration it was sealed for.
BlobsAreOwn ==
  \A blob \in blobs : \E r \in registrations, p \in Password :
    blob = SealWithExportKey(r.id, Wrapped(r.account, p))

\* Registrations are numbered: an export key belongs to one account.
RegistrationsNumbered ==
  /\ \A r \in registrations : r.id <= Cardinality(registrations)
  /\ \A r, s \in registrations : r.id = s.id => r = s

\* A kit is of a code noted for its account, and a code of one account.
KitsAreOwn ==
  /\ \A kit \in kits : \E a \in Account : \E code \in noted[a] : kit = RecoveryKit(a, code)
  /\ \A a, b \in Account : a # b => noted[a] \cap noted[b] = {}

EntriesAreOwn ==
  \A e \in entries : e.sealed = EncryptEntry(e.account, e.id, e.text)

Finite == IsFiniteSet(registrations)

IInv ==
  /\ TypeOK /\ Finite /\ KeysAreOwn /\ WrapsAreOwn /\ BlobsAreOwn
  /\ RegistrationsNumbered /\ KitsAreOwn /\ EntriesAreOwn

\* The invariant in the terms its uses need.
LEMMA OwnerOf ==
  ASSUME IInv, NEW d \in Device
  PROVE  /\ Owner[d] \in Account
         /\ key[d] = NoText \/ key[d] = Owner[d]
         /\ Owner[d] # NoText
  BY OwnerAssumption, TextAssumption DEF IInv, KeysAreOwn, Holds

\* A wrapped key a device keeps opens with the password it was made for.
LEMMA KeptOpens ==
  ASSUME IInv, NEW d \in Device, NEW w \in local[d], NEW p
  PROVE  Unwrap(w, Kek(d, p)) = IF w = Wrapped(Owner[d], p) THEN Owner[d] ELSE NoText
<1>1. PICK q \in Password : w = Wrapped(Owner[d], q)
  BY DEF IInv, WrapsAreOwn
<1>2. Owner[d] \in Account
  BY OwnerOf
<1>3. w = Wrapped(Owner[d], p) <=> p = q
  BY <1>1, SealsDiffer, DerivedKeysDiffer DEF Wrapped, WrapVaultKey
<1> QED
  BY <1>1, <1>2, <1>3, UnwrapWrapped DEF Wrapped, Kek

\* What a device finds in a blob with the export key of its own registration
\* is a wrap of its own account.
LEMMA FetchedIsOwn ==
  ASSUME IInv, NEW d \in Device, NEW r \in registrations, r.account = Owner[d],
         NEW blob \in blobs, OpenWithExportKey(r.id, blob) # NoText
  PROVE  \E p \in Password :
           /\ OpenWithExportKey(r.id, blob) = Wrapped(Owner[d], p)
           /\ blob = SealWithExportKey(r.id, Wrapped(Owner[d], p))
<1>1. PICK s \in registrations, p \in Password : blob = SealWithExportKey(s.id, Wrapped(s.account, p))
  BY DEF IInv, BlobsAreOwn
<1>2. s.id = r.id
  BY <1>1, OpenBlob
<1>3. s = r
  BY <1>2 DEF IInv, RegistrationsNumbered
<1> QED
  BY <1>1, <1>3, OpenBlob

\* A code an account's user noted recovers the key of the account from the
\* kit made with it, and nothing from any other.
LEMMA RecoveredBy ==
  ASSUME IInv, NEW a \in Account, NEW code \in noted[a], NEW kit \in kits
  PROVE  /\ Recover(code, kit) = IF kit = RecoveryKit(a, code) THEN a ELSE NoText
         /\ Recover(code, kit) # NoText <=> kit = RecoveryKit(a, code)
<1>1. PICK b \in Account : \E c \in noted[b] : kit = RecoveryKit(b, c)
  BY DEF IInv, KitsAreOwn
<1>2. PICK c \in noted[b] : kit = RecoveryKit(b, c)
  BY <1>1
<1>3. Recover(code, kit) = IF code = c THEN b ELSE NoText
  BY <1>2, RecoverKit
<1>4. code = c => a = b
  BY <1>2 DEF IInv, KitsAreOwn
<1>5. kit = RecoveryKit(a, code) <=> a = b /\ code = c
  BY <1>2, KitsDiffer
<1> QED
  BY <1>3, <1>4, <1>5, TextAssumption

-----------------------------------------------------------------------------

LEMMA InitIInv == Init => IInv
<1> SUFFICES ASSUME Init PROVE IInv
  OBVIOUS
<1>1. TypeOK
  BY DEF Init, TypeOK
<1>2. Finite
  BY FS_EmptySet DEF Init, Finite
<1> QED
  BY <1>1, <1>2 DEF Init, IInv, KeysAreOwn, Holds, WrapsAreOwn, BlobsAreOwn,
                    RegistrationsNumbered, KitsAreOwn, EntriesAreOwn

\* Taking a key that is of the device's own account changes nothing else.
LEMMA TakeKeyKeeps ==
  ASSUME IInv, NEW d \in Device, TakeKey(d, Owner[d])
  PROVE  IInv'
<1>1. key' = [key EXCEPT ![d] = Owner[d]] /\ UNCHANGED <<created, registrations, wraps, entries>>
  BY DEF TakeKey, secrets
<1>2. TypeOK'
  BY <1>1, OwnerOf, VaultKeyAssumption DEF IInv, TypeOK, wraps
<1>3. KeysAreOwn'
  BY <1>1 DEF IInv, TypeOK, KeysAreOwn, Holds
<1> QED
  BY <1>1, <1>2, <1>3 DEF IInv, wraps, Finite, WrapsAreOwn, BlobsAreOwn,
                          RegistrationsNumbered, KitsAreOwn, EntriesAreOwn

LEMMA GenerateKeeps ==
  ASSUME IInv, NEW d \in Device, GenerateVaultKey(d)
  PROVE  IInv'
<1>1. /\ created' = created \cup {Owner[d]}
      /\ key' = [key EXCEPT ![d] = Owner[d]]
      /\ UNCHANGED <<registrations, local, blobs, kits, noted, entries>>
  BY DEF GenerateVaultKey, wraps
<1>2. TypeOK'
  BY <1>1, OwnerOf, VaultKeyAssumption DEF IInv, TypeOK
<1>3. KeysAreOwn'
  BY <1>1 DEF IInv, TypeOK, KeysAreOwn, Holds
<1> QED
  BY <1>1, <1>2, <1>3 DEF IInv, Finite, WrapsAreOwn, BlobsAreOwn,
                          RegistrationsNumbered, KitsAreOwn, EntriesAreOwn

LEMMA LockKeeps ==
  ASSUME IInv, NEW d \in Device, Lock(d)
  PROVE  IInv'
<1>1. key' = [key EXCEPT ![d] = NoText] /\ UNCHANGED <<created, registrations, local, blobs, kits, noted, entries>>
  BY DEF Lock, secrets, wraps
<1>2. TypeOK'
  BY <1>1 DEF IInv, TypeOK
<1>3. KeysAreOwn'
  BY <1>1 DEF IInv, TypeOK, KeysAreOwn, Holds
<1> QED
  BY <1>1, <1>2, <1>3 DEF IInv, Finite, WrapsAreOwn, BlobsAreOwn,
                          RegistrationsNumbered, KitsAreOwn, EntriesAreOwn

LEMMA RegisterKeeps ==
  ASSUME IInv, NEW d \in Device, NEW p \in Password, Register(d, p)
  PROVE  IInv'
<1> DEFINE r == [id |-> Cardinality(registrations) + 1, account |-> Owner[d], password |-> p]
<1>1. /\ r.id \in Registration /\ registrations' = registrations \cup {r}
      /\ UNCHANGED <<created, key, local, blobs, kits, noted, entries>>
  BY DEF Register, wraps
<1>2. Cardinality(registrations) \in Nat
  BY FS_CardinalityType DEF IInv, Finite
<1>3. r \notin registrations
  <2>1. r.id = Cardinality(registrations) + 1
    OBVIOUS
  <2> HIDE DEF r
  <2> QED
    BY <1>2, <2>1 DEF IInv, RegistrationsNumbered
<1>4. IsFiniteSet(registrations') /\ Cardinality(registrations') = Cardinality(registrations) + 1
  BY <1>1, <1>3, FS_AddElement DEF IInv, Finite
<1>5. r \in [id : Registration, account : Account, password : Password]
  BY <1>1, OwnerOf
<1>6. r.id = Cardinality(registrations) + 1
  OBVIOUS
<1> HIDE DEF r
<1>7. TypeOK'
  BY <1>1, <1>5 DEF IInv, TypeOK
<1>8. RegistrationsNumbered'
  <2>1. \A s \in registrations : s.id \in Int /\ s.id <= Cardinality(registrations)
    BY DEF IInv, TypeOK, Registration, RegistrationsNumbered
  <2>2. \A s \in registrations' : s.id <= Cardinality(registrations')
    BY <1>1, <1>2, <1>4, <1>6, <2>1
  <2>3. \A s, t \in registrations' : s.id = t.id => s = t
    BY <1>1, <1>2, <1>6, <2>1 DEF IInv, RegistrationsNumbered
  <2> QED
    BY <2>2, <2>3 DEF RegistrationsNumbered
<1>9. BlobsAreOwn'
  BY <1>1 DEF IInv, BlobsAreOwn
<1> QED
  BY <1>1, <1>4, <1>7, <1>8, <1>9
  DEF IInv, Finite, KeysAreOwn, Holds, WrapsAreOwn, KitsAreOwn, EntriesAreOwn

\* A device that keeps one more wrap of its own account.
LEMMA KeepKeeps ==
  ASSUME IInv, NEW d \in Device, NEW p \in Password,
         local' = [local EXCEPT ![d] = @ \cup {Wrapped(Owner[d], p)}],
         UNCHANGED <<created, registrations, key, blobs, kits, noted, entries>>
  PROVE  IInv'
<1>1. Wrapped(Owner[d], p) \in WrappedKey
  BY OwnerOf, VaultKeyAssumption DEF Wrapped, WrappedKey
<1> HIDE DEF Wrapped
<1>2. TypeOK'
  BY <1>1 DEF IInv, TypeOK
<1>3. WrapsAreOwn'
  BY DEF IInv, TypeOK, WrapsAreOwn
<1> QED
  BY <1>2, <1>3 DEF IInv, Finite, KeysAreOwn, Holds, BlobsAreOwn,
                    RegistrationsNumbered, KitsAreOwn, EntriesAreOwn

LEMMA PublishKeeps ==
  ASSUME IInv, NEW d \in Device, NEW r \in registrations, NEW w \in local[d], PublishBlob(d, r, w)
  PROVE  IInv'
<1>1. /\ r.account = Owner[d]
      /\ blobs' = blobs \cup {SealWithExportKey(r.id, w)}
      /\ UNCHANGED <<created, registrations, key, local, kits, noted, entries>>
  BY DEF PublishBlob, HasExport, secrets
<1>2. PICK p \in Password : w = Wrapped(Owner[d], p)
  BY DEF IInv, WrapsAreOwn
<1>3. TypeOK'
  <2>1. w \in WrappedKey /\ r.id \in Registration
    BY DEF IInv, TypeOK
  <2> QED
    BY <1>1, <2>1 DEF IInv, TypeOK
<1>4. BlobsAreOwn'
  BY <1>1, <1>2 DEF IInv, BlobsAreOwn
<1> QED
  BY <1>1, <1>3, <1>4 DEF IInv, Finite, KeysAreOwn, Holds, WrapsAreOwn,
                                RegistrationsNumbered, KitsAreOwn, EntriesAreOwn

LEMMA FetchKeeps ==
  ASSUME IInv, NEW d \in Device, NEW r \in registrations, NEW blob \in blobs, FetchBlob(d, r, blob)
  PROVE  IInv'
<1> DEFINE w == OpenWithExportKey(r.id, blob)
<1>1. /\ r.account = Owner[d] /\ w # NoText
      /\ local' = [local EXCEPT ![d] = @ \cup {w}]
      /\ UNCHANGED <<created, registrations, key, blobs, kits, noted, entries>>
  BY DEF FetchBlob, HasExport, secrets
<1>2. PICK p \in Password : w = Wrapped(Owner[d], p)
  BY <1>1, FetchedIsOwn
<1> QED
  BY <1>1, <1>2, KeepKeeps

LEMMA CreateKitKeeps ==
  ASSUME IInv, NEW d \in Device, NEW code \in Code, CreateRecoveryKit(d, code)
  PROVE  IInv'
<1> DEFINE own == Owner[d]
<1>1. /\ own \in Account /\ \A a \in Account : code \notin noted[a]
      /\ noted' = [noted EXCEPT ![own] = @ \cup {code}]
      /\ kits' = kits \cup {RecoveryKit(own, code)}
      /\ UNCHANGED <<created, registrations, key, local, blobs, entries>>
  BY OwnerOf DEF CreateRecoveryKit, Drawn, Holds, secrets
<1> HIDE DEF own
<1>2. \A a \in Account : noted'[a] = IF a = own THEN noted[a] \cup {code} ELSE noted[a]
  <2>1. noted \in [Account -> SUBSET Code]
    BY DEF IInv, TypeOK
  <2> QED
    BY <1>1, <2>1
<1>3. TypeOK'
  <2>1. RecoveryKit(own, code) \in {RecoveryKit(k, c) : k \in VaultKey, c \in Code}
    BY <1>1, VaultKeyAssumption
  <2> QED
    BY <1>1, <2>1 DEF IInv, TypeOK
<1>4. KitsAreOwn'
  <2>1. \A kit \in kits : \E a \in Account : \E c \in noted'[a] : kit = RecoveryKit(a, c)
    BY <1>2 DEF IInv, KitsAreOwn
  <2>2. code \in noted'[own]
    BY <1>1, <1>2
  <2>3. \A a, b \in Account : a # b => noted'[a] \cap noted'[b] = {}
    BY <1>1, <1>2 DEF IInv, KitsAreOwn
  <2> QED
    BY <1>1, <2>1, <2>2, <2>3 DEF KitsAreOwn
<1> QED
  BY <1>1, <1>3, <1>4 DEF IInv, Finite, KeysAreOwn, Holds, WrapsAreOwn, BlobsAreOwn,
                          RegistrationsNumbered, EntriesAreOwn

\* What is left when storage drops something is as much its owner's.
LEMMA DroppingKeeps ==
  ASSUME IInv, Dropping
  PROVE  IInv'
<1>1. ASSUME NEW d \in Device, NEW w \in local[d], DropWrap(d, w)
      PROVE  IInv'
  <2>1. /\ local' = [local EXCEPT ![d] = @ \ {w}]
        /\ UNCHANGED <<created, registrations, key, blobs, kits, noted, entries>>
    BY <1>1 DEF DropWrap, secrets
  <2>2. TypeOK' /\ WrapsAreOwn'
    BY <2>1 DEF IInv, TypeOK, WrapsAreOwn
  <2> QED
    BY <2>1, <2>2 DEF IInv, Finite, KeysAreOwn, Holds, BlobsAreOwn,
                      RegistrationsNumbered, KitsAreOwn, EntriesAreOwn
<1>2. ASSUME NEW blob \in blobs, DropBlob(blob)
      PROVE  IInv'
  <2>1. /\ blobs' = blobs \ {blob}
        /\ UNCHANGED <<created, registrations, key, local, kits, noted, entries>>
    BY <1>2 DEF DropBlob, secrets
  <2>2. TypeOK' /\ BlobsAreOwn'
    BY <2>1 DEF IInv, TypeOK, BlobsAreOwn
  <2> QED
    BY <2>1, <2>2 DEF IInv, Finite, KeysAreOwn, Holds, WrapsAreOwn,
                      RegistrationsNumbered, KitsAreOwn, EntriesAreOwn
<1>3. ASSUME NEW kit \in kits, DropKit(kit)
      PROVE  IInv'
  <2>1. /\ kits' = kits \ {kit}
        /\ UNCHANGED <<created, registrations, key, local, blobs, noted, entries>>
    BY <1>3 DEF DropKit, secrets
  <2>2. TypeOK' /\ KitsAreOwn'
    BY <2>1 DEF IInv, TypeOK, KitsAreOwn
  <2> QED
    BY <2>1, <2>2 DEF IInv, Finite, KeysAreOwn, Holds, WrapsAreOwn, BlobsAreOwn,
                      RegistrationsNumbered, EntriesAreOwn
<1> QED
  BY <1>1, <1>2, <1>3 DEF Dropping

LEMMA WriteKeeps ==
  ASSUME IInv, NEW d \in Device, NEW id \in EntryId, NEW text \in Text, WriteEntry(d, id, text)
  PROVE  IInv'
<1> DEFINE e == [account |-> Owner[d], id |-> id, text |-> text,
                 sealed |-> EncryptEntry(Owner[d], id, text)]
<1>1. entries' = entries \cup {e}
      /\ UNCHANGED <<created, registrations, key, local, blobs, kits, noted>>
  BY OwnerOf DEF WriteEntry, Holds, secrets, wraps
<1>2. e.sealed = EncryptEntry(e.account, e.id, e.text)
  OBVIOUS
<1> HIDE DEF e
<1>3. TypeOK' /\ EntriesAreOwn'
  BY <1>1, <1>2 DEF IInv, TypeOK, EntriesAreOwn
<1> QED
  BY <1>1, <1>3 DEF IInv, Finite, KeysAreOwn, Holds, WrapsAreOwn, BlobsAreOwn,
                          RegistrationsNumbered, KitsAreOwn

\* The key a device takes, by whichever way, is that of its own account.
LEMMA TakenIsOwn ==
  ASSUME IInv, NEW d \in Device
  PROVE  /\ \A p \in Password, w \in local[d] :
              Unlock(d, p, w) => TakeKey(d, Owner[d]) /\ w = Wrapped(Owner[d], p)
         /\ \A code \in noted[Owner[d]], kit \in kits :
              RecoverVaultKey(d, code, kit) => TakeKey(d, Owner[d])
         /\ \A e \in Device :
              Pair(d, e) => TakeKey(e, Owner[e]) /\ Owner[e] = Owner[d] /\ Holds(d)
<1>1. \A p \in Password, w \in local[d] :
        Unlock(d, p, w) => TakeKey(d, Owner[d]) /\ w = Wrapped(Owner[d], p)
  BY KeptOpens DEF Unlock, TakeKey
<1>2. \A code \in noted[Owner[d]], kit \in kits : RecoverVaultKey(d, code, kit) => TakeKey(d, Owner[d])
  <2>1. Owner[d] \in Account
    BY OwnerOf
  <2> QED
    BY <2>1, RecoveredBy DEF RecoverVaultKey, TakeKey
<1>3. \A e \in Device : Pair(d, e) => TakeKey(e, Owner[e]) /\ Owner[e] = Owner[d] /\ Holds(d)
  BY OwnerOf DEF Pair, TakeKey, Holds
<1> QED
  BY <1>1, <1>2, <1>3

LEMMA StepIInv == IInv /\ [Next]_vars => IInv'
<1> SUFFICES ASSUME IInv, [Next]_vars PROVE IInv'
  OBVIOUS
<1>1. ASSUME NEW d \in Device, Wrapping(d)
      PROVE  IInv'
  <2>1. ASSUME NEW p \in Password, Wrap(d, p)
        PROVE  IInv'
    <3>1. /\ local' = [local EXCEPT ![d] = @ \cup {Wrapped(Owner[d], p)}]
          /\ UNCHANGED <<created, registrations, key, blobs, kits, noted, entries>>
      BY <2>1, OwnerOf DEF Wrap, Holds, Kek, Wrapped, secrets
    <3> QED
      BY <3>1, KeepKeeps
  <2> QED
    BY <1>1, <2>1, RegisterKeeps, PublishKeeps, FetchKeeps, CreateKitKeeps DEF Wrapping
<1>2. ASSUME NEW d \in Device, Holding(d)
      PROVE  IInv'
  BY <1>2, TakenIsOwn, TakeKeyKeeps, GenerateKeeps, LockKeeps DEF Holding
<1>3. ASSUME NEW d \in Device, Write(d)
      PROVE  IInv'
  BY <1>3, WriteKeeps DEF Write
<1>4. CASE Dropping
  BY <1>4, DroppingKeeps
<1>5. CASE UNCHANGED vars
  BY <1>5 DEF vars, secrets, wraps, IInv, TypeOK, Finite, KeysAreOwn, Holds, WrapsAreOwn,
              BlobsAreOwn, RegistrationsNumbered, KitsAreOwn, EntriesAreOwn
<1> QED
  BY <1>1, <1>2, <1>3, <1>4, <1>5 DEF Next

LEMMA AlwaysIInv == Spec => []IInv
  BY InitIInv, StepIInv, PTL DEF Spec

\* TypeOK for any accounts, devices and passwords: a device keeps and publishes
\* a vault key only wrapped (vault_key.rs:26, server_blob.rs:36).
THEOREM CustodyTyped == Spec => []TypeOK
<1>1. IInv => TypeOK
  BY DEF IInv
<1> QED
  BY <1>1, AlwaysIInv, PTL

(***************************************************************************)
(* EntriesOpenAsWritten (entry.rs:21): whichever way a device got the key  *)
(* it holds, it is its account's, and the subkey of an entry is derived    *)
(* from that key and the identifier alone.                                 *)
(***************************************************************************)
THEOREM EntriesOpenForTheirVault == Spec => []EntriesOpenAsWritten
<1>1. IInv => EntriesOpenAsWritten
  <2> SUFFICES ASSUME IInv, NEW d \in Device, NEW id \in EntryId, NEW e \in entries, Holds(d)
               PROVE  DecryptEntry(key[d], id, e.sealed) =
                        IF e.account = Owner[d] /\ e.id = id THEN e.text ELSE NoText
    BY DEF EntriesOpenAsWritten
  <2>1. key[d] = Owner[d]
    BY OwnerOf DEF Holds
  <2>2. e.sealed = EncryptEntry(e.account, e.id, e.text)
    BY DEF IInv, EntriesAreOwn
  <2> QED
    BY <2>1, <2>2, OpenSealed, DerivedKeysDiffer DEF DecryptEntry, EncryptEntry
<1> QED
  BY <1>1, AlwaysIInv, PTL

-----------------------------------------------------------------------------
(* The refinement of VaultAccess.                                          *)

\* What the ciphertexts say to whoever opens them is what was made.
Reads ==
  /\ \A d \in Device : InsideOf(d) = IF Holds(d) THEN {Owner[d]} ELSE {}
  /\ \A d \in Device : KeptBy(d) = {p \in Password : Wrapped(Owner[d], p) \in local[d]}
  /\ \A a \in Account : RecoveryOf(a) = {code \in noted[a] : RecoveryKit(a, code) \in kits}
  /\ Published = {x \in Account \X Registration \X Password :
                    SealWithExportKey(x[2], Wrapped(x[1], x[3])) \in blobs}

LEMMA WrapsDiffer ==
  ASSUME NEW a, NEW b, NEW p, NEW q
  PROVE  Wrapped(a, p) = Wrapped(b, q) <=> a = b /\ p = q
  BY SealsDiffer, DerivedKeysDiffer DEF Wrapped, WrapVaultKey

LEMMA BlobsDiffer ==
  ASSUME NEW r, NEW s, NEW v, NEW w
  PROVE  SealWithExportKey(r, v) = SealWithExportKey(s, w) <=> r = s /\ v = w
  BY SealsDiffer, DerivedKeysDiffer DEF SealWithExportKey

LEMMA PublishedRead ==
  ASSUME IInv, NEW a \in Account, NEW r \in Registration, NEW p \in Password, NEW blob \in blobs
  PROVE  LET w == OpenWithExportKey(r, blob)
         IN  (w # NoText /\ Unwrap(w, MasterKey(p, a)) # NoText)
               <=> blob = SealWithExportKey(r, Wrapped(a, p))
<1>1. PICK s \in registrations, q \in Password : blob = SealWithExportKey(s.id, Wrapped(s.account, q))
  BY DEF IInv, BlobsAreOwn
<1>2. s.account \in Account
  BY DEF IInv, TypeOK
<1>3. OpenWithExportKey(r, blob) = IF r = s.id THEN Wrapped(s.account, q) ELSE NoText
  BY <1>1, OpenBlob
<1>4. Wrapped(s.account, q) \in WrappedKey
  BY <1>2, VaultKeyAssumption DEF Wrapped, WrappedKey
<1>5. Wrapped(s.account, q) # NoText /\ s.account # NoText
  BY <1>2, <1>4, TextAssumption
<1>6. Unwrap(Wrapped(s.account, q), MasterKey(p, a)) # NoText <=> p = q /\ a = s.account
  BY <1>2, <1>5, UnwrapWrapped DEF Wrapped
<1>7. blob = SealWithExportKey(r, Wrapped(a, p)) <=> r = s.id /\ a = s.account /\ p = q
  BY <1>1, BlobsDiffer, WrapsDiffer
<1> QED
  BY <1>3, <1>5, <1>6, <1>7

LEMMA IInvReads == IInv => Reads
<1> SUFFICES ASSUME IInv PROVE Reads
  OBVIOUS
<1>1. ASSUME NEW d \in Device
      PROVE  InsideOf(d) = IF Holds(d) THEN {Owner[d]} ELSE {}
  BY OwnerOf, TextAssumption DEF InsideOf, Holds
<1>2. ASSUME NEW d \in Device
      PROVE  KeptBy(d) = {p \in Password : Wrapped(Owner[d], p) \in local[d]}
  <2>1. \A p \in Password, w \in local[d] :
          Unwrap(w, Kek(d, p)) # NoText <=> w = Wrapped(Owner[d], p)
    BY OwnerOf, KeptOpens
  <2> QED
    BY <2>1 DEF KeptBy
<1>3. ASSUME NEW a \in Account
      PROVE  RecoveryOf(a) = {code \in noted[a] : RecoveryKit(a, code) \in kits}
  <2>1. ASSUME NEW code \in noted[a], NEW kit \in kits
        PROVE  Recover(code, kit) # NoText <=> kit = RecoveryKit(a, code)
    BY RecoveredBy
  <2> QED
    BY <2>1 DEF RecoveryOf
<1>4. Published = {x \in Account \X Registration \X Password :
                     SealWithExportKey(x[2], Wrapped(x[1], x[3])) \in blobs}
  <2>1. ASSUME NEW x \in Account \X Registration \X Password
        PROVE  (\E blob \in blobs :
                  LET w == OpenWithExportKey(x[2], blob)
                  IN  w # NoText /\ Unwrap(w, MasterKey(x[3], x[1])) # NoText)
                 <=> SealWithExportKey(x[2], Wrapped(x[1], x[3])) \in blobs
    <3>1. x[1] \in Account /\ x[2] \in Registration /\ x[3] \in Password
      OBVIOUS
    <3> QED
      BY <3>1, PublishedRead
  <2> QED
    BY <2>1 DEF Published
<1> QED
  BY <1>1, <1>2, <1>3, <1>4 DEF Reads

\* The state of VaultAccess, as KeyCustody substitutes it.
InsideOfAll   == [d \in Device |-> InsideOf(d)]
KeptByAll     == [d \in Device |-> KeptBy(d)]
RecoveryOfAll == [a \in Account |-> RecoveryOf(a)]

\* A step that leaves what a way in is made of leaves the ways in.
LEMMA WaysKept ==
  /\ UNCHANGED key => UNCHANGED InsideOfAll
  /\ UNCHANGED local => UNCHANGED KeptByAll
  /\ UNCHANGED blobs => UNCHANGED Published
  /\ UNCHANGED <<kits, noted>> => UNCHANGED RecoveryOfAll
  BY DEF InsideOfAll, InsideOf, KeptByAll, KeptBy, Published, RecoveryOfAll, RecoveryOf

LEMMA EnterSimulation ==
  ASSUME IInv, NEW d \in Device, key' = [key EXCEPT ![d] = Owner[d]], UNCHANGED wraps
  PROVE  Access!Enter(d)
<1>1. \A e \in Device : key'[e] = IF e = d THEN Owner[d] ELSE key[e]
  BY DEF IInv, TypeOK
<1>2. \A e \in Device : InsideOf(e)' = {a \in Account : key'[e] = a}
  BY DEF InsideOf
<1>3. {a \in Account : Owner[d] = a} = {Owner[d]}
  BY OwnerOf
<1>4. \A e \in Device : InsideOf(e)' = IF e = d THEN {Owner[d]} ELSE InsideOf(e)
  BY <1>1, <1>2, <1>3 DEF InsideOf
<1>5. InsideOfAll' = [InsideOfAll EXCEPT ![d] = {Owner[d]}]
  BY <1>4 DEF InsideOfAll
<1> QED
  BY <1>5, WaysKept DEF Access!Enter, InsideOfAll, KeptByAll, RecoveryOfAll, wraps

LEMMA LockSimulation ==
  ASSUME IInv, NEW d \in Device, Lock(d)
  PROVE  Access!Leave(d)
<1>1. \A e \in Device : key'[e] = IF e = d THEN NoText ELSE key[e]
  BY DEF Lock, IInv, TypeOK
<1>2. \A e \in Device : InsideOf(e)' = {a \in Account : key'[e] = a}
  BY DEF InsideOf
<1>3. \A e \in Device : InsideOf(e)' = IF e = d THEN {} ELSE InsideOf(e)
  BY <1>1, <1>2, TextAssumption DEF InsideOf
<1>4. InsideOfAll' = [InsideOfAll EXCEPT ![d] = {}]
  BY <1>3 DEF InsideOfAll
<1> QED
  BY <1>4, WaysKept DEF Lock, Access!Leave, InsideOfAll, KeptByAll, RecoveryOfAll, secrets, wraps

\* A device that keeps one more wrap has one more password that gets it in.
LEMMA KeepSimulation ==
  ASSUME IInv, Reads, Reads', NEW d \in Device, NEW p \in Password,
         local' = [local EXCEPT ![d] = @ \cup {Wrapped(Owner[d], p)}]
  PROVE  KeptByAll' = [KeptByAll EXCEPT ![d] = @ \cup {p}]
<1>1. \A e \in Device : local'[e] = IF e = d THEN local[d] \cup {Wrapped(Owner[d], p)} ELSE local[e]
  BY DEF IInv, TypeOK
<1>2. \A e \in Device : KeptBy(e)' = {q \in Password : Wrapped(Owner[e], q) \in local'[e]}
  BY DEF Reads, Wrapped, WrapVaultKey, MasterKey, Seal
<1>3. \A e \in Device : KeptBy(e) = {q \in Password : Wrapped(Owner[e], q) \in local[e]}
  BY DEF Reads
<1>4. \A q \in Password : Wrapped(Owner[d], q) = Wrapped(Owner[d], p) <=> q = p
  BY WrapsDiffer
<1>5. KeptBy(d)' = KeptBy(d) \cup {p}
  <2>1. \A q \in Password : Wrapped(Owner[d], q) \in local'[d] <=> Wrapped(Owner[d], q) \in local[d] \/ q = p
    BY <1>1, <1>4
  <2> QED
    BY <1>2, <1>3, <2>1
<1>6. \A e \in Device \ {d} : KeptBy(e)' = KeptBy(e)
  BY <1>1, <1>2, <1>3
<1> QED
  BY <1>5, <1>6 DEF KeptByAll

LEMMA PublishSimulation ==
  ASSUME IInv, Reads, Reads', NEW d \in Device, NEW r \in registrations, NEW w \in local[d],
         PublishBlob(d, r, w)
  PROVE  \E p \in Password : Access!Publish(d, r.id, p)
<1>1. PICK p \in Password : w = Wrapped(Owner[d], p)
  BY DEF IInv, WrapsAreOwn
<1>2. p \in KeptBy(d)
  BY <1>1 DEF Reads
<1>3. r.id \in Registration /\ Owner[d] \in Account
  BY OwnerOf DEF IInv, TypeOK
<1>4. blobs' = blobs \cup {SealWithExportKey(r.id, Wrapped(Owner[d], p))}
  BY <1>1 DEF PublishBlob
<1>5. ASSUME NEW x \in Account \X Registration \X Password
      PROVE  SealWithExportKey(x[2], Wrapped(x[1], x[3])) = SealWithExportKey(r.id, Wrapped(Owner[d], p))
               <=> x = <<Owner[d], r.id, p>>
  BY BlobsDiffer, WrapsDiffer
<1>6. Published' = {x \in Account \X Registration \X Password :
                      SealWithExportKey(x[2], Wrapped(x[1], x[3])) \in blobs'}
  BY DEF Reads, Wrapped, WrapVaultKey, MasterKey, Seal, SealWithExportKey, BlobKey
<1>7. Published = {x \in Account \X Registration \X Password :
                     SealWithExportKey(x[2], Wrapped(x[1], x[3])) \in blobs}
  BY DEF Reads
<1>8. <<Owner[d], r.id, p>> \in Account \X Registration \X Password
  BY <1>3
<1>9. Published' = Published \cup {<<Owner[d], r.id, p>>}
  BY <1>4, <1>5, <1>6, <1>7, <1>8
<1>10. UNCHANGED <<created, InsideOfAll, KeptByAll, RecoveryOfAll>>
  BY WaysKept DEF PublishBlob, secrets
<1> QED
  BY <1>2, <1>9, <1>10 DEF Access!Publish, InsideOfAll, KeptByAll, RecoveryOfAll

LEMMA FetchSimulation ==
  ASSUME IInv, Reads, Reads', NEW d \in Device, NEW r \in registrations, NEW blob \in blobs,
         FetchBlob(d, r, blob)
  PROVE  \E p \in Password : Access!Fetch(d, r.id, p)
<1>1. PICK p \in Password : /\ OpenWithExportKey(r.id, blob) = Wrapped(Owner[d], p)
                            /\ blob = SealWithExportKey(r.id, Wrapped(Owner[d], p))
  BY FetchedIsOwn DEF FetchBlob, HasExport
<1>2. r.id \in Registration /\ Owner[d] \in Account
  BY OwnerOf DEF IInv, TypeOK
<1>3. <<Owner[d], r.id, p>> \in Published
  BY <1>1, <1>2 DEF Reads
<1>4. KeptByAll' = [KeptByAll EXCEPT ![d] = @ \cup {p}]
  BY <1>1, KeepSimulation DEF FetchBlob
<1>5. UNCHANGED <<created, InsideOfAll, Published, RecoveryOfAll>>
  BY WaysKept DEF FetchBlob, secrets
<1> QED
  BY <1>3, <1>4, <1>5 DEF Access!Fetch, InsideOfAll, KeptByAll, RecoveryOfAll

LEMMA CreateKitSimulation ==
  ASSUME IInv, Reads, Reads', NEW d \in Device, NEW code \in Code, CreateRecoveryKit(d, code)
  PROVE  Access!NoteCode(d, code)
<1>1. InsideOf(d) = {Owner[d]} /\ Owner[d] \in Account
  BY OwnerOf DEF Reads, CreateRecoveryKit
<1>2. \A a \in Account : noted'[a] = IF a = Owner[d] THEN noted[a] \cup {code} ELSE noted[a]
  <2>1. noted \in [Account -> SUBSET Code]
    BY DEF IInv, TypeOK
  <2>2. noted' = [noted EXCEPT ![Owner[d]] = @ \cup {code}]
    BY DEF CreateRecoveryKit
  <2> QED
    BY <2>1, <2>2
<1>3. kits' = kits \cup {RecoveryKit(Owner[d], code)} /\ \A a \in Account : code \notin noted[a]
  BY OwnerOf DEF CreateRecoveryKit, Drawn, Holds
<1>4. UNCHANGED <<created, InsideOfAll, KeptByAll, Published>>
  BY WaysKept DEF CreateRecoveryKit, secrets
<1>5. \A a \in Account : RecoveryOf(a) = {c \in noted[a] : RecoveryKit(a, c) \in kits}
  BY DEF Reads
<1>6. \A a \in Account : RecoveryOf(a)' = {c \in noted'[a] : RecoveryKit(a, c) \in kits'}
  BY DEF Reads, RecoveryKit, RecoveryKey, Seal
<1>7. ASSUME NEW a \in Account
      PROVE  RecoveryOf(a)' = IF a = Owner[d] THEN RecoveryOf(a) \cup {code} ELSE RecoveryOf(a)
  <2>1. \A c \in noted[a] : RecoveryKit(a, c) \in kits' <=> RecoveryKit(a, c) \in kits
    BY <1>3, KitsDiffer
  <2>2. CASE a = Owner[d]
    BY <1>2, <1>3, <1>5, <1>6, <2>1, <2>2
  <2>3. CASE a # Owner[d]
    BY <1>2, <1>5, <1>6, <2>1, <2>3
  <2> QED
    BY <2>2, <2>3
<1>8. RecoveryOfAll' = [RecoveryOfAll EXCEPT ![Owner[d]] = @ \cup {code}]
  BY <1>7 DEF RecoveryOfAll
<1> QED
  BY <1>1, <1>4, <1>8 DEF Access!NoteCode, Access!In, InsideOfAll, KeptByAll, RecoveryOfAll

\* Dropping what is stored loses one way in.
LEMMA DropWrapSimulation ==
  ASSUME IInv, Reads, Reads', NEW d \in Device, NEW w \in local[d], DropWrap(d, w)
  PROVE  \E p \in Password : Access!Forget(d, p)
<1>1. PICK p \in Password : w = Wrapped(Owner[d], p)
  BY DEF IInv, WrapsAreOwn
<1>2. \A e \in Device : local'[e] = IF e = d THEN local[d] \ {Wrapped(Owner[d], p)} ELSE local[e]
  BY <1>1 DEF DropWrap, IInv, TypeOK
<1>3. \A e \in Device : KeptBy(e)' = {q \in Password : Wrapped(Owner[e], q) \in local'[e]}
  BY DEF Reads, Wrapped, WrapVaultKey, MasterKey, Seal
<1>4. \A e \in Device : KeptBy(e) = {q \in Password : Wrapped(Owner[e], q) \in local[e]}
  BY DEF Reads
<1>5. \A q \in Password : Wrapped(Owner[d], q) = Wrapped(Owner[d], p) <=> q = p
  BY WrapsDiffer
<1>6. KeptBy(d)' = KeptBy(d) \ {p}
  <2>1. \A q \in Password : Wrapped(Owner[d], q) \in local'[d] <=> Wrapped(Owner[d], q) \in local[d] /\ q # p
    BY <1>2, <1>5
  <2> QED
    BY <1>3, <1>4, <2>1
<1>7. \A e \in Device \ {d} : KeptBy(e)' = KeptBy(e)
  BY <1>2, <1>3, <1>4
<1>8. KeptByAll' = [KeptByAll EXCEPT ![d] = @ \ {p}]
  BY <1>6, <1>7 DEF KeptByAll
<1>9. UNCHANGED <<created, InsideOfAll, Published, RecoveryOfAll>>
  BY WaysKept DEF DropWrap, secrets
<1> QED
  BY <1>8, <1>9 DEF Access!Forget, InsideOfAll, KeptByAll, RecoveryOfAll

LEMMA DropBlobSimulation ==
  ASSUME IInv, Reads, Reads', NEW blob \in blobs, DropBlob(blob)
  PROVE  \E a \in Account, r \in Registration, p \in Password : Access!Withdraw(a, r, p)
<1>1. PICK r \in registrations, p \in Password : blob = SealWithExportKey(r.id, Wrapped(r.account, p))
  BY DEF IInv, BlobsAreOwn
<1>2. r.id \in Registration /\ r.account \in Account
  BY DEF IInv, TypeOK
<1>3. blobs' = blobs \ {SealWithExportKey(r.id, Wrapped(r.account, p))}
  BY <1>1 DEF DropBlob
<1>4. ASSUME NEW x \in Account \X Registration \X Password
      PROVE  SealWithExportKey(x[2], Wrapped(x[1], x[3])) = SealWithExportKey(r.id, Wrapped(r.account, p))
               <=> x = <<r.account, r.id, p>>
  BY BlobsDiffer, WrapsDiffer
<1>5. Published' = {x \in Account \X Registration \X Password :
                      SealWithExportKey(x[2], Wrapped(x[1], x[3])) \in blobs'}
  BY DEF Reads, Wrapped, WrapVaultKey, MasterKey, Seal, SealWithExportKey, BlobKey
<1>6. Published = {x \in Account \X Registration \X Password :
                     SealWithExportKey(x[2], Wrapped(x[1], x[3])) \in blobs}
  BY DEF Reads
<1>7. Published' = Published \ {<<r.account, r.id, p>>}
  BY <1>3, <1>4, <1>5, <1>6
<1>8. UNCHANGED <<created, InsideOfAll, KeptByAll, RecoveryOfAll>>
  BY WaysKept DEF DropBlob, secrets
<1>9. Access!Withdraw(r.account, r.id, p)
  BY <1>7, <1>8 DEF Access!Withdraw, InsideOfAll, KeptByAll, RecoveryOfAll
<1> QED
  BY <1>2, <1>9

LEMMA DropKitSimulation ==
  ASSUME IInv, Reads, Reads', NEW kit \in kits, DropKit(kit)
  PROVE  \E a \in Account, code \in Code : Access!Revoke(a, code)
<1>1. PICK a \in Account : \E c \in noted[a] : kit = RecoveryKit(a, c)
  BY DEF IInv, KitsAreOwn
<1>2. PICK code \in noted[a] : kit = RecoveryKit(a, code)
  BY <1>1
<1>3. code \in Code
  BY <1>2 DEF IInv, TypeOK
<1>4. kits' = kits \ {RecoveryKit(a, code)} /\ UNCHANGED noted
  BY <1>2 DEF DropKit
<1>5. \A b \in Account : RecoveryOf(b) = {c \in noted[b] : RecoveryKit(b, c) \in kits}
  BY DEF Reads
<1>6. \A b \in Account : RecoveryOf(b)' = {c \in noted[b] : RecoveryKit(b, c) \in kits'}
  BY <1>4 DEF Reads, RecoveryKit, RecoveryKey, Seal
<1>7. \A b \in Account : \A c \in noted[b] :
        RecoveryKit(b, c) \in kits' <=> RecoveryKit(b, c) \in kits /\ ~(b = a /\ c = code)
  BY <1>4, KitsDiffer
<1>8. RecoveryOf(a)' = RecoveryOf(a) \ {code} /\ \A b \in Account \ {a} : RecoveryOf(b)' = RecoveryOf(b)
  BY <1>5, <1>6, <1>7
<1>9. RecoveryOfAll' = [RecoveryOfAll EXCEPT ![a] = @ \ {code}]
  BY <1>8 DEF RecoveryOfAll
<1>10. UNCHANGED <<created, InsideOfAll, KeptByAll, Published>>
  BY WaysKept DEF DropKit, secrets
<1>11. Access!Revoke(a, code)
  BY <1>9, <1>10 DEF Access!Revoke, InsideOfAll, KeptByAll, RecoveryOfAll
<1> QED
  BY <1>3, <1>11

LEMMA DroppingSimulation ==
  ASSUME IInv, Reads, Reads', Dropping
  PROVE  Access!Lose
  BY DropWrapSimulation, DropBlobSimulation, DropKitSimulation DEF Dropping, Access!Lose

LEMMA StepSimulation ==
  ASSUME IInv, Reads, Reads', Next
  PROVE  Access!Next \/ UNCHANGED Access!vars
<1> SUFFICES ASSUME NEW d \in Device, Wrapping(d) \/ Holding(d) \/ Write(d)
             PROVE  Access!Next \/ UNCHANGED Access!vars
  BY DroppingSimulation DEF Next, Access!Next
<1>2. ASSUME NEW p \in Password, Register(d, p)
      PROVE  UNCHANGED Access!vars
  BY <1>2, WaysKept DEF Register, wraps, Access!vars, InsideOfAll, KeptByAll, RecoveryOfAll
<1>3. ASSUME NEW p \in Password, Wrap(d, p)
      PROVE  Access!Keep(d, p)
  <2>1. InsideOf(d) = {Owner[d]}
    BY <1>3 DEF Reads, Wrap
  <2>2. local' = [local EXCEPT ![d] = @ \cup {Wrapped(Owner[d], p)}]
    BY <1>3, OwnerOf DEF Wrap, Holds, Kek, Wrapped
  <2>3. KeptByAll' = [KeptByAll EXCEPT ![d] = @ \cup {p}]
    BY <2>2, KeepSimulation
  <2>4. UNCHANGED <<created, InsideOfAll, Published, RecoveryOfAll>>
    BY <1>3, WaysKept DEF Wrap, secrets
  <2> QED
    BY <2>1, <2>3, <2>4 DEF Access!Keep, Access!In, InsideOfAll, KeptByAll, RecoveryOfAll
<1>4. ASSUME NEW r \in registrations
      PROVE  r.id \in Registration
  BY DEF IInv, TypeOK
<1>5. CASE Wrapping(d)
  <2>1. CASE \E p \in Password : Register(d, p) \/ Wrap(d, p)
    BY <1>2, <1>3, <2>1 DEF Access!Next
  <2>2. CASE \E r \in registrations, w \in local[d] : PublishBlob(d, r, w)
    BY <1>4, <2>2, PublishSimulation DEF Access!Next
  <2>3. CASE \E r \in registrations, blob \in blobs : FetchBlob(d, r, blob)
    BY <1>4, <2>3, FetchSimulation DEF Access!Next
  <2>4. CASE \E code \in Code : CreateRecoveryKit(d, code)
    BY <2>4, CreateKitSimulation DEF Access!Next
  <2> QED
    BY <1>5, <2>1, <2>2, <2>3, <2>4 DEF Wrapping
<1>6. ASSUME NEW e \in Device, TakeKey(e, Owner[e])
      PROVE  Access!Enter(e) /\ UNCHANGED created
  BY <1>6, EnterSimulation DEF TakeKey, secrets
<1>7. CASE GenerateVaultKey(d)
  <2>1. Access!Enter(d)
    BY <1>7, EnterSimulation DEF GenerateVaultKey
  <2>2. Access!Create(d)
    BY <1>7, <2>1 DEF GenerateVaultKey, Access!Create
  <2> QED
    BY <2>2 DEF Access!Next
<1>8. CASE \E p \in Password, w \in local[d] : Unlock(d, p, w)
  <2>1. PICK p \in Password, w \in local[d] : Unlock(d, p, w)
    BY <1>8
  <2>2. TakeKey(d, Owner[d]) /\ w = Wrapped(Owner[d], p)
    BY <2>1, TakenIsOwn
  <2>3. p \in KeptBy(d)
    BY <2>2 DEF Reads
  <2>4. Access!Unlock(d)
    BY <1>6, <2>2, <2>3 DEF Access!Unlock
  <2> QED
    BY <2>4 DEF Access!Next
<1>9. CASE \E code \in noted[Owner[d]], kit \in kits : RecoverVaultKey(d, code, kit)
  <2>1. PICK code \in noted[Owner[d]], kit \in kits : RecoverVaultKey(d, code, kit)
    BY <1>9
  <2>2. TakeKey(d, Owner[d])
    BY <2>1, TakenIsOwn
  <2>3. code \in RecoveryOf(Owner[d])
    <3>1. Recover(code, kit) # NoText
      BY <2>1 DEF RecoverVaultKey, TakeKey
    <3> QED
      BY <2>1, <3>1 DEF RecoveryOf
  <2>4. Access!Recover(d)
    BY <1>6, <2>2, <2>3, OwnerOf DEF Access!Recover
  <2> QED
    BY <2>4 DEF Access!Next
<1>10. CASE \E e \in Device : Pair(d, e)
  <2>1. PICK e \in Device : Pair(d, e)
    BY <1>10
  <2>2. TakeKey(e, Owner[e]) /\ Owner[e] = Owner[d] /\ Holds(d)
    BY <2>1, TakenIsOwn
  <2>3. InsideOf(d) = {Owner[d]}
    BY <2>2 DEF Reads
  <2>4. Access!Join(d, e)
    BY <1>6, <2>2, <2>3 DEF Access!Join, Access!In
  <2> QED
    BY <2>4 DEF Access!Next
<1>11. CASE Lock(d)
  BY <1>11, LockSimulation DEF Access!Next
<1>12. CASE Write(d)
  BY <1>12, WaysKept
  DEF Write, WriteEntry, secrets, wraps, Access!vars, InsideOfAll, KeptByAll, RecoveryOfAll
<1> QED
  BY <1>5, <1>7, <1>8, <1>9, <1>10, <1>11, <1>12 DEF Holding

(***************************************************************************)
(* ImplementsAccess (vault_key.rs:26, recovery.rs:62, server_blob.rs:36):  *)
(* the ways in, read off the ciphertexts there are, change as VaultAccess  *)
(* says they do, whatever the order of wraps, registrations and recoveries *)
(* and whichever blob the server hands out.                                *)
(***************************************************************************)
THEOREM CustodyImplementsAccess == Spec => ImplementsAccess
<1>1. Init => Access!Init
  <2> SUFFICES ASSUME Init PROVE Access!Init
    OBVIOUS
  <2>1. \A d \in Device : InsideOf(d) = {} /\ KeptBy(d) = {}
    BY TextAssumption DEF Init, InsideOf, KeptBy
  <2>2. \A a \in Account : RecoveryOf(a) = {}
    BY DEF Init, RecoveryOf
  <2>3. created = {} /\ Published = {}
    BY DEF Init, Published
  <2> QED
    BY <2>1, <2>2, <2>3 DEF Access!Init
<1>2. UNCHANGED vars => UNCHANGED Access!vars
  BY WaysKept DEF vars, secrets, wraps, Access!vars, InsideOfAll, KeptByAll, RecoveryOfAll
<1>3. IInv /\ Reads /\ Reads' /\ [Next]_vars => [Access!Next]_Access!vars
  BY <1>2, StepSimulation
<1>4. Spec => []Reads
  BY AlwaysIInv, IInvReads, PTL
<1> QED
  BY <1>1, <1>3, <1>4, AlwaysIInv, PTL DEF Spec, ImplementsAccess, Access!Spec
=============================================================================
