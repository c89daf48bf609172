---------------------------- MODULE KeyHierarchy ----------------------------
(***************************************************************************)
(* The keys and ciphertexts of src/crypto: what each secret derives, what  *)
(* is sealed under it, and what opening needs.                             *)
(*                                                                         *)
(* Argon2id, HKDF, XChaCha20-Poly1305 and Ed25519 are ideal: a key is what *)
(* it was derived from, with the domain it was derived for, and opening    *)
(* takes the key the text was sealed under.  Nonces and lengths in bytes   *)
(* are left out; a text has the length of a key iff it is a vault key.     *)
(***************************************************************************)
CONSTANTS
  VaultKey,   (* the root keys drawn so far or ever                        *)
  NoText      (* the result of an opening that fails                       *)

AeadVersion == 1

\* The password is not empty: derive_master_key refuses that.
MasterKey(password, salt)   == <<"kek", password, salt>>

\* The code is a valid one: recover_vault_key refuses the others.
RecoveryKey(code)           == <<"recovery", code>>

\* A slip in blob_key: one key for every export key.
BlobKeyConstant(export)     == <<"blob">>
BlobKey(export)             == <<"blob", export>>

\* A slip in entry_subkey: one key for all the entries of a vault.
EntrySubkeyOfVault(key, id) == <<"entry", key>>
EntrySubkey(key, id)        == <<"entry", key, id>>

Seal(key, text) == [version |-> AeadVersion, key |-> key, text |-> text]

Open(key, sealed) ==
  IF sealed.version = AeadVersion /\ sealed.key = key THEN sealed.text ELSE NoText

WrapVaultKey(key, kek) == Seal(kek, key)

\* unwrap_vault_key and recover_vault_key: what opens must have a key's length.
Unwrap(sealed, key) ==
  IF Open(key, sealed) \in VaultKey THEN Open(key, sealed) ELSE NoText

RecoveryKit(key, code)        == Seal(RecoveryKey(code), key)
Recover(code, sealed)         == Unwrap(sealed, RecoveryKey(code))

SealWithExportKey(export, text)   == Seal(BlobKey(export), text)
OpenWithExportKey(export, sealed) == Open(BlobKey(export), sealed)

EncryptEntry(key, id, text)   == Seal(EntrySubkey(key, id), text)
DecryptEntry(key, id, sealed) == Open(EntrySubkey(key, id), sealed)
=============================================================================
