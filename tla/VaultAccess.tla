---------------------------- MODULE VaultAccess -----------------------------
(***************************************************************************)
(* What the key hierarchy promises, without keys or ciphertexts: a device  *)
(* gets into the vault of its own account only, by a way that goes back to *)
(* a device that was in, or beside one that is in.  Ways in are lost one   *)
(* at a time.                                                              *)
(*                                                                         *)
(* A way in is a password at a device that keeps the wrapped key, the same *)
(* password together with an OPAQUE registration (the server's blob), or a *)
(* recovery code.                                                          *)
(***************************************************************************)
CONSTANTS Account, Device, Owner, Password, Registration, Code

VARIABLES
  created,    (* the accounts whose vault exists                           *)
  inside,     (* inside[d]: the accounts whose vault key d holds           *)
  kept,       (* kept[d]: the passwords that get d in                      *)
  published,  (* the registrations and passwords the server's blobs serve  *)
  recovery    (* recovery[a]: the codes that get a device of a in          *)

vars == <<created, inside, kept, published, recovery>>

Init ==
  /\ created   = {}
  /\ inside    = [d \in Device |-> {}]
  /\ kept      = [d \in Device |-> {}]
  /\ published = {}
  /\ recovery  = [a \in Account |-> {}]

\* d ends up in its own vault, and nothing else changes.
Enter(d) ==
  /\ inside' = [inside EXCEPT ![d] = {Owner[d]}]
  /\ UNCHANGED <<kept, published, recovery>>

In(d) == inside[d] = {Owner[d]}

Create(d) ==
  /\ Owner[d] \notin created
  /\ created' = created \cup {Owner[d]}
  /\ Enter(d)

Keep(d, p) ==
  /\ In(d)
  /\ kept' = [kept EXCEPT ![d] = @ \cup {p}]
  /\ UNCHANGED <<created, inside, published, recovery>>

\* What gets d in is served to whoever completes a login of the registration.
Publish(d, r, p) ==
  /\ p \in kept[d]
  /\ published' = published \cup {<<Owner[d], r, p>>}
  /\ UNCHANGED <<created, inside, kept, recovery>>

Fetch(d, r, p) ==
  /\ <<Owner[d], r, p>> \in published
  /\ kept' = [kept EXCEPT ![d] = @ \cup {p}]
  /\ UNCHANGED <<created, inside, published, recovery>>

NoteCode(d, code) ==
  /\ In(d)
  /\ recovery' = [recovery EXCEPT ![Owner[d]] = @ \cup {code}]
  /\ UNCHANGED <<created, inside, kept, published>>

Unlock(d)     == kept[d] # {} /\ Enter(d) /\ UNCHANGED created
Recover(d)    == recovery[Owner[d]] # {} /\ Enter(d) /\ UNCHANGED created
Join(d, e)    == In(d) /\ Owner[e] = Owner[d] /\ Enter(e) /\ UNCHANGED created

\* A way in is lost, and no other.
Forget(d, p) ==
  /\ kept' = [kept EXCEPT ![d] = @ \ {p}]
  /\ UNCHANGED <<created, inside, published, recovery>>

Withdraw(a, r, p) ==
  /\ published' = published \ {<<a, r, p>>}
  /\ UNCHANGED <<created, inside, kept, recovery>>

Revoke(a, code) ==
  /\ recovery' = [recovery EXCEPT ![a] = @ \ {code}]
  /\ UNCHANGED <<created, inside, kept, published>>

Leave(d) ==
  /\ inside' = [inside EXCEPT ![d] = {}]
  /\ UNCHANGED <<created, kept, published, recovery>>

Lose ==
  \/ \E d \in Device, p \in Password : Forget(d, p)
  \/ \E a \in Account, r \in Registration, p \in Password : Withdraw(a, r, p)
  \/ \E a \in Account, code \in Code : Revoke(a, code)

Next ==
  \/ \E d \in Device :
       \/ Create(d) \/ Unlock(d) \/ Recover(d) \/ Leave(d)
       \/ \E e \in Device : Join(d, e)
       \/ \E p \in Password : Keep(d, p)
       \/ \E r \in Registration, p \in Password : Publish(d, r, p) \/ Fetch(d, r, p)
       \/ \E code \in Code : NoteCode(d, code)
  \/ Lose

Spec == Init /\ [][Next]_vars
=============================================================================
