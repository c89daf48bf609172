------------------------------ MODULE Pairing -------------------------------
(***************************************************************************)
(* The two-round pairing of src/crypto/pairing.rs, with several pairings   *)
(* at once: a new device shows a QR, a source scans it and publishes a     *)
(* hello, the user compares the two codes, the source seals and the new    *)
(* device opens.                                                           *)
(*                                                                         *)
(* The functions keep nothing: the sets below are the states and messages  *)
(* their callers keep and relay, for as long as the comments of the code   *)
(* say.  The relay delivers a message late, again, or to another session,  *)
(* and a QR may still be scanned when its device shows a later one.        *)
(*                                                                         *)
(* An ephemeral key pair is named by the call that drew it; the secret two *)
(* pairs share is the set of the two; HKDF and the AEAD are ideal.  What   *)
(* is not ideal is the code, which has six digits: Sas is any function.    *)
(***************************************************************************)
CONSTANTS
  NewSide,     (* the calls of pairing_start, on whichever new devices      *)
  SourceSide,  (* the calls of pairing_source_begin                         *)
  DeviceKey,   (* the identity keys of new devices                          *)
  Account,     (* the accounts; a vault key goes with its account           *)
  Sas          (* Sas[k]: the digits shown for the derivation of key k      *)

Request == [public : NewSide, device : DeviceKey]   \* PairingRequest, PairingState
Key     == [shared : SUBSET (NewSide \cup SourceSide), new : NewSide,
            source : SourceSide, device : DeviceKey]

ASSUME SasAssumption == DOMAIN Sas = Key

VARIABLES
  qrs,       (* the requests shown                                          *)
  waiting,   (* the requests whose state the new device still keeps         *)
  hellos,    (* the hellos published                                        *)
  sources,   (* the sessions sources keep between the rounds                *)
  news,      (* the sessions new devices keep between the rounds            *)
  agreed,    (* the source sessions confirmed, with the screen compared     *)
  blobs,     (* the sealed blobs relayed                                    *)
  joined,    (* the accounts new devices have received                      *)
  scanned,   (* history: the request each source scanned                    *)
  heard      (* history: the hello each new device took                     *)

vars == <<qrs, waiting, hellos, sources, news, agreed, blobs, joined, scanned, heard>>

Init ==
  /\ qrs = {} /\ waiting = {} /\ hellos = {} /\ sources = {} /\ news = {}
  /\ agreed = {} /\ blobs = {} /\ joined = {} /\ scanned = {} /\ heard = {}

-----------------------------------------------------------------------------

SharedSecret(a, b) == {a, b}

\* A slip in derive: nothing of the source goes into it.
DeriveFromRequest(shared, new, source, device) ==
  [shared |-> {new}, new |-> new, source |-> CHOOSE s \in SourceSide : TRUE,
   device |-> device]

\* derive: the secret and the transcript, in a fixed order.
Derive(shared, new, source, device) ==
  [shared |-> shared, new |-> new, source |-> source, device |-> device]

\* pairing_start draws a key pair and shows it with the device's identity.
PairingStart(p, device) ==
  LET request == [public |-> p, device |-> device]
  IN  /\ \A qr \in qrs : qr.public # p
      /\ qrs'     = qrs \cup {request}
      /\ waiting' = waiting \cup {request}
      /\ UNCHANGED <<hellos, sources, news, agreed, blobs, joined, scanned, heard>>

\* A slip in pairing_source_begin: the key scanned is published.
SourceBeginEchoes(s, qr) ==
  /\ s \notin hellos
  /\ hellos'  = hellos \cup {qr.public}
  /\ sources' = sources \cup
       {[side |-> s, key |-> Derive(SharedSecret(s, qr.public), qr.public, s, qr.device)]}
  /\ scanned' = scanned \cup {[source |-> s, request |-> qr]}
  /\ UNCHANGED <<qrs, waiting, news, agreed, blobs, joined, heard>>

\* pairing_source_begin draws a key pair, derives and publishes the public key.
SourceBegin(s, qr) ==
  /\ s \notin hellos
  /\ hellos'  = hellos \cup {s}
  /\ sources' = sources \cup
       {[side |-> s, key |-> Derive(SharedSecret(s, qr.public), qr.public, s, qr.device)]}
  /\ scanned' = scanned \cup {[source |-> s, request |-> qr]}
  /\ UNCHANGED <<qrs, waiting, news, agreed, blobs, joined, heard>>

\* pairing_new_device_confirm takes a hello; the first state is then dropped.
NewDeviceConfirm(request, hello) ==
  LET p == request.public
  IN  /\ waiting' = waiting \ {request}
      /\ news'    = news \cup
           {[side |-> p, key |-> Derive(SharedSecret(p, hello), p, hello, request.device)]}
      /\ heard'   = heard \cup {[new |-> p, source |-> hello]}
      /\ UNCHANGED <<qrs, hellos, sources, agreed, blobs, joined, scanned>>

\* The user finds the same digits on the two screens and says so to the source,
\* which may then register the device key it scanned.
UserConfirms(source, new) ==
  /\ Sas[source.key] = Sas[new.key]
  /\ \A a \in agreed : a.source # source.side
  /\ agreed' = agreed \cup {[source |-> source.side, new |-> new.side]}
  /\ UNCHANGED <<qrs, waiting, hellos, sources, news, blobs, joined, scanned, heard>>

\* A slip in pairing_source_seal: the key is the one of another derivation.
SealUnshared(source, account) ==
  /\ \E a \in agreed : a.source = source.side
  /\ blobs'   = blobs \cup {[key |-> [source.key EXCEPT !.shared = {}], account |-> account]}
  /\ sources' = sources \ {source}
  /\ UNCHANGED <<qrs, waiting, hellos, news, agreed, joined, scanned, heard>>

\* pairing_source_seal, once the user has confirmed; the state is then dropped.
SourceSeal(source, account) ==
  /\ \E a \in agreed : a.source = source.side
  /\ blobs'   = blobs \cup {[key |-> source.key, account |-> account]}
  /\ sources' = sources \ {source}
  /\ UNCHANGED <<qrs, waiting, hellos, news, agreed, joined, scanned, heard>>

\* pairing_open; a blob under another key is an error and changes nothing.
PairingOpen(new, blob) ==
  /\ blob.key = new.key
  /\ joined' = joined \cup {[new |-> new.side, account |-> blob.account]}
  /\ news'   = news \ {new}
  /\ UNCHANGED <<qrs, waiting, hellos, sources, agreed, blobs, scanned, heard>>

\* The states are never persisted: a device that restarts has lost its own.
Restart ==
  /\ \/ \E request \in waiting : waiting' = waiting \ {request} /\ UNCHANGED <<sources, news>>
     \/ \E source \in sources : sources' = sources \ {source} /\ UNCHANGED <<waiting, news>>
     \/ \E new \in news : news' = news \ {new} /\ UNCHANGED <<waiting, sources>>
  /\ UNCHANGED <<qrs, hellos, agreed, blobs, joined, scanned, heard>>

Start  == \E p \in NewSide, device \in DeviceKey : PairingStart(p, device)
Scan   == \E s \in SourceSide : \E qr \in qrs : SourceBegin(s, qr)
Greet  == \E request \in waiting, hello \in hellos : NewDeviceConfirm(request, hello)
Confirm == \E source \in sources, new \in news : UserConfirms(source, new)
Seal   == \E source \in sources, account \in Account : SourceSeal(source, account)
Open   == \E new \in news, blob \in blobs : PairingOpen(new, blob)

Next == Start \/ Scan \/ Greet \/ Confirm \/ Seal \/ Open \/ Restart

Spec == Init /\ [][Next]_vars

\* A confirmed source seals, and the relay gets every blob to every new device.
FairSpec == Spec /\ WF_vars(Seal) /\ WF_vars(Open)

-----------------------------------------------------------------------------

SourceSession == [side : SourceSide, key : Key]
NewSession    == [side : NewSide, key : Key]

\* States and messages have their shapes.
TypeOK ==
  /\ qrs     \subseteq Request
  /\ waiting \subseteq qrs
  /\ hellos  \subseteq SourceSide
  /\ sources \subseteq SourceSession
  /\ news    \subseteq NewSession
  /\ agreed  \subseteq [source : SourceSide, new : NewSide]
  /\ blobs   \subseteq [key : Key, account : Account]
  /\ joined  \subseteq [new : NewSide, account : Account]
  /\ scanned \subseteq [source : SourceSide, request : Request]
  /\ heard   \subseteq [new : NewSide, source : SourceSide]

\* s scanned the request of p, and p took the hello of s.
Met(s, p) ==
  /\ \E scan \in scanned : scan.source = s /\ scan.request.public = p
  /\ [new |-> p, source |-> s] \in heard

(***************************************************************************)
(* "Echoue si le blob ne s'ouvre pas (mauvais destinataire)" (pairing.rs:  *)
(* 263): a device joins an account only through a confirmed source that    *)
(* scanned its own request and whose hello it took, whatever the relay     *)
(* mixes up and even if all codes collide; and it joins one account.       *)
(***************************************************************************)
JoinsThroughOwnSource ==
  \A j \in joined :
    /\ \E a \in agreed, blob \in blobs :
         /\ Met(a.source, j.new)
         /\ blob.key.source = a.source /\ blob.account = j.account
    /\ \A i \in joined : i.new = j.new => i = j

\* The pairs of different derivations that show the same digits, and the
\* sources and devices a comparison may take for each other's by them.
Collisions == {c \in Key \X Key : c[1] # c[2] /\ Sas[c[1]] = Sas[c[2]]}
Confusable == {<<c[1].source, c[2].new>> : c \in Collisions}

(***************************************************************************)
(* What the comparison of the codes is for (pairing.rs:21): a source is    *)
(* confirmed only with the device it has met, if no codes of theirs        *)
(* collide, so that what it seals and the identity key it registers belong *)
(* to the screen the user looked at.                                       *)
(***************************************************************************)
ConfirmedHaveMet ==
  \A a \in agreed : <<a.source, a.new>> \notin Confusable => Met(a.source, a.new)

\* p has joined, or a side of the pairing of s and p has lost its state.
Ended(s, p) ==
  \/ \E j \in joined : j.new = p
  \/ \A new \in news : new.side # p
  \/ /\ \A source \in sources : source.side # s
     /\ \A blob \in blobs : blob.key.source # s

(***************************************************************************)
(* A confirmed pairing of two sides that met is completed, whatever else   *)
(* the relay carries, unless a restart takes the state of one of them      *)
(* (pairing.rs:77).                                                        *)
(***************************************************************************)
ConfirmedComplete ==
  \A s \in SourceSide, p \in NewSide :
    [source |-> s, new |-> p] \in agreed /\ Met(s, p) ~> Ended(s, p)
=============================================================================
