--------------------------- MODULE PairingProofs ----------------------------
(***************************************************************************)
(* Proofs about Pairing for any number of concurrent sessions: who joins   *)
(* through whom, and with whom a confirmed source has met.                 *)
(***************************************************************************)
EXTENDS Pairing, TLAPS

\* The key two sides derive from a request and the source that scanned it.
KeyOf(qr, s) == Derive(SharedSecret(s, qr.public), qr.public, s, qr.device)

\* A public key is shown once, scanned at most once by a source.
RequestsUnique ==
  /\ \A q, r \in qrs : q.public = r.public => q = r
  /\ \A scan \in scanned : scan.request \in qrs /\ scan.source \in hellos

\* The first state of a new device is used up by the hello it takes.
HeardOnce ==
  \A h \in heard : /\ \E qr \in qrs : qr.public = h.new
                   /\ \A request \in waiting : request.public # h.new

\* A source's session is the derivation from the request it scanned.
SourcesDerive ==
  \A x \in sources :
    \E scan \in scanned : scan.source = x.side /\ x.key = KeyOf(scan.request, x.side)

\* A new device's session is the derivation from the hello it took.
NewsDerive ==
  \A x \in news :
    \E qr \in qrs, h \in heard :
      /\ qr.public = x.side /\ h.new = x.side
      /\ x.key = KeyOf(qr, h.source)

\* A device has one session at a time, and none once it has joined.
NewsOnce ==
  /\ \A x, y \in news : x.side = y.side => x = y
  /\ \A x \in news, j \in joined : x.side # j.new
  /\ \A j \in joined : \E h \in heard : h.new = j.new

\* What is sealed is sealed by a confirmed source, under the key it derived.
BlobsDerive ==
  \A b \in blobs :
    \E a \in agreed, scan \in scanned :
      a.source = scan.source /\ b.key = KeyOf(scan.request, scan.source)

IInv ==
  /\ TypeOK /\ RequestsUnique /\ HeardOnce
  /\ SourcesDerive /\ NewsDerive /\ NewsOnce /\ BlobsDerive
  /\ JoinsThroughOwnSource /\ ConfirmedHaveMet

-----------------------------------------------------------------------------

\* The fields of a derived key, and its type.
LEMMA KeyFacts ==
  ASSUME NEW qr \in Request, NEW s \in SourceSide
  PROVE  /\ KeyOf(qr, s) \in Key
         /\ KeyOf(qr, s).new = qr.public
         /\ KeyOf(qr, s).source = s
  BY DEF KeyOf, Key, Derive, SharedSecret, Request

\* Both sides derive from the same secret.
LEMMA SecretShared ==
  ASSUME NEW a, NEW b
  PROVE  SharedSecret(a, b) = SharedSecret(b, a)
  BY DEF SharedSecret

LEMMA InitIInv == Init => IInv
  BY DEF Init, IInv, TypeOK, RequestsUnique, HeardOnce, SourcesDerive, NewsDerive, NewsOnce,
         BlobsDerive, JoinsThroughOwnSource, ConfirmedHaveMet

\* Two sides that met, met: the history only grows.
LEMMA MetGrows ==
  ASSUME scanned \subseteq scanned', heard \subseteq heard', NEW s, NEW p, Met(s, p)
  PROVE  Met(s, p)'
  BY DEF Met

\* JoinsThroughOwnSource survives a step that adds no device to joined.
LEMMA JoinsKept ==
  ASSUME JoinsThroughOwnSource, joined' = joined, agreed \subseteq agreed',
         blobs \subseteq blobs', scanned \subseteq scanned', heard \subseteq heard'
  PROVE  JoinsThroughOwnSource'
<1>1. ASSUME NEW j \in joined
      PROVE  \E a \in agreed', blob \in blobs' :
               /\ Met(a.source, j.new)'
               /\ blob.key.source = a.source /\ blob.account = j.account
  <2>1. PICK a \in agreed, blob \in blobs :
               /\ Met(a.source, j.new)
               /\ blob.key.source = a.source /\ blob.account = j.account
    BY <1>1 DEF JoinsThroughOwnSource
  <2>2. Met(a.source, j.new)'
    BY <2>1, MetGrows
  <2> QED
    BY <2>1, <2>2
<1> QED
  BY <1>1 DEF JoinsThroughOwnSource

\* ConfirmedHaveMet survives a step that confirms nobody.
LEMMA MeetingsKept ==
  ASSUME ConfirmedHaveMet, agreed' = agreed, scanned \subseteq scanned', heard \subseteq heard'
  PROVE  ConfirmedHaveMet'
<1>1. ASSUME NEW a \in agreed, <<a.source, a.new>> \notin Confusable
      PROVE  Met(a.source, a.new)'
  BY <1>1, MetGrows DEF ConfirmedHaveMet
<1> QED
  BY <1>1 DEF ConfirmedHaveMet, Confusable, Collisions
-----------------------------------------------------------------------------

LEMMA StartKeeps ==
  ASSUME IInv, NEW p \in NewSide, NEW device \in DeviceKey, PairingStart(p, device)
  PROVE  IInv'
<1> DEFINE request == [public |-> p, device |-> device]
<1>0. /\ request \in Request /\ request.public = p
      /\ qrs' = qrs \cup {request} /\ waiting' = waiting \cup {request}
      /\ \A qr \in qrs : qr.public # p
      /\ hellos' = hellos /\ sources' = sources /\ news' = news /\ agreed' = agreed
      /\ blobs' = blobs /\ joined' = joined /\ scanned' = scanned /\ heard' = heard
  BY DEF PairingStart, Request
<1> HIDE DEF request
<1>1. TypeOK'
  BY <1>0 DEF IInv, TypeOK
<1>2. RequestsUnique'
  BY <1>0 DEF IInv, RequestsUnique
<1>3. HeardOnce'
  BY <1>0 DEF IInv, HeardOnce
<1>4. SourcesDerive' /\ NewsDerive'
  BY <1>0 DEF IInv, SourcesDerive, NewsDerive
<1>5. NewsOnce' /\ BlobsDerive'
  BY <1>0 DEF IInv, NewsOnce, BlobsDerive
<1>6. JoinsThroughOwnSource' /\ ConfirmedHaveMet'
  BY <1>0, JoinsKept, MeetingsKept DEF IInv
<1> QED
  BY <1>1, <1>2, <1>3, <1>4, <1>5, <1>6 DEF IInv

LEMMA ScanKeeps ==
  ASSUME IInv, NEW s \in SourceSide, NEW qr \in qrs, SourceBegin(s, qr)
  PROVE  IInv'
<1> DEFINE session == [side |-> s, key |-> KeyOf(qr, s)]
           scan == [source |-> s, request |-> qr]
<1>0. /\ qr \in Request
      /\ session.side = s /\ session.key = KeyOf(qr, s)
      /\ scan.source = s /\ scan.request = qr
      /\ hellos' = hellos \cup {s} /\ sources' = sources \cup {session}
      /\ scanned' = scanned \cup {scan}
      /\ qrs' = qrs /\ waiting' = waiting /\ news' = news /\ agreed' = agreed
      /\ blobs' = blobs /\ joined' = joined /\ heard' = heard
  BY DEF SourceBegin, KeyOf, IInv, TypeOK
<1>1. session \in SourceSession /\ scan \in [source : SourceSide, request : Request]
  BY <1>0, KeyFacts DEF SourceSession
<1> HIDE DEF session, scan
<1>2. TypeOK'
  BY <1>0, <1>1 DEF IInv, TypeOK
<1>3. RequestsUnique'
  BY <1>0 DEF IInv, RequestsUnique
<1>4. HeardOnce' /\ NewsDerive' /\ NewsOnce'
  BY <1>0 DEF IInv, HeardOnce, NewsDerive, NewsOnce
<1>5. SourcesDerive'
  BY <1>0 DEF IInv, SourcesDerive
<1>6. BlobsDerive'
  BY <1>0 DEF IInv, BlobsDerive
<1>7. JoinsThroughOwnSource' /\ ConfirmedHaveMet'
  BY <1>0, JoinsKept, MeetingsKept DEF IInv
<1> QED
  BY <1>2, <1>3, <1>4, <1>5, <1>6, <1>7 DEF IInv

LEMMA GreetKeeps ==
  ASSUME IInv, NEW request \in waiting, NEW hello \in hellos, NewDeviceConfirm(request, hello)
  PROVE  IInv'
<1> DEFINE p == request.public
           session == [side |-> p, key |-> KeyOf(request, hello)]
           hearing == [new |-> p, source |-> hello]
<1>0. /\ request \in qrs /\ request \in Request /\ hello \in SourceSide /\ p \in NewSide
      /\ session.side = p /\ session.key = KeyOf(request, hello)
      /\ hearing.new = p /\ hearing.source = hello
      /\ waiting' = waiting \ {request} /\ news' = news \cup {session}
      /\ heard' = heard \cup {hearing}
      /\ qrs' = qrs /\ hellos' = hellos /\ sources' = sources /\ agreed' = agreed
      /\ blobs' = blobs /\ joined' = joined /\ scanned' = scanned
  BY SecretShared DEF NewDeviceConfirm, KeyOf, IInv, TypeOK, Request
<1>1. session \in NewSession /\ hearing \in [new : NewSide, source : SourceSide]
  BY <1>0, KeyFacts DEF NewSession
<1>p. p = request.public
  OBVIOUS
<1> HIDE DEF session, hearing, p
<1>2. TypeOK'
  BY <1>0, <1>1 DEF IInv, TypeOK
<1>3. \A h \in heard : h.new # p
  BY <1>p DEF IInv, HeardOnce
<1>4. RequestsUnique'
  BY <1>0 DEF IInv, RequestsUnique
<1>5. HeardOnce'
  <2>1. \A r \in waiting' : r.public # p
    BY <1>0, <1>p DEF IInv, RequestsUnique, TypeOK
  <2> QED
    BY <1>0, <1>p, <2>1 DEF IInv, HeardOnce
<1>6. NewsDerive'
  <2>1. session.key = KeyOf(request, hearing.source) /\ request \in qrs' /\ hearing \in heard'
    BY <1>0
  <2> QED
    BY <1>0, <1>p, <2>1 DEF IInv, NewsDerive
<1>7. NewsOnce'
  <2>1. \A x \in news : x.side # p
    BY <1>3 DEF IInv, NewsDerive
  <2>2. \A j \in joined : j.new # p
    BY <1>3 DEF IInv, NewsOnce
  <2> QED
    BY <1>0, <2>1, <2>2 DEF IInv, NewsOnce
<1>8. SourcesDerive' /\ BlobsDerive'
  BY <1>0 DEF IInv, SourcesDerive, BlobsDerive
<1>9. JoinsThroughOwnSource' /\ ConfirmedHaveMet'
  BY <1>0, JoinsKept, MeetingsKept DEF IInv
<1> QED
  BY <1>2, <1>4, <1>5, <1>6, <1>7, <1>8, <1>9 DEF IInv

LEMMA ConfirmKeeps ==
  ASSUME IInv, NEW source \in sources, NEW new \in news, UserConfirms(source, new)
  PROVE  IInv'
<1> DEFINE a == [source |-> source.side, new |-> new.side]
<1>0. /\ source \in SourceSession /\ new \in NewSession
      /\ a \in [source : SourceSide, new : NewSide]
      /\ a.source = source.side /\ a.new = new.side
      /\ Sas[source.key] = Sas[new.key]
      /\ agreed' = agreed \cup {a}
      /\ qrs' = qrs /\ waiting' = waiting /\ hellos' = hellos /\ sources' = sources
      /\ news' = news /\ blobs' = blobs /\ joined' = joined
      /\ scanned' = scanned /\ heard' = heard
  BY DEF UserConfirms, IInv, TypeOK, SourceSession, NewSession
<1> HIDE DEF a
<1>1. TypeOK'
  BY <1>0 DEF IInv, TypeOK
<1>2. RequestsUnique' /\ HeardOnce' /\ SourcesDerive' /\ NewsDerive' /\ NewsOnce'
  BY <1>0 DEF IInv, RequestsUnique, HeardOnce, SourcesDerive, NewsDerive, NewsOnce
<1>3. BlobsDerive'
  BY <1>0 DEF IInv, BlobsDerive
<1>4. JoinsThroughOwnSource'
  BY <1>0, JoinsKept DEF IInv
<1>5. ConfirmedHaveMet'
  <2>1. ASSUME <<source.side, new.side>> \notin Confusable PROVE Met(source.side, new.side)
    <3>2. PICK scan \in scanned :
            scan.source = source.side /\ source.key = KeyOf(scan.request, source.side)
      BY DEF IInv, SourcesDerive
    <3>3. PICK qr \in qrs, h \in heard :
            /\ qr.public = new.side /\ h.new = new.side
            /\ new.key = KeyOf(qr, h.source)
      BY DEF IInv, NewsDerive
    <3>4. /\ scan.request \in Request /\ source.side \in SourceSide
          /\ qr \in Request /\ h.source \in SourceSide
          /\ h = [new |-> h.new, source |-> h.source]
      BY <1>0 DEF IInv, TypeOK, SourceSession
    <3>6. source.key.source = source.side /\ new.key.new = new.side
      BY <3>2, <3>3, <3>4, KeyFacts
    <3>1. source.key = new.key
      <4>1. SUFFICES ASSUME source.key # new.key PROVE FALSE
        OBVIOUS
      <4>2. <<source.key, new.key>> \in Collisions
        BY <1>0, <4>1 DEF Collisions, SourceSession, NewSession
      <4>3. <<source.key.source, new.key.new>> \in Confusable
        BY <4>2 DEF Confusable
      <4> QED
        BY <2>1, <3>6, <4>3
    <3>5. scan.request.public = new.side /\ h.source = source.side
      <4>1. source.key.new = scan.request.public /\ source.key.source = source.side
        BY <3>2, <3>4, KeyFacts
      <4>2. new.key.new = qr.public /\ new.key.source = h.source
        BY <3>3, <3>4, KeyFacts
      <4> QED
        BY <3>1, <3>3, <4>1, <4>2
    <3> QED
      BY <3>2, <3>3, <3>4, <3>5 DEF Met
  <2>2. ASSUME NEW x \in agreed', <<x.source, x.new>> \notin Confusable PROVE Met(x.source, x.new)
    BY <1>0, <2>1, <2>2 DEF IInv, ConfirmedHaveMet
  <2>3. ASSUME NEW x \in agreed', <<x.source, x.new>> \notin Confusable PROVE Met(x.source, x.new)'
    BY <1>0, <2>2, <2>3, MetGrows
  <2> QED
    BY <2>3 DEF ConfirmedHaveMet, Confusable, Collisions
<1> QED
  BY <1>1, <1>2, <1>3, <1>4, <1>5 DEF IInv

LEMMA SealKeeps ==
  ASSUME IInv, NEW source \in sources, NEW account \in Account, SourceSeal(source, account)
  PROVE  IInv'
<1> DEFINE blob == [key |-> source.key, account |-> account]
<1>0. /\ source \in SourceSession /\ blob \in [key : Key, account : Account]
      /\ blob.key = source.key
      /\ blobs' = blobs \cup {blob} /\ sources' = sources \ {source}
      /\ qrs' = qrs /\ waiting' = waiting /\ hellos' = hellos /\ news' = news
      /\ agreed' = agreed /\ joined' = joined /\ scanned' = scanned /\ heard' = heard
  BY DEF SourceSeal, IInv, TypeOK, SourceSession
<1>1. PICK a \in agreed : a.source = source.side
  BY DEF SourceSeal
<1> HIDE DEF blob
<1>2. TypeOK'
  BY <1>0 DEF IInv, TypeOK
<1>3. RequestsUnique' /\ HeardOnce' /\ SourcesDerive' /\ NewsDerive' /\ NewsOnce'
  BY <1>0 DEF IInv, RequestsUnique, HeardOnce, SourcesDerive, NewsDerive, NewsOnce
<1>4. BlobsDerive'
  <2>1. PICK scan \in scanned :
          scan.source = source.side /\ source.key = KeyOf(scan.request, source.side)
    BY DEF IInv, SourcesDerive
  <2> QED
    BY <1>0, <1>1, <2>1 DEF IInv, BlobsDerive
<1>5. JoinsThroughOwnSource' /\ ConfirmedHaveMet'
  BY <1>0, JoinsKept, MeetingsKept DEF IInv
<1> QED
  BY <1>2, <1>3, <1>4, <1>5 DEF IInv

LEMMA OpenKeeps ==
  ASSUME IInv, NEW new \in news, NEW blob \in blobs, PairingOpen(new, blob)
  PROVE  IInv'
<1> DEFINE j == [new |-> new.side, account |-> blob.account]
<1>0. /\ new \in NewSession /\ j \in [new : NewSide, account : Account]
      /\ j.new = new.side /\ j.account = blob.account
      /\ blob.key = new.key
      /\ joined' = joined \cup {j} /\ news' = news \ {new}
      /\ qrs' = qrs /\ waiting' = waiting /\ hellos' = hellos /\ sources' = sources
      /\ agreed' = agreed /\ blobs' = blobs /\ scanned' = scanned /\ heard' = heard
  BY DEF PairingOpen, IInv, TypeOK, NewSession
<1> HIDE DEF j
<1>1. TypeOK'
  BY <1>0 DEF IInv, TypeOK
<1>2. RequestsUnique' /\ HeardOnce' /\ SourcesDerive' /\ NewsDerive' /\ BlobsDerive'
  BY <1>0 DEF IInv, RequestsUnique, HeardOnce, SourcesDerive, NewsDerive, BlobsDerive
<1>3. PICK qr \in qrs, h \in heard :
        /\ qr.public = new.side /\ h.new = new.side
        /\ new.key = KeyOf(qr, h.source)
  BY DEF IInv, NewsDerive
<1>4. NewsOnce'
  BY <1>0, <1>3 DEF IInv, NewsOnce
<1>5. JoinsThroughOwnSource'
  <2>1. PICK a \in agreed, scan \in scanned :
          a.source = scan.source /\ blob.key = KeyOf(scan.request, scan.source)
    BY DEF IInv, BlobsDerive
  <2>2. /\ scan.request \in Request /\ scan.source \in SourceSide
        /\ qr \in Request /\ h.source \in SourceSide
        /\ h = [new |-> h.new, source |-> h.source]
    BY DEF IInv, TypeOK
  <2>3. /\ scan.request.public = new.side /\ h.source = scan.source
        /\ blob.key.source = a.source
    BY <1>0, <1>3, <2>1, <2>2, KeyFacts
  <2>4. Met(a.source, new.side)
    BY <1>3, <2>1, <2>2, <2>3 DEF Met
  <2>5. \A i \in joined : i.new # new.side
    BY DEF IInv, NewsOnce
  <2>6. ASSUME NEW x \in joined'
        PROVE  /\ \E c \in agreed, b \in blobs :
                    /\ Met(c.source, x.new)
                    /\ b.key.source = c.source /\ b.account = x.account
               /\ \A i \in joined' : i.new = x.new => i = x
    <3>1. CASE x = j
      BY <1>0, <2>3, <2>4, <2>5, <3>1
    <3>2. CASE x \in joined
      BY <1>0, <2>5, <3>2 DEF IInv, JoinsThroughOwnSource
    <3> QED
      BY <1>0, <3>1, <3>2
  <2>7. \A s, p : Met(s, p) => Met(s, p)'
    BY <1>0, MetGrows
  <2> QED
    BY <1>0, <2>6, <2>7 DEF JoinsThroughOwnSource
<1>6. ConfirmedHaveMet'
  BY <1>0, MeetingsKept DEF IInv
<1> QED
  BY <1>1, <1>2, <1>4, <1>5, <1>6 DEF IInv

LEMMA RestartKeeps ==
  ASSUME IInv, Restart
  PROVE  IInv'
<1>0. /\ waiting' \subseteq waiting /\ sources' \subseteq sources /\ news' \subseteq news
      /\ qrs' = qrs /\ hellos' = hellos /\ agreed' = agreed
      /\ blobs' = blobs /\ joined' = joined /\ scanned' = scanned /\ heard' = heard
  BY DEF Restart
<1>1. TypeOK'
  BY <1>0 DEF IInv, TypeOK
<1>2. RequestsUnique' /\ HeardOnce' /\ SourcesDerive' /\ NewsDerive' /\ NewsOnce' /\ BlobsDerive'
  BY <1>0 DEF IInv, RequestsUnique, HeardOnce, SourcesDerive, NewsDerive, NewsOnce, BlobsDerive
<1>3. JoinsThroughOwnSource' /\ ConfirmedHaveMet'
  BY <1>0, JoinsKept, MeetingsKept DEF IInv
<1> QED
  BY <1>1, <1>2, <1>3 DEF IInv

LEMMA StutterKeeps ==
  ASSUME IInv, UNCHANGED vars
  PROVE  IInv'
<1>0. /\ qrs' = qrs /\ waiting' = waiting /\ hellos' = hellos /\ sources' = sources
      /\ news' = news /\ agreed' = agreed /\ blobs' = blobs /\ joined' = joined
      /\ scanned' = scanned /\ heard' = heard
  BY DEF vars
<1>1. TypeOK' /\ RequestsUnique' /\ HeardOnce' /\ SourcesDerive' /\ NewsDerive'
  BY <1>0 DEF IInv, TypeOK, RequestsUnique, HeardOnce, SourcesDerive, NewsDerive
<1>2. NewsOnce' /\ BlobsDerive'
  BY <1>0 DEF IInv, NewsOnce, BlobsDerive
<1>3. JoinsThroughOwnSource' /\ ConfirmedHaveMet'
  BY <1>0, JoinsKept, MeetingsKept DEF IInv
<1> QED
  BY <1>1, <1>2, <1>3 DEF IInv

\* Every step of Next keeps the invariant.
LEMMA NextKeeps ==
  ASSUME IInv, [Next]_vars
  PROVE  IInv'
<1>1. CASE Start
  BY <1>1, StartKeeps DEF Start
<1>2. CASE Scan
  BY <1>2, ScanKeeps DEF Scan
<1>3. CASE Greet
  BY <1>3, GreetKeeps DEF Greet
<1>4. CASE Confirm
  BY <1>4, ConfirmKeeps DEF Confirm
<1>5. CASE Seal
  BY <1>5, SealKeeps DEF Seal
<1>6. CASE Open
  BY <1>6, OpenKeeps DEF Open
<1>7. CASE Restart
  BY <1>7, RestartKeeps
<1>8. CASE UNCHANGED vars
  BY <1>8, StutterKeeps
<1> QED
  BY <1>1, <1>2, <1>3, <1>4, <1>5, <1>6, <1>7, <1>8 DEF Next

\* The strengthened invariant of the pairings.
THEOREM AlwaysIInv == Spec => []IInv
<1> QED
  BY InitIInv, NextKeeps, PTL DEF Spec

\* States and messages of pairing.rs keep their shapes, in any number of sessions.
THEOREM PairingTyped == Spec => []TypeOK
<1>1. IInv => TypeOK
  BY DEF IInv
<1> QED
  BY <1>1, AlwaysIInv, PTL

(***************************************************************************)
(* pairing_open (pairing.rs:262) succeeds for a new device only on what    *)
(* the confirmed source it met has sealed, for any number of sessions and  *)
(* any function of codes.                                                  *)
(***************************************************************************)
THEOREM JoinsAreOwn == Spec => []JoinsThroughOwnSource
<1>1. IInv => JoinsThroughOwnSource
  BY DEF IInv
<1> QED
  BY <1>1, AlwaysIInv, PTL

(***************************************************************************)
(* If the codes of format_sas (pairing.rs:308) never collide, a confirmed  *)
(* source has met the device whose code was compared.                      *)
(***************************************************************************)
THEOREM ConfirmationsAreMeetings == Spec => []ConfirmedHaveMet
<1>1. IInv => ConfirmedHaveMet
  BY DEF IInv
<1> QED
  BY <1>1, AlwaysIInv, PTL
=============================================================================
