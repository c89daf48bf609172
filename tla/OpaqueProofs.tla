---------------------------- MODULE OpaqueProofs ----------------------------
(***************************************************************************)
(* Proofs about Opaque for any number of users, passwords, registrations   *)
(* and logins at once: sessions are mutual, and a login had a password of  *)
(* its account.                                                            *)
(***************************************************************************)
EXTENDS Opaque, TLAPS

\* The request of a login.
RequestOf(c) == [run |-> c.run, user |-> c.user]

\* A run is begun once, is kept once, and completes once.
LoginsOnce ==
  /\ \A q, r \in requests : q.run = r.run => q = r
  /\ \A c \in loggingIn : RequestOf(c) \in requests
  /\ \A c, d \in loggingIn : c.run = d.run => c = d
  /\ \A f \in finished : \E q \in requests : q.run = f.run
  /\ \A f \in finished, c \in loggingIn : f.run # c.run
  /\ \A f, g \in finished : f.run = g.run => f = g

\* Answers are to requests, and completed logins have the key of an answer.
AnswersKnown ==
  /\ \A r \in responses : RequestOf(r) \in requests
  /\ \A f \in finished : f.key \in responses /\ f.key.run = f.run

\* Every session was opened by a finalization of its own answer.
SessionsFinished == \A s \in sessions : \E f \in finished : f.key = s

\* What the account has for the password of a login under way is recorded.
CurrentOffered ==
  \A c \in loggingIn :
    file[c.user] # NoFile /\ file[c.user].secret.password = c.password
      => file[c.user] \in offered[c.run]

\* So is what an answer to the login was made from.
AnswersOffered ==
  \A c \in loggingIn, r \in responses :
    r.run = c.run /\ r.file # NoFile /\ r.file.secret.password = c.password
      => r.file \in offered[c.run]

IInv ==
  /\ TypeOK /\ LoginsOnce /\ AnswersKnown /\ SessionsFinished
  /\ CurrentOffered /\ AnswersOffered /\ LoginHadPassword

-----------------------------------------------------------------------------

\* The invariant gives the properties.
LEMMA IInvImplies == IInv => TypeOK /\ SessionsAreMutual /\ LoginHadPassword
<1> SUFFICES ASSUME IInv PROVE SessionsAreMutual
  BY DEF IInv
<1>1. ASSUME NEW s \in sessions
      PROVE  \E f \in finished :
               f.key = SessionKey(s) /\ [run |-> f.run, user |-> s.user] \in requests
  <2>1. PICK f \in finished : f.key = s
    BY <1>1 DEF IInv, SessionsFinished
  <2>2. s.run = f.run /\ RequestOf(s) \in requests
    BY <2>1 DEF IInv, AnswersKnown
  <2> QED
    BY <2>1, <2>2 DEF RequestOf, SessionKey
<1>2. \A f, g \in finished : g.run = f.run => g = f
  BY DEF IInv, LoginsOnce
<1> QED
  BY <1>1, <1>2 DEF SessionsAreMutual

LEMMA InitIInv == Init => IInv
<1> SUFFICES ASSUME Init PROVE IInv
  OBVIOUS
<1>1. setup \in Setup
  BY BoundsAssumption DEF Init, Setup
<1>2. TypeOK
  BY <1>1 DEF Init, TypeOK
<1> QED
  BY <1>2 DEF Init, IInv, LoginsOnce, AnswersKnown, SessionsFinished, CurrentOffered,
              AnswersOffered, LoginHadPassword

\* Steps that touch neither logins nor password files.
LEMMA Unrelated ==
  ASSUME IInv, TypeOK', file' = file, offered' = offered, UNCHANGED login
  PROVE  IInv'
BY DEF IInv, login, LoginsOnce, AnswersKnown, SessionsFinished, CurrentOffered,
       AnswersOffered, LoginHadPassword

LEMMA SetupKeeps ==
  ASSUME IInv, GenerateServerSetup
  PROVE  IInv'
<1>1. setup' \in Setup
  BY BoundsAssumption DEF IInv, TypeOK, GenerateServerSetup, Setup
<1>2. TypeOK'
  BY <1>1 DEF IInv, TypeOK, GenerateServerSetup, registration, login
<1> QED
  BY <1>2, Unrelated DEF GenerateServerSetup

LEMMA RegisterStartKeeps ==
  ASSUME IInv, NEW r \in Registration, NEW u \in User, NEW p \in Password,
         ClientRegisterStart(r, u, p)
  PROVE  IInv'
<1>1. [run |-> r, user |-> u, password |-> p] \in ClientRegistrationStart
  BY DEF ClientRegistrationStart
<1>2. [run |-> r, user |-> u] \in RegistrationRequest
  BY DEF RegistrationRequest
<1>3. TypeOK'
  BY <1>1, <1>2 DEF IInv, TypeOK, ClientRegisterStart, login
<1> QED
  BY <1>3, Unrelated DEF ClientRegisterStart

LEMMA RegisterAnswerKeeps ==
  ASSUME IInv, NEW q \in regRequests, ServerRegisterStart(q)
  PROVE  IInv'
<1>1. [run |-> q.run, user |-> q.user, setup |-> setup] \in RegistrationResponse
  BY DEF IInv, TypeOK, RegistrationRequest, RegistrationResponse
<1>2. TypeOK'
  BY <1>1 DEF IInv, TypeOK, ServerRegisterStart, login
<1> QED
  BY <1>2, Unrelated DEF ServerRegisterStart

LEMMA RegisterFinishKeeps ==
  ASSUME IInv, NEW c \in registering, NEW answer \in regResponses,
         ClientRegisterFinish(c, answer)
  PROVE  IInv'
<1> DEFINE secret == Unblind(c.password, answer, answer.run = c.run)
           upload == [user |-> c.user, file |-> [run |-> c.run, secret |-> secret]]
<1>1. c \in ClientRegistrationStart /\ answer \in RegistrationResponse
  BY DEF IInv, TypeOK
<1>2. secret \in Secret
  <2>1. (answer.run = c.run) \in BOOLEAN
    OBVIOUS
  <2> QED
    BY <1>1, <2>1 DEF Unblind, Secret, ClientRegistrationStart, RegistrationResponse
<1> HIDE DEF secret
<1>3. upload \in [user : User, file : File]
  BY <1>1, <1>2 DEF File, ClientRegistrationStart
<1>4. uploads' = uploads \cup {upload} /\ registering' = registering \ {c}
  BY DEF ClientRegisterFinish, secret
<1> HIDE DEF upload
<1>5. TypeOK'
  BY <1>3, <1>4 DEF IInv, TypeOK, ClientRegisterFinish, login
<1> QED
  BY <1>5, Unrelated DEF ClientRegisterFinish

-----------------------------------------------------------------------------

\* A new password file is recorded for the logins of its user and password.
LEMMA RegisterStoreKeeps ==
  ASSUME IInv, NEW upload \in uploads, ServerRegisterFinish(upload)
  PROVE  IInv'
<1> DEFINE news(l) == {f \in {upload.file} : \E c \in loggingIn :
              c.run = l /\ c.user = upload.user /\ c.password = f.secret.password}
<1>1. upload.user \in User /\ upload.file \in File
  BY DEF IInv, TypeOK
<1>2. /\ file' = [file EXCEPT ![upload.user] = upload.file]
      /\ offered' = [l \in Login |-> offered[l] \cup news(l)]
      /\ UNCHANGED <<setup, registration, login>>
  BY DEF ServerRegisterFinish
<1>3. \A l \in Login : news(l) \subseteq File
  BY <1>1
<1>4. \A c \in loggingIn : c.run \in Login /\ c.user \in User
  BY DEF IInv, TypeOK, ClientLoginStart
<1>5. \A c \in loggingIn :
        c.user = upload.user /\ c.password = upload.file.secret.password
          => upload.file \in news(c.run)
  OBVIOUS
<1> HIDE DEF news
<1>6. \A l \in Login : offered'[l] = offered[l] \cup news(l)
  BY <1>2
<1>7. TypeOK'
  <2>1. offered' \in [Login -> SUBSET File]
    BY <1>2, <1>3 DEF IInv, TypeOK
  <2>2. file' \in [User -> File \cup {NoFile}]
    BY <1>1, <1>2 DEF IInv, TypeOK
  <2> QED
    BY <1>2, <2>1, <2>2 DEF IInv, TypeOK, registration, login
<1>8. CurrentOffered'
  <2> SUFFICES ASSUME NEW c \in loggingIn, file'[c.user] # NoFile,
                      file'[c.user].secret.password = c.password
               PROVE  file'[c.user] \in offered'[c.run]
    BY <1>2 DEF CurrentOffered, login
  <2>1. CASE c.user = upload.user
    <3>1. file'[c.user] = upload.file
      BY <1>2, <1>4, <2>1 DEF IInv, TypeOK
    <3> QED
      BY <1>4, <1>5, <1>6, <2>1, <3>1
  <2>2. CASE c.user # upload.user
    <3>1. file'[c.user] = file[c.user]
      BY <1>2, <1>4, <2>2 DEF IInv, TypeOK
    <3> QED
      BY <1>4, <1>6, <3>1 DEF IInv, CurrentOffered
  <2> QED
    BY <2>1, <2>2
<1>9. AnswersOffered'
  BY <1>2, <1>4, <1>6 DEF IInv, AnswersOffered, login
<1>10. LoginHadPassword'
  <2>1. \A f \in finished : f.run \in Login
    BY DEF IInv, TypeOK, ClientLoginFinish
  <2> QED
    BY <1>2, <1>6, <2>1 DEF IInv, LoginHadPassword, login
<1>11. LoginsOnce' /\ AnswersKnown' /\ SessionsFinished'
  BY <1>2 DEF IInv, LoginsOnce, AnswersKnown, SessionsFinished, login
<1> QED
  BY <1>7, <1>8, <1>9, <1>10, <1>11 DEF IInv

\* A login begins with a run of its own, and what its account has is recorded.
LEMMA BeginKeeps ==
  ASSUME IInv, NEW l \in Login, NEW u \in User, NEW p \in Password, BeginLogin(l, u, p)
  PROVE  IInv'
<1> DEFINE c0   == [run |-> l, user |-> u, password |-> p]
           now  == {f \in {file[u]} \ {NoFile} : f.secret.password = p}
<1>1. c0 \in ClientLoginStart /\ c0.run = l /\ c0.user = u /\ c0.password = p
  BY DEF ClientLoginStart
<1>2. RequestOf(c0) \in CredentialRequest /\ RequestOf(c0).run = l
  BY DEF RequestOf, CredentialRequest
<1>3. /\ loggingIn' = loggingIn \cup {c0}
      /\ requests' = requests \cup {RequestOf(c0)}
      /\ offered' = [offered EXCEPT ![l] = now]
      /\ \A q \in requests : q.run # l
      /\ UNCHANGED <<setup, registration, file, responses, awaiting, finished, sessions>>
  BY DEF BeginLogin, IsNext, RequestOf
<1>4. now \subseteq File
  BY DEF IInv, TypeOK
<1>5. file[u] # NoFile /\ file[u].secret.password = p => file[u] \in now
  OBVIOUS
<1> HIDE DEF c0, now
<1>6. TypeOK'
  <2>1. offered' \in [Login -> SUBSET File]
    BY <1>3, <1>4 DEF IInv, TypeOK
  <2> QED
    BY <1>1, <1>2, <1>3, <2>1 DEF IInv, TypeOK, registration
<1>7. /\ \A c \in loggingIn : c.run # l
      /\ \A r \in responses : r.run # l
      /\ \A f \in finished : f.run # l
  BY <1>3 DEF IInv, LoginsOnce, AnswersKnown, RequestOf
<1>8. offered'[l] = now /\ \A k \in Login : k # l => offered'[k] = offered[k]
  BY <1>3 DEF IInv, TypeOK
<1>9. LoginsOnce' /\ AnswersKnown' /\ SessionsFinished'
  <2>1. LoginsOnce'
    BY <1>1, <1>2, <1>3, <1>7 DEF IInv, LoginsOnce
  <2> QED
    BY <1>3, <2>1 DEF IInv, AnswersKnown, SessionsFinished
<1>10. \A c \in loggingIn : c.run \in Login
  BY DEF IInv, TypeOK, ClientLoginStart
<1>11. CurrentOffered'
  BY <1>1, <1>3, <1>5, <1>7, <1>8, <1>10 DEF IInv, CurrentOffered
<1>12. AnswersOffered'
  BY <1>1, <1>3, <1>7, <1>8, <1>10 DEF IInv, AnswersOffered
<1>13. LoginHadPassword'
  <2>1. \A f \in finished : f.run \in Login
    BY DEF IInv, TypeOK, ClientLoginFinish
  <2> QED
    BY <1>3, <1>7, <1>8, <2>1 DEF IInv, LoginHadPassword
<1> QED
  BY <1>6, <1>9, <1>11, <1>12, <1>13 DEF IInv

\* An answer is made from the file the account has, which is recorded.
LEMMA AnswerKeeps ==
  ASSUME IInv, NEW a \in Answer, NEW q \in requests, AnswerLogin(a, q)
  PROVE  IInv'
<1> DEFINE answer == [id |-> a, run |-> q.run, user |-> q.user, setup |-> setup,
                      file |-> file[q.user]]
<1>1. q.run \in Login /\ q.user \in User /\ q = [run |-> q.run, user |-> q.user]
  BY DEF IInv, TypeOK, CredentialRequest
<1>2. answer \in ServerLoginStart
  BY <1>1 DEF IInv, TypeOK, ServerLoginStart
<1>3. answer.run = q.run /\ answer.user = q.user /\ answer.file = file[q.user]
  OBVIOUS
<1>4. RequestOf(answer) \in requests
  BY <1>1 DEF RequestOf
<1>5. /\ responses' = responses \cup {answer} /\ awaiting' = awaiting \cup {answer}
      /\ UNCHANGED <<setup, registration, file, loggingIn, requests, finished, sessions, offered>>
  BY DEF AnswerLogin
<1> HIDE DEF answer
<1>6. TypeOK'
  BY <1>2, <1>5 DEF IInv, TypeOK, registration
<1>7. LoginsOnce' /\ AnswersKnown' /\ SessionsFinished'
  BY <1>4, <1>5 DEF IInv, LoginsOnce, AnswersKnown, SessionsFinished
<1>8. AnswersOffered'
  <2>1. ASSUME NEW c \in loggingIn, c.run = q.run
        PROVE  c.user = q.user
    <3>1. RequestOf(c) \in requests /\ RequestOf(c).run = q.run /\ RequestOf(c).user = c.user
      BY <2>1 DEF IInv, LoginsOnce, RequestOf
    <3>2. RequestOf(c) = q
      BY <3>1 DEF IInv, LoginsOnce
    <3> QED
      BY <3>1, <3>2
  <2>2. ASSUME NEW c \in loggingIn, answer.run = c.run, answer.file # NoFile,
               answer.file.secret.password = c.password
        PROVE  answer.file \in offered[c.run]
    BY <1>3, <2>1, <2>2 DEF IInv, CurrentOffered
  <2> QED
    BY <1>5, <2>2 DEF IInv, AnswersOffered
<1>9. CurrentOffered' /\ LoginHadPassword'
  BY <1>5 DEF IInv, CurrentOffered, LoginHadPassword
<1> QED
  BY <1>6, <1>7, <1>8, <1>9 DEF IInv

\* A login completes with an answer whose file is of the password typed.
LEMMA FinishClientKeeps ==
  ASSUME IInv, NEW c \in loggingIn, NEW answer \in responses, FinishClientLogin(c, answer)
  PROVE  IInv'
<1> DEFINE f0 == [run |-> c.run, key |-> SessionKey(answer), export |-> answer.file.run]
<1>1. /\ answer.run = c.run /\ answer.file # NoFile
      /\ answer.file.secret.password = c.password
  BY DEF FinishClientLogin, Opens, Unblind
<1>2. answer \in ServerLoginStart /\ c \in ClientLoginStart
  BY DEF IInv, TypeOK
<1>3. answer.file \in File
  BY <1>1, <1>2 DEF ServerLoginStart
<1>4. f0 \in ClientLoginFinish
  BY <1>2, <1>3 DEF ClientLoginFinish, ClientLoginStart, SessionKey, File
<1>5. f0.run = c.run /\ f0.key = answer /\ f0.export = answer.file.run
  BY DEF SessionKey
<1>6. /\ finished' = finished \cup {f0} /\ loggingIn' = loggingIn \ {c}
      /\ UNCHANGED <<setup, registration, file, requests, responses, awaiting, sessions, offered>>
  BY DEF FinishClientLogin
<1> HIDE DEF f0
<1>7. TypeOK'
  BY <1>4, <1>6 DEF IInv, TypeOK, registration
<1>8. LoginsOnce'
  <2>1. RequestOf(c) \in requests /\ RequestOf(c).run = c.run
    BY DEF IInv, LoginsOnce, RequestOf
  <2> QED
    BY <1>5, <1>6, <2>1 DEF IInv, LoginsOnce
<1>9. AnswersKnown' /\ SessionsFinished'
  BY <1>1, <1>5, <1>6 DEF IInv, AnswersKnown, SessionsFinished
<1>10. CurrentOffered' /\ AnswersOffered'
  BY <1>6 DEF IInv, CurrentOffered, AnswersOffered
<1>11. LoginHadPassword'
  <2>1. answer.file \in offered[c.run]
    BY <1>1 DEF IInv, AnswersOffered
  <2> QED
    BY <1>5, <1>6, <2>1 DEF IInv, LoginHadPassword
<1> QED
  BY <1>7, <1>8, <1>9, <1>10, <1>11 DEF IInv

LEMMA FinishServerKeeps ==
  ASSUME IInv, NEW s \in awaiting, NEW f \in finished, FinishServerLogin(s, f)
  PROVE  IInv'
<1>1. /\ f.key = s /\ sessions' = sessions \cup {s} /\ awaiting' = awaiting \ {s}
      /\ UNCHANGED <<setup, registration, file, loggingIn, requests, responses, finished, offered>>
  BY DEF FinishServerLogin, SessionKey
<1>2. TypeOK'
  BY <1>1 DEF IInv, TypeOK, registration
<1> QED
  BY <1>1, <1>2 DEF IInv, LoginsOnce, AnswersKnown, SessionsFinished, CurrentOffered,
                    AnswersOffered, LoginHadPassword

-----------------------------------------------------------------------------

LEMMA StepIInv == IInv /\ [Next]_vars => IInv'
<1> SUFFICES ASSUME IInv, [Next]_vars PROVE IInv'
  OBVIOUS
<1>1. CASE GenerateServerSetup
  BY <1>1, SetupKeeps
<1>2. CASE Register
  BY <1>2, RegisterStartKeeps, RegisterAnswerKeeps, RegisterFinishKeeps, RegisterStoreKeeps
     DEF Register
<1>3. CASE LogIn
  BY <1>3, BeginKeeps, AnswerKeeps, FinishClientKeeps, FinishServerKeeps
     DEF LogIn, FinishClient, FinishServer
<1>4. CASE UNCHANGED vars
  <2>1. TypeOK'
    BY <1>4 DEF IInv, TypeOK, vars, registration, login
  <2> QED
    BY <1>4, <2>1, Unrelated DEF vars
<1> QED
  BY <1>1, <1>2, <1>3, <1>4 DEF Next

LEMMA AlwaysIInv == Spec => []IInv
  BY InitIInv, StepIInv, PTL DEF Spec

\* TypeOK for every number of users, runs and answers (auth/mod.rs).
THEOREM LoginsTyped == Spec => []TypeOK
  BY AlwaysIInv, IInvImplies, PTL

\* SessionsAreMutual: client and server agree on the key and on the user,
\* however runs and answers are mixed up (auth/mod.rs:310).
THEOREM SessionsMutual == Spec => []SessionsAreMutual
  BY AlwaysIInv, IInvImplies, PTL

\* LoginHadPassword: a login completes only with a password its account had
\* while it was under way (auth/mod.rs:280).
THEOREM LoginsHadPassword == Spec => []LoginHadPassword
  BY AlwaysIInv, IInvImplies, PTL
=============================================================================
