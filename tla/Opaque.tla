------------------------------- MODULE Opaque -------------------------------
(***************************************************************************)
(* OPAQUE registration and login, src/auth/mod.rs, with several runs of    *)
(* each at once: an account may be registered again, under another         *)
(* password or the same, while logins into it are under way.               *)
(*                                                                         *)
(* The functions keep nothing.  The sets below are what their callers keep *)
(* between two of them, for as long as the comments of the code say, and   *)
(* what they relay: late, again, or to another run.  A call that returns   *)
(* an error changes nothing and is no step.                                *)
(*                                                                         *)
(* The library opaque-ke is ideal.  A run is named by the randomness its   *)
(* first call draws.  Unblinding an answer with one's own password gives   *)
(* the account's secret for that password; it gives a value nobody else    *)
(* has when the answer is to another run.                                  *)
(***************************************************************************)
EXTENDS Naturals

CONSTANTS
  User, Password,
  NoFile,             (* no password file for this user                    *)
  MaxRegistration,    (* the bounds on the calls of client_register_start, *)
  MaxLogin,           (* of client_login_start,                            *)
  MaxAnswer,          (* of server_login_start                             *)
  MaxSetup            (* and of generate_server_setup                      *)

Registration == 1 .. MaxRegistration
Login        == 1 .. MaxLogin
Answer       == 1 .. MaxAnswer
Setup        == 1 .. MaxSetup

Secret == [password : Password, user : User, setup : Setup, own : BOOLEAN]
File   == [run : Registration, secret : Secret]   \* a password file, or its upload

ASSUME BoundsAssumption == {MaxRegistration, MaxLogin, MaxAnswer, MaxSetup} \subseteq Nat \ {0}
ASSUME NoFileAssumption   == NoFile \notin File

ClientRegistrationStart == [run : Registration, user : User, password : Password]
RegistrationRequest     == [run : Registration, user : User]
RegistrationResponse    == [run : Registration, user : User, setup : Setup]
ClientLoginStart        == [run : Login, user : User, password : Password]
CredentialRequest       == [run : Login, user : User]
ServerLoginStart        == [id : Answer, run : Login, user : User, setup : Setup,
                            file : File \cup {NoFile}]   \* state and response
ClientLoginFinish       == [run : Login, key : ServerLoginStart, export : Registration]

VARIABLES
  setup,        (* the server secret                                       *)
  registering,  (* the states of registrations clients keep                *)
  regRequests, regResponses, uploads,
  file,         (* file[u]: the password file stored for u                 *)
  loggingIn,    (* the states of logins clients keep                       *)
  requests, responses,
  awaiting,     (* the states of logins the server keeps                   *)
  finished,     (* the logins clients completed, with their finalizations  *)
  sessions,     (* the sessions the server opened                          *)
  offered       (* history: offered[l], the files the account of a login   *)
                (* had for the password typed, while it was under way      *)

registration == <<registering, regRequests, regResponses, uploads>>
login        == <<loggingIn, requests, responses, awaiting, finished, sessions>>
vars         == <<setup, registration, file, login, offered>>

Init ==
  /\ setup = 1
  /\ registering = {} /\ regRequests = {} /\ regResponses = {} /\ uploads = {}
  /\ file = [u \in User |-> NoFile]
  /\ loggingIn = {} /\ requests = {} /\ responses = {}
  /\ awaiting = {} /\ finished = {} /\ sessions = {}
  /\ offered = [l \in Login |-> {}]

-----------------------------------------------------------------------------

\* Calls are numbered in the order they are made.
IsNext(n, used) == n \notin used /\ 1 .. (n - 1) \subseteq used

\* What unblinding an answer gives, to the run that typed a password.
Unblind(password, answer, own) ==
  [password |-> password, user |-> answer.user, setup |-> answer.setup, own |-> own]

\* The key exchange is over all that the two sides sent.
SessionKey(response) == response

\* generate_server_setup: a server installed without the secret it had.
GenerateServerSetup ==
  /\ setup < MaxSetup
  /\ setup' = setup + 1
  /\ UNCHANGED <<registration, file, login, offered>>

ClientRegisterStart(r, u, p) ==
  /\ IsNext(r, {q.run : q \in regRequests})
  /\ registering' = registering \cup {[run |-> r, user |-> u, password |-> p]}
  /\ regRequests' = regRequests \cup {[run |-> r, user |-> u]}
  /\ UNCHANGED <<setup, regResponses, uploads, file, login, offered>>

ServerRegisterStart(q) ==
  /\ regResponses' = regResponses \cup {[run |-> q.run, user |-> q.user, setup |-> setup]}
  /\ UNCHANGED <<setup, registering, regRequests, uploads, file, login, offered>>

\* client_register_finish cannot tell which run an answer is for.  It draws a
\* new envelope, whence an export key that no other registration has.
ClientRegisterFinish(c, answer) ==
  /\ uploads' = uploads \cup
       {[user |-> c.user,
         file |-> [run    |-> c.run,
                   secret |-> Unblind(c.password, answer, answer.run = c.run)]]}
  /\ registering' = registering \ {c}
  /\ UNCHANGED <<setup, regRequests, regResponses, file, login, offered>>

\* server_register_finish: the file replaces the one the account had.
ServerRegisterFinish(upload) ==
  /\ file'    = [file EXCEPT ![upload.user] = upload.file]
  /\ offered' = [l \in Login |-> offered[l] \cup
                   {f \in {upload.file} : \E c \in loggingIn :
                      c.run = l /\ c.user = upload.user /\ c.password = f.secret.password}]
  /\ UNCHANGED <<setup, registration, login>>

BeginLogin(l, u, p) ==
  /\ IsNext(l, {q.run : q \in requests})
  /\ loggingIn' = loggingIn \cup {[run |-> l, user |-> u, password |-> p]}
  /\ requests'  = requests \cup {[run |-> l, user |-> u]}
  /\ offered'   = [offered EXCEPT ![l] =
                    {f \in {file[u]} \ {NoFile} : f.secret.password = p}]
  /\ UNCHANGED <<setup, registration, file, responses, awaiting, finished, sessions>>

\* A slip in server_login_start: the state kept is not that of the answer.
AnswerUnrelated(a, q) ==
  LET answer == [id |-> a, run |-> q.run, user |-> q.user, setup |-> setup,
                 file |-> file[q.user]]
  IN  /\ IsNext(a, {r.id : r \in responses})
      /\ responses' = responses \cup {answer}
      /\ awaiting'  = awaiting \cup {[answer EXCEPT !.file = NoFile]}
      /\ UNCHANGED <<setup, registration, file, loggingIn, requests, finished,
                     sessions, offered>>

\* server_login_start answers an unknown user too.
AnswerLogin(a, q) ==
  LET answer == [id |-> a, run |-> q.run, user |-> q.user, setup |-> setup,
                 file |-> file[q.user]]
  IN  /\ IsNext(a, {r.id : r \in responses})
      /\ responses' = responses \cup {answer}
      /\ awaiting'  = awaiting \cup {answer}
      /\ UNCHANGED <<setup, registration, file, loggingIn, requests, finished,
                     sessions, offered>>

\* A slip in client_login_finish: the envelope is not authenticated.
OpensUnchecked(c, answer) == answer.run = c.run /\ answer.file # NoFile

\* The answer is to this run, and the envelope opens.
Opens(c, answer) ==
  /\ answer.run = c.run
  /\ answer.file # NoFile
  /\ answer.file.secret = Unblind(c.password, answer, TRUE)

FinishClientLogin(c, answer) ==
  /\ Opens(c, answer)
  /\ finished'  = finished \cup {[run |-> c.run, key |-> SessionKey(answer),
                                  export |-> answer.file.run]}
  /\ loggingIn' = loggingIn \ {c}
  /\ UNCHANGED <<setup, registration, file, requests, responses, awaiting,
                 sessions, offered>>

\* A slip in server_login_finish: any finalization of the login will do.
AcceptOfRun(s, f) ==
  /\ f.run = s.run
  /\ sessions' = sessions \cup {s}
  /\ awaiting' = awaiting \ {s}
  /\ UNCHANGED <<setup, registration, file, loggingIn, requests, responses,
                 finished, offered>>

\* A slip in server_login_finish: the account's file is looked up again.
AcceptIfCurrent(s, f) ==
  /\ f.key = SessionKey(s) /\ file[s.user] = s.file
  /\ sessions' = sessions \cup {s}
  /\ awaiting' = awaiting \ {s}
  /\ UNCHANGED <<setup, registration, file, loggingIn, requests, responses,
                 finished, offered>>

\* server_login_finish: the finalization proves the key the server derived.
FinishServerLogin(s, f) ==
  /\ f.key = SessionKey(s)
  /\ sessions' = sessions \cup {s}
  /\ awaiting' = awaiting \ {s}
  /\ UNCHANGED <<setup, registration, file, loggingIn, requests, responses,
                 finished, offered>>

Register ==
  \/ \E r \in Registration, u \in User, p \in Password : ClientRegisterStart(r, u, p)
  \/ \E q \in regRequests : ServerRegisterStart(q)
  \/ \E c \in registering, answer \in regResponses : ClientRegisterFinish(c, answer)
  \/ \E upload \in uploads : ServerRegisterFinish(upload)

FinishClient == \E c \in loggingIn, answer \in responses : FinishClientLogin(c, answer)
FinishServer == \E s \in awaiting, f \in finished : FinishServerLogin(s, f)

LogIn ==
  \/ \E l \in Login, u \in User, p \in Password : BeginLogin(l, u, p)
  \/ \E a \in Answer, q \in requests : AnswerLogin(a, q)
  \/ FinishClient
  \/ FinishServer

Next == GenerateServerSetup \/ Register \/ LogIn

Spec == Init /\ [][Next]_vars

FairSpec == Spec /\ WF_vars(FinishClient) /\ WF_vars(FinishServer)

-----------------------------------------------------------------------------

\* States and messages have their shapes.
TypeOK ==
  /\ setup        \in Setup
  /\ registering  \subseteq ClientRegistrationStart
  /\ regRequests  \subseteq RegistrationRequest
  /\ regResponses \subseteq RegistrationResponse
  /\ uploads      \subseteq [user : User, file : File]
  /\ file         \in [User -> File \cup {NoFile}]
  /\ loggingIn    \subseteq ClientLoginStart
  /\ requests     \subseteq CredentialRequest
  /\ responses    \subseteq ServerLoginStart
  /\ awaiting     \subseteq responses
  /\ finished     \subseteq ClientLoginFinish
  /\ sessions     \subseteq responses
  /\ offered      \in [Login -> SUBSET File]

(***************************************************************************)
(* "La session_key (doit egaler celle du client)" (auth/mod.rs:310): a     *)
(* session the server opens has the key of a completed login of its user,  *)
(* and that login completed with no other key, though a request may be     *)
(* answered twice and answers reach other runs.                            *)
(***************************************************************************)
SessionsAreMutual ==
  \A s \in sessions :
    /\ \E f \in finished : f.key = SessionKey(s) /\ [run |-> f.run, user |-> s.user] \in requests
    /\ \A f, g \in finished : f.key = SessionKey(s) /\ g.run = f.run => g = f

(***************************************************************************)
(* "Echoue si le mot de passe est faux" (auth/mod.rs:280), while the       *)
(* account is registered again: a login completes only with a password the *)
(* account had at some moment since the login began, and its export key is *)
(* then that of the registration.                                          *)
(***************************************************************************)
LoginHadPassword ==
  \A f \in finished : \E d \in offered[f.run] : d.run = f.export /\ d = f.key.file

\* The answer is from a registration of the password typed, under the same
\* server secret and itself answered as it should be.
RightPassword(c, answer) ==
  /\ answer.run = c.run
  /\ answer.file # NoFile
  /\ answer.file.secret.password = c.password
  /\ answer.file.secret.own /\ answer.file.secret.setup = answer.setup

(***************************************************************************)
(* A login answered from a registration of its own password completes on   *)
(* both sides, although the account is registered again or the server's    *)
(* secret replaced before the finalization arrives (auth/mod.rs:248: the   *)
(* server's state is that of the answer).                                  *)
(***************************************************************************)
LoginCompletes ==
  \A l \in Login :
    (\E c \in loggingIn, answer \in responses : c.run = l /\ RightPassword(c, answer))
      ~> (\E s \in sessions : s.run = l)
=============================================================================
