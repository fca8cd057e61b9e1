-------------------------- MODULE CredentialDialog --------------------------
(***************************************************************************)
(* The login dialog (HccUxNewCredentialDialog.cpp): a worker thread asks   *)
(* the service for an authorization code, tells the main thread to show    *)
(* its QR code, polls until the user has confirmed it elsewhere, and tells *)
(* the main thread to get the token.  Both threads use m_Code,             *)
(* m_CodeVerifier and m_RedirectUri without a lock; the main thread's      *)
(* slots run when its event loop gets to the queued signals.               *)
(***************************************************************************)
EXTENDS Naturals, Sequences

CONSTANTS
  Verifiers,   \* code verifiers
  NoVerifier,  \* the empty string
  MaxCodes     \* bound: codes the service issues

ASSUME VerifiersAssumption == NoVerifier \notin Verifiers /\ MaxCodes \in Nat

\* Codes are numbered as they are issued, each with its link; 0 is the empty
\* string.
Codes == 1 .. MaxCodes

VARIABLES
  states,      \* the service: the state of each code issued, in order
  challenges,  \* the service: the verifier behind each code's challenge
  verifier,    \* m_CodeVerifier
  code,        \* m_Code
  uri,         \* m_RedirectUri
  stop,        \* m_AuthenticateThreadStopRequested
  worker,      \* where the worker is
  signals,     \* signals queued for the main thread
  main,        \* where the main thread is
  shown,       \* the link in the QR code on the screen
  failed       \* history: the service has told the worker of a failure

service == << states, challenges >>
fields == << verifier, code, uri >>
dialog == << stop, worker, signals, main, shown, failed >>
vars == << service, fields, dialog >>

Init ==
  /\ states = << >> /\ challenges = << >>
  /\ verifier = NoVerifier /\ code = 0 /\ uri = 0
  /\ stop = FALSE
  /\ worker = "loop"
  /\ signals = << >>
  /\ main = "exec"
  /\ shown = 0
  /\ failed = FALSE

-----------------------------------------------------------------------------
(* The service and the user's other device.                                *)

Confirm(c) ==
  /\ c \in DOMAIN states
  /\ states[c] \in {"pending login", "pending confirmation"}
  /\ states' = [states EXCEPT ![c] = IF states[c] = "pending login"
                                     THEN "pending confirmation" ELSE "token created"]
  /\ UNCHANGED << challenges, fields, dialog >>

\* A code runs out, or the user declines.
Expire(c) ==
  /\ c \in DOMAIN states
  /\ states[c] \notin {"success", "failed"}
  /\ states' = [states EXCEPT ![c] = "failed"]
  /\ UNCHANGED << challenges, fields, dialog >>

-----------------------------------------------------------------------------
(* AuthenticateWorker.                                                     *)

ClearAuthenticateState == verifier' = NoVerifier /\ code' = 0 /\ uri' = 0

\* Seeded fault: the loop does not look at the flag.
NeverStops == FALSE

Stops == stop

StopRequested ==
  /\ worker = "loop"
  /\ Stops
  /\ worker' = "ended"
  /\ UNCHANGED << service, fields, stop, signals, main, shown, failed >>

\* Seeded fault: the verifier that was cleared is used.
KeepVerifier == UNCHANGED verifier

GenerateCodeVerifier ==
  \E v \in Verifiers \ {challenges[i] : i \in DOMAIN challenges} : verifier' = v

\* A new verifier; Authorize clears the code and the link, then posts.
BeginAuthorize ==
  /\ worker = "loop" /\ ~Stops
  /\ code = 0
  /\ GenerateCodeVerifier
  /\ code' = 0 /\ uri' = 0
  /\ worker' = "authorize"
  /\ UNCHANGED << service, stop, signals, main, shown, failed >>

Issue ==
  /\ Len(states) < MaxCodes
  /\ states' = Append(states, "pending login")
  /\ challenges' = Append(challenges, verifier)

\* Seeded fault: the main thread is not told of the new link.
ShowLater == UNCHANGED signals

EmitUpdateContent == signals' = Append(signals, "UpdateContent")

\* Authorize assigns the code of the answer, and then the link.
AuthorizeReplies ==
  /\ worker = "authorize"
  /\ Issue
  /\ code' = Len(states')
  /\ worker' = "link"
  /\ UNCHANGED << verifier, uri, stop, signals, main, shown, failed >>

AssignLink ==
  /\ worker = "link"
  /\ uri' = code
  /\ worker' = "signal"
  /\ UNCHANGED << service, verifier, code, stop, signals, main, shown, failed >>

\* The main thread is told of the link when both are there.
SignalContent ==
  /\ worker = "signal"
  /\ EmitUpdateContent
  /\ worker' = "sleep"
  /\ UNCHANGED << service, fields, stop, main, shown, failed >>

\* The request throws, with or without having reached the service.
AuthorizeThrows ==
  /\ worker = "authorize"
  /\ Issue \/ UNCHANGED service
  /\ ClearAuthenticateState
  /\ worker' = "sleep"
  /\ UNCHANGED << stop, signals, main, shown, failed >>

Polls == worker = "loop" /\ ~Stops /\ code # 0

PollThrows ==
  /\ Polls
  /\ worker' = "sleep"
  /\ UNCHANGED << service, fields, stop, signals, main, shown, failed >>

\* Seeded fault: the state that ends the wait is the one after the token was
\* fetched.
EndsAtSuccess(s) == s = "success"

TokenCreated(s) == s = "token created"

PollPending ==
  /\ Polls
  /\ states[code] # "failed" /\ ~TokenCreated(states[code])
  /\ worker' = "sleep"
  /\ UNCHANGED << service, fields, stop, signals, main, shown, failed >>

\* AuthorizeState::Failed: the fields are cleared, and the thread returns.
PollFailed ==
  /\ Polls
  /\ states[code] = "failed"
  /\ ClearAuthenticateState
  /\ worker' = "ended"
  /\ failed' = TRUE
  /\ UNCHANGED << service, stop, signals, main, shown >>

\* Seeded fault: the loop goes on after the signal.
GoOn == worker' = "sleep"

Terminate == worker' = "ended"

PollTokenCreated ==
  /\ Polls
  /\ TokenCreated(states[code])
  /\ signals' = Append(signals, "LoginSucceeded")
  /\ Terminate
  /\ UNCHANGED << service, fields, stop, main, shown, failed >>

WakeUp ==
  /\ worker = "sleep"
  /\ worker' = "loop"
  /\ UNCHANGED << service, fields, stop, signals, main, shown, failed >>

-----------------------------------------------------------------------------
(* The main thread, in exec.                                               *)

NextSignal(s) == main = "exec" /\ signals # << >> /\ Head(signals) = s

\* The link in m_RedirectUri is shown; one that is too long for a QR code
\* throws out of the slot, which ends the program.
UpdateContent ==
  /\ NextSignal("UpdateContent")
  /\ signals' = Tail(signals)
  /\ \/ shown' = uri /\ UNCHANGED main
     \/ uri # 0 /\ main' = "terminated" /\ UNCHANGED shown
  /\ UNCHANGED << service, fields, stop, worker, failed >>

\* LoginSucceeded posts the request for the token ...
RequestToken ==
  /\ NextSignal("LoginSucceeded")
  /\ main' = "get token"
  /\ signals' = Tail(signals)
  /\ UNCHANGED << service, fields, stop, worker, shown, failed >>

\* ... and takes it,
TokenArrives ==
  /\ main = "get token"
  /\ code # 0 /\ states[code] = "token created" /\ challenges[code] = verifier
  /\ states' = [states EXCEPT ![code] = "success"]
  /\ ClearAuthenticateState
  /\ main' = "accepted"
  /\ UNCHANGED << challenges, stop, worker, signals, shown, failed >>

\* ... or throws out of the slot, which ends the program.
TokenRefused ==
  /\ main = "get token"
  /\ main' = "terminated"
  /\ UNCHANGED << service, fields, stop, worker, signals, shown, failed >>

\* closeEvent: the flag is set and the worker joined; no slot runs meanwhile.
Close ==
  /\ main = "exec"
  /\ stop' = TRUE
  /\ main' = "join"
  /\ UNCHANGED << service, fields, worker, signals, shown, failed >>

Join ==
  /\ main = "join"
  /\ worker = "ended"
  /\ main' = "rejected"
  /\ UNCHANGED << service, fields, stop, worker, signals, shown, failed >>

\* The Escape key: QDialog's reject hides the dialog without a closeEvent.
Escape ==
  /\ main = "exec"
  /\ main' = "rejected"
  /\ UNCHANGED << service, fields, stop, worker, signals, shown, failed >>

-----------------------------------------------------------------------------
\* The process ends with the main thread, which goes on after a login.
Alive == main \in {"exec", "get token", "join", "accepted"}

Worker ==
  /\ Alive
  /\ \/ StopRequested \/ BeginAuthorize
     \/ AuthorizeReplies \/ AssignLink \/ SignalContent \/ AuthorizeThrows
     \/ PollThrows \/ PollPending \/ PollFailed \/ PollTokenCreated
     \/ WakeUp

Slots == UpdateContent \/ RequestToken \/ TokenArrives \/ TokenRefused \/ Join

Next ==
  \/ Worker
  \/ Slots
  \/ Close \/ Escape
  \/ Alive /\ \E c \in Codes : Confirm(c) \/ Expire(c)

Spec == Init /\ [][Next]_vars

\* Both threads go on and requests return or throw; a service that is polled
\* again and again answers again and again.
FairSpec ==
  /\ Spec
  /\ WF_vars(Worker)
  /\ WF_vars(Slots)
  /\ SF_vars(Alive /\ PollTokenCreated)
  /\ SF_vars(Alive /\ PollFailed)
  /\ SF_vars(Alive /\ AuthorizeReplies)

-----------------------------------------------------------------------------
States == {"pending login", "pending confirmation", "token created", "success", "failed"}
Signals == {"UpdateContent", "LoginSucceeded"}

TypeOK ==
  /\ states \in Seq(States)
  /\ challenges \in Seq(Verifiers)
  /\ Len(states) = Len(challenges) /\ Len(states) <= MaxCodes
  /\ verifier \in Verifiers \cup {NoVerifier}
  /\ code \in 0 .. Len(states) /\ uri \in 0 .. Len(states)
  /\ stop \in BOOLEAN
  /\ worker \in {"loop", "authorize", "link", "signal", "sleep", "ended"}
  /\ signals \in Seq(Signals)
  /\ main \in {"exec", "get token", "join", "accepted", "rejected", "terminated"}
  /\ shown \in Codes \cup {0}
  /\ failed \in BOOLEAN

\* Although nothing guards the fields, the token is asked for with a code and
\* the very verifier that code was issued for: the worker is gone, and has
\* left them alone, when the main thread gets to the signal.
TokenAskedWithItsVerifier ==
  main = "get token" => code # 0 /\ challenges[code] = verifier

\* The worker's rounds between the authorization and its end.
Polling == worker \in {"loop", "sleep"}

\* The QR code on the screen is the one the worker polls for, as soon as the
\* main thread has caught up with the signals: a link is assigned before its
\* signal is sent.
ShownIsPolled == Alive /\ code # 0 /\ signals = << >> /\ Polling => shown = code

\* A dialog the user closes does close, whatever the worker is doing: it sees
\* the flag, and needs no slot of the main thread to get there.
CloseEnds == main = "join" ~> main = "rejected"

\* A user who confirms a code in time is logged in, or the token's request
\* fails, or they close the dialog: no reply is waited for in vain.
ConfirmedIsNoticed ==
  (code # 0 /\ states[code] = "token created" /\ main = "exec")
    ~> (main # "exec" \/ failed)

\* "Regenerate the authorization" (HccUxNewCredentialDialog.cpp:133): after a
\* failure the dialog gets another code as long as the user keeps it open.
FailureRegenerates == failed /\ main = "exec" ~> code # 0 \/ main # "exec"
=============================================================================
