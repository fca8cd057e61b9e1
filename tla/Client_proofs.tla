---------------------------- MODULE Client_proofs ----------------------------
(***************************************************************************)
(* Theorems about the program: the login dialog and the FUSE worker, for   *)
(* any code verifiers, any number of codes and any threads of the drive.   *)
(***************************************************************************)
EXTENDS Client, SequenceTheorems, TLAPS

(***************************************************************************)
(* The login dialog.                                                       *)
(***************************************************************************)
In(signal) == \E i \in 1 .. Len(signals) : signals[i] = signal

\* The main thread has the signal to get the token before it, or has taken it.
TokenIsDue == main = "get token" \/ (main = "exec" /\ In("LoginSucceeded"))

\* While the worker polls, the code is the one its verifier was sent for and
\* the link is that code's; the worker clears the fields only before it asks
\* for others, and assigns the code before the link.
FieldsMatch ==
  /\ worker = "authorize" => code = 0 /\ verifier \in Verifiers
  /\ code # 0 /\ worker # "ended" => challenges[code] = verifier
  /\ code # 0 /\ (Polling \/ worker = "signal") => uri = code

\* The worker has left before the main thread gets the token, and it has left
\* the fields as they were.
LeftFieldsAlone ==
  /\ TokenIsDue => worker = "ended" /\ code # 0 /\ challenges[code] = verifier
  /\ main = "accepted" => worker = "ended"

\* A code that is not on the screen yet has a signal under way.
ShownOrSignalled ==
  Alive /\ code # 0 /\ Polling => shown = code \/ In("UpdateContent")

DialogInv == TypeOK /\ FieldsMatch /\ LeftFieldsAlone /\ ShownOrSignalled


\* What the queue of signals holds after a signal is posted, and after one is
\* taken.
LEMMA AppendElements ==
  ASSUME NEW S, NEW q \in Seq(S), NEW s \in S
  PROVE  /\ Append(q, s) \in Seq(S)
         /\ Len(Append(q, s)) = Len(q) + 1
         /\ \A i \in 1 .. Len(q) : Append(q, s)[i] = q[i]
         /\ Append(q, s)[Len(q) + 1] = s
OBVIOUS

LEMMA TailElements ==
  ASSUME NEW S, NEW q \in Seq(S), q # << >>
  PROVE  /\ Tail(q) \in Seq(S)
         /\ Len(Tail(q)) = Len(q) - 1 /\ Len(q) \in Nat \ {0}
         /\ \A i \in 1 .. Len(q) - 1 : Tail(q)[i] = q[i + 1]
         /\ Head(q) = q[1] /\ Head(q) \in S
OBVIOUS

LEMMA Posted ==
  ASSUME signals \in Seq(Signals), NEW s \in Signals, signals' = Append(signals, s)
  PROVE  /\ signals' \in Seq(Signals)
         /\ \A t : In(t)' <=> In(t) \/ t = s
<1>1. /\ signals' \in Seq(Signals)
      /\ Len(signals') = Len(signals) + 1 /\ Len(signals) \in Nat
      /\ \A i \in 1 .. Len(signals) : signals'[i] = signals[i]
      /\ signals'[Len(signals) + 1] = s
  BY AppendElements
<1>2. ASSUME NEW t PROVE In(t)' <=> In(t) \/ t = s
  <2>1. ASSUME In(t) PROVE In(t)'
    BY <1>1, <2>1 DEF In
  <2>2. ASSUME t = s PROVE In(t)'
    BY <1>1, <2>2 DEF In
  <2>3. ASSUME In(t)' PROVE In(t) \/ t = s
    BY <1>1, <2>3 DEF In
  <2> QED
    BY <2>1, <2>2, <2>3
<1> QED
  BY <1>1, <1>2

LEMMA Taken ==
  ASSUME signals \in Seq(Signals), signals # << >>, signals' = Tail(signals)
  PROVE  /\ signals' \in Seq(Signals)
         /\ In(Head(signals))
         /\ \A t : In(t)' => In(t)
         /\ \A t : In(t) => In(t)' \/ t = Head(signals)
<1>1. /\ signals' \in Seq(Signals)
      /\ Len(signals') = Len(signals) - 1 /\ Len(signals) \in Nat \ {0}
      /\ \A i \in 1 .. Len(signals) - 1 : signals'[i] = signals[i + 1]
      /\ Head(signals) = signals[1]
  BY TailElements
<1>2. ASSUME NEW t, In(t)' PROVE In(t)
  BY <1>1, <1>2 DEF In
<1>3. ASSUME NEW t, In(t) PROVE In(t)' \/ t = Head(signals)
  <2>1. PICK i \in 1 .. Len(signals) : signals[i] = t
    BY <1>3 DEF In
  <2>2. CASE i # 1
    <3>1. i - 1 \in 1 .. Len(signals') /\ signals'[i - 1] = t
      BY <1>1, <2>1, <2>2
    <3> QED
      BY <3>1 DEF In
  <2>3. CASE i = 1
    BY <1>1, <2>1, <2>3
  <2> QED
    BY <2>2, <2>3
<1>4. In(Head(signals))
  BY <1>1 DEF In
<1> QED
  BY <1>1, <1>2, <1>3, <1>4

-----------------------------------------------------------------------------
LEMMA DialogInit == Init => DialogInv
<1> SUFFICES ASSUME Init PROVE DialogInv
  OBVIOUS
<1>1. states \in Seq(States) /\ challenges \in Seq(Verifiers) /\ signals \in Seq(Signals)
  BY DEF Init
<1>2. Len(states) = 0 /\ Len(challenges) = 0 /\ Len(signals) = 0
  BY DEF Init
<1>3. TypeOK
  <2>1. 0 \in 0 .. Len(states) /\ Len(states) <= MaxCodes
    BY <1>2, VerifiersAssumption
  <2> QED
    BY <1>1, <1>2, <2>1, Zenon DEF Init, TypeOK
<1> QED
  BY <1>2, <1>3 DEF Init, DialogInv, FieldsMatch, LeftFieldsAlone, ShownOrSignalled, TokenIsDue, In

LEMMA Issued ==
  ASSUME TypeOK, Issue, verifier \in Verifiers
  PROVE  /\ states' \in Seq(States) /\ challenges' \in Seq(Verifiers)
         /\ Len(states') = Len(challenges') /\ Len(states') <= MaxCodes
         /\ Len(states') = Len(states) + 1 /\ Len(states) \in Nat
         /\ challenges'[Len(states')] = verifier
<1>1. /\ states \in Seq(States) /\ challenges \in Seq(Verifiers)
      /\ Len(states) = Len(challenges)
  BY DEF TypeOK
<1>2. Len(states) \in Nat
  BY <1>1
<1>3. states' = Append(states, "pending login")
  BY DEF Issue
<1>4. states' \in Seq(States) /\ Len(states') = Len(states) + 1
  <2>1. "pending login" \in States
    BY DEF States
  <2> QED
    BY <1>1, <1>3, <2>1, AppendElements
<1>5. /\ challenges' \in Seq(Verifiers) /\ Len(challenges') = Len(states) + 1
      /\ challenges'[Len(states) + 1] = verifier
  <2>1. challenges' = Append(challenges, verifier)
    BY DEF Issue
  <2> QED
    BY <1>1, <2>1, AppendElements
<1>6. Len(states) + 1 <= MaxCodes
  <2>1. Len(states) < MaxCodes
    BY DEF Issue
  <2> QED
    BY <1>2, <2>1, VerifiersAssumption
<1> QED
  BY <1>2, <1>4, <1>5, <1>6

\* A code is a position in the service's lists.
LEMMA CodesAreIssued ==
  ASSUME TypeOK
  PROVE  /\ 0 \in 0 .. Len(states) /\ 0 \in Codes \cup {0}
         /\ uri \in Codes \cup {0}
         /\ code # 0 => code \in 1 .. Len(states)
<1>1. states \in Seq(States) /\ code \in 0 .. Len(states) /\ uri \in 0 .. Len(states)
  BY DEF TypeOK
<1>2. Len(states) \in Nat
  BY <1>1
<1>3. Len(states) <= MaxCodes
  BY DEF TypeOK
<1> QED
  BY <1>1, <1>2, <1>3, VerifiersAssumption DEF Codes

\* Steps that leave the queue and the fields alone, in a dialog that is open.
LEMMA QuietStep ==
  ASSUME DialogInv, UNCHANGED << challenges, fields, signals >>, TypeOK',
         main' = main \/ (main = "exec" /\ main' # "get token" /\ main' # "accepted"),
         shown' = shown,
         worker' = worker \/ worker' = "ended" \/ (Polling /\ Polling'),
         Alive
  PROVE  DialogInv'
<1>1. \A t : In(t)' <=> In(t)
  BY DEF In
<1> QED
  BY <1>1 DEF DialogInv, FieldsMatch, LeftFieldsAlone, ShownOrSignalled, TokenIsDue, Polling,
              fields, Alive

LEMMA DialogStep == DialogInv /\ [Next]_vars => DialogInv'
<1> SUFFICES ASSUME DialogInv, Next PROVE DialogInv'
  <2>1. ASSUME DialogInv, UNCHANGED vars PROVE DialogInv'
    BY <2>1 DEF vars, service, fields, dialog, DialogInv, TypeOK, FieldsMatch, LeftFieldsAlone,
                ShownOrSignalled, TokenIsDue, In, Polling, Alive
  <2> QED
    BY <2>1
<1>1. ASSUME Alive, NEW c \in Codes, Confirm(c) \/ Expire(c) PROVE DialogInv'
  <2>1. PICK s \in States : c \in DOMAIN states /\ states' = [states EXCEPT ![c] = s]
    BY <1>1 DEF Confirm, Expire, States
  <2>2. states \in Seq(States)
    BY DEF DialogInv, TypeOK
  <2>3. c \in 1 .. Len(states)
    BY <2>1, <2>2
  <2>4. states' \in Seq(States) /\ Len(states') = Len(states)
    BY <2>1, <2>2, <2>3, ExceptSeq
  <2>5. UNCHANGED << challenges, fields, dialog >>
    BY <1>1 DEF Confirm, Expire
  <2>6. TypeOK'
    BY <2>4, <2>5 DEF DialogInv, TypeOK, fields, dialog
  <2> QED
    BY <1>1, <2>5, <2>6, QuietStep DEF dialog
<1>2. ASSUME Alive, StopRequested \/ PollThrows \/ PollPending \/ WakeUp PROVE DialogInv'
  <2>1. /\ UNCHANGED << service, fields, stop, signals, main, shown, failed >>
        /\ worker' \in {"loop", "sleep", "ended"} /\ Polling
    BY <1>2 DEF StopRequested, PollThrows, PollPending, WakeUp, Polls, Polling
  <2>2. TypeOK'
    BY <2>1 DEF DialogInv, TypeOK, service, fields
  <2> QED
    BY <1>2, <2>1, <2>2, QuietStep DEF service, Polling
<1>3. ASSUME Alive, BeginAuthorize PROVE DialogInv'
  <2>1. /\ UNCHANGED << service, stop, signals, main, shown, failed >>
        /\ code' = 0 /\ uri' = 0 /\ verifier' \in Verifiers
        /\ worker' = "authorize" /\ worker = "loop"
    BY <1>3 DEF BeginAuthorize, GenerateCodeVerifier
  <2>2. TypeOK'
    BY <2>1, CodesAreIssued DEF DialogInv, TypeOK, service
  <2>3. \A t : In(t)' <=> In(t)
    BY <2>1 DEF In
  <2> QED
    BY <2>1, <2>2, <2>3 DEF DialogInv, FieldsMatch, LeftFieldsAlone, ShownOrSignalled, TokenIsDue, Polling
<1>4. ASSUME Alive, AuthorizeReplies PROVE DialogInv'
  <2>1. /\ UNCHANGED << verifier, uri, stop, signals, main, shown, failed >>
        /\ code' = Len(states')
        /\ worker = "authorize" /\ worker' = "link" /\ Issue
    BY <1>4 DEF AuthorizeReplies
  <2>2. verifier \in Verifiers
    BY <2>1 DEF DialogInv, FieldsMatch
  <2>3. /\ states' \in Seq(States) /\ challenges' \in Seq(Verifiers)
        /\ Len(states') = Len(challenges') /\ Len(states') <= MaxCodes
        /\ Len(states') = Len(states) + 1 /\ Len(states) \in Nat
        /\ challenges'[Len(states')] = verifier
    BY <2>1, <2>2, Issued DEF DialogInv
  <2>4. Len(states') \in 0 .. Len(states') /\ uri \in 0 .. Len(states')
    <3>1. uri \in 0 .. Len(states)
      BY DEF DialogInv, TypeOK
    <3> QED
      BY <2>3, <3>1
  <2>5. TypeOK'
    BY <2>1, <2>3, <2>4 DEF DialogInv, TypeOK
  <2>6. \A t : In(t)' <=> In(t)
    BY <2>1 DEF In
  <2> QED
    BY <2>1, <2>2, <2>3, <2>5, <2>6
       DEF DialogInv, FieldsMatch, LeftFieldsAlone, ShownOrSignalled, TokenIsDue, Polling
<1>4a. ASSUME Alive, AssignLink PROVE DialogInv'
  <2>1. /\ UNCHANGED << service, verifier, code, stop, signals, main, shown, failed >>
        /\ uri' = code
        /\ worker = "link" /\ worker' = "signal"
    BY <1>4a DEF AssignLink
  <2>2. TypeOK'
    BY <2>1 DEF DialogInv, TypeOK, service
  <2>3. \A t : In(t)' <=> In(t)
    BY <2>1 DEF In
  <2> QED
    BY <2>1, <2>2, <2>3
       DEF service, DialogInv, FieldsMatch, LeftFieldsAlone, ShownOrSignalled, TokenIsDue, Polling
<1>4b. ASSUME Alive, SignalContent PROVE DialogInv'
  <2>1. /\ UNCHANGED << service, fields, stop, main, shown, failed >>
        /\ worker = "signal" /\ worker' = "sleep"
    BY <1>4b DEF SignalContent
  <2>2. /\ signals' \in Seq(Signals)
        /\ \A t : In(t)' <=> In(t) \/ t = "UpdateContent"
    BY <1>4b, Posted DEF SignalContent, EmitUpdateContent, DialogInv, TypeOK, Signals
  <2>3. TypeOK'
    BY <2>1, <2>2 DEF DialogInv, TypeOK, service, fields
  <2> QED
    BY <2>1, <2>2, <2>3 DEF fields, service, DialogInv, FieldsMatch, LeftFieldsAlone,
                            ShownOrSignalled, TokenIsDue, Polling
<1>5. ASSUME Alive, AuthorizeThrows PROVE DialogInv'
  <2>1. /\ UNCHANGED << stop, signals, main, shown, failed >>
        /\ verifier' = NoVerifier /\ code' = 0 /\ uri' = 0
        /\ worker = "authorize" /\ worker' = "sleep"
    BY <1>5 DEF AuthorizeThrows, ClearAuthenticateState
  <2>2. /\ states' \in Seq(States) /\ challenges' \in Seq(Verifiers)
        /\ Len(states') = Len(challenges') /\ Len(states') <= MaxCodes
        /\ 0 \in 0 .. Len(states')
    <3>1. CASE Issue
      <4>1. verifier \in Verifiers
        BY <2>1 DEF DialogInv, FieldsMatch
      <4> QED
        BY <3>1, <4>1, Issued DEF DialogInv
    <3>2. CASE UNCHANGED service
      BY <3>2, CodesAreIssued DEF DialogInv, TypeOK, service
    <3> QED
      BY <1>5, <3>1, <3>2 DEF AuthorizeThrows
  <2>3. TypeOK'
    BY <2>1, <2>2 DEF DialogInv, TypeOK
  <2>4. \A t : In(t)' <=> In(t)
    BY <2>1 DEF In
  <2> QED
    BY <2>1, <2>3, <2>4 DEF DialogInv, FieldsMatch, LeftFieldsAlone, ShownOrSignalled, TokenIsDue, Polling
<1>6. ASSUME Alive, PollFailed PROVE DialogInv'
  <2>1. /\ UNCHANGED << service, stop, signals, main, shown >>
        /\ verifier' = NoVerifier /\ code' = 0 /\ uri' = 0 /\ failed' = TRUE
        /\ worker' = "ended" /\ worker = "loop"
    BY <1>6 DEF PollFailed, ClearAuthenticateState, Polls
  <2>2. TypeOK'
    BY <2>1, CodesAreIssued DEF DialogInv, TypeOK, service
  <2>3. \A t : In(t)' <=> In(t)
    BY <2>1 DEF In
  <2> QED
    BY <2>1, <2>2, <2>3 DEF DialogInv, FieldsMatch, LeftFieldsAlone, ShownOrSignalled, TokenIsDue, Polling
<1>7. ASSUME Alive, PollTokenCreated PROVE DialogInv'
  <2>1. /\ UNCHANGED << service, fields, stop, main, shown, failed >>
        /\ worker' = "ended" /\ worker = "loop" /\ code # 0
    BY <1>7 DEF PollTokenCreated, Terminate, Polls
  <2>2. /\ signals' \in Seq(Signals)
        /\ \A t : In(t)' <=> In(t) \/ t = "LoginSucceeded"
    BY <1>7, Posted DEF PollTokenCreated, DialogInv, TypeOK, Signals
  <2>3. TypeOK'
    BY <2>1, <2>2 DEF DialogInv, TypeOK, service, fields
  <2> QED
    BY <2>1, <2>2, <2>3 DEF fields, service, DialogInv, FieldsMatch, LeftFieldsAlone, ShownOrSignalled, TokenIsDue, Polling
<1>8. ASSUME UpdateContent PROVE DialogInv'
  <2>1. /\ UNCHANGED << service, fields, stop, worker, failed >>
        /\ main = "exec" /\ Head(signals) = "UpdateContent"
        /\ \/ main' = main /\ shown' = uri
           \/ main' = "terminated" /\ shown' = shown
    BY <1>8 DEF UpdateContent, NextSignal
  <2>2. /\ signals' \in Seq(Signals)
        /\ \A t : In(t)' => In(t)
        /\ \A t : In(t) => In(t)' \/ t = "UpdateContent"
    BY <1>8, Taken DEF UpdateContent, NextSignal, DialogInv, TypeOK
  <2>3. uri \in Codes \cup {0}
    BY CodesAreIssued DEF DialogInv
  <2>4. TypeOK'
    BY <2>1, <2>2, <2>3 DEF DialogInv, TypeOK, service, fields
  <2> QED
    BY <2>1, <2>2, <2>4 DEF fields, service, Alive, DialogInv, FieldsMatch, LeftFieldsAlone, ShownOrSignalled, TokenIsDue, Polling
<1>9. ASSUME RequestToken PROVE DialogInv'
  <2>1. /\ UNCHANGED << service, fields, stop, worker, shown, failed >>
        /\ main = "exec" /\ main' = "get token"
    BY <1>9 DEF RequestToken, NextSignal
  <2>2. /\ signals' \in Seq(Signals)
        /\ In("LoginSucceeded")
    BY <1>9, Taken DEF RequestToken, NextSignal, DialogInv, TypeOK
  <2>3. TypeOK'
    BY <2>1, <2>2 DEF DialogInv, TypeOK, service, fields
  <2> QED
    BY <2>1, <2>2, <2>3 DEF fields, service, Alive, DialogInv, FieldsMatch, LeftFieldsAlone, ShownOrSignalled, TokenIsDue, Polling
<1>10. ASSUME TokenArrives PROVE DialogInv'
  <2>1. /\ UNCHANGED << challenges, stop, worker, signals, shown, failed >>
        /\ verifier' = NoVerifier /\ code' = 0 /\ uri' = 0
        /\ main = "get token" /\ main' = "accepted" /\ code # 0
    BY <1>10 DEF TokenArrives, ClearAuthenticateState
  <2>2. states' \in Seq(States) /\ Len(states') = Len(states)
    <3>1. states \in Seq(States) /\ code \in 1 .. Len(states)
      BY <2>1, CodesAreIssued DEF DialogInv, TypeOK
    <3>2. "success" \in States
      BY DEF States
    <3>3. states' = [states EXCEPT ![code] = "success"]
      BY <1>10 DEF TokenArrives
    <3> QED
      BY <3>1, <3>2, <3>3, ExceptSeq
  <2>3. 0 \in 0 .. Len(states)
    BY CodesAreIssued DEF DialogInv
  <2>4. TypeOK'
    BY <2>1, <2>2, <2>3 DEF DialogInv, TypeOK
  <2> QED
    BY <2>1, <2>4 DEF Alive, DialogInv, FieldsMatch, LeftFieldsAlone, ShownOrSignalled, TokenIsDue, Polling
<1>11. ASSUME TokenRefused \/ Join \/ Close \/ Escape PROVE DialogInv'
  <2>1. /\ UNCHANGED << service, fields, worker, signals, shown, failed >>
        /\ main \in {"exec", "get token", "join"} /\ stop' \in {stop, TRUE}
        /\ main' \in {"join", "rejected", "terminated"}
    BY <1>11 DEF TokenRefused, Join, Close, Escape
  <2>2. TypeOK'
    BY <2>1 DEF DialogInv, TypeOK, service, fields
  <2>3. \A t : In(t)' <=> In(t)
    BY <2>1 DEF In
  <2> QED
    BY <2>1, <2>2, <2>3
       DEF DialogInv, FieldsMatch, LeftFieldsAlone, ShownOrSignalled, TokenIsDue, Polling,
           fields, service, Alive
<1> QED
  BY <1>1, <1>2, <1>3, <1>4, <1>4a, <1>4b, <1>5, <1>6, <1>7, <1>8, <1>9, <1>10, <1>11 DEF Next, Worker, Slots

(***************************************************************************)
(* The FUSE worker.  One thread cleans up at a time: main only after it    *)
(* has joined the worker, which has ended.                                 *)
(***************************************************************************)
OneCleansUp ==
  /\ pc[Fuse!Main] \in {"start", "spawn"} => pc[Fuse!Worker] = "none"
  /\ pc[Fuse!Main] \in Fuse!CleanupPoints => pc[Fuse!Worker] = "ended"

\* A pointer dangles only from the call that frees it to its assignment.
DanglesBriefly ==
  /\ channel = "stale" <=> \E t \in Fuse!Threads : pc[t] = "forget channel"
  /\ instance = "stale" <=> \E t \in Fuse!Threads : pc[t] = "forget instance"

\* The cache is filled before the thread starts, and the callbacks are in the
\* loop, before which nobody takes the cache down.
ServedFromCache ==
  /\ pc[Fuse!Main] = "spawn" \/ pc[Fuse!Worker] \in {"mount", "new", "loop"} => cached
  /\ serving # {} => pc[Fuse!Worker] = "loop"

FuseInv ==
  Fuse!TypeOK /\ OneCleansUp /\ DanglesBriefly /\ ServedFromCache /\ Fuse!DisposedOnce

LEMMA FuseInit == Fuse!Init => FuseInv
BY DEF FuseInv, Fuse!Init, Fuse!TypeOK, OneCleansUp, DanglesBriefly, ServedFromCache,
       Fuse!DisposedOnce, Fuse!Threads, Fuse!Main, Fuse!Worker, Fuse!CleanupPoints,
       Fuse!MainPoints, Fuse!WorkerPoints

\* The main thread goes on, and disposes of nothing.
LEMMA MainGoesOn ==
  ASSUME FuseInv, NEW to \in Fuse!MainPoints,
         pc' = [pc EXCEPT ![Fuse!Main] = to],
         pc[Fuse!Main] \notin Fuse!CleanupPoints,
         to \notin {"start", "spawn", "forget channel", "forget instance"},
         to \in Fuse!CleanupPoints => pc[Fuse!Worker] = "ended",
         UNCHANGED << running, channel, instance, serving, cached, freedTwice >>,
         thread' \in {"none", "joinable", "joined"}, leaving' \in BOOLEAN, misused' \in BOOLEAN
  PROVE  FuseInv'
<1> USE DEF FuseInv, Fuse!TypeOK, Fuse!Threads, Fuse!Main, Fuse!Worker
<1>1. /\ pc' \in [Fuse!Threads -> Fuse!MainPoints \cup Fuse!WorkerPoints]
      /\ pc'[Fuse!Main] = to /\ pc'[Fuse!Worker] = pc[Fuse!Worker]
  OBVIOUS
<1>2. Fuse!TypeOK'
  BY <1>1
<1>3. OneCleansUp' /\ ServedFromCache'
  BY <1>1 DEF OneCleansUp, ServedFromCache
<1>4. DanglesBriefly'
  BY <1>1 DEF DanglesBriefly, Fuse!CleanupPoints
<1> QED
  BY <1>2, <1>3, <1>4 DEF Fuse!DisposedOnce

LEMMA FuseStutters == FuseInv /\ UNCHANGED drive => FuseInv'
<1> SUFFICES ASSUME FuseInv, UNCHANGED drive PROVE FuseInv'
  OBVIOUS
<1>1. /\ running' = running /\ thread' = thread /\ channel' = channel /\ instance' = instance
      /\ cached' = cached /\ leaving' = leaving /\ serving' = serving /\ pc' = pc
      /\ misused' = misused /\ freedTwice' = freedTwice
  BY DEF drive
<1>2. Fuse!TypeOK'
  BY <1>1, Zenon DEF FuseInv, Fuse!TypeOK
<1> QED
  BY <1>1, <1>2 DEF FuseInv, OneCleansUp, ServedFromCache, DanglesBriefly, Fuse!DisposedOnce

\* An exception in the window, or in one of its slots.
LEMMA ThrowEndsMain ==
  ASSUME FuseInv, Throws, pc[Fuse!Main] = "window" PROVE FuseInv'
<1>1. "terminated" \in Fuse!MainPoints /\ "terminated" \notin Fuse!CleanupPoints
  BY DEF Fuse!MainPoints, Fuse!CleanupPoints
<1>2. pc[Fuse!Main] \notin Fuse!CleanupPoints
  BY DEF Fuse!CleanupPoints
<1> QED
  BY <1>1, <1>2, MainGoesOn DEF Throws, FuseInv, Fuse!TypeOK

LEMMA FuseStep == FuseInv /\ [Fuse!Next]_drive => FuseInv'
<1> SUFFICES ASSUME FuseInv, [Fuse!Next]_drive PROVE FuseInv'
  OBVIOUS
<1> USE DEF FuseInv, Fuse!TypeOK, OneCleansUp, DanglesBriefly, ServedFromCache,
            Fuse!DisposedOnce, Fuse!Threads, Fuse!Main, Fuse!Worker, Fuse!CleanupPoints,
            Fuse!MainPoints, Fuse!WorkerPoints, Fuse!At, Fuse!Go, Fuse!fuse
<1>1. ASSUME Fuse!Cleanup(Fuse!Main) PROVE FuseInv'
  <2> USE DEF Fuse!AfterCleanup
  <2>0. pc[Fuse!Worker] = "ended" /\ serving = {}
    BY <1>1 DEF Fuse!Cleanup, Fuse!Uninitialize, Fuse!Unmount, Fuse!ForgetChannel, Fuse!Destroy,
                Fuse!ForgetInstance, Fuse!Reset
  <2>1. CASE Fuse!Uninitialize(Fuse!Main)
    BY <2>0, <2>1 DEF Fuse!Uninitialize
  <2>2. CASE Fuse!Unmount(Fuse!Main)
    BY <2>0, <2>2 DEF Fuse!Unmount
  <2>3. CASE Fuse!ForgetChannel(Fuse!Main)
    BY <2>0, <2>3 DEF Fuse!ForgetChannel
  <2>4. CASE Fuse!Destroy(Fuse!Main)
    <3>1. ~freedTwice' /\ freedTwice' \in BOOLEAN
      BY <2>0, <2>4 DEF Fuse!Destroy
    <3>2. CASE instance = "null"
      BY <2>0, <2>4, <3>1, <3>2 DEF Fuse!Destroy
    <3>3. CASE instance # "null"
      BY <2>0, <2>4, <3>1, <3>3 DEF Fuse!Destroy
    <3> QED
      BY <3>2, <3>3
  <2>5. CASE Fuse!ForgetInstance(Fuse!Main)
    BY <2>0, <2>5 DEF Fuse!ForgetInstance, Fuse!NullPointer
  <2>6. CASE Fuse!Reset(Fuse!Main)
    BY <2>0, <2>6 DEF Fuse!Reset
  <2> QED
    BY <1>1, <2>1, <2>2, <2>3, <2>4, <2>5, <2>6 DEF Fuse!Cleanup
<1>8. ASSUME Fuse!Cleanup(Fuse!Worker) PROVE FuseInv'
  <2> USE DEF Fuse!AfterCleanup
  <2>0. pc[Fuse!Main] \notin Fuse!CleanupPoints \cup {"start", "spawn"} /\ serving = {}
    BY <1>8 DEF Fuse!Cleanup, Fuse!Uninitialize, Fuse!Unmount, Fuse!ForgetChannel, Fuse!Destroy,
                Fuse!ForgetInstance, Fuse!Reset
  <2>1. CASE Fuse!Uninitialize(Fuse!Worker)
    <3>1. CASE channel = "null"
      BY <2>0, <2>1, <3>1 DEF Fuse!Uninitialize
    <3>2. CASE channel # "null"
      BY <2>0, <2>1, <3>2 DEF Fuse!Uninitialize
    <3> QED
      BY <3>1, <3>2
  <2>2. CASE Fuse!Unmount(Fuse!Worker)
    BY <2>0, <2>2 DEF Fuse!Unmount
  <2>3. CASE Fuse!ForgetChannel(Fuse!Worker)
    BY <2>0, <2>3 DEF Fuse!ForgetChannel
  <2>4. CASE Fuse!Destroy(Fuse!Worker)
    <3>1. /\ UNCHANGED << running, thread, channel, leaving, serving, cached, misused >>
          /\ pc[Fuse!Worker] = "destroy" /\ ~freedTwice' /\ freedTwice' \in BOOLEAN
      BY <2>0, <2>4 DEF Fuse!Destroy
    <3>2. CASE instance = "null"
      <4>1. instance' = instance /\ pc' = [pc EXCEPT ![Fuse!Worker] = "reset"]
        BY <2>4, <3>2 DEF Fuse!Destroy
      <4>2. Fuse!TypeOK'
        BY <2>0, <3>1, <4>1
      <4>3. OneCleansUp'
        BY <2>0, <3>1, <4>1
      <4>4. ServedFromCache'
        BY <2>0, <3>1, <4>1
      <4>5. DanglesBriefly'
        BY <2>0, <3>1, <4>1
      <4> QED
        BY <2>0, <3>1, <4>2, <4>3, <4>4, <4>5
    <3>3. CASE instance # "null"
      <4>1. instance' = "stale" /\ pc' = [pc EXCEPT ![Fuse!Worker] = "forget instance"]
        BY <2>4, <3>3 DEF Fuse!Destroy
      <4> QED
        BY <2>0, <3>1, <4>1
    <3> QED
      BY <3>2, <3>3
  <2>5. CASE Fuse!ForgetInstance(Fuse!Worker)
    BY <2>0, <2>5 DEF Fuse!ForgetInstance, Fuse!NullPointer
  <2>6. CASE Fuse!Reset(Fuse!Worker)
    BY <2>0, <2>6 DEF Fuse!Reset
  <2> QED
    BY <1>8, <2>1, <2>2, <2>3, <2>4, <2>5, <2>6 DEF Fuse!Cleanup
<1>2. ASSUME Fuse!Mount \/ Fuse!New \/ Fuse!LoopLeaves PROVE FuseInv'
  <2>0. pc[Fuse!Main] \notin Fuse!CleanupPoints \cup {"start", "spawn"}
    BY <1>2 DEF Fuse!Mount, Fuse!New, Fuse!LoopLeaves
  <2>1. CASE Fuse!Mount
    <3>1. CASE channel' = "mounted" /\ pc' = [pc EXCEPT ![Fuse!Worker] = "new"]
      BY <2>0, <2>1, <3>1 DEF Fuse!Mount
    <3>2. CASE channel' = "null" /\ pc' = [pc EXCEPT ![Fuse!Worker] = "uninitialize"]
      BY <2>0, <2>1, <3>2 DEF Fuse!Mount
    <3> QED
      BY <2>1, <3>1, <3>2 DEF Fuse!Mount
  <2>2. CASE Fuse!New
    <3>1. CASE instance' = "live" /\ pc' = [pc EXCEPT ![Fuse!Worker] = "loop"]
      BY <2>0, <2>2, <3>1 DEF Fuse!New
    <3>2. CASE instance' = "null" /\ pc' = [pc EXCEPT ![Fuse!Worker] = "uninitialize"]
      BY <2>0, <2>2, <3>2 DEF Fuse!New
    <3> QED
      BY <2>2, <3>1, <3>2 DEF Fuse!New
  <2>3. CASE Fuse!LoopLeaves
    BY <2>0, <2>3 DEF Fuse!LoopLeaves
  <2> QED
    BY <1>2, <2>1, <2>2, <2>3
<1>3. ASSUME Fuse!InitializeContext \/ Fuse!StartThread \/ Fuse!Exit PROVE FuseInv'
  <2>1. CASE Fuse!InitializeContext
    BY <2>1 DEF Fuse!InitializeContext
  <2>2. CASE Fuse!StartThread
    BY <2>2 DEF Fuse!StartThread
  <2>3. CASE Fuse!Exit
    BY <2>3, MainGoesOn DEF Fuse!Exit, Fuse!Tell
  <2> QED
    BY <1>3, <2>1, <2>2, <2>3
<1>4. ASSUME Fuse!Join \/ Fuse!ReturnFromMain PROVE FuseInv'
  <2>1. CASE Fuse!Join
    BY <2>1, MainGoesOn DEF Fuse!Join, Fuse!WorkerEnded
  <2>2. CASE Fuse!ReturnFromMain
    <3>1. PICK to \in {"terminated", "exited"} : pc' = [pc EXCEPT ![Fuse!Main] = to]
      BY <2>2 DEF Fuse!ReturnFromMain
    <3> QED
      BY <2>2, <3>1, MainGoesOn DEF Fuse!ReturnFromMain
  <2> QED
    BY <1>4, <2>1, <2>2
<1>5. ASSUME NEW c \in Callers, Fuse!LeaveCallback(c) \/ Fuse!EnterCallback(c) PROVE FuseInv'
  <2>1. /\ pc' = pc /\ pc[Fuse!Worker] = "loop" /\ serving' \subseteq Callers
        /\ UNCHANGED << running, thread, channel, instance, leaving, cached, misused, freedTwice >>
    BY <1>5 DEF Fuse!LeaveCallback, Fuse!EnterCallback
  <2>2. Fuse!TypeOK'
    <3> HIDE DEF OneCleansUp, DanglesBriefly, ServedFromCache, Fuse!DisposedOnce, Fuse!Threads,
                 Fuse!Main, Fuse!Worker, Fuse!CleanupPoints, Fuse!MainPoints, Fuse!WorkerPoints
    <3> QED
      BY <2>1
  <2> QED
    BY <2>1, <2>2
<1>6. ASSUME Fuse!DriveGoesAway \/ Fuse!StopIgnored \/ Fuse!StopRequested PROVE FuseInv'
  <2>1. CASE Fuse!DriveGoesAway
    BY <2>1 DEF Fuse!DriveGoesAway
  <2>2. CASE Fuse!StopIgnored \/ Fuse!StopRequested
    BY <2>2, MainGoesOn DEF Fuse!StopIgnored, Fuse!StopRequested
  <2> QED
    BY <1>6, <2>1, <2>2
<1>7. ASSUME UNCHANGED drive PROVE FuseInv'
  BY <1>7, FuseStutters
<1> QED
  BY <1>1, <1>2, <1>3, <1>4, <1>5, <1>6, <1>7, <1>8
     DEF Fuse!Next, Fuse!WorkerStep, Fuse!MainStep, Fuse!CallerStep

-----------------------------------------------------------------------------
(***************************************************************************)
(* The program.  A step is one of the dialog's, one of the drive's, or the *)
(* window's, and the drive starts when the dialog has brought a token.     *)
(***************************************************************************)
StartsAfterLogin == ~valid /\ pc[Fuse!Main] # "start" => main = "accepted"

ClientInv ==
  /\ DialogInv /\ FuseInv /\ StartsAfterLogin
  /\ valid \in BOOLEAN /\ window \in {"none", "shown", "hidden"}

LEMMA ClientInitInv == ClientInit => ClientInv
BY DialogInit, FuseInit
   DEF ClientInit, ClientInv, StartsAfterLogin, Fuse!Init, Fuse!Main, Fuse!Threads

\* A step of the dialog in a program whose drive has not started.
LEMMA LoginSteps ==
  ASSUME ClientInv, LoginWorker \/ LoginSlots \/ LoginUser \/ LoginService
  PROVE  Next /\ ~valid /\ Fuse!Alive /\ UNCHANGED << valid, window, drive >>
BY DEF LoginWorker, LoginSlots, LoginUser, LoginService, Login, Asks, Next

LEMMA DriveSteps ==
  ASSUME ClientInv, DriveWorker \/ DriveMain \/ DriveLost
                    \/ \E c \in Callers : DriveCaller(c) \/ DriveEnters(c)
  PROVE  Fuse!Next /\ Accepted /\ UNCHANGED << login, window >>
BY DEF DriveWorker, DriveMain, DriveLost, DriveCaller, DriveEnters, Drive, Fuse!Next

\* Nothing of the dialog runs on the main thread after the login.
LEMMA AcceptedStays == Next /\ main = "accepted" => main' = "accepted"
BY DEF Next, Worker, Slots, StopRequested, BeginAuthorize, AuthorizeReplies, AssignLink,
       SignalContent, AuthorizeThrows,
       PollThrows, PollPending, PollFailed, PollTokenCreated, WakeUp, UpdateContent, RequestToken,
       TokenArrives, TokenRefused, Join, Close, Escape, NextSignal, Confirm, Expire, dialog

LEMMA ClientStep == ClientInv /\ [ClientNext]_clientVars => ClientInv'
<1> SUFFICES ASSUME ClientInv, [ClientNext]_clientVars PROVE ClientInv'
  OBVIOUS
<1>1. ASSUME LoginWorker \/ LoginSlots \/ LoginUser \/ LoginService PROVE ClientInv'
  <2>1. Next /\ ~valid /\ UNCHANGED << valid, window, drive >>
    BY <1>1, LoginSteps
  <2>2. DialogInv' /\ FuseInv'
    BY <2>1, DialogStep, FuseStep DEF ClientInv
  <2>3. main = "accepted" => main' = "accepted"
    BY <2>1, AcceptedStays
  <2>4. StartsAfterLogin'
    BY <2>1, <2>3 DEF ClientInv, StartsAfterLogin, drive
  <2> QED
    BY <2>1, <2>2, <2>4 DEF ClientInv
<1>2. ASSUME DriveWorker \/ DriveMain \/ DriveLost
             \/ \E c \in Callers : DriveCaller(c) \/ DriveEnters(c)
      PROVE  ClientInv'
  <2>1. Fuse!Next /\ Accepted /\ UNCHANGED << login, window >>
    BY <1>2, DriveSteps
  <2>2. DialogInv' /\ FuseInv'
    BY <2>1, DialogStep, FuseStep DEF ClientInv, login
  <2> QED
    BY <2>1, <2>2 DEF ClientInv, StartsAfterLogin, Accepted, login, vars, dialog
<1>3. ASSUME OpenWindow \/ ShowOrHide \/ Quit \/ LogoutThrows PROVE ClientInv'
  <2>1. /\ pc[Fuse!Main] = "window" /\ UNCHANGED login
        /\ window' \in {"none", "shown", "hidden"}
    BY <1>3 DEF OpenWindow, ShowOrHide, Quit, LogoutThrows, InWindow, ClientInv
  <2>2. ASSUME Throws PROVE FuseInv'
    BY <2>1, <2>2, ThrowEndsMain DEF ClientInv
  <2>3. ASSUME UNCHANGED drive \/ Fuse!StopIgnored \/ Fuse!StopRequested PROVE FuseInv'
    <3>1. [Fuse!Next]_drive
      BY <2>1, <2>3 DEF Fuse!Next, Fuse!Alive
    <3> QED
      BY <3>1, FuseStep DEF ClientInv
  <2>4. FuseInv'
    BY <1>3, <2>2, <2>3 DEF OpenWindow, ShowOrHide, Quit, LogoutThrows
  <2>5. DialogInv'
    BY <2>1, DialogStep DEF ClientInv, login
  <2>6. StartsAfterLogin'
    BY <2>1 DEF ClientInv, StartsAfterLogin, login, vars, dialog, Fuse!Main
  <2> QED
    BY <2>1, <2>4, <2>5, <2>6 DEF ClientInv, login
<1>4. ASSUME UNCHANGED clientVars PROVE ClientInv'
  <2>1. UNCHANGED vars /\ UNCHANGED drive /\ valid' = valid /\ window' = window
    BY <1>4 DEF clientVars, login
  <2>2. DialogInv' /\ FuseInv'
    BY <2>1, DialogStep, FuseStep DEF ClientInv
  <2> QED
    BY <2>1, <2>2 DEF ClientInv, StartsAfterLogin, drive, vars, dialog
<1> QED
  BY <1>1, <1>2, <1>3, <1>4 DEF ClientNext

LEMMA ClientInvAlways == ClientSpec => []ClientInv
BY ClientInitInv, ClientStep, PTL DEF ClientSpec

-----------------------------------------------------------------------------
\* The state of the dialog, the drive and the window keeps its type.
THEOREM TypeCorrect == ClientSpec => []ClientTypeOK
<1>1. ClientInv => ClientTypeOK
  BY DEF ClientInv, ClientTypeOK, DialogInv, FuseInv
<1> QED
  BY ClientInvAlways, <1>1, PTL

\* The two threads of the dialog share the code and its verifier without a
\* lock, and yet the token is asked for with the pair that belongs together.
THEOREM TokenMatchesItsVerifier == ClientSpec => []TokenAskedWithItsVerifier
<1>1. ClientInv => TokenAskedWithItsVerifier
  BY DEF ClientInv, DialogInv, LeftFieldsAlone, TokenIsDue, TokenAskedWithItsVerifier
<1> QED
  BY ClientInvAlways, <1>1, PTL

\* The code on the screen is the one that is polled for.
THEOREM ScreenIsPolled == ClientSpec => []ShownIsPolled
<1>1. ClientInv => ShownIsPolled
  <2> SUFFICES ASSUME ClientInv, Alive, code # 0, signals = << >>, Polling
               PROVE  shown = code
    BY DEF ShownIsPolled
  <2>1. ~In("UpdateContent")
    BY DEF In
  <2> QED
    BY <2>1 DEF ClientInv, DialogInv, ShownOrSignalled
<1> QED
  BY ClientInvAlways, <1>1, PTL

\* No thread of a login is left when the drive is there.
THEOREM NoLoginBesideTheDrive == ClientSpec => []LoginThreadGone
<1>1. ClientInv => LoginThreadGone
  BY DEF ClientInv, DialogInv, LeftFieldsAlone, StartsAfterLogin, LoginThreadGone
<1> QED
  BY ClientInvAlways, <1>1, PTL

\* Channel and instance are disposed of once, whichever thread cleans up and
\* whenever the drive goes away.
THEOREM PointersDisposedOnce == ClientSpec => []DisposedOnce
<1>1. ClientInv => DisposedOnce
  BY DEF ClientInv, FuseInv, DisposedOnce
<1> QED
  BY ClientInvAlways, <1>1, PTL

\* A callback finds the cache as long as the process lives.
THEOREM CallbacksHaveTheirCache == ClientSpec => []CacheOutlivesCallbacks
<1>1. ClientInv => CacheOutlivesCallbacks
  BY DEF ClientInv, FuseInv, ServedFromCache, CacheOutlivesCallbacks, Fuse!CacheOutlivesCallbacks
<1> QED
  BY ClientInvAlways, <1>1, PTL
=============================================================================
