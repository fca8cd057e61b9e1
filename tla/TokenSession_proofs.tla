-------------------------- MODULE TokenSession_proofs --------------------------
(***************************************************************************)
(* The token's life, proved for any number of threads and of tokens: the   *)
(* client keeps the refresh token the service will accept next, and under  *)
(* a service that rotates refresh tokens the two halves of the token, which *)
(* are shared and assigned without a lock, belong together.                *)
(***************************************************************************)
EXTENDS TokenSession, TLAPS

\* A refresh was accepted, and its pair is on its way into the token.
Flying == {"reply", "assign"}
InFlight(a) == pc[a] \in Flying

\* Nobody can make a request but the main thread.
Quiet == ~mounted /\ \A w \in Workers : pc[w] = "idle"

\* Before the drive is there, and after the worker has been joined.
Early ==
  \/ pc[Main] \in {"exited", "killed", "check", "login", "start"}
  \/ why[Main] \in {"restore", "login", "volume", "exit"}

MainAlone ==
  /\ Early => Quiet
  /\ pc[Main] = "join" => ~mounted
  /\ pc[Main] \in {"window", "ui"} \/ why[Main] = "window" => mounted
  /\ pc[Main] = "login" => access = 0 /\ refresh = 0
  /\ \A w \in Workers : why[w] \in {"none", "callback"}

\* No token is anywhere that the service has not issued.
Numbered ==
  /\ valid \subseteq 1 .. issued
  /\ refresh <= issued /\ body <= issued
  /\ profile # Torn => profile <= issued
  /\ \A a \in Actors : got[a] <= issued /\ content[a] <= issued

\* A pair is on its way once, and is not one that has been in the token.
Flights ==
  /\ \A a \in Actors : ~InFlight(a) => got[a] = 0
  /\ \A a, b \in Actors : got[a] # 0 /\ got[a] = got[b] => a = b
  /\ \A a \in Actors : got[a] # 0 => got[a] # refresh /\ got[a] # body

\* What is on its way is accepted, and so is what is held, unless it was
\* given in exchange for what is on its way, or back with a logoff.
Session ==
  ~lostReply =>
    /\ \A a \in Actors : InFlight(a) => got[a] \in valid
    /\ (\A a \in Actors : ~InFlight(a)) /\ refresh # 0 => refresh \in valid \/ refresh = body
    /\ Rotates => \A a \in Actors : InFlight(a) => refresh \notin valid
    /\ Rotates => \A a, b \in Actors : InFlight(a) /\ InFlight(b) => a = b

\* The halves of the token.
Pair ==
  Rotates /\ ~lostReply /\ ~loggedOff =>
    /\ \A a \in Actors : pc[a] = "assign" => access = got[a]
    /\ (\A a \in Actors : pc[a] # "assign") /\ access # 0 => access = refresh
    /\ ~Quiet => (access = 0 <=> refresh = 0)
    /\ \A a \in Actors : InFlight(a) /\ why[a] # "login" => refresh # 0
    /\ why[Main] = "volume" => access # 0 /\ refresh # 0

TokenInv == TypeOK /\ MainAlone /\ Numbered /\ Flights /\ Session /\ Pair

-----------------------------------------------------------------------------
(***************************************************************************)
(* Types.                                                                  *)
(***************************************************************************)
LEMMA AfterSavePoints ==
  ASSUME NEW w PROVE AfterSave(w) \in {"check", "start", "exited", "retry"}
BY DEF AfterSave

LEMMA NamedPoints ==
  /\ {"idle", "post", "retry", "refresh", "reply", "assign", "save", "open", "write", "answered",
      "thrown", "check", "login", "start", "window", "ui", "join", "exited", "killed"} = Points
  /\ {"none", "callback", "restore", "login", "volume", "window", "logoff", "exit"} = Purposes
BY DEF Points, Purposes

\* The two halves after Validate.
LEMMA Validated ==
  ASSUME TypeOK, Validate
  PROVE  /\ access' \in Tokens /\ refresh' \in Tokens
         /\ refresh' \in {0, refresh} /\ access' \in {0, access}
         /\ access' = 0 <=> refresh' = 0
         /\ (access = 0 <=> refresh = 0) => access' = access /\ refresh' = refresh
BY TokensAssumption DEF TypeOK, Validate, Half, Tokens

LEMMA TypeInit == Init => TypeOK
<1> SUFFICES ASSUME Init PROVE TypeOK
  OBVIOUS
<1>1. 0 \in Tokens
  BY TokensAssumption DEF Tokens
<1>2. pc \in [Actors -> Points]
  BY NamedPoints DEF Init
<1>3. why \in [Actors -> Purposes]
  BY NamedPoints DEF Init
<1>4. /\ got \in [Actors -> Tokens] /\ content \in [Actors -> Tokens]
      /\ response \in [Actors -> BOOLEAN]
  BY <1>1 DEF Init
<1> QED
  BY <1>1, <1>2, <1>3, <1>4 DEF Init, TypeOK

LEMMA TypeStep == TypeOK /\ [Next]_vars => TypeOK'
<1> SUFFICES ASSUME TypeOK, [Next]_vars PROVE TypeOK'
  OBVIOUS
<1> USE DEF At, Go, MainGo, service, token, file, locals, history
<1>0. /\ Main \in Actors /\ Workers \subseteq Actors /\ 0 \in Tokens
      /\ \A i \in Tokens : i < MaxTokens => i + 1 \in Tokens /\ i + 1 \in 1 .. MaxTokens
  BY TokensAssumption DEF Actors, Tokens
<1>1. ASSUME NEW a \in Actors, PostRequest(a) \/ RetryRequest(a) PROVE TypeOK'
  <2>1. valid' \subseteq valid
    BY <1>1 DEF PostRequest, RetryRequest, Post, CarriedOut
  <2>2. valid' \subseteq 1 .. MaxTokens
    BY <2>1 DEF TypeOK
  <2> HIDE DEF service
  <2>3. UNCHANGED issued
    BY <1>1 DEF PostRequest, RetryRequest, Post, service
  <2> QED
    BY <1>0, <1>1, <2>2, <2>3, NamedPoints DEF TypeOK, PostRequest, RetryRequest, Post
<1>2. ASSUME NEW a \in Actors, RefreshAccepted(a) PROVE TypeOK'
  BY <1>0, <1>2, NamedPoints DEF TypeOK, RefreshAccepted
<1>3. ASSUME NEW a \in Actors, RefreshRefused(a) PROVE TypeOK'
  BY <1>0, <1>3, NamedPoints DEF TypeOK, RefreshRefused
<1>4. ASSUME NEW a \in Actors, RefreshReplyLost(a) \/ RefreshReplyIncomplete(a) PROVE TypeOK'
  BY <1>0, <1>4, NamedPoints DEF TypeOK, RefreshReplyLost, RefreshReplyIncomplete
<1>5. ASSUME NEW a \in Actors, AssignAccessToken(a) \/ AssignRefreshToken(a) PROVE TypeOK'
  <2>1. CASE AssignAccessToken(a)
    BY <1>0, <2>1, NamedPoints DEF TypeOK, AssignAccessToken, MoveMember
  <2>2. CASE AssignRefreshToken(a)
    BY <1>0, <2>2, NamedPoints DEF TypeOK, AssignRefreshToken, MoveMember
  <2> QED
    BY <1>5, <2>1, <2>2
<1>6. ASSUME NEW a \in Actors, ComposeProfile(a) PROVE TypeOK'
  BY <1>0, <1>6, NamedPoints, Validated DEF TypeOK, ComposeProfile
<1>7. ASSUME NEW a \in Actors, OpenProfile(a) PROVE TypeOK'
  BY <1>0, <1>7, NamedPoints DEF TypeOK, OpenProfile
<1>8. ASSUME NEW a \in Actors, OpenRefused(a) \/ DiskFailure(a) \/ WriteProfile(a) PROVE TypeOK'
  <2>1. AfterSave(why[a]) \in Points
    BY AfterSavePoints, NamedPoints
  <2>2. CASE OpenRefused(a)
    BY <1>0, <2>1, <2>2 DEF TypeOK, OpenRefused
  <2>3. CASE DiskFailure(a)
    BY <1>0, <2>1, <2>3 DEF TypeOK, DiskFailure
  <2>4. CASE WriteProfile(a)
    BY <1>0, <2>1, <2>4 DEF TypeOK, WriteProfile
  <2> QED
    BY <1>8, <2>2, <2>3, <2>4
<1>9. ASSUME NEW a \in Actors, EndRequest(a) \/ (a \in Workers /\ BeginRequest(a)) PROVE TypeOK'
  BY <1>0, <1>9, NamedPoints DEF TypeOK, EndRequest, BeginRequest
<1>10. ASSUME RestoreThrows \/ CloseWindow \/ JoinFuseWorker PROVE TypeOK'
  BY <1>0, <1>10, NamedPoints DEF TypeOK, RestoreThrows, CloseWindow, StopAccepting,
                                 JoinFuseWorker, SavesAtExit
<1>11. ASSUME CheckToken PROVE TypeOK'
  BY <1>0, <1>11, NamedPoints, Validated DEF TypeOK, CheckToken
<1>12. ASSUME StartFuseWorker \/ ShowMainWindow PROVE TypeOK'
  BY <1>0, <1>12, NamedPoints, Validated
     DEF TypeOK, StartFuseWorker, ShowMainWindow, AskUserInformation, Valid
<1>13. ASSUME UserInformationArrives PROVE TypeOK'
  BY <1>0, <1>13, NamedPoints DEF TypeOK, UserInformationArrives
<1>14. ASSUME Die PROVE TypeOK'
  BY <1>0, <1>14, NamedPoints DEF TypeOK, Die
<1>15. ASSUME LogoffArrives PROVE TypeOK'
  BY <1>0, <1>15, NamedPoints DEF TypeOK, LogoffArrives, StopAccepting
<1>16. ASSUME StartClient PROVE TypeOK'
  BY <1>0, <1>16, NamedPoints DEF TypeOK, StartClient, Loaded
<1>17. ASSUME LoginCancelled PROVE TypeOK'
  BY <1>0, <1>17, NamedPoints DEF TypeOK, LoginCancelled
<1>18. ASSUME LoginAccepted PROVE TypeOK'
  BY <1>0, <1>18, NamedPoints DEF TypeOK, LoginAccepted
<1>19. ASSUME LogoutButtonClick PROVE TypeOK'
  BY <1>0, <1>19, NamedPoints, Validated DEF TypeOK, LogoutButtonClick
<1>20. ASSUME UNCHANGED vars PROVE TypeOK'
  BY <1>20 DEF TypeOK, vars
<1>21. CASE \E a \in Actors : Step(a)
  BY <1>1, <1>2, <1>3, <1>4, <1>5, <1>6, <1>7, <1>8, <1>9, <1>21 DEF Step
<1>22. CASE \E a \in Workers : BeginRequest(a)
  BY <1>0, <1>9, <1>22
<1>23. CASE MainStep \/ User
  BY <1>10, <1>11, <1>12, <1>13, <1>14, <1>15, <1>16, <1>17, <1>18, <1>19, <1>23
     DEF MainStep, User, Kill, MainThrows
<1> QED
  BY <1>20, <1>21, <1>22, <1>23 DEF Next

-----------------------------------------------------------------------------
(***************************************************************************)
(* The main thread is alone before the drive is there and after it.        *)
(***************************************************************************)
Begun == {"post", "retry", "refresh", "reply", "assign", "save", "open", "write", "answered",
          "thrown"}

\* Where a step of a thread that has begun leads.
LEMMA StepMoves ==
  ASSUME TypeOK, NEW a \in Actors, Step(a)
  PROVE  \E to \in Points :
           /\ pc' = [pc EXCEPT ![a] = to]
           /\ pc[a] \in Begun
           /\ to \notin {"join", "window", "ui", "login", "killed"}
           /\ to \in {"check", "start", "exited"} => why[a] \in {"restore", "login", "exit"}
           /\ mounted' = mounted
           /\ why' = why \/ (a \in Workers /\ why' = [why EXCEPT ![a] = "none"])
<1> USE DEF At, Go, service, token, file, locals, history, Begun
<1>0. pc[a] \in Points /\ pc = [pc EXCEPT ![a] = pc[a]]
  BY DEF TypeOK
<1>1. CASE PostRequest(a) \/ RetryRequest(a)
  BY <1>1, NamedPoints DEF PostRequest, RetryRequest, Post
<1>2. CASE RefreshAccepted(a) \/ RefreshRefused(a) \/ RefreshReplyLost(a)
  BY <1>2, NamedPoints DEF RefreshAccepted, RefreshRefused, RefreshReplyLost
<1>3. CASE RefreshReplyIncomplete(a)
  BY <1>0, <1>3, NamedPoints DEF RefreshReplyIncomplete
<1>4. CASE AssignAccessToken(a) \/ AssignRefreshToken(a)
  BY <1>4, NamedPoints DEF AssignAccessToken, AssignRefreshToken
<1>5. CASE ComposeProfile(a) \/ OpenProfile(a)
  BY <1>5, NamedPoints DEF ComposeProfile, OpenProfile
<1>6. CASE OpenRefused(a) \/ DiskFailure(a) \/ WriteProfile(a)
  <2>1. /\ AfterSave(why[a]) \in Points
        /\ AfterSave(why[a]) \notin {"join", "window", "ui", "login", "killed"}
        /\ AfterSave(why[a]) \in {"check", "start", "exited"} => why[a] \in {"restore", "login", "exit"}
    BY AfterSavePoints, NamedPoints DEF AfterSave
  <2>2. pc' = [pc EXCEPT ![a] = AfterSave(why[a])] /\ pc[a] \in Begun /\ mounted' = mounted /\ why' = why
    BY <1>6 DEF OpenRefused, DiskFailure, WriteProfile
  <2> QED
    BY <2>1, <2>2
<1>7. CASE EndRequest(a)
  BY <1>7, NamedPoints DEF EndRequest
<1> QED
  BY <1>1, <1>2, <1>3, <1>4, <1>5, <1>6, <1>7 DEF Step

LEMMA MainAloneInit == Init => MainAlone
<1> SUFFICES ASSUME Init PROVE MainAlone
  OBVIOUS
<1>1. Main \in Actors /\ Main \notin Workers /\ Workers \subseteq Actors
  BY ActorsAssumption DEF Actors
<1>2. /\ pc[Main] = "exited" /\ why[Main] = "none"
      /\ \A w \in Workers : pc[w] = "idle" /\ why[w] = "none"
  BY <1>1 DEF Init
<1> QED
  BY <1>2 DEF Init, MainAlone, Quiet

LEMMA MainAloneStep == TypeOK /\ MainAlone /\ [Next]_vars => MainAlone'
<1> SUFFICES ASSUME TypeOK, MainAlone, [Next]_vars PROVE MainAlone'
  OBVIOUS
<1> USE DEF At, Go, MainGo, service, token, file, locals, history
<1>0. /\ Main \in Actors /\ Main \notin Workers /\ Workers \subseteq Actors
      /\ pc \in [Actors -> Points] /\ why \in [Actors -> Purposes]
  BY ActorsAssumption DEF Actors, TypeOK
<1>1. ASSUME NEW w \in Workers, Step(w) PROVE MainAlone'
  <2>1. PICK to \in Points :
           /\ pc' = [pc EXCEPT ![w] = to] /\ pc[w] \in Begun /\ mounted' = mounted
           /\ why' = why \/ why' = [why EXCEPT ![w] = "none"]
    BY <1>0, <1>1, StepMoves
  <2>2. ~Quiet /\ ~Early
    BY <2>1 DEF MainAlone, Quiet, Begun
  <2>3. pc'[Main] = pc[Main] /\ why'[Main] = why[Main]
    BY <1>0, <2>1
  <2>4. \A v \in Workers : why'[v] \in {"none", "callback"}
    BY <1>0, <2>1 DEF MainAlone
  <2> QED
    BY <2>1, <2>2, <2>3, <2>4 DEF MainAlone, Early
<1>2. ASSUME Step(Main) PROVE MainAlone'
  <2>1. PICK to \in Points :
           /\ pc' = [pc EXCEPT ![Main] = to] /\ pc[Main] \in Begun /\ mounted' = mounted
           /\ to \notin {"join", "window", "ui", "login", "killed"}
           /\ to \in {"check", "start", "exited"} => why[Main] \in {"restore", "login", "exit"}
           /\ why' = why
    BY <1>0, <1>2, StepMoves
  <2>2. pc'[Main] = to /\ \A w \in Workers : pc'[w] = pc[w]
    BY <1>0, <2>1
  <2>3. (Early)' => Early
    BY <2>1, <2>2 DEF Early
  <2> QED
    BY <2>1, <2>2, <2>3 DEF MainAlone, Quiet
<1>3. ASSUME NEW w \in Workers, BeginRequest(w) PROVE MainAlone'
  <2>1. /\ mounted /\ mounted' = mounted /\ pc' = [pc EXCEPT ![w] = "post"]
        /\ why' = [why EXCEPT ![w] = "callback"] /\ UNCHANGED << access, refresh >>
    BY <1>3 DEF BeginRequest
  <2>2. pc'[Main] = pc[Main] /\ why'[Main] = why[Main]
    BY <1>0, <2>1
  <2>3. \A v \in Workers : why'[v] \in {"none", "callback"}
    BY <1>0, <2>1 DEF MainAlone
  <2> QED
    BY <2>1, <2>2, <2>3 DEF MainAlone, Early, Quiet
<1>4. ASSUME NEW to, NEW w, pc' = [pc EXCEPT ![Main] = to], why' = [why EXCEPT ![Main] = w],
             Early, mounted' = mounted, to \notin {"join", "window", "ui", "login"}, w # "window"
      PROVE  MainAlone'
  BY <1>0, <1>4 DEF MainAlone, Quiet
<1>5. ASSUME RestoreThrows \/ LoginAccepted PROVE MainAlone'
  BY <1>4, <1>5 DEF RestoreThrows, LoginAccepted, Early
<1>6. ASSUME LoginCancelled \/ StartClient PROVE MainAlone'
  BY <1>4, <1>6 DEF LoginCancelled, StartClient, Early, Running
<1>7. ASSUME CheckToken PROVE MainAlone'
  <2>1. CASE Valid
    BY <1>4, <1>7, <2>1 DEF CheckToken, Early
  <2>2. CASE ~Valid
    <3>1. access' = 0 /\ refresh' = 0
      BY <1>7, <2>2 DEF CheckToken, Validate, Valid, Half
    <3> QED
      BY <1>0, <1>7, <2>2, <3>1 DEF MainAlone, Quiet, CheckToken, Early
  <2> QED
    BY <2>1, <2>2
<1>8. ASSUME StartFuseWorker PROVE MainAlone'
  <2>1. CASE Valid
    BY <1>0, <1>8, <2>1 DEF MainAlone, Quiet, StartFuseWorker, AskUserInformation, Early
  <2>2. CASE ~Valid
    BY <1>0, <1>8, <2>2 DEF MainAlone, Quiet, StartFuseWorker, AskUserInformation, Early
  <2> QED
    BY <2>1, <2>2
<1>9. ASSUME ShowMainWindow PROVE MainAlone'
  BY <1>0, <1>9 DEF MainAlone, Quiet, ShowMainWindow, AskUserInformation, Early
<1>10. ASSUME UserInformationArrives PROVE MainAlone'
  BY <1>0, <1>10 DEF MainAlone, Quiet, UserInformationArrives, Early
<1>11. ASSUME Die PROVE MainAlone'
  BY <1>0, <1>11 DEF MainAlone, Quiet, Die, Early
<1>12. ASSUME LogoffArrives \/ CloseWindow PROVE MainAlone'
  BY <1>0, <1>12 DEF MainAlone, Quiet, LogoffArrives, CloseWindow, StopAccepting, Early
<1>13. ASSUME JoinFuseWorker PROVE MainAlone'
  BY <1>0, <1>13 DEF MainAlone, Quiet, JoinFuseWorker, SavesAtExit, Early
<1>14. ASSUME LogoutButtonClick PROVE MainAlone'
  BY <1>0, <1>14 DEF MainAlone, Quiet, LogoutButtonClick, Early
<1>15. ASSUME UNCHANGED vars PROVE MainAlone'
  BY <1>15 DEF MainAlone, Quiet, Early, vars
<1> QED
  BY <1>1, <1>2, <1>3, <1>5, <1>6, <1>7, <1>8, <1>9, <1>10, <1>11, <1>12, <1>13, <1>14, <1>15
     DEF Next, Actors, MainStep, User, Kill, MainThrows

-----------------------------------------------------------------------------
(***************************************************************************)
(* No token that has not been issued.                                      *)
(***************************************************************************)
LEMMA TokensAreNumbers ==
  ASSUME TypeOK
  PROVE  /\ Main \in Actors /\ Workers \subseteq Actors /\ Torn \notin Nat
         /\ issued \in Nat /\ access \in Nat /\ refresh \in Nat /\ body \in Nat
         /\ valid \subseteq Nat \ {0} /\ profile \in Nat \cup {Torn}
         /\ got \in [Actors -> Nat] /\ content \in [Actors -> Nat]
         /\ pc \in [Actors -> Points] /\ why \in [Actors -> Purposes]
<1>1. Tokens \subseteq Nat /\ 1 .. MaxTokens \subseteq Nat \ {0} /\ Torn \notin Nat
  BY TokensAssumption DEF Tokens
<1>2. got \in [Actors -> Nat] /\ content \in [Actors -> Nat]
  BY <1>1 DEF TypeOK
<1> QED
  BY <1>1, <1>2 DEF TypeOK, Actors

\* A step that issues nothing, and moves no token into the profile.
LEMMA NumbersStay ==
  ASSUME TypeOK, Numbered, issued' = issued, valid' \subseteq valid, refresh' \in {0, refresh},
         body' \in {0, body, refresh}, profile' \in {profile, Torn},
         \A a \in Actors : got'[a] \in {0, got[a]} /\ content'[a] \in {0, content[a]}
  PROVE  Numbered'
BY TokensAreNumbers DEF Numbered

LEMMA NumberedStep == TypeOK /\ Numbered /\ [Next]_vars => Numbered'
<1> SUFFICES ASSUME TypeOK, Numbered, [Next]_vars PROVE Numbered'
  OBVIOUS
<1> USE TokensAreNumbers DEF At, Go, MainGo, service, token, file, locals, history
<1>1. ASSUME UNCHANGED << valid, issued, refresh, body, profile, got, content >> PROVE Numbered'
  BY <1>1 DEF Numbered
<1>2. ASSUME NEW a \in Actors,
             \/ RefreshRefused(a) \/ AssignAccessToken(a) \/ EndRequest(a) \/ BeginRequest(a)
      PROVE  Numbered'
  BY <1>1, <1>2 DEF RefreshRefused, AssignAccessToken, MoveMember, EndRequest, BeginRequest
<1>18. ASSUME NEW a \in Actors, PostRequest(a) \/ RetryRequest(a) PROVE Numbered'
  <2>1. valid' \subseteq valid /\ UNCHANGED << issued, refresh, body, profile, got, content >>
    BY <1>18 DEF PostRequest, RetryRequest, Post, CarriedOut
  <2> QED
    BY <2>1, NumbersStay
<1>3. ASSUME NEW a \in Actors, RefreshAccepted(a) \/ (a = Main /\ LoginAccepted) PROVE Numbered'
  <2>1. /\ issued' = issued + 1 /\ valid' \subseteq valid \cup {issued + 1}
        /\ got' = [got EXCEPT ![a] = issued + 1] \/ got' = got
        /\ UNCHANGED << refresh, body, profile, content >>
    BY <1>3 DEF RefreshAccepted, LoginAccepted
  <2>2. \A b \in Actors : got'[b] <= issued + 1
    BY <2>1 DEF Numbered
  <2> QED
    BY <2>1, <2>2 DEF Numbered
<1>4. ASSUME NEW a \in Actors, RefreshReplyLost(a) \/ RefreshReplyIncomplete(a) PROVE Numbered'
  BY <1>4, NumbersStay DEF RefreshReplyLost, RefreshReplyIncomplete
<1>5. ASSUME NEW a \in Actors, AssignRefreshToken(a) PROVE Numbered'
  BY <1>5 DEF AssignRefreshToken, MoveMember, Numbered
<1>6. ASSUME NEW a \in Actors, ComposeProfile(a) PROVE Numbered'
  BY <1>6, Validated DEF ComposeProfile, Numbered
<1>7. ASSUME NEW a \in Actors, OpenProfile(a) \/ OpenRefused(a) \/ DiskFailure(a) PROVE Numbered'
  BY <1>7, NumbersStay DEF OpenProfile, OpenRefused, DiskFailure
<1>8. ASSUME NEW a \in Actors, WriteProfile(a) PROVE Numbered'
  BY <1>8 DEF WriteProfile, Numbered
<1>9. ASSUME RestoreThrows \/ CloseWindow \/ UserInformationArrives \/ JoinFuseWorker PROVE Numbered'
  BY <1>1, <1>9 DEF RestoreThrows, CloseWindow, UserInformationArrives, JoinFuseWorker
<1>10. ASSUME CheckToken \/ StartFuseWorker \/ ShowMainWindow PROVE Numbered'
  BY <1>10, Validated, NumbersStay DEF CheckToken, StartFuseWorker, ShowMainWindow, AskUserInformation
<1>11. ASSUME LogoutButtonClick PROVE Numbered'
  <2>1. refresh' <= issued /\ body' <= issued
    BY <1>11, Validated DEF LogoutButtonClick, Numbered
  <2> QED
    BY <1>11, <2>1 DEF LogoutButtonClick, Numbered
<1>12. ASSUME Die PROVE Numbered'
  BY <1>12 DEF Die, Numbered
<1>13. ASSUME LoginCancelled \/ LogoffArrives PROVE Numbered'
  BY <1>13, NumbersStay DEF LoginCancelled, LogoffArrives
<1>14. ASSUME StartClient PROVE Numbered'
  BY <1>14 DEF StartClient, Loaded, Numbered
<1>15. ASSUME UNCHANGED vars PROVE Numbered'
  BY <1>1, <1>15 DEF vars
<1>16. CASE \E a \in Actors : Step(a) \/ (a \in Workers /\ BeginRequest(a))
  BY <1>2, <1>3, <1>4, <1>5, <1>6, <1>7, <1>8, <1>16, <1>18 DEF Step
<1>17. CASE MainStep \/ User
  BY <1>3, <1>9, <1>10, <1>11, <1>12, <1>13, <1>14, <1>17 DEF MainStep, User, Kill, MainThrows
<1> QED
  BY <1>15, <1>16, <1>17 DEF Next

-----------------------------------------------------------------------------
(***************************************************************************)
(* A pair is on its way once.                                              *)
(***************************************************************************)
LEMMA FlightsInit == Init => Flights
BY DEF Init, Flights

\* A step that begins and ends no refresh.
LEMMA FlightsGoOn ==
  ASSUME TypeOK, Flights, NEW a \in Actors, NEW to, to \notin Flying, pc[a] \notin Flying,
         pc' = [pc EXCEPT ![a] = to], got' = got, refresh' \in {0, refresh},
         body' \in {0, body, refresh}
  PROVE  Flights'
BY TokensAreNumbers DEF Flights, InFlight

LEMMA FlightsStep == TypeOK /\ MainAlone /\ Numbered /\ Flights /\ [Next]_vars => Flights'
<1> SUFFICES ASSUME TypeOK, MainAlone, Numbered, Flights, [Next]_vars PROVE Flights'
  OBVIOUS
<1> USE TokensAreNumbers DEF At, Go, MainGo, service, token, file, locals, history
<1>1. ASSUME NEW a \in Actors,
             \/ PostRequest(a) \/ RetryRequest(a) \/ RefreshRefused(a)
             \/ EndRequest(a) \/ BeginRequest(a) \/ OpenProfile(a)
      PROVE  Flights'
  BY <1>1, FlightsGoOn DEF Flying, PostRequest, RetryRequest, Post, RefreshRefused,
                           EndRequest, BeginRequest, OpenProfile
<1>2. ASSUME NEW a \in Actors, OpenRefused(a) \/ DiskFailure(a) \/ WriteProfile(a) PROVE Flights'
  <2>1. AfterSave(why[a]) \notin Flying
    BY AfterSavePoints DEF Flying
  <2>2. pc[a] \notin Flying /\ pc' = [pc EXCEPT ![a] = AfterSave(why[a])]
        /\ UNCHANGED << got, refresh, body >>
    BY <1>2 DEF Flying, OpenRefused, DiskFailure, WriteProfile
  <2> QED
    BY <2>1, <2>2, FlightsGoOn
<1>3. ASSUME NEW a \in Actors, RefreshAccepted(a) \/ (a = Main /\ LoginAccepted) PROVE Flights'
  <2>1. /\ pc' = [pc EXCEPT ![a] = "reply"] /\ UNCHANGED << refresh, body >>
        /\ got' = [got EXCEPT ![a] = issued + 1] \/ got' = got
    BY <1>3 DEF RefreshAccepted, LoginAccepted
  <2>2. \A b \in Actors : ~(InFlight(b))' => got'[b] = 0
    BY <2>1 DEF Flights, InFlight, Flying
  <2>3. \A b, c \in Actors : got'[b] # 0 /\ got'[b] = got'[c] => b = c
    BY <2>1 DEF Flights, Numbered
  <2>4. \A b \in Actors : got'[b] # 0 => got'[b] # refresh /\ got'[b] # body
    BY <2>1 DEF Flights, Numbered
  <2> QED
    BY <2>1, <2>2, <2>3, <2>4 DEF Flights
<1>4. ASSUME NEW a \in Actors, RefreshReplyLost(a) \/ RefreshReplyIncomplete(a) PROVE Flights'
  BY <1>4 DEF RefreshReplyLost, RefreshReplyIncomplete, Flights, InFlight, Flying
<1>5. ASSUME NEW a \in Actors, AssignAccessToken(a) PROVE Flights'
  BY <1>5 DEF AssignAccessToken, MoveMember, Flights, InFlight, Flying
<1>6. ASSUME NEW a \in Actors, AssignRefreshToken(a) PROVE Flights'
  BY <1>6 DEF AssignRefreshToken, MoveMember, Flights, InFlight, Flying
<1>7. ASSUME NEW a \in Actors, ComposeProfile(a) PROVE Flights'
  BY <1>7, Validated, FlightsGoOn DEF ComposeProfile, Flying
<1>8. ASSUME RestoreThrows \/ CloseWindow \/ UserInformationArrives \/ JoinFuseWorker PROVE Flights'
  BY <1>8, FlightsGoOn
     DEF RestoreThrows, CloseWindow, UserInformationArrives, JoinFuseWorker, SavesAtExit, Flying
<1>9. ASSUME CheckToken \/ StartFuseWorker \/ ShowMainWindow PROVE Flights'
  BY <1>9, Validated, FlightsGoOn
     DEF CheckToken, StartFuseWorker, ShowMainWindow, AskUserInformation, Flying
<1>10. ASSUME LogoutButtonClick PROVE Flights'
  <2>1. CASE Valid
    BY <1>10, <2>1, Validated, FlightsGoOn DEF LogoutButtonClick, Flying
  <2>2. CASE ~Valid
    BY <1>10, <2>2, Validated DEF LogoutButtonClick, Flights, InFlight
  <2> QED
    BY <2>1, <2>2
<1>11. ASSUME Die PROVE Flights'
  BY <1>11 DEF Die, Flights
<1>12. ASSUME LoginCancelled \/ LogoffArrives PROVE Flights'
  BY <1>12, FlightsGoOn DEF LoginCancelled, LogoffArrives, Flying
<1>13. ASSUME StartClient PROVE Flights'
  <2>1. \A a \in Actors : pc[a] \in {"idle", "exited", "killed"}
    BY <1>13 DEF StartClient, Running, MainAlone, Early, Quiet, Actors
  <2>2. \A a \in Actors : got'[a] = 0
    BY <1>13, <2>1 DEF StartClient, Flights, InFlight, Flying
  <2> QED
    BY <2>2 DEF Flights
<1>14. ASSUME UNCHANGED vars PROVE Flights'
  BY <1>14 DEF Flights, InFlight, vars
<1>15. CASE \E a \in Actors : Step(a) \/ (a \in Workers /\ BeginRequest(a))
  BY <1>1, <1>2, <1>3, <1>4, <1>5, <1>6, <1>7, <1>15 DEF Step
<1>16. CASE MainStep \/ User
  BY <1>3, <1>8, <1>9, <1>10, <1>11, <1>12, <1>13, <1>16 DEF MainStep, User, Kill, MainThrows
<1> QED
  BY <1>14, <1>15, <1>16 DEF Next

-----------------------------------------------------------------------------
(***************************************************************************)
(* The token that is held is accepted.                                     *)
(***************************************************************************)
LEMMA NobodyBusy ==
  ASSUME TypeOK, MainAlone, ~Running \/ At(Main, "login")
  PROVE  /\ \A a \in Actors : pc[a] \in {"idle", "exited", "killed", "login"}
         /\ Quiet
BY DEF Running, At, MainAlone, Early, Quiet, Actors

LEMMA SessionInit == Init => Session
BY DEF Init, Session, InFlight, Flying

\* A step that begins and ends no refresh; it may name the token that is held
\* in a logoff, or carry the logoff out.
LEMMA SessionGoesOn ==
  ASSUME TypeOK, Flights, Session,
         NEW a \in Actors, NEW to, to \notin Flying, pc[a] \notin Flying,
         pc' = [pc EXCEPT ![a] = to], refresh' \in {0, refresh}, body' \in {body, refresh},
         valid' \in {valid, valid \ {body}}, UNCHANGED << got, lostReply >>
  PROVE  Session'
<1>1. \A b \in Actors : ((InFlight(b))' <=> InFlight(b))
  BY TokensAreNumbers DEF InFlight
<1>2. \A b \in Actors : got[b] \in valid => got[b] \in valid'
  BY TokensAreNumbers DEF Flights
<1>3. refresh' # 0 => /\ refresh' = refresh
                      /\ refresh \in valid \/ refresh = body => refresh \in valid' \/ refresh = body'
  OBVIOUS
<1>4. valid' \subseteq valid /\ 0 \notin valid
  BY TokensAreNumbers
<1> QED
  BY <1>1, <1>2, <1>3, <1>4 DEF Session

LEMMA SessionStep ==
  TypeOK /\ MainAlone /\ Numbered /\ Flights /\ Session /\ [Next]_vars => Session'
<1> SUFFICES ASSUME TypeOK, MainAlone, Numbered, Flights, Session, [Next]_vars PROVE Session'
  OBVIOUS
<1> USE TokensAreNumbers DEF At, Go, MainGo, service, token, file, locals, history
<1>1. ASSUME NEW a \in Actors,
             RefreshRefused(a) \/ EndRequest(a) \/ BeginRequest(a) \/ OpenProfile(a)
      PROVE  Session'
  BY <1>1, SessionGoesOn DEF Flying, RefreshRefused, EndRequest, BeginRequest, OpenProfile
<1>18. ASSUME NEW a \in Actors, PostRequest(a) \/ RetryRequest(a) PROVE Session'
  <2>1. /\ pc[a] \notin Flying /\ UNCHANGED << refresh, body, got, lostReply >>
        /\ \E to : to \notin Flying /\ pc' = [pc EXCEPT ![a] = to]
        /\ valid' \in {valid, valid \ {body}}
    BY <1>18 DEF Flying, PostRequest, RetryRequest, Post, CarriedOut
  <2> QED
    BY <2>1, SessionGoesOn
<1>2. ASSUME NEW a \in Actors, OpenRefused(a) \/ DiskFailure(a) \/ WriteProfile(a) PROVE Session'
  <2>1. AfterSave(why[a]) \notin Flying
    BY AfterSavePoints DEF Flying
  <2>2. pc[a] \notin Flying /\ pc' = [pc EXCEPT ![a] = AfterSave(why[a])]
        /\ UNCHANGED << valid, got, refresh, body, lostReply >>
    BY <1>2 DEF Flying, OpenRefused, DiskFailure, WriteProfile
  <2> QED
    BY <2>1, <2>2, SessionGoesOn
<1>3. ASSUME NEW a \in Actors, RefreshAccepted(a) PROVE Session'
  <2> SUFFICES ASSUME ~lostReply PROVE Session'
    BY <1>3 DEF RefreshAccepted, Session
  <2>1. /\ pc' = [pc EXCEPT ![a] = "reply"] /\ got' = [got EXCEPT ![a] = issued + 1]
        /\ refresh \in valid /\ pc[a] = "refresh" /\ UNCHANGED << refresh, lostReply >>
        /\ valid' = (IF Rotates THEN valid \ {refresh} ELSE valid) \cup {issued + 1}
    BY <1>3 DEF RefreshAccepted
  <2>2. Rotates => \A b \in Actors : ~InFlight(b)
    BY <2>1 DEF Session
  <2>3. (InFlight(a))' /\ \A b \in Actors \ {a} : (InFlight(b))' <=> InFlight(b)
    BY <2>1 DEF InFlight, Flying
  <2>4. \A b \in Actors : (InFlight(b))' => got'[b] \in valid'
    <3> SUFFICES ASSUME NEW b \in Actors, (InFlight(b))' PROVE got'[b] \in valid'
      OBVIOUS
    <3>1. CASE b = a
      BY <2>1, <3>1
    <3>2. CASE b # a
      BY <2>1, <2>2, <2>3, <3>2 DEF Session
    <3> QED
      BY <3>1, <3>2
  <2>5. Rotates => refresh' \notin valid'
    BY <2>1 DEF Numbered
  <2> QED
    BY <2>1, <2>2, <2>3, <2>4, <2>5 DEF Session
<1>4. ASSUME LoginAccepted PROVE Session'
  <2> SUFFICES ASSUME ~lostReply' PROVE Session'
    BY DEF Session
  <2>1. /\ pc' = [pc EXCEPT ![Main] = "reply"] /\ got' = [got EXCEPT ![Main] = issued + 1]
        /\ valid' = valid \cup {issued + 1} /\ refresh' = refresh /\ refresh = 0
    BY <1>4 DEF LoginAccepted, MainAlone
  <2>2. \A b \in Actors : (InFlight(b))' => b = Main
    BY <1>4, <2>1, NobodyBusy DEF LoginAccepted, InFlight, Flying
  <2>3. 0 \notin valid'
    BY <2>1
  <2>4. (InFlight(Main))' /\ got'[Main] \in valid'
    BY <2>1 DEF InFlight, Flying
  <2> QED
    BY <2>1, <2>2, <2>3, <2>4 DEF Session
<1>5. ASSUME NEW a \in Actors, RefreshReplyLost(a) \/ RefreshReplyIncomplete(a) PROVE Session'
  BY <1>5 DEF RefreshReplyLost, RefreshReplyIncomplete, Session
<1>6. ASSUME NEW a \in Actors, AssignAccessToken(a) PROVE Session'
  <2>1. /\ pc' = [pc EXCEPT ![a] = "assign"] /\ pc[a] = "reply"
        /\ UNCHANGED << valid, refresh, body, got, lostReply >>
    BY <1>6 DEF AssignAccessToken, MoveMember
  <2>2. \A b \in Actors : (InFlight(b))' <=> InFlight(b)
    BY <2>1 DEF InFlight, Flying
  <2> QED
    BY <2>1, <2>2 DEF Session
<1>7. ASSUME NEW a \in Actors, AssignRefreshToken(a) PROVE Session'
  <2> SUFFICES ASSUME ~lostReply PROVE Session'
    BY <1>7 DEF AssignRefreshToken, Session
  <2>1. /\ pc' = [pc EXCEPT ![a] = "save"] /\ pc[a] = "assign" /\ refresh' = got[a]
        /\ got' = [got EXCEPT ![a] = 0] /\ UNCHANGED << valid, lostReply >>
    BY <1>7 DEF AssignRefreshToken, MoveMember
  <2>2. InFlight(a) /\ \A b \in Actors : (InFlight(b))' <=> InFlight(b) /\ b # a
    BY <2>1 DEF InFlight, Flying
  <2>3. refresh' \in valid'
    BY <2>1, <2>2 DEF Session
  <2> QED
    BY <2>1, <2>2, <2>3 DEF Session
<1>8. ASSUME NEW a \in Actors, ComposeProfile(a) PROVE Session'
  BY <1>8, Validated, SessionGoesOn DEF ComposeProfile, Flying
<1>9. ASSUME RestoreThrows \/ CloseWindow \/ UserInformationArrives \/ JoinFuseWorker PROVE Session'
  BY <1>9, SessionGoesOn
     DEF RestoreThrows, CloseWindow, UserInformationArrives, JoinFuseWorker, SavesAtExit, Flying
<1>10. ASSUME CheckToken \/ StartFuseWorker \/ ShowMainWindow \/ LoginCancelled PROVE Session'
  BY <1>10, Validated, SessionGoesOn
     DEF CheckToken, StartFuseWorker, ShowMainWindow, AskUserInformation, LoginCancelled, Flying
<1>11. ASSUME LogoutButtonClick PROVE Session'
  <2>1. CASE Valid
    BY <1>11, <2>1, Validated, SessionGoesOn DEF LogoutButtonClick, Flying
  <2>2. CASE ~Valid
    BY <1>11, <2>2, Validated DEF LogoutButtonClick, Session, InFlight
  <2> QED
    BY <2>1, <2>2
<1>12. ASSUME Die PROVE Session'
  BY <1>12 DEF Die, Session, InFlight, Flying
<1>13. ASSUME LogoffArrives PROVE Session'
  <2>1. /\ pc' = [pc EXCEPT ![Main] = "join"] /\ pc[Main] = "answered" /\ refresh' = 0
        /\ UNCHANGED << valid, got, lostReply >>
    BY <1>13 DEF LogoffArrives
  <2>2. \A b \in Actors : (InFlight(b))' <=> InFlight(b)
    BY <2>1 DEF InFlight, Flying
  <2>3. 0 \notin valid
    OBVIOUS
  <2> QED
    BY <2>1, <2>2, <2>3 DEF Session
<1>14. ASSUME StartClient PROVE Session'
  <2>1. \A a \in Actors : ~(InFlight(a))'
    BY <1>14, NobodyBusy DEF StartClient, InFlight, Flying
  <2>2. ~lostReply' /\ refresh' # 0 => refresh' \in valid'
    BY <1>14 DEF StartClient
  <2> QED
    BY <2>1, <2>2 DEF Session
<1>15. ASSUME UNCHANGED vars PROVE Session'
  BY <1>15 DEF Session, InFlight, vars
<1>16. CASE \E a \in Actors : Step(a) \/ (a \in Workers /\ BeginRequest(a))
  BY <1>1, <1>2, <1>3, <1>5, <1>6, <1>7, <1>8, <1>16, <1>18 DEF Step
<1>17. CASE MainStep \/ User
  BY <1>4, <1>9, <1>10, <1>11, <1>12, <1>13, <1>14, <1>17 DEF MainStep, User, Kill, MainThrows
<1> QED
  BY <1>15, <1>16, <1>17 DEF Next

-----------------------------------------------------------------------------
(***************************************************************************)
(* The halves of the token belong together.                                *)
(***************************************************************************)
Peaceful == Rotates /\ ~lostReply /\ ~loggedOff

LEMMA PairInit == Init => Pair
BY DEF Init, Pair, Quiet, InFlight, Flying, Actors, MainAlone

\* A step that leaves the token alone, and begins and ends no refresh.
LEMMA PairStays ==
  ASSUME TypeOK, Pair, NEW a \in Actors, NEW to, to \notin Flying, pc[a] \notin Flying,
         pc' = [pc EXCEPT ![a] = to], UNCHANGED << access, refresh, got, lostReply, loggedOff >>,
         \A b \in Actors \ {a} : why'[b] = why[b],
         why'[Main] = "volume" => why[Main] = "volume",
         Peaceful /\ ~Quiet' => (access = 0 <=> refresh = 0)
  PROVE  Pair'
<1> SUFFICES ASSUME Peaceful PROVE Pair'
  BY DEF Pair, Peaceful
<1>1. /\ \A b \in Actors : pc'[b] = "assign" <=> pc[b] = "assign"
      /\ \A b \in Actors : (InFlight(b))' => InFlight(b) /\ b # a
  BY TokensAreNumbers DEF InFlight, Flying
<1> QED
  BY <1>1 DEF Pair, Peaceful

\* Validate changes nothing unless a thread is alone with half a token.
LEMMA PairValidated ==
  ASSUME TypeOK, Pair, Validate, NEW a \in Actors, a = Main \/ ~Quiet, NEW to, to \notin Flying,
         pc[a] \notin Flying, pc' = [pc EXCEPT ![a] = to],
         UNCHANGED << got, lostReply, loggedOff >>,
         \A b \in Actors \ {a} : why'[b] = why[b],
         why'[Main] = "volume" => why[Main] = "volume" \/ Valid
  PROVE  Pair'
<1> SUFFICES ASSUME Peaceful PROVE Pair'
  BY DEF Pair, Peaceful
<1>1. /\ \A b \in Actors : pc'[b] = "assign" <=> pc[b] = "assign"
      /\ \A b \in Actors : (InFlight(b))' => InFlight(b) /\ b # a
  BY TokensAreNumbers DEF InFlight, Flying
<1>2. CASE access = 0 <=> refresh = 0
  <2>1. access' = access /\ refresh' = refresh
    BY <1>2, Validated
  <2>2. why'[Main] = "volume" => access # 0 /\ refresh # 0
    BY DEF Pair, Peaceful, Valid
  <2> QED
    BY <1>1, <1>2, <2>1, <2>2 DEF Pair, Peaceful
<1>3. CASE ~(access = 0 <=> refresh = 0)
  <2>1. Quiet /\ a = Main
    BY <1>3 DEF Pair, Peaceful
  <2>2. \A b \in Actors : ~InFlight(b)
    BY <2>1 DEF Quiet, InFlight, Flying, Actors
  <2>3. access' = 0 /\ refresh' = 0
    BY <1>3 DEF Validate, Half
  <2>4. why'[Main] # "volume"
    BY <1>3 DEF Pair, Peaceful, Valid
  <2>5. \A b \in Actors : pc'[b] # "assign"
    BY <1>1, <2>2 DEF InFlight, Flying
  <2> QED
    BY <1>1, <2>2, <2>3, <2>4, <2>5 DEF Pair
<1> QED
  BY <1>2, <1>3

\* Only a thread of the FUSE loop that goes on has company, and it had it before.
LEMMA QuietStays ==
  ASSUME TypeOK, NEW a \in Actors, a = Main \/ ~Quiet, NEW to,
         pc' = [pc EXCEPT ![a] = to], mounted' = mounted
  PROVE  ~Quiet' => ~Quiet
BY TokensAreNumbers, ActorsAssumption DEF Quiet

LEMMA BegunIsNotQuiet ==
  ASSUME NEW a \in Actors, pc[a] \in Begun PROVE a = Main \/ ~Quiet
BY DEF Actors, Quiet, Begun

LEMMA PairStep ==
  TypeOK /\ MainAlone /\ Numbered /\ Flights /\ Session /\ Pair /\ [Next]_vars => Pair'
<1> SUFFICES ASSUME TypeOK, MainAlone, Numbered, Flights, Session, Pair, [Next]_vars PROVE Pair'
  OBVIOUS
<1> USE TokensAreNumbers DEF At, Go, MainGo, service, token, file, locals, history
<1>0. Main \notin Workers
  BY ActorsAssumption
<1>1. ASSUME NEW a \in Actors,
             \/ PostRequest(a) \/ RetryRequest(a) \/ RefreshRefused(a)
             \/ EndRequest(a) \/ OpenProfile(a)
      PROVE  Pair'
  <2>1. PICK to : /\ pc' = [pc EXCEPT ![a] = to] /\ to \notin Flying
                  /\ pc[a] \in Begun \ Flying
                  /\ UNCHANGED << mounted, access, refresh, got, lostReply, loggedOff >>
                  /\ why' = why \/ (a \in Workers /\ why' = [why EXCEPT ![a] = "none"])
    BY <1>1 DEF Flying, Begun, PostRequest, RetryRequest, Post, RefreshRefused, EndRequest, OpenProfile
  <2>2. Peaceful /\ ~Quiet' => (access = 0 <=> refresh = 0)
    BY <2>1, BegunIsNotQuiet, QuietStays DEF Pair, Peaceful
  <2> QED
    BY <1>0, <2>1, <2>2, PairStays
<1>2. ASSUME NEW a \in Actors, OpenRefused(a) \/ DiskFailure(a) \/ WriteProfile(a) PROVE Pair'
  <2>1. AfterSave(why[a]) \notin Flying
    BY AfterSavePoints DEF Flying
  <2>2. /\ pc[a] \in Begun \ Flying /\ pc' = [pc EXCEPT ![a] = AfterSave(why[a])]
        /\ UNCHANGED << mounted, why, got, access, refresh, lostReply, loggedOff >>
    BY <1>2 DEF Flying, Begun, OpenRefused, DiskFailure, WriteProfile
  <2>3. Peaceful /\ ~Quiet' => (access = 0 <=> refresh = 0)
    BY <2>2, BegunIsNotQuiet, QuietStays DEF Pair, Peaceful
  <2> QED
    BY <2>1, <2>2, <2>3, PairStays
<1>3. ASSUME NEW a \in Workers, BeginRequest(a) PROVE Pair'
  <2>1. /\ pc' = [pc EXCEPT ![a] = "post"] /\ pc[a] \notin Flying /\ "post" \notin Flying
        /\ why' = [why EXCEPT ![a] = "callback"] /\ ~Quiet
        /\ UNCHANGED << access, refresh, got, lostReply, loggedOff >>
    BY <1>3 DEF BeginRequest, Flying, Quiet
  <2>2. Peaceful => (access = 0 <=> refresh = 0)
    BY <2>1 DEF Pair, Peaceful
  <2> QED
    BY <1>0, <2>1, <2>2, PairStays
<1>4. ASSUME NEW a \in Actors, ComposeProfile(a) PROVE Pair'
  <2>1. /\ pc' = [pc EXCEPT ![a] = "open"] /\ pc[a] \in Begun \ Flying /\ "open" \notin Flying
        /\ Validate /\ UNCHANGED << why, got, lostReply, loggedOff >>
    BY <1>4 DEF ComposeProfile, Flying, Begun
  <2> QED
    BY <2>1, BegunIsNotQuiet, PairValidated
<1>5. ASSUME NEW a \in Actors, RefreshAccepted(a) PROVE Pair'
  <2> SUFFICES ASSUME Peaceful PROVE Pair'
    BY <1>5 DEF RefreshAccepted, Pair, Peaceful
  <2>1. /\ pc' = [pc EXCEPT ![a] = "reply"] /\ got' = [got EXCEPT ![a] = issued + 1]
        /\ refresh \in valid /\ pc[a] = "refresh"
        /\ UNCHANGED << access, refresh, mounted, why, lostReply, loggedOff >>
    BY <1>5 DEF RefreshAccepted
  <2>2. \A b \in Actors : ~InFlight(b)
    BY <2>1 DEF Session, Peaceful
  <2>3. \A b \in Actors : pc'[b] # "assign" /\ pc[b] # "assign"
    BY <2>1, <2>2 DEF InFlight, Flying
  <2>4. ~Quiet' => (access = 0 <=> refresh = 0)
    BY <2>1, BegunIsNotQuiet, QuietStays DEF Pair, Peaceful, Begun
  <2>5. refresh # 0
    BY <2>1
  <2> QED
    BY <2>1, <2>3, <2>4, <2>5 DEF Pair, Peaceful
<1>6. ASSUME NEW a \in Actors, RefreshReplyLost(a) \/ RefreshReplyIncomplete(a) PROVE Pair'
  BY <1>6 DEF RefreshReplyLost, RefreshReplyIncomplete, Pair
<1>7. ASSUME NEW a \in Actors, AssignAccessToken(a) PROVE Pair'
  <2> SUFFICES ASSUME Peaceful PROVE Pair'
    BY <1>7 DEF AssignAccessToken, Pair, Peaceful
  <2>1. /\ pc' = [pc EXCEPT ![a] = "assign"] /\ pc[a] = "reply" /\ access' = got[a]
        /\ UNCHANGED << refresh, got, mounted, why, lostReply, loggedOff >>
    BY <1>7 DEF AssignAccessToken, MoveMember
  <2>2. InFlight(a) /\ \A b \in Actors : (InFlight(b))' <=> InFlight(b)
    BY <2>1 DEF InFlight, Flying
  <2>3. \A b \in Actors : InFlight(b) => b = a
    BY <2>2 DEF Session, Peaceful
  <2>4. got[a] # 0
    BY <2>2 DEF Session, Peaceful
  <2>5. pc'[a] = "assign" /\ \A b \in Actors : pc'[b] = "assign" => b = a
    BY <2>1, <2>2, <2>3 DEF InFlight, Flying
  <2>6. ~Quiet' => refresh # 0
    <3>1. CASE why[a] = "login"
      <4>1. a = Main /\ Quiet
        BY <3>1 DEF MainAlone, Early, Actors
      <4> QED
        BY <2>1, <4>1, QuietStays
    <3>2. CASE why[a] # "login"
      BY <2>2, <3>2 DEF Pair, Peaceful
    <3> QED
      BY <3>1, <3>2
  <2> QED
    BY <2>1, <2>2, <2>4, <2>5, <2>6 DEF Pair, Peaceful
<1>8. ASSUME NEW a \in Actors, AssignRefreshToken(a) PROVE Pair'
  <2> SUFFICES ASSUME Peaceful PROVE Pair'
    BY <1>8 DEF AssignRefreshToken, Pair, Peaceful
  <2>1. /\ pc' = [pc EXCEPT ![a] = "save"] /\ pc[a] = "assign" /\ refresh' = got[a]
        /\ UNCHANGED << access, mounted, why, lostReply, loggedOff >>
    BY <1>8 DEF AssignRefreshToken, MoveMember
  <2>2. InFlight(a) /\ \A b \in Actors : InFlight(b) => b = a
    BY <2>1 DEF InFlight, Flying, Session, Peaceful
  <2>3. \A b \in Actors : ~(InFlight(b))' /\ pc'[b] # "assign"
    BY <2>1, <2>2 DEF InFlight, Flying
  <2>4. access' = refresh' /\ refresh' # 0
    BY <2>1, <2>2 DEF Session, Pair, Peaceful
  <2> QED
    BY <2>3, <2>4 DEF Pair
<1>9. ASSUME RestoreThrows \/ CloseWindow \/ JoinFuseWorker PROVE Pair'
  <2>1. PICK to : /\ pc' = [pc EXCEPT ![Main] = to] /\ to \notin Flying /\ pc[Main] \notin Flying
                  /\ UNCHANGED << access, refresh, got, lostReply, loggedOff >>
                  /\ mounted' = mounted \/ ~mounted'
                  /\ \E w \in {"none", "exit"} : why' = [why EXCEPT ![Main] = w]
    BY <1>9 DEF RestoreThrows, CloseWindow, StopAccepting, JoinFuseWorker, SavesAtExit, Flying
  <2>2. ~Quiet' => ~Quiet
    BY <1>0, <2>1 DEF Quiet
  <2>3. Peaceful /\ ~Quiet' => (access = 0 <=> refresh = 0)
    BY <2>2 DEF Pair, Peaceful
  <2> QED
    BY <2>1, <2>3, PairStays
<1>10. ASSUME UserInformationArrives PROVE Pair'
  <2>1. PICK to : /\ pc' = [pc EXCEPT ![Main] = to] /\ to \notin Flying /\ pc[Main] \notin Flying
                  /\ UNCHANGED << access, refresh, got, lostReply, loggedOff >>
                  /\ why[Main] \in {"volume", "window"} /\ why' = [why EXCEPT ![Main] = "none"]
    BY <1>10 DEF UserInformationArrives, Flying
  <2>2. why[Main] = "window" => ~Quiet
    BY DEF MainAlone, Quiet
  <2>3. Peaceful => (access = 0 <=> refresh = 0)
    BY <2>1, <2>2 DEF Pair, Peaceful
  <2> QED
    BY <2>1, <2>3, PairStays
<1>11. ASSUME CheckToken \/ StartFuseWorker \/ ShowMainWindow PROVE Pair'
  <2>1. PICK to : /\ pc' = [pc EXCEPT ![Main] = to] /\ to \notin Flying /\ pc[Main] \notin Flying
                  /\ Validate /\ UNCHANGED << got, lostReply, loggedOff >>
                  /\ \/ \E w \in {"none", "window"} : why' = [why EXCEPT ![Main] = w]
                     \/ why' = [why EXCEPT ![Main] = "volume"] /\ Valid
    BY <1>11 DEF CheckToken, StartFuseWorker, ShowMainWindow, AskUserInformation, Flying
  <2> QED
    BY <2>1, PairValidated
<1>12. ASSUME LogoutButtonClick PROVE Pair'
  <2>1. PICK to : /\ pc' = [pc EXCEPT ![Main] = to] /\ to \notin Flying /\ pc[Main] \notin Flying
                  /\ Validate /\ UNCHANGED << got, lostReply, loggedOff >>
                  /\ why' = why \/ why' = [why EXCEPT ![Main] = "logoff"]
    <3>1. pc[Main] = "ui" /\ pc = [pc EXCEPT ![Main] = pc[Main]]
      BY <1>12 DEF LogoutButtonClick
    <3> QED
      BY <1>12, <3>1 DEF LogoutButtonClick, Flying
  <2> QED
    BY <2>1, PairValidated
<1>13. ASSUME Die PROVE Pair'
  BY <1>13 DEF Die, Pair, Quiet, InFlight, Flying
<1>14. ASSUME LoginCancelled PROVE Pair'
  <2>1. /\ pc' = [pc EXCEPT ![Main] = "exited"] /\ why' = [why EXCEPT ![Main] = "none"]
        /\ access' = 0 /\ refresh' = 0
    BY <1>14 DEF LoginCancelled
  <2>2. \A b \in Actors : pc'[b] \notin Flying
    BY <1>14, <2>1, NobodyBusy DEF LoginCancelled, Flying
  <2> QED
    BY <2>1, <2>2 DEF Pair, InFlight, Flying
<1>15. ASSUME LoginAccepted PROVE Pair'
  <2>1. /\ pc' = [pc EXCEPT ![Main] = "reply"] /\ why' = [why EXCEPT ![Main] = "login"]
        /\ access' = 0 /\ refresh' = 0
    BY <1>15 DEF LoginAccepted, MainAlone
  <2>2. \A b \in Actors : pc'[b] # "assign" /\ (pc'[b] \in Flying => b = Main)
    BY <1>15, <2>1, NobodyBusy DEF LoginAccepted, Flying
  <2> QED
    BY <2>1, <2>2 DEF Pair, InFlight
<1>16. ASSUME LogoffArrives PROVE Pair'
  BY <1>16 DEF LogoffArrives, Pair
<1>17. ASSUME StartClient PROVE Pair'
  <2>1. PICK to : pc' = [pc EXCEPT ![Main] = to] /\ to \notin Flying /\ why'[Main] # "volume"
                  /\ access' = 0 /\ mounted' = mounted
    BY <1>17 DEF StartClient, Flying
  <2>2. Quiet' /\ \A b \in Actors : pc'[b] \notin Flying
    BY <1>0, <1>17, <2>1, NobodyBusy DEF StartClient, Flying, Quiet
  <2> QED
    BY <2>1, <2>2 DEF Pair, InFlight, Flying
<1>18. ASSUME UNCHANGED vars PROVE Pair'
  BY <1>18 DEF Pair, Quiet, InFlight, vars
<1>19. CASE \E a \in Actors : Step(a)
  BY <1>1, <1>2, <1>4, <1>5, <1>6, <1>7, <1>8, <1>19 DEF Step
<1>20. CASE MainStep \/ User
  BY <1>9, <1>10, <1>11, <1>12, <1>13, <1>14, <1>15, <1>16, <1>17, <1>20
     DEF MainStep, User, Kill, MainThrows
<1> QED
  BY <1>3, <1>18, <1>19, <1>20 DEF Next

-----------------------------------------------------------------------------
LEMMA TokenInvAlways == Spec => []TokenInv
<1>1. Init => TokenInv
  <2>1. Init => Numbered
    BY DEF Init, Numbered
  <2> QED
    BY <2>1, TypeInit, MainAloneInit, FlightsInit, SessionInit, PairInit DEF TokenInv
<1>2. TokenInv /\ [Next]_vars => TokenInv'
  BY TypeStep, MainAloneStep, NumberedStep, FlightsStep, SessionStep, PairStep DEF TokenInv
<1> QED
  BY <1>1, <1>2, PTL DEF Spec

\* Service, token, profile and threads keep their types.
THEOREM TypeCorrect == Spec => []TypeOK
<1>1. TokenInv => TypeOK
  BY DEF TokenInv
<1> QED
  BY TokenInvAlways, <1>1, PTL

\* However many threads refresh the shared token, get their replies in any
\* order, are killed and come back, the client holds a refresh token that is
\* accepted, unless a reply was lost.
THEOREM SessionIsKept == Spec => []KeepsSession
<1>1. TokenInv => KeepsSession
  BY DEF TokenInv, Session, InFlight, Flying, KeepsSession, Refreshing
<1> QED
  BY TokenInvAlways, <1>1, PTL

\* Under a service that rotates refresh tokens the two halves of the token,
\* assigned one after the other and without a lock, belong together.
THEOREM HalvesBelongTogether == Spec => []PairMatched
<1>1. TokenInv => PairMatched
  BY DEF TokenInv, Pair, PairMatched, MidAssignment
<1> QED
  BY TokenInvAlways, <1>1, PTL
=============================================================================
