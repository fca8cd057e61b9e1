---------------------------- MODULE TokenSession ----------------------------
(***************************************************************************)
(* The user token's life (HalalCloud.Client.cpp, HccProtocolWrappers.cpp): *)
(* restored from the profile when the client starts, got from the login    *)
(* dialog otherwise, refreshed by whatever request is refused as           *)
(* unauthenticated, saved in the profile after every change and cleared    *)
(* when the user logs off.  The one UserToken is shared without a lock by  *)
(* the main thread and the threads of the FUSE loop, each of which may be  *)
(* in the middle of Request; the process may be killed at any step.        *)
(*                                                                         *)
(* Tokens are numbered in the order the service issues them; access token  *)
(* i and refresh token i are issued together, and 0 is the empty string.   *)
(***************************************************************************)
EXTENDS Naturals, FiniteSets

CONSTANTS
  Workers,     \* the threads of the FUSE loop
  Main,        \* the main thread
  NoActor,     \* nobody has the profile open
  MaxTokens,   \* bound: token pairs the service issues
  Rotates,     \* the service withdraws a refresh token when it is used
  DiskFails,   \* opening or writing the profile may fail
  Torn         \* what a profile holds that was truncated and not yet written

ASSUME ActorsAssumption == Main \notin Workers /\ NoActor \notin Workers \cup {Main}
ASSUME TokensAssumption ==
  MaxTokens \in Nat /\ Torn \notin Nat /\ Rotates \in BOOLEAN /\ DiskFails \in BOOLEAN

Actors == Workers \cup {Main}
Tokens == 0 .. MaxTokens

VARIABLES
  valid,       \* the service: refresh tokens it accepts
  issued,      \* the service: pairs issued so far
  access,      \* CurrentToken.AccessToken
  refresh,     \* CurrentToken.RefreshToken
  profile,     \* the RefreshToken in Profile.json, 0 without one, or Torn
  writer,      \* who has Profile.json open for writing
  mounted,     \* the FUSE loop accepts calls
  pc,          \* where each thread is
  why,         \* what each thread's request or save is part of
  got,         \* the pair in the reply a thread received
  content,     \* the RefreshToken in the text a thread is about to write
  response,    \* RawResponseJson points to a buffer
  body,        \* the RefreshToken in the body of a logoff request
  lostReply,   \* history: the token at hand was out of date when it was read
               \* from the profile, or a refresh's reply never arrived whole
  lostSave,    \* history: a save was given up because of the disk
  loggedOff,   \* history: Logoff has cleared the token
  leaked       \* history: a response buffer was dropped without being freed

service == << valid, issued >>
token == << access, refresh >>
file == << profile, writer >>
locals == << got, content, response, body >>
history == << lostReply, lostSave, loggedOff, leaked >>
vars == << service, token, file, mounted, pc, why, locals, history >>

-----------------------------------------------------------------------------
(* UserToken.                                                              *)

Valid == access # 0 /\ refresh # 0
Half == (access = 0) # (refresh = 0)

\* Validate: a token of which only one half is there is cleared.
Validate ==
  /\ access' = IF Half THEN 0 ELSE access
  /\ refresh' = IF Half THEN 0 ELSE refresh

\* Seeded faults: the members are moved in the other order; a refresh token
\* already there is kept.
MoveMemberSwapped(i, g) ==
  IF i = 1 THEN refresh' = g /\ UNCHANGED access ELSE access' = g /\ UNCHANGED refresh
MoveMemberKeeping(i, g) ==
  /\ access' = IF i = 1 THEN g ELSE access
  /\ refresh' = IF i = 2 /\ refresh = 0 THEN g ELSE refresh

\* The implicit move assignment of UserToken moves AccessToken, then
\* RefreshToken; another thread may run between the two.
MoveMember(i, g) ==
  IF i = 1 THEN access' = g /\ UNCHANGED refresh ELSE refresh' = g /\ UNCHANGED access

\* What follows a save: the retry of a request, the rest of main.
AfterSave(w) ==
  CASE w = "restore" -> "check"
    [] w = "login" -> "start"
    [] w = "exit" -> "exited"
    [] OTHER -> "retry"

At(a, from) == pc[a] = from
Go(a, to) == pc' = [pc EXCEPT ![a] = to]

-----------------------------------------------------------------------------
(* The end of the process, by a kill or an exception nobody catches: its   *)
(* memory is gone, the file stays as it is.                                *)
Die ==
  /\ access' = 0 /\ refresh' = 0
  /\ writer' = NoActor
  /\ mounted' = FALSE
  /\ pc' = [a \in Actors |-> IF a = Main THEN "killed" ELSE "idle"]
  /\ why' = [a \in Actors |-> "none"]
  /\ got' = [a \in Actors |-> 0]
  /\ content' = [a \in Actors |-> 0]
  /\ response' = [a \in Actors |-> FALSE]
  /\ body' = 0
  /\ UNCHANGED << service, profile, lostReply, lostSave, loggedOff, leaked >>

Running == pc[Main] \notin {"killed", "exited"}
Kill == Running /\ Die

-----------------------------------------------------------------------------
(* Request: post, and on UNAUTHENTICATED refresh, save and post again.     *)

\* The service withdraws the refresh token that a logoff names.
CarriedOut(a) == IF why[a] = "logoff" THEN valid \ {body} ELSE valid

\* HccRpcPostRequest hands out a buffer with the body of any HTTP response,
\* whatever its status; only a transport failure leaves the pointer alone.
\* Whether an access token is still good is the service's affair.  A request
\* whose reply does not arrive may have been carried out all the same.
Post(a, retry) ==
  /\ UNCHANGED << issued, token, file, mounted, why, got, content, body, lostReply, lostSave,
                  loggedOff >>
  /\ leaked' = (leaked \/ response[a])
  /\ \/ Go(a, "answered") /\ response' = [response EXCEPT ![a] = TRUE]
        /\ valid' = CarriedOut(a)
     \/ Go(a, IF retry THEN "thrown" ELSE "refresh")
        /\ response' = [response EXCEPT ![a] = TRUE]
        /\ UNCHANGED valid
     \/ Go(a, "thrown") /\ response' \in {response, [response EXCEPT ![a] = TRUE]}
        /\ valid' \in {valid, CarriedOut(a)}

PostRequest(a) == At(a, "post") /\ Post(a, FALSE)
RetryRequest(a) == At(a, "retry") /\ Post(a, TRUE)

\* The service replaces the pair of a refresh token it accepts.
RefreshAccepted(a) ==
  /\ At(a, "refresh")
  /\ refresh \in valid
  /\ issued < MaxTokens
  /\ issued' = issued + 1
  /\ valid' = (IF Rotates THEN valid \ {refresh} ELSE valid) \cup {issued + 1}
  /\ got' = [got EXCEPT ![a] = issued + 1]
  /\ Go(a, "reply")
  /\ UNCHANGED << token, file, mounted, why, content, response, body, history >>

\* The service refuses it, or cannot be reached: RequestWithoutToken throws,
\* and the body of a refusal is not freed.
RefreshRefused(a) ==
  /\ At(a, "refresh")
  /\ Go(a, "thrown")
  /\ leaked' \in {leaked, TRUE}
  /\ UNCHANGED << service, token, file, mounted, why, locals, lostReply, lostSave, loggedOff >>

\* The reply is lost on its way: the new pair is nowhere but at the service.
RefreshReplyLost(a) ==
  /\ At(a, "reply")
  /\ why[a] # "login"
  /\ Go(a, "thrown")
  /\ got' = [got EXCEPT ![a] = 0]
  /\ lostReply' = TRUE
  /\ UNCHANGED << service, token, file, mounted, why, content, response, body, lostSave,
                  loggedOff, leaked >>

\* The reply lacks one of the two tokens: Parse clears both.
RefreshReplyIncomplete(a) ==
  /\ At(a, "reply")
  /\ why[a] # "login" /\ got[a] # 0
  /\ got' = [got EXCEPT ![a] = 0]
  /\ lostReply' = TRUE
  /\ UNCHANGED << service, token, file, mounted, pc, why, content, response, body, lostSave,
                  loggedOff, leaked >>

AssignAccessToken(a) ==
  /\ At(a, "reply")
  /\ MoveMember(1, got[a])
  /\ Go(a, "assign")
  /\ UNCHANGED << service, file, mounted, why, locals, history >>

AssignRefreshToken(a) ==
  /\ At(a, "assign")
  /\ MoveMember(2, got[a])
  /\ got' = [got EXCEPT ![a] = 0]
  /\ Go(a, "save")
  /\ UNCHANGED << service, file, mounted, why, content, response, body, history >>

-----------------------------------------------------------------------------
(* SaveGlobalConfigurations: validate, put the text together, open the     *)
(* file (which truncates it and keeps others out), write, close.  What     *)
(* fails on the way is ignored.                                            *)

ComposeProfile(a) ==
  /\ At(a, "save")
  /\ Validate
  /\ content' = [content EXCEPT ![a] = IF Valid THEN refresh ELSE 0]
  /\ Go(a, "open")
  /\ UNCHANGED << service, file, mounted, why, got, response, body, history >>

OpenProfile(a) ==
  /\ At(a, "open")
  /\ writer = NoActor
  /\ writer' = a
  /\ profile' = Torn
  /\ Go(a, "write")
  /\ UNCHANGED << service, token, mounted, why, locals, history >>

\* Another thread has the file open.
OpenRefused(a) ==
  /\ At(a, "open")
  /\ writer # NoActor
  /\ Go(a, AfterSave(why[a]))
  /\ content' = [content EXCEPT ![a] = 0]
  /\ UNCHANGED << service, token, file, mounted, why, got, response, body, history >>

DiskFailure(a) ==
  /\ DiskFails
  /\ pc[a] \in {"open", "write"}
  /\ Go(a, AfterSave(why[a]))
  /\ content' = [content EXCEPT ![a] = 0]
  /\ writer' = IF writer = a THEN NoActor ELSE writer
  /\ lostSave' = TRUE
  /\ UNCHANGED << service, token, profile, mounted, why, got, response, body, lostReply,
                  loggedOff, leaked >>

WriteProfile(a) ==
  /\ At(a, "write")
  /\ profile' = content[a]
  /\ writer' = NoActor
  /\ content' = [content EXCEPT ![a] = 0]
  /\ Go(a, AfterSave(why[a]))
  /\ UNCHANGED << service, token, mounted, why, got, response, body, history >>

-----------------------------------------------------------------------------
(* Requests of the FUSE loop's threads: what a callback catches.           *)

BeginRequest(a) ==
  /\ a \in Workers
  /\ mounted
  /\ At(a, "idle")
  /\ Go(a, "post")
  /\ why' = [why EXCEPT ![a] = "callback"]
  /\ UNCHANGED << service, token, file, mounted, locals, history >>

EndRequest(a) ==
  /\ a \in Workers
  /\ pc[a] \in {"answered", "thrown"}
  /\ Go(a, "idle")
  /\ why' = [why EXCEPT ![a] = "none"]
  /\ response' = [response EXCEPT ![a] = FALSE]
  /\ leaked' = (leaked \/ (At(a, "thrown") /\ response[a]))
  /\ UNCHANGED << service, token, file, mounted, got, content, body, lostReply, lostSave,
                  loggedOff >>

-----------------------------------------------------------------------------
(* main: load, restore, log in, mount, show the window, stop, save.        *)

MainGo(to, w) == Go(Main, to) /\ why' = [why EXCEPT ![Main] = w]

\* Seeded fault: a truncated profile is taken for a token.
LoadedAsIs(p) == p

\* A profile that does not parse has no tokens.
Loaded(p) == IF p = Torn THEN 0 ELSE p

StartClient ==
  /\ ~Running
  /\ refresh' = Loaded(profile)
  /\ access' = 0
  /\ IF Loaded(profile) # 0 THEN MainGo("refresh", "restore") ELSE MainGo("check", "none")
  /\ loggedOff' = FALSE
  /\ lostReply' = (Loaded(profile) \notin valid \cup {0})
  /\ UNCHANGED << service, file, mounted, locals, lostSave, leaked >>

\* The try block around the restore, and around taking the dialog's token.
RestoreThrows ==
  /\ At(Main, "thrown")
  /\ why[Main] = "restore"
  /\ MainGo("check", "none")
  /\ UNCHANGED << service, token, file, mounted, locals, history >>

CheckToken ==
  /\ At(Main, "check")
  /\ Validate
  /\ IF Valid THEN MainGo("start", "none") ELSE MainGo("login", "none")
  /\ UNCHANGED << service, file, mounted, locals, history >>

LoginCancelled ==
  /\ At(Main, "login")
  /\ MainGo("exited", "none")
  /\ access' = 0 /\ refresh' = 0
  /\ UNCHANGED << service, file, mounted, locals, history >>

\* The dialog brings a new pair, or an empty one if the reply was incomplete.
LoginAccepted ==
  /\ At(Main, "login")
  /\ issued < MaxTokens
  /\ issued' = issued + 1
  /\ valid' = valid \cup {issued + 1}
  /\ \/ got' = [got EXCEPT ![Main] = issued + 1] /\ lostReply' = FALSE
     \/ got' = got /\ lostReply' = TRUE
  /\ MainGo("reply", "login")
  /\ UNCHANGED << token, file, mounted, content, response, body, lostSave, loggedOff, leaked >>

\* StartFuseWorker and the main window each ask for the user's name if the
\* token is valid; an exception there ends the program.
AskUserInformation(at, next, w) ==
  /\ At(Main, at)
  /\ Validate
  /\ IF Valid THEN MainGo("post", w) ELSE MainGo(next, "none")
  /\ UNCHANGED << service, file, locals, history >>

StartFuseWorker ==
  /\ AskUserInformation("start", "window", "volume")
  /\ mounted' = ~Valid
ShowMainWindow == AskUserInformation("window", "ui", "window") /\ UNCHANGED mounted

UserInformationArrives ==
  /\ At(Main, "answered")
  /\ why[Main] \in {"volume", "window"}
  /\ IF why[Main] = "volume" THEN MainGo("window", "none") ELSE MainGo("ui", "none")
  /\ mounted' = TRUE
  /\ response' = [response EXCEPT ![Main] = FALSE]
  /\ UNCHANGED << service, token, file, got, content, body, history >>

MainThrows ==
  /\ At(Main, "thrown")
  /\ why[Main] # "restore"
  /\ Die

\* Logoff: the body names the tokens of this moment; Request may replace
\* them before the service sees it.
LogoutButtonClick ==
  /\ At(Main, "ui")
  /\ Validate
  /\ IF Valid
     THEN MainGo("post", "logoff") /\ body' = refresh
     ELSE UNCHANGED << pc, why, body >>
  /\ UNCHANGED << service, file, mounted, got, content, response, history >>

\* Seeded fault: the program quits without stopping the FUSE loop.
StopAcceptingNothing == UNCHANGED mounted

\* fuse_exit: the loop takes no further calls.
StopAccepting == mounted' = FALSE

\* The service's answer to the logoff: Clear, then qApp->quit.
LogoffArrives ==
  /\ At(Main, "answered")
  /\ why[Main] = "logoff"
  /\ access' = 0 /\ refresh' = 0
  /\ loggedOff' = TRUE
  /\ MainGo("join", "none")
  /\ StopAccepting
  /\ body' = 0
  /\ response' = [response EXCEPT ![Main] = FALSE]
  /\ UNCHANGED << service, file, got, content, lostReply, lostSave, leaked >>

CloseWindow ==
  /\ At(Main, "ui")
  /\ MainGo("join", "none")
  /\ StopAccepting
  /\ UNCHANGED << service, token, file, locals, history >>

\* main saves the configuration on its way out.
SavesAtExit == MainGo("save", "exit")

\* StopFuseWorker joins the FUSE loop's thread.
JoinFuseWorker ==
  /\ At(Main, "join")
  /\ \A a \in Workers : pc[a] = "idle"
  /\ SavesAtExit
  /\ UNCHANGED << service, token, file, mounted, locals, history >>

-----------------------------------------------------------------------------
Init ==
  /\ valid = {}
  /\ issued = 0
  /\ access = 0 /\ refresh = 0
  /\ profile = 0
  /\ writer = NoActor
  /\ mounted = FALSE
  /\ pc = [a \in Actors |-> IF a = Main THEN "exited" ELSE "idle"]
  /\ why = [a \in Actors |-> "none"]
  /\ got = [a \in Actors |-> 0]
  /\ content = [a \in Actors |-> 0]
  /\ response = [a \in Actors |-> FALSE]
  /\ body = 0
  /\ lostReply = FALSE /\ lostSave = FALSE /\ loggedOff = FALSE /\ leaked = FALSE

\* What a thread does once it has begun.
Step(a) ==
  \/ PostRequest(a)
  \/ RetryRequest(a)
  \/ RefreshAccepted(a)
  \/ RefreshRefused(a)
  \/ RefreshReplyLost(a)
  \/ RefreshReplyIncomplete(a)
  \/ AssignAccessToken(a)
  \/ AssignRefreshToken(a)
  \/ ComposeProfile(a)
  \/ OpenProfile(a)
  \/ OpenRefused(a)
  \/ DiskFailure(a)
  \/ WriteProfile(a)
  \/ EndRequest(a)

MainStep ==
  \/ RestoreThrows
  \/ CheckToken
  \/ StartFuseWorker
  \/ ShowMainWindow
  \/ UserInformationArrives
  \/ MainThrows
  \/ LogoffArrives
  \/ JoinFuseWorker

User ==
  \/ StartClient
  \/ LoginCancelled
  \/ LoginAccepted
  \/ LogoutButtonClick
  \/ CloseWindow
  \/ Kill

Next ==
  \/ \E a \in Actors : Step(a)
  \/ \E a \in Workers : BeginRequest(a)
  \/ MainStep
  \/ User

Spec == Init /\ [][Next]_vars

\* Threads go on and remote calls return or fail; users need not do anything.
FairSpec == Spec /\ WF_vars(MainStep) /\ \A a \in Actors : WF_vars(Step(a))

-----------------------------------------------------------------------------
Points ==
  {"idle", "post", "retry", "refresh", "reply", "assign", "save", "open", "write", "answered",
   "thrown", "check", "login", "start", "window", "ui", "join", "exited", "killed"}
Purposes == {"none", "callback", "restore", "login", "volume", "window", "logoff", "exit"}

\* The service, the token, the profile and each thread's part of a request or
\* a save keep their types.
TypeOK ==
  /\ valid \subseteq 1 .. MaxTokens
  /\ issued \in Tokens
  /\ access \in Tokens
  /\ refresh \in Tokens
  /\ profile \in Tokens \cup {Torn}
  /\ writer \in Actors \cup {NoActor}
  /\ mounted \in BOOLEAN
  /\ pc \in [Actors -> Points]
  /\ why \in [Actors -> Purposes]
  /\ got \in [Actors -> Tokens]
  /\ content \in [Actors -> Tokens]
  /\ response \in [Actors -> BOOLEAN]
  /\ body \in Tokens
  /\ lostReply \in BOOLEAN /\ lostSave \in BOOLEAN
  /\ loggedOff \in BOOLEAN /\ leaked \in BOOLEAN

MidAssignment == \E a \in Actors : pc[a] = "assign"
Refreshing == \E a \in Actors : pc[a] \in {"reply", "assign"}
Saving == \E a \in Actors : pc[a] \in {"reply", "assign", "save", "open", "write"}

\* Although threads refresh and assign the shared token without a lock, under
\* a service that rotates refresh tokens its two halves belong together
\* whenever no assignment is half done: the next refresh cannot be accepted
\* before the refresh token, the member assigned last, is in place.
PairMatched ==
  Rotates /\ Running /\ ~loggedOff /\ ~lostReply /\ ~MidAssignment /\ access # 0
    => access = refresh

\* The client never throws away its only key: unless a refresh's reply was
\* lost, the refresh token it holds is one the service accepts, or its
\* replacement is on its way into the token, or it is the one that the logoff
\* under way gives back.
KeepsSession ==
  Running /\ refresh # 0 /\ ~Refreshing /\ ~lostReply => refresh \in valid \/ refresh = body

\* "Save the new token to the local storage" (HccProtocolWrappers.cpp:478):
\* when nobody is refreshing or saving, the profile holds the token in use,
\* unless the disk failed.
SavedTokenCurrent ==
  Running /\ Valid /\ ~Saving /\ ~lostSave => profile = refresh

\* "Log out of the account and exit" (HccUxMainWindow.cpp:38): a client that
\* has logged off and run to its end leaves no token in the profile.
LogoffLeavesNoToken ==
  pc[Main] = "exited" /\ loggedOff /\ ~lostSave => profile \in {0, Torn}

\* "The caller must ensure that the buffer is freed" (HccApi.h:215).
BuffersFreed == ~leaked

\* A client told to quit does: the FUSE loop's threads finish their requests,
\* nobody starts another, and main gets past the join and the last save.
QuitEnds == pc[Main] = "join" ~> pc[Main] \in {"exited", "killed"}
=============================================================================
