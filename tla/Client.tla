------------------------------- MODULE Client -------------------------------
(***************************************************************************)
(* The program (main of HalalCloud.Client.cpp and HccUxMainWindow.cpp): a  *)
(* token that could be restored, or else the login dialog with its thread; *)
(* then the FUSE worker with its threads, and the main window, whose       *)
(* closing hides it, until the user quits or logs off.  The dialog is      *)
(* CredentialDialog, the FUSE worker an instance of FuseWorker; what       *)
(* happens to the token meanwhile is TokenSession's.                       *)
(***************************************************************************)
EXTENDS CredentialDialog

CONSTANT Callers   \* the threads of fuse_loop_mt

VARIABLES
  valid,      \* CurrentToken.Validate() after the attempt to restore it
  window,     \* the main window
  running, thread, channel, instance, cached, leaving, serving, pc, misused, freedTwice

Fuse == INSTANCE FuseWorker

login == << vars, valid >>
drive == << running, thread, channel, instance, cached, leaving, serving, pc, misused, freedTwice >>
clientVars == << login, window, drive >>

ClientInit ==
  /\ Init
  /\ Fuse!Init
  /\ valid \in BOOLEAN
  /\ window = "none"

-----------------------------------------------------------------------------
\* A client that has its token makes no dialog.
Asks == ~valid /\ Fuse!Alive

Login(step) == Asks /\ step /\ UNCHANGED << valid, window, drive >>

LoginWorker == Login(Worker)
LoginSlots == Login(Slots)
LoginUser == Login(Close \/ Escape)
LoginService == Login(Alive /\ \E c \in Codes : Confirm(c) \/ Expire(c))

\* The dialog's result is looked at; a dialog that was not accepted ends the
\* program, and so does an exception that leaves a slot.
Accepted == valid \/ main = "accepted"

Drive(step) == Accepted /\ step /\ UNCHANGED << login, window >>

DriveWorker == Drive(Fuse!WorkerStep)
DriveMain == Drive(Fuse!MainStep)
DriveCaller(c) == Drive(Fuse!CallerStep(c))
DriveEnters(c) == Drive(Fuse!Alive /\ Fuse!EnterCallback(c))
DriveLost == Drive(Fuse!Alive /\ Fuse!DriveGoesAway)

-----------------------------------------------------------------------------
(* The main window.                                                        *)

InWindow == pc[Fuse!Main] = "window"

\* An exception leaves main, or a slot.
Throws ==
  /\ pc' = [pc EXCEPT ![Fuse!Main] = "terminated"]
  /\ UNCHANGED << running, thread, channel, instance, cached, leaving, serving, misused, freedTwice >>

\* The user's information, and an icon whose name has an extension, or a
\* crash.
OpenWindow ==
  /\ InWindow /\ window = "none"
  /\ \/ window' = "shown" /\ UNCHANGED drive
     \/ Throws /\ UNCHANGED window
  /\ UNCHANGED login

\* closeEvent, and the icon and the menu of the system tray.
ShowOrHide ==
  /\ InWindow /\ window # "none"
  /\ window' = IF window = "shown" THEN "hidden" ELSE "shown"
  /\ UNCHANGED << login, drive >>

\* The menu's second entry, or the log-off button when the service has
\* answered it: qApp->quit.
Quit ==
  /\ InWindow /\ window # "none"
  /\ Fuse!StopIgnored \/ Fuse!StopRequested
  /\ UNCHANGED << login, window >>

LogoutThrows ==
  /\ InWindow /\ window = "shown"
  /\ Throws
  /\ UNCHANGED << login, window >>

-----------------------------------------------------------------------------
ClientNext ==
  \/ LoginWorker \/ LoginSlots \/ LoginUser \/ LoginService
  \/ DriveWorker \/ DriveMain \/ DriveLost
  \/ \E c \in Callers : DriveCaller(c) \/ DriveEnters(c)
  \/ OpenWindow \/ ShowOrHide \/ Quit \/ LogoutThrows

ClientSpec == ClientInit /\ [][ClientNext]_clientVars

\* The fairness of CredentialDialog and FuseWorker, and no more: the user
\* need not do anything.
ClientFairSpec ==
  /\ ClientSpec
  /\ WF_clientVars(LoginWorker)
  /\ WF_clientVars(LoginSlots)
  /\ SF_clientVars(Login(Alive /\ PollTokenCreated))
  /\ SF_clientVars(Login(Alive /\ PollFailed))
  /\ SF_clientVars(Login(Alive /\ AuthorizeReplies))
  /\ WF_clientVars(DriveWorker)
  /\ WF_clientVars(DriveMain)
  /\ \A c \in Callers : WF_clientVars(DriveCaller(c))

-----------------------------------------------------------------------------
ClientTypeOK ==
  /\ TypeOK
  /\ Fuse!TypeOK
  /\ valid \in BOOLEAN
  /\ window \in {"none", "shown", "hidden"}

\* The thread of the login dialog, which nobody joins after a login, has
\* ended before the FUSE worker starts: it does not log in a second time
\* beside a drive that is in use.
LoginThreadGone == ~valid /\ pc[Fuse!Main] # "start" => worker = "ended"

\* The FUSE worker's properties, in the program that starts and stops it.
DisposedOnce == Fuse!DisposedOnce
CacheOutlivesCallbacks == Fuse!CacheOutlivesCallbacks
StopEnds == Fuse!StopEnds
=============================================================================
