---------------------------- MODULE Authentication ----------------------------
(***************************************************************************)
(* CAuthenticationManager and its clients.  The thread of the user         *)
(* interface asks for the authentication of a user from the dialog of the  *)
(* first wizard page, and for the profile chosen there once the            *)
(* application starts; a controller thread (m_hMyThread) starts the        *)
(* authentication thread (m_hThreadAuth), waits at most five seconds for   *)
(* it and, when asked to, repeats every fifteen minutes.  Nothing is       *)
(* locked: a thread is told to exist by a handle that its creator stores   *)
(* after creating it and that the thread itself zeroes at its end.         *)
(***************************************************************************)
EXTENDS Naturals, FiniteSets

CONSTANTS
  Users,             \* profiles with authentication enabled
  Passwords,
  NoPassword,        \* the empty password
  RightPassword,     \* the password the server accepts for a user
  RememberedPassword, \* the password a profile has on disk, if it was to be remembered
  NoUser,
  Controllers,       \* controller threads that can be alive together
  AuthThreads,       \* authentication threads that can be alive together
  UIThread,
  MaxDialogs         \* bound: logins tried in the wizard

ASSUME AuthenticationAssumption ==
  /\ NoPassword \notin Passwords
  /\ RightPassword \in [Users -> Passwords]
  /\ RememberedPassword \in [Users -> Passwords \cup {NoPassword}]
  /\ NoUser \notin Users
  /\ UIThread \notin AuthThreads \cup Controllers
  /\ AuthThreads # {} /\ AuthThreads \cap Controllers = {}
  /\ MaxDialogs \in Nat

VARIABLES
  uiPc,              \* where the thread of the user interface is
  request,           \* what it passes to DoAuthentication; "task" in the application's request
  dialog,            \* the last run of CValidateAccountsDialog
  dialogs,           \* its runs so far
  observer,          \* the dialog is in m_listObservers
  storedPassword,    \* the passwords of the profiles
  currentProfile,
  accountPassword,   \* the user whose account has been given the password of the profile
  m_user,
  m_password,
  m_bReAuthenticate,
  m_hMyThread,       \* the handle is not zero
  m_hThreadAuth,
  m_hAuthenticationEvent,  \* signaled
  m_strCookie,       \* whose cookie it holds
  m_authResult,
  controller,        \* the controller threads
  call,              \* the calls to CallAuthentication in progress
  note,              \* the calls to NotifyAll in progress
  applicationAnswered, \* history: an authentication thread answered the application's request
  startsAfterStop    \* history: authentication threads started since StopReAuthentication

clientVars == <<uiPc, request, dialog, dialogs, storedPassword, currentProfile, accountPassword>>
credentialVars == <<m_user, m_password, m_bReAuthenticate>>
handleVars == <<m_hMyThread, m_hThreadAuth, m_hAuthenticationEvent>>
resultVars == <<m_strCookie, m_authResult, applicationAnswered>>
vars == <<clientVars, observer, credentialVars, handleVars, resultVars, controller, call, note,
          startsAfterStop>>

Callers == AuthThreads \cup {UIThread}
Notifiers == Callers \cup Controllers
Results == {"OK", "PASS_LOGIN_ERROR", "CONN_ERROR", "FALSE"}
Outcomes == {"none", "IDOK", "ID_ERROR_LOGIN", "IDCANCEL"}
DialogPcs == {"password", "launch", "store", "test", "modal"}

DialogIsOpen == uiPc \in DialogPcs /\ ~request.task
Ended == uiPc = "gone"

AuthTypeOK ==
  /\ uiPc \in DialogPcs \cup {"page", "accounts", "authTask", "running", "fotoblog", "undo",
                              "destroy", "gone"}
  /\ request \in [user : Users \cup {NoUser}, password : Passwords \cup {NoPassword},
                  task : BOOLEAN]
  /\ dialog \in [quiet : BOOLEAN, outcome : Outcomes, answered : BOOLEAN]
  /\ dialogs \in 0 .. MaxDialogs
  /\ observer \in BOOLEAN
  /\ storedPassword \in [Users -> Passwords \cup {NoPassword}]
  /\ currentProfile \in Users \cup {NoUser}
  /\ accountPassword \in Users \cup {NoUser}
  /\ m_user \in Users \cup {NoUser}
  /\ m_password \in Passwords \cup {NoPassword}
  /\ {m_bReAuthenticate, m_hMyThread, m_hThreadAuth, m_hAuthenticationEvent} \subseteq BOOLEAN
  /\ m_strCookie \in Users \cup {NoUser}
  /\ m_authResult \in Results
  /\ controller \in [Controllers -> [pc : {"none", "start", "store", "test", "waitAuth",
                                           "notifying", "check", "waitEvent", "recheck",
                                           "closing"},
                                     child : AuthThreads]]
  /\ call \in [Callers -> [pc : {"none", "read", "asking", "result", "notifying"},
                           user : Users \cup {NoUser},
                           password : Passwords \cup {NoPassword},
                           result : Results, task : BOOLEAN]]
  /\ note \in [Notifiers -> [pc : {"none", "take", "handler", "ending"}, status : Results]]
  /\ applicationAnswered \in BOOLEAN
  /\ startsAfterStop \in 0 .. 2

NoCall == [pc |-> "none", user |-> NoUser, password |-> NoPassword, result |-> "FALSE",
           task |-> FALSE]
NoRequest == [user |-> NoUser, password |-> NoPassword, task |-> FALSE]
NoDialog == [quiet |-> FALSE, outcome |-> "none", answered |-> FALSE]
NoNote == [pc |-> "none", status |-> "FALSE"]

AuthInit ==
  /\ uiPc = "page"
  /\ request = NoRequest
  /\ dialog = NoDialog
  /\ dialogs = 0
  /\ observer = FALSE
  /\ storedPassword = RememberedPassword
  /\ currentProfile = NoUser
  /\ accountPassword = NoUser
  /\ m_user = NoUser
  /\ m_password = NoPassword
  /\ m_bReAuthenticate = FALSE
  /\ m_hMyThread = FALSE
  /\ m_hThreadAuth = FALSE
  /\ m_hAuthenticationEvent = FALSE
  /\ m_strCookie = NoUser
  /\ m_authResult = "FALSE"
  /\ controller = [c \in Controllers |-> [pc |-> "none", child |-> CHOOSE t \in AuthThreads : TRUE]]
  /\ call = [c \in Callers |-> NoCall]
  /\ note = [n \in Notifiers |-> NoNote]
  /\ applicationAnswered = FALSE
  /\ startsAfterStop = 0

Free(f, S) == {x \in S : f[x].pc = "none"}
NextFree(f, S) == {CHOOSE x \in Free(f, S) : TRUE : y \in Free(f, S)}

-----------------------------------------------------------------------------
(* NotifyAll, run by any thread: it takes the observer off the list, calls  *)
(* it with the result of the moment whatever its arguments are, and the     *)
(* observer ends the run of the dialog that is open then.                   *)

NotifyAll(n) == note' = [note EXCEPT ![n].pc = "take"]

TakeObserver(n) ==
  /\ note[n].pc = "take"
  /\ note' = [note EXCEPT ![n] = IF observer THEN [pc |-> "handler", status |-> m_authResult]
                                 ELSE NoNote]
  /\ UNCHANGED <<clientVars, observer, credentialVars, handleVars, resultVars, controller, call,
                 startsAfterStop>>

UnRegisterObservers(n) ==
  /\ note[n].pc = "handler"
  /\ observer' = FALSE
  /\ note' = [note EXCEPT ![n].pc = "ending"]
  /\ UNCHANGED <<clientVars, credentialVars, handleVars, resultVars, controller, call, startsAfterStop>>

\* Mutant: the observer ends the dialog with the status itself.
OutcomeIsTheStatus(status) == status

Outcome(status) == CASE status = "OK" -> "IDOK"
                     [] status = "PASS_LOGIN_ERROR" -> "ID_ERROR_LOGIN"
                     [] OTHER -> "IDCANCEL"

EndDialog(n) ==
  /\ note[n].pc = "ending"
  /\ note' = [note EXCEPT ![n] = NoNote]
  /\ dialog' = IF DialogIsOpen
               THEN [dialog EXCEPT !.outcome = Outcome(note[n].status), !.answered = n \in AuthThreads]
               ELSE dialog
  /\ UNCHANGED <<uiPc, request, dialogs, storedPassword, currentProfile, accountPassword, observer,
                 credentialVars, handleVars, resultVars, controller, call, startsAfterStop>>

NotifyStep(n) == TakeObserver(n) \/ UnRegisterObservers(n) \/ EndDialog(n)

-----------------------------------------------------------------------------
(* CallAuthentication: by an authentication thread, or by the thread of the *)
(* user interface for the photo blog.                                       *)

\* The credentials are copied, then the cookie is emptied before the request is sent.
ReadCredentials(c) ==
  /\ call[c].pc = "read"
  /\ call' = [call EXCEPT ![c] =
                [pc |-> IF m_password = NoPassword THEN "result" ELSE "asking",
                 user |-> m_user, password |-> m_password,
                 result |-> "PASS_LOGIN_ERROR",
                 task |-> request.task /\ uiPc # "password" /\ ~applicationAnswered]]
  /\ m_strCookie' = IF m_password = NoPassword THEN m_strCookie ELSE NoUser
  /\ UNCHANGED <<clientVars, observer, credentialVars, handleVars, m_authResult,
                 applicationAnswered, controller, note, startsAfterStop>>

\* A redirection is an acceptance, with a cookie or without; anything else gives no cookie.
ServerAnswers(c) ==
  /\ call[c].pc = "asking"
  /\ LET right == call[c].password = RightPassword[call[c].user] IN
     \E result \in {IF right THEN "OK" ELSE "PASS_LOGIN_ERROR", "CONN_ERROR"} :
       /\ call' = [call EXCEPT ![c] = [NoCall EXCEPT !.pc = "result", !.result = result,
                                                      !.task = call[c].task]]
       /\ m_strCookie' \in {NoUser} \cup (IF result = "OK" THEN {call[c].user} ELSE {})
  /\ UNCHANGED <<clientVars, observer, credentialVars, handleVars, m_authResult,
                 applicationAnswered, controller, note, startsAfterStop>>

SetResult(c) ==
  /\ call[c].pc = "result"
  /\ m_authResult' = call[c].result
  /\ applicationAnswered' = (applicationAnswered \/ (call[c].task /\ c \in AuthThreads))
  /\ call' = [call EXCEPT ![c].pc = "notifying"]
  /\ NotifyAll(c)
  /\ UNCHANGED <<clientVars, observer, credentialVars, handleVars, m_strCookie,
                 controller, startsAfterStop>>

\* The authentication thread closes and zeroes its handle.
EndAuthenticationThread(t) ==
  /\ call[t].pc = "notifying" /\ note[t].pc = "none"
  /\ call' = [call EXCEPT ![t] = NoCall]
  /\ m_hThreadAuth' = FALSE
  /\ UNCHANGED <<clientVars, observer, credentialVars, m_hMyThread, m_hAuthenticationEvent,
                 resultVars, controller, note, startsAfterStop>>

AuthThreadStep(t) ==
  ReadCredentials(t) \/ SetResult(t) \/ EndAuthenticationThread(t) \/ NotifyStep(t)

-----------------------------------------------------------------------------
(* MyAuthenticationThreadFunction.                                          *)

Goto(k, pc) == controller' = [controller EXCEPT ![k].pc = pc]

CreateAuthenticationThread(k) ==
  \/ \E t \in NextFree(call, AuthThreads) :
       /\ call' = [call EXCEPT ![t].pc = "read"]
       /\ controller' = [controller EXCEPT ![k] = [pc |-> "store", child |-> t]]
       /\ startsAfterStop' = IF uiPc = "destroy" /\ startsAfterStop < 2 THEN startsAfterStop + 1
                             ELSE startsAfterStop
       /\ UNCHANGED <<m_hThreadAuth, dialog>>
  \/ /\ m_hThreadAuth' = FALSE
     /\ dialog' = [dialog EXCEPT !.quiet = FALSE]
     /\ Goto(k, "closing")
     /\ UNCHANGED <<call, startsAfterStop>>

\* Mutant: the controller does not look at the handle of the previous authentication.
StartAuthenticationAnyway(k) ==
  /\ controller[k].pc = "start"
  /\ CreateAuthenticationThread(k)
  /\ UNCHANGED <<uiPc, request, dialogs, storedPassword, currentProfile, accountPassword, observer,
                 credentialVars, m_hMyThread, m_hAuthenticationEvent, resultVars, note>>

StartAuthentication(k) ==
  /\ controller[k].pc = "start"
  /\ ~m_hThreadAuth
  /\ CreateAuthenticationThread(k)
  /\ UNCHANGED <<uiPc, request, dialogs, storedPassword, currentProfile, accountPassword, observer, credentialVars, m_hMyThread, m_hAuthenticationEvent,
                 resultVars, note>>

SkipAuthentication(k) ==
  /\ controller[k].pc = "start"
  /\ m_hThreadAuth
  /\ Goto(k, "check")
  /\ UNCHANGED <<clientVars, observer, credentialVars, handleVars, resultVars, call, note,
                 startsAfterStop>>

\* The handle is stored even when the thread it names has zeroed it already.
StoreAuthHandle(k) ==
  /\ controller[k].pc = "store"
  /\ m_hThreadAuth' = TRUE
  /\ Goto(k, "test")
  /\ UNCHANGED <<clientVars, observer, credentialVars, m_hMyThread, m_hAuthenticationEvent,
                 resultVars, call, note, startsAfterStop>>

\* A handle that the thread has zeroed in between passes for a failed creation.
TestAuthHandle(k) ==
  /\ controller[k].pc = "test"
  /\ Goto(k, IF m_hThreadAuth THEN "waitAuth" ELSE "closing")
  /\ UNCHANGED <<clientVars, observer, credentialVars, handleVars, resultVars, call, note,
                 startsAfterStop>>

AuthenticationThreadEnded(k) ==
  /\ controller[k].pc = "waitAuth"
  /\ call[controller[k].child].pc = "none"
  /\ Goto(k, "check")
  /\ UNCHANGED <<clientVars, observer, credentialVars, handleVars, resultVars, call, note,
                 startsAfterStop>>

\* Mutant: a timeout is only traced.
WaitTimesOutSilently(k) ==
  /\ controller[k].pc = "waitAuth"
  /\ Goto(k, "check")
  /\ UNCHANGED <<clientVars, observer, credentialVars, handleVars, resultVars, call, note,
                 startsAfterStop>>

WaitTimesOut(k) ==
  /\ controller[k].pc = "waitAuth"
  /\ NotifyAll(k)
  /\ Goto(k, "notifying")
  /\ UNCHANGED <<clientVars, observer, credentialVars, handleVars, resultVars, call, startsAfterStop>>

TimeoutNotified(k) ==
  /\ controller[k].pc = "notifying" /\ note[k].pc = "none"
  /\ Goto(k, "check")
  /\ UNCHANGED <<clientVars, observer, credentialVars, handleVars, resultVars, call, note,
                 startsAfterStop>>

CheckReAuthenticate(k) ==
  /\ \/ /\ controller[k].pc = "check"
        /\ Goto(k, IF m_bReAuthenticate THEN "waitEvent" ELSE "closing")
     \/ /\ controller[k].pc = "recheck"
        /\ Goto(k, IF m_bReAuthenticate THEN "start" ELSE "closing")
  /\ UNCHANGED <<clientVars, observer, credentialVars, handleVars, resultVars, call, note,
                 startsAfterStop>>

\* The event, which the wait resets, or the end of the fifteen minutes.
WaitAuthenticationEvent(k) ==
  /\ controller[k].pc = "waitEvent"
  /\ m_hAuthenticationEvent' \in {FALSE, m_hAuthenticationEvent}
  /\ Goto(k, "recheck")
  /\ UNCHANGED <<clientVars, observer, credentialVars, m_hMyThread, m_hThreadAuth, resultVars,
                 call, note, startsAfterStop>>

EndController(k) ==
  /\ controller[k].pc = "closing"
  /\ m_hMyThread' = FALSE
  /\ Goto(k, "none")
  /\ UNCHANGED <<clientVars, observer, credentialVars, m_hThreadAuth, m_hAuthenticationEvent,
                 resultVars, call, note, startsAfterStop>>

ControllerStep(k) ==
  \/ StartAuthentication(k) \/ SkipAuthentication(k) \/ StoreAuthHandle(k) \/ TestAuthHandle(k)
  \/ AuthenticationThreadEnded(k) \/ WaitTimesOut(k) \/ TimeoutNotified(k)
  \/ CheckReAuthenticate(k) \/ WaitAuthenticationEvent(k) \/ EndController(k)
  \/ NotifyStep(k)

-----------------------------------------------------------------------------
(* DoAuthentication, on the thread of the user interface.                   *)

SetUser(user, password, task) ==
  /\ m_user' = user
  /\ request' = [user |-> user, password |-> password, task |-> task]
  /\ uiPc' = "password"
  /\ UNCHANGED <<m_password, m_bReAuthenticate>>

\* Mutant: the password of the first request is kept.
KeepPassword ==
  /\ uiPc = "password"
  /\ m_password' = IF m_password = NoPassword THEN request.password ELSE m_password
  /\ m_bReAuthenticate' = request.task
  /\ uiPc' = "launch"
  /\ UNCHANGED <<request, dialog, dialogs, storedPassword, currentProfile, accountPassword,
                 observer, m_user, handleVars, resultVars, controller, call, note, startsAfterStop>>

SetPassword ==
  /\ uiPc = "password"
  /\ m_password' = request.password
  /\ m_bReAuthenticate' = request.task
  /\ uiPc' = "launch"
  /\ UNCHANGED <<request, dialog, dialogs, storedPassword, currentProfile, accountPassword,
                 observer, m_user, handleVars, resultVars, controller, call, note, startsAfterStop>>

AfterRequest == IF request.task THEN "running" ELSE "modal"

\* DoAuthentication returned FALSE: the dialog takes its observer off and ends.
RequestFails ==
  /\ uiPc' = AfterRequest
  /\ observer' = (observer /\ request.task)
  /\ dialog' = IF request.task THEN dialog
               ELSE [dialog EXCEPT !.outcome = "IDCANCEL", !.answered = FALSE]

\* Mutant: every request starts a controller.
InitAuthenticationThreadAlways ==
  /\ uiPc = "launch"
  /\ \E k \in NextFree(controller, Controllers) : Goto(k, "start")
  /\ uiPc' = "store"
  /\ UNCHANGED <<request, dialog, dialogs, storedPassword, currentProfile, accountPassword,
                 observer, credentialVars, handleVars, resultVars, call, note, startsAfterStop>>

InitAuthenticationThread ==
  /\ uiPc = "launch" /\ ~m_hMyThread
  /\ \/ \E k \in NextFree(controller, Controllers) :
          /\ Goto(k, "start")
          /\ uiPc' = "store"
          /\ dialog' = [dialog EXCEPT !.quiet = ~request.task /\ ~m_hThreadAuth
                                               /\ dialog.outcome = "none"]
          /\ UNCHANGED observer
     \/ /\ RequestFails
        /\ UNCHANGED controller
  /\ UNCHANGED <<request, dialogs, storedPassword, currentProfile, accountPassword, credentialVars,
                 handleVars, resultVars, call, note, startsAfterStop>>

ExecuteAuthenticationNow ==
  /\ uiPc = "launch" /\ m_hMyThread
  /\ m_hAuthenticationEvent' = TRUE
  /\ uiPc' = AfterRequest
  /\ UNCHANGED <<request, dialog, dialogs, storedPassword, currentProfile, accountPassword,
                 observer, credentialVars, m_hMyThread, m_hThreadAuth, resultVars, controller,
                 call, note, startsAfterStop>>

StoreMyHandle ==
  /\ uiPc = "store"
  /\ m_hMyThread' = TRUE
  /\ uiPc' = "test"
  /\ UNCHANGED <<request, dialog, dialogs, storedPassword, currentProfile, accountPassword,
                 observer, credentialVars, m_hThreadAuth, m_hAuthenticationEvent, resultVars,
                 controller, call, note, startsAfterStop>>

TestMyHandle ==
  /\ uiPc = "test"
  /\ IF m_hMyThread THEN uiPc' = AfterRequest /\ UNCHANGED <<observer, dialog>> ELSE RequestFails
  /\ UNCHANGED <<request, dialogs, storedPassword, currentProfile, accountPassword, credentialVars,
                 handleVars, resultVars, controller, call, note, startsAfterStop>>

DoAuthentication ==
  \/ SetPassword \/ InitAuthenticationThread \/ ExecuteAuthenticationNow
  \/ StoreMyHandle \/ TestMyHandle

-----------------------------------------------------------------------------
(* The wizard, the tasks that start the application, its run and its end.   *)

\* The page opens the dialog, which registers itself and asks for the user typed in.
OnBtnNext(user, password) ==
  /\ uiPc = "page"
  /\ dialogs < MaxDialogs
  /\ dialogs' = dialogs + 1
  /\ dialog' = NoDialog
  /\ observer' = TRUE
  /\ SetUser(user, password, FALSE)
  /\ UNCHANGED <<storedPassword, currentProfile, accountPassword, handleVars, resultVars,
                 controller, call, note, startsAfterStop>>

OnCancel ==
  /\ uiPc = "modal"
  /\ dialog.outcome = "none"
  /\ observer' = FALSE
  /\ dialog' = [dialog EXCEPT !.outcome = "IDCANCEL", !.answered = FALSE]
  /\ UNCHANGED <<uiPc, request, dialogs, storedPassword, currentProfile, accountPassword,
                 credentialVars, handleVars, resultVars, controller, call, note, startsAfterStop>>

\* The dialog returns to OnBtnNext, which lets a user in on a password it knows already
\* when the authentication was cancelled.
DoValidationReturns ==
  /\ uiPc = "modal"
  /\ dialog.outcome # "none"
  /\ storedPassword' = IF dialog.outcome = "IDOK"
                       THEN [storedPassword EXCEPT ![request.user] = request.password]
                       ELSE storedPassword
  /\ IF dialog.outcome # "ID_ERROR_LOGIN" /\ storedPassword'[request.user] = request.password
     THEN uiPc' = "accounts" /\ currentProfile' = request.user
     ELSE uiPc' = "page" /\ UNCHANGED currentProfile
  /\ dialog' = NoDialog
  /\ request' = NoRequest
  /\ UNCHANGED <<dialogs, accountPassword, observer, credentialVars, handleVars,
                 resultVars, controller, call, note, startsAfterStop>>

CancelWizard ==
  /\ uiPc = "page"
  /\ uiPc' = "undo"
  /\ UNCHANGED <<request, dialog, dialogs, storedPassword, currentProfile, accountPassword,
                 observer, credentialVars, handleVars, resultVars, controller, call, note,
                 startsAfterStop>>

UpdateAccountsAuthenticationData ==
  /\ uiPc = "accounts"
  /\ accountPassword' = IF m_authResult = "OK" THEN currentProfile ELSE accountPassword
  /\ uiPc' = "authTask"
  /\ UNCHANGED <<request, dialog, dialogs, storedPassword, currentProfile, observer,
                 credentialVars, handleVars, resultVars, controller, call, note, startsAfterStop>>

AuthenticationTask ==
  /\ uiPc = "authTask"
  /\ SetUser(currentProfile, storedPassword[currentProfile], TRUE)
  /\ UNCHANGED <<dialog, dialogs, storedPassword, currentProfile, accountPassword, observer,
                 handleVars, resultVars, controller, call, note, startsAfterStop>>

\* The photo blog plug-in authenticates again on this thread.
ShowFotoBlog ==
  /\ uiPc = "running"
  /\ uiPc' = "fotoblog"
  /\ call' = [call EXCEPT ![UIThread].pc = "read"]
  /\ UNCHANGED <<request, dialog, dialogs, storedPassword, currentProfile, accountPassword,
                 observer, credentialVars, handleVars, resultVars, controller, note, startsAfterStop>>

FotoBlogShown ==
  /\ uiPc = "fotoblog"
  /\ call[UIThread].pc = "notifying" /\ note[UIThread].pc = "none"
  /\ uiPc' = "running"
  /\ call' = [call EXCEPT ![UIThread] = NoCall]
  /\ UNCHANGED <<request, dialog, dialogs, storedPassword, currentProfile, accountPassword,
                 observer, credentialVars, handleVars, resultVars, controller, note, startsAfterStop>>

Quit ==
  /\ uiPc = "running"
  /\ uiPc' = "undo"
  /\ UNCHANGED <<request, dialog, dialogs, storedPassword, currentProfile, accountPassword,
                 observer, credentialVars, handleVars, resultVars, controller, call, note,
                 startsAfterStop>>

\* Mutant: the manager's task is undone without a word to the controller.
StopNothing ==
  /\ uiPc = "undo"
  /\ uiPc' = "destroy"
  /\ UNCHANGED <<request, dialog, dialogs, storedPassword, currentProfile, accountPassword,
                 observer, credentialVars, handleVars, resultVars, controller, call, note,
                 startsAfterStop>>

\* The authentication manager's task is undone.
StopReAuthentication ==
  /\ uiPc = "undo"
  /\ m_bReAuthenticate' = FALSE
  /\ uiPc' = "destroy"
  /\ UNCHANGED <<request, dialog, dialogs, storedPassword, currentProfile, accountPassword,
                 observer, m_user, m_password, handleVars, resultVars, controller, call, note,
                 startsAfterStop>>

\* The destructor; either of its waits, of half a second, may run out.
Destroy ==
  /\ uiPc = "destroy"
  /\ m_bReAuthenticate' = (m_bReAuthenticate /\ ~m_hMyThread)
  /\ m_hAuthenticationEvent' = (m_hAuthenticationEvent \/ m_hMyThread)
  /\ uiPc' = "gone"
  /\ UNCHANGED <<request, dialog, dialogs, storedPassword, currentProfile, accountPassword,
                 observer, m_user, m_password, m_hMyThread, m_hThreadAuth, resultVars, controller,
                 call, note, startsAfterStop>>

-----------------------------------------------------------------------------
UIStep ==
  \/ \E u \in Users, p \in Passwords : OnBtnNext(u, p)
  \/ DoAuthentication \/ OnCancel \/ DoValidationReturns \/ CancelWizard
  \/ UpdateAccountsAuthenticationData \/ AuthenticationTask
  \/ ShowFotoBlog \/ ReadCredentials(UIThread) \/ SetResult(UIThread)
  \/ NotifyStep(UIThread) \/ FotoBlogShown
  \/ Quit \/ StopReAuthentication \/ Destroy

\* A thread that outlives the manager works on freed memory: nothing is said of it.
AuthNext ==
  \/ UIStep
  \/ \E k \in Controllers : ~Ended /\ ControllerStep(k)
  \/ \E t \in AuthThreads : ~Ended /\ AuthThreadStep(t)
  \/ \E c \in Callers : ~Ended /\ ServerAnswers(c)

AuthSpec == AuthInit /\ [][AuthNext]_vars

\* The threads of the manager run; neither the user nor the server has to answer.
FairAuthSpec ==
  /\ AuthSpec
  /\ \A k \in Controllers : WF_vars(~Ended /\ ControllerStep(k))
  /\ \A t \in AuthThreads : WF_vars(~Ended /\ AuthThreadStep(t))
  /\ WF_vars(DoAuthentication)

-----------------------------------------------------------------------------
\* At most one authentication thread and one controller are alive, although their handles are
\* written by two threads and neither can be trusted to tell.
OneThreadOfEach ==
  /\ Cardinality(AuthThreads \ Free(call, AuthThreads)) <= 1
  /\ Cardinality(Controllers \ Free(controller, Controllers)) <= 1

\* A login started while no handle was set, and answered by the authentication thread: the dialog
\* ends with IDOK only if the server accepts the very password that was typed.
OwnAnswer ==
  DialogIsOpen /\ dialog.quiet /\ dialog.outcome = "IDOK" /\ dialog.answered
    => request.password = RightPassword[request.user]

\* Once an authentication thread has answered the application's request, the browser is never
\* given the cookie of another user, a login left behind by the wizard included.
CookieOfCurrentUser ==
  applicationAnswered => m_user = currentProfile /\ m_strCookie \in {NoUser, currentProfile}

\* After StopReAuthentication at most one authentication is started: by a controller that had read
\* the flag before.
AtMostOneAfterStop == startsAfterStop <= 1

\* A login started while no handle was set ends its dialog, even if the server never answers.
QuietLoginsEnd == dialog.quiet /\ dialog.outcome = "none" ~> dialog.outcome # "none" \/ ~dialog.quiet

\* "Check if application current user is authenticated": the account is only given a password
\* that the server accepts.
CurrentUserIsAuthenticated ==
  \A u \in Users : accountPassword = u => storedPassword[u] = RightPassword[u]
=============================================================================
