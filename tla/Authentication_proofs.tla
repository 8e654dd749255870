------------------------ MODULE Authentication_proofs ------------------------
(***************************************************************************)
(* Nothing is locked, and still one controller and one authentication      *)
(* thread are alive at most; what follows from it for the answers a login  *)
(* gets, the cookie of the browser and the end of the manager.             *)
(***************************************************************************)
EXTENDS Authentication, FiniteSetTheorems, TLAPS

Alive(f, x) == f[x].pc # "none"

\* A handle that is not set tells that the thread has ended, unless its creator, of whom
\* there is one only, has not stored it yet.
HandlesInv ==
  /\ \A k \in Controllers : Alive(controller, k) => m_hMyThread \/ uiPc = "store"
  /\ uiPc = "store" => ~m_hMyThread
  /\ \A k, l \in Controllers : Alive(controller, k) /\ Alive(controller, l) => k = l
  /\ \A t \in AuthThreads :
       Alive(call, t) => m_hThreadAuth \/ \E k \in Controllers : controller[k].pc = "store"
  /\ \A k \in Controllers : controller[k].pc = "store" => ~m_hThreadAuth
  /\ \A t, u \in AuthThreads : Alive(call, t) /\ Alive(call, u) => t = u

\* The request that is open, and the credentials it has left in the manager.
RequestInv ==
  /\ uiPc \in {"page", "modal", "accounts", "authTask"} => ~request.task
  /\ uiPc \in {"running", "fotoblog"} => request.task
  /\ uiPc \in {"accounts", "authTask"} =>
       currentProfile \in Users /\ storedPassword[currentProfile] \in Passwords
  /\ uiPc \in DialogPcs \/ request.task =>
       /\ request.user \in Users /\ request.password \in Passwords
       /\ m_user = request.user
       /\ uiPc # "password" => m_password = request.password
  /\ request.task => request.user = currentProfile

\* A thread notifies at the end of its call; the thread of the user interface calls for the
\* photo blog only.
CallInv ==
  /\ \A c \in Callers : call[c].pc \in {"none", "read"} => ~call[c].task
  /\ \A c \in Callers : Alive(note, c) => call[c].pc = "notifying"
  /\ Alive(call, UIThread) => uiPc = "fotoblog"
  /\ call[UIThread].pc = "asking" => call[UIThread].user = currentProfile

\* From the moment an authentication thread has read the application's credentials, every
\* request on its way to the server is the current user's.
CookieInv ==
  applicationAnswered \/ (\E t \in AuthThreads : call[t].task) =>
    /\ request.task /\ uiPc # "password"
    /\ m_strCookie \in {NoUser, currentProfile}
    /\ \A c \in Callers : call[c].pc = "asking" => call[c].user = currentProfile

TypedRight == request.password = RightPassword[request.user]

\* The authentication thread that a quiet login finds alive has been started for it, so that
\* an acceptance on its way is one of the password typed.
AnswerInv ==
  DialogIsOpen /\ dialog.quiet =>
    /\ uiPc \notin {"password", "launch"}
    /\ dialog.outcome = "IDOK" /\ dialog.answered => TypedRight
    /\ \A t \in AuthThreads :
         /\ call[t].pc = "asking" =>
              call[t].user = request.user /\ call[t].password = request.password
         /\ call[t].pc \in {"result", "notifying"} /\ call[t].result = "OK" => TypedRight
         /\ call[t].pc = "notifying" => m_authResult = call[t].result
         /\ note[t].pc \in {"handler", "ending"} /\ note[t].status = "OK" => TypedRight

\* The controller that has started an authentication after StopReAuthentication is past the
\* point where it starts another one.
StopInv ==
  /\ uiPc \notin {"destroy", "gone"} => startsAfterStop = 0
  /\ uiPc = "destroy" => ~m_bReAuthenticate
  /\ startsAfterStop <= 1
  /\ startsAfterStop = 1 => \A k \in Controllers : controller[k].pc # "start"

AuthInv ==
  /\ AuthTypeOK
  /\ HandlesInv
  /\ RequestInv
  /\ CallInv
  /\ CookieInv
  /\ AnswerInv
  /\ StopInv

\* The records of the threads, of their notifications and of the dialog.
ControllerPcs == {"none", "start", "store", "test", "waitAuth", "notifying", "check",
                  "waitEvent", "recheck", "closing"}
ControllerRecords == [pc : ControllerPcs, child : AuthThreads]
CallPcs == {"none", "read", "asking", "result", "notifying"}
CallRecords == [pc : CallPcs, user : Users \cup {NoUser}, password : Passwords \cup {NoPassword},
                result : Results, task : BOOLEAN]
NotePcs == {"none", "take", "handler", "ending"}
NoteRecords == [pc : NotePcs, status : Results]
DialogRecords == [quiet : BOOLEAN, outcome : Outcomes, answered : BOOLEAN]

\* The two outcomes of a thread creation, for a controller and for an authentication thread.
ControllerCreated(k) ==
  /\ uiPc = "launch" /\ ~m_hMyThread /\ controller[k].pc = "none"
  /\ controller' = [controller EXCEPT ![k].pc = "start"]
  /\ uiPc' = "store"
  /\ dialog' = [dialog EXCEPT !.quiet = ~request.task /\ ~m_hThreadAuth
                                        /\ dialog.outcome = "none"]
  /\ UNCHANGED <<request, dialogs, storedPassword, currentProfile, accountPassword, observer,
                 credentialVars, handleVars, resultVars, call, note, startsAfterStop>>

ControllerNotCreated ==
  /\ uiPc = "launch"
  /\ RequestFails
  /\ UNCHANGED <<request, dialogs, storedPassword, currentProfile, accountPassword,
                 credentialVars, handleVars, resultVars, controller, call, note,
                 startsAfterStop>>

AuthThreadCreated(k, t) ==
  /\ controller[k].pc = "start" /\ ~m_hThreadAuth /\ call[t].pc = "none"
  /\ call' = [call EXCEPT ![t].pc = "read"]
  /\ controller' = [controller EXCEPT ![k] = [pc |-> "store", child |-> t]]
  /\ startsAfterStop' = IF uiPc = "destroy" /\ startsAfterStop < 2 THEN startsAfterStop + 1
                        ELSE startsAfterStop
  /\ UNCHANGED <<clientVars, observer, credentialVars, handleVars, resultVars, note>>

AuthThreadNotCreated(k) ==
  /\ controller[k].pc = "start" /\ ~m_hThreadAuth
  /\ m_hThreadAuth' = FALSE
  /\ dialog' = [dialog EXCEPT !.quiet = FALSE]
  /\ controller' = [controller EXCEPT ![k].pc = "closing"]
  /\ UNCHANGED <<uiPc, request, dialogs, storedPassword, currentProfile, accountPassword,
                 observer, credentialVars, m_hMyThread, m_hAuthenticationEvent, resultVars,
                 call, note, startsAfterStop>>

\* The steps of the threads, by what they do to the threads.
RequestGoesOn ==
  \/ SetPassword \/ ControllerNotCreated \/ ExecuteAuthenticationNow \/ StoreMyHandle
  \/ TestMyHandle

UserGoesOn ==
  \/ OnCancel \/ DoValidationReturns \/ CancelWizard \/ UpdateAccountsAuthenticationData
  \/ AuthenticationTask \/ ShowFotoBlog \/ FotoBlogShown \/ Quit \/ StopReAuthentication
  \/ Destroy

CallGoesOn(c) == ReadCredentials(c) \/ ServerAnswers(c) \/ SetResult(c)

ControllerGoesOn(k) ==
  \/ AuthThreadNotCreated(k) \/ SkipAuthentication(k) \/ StoreAuthHandle(k)
  \/ TestAuthHandle(k) \/ AuthenticationThreadEnded(k) \/ WaitTimesOut(k)
  \/ TimeoutNotified(k) \/ CheckReAuthenticate(k) \/ WaitAuthenticationEvent(k)
  \/ EndController(k)

-----------------------------------------------------------------------------
\* A thread is created in a place where none is alive.
LEMMA NextFreeIsFree ==
  ASSUME NEW f, NEW S, NEW x \in NextFree(f, S)
  PROVE  x \in S /\ f[x].pc = "none"
<1>1. x \in Free(f, S)
  BY DEF NextFree
<1>. QED
  BY <1>1 DEF Free

\* Every step is one of these.
LEMMA StepsOfTheThreads ==
  ASSUME [AuthNext]_vars
  PROVE  \/ \E u \in Users, p \in Passwords : OnBtnNext(u, p)
         \/ \E k \in Controllers : ControllerCreated(k)
         \/ RequestGoesOn
         \/ UserGoesOn
         \/ \E c \in Callers : CallGoesOn(c)
         \/ \E n \in Notifiers : NotifyStep(n)
         \/ \E t \in AuthThreads : EndAuthenticationThread(t)
         \/ \E k \in Controllers, t \in AuthThreads : ~Ended /\ AuthThreadCreated(k, t)
         \/ \E k \in Controllers : ~Ended /\ ControllerGoesOn(k)
         \/ UNCHANGED vars
<1>1. ASSUME InitAuthenticationThread
      PROVE  (\E k \in Controllers : ControllerCreated(k)) \/ ControllerNotCreated
  BY <1>1, NextFreeIsFree
    DEF InitAuthenticationThread, ControllerCreated, ControllerNotCreated, Goto
<1>2. ASSUME NEW k \in Controllers, StartAuthentication(k)
      PROVE  (\E t \in AuthThreads : AuthThreadCreated(k, t)) \/ AuthThreadNotCreated(k)
  BY <1>2, NextFreeIsFree
    DEF StartAuthentication, CreateAuthenticationThread, AuthThreadCreated,
        AuthThreadNotCreated, Goto, clientVars, handleVars
<1>. QED
  BY <1>1, <1>2
    DEF AuthNext, UIStep, DoAuthentication, AuthThreadStep, ControllerStep, RequestGoesOn,
        UserGoesOn, CallGoesOn, ControllerGoesOn, Callers, Notifiers

\* What is equal to every element of a set is all there is in it.
LEMMA AtMostOneElement ==
  ASSUME NEW S, \A x, y \in S : x = y
  PROVE  Cardinality(S) <= 1
<1>1. CASE S = {}
  BY <1>1, FS_EmptySet
<1>2. ASSUME NEW x \in S PROVE Cardinality(S) <= 1
  <2>1. S = {x}
    OBVIOUS
  <2>. QED
    BY <2>1, FS_Singleton
<1>. QED
  BY <1>1, <1>2

\* A record keeps its type when its thread moves on.
LEMMA ControllerMoves ==
  ASSUME NEW r \in ControllerRecords, NEW pc \in ControllerPcs
  PROVE  [r EXCEPT !.pc = pc] \in ControllerRecords
  BY DEF ControllerRecords

LEMMA CallMoves ==
  ASSUME NEW r \in CallRecords, NEW pc \in CallPcs
  PROVE  [r EXCEPT !.pc = pc] \in CallRecords
  BY DEF CallRecords

LEMMA NoteMoves ==
  ASSUME NEW r \in NoteRecords, NEW pc \in NotePcs
  PROVE  [r EXCEPT !.pc = pc] \in NoteRecords
  BY DEF NoteRecords

\* The record of a call that has ended, and of one that has its result.
LEMMA CallResults ==
  /\ NoCall \in CallRecords
  /\ \A res \in Results, b \in BOOLEAN :
       [NoCall EXCEPT !.pc = "result", !.result = res, !.task = b] \in CallRecords
  BY DEF CallRecords, CallPcs, NoCall, Results

\* The dialog keeps its type when its run ends, and when a login turns quiet or not.
LEMMA DialogEnds ==
  ASSUME NEW d \in DialogRecords, NEW b \in BOOLEAN, NEW o \in Outcomes
  PROVE  /\ [d EXCEPT !.outcome = o, !.answered = b] \in DialogRecords
         /\ [d EXCEPT !.quiet = b] \in DialogRecords
  BY DEF DialogRecords

\* The types of the records, by their names.
LEMMA RecordTypes ==
  AuthTypeOK =>
    /\ controller \in [Controllers -> ControllerRecords]
    /\ call \in [Callers -> CallRecords]
    /\ note \in [Notifiers -> NoteRecords]
    /\ dialog \in DialogRecords
  BY DEF AuthTypeOK, ControllerRecords, ControllerPcs, CallRecords, CallPcs, NoteRecords,
         NotePcs, DialogRecords

\* Every step keeps the types.
LEMMA AuthTypes ==
  ASSUME AuthInv, [AuthNext]_vars
  PROVE  AuthTypeOK'
<1>. USE DEF vars, clientVars, credentialVars, handleVars, resultVars
<1>1. AuthTypeOK /\ RequestInv
  BY DEF AuthInv
<1>2. ASSUME NEW u \in Users, NEW p \in Passwords, OnBtnNext(u, p) PROVE  AuthTypeOK'
  BY <1>2, <1>1, AuthenticationAssumption
    DEF OnBtnNext, SetUser, NoDialog, AuthTypeOK, Callers, Notifiers, Results, Outcomes,
        DialogPcs, RequestInv
<1>3. ASSUME NEW k \in Controllers, ControllerCreated(k) PROVE  AuthTypeOK'
  <2>1. controller' \in [Controllers -> ControllerRecords]
    BY <1>3, <1>1, AuthenticationAssumption, RecordTypes, ControllerMoves
      DEF ControllerCreated, ControllerPcs
  <2>2. dialog' \in DialogRecords
    BY <1>3, <1>1, AuthenticationAssumption, RecordTypes, DialogEnds DEF ControllerCreated, Outcomes
  <2>. QED
    BY <1>3, <1>1, <2>1, <2>2
      DEF ControllerCreated, AuthTypeOK, Callers, Notifiers, Results, Outcomes, DialogPcs,
          RequestInv, ControllerRecords, ControllerPcs, CallRecords, CallPcs, NoteRecords,
          NotePcs, DialogRecords
<1>4. CASE RequestGoesOn
  <2>1. CASE SetPassword
    BY <2>1, <1>1, AuthenticationAssumption
      DEF SetPassword, AuthTypeOK, Callers, Notifiers, Results, Outcomes, DialogPcs,
          RequestInv
  <2>2. CASE ControllerNotCreated
    <3>1. dialog' \in DialogRecords
      BY <2>2, <1>1, AuthenticationAssumption, RecordTypes, DialogEnds
        DEF ControllerNotCreated, RequestFails, AfterRequest, Outcomes
    <3>. QED
      BY <2>2, <1>1, <3>1
        DEF ControllerNotCreated, RequestFails, AfterRequest, AuthTypeOK, Callers, Notifiers,
            Results, Outcomes, DialogPcs, RequestInv, ControllerRecords, ControllerPcs,
            CallRecords, CallPcs, NoteRecords, NotePcs, DialogRecords
  <2>3. CASE ExecuteAuthenticationNow
    BY <2>3, <1>1, AuthenticationAssumption
      DEF ExecuteAuthenticationNow, AfterRequest, AuthTypeOK, Callers, Notifiers, Results,
          Outcomes, DialogPcs, RequestInv
  <2>4. CASE StoreMyHandle
    BY <2>4, <1>1, AuthenticationAssumption
      DEF StoreMyHandle, AuthTypeOK, Callers, Notifiers, Results, Outcomes, DialogPcs,
          RequestInv
  <2>5. CASE TestMyHandle
    <3>1. dialog' \in DialogRecords
      BY <2>5, <1>1, AuthenticationAssumption, RecordTypes, DialogEnds
        DEF TestMyHandle, RequestFails, AfterRequest, Outcomes
    <3>. QED
      BY <2>5, <1>1, <3>1
        DEF TestMyHandle, RequestFails, AfterRequest, AuthTypeOK, Callers, Notifiers, Results,
            Outcomes, DialogPcs, RequestInv, ControllerRecords, ControllerPcs, CallRecords,
            CallPcs, NoteRecords, NotePcs, DialogRecords
  <2>. QED
    BY <1>4, <2>1, <2>2, <2>3, <2>4, <2>5 DEF RequestGoesOn
<1>5. CASE UserGoesOn
  <2>1. CASE OnCancel
    <3>1. dialog' \in DialogRecords
      BY <2>1, <1>1, RecordTypes, DialogEnds DEF OnCancel, Outcomes
    <3>2. /\ observer' \in BOOLEAN
          /\ UNCHANGED <<uiPc, request, dialogs, storedPassword, currentProfile, accountPassword,
                          credentialVars, handleVars, resultVars, controller, call, note,
                          startsAfterStop>>
      BY <2>1 DEF OnCancel
    <3>. QED
      BY <1>1, <3>1, <3>2 DEF AuthTypeOK, DialogRecords
  <2>2. CASE DoValidationReturns
    BY <2>2, <1>1, AuthenticationAssumption
      DEF DoValidationReturns, NoDialog, NoRequest, AuthTypeOK, Callers, Notifiers,
          Results, Outcomes, DialogPcs, RequestInv
  <2>3. CASE CancelWizard
    BY <2>3, <1>1, AuthenticationAssumption
      DEF CancelWizard, AuthTypeOK, Callers, Notifiers, Results, Outcomes, DialogPcs,
          RequestInv
  <2>4. CASE UpdateAccountsAuthenticationData
    BY <2>4, <1>1, AuthenticationAssumption
      DEF UpdateAccountsAuthenticationData, AuthTypeOK, Callers, Notifiers, Results,
          Outcomes, DialogPcs, RequestInv
  <2>5. CASE AuthenticationTask
    BY <2>5, <1>1, AuthenticationAssumption
      DEF AuthenticationTask, SetUser, AuthTypeOK, Callers, Notifiers, Results, Outcomes,
          DialogPcs, RequestInv
  <2>6. CASE ShowFotoBlog
    <3>1. call' \in [Callers -> CallRecords]
      BY <2>6, <1>1, AuthenticationAssumption, RecordTypes, CallMoves, CallResults
        DEF ShowFotoBlog, CallPcs, Callers
    <3>. QED
      BY <2>6, <1>1, <3>1
        DEF ShowFotoBlog, AuthTypeOK, Callers, Notifiers, Results, Outcomes, DialogPcs,
            RequestInv, ControllerRecords, ControllerPcs, CallRecords, CallPcs, NoteRecords,
            NotePcs, DialogRecords
  <2>7. CASE FotoBlogShown
    BY <2>7, <1>1, AuthenticationAssumption
      DEF FotoBlogShown, NoCall, AuthTypeOK, Callers, Notifiers, Results, Outcomes,
          DialogPcs, RequestInv
  <2>8. CASE Quit
    BY <2>8, <1>1, AuthenticationAssumption
      DEF Quit, AuthTypeOK, Callers, Notifiers, Results, Outcomes, DialogPcs, RequestInv
  <2>9. CASE StopReAuthentication
    <3>1. {m_bReAuthenticate', m_hMyThread', m_hThreadAuth',
           m_hAuthenticationEvent'} \subseteq BOOLEAN
      BY <2>9, <1>1, AuthenticationAssumption, RecordTypes DEF StopReAuthentication, AuthTypeOK
    <3>. QED
      BY <2>9, <1>1, <3>1
        DEF StopReAuthentication, AuthTypeOK, Callers, Notifiers, Results, Outcomes,
            DialogPcs, RequestInv, ControllerRecords, ControllerPcs, CallRecords, CallPcs,
            NoteRecords, NotePcs, DialogRecords
  <2>10. CASE Destroy
    BY <2>10, <1>1, AuthenticationAssumption
      DEF Destroy, AuthTypeOK, Callers, Notifiers, Results, Outcomes, DialogPcs,
          RequestInv
  <2>. QED
    BY <1>5, <2>1, <2>2, <2>3, <2>4, <2>5, <2>6, <2>7, <2>8, <2>9, <2>10 DEF UserGoesOn
<1>6. ASSUME NEW c \in Callers, CallGoesOn(c) PROVE  AuthTypeOK'
  <2>1. CASE ReadCredentials(c)
    BY <2>1, <1>6, <1>1, AuthenticationAssumption
      DEF ReadCredentials, AuthTypeOK, Callers, Notifiers, Results, Outcomes, DialogPcs,
          RequestInv
  <2>2. CASE ServerAnswers(c)
    <3>1. PICK res \in Results : call' = [call EXCEPT ![c] =
                   [NoCall EXCEPT !.pc = "result", !.result = res, !.task = call[c].task]]
      BY <2>2 DEF ServerAnswers, Results
    <3>2. call[c].task \in BOOLEAN /\ call[c].user \in Users \cup {NoUser}
      BY <1>1, <1>6, RecordTypes DEF CallRecords
    <3>3. call' \in [Callers -> CallRecords]
      BY <1>1, <3>1, <3>2, CallResults, RecordTypes
    <3>4. /\ m_strCookie' \in Users \cup {NoUser}
          /\ UNCHANGED <<clientVars, observer, credentialVars, handleVars, m_authResult,
                          applicationAnswered, controller, note, startsAfterStop>>
      BY <2>2, <3>2 DEF ServerAnswers
    <3>. QED
      BY <1>1, <3>3, <3>4 DEF AuthTypeOK, CallRecords, CallPcs
  <2>3. CASE SetResult(c)
    <3>1. call' \in [Callers -> CallRecords]
      BY <2>3, <1>1, AuthenticationAssumption, RecordTypes, <1>6, CallMoves, CallResults
        DEF SetResult, NotifyAll, CallPcs, Callers
    <3>2. note' \in [Notifiers -> NoteRecords]
      BY <2>3, <1>1, AuthenticationAssumption, RecordTypes, <1>6, NoteMoves
        DEF SetResult, NotifyAll, NotePcs, Notifiers, Callers
    <3>. QED
      BY <2>3, <1>1, <3>1, <3>2, <1>6
        DEF SetResult, NotifyAll, AuthTypeOK, Callers, Notifiers, Results, Outcomes,
            DialogPcs, RequestInv, ControllerRecords, ControllerPcs, CallRecords, CallPcs,
            NoteRecords, NotePcs, DialogRecords
  <2>. QED
    BY <1>6, <2>1, <2>2, <2>3 DEF CallGoesOn
<1>7. ASSUME NEW n \in Notifiers, NotifyStep(n) PROVE  AuthTypeOK'
  <2>1. CASE TakeObserver(n)
    BY <2>1, <1>7, <1>1, AuthenticationAssumption
      DEF TakeObserver, NoNote, AuthTypeOK, Callers, Notifiers, Results, Outcomes,
          DialogPcs, RequestInv
  <2>2. CASE UnRegisterObservers(n)
    <3>1. note' \in [Notifiers -> NoteRecords]
      BY <2>2, <1>1, <1>7, RecordTypes, NoteMoves DEF UnRegisterObservers, NotePcs
    <3>2. /\ observer' \in BOOLEAN
          /\ UNCHANGED <<clientVars, credentialVars, handleVars, resultVars, controller, call,
                          startsAfterStop>>
      BY <2>2 DEF UnRegisterObservers
    <3>. QED
      BY <1>1, <3>1, <3>2 DEF AuthTypeOK, NoteRecords, NotePcs
  <2>3. CASE EndDialog(n)
    <3>1. note' \in [Notifiers -> NoteRecords]
      BY <2>3, <1>1, <1>7, RecordTypes DEF EndDialog, NoNote, NoteRecords, NotePcs, Results
    <3>2. Outcome(note[n].status) \in Outcomes
      BY DEF Outcome, Outcomes
    <3>3. dialog' \in DialogRecords
      <4>1. (n \in AuthThreads) \in BOOLEAN
        OBVIOUS
      <4>2. \A o \in Outcomes, b \in BOOLEAN :
              [dialog EXCEPT !.outcome = o, !.answered = b] \in DialogRecords
        BY <1>1, RecordTypes, DialogEnds
      <4>3. [dialog EXCEPT !.outcome = Outcome(note[n].status), !.answered = n \in AuthThreads]
              \in DialogRecords
        BY <3>2, <4>1, <4>2, Zenon
      <4>. QED
        BY <2>3, <1>1, <4>3, RecordTypes, Zenon DEF EndDialog
    <3>4. UNCHANGED <<uiPc, request, dialogs, storedPassword, currentProfile, accountPassword,
                    observer, credentialVars, handleVars, resultVars, controller, call,
                    startsAfterStop>>
      BY <2>3 DEF EndDialog
    <3>. QED
      BY <1>1, <3>1, <3>3, <3>4 DEF AuthTypeOK, NoteRecords, NotePcs, DialogRecords
  <2>. QED
    BY <1>7, <2>1, <2>2, <2>3 DEF NotifyStep
<1>8. ASSUME NEW t \in AuthThreads, EndAuthenticationThread(t) PROVE  AuthTypeOK'
  <2>1. call' \in [Callers -> CallRecords]
    BY <1>8, <1>1, AuthenticationAssumption, RecordTypes, CallMoves, CallResults
      DEF EndAuthenticationThread, NoCall, CallPcs, Callers
  <2>2. {m_bReAuthenticate', m_hMyThread', m_hThreadAuth',
         m_hAuthenticationEvent'} \subseteq BOOLEAN
    BY <1>8, <1>1, AuthenticationAssumption, RecordTypes
      DEF EndAuthenticationThread, NoCall, AuthTypeOK
  <2>. QED
    BY <1>8, <1>1, <2>1, <2>2
      DEF EndAuthenticationThread, NoCall, AuthTypeOK, Callers, Notifiers, Results,
          Outcomes, DialogPcs, RequestInv, ControllerRecords, ControllerPcs, CallRecords,
          CallPcs, NoteRecords, NotePcs, DialogRecords
<1>9. ASSUME NEW k \in Controllers, NEW t \in AuthThreads, ~Ended, AuthThreadCreated(k, t)
      PROVE  AuthTypeOK'
  <2>1. controller' \in [Controllers -> ControllerRecords]
    BY <1>9, <1>1, AuthenticationAssumption, RecordTypes, ControllerMoves
      DEF AuthThreadCreated, ControllerPcs, ControllerRecords
  <2>2. call' \in [Callers -> CallRecords]
    BY <1>9, <1>1, AuthenticationAssumption, RecordTypes, CallMoves, CallResults
      DEF AuthThreadCreated, CallPcs, Callers
  <2>. QED
    BY <1>9, <1>1, <2>1, <2>2
      DEF AuthThreadCreated, AuthTypeOK, Callers, Notifiers, Results, Outcomes, DialogPcs,
          RequestInv, ControllerRecords, ControllerPcs, CallRecords, CallPcs, NoteRecords,
          NotePcs, DialogRecords
<1>10. ASSUME NEW k \in Controllers, ~Ended, ControllerGoesOn(k) PROVE  AuthTypeOK'
  <2>1. CASE AuthThreadNotCreated(k)
    <3>1. controller' \in [Controllers -> ControllerRecords]
      BY <2>1, <1>1, <1>10, RecordTypes, ControllerMoves DEF AuthThreadNotCreated, ControllerPcs
    <3>2. dialog' \in DialogRecords
      BY <2>1, <1>1, RecordTypes, DialogEnds DEF AuthThreadNotCreated, Outcomes
    <3>3. /\ m_hThreadAuth' \in BOOLEAN
          /\ UNCHANGED <<uiPc, request, dialogs, storedPassword, currentProfile, accountPassword,
                          observer, credentialVars, m_hMyThread, m_hAuthenticationEvent,
                          resultVars, call, note, startsAfterStop>>
      BY <2>1 DEF AuthThreadNotCreated
    <3>. QED
      BY <1>1, <3>1, <3>2, <3>3
        DEF AuthTypeOK, ControllerRecords, ControllerPcs, DialogRecords
  <2>2. CASE SkipAuthentication(k)
    BY <2>2, <1>10, <1>1, AuthenticationAssumption
      DEF SkipAuthentication, Goto, AuthTypeOK, Callers, Notifiers, Results, Outcomes,
          DialogPcs, RequestInv
  <2>3. CASE StoreAuthHandle(k)
    BY <2>3, <1>10, <1>1, AuthenticationAssumption
      DEF StoreAuthHandle, Goto, AuthTypeOK, Callers, Notifiers, Results, Outcomes,
          DialogPcs, RequestInv
  <2>4. CASE TestAuthHandle(k)
    BY <2>4, <1>10, <1>1, AuthenticationAssumption
      DEF TestAuthHandle, Goto, AuthTypeOK, Callers, Notifiers, Results, Outcomes,
          DialogPcs, RequestInv
  <2>5. CASE AuthenticationThreadEnded(k)
    BY <2>5, <1>10, <1>1, AuthenticationAssumption
      DEF AuthenticationThreadEnded, Goto, AuthTypeOK, Callers, Notifiers, Results,
          Outcomes, DialogPcs, RequestInv
  <2>6. CASE WaitTimesOut(k)
    <3>1. controller' \in [Controllers -> ControllerRecords]
      BY <2>6, <1>1, AuthenticationAssumption, RecordTypes, <1>10, ControllerMoves
        DEF WaitTimesOut, Goto, NotifyAll, ControllerPcs
    <3>2. note' \in [Notifiers -> NoteRecords]
      BY <2>6, <1>1, AuthenticationAssumption, RecordTypes, <1>10, NoteMoves
        DEF WaitTimesOut, Goto, NotifyAll, NotePcs, Notifiers, Callers
    <3>. QED
      BY <2>6, <1>1, <3>1, <3>2, <1>10
        DEF WaitTimesOut, Goto, NotifyAll, AuthTypeOK, Callers, Notifiers, Results, Outcomes,
            DialogPcs, RequestInv, ControllerRecords, ControllerPcs, CallRecords, CallPcs,
            NoteRecords, NotePcs, DialogRecords
  <2>7. CASE TimeoutNotified(k)
    BY <2>7, <1>10, <1>1, AuthenticationAssumption
      DEF TimeoutNotified, Goto, AuthTypeOK, Callers, Notifiers, Results, Outcomes,
          DialogPcs, RequestInv
  <2>8. CASE CheckReAuthenticate(k)
    <3>0. PICK pc \in ControllerPcs : Goto(k, pc)
      BY <2>8 DEF CheckReAuthenticate, ControllerPcs
    <3>1. controller' \in [Controllers -> ControllerRecords]
      BY <3>0, <1>1, <1>10, RecordTypes, ControllerMoves DEF Goto
    <3>2. UNCHANGED <<clientVars, observer, credentialVars, handleVars, resultVars, call, note,
                    startsAfterStop>>
      BY <2>8 DEF CheckReAuthenticate
    <3>. QED
      BY <1>1, <3>1, <3>2 DEF AuthTypeOK, ControllerRecords, ControllerPcs
  <2>9. CASE WaitAuthenticationEvent(k)
    <3>1. controller' \in [Controllers -> ControllerRecords]
      BY <2>9, <1>1, AuthenticationAssumption, RecordTypes, <1>10, ControllerMoves
        DEF WaitAuthenticationEvent, Goto, ControllerPcs
    <3>2. {m_bReAuthenticate', m_hMyThread', m_hThreadAuth',
           m_hAuthenticationEvent'} \subseteq BOOLEAN
      BY <2>9, <1>1, AuthenticationAssumption, RecordTypes, <1>10
        DEF WaitAuthenticationEvent, Goto, AuthTypeOK
    <3>. QED
      BY <2>9, <1>1, <3>1, <3>2, <1>10
        DEF WaitAuthenticationEvent, Goto, AuthTypeOK, Callers, Notifiers, Results, Outcomes,
            DialogPcs, RequestInv, ControllerRecords, ControllerPcs, CallRecords, CallPcs,
            NoteRecords, NotePcs, DialogRecords
  <2>10. CASE EndController(k)
    <3>1. controller' \in [Controllers -> ControllerRecords]
      BY <2>10, <1>1, AuthenticationAssumption, RecordTypes, <1>10, ControllerMoves
        DEF EndController, Goto, ControllerPcs
    <3>2. {m_bReAuthenticate', m_hMyThread', m_hThreadAuth',
           m_hAuthenticationEvent'} \subseteq BOOLEAN
      BY <2>10, <1>1, AuthenticationAssumption, RecordTypes, <1>10
        DEF EndController, Goto, AuthTypeOK
    <3>. QED
      BY <2>10, <1>1, <3>1, <3>2, <1>10
        DEF EndController, Goto, AuthTypeOK, Callers, Notifiers, Results, Outcomes, DialogPcs,
            RequestInv, ControllerRecords, ControllerPcs, CallRecords, CallPcs, NoteRecords,
            NotePcs, DialogRecords
  <2>. QED
    BY <1>10, <2>1, <2>2, <2>3, <2>4, <2>5, <2>6, <2>7, <2>8, <2>9, <2>10
      DEF ControllerGoesOn
<1>11. CASE UNCHANGED vars
  BY <1>11, <1>1, AuthenticationAssumption
    DEF AuthTypeOK, Callers, Notifiers, Results, Outcomes, DialogPcs, RequestInv
<1>. QED
  BY <1>2, <1>3, <1>4, <1>5, <1>6, <1>7, <1>8, <1>9, <1>10, <1>11, StepsOfTheThreads

\* No step creates a thread while another one of its kind is alive.
LEMMA HandlesStep ==
  ASSUME AuthInv, [AuthNext]_vars
  PROVE  HandlesInv'
<1>. USE DEF vars, clientVars, credentialVars, handleVars, resultVars
<1>1. AuthTypeOK /\ HandlesInv /\ CallInv
  BY DEF AuthInv
<1>2. ASSUME NEW u \in Users, NEW p \in Passwords, OnBtnNext(u, p) PROVE  HandlesInv'
  BY <1>2, <1>1, AuthenticationAssumption
    DEF OnBtnNext, SetUser, NoDialog, AuthTypeOK, Callers, Notifiers, Results, Outcomes,
        DialogPcs, HandlesInv, Alive
<1>3. ASSUME NEW k \in Controllers, ControllerCreated(k) PROVE  HandlesInv'
  BY <1>3, <1>1, AuthenticationAssumption
    DEF ControllerCreated, AuthTypeOK, Callers, Notifiers, Results, Outcomes, DialogPcs,
        HandlesInv, Alive
<1>4. CASE RequestGoesOn
  <2>1. CASE SetPassword
    BY <2>1, <1>1, AuthenticationAssumption
      DEF SetPassword, AuthTypeOK, Callers, Notifiers, Results, Outcomes, DialogPcs,
          HandlesInv, Alive
  <2>2. CASE ControllerNotCreated
    BY <2>2, <1>1, AuthenticationAssumption
      DEF ControllerNotCreated, RequestFails, AfterRequest, AuthTypeOK, Callers,
          Notifiers, Results, Outcomes, DialogPcs, HandlesInv, Alive
  <2>3. CASE ExecuteAuthenticationNow
    BY <2>3, <1>1, AuthenticationAssumption
      DEF ExecuteAuthenticationNow, AfterRequest, AuthTypeOK, Callers, Notifiers, Results,
          Outcomes, DialogPcs, HandlesInv, Alive
  <2>4. CASE StoreMyHandle
    BY <2>4, <1>1, AuthenticationAssumption
      DEF StoreMyHandle, AuthTypeOK, Callers, Notifiers, Results, Outcomes, DialogPcs,
          HandlesInv, Alive
  <2>5. CASE TestMyHandle
    BY <2>5, <1>1, AuthenticationAssumption
      DEF TestMyHandle, RequestFails, AfterRequest, AuthTypeOK, Callers, Notifiers,
          Results, Outcomes, DialogPcs, HandlesInv, Alive
  <2>. QED
    BY <1>4, <2>1, <2>2, <2>3, <2>4, <2>5 DEF RequestGoesOn
<1>5. CASE UserGoesOn
  <2>1. CASE OnCancel
    BY <2>1, <1>1, AuthenticationAssumption
      DEF OnCancel, AuthTypeOK, Callers, Notifiers, Results, Outcomes, DialogPcs,
          HandlesInv, Alive
  <2>2. CASE DoValidationReturns
    BY <2>2, <1>1, AuthenticationAssumption
      DEF DoValidationReturns, NoDialog, NoRequest, AuthTypeOK, Callers, Notifiers,
          Results, Outcomes, DialogPcs, HandlesInv, Alive
  <2>3. CASE CancelWizard
    BY <2>3, <1>1, AuthenticationAssumption
      DEF CancelWizard, AuthTypeOK, Callers, Notifiers, Results, Outcomes, DialogPcs,
          HandlesInv, Alive
  <2>4. CASE UpdateAccountsAuthenticationData
    BY <2>4, <1>1, AuthenticationAssumption
      DEF UpdateAccountsAuthenticationData, AuthTypeOK, Callers, Notifiers, Results,
          Outcomes, DialogPcs, HandlesInv, Alive
  <2>5. CASE AuthenticationTask
    BY <2>5, <1>1, AuthenticationAssumption
      DEF AuthenticationTask, SetUser, AuthTypeOK, Callers, Notifiers, Results, Outcomes,
          DialogPcs, HandlesInv, Alive
  <2>6. CASE ShowFotoBlog
    BY <2>6, <1>1, AuthenticationAssumption
      DEF ShowFotoBlog, AuthTypeOK, Callers, Notifiers, Results, Outcomes, DialogPcs,
          HandlesInv, Alive
  <2>7. CASE FotoBlogShown
    BY <2>7, <1>1, AuthenticationAssumption
      DEF FotoBlogShown, NoCall, AuthTypeOK, Callers, Notifiers, Results, Outcomes,
          DialogPcs, HandlesInv, Alive
  <2>8. CASE Quit
    BY <2>8, <1>1, AuthenticationAssumption
      DEF Quit, AuthTypeOK, Callers, Notifiers, Results, Outcomes, DialogPcs, HandlesInv,
          Alive
  <2>9. CASE StopReAuthentication
    BY <2>9, <1>1, AuthenticationAssumption
      DEF StopReAuthentication, AuthTypeOK, Callers, Notifiers, Results, Outcomes,
          DialogPcs, HandlesInv, Alive
  <2>10. CASE Destroy
    BY <2>10, <1>1, AuthenticationAssumption
      DEF Destroy, AuthTypeOK, Callers, Notifiers, Results, Outcomes, DialogPcs,
          HandlesInv, Alive
  <2>. QED
    BY <1>5, <2>1, <2>2, <2>3, <2>4, <2>5, <2>6, <2>7, <2>8, <2>9, <2>10 DEF UserGoesOn
<1>6. ASSUME NEW c \in Callers, CallGoesOn(c) PROVE  HandlesInv'
  <2>1. CASE ReadCredentials(c)
    BY <2>1, <1>6, <1>1, AuthenticationAssumption
      DEF ReadCredentials, AuthTypeOK, Callers, Notifiers, Results, Outcomes, DialogPcs,
          HandlesInv, Alive
  <2>2. CASE ServerAnswers(c)
    BY <2>2, <1>6, <1>1, AuthenticationAssumption
      DEF ServerAnswers, NoCall, AuthTypeOK, Callers, Notifiers, Results, Outcomes,
          DialogPcs, HandlesInv, Alive
  <2>3. CASE SetResult(c)
    BY <2>3, <1>6, <1>1, AuthenticationAssumption
      DEF SetResult, NotifyAll, AuthTypeOK, Callers, Notifiers, Results, Outcomes,
          DialogPcs, HandlesInv, Alive
  <2>. QED
    BY <1>6, <2>1, <2>2, <2>3 DEF CallGoesOn
<1>7. ASSUME NEW n \in Notifiers, NotifyStep(n) PROVE  HandlesInv'
  BY <1>7, <1>1, AuthenticationAssumption
    DEF TakeObserver, NoNote, UnRegisterObservers, EndDialog, Outcome, DialogIsOpen,
        NotifyStep, AuthTypeOK, Callers, Notifiers, Results, Outcomes, DialogPcs,
        HandlesInv, Alive
<1>8. ASSUME NEW t \in AuthThreads, EndAuthenticationThread(t) PROVE  HandlesInv'
  BY <1>8, <1>1, AuthenticationAssumption
    DEF EndAuthenticationThread, NoCall, AuthTypeOK, Callers, Notifiers, Results,
        Outcomes, DialogPcs, HandlesInv, Alive
<1>9. ASSUME NEW k \in Controllers, NEW t \in AuthThreads, ~Ended, AuthThreadCreated(k, t)
      PROVE  HandlesInv'
  BY <1>9, <1>1, AuthenticationAssumption
    DEF AuthThreadCreated, AuthTypeOK, Callers, Notifiers, Results, Outcomes, DialogPcs,
        HandlesInv, Alive
<1>10. ASSUME NEW k \in Controllers, ~Ended, ControllerGoesOn(k) PROVE  HandlesInv'
  <2>1. CASE AuthThreadNotCreated(k)
    BY <2>1, <1>10, <1>1, AuthenticationAssumption
      DEF AuthThreadNotCreated, AuthTypeOK, Callers, Notifiers, Results, Outcomes,
          DialogPcs, HandlesInv, Alive
  <2>2. CASE SkipAuthentication(k)
    BY <2>2, <1>10, <1>1, AuthenticationAssumption
      DEF SkipAuthentication, Goto, AuthTypeOK, Callers, Notifiers, Results, Outcomes,
          DialogPcs, HandlesInv, Alive
  <2>3. CASE StoreAuthHandle(k)
    BY <2>3, <1>10, <1>1, AuthenticationAssumption
      DEF StoreAuthHandle, Goto, AuthTypeOK, Callers, Notifiers, Results, Outcomes,
          DialogPcs, HandlesInv, Alive
  <2>4. CASE TestAuthHandle(k)
    BY <2>4, <1>10, <1>1, AuthenticationAssumption
      DEF TestAuthHandle, Goto, AuthTypeOK, Callers, Notifiers, Results, Outcomes,
          DialogPcs, HandlesInv, Alive
  <2>5. CASE AuthenticationThreadEnded(k)
    BY <2>5, <1>10, <1>1, AuthenticationAssumption
      DEF AuthenticationThreadEnded, Goto, AuthTypeOK, Callers, Notifiers, Results,
          Outcomes, DialogPcs, HandlesInv, Alive
  <2>6. CASE WaitTimesOut(k)
    BY <2>6, <1>10, <1>1, AuthenticationAssumption
      DEF WaitTimesOut, Goto, NotifyAll, AuthTypeOK, Callers, Notifiers, Results,
          Outcomes, DialogPcs, HandlesInv, Alive
  <2>7. CASE TimeoutNotified(k)
    BY <2>7, <1>10, <1>1, AuthenticationAssumption
      DEF TimeoutNotified, Goto, AuthTypeOK, Callers, Notifiers, Results, Outcomes,
          DialogPcs, HandlesInv, Alive
  <2>8. CASE CheckReAuthenticate(k)
    <3>1. PICK pc \in {"waitEvent", "start", "closing"} :
              controller' = [controller EXCEPT ![k].pc = pc]
      BY <2>8 DEF CheckReAuthenticate, Goto
    <3>2. controller[k].pc \in {"check", "recheck"}
          /\ (~m_bReAuthenticate => controller'[k].pc = "closing")
      BY <2>8, <1>1, <1>10 DEF CheckReAuthenticate, Goto, AuthTypeOK
    <3>3. UNCHANGED <<clientVars, observer, credentialVars, handleVars, resultVars, call, note,
                    startsAfterStop>>
      BY <2>8 DEF CheckReAuthenticate
    <3>. QED
      BY <1>1, <1>10, <3>1, <3>2, <3>3
        DEF AuthTypeOK, HandlesInv, Alive
  <2>9. CASE WaitAuthenticationEvent(k)
    BY <2>9, <1>10, <1>1, AuthenticationAssumption
      DEF WaitAuthenticationEvent, Goto, AuthTypeOK, Callers, Notifiers, Results,
          Outcomes, DialogPcs, HandlesInv, Alive
  <2>10. CASE EndController(k)
    BY <2>10, <1>10, <1>1, AuthenticationAssumption
      DEF EndController, Goto, AuthTypeOK, Callers, Notifiers, Results, Outcomes,
          DialogPcs, HandlesInv, Alive
  <2>. QED
    BY <1>10, <2>1, <2>2, <2>3, <2>4, <2>5, <2>6, <2>7, <2>8, <2>9, <2>10
      DEF ControllerGoesOn
<1>11. CASE UNCHANGED vars
  BY <1>11, <1>1, AuthenticationAssumption
    DEF AuthTypeOK, Callers, Notifiers, Results, Outcomes, DialogPcs, HandlesInv, Alive
<1>. QED
  BY <1>2, <1>3, <1>4, <1>5, <1>6, <1>7, <1>8, <1>9, <1>10, <1>11, StepsOfTheThreads

\* The credentials in the manager are those of the request.
LEMMA RequestStep ==
  ASSUME AuthInv, [AuthNext]_vars
  PROVE  RequestInv'
<1>. USE DEF vars, clientVars, credentialVars, handleVars, resultVars
<1>1. AuthTypeOK /\ RequestInv
  BY DEF AuthInv
<1>2. ASSUME NEW u \in Users, NEW p \in Passwords, OnBtnNext(u, p) PROVE  RequestInv'
  BY <1>2, <1>1, AuthenticationAssumption
    DEF OnBtnNext, SetUser, NoDialog, AuthTypeOK, Callers, Notifiers, Results, Outcomes,
        DialogPcs, RequestInv
<1>3. ASSUME NEW k \in Controllers, ControllerCreated(k) PROVE  RequestInv'
  BY <1>3, <1>1, AuthenticationAssumption
    DEF ControllerCreated, AuthTypeOK, Callers, Notifiers, Results, Outcomes, DialogPcs,
        RequestInv
<1>4. CASE RequestGoesOn
  BY <1>4, <1>1, AuthenticationAssumption
    DEF SetPassword, ControllerNotCreated, RequestFails, AfterRequest,
        ExecuteAuthenticationNow, StoreMyHandle, TestMyHandle, RequestGoesOn, AuthTypeOK,
        Callers, Notifiers, Results, Outcomes, DialogPcs, RequestInv
<1>5. CASE UserGoesOn
  <2>1. CASE OnCancel
    BY <2>1, <1>1, AuthenticationAssumption
      DEF OnCancel, AuthTypeOK, Callers, Notifiers, Results, Outcomes, DialogPcs,
          RequestInv
  <2>2. CASE DoValidationReturns
    BY <2>2, <1>1, AuthenticationAssumption
      DEF DoValidationReturns, NoDialog, NoRequest, AuthTypeOK, Callers, Notifiers,
          Results, Outcomes, DialogPcs, RequestInv
  <2>3. CASE CancelWizard
    BY <2>3, <1>1, AuthenticationAssumption
      DEF CancelWizard, AuthTypeOK, Callers, Notifiers, Results, Outcomes, DialogPcs,
          RequestInv
  <2>4. CASE UpdateAccountsAuthenticationData
    BY <2>4, <1>1, AuthenticationAssumption
      DEF UpdateAccountsAuthenticationData, AuthTypeOK, Callers, Notifiers, Results,
          Outcomes, DialogPcs, RequestInv
  <2>5. CASE AuthenticationTask
    BY <2>5, <1>1, AuthenticationAssumption
      DEF AuthenticationTask, SetUser, AuthTypeOK, Callers, Notifiers, Results, Outcomes,
          DialogPcs, RequestInv
  <2>6. CASE ShowFotoBlog
    BY <2>6, <1>1, AuthenticationAssumption
      DEF ShowFotoBlog, AuthTypeOK, Callers, Notifiers, Results, Outcomes, DialogPcs,
          RequestInv
  <2>7. CASE FotoBlogShown
    BY <2>7, <1>1, AuthenticationAssumption
      DEF FotoBlogShown, NoCall, AuthTypeOK, Callers, Notifiers, Results, Outcomes,
          DialogPcs, RequestInv
  <2>8. CASE Quit
    BY <2>8, <1>1, AuthenticationAssumption
      DEF Quit, AuthTypeOK, Callers, Notifiers, Results, Outcomes, DialogPcs, RequestInv
  <2>9. CASE StopReAuthentication
    BY <2>9, <1>1, AuthenticationAssumption
      DEF StopReAuthentication, AuthTypeOK, Callers, Notifiers, Results, Outcomes,
          DialogPcs, RequestInv
  <2>10. CASE Destroy
    BY <2>10, <1>1, AuthenticationAssumption
      DEF Destroy, AuthTypeOK, Callers, Notifiers, Results, Outcomes, DialogPcs,
          RequestInv
  <2>. QED
    BY <1>5, <2>1, <2>2, <2>3, <2>4, <2>5, <2>6, <2>7, <2>8, <2>9, <2>10 DEF UserGoesOn
<1>6. ASSUME NEW c \in Callers, CallGoesOn(c) PROVE  RequestInv'
  BY <1>6, <1>1, AuthenticationAssumption
    DEF ReadCredentials, ServerAnswers, NoCall, SetResult, NotifyAll, CallGoesOn,
        AuthTypeOK, Callers, Notifiers, Results, Outcomes, DialogPcs, RequestInv
<1>7. ASSUME NEW n \in Notifiers, NotifyStep(n) PROVE  RequestInv'
  BY <1>7, <1>1, AuthenticationAssumption
    DEF TakeObserver, NoNote, UnRegisterObservers, EndDialog, Outcome, DialogIsOpen,
        NotifyStep, AuthTypeOK, Callers, Notifiers, Results, Outcomes, DialogPcs,
        RequestInv
<1>8. ASSUME NEW t \in AuthThreads, EndAuthenticationThread(t) PROVE  RequestInv'
  BY <1>8, <1>1, AuthenticationAssumption
    DEF EndAuthenticationThread, NoCall, AuthTypeOK, Callers, Notifiers, Results,
        Outcomes, DialogPcs, RequestInv
<1>9. ASSUME NEW k \in Controllers, NEW t \in AuthThreads, ~Ended, AuthThreadCreated(k, t)
      PROVE  RequestInv'
  BY <1>9, <1>1, AuthenticationAssumption
    DEF AuthThreadCreated, AuthTypeOK, Callers, Notifiers, Results, Outcomes, DialogPcs,
        RequestInv
<1>10. ASSUME NEW k \in Controllers, ~Ended, ControllerGoesOn(k) PROVE  RequestInv'
  BY <1>10, <1>1, AuthenticationAssumption
    DEF AuthThreadNotCreated, SkipAuthentication, Goto, StoreAuthHandle, TestAuthHandle,
        AuthenticationThreadEnded, WaitTimesOut, NotifyAll, TimeoutNotified,
        CheckReAuthenticate, WaitAuthenticationEvent, EndController, ControllerGoesOn,
        AuthTypeOK, Callers, Notifiers, Results, Outcomes, DialogPcs, RequestInv
<1>11. CASE UNCHANGED vars
  BY <1>11, <1>1, AuthenticationAssumption
    DEF AuthTypeOK, Callers, Notifiers, Results, Outcomes, DialogPcs, RequestInv
<1>. QED
  BY <1>2, <1>3, <1>4, <1>5, <1>6, <1>7, <1>8, <1>9, <1>10, <1>11, StepsOfTheThreads

\* A call goes through its stages.
LEMMA CallStep ==
  ASSUME AuthInv, [AuthNext]_vars
  PROVE  CallInv'
<1>. USE DEF vars, clientVars, credentialVars, handleVars, resultVars
<1>1. AuthTypeOK /\ RequestInv /\ CallInv
  BY DEF AuthInv
<1>2. ASSUME NEW u \in Users, NEW p \in Passwords, OnBtnNext(u, p) PROVE  CallInv'
  BY <1>2, <1>1, AuthenticationAssumption
    DEF OnBtnNext, SetUser, NoDialog, AuthTypeOK, Callers, Notifiers, Results, Outcomes,
        DialogPcs, RequestInv, CallInv, Alive
<1>3. ASSUME NEW k \in Controllers, ControllerCreated(k) PROVE  CallInv'
  BY <1>3, <1>1, AuthenticationAssumption
    DEF ControllerCreated, AuthTypeOK, Callers, Notifiers, Results, Outcomes, DialogPcs,
        RequestInv, CallInv, Alive
<1>4. CASE RequestGoesOn
  BY <1>4, <1>1, AuthenticationAssumption
    DEF SetPassword, ControllerNotCreated, RequestFails, AfterRequest,
        ExecuteAuthenticationNow, StoreMyHandle, TestMyHandle, RequestGoesOn, AuthTypeOK,
        Callers, Notifiers, Results, Outcomes, DialogPcs, RequestInv, CallInv, Alive
<1>5. CASE UserGoesOn
  <2>1. CASE OnCancel
    BY <2>1, <1>1, AuthenticationAssumption
      DEF OnCancel, AuthTypeOK, Callers, Notifiers, Results, Outcomes, DialogPcs,
          RequestInv, CallInv, Alive
  <2>2. CASE DoValidationReturns
    BY <2>2, <1>1, AuthenticationAssumption
      DEF DoValidationReturns, NoDialog, NoRequest, AuthTypeOK, Callers, Notifiers,
          Results, Outcomes, DialogPcs, RequestInv, CallInv, Alive
  <2>3. CASE CancelWizard
    BY <2>3, <1>1, AuthenticationAssumption
      DEF CancelWizard, AuthTypeOK, Callers, Notifiers, Results, Outcomes, DialogPcs,
          RequestInv, CallInv, Alive
  <2>4. CASE UpdateAccountsAuthenticationData
    BY <2>4, <1>1, AuthenticationAssumption
      DEF UpdateAccountsAuthenticationData, AuthTypeOK, Callers, Notifiers, Results,
          Outcomes, DialogPcs, RequestInv, CallInv, Alive
  <2>5. CASE AuthenticationTask
    BY <2>5, <1>1, AuthenticationAssumption
      DEF AuthenticationTask, SetUser, AuthTypeOK, Callers, Notifiers, Results, Outcomes,
          DialogPcs, RequestInv, CallInv, Alive
  <2>6. CASE ShowFotoBlog
    BY <2>6, <1>1, AuthenticationAssumption
      DEF ShowFotoBlog, AuthTypeOK, Callers, Notifiers, Results, Outcomes, DialogPcs,
          RequestInv, CallInv, Alive
  <2>7. CASE FotoBlogShown
    BY <2>7, <1>1, AuthenticationAssumption
      DEF FotoBlogShown, NoCall, AuthTypeOK, Callers, Notifiers, Results, Outcomes,
          DialogPcs, RequestInv, CallInv, Alive
  <2>8. CASE Quit
    BY <2>8, <1>1, AuthenticationAssumption
      DEF Quit, AuthTypeOK, Callers, Notifiers, Results, Outcomes, DialogPcs, RequestInv,
          CallInv, Alive
  <2>9. CASE StopReAuthentication
    BY <2>9, <1>1, AuthenticationAssumption
      DEF StopReAuthentication, AuthTypeOK, Callers, Notifiers, Results, Outcomes,
          DialogPcs, RequestInv, CallInv, Alive
  <2>10. CASE Destroy
    BY <2>10, <1>1, AuthenticationAssumption
      DEF Destroy, AuthTypeOK, Callers, Notifiers, Results, Outcomes, DialogPcs,
          RequestInv, CallInv, Alive
  <2>. QED
    BY <1>5, <2>1, <2>2, <2>3, <2>4, <2>5, <2>6, <2>7, <2>8, <2>9, <2>10 DEF UserGoesOn
<1>6. ASSUME NEW c \in Callers, CallGoesOn(c) PROVE  CallInv'
  <2>1. CASE ReadCredentials(c)
    BY <2>1, <1>6, <1>1, AuthenticationAssumption
      DEF ReadCredentials, AuthTypeOK, Callers, Notifiers, Results, Outcomes, DialogPcs,
          RequestInv, CallInv, Alive
  <2>2. CASE ServerAnswers(c)
    BY <2>2, <1>6, <1>1, AuthenticationAssumption
      DEF ServerAnswers, NoCall, AuthTypeOK, Callers, Notifiers, Results, Outcomes,
          DialogPcs, RequestInv, CallInv, Alive
  <2>3. CASE SetResult(c)
    BY <2>3, <1>6, <1>1, AuthenticationAssumption
      DEF SetResult, NotifyAll, AuthTypeOK, Callers, Notifiers, Results, Outcomes,
          DialogPcs, RequestInv, CallInv, Alive
  <2>. QED
    BY <1>6, <2>1, <2>2, <2>3 DEF CallGoesOn
<1>7. ASSUME NEW n \in Notifiers, NotifyStep(n) PROVE  CallInv'
  <2>1. CASE TakeObserver(n)
    BY <2>1, <1>7, <1>1, AuthenticationAssumption
      DEF TakeObserver, NoNote, AuthTypeOK, Callers, Notifiers, Results, Outcomes,
          DialogPcs, RequestInv, CallInv, Alive
  <2>2. CASE UnRegisterObservers(n)
    BY <2>2, <1>7, <1>1, AuthenticationAssumption
      DEF UnRegisterObservers, AuthTypeOK, Callers, Notifiers, Results, Outcomes,
          DialogPcs, RequestInv, CallInv, Alive
  <2>3. CASE EndDialog(n)
    BY <2>3, <1>7, <1>1, AuthenticationAssumption
      DEF EndDialog, NoNote, Outcome, DialogIsOpen, AuthTypeOK, Callers, Notifiers,
          Results, Outcomes, DialogPcs, RequestInv, CallInv, Alive
  <2>. QED
    BY <1>7, <2>1, <2>2, <2>3 DEF NotifyStep
<1>8. ASSUME NEW t \in AuthThreads, EndAuthenticationThread(t) PROVE  CallInv'
  BY <1>8, <1>1, AuthenticationAssumption
    DEF EndAuthenticationThread, NoCall, AuthTypeOK, Callers, Notifiers, Results,
        Outcomes, DialogPcs, RequestInv, CallInv, Alive
<1>9. ASSUME NEW k \in Controllers, NEW t \in AuthThreads, ~Ended, AuthThreadCreated(k, t)
      PROVE  CallInv'
  BY <1>9, <1>1, AuthenticationAssumption
    DEF AuthThreadCreated, AuthTypeOK, Callers, Notifiers, Results, Outcomes, DialogPcs,
        RequestInv, CallInv, Alive
<1>10. ASSUME NEW k \in Controllers, ~Ended, ControllerGoesOn(k) PROVE  CallInv'
  <2>1. CASE AuthThreadNotCreated(k)
    BY <2>1, <1>10, <1>1, AuthenticationAssumption
      DEF AuthThreadNotCreated, AuthTypeOK, Callers, Notifiers, Results, Outcomes,
          DialogPcs, RequestInv, CallInv, Alive
  <2>2. CASE SkipAuthentication(k)
    BY <2>2, <1>10, <1>1, AuthenticationAssumption
      DEF SkipAuthentication, Goto, AuthTypeOK, Callers, Notifiers, Results, Outcomes,
          DialogPcs, RequestInv, CallInv, Alive
  <2>3. CASE StoreAuthHandle(k)
    BY <2>3, <1>10, <1>1, AuthenticationAssumption
      DEF StoreAuthHandle, Goto, AuthTypeOK, Callers, Notifiers, Results, Outcomes,
          DialogPcs, RequestInv, CallInv, Alive
  <2>4. CASE TestAuthHandle(k)
    BY <2>4, <1>10, <1>1, AuthenticationAssumption
      DEF TestAuthHandle, Goto, AuthTypeOK, Callers, Notifiers, Results, Outcomes,
          DialogPcs, RequestInv, CallInv, Alive
  <2>5. CASE AuthenticationThreadEnded(k)
    BY <2>5, <1>10, <1>1, AuthenticationAssumption
      DEF AuthenticationThreadEnded, Goto, AuthTypeOK, Callers, Notifiers, Results,
          Outcomes, DialogPcs, RequestInv, CallInv, Alive
  <2>6. CASE WaitTimesOut(k)
    BY <2>6, <1>10, <1>1, AuthenticationAssumption
      DEF WaitTimesOut, Goto, NotifyAll, AuthTypeOK, Callers, Notifiers, Results,
          Outcomes, DialogPcs, RequestInv, CallInv, Alive
  <2>7. CASE TimeoutNotified(k)
    BY <2>7, <1>10, <1>1, AuthenticationAssumption
      DEF TimeoutNotified, Goto, AuthTypeOK, Callers, Notifiers, Results, Outcomes,
          DialogPcs, RequestInv, CallInv, Alive
  <2>8. CASE CheckReAuthenticate(k)
    BY <2>8, <1>10, <1>1, AuthenticationAssumption
      DEF CheckReAuthenticate, Goto, AuthTypeOK, Callers, Notifiers, Results, Outcomes,
          DialogPcs, RequestInv, CallInv, Alive
  <2>9. CASE WaitAuthenticationEvent(k)
    BY <2>9, <1>10, <1>1, AuthenticationAssumption
      DEF WaitAuthenticationEvent, Goto, AuthTypeOK, Callers, Notifiers, Results,
          Outcomes, DialogPcs, RequestInv, CallInv, Alive
  <2>10. CASE EndController(k)
    BY <2>10, <1>10, <1>1, AuthenticationAssumption
      DEF EndController, Goto, AuthTypeOK, Callers, Notifiers, Results, Outcomes,
          DialogPcs, RequestInv, CallInv, Alive
  <2>. QED
    BY <1>10, <2>1, <2>2, <2>3, <2>4, <2>5, <2>6, <2>7, <2>8, <2>9, <2>10
      DEF ControllerGoesOn
<1>11. CASE UNCHANGED vars
  BY <1>11, <1>1, AuthenticationAssumption
    DEF AuthTypeOK, Callers, Notifiers, Results, Outcomes, DialogPcs, RequestInv, CallInv,
        Alive
<1>. QED
  BY <1>2, <1>3, <1>4, <1>5, <1>6, <1>7, <1>8, <1>9, <1>10, <1>11, StepsOfTheThreads

\* The requests on their way stay those of the current user.
LEMMA CookieStep ==
  ASSUME AuthInv, [AuthNext]_vars
  PROVE  CookieInv'
<1>. USE DEF vars, clientVars, credentialVars, handleVars, resultVars
<1>1. AuthTypeOK /\ HandlesInv /\ RequestInv /\ CallInv /\ CookieInv
  BY DEF AuthInv
<1>2. ASSUME NEW u \in Users, NEW p \in Passwords, OnBtnNext(u, p) PROVE  CookieInv'
  BY <1>2, <1>1, AuthenticationAssumption
    DEF OnBtnNext, SetUser, NoDialog, AuthTypeOK, Callers, Notifiers, Results, Outcomes,
        DialogPcs, HandlesInv, RequestInv, CallInv, CookieInv, Alive
<1>3. ASSUME NEW k \in Controllers, ControllerCreated(k) PROVE  CookieInv'
  BY <1>3, <1>1, AuthenticationAssumption
    DEF ControllerCreated, AuthTypeOK, Callers, Notifiers, Results, Outcomes, DialogPcs,
        HandlesInv, RequestInv, CallInv, CookieInv, Alive
<1>4. CASE RequestGoesOn
  BY <1>4, <1>1, AuthenticationAssumption
    DEF SetPassword, ControllerNotCreated, RequestFails, AfterRequest,
        ExecuteAuthenticationNow, StoreMyHandle, TestMyHandle, RequestGoesOn, AuthTypeOK,
        Callers, Notifiers, Results, Outcomes, DialogPcs, HandlesInv, RequestInv, CallInv,
        CookieInv, Alive
<1>5. CASE UserGoesOn
  <2>1. CASE OnCancel
    BY <2>1, <1>1, AuthenticationAssumption
      DEF OnCancel, AuthTypeOK, Callers, Notifiers, Results, Outcomes, DialogPcs,
          HandlesInv, RequestInv, CallInv, CookieInv, Alive
  <2>2. CASE DoValidationReturns
    BY <2>2, <1>1, AuthenticationAssumption
      DEF DoValidationReturns, NoDialog, NoRequest, AuthTypeOK, Callers, Notifiers,
          Results, Outcomes, DialogPcs, HandlesInv, RequestInv, CallInv, CookieInv, Alive
  <2>3. CASE CancelWizard
    BY <2>3, <1>1, AuthenticationAssumption
      DEF CancelWizard, AuthTypeOK, Callers, Notifiers, Results, Outcomes, DialogPcs,
          HandlesInv, RequestInv, CallInv, CookieInv, Alive
  <2>4. CASE UpdateAccountsAuthenticationData
    BY <2>4, <1>1, AuthenticationAssumption
      DEF UpdateAccountsAuthenticationData, AuthTypeOK, Callers, Notifiers, Results,
          Outcomes, DialogPcs, HandlesInv, RequestInv, CallInv, CookieInv, Alive
  <2>5. CASE AuthenticationTask
    BY <2>5, <1>1, AuthenticationAssumption
      DEF AuthenticationTask, SetUser, AuthTypeOK, Callers, Notifiers, Results, Outcomes,
          DialogPcs, HandlesInv, RequestInv, CallInv, CookieInv, Alive
  <2>6. CASE ShowFotoBlog
    BY <2>6, <1>1, AuthenticationAssumption
      DEF ShowFotoBlog, AuthTypeOK, Callers, Notifiers, Results, Outcomes, DialogPcs,
          HandlesInv, RequestInv, CallInv, CookieInv, Alive
  <2>7. CASE FotoBlogShown
    BY <2>7, <1>1, AuthenticationAssumption
      DEF FotoBlogShown, NoCall, AuthTypeOK, Callers, Notifiers, Results, Outcomes,
          DialogPcs, HandlesInv, RequestInv, CallInv, CookieInv, Alive
  <2>8. CASE Quit
    BY <2>8, <1>1, AuthenticationAssumption
      DEF Quit, AuthTypeOK, Callers, Notifiers, Results, Outcomes, DialogPcs, HandlesInv,
          RequestInv, CallInv, CookieInv, Alive
  <2>9. CASE StopReAuthentication
    BY <2>9, <1>1, AuthenticationAssumption
      DEF StopReAuthentication, AuthTypeOK, Callers, Notifiers, Results, Outcomes,
          DialogPcs, HandlesInv, RequestInv, CallInv, CookieInv, Alive
  <2>10. CASE Destroy
    BY <2>10, <1>1, AuthenticationAssumption
      DEF Destroy, AuthTypeOK, Callers, Notifiers, Results, Outcomes, DialogPcs,
          HandlesInv, RequestInv, CallInv, CookieInv, Alive
  <2>. QED
    BY <1>5, <2>1, <2>2, <2>3, <2>4, <2>5, <2>6, <2>7, <2>8, <2>9, <2>10 DEF UserGoesOn
<1>6. ASSUME NEW c \in Callers, CallGoesOn(c) PROVE  CookieInv'
  <2>1. CASE ReadCredentials(c)
    BY <2>1, <1>6, <1>1, AuthenticationAssumption
      DEF ReadCredentials, AuthTypeOK, Callers, Notifiers, Results, Outcomes, DialogPcs,
          HandlesInv, RequestInv, CallInv, CookieInv, Alive
  <2>2. CASE ServerAnswers(c)
    BY <2>2, <1>6, <1>1, AuthenticationAssumption
      DEF ServerAnswers, NoCall, AuthTypeOK, Callers, Notifiers, Results, Outcomes,
          DialogPcs, HandlesInv, RequestInv, CallInv, CookieInv, Alive
  <2>3. CASE SetResult(c)
    BY <2>3, <1>6, <1>1, AuthenticationAssumption
      DEF SetResult, NotifyAll, AuthTypeOK, Callers, Notifiers, Results, Outcomes,
          DialogPcs, HandlesInv, RequestInv, CallInv, CookieInv, Alive
  <2>. QED
    BY <1>6, <2>1, <2>2, <2>3 DEF CallGoesOn
<1>7. ASSUME NEW n \in Notifiers, NotifyStep(n) PROVE  CookieInv'
  BY <1>7, <1>1, AuthenticationAssumption
    DEF TakeObserver, NoNote, UnRegisterObservers, EndDialog, Outcome, DialogIsOpen,
        NotifyStep, AuthTypeOK, Callers, Notifiers, Results, Outcomes, DialogPcs,
        HandlesInv, RequestInv, CallInv, CookieInv, Alive
<1>8. ASSUME NEW t \in AuthThreads, EndAuthenticationThread(t) PROVE  CookieInv'
  BY <1>8, <1>1, AuthenticationAssumption
    DEF EndAuthenticationThread, NoCall, AuthTypeOK, Callers, Notifiers, Results,
        Outcomes, DialogPcs, HandlesInv, RequestInv, CallInv, CookieInv, Alive
<1>9. ASSUME NEW k \in Controllers, NEW t \in AuthThreads, ~Ended, AuthThreadCreated(k, t)
      PROVE  CookieInv'
  BY <1>9, <1>1, AuthenticationAssumption
    DEF AuthThreadCreated, AuthTypeOK, Callers, Notifiers, Results, Outcomes, DialogPcs,
        HandlesInv, RequestInv, CallInv, CookieInv, Alive
<1>10. ASSUME NEW k \in Controllers, ~Ended, ControllerGoesOn(k) PROVE  CookieInv'
  <2>1. CASE AuthThreadNotCreated(k)
    BY <2>1, <1>10, <1>1, AuthenticationAssumption
      DEF AuthThreadNotCreated, AuthTypeOK, Callers, Notifiers, Results, Outcomes,
          DialogPcs, HandlesInv, RequestInv, CallInv, CookieInv, Alive
  <2>2. CASE SkipAuthentication(k)
    BY <2>2, <1>10, <1>1, AuthenticationAssumption
      DEF SkipAuthentication, Goto, AuthTypeOK, Callers, Notifiers, Results, Outcomes,
          DialogPcs, HandlesInv, RequestInv, CallInv, CookieInv, Alive
  <2>3. CASE StoreAuthHandle(k)
    BY <2>3, <1>10, <1>1, AuthenticationAssumption
      DEF StoreAuthHandle, Goto, AuthTypeOK, Callers, Notifiers, Results, Outcomes,
          DialogPcs, HandlesInv, RequestInv, CallInv, CookieInv, Alive
  <2>4. CASE TestAuthHandle(k)
    BY <2>4, <1>10, <1>1, AuthenticationAssumption
      DEF TestAuthHandle, Goto, AuthTypeOK, Callers, Notifiers, Results, Outcomes,
          DialogPcs, HandlesInv, RequestInv, CallInv, CookieInv, Alive
  <2>5. CASE AuthenticationThreadEnded(k)
    BY <2>5, <1>10, <1>1, AuthenticationAssumption
      DEF AuthenticationThreadEnded, Goto, AuthTypeOK, Callers, Notifiers, Results,
          Outcomes, DialogPcs, HandlesInv, RequestInv, CallInv, CookieInv, Alive
  <2>6. CASE WaitTimesOut(k)
    BY <2>6, <1>10, <1>1, AuthenticationAssumption
      DEF WaitTimesOut, Goto, NotifyAll, AuthTypeOK, Callers, Notifiers, Results,
          Outcomes, DialogPcs, HandlesInv, RequestInv, CallInv, CookieInv, Alive
  <2>7. CASE TimeoutNotified(k)
    BY <2>7, <1>10, <1>1, AuthenticationAssumption
      DEF TimeoutNotified, Goto, AuthTypeOK, Callers, Notifiers, Results, Outcomes,
          DialogPcs, HandlesInv, RequestInv, CallInv, CookieInv, Alive
  <2>8. CASE CheckReAuthenticate(k)
    BY <2>8, <1>10, <1>1, AuthenticationAssumption
      DEF CheckReAuthenticate, Goto, AuthTypeOK, Callers, Notifiers, Results, Outcomes,
          DialogPcs, HandlesInv, RequestInv, CallInv, CookieInv, Alive
  <2>9. CASE WaitAuthenticationEvent(k)
    BY <2>9, <1>10, <1>1, AuthenticationAssumption
      DEF WaitAuthenticationEvent, Goto, AuthTypeOK, Callers, Notifiers, Results,
          Outcomes, DialogPcs, HandlesInv, RequestInv, CallInv, CookieInv, Alive
  <2>10. CASE EndController(k)
    BY <2>10, <1>10, <1>1, AuthenticationAssumption
      DEF EndController, Goto, AuthTypeOK, Callers, Notifiers, Results, Outcomes,
          DialogPcs, HandlesInv, RequestInv, CallInv, CookieInv, Alive
  <2>. QED
    BY <1>10, <2>1, <2>2, <2>3, <2>4, <2>5, <2>6, <2>7, <2>8, <2>9, <2>10
      DEF ControllerGoesOn
<1>11. CASE UNCHANGED vars
  BY <1>11, <1>1, AuthenticationAssumption
    DEF AuthTypeOK, Callers, Notifiers, Results, Outcomes, DialogPcs, HandlesInv,
        RequestInv, CallInv, CookieInv, Alive
<1>. QED
  BY <1>2, <1>3, <1>4, <1>5, <1>6, <1>7, <1>8, <1>9, <1>10, <1>11, StepsOfTheThreads

\* The acceptance on its way to a quiet login is one of its password.
LEMMA AnswerStep ==
  ASSUME AuthInv, [AuthNext]_vars
  PROVE  AnswerInv'
<1>. USE DEF vars, clientVars, credentialVars, handleVars, resultVars
<1>1. AuthTypeOK /\ HandlesInv /\ RequestInv /\ CallInv /\ AnswerInv
  BY DEF AuthInv
<1>2. ASSUME NEW u \in Users, NEW p \in Passwords, OnBtnNext(u, p) PROVE  AnswerInv'
  BY <1>2, <1>1, AuthenticationAssumption
    DEF OnBtnNext, SetUser, NoDialog, AuthTypeOK, Callers, Notifiers, Results, Outcomes,
        DialogPcs, HandlesInv, RequestInv, CallInv, AnswerInv, TypedRight, DialogIsOpen,
        Alive
<1>3. ASSUME NEW k \in Controllers, ControllerCreated(k) PROVE  AnswerInv'
  BY <1>3, <1>1, AuthenticationAssumption
    DEF ControllerCreated, AuthTypeOK, Callers, Notifiers, Results, Outcomes, DialogPcs,
        HandlesInv, RequestInv, CallInv, AnswerInv, TypedRight, DialogIsOpen, Alive
<1>4. CASE RequestGoesOn
  <2>1. CASE SetPassword
    BY <2>1, <1>1, AuthenticationAssumption
      DEF SetPassword, AuthTypeOK, Callers, Notifiers, Results, Outcomes, DialogPcs,
          HandlesInv, RequestInv, CallInv, AnswerInv, TypedRight, DialogIsOpen, Alive
  <2>2. CASE ControllerNotCreated
    BY <2>2, <1>1, AuthenticationAssumption
      DEF ControllerNotCreated, RequestFails, AfterRequest, AuthTypeOK, Callers,
          Notifiers, Results, Outcomes, DialogPcs, HandlesInv, RequestInv, CallInv,
          AnswerInv, TypedRight, DialogIsOpen, Alive
  <2>3. CASE ExecuteAuthenticationNow
    BY <2>3, <1>1, AuthenticationAssumption
      DEF ExecuteAuthenticationNow, AfterRequest, AuthTypeOK, Callers, Notifiers, Results,
          Outcomes, DialogPcs, HandlesInv, RequestInv, CallInv, AnswerInv, TypedRight,
          DialogIsOpen, Alive
  <2>4. CASE StoreMyHandle
    BY <2>4, <1>1, AuthenticationAssumption
      DEF StoreMyHandle, AuthTypeOK, Callers, Notifiers, Results, Outcomes, DialogPcs,
          HandlesInv, RequestInv, CallInv, AnswerInv, TypedRight, DialogIsOpen, Alive
  <2>5. CASE TestMyHandle
    <3>1. CASE m_hMyThread
      BY <2>5, <3>1, <1>1
        DEF TestMyHandle, AfterRequest, RequestInv, CallInv, AnswerInv, TypedRight, DialogIsOpen,
            DialogPcs, Alive
    <3>2. CASE ~m_hMyThread
      <4>1. dialog.quiet' = dialog.quiet
        BY <2>5, <3>2, <1>1, RecordTypes DEF TestMyHandle, RequestFails, DialogRecords
      <4>. QED
        BY <2>5, <3>2, <4>1, <1>1, RecordTypes
          DEF TestMyHandle, RequestFails, AfterRequest, RequestInv, CallInv, AnswerInv,
              TypedRight, DialogIsOpen, DialogPcs, Alive, DialogRecords
    <3>. QED
      BY <3>1, <3>2
  <2>. QED
    BY <1>4, <2>1, <2>2, <2>3, <2>4, <2>5 DEF RequestGoesOn
<1>5. CASE UserGoesOn
  <2>1. CASE OnCancel
    BY <2>1, <1>1, AuthenticationAssumption
      DEF OnCancel, AuthTypeOK, Callers, Notifiers, Results, Outcomes, DialogPcs,
          HandlesInv, RequestInv, CallInv, AnswerInv, TypedRight, DialogIsOpen, Alive
  <2>2. CASE DoValidationReturns
    BY <2>2, <1>1, AuthenticationAssumption
      DEF DoValidationReturns, NoDialog, NoRequest, AuthTypeOK, Callers, Notifiers,
          Results, Outcomes, DialogPcs, HandlesInv, RequestInv, CallInv, AnswerInv,
          TypedRight, DialogIsOpen, Alive
  <2>3. CASE CancelWizard
    BY <2>3, <1>1, AuthenticationAssumption
      DEF CancelWizard, AuthTypeOK, Callers, Notifiers, Results, Outcomes, DialogPcs,
          HandlesInv, RequestInv, CallInv, AnswerInv, TypedRight, DialogIsOpen, Alive
  <2>4. CASE UpdateAccountsAuthenticationData
    BY <2>4, <1>1, AuthenticationAssumption
      DEF UpdateAccountsAuthenticationData, AuthTypeOK, Callers, Notifiers, Results,
          Outcomes, DialogPcs, HandlesInv, RequestInv, CallInv, AnswerInv, TypedRight,
          DialogIsOpen, Alive
  <2>5. CASE AuthenticationTask
    BY <2>5, <1>1, AuthenticationAssumption
      DEF AuthenticationTask, SetUser, AuthTypeOK, Callers, Notifiers, Results, Outcomes,
          DialogPcs, HandlesInv, RequestInv, CallInv, AnswerInv, TypedRight, DialogIsOpen,
          Alive
  <2>6. CASE ShowFotoBlog
    BY <2>6, <1>1, AuthenticationAssumption
      DEF ShowFotoBlog, AuthTypeOK, Callers, Notifiers, Results, Outcomes, DialogPcs,
          HandlesInv, RequestInv, CallInv, AnswerInv, TypedRight, DialogIsOpen, Alive
  <2>7. CASE FotoBlogShown
    BY <2>7, <1>1, AuthenticationAssumption
      DEF FotoBlogShown, NoCall, AuthTypeOK, Callers, Notifiers, Results, Outcomes,
          DialogPcs, HandlesInv, RequestInv, CallInv, AnswerInv, TypedRight, DialogIsOpen,
          Alive
  <2>8. CASE Quit
    BY <2>8, <1>1, AuthenticationAssumption
      DEF Quit, AuthTypeOK, Callers, Notifiers, Results, Outcomes, DialogPcs, HandlesInv,
          RequestInv, CallInv, AnswerInv, TypedRight, DialogIsOpen, Alive
  <2>9. CASE StopReAuthentication
    BY <2>9, <1>1, AuthenticationAssumption
      DEF StopReAuthentication, AuthTypeOK, Callers, Notifiers, Results, Outcomes,
          DialogPcs, HandlesInv, RequestInv, CallInv, AnswerInv, TypedRight, DialogIsOpen,
          Alive
  <2>10. CASE Destroy
    BY <2>10, <1>1, AuthenticationAssumption
      DEF Destroy, AuthTypeOK, Callers, Notifiers, Results, Outcomes, DialogPcs,
          HandlesInv, RequestInv, CallInv, AnswerInv, TypedRight, DialogIsOpen, Alive
  <2>. QED
    BY <1>5, <2>1, <2>2, <2>3, <2>4, <2>5, <2>6, <2>7, <2>8, <2>9, <2>10 DEF UserGoesOn
<1>6. ASSUME NEW c \in Callers, CallGoesOn(c) PROVE  AnswerInv'
  <2>1. CASE ReadCredentials(c)
    BY <2>1, <1>6, <1>1, AuthenticationAssumption
      DEF ReadCredentials, AuthTypeOK, Callers, Notifiers, Results, Outcomes, DialogPcs,
          HandlesInv, RequestInv, CallInv, AnswerInv, TypedRight, DialogIsOpen, Alive
  <2>2. CASE ServerAnswers(c)
    BY <2>2, <1>6, <1>1, AuthenticationAssumption
      DEF ServerAnswers, NoCall, AuthTypeOK, Callers, Notifiers, Results, Outcomes,
          DialogPcs, HandlesInv, RequestInv, CallInv, AnswerInv, TypedRight, DialogIsOpen,
          Alive
  <2>3. CASE SetResult(c)
    BY <2>3, <1>6, <1>1, AuthenticationAssumption
      DEF SetResult, NotifyAll, AuthTypeOK, Callers, Notifiers, Results, Outcomes,
          DialogPcs, HandlesInv, RequestInv, CallInv, AnswerInv, TypedRight, DialogIsOpen,
          Alive
  <2>. QED
    BY <1>6, <2>1, <2>2, <2>3 DEF CallGoesOn
<1>7. ASSUME NEW n \in Notifiers, NotifyStep(n) PROVE  AnswerInv'
  <2>1. CASE TakeObserver(n)
    BY <2>1, <1>7, <1>1, AuthenticationAssumption
      DEF TakeObserver, NoNote, AuthTypeOK, Callers, Notifiers, Results, Outcomes,
          DialogPcs, HandlesInv, RequestInv, CallInv, AnswerInv, TypedRight, DialogIsOpen,
          Alive
  <2>2. CASE UnRegisterObservers(n)
    BY <2>2, <1>7, <1>1, AuthenticationAssumption
      DEF UnRegisterObservers, AuthTypeOK, Callers, Notifiers, Results, Outcomes,
          DialogPcs, HandlesInv, RequestInv, CallInv, AnswerInv, TypedRight, DialogIsOpen,
          Alive
  <2>3. CASE EndDialog(n)
    BY <2>3, <1>7, <1>1, AuthenticationAssumption
      DEF EndDialog, NoNote, Outcome, DialogIsOpen, AuthTypeOK, Callers, Notifiers,
          Results, Outcomes, DialogPcs, HandlesInv, RequestInv, CallInv, AnswerInv,
          TypedRight, Alive
  <2>. QED
    BY <1>7, <2>1, <2>2, <2>3 DEF NotifyStep
<1>8. ASSUME NEW t \in AuthThreads, EndAuthenticationThread(t) PROVE  AnswerInv'
  BY <1>8, <1>1, AuthenticationAssumption
    DEF EndAuthenticationThread, NoCall, AuthTypeOK, Callers, Notifiers, Results,
        Outcomes, DialogPcs, HandlesInv, RequestInv, CallInv, AnswerInv, TypedRight,
        DialogIsOpen, Alive
<1>9. ASSUME NEW k \in Controllers, NEW t \in AuthThreads, ~Ended, AuthThreadCreated(k, t)
      PROVE  AnswerInv'
  BY <1>9, <1>1, AuthenticationAssumption
    DEF AuthThreadCreated, AuthTypeOK, Callers, Notifiers, Results, Outcomes, DialogPcs,
        HandlesInv, RequestInv, CallInv, AnswerInv, TypedRight, DialogIsOpen, Alive
<1>10. ASSUME NEW k \in Controllers, ~Ended, ControllerGoesOn(k) PROVE  AnswerInv'
  <2>1. CASE AuthThreadNotCreated(k)
    BY <2>1, <1>10, <1>1, AuthenticationAssumption
      DEF AuthThreadNotCreated, AuthTypeOK, Callers, Notifiers, Results, Outcomes,
          DialogPcs, HandlesInv, RequestInv, CallInv, AnswerInv, TypedRight, DialogIsOpen,
          Alive
  <2>2. CASE SkipAuthentication(k)
    BY <2>2, <1>10, <1>1, AuthenticationAssumption
      DEF SkipAuthentication, Goto, AuthTypeOK, Callers, Notifiers, Results, Outcomes,
          DialogPcs, HandlesInv, RequestInv, CallInv, AnswerInv, TypedRight, DialogIsOpen,
          Alive
  <2>3. CASE StoreAuthHandle(k)
    BY <2>3, <1>10, <1>1, AuthenticationAssumption
      DEF StoreAuthHandle, Goto, AuthTypeOK, Callers, Notifiers, Results, Outcomes,
          DialogPcs, HandlesInv, RequestInv, CallInv, AnswerInv, TypedRight, DialogIsOpen,
          Alive
  <2>4. CASE TestAuthHandle(k)
    BY <2>4, <1>10, <1>1, AuthenticationAssumption
      DEF TestAuthHandle, Goto, AuthTypeOK, Callers, Notifiers, Results, Outcomes,
          DialogPcs, HandlesInv, RequestInv, CallInv, AnswerInv, TypedRight, DialogIsOpen,
          Alive
  <2>5. CASE AuthenticationThreadEnded(k)
    BY <2>5, <1>10, <1>1, AuthenticationAssumption
      DEF AuthenticationThreadEnded, Goto, AuthTypeOK, Callers, Notifiers, Results,
          Outcomes, DialogPcs, HandlesInv, RequestInv, CallInv, AnswerInv, TypedRight,
          DialogIsOpen, Alive
  <2>6. CASE WaitTimesOut(k)
    BY <2>6, <1>10, <1>1, AuthenticationAssumption
      DEF WaitTimesOut, Goto, NotifyAll, AuthTypeOK, Callers, Notifiers, Results,
          Outcomes, DialogPcs, HandlesInv, RequestInv, CallInv, AnswerInv, TypedRight,
          DialogIsOpen, Alive
  <2>7. CASE TimeoutNotified(k)
    BY <2>7, <1>10, <1>1, AuthenticationAssumption
      DEF TimeoutNotified, Goto, AuthTypeOK, Callers, Notifiers, Results, Outcomes,
          DialogPcs, HandlesInv, RequestInv, CallInv, AnswerInv, TypedRight, DialogIsOpen,
          Alive
  <2>8. CASE CheckReAuthenticate(k)
    BY <2>8, <1>10, <1>1, AuthenticationAssumption
      DEF CheckReAuthenticate, Goto, AuthTypeOK, Callers, Notifiers, Results, Outcomes,
          DialogPcs, HandlesInv, RequestInv, CallInv, AnswerInv, TypedRight, DialogIsOpen,
          Alive
  <2>9. CASE WaitAuthenticationEvent(k)
    BY <2>9, <1>10, <1>1, AuthenticationAssumption
      DEF WaitAuthenticationEvent, Goto, AuthTypeOK, Callers, Notifiers, Results,
          Outcomes, DialogPcs, HandlesInv, RequestInv, CallInv, AnswerInv, TypedRight,
          DialogIsOpen, Alive
  <2>10. CASE EndController(k)
    BY <2>10, <1>10, <1>1, AuthenticationAssumption
      DEF EndController, Goto, AuthTypeOK, Callers, Notifiers, Results, Outcomes,
          DialogPcs, HandlesInv, RequestInv, CallInv, AnswerInv, TypedRight, DialogIsOpen,
          Alive
  <2>. QED
    BY <1>10, <2>1, <2>2, <2>3, <2>4, <2>5, <2>6, <2>7, <2>8, <2>9, <2>10
      DEF ControllerGoesOn
<1>11. CASE UNCHANGED vars
  BY <1>11, <1>1, AuthenticationAssumption
    DEF AuthTypeOK, Callers, Notifiers, Results, Outcomes, DialogPcs, HandlesInv,
        RequestInv, CallInv, AnswerInv, TypedRight, DialogIsOpen, Alive
<1>. QED
  BY <1>2, <1>3, <1>4, <1>5, <1>6, <1>7, <1>8, <1>9, <1>10, <1>11, StepsOfTheThreads

\* No controller starts a second authentication after the stop.
LEMMA StopStep ==
  ASSUME AuthInv, [AuthNext]_vars
  PROVE  StopInv'
<1>. USE DEF vars, clientVars, credentialVars, handleVars, resultVars
<1>1. AuthTypeOK /\ HandlesInv /\ StopInv
  BY DEF AuthInv
<1>2. ASSUME NEW u \in Users, NEW p \in Passwords, OnBtnNext(u, p) PROVE  StopInv'
  BY <1>2, <1>1, AuthenticationAssumption
    DEF OnBtnNext, SetUser, NoDialog, AuthTypeOK, Callers, Notifiers, Results, Outcomes,
        DialogPcs, HandlesInv, StopInv, Alive, Ended
<1>3. ASSUME NEW k \in Controllers, ControllerCreated(k) PROVE  StopInv'
  BY <1>3, <1>1, AuthenticationAssumption
    DEF ControllerCreated, AuthTypeOK, Callers, Notifiers, Results, Outcomes, DialogPcs,
        HandlesInv, StopInv, Alive, Ended
<1>4. CASE RequestGoesOn
  BY <1>4, <1>1, AuthenticationAssumption
    DEF SetPassword, ControllerNotCreated, RequestFails, AfterRequest,
        ExecuteAuthenticationNow, StoreMyHandle, TestMyHandle, RequestGoesOn, AuthTypeOK,
        Callers, Notifiers, Results, Outcomes, DialogPcs, HandlesInv, StopInv, Alive,
        Ended
<1>5. CASE UserGoesOn
  BY <1>5, <1>1, AuthenticationAssumption
    DEF OnCancel, DoValidationReturns, NoDialog, NoRequest, CancelWizard,
        UpdateAccountsAuthenticationData, AuthenticationTask, SetUser, ShowFotoBlog,
        FotoBlogShown, NoCall, Quit, StopReAuthentication, Destroy, UserGoesOn,
        AuthTypeOK, Callers, Notifiers, Results, Outcomes, DialogPcs, HandlesInv, StopInv,
        Alive, Ended
<1>6. ASSUME NEW c \in Callers, CallGoesOn(c) PROVE  StopInv'
  BY <1>6, <1>1, AuthenticationAssumption
    DEF ReadCredentials, ServerAnswers, NoCall, SetResult, NotifyAll, CallGoesOn,
        AuthTypeOK, Callers, Notifiers, Results, Outcomes, DialogPcs, HandlesInv, StopInv,
        Alive, Ended
<1>7. ASSUME NEW n \in Notifiers, NotifyStep(n) PROVE  StopInv'
  BY <1>7, <1>1, AuthenticationAssumption
    DEF TakeObserver, NoNote, UnRegisterObservers, EndDialog, Outcome, DialogIsOpen,
        NotifyStep, AuthTypeOK, Callers, Notifiers, Results, Outcomes, DialogPcs,
        HandlesInv, StopInv, Alive, Ended
<1>8. ASSUME NEW t \in AuthThreads, EndAuthenticationThread(t) PROVE  StopInv'
  BY <1>8, <1>1, AuthenticationAssumption
    DEF EndAuthenticationThread, NoCall, AuthTypeOK, Callers, Notifiers, Results,
        Outcomes, DialogPcs, HandlesInv, StopInv, Alive, Ended
<1>9. ASSUME NEW k \in Controllers, NEW t \in AuthThreads, ~Ended, AuthThreadCreated(k, t)
      PROVE  StopInv'
  BY <1>9, <1>1, AuthenticationAssumption
    DEF AuthThreadCreated, AuthTypeOK, Callers, Notifiers, Results, Outcomes, DialogPcs,
        HandlesInv, StopInv, Alive, Ended
<1>10. ASSUME NEW k \in Controllers, ~Ended, ControllerGoesOn(k) PROVE  StopInv'
  <2>1. CASE AuthThreadNotCreated(k)
    BY <2>1, <1>10, <1>1, AuthenticationAssumption
      DEF AuthThreadNotCreated, AuthTypeOK, Callers, Notifiers, Results, Outcomes,
          DialogPcs, HandlesInv, StopInv, Alive, Ended
  <2>2. CASE SkipAuthentication(k)
    BY <2>2, <1>10, <1>1, AuthenticationAssumption
      DEF SkipAuthentication, Goto, AuthTypeOK, Callers, Notifiers, Results, Outcomes,
          DialogPcs, HandlesInv, StopInv, Alive, Ended
  <2>3. CASE StoreAuthHandle(k)
    BY <2>3, <1>10, <1>1, AuthenticationAssumption
      DEF StoreAuthHandle, Goto, AuthTypeOK, Callers, Notifiers, Results, Outcomes,
          DialogPcs, HandlesInv, StopInv, Alive, Ended
  <2>4. CASE TestAuthHandle(k)
    BY <2>4, <1>10, <1>1, AuthenticationAssumption
      DEF TestAuthHandle, Goto, AuthTypeOK, Callers, Notifiers, Results, Outcomes,
          DialogPcs, HandlesInv, StopInv, Alive, Ended
  <2>5. CASE AuthenticationThreadEnded(k)
    BY <2>5, <1>10, <1>1, AuthenticationAssumption
      DEF AuthenticationThreadEnded, Goto, AuthTypeOK, Callers, Notifiers, Results,
          Outcomes, DialogPcs, HandlesInv, StopInv, Alive, Ended
  <2>6. CASE WaitTimesOut(k)
    BY <2>6, <1>10, <1>1, AuthenticationAssumption
      DEF WaitTimesOut, Goto, NotifyAll, AuthTypeOK, Callers, Notifiers, Results,
          Outcomes, DialogPcs, HandlesInv, StopInv, Alive, Ended
  <2>7. CASE TimeoutNotified(k)
    BY <2>7, <1>10, <1>1, AuthenticationAssumption
      DEF TimeoutNotified, Goto, AuthTypeOK, Callers, Notifiers, Results, Outcomes,
          DialogPcs, HandlesInv, StopInv, Alive, Ended
  <2>8. CASE CheckReAuthenticate(k)
    <3>1. PICK pc \in {"waitEvent", "start", "closing"} :
              controller' = [controller EXCEPT ![k].pc = pc]
      BY <2>8 DEF CheckReAuthenticate, Goto
    <3>2. controller[k].pc \in {"check", "recheck"}
          /\ (~m_bReAuthenticate => controller'[k].pc = "closing")
      BY <2>8, <1>1, <1>10 DEF CheckReAuthenticate, Goto, AuthTypeOK
    <3>3. UNCHANGED <<clientVars, observer, credentialVars, handleVars, resultVars, call, note,
                    startsAfterStop>>
      BY <2>8 DEF CheckReAuthenticate
    <3>. QED
      BY <1>1, <1>10, <3>1, <3>2, <3>3
        DEF AuthTypeOK, HandlesInv, StopInv, Alive, Ended
  <2>9. CASE WaitAuthenticationEvent(k)
    BY <2>9, <1>10, <1>1, AuthenticationAssumption
      DEF WaitAuthenticationEvent, Goto, AuthTypeOK, Callers, Notifiers, Results,
          Outcomes, DialogPcs, HandlesInv, StopInv, Alive, Ended
  <2>10. CASE EndController(k)
    BY <2>10, <1>10, <1>1, AuthenticationAssumption
      DEF EndController, Goto, AuthTypeOK, Callers, Notifiers, Results, Outcomes,
          DialogPcs, HandlesInv, StopInv, Alive, Ended
  <2>. QED
    BY <1>10, <2>1, <2>2, <2>3, <2>4, <2>5, <2>6, <2>7, <2>8, <2>9, <2>10
      DEF ControllerGoesOn
<1>11. CASE UNCHANGED vars
  BY <1>11, <1>1, AuthenticationAssumption
    DEF AuthTypeOK, Callers, Notifiers, Results, Outcomes, DialogPcs, HandlesInv, StopInv,
        Alive, Ended
<1>. QED
  BY <1>2, <1>3, <1>4, <1>5, <1>6, <1>7, <1>8, <1>9, <1>10, <1>11, StepsOfTheThreads

-----------------------------------------------------------------------------
\* The manager starts with no thread, no request and no answer.
LEMMA AuthInitInv ==
  ASSUME AuthInit
  PROVE  AuthInv
<1>1. AuthTypeOK
  <2>1. controller \in [Controllers -> ControllerRecords]
    <3>1. (CHOOSE t \in AuthThreads : TRUE) \in AuthThreads
      BY AuthenticationAssumption
    <3>. QED
      BY <3>1 DEF AuthInit, ControllerRecords, ControllerPcs
  <2>2. call \in [Callers -> CallRecords]
    BY CallResults DEF AuthInit
  <2>3. note \in [Notifiers -> NoteRecords]
    BY DEF AuthInit, NoNote, NoteRecords, NotePcs, Results
  <2>4. dialog \in DialogRecords /\ request \in [user : Users \cup {NoUser},
                                  password : Passwords \cup {NoPassword}, task : BOOLEAN]
    BY DEF AuthInit, NoDialog, NoRequest, DialogRecords, Outcomes
  <2>5. dialogs \in 0 .. MaxDialogs /\ startsAfterStop \in 0 .. 2
    BY AuthenticationAssumption DEF AuthInit
  <2>6. storedPassword \in [Users -> Passwords \cup {NoPassword}]
    BY AuthenticationAssumption DEF AuthInit
  <2>. QED
    BY <2>1, <2>2, <2>3, <2>4, <2>5, <2>6
      DEF AuthInit, AuthTypeOK, ControllerRecords, ControllerPcs, CallRecords, CallPcs,
          NoteRecords, NotePcs, DialogRecords, Results, DialogPcs
<1>2. HandlesInv /\ RequestInv /\ CallInv /\ CookieInv /\ AnswerInv /\ StopInv
  BY AuthenticationAssumption
    DEF AuthInit, HandlesInv, RequestInv, CallInv, CookieInv, AnswerInv, StopInv, Alive,
        NoRequest, NoDialog, NoCall, NoNote, Callers, Notifiers, DialogPcs, DialogIsOpen
<1>. QED
  BY <1>1, <1>2 DEF AuthInv

\* The invariant holds in every reachable state.
LEMMA AuthInvAlways ==
  AuthSpec => []AuthInv
<1>1. ASSUME AuthInv, [AuthNext]_vars PROVE AuthInv'
  BY <1>1, AuthTypes, HandlesStep, RequestStep, CallStep, CookieStep, AnswerStep, StopStep
    DEF AuthInv
<1>. QED
  BY <1>1, AuthInitInv, PTL DEF AuthSpec

\* Every variable of the manager and of its clients keeps its type.
THEOREM AuthTypeCorrect ==
  AuthSpec => []AuthTypeOK
<1>1. AuthInv => AuthTypeOK
  BY DEF AuthInv
<1>. QED
  BY <1>1, AuthInvAlways, PTL

\* Whatever the order in which handles are stored, zeroed and tested, at most one
\* authentication thread and one controller are alive.
THEOREM OneThreadOfEachAlways ==
  AuthSpec => []OneThreadOfEach
<1>1. AuthInv => OneThreadOfEach
  <2>. SUFFICES ASSUME AuthInv PROVE OneThreadOfEach
    OBVIOUS
  <2>1. Cardinality(AuthThreads \ Free(call, AuthThreads)) <= 1
    BY AtMostOneElement DEF AuthInv, HandlesInv, Alive, Free
  <2>2. Cardinality(Controllers \ Free(controller, Controllers)) <= 1
    BY AtMostOneElement DEF AuthInv, HandlesInv, Alive, Free
  <2>. QED
    BY <2>1, <2>2 DEF OneThreadOfEach
<1>. QED
  BY <1>1, AuthInvAlways, PTL

\* A login started while no handle was set, and answered by the authentication thread, ends
\* with IDOK only on the password the server accepts.
THEOREM QuietLoginGetsItsOwnAnswer ==
  AuthSpec => []OwnAnswer
<1>1. AuthInv => OwnAnswer
  BY DEF AuthInv, AnswerInv, OwnAnswer, TypedRight
<1>. QED
  BY <1>1, AuthInvAlways, PTL

\* Once the application's request is answered the browser holds no other user's cookie.
THEOREM CookieBelongsToCurrentUser ==
  AuthSpec => []CookieOfCurrentUser
<1>1. AuthInv => CookieOfCurrentUser
  BY DEF AuthInv, CookieInv, RequestInv, CookieOfCurrentUser
<1>. QED
  BY <1>1, AuthInvAlways, PTL

\* StopReAuthentication lets at most one more authentication start.
THEOREM StopReAuthenticationStops ==
  AuthSpec => []AtMostOneAfterStop
<1>1. AuthInv => AtMostOneAfterStop
  BY DEF AuthInv, StopInv, AtMostOneAfterStop
<1>. QED
  BY <1>1, AuthInvAlways, PTL
=============================================================================
