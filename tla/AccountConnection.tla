-------------------------- MODULE AccountConnection --------------------------
(***************************************************************************)
(* CAccountConnectionManager: what the user interface believes about the   *)
(* connection of each account, what libpurple knows about it, and the two  *)
(* paths between them.  Downwards, methods of the protocol called at once  *)
(* (Connect, SetUserStatus) or queued for the asynchronous thread          *)
(* (DisconnectAsync, SetUserStatusAsync).  Upwards, every notification of  *)
(* libpurple starts a thread of its own, which posts it to the window of   *)
(* CWMCallbackSerializer, whose messages the user interface handles in     *)
(* order.  A call of libpurple is one action: LibPurpleAccess shows that   *)
(* between Wait and ReleaseLibPurpleThreadAccess nobody else is inside.    *)
(***************************************************************************)
EXTENDS Naturals, Sequences

CONSTANTS
  Accounts,
  WithoutInvisible,   \* accounts of prpl-jabber, prpl-uol and prpl-uolto
  UserStatuses,       \* what the menus offer: AS_ONLINE, AS_BUSY, AS_INVISIBLE, ...
  MaxUserActs,        \* bound: how often the user acts, goes away or comes back
  MaxPending          \* bound: how many notifications libpurple starts before they are handled

ASSUME AccountAssumption ==
  /\ WithoutInvisible \subseteq Accounts
  /\ UserStatuses \subseteq {"online", "busy", "away", "invisible"}
  /\ MaxUserActs \in Nat
  /\ MaxPending \in Nat \ {0}

VARIABLES
  uimPc,             \* per account: the thread of the user interface in Connect
  passwordKnown,     \* the account has a password
  connectionState,   \* CAccountConnection::m_dwConnectionState
  userStatus,        \* CAccountConnection::m_dwUserStatus
  previousStatus,    \* CAccountConnection::m_dwPreviousUserStatus
  errorEntries,      \* accounts listed in the window of connection errors
  gotAway,           \* CAppWindow::m_bGotAway
  preFinalizeDone,   \* CPurpleService::m_nPreFinalizeDone
  asyncExecList,     \* CPurpleProtocolAsyncExec::m_asyncExecList
  disconnectSources, \* timeouts for SerializedDisconnectMethod in the main loop
  purpleState,       \* state of the PurpleAccount
  purpleError,       \* PurpleConnection::disconnect_timeout is set
  purpleStatus,      \* active status of the PurpleAccount
  notifiers,         \* worker threads of CCallbackNotifier, oldest first
  messages,          \* posted to the window of CWMCallbackSerializer
  userActs,          \* bounded by MaxUserActs
  upsets             \* history: the ways in which a step disregarded another one

uimVars == <<uimPc, passwordKnown, errorEntries, gotAway, preFinalizeDone>>
accountVars == <<connectionState, userStatus, previousStatus>>
purpleVars == <<disconnectSources, purpleState, purpleError>>
vars == <<uimVars, accountVars, purpleVars, asyncExecList, purpleStatus, notifiers,
          messages, userActs, upsets>>

Statuses == {"online", "offline", "busy", "away", "auto_away", "invisible"}
Events == {"connected", "disconnected", "report_disconnect"}
Operations == [method : {"disconnect", "set_status"}, account : Accounts, status : Statuses]
Notifications == [event : Events, account : Accounts]

\* A notification posted before an older one; a dialog that ends when its account
\* has got connected meanwhile; a status set past a queued one; a connection that
\* Connect leaves shown although the protocol has refused to make it.
Upsets == {"overtaken", "asked", "raced", "failed"}

\* The types of the accounts and of the queues; a status stored or requested is one
\* the user can have, never AS_AUTO_AWAY_RETURN.
AccountTypeOK ==
  /\ uimPc \in [Accounts -> {"idle", "connect", "asking"}]
  /\ passwordKnown \in [Accounts -> BOOLEAN]
  /\ connectionState \in [Accounts -> {"disconnected", "connecting", "connected"}]
  /\ userStatus \in [Accounts -> Statuses]
  /\ previousStatus \in [Accounts -> Statuses]
  /\ errorEntries \in SUBSET Accounts
  /\ gotAway \in BOOLEAN
  /\ preFinalizeDone \in BOOLEAN
  /\ asyncExecList \in Seq(Operations)
  /\ disconnectSources \in Seq(Accounts)
  /\ purpleState \in [Accounts -> {"unregistered", "offline", "connecting", "online"}]
  /\ purpleError \in [Accounts -> BOOLEAN]
  /\ purpleStatus \in [Accounts -> Statuses]
  /\ notifiers \in Seq(Notifications)
  /\ messages \in Seq(Notifications)
  /\ userActs \in 0 .. MaxUserActs
  /\ upsets \in [Accounts -> SUBSET Upsets]

\* An account without a CAccountConnection is one whose connection is
\* disconnected and whose two statuses are offline, as in a new one.
AccountInit ==
  /\ uimPc = [a \in Accounts |-> "idle"]
  /\ passwordKnown \in [Accounts -> BOOLEAN]
  /\ connectionState = [a \in Accounts |-> "disconnected"]
  /\ userStatus = [a \in Accounts |-> "offline"]
  /\ previousStatus = [a \in Accounts |-> "offline"]
  /\ errorEntries = {}
  /\ gotAway = FALSE
  /\ preFinalizeDone = FALSE
  /\ asyncExecList = <<>>
  /\ disconnectSources = <<>>
  /\ purpleState = [a \in Accounts |-> "unregistered"]
  /\ purpleError = [a \in Accounts |-> FALSE]
  /\ purpleStatus = [a \in Accounts |-> "online"]
  /\ notifiers = <<>>
  /\ messages = <<>>
  /\ userActs = 0
  /\ upsets = [a \in Accounts |-> {}]

-----------------------------------------------------------------------------
(* InternalSetStatus, as what it makes of an account whose connection is in *)
(* state c, and what it requests of the protocol.                           *)

\* GetProtocolValidStatusMapping
ValidStatus(a, s) == IF s = "invisible" /\ a \in WithoutInvisible THEN "offline" ELSE s

\* GetProtocolUserStatus
ProtocolStatus(s) == IF s = "auto_away" THEN "away" ELSE s

Unchanged(a, c, request) ==
  [connection |-> c, status |-> userStatus[a], previous |-> previousStatus[a],
   request |-> request]

\* Mutant: the state of the connection is read before it is changed.
RequestByOldState(a, s, c) ==
  CASE ValidStatus(a, s) # s -> Unchanged(a, "disconnected", "disconnect")
    [] s = "auto_away" /\ userStatus[a] \in {"invisible", "offline"} ->
         Unchanged(a, c, "none")
    [] OTHER ->
         LET back == s = "auto_away_return"
             new == IF back THEN previousStatus[a] ELSE s
         IN  [connection |-> c, status |-> new,
              previous |-> IF back THEN previousStatus[a] ELSE userStatus[a],
              request |-> IF new # "offline" /\ connectionState[a] = "connected"
                            THEN "set_status" ELSE "none"]

\* Mutant: the return from auto-away is stored like any other status.
StoreTheReturn(a, s, c) ==
  [connection |-> c, status |-> s, previous |-> userStatus[a],
   request |-> IF c = "connected" THEN "set_status" ELSE "none"]

InternalSetStatus(a, s, c) ==
  CASE ValidStatus(a, s) # s -> Unchanged(a, "disconnected", "disconnect")
    [] s = "auto_away" /\ userStatus[a] \in {"invisible", "offline"} ->
         Unchanged(a, c, "none")
    [] OTHER ->
         LET back == s = "auto_away_return"
             new == IF back THEN previousStatus[a] ELSE s
         IN  [connection |-> c, status |-> new,
              previous |-> IF back THEN previousStatus[a] ELSE userStatus[a],
              request |-> IF new # "offline" /\ c = "connected" THEN "set_status"
                                                                ELSE "none"]

Becomes(a, r) ==
  /\ connectionState' = [connectionState EXCEPT ![a] = r.connection]
  /\ userStatus' = [userStatus EXCEPT ![a] = r.status]
  /\ previousStatus' = [previousStatus EXCEPT ![a] = r.previous]

Operation(m, a, s) == [method |-> m, account |-> a, status |-> s]

Queued(m, a) == \E i \in DOMAIN asyncExecList :
  asyncExecList[i].method = m /\ asyncExecList[i].account = a

\* CPurpleProtocol::SetUserStatus: IM_PROTOCOL_ERROR_NOT_CONNECTED unless libpurple
\* is connected.
StatusSet(a, s) ==
  IF purpleState[a] = "online" THEN [purpleStatus EXCEPT ![a] = ProtocolStatus(s)]
                               ELSE purpleStatus

Upset(u, condition) == IF condition THEN {u} ELSE {}
Races(a, r) == r.request = "set_status" /\ Queued("set_status", a)

\* What SetStatus requests, with bAsync FALSE: only the disconnection is queued.
RequestNow(a, r) ==
  /\ asyncExecList' = IF r.request = "disconnect"
                        THEN Append(asyncExecList, Operation("disconnect", a, "offline"))
                        ELSE asyncExecList
  /\ purpleStatus' = IF r.request = "set_status" THEN StatusSet(a, r.status)
                                                 ELSE purpleStatus
  /\ upsets' = [upsets EXCEPT ![a] = @ \cup Upset("raced", Races(a, r))]

\* What NotifyConnected requests, with bAsync TRUE.
RequestQueued(a, r) ==
  /\ asyncExecList' = IF r.request = "none" THEN asyncExecList
                      ELSE Append(asyncExecList, Operation(r.request, a, r.status))
  /\ UNCHANGED purpleStatus

-----------------------------------------------------------------------------
(* The thread of the user interface: what the user asks for.                *)

UserActs ==
  /\ \A a \in Accounts : uimPc[a] = "idle"
  /\ userActs < MaxUserActs
  /\ userActs' = userActs + 1

\* CSetUserStatusAllCommand, per account, and the menu of CAccountButton.
SetUserStatusCommand(a, s) ==
  LET r == InternalSetStatus(a, s, connectionState[a]) IN
  /\ UserActs
  /\ Becomes(a, r)
  /\ RequestNow(a, r)
  /\ uimPc' = [uimPc EXCEPT ![a] = IF r.connection = "connected" THEN "idle" ELSE "connect"]
  /\ UNCHANGED <<passwordKnown, errorEntries, gotAway, preFinalizeDone, purpleVars,
                 notifiers, messages>>

\* ConnectAll, per account.
ConnectCommand(a) ==
  /\ UserActs
  /\ connectionState[a] # "connected"
  /\ uimPc' = [uimPc EXCEPT ![a] = "connect"]
  /\ UNCHANGED <<passwordKnown, errorEntries, gotAway, preFinalizeDone, accountVars,
                 purpleVars, asyncExecList, purpleStatus, notifiers, messages, upsets>>

\* CConnectionErrorView::ReconnectAll, per account: it does not ask whether the
\* account is connected.
ReconnectCommand(a) ==
  LET r == InternalSetStatus(a, previousStatus[a], connectionState[a]) IN
  /\ UserActs
  /\ a \in errorEntries
  /\ Becomes(a, r)
  /\ RequestNow(a, r)
  /\ uimPc' = [uimPc EXCEPT ![a] = "connect"]
  /\ UNCHANGED <<passwordKnown, errorEntries, gotAway, preFinalizeDone, purpleVars,
                 notifiers, messages>>

\* Disconnect(pAccount): the operation is queued and the account is considered
\* disconnected at once.
DisconnectCommand(a) ==
  /\ UserActs
  /\ Becomes(a, Unchanged(a, "disconnected", "disconnect"))
  /\ RequestNow(a, Unchanged(a, "disconnected", "disconnect"))
  /\ UNCHANGED <<uimVars, purpleVars, notifiers, messages>>

\* DisconnectAll, per account: Disconnect is called directly.
DisconnectAllCommand(a) ==
  /\ UserActs
  /\ connectionState[a] = "connected"
  /\ Becomes(a, Unchanged(a, "disconnected", "none"))
  /\ disconnectSources' = Append(disconnectSources, a)
  /\ UNCHANGED <<uimVars, purpleState, purpleError, asyncExecList, purpleStatus,
                 notifiers, messages, upsets>>

\* CAppWindow::OnTimer: the status s of every connected account, if the settings
\* have auto-away enabled.
AutoAway(s, enabled) ==
  LET r(a) == IF enabled /\ connectionState[a] = "connected"
                THEN InternalSetStatus(a, s, "connected")
                ELSE Unchanged(a, connectionState[a], "none")
  IN  /\ userStatus' = [a \in Accounts |-> r(a).status]
      /\ previousStatus' = [a \in Accounts |-> r(a).previous]
      /\ purpleStatus' = [a \in Accounts |->
           IF r(a).request = "set_status" THEN StatusSet(a, r(a).status)[a]
                                          ELSE purpleStatus[a]]
      /\ upsets' = [a \in Accounts |-> upsets[a] \cup Upset("raced", Races(a, r(a)))]
      /\ UNCHANGED <<uimPc, passwordKnown, errorEntries, preFinalizeDone, connectionState,
                     purpleVars, asyncExecList, notifiers, messages>>

UIMDispatches == \A a \in Accounts : uimPc[a] # "connect"

IdleTimer ==
  /\ UIMDispatches
  /\ userActs < MaxUserActs
  /\ userActs' = userActs + 1

GoAway ==
  /\ IdleTimer
  /\ ~gotAway
  /\ gotAway' = TRUE
  /\ \E enabled \in BOOLEAN : AutoAway("auto_away", enabled)

ComeBack ==
  /\ IdleTimer
  /\ gotAway
  /\ gotAway' = FALSE
  /\ \E enabled \in BOOLEAN : AutoAway("auto_away_return", enabled)

PreFinalize ==
  /\ \A a \in Accounts : uimPc[a] = "idle"
  /\ ~preFinalizeDone
  /\ preFinalizeDone' = TRUE
  /\ UNCHANGED <<uimPc, passwordKnown, errorEntries, gotAway, accountVars, purpleVars,
                 asyncExecList, purpleStatus, notifiers, messages, userActs, upsets>>

-----------------------------------------------------------------------------
(* CAccountConnectionManager::Connect, with the dialog that asks for a      *)
(* missing password: its loop keeps on dispatching messages.                *)

UIMGoto(a, from, to) ==
  /\ uimPc[a] = from
  /\ uimPc' = [uimPc EXCEPT ![a] = to]
  /\ UNCHANGED <<errorEntries, gotAway, preFinalizeDone, disconnectSources, purpleError,
                 asyncExecList, purpleStatus, notifiers, messages, userActs>>

\* IM_PROTOCOL_ERROR_ALREADY_CONNECTED changes nothing in libpurple, nor does a
\* connection that is being made, for which a refused password changes nothing
\* either; the account is shown connecting in every case.
Connect(a) ==
  /\ UIMGoto(a, "connect", "idle")
  /\ passwordKnown[a]
  /\ connectionState' = [connectionState EXCEPT ![a] = "connecting"]
  /\ purpleState' = [purpleState EXCEPT
       ![a] = IF @ \in {"unregistered", "offline"} THEN "connecting" ELSE @]
  /\ UNCHANGED <<passwordKnown, userStatus, previousStatus, upsets>>

\* CPurpleProtocol::Connect returns IM_PROTOCOL_ERROR_FAILED when it cannot convert
\* the name, before the account is registered, or the password, afterwards.  The
\* caller asserts that it does not and leaves the account connecting.
ConnectFails(a) ==
  /\ UIMGoto(a, "connect", "idle")
  /\ passwordKnown[a]
  /\ purpleState[a] \in {"unregistered", "offline"}
  /\ connectionState' = [connectionState EXCEPT ![a] = "connecting"]
  /\ purpleState' \in {purpleState, [purpleState EXCEPT ![a] = "offline"]}
  /\ upsets' = [upsets EXCEPT ![a] = @ \cup {"failed"}]
  /\ UNCHANGED <<passwordKnown, userStatus, previousStatus>>

RequestPassword(a) ==
  /\ UIMGoto(a, "connect", "asking")
  /\ ~passwordKnown[a]
  /\ UNCHANGED <<passwordKnown, accountVars, purpleState, upsets>>

\* Whatever the connection of the account has become meanwhile.
DialogEnds(a) == upsets' = [upsets EXCEPT ![a] =
  @ \cup Upset("asked", connectionState[a] = "connected")]

PasswordEntered(a) ==
  /\ UIMGoto(a, "asking", "connect")
  /\ passwordKnown' = [passwordKnown EXCEPT ![a] = TRUE]
  /\ DialogEnds(a)
  /\ UNCHANGED <<accountVars, purpleState>>

PasswordCanceled(a) ==
  /\ UIMGoto(a, "asking", "idle")
  /\ Becomes(a, InternalSetStatus(a, "offline", "disconnected"))
  /\ DialogEnds(a)
  /\ UNCHANGED <<passwordKnown, purpleState>>

-----------------------------------------------------------------------------
(* The asynchronous thread and the main loop of libpurple.                  *)

RunAsyncOperation ==
  /\ asyncExecList # <<>>
  /\ LET op == Head(asyncExecList) IN
       \/ /\ op.method = "disconnect"
          /\ disconnectSources' = IF purpleState[op.account] = "unregistered"
               THEN disconnectSources ELSE Append(disconnectSources, op.account)
          /\ UNCHANGED purpleStatus
       \/ /\ op.method = "set_status"
          /\ purpleStatus' = StatusSet(op.account, op.status)
          /\ UNCHANGED disconnectSources
  /\ asyncExecList' = Tail(asyncExecList)
  /\ UNCHANGED <<uimVars, accountVars, purpleState, purpleError, notifiers, messages,
                 userActs, upsets>>

\* StartWorkerThread for a notification.
StartNotifier(e, a) ==
  /\ Len(notifiers) + Len(messages) < MaxPending
  /\ notifiers' = Append(notifiers, [event |-> e, account |-> a])

LoopLeaves ==
  UNCHANGED <<uimVars, accountVars, asyncExecList, purpleStatus, messages, userActs,
              upsets>>

\* ConnectionConnected
LoginSucceeds(a) ==
  /\ purpleState[a] = "connecting"
  /\ ~purpleError[a]
  /\ purpleState' = [purpleState EXCEPT ![a] = "online"]
  /\ StartNotifier("connected", a)
  /\ UNCHANGED <<disconnectSources, purpleError>>
  /\ LoopLeaves

\* purple_connection_error: ConnectionReportDisconnect now, the connection is
\* destroyed by a timeout.
ConnectionError(a) ==
  /\ purpleState[a] \in {"connecting", "online"}
  /\ ~purpleError[a]
  /\ purpleError' = [purpleError EXCEPT ![a] = TRUE]
  /\ StartNotifier("report_disconnect", a)
  /\ UNCHANGED <<disconnectSources, purpleState>>
  /\ LoopLeaves

\* Mutant: nobody is told that the connection has been destroyed.
DisconnectSilently(a) ==
  IF purpleState[a] \in {"connecting", "online"}
    THEN /\ purpleState' = [purpleState EXCEPT ![a] = "offline"]
         /\ purpleError' = [purpleError EXCEPT ![a] = FALSE]
         /\ UNCHANGED notifiers
    ELSE UNCHANGED <<purpleState, purpleError, notifiers>>

\* purple_account_disconnect, which calls ConnectionDisconnected and removes the
\* timeout of an error.
PurpleDisconnect(a) ==
  IF purpleState[a] \in {"connecting", "online"}
    THEN /\ purpleState' = [purpleState EXCEPT ![a] = "offline"]
         /\ purpleError' = [purpleError EXCEPT ![a] = FALSE]
         /\ StartNotifier("disconnected", a)
    ELSE UNCHANGED <<purpleState, purpleError, notifiers>>

DestroyFailedConnection(a) ==
  /\ purpleError[a]
  /\ PurpleDisconnect(a)
  /\ UNCHANGED disconnectSources
  /\ LoopLeaves

\* Mutant: the source is dispatched for nothing.
DispatchWithoutDisconnect ==
  /\ disconnectSources # <<>>
  /\ disconnectSources' = Tail(disconnectSources)
  /\ UNCHANGED <<purpleState, purpleError, notifiers>>
  /\ LoopLeaves

SerializedDisconnectMethod ==
  /\ disconnectSources # <<>>
  /\ PurpleDisconnect(Head(disconnectSources))
  /\ disconnectSources' = Tail(disconnectSources)
  /\ LoopLeaves

-----------------------------------------------------------------------------
(* The notifications: threads, in no order, and messages, in order.         *)

\* HandleVoidParamThread, HandleConnectionErrorThread, then HandleOnConnected,
\* HandleOnDisconnected or HandleOnReportDisconnect of the serializer.
PostNotification(i) ==
  /\ i \in DOMAIN notifiers
  /\ notifiers' = SubSeq(notifiers, 1, i - 1) \o SubSeq(notifiers, i + 1, Len(notifiers))
  /\ messages' = IF preFinalizeDone THEN messages ELSE Append(messages, notifiers[i])
  /\ upsets' = [upsets EXCEPT ![notifiers[i].account] = @ \cup
       Upset("overtaken", \E j \in 1 .. i - 1 : notifiers[j].account = notifiers[i].account)]
  /\ UNCHANGED <<uimVars, accountVars, purpleVars, asyncExecList, purpleStatus,
                 userActs>>

HandlerLeaves == UNCHANGED <<uimPc, gotAway, preFinalizeDone, purpleVars, notifiers,
                             userActs, upsets>>

\* Mutant: an account that is connected keeps its entry among the errors.
NotifyConnectedOnly(a) ==
  LET s == IF userStatus[a] \in {"away", "invisible", "busy"} THEN userStatus[a]
                                                              ELSE "online"
      r == InternalSetStatus(a, s, "connected")
  IN  /\ Becomes(a, r)
      /\ RequestQueued(a, r)
      /\ UNCHANGED <<passwordKnown, errorEntries>>

\* Any status but these three becomes online again.
NotifyConnected(a) ==
  LET s == IF userStatus[a] \in {"away", "invisible", "busy"} THEN userStatus[a]
                                                              ELSE "online"
      r == InternalSetStatus(a, s, "connected")
  IN  /\ Becomes(a, r)
      /\ RequestQueued(a, r)
      /\ errorEntries' = errorEntries \ {a}
      /\ UNCHANGED passwordKnown

\* Mutant: the state is left for the next notification to correct.
NotifyDisconnectedStatusOnly(a) ==
  /\ Becomes(a, InternalSetStatus(a, "offline", connectionState[a]))
  /\ UNCHANGED <<passwordKnown, errorEntries, asyncExecList, purpleStatus>>

NotifyDisconnected(a) ==
  /\ Becomes(a, InternalSetStatus(a, "offline", "disconnected"))
  /\ UNCHANGED <<passwordKnown, errorEntries, asyncExecList, purpleStatus>>

\* The password is forgotten if it is wrong, or not to be saved.
NotifyReportDisconnect(a) ==
  /\ Becomes(a, [connection |-> "disconnected", status |-> userStatus[a],
                 previous |-> userStatus[a]])
  /\ errorEntries' = errorEntries \cup {a}
  /\ \E known \in {passwordKnown[a], FALSE} :
       passwordKnown' = [passwordKnown EXCEPT ![a] = known]
  /\ UNCHANGED <<asyncExecList, purpleStatus>>

Handle(m) ==
  \/ m.event = "connected" /\ NotifyConnected(m.account)
  \/ m.event = "disconnected" /\ NotifyDisconnected(m.account)
  \/ m.event = "report_disconnect" /\ NotifyReportDisconnect(m.account)

\* OnWmsStr and OnWmsStrConnectionErrorStr.
DispatchMessage ==
  /\ UIMDispatches
  /\ messages # <<>>
  /\ messages' = Tail(messages)
  /\ IF preFinalizeDone
       THEN UNCHANGED <<passwordKnown, errorEntries, accountVars, asyncExecList,
                        purpleStatus>>
       ELSE Handle(Head(messages))
  /\ HandlerLeaves

-----------------------------------------------------------------------------
User(a) ==
  \/ \E s \in UserStatuses : SetUserStatusCommand(a, s)
  \/ ConnectCommand(a)
  \/ ReconnectCommand(a)
  \/ DisconnectCommand(a)
  \/ DisconnectAllCommand(a)
  \/ PasswordEntered(a)
  \/ PasswordCanceled(a)

UIMConnects(a) == Connect(a) \/ ConnectFails(a) \/ RequestPassword(a)

AccountNext ==
  \/ \E a \in Accounts :
       \/ User(a)
       \/ UIMConnects(a)
       \/ LoginSucceeds(a)
       \/ ConnectionError(a)
       \/ DestroyFailedConnection(a)
  \/ GoAway
  \/ ComeBack
  \/ PreFinalize
  \/ RunAsyncOperation
  \/ SerializedDisconnectMethod
  \/ \E i \in DOMAIN notifiers : PostNotification(i)
  \/ DispatchMessage

AccountSpec == AccountInit /\ [][AccountNext]_vars

\* Threads go on, the user interface handles what is posted to it, and libpurple
\* ends a login one way or the other.  The user may do nothing, an established
\* connection may last, and the dialog of the password may stay open.
AccountFairness ==
  /\ \A a \in Accounts :
       /\ WF_vars(UIMConnects(a))
       /\ WF_vars(LoginSucceeds(a) \/ (purpleState[a] = "connecting" /\ ConnectionError(a)))
       /\ WF_vars(DestroyFailedConnection(a))
  /\ WF_vars(RunAsyncOperation)
  /\ WF_vars(SerializedDisconnectMethod)
  /\ WF_vars(PostNotification(1))
  /\ WF_vars(DispatchMessage)

FairAccountSpec == AccountSpec /\ AccountFairness

-----------------------------------------------------------------------------
(* What holds between the two sides.                                        *)

Quiet(a) ==
  /\ uimPc[a] = "idle"
  /\ ~preFinalizeDone
  /\ ~purpleError[a]
  /\ ~Queued("disconnect", a) /\ ~Queued("set_status", a)
  /\ \A i \in DOMAIN disconnectSources : disconnectSources[i] # a
  /\ \A i \in DOMAIN notifiers : notifiers[i].account # a
  /\ \A i \in DOMAIN messages : messages[i].account # a

\* When nothing of an account is on its way it is shown connected exactly if
\* libpurple has a connection of it, and shown connecting only if libpurple is
\* making one.  There are three ways to lose this, and no fourth one: the threads of
\* CCallbackNotifier::StartWorkerThread post two notifications in the wrong order,
\* Connect goes on after its dialog on the strength of what it read before, or the
\* protocol cannot convert a name or a password, which Connect asserts away.
QuietAgreement ==
  \A a \in Accounts : Quiet(a) /\ upsets[a] \subseteq {"raced"} =>
    /\ connectionState[a] = "connected" <=> purpleState[a] = "online"
    /\ connectionState[a] = "connecting" => purpleState[a] = "connecting"

\* And libpurple has been told the status that is shown, unless besides a status
\* set at once (SetUserStatus) has passed one that NotifyConnected had queued
\* (SetUserStatusAsync), which then overrides it.
QuietStatusAgreement ==
  \A a \in Accounts :
    /\ Quiet(a) /\ upsets[a] = {}
    /\ connectionState[a] = "connected" /\ userStatus[a] # "offline"
    => purpleStatus[a] = ProtocolStatus(userStatus[a])

\* No account that is shown connected is listed among the connection errors, where
\* ReconnectAll would set its status back and make it connecting for ever.
ErrorsAreNotConnected == \A a \in errorEntries : connectionState[a] # "connected"

\* A disconnection that Disconnect queued takes the account offline, although the
\* connection may be lost, or asked for again, before the operation is run.
DisconnectTakesEffect ==
  \A a \in Accounts :
    Queued("disconnect", a) ~> purpleState[a] \in {"unregistered", "offline"}

\* No account is shown connecting for ever: a notification ends it, unless one was
\* posted in the wrong order, or came while Connect was asking for the password,
\* or is dropped because the application is closing; or there is none to come
\* because the protocol refused the connection.
ConnectingEnds ==
  \A a \in Accounts : connectionState[a] = "connecting" ~>
    connectionState[a] # "connecting" \/ upsets[a] \ {"raced"} # {} \/ preFinalizeDone

\* "Restore user status before becoming away automatically"
\* (AccountConnectionManager.cpp:807): coming back leaves alone the status of an
\* account that had not become away automatically.
ReturnRestores ==
  [][\A a \in Accounts :
       ComeBack /\ connectionState[a] = "connected" /\ userStatus[a] # "auto_away"
         => userStatus'[a] = userStatus[a]]_vars
=============================================================================
