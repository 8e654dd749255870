# UOL Messenger in TLA+

UOL Messenger (UIM) is a Windows instant-messaging client. It speaks MSN, ICQ,
AIM, XMPP and Yahoo! through libpurple, which it wraps in a library of its own
(`src/src/public/protocols`), below a set of managers and a user interface
(`src/src/public/uim`). libpurple is not thread safe, the managers are called by
several threads, and everything libpurple has to say reaches the user interface
late: that is where the program is hard, and what these modules are about.

Paths below are relative to `src/src/public`; line numbers are in `PROJECT.json`
("map"), which ties every definition to the code it models.

## 1. The system

### Threads

| thread | started by | what it does |
|---|---|---|
| user interface (UIM) | the process | windows, commands, all the managers; calls protocol methods directly |
| main loop | `CPurpleService::Init` | GLib main loop: sockets and timers of libpurple, and everything scheduled for it |
| asynchronous operations | `CPurpleService::Init` | runs the protocol methods that were queued (`DisconnectAsync`, `SetUserStatusAsync`, ...) |
| workers | `CPurpleService::StartWorkerThread` | one per notification (`CCallbackNotifier`), and one per question to the user (authorization, password, file) |
| downloads | `CDownloadScheduler` | fetches URLs into the disk cache, one by one |
| authentication (2) | `CAuthenticationManager` | authenticates the UOL account on the web, again every so often |
| internet monitor, jobs | `CInternetConnectionMonitorThread`, `CJobThread` | polls the connection; runs one-off jobs |

### Components

| component | state | operations | talks to | what makes it correct |
|---|---|---|---|---|
| access to libpurple (`protocols/purpleprotocol.cpp`) | a mutex, two manual-reset events, timeouts in the main loop | Wait/ReleaseLibPurpleThreadAccess, LibPurpleHolderMethod | every protocol method, from the UIM and the asynchronous thread | one thread in libpurple; the main loop parked exactly while somebody borrows it; every borrower gets in |
| purple service (`purpleservice.cpp`, `PurpleProtocolAsyncExec.cpp`, `callbacknotifier.cpp`) | flags, the vector of threads, the list of operations, the main loop | Init, Run, StartWorkerThread, asynchronous operations, Finalize | creates all the threads above but the last two rows | protocols are deleted when nobody uses them; Finalize ends |
| protocols (`purple*protocol.cpp`) | accounts of libpurple | Connect, Disconnect, SetUserStatus, contacts, messages, files, icons, privacy | libpurple below, the managers above | each method is one step of libpurple |
| notification path (`callbacknotifier`, `CallbackSelector`, `WMCallbackSerializer`, `ProtocolCallbackController`) | threads, a message queue, maps of callbacks | post and dispatch a notification | libpurple to the managers | what the managers believe agrees with libpurple once everything is delivered |
| account connection manager (`uim/controller/AccountConnection`) | per account a connection state, a status, the previous status | Connect, Disconnect, SetStatus, auto-away, ReconnectAll, three notifications | protocols, commands, views | agreement with libpurple; no account connects for ever |
| disk cache (`uim/controller/diskcache`, `HttpDownloader.cpp`) | queue of downloads, observers, entries, an index file, files | FetchUrl, the download thread, Finalize | the file transfer filter and the views | entries have their files, nothing is left behind, fetches are answered |
| authentication (`AuthenticationManager.cpp`) | two thread handles, an event, user, password, cookie, result | DoAuthentication, the two threads, StopReAuthentication | the dialog of the wizard, the application's tasks, accounts, the photo blog | one authentication at a time; a dialog ends, with the answer to its own password; no cookie of another user |
| file transfers (`uim/controller/FileTransfer`, `purpleprotocol.cpp`, libpurple's `ft.c`) | transfers of libpurple with a status and references, the map of the protocol, the list of the manager | send, offer, accept, refuse, cancel, progress and end | protocols, worker threads, conversation | what is over stays over and is shown as what it is; nothing destroyed is used; the user can cancel what runs |
| contact list and privacy (`RemoteContactList`, `ContactList`, `PrivacyManager`) | a copy of the contacts of libpurple | add, remove, move, block; notifications | protocols | copy and original agree |
| conversations (`ConversationManager`, `MessageQueueController`) | windows, queued messages per contact | message in, window opened, chat | contact list, windows | no message lost or shown twice |
| accounts, profiles, settings | lists and XML files | edit, save | all managers | saved state is what was edited |
| job threads (`src/src/util/JobThread.cpp`) | a list of jobs, a running flag | AddNewJob, Stop | application | a job is run, a thread can be recycled |
| internet monitor | a flag, callbacks | poll, register | plugins | callbacks are called while registered |
| application (`UIMApplication.cpp`) | a list of tasks | Init in order, PreFinalize and Finalize in reverse | all managers | nobody is used after it is finalized |
| history, icons, emoticons, themes, plugins, views | files, images, DLLs, windows | | | little control of their own |

libpurple, cryptopp, zlib, libpng, WTL, the XMPP library, libuolfone, the Windows
SDK headers, the installer and the plugins are vendored or separate programs and
are not part of the project.

### What is hard

* libpurple belongs to one thread; two others borrow it with events and timeouts
  that are easy to get wrong, and workers do not borrow it at all.
* The service ends while the other threads are calling, waiting or being created.
* Every notification is carried by a thread of its own, so that two of them may
  arrive in the other order; the user acts while they are on their way.
* The same method exists in a direct and a queued form, and one passes the other.
* `Connect` runs a dialog, with a message loop, in its middle.
* The disk cache is written by two threads and must survive the crash of both.
* The authentication manager locks nothing: a thread is known by a handle that its
  creator stores after creating it and that it zeroes itself, perhaps before.
* A file transfer is held by libpurple, a map, posted messages, a window and worker
  threads; a message carries the transfer and not the status it reports.

`PROJECT.json` lists each of these at its line ("hazards"), with the properties
that cover it or the reason why none does yet.

## 2. The modules

| module | what it is |
|---|---|
| `LibPurpleOwner` | abstract: libpurple has one owner, and changes hands through being free |
| `LibPurpleAccess` | the handshake; implements `LibPurpleOwner` |
| `PurpleService` | EXTENDS `LibPurpleAccess`: the threads of the service and its finalization; implements `LibPurpleAccess` |
| `AccountConnection` | the account connection manager, the notification path, libpurple's account |
| `DiskCache` | the disk cache and its download thread |
| `Authentication` | the authentication manager and its two threads, the login dialog, the tasks of the application |
| `FileTransfer` | transfers of files, from libpurple to the manager's list |
| `LibPurpleAccess_proofs`, `DiskCache_proofs`, `Authentication_proofs`, `AccountConnection_proofs` | theorems about these modules |
| `PurpleService_proofs` | theorems; EXTENDS `LibPurpleAccess_proofs`, whose invariant it uses |
| `FileTransfer_proofs`, `FileTransferRefs_proofs`, `FileTransferEnds_proofs` | theorems: a first invariant; references; ends. Each EXTENDS the one before |
| `MCLibPurpleAccess`, `MCPurpleService`, `MCAccountConnection`, `MCDiskCache`, `MCAuthentication`, `MCFileTransfer` | instances for TLC |

In every module a definition whose comment begins with "Mutant" is a bug that the
code could plausibly have. None is part of a specification: each is there to be
put in the place of the definition that follows it, to see that the properties
notice.

### LibPurpleAccess

`WaitLibPurpleThreadAccess` is five actions, `Admit` (the protocol method is
called), `LockSerializeMutex`, `ResetHoldEvent`, `AddHolderTimeout` and
`WaitHoldEvent`; `ReleaseLibPurpleThreadAccess` two, `SetReleaseEvent` and
`UnlockSerializeMutex`. The main loop polls, dispatches any source of libpurple
(`DispatchOther`, `ReturnFromDispatch`), or dispatches `LibPurpleHolderMethod`:
`DispatchHolder` (reset the release event), `SetHoldEvent`, `WaitReleaseEvent`.
Statements that touch one shared object are one step each, so that every
interleaving of the real calls is one of the model. The thread-id test of the
code is the constant `Serialized`: threads not in it are `Workers`, who enter
without the handshake (`WorkerEnter`), as the code lets them.

The owner of libpurple, the state of `LibPurpleOwner`, is the main loop while it
dispatches, else the thread that is inside, else nobody.

### PurpleService

The four threads that matter meet here: `Finalize` of the UIM thread, step by
step from setting the flag to deleting the protocols; the asynchronous thread with
its list, its test of `FinalizeInProgress` and its termination; the workers;
the main loop with `UIMConnectionsFinalizerMethod`. `StartWorkerThread` is three
steps (`TestFinalizeInProgress`, `CreateThread`, `PushThread`), for the code takes
the mutex only around the first and the last. `PushThread` during the join loop
may move the vector under its iterator: the behaviour is undefined, and the model
continues with either a valid or a dangling iterator.

### AccountConnection

Per account: what `CAccountConnection` holds (state, status, previous status), what
libpurple holds (state, error timeout, status), the queue of asynchronous
operations, the disconnect timeouts of the main loop, the notifier threads and the
message queue. `InternalSetStatus` is an operator that returns what becomes of the
account and what it requests of the protocol; the commands, the timer, the
notifications and the end of the password dialog all use it. While the dialog is
open messages are dispatched, and while `Connect` runs they are not. A method of
the protocol is one action, which `LibPurpleAccess` justifies.

`CPurpleProtocol::Connect` may also refuse (`ConnectFails`): it returns
`IM_PROTOCOL_ERROR_FAILED` when the name or the password cannot be converted to UTF-8.
The manager asserts that it does not (`AccountConnectionManager.cpp:368`) and leaves the
account connecting, with nothing under way that would end it. It takes a string that
cannot be converted or no memory, so it is nearly unreachable; the model has it because
nothing in the code handles it. A refusal while libpurple is connecting is the same step
as `Connect`.

`upsets` is a history variable: it records which of three races (`overtaken`, `asked`,
`raced`) have happened to an account, and whether the protocol has refused to connect it
(`failed`), so that the properties can say that nothing else breaks the agreement.

### DiskCache

The UIM thread (`Init`, `FetchUrl` and `SetObserver`, then the steps of `Finalize`)
and the download thread (`WaitQueueNotEmpty`, `TestStopFlag`, `DequeueDownload`,
`ExecuteDownload`, `NotifyAll`, `OnDownloadComplete`, `RemoveObserver`). Files and
the index survive `Crash`, which may come anywhere; `Init` starts the next process
on what is there. `answered`, `missed` and `takenAfterStop` are history variables.

### Authentication

Three kinds of threads. That of the user interface goes through the first page of
the wizard (`OnBtnNext`, the dialog, `DoValidationReturns`), the tasks that start the
application (`UpdateAccountsAuthenticationData`, `AuthenticationTask`), the photo
blog and the end (`StopReAuthentication`, `Destroy`). A controller is
`MyAuthenticationThreadFunction`, one action per access to a shared variable:
`StoreAuthHandle` comes after the thread was created, and the thread may have zeroed
the handle already. An authentication thread runs `CallAuthentication`
(`ReadCredentials`, `ServerAnswers`, `SetResult`) and `NotifyAll`
(`TakeObserver`, `UnRegisterObservers`, `EndDialog`), which ends whatever dialog
is open then. `applicationAnswered` and `startsAfterStop` are history variables, and
so are `dialog.quiet` (no handle was set when the login began, and no authentication
thread has failed to be created since) and `dialog.answered`.

Simplified: the credentials are read in one step (they are written in two); profiles
have authentication enabled; the texts of the dialog and `m_bSilent`, which chooses
them, are left out. The half-second waits of the destructor may run out; what a
thread does that outlives the manager is undefined and not described.

### FileTransfer

Three parts. libpurple's main loop (`OfferFile`, `ClientAnswers`, `StartTransfer`,
`TransferBytes`, `CompleteTransfer`, `EndLocally`, `EndRemotely`) keeps `status` and `refs` of each
`PurpleXfer`; the functions of `ft.c` (`Unref`, `CancelLocal`, `CancelRemote`) are
operators, and report to `CPurpleProtocol`, which keeps the map and posts. The thread
of the user interface handles the posted messages (`Notify...`, in order) and the
user's acts (`SendFile`, `AcceptFileAsync`, `RejectFileAsync`, `CloseConversation`,
`CancelFileTransfer`). Worker threads put an offer to the user
(`RequestActionThread`), ask for the path (`PathChosen`, `PathRefused`) and cancel
after "File Send Failed" (`PickTransfer`, `CancelPicked`).

A path has three outcomes (`ChooseFileOk`). It is accepted; or it is a directory, and
the transfer is denied, its status as it was (`DenyPath`); or its directory cannot be
written to (`RefuseDirectory`), and the question waits in a notification, with a
reference, until that is closed (`NotificationClosed`). The program closes a notification
only after it has shown the profile of some user, and then the oldest of them all.

Before a file is sent its contact's client is asked what it takes (`AskClient`,
`disco_callbacks`), and `ClientAnswers` is the callback, which a cancel does not
withdraw. A client that takes no files is reported as "File Send Failed" even after the
cancel.

References are counted as the code counts them: a posted notification takes two and
gives one back, so one is left over for each (`PostedRefs`); a completed transfer
therefore stays in the map, which is how it can be cancelled later (the finding
`transfer_done`).

Simplified: Jabber only; the account stays connected; one call to libpurple is one
step although workers make it without the handshake (see `handshake_workers`); a
transfer destroyed between `PickTransfer` and `CancelPicked` is left alone, one of
the outcomes of using it (the code uses memory that was freed, and what
`CancelFileTransfers` has picked is therefore not among the pointers of
`NothingDangles`); a client that does take files and says so after the cancel makes
`jabber_si_xfer_send_request` use the data the transfer has lost, which ends the process
and is no step. Left out: finalization with transfers under way, during
which `FileTransferCanceled` returns early and `CancelFileTransfers` would not end;
the texts in the conversation and the temporary transfers that carry them; the
filter of extensions; a file that does not exist; a path that cannot be converted, for
which no callback of libpurple runs; contacts with several resources.
A transfer that libpurple cancels locally is not reported at all
(`EndIsShown` does not ask for it).

## 3. What is checked

| run | instance | properties | what it shows |
|---|---|---|---|
| `handshake` | 2 borrowers, 2 workers | `AccessTypeOK`, `ExclusiveAccess`, `ParkedForSomebody`, `HoldEventIsFresh`, `WaiterHasHolder`, `WaitersGetIn`, `LoopResumes`, `ImplementsLibPurpleOwner` | the handshake works, for the two threads the program has |
| `handshake_timeout` | same | `NoTimeoutAddOnceFinalizing` violated | see the findings |
| `handshake_workers` | same | `OneThreadInLibPurple` violated | see the findings |
| `service` | 2 borrowers, a notifier, a requester, 2 queued operations | `ServiceTypeOK`, `JoinedBeforeDeleted`, `ExecOutlivesFinish`, `JoinLoopUndisturbed`, `ImplementsLibPurpleAccess`, `FinalizeEnds` | protocols are deleted last, and finalization hangs for three named reasons only |
| `account` | 1 account, 3 acts of the user, 3 pending notifications | `AccountTypeOK`, `QuietAgreement`, `QuietStatusAgreement`, `ErrorsAreNotConnected` | both sides agree when nothing is on its way, but for three named races and a refused connection |
| `account_live` | 1 account, 2 acts | `DisconnectTakesEffect`, `ConnectingEnds` | a queued disconnection happens; nobody connects for ever, but for the same exceptions without `raced` |
| `account_return` | as `account` | `ReturnRestores` violated | see the findings |
| `diskcache` | 2 URLs, 2 file names, 3 fetches | `CacheTypeOK`, `TakesScheduled`, `EntriesHaveFiles`, `NoOrphans`, `FetchesAreAnswered`, `FinalizeEnds` | queue, event and flag agree; files and entries agree over crashes |
| `auth` | 2 users, 2 passwords, 2 controllers, 2 authentication threads, 2 logins | `AuthTypeOK`, `OneThreadOfEach`, `OwnAnswer`, `CookieOfCurrentUser`, `AtMostOneAfterStop`, `QuietLoginsEnd` | never two authentications at once, although nothing is locked; a login that starts with no thread alive ends, even if the server is silent, and with the answer to its own password, unless the authentication thread cannot be created |
| `auth_user` | as `auth` | `CurrentUserIsAuthenticated` violated | see the findings |
| `transfer` | 1 transfer to send, 1 to receive, 2 contacts | `TransferTypeOK`, `NothingDangles`, `QuietEndsAgree`, `RunningIsMapped`, `ShownEndIsKept`, `RemoteCancelIsKept`, `CancelEnds`, `EndIsShown` | nothing destroyed is pointed to; what the user sees as over is over, and is what libpurple has; the loop that cancels ends |
| `transfer_done` | as `transfer` | `DeletedIsIncomplete` violated | see the findings |

### Bounds

* Two borrowers are all the program has. Two workers can be in libpurple at once.
* The service has one worker that notifies and one that asks: the first may be
  created during the join loop, the second may be in libpurple then. Two
  operations let one be queued behind another.
* Accounts do not share state in the manager except for the queues and the
  auto-away flag, so one account shows its races; three acts are enough to
  disconnect, connect again and change the status; three pending notifications
  to have a report, a disconnection and a new connection cross.
  `WithoutInvisible` contains the account, so that the status that turns into a
  disconnection is offered.
* Three fetches over two URLs: two of one URL at once, and one of the other, or
  one in each of two runs of the application. With two names a third file needs
  a name to be free again.

* Two logins let the second begin while the thread of the first is alive, and two
  users give each a password that is wrong for the other. A second controller or
  authentication thread may be created at any time; `OneThreadOfEach` says that it
  never lives next to the first. The page can be left after any login.
* A transfer to send fails for one contact and cancels a transfer received from
  another: one of each is what `CancelFileTransfers` and the finding need. Reports of
  progress are posted as long as a transfer has fewer than five references
  (`MaxRefs`), so that two can be queued with an end behind them. With one transfer to
  send a question to a client never takes the place of another one's (`AskClient`); the
  theorems hold for any number of transfers.

`CHECK_DEADLOCK FALSE` is said of the service, the account, the authentication and
the transfers, where the program may stop (finalized; the user does nothing more).
The disk cache can always start or crash.

### Fairness

Weak fairness of a thread's next step says that the operating system runs every
thread. Strong fairness is used for sources of the main loop (`DispatchHolder`,
`DispatchFinalizer`, `ServiceThreadReturns`): GLib dispatches every ready source
of an iteration, so one is not passed over for ever though the loop is also busy
with others. The mutex of the handshake is not assumed fair, and `WaitersGetIn`
speaks of a thread that has passed it. Nothing is assumed of the user, nor that an
established connection is lost. libpurple ends a login with success or an error
(it has its own timeouts); a download ends because `CHttpDownloader` sets timeouts
on the connection. Of the notifier threads only the oldest is assumed to go on,
which makes each of them the oldest in turn. The threads of the authentication
manager and `DoAuthentication` go on; the server need not answer, and the wait of
five seconds ends by itself. Of the transfers the message loop, the workers that put
offers to the user and those that cancel go on; the network and the user promise
nothing.

### Findings

* `handshake_timeout`: Finalize's comment says `purple_timeout_add` is not used once
  the flag is set. The asynchronous thread may have passed its test of the flag; it
  then adds a timeout that is refused, waits for ever with the mutex held, and
  Finalize waits for it. `FinalizeEnds` names this as one of its exceptions.
* `handshake_workers`: the comment above the static events promises one protocol
  instance at a time in libpurple. The worker that carries an answer to an
  authorization request is there without the handshake.
* `account_return`: coming back from auto-away restores the previous status of
  every connected account, also of one that connected meanwhile, which is then
  shown offline while it is online.
* `auth_user`: a comment calls `IsAuthenticated` the test that the current user is
  authenticated. It tells that the last answer of the server was an acceptance. A
  login cancelled while its thread is at the server, followed by one of another user:
  the answer to the first ends the dialog of the second, and that password, which the
  server was not asked about, is stored and passed to the account.
* `transfer_done`: "delete incomplete file" also deletes a complete one. A completed
  transfer stays in the map, and a later file that cannot be sent, to anybody, cancels
  every transfer of the map, since `GetPurpleXfer` returns the last one when no
  transfer is the contact's.

## 4. What is proved

By TLAPS, for every value of the constants that meets the assumptions of the module
(`ThreadsAssumption`, `ServiceAssumption`, `CacheAssumption`, `AuthenticationAssumption`,
`AccountAssumption`, `FileTransferAssumption`), of the specifications without fairness.
The assumptions say that the kinds of threads are different from one another, that the
bounds are numbers and the initial values of the right type, and no more. These are all
the properties of the passing runs but the ten that need fairness, and for three of those
the safety they rest on:

| theorem | property |
|---|---|
| `LibPurpleAccess_proofs!TypeCorrect` | `AccessTypeOK` |
| `Exclusive` | `ExclusiveAccess` |
| `NeverParkedForNobody` | `ParkedForSomebody` |
| `FreshHoldEvent` | `HoldEventIsFresh` |
| `HolderOnItsWay` | `WaiterHasHolder` |
| `Refinement` | `ImplementsLibPurpleOwner` |
| `DiskCache_proofs!CacheTypeCorrect` | `CacheTypeOK` |
| `TakesWhatIsScheduled` | `TakesScheduled` |
| `EntriesKeepFiles` | `EntriesHaveFiles` |
| `NoOrphansLeft` | `NoOrphans` |
| `WaitingThreadIsWoken` | none: `NoWakeupIsLost`, for `FetchesAreAnswered` and `FinalizeEnds` |
| `RegisteredFetchesAreServed` | none: `ObserversAreServed`, for `FetchesAreAnswered` |
| `PurpleService_proofs!ServiceTypeCorrect` | `ServiceTypeOK` |
| `AllJoinedBeforeDeleted` | `JoinedBeforeDeleted` |
| `ExecutorOutlivesFinish` | `ExecOutlivesFinish` |
| `JoinLoopDisturbedByRequesters` | `JoinLoopUndisturbed` |
| `ServiceImplementsAccess` | `ImplementsLibPurpleAccess` |
| `Authentication_proofs!AuthTypeCorrect` | `AuthTypeOK` |
| `OneThreadOfEachAlways` | `OneThreadOfEach` |
| `QuietLoginGetsItsOwnAnswer` | `OwnAnswer` |
| `CookieBelongsToCurrentUser` | `CookieOfCurrentUser` |
| `StopReAuthenticationStops` | `AtMostOneAfterStop` |
| `AccountConnection_proofs!AccountTypeCorrect` | `AccountTypeOK` |
| `ConnectedAccountsHaveNoError` | `ErrorsAreNotConnected` |
| `QuietAccountsAgree` | `QuietAgreement` |
| `QuietStatusesAgree` | `QuietStatusAgreement` |
| `ConnectingAccountsAreUnderWay` | none: `ConnectingIsUnderWay`, for `ConnectingEnds` |
| `FileTransfer_proofs!MappedWhileRunning` | `RunningIsMapped` |
| `RemoteCancelKept` | `RemoteCancelIsKept` |
| `ShownEndKept` | `ShownEndIsKept` |
| `FileTransferRefs_proofs!TransferTypeCorrect` | `TransferTypeOK` |
| `NothingPointedToIsDestroyed` | `NothingDangles` |
| `FileTransferEnds_proofs!EndsAgreeWhenQuiet` | `QuietEndsAgree` |

**The handshake**, for any number of borrowers. `ExclusiveAccess` is not inductive:
that the thread inside is alone follows from the mutex, but that the main loop is
parked for it depends on where its timeout is. `HandshakeInv` follows a request on
its way: `MutexInv` (one owner), `SourceInv` (a timeout in the main loop belongs to
the owner of the mutex, which waits, with the hold event reset), `HolderInv` and
`ParkedInv` (the holder, running and parked, serves that same thread), `HoldInv` (a
set hold event means that the loop is parked for whoever sees it) and `FinalizeInv`.
Every action hands the request from one of these to the next. The refinement then
only needs that a thread enters when nobody owns libpurple.

**The service**, for any workers, any of which may be requesters, and any set of
operations. `ServiceInv` goes with `HandshakeInv`, which `ServiceImplementsAccess`
carries over: a step of the service is one of the handshake or none.
`JoinedBeforeDeleted` says that the join loop has missed nobody, and fails to be
inductive in several places, one conjunct each.

* `PushedInv`: every worker that was created is in the vector or about to be pushed.
* `StarterInv`: who starts a thread is inside libpurple, so that a thread that has ended
  starts nobody. `StoppedInv`: once the finalizer has been through the main loop, only
  workers start threads.
* `JoinInv`: what the loop has passed has ended. When it passes the end of the vector the
  workers still to be pushed, if any, would have to be started by one another.
  `CreationInv` says that no set of workers is: the first of them was created by
  somebody else. The run has one requester, which no worker starts; the theorem has requesters that start requesters, and needs it.
* `UimInv`, `AsyncInv` and `WorkerInv` tie the program counters, the flags and the list
  of operations together.

**The authentication**, for any users, passwords, controllers and authentication threads.
Nothing is locked, so `HandlesInv` has to say what a handle that is not set means: its
thread has ended, or its creator, of whom there is only one, is about to store it. That
alone gives `OneThreadOfEach`; it is what the other parts rest on, since it makes the
thread that answers the one that was started last. `RequestInv` follows the credentials
from the page to the manager, `CallInv` the thread that asks with them. `AnswerInv` is
for a login that starts with no handle set: what the one thread asks, and the answer on
its way, are of the user and the password of the dialog. `CookieInv` is for the request
of the application: from the moment its credentials have been read, every request on its
way to the server is the current user's. `StopInv` says that a controller which has
started an authentication after `StopReAuthentication` is past the point where it starts
another one. `AuthenticationAssumption` asks for one authentication thread at least, and the
code creates one.

**The accounts**, for any accounts, acts of the user and notifications on their way. The
agreement of the two sides is a statement about moments at which nothing is on its way,
and an invariant has to speak of the others. `NewsInv` does (`Told`): the last
notification of an account, be it a thread or a message, or when there is none the
connection shown, tells what libpurple did last, unless a disconnection is still to be run.
The lemmas on queues say what is last in one after a notification has been added, taken,
or posted out of the middle; a notification posted past an older one is the race
`overtaken`, and `InOrder` is lost with it, as it is with a refused connection (`failed`),
of which nothing will ever be told. Three observations close the induction:

* `Connect` tells libpurple nothing if it is connected, and shows the account connecting
  for ever then; `ConnectInv` says that it goes on for an account that is not shown
  connected. A dialog may end too late for that (`asked`); of `ReconnectAll` it is the
  property `ErrorsAreNotConnected`.
* An operation `disconnect` is dropped if the account has never been connected
  (`purpleState` is `unregistered`), and `SerializedDisconnectMethod` does nothing for one
  that is offline: neither is a disconnection that was still to come (`ToldStays`).
* `StatusInv`: the status shown is the last one queued, or the one libpurple has and
  nothing is queued. `SetUserStatus` at once breaks it exactly when it passes a queued
  status (`raced`). When libpurple refuses it because it is not connected while the
  account is shown connected, `LostIsTold`: a notification on its way will say so.

`ConnectingIsUnderWay` follows from `Told`: a connection shown connecting, in the order of
`InOrder`, is never one that libpurple and the queues have nothing of.

**The disk cache**, for any sets of URLs and names and any number of fetches.
`QueueInv` relates event, flag and queue: before StopAll the event implies that
there is something to take, and a thread that passed its test of the flag may rely
on it. `FetchInv` says that what is in hand belongs to a fetch. `FilesInv` is the
heart: every download, queued or in hand, has a file to itself which no entry names,
so that deleting the file of a failed download takes nothing away from an entry, and
nothing runs while the orphans are cleared. The invariants were first checked by TLC
on the instance of the run. With them goes `WakeInv`, from which no wakeup is lost
(`NoWakeupIsLost`): `EnqueueDownload` sets the event only for the first download of an
empty queue, and the thread clears it only when it leaves the queue empty. The one
exception is a thread that has tested the flag before `StopAll` sets it and takes the last
download afterwards, which is the exception of `FinalizeEnds`. `ObserversAreServed`
follows each fetch from the queue into the hand of the thread (`PendingInv`, also checked
by TLC): when `RemoveObserver` takes away an observer registered since the answer,
`OnDownloadComplete` has answered or missed the fetch in hand, and the other observer's
download is still to come.

**The transfers**, for any transfers of any contacts and any bound on references:
all the safety properties of the run, over three invariants, each of which uses the
one before.

* `TransferInv`. That a running transfer is in the map depends on its references:
  `RefInv` counts one for libpurple, one for the offer while it is posted or shown,
  and one for each report in the queue, so that none of those who give one up gives
  up the last (`MappedInv`). A denied transfer is not counted any more: it keeps its
  status and has lost those references. The proof follows the cardinality of the set
  of queued reports through every post and every receipt. `RemoteInv` says that a remote cancel
  leaves the map, `PickedIsMapped` that `GetPurpleXfer` returns what is in it.
  `QueueInv` (an offer and a first report are posted once) and `OfferInv` (before its
  offer is answered a transfer is not shown and can only be cancelled remotely) are
  what `ShownEndKept` rests on: the first report cannot come behind an end.
* `CountInv` counts what is held of a transfer that has ended, too (`Held`). It is
  what one expects but for `Owed`: a transfer that libpurple has cancelled can be
  cancelled once more by the user, who has not been shown it, and gives a reference
  up for it. That is paid for by the reference which `Clone` leaves behind for the
  first report: were `Clone` corrected, `NothingDangles` would be lost.
* `EndsInv` says that a disagreement between what is shown and what libpurple knows
  has a report on its way that repairs it (`Agrees`), and for that, that the first
  report is ahead of the others (`FirstInLine`) and that nothing is reported of a
  transfer that is still to be accepted (`Silent`).

`TransferInv`, `CountInv`, `ServiceInv`, `AuthInv` and `AccountInv` were first checked by
TLC, on the instances of the runs and some on larger ones: `CountInv` with two transfers
to send and `MaxRefs = 3` (9.9 million states), `ServiceInv` with three requesters,
`AccountInv` with two accounts.

Not proved, and model-checked only: the liveness properties (`WaitersGetIn`,
`LoopResumes`, both `FinalizeEnds`, `DisconnectTakesEffect`, `ConnectingEnds`,
`FetchesAreAnswered`, `QuietLoginsEnd`, `CancelEnds`, `EndIsShown`), which need fairness,
out of reach of the provers.

## 5. What is not modelled

* The rest of the protocol methods: each is one step of libpurple between Wait and
  Release, and matters with the manager that calls it.
* Several instances of the program, and the restart of the service: `Run` clears the
  flags once, at its start.
* In the account manager: accounts that are created, changed or removed, proxies,
  and the forwarding of the notifications to observers.
* In the disk cache: the synchronous `FetchUrl` and `Clear`, which nobody calls;
  the contents of files; the data race on the map of observers, whose operations
  are taken as one step each.
* Everything marked `not_modelled` in `PROJECT.json`, with its reason.

## 6. Plan

1. Theorems. What `QuietLoginsEnd` rests on, as far as it is safety: that a login whose
   dialog is open has a thread that will answer it.
2. `AccountConnection`: a property of the previous status, and accounts that are added
   and removed with notifications on their way. `DiskCache`: what the files contain.
3. `ContactMirror`: contacts of libpurple and their copy, additions and removals
   of both sides crossing; privacy lists with it.
4. `Conversation`: messages queued per contact until a window takes them.
5. `JobThread`, the internet monitor and the order of finalization of the managers,
   small modules.
