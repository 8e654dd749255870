---------------------------- MODULE PurpleService ----------------------------
(***************************************************************************)
(* CPurpleService (purpleservice.cpp) and CPurpleProtocolAsyncExec: the    *)
(* thread of the GLib main loop, the asynchronous thread that runs queued  *)
(* protocol methods, the worker threads that carry notifications to the    *)
(* user interface, and the finalization that must end them all before the  *)
(* protocols are deleted.  Whoever touches libpurple goes through          *)
(* LibPurpleAccess, whose actions are the conjuncts named here.            *)
(***************************************************************************)
EXTENDS LibPurpleAccess, Sequences, FiniteSets

CONSTANTS
  AsyncThread,     \* the thread that runs StartAsyncOperationsThread
  Requesters,      \* the workers that take a request of libpurple to the user
  Operations,      \* protocol methods that may be queued
  MaxQueued        \* bound: length of m_asyncExecList

ASSUME ServiceAssumption ==
  /\ Serialized = {UIMThread, AsyncThread}
  /\ UIMThread # AsyncThread
  /\ Requesters \subseteq Workers
  /\ MaxQueued \in Nat

VARIABLES
  uimPc,              \* where the thread of the user interface is
  asyncPc,            \* where the asynchronous thread is
  workerPc,           \* where each worker is
  tested,             \* threads between the test and g_thread_create of StartWorkerThread
  unpushed,           \* <<creator, worker>>: created, not yet in m_vectorThreads
  vectorThreads,      \* m_vectorThreads
  joined,             \* how many of them the join loop of Finalize has passed, or Dangling
  asyncExecList,      \* m_asyncExecList
  execExists,         \* m_pAsyncOperationsExec is not NULL
  isTerminating,      \* CPurpleProtocolAsyncExec::m_bIsTerminating
  finalizerSource,    \* UIMConnectionsFinalizerMethod: "none", "pending", "running", "done"
  mainLoopQuit,       \* g_main_loop_quit has been called
  serviceExited       \* PurpleServiceThread has returned

serviceVars == <<uimPc, asyncPc, workerPc, tested, unpushed, vectorThreads, joined,
                 asyncExecList, execExists, isTerminating, finalizerSource,
                 mainLoopQuit, serviceExited>>
vars == <<accessVars, serviceVars>>

\* The iterator of the join loop after push_back has moved the vector.
Dangling == -1

Creators == Serialized \cup Workers \cup {Loop}

\* The types of what the threads of CPurpleService share; the join loop never counts
\* past the end of the vector.
ServiceTypeOK ==
  /\ AccessTypeOK
  /\ uimPc \in {"running", "flagged", "finalizer", "finish", "finishing", "joining",
                "quitting", "joinService", "deleting", "done", "crashed"}
  /\ asyncPc \in {"created", "get", "got", "running", "test", "drain", "leave", "exited"}
  /\ workerPc \in [Workers -> {"none", "started", "asking", "answering", "exited"}]
  /\ tested \in SUBSET Creators
  /\ unpushed \in SUBSET (Creators \X Workers)
  /\ vectorThreads \in Seq(Workers \cup {AsyncThread})
  /\ joined \in Dangling .. Len(vectorThreads)
  /\ asyncExecList \in Seq(Operations)
  /\ execExists \in BOOLEAN
  /\ isTerminating \in BOOLEAN
  /\ finalizerSource \in {"none", "pending", "running", "done"}
  /\ mainLoopQuit \in BOOLEAN
  /\ serviceExited \in BOOLEAN

\* CPurpleService::Init has created the thread of the service and, as its
\* first worker, the asynchronous one.
ServiceInit ==
  /\ AccessInit
  /\ uimPc = "running"
  /\ asyncPc = "created"
  /\ workerPc = [w \in Workers |-> "none"]
  /\ tested = {}
  /\ unpushed = {}
  /\ vectorThreads = <<AsyncThread>>
  /\ joined = 0
  /\ asyncExecList = <<>>
  /\ execExists = FALSE
  /\ isTerminating = FALSE
  /\ finalizerSource = "none"
  /\ mainLoopQuit = FALSE
  /\ serviceExited = FALSE

workerVars == <<workerPc, tested, unpushed, vectorThreads>>
asyncVars == <<asyncPc, asyncExecList, execExists, isTerminating>>
uimVars == <<uimPc, joined>>
loopVars == <<finalizerSource, mainLoopQuit, serviceExited>>

-----------------------------------------------------------------------------
(* StartWorkerThread, called from libpurple's callbacks by whoever runs     *)
(* libpurple code: it reads FinalizeInProgress, creates the thread, and     *)
(* only then takes the mutex to store it.                                   *)

InLibPurple(c) ==
  \/ c = Loop /\ loopPc = "dispatch"
  \/ c \in Serialized /\ pc[c] = "inside"
  \/ c \in workersIn

Starting(c) == c \in tested \/ \E w \in Workers : <<c, w>> \in unpushed

\* Mutant: threads are created whatever FinalizeInProgress says.
IgnoreFinalizeInProgress(c) ==
  /\ InLibPurple(c)
  /\ ~Starting(c)
  /\ Cardinality(tested) < Cardinality({w \in Workers : workerPc[w] = "none"})
  /\ tested' = tested \cup {c}
  /\ UNCHANGED <<accessVars, uimVars, asyncVars, loopVars, workerPc, unpushed,
                 vectorThreads>>

TestFinalizeInProgress(c) ==
  /\ InLibPurple(c)
  /\ ~Starting(c)
  /\ ~finalizeInProgress
  /\ Cardinality(tested) < Cardinality({w \in Workers : workerPc[w] = "none"})
  /\ tested' = tested \cup {c}
  /\ UNCHANGED <<accessVars, uimVars, asyncVars, loopVars, workerPc, unpushed,
                 vectorThreads>>

CreateThread(c, w) ==
  /\ c \in tested
  /\ workerPc[w] = "none"
  /\ tested' = tested \ {c}
  /\ unpushed' = unpushed \cup {<<c, w>>}
  /\ workerPc' = [workerPc EXCEPT ![w] = "started"]
  /\ UNCHANGED <<accessVars, uimVars, asyncVars, loopVars, vectorThreads>>

\* Mutant: the thread is not stored.
ForgetThread(c, w) ==
  /\ <<c, w>> \in unpushed
  /\ unpushed' = unpushed \ {<<c, w>>}
  /\ UNCHANGED <<accessVars, uimVars, asyncVars, loopVars, workerPc, tested,
                 vectorThreads>>

\* push_back may move the vector, under the iterator of the join loop too.
PushThread(c, w) ==
  /\ <<c, w>> \in unpushed
  /\ unpushed' = unpushed \ {<<c, w>>}
  /\ vectorThreads' = Append(vectorThreads, w)
  /\ joined' \in IF uimPc = "joining" THEN {joined, Dangling} ELSE {joined}
  /\ UNCHANGED <<accessVars, uimPc, asyncVars, loopVars, workerPc, tested>>

-----------------------------------------------------------------------------
(* A worker.  All of them first look at FinalizeInProgress.                 *)

WorkerGoto(w, from, to) ==
  /\ workerPc[w] = from
  /\ workerPc' = [workerPc EXCEPT ![w] = to]
  /\ UNCHANGED <<uimVars, asyncVars, loopVars, tested, unpushed, vectorThreads>>

\* A notification (HandleVoidParamThread, NotifyMessageThread, ...) is posted
\* to the user interface, or dropped: the thread ends either way.
Notify(w) ==
  /\ w \notin Requesters
  /\ WorkerGoto(w, "started", "exited")
  /\ UNCHANGED accessVars

AskUser(w) ==
  /\ w \in Requesters
  /\ WorkerGoto(w, "started", IF finalizeInProgress THEN "exited" ELSE "asking")
  /\ UNCHANGED accessVars

\* The user has answered (an authorization, a password, where to store a file)
\* and the request was not canceled: the worker calls libpurple back, with no
\* regard to FinalizeInProgress.
CallBack(w) ==
  /\ WorkerGoto(w, "asking", "answering")
  /\ WorkerEnter(w)

RequestIsCanceled(w) ==
  /\ WorkerGoto(w, "asking", "exited")
  /\ UNCHANGED accessVars

RequestDone(w) ==
  /\ ~Starting(w)
  /\ WorkerGoto(w, "answering", "exited")
  /\ WorkerLeave(w)

-----------------------------------------------------------------------------
(* The asynchronous thread.                                                 *)

AsyncGoto(from, to) ==
  /\ asyncPc = from
  /\ asyncPc' = to
  /\ UNCHANGED <<uimVars, workerVars, loopVars>>

StartAsyncOperations ==
  /\ AsyncGoto("created", "get")
  /\ execExists' = TRUE
  /\ UNCHANGED <<accessVars, asyncExecList, isTerminating>>

\* An empty list: the thread waits for the terminate event, half a second at
\* most, before it looks at IsFinishingAsyncOperations.
GetAsyncOperation ==
  /\ IF asyncExecList = <<>>
       THEN AsyncGoto("get", "test") /\ UNCHANGED asyncExecList
       ELSE AsyncGoto("get", "got") /\ asyncExecList' = Tail(asyncExecList)
  /\ UNCHANGED <<accessVars, execExists, isTerminating>>

\* Mutant: the operation runs whatever FinalizeInProgress says.
RunOperationAnyway ==
  /\ AsyncGoto("got", "running")
  /\ Goto(AsyncThread, "idle", "admitted")
  /\ UNCHANGED <<serializeMutex, holdEvent, releaseEvent, holderSources, loopPc,
                 workersIn, finalizeInProgress, asyncExecList, execExists, isTerminating>>

RunOperation ==
  /\ AsyncGoto("got", "running")
  /\ Admit(AsyncThread)
  /\ UNCHANGED <<asyncExecList, execExists, isTerminating>>

SkipOperation ==
  /\ finalizeInProgress
  /\ AsyncGoto("got", "test")
  /\ UNCHANGED <<accessVars, asyncExecList, execExists, isTerminating>>

OperationReturns ==
  /\ pc[AsyncThread] = "idle"
  /\ AsyncGoto("running", "test")
  /\ UNCHANGED <<accessVars, asyncExecList, execExists, isTerminating>>

\* Mutant: the flag is read without the mutex.
IsFinishingUnlocked ==
  /\ AsyncGoto("test", IF isTerminating THEN "drain" ELSE "get")
  /\ UNCHANGED <<accessVars, asyncExecList, execExists, isTerminating>>

\* The test takes m_pTerminatingMutex, which FinishAsyncOperations holds from
\* before it sets the flag until after it has set the event.
IsFinishingAsyncOperations ==
  /\ uimPc # "finishing"
  /\ AsyncGoto("test", IF isTerminating THEN "drain" ELSE "get")
  /\ UNCHANGED <<accessVars, asyncExecList, execExists, isTerminating>>

\* The list is emptied without its mutex.
DrainAsyncExecList ==
  /\ AsyncGoto("drain", IF Len(asyncExecList) <= 1 THEN "leave" ELSE "drain")
  /\ asyncExecList' = IF asyncExecList = <<>> THEN <<>> ELSE Tail(asyncExecList)
  /\ UNCHANGED <<accessVars, execExists, isTerminating>>

DeleteAsyncOperationsExec ==
  /\ AsyncGoto("leave", "exited")
  /\ execExists' = FALSE
  /\ UNCHANGED <<accessVars, asyncExecList, isTerminating>>

-----------------------------------------------------------------------------
(* The thread of the user interface.                                        *)

UIMGoto(from, to) ==
  /\ uimPc = from
  /\ uimPc' = to
  /\ UNCHANGED <<workerVars, asyncPc, execExists>>

\* DisconnectAsync, SetAliasAsync, SetUserStatusAsync, ...
PushAsyncOperation(op) ==
  /\ UIMGoto("running", "running")
  /\ pc[UIMThread] = "idle"
  /\ execExists
  /\ ~isTerminating
  /\ Len(asyncExecList) < MaxQueued
  /\ asyncExecList' = Append(asyncExecList, op)
  /\ UNCHANGED <<accessVars, loopVars, joined, isTerminating>>

\* A method of the protocol called directly: Connect, AddContact, SendIM, ...
UIMCallsProtocol ==
  /\ UIMGoto("running", "running")
  /\ Admit(UIMThread)
  /\ UNCHANGED <<loopVars, joined, asyncExecList, isTerminating>>

Finalize ==
  /\ UIMGoto("running", "flagged")
  /\ SetFinalizeInProgress
  /\ UNCHANGED <<loopVars, joined, asyncExecList, isTerminating>>

\* g_timeout_add, not purple_timeout_add.
AddFinalizerTimeout ==
  /\ UIMGoto("flagged", "finalizer")
  /\ finalizerSource' = "pending"
  /\ UNCHANGED <<accessVars, mainLoopQuit, serviceExited, joined, asyncExecList,
                 isTerminating>>

WaitFinalizerEvent ==
  /\ finalizerSource = "done"
  /\ UIMGoto("finalizer", IF execExists THEN "finish" ELSE "joining")
  /\ UNCHANGED <<accessVars, loopVars, joined, asyncExecList, isTerminating>>

FinishAsyncOperations ==
  /\ UIMGoto("finish", "finishing")
  /\ isTerminating' = TRUE
  /\ UNCHANGED <<accessVars, loopVars, joined, asyncExecList>>

UnlockTerminatingMutex ==
  /\ UIMGoto("finishing", "joining")
  /\ UNCHANGED <<accessVars, loopVars, joined, asyncExecList, isTerminating>>

Exited(t) == IF t = AsyncThread THEN asyncPc = "exited" ELSE workerPc[t] = "exited"

\* Mutant: the iterator advances twice.
JoinEveryOther ==
  /\ UIMGoto("joining", "joining")
  /\ joined \in 0 .. Len(vectorThreads) - 1
  /\ Exited(vectorThreads[joined + 1])
  /\ joined' = joined + 2
  /\ UNCHANGED <<accessVars, loopVars, asyncExecList, isTerminating>>

JoinThread ==
  /\ UIMGoto("joining", "joining")
  /\ joined \in 0 .. Len(vectorThreads) - 1
  /\ Exited(vectorThreads[joined + 1])
  /\ joined' = joined + 1
  /\ UNCHANGED <<accessVars, loopVars, asyncExecList, isTerminating>>

EndJoinLoop ==
  /\ UIMGoto("joining", "quitting")
  /\ joined = Len(vectorThreads)
  /\ UNCHANGED <<accessVars, loopVars, joined, asyncExecList, isTerminating>>

FollowDanglingIterator ==
  /\ UIMGoto("joining", "crashed")
  /\ joined = Dangling
  /\ UNCHANGED <<accessVars, loopVars, joined, asyncExecList, isTerminating>>

QuitMainLoop ==
  /\ UIMGoto("quitting", "joinService")
  /\ mainLoopQuit' = TRUE
  /\ UNCHANGED <<accessVars, finalizerSource, serviceExited, joined, asyncExecList,
                 isTerminating>>

JoinServiceThread ==
  /\ serviceExited
  /\ UIMGoto("joinService", "deleting")
  /\ UNCHANGED <<accessVars, loopVars, joined, asyncExecList, isTerminating>>

DeleteProtocols ==
  /\ UIMGoto("deleting", "done")
  /\ UNCHANGED <<accessVars, loopVars, joined, asyncExecList, isTerminating>>

-----------------------------------------------------------------------------
(* The main loop, besides what LibPurpleAccess says of it.                  *)

LoopRuns == ~serviceExited /\ finalizerSource # "running"

DispatchFinalizer ==
  /\ LoopRuns
  /\ finalizerSource = "pending"
  /\ finalizerSource' = "running"
  /\ DispatchOther
  /\ UNCHANGED <<uimVars, workerVars, asyncVars, mainLoopQuit, serviceExited>>

\* Mutant: UIMConnectionsFinalizerMethod returns without setting the event.
FinalizerReturnsSilently ==
  /\ finalizerSource = "running"
  /\ ~Starting(Loop)
  /\ finalizerSource' = "none"
  /\ ReturnFromDispatch
  /\ UNCHANGED <<uimVars, workerVars, asyncVars, mainLoopQuit, serviceExited>>

SetFinalizerEvent ==
  /\ finalizerSource = "running"
  /\ ~Starting(Loop)
  /\ finalizerSource' = "done"
  /\ ReturnFromDispatch
  /\ UNCHANGED <<uimVars, workerVars, asyncVars, mainLoopQuit, serviceExited>>

ServiceThreadReturns ==
  /\ mainLoopQuit
  /\ loopPc = "poll"
  /\ ~serviceExited
  /\ serviceExited' = TRUE
  /\ UNCHANGED <<accessVars, uimVars, workerVars, asyncVars, finalizerSource,
                 mainLoopQuit>>

\* The steps of LibPurpleAccess that the service leaves as they are.
LoopStep ==
  /\ LoopRuns
  /\ \/ Run
     \/ LibPurpleHolderMethod
     \/ DispatchOther
     \/ ReturnFromDispatch /\ ~Starting(Loop)
  /\ UNCHANGED serviceVars

ProtocolMethod(t) ==
  /\ \/ LockSerializeMutex(t)
     \/ ResetHoldEvent(t)
     \/ AddHolderTimeout(t)
     \/ WaitHoldEvent(t)
     \/ SetReleaseEvent(t) /\ ~Starting(t)
     \/ UnlockSerializeMutex(t)
  /\ UNCHANGED serviceVars

-----------------------------------------------------------------------------
StartWorkerThread(c) ==
  \/ TestFinalizeInProgress(c)
  \/ \E w \in Workers : CreateThread(c, w) \/ PushThread(c, w)

Worker(w) ==
  \/ Notify(w)
  \/ AskUser(w)
  \/ CallBack(w)
  \/ RequestIsCanceled(w)
  \/ RequestDone(w)

AsyncOperations ==
  \/ StartAsyncOperations
  \/ GetAsyncOperation
  \/ RunOperation
  \/ SkipOperation
  \/ OperationReturns
  \/ IsFinishingAsyncOperations
  \/ DrainAsyncExecList
  \/ DeleteAsyncOperationsExec

FinalizeSteps ==
  \/ AddFinalizerTimeout
  \/ WaitFinalizerEvent
  \/ FinishAsyncOperations
  \/ UnlockTerminatingMutex
  \/ JoinThread
  \/ EndJoinLoop
  \/ FollowDanglingIterator
  \/ QuitMainLoop
  \/ JoinServiceThread
  \/ DeleteProtocols

ServiceLoop ==
  \/ LoopStep
  \/ DispatchFinalizer
  \/ SetFinalizerEvent
  \/ ServiceThreadReturns

ServiceNext ==
  \/ \E c \in Creators : StartWorkerThread(c)
  \/ \E w \in Workers : Worker(w)
  \/ AsyncOperations
  \/ \E op \in Operations : PushAsyncOperation(op)
  \/ UIMCallsProtocol
  \/ Finalize
  \/ FinalizeSteps
  \/ ServiceLoop
  \/ \E t \in Serialized : ProtocolMethod(t)

ServiceSpec == ServiceInit /\ [][ServiceNext]_vars

\* Every thread that has been given the processor goes on; the user may never
\* answer (CallBack, RequestIsCanceled), and nobody has to call a protocol or
\* to finalize.  GLib dispatches every ready source of an iteration and looks
\* at g_main_loop_quit in each.
ServiceFairness ==
  /\ \A c \in Creators : WF_vars(\E w \in Workers : CreateThread(c, w))
  /\ \A c \in Creators : WF_vars(\E w \in Workers : PushThread(c, w))
  /\ \A w \in Workers : WF_vars(Notify(w) \/ AskUser(w) \/ RequestDone(w))
  /\ WF_vars(AsyncOperations)
  /\ WF_vars(FinalizeSteps)
  /\ \A t \in Serialized : WF_vars(ProtocolMethod(t))
  /\ WF_vars(ServiceLoop)
  /\ SF_vars(LoopRuns /\ DispatchHolder /\ UNCHANGED serviceVars)
  /\ SF_vars(DispatchFinalizer)
  /\ SF_vars(ServiceThreadReturns)

FairServiceSpec == ServiceSpec /\ ServiceFairness

-----------------------------------------------------------------------------
(* What the service promises.                                               *)

\* CPurpleService::Finalize deletes the protocols when nobody can be using
\* them: every worker, stored in the vector or not, has ended, and so have the
\* asynchronous thread, which leaves no operation behind, and the main loop.
JoinedBeforeDeleted ==
  uimPc \in {"deleting", "done"} /\ finalizeInProgress
    => /\ \A w \in Workers : workerPc[w] \in {"none", "exited"}
       /\ asyncPc = "exited" /\ asyncExecList = <<>>
       /\ serviceExited
       /\ \A c \in Creators : ~InLibPurple(c) /\ ~Starting(c)

\* The join loop of Finalize walks m_vectorThreads without the mutex that
\* StartWorkerThread takes: only a worker that is in libpurple without the
\* handshake can make the vector grow under it.
JoinLoopUndisturbed ==
  [][uimPc = "joining" /\ finalizeInProgress /\ vectorThreads' # vectorThreads
       => \E c \in Requesters, w \in Workers : PushThread(c, w)]_vars

\* The thread of the user interface is not left with a deleted executor: the
\* asynchronous thread cannot delete it, with the mutex in it, before
\* FinishAsyncOperations has given the mutex back.
ExecOutlivesFinish == uimPc \in {"finish", "finishing"} => execExists

\* Finalize comes to its end, unless the join loop was disturbed, the
\* asynchronous thread waits for ever in the handshake, or had not yet made its
\* executor when Finalize wanted to stop it, or the user never answers a request.
FinalizeEnds ==
  uimPc = "flagged" ~>
    \/ uimPc \in {"done", "crashed"}
    \/ [](pc[AsyncThread] = "waiting" /\ ~holdEvent /\ holderSources = 0)
    \/ [](uimPc = "joining" /\ ~isTerminating /\ asyncPc # "exited")
    \/ [](\E a \in Requesters : workerPc[a] = "asking")

\* The service adds nothing to the handshake that the handshake does not allow.
ImplementsLibPurpleAccess == AccessSpec
=============================================================================
