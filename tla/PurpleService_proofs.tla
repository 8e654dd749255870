------------------------ MODULE PurpleService_proofs ------------------------
(***************************************************************************)
(* The service ends in order for any workers, requesters and operations:   *)
(* when CPurpleService::Finalize deletes the protocols nobody is left who  *)
(* could use them.  The handshake is used through its invariant.           *)
(***************************************************************************)
EXTENDS PurpleService, LibPurpleAccess_proofs, SequenceTheorems

FinalizerPassed == {"finish", "finishing", "joining", "quitting", "joinService", "deleting", "done",
                    "crashed"}
Joined == {"quitting", "joinService", "deleting", "done"}

\* How far Finalize has come, the main loop has heard of it.
UimInv ==
  /\ uimPc # "running" <=> pc[UIMThread] = "finalizing"
  /\ uimPc \in {"running", "flagged"} => finalizerSource = "none"
  /\ uimPc \in FinalizerPassed => finalizerSource = "done"
  /\ finalizerSource = "running" => loopPc = "dispatch"
  /\ finalizerSource \in {"running", "done"} => loopPc # "starting"
  /\ mainLoopQuit => uimPc \in {"joinService", "deleting", "done"}
  /\ uimPc \in {"deleting", "done"} => serviceExited
  /\ serviceExited => mainLoopQuit /\ loopPc = "poll"

\* The asynchronous thread ends after FinishAsyncOperations, and empties its list
\* when nobody can add to it any more.
AsyncInv ==
  /\ isTerminating => uimPc \in FinalizerPassed \ {"finish"}
  /\ execExists <=> asyncPc \notin {"created", "exited"}
  /\ asyncPc \in {"drain", "leave", "exited"} => isTerminating /\ uimPc # "finishing"
  /\ asyncPc \in {"leave", "exited"} => asyncExecList = <<>>
  /\ asyncPc # "running" => pc[AsyncThread] = "idle"
  /\ uimPc \in {"finish", "finishing"} => execExists

\* A worker is in libpurple while it answers, and only a requester does.
WorkerInv ==
  /\ \A w \in Workers : w \in workersIn <=> workerPc[w] = "answering"
  /\ \A w \in Workers : workerPc[w] \in {"asking", "answering"} => w \in Requesters

\* Who starts a thread is in libpurple.
StarterInv == \A c \in Creators : Starting(c) => InLibPurple(c)

\* A thread that has been created is in the vector of the threads, or about to be pushed.
PushedInv ==
  /\ \A w \in Workers : workerPc[w] # "none" =>
       \/ \E c \in Creators : <<c, w>> \in unpushed
       \/ \E i \in 1 .. Len(vectorThreads) : vectorThreads[i] = w
  /\ Len(vectorThreads) > 0 /\ vectorThreads[1] = AsyncThread

\* Workers that are about to be pushed, by one another, are not all there is: the
\* first of them was created by somebody else.
CreationInv ==
  \A S \in SUBSET Workers :
    (\A w \in S : \E c \in S : <<c, w>> \in unpushed) => S = {}

\* Once the finalizer has been through the main loop no thread of the handshake, nor
\* the loop, starts another one: only a worker can.
StoppedInv ==
  finalizeInProgress /\ finalizerSource = "done"
    => \A c \in Serialized \cup {Loop} : ~Starting(c)

\* The join loop has passed none but threads that have ended, and when it has passed
\* the end of the vector nobody is left to make it grow.
JoinInv ==
  /\ \A i \in 1 .. joined : Exited(vectorThreads[i])
  /\ finalizeInProgress /\ uimPc \in Joined
       => joined = Len(vectorThreads) /\ tested = {} /\ unpushed = {}

ServiceInv ==
  /\ ServiceTypeOK
  /\ UimInv
  /\ AsyncInv
  /\ WorkerInv
  /\ StarterInv
  /\ PushedInv
  /\ CreationInv
  /\ StoppedInv
  /\ JoinInv

-----------------------------------------------------------------------------
\* Every step of every thread of the service keeps the types.
LEMMA ServiceTypes ==
  ASSUME ServiceInv, HandshakeInv, HandshakeInv', [ServiceNext]_vars
  PROVE  ServiceTypeOK'
<1>. USE DEF vars, accessVars, serviceVars, uimVars, asyncVars, workerVars, loopVars
<1>1. ServiceTypeOK /\ AccessTypeOK'
  BY DEF ServiceInv, HandshakeInv
<1>2. ASSUME NEW c \in Creators, StartWorkerThread(c) PROVE  ServiceTypeOK'
  <2>1. CASE TestFinalizeInProgress(c)
    BY <2>1, <1>1, ServiceAssumption DEF TestFinalizeInProgress, ServiceTypeOK
  <2>2. ASSUME NEW w \in Workers, CreateThread(c, w) PROVE  ServiceTypeOK'
    BY <2>2, <1>1, ServiceAssumption DEF CreateThread, ServiceTypeOK
  <2>3. ASSUME NEW w \in Workers, PushThread(c, w) PROVE  ServiceTypeOK'
    BY <2>3, <1>1, ServiceAssumption DEF PushThread, ServiceTypeOK
  <2>. QED
    BY <1>2, <2>1, <2>2, <2>3 DEF StartWorkerThread
<1>3. ASSUME NEW w \in Workers, Worker(w) PROVE  ServiceTypeOK'
  BY <1>3, <1>1, ServiceAssumption
    DEF Worker, Notify, WorkerGoto, AskUser, CallBack, WorkerEnter, RequestIsCanceled,
        RequestDone, WorkerLeave, ServiceTypeOK
<1>4. CASE AsyncOperations
  <2>1. CASE StartAsyncOperations
    BY <2>1, <1>1, ServiceAssumption DEF StartAsyncOperations, AsyncGoto, ServiceTypeOK
  <2>2. CASE GetAsyncOperation
    <3>1. asyncExecList # <<>> => Tail(asyncExecList) \in Seq(Operations)
      BY <1>1, HeadTailProperties DEF ServiceTypeOK
    <3>. QED
      BY <2>2, <1>1, <3>1 DEF GetAsyncOperation, AsyncGoto, ServiceTypeOK
  <2>3. CASE RunOperation
    BY <2>3, <1>1, ServiceAssumption DEF RunOperation, AsyncGoto, Admit, Goto, ServiceTypeOK
  <2>4. CASE SkipOperation
    BY <2>4, <1>1, ServiceAssumption DEF SkipOperation, AsyncGoto, ServiceTypeOK
  <2>5. CASE OperationReturns
    BY <2>5, <1>1, ServiceAssumption DEF OperationReturns, AsyncGoto, ServiceTypeOK
  <2>6. CASE IsFinishingAsyncOperations
    BY <2>6, <1>1, ServiceAssumption
      DEF IsFinishingAsyncOperations, AsyncGoto, ServiceTypeOK
  <2>7. CASE DrainAsyncExecList
    BY <2>7, <1>1, ServiceAssumption DEF DrainAsyncExecList, AsyncGoto, ServiceTypeOK
  <2>8. CASE DeleteAsyncOperationsExec
    BY <2>8, <1>1, ServiceAssumption DEF DeleteAsyncOperationsExec, AsyncGoto, ServiceTypeOK
  <2>. QED
    BY <1>4, <2>1, <2>2, <2>3, <2>4, <2>5, <2>6, <2>7, <2>8 DEF AsyncOperations
<1>5. ASSUME NEW op \in Operations, PushAsyncOperation(op) PROVE  ServiceTypeOK'
  BY <1>5, <1>1, ServiceAssumption DEF PushAsyncOperation, UIMGoto, ServiceTypeOK
<1>6. CASE UIMCallsProtocol
  BY <1>6, <1>1, ServiceAssumption DEF UIMCallsProtocol, UIMGoto, Admit, Goto, ServiceTypeOK
<1>7. CASE Finalize
  BY <1>7, <1>1, ServiceAssumption
    DEF Finalize, UIMGoto, SetFinalizeInProgress, Goto, ServiceTypeOK
<1>8. CASE FinalizeSteps
  <2>1. CASE JoinThread
    <3>1. joined + 1 \in Dangling .. Len(vectorThreads)
      BY <2>1, <1>1, LenProperties DEF JoinThread, ServiceTypeOK, Dangling
    <3>. QED
      BY <2>1, <1>1, <3>1 DEF JoinThread, UIMGoto, ServiceTypeOK
  <2>2. CASE 
         \/ AddFinalizerTimeout
         \/ WaitFinalizerEvent
         \/ FinishAsyncOperations
         \/ UnlockTerminatingMutex
         \/ EndJoinLoop
         \/ FollowDanglingIterator
         \/ QuitMainLoop
         \/ JoinServiceThread
         \/ DeleteProtocols
    BY <2>2, <1>1, ServiceAssumption
      DEF AddFinalizerTimeout, UIMGoto, WaitFinalizerEvent, FinishAsyncOperations,
          UnlockTerminatingMutex, EndJoinLoop, FollowDanglingIterator, QuitMainLoop,
          JoinServiceThread, DeleteProtocols, ServiceTypeOK
  <2>. QED
    BY <1>8, <2>1, <2>2 DEF FinalizeSteps
<1>9. CASE ServiceLoop
  BY <1>9, <1>1, ServiceAssumption
    DEF ServiceLoop, LoopStep, LoopRuns, Run, LibPurpleHolderMethod, DispatchHolder,
        SetHoldEvent, WaitReleaseEvent, DispatchOther, ReturnFromDispatch,
        DispatchFinalizer, SetFinalizerEvent, ServiceThreadReturns, ServiceTypeOK
<1>10. ASSUME NEW t \in Serialized, ProtocolMethod(t) PROVE  ServiceTypeOK'
  BY <1>10, <1>1, ServiceAssumption
    DEF ProtocolMethod, LockSerializeMutex, ResetHoldEvent, AddHolderTimeout,
        WaitHoldEvent, SetReleaseEvent, UnlockSerializeMutex, Goto, ServiceTypeOK
<1>11. CASE UNCHANGED vars
  BY <1>11, <1>1, ServiceAssumption DEF ServiceTypeOK
<1>. QED
  BY <1>2, <1>3, <1>4, <1>5, <1>6, <1>7, <1>8, <1>9, <1>10, <1>11 DEF ServiceNext

\* How far Finalize has come agrees with the main loop after every step.
LEMMA UimStep ==
  ASSUME ServiceInv, HandshakeInv, [ServiceNext]_vars
  PROVE  UimInv'
<1>. USE DEF vars, accessVars, serviceVars, uimVars, asyncVars, workerVars, loopVars
<1>1. ServiceTypeOK /\ AccessTypeOK /\ UimInv
  BY DEF ServiceInv, HandshakeInv
<1>2. ASSUME NEW c \in Creators, StartWorkerThread(c) PROVE  UimInv'
  <2>1. CASE TestFinalizeInProgress(c)
    BY <2>1, <1>1, ServiceAssumption
      DEF TestFinalizeInProgress, ServiceTypeOK, AccessTypeOK, UimInv, FinalizerPassed
  <2>2. ASSUME NEW w \in Workers, CreateThread(c, w) PROVE  UimInv'
    BY <2>2, <1>1, ServiceAssumption
      DEF CreateThread, ServiceTypeOK, AccessTypeOK, UimInv, FinalizerPassed
  <2>3. ASSUME NEW w \in Workers, PushThread(c, w) PROVE  UimInv'
    BY <2>3, <1>1, ServiceAssumption
      DEF PushThread, ServiceTypeOK, AccessTypeOK, UimInv, FinalizerPassed
  <2>. QED
    BY <1>2, <2>1, <2>2, <2>3 DEF StartWorkerThread
<1>3. ASSUME NEW w \in Workers, Worker(w) PROVE  UimInv'
  BY <1>3, <1>1, ServiceAssumption
    DEF Worker, Notify, WorkerGoto, AskUser, CallBack, WorkerEnter, RequestIsCanceled,
        RequestDone, WorkerLeave, ServiceTypeOK, AccessTypeOK, UimInv, FinalizerPassed
<1>4. CASE AsyncOperations
  BY <1>4, <1>1, ServiceAssumption
    DEF AsyncOperations, StartAsyncOperations, AsyncGoto, GetAsyncOperation,
        RunOperation, Admit, Goto, SkipOperation, OperationReturns,
        IsFinishingAsyncOperations, DrainAsyncExecList, DeleteAsyncOperationsExec,
        ServiceTypeOK, AccessTypeOK, UimInv, FinalizerPassed
<1>5. ASSUME NEW op \in Operations, PushAsyncOperation(op) PROVE  UimInv'
  BY <1>5, <1>1, ServiceAssumption
    DEF PushAsyncOperation, UIMGoto, ServiceTypeOK, AccessTypeOK, UimInv,
        FinalizerPassed
<1>6. CASE UIMCallsProtocol
  BY <1>6, <1>1, ServiceAssumption
    DEF UIMCallsProtocol, UIMGoto, Admit, Goto, ServiceTypeOK, AccessTypeOK, UimInv,
        FinalizerPassed
<1>7. CASE Finalize
  BY <1>7, <1>1, ServiceAssumption
    DEF Finalize, UIMGoto, SetFinalizeInProgress, Goto, ServiceTypeOK, AccessTypeOK,
        UimInv, FinalizerPassed
<1>8. CASE FinalizeSteps
  BY <1>8, <1>1, ServiceAssumption
    DEF FinalizeSteps, AddFinalizerTimeout, UIMGoto, WaitFinalizerEvent,
        FinishAsyncOperations, UnlockTerminatingMutex, JoinThread, EndJoinLoop,
        FollowDanglingIterator, QuitMainLoop, JoinServiceThread, DeleteProtocols,
        ServiceTypeOK, AccessTypeOK, UimInv, FinalizerPassed
<1>9. CASE ServiceLoop
  BY <1>9, <1>1, ServiceAssumption
    DEF ServiceLoop, LoopStep, LoopRuns, Run, LibPurpleHolderMethod, DispatchHolder,
        SetHoldEvent, WaitReleaseEvent, DispatchOther, ReturnFromDispatch,
        DispatchFinalizer, SetFinalizerEvent, ServiceThreadReturns, ServiceTypeOK,
        AccessTypeOK, UimInv, FinalizerPassed
<1>10. ASSUME NEW t \in Serialized, ProtocolMethod(t) PROVE  UimInv'
  BY <1>10, <1>1, ServiceAssumption
    DEF ProtocolMethod, LockSerializeMutex, ResetHoldEvent, AddHolderTimeout,
        WaitHoldEvent, SetReleaseEvent, UnlockSerializeMutex, Goto, ServiceTypeOK,
        AccessTypeOK, UimInv, FinalizerPassed
<1>11. CASE UNCHANGED vars
  BY <1>11, <1>1, ServiceAssumption DEF ServiceTypeOK, AccessTypeOK, UimInv, FinalizerPassed
<1>. QED
  BY <1>2, <1>3, <1>4, <1>5, <1>6, <1>7, <1>8, <1>9, <1>10, <1>11 DEF ServiceNext

\* The asynchronous thread ends in order, whatever step is taken.
LEMMA AsyncStep ==
  ASSUME ServiceInv, HandshakeInv, [ServiceNext]_vars
  PROVE  AsyncInv'
<1>. USE DEF vars, accessVars, serviceVars, uimVars, asyncVars, workerVars, loopVars
<1>1. ServiceTypeOK /\ AccessTypeOK /\ UimInv /\ AsyncInv
  BY DEF ServiceInv, HandshakeInv
<1>2. ASSUME NEW c \in Creators, StartWorkerThread(c) PROVE  AsyncInv'
  <2>1. CASE TestFinalizeInProgress(c)
    BY <2>1, <1>1, ServiceAssumption
      DEF TestFinalizeInProgress, ServiceTypeOK, AccessTypeOK, UimInv, AsyncInv,
          FinalizerPassed
  <2>2. ASSUME NEW w \in Workers, CreateThread(c, w) PROVE  AsyncInv'
    BY <2>2, <1>1, ServiceAssumption
      DEF CreateThread, ServiceTypeOK, AccessTypeOK, UimInv, AsyncInv, FinalizerPassed
  <2>3. ASSUME NEW w \in Workers, PushThread(c, w) PROVE  AsyncInv'
    BY <2>3, <1>1, ServiceAssumption
      DEF PushThread, ServiceTypeOK, AccessTypeOK, UimInv, AsyncInv, FinalizerPassed
  <2>. QED
    BY <1>2, <2>1, <2>2, <2>3 DEF StartWorkerThread
<1>3. ASSUME NEW w \in Workers, Worker(w) PROVE  AsyncInv'
  BY <1>3, <1>1, ServiceAssumption
    DEF Worker, Notify, WorkerGoto, AskUser, CallBack, WorkerEnter, RequestIsCanceled,
        RequestDone, WorkerLeave, ServiceTypeOK, AccessTypeOK, UimInv, AsyncInv,
        FinalizerPassed
<1>4. CASE AsyncOperations
  BY <1>4, <1>1, ServiceAssumption
    DEF AsyncOperations, StartAsyncOperations, AsyncGoto, GetAsyncOperation,
        RunOperation, Admit, Goto, SkipOperation, OperationReturns,
        IsFinishingAsyncOperations, DrainAsyncExecList, DeleteAsyncOperationsExec,
        ServiceTypeOK, AccessTypeOK, UimInv, AsyncInv, FinalizerPassed
<1>5. ASSUME NEW op \in Operations, PushAsyncOperation(op) PROVE  AsyncInv'
  BY <1>5, <1>1, ServiceAssumption
    DEF PushAsyncOperation, UIMGoto, ServiceTypeOK, AccessTypeOK, UimInv, AsyncInv,
        FinalizerPassed
<1>6. CASE UIMCallsProtocol
  BY <1>6, <1>1, ServiceAssumption
    DEF UIMCallsProtocol, UIMGoto, Admit, Goto, ServiceTypeOK, AccessTypeOK, UimInv,
        AsyncInv, FinalizerPassed
<1>7. CASE Finalize
  BY <1>7, <1>1, ServiceAssumption
    DEF Finalize, UIMGoto, SetFinalizeInProgress, Goto, ServiceTypeOK, AccessTypeOK,
        UimInv, AsyncInv, FinalizerPassed
<1>8. CASE FinalizeSteps
  BY <1>8, <1>1, ServiceAssumption
    DEF FinalizeSteps, AddFinalizerTimeout, UIMGoto, WaitFinalizerEvent,
        FinishAsyncOperations, UnlockTerminatingMutex, JoinThread, EndJoinLoop,
        FollowDanglingIterator, QuitMainLoop, JoinServiceThread, DeleteProtocols,
        ServiceTypeOK, AccessTypeOK, UimInv, AsyncInv, FinalizerPassed
<1>9. CASE ServiceLoop
  BY <1>9, <1>1, ServiceAssumption
    DEF ServiceLoop, LoopStep, LoopRuns, Run, LibPurpleHolderMethod, DispatchHolder,
        SetHoldEvent, WaitReleaseEvent, DispatchOther, ReturnFromDispatch,
        DispatchFinalizer, SetFinalizerEvent, ServiceThreadReturns, ServiceTypeOK,
        AccessTypeOK, UimInv, AsyncInv, FinalizerPassed
<1>10. ASSUME NEW t \in Serialized, ProtocolMethod(t) PROVE  AsyncInv'
  BY <1>10, <1>1, ServiceAssumption
    DEF ProtocolMethod, LockSerializeMutex, ResetHoldEvent, AddHolderTimeout,
        WaitHoldEvent, SetReleaseEvent, UnlockSerializeMutex, Goto, ServiceTypeOK,
        AccessTypeOK, UimInv, AsyncInv, FinalizerPassed
<1>11. CASE UNCHANGED vars
  BY <1>11, <1>1, ServiceAssumption
    DEF ServiceTypeOK, AccessTypeOK, UimInv, AsyncInv, FinalizerPassed
<1>. QED
  BY <1>2, <1>3, <1>4, <1>5, <1>6, <1>7, <1>8, <1>9, <1>10, <1>11 DEF ServiceNext

\* Workers come and go through libpurple one by one.
LEMMA WorkerStep ==
  ASSUME ServiceInv, HandshakeInv, [ServiceNext]_vars
  PROVE  WorkerInv'
<1>. USE DEF vars, accessVars, serviceVars, uimVars, asyncVars, workerVars, loopVars
<1>1. ServiceTypeOK /\ WorkerInv
  BY DEF ServiceInv
<1>2. ASSUME NEW c \in Creators, StartWorkerThread(c) PROVE  WorkerInv'
  BY <1>2, <1>1, ServiceAssumption
    DEF StartWorkerThread, TestFinalizeInProgress, CreateThread, PushThread,
        ServiceTypeOK, WorkerInv
<1>3. ASSUME NEW w \in Workers, Worker(w) PROVE  WorkerInv'
  BY <1>3, <1>1, ServiceAssumption
    DEF Worker, Notify, WorkerGoto, AskUser, CallBack, WorkerEnter, RequestIsCanceled,
        RequestDone, WorkerLeave, ServiceTypeOK, WorkerInv
<1>4. CASE AsyncOperations
  BY <1>4, <1>1, ServiceAssumption
    DEF AsyncOperations, StartAsyncOperations, AsyncGoto, GetAsyncOperation,
        RunOperation, Admit, Goto, SkipOperation, OperationReturns,
        IsFinishingAsyncOperations, DrainAsyncExecList, DeleteAsyncOperationsExec,
        ServiceTypeOK, WorkerInv
<1>5. ASSUME NEW op \in Operations, PushAsyncOperation(op) PROVE  WorkerInv'
  BY <1>5, <1>1, ServiceAssumption DEF PushAsyncOperation, UIMGoto, ServiceTypeOK, WorkerInv
<1>6. CASE UIMCallsProtocol
  BY <1>6, <1>1, ServiceAssumption
    DEF UIMCallsProtocol, UIMGoto, Admit, Goto, ServiceTypeOK, WorkerInv
<1>7. CASE Finalize
  BY <1>7, <1>1, ServiceAssumption
    DEF Finalize, UIMGoto, SetFinalizeInProgress, Goto, ServiceTypeOK, WorkerInv
<1>8. CASE FinalizeSteps
  BY <1>8, <1>1, ServiceAssumption
    DEF FinalizeSteps, AddFinalizerTimeout, UIMGoto, WaitFinalizerEvent,
        FinishAsyncOperations, UnlockTerminatingMutex, JoinThread, EndJoinLoop,
        FollowDanglingIterator, QuitMainLoop, JoinServiceThread, DeleteProtocols,
        ServiceTypeOK, WorkerInv
<1>9. CASE ServiceLoop
  BY <1>9, <1>1, ServiceAssumption
    DEF ServiceLoop, LoopStep, LoopRuns, Run, LibPurpleHolderMethod, DispatchHolder,
        SetHoldEvent, WaitReleaseEvent, DispatchOther, ReturnFromDispatch,
        DispatchFinalizer, SetFinalizerEvent, ServiceThreadReturns, ServiceTypeOK, WorkerInv
<1>10. ASSUME NEW t \in Serialized, ProtocolMethod(t) PROVE  WorkerInv'
  BY <1>10, <1>1, ServiceAssumption
    DEF ProtocolMethod, LockSerializeMutex, ResetHoldEvent, AddHolderTimeout,
        WaitHoldEvent, SetReleaseEvent, UnlockSerializeMutex, Goto, ServiceTypeOK, WorkerInv
<1>11. CASE UNCHANGED vars
  BY <1>11, <1>1, ServiceAssumption DEF ServiceTypeOK, WorkerInv
<1>. QED
  BY <1>2, <1>3, <1>4, <1>5, <1>6, <1>7, <1>8, <1>9, <1>10, <1>11 DEF ServiceNext

\* Who starts a thread stays in libpurple until it is pushed.
LEMMA StarterStep ==
  ASSUME ServiceInv, HandshakeInv, [ServiceNext]_vars
  PROVE  StarterInv'
<1>. USE DEF vars, accessVars, serviceVars, uimVars, asyncVars, workerVars, loopVars
<1>1. ServiceTypeOK /\ AccessTypeOK /\ AsyncInv /\ StarterInv
  BY DEF ServiceInv, HandshakeInv
<1>2. ASSUME NEW c \in Creators, StartWorkerThread(c) PROVE  StarterInv'
  <2>1. CASE TestFinalizeInProgress(c)
    BY <2>1, <1>1, ServiceAssumption, ThreadsAssumption
      DEF TestFinalizeInProgress, ServiceTypeOK, AccessTypeOK, StarterInv, Starting,
          InLibPurple, Creators
  <2>2. ASSUME NEW w \in Workers, CreateThread(c, w) PROVE  StarterInv'
    BY <2>2, <1>1, ServiceAssumption, ThreadsAssumption
      DEF CreateThread, ServiceTypeOK, AccessTypeOK, StarterInv, Starting, InLibPurple,
          Creators
  <2>3. ASSUME NEW w \in Workers, PushThread(c, w) PROVE  StarterInv'
    BY <2>3, <1>1, ServiceAssumption, ThreadsAssumption
      DEF PushThread, ServiceTypeOK, AccessTypeOK, StarterInv, Starting, InLibPurple,
          Creators
  <2>. QED
    BY <1>2, <2>1, <2>2, <2>3 DEF StartWorkerThread
<1>3. ASSUME NEW w \in Workers, Worker(w) PROVE  StarterInv'
  <2>1. CASE Notify(w)
    <3>1. UNCHANGED <<tested, unpushed, loopPc, pc, workersIn>>
      BY <2>1 DEF Notify, WorkerGoto
    <3>. QED
      BY <1>1, <3>1 DEF StarterInv, Starting, InLibPurple
  <2>2. CASE AskUser(w)
    <3>1. UNCHANGED <<tested, unpushed, loopPc, pc, workersIn>>
      BY <2>2 DEF AskUser, WorkerGoto
    <3>. QED
      BY <1>1, <3>1 DEF StarterInv, Starting, InLibPurple
  <2>3. CASE CallBack(w)
    <3>1. UNCHANGED <<tested, unpushed, loopPc, pc>> /\ workersIn \subseteq workersIn'
      BY <2>3 DEF CallBack, WorkerGoto, WorkerEnter
    <3>. QED
      BY <1>1, <3>1 DEF StarterInv, Starting, InLibPurple
  <2>4. CASE RequestIsCanceled(w)
    <3>1. UNCHANGED <<tested, unpushed, loopPc, pc, workersIn>>
      BY <2>4 DEF RequestIsCanceled, WorkerGoto
    <3>. QED
      BY <1>1, <3>1 DEF StarterInv, Starting, InLibPurple
  <2>5. CASE RequestDone(w)
    <3>1. UNCHANGED <<tested, unpushed, loopPc, pc>> /\ workersIn' = workersIn \ {w} /\ ~Starting(w)
      BY <2>5 DEF RequestDone, WorkerGoto, WorkerLeave
    <3>. QED
      BY <1>1, <3>1 DEF StarterInv, Starting, InLibPurple
  <2>. QED
    BY <1>3, <2>1, <2>2, <2>3, <2>4, <2>5 DEF Worker
<1>4. CASE AsyncOperations
  BY <1>4, <1>1, ServiceAssumption, ThreadsAssumption
    DEF AsyncOperations, StartAsyncOperations, AsyncGoto, GetAsyncOperation,
        RunOperation, Admit, Goto, SkipOperation, OperationReturns,
        IsFinishingAsyncOperations, DrainAsyncExecList, DeleteAsyncOperationsExec,
        ServiceTypeOK, AccessTypeOK, StarterInv, Starting, InLibPurple, Creators
<1>5. ASSUME NEW op \in Operations, PushAsyncOperation(op) PROVE  StarterInv'
  BY <1>5, <1>1, ServiceAssumption, ThreadsAssumption
    DEF PushAsyncOperation, UIMGoto, ServiceTypeOK, AccessTypeOK, StarterInv, Starting,
        InLibPurple, Creators
<1>6. CASE UIMCallsProtocol
  BY <1>6, <1>1, ServiceAssumption, ThreadsAssumption
    DEF UIMCallsProtocol, UIMGoto, Admit, Goto, ServiceTypeOK, AccessTypeOK, StarterInv,
        Starting, InLibPurple, Creators
<1>7. CASE Finalize
  BY <1>7, <1>1, ServiceAssumption, ThreadsAssumption
    DEF Finalize, UIMGoto, SetFinalizeInProgress, Goto, ServiceTypeOK, AccessTypeOK,
        StarterInv, Starting, InLibPurple, Creators
<1>8. CASE FinalizeSteps
  BY <1>8, <1>1, ServiceAssumption, ThreadsAssumption
    DEF FinalizeSteps, AddFinalizerTimeout, UIMGoto, WaitFinalizerEvent,
        FinishAsyncOperations, UnlockTerminatingMutex, JoinThread, EndJoinLoop,
        FollowDanglingIterator, QuitMainLoop, JoinServiceThread, DeleteProtocols,
        ServiceTypeOK, AccessTypeOK, StarterInv, Starting, InLibPurple, Creators
<1>9. CASE ServiceLoop
  BY <1>9, <1>1, ServiceAssumption, ThreadsAssumption
    DEF ServiceLoop, LoopStep, LoopRuns, Run, LibPurpleHolderMethod, DispatchHolder,
        SetHoldEvent, WaitReleaseEvent, DispatchOther, ReturnFromDispatch,
        DispatchFinalizer, SetFinalizerEvent, ServiceThreadReturns, ServiceTypeOK,
        AccessTypeOK, StarterInv, Starting, InLibPurple, Creators
<1>10. ASSUME NEW t \in Serialized, ProtocolMethod(t) PROVE  StarterInv'
  <2>1. \A c \in Creators : Starting(c)' <=> Starting(c)
    BY <1>10 DEF ProtocolMethod, Starting
  <2>2. UNCHANGED <<loopPc, workersIn>> /\ t # Loop /\ t \notin Workers
    BY <1>10, ThreadsAssumption
    DEF ProtocolMethod, LockSerializeMutex, ResetHoldEvent, AddHolderTimeout, WaitHoldEvent,
        SetReleaseEvent, UnlockSerializeMutex
  <2>3. \A u \in Serialized : pc[u] = "inside" /\ pc'[u] # "inside" => ~Starting(u)
    BY <1>10, <1>1
    DEF ProtocolMethod, LockSerializeMutex, ResetHoldEvent, AddHolderTimeout, WaitHoldEvent,
        SetReleaseEvent, UnlockSerializeMutex, Goto, AccessTypeOK
  <2>. QED
    BY <1>1, <2>1, <2>2, <2>3 DEF StarterInv, InLibPurple
<1>11. CASE UNCHANGED vars
  BY <1>11, <1>1, ServiceAssumption, ThreadsAssumption
    DEF ServiceTypeOK, AccessTypeOK, StarterInv, Starting, InLibPurple, Creators
<1>. QED
  BY <1>2, <1>3, <1>4, <1>5, <1>6, <1>7, <1>8, <1>9, <1>10, <1>11 DEF ServiceNext

\* A thread that has been created is stored, or about to be.
LEMMA PushedStep ==
  ASSUME ServiceInv, HandshakeInv, [ServiceNext]_vars
  PROVE  PushedInv'
<1>. USE DEF vars, accessVars, serviceVars, uimVars, asyncVars, workerVars, loopVars
<1>1. ServiceTypeOK /\ PushedInv
  BY DEF ServiceInv
<1>2. ASSUME NEW c \in Creators, StartWorkerThread(c) PROVE  PushedInv'
  <2>1. ASSUME NEW w \in Workers, CreateThread(c, w) PROVE  PushedInv'
    <3>1. workerPc' = [workerPc EXCEPT ![w] = "started"] /\ unpushed' = unpushed \cup {<<c, w>>}
          /\ UNCHANGED vectorThreads
      BY <2>1 DEF CreateThread
    <3>. QED
      BY <1>1, <3>1 DEF PushedInv, ServiceTypeOK
  <2>2. ASSUME NEW w \in Workers, PushThread(c, w) PROVE  PushedInv'
    <3>1. /\ Len(vectorThreads) \in Nat /\ Len(vectorThreads') = Len(vectorThreads) + 1
          /\ \A i \in 1 .. Len(vectorThreads) : vectorThreads'[i] = vectorThreads[i]
          /\ vectorThreads'[Len(vectorThreads) + 1] = w
      BY <2>2, <1>1, AppendProperties, LenProperties DEF PushThread, ServiceTypeOK
    <3>2. 1 .. Len(vectorThreads') = 1 .. Len(vectorThreads) \cup {Len(vectorThreads) + 1}
      BY <3>1
    <3>3. UNCHANGED workerPc /\ unpushed' = unpushed \ {<<c, w>>}
      BY <2>2 DEF PushThread
    <3>4. \A v \in Workers \ {w} :
            (\E b \in Creators : <<b, v>> \in unpushed) =>
               \E b \in Creators : <<b, v>> \in unpushed'
      BY <3>3
    <3>5. \E i \in 1 .. Len(vectorThreads') : vectorThreads'[i] = w
      BY <3>1, <3>2
    <3>6. \A v \in Workers : (\E i \in 1 .. Len(vectorThreads) : vectorThreads[i] = v) =>
               \E i \in 1 .. Len(vectorThreads') : vectorThreads'[i] = v
      BY <3>1, <3>2
    <3>7. Len(vectorThreads') > 0 /\ vectorThreads'[1] = AsyncThread
      BY <1>1, <3>1 DEF PushedInv
    <3>. QED
      BY <1>1, <3>3, <3>4, <3>5, <3>6, <3>7 DEF PushedInv
  <2>3. CASE TestFinalizeInProgress(c)
    BY <2>3, <1>1 DEF TestFinalizeInProgress, PushedInv
  <2>. QED
    BY <1>2, <2>1, <2>2, <2>3 DEF StartWorkerThread
<1>3. ASSUME NEW w \in Workers, Worker(w) PROVE  PushedInv'
  <2>1. CASE Notify(w)
    <3>1. /\ UNCHANGED <<unpushed, vectorThreads>>
          /\ workerPc[w] # "none"
          /\ \A v \in Workers : workerPc'[v] # "none" <=> workerPc[v] # "none"
      BY <2>1, <1>1 DEF Notify, WorkerGoto, ServiceTypeOK
    <3>. QED
      BY <1>1, <3>1 DEF PushedInv
  <2>2. CASE AskUser(w)
    <3>1. /\ UNCHANGED <<unpushed, vectorThreads>>
          /\ workerPc[w] # "none"
          /\ \A v \in Workers : workerPc'[v] # "none" <=> workerPc[v] # "none"
      BY <2>2, <1>1 DEF AskUser, WorkerGoto, ServiceTypeOK
    <3>. QED
      BY <1>1, <3>1 DEF PushedInv
  <2>3. CASE CallBack(w)
    <3>1. /\ UNCHANGED <<unpushed, vectorThreads>>
          /\ workerPc[w] # "none"
          /\ \A v \in Workers : workerPc'[v] # "none" <=> workerPc[v] # "none"
      BY <2>3, <1>1 DEF CallBack, WorkerGoto, ServiceTypeOK
    <3>. QED
      BY <1>1, <3>1 DEF PushedInv
  <2>4. CASE RequestIsCanceled(w)
    <3>1. /\ UNCHANGED <<unpushed, vectorThreads>>
          /\ workerPc[w] # "none"
          /\ \A v \in Workers : workerPc'[v] # "none" <=> workerPc[v] # "none"
      BY <2>4, <1>1 DEF RequestIsCanceled, WorkerGoto, ServiceTypeOK
    <3>. QED
      BY <1>1, <3>1 DEF PushedInv
  <2>5. CASE RequestDone(w)
    <3>1. /\ UNCHANGED <<unpushed, vectorThreads>>
          /\ workerPc[w] # "none"
          /\ \A v \in Workers : workerPc'[v] # "none" <=> workerPc[v] # "none"
      BY <2>5, <1>1 DEF RequestDone, WorkerGoto, ServiceTypeOK
    <3>. QED
      BY <1>1, <3>1 DEF PushedInv
  <2>. QED
    BY <1>3, <2>1, <2>2, <2>3, <2>4, <2>5 DEF Worker
<1>4. CASE AsyncOperations
  BY <1>4, <1>1
    DEF AsyncOperations, StartAsyncOperations, AsyncGoto, GetAsyncOperation,
        RunOperation, Admit, Goto, SkipOperation, OperationReturns,
        IsFinishingAsyncOperations, DrainAsyncExecList, DeleteAsyncOperationsExec, PushedInv
<1>5. ASSUME NEW op \in Operations, PushAsyncOperation(op) PROVE  PushedInv'
  BY <1>5, <1>1 DEF PushAsyncOperation, UIMGoto, PushedInv
<1>6. CASE UIMCallsProtocol
  BY <1>6, <1>1 DEF UIMCallsProtocol, UIMGoto, Admit, Goto, PushedInv
<1>7. CASE Finalize
  BY <1>7, <1>1 DEF Finalize, UIMGoto, SetFinalizeInProgress, Goto, PushedInv
<1>8. CASE FinalizeSteps
  BY <1>8, <1>1
    DEF FinalizeSteps, AddFinalizerTimeout, UIMGoto, WaitFinalizerEvent,
        FinishAsyncOperations, UnlockTerminatingMutex, JoinThread, EndJoinLoop,
        FollowDanglingIterator, QuitMainLoop, JoinServiceThread, DeleteProtocols, PushedInv
<1>9. CASE ServiceLoop
  BY <1>9, <1>1
    DEF ServiceLoop, LoopStep, LoopRuns, Run, LibPurpleHolderMethod, DispatchHolder,
        SetHoldEvent, WaitReleaseEvent, DispatchOther, ReturnFromDispatch,
        DispatchFinalizer, SetFinalizerEvent, ServiceThreadReturns, PushedInv
<1>10. ASSUME NEW t \in Serialized, ProtocolMethod(t) PROVE  PushedInv'
  BY <1>10, <1>1
    DEF ProtocolMethod, LockSerializeMutex, ResetHoldEvent, AddHolderTimeout,
        WaitHoldEvent, SetReleaseEvent, UnlockSerializeMutex, Goto, PushedInv
<1>11. CASE UNCHANGED vars
  BY <1>11, <1>1 DEF PushedInv
<1>. QED
  BY <1>2, <1>3, <1>4, <1>5, <1>6, <1>7, <1>8, <1>9, <1>10, <1>11 DEF ServiceNext

\* A thread is created by one that is not itself being created by it.
LEMMA CreationStep ==
  ASSUME ServiceInv, HandshakeInv, [ServiceNext]_vars
  PROVE  CreationInv'
<1>. USE DEF vars, accessVars, serviceVars, uimVars, asyncVars, workerVars, loopVars
<1>1. WorkerInv /\ StarterInv /\ CreationInv
  BY DEF ServiceInv
<1>2. ASSUME NEW c \in Creators, StartWorkerThread(c) PROVE  CreationInv'
  <2>1. CASE TestFinalizeInProgress(c)
    BY <2>1, <1>1 DEF TestFinalizeInProgress, CreationInv
  <2>2. ASSUME NEW w \in Workers, CreateThread(c, w) PROVE  CreationInv'
    <3>1. /\ unpushed' = unpushed \cup {<<c, w>>} /\ c \in tested
          /\ workerPc[w] = "none"
      BY <2>2 DEF CreateThread
    <3>2. c # w
      <4>1. w \notin workersIn /\ w # Loop /\ w \notin Serialized
        BY <1>1, <3>1, ThreadsAssumption DEF WorkerInv
      <4>. QED
        BY <1>1, <3>1, <4>1 DEF StarterInv, Starting, InLibPurple
    <3>3. \A v \in Workers : <<w, v>> \notin unpushed
      <4>1. w \notin workersIn /\ w # Loop /\ w \notin Serialized /\ w \in Creators
        BY <1>1, <3>1, ThreadsAssumption DEF WorkerInv, Creators
      <4>. QED
        BY <1>1, <4>1 DEF StarterInv, Starting, InLibPurple
    <3>4. ASSUME NEW S \in SUBSET Workers, \A v \in S : \E b \in S : <<b, v>> \in unpushed'
          PROVE  S = {}
      <4>1. \A v \in S \ {w} : \E b \in S \ {w} : <<b, v>> \in unpushed
        BY <3>1, <3>3, <3>4
      <4>2. S \ {w} = {}
        BY <1>1, <4>1 DEF CreationInv
      <4>3. ASSUME w \in S PROVE FALSE
        <5>1. <<w, w>> \in unpushed'
          BY <3>4, <4>2, <4>3
        <5>. QED
          BY <3>1, <3>2, <3>3, <5>1
      <4>. QED
        BY <4>2, <4>3
    <3>. QED
      BY <3>4 DEF CreationInv
  <2>3. ASSUME NEW w \in Workers, PushThread(c, w) PROVE  CreationInv'
    BY <2>3, <1>1 DEF PushThread, CreationInv
  <2>. QED
    BY <1>2, <2>1, <2>2, <2>3 DEF StartWorkerThread
<1>3. ASSUME NEW w \in Workers, Worker(w) PROVE  CreationInv'
  BY <1>3, <1>1
    DEF Worker, Notify, WorkerGoto, AskUser, CallBack, WorkerEnter, RequestIsCanceled,
        RequestDone, WorkerLeave, CreationInv
<1>4. CASE AsyncOperations
  BY <1>4, <1>1
    DEF AsyncOperations, StartAsyncOperations, AsyncGoto, GetAsyncOperation,
        RunOperation, Admit, Goto, SkipOperation, OperationReturns,
        IsFinishingAsyncOperations, DrainAsyncExecList, DeleteAsyncOperationsExec,
        CreationInv
<1>5. ASSUME NEW op \in Operations, PushAsyncOperation(op) PROVE  CreationInv'
  BY <1>5, <1>1 DEF PushAsyncOperation, UIMGoto, CreationInv
<1>6. CASE UIMCallsProtocol
  BY <1>6, <1>1 DEF UIMCallsProtocol, UIMGoto, Admit, Goto, CreationInv
<1>7. CASE Finalize
  BY <1>7, <1>1 DEF Finalize, UIMGoto, SetFinalizeInProgress, Goto, CreationInv
<1>8. CASE FinalizeSteps
  BY <1>8, <1>1
    DEF FinalizeSteps, AddFinalizerTimeout, UIMGoto, WaitFinalizerEvent,
        FinishAsyncOperations, UnlockTerminatingMutex, JoinThread, EndJoinLoop,
        FollowDanglingIterator, QuitMainLoop, JoinServiceThread, DeleteProtocols,
        CreationInv
<1>9. CASE ServiceLoop
  BY <1>9, <1>1
    DEF ServiceLoop, LoopStep, LoopRuns, Run, LibPurpleHolderMethod, DispatchHolder,
        SetHoldEvent, WaitReleaseEvent, DispatchOther, ReturnFromDispatch,
        DispatchFinalizer, SetFinalizerEvent, ServiceThreadReturns, CreationInv
<1>10. ASSUME NEW t \in Serialized, ProtocolMethod(t) PROVE  CreationInv'
  BY <1>10, <1>1
    DEF ProtocolMethod, LockSerializeMutex, ResetHoldEvent, AddHolderTimeout,
        WaitHoldEvent, SetReleaseEvent, UnlockSerializeMutex, Goto, CreationInv
<1>11. CASE UNCHANGED vars
  BY <1>11, <1>1 DEF CreationInv
<1>. QED
  BY <1>2, <1>3, <1>4, <1>5, <1>6, <1>7, <1>8, <1>9, <1>10, <1>11 DEF ServiceNext

\* After the finalizer the main loop and the threads of the handshake start no thread.
LEMMA StoppedStep ==
  ASSUME ServiceInv, HandshakeInv, [ServiceNext]_vars
  PROVE  StoppedInv'
<1>. USE DEF vars, accessVars, serviceVars, uimVars, asyncVars, workerVars, loopVars
<1>1. AccessTypeOK /\ HoldInv /\ UimInv /\ StarterInv /\ StoppedInv
  BY DEF ServiceInv, HandshakeInv
<1>2. ASSUME NEW c \in Creators, StartWorkerThread(c) PROVE  StoppedInv'
  BY <1>2, <1>1, ServiceAssumption, ThreadsAssumption
    DEF StartWorkerThread, TestFinalizeInProgress, CreateThread, PushThread, StoppedInv,
        Starting, UimInv
<1>3. ASSUME NEW w \in Workers, Worker(w) PROVE  StoppedInv'
  BY <1>3, <1>1, ServiceAssumption, ThreadsAssumption
    DEF Worker, Notify, WorkerGoto, AskUser, CallBack, WorkerEnter, RequestIsCanceled,
        RequestDone, WorkerLeave, StoppedInv, Starting, UimInv
<1>4. CASE AsyncOperations
  BY <1>4, <1>1, ServiceAssumption, ThreadsAssumption
    DEF AsyncOperations, StartAsyncOperations, AsyncGoto, GetAsyncOperation,
        RunOperation, Admit, Goto, SkipOperation, OperationReturns,
        IsFinishingAsyncOperations, DrainAsyncExecList, DeleteAsyncOperationsExec,
        StoppedInv, Starting, UimInv
<1>5. ASSUME NEW op \in Operations, PushAsyncOperation(op) PROVE  StoppedInv'
  BY <1>5, <1>1, ServiceAssumption, ThreadsAssumption
    DEF PushAsyncOperation, UIMGoto, StoppedInv, Starting, UimInv
<1>6. CASE UIMCallsProtocol
  BY <1>6, <1>1, ServiceAssumption, ThreadsAssumption
    DEF UIMCallsProtocol, UIMGoto, Admit, Goto, StoppedInv, Starting, UimInv
<1>7. CASE Finalize
  BY <1>7, <1>1, ServiceAssumption, ThreadsAssumption
    DEF Finalize, UIMGoto, SetFinalizeInProgress, Goto, StoppedInv, Starting, UimInv
<1>8. CASE FinalizeSteps
  BY <1>8, <1>1, ServiceAssumption, ThreadsAssumption
    DEF FinalizeSteps, AddFinalizerTimeout, UIMGoto, WaitFinalizerEvent,
        FinishAsyncOperations, UnlockTerminatingMutex, JoinThread, EndJoinLoop,
        FollowDanglingIterator, QuitMainLoop, JoinServiceThread, DeleteProtocols,
        StoppedInv, Starting, UimInv
<1>9. CASE ServiceLoop
  <2>1. CASE SetFinalizerEvent
    <3>1. /\ loopPc = "dispatch" /\ ~Starting(Loop)
          /\ \A c \in Serialized : pc[c] # "inside"
      BY <2>1, <1>1 DEF SetFinalizerEvent, UimInv, HoldInv
    <3>2. \A c \in Serialized : ~Starting(c)
      <4>1. \A c \in Serialized : c # Loop /\ c \notin workersIn /\ c \in Creators
        BY <1>1, ThreadsAssumption DEF AccessTypeOK, Creators
      <4>. QED
        BY <1>1, <3>1, <4>1 DEF StarterInv, InLibPurple
    <3>3. UNCHANGED <<tested, unpushed>>
      BY <2>1 DEF SetFinalizerEvent
    <3>. QED
      BY <3>1, <3>2, <3>3 DEF StoppedInv, Starting
  <2>2. CASE LoopStep \/ DispatchFinalizer \/ ServiceThreadReturns
    BY <2>2, <1>1, ServiceAssumption, ThreadsAssumption
      DEF LoopStep, LoopRuns, Run, LibPurpleHolderMethod, DispatchHolder, SetHoldEvent,
          WaitReleaseEvent, DispatchOther, ReturnFromDispatch, DispatchFinalizer,
          ServiceThreadReturns, StoppedInv, Starting, UimInv
  <2>. QED
    BY <1>9, <2>1, <2>2 DEF ServiceLoop
<1>10. ASSUME NEW t \in Serialized, ProtocolMethod(t) PROVE  StoppedInv'
  BY <1>10, <1>1, ServiceAssumption, ThreadsAssumption
    DEF ProtocolMethod, LockSerializeMutex, ResetHoldEvent, AddHolderTimeout,
        WaitHoldEvent, SetReleaseEvent, UnlockSerializeMutex, Goto, StoppedInv, Starting,
        UimInv
<1>11. CASE UNCHANGED vars
  BY <1>11, <1>1, ServiceAssumption, ThreadsAssumption DEF StoppedInv, Starting, UimInv
<1>. QED
  BY <1>2, <1>3, <1>4, <1>5, <1>6, <1>7, <1>8, <1>9, <1>10, <1>11 DEF ServiceNext

\* The join loop passes threads that have ended, and all of them.
LEMMA JoinStep ==
  ASSUME ServiceInv, HandshakeInv, [ServiceNext]_vars
  PROVE  JoinInv'
<1>. USE DEF vars, accessVars, serviceVars, uimVars, asyncVars, workerVars, loopVars
<1>1. /\ ServiceTypeOK /\ UimInv /\ AsyncInv /\ WorkerInv /\ StarterInv /\ PushedInv
      /\ CreationInv /\ StoppedInv /\ JoinInv
  BY DEF ServiceInv
<1>2. ASSUME NEW c \in Creators, StartWorkerThread(c) PROVE  JoinInv'
  <2>1. CASE TestFinalizeInProgress(c)
    BY <2>1, <1>1 DEF TestFinalizeInProgress, JoinInv, Exited, Joined, ServiceTypeOK
  <2>2. ASSUME NEW w \in Workers, CreateThread(c, w) PROVE  JoinInv'
    BY <2>2, <1>1 DEF CreateThread, JoinInv, Exited, Joined, ServiceTypeOK
  <2>3. ASSUME NEW w \in Workers, PushThread(c, w) PROVE  JoinInv'
    BY <2>3, <1>1 DEF PushThread, JoinInv, Exited, Joined, ServiceTypeOK
  <2>. QED
    BY <1>2, <2>1, <2>2, <2>3 DEF StartWorkerThread
<1>3. ASSUME NEW w \in Workers, Worker(w) PROVE  JoinInv'
  BY <1>3, <1>1
    DEF Worker, Notify, WorkerGoto, AskUser, CallBack, WorkerEnter, RequestIsCanceled,
        RequestDone, WorkerLeave, JoinInv, Exited, Joined, ServiceTypeOK
<1>4. CASE AsyncOperations
  BY <1>4, <1>1
    DEF AsyncOperations, StartAsyncOperations, AsyncGoto, GetAsyncOperation,
        RunOperation, Admit, Goto, SkipOperation, OperationReturns,
        IsFinishingAsyncOperations, DrainAsyncExecList, DeleteAsyncOperationsExec, JoinInv,
        Exited, Joined, ServiceTypeOK
<1>5. ASSUME NEW op \in Operations, PushAsyncOperation(op) PROVE  JoinInv'
  BY <1>5, <1>1 DEF PushAsyncOperation, UIMGoto, JoinInv, Exited, Joined, ServiceTypeOK
<1>6. CASE UIMCallsProtocol
  BY <1>6, <1>1
    DEF UIMCallsProtocol, UIMGoto, Admit, Goto, JoinInv, Exited, Joined, ServiceTypeOK
<1>7. CASE Finalize
  BY <1>7, <1>1
    DEF Finalize, UIMGoto, SetFinalizeInProgress, Goto, JoinInv, Exited, Joined,
        ServiceTypeOK
<1>8. CASE FinalizeSteps
  <2>1. CASE EndJoinLoop
    <3>1. UNCHANGED <<joined, vectorThreads, tested, unpushed, asyncPc, workerPc,
                      finalizeInProgress>>
          /\ uimPc = "joining" /\ joined = Len(vectorThreads)
      BY <2>1 DEF EndJoinLoop, UIMGoto
    <3>2. CASE ~finalizeInProgress
      BY <1>1, <3>1, <3>2 DEF JoinInv, Exited
    <3>3. CASE finalizeInProgress
      <4>1. asyncPc = "exited" /\ \A w \in Workers :
              (\E i \in 1 .. Len(vectorThreads) : vectorThreads[i] = w) => workerPc[w] = "exited"
        BY <1>1, <3>1, ThreadsAssumption, ServiceAssumption, LenProperties
        DEF JoinInv, Exited, PushedInv, ServiceTypeOK
      <4>2. \A c \in Serialized \cup {Loop} : ~Starting(c)
        BY <1>1, <3>1, <3>3 DEF StoppedInv, UimInv, FinalizerPassed
      <4>3. \A c \in Creators : Starting(c) => c \in Workers /\ workerPc[c] = "answering"
        BY <1>1, <4>2, ThreadsAssumption DEF StarterInv, WorkerInv, InLibPurple, Creators
      <4>. DEFINE S == {w \in Workers : \E c \in Creators : <<c, w>> \in unpushed}
      <4>4. \A w \in S : \E c \in S : <<c, w>> \in unpushed
        <5>. TAKE w \in S
        <5>1. PICK c \in Creators : <<c, w>> \in unpushed
          OBVIOUS
        <5>2. c \in Workers /\ workerPc[c] = "answering"
          BY <4>3, <5>1 DEF Starting
        <5>3. \E b \in Creators : <<b, c>> \in unpushed
          BY <1>1, <4>1, <5>2 DEF PushedInv
        <5>. QED
          BY <5>1, <5>2, <5>3
      <4>5. S = {}
        <5>. HIDE DEF S
        <5>1. S \in SUBSET Workers
          BY DEF S
        <5>. QED
          BY <1>1, <4>4, <5>1 DEF CreationInv
      <4>6. unpushed = {}
        <5>1. unpushed \subseteq Creators \X Workers
          BY <1>1 DEF ServiceTypeOK
        <5>. QED
          BY <4>5, <5>1
      <4>7. tested = {}
        <5>1. ASSUME NEW c \in tested PROVE FALSE
          <6>1. c \in Workers /\ workerPc[c] = "answering"
            BY <1>1, <4>3, <5>1 DEF Starting, ServiceTypeOK
          <6>. QED
            BY <1>1, <4>1, <4>6, <6>1 DEF PushedInv
        <5>. QED
          BY <5>1
      <4>. QED
        BY <1>1, <3>1, <4>6, <4>7 DEF JoinInv, Exited
    <3>. QED
      BY <3>2, <3>3
  <2>2. CASE 
         \/ AddFinalizerTimeout
         \/ WaitFinalizerEvent
         \/ FinishAsyncOperations
         \/ UnlockTerminatingMutex
         \/ JoinThread
         \/ FollowDanglingIterator
         \/ QuitMainLoop
         \/ JoinServiceThread
         \/ DeleteProtocols
    BY <2>2, <1>1
      DEF AddFinalizerTimeout, UIMGoto, WaitFinalizerEvent, FinishAsyncOperations,
          UnlockTerminatingMutex, JoinThread, FollowDanglingIterator, QuitMainLoop,
          JoinServiceThread, DeleteProtocols, JoinInv, Exited, Joined, ServiceTypeOK
  <2>. QED
    BY <1>8, <2>1, <2>2 DEF FinalizeSteps
<1>9. CASE ServiceLoop
  BY <1>9, <1>1
    DEF ServiceLoop, LoopStep, LoopRuns, Run, LibPurpleHolderMethod, DispatchHolder,
        SetHoldEvent, WaitReleaseEvent, DispatchOther, ReturnFromDispatch,
        DispatchFinalizer, SetFinalizerEvent, ServiceThreadReturns, JoinInv, Exited, Joined,
        ServiceTypeOK
<1>10. ASSUME NEW t \in Serialized, ProtocolMethod(t) PROVE  JoinInv'
  BY <1>10, <1>1
    DEF ProtocolMethod, LockSerializeMutex, ResetHoldEvent, AddHolderTimeout,
        WaitHoldEvent, SetReleaseEvent, UnlockSerializeMutex, Goto, JoinInv, Exited, Joined,
        ServiceTypeOK
<1>11. CASE UNCHANGED vars
  BY <1>11, <1>1 DEF JoinInv, Exited, Joined, ServiceTypeOK
<1>. QED
  BY <1>2, <1>3, <1>4, <1>5, <1>6, <1>7, <1>8, <1>9, <1>10, <1>11 DEF ServiceNext

\* The thread of the service and the first worker, as CPurpleService::Init leaves them.
LEMMA ServiceInvInit == ServiceInit => ServiceInv
<1>. SUFFICES ASSUME ServiceInit PROVE ServiceInv
  OBVIOUS
<1>. USE DEF ServiceInit
<1>1. AccessTypeOK
  BY HandshakeInit DEF HandshakeInv
<1>2. /\ <<AsyncThread>> \in Seq(Workers \cup {AsyncThread}) /\ Len(<<AsyncThread>>) = 1
      /\ <<>> \in Seq(Operations)
  OBVIOUS
<1>3. ServiceTypeOK
  <2>1. joined \in Dangling .. Len(vectorThreads)
    BY <1>2 DEF Dangling
  <2>2. workerPc \in [Workers -> {"none", "started", "asking", "answering", "exited"}]
    OBVIOUS
  <2>. QED
    BY <1>1, <1>2, <2>1, <2>2 DEF ServiceTypeOK
<1>4. UimInv /\ AsyncInv
  BY ServiceAssumption, ThreadsAssumption DEF AccessInit, UimInv, AsyncInv, FinalizerPassed
<1>5. WorkerInv /\ StarterInv /\ StoppedInv
  BY DEF AccessInit, WorkerInv, StarterInv, StoppedInv, Starting
<1>6. PushedInv
  BY <1>2 DEF PushedInv
<1>7. CreationInv
  BY DEF CreationInv
<1>8. JoinInv
  BY DEF JoinInv, Joined
<1>. QED
  BY <1>3, <1>4, <1>5, <1>6, <1>7, <1>8 DEF ServiceInv

\* What a thread of the service does to libpurple is a step of the handshake.
LEMMA ServiceAccessStep ==
  ASSUME [ServiceNext]_vars
  PROVE  [AccessNext]_accessVars
<1>. USE ServiceAssumption DEF AccessNext, WaitLibPurpleThreadAccess, ReleaseLibPurpleThreadAccess
<1>1. ASSUME NEW c \in Creators, StartWorkerThread(c) PROVE UNCHANGED accessVars
  BY <1>1 DEF StartWorkerThread, TestFinalizeInProgress, CreateThread, PushThread
<1>2. ASSUME NEW w \in Workers, Worker(w) PROVE [AccessNext]_accessVars
  BY <1>2 DEF Worker, Notify, AskUser, CallBack, RequestIsCanceled, RequestDone
<1>3. CASE AsyncOperations
  BY <1>3 DEF AsyncOperations, StartAsyncOperations, GetAsyncOperation, RunOperation, SkipOperation,
     OperationReturns, IsFinishingAsyncOperations, DrainAsyncExecList, DeleteAsyncOperationsExec
<1>4. ASSUME NEW op \in Operations, PushAsyncOperation(op) PROVE UNCHANGED accessVars
  BY <1>4 DEF PushAsyncOperation
<1>5. CASE UIMCallsProtocol
  BY <1>5 DEF UIMCallsProtocol
<1>6. CASE Finalize
  BY <1>6 DEF Finalize
<1>7. CASE FinalizeSteps
  BY <1>7 DEF FinalizeSteps, AddFinalizerTimeout, WaitFinalizerEvent, FinishAsyncOperations,
     UnlockTerminatingMutex, JoinThread, EndJoinLoop, FollowDanglingIterator, QuitMainLoop,
     JoinServiceThread, DeleteProtocols
<1>8. CASE ServiceLoop
  BY <1>8 DEF ServiceLoop, LoopStep, DispatchFinalizer, SetFinalizerEvent, ServiceThreadReturns
<1>9. ASSUME NEW t \in Serialized, ProtocolMethod(t) PROVE [AccessNext]_accessVars
  BY <1>9 DEF ProtocolMethod
<1>10. CASE UNCHANGED vars
  BY <1>10 DEF vars
<1>. QED
  BY <1>1, <1>2, <1>3, <1>4, <1>5, <1>6, <1>7, <1>8, <1>9, <1>10 DEF ServiceNext

LEMMA ServiceInvNext ==
  ServiceInv /\ HandshakeInv /\ [ServiceNext]_vars => ServiceInv' /\ HandshakeInv'
<1>. SUFFICES ASSUME ServiceInv, HandshakeInv, [ServiceNext]_vars
              PROVE  ServiceInv' /\ HandshakeInv'
  OBVIOUS
<1>1. HandshakeInv'
  BY ServiceAccessStep, HandshakeStep
<1>2. ServiceTypeOK' /\ UimInv' /\ AsyncInv' /\ WorkerInv'
  BY <1>1, ServiceTypes, UimStep, AsyncStep, WorkerStep
<1>3. StarterInv' /\ PushedInv' /\ CreationInv' /\ StoppedInv' /\ JoinInv'
  BY StarterStep, PushedStep, CreationStep, StoppedStep, JoinStep
<1>. QED
  BY <1>1, <1>2, <1>3 DEF ServiceInv

LEMMA ServiceInvAlways == ServiceSpec => [](ServiceInv /\ HandshakeInv)
<1>1. ServiceInit => ServiceInv /\ HandshakeInv
  BY ServiceInvInit, HandshakeInit DEF ServiceInit
<1>2. ServiceInv /\ HandshakeInv /\ [ServiceNext]_vars => (ServiceInv /\ HandshakeInv)'
  BY ServiceInvNext
<1>. QED
  BY <1>1, <1>2, PTL DEF ServiceSpec

-----------------------------------------------------------------------------
\* The types of purpleservice.cpp's threads, for any set of workers; the join loop
\* never counts past the end of m_vectorThreads.
THEOREM ServiceTypeCorrect == ServiceSpec => []ServiceTypeOK
<1>1. ServiceInv => ServiceTypeOK
  BY DEF ServiceInv
<1>. QED
  BY <1>1, ServiceInvAlways, PTL

\* When CPurpleService::Finalize deletes the protocols every worker, the asynchronous
\* thread and the main loop have ended, for any number of workers that start each other.
THEOREM AllJoinedBeforeDeleted == ServiceSpec => []JoinedBeforeDeleted
<1>1. ServiceInv => JoinedBeforeDeleted
  <2>. SUFFICES ASSUME ServiceInv, uimPc \in {"deleting", "done"}, finalizeInProgress
                PROVE  /\ \A w \in Workers : workerPc[w] \in {"none", "exited"}
                       /\ asyncPc = "exited" /\ asyncExecList = <<>>
                       /\ serviceExited
                       /\ \A c \in Creators : ~InLibPurple(c) /\ ~Starting(c)
    BY DEF JoinedBeforeDeleted
  <2>1. /\ ServiceTypeOK /\ UimInv /\ AsyncInv /\ WorkerInv /\ PushedInv /\ JoinInv
    BY DEF ServiceInv
  <2>2. joined = Len(vectorThreads) /\ tested = {} /\ unpushed = {}
    BY <2>1 DEF JoinInv, Joined
  <2>3. \A w \in Workers : workerPc[w] \in {"none", "exited"}
    BY <2>1, <2>2, ServiceAssumption, ThreadsAssumption DEF PushedInv, JoinInv, Exited
  <2>4. asyncPc = "exited"
    BY <2>1, <2>2, LenProperties DEF PushedInv, JoinInv, Exited, ServiceTypeOK
  <2>5. serviceExited /\ asyncExecList = <<>> /\ loopPc # "dispatch"
    BY <2>1, <2>4 DEF UimInv, AsyncInv
  <2>6. \A t \in Serialized : pc[t] # "inside"
    BY <2>1, <2>4, ServiceAssumption DEF UimInv, AsyncInv
  <2>7. workersIn = {}
    BY <2>1, <2>3 DEF WorkerInv, ServiceTypeOK, AccessTypeOK
  <2>. QED
    BY <2>2, <2>3, <2>4, <2>5, <2>6, <2>7 DEF InLibPurple, Starting
<1>. QED
  BY <1>1, ServiceInvAlways, PTL

\* FinishAsyncOperations of CPurpleProtocolAsyncExec never works on a deleted executor.
THEOREM ExecutorOutlivesFinish == ServiceSpec => []ExecOutlivesFinish
<1>1. ServiceInv => ExecOutlivesFinish
  BY DEF ServiceInv, AsyncInv, ExecOutlivesFinish
<1>. QED
  BY <1>1, ServiceInvAlways, PTL

\* Only a worker that a requester starts can make m_vectorThreads grow under the join
\* loop of Finalize, for any set of workers.
THEOREM JoinLoopDisturbedByRequesters == ServiceSpec => JoinLoopUndisturbed
<1>. DEFINE A == uimPc = "joining" /\ finalizeInProgress /\ vectorThreads' # vectorThreads
                   => \E c \in Requesters, w \in Workers : PushThread(c, w)
<1>1. ServiceInv /\ [ServiceNext]_vars => [A]_vars
  <2>. SUFFICES ASSUME ServiceInv, ServiceNext, uimPc = "joining", finalizeInProgress,
                       vectorThreads' # vectorThreads
                PROVE  \E c \in Requesters, w \in Workers : PushThread(c, w)
    OBVIOUS
  <2>1. PICK c \in Creators, w \in Workers : PushThread(c, w)
    <3>1. \A x \in Workers : ~Worker(x)
      BY DEF Worker, Notify, AskUser, CallBack, RequestIsCanceled, RequestDone, WorkerGoto
    <3>2. ~AsyncOperations
      BY DEF AsyncOperations, StartAsyncOperations, GetAsyncOperation, RunOperation, SkipOperation,
         OperationReturns, IsFinishingAsyncOperations, DrainAsyncExecList,
         DeleteAsyncOperationsExec, AsyncGoto, workerVars
    <3>3. ~UIMCallsProtocol /\ ~Finalize /\ ~(\E op \in Operations : PushAsyncOperation(op))
      BY DEF UIMCallsProtocol, Finalize, PushAsyncOperation, UIMGoto
    <3>4. ~FinalizeSteps
      BY DEF FinalizeSteps, AddFinalizerTimeout, WaitFinalizerEvent, FinishAsyncOperations,
         UnlockTerminatingMutex, JoinThread, EndJoinLoop, FollowDanglingIterator, QuitMainLoop,
         JoinServiceThread, DeleteProtocols, UIMGoto, workerVars
    <3>5. ~ServiceLoop /\ \A t \in Serialized : ~ProtocolMethod(t)
      BY DEF ServiceLoop, LoopStep, DispatchFinalizer, SetFinalizerEvent, ServiceThreadReturns,
         ProtocolMethod, workerVars, serviceVars
    <3>6. PICK c \in Creators : StartWorkerThread(c)
      BY <3>1, <3>2, <3>3, <3>4, <3>5 DEF ServiceNext
    <3>. QED
      BY <3>6 DEF StartWorkerThread, TestFinalizeInProgress, CreateThread
  <2>2. Starting(c)
    BY <2>1 DEF PushThread, Starting
  <2>3. c \notin Serialized \cup {Loop}
    BY <2>2 DEF ServiceInv, StoppedInv, UimInv, FinalizerPassed
  <2>4. c \in Requesters
    BY <2>2, <2>3 DEF ServiceInv, StarterInv, WorkerInv, InLibPurple, Creators
  <2>. QED
    BY <2>1, <2>4
<1>. QED
  BY <1>1, ServiceInvAlways, PTL DEF ServiceSpec, JoinLoopUndisturbed

\* The service adds nothing to the handshake of purpleprotocol.cpp that LibPurpleAccess
\* does not allow, for any set of workers.
THEOREM ServiceImplementsAccess == ServiceSpec => ImplementsLibPurpleAccess
<1>1. ServiceInit => AccessInit
  BY DEF ServiceInit
<1>2. [ServiceNext]_vars => [AccessNext]_accessVars
  BY ServiceAccessStep
<1>. QED
  BY <1>1, <1>2, PTL DEF ServiceSpec, ImplementsLibPurpleAccess, AccessSpec
=============================================================================
