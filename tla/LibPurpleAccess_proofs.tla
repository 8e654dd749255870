----------------------- MODULE LibPurpleAccess_proofs -----------------------
(***************************************************************************)
(* The handshake of LibPurpleAccess is right for every set of threads that *)
(* go through it, and implements LibPurpleOwner.                           *)
(***************************************************************************)
EXTENDS LibPurpleAccess, TLAPS

Owning == {"locked", "reset", "waiting", "inside", "released"}

\* The mutex belongs to the one thread that is between its lock and unlock.
MutexInv == \A t \in Serialized : pc[t] \in Owning <=> serializeMutex = t

\* A holder source belongs to the owner of the mutex, which waits for it.
SourceInv ==
  holderSources > 0 =>
    /\ holderSources = 1
    /\ \E t \in Serialized : serializeMutex = t /\ pc[t] = "waiting"
    /\ ~holdEvent
    /\ loopPc # "holder"
    /\ loopPc = "parked" => releaseEvent

\* The holder, between its Reset and its Set, serves the owner of the mutex.
HolderInv ==
  loopPc = "holder" =>
    /\ holderSources = 0
    /\ \E t \in Serialized : serializeMutex = t /\ pc[t] = "waiting"
    /\ ~holdEvent
    /\ ~releaseEvent

\* The holder, parked, waits for the owner of the mutex.
ParkedInv ==
  loopPc = "parked" /\ ~releaseEvent =>
    /\ holderSources = 0
    /\ \E t \in Serialized : serializeMutex = t /\ pc[t] \in {"waiting", "inside"}
    /\ holdEvent

\* Whoever sees the hold event signaled has the main loop parked for it.
HoldInv ==
  \A t \in Serialized :
    pc[t] = "inside" \/ (pc[t] \in {"reset", "waiting"} /\ holdEvent)
      => loopPc = "parked" /\ ~releaseEvent

\* The flag is set by the thread of the user interface alone.
FinalizeInv == finalizeInProgress => pc[UIMThread] = "finalizing"

HandshakeInv ==
  /\ AccessTypeOK
  /\ MutexInv
  /\ SourceInv
  /\ HolderInv
  /\ ParkedInv
  /\ HoldInv
  /\ FinalizeInv
  /\ WaiterHasHolder

\* The constructor of CPurpleProtocol, before Run, establishes the invariant.
LEMMA HandshakeInit == AccessInit => HandshakeInv
<1> SUFFICES ASSUME AccessInit PROVE HandshakeInv
  OBVIOUS
<1> USE DEF AccessInit
<1>1. AccessTypeOK
  BY DEF AccessTypeOK, LoopPc, ThreadPc
<1>2. MutexInv
  BY ThreadsAssumption DEF MutexInv, Owning
<1>3. SourceInv /\ HolderInv /\ ParkedInv /\ FinalizeInv
  BY DEF SourceInv, HolderInv, ParkedInv, FinalizeInv
<1>4. HoldInv /\ WaiterHasHolder
  BY DEF HoldInv, WaiterHasHolder
<1> QED
  BY <1>1, <1>2, <1>3, <1>4 DEF HandshakeInv

\* Every step of every thread keeps the types.
LEMMA TypeStep == AccessTypeOK /\ [AccessNext]_accessVars => AccessTypeOK'
<1> SUFFICES ASSUME AccessTypeOK, [AccessNext]_accessVars PROVE AccessTypeOK'
  OBVIOUS
<1> USE DEF AccessTypeOK
<1>1. ASSUME NEW t \in Serialized, WaitLibPurpleThreadAccess(t) PROVE AccessTypeOK'
  <2>1. CASE Admit(t)
    BY <2>1 DEF Admit, Goto, ThreadPc
  <2>2. CASE LockSerializeMutex(t)
    BY <2>2 DEF LockSerializeMutex, Goto, ThreadPc
  <2>3. CASE ResetHoldEvent(t)
    BY <2>3 DEF ResetHoldEvent, Goto, ThreadPc
  <2>4. CASE AddHolderTimeout(t)
    BY <2>4 DEF AddHolderTimeout, Goto, ThreadPc
  <2>5. CASE WaitHoldEvent(t)
    BY <2>5 DEF WaitHoldEvent, Goto, ThreadPc
  <2> QED
    BY <1>1, <2>1, <2>2, <2>3, <2>4, <2>5 DEF WaitLibPurpleThreadAccess
<1>2. ASSUME NEW t \in Serialized, ReleaseLibPurpleThreadAccess(t) PROVE AccessTypeOK'
  BY <1>2 DEF ReleaseLibPurpleThreadAccess, SetReleaseEvent, UnlockSerializeMutex, Goto,
     ThreadPc
<1>3. CASE Run \/ DispatchOther \/ ReturnFromDispatch
  BY <1>3 DEF Run, DispatchOther, ReturnFromDispatch, LoopPc
<1>4. CASE LibPurpleHolderMethod
  <2>1. CASE DispatchHolder
    <3>1. holderSources' \in Nat
      <4>1. holderSources \in Nat /\ holderSources > 0 /\ holderSources' = holderSources - 1
        BY <2>1 DEF DispatchHolder
      <4> QED
        BY <4>1
    <3>2. loopPc' \in LoopPc
      BY <2>1 DEF DispatchHolder, LoopPc
    <3> QED
      BY <2>1, <3>1, <3>2 DEF DispatchHolder
  <2>2. CASE SetHoldEvent
    BY <2>2 DEF SetHoldEvent, LoopPc
  <2>3. CASE WaitReleaseEvent
    BY <2>3 DEF WaitReleaseEvent, LoopPc
  <2> QED
    BY <1>4, <2>1, <2>2, <2>3 DEF LibPurpleHolderMethod
<1>5. ASSUME NEW w \in Workers, WorkerEnter(w) \/ WorkerLeave(w) PROVE AccessTypeOK'
  BY <1>5 DEF WorkerEnter, WorkerLeave
<1>6. CASE SetFinalizeInProgress
  BY <1>6, ThreadsAssumption DEF SetFinalizeInProgress, Goto, ThreadPc
<1>7. CASE UNCHANGED accessVars
  BY <1>7 DEF accessVars
<1> QED
  BY <1>1, <1>2, <1>3, <1>4, <1>5, <1>6, <1>7 DEF AccessNext

(***************************************************************************)
(* The rest of the invariant.  What a conjunct needs besides itself tells  *)
(* how the parts lean on each other: a thread that asks for the holder     *)
(* (AddHolderTimeout) finds neither a source, nor a holder, nor a parked   *)
(* loop of somebody else, because there is nobody else (MutexInv).         *)
(***************************************************************************)

\* The steps of WaitLibPurpleThreadAccess preserve the invariant.
LEMMA WaitStep ==
  ASSUME HandshakeInv, AccessTypeOK', NEW t \in Serialized, WaitLibPurpleThreadAccess(t)
  PROVE  HandshakeInv'
<1> USE DEF AccessTypeOK, Owning
<1>0. /\ AccessTypeOK /\ MutexInv /\ SourceInv /\ HolderInv /\ ParkedInv
      /\ HoldInv /\ FinalizeInv /\ WaiterHasHolder
  BY DEF HandshakeInv
<1>1. CASE Admit(t)
  <2>1. MutexInv' /\ SourceInv' /\ HolderInv' /\ ParkedInv' /\ HoldInv'
       /\ FinalizeInv' /\ WaiterHasHolder'
    BY <1>0, <1>1 DEF Admit, Goto, MutexInv, SourceInv, HolderInv, ParkedInv, HoldInv,
       FinalizeInv, WaiterHasHolder
  <2> QED
    BY <2>1 DEF HandshakeInv
<1>2. CASE LockSerializeMutex(t)
  <2>1. HoldInv' /\ FinalizeInv' /\ WaiterHasHolder'
    BY <1>0, <1>2 DEF LockSerializeMutex, Goto, HoldInv, FinalizeInv, WaiterHasHolder
  <2>2. MutexInv'
    BY <1>0, <1>2, ThreadsAssumption DEF LockSerializeMutex, Goto, MutexInv
  <2>3. SourceInv'
    BY <1>0, <1>2, ThreadsAssumption DEF LockSerializeMutex, Goto, SourceInv
  <2>4. HolderInv'
    BY <1>0, <1>2, ThreadsAssumption DEF LockSerializeMutex, Goto, HolderInv
  <2>5. ParkedInv'
    BY <1>0, <1>2, ThreadsAssumption DEF LockSerializeMutex, Goto, ParkedInv
  <2> QED
    BY <2>1, <2>2, <2>3, <2>4, <2>5 DEF HandshakeInv
<1>3. CASE ResetHoldEvent(t)
  <2>1. MutexInv' /\ SourceInv' /\ HolderInv' /\ HoldInv' /\ FinalizeInv'
    BY <1>0, <1>3 DEF ResetHoldEvent, Goto, MutexInv, SourceInv, HolderInv, HoldInv,
       FinalizeInv
  <2>2. ParkedInv'
    BY <1>0, <1>3 DEF ResetHoldEvent, Goto, MutexInv, ParkedInv
  <2>3. WaiterHasHolder'
    BY <1>0, <1>3 DEF ResetHoldEvent, Goto, MutexInv, WaiterHasHolder
  <2> QED
    BY <2>1, <2>2, <2>3 DEF HandshakeInv
<1>4. CASE AddHolderTimeout(t)
  <2>1. MutexInv' /\ HoldInv' /\ FinalizeInv'
    BY <1>0, <1>4 DEF AddHolderTimeout, Goto, MutexInv, HoldInv, FinalizeInv
  <2>2. SourceInv'
    BY <1>0, <1>4 DEF AddHolderTimeout, Goto, MutexInv, SourceInv, HolderInv, ParkedInv,
       HoldInv
  <2>3. HolderInv'
    BY <1>0, <1>4 DEF AddHolderTimeout, Goto, MutexInv, HolderInv
  <2>4. ParkedInv'
    BY <1>0, <1>4 DEF AddHolderTimeout, Goto, MutexInv, ParkedInv
  <2>5. WaiterHasHolder'
    BY <1>0, <1>4 DEF AddHolderTimeout, Goto, MutexInv, SourceInv, FinalizeInv,
       WaiterHasHolder
  <2> QED
    BY <2>1, <2>2, <2>3, <2>4, <2>5 DEF HandshakeInv
<1>5. CASE WaitHoldEvent(t)
  <2>1. MutexInv' /\ SourceInv' /\ HolderInv' /\ ParkedInv' /\ HoldInv'
       /\ FinalizeInv' /\ WaiterHasHolder'
    BY <1>0, <1>5 DEF WaitHoldEvent, Goto, MutexInv, SourceInv, HolderInv, ParkedInv,
       HoldInv, FinalizeInv, WaiterHasHolder
  <2> QED
    BY <2>1 DEF HandshakeInv
<1> QED
  BY <1>1, <1>2, <1>3, <1>4, <1>5 DEF WaitLibPurpleThreadAccess

\* The steps of ReleaseLibPurpleThreadAccess preserve the invariant.
LEMMA ReleaseStep ==
  ASSUME HandshakeInv, AccessTypeOK', NEW t \in Serialized, ReleaseLibPurpleThreadAccess(t)
  PROVE  HandshakeInv'
<1> USE DEF AccessTypeOK, Owning
<1>0. /\ AccessTypeOK /\ MutexInv /\ SourceInv /\ HolderInv /\ ParkedInv
      /\ HoldInv /\ FinalizeInv /\ WaiterHasHolder
  BY DEF HandshakeInv
<1>1. CASE SetReleaseEvent(t)
  <2>1. MutexInv' /\ SourceInv' /\ ParkedInv' /\ FinalizeInv' /\ WaiterHasHolder'
    BY <1>0, <1>1 DEF SetReleaseEvent, Goto, MutexInv, SourceInv, ParkedInv, FinalizeInv,
       WaiterHasHolder
  <2>2. HolderInv'
    BY <1>0, <1>1 DEF SetReleaseEvent, Goto, HolderInv, HoldInv
  <2>3. HoldInv'
    BY <1>0, <1>1 DEF SetReleaseEvent, Goto, MutexInv, HoldInv
  <2> QED
    BY <2>1, <2>2, <2>3 DEF HandshakeInv
<1>2. CASE UnlockSerializeMutex(t)
  <2>1. HoldInv' /\ FinalizeInv' /\ WaiterHasHolder'
    BY <1>0, <1>2 DEF UnlockSerializeMutex, Goto, HoldInv, FinalizeInv, WaiterHasHolder
  <2>2. MutexInv'
    BY <1>0, <1>2, ThreadsAssumption DEF UnlockSerializeMutex, Goto, MutexInv
  <2>3. SourceInv'
    BY <1>0, <1>2 DEF UnlockSerializeMutex, Goto, MutexInv, SourceInv
  <2>4. HolderInv'
    BY <1>0, <1>2 DEF UnlockSerializeMutex, Goto, MutexInv, HolderInv
  <2>5. ParkedInv'
    BY <1>0, <1>2 DEF UnlockSerializeMutex, Goto, MutexInv, ParkedInv
  <2> QED
    BY <2>1, <2>2, <2>3, <2>4, <2>5 DEF HandshakeInv
<1> QED
  BY <1>1, <1>2 DEF ReleaseLibPurpleThreadAccess

\* The steps of the main loop preserve the invariant.
LEMMA ServiceLoopStep ==
  ASSUME HandshakeInv, AccessTypeOK', Run \/ LibPurpleHolderMethod \/ DispatchOther \/ ReturnFromDispatch
  PROVE  HandshakeInv'
<1> USE DEF AccessTypeOK, Owning
<1>0. /\ AccessTypeOK /\ MutexInv /\ SourceInv /\ HolderInv /\ ParkedInv
      /\ HoldInv /\ FinalizeInv /\ WaiterHasHolder
  BY DEF HandshakeInv
<1>1. CASE Run
  <2>1. MutexInv' /\ SourceInv' /\ HolderInv' /\ ParkedInv' /\ HoldInv'
       /\ FinalizeInv' /\ WaiterHasHolder'
    BY <1>0, <1>1 DEF Run, MutexInv, SourceInv, HolderInv, ParkedInv, HoldInv,
       FinalizeInv, WaiterHasHolder
  <2> QED
    BY <2>1 DEF HandshakeInv
<1>2. CASE DispatchHolder
  <2>1. MutexInv' /\ SourceInv' /\ ParkedInv' /\ HoldInv' /\ FinalizeInv'
       /\ WaiterHasHolder'
    BY <1>0, <1>2 DEF DispatchHolder, MutexInv, SourceInv, ParkedInv, HoldInv,
       FinalizeInv, WaiterHasHolder
  <2>2. HolderInv'
    BY <1>0, <1>2 DEF DispatchHolder, SourceInv, HolderInv
  <2> QED
    BY <2>1, <2>2 DEF HandshakeInv
<1>3. CASE SetHoldEvent
  <2>1. MutexInv' /\ SourceInv' /\ HolderInv' /\ FinalizeInv' /\ WaiterHasHolder'
    BY <1>0, <1>3 DEF SetHoldEvent, MutexInv, SourceInv, HolderInv, FinalizeInv,
       WaiterHasHolder
  <2>2. ParkedInv'
    BY <1>0, <1>3 DEF SetHoldEvent, HolderInv, ParkedInv
  <2>3. HoldInv'
    BY <1>0, <1>3 DEF SetHoldEvent, HolderInv, HoldInv
  <2> QED
    BY <2>1, <2>2, <2>3 DEF HandshakeInv
<1>4. CASE WaitReleaseEvent
  <2>1. MutexInv' /\ SourceInv' /\ HolderInv' /\ ParkedInv' /\ HoldInv'
       /\ FinalizeInv' /\ WaiterHasHolder'
    BY <1>0, <1>4 DEF WaitReleaseEvent, MutexInv, SourceInv, HolderInv, ParkedInv,
       HoldInv, FinalizeInv, WaiterHasHolder
  <2> QED
    BY <2>1 DEF HandshakeInv
<1>5. CASE DispatchOther
  <2>1. MutexInv' /\ SourceInv' /\ HolderInv' /\ ParkedInv' /\ HoldInv'
       /\ FinalizeInv' /\ WaiterHasHolder'
    BY <1>0, <1>5 DEF DispatchOther, MutexInv, SourceInv, HolderInv, ParkedInv, HoldInv,
       FinalizeInv, WaiterHasHolder
  <2> QED
    BY <2>1 DEF HandshakeInv
<1>6. CASE ReturnFromDispatch
  <2>1. MutexInv' /\ SourceInv' /\ HolderInv' /\ ParkedInv' /\ HoldInv'
       /\ FinalizeInv' /\ WaiterHasHolder'
    BY <1>0, <1>6 DEF ReturnFromDispatch, MutexInv, SourceInv, HolderInv, ParkedInv,
       HoldInv, FinalizeInv, WaiterHasHolder
  <2> QED
    BY <2>1 DEF HandshakeInv
<1> QED
  BY <1>1, <1>2, <1>3, <1>4, <1>5, <1>6 DEF LibPurpleHolderMethod

\* CPurpleService::Finalize preserves the invariant.
LEMMA FinalizeStep ==
  ASSUME HandshakeInv, AccessTypeOK', SetFinalizeInProgress
  PROVE  HandshakeInv'
<1> USE DEF AccessTypeOK, Owning
<1>0. /\ AccessTypeOK /\ MutexInv /\ SourceInv /\ HolderInv /\ ParkedInv
      /\ HoldInv /\ FinalizeInv /\ WaiterHasHolder
  BY DEF HandshakeInv
<1>1. CASE SetFinalizeInProgress
  <2>1. MutexInv' /\ SourceInv' /\ HolderInv' /\ ParkedInv' /\ HoldInv'
       /\ FinalizeInv' /\ WaiterHasHolder'
    BY <1>0, <1>1 DEF SetFinalizeInProgress, Goto, MutexInv, SourceInv, HolderInv,
       ParkedInv, HoldInv, FinalizeInv, WaiterHasHolder
  <2> QED
    BY <2>1 DEF HandshakeInv
<1> QED
  BY <1>1

\* The invariant is inductive.
LEMMA HandshakeStep == HandshakeInv /\ [AccessNext]_accessVars => HandshakeInv'
<1> SUFFICES ASSUME HandshakeInv, [AccessNext]_accessVars PROVE HandshakeInv'
  OBVIOUS
<1>1. AccessTypeOK'
  BY TypeStep DEF HandshakeInv
<1>2. ASSUME NEW t \in Serialized, WaitLibPurpleThreadAccess(t) PROVE HandshakeInv'
  BY <1>1, <1>2, WaitStep
<1>3. ASSUME NEW t \in Serialized, ReleaseLibPurpleThreadAccess(t) PROVE HandshakeInv'
  BY <1>1, <1>3, ReleaseStep
<1>4. CASE Run \/ LibPurpleHolderMethod \/ DispatchOther \/ ReturnFromDispatch
  BY <1>1, <1>4, ServiceLoopStep
<1>5. CASE SetFinalizeInProgress
  BY <1>1, <1>5, FinalizeStep
<1>6. ASSUME UNCHANGED <<serializeMutex, holdEvent, releaseEvent, holderSources, loopPc,
                         pc, finalizeInProgress>>
      PROVE HandshakeInv'
  BY <1>1, <1>6 DEF HandshakeInv, MutexInv, SourceInv, HolderInv, ParkedInv, HoldInv,
     FinalizeInv, WaiterHasHolder
<1>7. CASE UNCHANGED accessVars
  BY <1>6, <1>7 DEF accessVars
<1>8. ASSUME NEW w \in Workers, WorkerEnter(w) \/ WorkerLeave(w) PROVE HandshakeInv'
  BY <1>6, <1>8 DEF WorkerEnter, WorkerLeave
<1> QED
  BY <1>2, <1>3, <1>4, <1>5, <1>7, <1>8 DEF AccessNext

\* The invariant holds in every reachable state.
LEMMA HandshakeAlways == AccessSpec => []HandshakeInv
  BY HandshakeInit, HandshakeStep, PTL DEF AccessSpec

\* The types, for any set of threads: AccessTypeOK of the handshake in purpleprotocol.cpp.
THEOREM TypeCorrect == AccessSpec => []AccessTypeOK
<1>1. HandshakeInv => AccessTypeOK
  BY DEF HandshakeInv
<1> QED
  BY <1>1, HandshakeAlways, PTL

\* Exclusive access to libpurple, for any set of threads that take the handshake.
THEOREM Exclusive == AccessSpec => []ExclusiveAccess
<1>1. HandshakeInv => ExclusiveAccess
  BY DEF HandshakeInv, MutexInv, HoldInv, Owning, ExclusiveAccess, Inside
<1> QED
  BY <1>1, HandshakeAlways, PTL

\* LibPurpleHolderMethod never parks the main loop without somebody to release it.
THEOREM NeverParkedForNobody == AccessSpec => []ParkedForSomebody
<1>1. HandshakeInv => ParkedForSomebody
  BY DEF HandshakeInv, AccessTypeOK, SourceInv, HolderInv, ParkedInv, ParkedForSomebody
<1> QED
  BY <1>1, HandshakeAlways, PTL

\* WaitLibPurpleThreadAccess is never let through by the event of an earlier handshake.
THEOREM FreshHoldEvent == AccessSpec => []HoldEventIsFresh
<1>1. HandshakeInv => HoldEventIsFresh
  BY DEF HandshakeInv, HoldInv, HoldEventIsFresh
<1> QED
  BY <1>1, HandshakeAlways, PTL

\* Until CPurpleService::Finalize is called no thread waits for a holder that was not
\* scheduled.
THEOREM HolderOnItsWay == AccessSpec => []WaiterHasHolder
<1>1. HandshakeInv => WaiterHasHolder
  BY DEF HandshakeInv
<1> QED
  BY <1>1, HandshakeAlways, PTL

(***************************************************************************)
(* The handshake implements LibPurpleOwner.                                *)
(***************************************************************************)
\* The initial states map to the one initial state: libpurple is free.
LEMMA OwnerInit == AccessInit => Owner!Init
  BY DEF AccessInit, Owner!Init, libPurpleOwner, Inside

\* Every step maps to a change of owner or to a stutter.
LEMMA OwnerStep ==
  HandshakeInv /\ [AccessNext]_accessVars => [Owner!Next]_libPurpleOwner
<1> SUFFICES ASSUME HandshakeInv, [AccessNext]_accessVars
             PROVE  Owner!Next \/ UNCHANGED libPurpleOwner
  OBVIOUS
<1> USE DEF libPurpleOwner, Inside
<1>1. HandshakeInv'
  BY HandshakeStep
<1>2. /\ AccessTypeOK /\ AccessTypeOK'
      /\ MutexInv /\ MutexInv'
      /\ HoldInv /\ HoldInv'
  BY <1>1 DEF HandshakeInv
<1>3. ASSUME NEW t \in Serialized, WaitHoldEvent(t) PROVE Owner!Acquire(t)
  BY <1>2, <1>3 DEF WaitHoldEvent, Goto, AccessTypeOK, MutexInv, HoldInv, Owning, Owner!Acquire
<1>4. ASSUME NEW t \in Serialized, SetReleaseEvent(t) PROVE Owner!Release(t)
  BY <1>2, <1>4 DEF SetReleaseEvent, Goto, AccessTypeOK, MutexInv, HoldInv, Owning, Owner!Release
<1>5. ASSUME loopPc # "parked" PROVE Inside = {}
  BY <1>2, <1>5 DEF HoldInv
<1>6. ASSUME loopPc' # "parked" PROVE Inside' = {}
  BY <1>2, <1>6 DEF HoldInv
<1>7. ASSUME DispatchOther PROVE Owner!Acquire(Loop)
  BY <1>5, <1>7 DEF DispatchOther, Owner!Acquire
<1>8. ASSUME ReturnFromDispatch PROVE Owner!Release(Loop)
  BY <1>6, <1>8 DEF ReturnFromDispatch, Owner!Release
<1>9. ASSUME NEW t \in Serialized,
             Admit(t) \/ LockSerializeMutex(t) \/ ResetHoldEvent(t) \/ AddHolderTimeout(t)
      PROVE  UNCHANGED libPurpleOwner
  <2>1. Inside' = Inside /\ loopPc' = loopPc
    BY <1>2, <1>9 DEF Admit, LockSerializeMutex, ResetHoldEvent, AddHolderTimeout, Goto,
       AccessTypeOK
  <2>2. Inside # {} => serializeMutex' = serializeMutex
    BY <1>2, <1>9 DEF Admit, LockSerializeMutex, ResetHoldEvent, AddHolderTimeout, Goto,
       AccessTypeOK, MutexInv, Owning
  <2> QED
    BY <2>1, <2>2
<1>10. ASSUME NEW t \in Serialized, UnlockSerializeMutex(t) PROVE UNCHANGED libPurpleOwner
  <2>1. Inside' = {} /\ Inside = {} /\ loopPc' = loopPc
    BY <1>2, <1>10 DEF UnlockSerializeMutex, Goto, AccessTypeOK, MutexInv, Owning
  <2> QED
    BY <2>1
<1>11. CASE Run \/ LibPurpleHolderMethod
  BY <1>11 DEF Run, LibPurpleHolderMethod, DispatchHolder, SetHoldEvent, WaitReleaseEvent
<1>12. ASSUME NEW w \in Workers, WorkerEnter(w) \/ WorkerLeave(w)
       PROVE  UNCHANGED libPurpleOwner
  BY <1>12 DEF WorkerEnter, WorkerLeave
<1>13. CASE SetFinalizeInProgress
  <2>1. Inside' = Inside /\ loopPc' = loopPc /\ serializeMutex' = serializeMutex
    BY <1>2, <1>13 DEF SetFinalizeInProgress, Goto, AccessTypeOK
  <2> QED
    BY <2>1
<1>14. CASE UNCHANGED accessVars
  BY <1>14 DEF accessVars
<1>15. \A u \in Serialized \cup {Loop} :
         Owner!Acquire(u) \/ Owner!Release(u) => Owner!Next
  BY DEF Owner!Next
<1> QED
  BY <1>3, <1>4, <1>7, <1>8, <1>9, <1>10, <1>11, <1>12, <1>13, <1>14, <1>15
     DEF AccessNext, WaitLibPurpleThreadAccess, ReleaseLibPurpleThreadAccess

\* The handshake of purpleprotocol.cpp gives libpurple to one owner at a time, and it
\* changes hands only through its being free, for any set of threads that take it.
THEOREM Refinement == AccessSpec => ImplementsLibPurpleOwner
<1>1. AccessInit => Owner!Init
  BY OwnerInit
<1>2. HandshakeInv /\ [AccessNext]_accessVars => [Owner!Next]_libPurpleOwner
  BY OwnerStep
<1> QED
  BY <1>1, <1>2, HandshakeAlways, PTL DEF AccessSpec, ImplementsLibPurpleOwner, Owner!Spec
=============================================================================
