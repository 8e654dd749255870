--------------------------- MODULE LibPurpleAccess ---------------------------
(***************************************************************************)
(* libpurple is not thread safe: it belongs to the thread that runs the    *)
(* GLib main loop (CPurpleService::PurpleServiceThread).  The other        *)
(* threads of the messenger borrow it through a handshake implemented by   *)
(* CPurpleProtocol in purpleprotocol.cpp:                                  *)
(*                                                                         *)
(*   borrower  WaitLibPurpleThreadAccess     lock; Reset(hold);            *)
(*                                           purple_timeout_add(Holder);   *)
(*                                           Wait(hold)                    *)
(*   main loop LibPurpleHolderMethod         Reset(release); Set(hold);    *)
(*                                           Wait(release)                 *)
(*   borrower  ReleaseLibPurpleThreadAccess  Set(release); unlock          *)
(*                                                                         *)
(* Only the threads whose id the service remembers (the thread of the user *)
(* interface and the one of the asynchronous operations) go through the    *)
(* handshake; every other thread is let through without it.                *)
(***************************************************************************)
EXTENDS Integers

CONSTANTS
  Serialized,  \* threads that pass the thread id test of Wait/ReleaseLibPurpleThreadAccess
  UIMThread,   \* the one of them that also runs CPurpleService::Finalize
  Workers,     \* threads made by CPurpleService::StartWorkerThread
  Loop,        \* the thread that runs the GLib main loop
  NoThread     \* nobody

ASSUME ThreadsAssumption ==
  /\ UIMThread \in Serialized
  /\ Serialized \cap Workers = {}
  /\ Loop \notin Serialized \cup Workers
  /\ NoThread \notin Serialized \cup Workers \cup {Loop}

VARIABLES
  serializeMutex,     \* owner of m_pUIMMultipleThreadSerializeMutex, or NoThread
  holdEvent,          \* m_libPurpleHoldEvent is signaled
  releaseEvent,       \* m_libPurpleReleaseEvent is signaled
  holderSources,      \* LibPurpleHolderMethod sources waiting in the main loop
  loopPc,             \* what the main loop is doing
  pc,                 \* where each thread of Serialized is in a protocol method
  workersIn,          \* workers that are executing libpurple code
  finalizeInProgress  \* CPurpleService::m_nFinalizeInProgress

accessVars == <<serializeMutex, holdEvent, releaseEvent, holderSources,
                loopPc, pc, workersIn, finalizeInProgress>>

LoopPc == {"starting", "poll", "dispatch", "holder", "parked"}
ThreadPc == {"idle", "admitted", "locked", "reset", "waiting", "inside", "released",
             "finalizing"}

\* The types of the handshake; holder sources are counted, never below zero.
AccessTypeOK ==
  /\ serializeMutex \in Serialized \cup {NoThread}
  /\ holdEvent \in BOOLEAN
  /\ releaseEvent \in BOOLEAN
  /\ holderSources \in Nat
  /\ loopPc \in LoopPc
  /\ pc \in [Serialized -> ThreadPc]
  /\ workersIn \in SUBSET Workers
  /\ finalizeInProgress \in BOOLEAN

\* The constructor creates both events as manual-reset and signaled.
AccessInit ==
  /\ serializeMutex = NoThread
  /\ holdEvent = TRUE
  /\ releaseEvent = TRUE
  /\ holderSources = 0
  /\ loopPc = "starting"
  /\ pc = [t \in Serialized |-> "idle"]
  /\ workersIn = {}
  /\ finalizeInProgress = FALSE

Goto(t, from, to) ==
  /\ pc[t] = from
  /\ pc' = [pc EXCEPT ![t] = to]

-----------------------------------------------------------------------------
(* A thread of Serialized runs one protocol method (Connect, Disconnect,    *)
(* AddContact, SendIM, SetUserStatus, ...).                                 *)

\* The asynchronous thread looks at FinalizeInProgress before it runs an
\* operation; the thread of the user interface is the one that sets it.
Admit(t) ==
  /\ ~finalizeInProgress
  /\ Goto(t, "idle", "admitted")
  /\ UNCHANGED <<serializeMutex, holdEvent, releaseEvent, holderSources,
                 loopPc, workersIn, finalizeInProgress>>

\* Mutant: the mutex is not waited for.
LockWithoutWaiting(t) ==
  /\ Goto(t, "admitted", "locked")
  /\ serializeMutex' = t
  /\ UNCHANGED <<holdEvent, releaseEvent, holderSources, loopPc, workersIn,
                 finalizeInProgress>>

LockSerializeMutex(t) ==
  /\ serializeMutex = NoThread
  /\ Goto(t, "admitted", "locked")
  /\ serializeMutex' = t
  /\ UNCHANGED <<holdEvent, releaseEvent, holderSources, loopPc, workersIn,
                 finalizeInProgress>>

\* Mutant: the hold event keeps the value that the last handshake left.
KeepHoldEvent(t) ==
  /\ Goto(t, "locked", "reset")
  /\ UNCHANGED <<serializeMutex, holdEvent, releaseEvent, holderSources, loopPc,
                 workersIn, finalizeInProgress>>

ResetHoldEvent(t) ==
  /\ Goto(t, "locked", "reset")
  /\ holdEvent' = FALSE
  /\ UNCHANGED <<serializeMutex, releaseEvent, holderSources, loopPc, workersIn,
                 finalizeInProgress>>

\* Mutant: no source is added while the main loop is busy with another one.
AddHolderTimeoutIfIdle(t) ==
  /\ Goto(t, "reset", "waiting")
  /\ holderSources' = IF loopPc = "dispatch" THEN holderSources ELSE holderSources + 1
  /\ UNCHANGED <<serializeMutex, holdEvent, releaseEvent, loopPc, workersIn,
                 finalizeInProgress>>

\* purple_timeout_add reaches CPurpleService::EventLoopTimeoutAdd, which
\* schedules nothing once the service is being finalized.
AddHolderTimeout(t) ==
  /\ Goto(t, "reset", "waiting")
  /\ holderSources' = IF finalizeInProgress THEN holderSources ELSE holderSources + 1
  /\ UNCHANGED <<serializeMutex, holdEvent, releaseEvent, loopPc, workersIn,
                 finalizeInProgress>>

WaitHoldEvent(t) ==
  /\ holdEvent
  /\ Goto(t, "waiting", "inside")
  /\ UNCHANGED <<serializeMutex, holdEvent, releaseEvent, holderSources, loopPc,
                 workersIn, finalizeInProgress>>

\* Mutant: an early return of a protocol method that unlocks, but does not set
\* the release event.
ForgetReleaseEvent(t) ==
  /\ Goto(t, "inside", "released")
  /\ UNCHANGED <<serializeMutex, holdEvent, releaseEvent, holderSources, loopPc,
                 workersIn, finalizeInProgress>>

SetReleaseEvent(t) ==
  /\ Goto(t, "inside", "released")
  /\ releaseEvent' = TRUE
  /\ UNCHANGED <<serializeMutex, holdEvent, holderSources, loopPc, workersIn,
                 finalizeInProgress>>

UnlockSerializeMutex(t) ==
  /\ Goto(t, "released", "idle")
  /\ serializeMutex' = NoThread
  /\ UNCHANGED <<holdEvent, releaseEvent, holderSources, loopPc, workersIn,
                 finalizeInProgress>>

-----------------------------------------------------------------------------
(* The main loop.                                                           *)

\* CPurpleService::Run, on the thread that Init created: it clears the flags of
\* an earlier finalization before it enters the main loop.
Run ==
  /\ loopPc = "starting"
  /\ loopPc' = "poll"
  /\ finalizeInProgress' = FALSE
  /\ UNCHANGED <<serializeMutex, holdEvent, releaseEvent, holderSources, pc, workersIn>>

\* Mutant: LibPurpleHolderMethod returns TRUE, and GLib keeps its source.
DispatchAndKeepHolder ==
  /\ loopPc = "poll"
  /\ holderSources > 0
  /\ releaseEvent' = FALSE
  /\ loopPc' = "holder"
  /\ UNCHANGED <<serializeMutex, holdEvent, holderSources, pc, workersIn,
                 finalizeInProgress>>

\* Mutant: the holder runs without a source that asks for it.
DispatchUnaskedHolder ==
  /\ loopPc = "poll"
  /\ holderSources' = holderSources - 1
  /\ releaseEvent' = FALSE
  /\ loopPc' = "holder"
  /\ UNCHANGED <<serializeMutex, holdEvent, pc, workersIn, finalizeInProgress>>

\* The loop dispatches a LibPurpleHolderMethod source: the method returns
\* FALSE, so its source is consumed.  It first resets the release event.
DispatchHolder ==
  /\ loopPc = "poll"
  /\ holderSources > 0
  /\ holderSources' = holderSources - 1
  /\ releaseEvent' = FALSE
  /\ loopPc' = "holder"
  /\ UNCHANGED <<serializeMutex, holdEvent, pc, workersIn, finalizeInProgress>>

\* Mutant: the holder parks without setting the hold event.
ParkSilently ==
  /\ loopPc = "holder"
  /\ loopPc' = "parked"
  /\ UNCHANGED <<serializeMutex, holdEvent, releaseEvent, holderSources, pc, workersIn,
                 finalizeInProgress>>

SetHoldEvent ==
  /\ loopPc = "holder"
  /\ holdEvent' = TRUE
  /\ loopPc' = "parked"
  /\ UNCHANGED <<serializeMutex, releaseEvent, holderSources, pc, workersIn,
                 finalizeInProgress>>

WaitReleaseEvent ==
  /\ loopPc = "parked"
  /\ releaseEvent
  /\ loopPc' = "poll"
  /\ UNCHANGED <<serializeMutex, holdEvent, releaseEvent, holderSources, pc,
                 workersIn, finalizeInProgress>>

\* Any other source (a socket, a libpurple timer) runs libpurple code.
DispatchOther ==
  /\ loopPc = "poll"
  /\ loopPc' = "dispatch"
  /\ UNCHANGED <<serializeMutex, holdEvent, releaseEvent, holderSources, pc,
                 workersIn, finalizeInProgress>>

ReturnFromDispatch ==
  /\ loopPc = "dispatch"
  /\ loopPc' = "poll"
  /\ UNCHANGED <<serializeMutex, holdEvent, releaseEvent, holderSources, pc,
                 workersIn, finalizeInProgress>>

-----------------------------------------------------------------------------
(* A worker thread calls libpurple (the answer of the user to a request; an *)
(* authorization goes on with MoveContact and AddContact): its thread id    *)
(* fails the test of WaitLibPurpleThreadAccess and it goes straight on.  It *)
(* looked at FinalizeInProgress when it started, before the user answered.  *)
WorkerEnter(w) ==
  /\ w \notin workersIn
  /\ workersIn' = workersIn \cup {w}
  /\ UNCHANGED <<serializeMutex, holdEvent, releaseEvent, holderSources, loopPc,
                 pc, finalizeInProgress>>

WorkerLeave(w) ==
  /\ w \in workersIn
  /\ workersIn' = workersIn \ {w}
  /\ UNCHANGED <<serializeMutex, holdEvent, releaseEvent, holderSources, loopPc,
                 pc, finalizeInProgress>>

\* CPurpleService::Finalize, called by the thread of the user interface, which
\* calls no protocol method afterwards.
SetFinalizeInProgress ==
  /\ Goto(UIMThread, "idle", "finalizing")
  /\ finalizeInProgress' = TRUE
  /\ UNCHANGED <<serializeMutex, holdEvent, releaseEvent, holderSources, loopPc,
                 workersIn>>

-----------------------------------------------------------------------------
WaitLibPurpleThreadAccess(t) ==
  \/ Admit(t)
  \/ LockSerializeMutex(t)
  \/ ResetHoldEvent(t)
  \/ AddHolderTimeout(t)
  \/ WaitHoldEvent(t)

ReleaseLibPurpleThreadAccess(t) ==
  \/ SetReleaseEvent(t)
  \/ UnlockSerializeMutex(t)

LibPurpleHolderMethod ==
  \/ DispatchHolder
  \/ SetHoldEvent
  \/ WaitReleaseEvent

AccessNext ==
  \/ \E t \in Serialized : WaitLibPurpleThreadAccess(t)
  \/ \E t \in Serialized : ReleaseLibPurpleThreadAccess(t)
  \/ Run
  \/ LibPurpleHolderMethod
  \/ DispatchOther
  \/ ReturnFromDispatch
  \/ \E w \in Workers : WorkerEnter(w) \/ WorkerLeave(w)
  \/ SetFinalizeInProgress

AccessSpec == AccessInit /\ [][AccessNext]_accessVars

\* A thread that has been given the processor finishes its method, and so
\* does the main loop.  GLib dispatches every ready source of an iteration,
\* so a holder source is not passed over for ever.  The mutex is not fair.
AccessFairness ==
  /\ \A t \in Serialized :
       /\ WF_accessVars(ResetHoldEvent(t))
       /\ WF_accessVars(AddHolderTimeout(t))
       /\ WF_accessVars(WaitHoldEvent(t))
       /\ WF_accessVars(ReleaseLibPurpleThreadAccess(t))
  /\ WF_accessVars(Run)
  /\ SF_accessVars(DispatchHolder)
  /\ WF_accessVars(SetHoldEvent)
  /\ WF_accessVars(WaitReleaseEvent)
  /\ WF_accessVars(ReturnFromDispatch)

FairAccessSpec == AccessSpec /\ AccessFairness

-----------------------------------------------------------------------------
(* What the handshake promises.                                             *)

Inside == {t \in Serialized : pc[t] = "inside"}

\* While a thread is inside libpurple no other thread of Serialized is, and
\* the main loop is parked in LibPurpleHolderMethod with the release event
\* still reset: it can neither dispatch a source nor slip out of the holder.
ExclusiveAccess ==
  \A t \in Inside :
    /\ Inside = {t}
    /\ loopPc = "parked"
    /\ ~releaseEvent

\* The main loop is never parked, nor about to park, with nobody left to set
\* the release event: it froze every account if it were.
ParkedForSomebody ==
  /\ loopPc = "holder" \/ (loopPc = "parked" /\ ~releaseEvent)
       => \E t \in Serialized : pc[t] \in {"waiting", "inside"}
  /\ holderSources > 0 => \E t \in Serialized : pc[t] = "waiting"
  /\ holderSources <= 1

\* A signaled hold event answers the request of the thread that waits on it:
\* it is never left over from an earlier handshake.
HoldEventIsFresh ==
  \A t \in Serialized :
    pc[t] \in {"reset", "waiting"} /\ holdEvent => loopPc = "parked" /\ ~releaseEvent

\* A thread that waits on the hold event has its holder on the way, unless
\* CPurpleService::Finalize has been called.
WaiterHasHolder ==
  \A t \in Serialized :
    pc[t] = "waiting" /\ pc[UIMThread] # "finalizing"
      => holdEvent \/ holderSources = 1 \/ loopPc = "holder"

\* Whoever waits for libpurple gets it, unless the service is finalized
\* before the holder source was scheduled.
WaitersGetIn ==
  \A t \in Serialized :
    pc[t] = "waiting" ~> pc[t] = "inside" \/ pc[UIMThread] = "finalizing"

\* The main loop always gets libpurple back, whatever finalization does.
LoopResumes == loopPc = "parked" ~> loopPc = "poll"

\* The comments of CPurpleService::Finalize: once "FinalizeInProgress" is set
\* purple_timeout_add is not used any more.  Not so: see the README.
NoTimeoutAddOnceFinalizing ==
  [][finalizeInProgress => \A t \in Serialized : ~AddHolderTimeout(t)]_accessVars

\* The comment above the static events of CPurpleProtocol: libpurple is
\* accessed through one protocol instance at a time.  Not so: the workers are
\* let in without the handshake.
OneThreadInLibPurple ==
  \A w \in workersIn : Inside = {} /\ loopPc # "dispatch"

(* The abstract view: libpurple has at most one owner at a time.            *)
libPurpleOwner ==
  IF loopPc = "dispatch" THEN Loop
  ELSE IF Inside # {} THEN serializeMutex
  ELSE NoThread

Owner == INSTANCE LibPurpleOwner WITH
  Users <- Serialized \cup {Loop}, Nobody <- NoThread, owner <- libPurpleOwner

ImplementsLibPurpleOwner == Owner!Spec
=============================================================================
