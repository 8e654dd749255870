------------------------------ MODULE DiskCache ------------------------------
(***************************************************************************)
(* CDiskCacheManager and its CDownloadScheduler: the thread of the user    *)
(* interface schedules downloads of URLs and finalizes the cache, a thread *)
(* of its own downloads them one by one into temporary files and calls the *)
(* manager back.  The index of the entries is saved when the application   *)
(* ends, which it may fail to do in order.                                 *)
(***************************************************************************)
EXTENDS Naturals, Sequences

CONSTANTS
  Urls,
  Paths,             \* names GetTempFileName can give in the directory of the cache
  NoPath,
  MaxFetches         \* bound: fetches over all the runs of the application

ASSUME CacheAssumption ==
  /\ NoPath \notin Paths
  /\ MaxFetches \in Nat

VARIABLES
  uimPc,             \* the thread of the user interface
  fetches,           \* the fetches so far: fetch f is of the URL fetches[f]
  registered,        \* the manager is registered with m_observerNotifier
  stop,              \* CDownloadScheduler::m_nStop
  queueNotEmpty,     \* m_eventQueueNotEmpty
  downloads,         \* m_listDownloads
  runPc,             \* the thread in CDownloadScheduler::Run
  inHand,            \* the download it executes, in a sequence of at most one
  observers,         \* m_mapEntryObservers: the fetch that registered last, 0 if none
  entries,           \* m_mapEntries
  index,             \* what index.dat holds
  files,             \* the *.tmp files in the directory of the cache
  answered,          \* history: fetches whose observer has been called
  missed,            \* history: fetches whose download found no observer, or another's
  takenAfterStop     \* history: Run emptied the queue after StopAll

queueVars == <<stop, queueNotEmpty, downloads>>
answerVars == <<observers, answered, missed>>
diskVars == <<entries, index, files>>
vars == <<uimPc, fetches, registered, queueVars, runPc, inHand, answerVars, diskVars,
          takenAfterStop>>

FetchIds == 1 .. MaxFetches
NoEntries == [u \in Urls |-> NoPath]
Downloads == [fetch : FetchIds, path : Paths]
Cached(e) == {e[u] : u \in Urls} \ {NoPath}

UimPcs == {"down", "crashed", "running", "register", "unregistered", "stopping", "joining",
           "saving", "clearing"}
RunPcs == {"none", "waiting", "awake", "taking", "downloading", "complete", "answering",
           "removing"}

\* The types of the variables; what is scheduled always has a file of its own name.
CacheTypeOK ==
  /\ uimPc \in UimPcs
  /\ fetches \in Seq(Urls) /\ Len(fetches) <= MaxFetches
  /\ registered \in BOOLEAN
  /\ stop \in BOOLEAN
  /\ queueNotEmpty \in BOOLEAN
  /\ downloads \in Seq(Downloads)
  /\ runPc \in RunPcs
  /\ inHand \in Seq([fetch : FetchIds, path : Paths, ok : BOOLEAN])
  /\ observers \in [Urls -> 0 .. MaxFetches]
  /\ entries \in [Urls -> Paths \cup {NoPath}]
  /\ index \in [Urls -> Paths \cup {NoPath}]
  /\ files \in SUBSET Paths
  /\ answered \in SUBSET FetchIds
  /\ missed \in SUBSET FetchIds
  /\ takenAfterStop \in BOOLEAN

CacheInit ==
  /\ uimPc = "down"
  /\ fetches = <<>>
  /\ registered = FALSE
  /\ stop = FALSE
  /\ queueNotEmpty = FALSE
  /\ downloads = <<>>
  /\ runPc = "none"
  /\ inHand = <<>>
  /\ observers = [u \in Urls |-> 0]
  /\ entries = NoEntries
  /\ index = NoEntries
  /\ files = {}
  /\ answered = {}
  /\ missed = {}
  /\ takenAfterStop = FALSE

-----------------------------------------------------------------------------
(* The thread of the user interface.                                        *)

UIMGoto(from, to) == uimPc = from /\ uimPc' = to

\* Mutant: an entry is loaded whether or not its file is there.
LoadEveryEntry == entries' = index

\* LoadCacheEntries: an entry whose file is not there is dropped.
LoadCacheEntries ==
  entries' = [u \in Urls |-> IF index[u] \in files THEN index[u] ELSE NoPath]

\* Of a new process: the thread waits on an event that is not set.
Init ==
  /\ uimPc \in {"down", "crashed"}
  /\ uimPc' = "running"
  /\ registered' = TRUE
  /\ stop' = FALSE
  /\ queueNotEmpty' = FALSE
  /\ downloads' = <<>>
  /\ runPc' = "waiting"
  /\ inHand' = <<>>
  /\ observers' = [u \in Urls |-> 0]
  /\ takenAfterStop' = FALSE
  /\ LoadCacheEntries
  /\ UNCHANGED <<fetches, index, files, answered, missed>>

\* Mutant: the event is set only before the download is in the queue.
SignalUnlessQueued(d) ==
  /\ downloads' = Append(downloads, d)
  /\ queueNotEmpty' = (queueNotEmpty \/ Len(downloads) = 1)

EnqueueDownload(d) ==
  /\ downloads' = Append(downloads, d)
  /\ queueNotEmpty' = (queueNotEmpty \/ Len(downloads') = 1)

\* Mutant: a download is scheduled although GetTempFileName has failed.
FetchUrlUnchecked(u) ==
  /\ UIMGoto("running", "register")
  /\ Len(fetches) < MaxFetches
  /\ fetches' = Append(fetches, u)
  /\ EnqueueDownload([fetch |-> Len(fetches'), path |-> NoPath])
  /\ UNCHANGED <<registered, stop, runPc, inHand, answerVars, diskVars, takenAfterStop>>

\* FetchUrl(strUrl, pObserver): GetLocalPath creates the file, ScheduleDownload ...
\* (with no name for it, nothing happens).
FetchUrl(u) ==
  /\ UIMGoto("running", "register")
  /\ Len(fetches) < MaxFetches
  /\ fetches' = Append(fetches, u)
  /\ \E p \in Paths \ files :
       /\ files' = files \cup {p}
       /\ EnqueueDownload([fetch |-> Len(fetches'), path |-> p])
  /\ UNCHANGED <<registered, stop, runPc, inHand, answerVars, entries, index,
                 takenAfterStop>>

\* ... and m_mapEntryObservers.SetAt.
SetObserver ==
  LET f == Len(fetches)
      u == fetches[f]
  IN  /\ UIMGoto("register", "running")
      /\ observers' = [observers EXCEPT ![u] = f]
      /\ missed' = missed \cup ({observers[u]} \ {0})
      /\ UNCHANGED <<fetches, registered, queueVars, runPc, inHand, answered, diskVars,
                     takenAfterStop>>

UIMLeaves == UNCHANGED <<fetches, runPc, inHand, answerVars, takenAfterStop>>

\* Finalize
UnregisterObserver ==
  /\ UIMGoto("running", "unregistered")
  /\ registered' = FALSE
  /\ UNCHANGED <<queueVars, diskVars>>
  /\ UIMLeaves

\* Mutant: the thread is woken before it can see that it has to stop.
WakeAndStopLater ==
  /\ UIMGoto("unregistered", "stopping")
  /\ queueNotEmpty' = TRUE
  /\ UNCHANGED <<registered, stop, downloads, diskVars>>
  /\ UIMLeaves

\* StopAll
SetStopFlag ==
  /\ UIMGoto("unregistered", "stopping")
  /\ stop' = TRUE
  /\ UNCHANGED <<registered, queueNotEmpty, downloads, diskVars>>
  /\ UIMLeaves

\* Mutant: nobody wakes the thread up.
StopSilently ==
  /\ UIMGoto("stopping", "joining")
  /\ UNCHANGED <<registered, queueVars, diskVars>>
  /\ UIMLeaves

WakeUp ==
  /\ UIMGoto("stopping", "joining")
  /\ queueNotEmpty' = (queueNotEmpty \/ downloads = <<>>)
  /\ UNCHANGED <<registered, stop, downloads, diskVars>>
  /\ UIMLeaves

\* Mutant: Stop alone, which the thread does not read.
SaveWithoutWaiting ==
  /\ UIMGoto("joining", "saving")
  /\ UNCHANGED <<registered, queueVars, diskVars>>
  /\ UIMLeaves

\* MessageLoopWait
JoinDownloadThread ==
  /\ UIMGoto("joining", "saving")
  /\ runPc = "none"
  /\ UNCHANGED <<registered, queueVars, diskVars>>
  /\ UIMLeaves

\* The file may not be written.
SaveCacheEntries ==
  /\ UIMGoto("saving", "clearing")
  /\ index' \in {index, entries}
  /\ UNCHANGED <<registered, queueVars, entries, files>>
  /\ UIMLeaves

ClearOrphanFiles ==
  /\ UIMGoto("clearing", "down")
  /\ files' = files \cap Cached(entries)
  /\ UNCHANGED <<registered, queueVars, entries, index>>
  /\ UIMLeaves

\* The process ends anyhow, index.dat perhaps half written.
Crash ==
  /\ uimPc \notin {"down", "crashed"}
  /\ uimPc' = "crashed"
  /\ runPc' = "none"
  /\ inHand' = <<>>
  /\ downloads' = <<>>
  /\ index' \in IF uimPc = "saving" THEN {index, NoEntries} ELSE {index}
  /\ UNCHANGED <<fetches, registered, stop, queueNotEmpty, answerVars, entries, files,
                 takenAfterStop>>

-----------------------------------------------------------------------------
(* The thread that downloads.                                               *)

RunGoto(from, to) ==
  /\ runPc = from
  /\ runPc' = to
  /\ UNCHANGED <<uimPc, fetches, registered, stop, index>>

WaitQueueNotEmpty ==
  /\ RunGoto("waiting", "awake")
  /\ queueNotEmpty
  /\ UNCHANGED <<queueNotEmpty, downloads, inHand, answerVars, entries, files,
                 takenAfterStop>>

TestStopFlag ==
  /\ RunGoto("awake", IF stop THEN "none" ELSE "taking")
  /\ UNCHANGED <<queueNotEmpty, downloads, inHand, answerVars, entries, files,
                 takenAfterStop>>

\* RemoveHead needs a queue that is not empty: TakesScheduled.
DequeueDownload ==
  /\ RunGoto("taking", "downloading")
  /\ downloads # <<>>
  /\ downloads' = Tail(downloads)
  /\ queueNotEmpty' = (queueNotEmpty /\ downloads' # <<>>)
  /\ inHand' = <<[fetch |-> Head(downloads).fetch, path |-> Head(downloads).path,
                  ok |-> FALSE]>>
  /\ takenAfterStop' = (takenAfterStop \/ (stop /\ downloads' = <<>>))
  /\ UNCHANGED <<answerVars, entries, files>>

\* DownloadFile: of a download that fails, the file is deleted or left behind.
ExecuteDownload ==
  /\ RunGoto("downloading", "complete")
  /\ \/ /\ inHand' = [inHand EXCEPT ![1].ok = TRUE]
        /\ UNCHANGED files
     \/ /\ files' \in {files, files \ {inHand[1].path}}
        /\ UNCHANGED inHand
  /\ UNCHANGED <<queueNotEmpty, downloads, answerVars, entries, takenAfterStop>>

\* NotifyAll, and OnDownloadComplete looks the observer up.
NotifyAll ==
  LET f == inHand[1].fetch IN
  /\ RunGoto("complete", IF registered /\ observers[fetches[f]] # 0 THEN "answering"
                                                                    ELSE "waiting")
  /\ missed' = missed \cup (IF observers[fetches[f]] = 0 THEN {f} \ answered ELSE {})
  /\ inHand' = IF runPc' = "waiting" THEN <<>> ELSE inHand
  /\ UNCHANGED <<queueNotEmpty, downloads, observers, answered, entries, files,
                 takenAfterStop>>

\* AddCacheEntry, then OnItemFetched or OnItemFetchError.
OnDownloadComplete ==
  LET d == inHand[1]
      u == fetches[d.fetch]
  IN  /\ RunGoto("answering", "removing")
      /\ entries' = IF d.ok THEN [entries EXCEPT ![u] = d.path] ELSE entries
      /\ answered' = answered \cup {observers[u]}
      /\ missed' = missed \cup ({d.fetch} \ answered')
      /\ UNCHANGED <<queueNotEmpty, downloads, inHand, observers, files, takenAfterStop>>

\* RemoveKey, of whatever observer is there by now.
RemoveObserver ==
  LET u == fetches[inHand[1].fetch] IN
  /\ RunGoto("removing", "waiting")
  /\ observers' = [observers EXCEPT ![u] = 0]
  /\ missed' = missed \cup ({observers[u]} \ answered)
  /\ inHand' = <<>>
  /\ UNCHANGED <<queueNotEmpty, downloads, answered, entries, files, takenAfterStop>>

-----------------------------------------------------------------------------
UIMContinues ==
  \/ SetObserver
  \/ SetStopFlag
  \/ WakeUp
  \/ JoinDownloadThread
  \/ SaveCacheEntries
  \/ ClearOrphanFiles

UIM ==
  \/ Init
  \/ \E u \in Urls : FetchUrl(u)
  \/ UnregisterObserver
  \/ UIMContinues

Run ==
  \/ WaitQueueNotEmpty
  \/ TestStopFlag
  \/ DequeueDownload
  \/ ExecuteDownload
  \/ NotifyAll
  \/ OnDownloadComplete
  \/ RemoveObserver

CacheNext == UIM \/ Run \/ Crash

CacheSpec == CacheInit /\ [][CacheNext]_vars

\* Both threads go on: a download ends, if only by a timeout of the connection.
FairCacheSpec == CacheSpec /\ WF_vars(UIMContinues) /\ WF_vars(Run)

-----------------------------------------------------------------------------
\* DequeueDownload takes the head of a queue that is never empty: the event says so,
\* and when StopAll sets it for an empty queue the thread sees the flag first.
TakesScheduled == runPc = "taking" => downloads # <<>>

\* GetCacheEntry never gives out an entry whose file is gone, although files are
\* deleted by failed downloads and at the end, and the index outlives a crash.
EntriesHaveFiles == Cached(entries) \subseteq files

\* After an orderly end nothing but the files of the entries is left: no download
\* is under way when ClearOrphanFiles looks, nor completes after it.
NoOrphans == uimPc = "down" => files = Cached(entries)

Scheduled(f) == \E i \in DOMAIN downloads : downloads[i].fetch = f

\* The observer of a fetch is called while the application runs, unless the download
\* completed before FetchUrl registered it, or another fetch of the URL replaced it,
\* removed it or was answered in its place.
FetchesAreAnswered ==
  \A f \in FetchIds :
    Scheduled(f) ~> f \in answered \cup missed \/ uimPc \notin {"running", "register"}

\* Finalize ends, unless the thread passed the test of the flag before StopAll set
\* it and then emptied the queue: StopAll found it not empty and set no event.
FinalizeEnds == uimPc = "joining" ~> uimPc # "joining" \/ takenAfterStop
=============================================================================
