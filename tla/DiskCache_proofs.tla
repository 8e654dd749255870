-------------------------- MODULE DiskCache_proofs --------------------------
(***************************************************************************)
(* The queue of CDownloadScheduler and the files of CDiskCacheManager, for *)
(* every set of URLs and of file names and any number of fetches.          *)
(***************************************************************************)
EXTENDS DiskCache, SequenceTheorems, TLAPS

Busy == {"downloading", "complete", "answering", "removing"}

\* Until StopAll sets the flag, the event says that the queue is not empty, and keeps
\* saying so to a thread that has passed the wait; StopAll sets the event under the
\* flag only.  A thread that has passed the test of the flag may rely on it.
QueueInv ==
  /\ uimPc \in {"stopping", "joining", "saving", "clearing"} => stop
  /\ runPc # "none" /\ ~stop /\ (queueNotEmpty \/ runPc = "awake") => downloads # <<>>
  /\ runPc = "taking" => downloads # <<>>

\* What is in the queue or in hand belongs to a fetch that was made; the observer that
\* OnDownloadComplete found stays, or is replaced, until it removes it.
FetchInv ==
  /\ uimPc = "register" => Len(fetches) > 0
  /\ \A i \in 1 .. Len(downloads) : downloads[i].fetch <= Len(fetches)
  /\ runPc \in Busy => Len(inHand) = 1 /\ inHand[1].fetch <= Len(fetches)
  /\ runPc \in {"answering", "removing"} => observers[fetches[inHand[1].fetch]] # 0

\* The download in hand has its file: it is not yet known to have failed.
HasFile ==
  \/ runPc = "downloading"
  \/ runPc \in {"complete", "answering"} /\ inHand[1].ok

\* Every download has a file to itself, which is there and which no entry names; only
\* a failure takes the file away, and then there will be no entry.
FilesInv ==
  /\ EntriesHaveFiles
  /\ uimPc \in {"saving", "clearing", "down"} => runPc = "none"
  /\ runPc # "none" =>
       /\ \A i \in 1 .. Len(downloads) : downloads[i].path \in files \ Cached(entries)
       /\ \A i, j \in 1 .. Len(downloads) : downloads[i].path = downloads[j].path => i = j
  /\ HasFile =>
       /\ inHand[1].path \in files
       /\ \A i \in 1 .. Len(downloads) : downloads[i].path # inHand[1].path
  /\ runPc = "downloading" => ~inHand[1].ok /\ inHand[1].path \notin Cached(entries)

CacheInv ==
  /\ CacheTypeOK
  /\ QueueInv
  /\ FetchInv
  /\ FilesInv
  /\ NoOrphans

\* The next state of the invariant, part by part.
LEMMA TypeInit == CacheInit => CacheTypeOK
<1> SUFFICES ASSUME CacheInit PROVE CacheTypeOK
  OBVIOUS
<1>1. /\ <<>> \in Seq(Urls) /\ Len(<<>>) = 0
      /\ <<>> \in Seq(Downloads)
      /\ <<>> \in Seq([fetch : FetchIds, path : Paths, ok : BOOLEAN])
  BY EmptySeq
<1>2. 0 <= MaxFetches /\ 0 \in 0 .. MaxFetches
  BY CacheAssumption
<1> QED
  BY <1>1, <1>2 DEF CacheInit, CacheTypeOK, UimPcs, RunPcs, NoEntries

LEMMA InvInit == CacheInit => CacheInv
<1> SUFFICES ASSUME CacheInit PROVE CacheInv
  OBVIOUS
<1>1. CacheTypeOK
  BY TypeInit
<1>2. QueueInv
  BY DEF CacheInit, QueueInv
<1>3. FetchInv
  BY EmptySeq DEF CacheInit, FetchInv, Busy
<1>4. EntriesHaveFiles /\ NoOrphans
  BY DEF CacheInit, EntriesHaveFiles, NoOrphans, Cached, NoEntries
<1>5. FilesInv
  BY <1>4 DEF CacheInit, FilesInv, HasFile
<1> QED
  BY <1>1, <1>2, <1>3, <1>4, <1>5 DEF CacheInv

-----------------------------------------------------------------------------
(* The steps of the queue: a download at its end, or gone from its head.    *)

Hand == [fetch : FetchIds, path : Paths, ok : BOOLEAN]

\* EnqueueDownload adds one download at the end of the queue.
LEMMA Enqueued ==
  ASSUME CacheTypeOK, NEW d \in Downloads, EnqueueDownload(d)
  PROVE  /\ downloads' \in Seq(Downloads)
         /\ downloads' # <<>>
         /\ Len(downloads) \in Nat
         /\ Len(downloads') = Len(downloads) + 1
         /\ \A i \in 1 .. Len(downloads) : downloads'[i] = downloads[i]
         /\ downloads'[Len(downloads')] = d
         /\ queueNotEmpty' \in BOOLEAN
<1>1. downloads \in Seq(Downloads) /\ queueNotEmpty \in BOOLEAN
  BY DEF CacheTypeOK
<1>2. downloads' = Append(downloads, d)
  BY DEF EnqueueDownload
<1>3. Len(downloads) \in Nat
  BY <1>1, LenProperties
<1>4. queueNotEmpty' \in BOOLEAN
  BY <1>1 DEF EnqueueDownload
<1> QED
  BY <1>1, <1>2, <1>3, <1>4, AppendProperties

\* DequeueDownload takes the head.
LEMMA Dequeued ==
  ASSUME CacheTypeOK, DequeueDownload
  PROVE  /\ downloads' \in Seq(Downloads)
         /\ Len(downloads) \in Nat /\ Len(downloads) > 0
         /\ Len(downloads') = Len(downloads) - 1
         /\ \A i \in 1 .. Len(downloads') : downloads'[i] = downloads[i + 1]
         /\ downloads[1] \in Downloads
         /\ inHand' \in Seq(Hand) /\ Len(inHand') = 1
         /\ inHand'[1] \in Hand
         /\ inHand'[1].fetch = downloads[1].fetch
         /\ inHand'[1].path = downloads[1].path
         /\ inHand'[1].ok = FALSE
         /\ queueNotEmpty' \in BOOLEAN
         /\ takenAfterStop' \in BOOLEAN
<1>1. /\ downloads \in Seq(Downloads) /\ downloads # <<>>
      /\ queueNotEmpty \in BOOLEAN /\ takenAfterStop \in BOOLEAN
      /\ downloads' = Tail(downloads)
  BY DEF CacheTypeOK, DequeueDownload
<1>2. Len(downloads) \in Nat /\ Len(downloads) > 0
  BY <1>1, EmptySeq, LenProperties
<1>3. Head(downloads) = downloads[1] /\ downloads[1] \in Downloads
  BY <1>1, <1>2, ElementOfSeq
<1> DEFINE h == [fetch |-> downloads[1].fetch, path |-> downloads[1].path, ok |-> FALSE]
<1>4. h \in Hand
  BY <1>3 DEF Downloads, Hand
<1>5. inHand' = <<h>>
  BY <1>3 DEF DequeueDownload
<1>6. inHand' \in Seq(Hand) /\ Len(inHand') = 1 /\ inHand'[1] = h
  BY <1>4, <1>5
<1>7. queueNotEmpty' \in BOOLEAN /\ takenAfterStop' \in BOOLEAN
  BY <1>1 DEF DequeueDownload
<1> QED
  BY <1>1, <1>2, <1>3, <1>4, <1>6, <1>7, HeadTailProperties

\* The download in hand is a download, of a fetch that was made, of a URL.
LEMMA InHand ==
  ASSUME CacheTypeOK, FetchInv, runPc \in Busy
  PROVE  /\ inHand[1] \in Hand
         /\ inHand[1].fetch \in 1 .. Len(fetches)
         /\ fetches[inHand[1].fetch] \in Urls
<1>1. inHand \in Seq(Hand) /\ Len(inHand) = 1 /\ inHand[1].fetch <= Len(fetches)
  BY DEF CacheTypeOK, FetchInv, Hand
<1>2. inHand[1] \in Hand
  BY <1>1, ElementOfSeq
<1>3. fetches \in Seq(Urls) /\ Len(fetches) \in Nat
  BY LenProperties DEF CacheTypeOK
<1>4. inHand[1].fetch \in 1 .. Len(fetches)
  BY <1>1, <1>2, <1>3, CacheAssumption DEF Hand, FetchIds
<1> QED
  BY <1>2, <1>3, <1>4, ElementOfSeq

\* ExecuteDownload changes the outcome of the download in hand only.
LEMMA Executed ==
  ASSUME CacheTypeOK, FetchInv, ExecuteDownload
  PROVE  /\ inHand' \in Seq(Hand) /\ Len(inHand') = 1
         /\ inHand'[1].fetch = inHand[1].fetch
         /\ inHand'[1].path = inHand[1].path
         /\ files' \subseteq files
         /\ inHand'[1].ok /\ ~inHand[1].ok => files' = files
         /\ files \ {inHand[1].path} \subseteq files'
<1>1. inHand \in Seq(Hand) /\ Len(inHand) = 1 /\ inHand[1] \in Hand
  BY InHand DEF CacheTypeOK, FetchInv, ExecuteDownload, RunGoto, Busy, Hand
<1>2. CASE inHand' = inHand
  BY <1>1, <1>2 DEF ExecuteDownload
<1>3. CASE inHand' = [inHand EXCEPT ![1].ok = TRUE] /\ files' = files
  <2> DEFINE h == [inHand[1] EXCEPT !.ok = TRUE]
  <2>1. h \in Hand /\ h.fetch = inHand[1].fetch /\ h.path = inHand[1].path
    BY <1>1 DEF Hand
  <2>2. inHand' = [inHand EXCEPT ![1] = h]
    BY <1>3
  <2>3. inHand' \in Seq(Hand) /\ Len(inHand') = 1 /\ inHand'[1] = h
    BY <1>1, <2>1, <2>2, ExceptSeq
  <2> QED
    BY <1>3, <2>1, <2>3
<1> QED
  BY <1>2, <1>3 DEF ExecuteDownload

-----------------------------------------------------------------------------
\* Every step of either thread keeps the types.
LEMMA TypeStep ==
  ASSUME CacheTypeOK, FetchInv, [CacheNext]_vars
  PROVE  CacheTypeOK'
<1> USE DEF queueVars, answerVars, diskVars
<1>1. CASE Init
  <2>1. <<>> \in Seq(Downloads) /\ <<>> \in Seq(Hand)
    BY EmptySeq
  <2>2. 0 \in 0 .. MaxFetches
    BY CacheAssumption
  <2>3. entries' \in [Urls -> Paths \cup {NoPath}]
    BY <1>1 DEF Init, LoadCacheEntries, CacheTypeOK
  <2> QED
    BY <1>1, <2>1, <2>2, <2>3 DEF Init, CacheTypeOK, UimPcs, RunPcs, Hand
<1>2. ASSUME NEW u \in Urls, FetchUrl(u) PROVE CacheTypeOK'
  <2>1. fetches \in Seq(Urls) /\ Len(fetches) < MaxFetches /\ fetches' = Append(fetches, u)
    BY <1>2 DEF FetchUrl, CacheTypeOK
  <2>2. fetches' \in Seq(Urls) /\ Len(fetches) \in Nat /\ Len(fetches') = Len(fetches) + 1
    BY <2>1, AppendProperties, LenProperties
  <2>3. Len(fetches') \in FetchIds
    BY <2>1, <2>2, CacheAssumption DEF FetchIds
  <2>4. PICK p \in Paths \ files :
          /\ files' = files \cup {p}
          /\ EnqueueDownload([fetch |-> Len(fetches'), path |-> p])
    BY <1>2 DEF FetchUrl
  <2>5. [fetch |-> Len(fetches'), path |-> p] \in Downloads
    BY <2>3, <2>4 DEF Downloads
  <2>6. downloads' \in Seq(Downloads) /\ queueNotEmpty' \in BOOLEAN
    BY <2>4, <2>5, Enqueued
  <2>7. files' \in SUBSET Paths
    BY <2>4 DEF CacheTypeOK
  <2>8. Len(fetches') <= MaxFetches
    BY <2>1, <2>2, CacheAssumption
  <2> QED
    BY <1>2, <2>2, <2>6, <2>7, <2>8 DEF FetchUrl, UIMGoto, CacheTypeOK, UimPcs
<1>3. CASE SetObserver
  <2> DEFINE f == Len(fetches)
  <2>1. fetches \in Seq(Urls) /\ f \in Nat /\ f > 0 /\ f <= MaxFetches
    BY <1>3, LenProperties DEF SetObserver, UIMGoto, FetchInv, CacheTypeOK
  <2>2. fetches[f] \in Urls
    BY <2>1, ElementOfSeq
  <2>3. f \in 0 .. MaxFetches
    BY <2>1, CacheAssumption
  <2>4. observers' \in [Urls -> 0 .. MaxFetches]
    BY <1>3, <2>2, <2>3 DEF SetObserver, CacheTypeOK
  <2>5. observers[fetches[f]] \in 0 .. MaxFetches
    BY <2>2 DEF CacheTypeOK
  <2>6. missed' \in SUBSET FetchIds
    <3>1. missed' = missed \cup ({observers[fetches[f]]} \ {0})
      BY <1>3 DEF SetObserver
    <3>2. {observers[fetches[f]]} \ {0} \subseteq FetchIds
      BY <2>5, CacheAssumption DEF FetchIds
    <3> QED
      BY <3>1, <3>2 DEF CacheTypeOK
  <2> QED
    BY <1>3, <2>4, <2>6 DEF SetObserver, UIMGoto, CacheTypeOK, UimPcs
<1>4. CASE UnregisterObserver \/ SetStopFlag \/ WakeUp \/ JoinDownloadThread
  BY <1>4 DEF UnregisterObserver, SetStopFlag, WakeUp, JoinDownloadThread, UIMGoto, UIMLeaves,
     CacheTypeOK, UimPcs
<1>5. CASE SaveCacheEntries \/ ClearOrphanFiles
  BY <1>5 DEF SaveCacheEntries, ClearOrphanFiles, UIMGoto, UIMLeaves, CacheTypeOK, UimPcs
<1>6. CASE Crash
  <2>1. <<>> \in Seq(Downloads) /\ <<>> \in Seq(Hand)
    BY EmptySeq
  <2>2. index' \in [Urls -> Paths \cup {NoPath}]
    BY <1>6 DEF Crash, CacheTypeOK, NoEntries
  <2> QED
    BY <1>6, <2>1, <2>2 DEF Crash, CacheTypeOK, UimPcs, RunPcs, Hand
<1>7. CASE WaitQueueNotEmpty \/ TestStopFlag
  BY <1>7 DEF WaitQueueNotEmpty, TestStopFlag, RunGoto, CacheTypeOK, RunPcs
<1>8. CASE DequeueDownload
  <2>1. /\ downloads' \in Seq(Downloads)
        /\ inHand' \in Seq(Hand)
        /\ queueNotEmpty' \in BOOLEAN /\ takenAfterStop' \in BOOLEAN
    BY <1>8, Dequeued
  <2> QED
    BY <1>8, <2>1 DEF DequeueDownload, RunGoto, CacheTypeOK, RunPcs, Hand
<1>9. CASE ExecuteDownload
  <2>1. inHand' \in Seq(Hand) /\ files' \subseteq files
    BY <1>9, Executed
  <2> QED
    BY <1>9, <2>1 DEF ExecuteDownload, RunGoto, CacheTypeOK, RunPcs, Hand
<1>10. CASE NotifyAll
  <2>1. inHand[1] \in Hand
    BY <1>10, InHand DEF NotifyAll, RunGoto, Busy
  <2>2. inHand' \in Seq(Hand)
    BY <1>10, EmptySeq DEF NotifyAll, CacheTypeOK, Hand
  <2>3. missed' \in SUBSET FetchIds
    BY <1>10, <2>1 DEF NotifyAll, CacheTypeOK, Hand
  <2> QED
    BY <1>10, <2>2, <2>3 DEF NotifyAll, RunGoto, CacheTypeOK, RunPcs, Hand
<1>11. CASE OnDownloadComplete
  <2> DEFINE d == inHand[1]
             u == fetches[d.fetch]
  <2>1. d \in Hand /\ u \in Urls
    BY <1>11, InHand DEF OnDownloadComplete, RunGoto, Busy
  <2>2. observers[u] \in FetchIds
    BY <1>11, <2>1, CacheAssumption
       DEF OnDownloadComplete, RunGoto, FetchInv, CacheTypeOK, FetchIds
  <2>3. answered' \in SUBSET FetchIds /\ missed' \in SUBSET FetchIds
    BY <1>11, <2>1, <2>2 DEF OnDownloadComplete, CacheTypeOK, Hand
  <2>4. entries' \in [Urls -> Paths \cup {NoPath}]
    BY <1>11, <2>1 DEF OnDownloadComplete, CacheTypeOK, Hand
  <2> QED
    BY <1>11, <2>3, <2>4 DEF OnDownloadComplete, RunGoto, CacheTypeOK, RunPcs
<1>12. CASE RemoveObserver
  <2> DEFINE u == fetches[inHand[1].fetch]
  <2>1. u \in Urls
    BY <1>12, InHand DEF RemoveObserver, RunGoto, Busy
  <2>2. observers[u] \in FetchIds
    BY <1>12, <2>1, CacheAssumption DEF RemoveObserver, RunGoto, FetchInv, CacheTypeOK, FetchIds
  <2>3. missed' \in SUBSET FetchIds
    BY <1>12, <2>2 DEF RemoveObserver, CacheTypeOK
  <2>4. observers' \in [Urls -> 0 .. MaxFetches]
    BY <1>12, <2>1, CacheAssumption DEF RemoveObserver, CacheTypeOK
  <2>5. inHand' \in Seq(Hand)
    BY <1>12, EmptySeq DEF RemoveObserver
  <2> QED
    BY <1>12, <2>3, <2>4, <2>5 DEF RemoveObserver, RunGoto, CacheTypeOK, RunPcs, Hand
<1>13. CASE UNCHANGED vars
  BY <1>13 DEF vars, CacheTypeOK
<1> QED
  BY <1>1, <1>2, <1>3, <1>4, <1>5, <1>6, <1>7, <1>8, <1>9, <1>10, <1>11, <1>12, <1>13
     DEF CacheNext, UIM, UIMContinues, Run

-----------------------------------------------------------------------------
\* Every step keeps the event and the flag telling the truth about the queue.
LEMMA QueueStep ==
  ASSUME CacheTypeOK, QueueInv, [CacheNext]_vars
  PROVE  QueueInv'
<1> USE DEF QueueInv, queueVars, answerVars, diskVars
<1>1. CASE Init
  BY <1>1 DEF Init
<1>2. ASSUME NEW u \in Urls, FetchUrl(u) PROVE QueueInv'
  <2>1. downloads' # <<>>
    <3>1. PICK p : downloads' = Append(downloads, [fetch |-> Len(fetches'), path |-> p])
      BY <1>2 DEF FetchUrl, EnqueueDownload
    <3>2. downloads \in Seq(Downloads)
      BY DEF CacheTypeOK
    <3> QED
      BY <3>1, <3>2
  <2> QED
    BY <1>2, <2>1 DEF FetchUrl, UIMGoto
<1>3. CASE SetObserver \/ UnregisterObserver \/ SetStopFlag \/ WakeUp \/ JoinDownloadThread
  BY <1>3 DEF SetObserver, UnregisterObserver, SetStopFlag, WakeUp, JoinDownloadThread,
     UIMGoto, UIMLeaves
<1>4. CASE SaveCacheEntries \/ ClearOrphanFiles \/ Crash
  BY <1>4 DEF SaveCacheEntries, ClearOrphanFiles, Crash, UIMGoto, UIMLeaves
<1>5. CASE WaitQueueNotEmpty \/ TestStopFlag
  BY <1>5 DEF WaitQueueNotEmpty, TestStopFlag, RunGoto
<1>6. CASE DequeueDownload
  BY <1>6 DEF DequeueDownload, RunGoto
<1>7. CASE ExecuteDownload \/ NotifyAll \/ OnDownloadComplete \/ RemoveObserver
  BY <1>7 DEF ExecuteDownload, NotifyAll, OnDownloadComplete, RemoveObserver, RunGoto
<1>8. CASE UNCHANGED vars
  BY <1>8 DEF vars
<1> QED
  BY <1>1, <1>2, <1>3, <1>4, <1>5, <1>6, <1>7, <1>8 DEF CacheNext, UIM, UIMContinues, Run

\* Every step keeps a download tied to its fetch, and its observer there until removed.
LEMMA FetchStep ==
  ASSUME CacheTypeOK, FetchInv, [CacheNext]_vars
  PROVE  FetchInv'
<1> USE DEF FetchInv, Busy, queueVars, answerVars, diskVars
<1>1. CASE Init \/ Crash
  BY <1>1, EmptySeq DEF Init, Crash
<1>2. ASSUME NEW u \in Urls, FetchUrl(u) PROVE FetchInv'
  <2>1. /\ fetches \in Seq(Urls) /\ fetches' = Append(fetches, u)
        /\ Len(fetches) < MaxFetches
    BY <1>2 DEF FetchUrl, CacheTypeOK
  <2>2. /\ Len(fetches) \in Nat /\ Len(fetches') = Len(fetches) + 1
        /\ \A i \in 1 .. Len(fetches) : fetches'[i] = fetches[i]
    BY <2>1, AppendProperties, LenProperties
  <2>3. PICK p \in Paths :
          EnqueueDownload([fetch |-> Len(fetches'), path |-> p])
    BY <1>2 DEF FetchUrl
  <2>4. [fetch |-> Len(fetches'), path |-> p] \in Downloads
    BY <2>1, <2>2, CacheAssumption DEF Downloads, FetchIds
  <2>5. /\ Len(downloads) \in Nat
        /\ Len(downloads') = Len(downloads) + 1
        /\ \A i \in 1 .. Len(downloads) : downloads'[i] = downloads[i]
        /\ downloads'[Len(downloads')].fetch = Len(fetches')
    BY <2>3, <2>4, Enqueued
  <2>6. ASSUME NEW i \in 1 .. Len(downloads) PROVE downloads[i].fetch \in Nat
    <3>1. downloads[i] \in Downloads
      BY ElementOfSeq DEF CacheTypeOK
    <3> QED
      BY <3>1, CacheAssumption DEF Downloads, FetchIds
  <2>7. \A i \in 1 .. Len(downloads') : downloads'[i].fetch <= Len(fetches')
    BY <2>2, <2>5, <2>6
  <2>8. runPc' = runPc /\ inHand' = inHand /\ observers' = observers /\ uimPc' = "register"
    BY <1>2 DEF FetchUrl, UIMGoto
  <2>9. runPc \in Busy =>
          /\ inHand[1].fetch \in 1 .. Len(fetches)
          /\ fetches'[inHand[1].fetch] = fetches[inHand[1].fetch]
    BY <2>2, InHand
  <2> QED
    BY <2>2, <2>7, <2>8, <2>9
<1>3. CASE SetObserver
  <2>1. fetches \in Seq(Urls) /\ Len(fetches) \in Nat /\ Len(fetches) > 0
    BY <1>3, LenProperties DEF SetObserver, UIMGoto, CacheTypeOK
  <2>2. /\ runPc \in Busy => fetches[inHand[1].fetch] \in Urls
        /\ observers \in [Urls -> 0 .. MaxFetches]
    BY InHand DEF CacheTypeOK
  <2>3. runPc \in {"answering", "removing"} => observers'[fetches[inHand[1].fetch]] # 0
    BY <1>3, <2>1, <2>2 DEF SetObserver
  <2> QED
    BY <1>3, <2>3 DEF SetObserver, UIMGoto
<1>4. CASE UnregisterObserver \/ SetStopFlag \/ WakeUp \/ JoinDownloadThread
           \/ SaveCacheEntries \/ ClearOrphanFiles
  BY <1>4 DEF UnregisterObserver, SetStopFlag, WakeUp, JoinDownloadThread, SaveCacheEntries,
     ClearOrphanFiles, UIMGoto, UIMLeaves
<1>5. CASE WaitQueueNotEmpty \/ TestStopFlag
  BY <1>5 DEF WaitQueueNotEmpty, TestStopFlag, RunGoto
<1>6. CASE DequeueDownload
  <2>1. /\ Len(downloads) \in Nat /\ Len(downloads) > 0
        /\ Len(downloads') = Len(downloads) - 1
        /\ \A i \in 1 .. Len(downloads') : downloads'[i] = downloads[i + 1]
        /\ Len(inHand') = 1 /\ inHand'[1].fetch = downloads[1].fetch
    BY <1>6, Dequeued
  <2>2. \A i \in 1 .. Len(downloads') : downloads'[i].fetch <= Len(fetches)
    BY <2>1
  <2>3. inHand'[1].fetch <= Len(fetches)
    BY <2>1
  <2> QED
    BY <1>6, <2>1, <2>2, <2>3 DEF DequeueDownload, RunGoto
<1>7. CASE ExecuteDownload
  <2>1. Len(inHand') = 1 /\ inHand'[1].fetch = inHand[1].fetch
    BY <1>7, Executed
  <2> QED
    BY <1>7, <2>1 DEF ExecuteDownload, RunGoto
<1>8. CASE NotifyAll \/ OnDownloadComplete \/ RemoveObserver
  BY <1>8 DEF NotifyAll, OnDownloadComplete, RemoveObserver, RunGoto
<1>9. CASE UNCHANGED vars
  BY <1>9 DEF vars
<1> QED
  BY <1>1, <1>2, <1>3, <1>4, <1>5, <1>6, <1>7, <1>8, <1>9
     DEF CacheNext, UIM, UIMContinues, Run

-----------------------------------------------------------------------------
\* Every step leaves each download with a file of its own, and each entry with its file.
LEMMA FilesStep ==
  ASSUME CacheTypeOK, FetchInv, FilesInv, [CacheNext]_vars
  PROVE  FilesInv'
<1> USE DEF FilesInv, HasFile, EntriesHaveFiles, queueVars, answerVars, diskVars
<1>1. CASE Init
  <2>1. Cached(entries') \subseteq files
    BY <1>1 DEF Init, LoadCacheEntries, Cached
  <2> QED
    BY <1>1, <2>1, EmptySeq DEF Init, Cached
<1>2. ASSUME NEW u \in Urls, FetchUrl(u) PROVE FilesInv'
  <2>1. PICK p \in Paths \ files :
          /\ files' = files \cup {p}
          /\ EnqueueDownload([fetch |-> Len(fetches'), path |-> p])
    BY <1>2 DEF FetchUrl
  <2>2. Len(fetches') \in FetchIds
    <3>1. /\ fetches \in Seq(Urls) /\ fetches' = Append(fetches, u)
          /\ Len(fetches) < MaxFetches
      BY <1>2 DEF FetchUrl, CacheTypeOK
    <3>2. Len(fetches) \in Nat /\ Len(fetches') = Len(fetches) + 1
      BY <3>1, AppendProperties, LenProperties
    <3> QED
      BY <3>1, <3>2, CacheAssumption DEF FetchIds
  <2>3. [fetch |-> Len(fetches'), path |-> p] \in Downloads
    BY <2>1, <2>2 DEF Downloads
  <2>4. /\ Len(downloads) \in Nat
        /\ Len(downloads') = Len(downloads) + 1
        /\ \A i \in 1 .. Len(downloads) : downloads'[i] = downloads[i]
        /\ downloads'[Len(downloads')].path = p
    BY <2>1, <2>3, Enqueued
  <2>5. p \notin files /\ p \notin Cached(entries) /\ files \subseteq files'
    BY <2>1
  <2>6. uimPc' = "register" /\ UNCHANGED <<runPc, inHand, entries>>
    BY <1>2 DEF FetchUrl, UIMGoto
  <2>7. Cached(entries') = Cached(entries)
    BY <2>6 DEF Cached
  <2>8. ASSUME runPc # "none"
        PROVE  /\ \A i \in 1 .. Len(downloads') : downloads'[i].path \in files' \ Cached(entries)
               /\ \A i, j \in 1 .. Len(downloads') :
                    downloads'[i].path = downloads'[j].path => i = j
    <3>1. ASSUME NEW i \in 1 .. Len(downloads')
          PROVE  \/ i \in 1 .. Len(downloads) /\ downloads'[i].path = downloads[i].path
                 \/ i = Len(downloads') /\ downloads'[i].path = p
      BY <2>4
    <3>2. /\ \A i \in 1 .. Len(downloads) : downloads[i].path \in files \ Cached(entries)
          /\ \A i, j \in 1 .. Len(downloads) : downloads[i].path = downloads[j].path => i = j
      BY <2>8
    <3> QED
      BY <2>1, <2>5, <3>1, <3>2
  <2>9. HasFile =>
          /\ inHand[1].path \in files'
          /\ \A i \in 1 .. Len(downloads') : downloads'[i].path # inHand[1].path
    BY <2>1, <2>4, <2>5
  <2> QED
    BY <2>5, <2>6, <2>7, <2>8, <2>9
<1>3. CASE SetObserver \/ UnregisterObserver \/ SetStopFlag \/ WakeUp
  BY <1>3 DEF SetObserver, UnregisterObserver, SetStopFlag, WakeUp, UIMGoto, UIMLeaves, Cached
<1>4. CASE JoinDownloadThread \/ SaveCacheEntries
  BY <1>4 DEF JoinDownloadThread, SaveCacheEntries, UIMGoto, UIMLeaves, Cached
<1>5. CASE ClearOrphanFiles
  <2>1. runPc = "none" /\ runPc' = "none"
    BY <1>5 DEF ClearOrphanFiles, UIMGoto, UIMLeaves
  <2>2. Cached(entries') \subseteq files'
    BY <1>5 DEF ClearOrphanFiles, Cached
  <2> QED
    BY <2>1, <2>2
<1>6. CASE Crash
  BY <1>6 DEF Crash, Cached
<1>7. CASE WaitQueueNotEmpty \/ TestStopFlag
  BY <1>7 DEF WaitQueueNotEmpty, TestStopFlag, RunGoto, Cached
<1>8. CASE DequeueDownload
  <2>1. /\ Len(downloads) \in Nat /\ Len(downloads) > 0
        /\ Len(downloads') = Len(downloads) - 1
        /\ \A i \in 1 .. Len(downloads') : downloads'[i] = downloads[i + 1]
        /\ inHand'[1].path = downloads[1].path /\ inHand'[1].ok = FALSE
    BY <1>8, Dequeued
  <2>2. /\ runPc = "taking" /\ runPc' = "downloading"
        /\ UNCHANGED <<uimPc, entries, files>>
    BY <1>8 DEF DequeueDownload, RunGoto
  <2>3. Cached(entries') = Cached(entries)
    BY <2>2 DEF Cached
  <2>4. /\ \A i \in 1 .. Len(downloads') : downloads'[i].path \in files \ Cached(entries)
        /\ \A i, j \in 1 .. Len(downloads') :
             downloads'[i].path = downloads'[j].path => i = j
        /\ \A i \in 1 .. Len(downloads') : downloads'[i].path # inHand'[1].path
        /\ inHand'[1].path \in files \ Cached(entries)
    <3>1. /\ \A i \in 1 .. Len(downloads) : downloads[i].path \in files \ Cached(entries)
          /\ \A i, j \in 1 .. Len(downloads) : downloads[i].path = downloads[j].path => i = j
      BY <2>2
    <3>2. \A i \in 1 .. Len(downloads') : i + 1 \in 1 .. Len(downloads) /\ i + 1 # 1
      BY <2>1
    <3>3. 1 \in 1 .. Len(downloads)
      BY <2>1
    <3>4. \A i, j \in 1 .. Len(downloads') : i + 1 = j + 1 => i = j
      BY <2>1
    <3>5. ASSUME NEW i \in 1 .. Len(downloads'), NEW j \in 1 .. Len(downloads'),
                 downloads'[i].path = downloads'[j].path
          PROVE  i = j
      <4>1. downloads[i + 1].path = downloads[j + 1].path
        BY <2>1, <3>5
      <4>2. i + 1 = j + 1
        BY <3>1, <3>2, <4>1
      <4> QED
        BY <3>4, <4>2
    <3>6. ASSUME NEW i \in 1 .. Len(downloads') PROVE downloads'[i].path # inHand'[1].path
      <4>1. downloads'[i].path = downloads[i + 1].path
        BY <2>1
      <4> QED
        BY <2>1, <3>1, <3>2, <3>3, <4>1
    <3>7. \A i \in 1 .. Len(downloads') : downloads'[i].path \in files \ Cached(entries)
      BY <2>1, <3>1, <3>2
    <3>8. inHand'[1].path \in files \ Cached(entries)
      BY <2>1, <3>1, <3>3
    <3> QED
      BY <3>5, <3>6, <3>7, <3>8
  <2> QED
    BY <2>1, <2>2, <2>3, <2>4
<1>9. CASE ExecuteDownload
  <2>1. /\ inHand'[1].path = inHand[1].path
        /\ files' \subseteq files
        /\ files \ {inHand[1].path} \subseteq files'
    BY <1>9, Executed
  <2>2. inHand'[1].ok => files' = files
    <3>1. ~inHand[1].ok
      BY <1>9 DEF ExecuteDownload, RunGoto
    <3> QED
      BY <1>9, <3>1, Executed
  <2>3. /\ runPc = "downloading" /\ runPc' = "complete"
        /\ UNCHANGED <<uimPc, downloads, entries>>
    BY <1>9 DEF ExecuteDownload, RunGoto
  <2>4. Cached(entries') = Cached(entries)
    BY <2>3 DEF Cached
  <2> QED
    BY <2>1, <2>2, <2>3, <2>4
<1>10. CASE NotifyAll
  <2>1. inHand' = inHand \/ runPc' = "waiting"
    BY <1>10 DEF NotifyAll
  <2> QED
    BY <1>10, <2>1 DEF NotifyAll, RunGoto, Cached
<1>11. CASE OnDownloadComplete
  <2> DEFINE d == inHand[1]
  <2>1. /\ runPc = "answering" /\ runPc' = "removing"
        /\ UNCHANGED <<uimPc, downloads, inHand, files>>
    BY <1>11 DEF OnDownloadComplete, RunGoto
  <2>2. Cached(entries') \subseteq Cached(entries) \cup (IF d.ok THEN {d.path} ELSE {})
    <3>1. fetches[d.fetch] \in Urls /\ entries \in [Urls -> Paths \cup {NoPath}]
      BY <2>1, InHand DEF Busy, CacheTypeOK
    <3> QED
      BY <1>11, <3>1 DEF OnDownloadComplete, Cached
  <2>3. d.ok =>
          /\ d.path \in files
          /\ \A i \in 1 .. Len(downloads) : downloads[i].path # d.path
    BY <2>1
  <2> QED
    BY <2>1, <2>2, <2>3
<1>12. CASE RemoveObserver
  BY <1>12 DEF RemoveObserver, RunGoto, Cached
<1>13. CASE UNCHANGED vars
  BY <1>13 DEF vars, Cached
<1> QED
  BY <1>1, <1>2, <1>3, <1>4, <1>5, <1>6, <1>7, <1>8, <1>9, <1>10, <1>11, <1>12, <1>13
     DEF CacheNext, UIM, UIMContinues, Run

-----------------------------------------------------------------------------
\* The directory is cleared last, and nothing is written to it before the next Init.
LEMMA OrphansStep ==
  ASSUME CacheTypeOK, FilesInv, NoOrphans, [CacheNext]_vars
  PROVE  NoOrphans'
<1> USE DEF NoOrphans, queueVars, answerVars, diskVars
<1>1. CASE Init \/ Crash
  BY <1>1 DEF Init, Crash
<1>2. ASSUME NEW u \in Urls, FetchUrl(u) PROVE NoOrphans'
  BY <1>2 DEF FetchUrl, UIMGoto
<1>3. CASE SetObserver \/ UnregisterObserver \/ SetStopFlag \/ WakeUp \/ JoinDownloadThread
           \/ SaveCacheEntries
  BY <1>3 DEF SetObserver, UnregisterObserver, SetStopFlag, WakeUp, JoinDownloadThread,
     SaveCacheEntries, UIMGoto
<1>4. CASE ClearOrphanFiles
  BY <1>4 DEF ClearOrphanFiles, FilesInv, EntriesHaveFiles, Cached
<1>5. CASE Run
  BY <1>5 DEF Run, WaitQueueNotEmpty, TestStopFlag, DequeueDownload, ExecuteDownload,
     NotifyAll, OnDownloadComplete, RemoveObserver, RunGoto, FilesInv
<1>6. CASE UNCHANGED vars
  BY <1>6 DEF vars, Cached
<1> QED
  BY <1>1, <1>2, <1>3, <1>4, <1>5, <1>6 DEF CacheNext, UIM, UIMContinues

\* The invariant is inductive.
LEMMA InvAlways == CacheSpec => []CacheInv
<1>1. CacheInit => CacheInv
  BY InvInit
<1>2. CacheInv /\ [CacheNext]_vars => CacheInv'
  BY TypeStep, QueueStep, FetchStep, FilesStep, OrphansStep DEF CacheInv
<1> QED
  BY <1>1, <1>2, PTL DEF CacheSpec

\* The types hold for every set of URLs and names, and any number of fetches.
THEOREM CacheTypeCorrect == CacheSpec => []CacheTypeOK
<1>1. CacheInv => CacheTypeOK
  BY DEF CacheInv
<1> QED
  BY <1>1, InvAlways, PTL

\* DequeueDownload never calls RemoveHead on an empty list: between the wait, the test
\* of the flag and the dequeue the queue is not emptied by anybody else, and StopAll
\* sets the event for an empty queue only after the flag.
THEOREM TakesWhatIsScheduled == CacheSpec => []TakesScheduled
<1>1. CacheInv => TakesScheduled
  BY DEF CacheInv, QueueInv, TakesScheduled
<1> QED
  BY <1>1, InvAlways, PTL

\* GetCacheEntry never names a file that is not there: a failed download deletes the
\* file of no entry and of no other download, whatever happened before a crash.
THEOREM EntriesKeepFiles == CacheSpec => []EntriesHaveFiles
<1>1. CacheInv => EntriesHaveFiles
  BY DEF CacheInv, FilesInv
<1> QED
  BY <1>1, InvAlways, PTL

\* After Finalize the directory holds the files of the entries and no other.
THEOREM NoOrphansLeft == CacheSpec => []NoOrphans
<1>1. CacheInv => NoOrphans
  BY DEF CacheInv
<1> QED
  BY <1>1, InvAlways, PTL

-----------------------------------------------------------------------------
(* No wakeup of the download thread is lost.                                *)

\* The event is set while something is in the queue, and while StopAll waits, unless the
\* thread has emptied the queue since.
WakeInv ==
  /\ runPc # "none" /\ downloads # <<>> => queueNotEmpty
  /\ uimPc = "joining" /\ runPc # "none" => queueNotEmpty \/ takenAfterStop

LEMMA WakeStep ==
  ASSUME CacheInv, WakeInv, [CacheNext]_vars
  PROVE  WakeInv'
<1>. USE DEF WakeInv, queueVars, answerVars, diskVars
<1>1. CASE Init \/ Crash
  BY <1>1 DEF Init, Crash
<1>2. ASSUME NEW u \in Urls, FetchUrl(u) PROVE WakeInv'
  <2>1. PICK d \in Downloads : EnqueueDownload(d)
    <3>1. /\ fetches' = Append(fetches, u) /\ Len(fetches) < MaxFetches
          /\ \E p \in Paths : EnqueueDownload([fetch |-> Len(fetches'), path |-> p])
      BY <1>2 DEF FetchUrl
    <3>2. Len(fetches') \in FetchIds
      BY <3>1, CacheAssumption, AppendProperties, LenProperties
        DEF FetchIds, CacheInv, CacheTypeOK
    <3>. QED
      BY <3>1, <3>2 DEF Downloads
  <2>2. downloads' = Append(downloads, d) /\ downloads \in Seq(Downloads)
    BY <2>1 DEF EnqueueDownload, CacheInv, CacheTypeOK
  <2>3. downloads = <<>> => Len(downloads') = 1
    BY <2>2, AppendProperties, EmptySeq
  <2>4. /\ queueNotEmpty' = (queueNotEmpty \/ Len(downloads') = 1)
        /\ runPc' = runPc /\ uimPc' = "register"
    BY <1>2, <2>1 DEF FetchUrl, EnqueueDownload, UIMGoto
  <2>. QED
    BY <2>3, <2>4
<1>3. CASE SetObserver \/ UnregisterObserver \/ SetStopFlag \/ JoinDownloadThread
           \/ SaveCacheEntries \/ ClearOrphanFiles
  BY <1>3 DEF SetObserver, UnregisterObserver, SetStopFlag, JoinDownloadThread,
     SaveCacheEntries, ClearOrphanFiles, UIMGoto, UIMLeaves
<1>4. CASE WakeUp
  BY <1>4 DEF WakeUp, UIMGoto, UIMLeaves
<1>5. CASE WaitQueueNotEmpty \/ TestStopFlag \/ ExecuteDownload \/ NotifyAll
           \/ OnDownloadComplete \/ RemoveObserver
  BY <1>5 DEF WaitQueueNotEmpty, TestStopFlag, ExecuteDownload, NotifyAll,
     OnDownloadComplete, RemoveObserver, RunGoto
<1>6. CASE DequeueDownload
  <2>1. uimPc = "joining" => stop
    BY DEF CacheInv, QueueInv
  <2>. QED
    BY <1>6, <2>1 DEF DequeueDownload, RunGoto
<1>7. CASE UNCHANGED vars
  BY <1>7 DEF vars
<1>. QED
  BY <1>1, <1>2, <1>3, <1>4, <1>5, <1>6, <1>7 DEF CacheNext, UIM, UIMContinues, Run

\* A thread that waits for m_eventQueueNotEmpty does so in vain only if there is nothing to
\* do; when StopAll waits for the thread to end it has been woken, unless it has tested the
\* flag before StopAll set it, and taken the last download afterwards.
NoWakeupIsLost ==
  runPc = "waiting" /\ (downloads # <<>> \/ (uimPc = "joining" /\ ~takenAfterStop))
    => queueNotEmpty

\* EnqueueDownload and StopAll always leave a download thread that has something to do with
\* the event set, which is what FetchesAreAnswered and FinalizeEnds rest on.
THEOREM WaitingThreadIsWoken == CacheSpec => []NoWakeupIsLost
<1>1. CacheInit => WakeInv
  BY DEF CacheInit, WakeInv
<1>2. CacheInv /\ WakeInv /\ [CacheNext]_vars => WakeInv'
  BY WakeStep
<1>3. WakeInv => NoWakeupIsLost
  BY DEF WakeInv, NoWakeupIsLost
<1>. QED
  BY <1>1, <1>2, <1>3, InvAlways, PTL DEF CacheSpec

-----------------------------------------------------------------------------
(* A fetch that waits for its answer is under way.                          *)

Executing(f) == runPc \in Busy /\ inHand[1].fetch = f
Over(f) == f \in answered \cup missed

\* The fetches whose observer waits to be called, or is about to be registered.
Waiting(f) ==
  \/ \E u \in Urls : observers[u] = f /\ f # 0
  \/ uimPc = "register" /\ f = Len(fetches)

\* While the manager is registered with the notifier; RemoveObserver may remove what was
\* registered meanwhile, since OnDownloadComplete has answered or missed the fetch in hand.
PendingInv ==
  /\ registered /\ runPc # "none" =>
       \A f \in FetchIds : Waiting(f) => Over(f) \/ Scheduled(f) \/ Executing(f)
  /\ runPc = "removing" => Over(inHand[1].fetch)

\* Until Finalize the manager is registered and the thread alive.
AliveInv == uimPc \in {"running", "register"} => registered /\ ~stop /\ runPc # "none"

LEMMA AliveStep ==
  ASSUME AliveInv, [CacheNext]_vars
  PROVE  AliveInv'
<1>. USE DEF AliveInv, queueVars
<1>1. CASE UIM \/ Crash
  BY <1>1 DEF UIM, UIMContinues, Init, FetchUrl, UnregisterObserver, SetObserver, SetStopFlag,
     WakeUp, JoinDownloadThread, SaveCacheEntries, ClearOrphanFiles, Crash, UIMGoto, UIMLeaves
<1>2. CASE Run
  BY <1>2 DEF Run, WaitQueueNotEmpty, TestStopFlag, DequeueDownload, ExecuteDownload,
     NotifyAll, OnDownloadComplete, RemoveObserver, RunGoto
<1>3. CASE UNCHANGED vars
  BY <1>3 DEF vars
<1>. QED
  BY <1>1, <1>2, <1>3 DEF CacheNext

LEMMA PendingStep ==
  ASSUME CacheInv, PendingInv, [CacheNext]_vars
  PROVE  PendingInv'
<1>. USE DEF PendingInv, Over, Executing, Busy, queueVars, answerVars, diskVars
<1>0. CacheTypeOK /\ FetchInv
  BY DEF CacheInv
<1>1. CASE Init
  BY <1>1, CacheAssumption DEF Init, Waiting, FetchIds
<1>2. CASE Crash
  BY <1>2 DEF Crash
<1>3. ASSUME NEW u \in Urls, FetchUrl(u) PROVE PendingInv'
  <2>1. /\ fetches \in Seq(Urls) /\ fetches' = Append(fetches, u)
        /\ Len(fetches) < MaxFetches
    BY <1>0, <1>3 DEF FetchUrl, CacheTypeOK
  <2>2. Len(fetches) \in Nat /\ Len(fetches') = Len(fetches) + 1
    BY <2>1, AppendProperties, LenProperties
  <2>3. PICK p \in Paths :
          EnqueueDownload([fetch |-> Len(fetches'), path |-> p])
    BY <1>3 DEF FetchUrl
  <2>4. [fetch |-> Len(fetches'), path |-> p] \in Downloads
    BY <2>1, <2>2, CacheAssumption DEF Downloads, FetchIds
  <2>5. /\ Len(downloads) \in Nat
        /\ Len(downloads') = Len(downloads) + 1
        /\ \A i \in 1 .. Len(downloads) : downloads'[i] = downloads[i]
        /\ downloads'[Len(downloads')].fetch = Len(fetches')
        /\ downloads \in Seq(Downloads) /\ downloads' \in Seq(Downloads)
    BY <1>0, <2>3, <2>4, Enqueued DEF CacheTypeOK
  <2>6. DOMAIN downloads = 1 .. Len(downloads) /\ DOMAIN downloads' = 1 .. Len(downloads')
    BY <2>5, LenProperties
  <2>7. /\ \A f : Scheduled(f) => Scheduled(f)'
        /\ \A f : f = Len(fetches') => Scheduled(f)'
    <3>1. Len(downloads') \in DOMAIN downloads'
      BY <2>5, <2>6
    <3>2. \A i \in DOMAIN downloads : i \in DOMAIN downloads' /\ downloads'[i] = downloads[i]
      BY <2>5, <2>6
    <3>. QED
      BY <2>5, <3>1, <3>2 DEF Scheduled
  <2>8. /\ UNCHANGED <<registered, runPc, inHand, observers, answered, missed>>
        /\ uimPc = "running"
    BY <1>3 DEF FetchUrl, UIMGoto
  <2>9. \A f \in FetchIds : Waiting(f)' => Waiting(f) \/ f = Len(fetches')
    BY <2>8 DEF Waiting
  <2>10. ASSUME NEW f \in FetchIds, registered, runPc # "none", Waiting(f)'
         PROVE  Over(f)' \/ Scheduled(f)' \/ Executing(f)'
    <3>1. CASE Waiting(f)
      BY <2>7, <2>8, <2>10, <3>1
    <3>2. CASE f = Len(fetches')
      BY <2>7, <3>2
    <3>. QED
      BY <2>9, <2>10, <3>1, <3>2
  <2>. QED
    BY <2>8, <2>10
<1>4. CASE SetObserver
  <2>1. fetches \in Seq(Urls) /\ Len(fetches) \in Nat /\ Len(fetches) > 0
    BY <1>0, <1>4, LenProperties DEF SetObserver, UIMGoto, CacheTypeOK, FetchInv
  <2>2. \A f \in FetchIds : Waiting(f)' => Waiting(f)
    BY <1>0, <1>4, <2>1 DEF SetObserver, UIMGoto, Waiting, CacheTypeOK
  <2>3. UNCHANGED <<registered, runPc, inHand, downloads, answered>> /\ missed \subseteq missed'
    BY <1>4 DEF SetObserver
  <2>. QED
    BY <2>2, <2>3 DEF Scheduled
<1>5. CASE UnregisterObserver \/ SetStopFlag \/ WakeUp \/ JoinDownloadThread
           \/ SaveCacheEntries \/ ClearOrphanFiles
  BY <1>5 DEF UnregisterObserver, SetStopFlag, WakeUp, JoinDownloadThread, SaveCacheEntries,
     ClearOrphanFiles, UIMGoto, UIMLeaves, Waiting, Scheduled
<1>6. CASE WaitQueueNotEmpty \/ TestStopFlag
  BY <1>6 DEF WaitQueueNotEmpty, TestStopFlag, RunGoto, Waiting, Scheduled
<1>7. CASE DequeueDownload
  <2>1. /\ Len(downloads) \in Nat /\ Len(downloads) > 0
        /\ Len(downloads') = Len(downloads) - 1
        /\ \A i \in 1 .. Len(downloads') : downloads'[i] = downloads[i + 1]
        /\ inHand'[1].fetch = downloads[1].fetch
        /\ downloads \in Seq(Downloads) /\ downloads' \in Seq(Downloads)
    BY <1>0, <1>7, Dequeued DEF CacheTypeOK
  <2>2. DOMAIN downloads = 1 .. Len(downloads) /\ DOMAIN downloads' = 1 .. Len(downloads')
    BY <2>1, LenProperties
  <2>3. runPc = "taking" /\ runPc' = "downloading"
        /\ UNCHANGED <<uimPc, fetches, registered, observers, answered, missed>>
    BY <1>7 DEF DequeueDownload, RunGoto
  <2>4. ASSUME NEW f, Scheduled(f) PROVE Scheduled(f)' \/ Executing(f)'
    <3>1. PICK i \in 1 .. Len(downloads) : downloads[i].fetch = f
      BY <2>2, <2>4 DEF Scheduled
    <3>2. i = 1 \/ (i - 1 \in DOMAIN downloads' /\ downloads'[i - 1].fetch = f)
      BY <2>1, <2>2, <3>1
    <3>. QED
      BY <2>1, <2>3, <3>1, <3>2 DEF Scheduled
  <2>. QED
    BY <2>3, <2>4 DEF Waiting
<1>8. CASE ExecuteDownload
  <2>1. inHand'[1].fetch = inHand[1].fetch
    BY <1>0, <1>8, Executed
  <2>. QED
    BY <1>8, <2>1 DEF ExecuteDownload, RunGoto, Waiting, Scheduled
<1>9. CASE NotifyAll
  <2>1. UNCHANGED <<uimPc, fetches, registered, observers, answered, downloads>>
        /\ missed \subseteq missed'
    BY <1>9 DEF NotifyAll, RunGoto
  <2>2. runPc = "complete" /\ runPc' \in {"answering", "waiting"}
        /\ (runPc' = "answering" => inHand' = inHand)
    BY <1>9 DEF NotifyAll, RunGoto
  <2>3. registered /\ runPc' = "waiting" => inHand[1].fetch \in answered \cup missed'
    BY <1>9 DEF NotifyAll, RunGoto
  <2>. QED
    BY <2>1, <2>2, <2>3 DEF Waiting, Scheduled
<1>10. CASE OnDownloadComplete
  <2>1. UNCHANGED <<uimPc, fetches, registered, observers, downloads, inHand>>
        /\ answered \subseteq answered' /\ missed \subseteq missed'
        /\ runPc = "answering" /\ runPc' = "removing"
        /\ inHand[1].fetch \in answered' \cup missed'
    BY <1>10 DEF OnDownloadComplete, RunGoto
  <2>. QED
    BY <2>1 DEF Waiting, Scheduled
<1>11. CASE RemoveObserver
  <2>1. UNCHANGED <<uimPc, fetches, registered, answered, downloads>> /\ missed \subseteq missed'
        /\ runPc = "removing" /\ runPc' = "waiting"
    BY <1>11 DEF RemoveObserver, RunGoto
  <2>2. fetches[inHand[1].fetch] \in Urls /\ observers \in [Urls -> 0 .. MaxFetches]
    BY <1>0, <2>1, InHand DEF CacheTypeOK
  <2>3. \A f \in FetchIds : Waiting(f)' => Waiting(f)
    BY <1>11, <2>1, <2>2 DEF RemoveObserver, Waiting
  <2>. QED
    BY <2>1, <2>3 DEF Scheduled
<1>12. CASE UNCHANGED vars
  BY <1>12 DEF vars, Waiting, Scheduled
<1>. QED
  BY <1>1, <1>2, <1>3, <1>4, <1>5, <1>6, <1>7, <1>8, <1>9, <1>10, <1>11, <1>12
     DEF CacheNext, UIM, UIMContinues, Run

\* While the application runs, the download of every fetch whose observer is registered,
\* and has not been called or given up, is in the queue or in hand.
ObserversAreServed ==
  uimPc \in {"running", "register"} =>
    \A u \in Urls : LET f == observers[u]
                    IN  f = 0 \/ Over(f) \/ Scheduled(f) \/ Executing(f)

\* No observer stays in m_mapEntryObservers that nothing on its way will call, whatever
\* observers replace or remove one another, which is what FetchesAreAnswered rests on.
THEOREM RegisteredFetchesAreServed == CacheSpec => []ObserversAreServed
<1>1. CacheInit => PendingInv /\ AliveInv
  BY DEF CacheInit, PendingInv, AliveInv
<1>2. CacheInv /\ PendingInv /\ AliveInv /\ [CacheNext]_vars => PendingInv' /\ AliveInv'
  BY PendingStep, AliveStep
<1>3. CacheInv /\ PendingInv /\ AliveInv => ObserversAreServed
  <2>1. SUFFICES ASSUME CacheTypeOK, PendingInv, AliveInv, uimPc \in {"running", "register"},
                        NEW u \in Urls, observers[u] # 0
                 PROVE  Over(observers[u]) \/ Scheduled(observers[u]) \/ Executing(observers[u])
    BY DEF ObserversAreServed, CacheInv
  <2>2. observers[u] \in FetchIds
    BY <2>1, CacheAssumption DEF CacheTypeOK, FetchIds
  <2>. QED
    BY <2>1, <2>2 DEF PendingInv, AliveInv, Waiting
<1>. QED
  BY <1>1, <1>2, <1>3, InvAlways, PTL DEF CacheSpec
=============================================================================
