----------------------- MODULE FileTransferRefs_proofs -----------------------
(***************************************************************************)
(* For any transfers of any contacts: the references of a transfer, ended  *)
(* or not, are never fewer than those who will still give one up or use    *)
(* one, so that nothing that is pointed to has been destroyed.             *)
(***************************************************************************)
EXTENDS FileTransfer_proofs

InitQueued(x) == \E i \in 1 .. Len(queue) : queue[i] = Message("init", x)

\* The first report leaves a reference behind when it has been handled, which
\* covers the cancel of a user who has not been shown the end yet.
Owed(x) ==
  IF shown[x] \notin Final \cup {"absent"} \/ InitQueued(x) THEN 1 ELSE 0

\* An offer keeps a reference until the user has answered it, or it is denied.
Pending(x) == IF x \in Receives /\ request[x] \notin {"answered", "denied"} THEN 1 ELSE 0

Underway(x) == IF Live(x) THEN 1 ELSE 0

Held(x) == Underway(x) + Holds(x) + Cardinality(QueuedReports(x)) + Owed(x) + Pending(x)

HeldInv == \A x \in Xfers : status[x] # "new" => refs[x] >= Held(x)

\* The map has no destroyed transfer.
AliveInv == \A x \in m_mapFileTransfer : refs[x] > 0

UnusedInv == \A x \in Xfers : status[x] = "new" => refs[x] = 0

\* The types that TransferTypes leaves out.
FileInv ==
  /\ file \in [Xfers -> {"none", "partial", "complete", "deleted"}]
  /\ failed \subseteq Sends
  /\ disco_callbacks \subseteq Sends
  /\ canceling \subseteq failed

CountInv == HeldInv /\ AliveInv /\ UnusedInv /\ FileInv

-----------------------------------------------------------------------------
\* What a step that leaves the queue alone keeps.
LEMMA SameQueue ==
  ASSUME UNCHANGED queue, NEW y
  PROVE  /\ Cardinality(QueuedReports(y)') = Cardinality(QueuedReports(y))
         /\ InitQueued(y)' <=> InitQueued(y)
  BY DEF QueuedReports, InitQueued

\* A message posted is a first report of its transfer, or of none.
LEMMA InitPosted ==
  ASSUME TransferTypes, NEW kind \in Kinds, NEW x \in Xfers, Post(kind, x), NEW y \in Xfers
  PROVE  InitQueued(y)' <=> (InitQueued(y) \/ (y = x /\ kind = "init"))
<1>1. /\ Len(queue') = Len(queue) + 1 /\ Len(queue) \in Nat
      /\ \A i \in 1 .. Len(queue) : queue'[i] = queue[i]
      /\ queue'[Len(queue) + 1] = Message(kind, x)
  BY PostQueue, QueuedMessages
<1>2. Message(kind, x) = Message("init", y) <=> y = x /\ kind = "init"
  BY DEF Message
<1>3. 1 .. Len(queue') = 1 .. Len(queue) \cup {Len(queue) + 1}
  BY <1>1
<1>. QED
  BY <1>1, <1>2, <1>3 DEF InitQueued

\* A message received is not received again; a first report is the only one.
LEMMA InitReceived ==
  ASSUME TransferTypes, QueueInv, NEW kind \in Kinds, NEW x \in Xfers, Received(kind, x),
         NEW y \in Xfers
  PROVE  /\ InitQueued(y)' => InitQueued(y)
         /\ kind = "init" /\ y = x => InitQueued(y) /\ ~InitQueued(y)'
<1>1. /\ Len(queue') \in Nat /\ Len(queue) = Len(queue') + 1
      /\ \A i \in 1 .. Len(queue') : queue'[i] = queue[i + 1]
      /\ queue[1] = Message(kind, x)
  BY ReceivedQueue, QueuedMessages
<1>2. 1 \in 1 .. Len(queue) /\ \A i \in 1 .. Len(queue') : i + 1 \in 1 .. Len(queue) /\ i + 1 # 1
  BY <1>1
<1>3. InitQueued(y)' => InitQueued(y)
  BY <1>1, <1>2 DEF InitQueued
<1>4. ASSUME kind = "init", y = x
      PROVE  InitQueued(y) /\ ~InitQueued(y)'
  <2>1. queue[1].kind = "init" /\ queue[1] = Message("init", y)
    BY <1>1, <1>4 DEF Message
  <2>2. \A i \in 1 .. Len(queue') : queue[i + 1] # queue[1]
    BY <1>2, <2>1 DEF QueueInv
  <2>. QED
    BY <1>1, <1>2, <2>1, <2>2 DEF InitQueued
<1>. QED
  BY <1>3, <1>4

\* The end of a transfer posts two reports, neither of them a first one.
LEMMA CompletedReports ==
  ASSUME TransferTypes, NEW x \in Xfers, CompleteTransfer(x), NEW y \in Xfers
  PROVE  /\ Cardinality(QueuedReports(y)') =
              Cardinality(QueuedReports(y)) + (IF y = x THEN 2 ELSE 0)
         /\ InitQueued(y)' <=> InitQueued(y)
<1>1. /\ Len(queue') = Len(queue) + 2 /\ Len(queue) \in Nat
      /\ \A i \in 1 .. Len(queue) : queue'[i] = queue[i]
      /\ \A i \in Len(queue) + 1 .. Len(queue) + 2 : queue'[i] = Message("progress", x)
  BY CompletedQueue, QueuedMessages
<1>2. /\ queue'[Len(queue) + 1] = Message("progress", x)
      /\ queue'[Len(queue) + 2] = Message("progress", x)
  BY <1>1
<1>3. 1 .. Len(queue') = 1 .. Len(queue) \cup {Len(queue) + 1, Len(queue) + 2}
  BY <1>1
<1>4. Message("progress", x).xfer = x /\ Message("progress", x).kind = "progress"
  BY DEF Message
<1>5. InitQueued(y)' <=> InitQueued(y)
  <2>1. Message("progress", x) # Message("init", y)
    BY DEF Message
  <2>. QED
    BY <1>1, <1>2, <1>3, <2>1 DEF InitQueued
<1>6. CASE y = x
  <2>1. QueuedReports(y)' = (QueuedReports(y) \cup {Len(queue) + 1}) \cup {Len(queue) + 2}
    BY <1>1, <1>2, <1>3, <1>4, <1>6 DEF QueuedReports
  <2>2. Len(queue) + 1 \notin QueuedReports(y)
    BY <1>1 DEF QueuedReports
  <2>3. Len(queue) + 2 \notin QueuedReports(y) \cup {Len(queue) + 1}
    BY <1>1 DEF QueuedReports
  <2>4. /\ IsFiniteSet(QueuedReports(y)) /\ Cardinality(QueuedReports(y)) \in Nat
        /\ IsFiniteSet(QueuedReports(y) \cup {Len(queue) + 1})
        /\ Cardinality(QueuedReports(y) \cup {Len(queue) + 1}) = Cardinality(QueuedReports(y)) + 1
    BY <2>2, ReportsFinite, FS_AddElement
  <2>5. Cardinality(QueuedReports(y)') =
          Cardinality(QueuedReports(y) \cup {Len(queue) + 1}) + 1
    <3>. DEFINE S == QueuedReports(y) \cup {Len(queue) + 1}
    <3>1. IsFiniteSet(S) /\ Len(queue) + 2 \notin S
      BY <2>3, <2>4
    <3>. HIDE DEF S
    <3>2. Cardinality(S \cup {Len(queue) + 2}) = Cardinality(S) + 1
      BY <3>1, FS_AddElement
    <3>. QED
      BY <2>1, <3>2 DEF S
  <2>. QED
    BY <1>5, <1>6, <2>4, <2>5
<1>7. CASE y # x
  <2>1. QueuedReports(y)' = QueuedReports(y)
    BY <1>1, <1>2, <1>3, <1>4, <1>7 DEF QueuedReports
  <2>. QED
    BY <1>5, <1>7, <2>1, ReportsFinite
<1>. QED
  BY <1>6, <1>7

-----------------------------------------------------------------------------
\* A step about one transfer.
Moves(x) ==
  /\ \A y \in Xfers \ {x} :
       /\ refs'[y] = refs[y] /\ status'[y] = status[y] /\ shown'[y] = shown[y]
       /\ y \in record' => y \in record
       /\ y \in m_mapFileTransfer' => y \in m_mapFileTransfer
       /\ Cardinality(QueuedReports(y)') = Cardinality(QueuedReports(y))
       /\ InitQueued(y)' => InitQueued(y)
  /\ \A y \in Receives \ {x} : request'[y] = request[y]

\* It keeps the invariant if the references of that transfer are enough.
LEMMA CountKept ==
  ASSUME TransferTypes, TransferTypes', CountInv, FileInv', NEW x \in Xfers, Moves(x),
         status'[x] # "new", refs'[x] >= Held(x)',
         x \in m_mapFileTransfer' => refs'[x] > 0
  PROVE  CountInv'
<1>1. ASSUME NEW y \in Xfers \ {x}, status'[y] # "new"
      PROVE  refs'[y] >= Held(y)'
  <2>1. refs[y] >= Held(y) /\ refs'[y] = refs[y] /\ refs[y] \in Int
    BY <1>1 DEF CountInv, HeldInv, Moves, TransferTypes
  <2>2. /\ Cardinality(QueuedReports(y)') = Cardinality(QueuedReports(y))
        /\ Cardinality(QueuedReports(y)) \in Nat
    BY ReportsFinite DEF Moves
  <2>3. Underway(y)' = Underway(y) /\ Underway(y) \in Nat
    BY <1>1 DEF Moves, Underway, Live, Xfers
  <2>4. Holds(y)' <= Holds(y) /\ Holds(y) \in Nat /\ Holds(y)' \in Nat
    BY <1>1 DEF Moves, Holds
  <2>5. Owed(y)' <= Owed(y) /\ Owed(y) \in Nat /\ Owed(y)' \in Nat
    BY <1>1 DEF Moves, Owed
  <2>6. Pending(y)' = Pending(y) /\ Pending(y) \in Nat
    BY <1>1 DEF Moves, Pending
  <2>. QED
    BY <2>1, <2>2, <2>3, <2>4, <2>5, <2>6 DEF Held
<1>2. HeldInv'
  BY <1>1 DEF HeldInv
<1>3. AliveInv'
  BY DEF AliveInv, CountInv, Moves, TransferTypes
<1>4. UnusedInv'
  BY DEF UnusedInv, CountInv, Moves, TransferTypes
<1>. QED
  BY <1>2, <1>3, <1>4 DEF CountInv

\* A step that concerns no reference keeps it too.
LEMMA CountUnchanged ==
  ASSUME CountInv, FileInv',
         UNCHANGED <<status, refs, m_mapFileTransfer, request, record, queue, shown>>
  PROVE  CountInv'
  BY
  DEF CountInv, HeldInv, AliveInv, UnusedInv, Held, Underway, Live, Holds, QueuedReports, Owed,
      InitQueued, Pending

-----------------------------------------------------------------------------
\* SendFile gives up no reference that somebody else relies on.
LEMMA SendFileCounts ==
  ASSUME TransferInv, CountInv, NEW x \in Sends, SendFile(x)
  PROVE  CountInv'
<1>. USE DEF vars, libVars, idVars, requestVars, workerVars
<1>0. TransferTypes /\ TransferTypes' /\ x \in Xfers
  BY SendFileInv DEF TransferInv, Xfers
<1>1. FileInv'
  BY <1>0
  DEF SendFile, FileSendFailed, AskClient, CountInv, FileInv, TransferTypes
<1>2. \A y \in Xfers :
        /\ Cardinality(QueuedReports(y)') =
             Cardinality(QueuedReports(y)) + (IF y = x THEN 1 ELSE 0)
        /\ Cardinality(QueuedReports(y)) \in Nat
        /\ InitQueued(y)' <=> (InitQueued(y) \/ y = x)
  <2>1. Post("init", x) /\ "init" \in Kinds
    BY DEF SendFile, Kinds
  <2>. QED
    BY <1>0, <2>1, ReportsPosted, InitPosted, ReportsFinite
<1>3. Moves(x)
  BY <1>0, <1>2
  DEF SendFile, SetStatus, AddPurpleXfer, Moves, TransferTypes
<1>4. status'[x] # "new" /\ status[x] = "new"
  BY <1>0
  DEF SendFile, SetStatus, TransferTypes
<1>5. refs'[x] >= Held(x)'
  <2>1. Cardinality(QueuedReports(x)) = 0
    BY <1>0, <1>4, NoReports, QueuedMessages DEF SendFile, TransferInv, QueueInv
  <2>2. Holds(x)' = 0 /\ Pending(x)' = 0
    BY <1>0, FileTransferAssumption DEF Holds, Pending, SendFile, TransferTypes
  <2>3. Underway(x)' \in 0 .. 1 /\ Owed(x)' \in 0 .. 1
    BY DEF Underway, Owed
  <2>4. refs'[x] = 3
    BY <1>0 DEF SendFile, PostedRefs, TransferTypes
  <2>. QED
    BY <1>0, <1>2, <2>1, <2>2, <2>3, <2>4 DEF Held
<1>6. x \in m_mapFileTransfer' => refs'[x] > 0
  BY <1>0
  DEF SendFile, PostedRefs, TransferTypes
<1>. QED
  BY <1>0, <1>1, <1>3, <1>4, <1>5, <1>6, CountKept

\* AcceptFileAsync gives up no reference that somebody else relies on.
LEMMA AcceptFileAsyncCounts ==
  ASSUME TransferInv, CountInv, NEW x \in Receives, AcceptFileAsync(x)
  PROVE  CountInv'
<1>. USE DEF vars, libVars, idVars, requestVars, workerVars
<1>0. TransferTypes /\ TransferTypes' /\ x \in Xfers
  BY AcceptFileAsyncInv DEF TransferInv, Xfers
<1>1. FileInv'
  BY <1>0
  DEF AcceptFileAsync, CountInv, FileInv, TransferTypes
<1>2. \A y \in Xfers : /\ Cardinality(QueuedReports(y)') = Cardinality(QueuedReports(y))
                       /\ Cardinality(QueuedReports(y)) \in Nat
                       /\ InitQueued(y)' <=> InitQueued(y)
  <2>1. UNCHANGED queue
    BY DEF AcceptFileAsync
  <2>. QED
    BY <1>0, <2>1, SameQueue, ReportsFinite
<1>3. Moves(x)
  BY <1>0, <1>2
  DEF AcceptFileAsync, Moves, TransferTypes
<1>4. status'[x] # "new" /\ status[x] # "new"
  BY <1>0
  DEF AcceptFileAsync, TransferTypes, TransferInv, NewInv, Untouched, OfferInv, RecordInv,
      QueueInv
<1>5. refs'[x] >= Held(x)'
  <2>1. status[x] # "new" => refs[x] >= Held(x)
    BY <1>0 DEF CountInv, HeldInv
  <2>2. Underway(x)' = Underway(x) /\ Underway(x) \in 0 .. 1
    BY DEF Underway, Live, AcceptFileAsync
  <2>3. /\ Holds(x)' = Holds(x) /\ Holds(x) \in 0 .. 1
        /\ Pending(x) = 1 /\ Pending(x)' \in 0 .. 1
    BY DEF Holds, Pending, AcceptFileAsync
  <2>4. Owed(x)' = Owed(x) /\ Owed(x) \in 0 .. 1
    BY <1>0, <1>2 DEF Owed, AcceptFileAsync
  <2>5. refs'[x] = refs[x]
    BY DEF AcceptFileAsync
  <2>6. /\ Cardinality(QueuedReports(x)') = Cardinality(QueuedReports(x))
        /\ Cardinality(QueuedReports(x)) \in Nat /\ refs[x] \in Int
    BY <1>0, <1>2 DEF TransferTypes
  <2>. QED
    BY <1>4, <2>1, <2>2, <2>3, <2>4, <2>5, <2>6 DEF Held
<1>6. x \in m_mapFileTransfer' => refs'[x] > 0
  BY <1>0
  DEF AcceptFileAsync, CountInv, AliveInv, TransferTypes
<1>. QED
  BY <1>0, <1>1, <1>3, <1>4, <1>5, <1>6, CountKept

\* RejectFileAsync gives up no reference that somebody else relies on.
LEMMA RejectFileAsyncCounts ==
  ASSUME TransferInv, CountInv, NEW x \in Receives, RejectFileAsync(x)
  PROVE  CountInv'
<1>. USE DEF vars, libVars, idVars, requestVars, workerVars
<1>0. TransferTypes /\ TransferTypes' /\ x \in Xfers
  BY RejectFileAsyncInv DEF TransferInv, Xfers
<1>1. FileInv'
  BY <1>0
  DEF RejectFileAsync, CountInv, FileInv, TransferTypes
<1>2. \A y \in Xfers : /\ Cardinality(QueuedReports(y)') = Cardinality(QueuedReports(y))
                       /\ Cardinality(QueuedReports(y)) \in Nat
                       /\ InitQueued(y)' <=> InitQueued(y)
  <2>1. UNCHANGED queue
    BY DEF RejectFileAsync, SetStatus, RemovePurpleXfer
  <2>. QED
    BY <1>0, <2>1, SameQueue, ReportsFinite
<1>3. Moves(x)
  BY <1>0, <1>2
  DEF RejectFileAsync, SetStatus, RemovePurpleXfer, Moves, TransferTypes
<1>4. status'[x] # "new" /\ status[x] # "new"
  BY <1>0
  DEF RejectFileAsync, SetStatus, TransferTypes, TransferInv, NewInv
<1>5. refs'[x] >= Held(x)'
  <2>1. status[x] # "new" => refs[x] >= Held(x)
    BY <1>0 DEF CountInv, HeldInv
  <2>2. Pending(x) = 1 /\ Pending(x)' = 0
    BY <1>0 DEF Pending, RejectFileAsync, TransferTypes
  <2>3. Holds(x)' = Holds(x) /\ Holds(x) \in 0 .. 1
    <3>1. request[x] # "posted" /\ request'[x] # "posted" /\ UNCHANGED record
      BY <1>0 DEF RejectFileAsync, TransferTypes
    <3>. QED
      BY <3>1 DEF Holds
  <2>4. Owed(x)' = Owed(x) /\ Owed(x) \in 0 .. 1
    BY <1>0, <1>2 DEF Owed, RejectFileAsync
  <2>5. /\ Cardinality(QueuedReports(x)') = Cardinality(QueuedReports(x))
        /\ Cardinality(QueuedReports(x)) \in Nat /\ refs[x] \in Int
    BY <1>0, <1>2 DEF TransferTypes
  <2>a. request[x] = "asked" /\ request'[x] = "answered"
    BY <1>0 DEF RejectFileAsync, TransferTypes
  <2>6. CASE status[x] # "cancelRemote"
    <3>1. status[x] = "notStarted" /\ status'[x] = "cancelLocal"
      BY <1>0, <1>4, <2>6 DEF RejectFileAsync, SetStatus, TransferTypes, TransferInv, OfferInv
    <3>2. Underway(x) = 1 /\ Underway(x)' = 0
      BY <2>a, <3>1 DEF Underway, Live, Final
    <3>3. refs'[x] = refs[x] - 2
      BY <1>0, <2>6 DEF RejectFileAsync, TransferTypes
    <3>. QED
      BY <1>4, <2>1, <2>2, <2>3, <2>4, <2>5, <3>2, <3>3 DEF Held
  <2>7. CASE status[x] = "cancelRemote"
    <3>1. UNCHANGED <<status, refs>>
      BY <2>7 DEF RejectFileAsync
    <3>2. Underway(x)' = Underway(x) /\ Underway(x) \in 0 .. 1
      BY <2>a, <3>1 DEF Underway, Live
    <3>. QED
      BY <1>4, <2>1, <2>2, <2>3, <2>4, <2>5, <3>1, <3>2 DEF Held
  <2>. QED
    BY <2>6, <2>7
<1>6. x \in m_mapFileTransfer' => refs'[x] > 0
  BY <1>0
  DEF RejectFileAsync, RemovePurpleXfer, CountInv, AliveInv, TransferTypes
<1>. QED
  BY <1>0, <1>1, <1>3, <1>4, <1>5, <1>6, CountKept

\* CloseConversation gives up no reference that somebody else relies on.
LEMMA CloseConversationCounts ==
  ASSUME TransferInv, CountInv, NEW x \in Receives, CloseConversation(x)
  PROVE  CountInv'
<1>. USE DEF vars, libVars, idVars, requestVars, workerVars
<1>0. TransferTypes /\ TransferTypes' /\ x \in Xfers
  BY CloseConversationInv DEF TransferInv, Xfers
<1>1. FileInv'
  BY <1>0
  DEF CloseConversation, CountInv, FileInv, TransferTypes
<1>2. \A y \in Xfers : /\ Cardinality(QueuedReports(y)') = Cardinality(QueuedReports(y))
                       /\ Cardinality(QueuedReports(y)) \in Nat
                       /\ InitQueued(y)' <=> InitQueued(y)
  <2>1. UNCHANGED queue
    BY DEF CloseConversation, Unref, RemovePurpleXfer
  <2>. QED
    BY <1>0, <2>1, SameQueue, ReportsFinite
<1>3. Moves(x)
  BY <1>0, <1>2
  DEF CloseConversation, Unref, RemovePurpleXfer, Moves, TransferTypes
<1>4. status'[x] # "new" /\ status[x] # "new"
  BY <1>0
  DEF CloseConversation, TransferTypes, TransferInv, NewInv, RecordInv
<1>5. refs'[x] >= Held(x)'
  <2>1. status[x] # "new" => refs[x] >= Held(x)
    BY <1>0 DEF CountInv, HeldInv
  <2>2. Underway(x)' = Underway(x) /\ Underway(x) \in 0 .. 1
    BY DEF Underway, Live, CloseConversation
  <2>3. Holds(x) = 1 /\ Holds(x)' = 0
    <3>1. request[x] # "posted"
      BY DEF CloseConversation, TransferInv, RecordInv
    <3>. QED
      BY <3>1 DEF Holds, CloseConversation
  <2>4. Owed(x)' = Owed(x) /\ Owed(x) \in 0 .. 1
    BY <1>0, <1>2 DEF Owed, CloseConversation
  <2>5. refs'[x] = refs[x] - 1
    BY <1>0 DEF CloseConversation, Unref, TransferTypes
  <2>6. /\ Cardinality(QueuedReports(x)') = Cardinality(QueuedReports(x))
        /\ Cardinality(QueuedReports(x)) \in Nat /\ refs[x] \in Int
    BY <1>0, <1>2 DEF TransferTypes
  <2>7. Pending(x)' = Pending(x) /\ Pending(x) \in 0 .. 1
    BY DEF Pending, CloseConversation
  <2>. QED
    BY <1>4, <2>1, <2>2, <2>3, <2>4, <2>5, <2>6, <2>7 DEF Held
<1>6. x \in m_mapFileTransfer' => refs'[x] > 0
  BY <1>0
  DEF CloseConversation, Unref, RemovePurpleXfer, CountInv, AliveInv, TransferTypes
<1>. QED
  BY <1>0, <1>1, <1>3, <1>4, <1>5, <1>6, CountKept

\* CancelFileTransfer gives up no reference that somebody else relies on.
LEMMA CancelFileTransferCounts ==
  ASSUME TransferInv, CountInv, NEW x \in Xfers, CancelFileTransfer(x)
  PROVE  CountInv'
<1>. USE DEF vars, libVars, idVars, requestVars, workerVars
<1>0. TransferTypes /\ TransferTypes' /\ x \in Xfers
  BY CancelFileTransferInv DEF TransferInv, Xfers
<1>1. FileInv'
  BY <1>0
  DEF CancelFileTransfer, CountInv, FileInv, TransferTypes
<1>2. \A y \in Xfers : /\ Cardinality(QueuedReports(y)') = Cardinality(QueuedReports(y))
                       /\ Cardinality(QueuedReports(y)) \in Nat
                       /\ InitQueued(y)' <=> InitQueued(y)
  <2>1. UNCHANGED queue
    BY DEF CancelFileTransfer, CancelLocal, SetStatus
  <2>. QED
    BY <1>0, <2>1, SameQueue, ReportsFinite
<1>3. Moves(x)
  BY <1>0, <1>2
  DEF CancelFileTransfer, CancelLocal, SetStatus, Unref, RemovePurpleXfer, Moves, TransferTypes
<1>4. status'[x] # "new" /\ status[x] # "new"
  BY <1>0
  DEF CancelFileTransfer, CancelLocal, SetStatus, TransferTypes, TransferInv, NewInv
<1>5. refs'[x] >= Held(x)'
  <2>1. refs[x] >= Held(x)
    BY <1>0, <1>4 DEF CountInv, HeldInv
  <2>2. ~InitQueued(x)
    BY <1>0 DEF InitQueued, Message, CancelFileTransfer, TransferInv, QueueInv
  <2>3. Owed(x) = 1 /\ Owed(x)' = 0
    BY <1>0, <1>2, <2>2 DEF Owed, CancelFileTransfer, TransferTypes, Final
  <2>4. Holds(x)' = Holds(x) /\ Pending(x)' = Pending(x)
    BY DEF Holds, Pending, CancelFileTransfer
  <2>5. Underway(x)' <= Underway(x) /\ Underway(x) \in 0 .. 1 /\ Underway(x)' \in 0 .. 1
    <3>1. status'[x] \in {status[x], "cancelLocal"} /\ UNCHANGED request
      BY <1>0 DEF CancelFileTransfer, CancelLocal, SetStatus, TransferTypes
    <3>. QED
      BY <3>1 DEF Underway, Live, Final
  <2>6. refs'[x] >= refs[x] - 1
    BY <1>0 DEF CancelFileTransfer, CancelLocal, Unref, TransferTypes
  <2>7. Holds(x) \in 0 .. 1 /\ Pending(x) \in 0 .. 1
    BY DEF Holds, Pending
  <2>. QED
    BY <1>0, <1>2, <2>1, <2>3, <2>4, <2>5, <2>6, <2>7 DEF Held, TransferTypes
<1>6. x \in m_mapFileTransfer' => refs'[x] > 0
  BY <1>0
  DEF CancelFileTransfer, CancelLocal, Unref, RemovePurpleXfer, CountInv, AliveInv,
      TransferTypes
<1>. QED
  BY <1>0, <1>1, <1>3, <1>4, <1>5, <1>6, CountKept

\* NotifyRequestFileTransferAsync gives up no reference that somebody else relies on.
LEMMA NotifyRequestFileTransferAsyncCounts ==
  ASSUME TransferInv, CountInv, NEW x \in Receives, NotifyRequestFileTransferAsync(x)
  PROVE  CountInv'
<1>. USE DEF vars, libVars, idVars, requestVars, workerVars
<1>0. TransferTypes /\ TransferTypes' /\ x \in Xfers
  BY NotifyRequestFileTransferAsyncInv DEF TransferInv, Xfers
<1>1. FileInv'
  BY <1>0
  DEF NotifyRequestFileTransferAsync, CountInv, FileInv, TransferTypes
<1>2. \A y \in Xfers :
        /\ Cardinality(QueuedReports(y)) =
             Cardinality(QueuedReports(y)') + (IF y = x /\ FALSE THEN 1 ELSE 0)
        /\ Cardinality(QueuedReports(y)') \in Nat
        /\ InitQueued(y)' => InitQueued(y)
  <2>1. Received("ask", x) /\ "ask" \in Kinds /\ QueueInv
    BY DEF NotifyRequestFileTransferAsync, Kinds, TransferInv
  <2>. QED
    BY <1>0, <2>1, ReportsReceived, InitReceived
<1>3. Moves(x)
  BY <1>0, <1>2
  DEF NotifyRequestFileTransferAsync, Moves, TransferTypes
<1>4. status'[x] # "new" /\ status[x] # "new"
  <2>1. queue[1] = Message("ask", x) /\ 1 \in 1 .. Len(queue)
    BY <1>0, ReceivedQueue, QueuedMessages DEF NotifyRequestFileTransferAsync, Kinds
  <2>2. status[x] # "new" /\ UNCHANGED status
    BY <2>1 DEF NotifyRequestFileTransferAsync, TransferInv, QueueInv, Message
  <2>. QED
    BY <2>2
<1>5. refs'[x] >= Held(x)'
  <2>1. refs[x] >= Held(x)
    BY <1>0, <1>4 DEF CountInv, HeldInv
  <2>2. request[x] = "posted"
    <3>1. queue[1] = Message("ask", x) /\ 1 \in 1 .. Len(queue)
      BY <1>0, ReceivedQueue, QueuedMessages DEF NotifyRequestFileTransferAsync, Kinds
    <3>. QED
      BY <3>1 DEF TransferInv, QueueInv, Message
  <2>3. Holds(x) = 1 /\ Holds(x)' \in 0 .. 1
    BY <2>2 DEF Holds
  <2>4. Pending(x)' = Pending(x) /\ Pending(x) \in 0 .. 1
    BY <1>0, <2>2 DEF Pending, NotifyRequestFileTransferAsync, TransferTypes
  <2>5. Underway(x)' = Underway(x) /\ Underway(x) \in 0 .. 1
    BY <1>0, <2>2 DEF Underway, Live, NotifyRequestFileTransferAsync, TransferTypes
  <2>6. Owed(x)' <= Owed(x) /\ Owed(x) \in 0 .. 1 /\ Owed(x)' \in 0 .. 1
    BY <1>0, <1>2 DEF Owed, NotifyRequestFileTransferAsync
  <2>7. refs'[x] = refs[x]
    BY DEF NotifyRequestFileTransferAsync
  <2>. QED
    BY <1>0, <1>2, <2>1, <2>3, <2>4, <2>5, <2>6, <2>7 DEF Held, TransferTypes
<1>6. x \in m_mapFileTransfer' => refs'[x] > 0
  BY <1>0
  DEF NotifyRequestFileTransferAsync, CountInv, AliveInv, TransferTypes
<1>. QED
  BY <1>0, <1>1, <1>3, <1>4, <1>5, <1>6, CountKept

\* NotifyFileTransferInit gives up no reference that somebody else relies on.
LEMMA NotifyFileTransferInitCounts ==
  ASSUME TransferInv, CountInv, NEW x \in Xfers, NotifyFileTransferInit(x)
  PROVE  CountInv'
<1>. USE DEF vars, libVars, idVars, requestVars, workerVars
<1>0. TransferTypes /\ TransferTypes' /\ x \in Xfers
  BY NotifyFileTransferInitInv DEF TransferInv, Xfers
<1>1. FileInv'
  BY <1>0
  DEF NotifyFileTransferInit, CountInv, FileInv, TransferTypes
<1>2. \A y \in Xfers :
        /\ Cardinality(QueuedReports(y)) =
             Cardinality(QueuedReports(y)') + (IF y = x THEN 1 ELSE 0)
        /\ Cardinality(QueuedReports(y)') \in Nat
        /\ InitQueued(y)' => InitQueued(y)
        /\ y = x => InitQueued(y) /\ ~InitQueued(y)'
  <2>1. Received("init", x) /\ "init" \in Kinds /\ QueueInv
    BY DEF NotifyFileTransferInit, Kinds, TransferInv
  <2>. QED
    BY <1>0, <2>1, ReportsReceived, InitReceived
<1>3. Moves(x)
  BY <1>0, <1>2
  DEF NotifyFileTransferInit, Unref, RemovePurpleXfer, Moves, TransferTypes
<1>4. status'[x] # "new" /\ status[x] # "new"
  <2>1. queue[1] = Message("init", x) /\ 1 \in 1 .. Len(queue)
    BY <1>0, ReceivedQueue, QueuedMessages DEF NotifyFileTransferInit, Kinds
  <2>2. status[x] # "new" /\ UNCHANGED status
    BY <2>1 DEF NotifyFileTransferInit, TransferInv, QueueInv, Message
  <2>. QED
    BY <2>2
<1>5. refs'[x] >= Held(x)'
  <2>1. status[x] # "new" => refs[x] >= Held(x)
    BY <1>0 DEF CountInv, HeldInv
  <2>2. Underway(x)' = Underway(x) /\ Underway(x) \in 0 .. 1
    BY DEF Underway, Live, NotifyFileTransferInit
  <2>3. /\ Holds(x)' = Holds(x) /\ Holds(x) \in 0 .. 1
        /\ Pending(x)' = Pending(x) /\ Pending(x) \in 0 .. 1
    BY DEF Holds, Pending, NotifyFileTransferInit
  <2>4. Owed(x) = 1 /\ Owed(x)' \in 0 .. 1
    BY <1>0, <1>2 DEF Owed
  <2>5. refs'[x] = refs[x] - 1
    BY <1>0 DEF NotifyFileTransferInit, Unref, TransferTypes
  <2>6. /\ Cardinality(QueuedReports(x)) = Cardinality(QueuedReports(x)') + 1
        /\ Cardinality(QueuedReports(x)') \in Nat /\ refs[x] \in Int
    BY <1>0, <1>2 DEF TransferTypes
  <2>. QED
    BY <1>4, <2>1, <2>2, <2>3, <2>4, <2>5, <2>6 DEF Held
<1>6. x \in m_mapFileTransfer' => refs'[x] > 0
  BY <1>0
  DEF NotifyFileTransferInit, Unref, RemovePurpleXfer, CountInv, AliveInv, TransferTypes
<1>. QED
  BY <1>0, <1>1, <1>3, <1>4, <1>5, <1>6, CountKept

\* NotifyFileTransferUpdateProgress gives up no reference that somebody else relies on.
LEMMA NotifyFileTransferUpdateProgressCounts ==
  ASSUME TransferInv, CountInv, NEW x \in Xfers, NotifyFileTransferUpdateProgress(x)
  PROVE  CountInv'
<1>. USE DEF vars, libVars, idVars, requestVars, workerVars
<1>0. TransferTypes /\ TransferTypes' /\ x \in Xfers
  BY NotifyFileTransferUpdateProgressInv DEF TransferInv, Xfers
<1>1. FileInv'
  BY <1>0
  DEF NotifyFileTransferUpdateProgress, CountInv, FileInv, TransferTypes
<1>2. \A y \in Xfers :
        /\ Cardinality(QueuedReports(y)) =
             Cardinality(QueuedReports(y)') + (IF y = x THEN 1 ELSE 0)
        /\ Cardinality(QueuedReports(y)') \in Nat
        /\ InitQueued(y)' => InitQueued(y)
  <2>1. Received("progress", x) /\ "progress" \in Kinds /\ QueueInv
    BY DEF NotifyFileTransferUpdateProgress, Kinds, TransferInv
  <2>. QED
    BY <1>0, <2>1, ReportsReceived, InitReceived
<1>3. Moves(x)
  BY <1>0, <1>2
  DEF NotifyFileTransferUpdateProgress, Unref, RemovePurpleXfer, Moves, TransferTypes
<1>4. status'[x] # "new" /\ status[x] # "new"
  <2>1. queue[1] = Message("progress", x) /\ 1 \in 1 .. Len(queue)
    BY <1>0, ReceivedQueue, QueuedMessages DEF NotifyFileTransferUpdateProgress, Kinds
  <2>2. status[x] # "new" /\ UNCHANGED status
    BY <2>1 DEF NotifyFileTransferUpdateProgress, TransferInv, QueueInv, Message
  <2>. QED
    BY <2>2
<1>5. refs'[x] >= Held(x)'
  <2>1. refs[x] >= Held(x)
    BY <1>0, <1>4 DEF CountInv, HeldInv
  <2>2. /\ Holds(x)' = Holds(x) /\ Holds(x) \in 0 .. 1
        /\ Pending(x)' = Pending(x) /\ Pending(x) \in 0 .. 1
    BY DEF Holds, Pending, NotifyFileTransferUpdateProgress
  <2>3. Underway(x)' = Underway(x) /\ Underway(x) \in 0 .. 1
    BY DEF Underway, Live, NotifyFileTransferUpdateProgress
  <2>4. Owed(x)' <= Owed(x) /\ Owed(x) \in 0 .. 1 /\ Owed(x)' \in 0 .. 1
    <3>1. shown'[x] = IF shown[x] # "absent" THEN status[x] ELSE "absent"
      BY <1>0 DEF NotifyFileTransferUpdateProgress, TransferTypes
    <3>2. shown[x] \in Final => status[x] \in Final
      BY <1>0 DEF TransferInv, ShownInv
    <3>. QED
      BY <1>0, <1>2, <3>1, <3>2 DEF Owed
  <2>5. refs'[x] = refs[x] - 1
    BY <1>0 DEF NotifyFileTransferUpdateProgress, Unref, TransferTypes
  <2>6. /\ Cardinality(QueuedReports(x)) = Cardinality(QueuedReports(x)') + 1
        /\ Cardinality(QueuedReports(x)') \in Nat
    BY <1>0, <1>2
  <2>7. refs[x] \in Int
    BY <1>0 DEF TransferTypes
  <2>. QED
    BY <2>1, <2>2, <2>3, <2>4, <2>5, <2>6, <2>7 DEF Held
<1>6. x \in m_mapFileTransfer' => refs'[x] > 0
  BY <1>0
  DEF NotifyFileTransferUpdateProgress, Unref, RemovePurpleXfer, CountInv, AliveInv,
      TransferTypes
<1>. QED
  BY <1>0, <1>1, <1>3, <1>4, <1>5, <1>6, CountKept

\* NotifyFileTransferCanceled gives up no reference that somebody else relies on.
LEMMA NotifyFileTransferCanceledCounts ==
  ASSUME TransferInv, CountInv, NEW x \in Xfers, NotifyFileTransferCanceled(x)
  PROVE  CountInv'
<1>. USE DEF vars, libVars, idVars, requestVars, workerVars
<1>0. TransferTypes /\ TransferTypes' /\ x \in Xfers
  BY NotifyFileTransferCanceledInv DEF TransferInv, Xfers
<1>1. FileInv'
  BY <1>0
  DEF NotifyFileTransferCanceled, CountInv, FileInv, TransferTypes
<1>2. \A y \in Xfers :
        /\ Cardinality(QueuedReports(y)) =
             Cardinality(QueuedReports(y)') + (IF y = x THEN 1 ELSE 0)
        /\ Cardinality(QueuedReports(y)') \in Nat
        /\ InitQueued(y)' => InitQueued(y)
  <2>1. Received("canceled", x) /\ "canceled" \in Kinds /\ QueueInv
    BY DEF NotifyFileTransferCanceled, Kinds, TransferInv
  <2>. QED
    BY <1>0, <2>1, ReportsReceived, InitReceived
<1>3. Moves(x)
  BY <1>0, <1>2
  DEF NotifyFileTransferCanceled, Unref, RemovePurpleXfer, Moves, TransferTypes
<1>4. status'[x] # "new" /\ status[x] # "new"
  <2>1. queue[1] = Message("canceled", x) /\ 1 \in 1 .. Len(queue)
    BY <1>0, ReceivedQueue, QueuedMessages DEF NotifyFileTransferCanceled, Kinds
  <2>2. status[x] # "new" /\ UNCHANGED status
    BY <2>1 DEF NotifyFileTransferCanceled, TransferInv, QueueInv, Message
  <2>. QED
    BY <2>2
<1>5. refs'[x] >= Held(x)'
  <2>1. refs[x] >= Held(x)
    BY <1>0, <1>4 DEF CountInv, HeldInv
  <2>2. /\ Holds(x)' = Holds(x) /\ Holds(x) \in 0 .. 1
        /\ Pending(x)' = Pending(x) /\ Pending(x) \in 0 .. 1
    BY DEF Holds, Pending, NotifyFileTransferCanceled
  <2>3. Underway(x)' = Underway(x) /\ Underway(x) \in 0 .. 1
    BY DEF Underway, Live, NotifyFileTransferCanceled
  <2>4. Owed(x)' <= Owed(x) /\ Owed(x) \in 0 .. 1 /\ Owed(x)' \in 0 .. 1
    <3>1. shown'[x] = IF shown[x] # "absent" THEN status[x] ELSE "absent"
      BY <1>0 DEF NotifyFileTransferCanceled, TransferTypes
    <3>2. shown[x] \in Final => status[x] \in Final
      BY <1>0 DEF TransferInv, ShownInv
    <3>. QED
      BY <1>0, <1>2, <3>1, <3>2 DEF Owed
  <2>5. refs'[x] = refs[x] - 1
    BY <1>0 DEF NotifyFileTransferCanceled, Unref, TransferTypes
  <2>6. /\ Cardinality(QueuedReports(x)) = Cardinality(QueuedReports(x)') + 1
        /\ Cardinality(QueuedReports(x)') \in Nat
    BY <1>0, <1>2
  <2>7. refs[x] \in Int
    BY <1>0 DEF TransferTypes
  <2>. QED
    BY <2>1, <2>2, <2>3, <2>4, <2>5, <2>6, <2>7 DEF Held
<1>6. x \in m_mapFileTransfer' => refs'[x] > 0
  BY <1>0
  DEF NotifyFileTransferCanceled, Unref, RemovePurpleXfer, CountInv, AliveInv, TransferTypes
<1>. QED
  BY <1>0, <1>1, <1>3, <1>4, <1>5, <1>6, CountKept

\* OfferFile gives up no reference that somebody else relies on.
LEMMA OfferFileCounts ==
  ASSUME TransferInv, CountInv, NEW x \in Receives, OfferFile(x)
  PROVE  CountInv'
<1>. USE DEF vars, libVars, idVars, requestVars, workerVars
<1>0. TransferTypes /\ TransferTypes' /\ x \in Xfers
  BY OfferFileInv DEF TransferInv, Xfers
<1>1. FileInv'
  BY <1>0
  DEF OfferFile, CountInv, FileInv, TransferTypes
<1>2. \A y \in Xfers : /\ Cardinality(QueuedReports(y)') = Cardinality(QueuedReports(y))
                       /\ Cardinality(QueuedReports(y)) \in Nat
                       /\ InitQueued(y)' <=> InitQueued(y)
  <2>1. UNCHANGED queue
    BY DEF OfferFile, SetStatus
  <2>. QED
    BY <1>0, <2>1, SameQueue, ReportsFinite
<1>3. Moves(x)
  BY <1>0, <1>2
  DEF OfferFile, SetStatus, Moves, TransferTypes
<1>4. status'[x] # "new" /\ status[x] = "new"
  BY <1>0
  DEF OfferFile, SetStatus, TransferTypes
<1>5. refs'[x] >= Held(x)'
  <2>1. \A i \in 1 .. Len(queue) : queue[i].xfer # x
    BY <1>0, QueuedMessages DEF OfferFile, TransferInv, QueueInv
  <2>2. Cardinality(QueuedReports(x)) = 0 /\ ~InitQueued(x)
    BY <1>0, <2>1, NoReports DEF InitQueued, Message
  <2>3. Owed(x)' = 0
    BY <1>0, <1>2, <2>2 DEF Owed, OfferFile, TransferInv, NewInv
  <2>4. Holds(x)' = 0
    BY <1>0 DEF Holds, OfferFile, TransferInv, NewInv, RecordInv, TransferTypes
  <2>5. Underway(x)' \in 0 .. 1 /\ Pending(x)' \in 0 .. 1
    BY DEF Underway, Pending
  <2>6. refs'[x] = 2
    BY <1>0 DEF OfferFile, TransferTypes
  <2>. QED
    BY <1>0, <1>2, <2>2, <2>3, <2>4, <2>5, <2>6 DEF Held
<1>6. x \in m_mapFileTransfer' => refs'[x] > 0
  BY <1>0
  DEF OfferFile, SetStatus, TransferTypes
<1>. QED
  BY <1>0, <1>1, <1>3, <1>4, <1>5, <1>6, CountKept

\* StartTransfer gives up no reference that somebody else relies on.
LEMMA StartTransferCounts ==
  ASSUME TransferInv, CountInv, NEW x \in Xfers, StartTransfer(x)
  PROVE  CountInv'
<1>. USE DEF vars, libVars, idVars, requestVars, workerVars
<1>0. TransferTypes /\ TransferTypes' /\ x \in Xfers
  BY StartTransferInv DEF TransferInv, Xfers
<1>1. FileInv'
  BY <1>0
  DEF StartTransfer, CountInv, FileInv, TransferTypes
<1>2. \A y \in Xfers : /\ Cardinality(QueuedReports(y)') = Cardinality(QueuedReports(y))
                       /\ Cardinality(QueuedReports(y)) \in Nat
                       /\ InitQueued(y)' <=> InitQueued(y)
  <2>1. UNCHANGED queue
    BY DEF StartTransfer, Negotiated, Running, SetStatus
  <2>. QED
    BY <1>0, <2>1, SameQueue, ReportsFinite
<1>3. Moves(x)
  BY <1>0, <1>2
  DEF StartTransfer, SetStatus, Moves, TransferTypes
<1>4. status'[x] # "new" /\ status[x] # "new"
  BY <1>0
  DEF StartTransfer, Negotiated, Running, SetStatus, TransferTypes
<1>5. refs'[x] >= Held(x)'
  <2>1. status[x] # "new" => refs[x] >= Held(x)
    BY <1>0 DEF CountInv, HeldInv
  <2>2. Underway(x) = 1 /\ Underway(x)' = 1
    BY <1>0, FileTransferAssumption
    DEF StartTransfer, Negotiated, Running, SetStatus, Underway, Live, Final, TransferTypes,
        TransferInv, OfferInv
  <2>3. /\ Holds(x)' = Holds(x) /\ Holds(x) \in 0 .. 1
        /\ Pending(x)' = Pending(x) /\ Pending(x) \in 0 .. 1
    BY DEF Holds, Pending, StartTransfer
  <2>4. Owed(x)' = Owed(x) /\ Owed(x) \in 0 .. 1
    BY <1>0, <1>2 DEF Owed, StartTransfer
  <2>5. refs'[x] = refs[x]
    BY <1>0 DEF StartTransfer, TransferTypes
  <2>6. /\ Cardinality(QueuedReports(x)') = Cardinality(QueuedReports(x))
        /\ Cardinality(QueuedReports(x)) \in Nat /\ refs[x] \in Int
    BY <1>0, <1>2 DEF TransferTypes
  <2>. QED
    BY <1>4, <2>1, <2>2, <2>3, <2>4, <2>5, <2>6 DEF Held
<1>6. x \in m_mapFileTransfer' => refs'[x] > 0
  BY <1>0
  DEF StartTransfer, CountInv, AliveInv, TransferTypes
<1>. QED
  BY <1>0, <1>1, <1>3, <1>4, <1>5, <1>6, CountKept

\* TransferBytes gives up no reference that somebody else relies on.
LEMMA TransferBytesCounts ==
  ASSUME TransferInv, CountInv, NEW x \in Xfers, TransferBytes(x)
  PROVE  CountInv'
<1>. USE DEF vars, libVars, idVars, requestVars, workerVars
<1>0. TransferTypes /\ TransferTypes' /\ x \in Xfers
  BY TransferBytesInv DEF TransferInv, Xfers
<1>1. FileInv'
  BY <1>0
  DEF TransferBytes, CountInv, FileInv, TransferTypes
<1>2. \A y \in Xfers :
        /\ Cardinality(QueuedReports(y)') =
             Cardinality(QueuedReports(y)) + (IF y = x THEN 1 ELSE 0)
        /\ Cardinality(QueuedReports(y)) \in Nat
        /\ InitQueued(y)' <=> (InitQueued(y))
  <2>1. Post("progress", x) /\ "progress" \in Kinds
    BY DEF TransferBytes, Kinds
  <2>. QED
    BY <1>0, <2>1, ReportsPosted, InitPosted, ReportsFinite
<1>3. Moves(x)
  BY <1>0, <1>2
  DEF TransferBytes, Moves, TransferTypes
<1>4. status'[x] # "new" /\ status[x] # "new"
  BY <1>0
  DEF TransferBytes, PostedRefs, TransferTypes
<1>5. refs'[x] >= Held(x)'
  <2>1. status[x] # "new" => refs[x] >= Held(x)
    BY <1>0 DEF CountInv, HeldInv
  <2>2. Underway(x)' = Underway(x) /\ Underway(x) \in 0 .. 1
    BY DEF Underway, Live, TransferBytes
  <2>3. /\ Holds(x)' = Holds(x) /\ Holds(x) \in 0 .. 1
        /\ Pending(x)' = Pending(x) /\ Pending(x) \in 0 .. 1
    BY DEF Holds, Pending, TransferBytes
  <2>4. Owed(x)' = Owed(x) /\ Owed(x) \in 0 .. 1
    BY <1>0, <1>2 DEF Owed, TransferBytes
  <2>5. refs'[x] = refs[x] + 2
    BY <1>0 DEF TransferBytes, PostedRefs, TransferTypes
  <2>6. /\ Cardinality(QueuedReports(x)') = Cardinality(QueuedReports(x)) + 1
        /\ Cardinality(QueuedReports(x)) \in Nat /\ refs[x] \in Int
    BY <1>0, <1>2 DEF TransferTypes
  <2>. QED
    BY <1>4, <2>1, <2>2, <2>3, <2>4, <2>5, <2>6 DEF Held
<1>6. x \in m_mapFileTransfer' => refs'[x] > 0
  BY <1>0
  DEF TransferBytes, PostedRefs, CountInv, AliveInv, TransferTypes
<1>. QED
  BY <1>0, <1>1, <1>3, <1>4, <1>5, <1>6, CountKept

\* CompleteTransfer gives up no reference that somebody else relies on.
LEMMA CompleteTransferCounts ==
  ASSUME TransferInv, CountInv, NEW x \in Xfers, CompleteTransfer(x)
  PROVE  CountInv'
<1>. USE DEF vars, libVars, idVars, requestVars, workerVars
<1>0. TransferTypes /\ TransferTypes' /\ x \in Xfers
  BY CompleteTransferInv DEF TransferInv, Xfers
<1>1. FileInv'
  BY <1>0
  DEF CompleteTransfer, CountInv, FileInv, TransferTypes
<1>2. \A y \in Xfers :
        /\ Cardinality(QueuedReports(y)') =
             Cardinality(QueuedReports(y)) + (IF y = x THEN 2 ELSE 0)
        /\ Cardinality(QueuedReports(y)) \in Nat
        /\ InitQueued(y)' <=> InitQueued(y)
  BY <1>0, CompletedReports, ReportsFinite
<1>3. Moves(x)
  BY <1>0, <1>2
  DEF CompleteTransfer, SetStatus, Moves, TransferTypes
<1>4. status'[x] # "new" /\ status[x] # "new"
  BY <1>0
  DEF CompleteTransfer, SetStatus, TransferTypes
<1>5. refs'[x] >= Held(x)'
  <2>1. status[x] # "new" => refs[x] >= Held(x)
    BY <1>0 DEF CountInv, HeldInv
  <2>2. Underway(x) = 1 /\ Underway(x)' = 0
    BY <1>0
    DEF CompleteTransfer, SetStatus, Underway, Live, Final, TransferTypes, TransferInv, OfferInv
  <2>3. /\ Holds(x)' = Holds(x) /\ Holds(x) \in 0 .. 1
        /\ Pending(x)' = Pending(x) /\ Pending(x) \in 0 .. 1
    BY DEF Holds, Pending, CompleteTransfer
  <2>4. Owed(x)' = Owed(x) /\ Owed(x) \in 0 .. 1
    BY <1>0, <1>2 DEF Owed, CompleteTransfer
  <2>5. refs'[x] = refs[x] + 3
    BY <1>0 DEF CompleteTransfer, PostedRefs, TransferTypes
  <2>6. /\ Cardinality(QueuedReports(x)') = Cardinality(QueuedReports(x)) + 2
        /\ Cardinality(QueuedReports(x)) \in Nat /\ refs[x] \in Int
    BY <1>0, <1>2 DEF TransferTypes
  <2>. QED
    BY <1>4, <2>1, <2>2, <2>3, <2>4, <2>5, <2>6 DEF Held
<1>6. x \in m_mapFileTransfer' => refs'[x] > 0
  BY <1>0
  DEF CompleteTransfer, PostedRefs, CountInv, AliveInv, TransferTypes
<1>. QED
  BY <1>0, <1>1, <1>3, <1>4, <1>5, <1>6, CountKept

\* EndLocally gives up no reference that somebody else relies on.
LEMMA EndLocallyCounts ==
  ASSUME TransferInv, CountInv, NEW x \in Xfers, EndLocally(x)
  PROVE  CountInv'
<1>. USE DEF vars, libVars, idVars, requestVars, workerVars
<1>0. TransferTypes /\ TransferTypes' /\ x \in Xfers
  BY EndLocallyInv DEF TransferInv, Xfers
<1>1. FileInv'
  BY <1>0
  DEF EndLocally, CountInv, FileInv, TransferTypes
<1>2. \A y \in Xfers : /\ Cardinality(QueuedReports(y)') = Cardinality(QueuedReports(y))
                       /\ Cardinality(QueuedReports(y)) \in Nat
                       /\ InitQueued(y)' <=> InitQueued(y)
  <2>1. UNCHANGED queue
    BY DEF EndLocally, Negotiated, Running, CancelLocal
  <2>. QED
    BY <1>0, <2>1, SameQueue, ReportsFinite
<1>3. Moves(x)
  BY <1>0, <1>2
  DEF EndLocally, CancelLocal, SetStatus, Unref, RemovePurpleXfer, Moves, TransferTypes
<1>4. status'[x] # "new" /\ status[x] # "new"
  BY <1>0
  DEF EndLocally, Negotiated, Running, CancelLocal, SetStatus, TransferTypes
<1>5. refs'[x] >= Held(x)'
  <2>1. status[x] # "new" => refs[x] >= Held(x)
    BY <1>0 DEF CountInv, HeldInv
  <2>2. Underway(x) = 1 /\ Underway(x)' = 0
    BY <1>0, FileTransferAssumption
    DEF EndLocally, Negotiated, Running, CancelLocal, SetStatus, Underway, Live, Final,
        TransferTypes, TransferInv, OfferInv
  <2>3. /\ Holds(x)' = Holds(x) /\ Holds(x) \in 0 .. 1
        /\ Pending(x)' = Pending(x) /\ Pending(x) \in 0 .. 1
    BY DEF Holds, Pending, EndLocally
  <2>4. Owed(x)' = Owed(x) /\ Owed(x) \in 0 .. 1
    BY <1>0, <1>2 DEF Owed, EndLocally
  <2>5. refs'[x] = refs[x] - 1
    BY <1>0 DEF EndLocally, CancelLocal, Unref, TransferTypes
  <2>6. /\ Cardinality(QueuedReports(x)') = Cardinality(QueuedReports(x))
        /\ Cardinality(QueuedReports(x)) \in Nat
    BY <1>0, <1>2
  <2>7. refs[x] \in Int
    BY <1>0 DEF TransferTypes
  <2>. QED
    BY <1>4, <2>1, <2>2, <2>3, <2>4, <2>5, <2>6, <2>7 DEF Held
<1>6. x \in m_mapFileTransfer' => refs'[x] > 0
  BY <1>0
  DEF EndLocally, CancelLocal, Unref, RemovePurpleXfer, CountInv, AliveInv, TransferTypes
<1>. QED
  BY <1>0, <1>1, <1>3, <1>4, <1>5, <1>6, CountKept

\* EndRemotely gives up no reference that somebody else relies on.
LEMMA EndRemotelyCounts ==
  ASSUME TransferInv, CountInv, NEW x \in Xfers, EndRemotely(x)
  PROVE  CountInv'
<1>. USE DEF vars, libVars, idVars, requestVars, workerVars
<1>0. TransferTypes /\ TransferTypes' /\ x \in Xfers
  BY EndRemotelyInv DEF TransferInv, Xfers
<1>1. FileInv'
  BY <1>0
  DEF EndRemotely, CountInv, FileInv, TransferTypes
<1>2. \A y \in Xfers :
        /\ Cardinality(QueuedReports(y)') =
             Cardinality(QueuedReports(y)) + (IF y = x THEN 1 ELSE 0)
        /\ Cardinality(QueuedReports(y)) \in Nat
        /\ InitQueued(y)' <=> (InitQueued(y))
  <2>1. Post("canceled", x) /\ "canceled" \in Kinds
    BY DEF EndRemotely, CancelRemote, Kinds
  <2>. QED
    BY <1>0, <2>1, ReportsPosted, InitPosted, ReportsFinite
<1>3. Moves(x)
  BY <1>0, <1>2
  DEF EndRemotely, CancelRemote, SetStatus, RemovePurpleXfer, Moves, TransferTypes
<1>4. status'[x] # "new" /\ status[x] # "new"
  BY <1>0
  DEF EndRemotely, Negotiated, Running, CancelRemote, SetStatus, TransferTypes
<1>5. refs'[x] >= Held(x)'
  <2>1. status[x] # "new" => refs[x] >= Held(x)
    BY <1>0 DEF CountInv, HeldInv
  <2>2. Underway(x) = 1 /\ Underway(x)' = 0
    BY <1>0, FileTransferAssumption
    DEF EndRemotely, Negotiated, Running, CancelRemote, SetStatus, Underway, Live, Final,
        TransferTypes, TransferInv, OfferInv
  <2>3. /\ Holds(x)' = Holds(x) /\ Holds(x) \in 0 .. 1
        /\ Pending(x)' = Pending(x) /\ Pending(x) \in 0 .. 1
    BY DEF Holds, Pending, EndRemotely
  <2>4. Owed(x)' = Owed(x) /\ Owed(x) \in 0 .. 1
    BY <1>0, <1>2 DEF Owed, EndRemotely
  <2>5. refs'[x] = refs[x] + 1
    BY <1>0 DEF EndRemotely, CancelRemote, PostedRefs, TransferTypes
  <2>6. /\ Cardinality(QueuedReports(x)') = Cardinality(QueuedReports(x)) + 1
        /\ Cardinality(QueuedReports(x)) \in Nat /\ refs[x] \in Int
    BY <1>0, <1>2 DEF TransferTypes
  <2>. QED
    BY <1>4, <2>1, <2>2, <2>3, <2>4, <2>5, <2>6 DEF Held
<1>6. x \in m_mapFileTransfer' => refs'[x] > 0
  BY <1>0
  DEF EndRemotely, CancelRemote, RemovePurpleXfer, TransferTypes
<1>. QED
  BY <1>0, <1>1, <1>3, <1>4, <1>5, <1>6, CountKept

\* RequestActionThread gives up no reference that somebody else relies on.
LEMMA RequestActionThreadCounts ==
  ASSUME TransferInv, CountInv, NEW x \in Receives, RequestActionThread(x)
  PROVE  CountInv'
<1>. USE DEF vars, libVars, idVars, requestVars, workerVars
<1>0. TransferTypes /\ TransferTypes' /\ x \in Xfers
  BY RequestActionThreadInv DEF TransferInv, Xfers
<1>1. FileInv'
  BY <1>0
  DEF RequestActionThread, CountInv, FileInv, TransferTypes
<1>2. \A y \in Xfers :
        /\ Cardinality(QueuedReports(y)') =
             Cardinality(QueuedReports(y)) + (IF y = x /\ FALSE THEN 1 ELSE 0)
        /\ Cardinality(QueuedReports(y)) \in Nat
        /\ InitQueued(y)' <=> (InitQueued(y))
  <2>1. Post("ask", x) /\ "ask" \in Kinds
    BY DEF RequestActionThread, Kinds
  <2>. QED
    BY <1>0, <2>1, ReportsPosted, InitPosted, ReportsFinite
<1>3. Moves(x)
  BY <1>0, <1>2
  DEF RequestActionThread, AddPurpleXfer, Moves, TransferTypes
<1>4. status'[x] # "new" /\ status[x] # "new"
  BY <1>0
  DEF RequestActionThread, TransferTypes, TransferInv, NewInv
<1>5. refs'[x] >= Held(x)'
  <2>1. status[x] # "new" => refs[x] >= Held(x)
    BY <1>0 DEF CountInv, HeldInv
  <2>2. Underway(x)' = Underway(x) /\ Underway(x) \in 0 .. 1
    BY DEF Underway, Live, RequestActionThread
  <2>3. Holds(x) \in 0 .. 1 /\ Holds(x)' \in 0 .. 1 /\ Holds(x)' <= Holds(x) + 1
    BY DEF Holds
  <2>4. Pending(x)' = Pending(x) /\ Pending(x) \in 0 .. 1
    <3>1. request[x] \notin {"answered", "denied"} /\ request'[x] \notin {"answered", "denied"}
      BY <1>0 DEF RequestActionThread, TransferTypes
    <3>. QED
      BY <3>1 DEF Pending
  <2>5. Owed(x)' = Owed(x) /\ Owed(x) \in 0 .. 1
    BY <1>0, <1>2 DEF Owed, RequestActionThread
  <2>6. refs'[x] = refs[x] + 1 /\ refs[x] \in Int
    BY <1>0 DEF RequestActionThread, TransferTypes
  <2>7. /\ Cardinality(QueuedReports(x)') = Cardinality(QueuedReports(x))
        /\ Cardinality(QueuedReports(x)) \in Nat
    BY <1>0, <1>2
  <2>. QED
    BY <1>4, <2>1, <2>2, <2>3, <2>4, <2>5, <2>6, <2>7 DEF Held
<1>6. x \in m_mapFileTransfer' => refs'[x] > 0
  <2>1. Underway(x)' = 1
    BY <1>0 DEF Underway, Live, Final, RequestActionThread, TransferInv, NewInv
  <2>2. Holds(x)' \in 0 .. 1 /\ Owed(x)' \in 0 .. 1 /\ Pending(x)' \in 0 .. 1
    BY DEF Holds, Owed, Pending
  <2>. QED
    BY <1>0, <1>2, <1>5, <2>1, <2>2 DEF Held, TransferTypes
<1>. QED
  BY <1>0, <1>1, <1>3, <1>4, <1>5, <1>6, CountKept

\* A path that is accepted, or comes too late, gives up no reference that
\* somebody else relies on.
LEMMA PathAnsweredCounts ==
  ASSUME TransferInv, CountInv, NEW x \in Receives, PathChosen(x), request'[x] = "answered"
  PROVE  CountInv'
<1>. USE DEF vars, libVars, idVars, requestVars, workerVars
<1>0. TransferTypes /\ TransferTypes' /\ x \in Xfers
  BY PathChosenInv DEF TransferInv, Xfers
<1>a. /\ request[x] = "path"
      /\ request' = [request EXCEPT ![x] = "answered"]
      /\ IF status[x] # "cancelRemote" THEN AcceptPath(x)
         ELSE UNCHANGED <<status, refs, m_mapFileTransfer, queue>>
      /\ UNCHANGED <<idVars, file, record, workerVars, shown>>
  BY <1>0 DEF PathChosen, ChooseFileOk, RefuseDirectory, DenyPath, AcceptPath, TransferTypes
<1>1. FileInv'
  BY <1>a, <1>0
  DEF AcceptPath, CountInv, FileInv, TransferTypes
<1>2. \A y \in Xfers :
        /\ Cardinality(QueuedReports(y)') =
             Cardinality(QueuedReports(y)) + (IF y = x /\ status[x] # "cancelRemote" THEN 1 ELSE 0)
        /\ Cardinality(QueuedReports(y)) \in Nat
        /\ InitQueued(y)' <=> (InitQueued(y) \/ (y = x /\ status[x] # "cancelRemote"))
  <2>1. CASE status[x] # "cancelRemote"
    <3>1. Post("init", x) /\ "init" \in Kinds
      BY <1>a, <2>1 DEF AcceptPath, Kinds
    <3>. QED
      BY <1>0, <2>1, <3>1, ReportsPosted, InitPosted, ReportsFinite
  <2>2. CASE status[x] = "cancelRemote"
    <3>1. UNCHANGED queue
      BY <1>a, <2>2 DEF AcceptPath
    <3>. QED
      BY <1>0, <2>2, <3>1, SameQueue, ReportsFinite
  <2>. QED
    BY <2>1, <2>2
<1>3. Moves(x)
  BY <1>a, <1>0, <1>2
  DEF AcceptPath, SetStatus, Moves, TransferTypes
<1>4. status'[x] # "new" /\ status[x] # "new"
  BY <1>a, <1>0
  DEF AcceptPath, SetStatus, TransferTypes, TransferInv, NewInv
<1>5. refs'[x] >= Held(x)'
  <2>1. status[x] # "new" => refs[x] >= Held(x)
    BY <1>0 DEF CountInv, HeldInv
  <2>2. Underway(x)' = Underway(x) /\ Underway(x) \in 0 .. 1
    <3>1. status[x] # "cancelRemote" => status[x] = "notStarted"
      BY <1>a, <1>0, <1>4 DEF AcceptPath, TransferInv, OfferInv
    <3>2. status'[x] = IF status[x] # "cancelRemote" THEN "accepted" ELSE status[x]
      BY <1>a, <1>0 DEF AcceptPath, SetStatus, TransferTypes
    <3>3. request[x] = "path" /\ request'[x] = "answered"
      BY <1>a, <1>0 DEF TransferTypes
    <3>. QED
      BY <3>1, <3>2, <3>3 DEF Underway, Live, Final
  <2>3. Holds(x)' = Holds(x) /\ Holds(x) \in 0 .. 1
    <3>1. request[x] # "posted" /\ request'[x] # "posted" /\ UNCHANGED record
      BY <1>a, <1>0 DEF AcceptPath, TransferTypes
    <3>. QED
      BY <3>1 DEF Holds
  <2>4. Pending(x) = 1 /\ Pending(x)' = 0
    BY <1>a, <1>0 DEF Pending, AcceptPath, TransferTypes
  <2>5. Owed(x) \in 0 .. 1 /\ Owed(x)' \in 0 .. 1
    BY DEF Owed
  <2>6. Cardinality(QueuedReports(x)) \in Nat /\ refs[x] \in Int
    BY <1>0, <1>2 DEF TransferTypes
  <2>7. CASE status[x] # "cancelRemote"
    <3>1. refs'[x] = refs[x] + 1
      BY <1>a, <1>0, <2>7 DEF AcceptPath, PostedRefs, TransferTypes
    <3>2. Cardinality(QueuedReports(x)') = Cardinality(QueuedReports(x)) + 1
      BY <1>0, <1>2, <2>7
    <3>. QED
      BY <1>4, <2>1, <2>2, <2>3, <2>4, <2>5, <2>6, <3>1, <3>2 DEF Held
  <2>8. CASE status[x] = "cancelRemote"
    <3>1. refs'[x] = refs[x]
      BY <1>a, <2>8 DEF AcceptPath
    <3>2. Cardinality(QueuedReports(x)') = Cardinality(QueuedReports(x))
      BY <1>0, <1>2, <2>8
    <3>. QED
      BY <1>4, <2>1, <2>2, <2>3, <2>4, <2>5, <2>6, <3>1, <3>2 DEF Held
  <2>. QED
    BY <2>7, <2>8
<1>6. x \in m_mapFileTransfer' => refs'[x] > 0
  BY <1>a, <1>0
  DEF AcceptPath, PostedRefs, CountInv, AliveInv, TransferTypes
<1>. QED
  BY <1>0, <1>1, <1>3, <1>4, <1>5, <1>6, CountKept

\* A question that is put again, or waits to be, keeps its reference.
LEMMA AskingAgainCounts ==
  ASSUME TransferInv, CountInv, NEW x \in Receives,
         NEW from \in {"path", "unwritable"}, NEW to \in {"path", "unwritable"},
         request[x] = from, request' = [request EXCEPT ![x] = to],
         UNCHANGED <<libVars, idVars, record, workerVars, queue, shown>>
  PROVE  CountInv'
<1>. USE DEF libVars, idVars, workerVars
<1>1. request \in [Receives -> {"none", "offered", "posted", "asked", "path", "unwritable",
                                "answered", "denied"}]
  BY DEF TransferInv, TransferTypes
<1>2. ASSUME NEW y \in Xfers
      PROVE  Held(y)' = Held(y)
  <2>1. Underway(y)' = Underway(y) /\ Holds(y)' = Holds(y) /\ Pending(y)' = Pending(y)
    BY <1>1 DEF Underway, Live, Holds, Pending
  <2>2. QueuedReports(y)' = QueuedReports(y) /\ Owed(y)' = Owed(y)
    BY DEF QueuedReports, Owed, InitQueued
  <2>. QED
    BY <2>1, <2>2 DEF Held
<1>. QED
  BY <1>2 DEF CountInv, HeldInv, AliveInv, UnusedInv, FileInv

\* A transfer that is denied gives up two references of its own: one that
\* libpurple had as long as it could go on, and that of the question.
LEMMA PathDeniedCounts ==
  ASSUME TransferInv, CountInv, NEW x \in Receives, PathChosen(x), request'[x] = "denied"
  PROVE  CountInv'
<1>. USE DEF libVars, idVars, requestVars, workerVars
<1>0. TransferTypes /\ TransferTypes' /\ x \in Xfers
  BY PathChosenInv DEF TransferInv, Xfers
<1>1. /\ request[x] = "path" /\ status[x] # "cancelRemote"
      /\ request' = [request EXCEPT ![x] = "denied"]
      /\ Unref(x, 2)
      /\ UNCHANGED <<status, queue, idVars, file, record, workerVars, shown>>
  BY <1>0 DEF PathChosen, ChooseFileOk, RefuseDirectory, DenyPath, AcceptPath, TransferTypes
<1>2. FileInv'
  BY <1>1 DEF CountInv, FileInv
<1>3. \A y \in Xfers : /\ Cardinality(QueuedReports(y)') = Cardinality(QueuedReports(y))
                       /\ Cardinality(QueuedReports(y)) \in Nat
                       /\ InitQueued(y)' <=> InitQueued(y)
  BY <1>0, <1>1, SameQueue, ReportsFinite
<1>4. Moves(x)
  BY <1>0, <1>1, <1>3 DEF Unref, RemovePurpleXfer, Moves, TransferTypes
<1>5. status[x] = "notStarted" /\ status'[x] = "notStarted"
  BY <1>1, <1>0 DEF TransferInv, OfferInv, NewInv
<1>6. refs'[x] >= Held(x)'
  <2>1. refs[x] >= Held(x)
    BY <1>0, <1>5 DEF CountInv, HeldInv
  <2>2. Pending(x) = 1 /\ Pending(x)' = 0
    BY <1>0, <1>1 DEF Pending, TransferTypes
  <2>3. Underway(x) = 1 /\ Underway(x)' = 0
    BY <1>0, <1>1, <1>5 DEF Underway, Live, Final, TransferTypes
  <2>4. Holds(x)' = Holds(x) /\ Holds(x) \in 0 .. 1
    BY <1>0, <1>1 DEF Holds, TransferTypes
  <2>5. Owed(x)' = Owed(x) /\ Owed(x) \in 0 .. 1
    BY <1>0, <1>1, <1>3 DEF Owed
  <2>6. refs'[x] = refs[x] - 2 /\ refs[x] \in Int
    BY <1>0, <1>1 DEF Unref, TransferTypes
  <2>. QED
    BY <1>0, <1>3, <2>1, <2>2, <2>3, <2>4, <2>5, <2>6 DEF Held
<1>7. x \in m_mapFileTransfer' => refs'[x] > 0
  <2>1. Held(x)' >= 0
    <3>1. /\ Underway(x)' \in 0 .. 1 /\ Holds(x)' \in 0 .. 1
          /\ Owed(x)' \in 0 .. 1 /\ Pending(x)' \in 0 .. 1
      BY DEF Underway, Holds, Owed, Pending
    <3>. QED
      BY <1>0, <1>3, <3>1 DEF Held
  <2>2. refs'[x] \in Int /\ (refs'[x] = 0 => x \notin m_mapFileTransfer')
    BY <1>0, <1>1 DEF Unref, RemovePurpleXfer, TransferTypes
  <2>3. refs'[x] >= 0
    BY <1>0, <1>3, <1>6, <2>1, <2>2 DEF Held, Underway, Holds, Owed, Pending
  <2>. QED
    BY <2>2, <2>3
<1>. QED
  BY <1>0, <1>2, <1>4, <1>5, <1>6, <1>7, CountKept

\* PathChosen gives up no reference that somebody else relies on.
LEMMA PathChosenCounts ==
  ASSUME TransferInv, CountInv, NEW x \in Receives, PathChosen(x)
  PROVE  CountInv'
<1>0. request \in [Receives -> {"none", "offered", "posted", "asked", "path", "unwritable",
                                "answered", "denied"}]
  BY DEF TransferInv, TransferTypes
<1>1. CASE request'[x] = "answered"
  BY <1>1, PathAnsweredCounts
<1>2. CASE request'[x] = "denied"
  BY <1>2, PathDeniedCounts
<1>3. CASE RefuseDirectory(x)
  <2>1. /\ request[x] = "path" /\ request' = [request EXCEPT ![x] = "unwritable"]
        /\ UNCHANGED <<libVars, idVars, record, workerVars, queue, shown>>
    BY <1>3 DEF PathChosen, RefuseDirectory, libVars
  <2>. QED
    BY <2>1, AskingAgainCounts
<1>. QED
  BY <1>0, <1>1, <1>2, <1>3 DEF PathChosen, ChooseFileOk, AcceptPath, DenyPath

\* PathRefused gives up no reference that somebody else relies on.
LEMMA PathRefusedCounts ==
  ASSUME TransferInv, CountInv, NEW x \in Receives, PathRefused(x)
  PROVE  CountInv'
<1>. USE DEF vars, libVars, idVars, requestVars, workerVars
<1>0. TransferTypes /\ TransferTypes' /\ x \in Xfers
  BY PathRefusedInv DEF TransferInv, Xfers
<1>1. FileInv'
  BY <1>0
  DEF PathRefused, CountInv, FileInv, TransferTypes
<1>2. \A y \in Xfers : /\ Cardinality(QueuedReports(y)') = Cardinality(QueuedReports(y))
                       /\ Cardinality(QueuedReports(y)) \in Nat
                       /\ InitQueued(y)' <=> InitQueued(y)
  <2>1. UNCHANGED queue
    BY DEF PathRefused, CancelLocal, SetStatus
  <2>. QED
    BY <1>0, <2>1, SameQueue, ReportsFinite
<1>3. Moves(x)
  BY <1>0, <1>2
  DEF PathRefused, CancelLocal, SetStatus, Unref, RemovePurpleXfer, Moves, TransferTypes
<1>4. status'[x] # "new" /\ status[x] # "new"
  BY <1>0
  DEF PathRefused, CancelLocal, SetStatus, TransferTypes, TransferInv, NewInv
<1>5. refs'[x] >= Held(x)'
  <2>1. status[x] # "new" => refs[x] >= Held(x)
    BY <1>0 DEF CountInv, HeldInv
  <2>2. Pending(x) = 1 /\ Pending(x)' = 0
    BY <1>0 DEF Pending, PathRefused, TransferTypes
  <2>3. Holds(x)' = Holds(x) /\ Holds(x) \in 0 .. 1
    <3>1. request[x] # "posted" /\ request'[x] # "posted" /\ UNCHANGED record
      BY <1>0 DEF PathRefused, TransferTypes
    <3>. QED
      BY <3>1 DEF Holds
  <2>4. Owed(x)' = Owed(x) /\ Owed(x) \in 0 .. 1
    BY <1>0, <1>2 DEF Owed, PathRefused
  <2>5. /\ Cardinality(QueuedReports(x)') = Cardinality(QueuedReports(x))
        /\ Cardinality(QueuedReports(x)) \in Nat /\ refs[x] \in Int
    BY <1>0, <1>2 DEF TransferTypes
  <2>a. request[x] = "path" /\ request'[x] = "answered"
    BY <1>0 DEF PathRefused, TransferTypes
  <2>6. CASE status[x] # "cancelRemote"
    <3>1. status[x] = "notStarted" /\ status'[x] = "cancelLocal"
      BY <1>0, <1>4, <2>6 DEF PathRefused, CancelLocal, SetStatus, TransferTypes, TransferInv,
        OfferInv
    <3>2. Underway(x) = 1 /\ Underway(x)' = 0
      BY <2>a, <3>1 DEF Underway, Live, Final
    <3>3. refs'[x] = refs[x] - 1
      BY <1>0, <2>6 DEF PathRefused, CancelLocal, Unref, TransferTypes
    <3>. QED
      BY <1>4, <2>1, <2>2, <2>3, <2>4, <2>5, <3>2, <3>3 DEF Held
  <2>7. CASE status[x] = "cancelRemote"
    <3>1. UNCHANGED <<status, refs>>
      BY <2>7 DEF PathRefused
    <3>2. Underway(x)' = Underway(x) /\ Underway(x) \in 0 .. 1
      BY <2>a, <3>1 DEF Underway, Live
    <3>. QED
      BY <1>4, <2>1, <2>2, <2>3, <2>4, <2>5, <3>1, <3>2 DEF Held
  <2>. QED
    BY <2>6, <2>7
<1>6. x \in m_mapFileTransfer' => refs'[x] > 0
  BY <1>0
  DEF PathRefused, CancelLocal, Unref, RemovePurpleXfer, CountInv, AliveInv, TransferTypes
<1>. QED
  BY <1>0, <1>1, <1>3, <1>4, <1>5, <1>6, CountKept

\* CancelPicked, about the transfer that was picked: one that was destroyed
\* meanwhile is left alone.
LEMMA CancelPickedCounts ==
  ASSUME TransferInv, CountInv, NEW f \in Sends, CancelPicked(f)
  PROVE  CountInv'
<1>. PICK x \in Xfers : x = picked[f]
  BY DEF CancelPicked, TransferInv, TransferTypes
<1>0. TransferTypes /\ TransferTypes' /\ x \in Xfers /\ status[x] # "new"
  BY CancelPickedInv DEF TransferInv, NewInv, Untouched
<1>1. FileInv'
  BY DEF CancelPicked, CountInv, FileInv
<1>2. CASE UNCHANGED <<status, refs, m_mapFileTransfer, queue>>
  BY <1>1, <1>2, CountUnchanged DEF CancelPicked, requestVars
<1>3. CASE CancelRemote(x)
  <2>1. \A y \in Xfers :
          /\ Cardinality(QueuedReports(y)') =
               Cardinality(QueuedReports(y)) + (IF y = x THEN 1 ELSE 0)
          /\ Cardinality(QueuedReports(y)) \in Nat
          /\ InitQueued(y)' <=> InitQueued(y)
    <3>1. Post("canceled", x) /\ "canceled" \in Kinds
      BY <1>3 DEF CancelRemote, Kinds
    <3>. QED
      BY <1>0, <3>1, ReportsPosted, InitPosted, ReportsFinite
  <2>2. UNCHANGED <<request, record, shown>>
    BY DEF CancelPicked, requestVars
  <2>3. Moves(x)
    BY <1>0, <1>3, <2>1, <2>2
    DEF CancelRemote, SetStatus, RemovePurpleXfer, Moves, TransferTypes
  <2>4. status'[x] = "cancelRemote" /\ refs'[x] = refs[x] + 1 /\ refs[x] \in Int
    BY <1>0, <1>3 DEF CancelRemote, SetStatus, PostedRefs, TransferTypes
  <2>5. refs'[x] >= Held(x)'
    <3>1. refs[x] >= Held(x)
      BY <1>0 DEF CountInv, HeldInv
    <3>2. Underway(x)' = 0 /\ Underway(x) \in 0 .. 1
      BY <2>4 DEF Underway, Live, Final
    <3>3. /\ Holds(x)' = Holds(x) /\ Holds(x) \in 0 .. 1
          /\ Pending(x)' = Pending(x) /\ Pending(x) \in 0 .. 1
          /\ Owed(x)' = Owed(x) /\ Owed(x) \in 0 .. 1
      BY <1>0, <2>1, <2>2 DEF Holds, Pending, Owed
    <3>4. /\ Cardinality(QueuedReports(x)') = Cardinality(QueuedReports(x)) + 1
          /\ Cardinality(QueuedReports(x)) \in Nat
      BY <1>0, <2>1
    <3>. QED
      BY <2>4, <3>1, <3>2, <3>3, <3>4 DEF Held
  <2>6. x \notin m_mapFileTransfer'
    BY <1>3 DEF CancelRemote, RemovePurpleXfer
  <2>. QED
    BY <1>0, <1>1, <2>3, <2>4, <2>5, <2>6, CountKept
<1>. QED
  BY <1>2, <1>3 DEF CancelPicked

-----------------------------------------------------------------------------
\* No transfer exists at the start.
LEMMA CountInvInit ==
  ASSUME FileTransferInit
  PROVE  CountInv
  BY DEF FileTransferInit, CountInv, HeldInv, AliveInv, UnusedInv, FileInv

\* Every action keeps the references enough, and so does a step that changes
\* nothing.
LEMMA CountInvNext ==
  ASSUME TransferInv, CountInv, [FileTransferNext]_vars
  PROVE  CountInv'
<1>1. CASE \E x \in Sends : SendFile(x)
  BY <1>1, SendFileCounts
<1>2. CASE \E x \in Receives : AcceptFileAsync(x)
  BY <1>2, AcceptFileAsyncCounts
<1>3. CASE \E x \in Receives : RejectFileAsync(x)
  BY <1>3, RejectFileAsyncCounts
<1>4. CASE \E x \in Receives : CloseConversation(x)
  BY <1>4, CloseConversationCounts
<1>5. CASE \E x \in Xfers : CancelFileTransfer(x)
  BY <1>5, CancelFileTransferCounts
<1>6. CASE \E x \in Receives : NotifyRequestFileTransferAsync(x)
  BY <1>6, NotifyRequestFileTransferAsyncCounts
<1>7. CASE \E x \in Xfers : NotifyFileTransferInit(x)
  BY <1>7, NotifyFileTransferInitCounts
<1>8. CASE \E x \in Xfers : NotifyFileTransferUpdateProgress(x)
  BY <1>8, NotifyFileTransferUpdateProgressCounts
<1>9. CASE \E x \in Xfers : NotifyFileTransferCanceled(x)
  BY <1>9, NotifyFileTransferCanceledCounts
<1>10. CASE \E x \in Receives : OfferFile(x)
  BY <1>10, OfferFileCounts
<1>11. CASE \E x \in Xfers : StartTransfer(x)
  BY <1>11, StartTransferCounts
<1>12. CASE \E x \in Xfers : TransferBytes(x)
  BY <1>12, TransferBytesCounts
<1>13. CASE \E x \in Xfers : CompleteTransfer(x)
  BY <1>13, CompleteTransferCounts
<1>14. CASE \E x \in Xfers : EndLocally(x)
  BY <1>14, EndLocallyCounts
<1>15. CASE \E x \in Xfers : EndRemotely(x)
  BY <1>15, EndRemotelyCounts
<1>16. CASE \E x \in Receives : RequestActionThread(x)
  BY <1>16, RequestActionThreadCounts
<1>17. CASE \E x \in Receives : PathChosen(x)
  BY <1>17, PathChosenCounts
<1>18. CASE \E x \in Receives : PathRefused(x) \/ NotificationClosed(x)
  BY <1>18, PathRefusedCounts, AskingAgainCounts DEF NotificationClosed
<1>19. CASE \E x \in Sends : ClientAnswers(x) \/ PickTransfer(x)
  <2>1. FileInv'
    BY <1>19 DEF CountInv, FileInv, ClientAnswers, FileSendFailed, PickTransfer, libVars
  <2>. QED
    BY <1>19, <2>1, CountUnchanged DEF ClientAnswers, PickTransfer, libVars, requestVars
<1>20. CASE \E x \in Sends : CancelPicked(x)
  BY <1>20, CancelPickedCounts
<1>21. CASE UNCHANGED vars
  <2>1. FileInv'
    BY <1>21 DEF CountInv, FileInv, vars, libVars, workerVars
  <2>. QED
    BY <1>21, <2>1, CountUnchanged DEF vars, libVars, requestVars
<1>. QED
  BY <1>1, <1>2, <1>3, <1>4, <1>5, <1>6, <1>7, <1>8, <1>9, <1>10, <1>11, <1>12, <1>13,
     <1>14, <1>15, <1>16, <1>17, <1>18, <1>19, <1>20, <1>21
  DEF FileTransferNext, HandleMessage, CancelFileTransfers

\* The references are enough in every state of every behaviour.
THEOREM ReferencesSuffice == FileTransferSpec => []CountInv
<1>1. FileTransferInit => CountInv
  BY CountInvInit
<1>2. TransferInv /\ CountInv /\ [FileTransferNext]_vars => CountInv'
  BY CountInvNext
<1>. QED
  BY <1>1, <1>2, TransferInvariant, PTL DEF FileTransferSpec

\* TransferTypeOK, for any transfers: the types, and that no reference of a
\* transfer is given up twice.
THEOREM TransferTypeCorrect == FileTransferSpec => []TransferTypeOK
<1>1. ASSUME TransferInv, CountInv, NEW x \in Xfers
      PROVE  refs[x] \in Nat
  <2>1. refs[x] \in Int
    BY <1>1 DEF TransferInv, TransferTypes
  <2>2. CASE status[x] = "new"
    BY <1>1, <2>2 DEF CountInv, UnusedInv
  <2>3. CASE status[x] # "new"
    <3>1. refs[x] >= Held(x)
      BY <1>1, <2>3 DEF CountInv, HeldInv
    <3>2. Cardinality(QueuedReports(x)) \in Nat
      BY <1>1, ReportsFinite DEF TransferInv
    <3>3. /\ Underway(x) \in 0 .. 1 /\ Holds(x) \in 0 .. 1
          /\ Owed(x) \in 0 .. 1 /\ Pending(x) \in 0 .. 1
      BY DEF Underway, Holds, Owed, Pending
    <3>. QED
      BY <2>1, <3>1, <3>2, <3>3 DEF Held
  <2>. QED
    BY <2>2, <2>3
<1>2. TransferInv /\ CountInv => TransferTypeOK
  BY <1>1 DEF TransferInv, TransferTypes, CountInv, FileInv, TransferTypeOK
<1>. QED
  BY <1>2, TransferInvariant, ReferencesSuffice, PTL

\* NothingDangles, for any transfers: one that the map, a message, a window, the
\* thread asking for a path or the notification that asks again points to has a
\* reference left.
THEOREM NothingPointedToIsDestroyed == FileTransferSpec => []NothingDangles
<1>1. ASSUME TransferInv, CountInv, NEW x \in Xfers,
             \/ x \in m_mapFileTransfer \cup record
             \/ Queued(x)
             \/ x \in Receives /\ request[x] \in {"path", "unwritable"}
      PROVE  refs[x] > 0
  <2>1. refs[x] \in Int /\ Len(queue) \in Nat /\ TransferTypes
    BY <1>1, QueuedMessages DEF TransferInv, TransferTypes
  <2>2. CASE x \in m_mapFileTransfer
    BY <1>1, <2>2 DEF CountInv, AliveInv
  <2>3. ASSUME status[x] # "new", Cardinality(QueuedReports(x)) + Holds(x) + Pending(x) >= 1
        PROVE  refs[x] > 0
    <3>1. refs[x] >= Held(x)
      BY <1>1, <2>3 DEF CountInv, HeldInv
    <3>2. Cardinality(QueuedReports(x)) \in Nat
      BY <2>1, ReportsFinite
    <3>3. /\ Underway(x) \in 0 .. 1 /\ Holds(x) \in 0 .. 1
          /\ Owed(x) \in 0 .. 1 /\ Pending(x) \in 0 .. 1
      BY DEF Underway, Holds, Owed, Pending
    <3>. QED
      BY <2>1, <2>3, <3>1, <3>2, <3>3 DEF Held
  <2>4. Cardinality(QueuedReports(x)) \in Nat /\ Holds(x) \in 0 .. 1 /\ Pending(x) \in 0 .. 1
    BY <2>1, ReportsFinite DEF Holds, Pending
  <2>5. CASE x \in record
    <3>1. x \in Receives /\ request[x] # "none"
      BY <1>1, <2>1, <2>5 DEF TransferInv, RecordInv, TransferTypes
    <3>2. status[x] # "new" /\ Holds(x) = 1
      BY <1>1, <2>5, <3>1 DEF TransferInv, NewInv, Holds
    <3>. QED
      BY <2>3, <2>4, <3>2
  <2>6. CASE x \in Receives /\ request[x] \in {"path", "unwritable"}
    <3>1. status[x] # "new" /\ Pending(x) = 1
      BY <1>1, <2>6 DEF TransferInv, NewInv, Pending
    <3>. QED
      BY <2>3, <2>4, <3>1
  <2>7. CASE Queued(x)
    <3>1. DOMAIN queue = 1 .. Len(queue)
      BY <2>1 DEF TransferTypes
    <3>2. PICK i \in 1 .. Len(queue) : queue[i].xfer = x
      BY <2>7, <3>1 DEF Queued
    <3>3. status[x] # "new"
      BY <1>1, <3>2 DEF TransferInv, QueueInv
    <3>4. CASE queue[i].kind = "ask"
      <4>1. Holds(x) = 1
        BY <1>1, <3>2, <3>4 DEF TransferInv, QueueInv, Holds
      <4>. QED
        BY <2>3, <2>4, <3>3, <4>1
    <3>5. CASE queue[i].kind # "ask"
      <4>1. i \in QueuedReports(x)
        BY <3>2, <3>5 DEF QueuedReports
      <4>2. Cardinality(QueuedReports(x)) # 0
        BY <2>1, <4>1, ReportsFinite, FS_EmptySet
      <4>. QED
        BY <2>3, <2>4, <3>3, <4>2
    <3>. QED
      BY <3>4, <3>5
  <2>. QED
    BY <1>1, <2>2, <2>5, <2>6, <2>7
<1>2. TransferInv /\ CountInv => NothingDangles
  BY <1>1 DEF NothingDangles
<1>. QED
  BY <1>2, TransferInvariant, ReferencesSuffice, PTL
=============================================================================
