----------------------- MODULE FileTransferEnds_proofs -----------------------
(***************************************************************************)
(* For any transfers of any contacts: when no report of a transfer is on   *)
(* its way, the end that the user has been shown is the one that libpurple *)
(* knows, and a completion or a remote cancel has been shown.              *)
(***************************************************************************)
EXTENDS FileTransferRefs_proofs

\* A report whose handler sets what is shown to what libpurple knows.
Reported(x) ==
  \E i \in 1 .. Len(queue) : queue[i].xfer = x /\ queue[i].kind \in {"progress", "canceled"}

\* A disagreement has its report on the way.
Agrees(x) ==
  /\ (shown[x] # "absent" \/ InitQueued(x)) /\ status[x] \in {"done", "cancelRemote"}
       => shown[x] = status[x] \/ Reported(x)
  /\ shown[x] \in Final => shown[x] = status[x] \/ Reported(x)

\* The first report is handled before the others.
FirstInLine(x) ==
  \A i, j \in 1 .. Len(queue) :
    queue[i] = Message("init", x) /\ queue[j].xfer = x /\ queue[j].kind \in {"progress", "canceled"}
      => i < j

\* Nothing is reported of a transfer that is still to be accepted.
Silent(x) == status[x] \in {"new", "notStarted"} => ~Reported(x)

EndsInv == \A x \in Xfers : Agrees(x) /\ FirstInLine(x) /\ Silent(x)

-----------------------------------------------------------------------------
\* A step that leaves the queue alone leaves its reports.
LEMMA SameReports ==
  ASSUME UNCHANGED queue, NEW y
  PROVE  /\ InitQueued(y)' <=> InitQueued(y)
         /\ Reported(y)' <=> Reported(y)
         /\ FirstInLine(y)' <=> FirstInLine(y)
  BY DEF InitQueued, Reported, FirstInLine

\* A report posted is on its way behind those posted before.
LEMMA ReportedPosted ==
  ASSUME TransferTypes, NEW kind \in Kinds, NEW x \in Xfers, Post(kind, x), NEW y \in Xfers
  PROVE  /\ Reported(y)' <=> Reported(y) \/ (y = x /\ kind \in {"progress", "canceled"})
         /\ FirstInLine(y) /\ (kind = "init" /\ y = x => ~Reported(y)) => FirstInLine(y)'
<1>1. /\ Len(queue') = Len(queue) + 1 /\ Len(queue) \in Nat
      /\ \A i \in 1 .. Len(queue) : queue'[i] = queue[i]
      /\ queue'[Len(queue) + 1] = Message(kind, x)
  BY PostQueue, QueuedMessages
<1>2. 1 .. Len(queue') = 1 .. Len(queue) \cup {Len(queue) + 1}
  BY <1>1
<1>3. Message(kind, x).kind = kind /\ Message(kind, x).xfer = x
  BY DEF Message
<1>4. Reported(y)' <=> Reported(y) \/ (y = x /\ kind \in {"progress", "canceled"})
  BY <1>1, <1>2, <1>3 DEF Reported
<1>5. ASSUME FirstInLine(y), kind = "init" /\ y = x => ~Reported(y),
             NEW i \in 1 .. Len(queue'), NEW j \in 1 .. Len(queue'),
             queue'[i] = Message("init", y),
             queue'[j].xfer = y, queue'[j].kind \in {"progress", "canceled"}
      PROVE  i < j
  <2>1. CASE i \in 1 .. Len(queue) /\ j \in 1 .. Len(queue)
    BY <1>1, <1>5, <2>1 DEF FirstInLine
  <2>2. CASE i \in 1 .. Len(queue) /\ j = Len(queue) + 1
    BY <1>1, <2>2
  <2>3. CASE i = Len(queue) + 1
    <3>1. kind = "init" /\ y = x
      BY <1>1, <1>5, <2>3 DEF Message
    <3>2. j # Len(queue) + 1
      BY <1>1, <1>3, <1>5, <3>1
    <3>3. j \in 1 .. Len(queue) /\ queue'[j] = queue[j]
      BY <1>1, <1>2, <3>2
    <3>. QED
      BY <1>5, <3>1, <3>3 DEF Reported
  <2>. QED
    BY <1>2, <2>1, <2>2, <2>3
<1>6. FirstInLine(y) /\ (kind = "init" /\ y = x => ~Reported(y)) => FirstInLine(y)'
  BY <1>5 DEF FirstInLine
<1>. QED
  BY <1>4, <1>6

\* So is the end of a transfer.
LEMMA CompletionReported ==
  ASSUME TransferTypes, NEW x \in Xfers, CompleteTransfer(x), NEW y \in Xfers
  PROVE  /\ Reported(y)' <=> Reported(y) \/ y = x
         /\ FirstInLine(y) => FirstInLine(y)'
<1>1. /\ Len(queue') = Len(queue) + 2 /\ Len(queue) \in Nat
      /\ \A i \in 1 .. Len(queue) : queue'[i] = queue[i]
      /\ \A i \in Len(queue) + 1 .. Len(queue) + 2 : queue'[i] = Message("progress", x)
  BY CompletedQueue, QueuedMessages
<1>2. 1 .. Len(queue') = 1 .. Len(queue) \cup {Len(queue) + 1, Len(queue) + 2}
  BY <1>1
<1>3. /\ queue'[Len(queue) + 1] = Message("progress", x)
      /\ queue'[Len(queue) + 2] = Message("progress", x)
  BY <1>1
<1>4. Message("progress", x).kind = "progress" /\ Message("progress", x).xfer = x
  BY DEF Message
<1>5. Reported(y)' <=> Reported(y) \/ y = x
  BY <1>1, <1>2, <1>3, <1>4 DEF Reported
<1>6. ASSUME FirstInLine(y), NEW i \in 1 .. Len(queue'), NEW j \in 1 .. Len(queue'),
             queue'[i] = Message("init", y),
             queue'[j].xfer = y, queue'[j].kind \in {"progress", "canceled"}
      PROVE  i < j
  <2>1. Message("init", y).kind = "init"
    BY DEF Message
  <2>2. i \in 1 .. Len(queue)
    BY <1>2, <1>3, <1>4, <1>6, <2>1
  <2>3. CASE j \in 1 .. Len(queue)
    BY <1>1, <1>6, <2>2, <2>3 DEF FirstInLine
  <2>4. CASE j > Len(queue)
    BY <1>1, <2>2, <2>4
  <2>. QED
    BY <1>1, <2>3, <2>4
<1>7. FirstInLine(y) => FirstInLine(y)'
  BY <1>6 DEF FirstInLine
<1>. QED
  BY <1>5, <1>7

\* The handler of a message takes that message alone, and the first report if
\* there is one.
LEMMA ReportedReceived ==
  ASSUME TransferTypes, NEW kind \in Kinds, NEW x \in Xfers, Received(kind, x), NEW y \in Xfers
  PROVE  /\ Reported(y)' => Reported(y)
         /\ y # x \/ kind \notin {"progress", "canceled"} => (Reported(y) => Reported(y)')
         /\ FirstInLine(y) => FirstInLine(y)'
         /\ FirstInLine(y) /\ y = x /\ kind \in {"progress", "canceled"} => ~InitQueued(y)
<1>1. /\ Len(queue') \in Nat /\ Len(queue) = Len(queue') + 1
      /\ \A i \in 1 .. Len(queue') : queue'[i] = queue[i + 1]
      /\ queue[1] = Message(kind, x)
  BY ReceivedQueue, QueuedMessages
<1>2. Message(kind, x).kind = kind /\ Message(kind, x).xfer = x /\ 1 \in 1 .. Len(queue)
  BY <1>1 DEF Message
<1>3. \A i \in 1 .. Len(queue') : i + 1 \in 1 .. Len(queue)
  BY <1>1
<1>4. Reported(y)' => Reported(y)
  BY <1>1, <1>3 DEF Reported
<1>5. ASSUME y # x \/ kind \notin {"progress", "canceled"}, Reported(y)
      PROVE  Reported(y)'
  <2>1. PICK i \in 1 .. Len(queue) :
          queue[i].xfer = y /\ queue[i].kind \in {"progress", "canceled"}
    BY <1>5 DEF Reported
  <2>2. i # 1
    BY <1>1, <1>2, <1>5, <2>1
  <2>3. i - 1 \in 1 .. Len(queue') /\ (i - 1) + 1 = i
    BY <1>1, <2>2
  <2>4. queue'[i - 1] = queue[i]
    BY <1>1, <2>3
  <2>. QED
    BY <2>1, <2>3, <2>4 DEF Reported
<1>6. ASSUME FirstInLine(y), NEW i \in 1 .. Len(queue'), NEW j \in 1 .. Len(queue'),
             queue'[i] = Message("init", y),
             queue'[j].xfer = y, queue'[j].kind \in {"progress", "canceled"}
      PROVE  i < j
  <2>1. i + 1 < j + 1
    BY <1>1, <1>3, <1>6 DEF FirstInLine
  <2>. QED
    BY <2>1
<1>7. FirstInLine(y) => FirstInLine(y)'
  BY <1>6 DEF FirstInLine
<1>8. ASSUME FirstInLine(y), y = x, kind \in {"progress", "canceled"}, InitQueued(y)
      PROVE  FALSE
  <2>1. PICK i \in 1 .. Len(queue) : queue[i] = Message("init", y)
    BY <1>8 DEF InitQueued
  <2>2. i < 1
    BY <1>1, <1>2, <1>8, <2>1 DEF FirstInLine
  <2>. QED
    BY <1>1, <2>1, <2>2
<1>. QED
  BY <1>4, <1>5, <1>7, <1>8

-----------------------------------------------------------------------------
\* A step about one transfer keeps the others in agreement.
LEMMA EndsKept ==
  ASSUME EndsInv, NEW x \in Xfers, Agrees(x)', FirstInLine(x)', Silent(x)',
         \A y \in Xfers \ {x} :
           /\ status'[y] = status[y] /\ shown'[y] = shown[y]
           /\ InitQueued(y)' => InitQueued(y)
           /\ Reported(y)' <=> Reported(y)
           /\ FirstInLine(y) => FirstInLine(y)'
  PROVE  EndsInv'
  BY DEF EndsInv, Agrees, Silent

\* So does one that is about none.
LEMMA EndsUnchanged ==
  ASSUME EndsInv, UNCHANGED <<status, shown, queue>>
  PROVE  EndsInv'
  BY SameReports DEF EndsInv, Agrees, Silent

-----------------------------------------------------------------------------

\* SendFile keeps the agreement.
LEMMA SendFileEnds ==
  ASSUME TransferInv, EndsInv, NEW x \in Sends, SendFile(x)
  PROVE  EndsInv'
<1>. USE DEF vars, libVars, idVars, requestVars, workerVars
<1>0. TransferTypes /\ x \in Xfers /\ Agrees(x) /\ FirstInLine(x) /\ Silent(x)
  BY DEF TransferInv, EndsInv, Xfers
<1>1. \A y \in Xfers :
        /\ InitQueued(y)' => InitQueued(y) \/ y = x
        /\ Reported(y)' => Reported(y)
        /\ Reported(y) => Reported(y)'
        /\ FirstInLine(y) /\ (y = x => ~Reported(y)) => FirstInLine(y)'
  <2>1. Post("init", x) /\ "init" \in Kinds
    BY DEF SendFile, Kinds
  <2>. QED
    BY <1>0, <2>1, InitPosted, ReportedPosted
<1>2. \A y \in Xfers \ {x} : status'[y] = status[y] /\ shown'[y] = shown[y]
  BY <1>0
  DEF SendFile, SetStatus, TransferTypes
<1>3. Agrees(x)'
  BY <1>0, <1>1
  DEF SendFile, SetStatus, Agrees, TransferTypes, TransferInv, NewInv
<1>4. Silent(x)' /\ FirstInLine(x)'
  BY <1>0, <1>1
  DEF SendFile, Silent, TransferTypes
<1>. QED
  BY <1>0, <1>1, <1>2, <1>3, <1>4, EndsKept

\* RejectFileAsync keeps the agreement.
LEMMA RejectFileAsyncEnds ==
  ASSUME TransferInv, EndsInv, NEW x \in Receives, RejectFileAsync(x)
  PROVE  EndsInv'
<1>. USE DEF vars, libVars, idVars, requestVars, workerVars
<1>0. TransferTypes /\ x \in Xfers /\ Agrees(x) /\ FirstInLine(x) /\ Silent(x)
  BY DEF TransferInv, EndsInv, Xfers
<1>1. \A y \in Xfers :
        /\ InitQueued(y)' => InitQueued(y)
        /\ Reported(y)' => Reported(y)
        /\ Reported(y) => Reported(y)'
        /\ FirstInLine(y) => FirstInLine(y)'
  <2>1. UNCHANGED queue
    BY DEF RejectFileAsync
  <2>. QED
    BY <2>1, SameReports
<1>2. \A y \in Xfers \ {x} : status'[y] = status[y] /\ shown'[y] = shown[y]
  BY <1>0
  DEF RejectFileAsync, SetStatus, TransferTypes
<1>3. Agrees(x)'
  BY <1>0, <1>1
  DEF RejectFileAsync, SetStatus, Agrees, TransferTypes, TransferInv, OfferInv, Final
<1>4. Silent(x)' /\ FirstInLine(x)'
  BY <1>0, <1>1
  DEF RejectFileAsync, SetStatus, Silent, TransferTypes
<1>. QED
  BY <1>0, <1>1, <1>2, <1>3, <1>4, EndsKept

\* CancelFileTransfer keeps the agreement.
LEMMA CancelFileTransferEnds ==
  ASSUME TransferInv, EndsInv, NEW x \in Xfers, CancelFileTransfer(x)
  PROVE  EndsInv'
<1>. USE DEF vars, libVars, idVars, requestVars, workerVars
<1>0. TransferTypes /\ x \in Xfers /\ Agrees(x) /\ FirstInLine(x) /\ Silent(x)
  BY DEF TransferInv, EndsInv, Xfers
<1>1. \A y \in Xfers :
        /\ InitQueued(y)' => InitQueued(y)
        /\ Reported(y)' => Reported(y)
        /\ Reported(y) => Reported(y)'
        /\ FirstInLine(y) => FirstInLine(y)'
  <2>1. UNCHANGED queue
    BY DEF CancelFileTransfer, CancelLocal
  <2>. QED
    BY <2>1, SameReports
<1>2. \A y \in Xfers \ {x} : status'[y] = status[y] /\ shown'[y] = shown[y]
  BY <1>0
  DEF CancelFileTransfer, CancelLocal, SetStatus, TransferTypes
<1>3. Agrees(x)'
  <2>1. shown'[x] = "cancelLocal" /\ status[x] # "new" /\ shown[x] \notin Final \cup {"absent"}
    BY <1>0 DEF CancelFileTransfer, TransferTypes, TransferInv, NewInv
  <2>2. CASE x \in m_mapFileTransfer
    <3>1. status'[x] = "cancelLocal"
      BY <1>0, <2>2 DEF CancelFileTransfer, CancelLocal, SetStatus, TransferTypes
    <3>. QED
      BY <2>1, <3>1 DEF Agrees
  <2>3. CASE x \notin m_mapFileTransfer
    <3>1. status'[x] = status[x]
      BY <2>3 DEF CancelFileTransfer
    <3>2. status[x] \in Final
      BY <1>0, <2>1, <2>3 DEF TransferInv, MappedInv, OfferInv, Live
    <3>. QED
      BY <1>0, <1>1, <2>1, <3>1, <3>2 DEF Agrees, Final
  <2>. QED
    BY <2>2, <2>3
<1>4. Silent(x)' /\ FirstInLine(x)'
  BY <1>0, <1>1
  DEF CancelFileTransfer, CancelLocal, SetStatus, Silent, TransferTypes
<1>. QED
  BY <1>0, <1>1, <1>2, <1>3, <1>4, EndsKept

\* NotifyRequestFileTransferAsync keeps the agreement.
LEMMA NotifyRequestFileTransferAsyncEnds ==
  ASSUME TransferInv, EndsInv, NEW x \in Receives, NotifyRequestFileTransferAsync(x)
  PROVE  EndsInv'
<1>. USE DEF vars, libVars, idVars, requestVars, workerVars
<1>0. TransferTypes /\ x \in Xfers /\ Agrees(x) /\ FirstInLine(x) /\ Silent(x)
  BY DEF TransferInv, EndsInv, Xfers
<1>1. \A y \in Xfers :
        /\ InitQueued(y)' => InitQueued(y)
        /\ Reported(y)' => Reported(y)
        /\ Reported(y) => Reported(y)'
        /\ FirstInLine(y) => FirstInLine(y)'
  <2>1. Received("ask", x) /\ "ask" \in Kinds /\ QueueInv
    BY DEF NotifyRequestFileTransferAsync, Kinds, TransferInv
  <2>. QED
    BY <1>0, <2>1, InitReceived, ReportedReceived
<1>2. \A y \in Xfers \ {x} : status'[y] = status[y] /\ shown'[y] = shown[y]
  BY <1>0
  DEF NotifyRequestFileTransferAsync, TransferTypes
<1>3. Agrees(x)'
  BY <1>0, <1>1
  DEF NotifyRequestFileTransferAsync, Agrees, TransferTypes
<1>4. Silent(x)' /\ FirstInLine(x)'
  BY <1>0, <1>1
  DEF NotifyRequestFileTransferAsync, Silent, TransferTypes
<1>. QED
  BY <1>0, <1>1, <1>2, <1>3, <1>4, EndsKept

\* NotifyFileTransferInit keeps the agreement.
LEMMA NotifyFileTransferInitEnds ==
  ASSUME TransferInv, EndsInv, NEW x \in Xfers, NotifyFileTransferInit(x)
  PROVE  EndsInv'
<1>. USE DEF vars, libVars, idVars, requestVars, workerVars
<1>0. TransferTypes /\ x \in Xfers /\ Agrees(x) /\ FirstInLine(x) /\ Silent(x)
  BY DEF TransferInv, EndsInv, Xfers
<1>1. \A y \in Xfers :
        /\ InitQueued(y)' => InitQueued(y)
        /\ Reported(y)' => Reported(y)
        /\ Reported(y) => Reported(y)'
        /\ FirstInLine(y) => FirstInLine(y)'
  <2>1. Received("init", x) /\ "init" \in Kinds /\ QueueInv
    BY DEF NotifyFileTransferInit, Kinds, TransferInv
  <2>. QED
    BY <1>0, <2>1, InitReceived, ReportedReceived
<1>2. \A y \in Xfers \ {x} : status'[y] = status[y] /\ shown'[y] = shown[y]
  BY <1>0
  DEF NotifyFileTransferInit, TransferTypes
<1>3. Agrees(x)'
  <2>1. InitQueued(x)
    <3>1. queue[1] = Message("init", x) /\ 1 \in 1 .. Len(queue)
      BY <1>0, ReceivedQueue, QueuedMessages DEF NotifyFileTransferInit, Kinds
    <3>. QED
      BY <3>1 DEF InitQueued
  <2>2. shown[x] = "absent"
    BY <2>1 DEF InitQueued, Message, TransferInv, QueueInv
  <2>3. shown'[x] = "notStarted" /\ status'[x] = status[x]
    BY <1>0 DEF NotifyFileTransferInit, TransferTypes
  <2>. QED
    BY <1>0, <1>1, <2>1, <2>2, <2>3 DEF Agrees, Final
<1>4. Silent(x)' /\ FirstInLine(x)'
  BY <1>0, <1>1
  DEF NotifyFileTransferInit, Silent, TransferTypes
<1>. QED
  BY <1>0, <1>1, <1>2, <1>3, <1>4, EndsKept

\* NotifyFileTransferUpdateProgress keeps the agreement.
LEMMA NotifyFileTransferUpdateProgressEnds ==
  ASSUME TransferInv, EndsInv, NEW x \in Xfers, NotifyFileTransferUpdateProgress(x)
  PROVE  EndsInv'
<1>. USE DEF vars, libVars, idVars, requestVars, workerVars
<1>0. TransferTypes /\ x \in Xfers /\ Agrees(x) /\ FirstInLine(x) /\ Silent(x)
  BY DEF TransferInv, EndsInv, Xfers
<1>1. \A y \in Xfers :
        /\ InitQueued(y)' => InitQueued(y)
        /\ Reported(y)' => Reported(y)
        /\ Reported(y) /\ y # x => Reported(y)'
        /\ FirstInLine(y) => FirstInLine(y)'
        /\ y = x => ~InitQueued(y)
  <2>1. Received("progress", x) /\ "progress" \in Kinds /\ QueueInv
    BY DEF NotifyFileTransferUpdateProgress, Kinds, TransferInv
  <2>. QED
    BY <1>0, <2>1, InitReceived, ReportedReceived
<1>2. \A y \in Xfers \ {x} : status'[y] = status[y] /\ shown'[y] = shown[y]
  BY <1>0
  DEF NotifyFileTransferUpdateProgress, TransferTypes
<1>3. Agrees(x)'
  BY <1>0, <1>1
  DEF NotifyFileTransferUpdateProgress, Agrees, TransferTypes, Final
<1>4. Silent(x)' /\ FirstInLine(x)'
  BY <1>0, <1>1
  DEF NotifyFileTransferUpdateProgress, Silent, TransferTypes
<1>. QED
  BY <1>0, <1>1, <1>2, <1>3, <1>4, EndsKept

\* NotifyFileTransferCanceled keeps the agreement.
LEMMA NotifyFileTransferCanceledEnds ==
  ASSUME TransferInv, EndsInv, NEW x \in Xfers, NotifyFileTransferCanceled(x)
  PROVE  EndsInv'
<1>. USE DEF vars, libVars, idVars, requestVars, workerVars
<1>0. TransferTypes /\ x \in Xfers /\ Agrees(x) /\ FirstInLine(x) /\ Silent(x)
  BY DEF TransferInv, EndsInv, Xfers
<1>1. \A y \in Xfers :
        /\ InitQueued(y)' => InitQueued(y)
        /\ Reported(y)' => Reported(y)
        /\ Reported(y) /\ y # x => Reported(y)'
        /\ FirstInLine(y) => FirstInLine(y)'
        /\ y = x => ~InitQueued(y)
  <2>1. Received("canceled", x) /\ "canceled" \in Kinds /\ QueueInv
    BY DEF NotifyFileTransferCanceled, Kinds, TransferInv
  <2>. QED
    BY <1>0, <2>1, InitReceived, ReportedReceived
<1>2. \A y \in Xfers \ {x} : status'[y] = status[y] /\ shown'[y] = shown[y]
  BY <1>0
  DEF NotifyFileTransferCanceled, TransferTypes
<1>3. Agrees(x)'
  BY <1>0, <1>1
  DEF NotifyFileTransferCanceled, Agrees, TransferTypes, Final
<1>4. Silent(x)' /\ FirstInLine(x)'
  BY <1>0, <1>1
  DEF NotifyFileTransferCanceled, Silent, TransferTypes
<1>. QED
  BY <1>0, <1>1, <1>2, <1>3, <1>4, EndsKept

\* OfferFile keeps the agreement.
LEMMA OfferFileEnds ==
  ASSUME TransferInv, EndsInv, NEW x \in Receives, OfferFile(x)
  PROVE  EndsInv'
<1>. USE DEF vars, libVars, idVars, requestVars, workerVars
<1>0. TransferTypes /\ x \in Xfers /\ Agrees(x) /\ FirstInLine(x) /\ Silent(x)
  BY DEF TransferInv, EndsInv, Xfers
<1>1. \A y \in Xfers :
        /\ InitQueued(y)' => InitQueued(y)
        /\ Reported(y)' => Reported(y)
        /\ Reported(y) => Reported(y)'
        /\ FirstInLine(y) => FirstInLine(y)'
  <2>1. UNCHANGED queue
    BY DEF OfferFile
  <2>. QED
    BY <2>1, SameReports
<1>2. \A y \in Xfers \ {x} : status'[y] = status[y] /\ shown'[y] = shown[y]
  BY <1>0
  DEF OfferFile, SetStatus, TransferTypes
<1>3. Agrees(x)'
  BY <1>0, <1>1
  DEF OfferFile, SetStatus, Agrees, TransferTypes, TransferInv, NewInv
<1>4. Silent(x)' /\ FirstInLine(x)'
  BY <1>0, <1>1
  DEF OfferFile, Silent, TransferTypes
<1>. QED
  BY <1>0, <1>1, <1>2, <1>3, <1>4, EndsKept

\* StartTransfer keeps the agreement.
LEMMA StartTransferEnds ==
  ASSUME TransferInv, EndsInv, NEW x \in Xfers, StartTransfer(x)
  PROVE  EndsInv'
<1>. USE DEF vars, libVars, idVars, requestVars, workerVars
<1>0. TransferTypes /\ x \in Xfers /\ Agrees(x) /\ FirstInLine(x) /\ Silent(x)
  BY DEF TransferInv, EndsInv, Xfers
<1>1. \A y \in Xfers :
        /\ InitQueued(y)' => InitQueued(y)
        /\ Reported(y)' => Reported(y)
        /\ Reported(y) => Reported(y)'
        /\ FirstInLine(y) => FirstInLine(y)'
  <2>1. UNCHANGED queue
    BY DEF StartTransfer
  <2>. QED
    BY <2>1, SameReports
<1>2. \A y \in Xfers \ {x} : status'[y] = status[y] /\ shown'[y] = shown[y]
  BY <1>0
  DEF StartTransfer, SetStatus, TransferTypes
<1>3. Agrees(x)'
  BY <1>0, <1>1
  DEF StartTransfer, Negotiated, Running, SetStatus, Agrees, TransferTypes, Final
<1>4. Silent(x)' /\ FirstInLine(x)'
  BY <1>0, <1>1
  DEF StartTransfer, SetStatus, Silent, TransferTypes
<1>. QED
  BY <1>0, <1>1, <1>2, <1>3, <1>4, EndsKept

\* TransferBytes keeps the agreement.
LEMMA TransferBytesEnds ==
  ASSUME TransferInv, EndsInv, NEW x \in Xfers, TransferBytes(x)
  PROVE  EndsInv'
<1>. USE DEF vars, libVars, idVars, requestVars, workerVars
<1>0. TransferTypes /\ x \in Xfers /\ Agrees(x) /\ FirstInLine(x) /\ Silent(x)
  BY DEF TransferInv, EndsInv, Xfers
<1>1. \A y \in Xfers :
        /\ InitQueued(y)' => InitQueued(y)
        /\ Reported(y)' => Reported(y) \/ y = x
        /\ Reported(y) => Reported(y)'
        /\ y = x => Reported(y)'
        /\ FirstInLine(y) => FirstInLine(y)'
  <2>1. Post("progress", x) /\ "progress" \in Kinds
    BY DEF TransferBytes, Kinds
  <2>. QED
    BY <1>0, <2>1, InitPosted, ReportedPosted
<1>2. \A y \in Xfers \ {x} : status'[y] = status[y] /\ shown'[y] = shown[y]
  BY <1>0
  DEF TransferBytes, TransferTypes
<1>3. Agrees(x)'
  BY <1>0, <1>1
  DEF TransferBytes, Agrees, TransferTypes
<1>4. Silent(x)' /\ FirstInLine(x)'
  BY <1>0, <1>1
  DEF TransferBytes, Silent, TransferTypes
<1>. QED
  BY <1>0, <1>1, <1>2, <1>3, <1>4, EndsKept

\* CompleteTransfer keeps the agreement.
LEMMA CompleteTransferEnds ==
  ASSUME TransferInv, EndsInv, NEW x \in Xfers, CompleteTransfer(x)
  PROVE  EndsInv'
<1>. USE DEF vars, libVars, idVars, requestVars, workerVars
<1>0. TransferTypes /\ x \in Xfers /\ Agrees(x) /\ FirstInLine(x) /\ Silent(x)
  BY DEF TransferInv, EndsInv, Xfers
<1>1. \A y \in Xfers :
        /\ InitQueued(y)' => InitQueued(y)
        /\ Reported(y)' => Reported(y) \/ y = x
        /\ Reported(y) => Reported(y)'
        /\ FirstInLine(y) => FirstInLine(y)'
        /\ y = x => Reported(y)'
  BY <1>0, CompletedReports, CompletionReported
<1>2. \A y \in Xfers \ {x} : status'[y] = status[y] /\ shown'[y] = shown[y]
  BY <1>0
  DEF CompleteTransfer, SetStatus, TransferTypes
<1>3. Agrees(x)'
  BY <1>0, <1>1
  DEF CompleteTransfer, Agrees, TransferTypes
<1>4. Silent(x)' /\ FirstInLine(x)'
  BY <1>0, <1>1
  DEF CompleteTransfer, SetStatus, Silent, TransferTypes
<1>. QED
  BY <1>0, <1>1, <1>2, <1>3, <1>4, EndsKept

\* EndLocally keeps the agreement.
LEMMA EndLocallyEnds ==
  ASSUME TransferInv, EndsInv, NEW x \in Xfers, EndLocally(x)
  PROVE  EndsInv'
<1>. USE DEF vars, libVars, idVars, requestVars, workerVars
<1>0. TransferTypes /\ x \in Xfers /\ Agrees(x) /\ FirstInLine(x) /\ Silent(x)
  BY DEF TransferInv, EndsInv, Xfers
<1>1. \A y \in Xfers :
        /\ InitQueued(y)' => InitQueued(y)
        /\ Reported(y)' => Reported(y)
        /\ Reported(y) => Reported(y)'
        /\ FirstInLine(y) => FirstInLine(y)'
  <2>1. UNCHANGED queue
    BY DEF EndLocally, CancelLocal
  <2>. QED
    BY <2>1, SameReports
<1>2. \A y \in Xfers \ {x} : status'[y] = status[y] /\ shown'[y] = shown[y]
  BY <1>0
  DEF EndLocally, CancelLocal, SetStatus, TransferTypes
<1>3. Agrees(x)'
  BY <1>0, <1>1
  DEF EndLocally, Negotiated, Running, CancelLocal, SetStatus, Agrees, TransferTypes, Final
<1>4. Silent(x)' /\ FirstInLine(x)'
  BY <1>0, <1>1
  DEF EndLocally, CancelLocal, SetStatus, Silent, TransferTypes
<1>. QED
  BY <1>0, <1>1, <1>2, <1>3, <1>4, EndsKept

\* EndRemotely keeps the agreement.
LEMMA EndRemotelyEnds ==
  ASSUME TransferInv, EndsInv, NEW x \in Xfers, EndRemotely(x)
  PROVE  EndsInv'
<1>. USE DEF vars, libVars, idVars, requestVars, workerVars
<1>0. TransferTypes /\ x \in Xfers /\ Agrees(x) /\ FirstInLine(x) /\ Silent(x)
  BY DEF TransferInv, EndsInv, Xfers
<1>1. \A y \in Xfers :
        /\ InitQueued(y)' => InitQueued(y)
        /\ Reported(y)' => Reported(y) \/ y = x
        /\ Reported(y) => Reported(y)'
        /\ y = x => Reported(y)'
        /\ FirstInLine(y) => FirstInLine(y)'
  <2>1. Post("canceled", x) /\ "canceled" \in Kinds
    BY DEF EndRemotely, CancelRemote, Kinds
  <2>. QED
    BY <1>0, <2>1, InitPosted, ReportedPosted
<1>2. \A y \in Xfers \ {x} : status'[y] = status[y] /\ shown'[y] = shown[y]
  BY <1>0
  DEF EndRemotely, CancelRemote, SetStatus, TransferTypes
<1>3. Agrees(x)'
  BY <1>0, <1>1
  DEF EndRemotely, Agrees, TransferTypes
<1>4. Silent(x)' /\ FirstInLine(x)'
  BY <1>0, <1>1
  DEF EndRemotely, CancelRemote, SetStatus, Silent, TransferTypes
<1>. QED
  BY <1>0, <1>1, <1>2, <1>3, <1>4, EndsKept

\* RequestActionThread keeps the agreement.
LEMMA RequestActionThreadEnds ==
  ASSUME TransferInv, EndsInv, NEW x \in Receives, RequestActionThread(x)
  PROVE  EndsInv'
<1>. USE DEF vars, libVars, idVars, requestVars, workerVars
<1>0. TransferTypes /\ x \in Xfers /\ Agrees(x) /\ FirstInLine(x) /\ Silent(x)
  BY DEF TransferInv, EndsInv, Xfers
<1>1. \A y \in Xfers :
        /\ InitQueued(y)' => InitQueued(y)
        /\ Reported(y)' => Reported(y)
        /\ Reported(y) => Reported(y)'
        /\ FirstInLine(y) => FirstInLine(y)'
  <2>1. Post("ask", x) /\ "ask" \in Kinds
    BY DEF RequestActionThread, Kinds
  <2>. QED
    BY <1>0, <2>1, InitPosted, ReportedPosted
<1>2. \A y \in Xfers \ {x} : status'[y] = status[y] /\ shown'[y] = shown[y]
  BY <1>0
  DEF RequestActionThread, TransferTypes
<1>3. Agrees(x)'
  BY <1>0, <1>1
  DEF RequestActionThread, Agrees, TransferTypes
<1>4. Silent(x)' /\ FirstInLine(x)'
  BY <1>0, <1>1
  DEF RequestActionThread, Silent, TransferTypes
<1>. QED
  BY <1>0, <1>1, <1>2, <1>3, <1>4, EndsKept

\* A path that is accepted, or comes too late, keeps the agreement.
LEMMA PathAnsweredEnds ==
  ASSUME TransferInv, EndsInv, NEW x \in Receives, PathChosen(x), request'[x] = "answered"
  PROVE  EndsInv'
<1>. USE DEF vars, libVars, idVars, requestVars, workerVars
<1>0. TransferTypes /\ x \in Xfers /\ Agrees(x) /\ FirstInLine(x) /\ Silent(x)
  BY DEF TransferInv, EndsInv, Xfers
<1>a. /\ request[x] = "path"
      /\ IF status[x] # "cancelRemote" THEN AcceptPath(x)
         ELSE UNCHANGED <<status, refs, m_mapFileTransfer, queue>>
      /\ UNCHANGED <<idVars, file, record, workerVars, shown>>
  BY <1>0 DEF PathChosen, ChooseFileOk, RefuseDirectory, DenyPath, AcceptPath, TransferTypes
<1>1. \A y \in Xfers :
        /\ InitQueued(y)' => InitQueued(y) \/ (y = x /\ status[x] # "cancelRemote")
        /\ Reported(y)' => Reported(y)
        /\ Reported(y) => Reported(y)'
        /\ FirstInLine(y) /\ (y = x /\ status[x] # "cancelRemote" => ~Reported(y))
             => FirstInLine(y)'
  <2>1. CASE status[x] # "cancelRemote"
    <3>1. Post("init", x) /\ "init" \in Kinds
      BY <1>a, <2>1 DEF AcceptPath, Kinds
    <3>. QED
      BY <1>0, <2>1, <3>1, InitPosted, ReportedPosted
  <2>2. CASE status[x] = "cancelRemote"
    <3>1. UNCHANGED queue
      BY <1>a, <2>2 DEF AcceptPath
    <3>. QED
      BY <3>1, SameReports
  <2>. QED
    BY <2>1, <2>2
<1>2. \A y \in Xfers \ {x} : status'[y] = status[y] /\ shown'[y] = shown[y]
  BY <1>a, <1>0
  DEF AcceptPath, SetStatus, TransferTypes
<1>3. Agrees(x)'
  BY <1>a, <1>0, <1>1
  DEF AcceptPath, SetStatus, Agrees, TransferTypes, TransferInv, OfferInv
<1>4. Silent(x)' /\ FirstInLine(x)'
  BY <1>a, <1>0, <1>1
  DEF AcceptPath, Silent, TransferTypes, TransferInv, OfferInv
<1>. QED
  BY <1>0, <1>1, <1>2, <1>3, <1>4, EndsKept

\* PathChosen keeps the agreement.
LEMMA PathChosenEnds ==
  ASSUME TransferInv, EndsInv, NEW x \in Receives, PathChosen(x)
  PROVE  EndsInv'
<1>0. request \in [Receives -> {"none", "offered", "posted", "asked", "path", "unwritable",
                                "answered", "denied"}]
  BY DEF TransferInv, TransferTypes
<1>1. CASE request'[x] = "answered"
  BY <1>1, PathAnsweredEnds
<1>2. CASE RefuseDirectory(x) \/ DenyPath(x)
  BY <1>2, EndsUnchanged DEF PathChosen, RefuseDirectory, DenyPath
<1>. QED
  BY <1>0, <1>1, <1>2 DEF PathChosen, ChooseFileOk, AcceptPath

\* PathRefused keeps the agreement.
LEMMA PathRefusedEnds ==
  ASSUME TransferInv, EndsInv, NEW x \in Receives, PathRefused(x)
  PROVE  EndsInv'
<1>. USE DEF vars, libVars, idVars, requestVars, workerVars
<1>0. TransferTypes /\ x \in Xfers /\ Agrees(x) /\ FirstInLine(x) /\ Silent(x)
  BY DEF TransferInv, EndsInv, Xfers
<1>1. \A y \in Xfers :
        /\ InitQueued(y)' => InitQueued(y)
        /\ Reported(y)' => Reported(y)
        /\ Reported(y) => Reported(y)'
        /\ FirstInLine(y) => FirstInLine(y)'
  <2>1. UNCHANGED queue
    BY DEF PathRefused, CancelLocal
  <2>. QED
    BY <2>1, SameReports
<1>2. \A y \in Xfers \ {x} : status'[y] = status[y] /\ shown'[y] = shown[y]
  BY <1>0
  DEF PathRefused, CancelLocal, SetStatus, TransferTypes
<1>3. Agrees(x)'
  BY <1>0, <1>1
  DEF PathRefused, CancelLocal, SetStatus, Agrees, TransferTypes, TransferInv, OfferInv
<1>4. Silent(x)' /\ FirstInLine(x)'
  BY <1>0, <1>1
  DEF PathRefused, CancelLocal, SetStatus, Silent, TransferTypes
<1>. QED
  BY <1>0, <1>1, <1>2, <1>3, <1>4, EndsKept

\* CancelPicked, about the transfer that was picked.
LEMMA CancelPickedEnds ==
  ASSUME TransferInv, EndsInv, NEW f \in Sends, CancelPicked(f)
  PROVE  EndsInv'
<1>. PICK x \in Xfers : x = picked[f]
  BY DEF CancelPicked, TransferInv, TransferTypes
<1>0. TransferTypes /\ UNCHANGED shown
  BY DEF CancelPicked, TransferInv
<1>1. CASE UNCHANGED <<status, refs, m_mapFileTransfer, queue>>
  BY <1>0, <1>1, EndsUnchanged
<1>2. CASE CancelRemote(x)
  <2>1. Post("canceled", x) /\ "canceled" \in Kinds
    BY <1>2 DEF CancelRemote, Kinds
  <2>2. \A y \in Xfers :
          /\ InitQueued(y)' => InitQueued(y)
          /\ Reported(y)' <=> Reported(y) \/ y = x
          /\ FirstInLine(y) => FirstInLine(y)'
    BY <1>0, <2>1, InitPosted, ReportedPosted
  <2>3. \A y \in Xfers \ {x} : status'[y] = status[y] /\ shown'[y] = shown[y]
    BY <1>0, <1>2 DEF CancelRemote, SetStatus, TransferTypes
  <2>4. Agrees(x)' /\ FirstInLine(x)'
    BY <2>2 DEF Agrees, EndsInv
  <2>5. Silent(x)'
    BY <1>0, <1>2 DEF CancelRemote, SetStatus, TransferTypes, Silent
  <2>. QED
    BY <2>2, <2>3, <2>4, <2>5, EndsKept
<1>. QED
  BY <1>1, <1>2 DEF CancelPicked

-----------------------------------------------------------------------------
\* Nothing has ended at the start.
LEMMA EndsInvInit ==
  ASSUME FileTransferInit
  PROVE  EndsInv
<1>1. Len(queue) = 0
  BY DEF FileTransferInit
<1>2. \A x \in Xfers : ~InitQueued(x) /\ ~Reported(x) /\ FirstInLine(x)
  BY <1>1 DEF InitQueued, Reported, FirstInLine
<1>. QED
  BY <1>2 DEF FileTransferInit, EndsInv, Agrees, Silent, Final

\* Every action keeps the agreement, and so does a step that changes nothing.
LEMMA EndsInvNext ==
  ASSUME TransferInv, EndsInv, [FileTransferNext]_vars
  PROVE  EndsInv'
<1>1. CASE \E x \in Sends : SendFile(x)
  BY <1>1, SendFileEnds
<1>2. CASE \E x \in Receives : RejectFileAsync(x)
  BY <1>2, RejectFileAsyncEnds
<1>3. CASE \E x \in Xfers : CancelFileTransfer(x)
  BY <1>3, CancelFileTransferEnds
<1>4. CASE \E x \in Receives : NotifyRequestFileTransferAsync(x)
  BY <1>4, NotifyRequestFileTransferAsyncEnds
<1>5. CASE \E x \in Xfers : NotifyFileTransferInit(x)
  BY <1>5, NotifyFileTransferInitEnds
<1>6. CASE \E x \in Xfers : NotifyFileTransferUpdateProgress(x)
  BY <1>6, NotifyFileTransferUpdateProgressEnds
<1>7. CASE \E x \in Xfers : NotifyFileTransferCanceled(x)
  BY <1>7, NotifyFileTransferCanceledEnds
<1>8. CASE \E x \in Receives : OfferFile(x)
  BY <1>8, OfferFileEnds
<1>9. CASE \E x \in Xfers : StartTransfer(x)
  BY <1>9, StartTransferEnds
<1>10. CASE \E x \in Xfers : TransferBytes(x)
  BY <1>10, TransferBytesEnds
<1>11. CASE \E x \in Xfers : CompleteTransfer(x)
  BY <1>11, CompleteTransferEnds
<1>12. CASE \E x \in Xfers : EndLocally(x)
  BY <1>12, EndLocallyEnds
<1>13. CASE \E x \in Xfers : EndRemotely(x)
  BY <1>13, EndRemotelyEnds
<1>14. CASE \E x \in Receives : RequestActionThread(x)
  BY <1>14, RequestActionThreadEnds
<1>15. CASE \E x \in Receives : PathChosen(x)
  BY <1>15, PathChosenEnds
<1>16. CASE \E x \in Receives : PathRefused(x)
  BY <1>16, PathRefusedEnds
<1>17. CASE \E x \in Sends : ClientAnswers(x) \/ PickTransfer(x)
  BY <1>17, EndsUnchanged DEF ClientAnswers, PickTransfer, libVars
<1>18. CASE \E x \in Receives : AcceptFileAsync(x) \/ CloseConversation(x)
                              \/ NotificationClosed(x)
  BY <1>18, EndsUnchanged DEF AcceptFileAsync, CloseConversation, NotificationClosed, libVars
<1>19. CASE \E x \in Sends : CancelPicked(x)
  BY <1>19, CancelPickedEnds
<1>20. CASE UNCHANGED vars
  BY <1>20, EndsUnchanged DEF vars, libVars
<1>. QED
  BY <1>1, <1>2, <1>3, <1>4, <1>5, <1>6, <1>7, <1>8, <1>9, <1>10, <1>11, <1>12, <1>13,
     <1>14, <1>15, <1>16, <1>17, <1>18, <1>19, <1>20
  DEF FileTransferNext, HandleMessage, CancelFileTransfers

\* QuietEndsAgree, for any transfers: what the user sees as over, and what
\* libpurple has completed or the contact has cancelled, agree once the
\* reports have been handled.
THEOREM EndsAgreeWhenQuiet == FileTransferSpec => []QuietEndsAgree
<1>1. FileTransferInit => EndsInv
  BY EndsInvInit
<1>2. TransferInv /\ EndsInv /\ [FileTransferNext]_vars => EndsInv'
  BY EndsInvNext
<1>3. TransferInv /\ EndsInv => QuietEndsAgree
  <2>1. ASSUME TransferInv, NEW x \in Xfers, Reported(x)
        PROVE  Queued(x)
    <3>1. DOMAIN queue = 1 .. Len(queue)
      BY <2>1 DEF TransferInv, TransferTypes
    <3>. QED
      BY <2>1, <3>1 DEF Reported, Queued
  <2>. QED
    BY <2>1 DEF EndsInv, Agrees, QuietEndsAgree
<1>. QED
  BY <1>1, <1>2, <1>3, TransferInvariant, PTL DEF FileTransferSpec
=============================================================================
