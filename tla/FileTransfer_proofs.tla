------------------------- MODULE FileTransfer_proofs -------------------------
(***************************************************************************)
(* For any transfers of any contacts: what is over stays over (a transfer  *)
(* that was cancelled remotely, and an end that the user has been shown),  *)
(* and a transfer that can go on is in the map, where the user's cancel    *)
(* finds it.                                                               *)
(***************************************************************************)
EXTENDS FileTransfer, SequenceTheorems, FiniteSetTheorems, WellFoundedInduction, TLAPS

TransferTypes ==
  /\ status \in [Xfers -> Statuses \cup {"new"}]
  /\ refs \in [Xfers -> Int]
  /\ m_mapFileTransfer \subseteq Xfers
  /\ ui_data \in [Xfers -> Nat]
  /\ m_lNextFileTransferId \in Nat
  /\ request \in [Receives -> {"none", "offered", "posted", "asked", "path", "unwritable",
                             "answered", "denied"}]
  /\ record \subseteq Receives
  /\ canceling \subseteq Sends
  /\ picked \in [Sends -> Xfers \cup {NoXfer}]
  /\ queue \in Seq(Messages)
  /\ shown \in [Xfers -> Statuses \cup {"absent"}]

\* The ids of the map have a greatest one.
IdInv == \A x \in Xfers : ui_data[x] <= m_lNextFileTransferId

\* A transfer cancelled remotely has left the map, where alone it could be
\* cancelled once more.
RemoteInv == \A x \in Xfers : status[x] = "cancelRemote" => x \notin m_mapFileTransfer

Untouched(x) == x \notin m_mapFileTransfer /\ \A f \in Sends : picked[f] # x

\* Nothing knows of a transfer before it exists, and only the worker thread
\* of the offer before it has put it to the user.
NewInv ==
  /\ \A x \in Xfers : status[x] = "new" => Untouched(x) /\ shown[x] = "absent"
  /\ \A x \in Receives : status[x] = "new" => request[x] = "none"
  /\ \A x \in Receives : request[x] = "offered" => status[x] = "notStarted" /\ Untouched(x)

\* As long as its offer has not been accepted or refused, a transfer does not run,
\* and can only be cancelled remotely; nor does it run once it has been denied.
OfferInv ==
  \A x \in Receives : request[x] # "answered" =>
    status[x] \in {"new", "notStarted", "cancelRemote"} /\ shown[x] = "absent"

\* A transfer is put to the user once and shown once.
QueueInv ==
  /\ \A i \in 1 .. Len(queue) : status[queue[i].xfer] # "new"
  /\ \A i, j \in 1 .. Len(queue) :
       queue[i].kind \in {"ask", "init"} /\ queue[i] = queue[j] => i = j
  /\ \A i \in 1 .. Len(queue) : queue[i].kind = "ask" =>
       queue[i].xfer \in Receives /\ request[queue[i].xfer] = "posted"
  /\ \A i \in 1 .. Len(queue) : queue[i].kind = "init" =>
       /\ shown[queue[i].xfer] = "absent"
       /\ queue[i].xfer \in Receives => request[queue[i].xfer] = "answered"

\* What is shown as over is over.
ShownInv == \A x \in Xfers : shown[x] \in Final => status[x] \in Final

\* A window shows an offer that has been put to the user.
RecordInv ==
  \A x \in record : request[x] \in {"asked", "path", "unwritable", "answered", "denied"}

\* A transfer that is neither over nor denied holds one reference for libpurple, one for the
\* offer that is posted or shown, and one for each report in the queue.
Live(x) ==
  status[x] \notin Final \cup {"new"} /\ (x \in Receives => request[x] # "denied")

Holds(x) == IF x \in record \/ (x \in Receives /\ request[x] = "posted") THEN 1 ELSE 0

QueuedReports(x) ==
  {i \in 1 .. Len(queue) : queue[i].xfer = x /\ queue[i].kind # "ask"}

RefInv ==
  \A x \in Xfers : Live(x) => refs[x] >= 1 + Holds(x) + Cardinality(QueuedReports(x))

\* So it is not destroyed, and stays in the map.
MappedInv ==
  \A x \in Xfers :
    Live(x) /\ (x \in Receives => request[x] # "offered") => x \in m_mapFileTransfer

TransferInv ==
  /\ TransferTypes
  /\ IdInv
  /\ RemoteInv
  /\ NewInv
  /\ OfferInv
  /\ ShownInv
  /\ RecordInv
  /\ MappedInv
  /\ QueueInv
  /\ RefInv

-----------------------------------------------------------------------------
\* A nonempty set of ids has a least one.
LEMMA LeastOf ==
  ASSUME NEW T \in SUBSET Nat, T # {}
  PROVE  \E n \in T : \A m \in T : n <= m
<1>1. PICK n \in T : \A m \in T : ~(<<m, n>> \in OpToRel(<, Nat))
  BY NatLessThanWellFounded, WFMin
<1>2. ASSUME NEW m \in T, m < n
      PROVE  FALSE
  <2>1. <<m, n>> \in Nat \X Nat /\ <<m, n>>[1] < <<m, n>>[2]
    BY <1>2
  <2>2. <<m, n>> \in {ss \in Nat \X Nat : ss[1] < ss[2]}
    BY <2>1
  <2>. QED
    BY <1>1, <2>2, Zenon DEF OpToRel
<1>. QED
  BY <1>2

\* What GetPurpleXfer returns, if it is not NULL, is in the map.
LEMMA PickedIsMapped ==
  ASSUME TransferTypes, IdInv, NEW c
  PROVE  GetPurpleXfer(c) \in m_mapFileTransfer \cup {NoXfer}
<1>. DEFINE ofContact == {x \in m_mapFileTransfer : Who[x] = c}
            idsOf == {ui_data[x] : x \in ofContact}
            above == {m_lNextFileTransferId - ui_data[x] : x \in m_mapFileTransfer}
<1>1. CASE m_mapFileTransfer = {}
  BY <1>1 DEF GetPurpleXfer
<1>2. CASE m_mapFileTransfer # {} /\ ofContact = {}
  <2>1. above \in SUBSET Nat /\ above # {}
    BY <1>2 DEF TransferTypes, IdInv
  <2>2. PICK n \in above : \A m \in above : n <= m
    BY <2>1, LeastOf
  <2>3. PICK x \in m_mapFileTransfer : n = m_lNextFileTransferId - ui_data[x]
    BY <2>2
  <2>4. \A y \in m_mapFileTransfer : ui_data[y] <= ui_data[x]
    <3>. TAKE y \in m_mapFileTransfer
    <3>1. n <= m_lNextFileTransferId - ui_data[y]
      BY <2>2
    <3>. QED
      BY <2>3, <3>1 DEF TransferTypes, IdInv
  <2>. QED
    BY <1>2, <2>4 DEF GetPurpleXfer
<1>3. CASE ofContact # {}
  <2>1. idsOf \in SUBSET Nat /\ idsOf # {}
    BY <1>3 DEF TransferTypes
  <2>2. PICK n \in idsOf : \A m \in idsOf : n <= m
    BY <2>1, LeastOf
  <2>3. PICK x \in ofContact : n = ui_data[x]
    BY <2>2
  <2>4. \A y \in ofContact : ui_data[x] <= ui_data[y]
    BY <2>2, <2>3
  <2>. QED
    BY <1>3, <2>4 DEF GetPurpleXfer
<1>. QED
  BY <1>1, <1>2, <1>3

-----------------------------------------------------------------------------
\* What is in the queue, and what becomes of it.
LEMMA QueuedMessages ==
  ASSUME TransferTypes
  PROVE  /\ Len(queue) \in Nat
         /\ \A i \in 1 .. Len(queue) : queue[i] \in Messages /\ queue[i].xfer \in Xfers
<1>1. queue \in Seq(Messages)
  BY DEF TransferTypes
<1>2. Len(queue) \in Nat /\ \A i \in 1 .. Len(queue) : queue[i] \in Messages
  BY <1>1, LenProperties, ElementOfSeq
<1>. QED
  BY <1>2 DEF Messages

\* A posted message is the last one, and the others stay where they are.
LEMMA PostQueue ==
  ASSUME TransferTypes, NEW kind \in Kinds, NEW x \in Xfers, Post(kind, x)
  PROVE  /\ queue' \in Seq(Messages)
         /\ Len(queue') = Len(queue) + 1
         /\ \A i \in 1 .. Len(queue) : queue'[i] = queue[i]
         /\ queue'[Len(queue) + 1] = Message(kind, x)
<1>1. queue \in Seq(Messages) /\ Message(kind, x) \in Messages
  BY DEF TransferTypes, Message, Messages
<1>. QED
  BY <1>1, AppendProperties DEF Post

\* The message received was the first one, and the others move up by one.
LEMMA ReceivedQueue ==
  ASSUME TransferTypes, NEW kind \in Kinds, NEW x \in Xfers, Received(kind, x)
  PROVE  /\ queue' \in Seq(Messages)
         /\ Len(queue') = Len(queue) - 1 /\ Len(queue) > 0
         /\ \A i \in 1 .. Len(queue') : queue'[i] = queue[i + 1]
         /\ queue[1] = Message(kind, x)
<1>1. queue \in Seq(Messages) /\ queue # <<>>
  BY DEF TransferTypes, Received
<1>. QED
  BY <1>1, HeadTailProperties DEF Received

\* CompleteTransfer posts two reports of progress.
LEMMA CompletedQueue ==
  ASSUME TransferTypes, NEW x \in Xfers, CompleteTransfer(x)
  PROVE  /\ queue' \in Seq(Messages)
         /\ Len(queue') = Len(queue) + 2
         /\ \A i \in 1 .. Len(queue) : queue'[i] = queue[i]
         /\ \A i \in Len(queue) + 1 .. Len(queue) + 2 : queue'[i] = Message("progress", x)
<1>1. queue \in Seq(Messages) /\ Message("progress", x) \in Messages
  BY DEF TransferTypes, Message, Messages, Kinds
<1>2. <<Message("progress", x), Message("progress", x)>> \in Seq(Messages)
  BY <1>1
<1>3. queue' = queue \o <<Message("progress", x), Message("progress", x)>>
  BY DEF CompleteTransfer
<1>. QED
  BY <1>1, <1>2, <1>3, ConcatProperties

\* A step that takes nothing back of what the messages rely on.
Keeps ==
  /\ \A x \in Xfers : status[x] # "new" => status'[x] # "new"
  /\ \A x \in Xfers : shown[x] = "absent" => shown'[x] = "absent"
  /\ \A x \in Receives : request[x] = "posted" => request'[x] = "posted"
  /\ \A x \in Receives : request[x] = "answered" => request'[x] = "answered"

\* A step that keeps Keeps and posts nothing keeps QueueInv.
LEMMA QueueKept ==
  ASSUME TransferTypes, QueueInv, Keeps, UNCHANGED queue
  PROVE  QueueInv'
  BY QueuedMessages DEF QueueInv, Keeps

\* So does one that posts a report other than the first of a transfer.
LEMMA QueueReported ==
  ASSUME TransferTypes, QueueInv, Keeps,
         NEW kind \in {"progress", "canceled"}, NEW x \in Xfers, Post(kind, x),
         status[x] # "new"
  PROVE  QueueInv'
<1>1. /\ Len(queue') = Len(queue) + 1 /\ Len(queue) \in Nat
      /\ \A i \in 1 .. Len(queue) : queue'[i] = queue[i]
      /\ queue'[Len(queue) + 1] = Message(kind, x)
  BY PostQueue, QueuedMessages DEF Kinds
<1>2. queue'[Len(queue) + 1].kind \notin {"ask", "init"}
  BY <1>1 DEF Message
<1>3. \A i \in 1 .. Len(queue') : queue'[i].kind \in {"ask", "init"} => i \in 1 .. Len(queue)
  BY <1>1, <1>2
<1>4. \A i \in 1 .. Len(queue') : status'[queue'[i].xfer] # "new"
  <2>1. ASSUME NEW i \in 1 .. Len(queue') PROVE i \in 1 .. Len(queue) \/ i = Len(queue) + 1
    BY <1>1
  <2>2. queue'[Len(queue) + 1].xfer = x
    BY <1>1 DEF Message
  <2>. QED
    BY <1>1, <2>1, <2>2, QueuedMessages DEF QueueInv, Keeps
<1>. QED
  BY <1>1, <1>3, <1>4, QueuedMessages DEF QueueInv, Keeps

\* And so does the handler of a message, which alone may change what its
\* own message relies on: no other of its kind for the transfer is queued.
LEMMA QueueReceived ==
  ASSUME TransferTypes, QueueInv, NEW kind \in Kinds, NEW x \in Xfers, Received(kind, x),
         \A y \in Xfers : status[y] # "new" => status'[y] # "new",
         \A y \in Xfers \ {x} : shown[y] = "absent" => shown'[y] = "absent",
         shown[x] = "absent" => kind = "init" \/ shown'[x] = "absent",
         \A y \in Receives \ {x} : request[y] = "posted" => request'[y] = "posted",
         x \in Receives /\ request[x] = "posted" => kind = "ask" \/ request'[x] = "posted",
         \A y \in Receives : request[y] = "answered" => request'[y] = "answered"
  PROVE  QueueInv'
<1>1. /\ Len(queue') = Len(queue) - 1 /\ Len(queue) \in Nat \ {0}
      /\ \A i \in 1 .. Len(queue') : queue'[i] = queue[i + 1]
      /\ queue[1] = Message(kind, x)
  BY ReceivedQueue, QueuedMessages
<1>2. \A i \in 1 .. Len(queue) : queue[i] \in Messages
  BY QueuedMessages
<1>3. ASSUME NEW i \in 1 .. Len(queue'), NEW j \in 1 .. Len(queue'),
             queue'[i].kind \in {"ask", "init"}, queue'[i] = queue'[j]
      PROVE  i = j
  <2>1. i + 1 \in 1 .. Len(queue) /\ j + 1 \in 1 .. Len(queue)
    BY <1>1
  <2>. QED
    BY <1>1, <1>3, <2>1 DEF QueueInv
<1>4. ASSUME NEW i \in 1 .. Len(queue'), queue'[i].kind \in {"ask", "init"}
      PROVE  /\ i + 1 \in 1 .. Len(queue) /\ queue'[i] = queue[i + 1]
             /\ queue'[i].xfer \in Xfers
             /\ queue'[i].kind = kind => queue'[i].xfer # x
  <2>1. i + 1 \in 1 .. Len(queue) /\ queue'[i] = queue[i + 1] /\ 1 \in 1 .. Len(queue)
    BY <1>1
  <2>2. queue[i + 1] # queue[1]
    BY <1>4, <2>1 DEF QueueInv
  <2>3. queue[i + 1] \in Messages
    BY <1>2, <2>1
  <2>4. queue[i + 1].kind = kind => queue[i + 1].xfer # x
    BY <1>1, <2>2, <2>3 DEF Message, Messages
  <2>. QED
    BY <2>1, <2>3, <2>4 DEF Messages
<1>5. ASSUME NEW i \in 1 .. Len(queue'), queue'[i].kind = "ask"
      PROVE  queue'[i].xfer \in Receives /\ request'[queue'[i].xfer] = "posted"
  BY <1>4, <1>5 DEF QueueInv
<1>6. ASSUME NEW i \in 1 .. Len(queue'), queue'[i].kind = "init"
      PROVE  /\ shown'[queue'[i].xfer] = "absent"
             /\ queue'[i].xfer \in Receives => request'[queue'[i].xfer] = "answered"
  BY <1>4, <1>6 DEF QueueInv
<1>7. ASSUME NEW i \in 1 .. Len(queue') PROVE status'[queue'[i].xfer] # "new"
  <2>1. i + 1 \in 1 .. Len(queue) /\ queue'[i] = queue[i + 1]
    BY <1>1
  <2>. QED
    BY <2>1, QueuedMessages DEF QueueInv
<1>. QED
  BY <1>3, <1>5, <1>6, <1>7 DEF QueueInv

-----------------------------------------------------------------------------
\* How many reports of a transfer are in the queue.
LEMMA ReportsFinite ==
  ASSUME TransferTypes, NEW x
  PROVE  IsFiniteSet(QueuedReports(x)) /\ Cardinality(QueuedReports(x)) \in Nat
<1>1. Len(queue) \in Nat
  BY QueuedMessages
<1>2. IsFiniteSet(1 .. Len(queue))
  BY <1>1, FS_Interval
<1>3. QueuedReports(x) \in SUBSET (1 .. Len(queue))
  BY DEF QueuedReports
<1>. QED
  BY <1>2, <1>3, FS_Subset, FS_CardinalityType

\* A message posted is one report more of its transfer, if it is no offer.
LEMMA ReportsPosted ==
  ASSUME TransferTypes, NEW kind \in Kinds, NEW x \in Xfers, Post(kind, x), NEW y \in Xfers
  PROVE  Cardinality(QueuedReports(y)') =
           Cardinality(QueuedReports(y)) + (IF y = x /\ kind # "ask" THEN 1 ELSE 0)
<1>1. /\ Len(queue') = Len(queue) + 1 /\ Len(queue) \in Nat
      /\ \A i \in 1 .. Len(queue) : queue'[i] = queue[i]
      /\ queue'[Len(queue) + 1] = Message(kind, x)
  BY PostQueue, QueuedMessages
<1>2. queue'[Len(queue) + 1].xfer = x /\ queue'[Len(queue) + 1].kind = kind
  BY <1>1 DEF Message
<1>3. 1 .. Len(queue') = 1 .. Len(queue) \cup {Len(queue) + 1}
  BY <1>1
<1>4. Len(queue) + 1 \notin QueuedReports(y)
  BY <1>1 DEF QueuedReports
<1>5. CASE y = x /\ kind # "ask"
  <2>1. QueuedReports(y)' = QueuedReports(y) \cup {Len(queue) + 1}
    BY <1>1, <1>2, <1>3, <1>5 DEF QueuedReports
  <2>. QED
    BY <1>4, <1>5, <2>1, ReportsFinite, FS_AddElement
<1>6. CASE ~(y = x /\ kind # "ask")
  <2>1. QueuedReports(y)' = QueuedReports(y)
    BY <1>1, <1>2, <1>3, <1>6 DEF QueuedReports
  <2>. QED
    BY <1>6, <2>1, ReportsFinite
<1>. QED
  BY <1>5, <1>6

\* The others move up by one.
LEMMA Shifted ==
  ASSUME NEW n \in Nat, NEW S \in SUBSET (2 .. n + 1)
  PROVE  Cardinality({i \in 1 .. n : i + 1 \in S}) = Cardinality(S)
<1>. DEFINE T == {i \in 1 .. n : i + 1 \in S}
            f == [i \in S |-> i - 1]
<1>1. IsFiniteSet(S)
  <2>1. IsFiniteSet(2 .. n + 1)
    <3>1. 2 \in Int /\ n + 1 \in Int
      OBVIOUS
    <3>. QED
      BY <3>1, FS_Interval
  <2>. QED
    BY <2>1, FS_Subset
<1>2. f \in [S -> T]
  OBVIOUS
<1>3. \A i, j \in S : f[i] = f[j] => i = j
  OBVIOUS
<1>4. ASSUME NEW t \in T PROVE \E i \in S : f[i] = t
  <2>1. t + 1 \in S /\ f[t + 1] = t
    OBVIOUS
  <2>. QED
    BY <2>1
<1>5. f \in Bijection(S, T)
  BY <1>2, <1>3, <1>4 DEF Bijection, Injection, Surjection, IsInjective
<1>. QED
  BY <1>1, <1>5, FS_Bijection DEF ExistsBijection

\* A message received is one report less of its transfer, if it is no offer.
LEMMA ReportsReceived ==
  ASSUME TransferTypes, NEW kind \in Kinds, NEW x \in Xfers, Received(kind, x), NEW y \in Xfers
  PROVE  /\ Cardinality(QueuedReports(y)') \in Nat
         /\ Cardinality(QueuedReports(y)) =
              Cardinality(QueuedReports(y)') + (IF y = x /\ kind # "ask" THEN 1 ELSE 0)
<1>1. /\ Len(queue') \in Nat /\ Len(queue) = Len(queue') + 1
      /\ \A i \in 1 .. Len(queue') : queue'[i] = queue[i + 1]
      /\ queue[1] = Message(kind, x)
  BY ReceivedQueue, QueuedMessages
<1>2. queue[1].xfer = x /\ queue[1].kind = kind
  BY <1>1 DEF Message
<1>. DEFINE S == QueuedReports(y) \ {1}
<1>3. S \in SUBSET (2 .. Len(queue') + 1)
  BY <1>1 DEF QueuedReports
<1>4. QueuedReports(y)' = {i \in 1 .. Len(queue') : i + 1 \in S}
  BY <1>1 DEF QueuedReports
<1>5. Cardinality(QueuedReports(y)') = Cardinality(S)
  <2>. HIDE DEF S
  <2>. QED
    BY <1>1, <1>3, <1>4, Shifted
<1>6. 1 \in QueuedReports(y) <=> y = x /\ kind # "ask"
  BY <1>1, <1>2 DEF QueuedReports
<1>7. /\ Cardinality(S) = IF 1 \in QueuedReports(y) THEN Cardinality(QueuedReports(y)) - 1
                             ELSE Cardinality(QueuedReports(y))
      /\ Cardinality(QueuedReports(y)) \in Nat /\ Cardinality(S) \in Nat
  BY ReportsFinite, FS_RemoveElement, FS_CardinalityType
<1>. HIDE DEF S
<1>8. CASE y = x /\ kind # "ask"
  BY <1>5, <1>6, <1>7, <1>8
<1>9. CASE ~(y = x /\ kind # "ask")
  BY <1>5, <1>6, <1>7, <1>9
<1>. QED
  BY <1>8, <1>9

\* A transfer that has not been posted has none.
LEMMA NoReports ==
  ASSUME TransferTypes, NEW x, \A i \in 1 .. Len(queue) : queue[i].xfer # x
  PROVE  Cardinality(QueuedReports(x)) = 0
<1>1. QueuedReports(x) = {}
  BY DEF QueuedReports
<1>. QED
  BY <1>1, FS_EmptySet

-----------------------------------------------------------------------------
\* The steps.  What concerns neither the queue nor the references:
RestInv ==
  IdInv /\ RemoteInv /\ NewInv /\ OfferInv /\ ShownInv /\ RecordInv /\ MappedInv

Asking == {"asked", "path", "unwritable"}

\* A step that starts, accepts, ends or shows a transfer that exists.
StatusStep(x) ==
  /\ \A y \in Xfers \ {x} : status'[y] = status[y] /\ shown'[y] = shown[y]
  /\ \A y \in Receives \ {x} : request'[y] = request[y]
  /\ UNCHANGED idVars
  /\ record' \subseteq record
  /\ m_mapFileTransfer' \subseteq m_mapFileTransfer
  /\ \A y \in m_mapFileTransfer \ m_mapFileTransfer' : ~Live(y)'
  /\ \A f \in Sends : picked'[f] \in {picked[f], NoXfer}
  /\ status[x] # "new" /\ status'[x] # "new"
  /\ status'[x] = "cancelRemote" => x \notin m_mapFileTransfer'
  /\ status[x] \in Final => status'[x] \in Final
  /\ \/ shown'[x] = shown[x]
     \/ shown[x] # "absent" /\ (shown'[x] \in Final => status'[x] \in Final)
  /\ x \in Receives =>
       /\ \/ request'[x] = request[x]
          \/ request[x] \in Asking /\ request'[x] \in Asking \cup {"answered", "denied"}
       /\ request[x] = "offered" => status'[x] = status[x]
       /\ request'[x] # "answered" => status'[x] \in {status[x], "cancelRemote"}

\* Such a step keeps all but the types, the queue and the references.
LEMMA StatusStepKeeps ==
  ASSUME TransferTypes, RestInv, NEW x \in Xfers, StatusStep(x)
  PROVE  RestInv'
<1>1. IdInv'
  BY DEF StatusStep, RestInv, IdInv, idVars
<1>2. RemoteInv'
  BY DEF StatusStep, RestInv, RemoteInv
<1>3. \A y \in Xfers : Untouched(y) => Untouched(y)'
  BY FileTransferAssumption DEF StatusStep, Untouched
<1>4. \A y \in Xfers : shown[y] = "absent" => shown'[y] = "absent"
  BY DEF StatusStep
<1>5. NewInv'
  <2>1. ASSUME NEW y \in Xfers, status'[y] = "new"
        PROVE  (Untouched(y) /\ shown[y] = "absent")' /\ (y \in Receives => request'[y] = "none")
    BY <1>3, <1>4, <2>1 DEF StatusStep, RestInv, NewInv
  <2>2. ASSUME NEW y \in Receives, request'[y] = "offered"
        PROVE  status'[y] = "notStarted" /\ Untouched(y)'
    <3>1. request[y] = "offered" /\ status'[y] = status[y] /\ y \in Xfers
      BY <2>2 DEF StatusStep, Asking, Xfers
    <3>. QED
      BY <1>3, <3>1 DEF RestInv, NewInv
  <2>. QED
    BY <2>1, <2>2 DEF NewInv, Xfers
<1>6. OfferInv'
  <2>. SUFFICES ASSUME NEW y \in Receives, request'[y] # "answered"
                PROVE  /\ status'[y] \in {"new", "notStarted", "cancelRemote"}
                       /\ shown'[y] = "absent"
    BY DEF OfferInv
  <2>1. request[y] # "answered" /\ status'[y] \in {status[y], "cancelRemote"} /\ y \in Xfers
    BY DEF StatusStep, Asking, Xfers
  <2>. QED
    BY <1>4, <2>1 DEF RestInv, OfferInv
<1>7. ShownInv'
  BY DEF StatusStep, RestInv, ShownInv
<1>8. RecordInv'
  BY DEF StatusStep, Asking, RestInv, RecordInv, TransferTypes
<1>9. MappedInv'
  <2>. SUFFICES ASSUME NEW y \in Xfers, Live(y)', y \in Receives => request'[y] # "offered"
                PROVE  y \in m_mapFileTransfer'
    BY DEF MappedInv
  <2>1. Live(y) /\ (y \in Receives => request[y] # "offered")
    BY DEF StatusStep, Live, Asking
  <2>2. y \in m_mapFileTransfer
    BY <2>1 DEF RestInv, MappedInv
  <2>. QED
    BY <2>2 DEF StatusStep
<1>. QED
  BY <1>1, <1>2, <1>5, <1>6, <1>7, <1>8, <1>9 DEF RestInv

\* SendFile keeps the invariant.
LEMMA SendFileInv ==
  ASSUME TransferInv, NEW x \in Sends, SendFile(x)
  PROVE  TransferInv'
<1>. USE DEF vars, libVars, idVars, requestVars, workerVars
<1>0. TransferTypes /\ RestInv /\ QueueInv /\ RefInv /\ x \in Xfers
  BY DEF TransferInv, RestInv, Xfers
<1>1. Post("init", x)
  BY DEF SendFile, SetStatus, AddPurpleXfer
<1>2. queue' \in Seq(Messages)
  BY <1>0, <1>1, PostQueue DEF Kinds
<1>3. TransferTypes'
  BY <1>0, FileTransferAssumption, <1>2
  DEF SendFile, SetStatus, AddPurpleXfer, FileSendFailed, PostedRefs, TransferTypes, Statuses
<1>4. RestInv'
  BY <1>0, FileTransferAssumption
  DEF SendFile, SetStatus, AddPurpleXfer, RestInv, IdInv, RemoteInv, NewInv, Untouched,
      OfferInv, ShownInv, RecordInv, MappedInv, Live, TransferTypes, Final
<1>5. QueueInv'
  <2>1. /\ Len(queue') = Len(queue) + 1 /\ Len(queue) \in Nat
        /\ \A i \in 1 .. Len(queue) : queue'[i] = queue[i] /\ queue[i].xfer \in Xfers
        /\ queue'[Len(queue) + 1] = Message("init", x)
    BY <1>0, <1>1, PostQueue, QueuedMessages DEF Kinds
  <2>2. \A i \in 1 .. Len(queue) : queue[i] # Message("init", x)
    BY <1>0 DEF SendFile, QueueInv, Message, TransferTypes
  <2>3. \A i \in 1 .. Len(queue') : i \in 1 .. Len(queue) \/ i = Len(queue) + 1
    BY <2>1
  <2>4. ASSUME NEW i \in 1 .. Len(queue'), NEW j \in 1 .. Len(queue'), queue'[i] = queue'[j],
               queue'[i].kind \in {"ask", "init"}
        PROVE  i = j
    BY <1>0, <2>1, <2>2, <2>3, <2>4 DEF QueueInv
  <2>5. ASSUME NEW i \in 1 .. Len(queue')
        PROVE  /\ status'[queue'[i].xfer] # "new"
               /\ queue'[i].kind = "ask" =>
                    queue'[i].xfer \in Receives /\ request'[queue'[i].xfer] = "posted"
               /\ queue'[i].kind = "init" =>
                    /\ shown'[queue'[i].xfer] = "absent"
                    /\ queue'[i].xfer \in Receives => request'[queue'[i].xfer] = "answered"
    <3>1. CASE i \in 1 .. Len(queue)
      BY <1>0, <2>1, <3>1
      DEF SendFile, SetStatus, QueueInv, TransferTypes
    <3>2. CASE i = Len(queue) + 1
      BY <1>0, <2>1, <3>2, FileTransferAssumption
      DEF SendFile, SetStatus, Message, TransferTypes, RestInv, NewInv
    <3>. QED
      BY <2>3, <3>1, <3>2
  <2>. QED
    BY <2>4, <2>5 DEF QueueInv
<1>6. Cardinality(QueuedReports(x)) = 0
  <2>1. \A i \in 1 .. Len(queue) : queue[i].xfer # x
    BY <1>0 DEF SendFile, QueueInv
  <2>. QED
    BY <1>0, <2>1, NoReports
<1>7. RefInv'
  <2>. SUFFICES ASSUME NEW y \in Xfers, Live(y)'
                PROVE  refs'[y] >= 1 + Holds(y)' + Cardinality(QueuedReports(y)')
    BY DEF RefInv
  <2>1. Cardinality(QueuedReports(y)') =
           Cardinality(QueuedReports(y)) + (IF y = x /\ "init" # "ask" THEN 1 ELSE 0)
    BY <1>0, <1>1, ReportsPosted DEF Kinds
  <2>2. Cardinality(QueuedReports(y)) \in Nat
    BY <1>0, ReportsFinite
  <2>. QED
    BY <1>0, FileTransferAssumption, <1>6, <2>1, <2>2
    DEF SendFile, SetStatus, RefInv, Live, Holds, PostedRefs, TransferTypes
<1>. QED
  BY <1>3, <1>4, <1>5, <1>7 DEF TransferInv, RestInv

\* AcceptFileAsync keeps the invariant.
LEMMA AcceptFileAsyncInv ==
  ASSUME TransferInv, NEW x \in Receives, AcceptFileAsync(x)
  PROVE  TransferInv'
<1>. USE DEF vars, libVars, idVars, requestVars, workerVars
<1>0. TransferTypes /\ RestInv /\ QueueInv /\ RefInv /\ x \in Xfers
  BY DEF TransferInv, RestInv, Xfers
<1>1. UNCHANGED queue
  BY DEF AcceptFileAsync
<1>2. TransferTypes'
  BY <1>0, FileTransferAssumption DEF AcceptFileAsync, PostedRefs, TransferTypes
<1>3. RestInv'
  BY <1>0, FileTransferAssumption
  DEF AcceptFileAsync, RestInv, IdInv, RemoteInv, NewInv, Untouched, OfferInv, ShownInv,
      RecordInv, MappedInv, Live, TransferTypes
<1>4. Keeps
  BY <1>0, FileTransferAssumption
  DEF AcceptFileAsync, Keeps, TransferTypes
<1>5. QueueInv'
  BY <1>0, <1>4, <1>1, QueueKept
<1>6. RefInv'
  <2>. SUFFICES ASSUME NEW y \in Xfers, Live(y)'
                PROVE  refs'[y] >= 1 + Holds(y)' + Cardinality(QueuedReports(y)')
    BY DEF RefInv
  <2>1. Cardinality(QueuedReports(y)') = Cardinality(QueuedReports(y))
    BY <1>1 DEF QueuedReports
  <2>2. Cardinality(QueuedReports(y)) \in Nat
    BY <1>0, ReportsFinite
  <2>. QED
    BY <1>0, FileTransferAssumption, <2>1, <2>2
    DEF AcceptFileAsync, RefInv, Live, Holds, TransferTypes
<1>. QED
  BY <1>2, <1>3, <1>5, <1>6 DEF TransferInv, RestInv

\* RejectFileAsync keeps the invariant.
LEMMA RejectFileAsyncInv ==
  ASSUME TransferInv, NEW x \in Receives, RejectFileAsync(x)
  PROVE  TransferInv'
<1>. USE DEF vars, libVars, idVars, requestVars, workerVars
<1>0. TransferTypes /\ RestInv /\ QueueInv /\ RefInv /\ x \in Xfers
  BY DEF TransferInv, RestInv, Xfers
<1>1. UNCHANGED queue
  BY DEF RejectFileAsync, SetStatus, RemovePurpleXfer
<1>2. TransferTypes'
  <2>1. /\ request' = [request EXCEPT ![x] = "answered"]
        /\ UNCHANGED <<idVars, file, record, workerVars, queue, shown>>
    BY DEF RejectFileAsync
  <2>2. /\ status' \in [Xfers -> Statuses \cup {"new"}] /\ refs' \in [Xfers -> Int]
        /\ m_mapFileTransfer' \subseteq Xfers
    <3>1. CASE status[x] # "cancelRemote"
      <4>1. /\ status' = [status EXCEPT ![x] = "cancelLocal"]
            /\ refs' = [refs EXCEPT ![x] = @ - 2]
            /\ m_mapFileTransfer' = m_mapFileTransfer \ {x}
        BY <3>1 DEF RejectFileAsync, SetStatus, RemovePurpleXfer
      <4>. QED
        BY <1>0, <4>1 DEF TransferTypes, Statuses, Final
    <3>2. CASE status[x] = "cancelRemote"
      BY <1>0, <3>2 DEF RejectFileAsync, TransferTypes
    <3>. QED
      BY <3>1, <3>2
  <2>. QED
    BY <1>0, <2>1, <2>2 DEF TransferTypes
<1>3. RestInv'
  <2>1. /\ \A y \in Xfers \ {x} : status'[y] = status[y] /\ shown'[y] = shown[y]
        /\ \A y \in Receives \ {x} : request'[y] = request[y]
        /\ UNCHANGED idVars
        /\ record' \subseteq record
        /\ m_mapFileTransfer' \subseteq m_mapFileTransfer
        /\ \A f \in Sends : picked'[f] \in {picked[f], NoXfer}
    BY <1>0, FileTransferAssumption
    DEF RejectFileAsync, SetStatus, RemovePurpleXfer, TransferTypes
  <2>2. status[x] # "new"
    BY <1>0, FileTransferAssumption
    DEF RejectFileAsync, RestInv, NewInv, TransferTypes
  <2>3. /\ status'[x] # "new"
        /\ status'[x] = "cancelRemote" => x \notin m_mapFileTransfer'
        /\ status[x] \in Final => status'[x] \in Final
        /\ \A y \in m_mapFileTransfer \ m_mapFileTransfer' : status'[y] \in Final
    BY <1>0, FileTransferAssumption, <2>2
    DEF RejectFileAsync, SetStatus, RemovePurpleXfer, RestInv, RemoteInv, TransferTypes, Final
  <2>4. \/ shown'[x] = shown[x]
        \/ shown[x] # "absent" /\ (shown'[x] \in Final => status'[x] \in Final)
    BY <1>0, FileTransferAssumption
    DEF RejectFileAsync, SetStatus, TransferTypes
  <2>5. x \in Receives =>
          /\ \/ request'[x] = request[x]
             \/ request[x] \in Asking /\ request'[x] \in Asking \cup {"answered", "denied"}
          /\ request[x] = "offered" => status'[x] = status[x]
          /\ request'[x] # "answered" => status'[x] \in {status[x], "cancelRemote"}
    BY <1>0, FileTransferAssumption
    DEF Asking, RejectFileAsync, SetStatus, TransferTypes
  <2>6. StatusStep(x)
    BY <2>1, <2>2, <2>3, <2>4, <2>5 DEF StatusStep, Live
  <2>. QED
    BY <1>0, <2>6, StatusStepKeeps
<1>4. Keeps
  BY <1>0, FileTransferAssumption
  DEF RejectFileAsync, SetStatus, Keeps, TransferTypes
<1>5. QueueInv'
  BY <1>0, <1>4, <1>1, QueueKept
<1>6. RefInv'
  <2>. SUFFICES ASSUME NEW y \in Xfers, Live(y)'
                PROVE  refs'[y] >= 1 + Holds(y)' + Cardinality(QueuedReports(y)')
    BY DEF RefInv
  <2>1. Cardinality(QueuedReports(y)') = Cardinality(QueuedReports(y))
    BY <1>1 DEF QueuedReports
  <2>2. Cardinality(QueuedReports(y)) \in Nat
    BY <1>0, ReportsFinite
  <2>. QED
    BY <1>0, FileTransferAssumption, <2>1, <2>2
    DEF RejectFileAsync, SetStatus, RefInv, Live, Holds, TransferTypes, Final
<1>. QED
  BY <1>2, <1>3, <1>5, <1>6 DEF TransferInv, RestInv

\* CloseConversation keeps the invariant.
LEMMA CloseConversationInv ==
  ASSUME TransferInv, NEW x \in Receives, CloseConversation(x)
  PROVE  TransferInv'
<1>. USE DEF vars, libVars, idVars, requestVars, workerVars
<1>0. TransferTypes /\ RestInv /\ QueueInv /\ RefInv /\ x \in Xfers
  BY DEF TransferInv, RestInv, Xfers
<1>1. Live(x) => refs[x] >= 2
  <2>1. Cardinality(QueuedReports(x)) \in Nat /\ Holds(x) = 1
    BY <1>0, ReportsFinite DEF CloseConversation, Holds
  <2>. QED
    BY <1>0, <2>1 DEF RefInv, TransferTypes
<1>2. UNCHANGED queue
  BY DEF CloseConversation, Unref, RemovePurpleXfer
<1>3. TransferTypes'
  BY <1>0, FileTransferAssumption, <1>1
  DEF CloseConversation, Unref, RemovePurpleXfer, TransferTypes
<1>4. RestInv'
  BY <1>0, FileTransferAssumption, <1>1
  DEF CloseConversation, Unref, RemovePurpleXfer, RestInv, IdInv, RemoteInv, NewInv, Untouched,
      OfferInv, ShownInv, RecordInv, MappedInv, Live, TransferTypes
<1>5. Keeps
  BY <1>0, FileTransferAssumption, <1>1
  DEF CloseConversation, Keeps, TransferTypes
<1>6. QueueInv'
  BY <1>0, <1>5, <1>2, QueueKept
<1>7. RefInv'
  <2>. SUFFICES ASSUME NEW y \in Xfers, Live(y)'
                PROVE  refs'[y] >= 1 + Holds(y)' + Cardinality(QueuedReports(y)')
    BY DEF RefInv
  <2>1. Cardinality(QueuedReports(y)') = Cardinality(QueuedReports(y))
    BY <1>2 DEF QueuedReports
  <2>2. Cardinality(QueuedReports(y)) \in Nat
    BY <1>0, ReportsFinite
  <2>3. Live(y) /\ refs'[y] = IF y = x THEN refs[y] - 1 ELSE refs[y]
    BY <1>0 DEF CloseConversation, Unref, Live, TransferTypes
  <2>4. Holds(x) = 1 /\ Holds(x)' = 0
    BY <1>0 DEF CloseConversation, Holds, RestInv, RecordInv
  <2>5. y # x => Holds(y)' = Holds(y)
    BY DEF CloseConversation, Holds
  <2>. QED
    BY <1>0, <2>1, <2>2, <2>3, <2>4, <2>5 DEF RefInv, TransferTypes
<1>. QED
  BY <1>3, <1>4, <1>6, <1>7 DEF TransferInv, RestInv

\* CancelFileTransfer keeps the invariant.
LEMMA CancelFileTransferInv ==
  ASSUME TransferInv, NEW x \in Xfers, CancelFileTransfer(x)
  PROVE  TransferInv'
<1>. USE DEF vars, libVars, idVars, requestVars, workerVars
<1>0. TransferTypes /\ RestInv /\ QueueInv /\ RefInv /\ x \in Xfers
  BY DEF TransferInv, RestInv, Xfers
<1>1. UNCHANGED queue
  BY DEF CancelFileTransfer, CancelLocal, SetStatus
<1>2. TransferTypes'
  <2>1. CASE x \in m_mapFileTransfer
    <3>1. /\ status' = [status EXCEPT ![x] = "cancelLocal"]
          /\ refs' = [refs EXCEPT ![x] = @ - 1]
          /\ shown' = [shown EXCEPT ![x] = "cancelLocal"]
          /\ m_mapFileTransfer' \subseteq m_mapFileTransfer
      BY <2>1 DEF CancelFileTransfer, CancelLocal, SetStatus, Unref, RemovePurpleXfer
    <3>2. refs' \in [Xfers -> Int]
      BY <1>0, <3>1 DEF TransferTypes
    <3>3. UNCHANGED <<idVars, file, requestVars, workerVars, queue>>
      BY DEF CancelFileTransfer
    <3>. QED
      BY <1>0, <3>1, <3>2, <3>3 DEF TransferTypes, Statuses, Final
  <2>2. CASE x \notin m_mapFileTransfer
    BY <1>0, <2>2 DEF CancelFileTransfer, TransferTypes, Statuses, Final
  <2>. QED
    BY <2>1, <2>2
<1>3. RestInv'
  <2>1. /\ \A y \in Xfers \ {x} : status'[y] = status[y] /\ shown'[y] = shown[y]
        /\ \A y \in Receives \ {x} : request'[y] = request[y]
        /\ UNCHANGED idVars
        /\ record' \subseteq record
        /\ m_mapFileTransfer' \subseteq m_mapFileTransfer
        /\ \A f \in Sends : picked'[f] \in {picked[f], NoXfer}
    BY <1>0, FileTransferAssumption
    DEF CancelFileTransfer, CancelLocal, SetStatus, Unref, RemovePurpleXfer, TransferTypes
  <2>2. status[x] # "new"
    BY <1>0, FileTransferAssumption
    DEF CancelFileTransfer, RestInv, NewInv, TransferTypes
  <2>3. /\ status'[x] # "new"
        /\ status'[x] = "cancelRemote" => x \notin m_mapFileTransfer'
        /\ status[x] \in Final => status'[x] \in Final
        /\ \A y \in m_mapFileTransfer \ m_mapFileTransfer' : status'[y] \in Final
    BY <1>0, FileTransferAssumption, <2>2
    DEF CancelFileTransfer, CancelLocal, SetStatus, Unref, RemovePurpleXfer, TransferTypes,
        Final
  <2>4. \/ shown'[x] = shown[x]
        \/ shown[x] # "absent" /\ (shown'[x] \in Final => status'[x] \in Final)
    BY <1>0, FileTransferAssumption
    DEF CancelFileTransfer, CancelLocal, SetStatus, RestInv, NewInv, OfferInv, MappedInv, Live,
        TransferTypes
  <2>5. x \in Receives =>
          /\ \/ request'[x] = request[x]
             \/ request[x] \in Asking /\ request'[x] \in Asking \cup {"answered", "denied"}
          /\ request[x] = "offered" => status'[x] = status[x]
          /\ request'[x] # "answered" => status'[x] \in {status[x], "cancelRemote"}
    BY <1>0, FileTransferAssumption
    DEF CancelFileTransfer, RestInv, OfferInv, TransferTypes
  <2>6. StatusStep(x)
    BY <2>1, <2>2, <2>3, <2>4, <2>5 DEF StatusStep, Live
  <2>. QED
    BY <1>0, <2>6, StatusStepKeeps
<1>4. Keeps
  BY <1>0, FileTransferAssumption
  DEF CancelFileTransfer, CancelLocal, SetStatus, Keeps, TransferTypes
<1>5. QueueInv'
  BY <1>0, <1>4, <1>1, QueueKept
<1>6. RefInv'
  <2>. SUFFICES ASSUME NEW y \in Xfers, Live(y)'
                PROVE  refs'[y] >= 1 + Holds(y)' + Cardinality(QueuedReports(y)')
    BY DEF RefInv
  <2>1. Cardinality(QueuedReports(y)') = Cardinality(QueuedReports(y))
    BY <1>1 DEF QueuedReports
  <2>2. Holds(y)' = Holds(y)
    BY DEF CancelFileTransfer, Holds
  <2>3. Live(y) /\ refs'[y] = refs[y]
    <3>1. CASE x \in m_mapFileTransfer
      <4>1. y # x
        BY <1>0, <3>1 DEF CancelFileTransfer, CancelLocal, SetStatus, Live, Final, TransferTypes
      <4>. QED
        BY <1>0, <3>1, <4>1
        DEF CancelFileTransfer, CancelLocal, SetStatus, Unref, Live, TransferTypes
    <3>2. CASE x \notin m_mapFileTransfer
      BY <3>2 DEF CancelFileTransfer, Live
    <3>. QED
      BY <3>1, <3>2
  <2>. QED
    BY <1>0, <2>1, <2>2, <2>3 DEF RefInv
<1>. QED
  BY <1>2, <1>3, <1>5, <1>6 DEF TransferInv, RestInv

\* NotifyRequestFileTransferAsync keeps the invariant.
LEMMA NotifyRequestFileTransferAsyncInv ==
  ASSUME TransferInv, NEW x \in Receives, NotifyRequestFileTransferAsync(x)
  PROVE  TransferInv'
<1>. USE DEF vars, libVars, idVars, requestVars, workerVars
<1>0. TransferTypes /\ RestInv /\ QueueInv /\ RefInv /\ x \in Xfers
  BY DEF TransferInv, RestInv, Xfers
<1>1. Received("ask", x)
  BY DEF NotifyRequestFileTransferAsync
<1>2. queue' \in Seq(Messages)
  BY <1>0, <1>1, ReceivedQueue DEF Kinds
<1>3. 1 \in 1 .. Len(queue) /\ queue[1].kind = "ask" /\ queue[1].xfer = x
  <2>1. Len(queue) \in Nat /\ Len(queue) > 0 /\ queue[1] = Message("ask", x)
    BY <1>0, <1>1, ReceivedQueue, QueuedMessages DEF Kinds
  <2>. QED
    BY <2>1 DEF Message
<1>4. status[x] # "new" /\ request[x] = "posted"
  BY <1>0, <1>3 DEF QueueInv
<1>5. TransferTypes'
  BY <1>0, FileTransferAssumption, <1>2, <1>4
  DEF NotifyRequestFileTransferAsync, PostedRefs, TransferTypes
<1>6. RestInv'
  BY <1>0, FileTransferAssumption, <1>4
  DEF NotifyRequestFileTransferAsync, RestInv, IdInv, RemoteInv, NewInv, Untouched, OfferInv,
      ShownInv, RecordInv, MappedInv, Live, TransferTypes
<1>7. QueueInv'
  <2>1. /\ \A y \in Xfers : status[y] # "new" => status'[y] # "new"
        /\ \A y \in Xfers \ {x} : shown[y] = "absent" => shown'[y] = "absent"
        /\ shown[x] = "absent" => "ask" = "init" \/ shown'[x] = "absent"
        /\ \A y \in Receives \ {x} : request[y] = "posted" => request'[y] = "posted"
        /\ x \in Receives /\ request[x] = "posted" => "ask" = "ask" \/ request'[x] = "posted"
        /\ \A y \in Receives : request[y] = "answered" => request'[y] = "answered"
    BY <1>0, <1>4 DEF NotifyRequestFileTransferAsync, TransferTypes
  <2>. QED
    BY <1>0, <1>1, <2>1, QueueReceived DEF Kinds
<1>8. RefInv'
  <2>. SUFFICES ASSUME NEW y \in Xfers, Live(y)'
                PROVE  refs'[y] >= 1 + Holds(y)' + Cardinality(QueuedReports(y)')
    BY DEF RefInv
  <2>1. /\ Cardinality(QueuedReports(y)) =
             Cardinality(QueuedReports(y)') + (IF y = x /\ "ask" # "ask" THEN 1 ELSE 0)
        /\ Cardinality(QueuedReports(y)') \in Nat
    BY <1>0, <1>1, ReportsReceived DEF Kinds
  <2>2. Cardinality(QueuedReports(y)) \in Nat
    BY <1>0, ReportsFinite
  <2>. QED
    BY <1>0, FileTransferAssumption, <1>4, <2>1, <2>2
    DEF NotifyRequestFileTransferAsync, RefInv, Live, Holds, TransferTypes
<1>. QED
  BY <1>5, <1>6, <1>7, <1>8 DEF TransferInv, RestInv

\* NotifyFileTransferInit keeps the invariant.
LEMMA NotifyFileTransferInitInv ==
  ASSUME TransferInv, NEW x \in Xfers, NotifyFileTransferInit(x)
  PROVE  TransferInv'
<1>. USE DEF vars, libVars, idVars, requestVars, workerVars
<1>0. TransferTypes /\ RestInv /\ QueueInv /\ RefInv /\ x \in Xfers
  BY DEF TransferInv, RestInv, Xfers
<1>1. Received("init", x)
  BY DEF NotifyFileTransferInit
<1>2. queue' \in Seq(Messages)
  BY <1>0, <1>1, ReceivedQueue DEF Kinds
<1>3. 1 \in 1 .. Len(queue) /\ queue[1].kind = "init" /\ queue[1].xfer = x
  <2>1. Len(queue) \in Nat /\ Len(queue) > 0 /\ queue[1] = Message("init", x)
    BY <1>0, <1>1, ReceivedQueue, QueuedMessages DEF Kinds
  <2>. QED
    BY <2>1 DEF Message
<1>4. status[x] # "new" /\ shown[x] = "absent" /\ (x \in Receives => request[x] = "answered")
  BY <1>0, <1>3 DEF QueueInv
<1>5. TransferTypes'
  BY <1>0, FileTransferAssumption, <1>2, <1>4
  DEF NotifyFileTransferInit, Unref, RemovePurpleXfer, TransferTypes, Statuses
<1>6. Live(x) => refs[x] >= 2
  <2>1. /\ Cardinality(QueuedReports(x)) = Cardinality(QueuedReports(x)') + 1
        /\ Cardinality(QueuedReports(x)') \in Nat
    BY <1>0, <1>1, ReportsReceived DEF Kinds
  <2>2. Holds(x) \in Nat
    BY DEF Holds
  <2>. QED
    BY <1>0, <2>1, <2>2 DEF RefInv, TransferTypes
<1>7. RestInv'
  BY <1>0, FileTransferAssumption, <1>4, <1>6
  DEF NotifyFileTransferInit, Unref, RemovePurpleXfer, RestInv, IdInv, RemoteInv, NewInv,
      Untouched, OfferInv, ShownInv, RecordInv, MappedInv, Live, TransferTypes, Final
<1>8. QueueInv'
  <2>1. /\ \A y \in Xfers : status[y] # "new" => status'[y] # "new"
        /\ \A y \in Xfers \ {x} : shown[y] = "absent" => shown'[y] = "absent"
        /\ shown[x] = "absent" => "init" = "init" \/ shown'[x] = "absent"
        /\ \A y \in Receives \ {x} : request[y] = "posted" => request'[y] = "posted"
        /\ x \in Receives /\ request[x] = "posted" => "init" = "ask" \/ request'[x] = "posted"
        /\ \A y \in Receives : request[y] = "answered" => request'[y] = "answered"
    BY <1>0, <1>4 DEF NotifyFileTransferInit, Unref, TransferTypes
  <2>. QED
    BY <1>0, <1>1, <2>1, QueueReceived DEF Kinds
<1>9. RefInv'
  <2>. SUFFICES ASSUME NEW y \in Xfers, Live(y)'
                PROVE  refs'[y] >= 1 + Holds(y)' + Cardinality(QueuedReports(y)')
    BY DEF RefInv
  <2>1. /\ Cardinality(QueuedReports(y)) =
             Cardinality(QueuedReports(y)') + (IF y = x /\ "init" # "ask" THEN 1 ELSE 0)
        /\ Cardinality(QueuedReports(y)') \in Nat
    BY <1>0, <1>1, ReportsReceived DEF Kinds
  <2>2. Cardinality(QueuedReports(y)) \in Nat
    BY <1>0, ReportsFinite
  <2>. QED
    BY <1>0, FileTransferAssumption, <1>4, <2>1, <2>2
    DEF NotifyFileTransferInit, Unref, RefInv, Live, Holds, TransferTypes
<1>. QED
  BY <1>5, <1>7, <1>8, <1>9 DEF TransferInv, RestInv

\* NotifyFileTransferUpdateProgress keeps the invariant.
LEMMA NotifyFileTransferUpdateProgressInv ==
  ASSUME TransferInv, NEW x \in Xfers, NotifyFileTransferUpdateProgress(x)
  PROVE  TransferInv'
<1>. USE DEF vars, libVars, idVars, requestVars, workerVars
<1>0. TransferTypes /\ RestInv /\ QueueInv /\ RefInv /\ x \in Xfers
  BY DEF TransferInv, RestInv, Xfers
<1>1. Received("progress", x)
  BY DEF NotifyFileTransferUpdateProgress
<1>2. queue' \in Seq(Messages)
  BY <1>0, <1>1, ReceivedQueue DEF Kinds
<1>3. 1 \in 1 .. Len(queue) /\ queue[1].kind = "progress" /\ queue[1].xfer = x
  <2>1. Len(queue) \in Nat /\ Len(queue) > 0 /\ queue[1] = Message("progress", x)
    BY <1>0, <1>1, ReceivedQueue, QueuedMessages DEF Kinds
  <2>. QED
    BY <2>1 DEF Message
<1>4. status[x] # "new"
  BY <1>0, <1>3 DEF QueueInv
<1>5. TransferTypes'
  BY <1>0, FileTransferAssumption, <1>2, <1>4
  DEF NotifyFileTransferUpdateProgress, Unref, RemovePurpleXfer, TransferTypes
<1>6. Live(x) => refs[x] >= 2
  <2>1. /\ Cardinality(QueuedReports(x)) = Cardinality(QueuedReports(x)') + 1
        /\ Cardinality(QueuedReports(x)') \in Nat
    BY <1>0, <1>1, ReportsReceived DEF Kinds
  <2>2. Holds(x) \in Nat
    BY DEF Holds
  <2>. QED
    BY <1>0, <2>1, <2>2 DEF RefInv, TransferTypes
<1>7. RestInv'
  BY <1>0, FileTransferAssumption, <1>4, <1>6
  DEF NotifyFileTransferUpdateProgress, Unref, RemovePurpleXfer, RestInv, IdInv, RemoteInv,
      NewInv, Untouched, OfferInv, ShownInv, RecordInv, MappedInv, Live, TransferTypes
<1>8. QueueInv'
  <2>1. /\ \A y \in Xfers : status[y] # "new" => status'[y] # "new"
        /\ \A y \in Xfers \ {x} : shown[y] = "absent" => shown'[y] = "absent"
        /\ shown[x] = "absent" => "progress" = "init" \/ shown'[x] = "absent"
        /\ \A y \in Receives \ {x} : request[y] = "posted" => request'[y] = "posted"
        /\ x \in Receives /\ request[x] = "posted" => "progress" = "ask" \/ request'[x] = "posted"
        /\ \A y \in Receives : request[y] = "answered" => request'[y] = "answered"
    BY <1>0, <1>4 DEF NotifyFileTransferUpdateProgress, Unref, TransferTypes
  <2>. QED
    BY <1>0, <1>1, <2>1, QueueReceived DEF Kinds
<1>9. RefInv'
  <2>. SUFFICES ASSUME NEW y \in Xfers, Live(y)'
                PROVE  refs'[y] >= 1 + Holds(y)' + Cardinality(QueuedReports(y)')
    BY DEF RefInv
  <2>1. /\ Cardinality(QueuedReports(y)) =
             Cardinality(QueuedReports(y)') + (IF y = x /\ "progress" # "ask" THEN 1 ELSE 0)
        /\ Cardinality(QueuedReports(y)') \in Nat
    BY <1>0, <1>1, ReportsReceived DEF Kinds
  <2>2. Cardinality(QueuedReports(y)) \in Nat
    BY <1>0, ReportsFinite
  <2>. QED
    BY <1>0, FileTransferAssumption, <1>4, <2>1, <2>2
    DEF NotifyFileTransferUpdateProgress, Unref, RefInv, Live, Holds, TransferTypes
<1>. QED
  BY <1>5, <1>7, <1>8, <1>9 DEF TransferInv, RestInv

\* NotifyFileTransferCanceled keeps the invariant.
LEMMA NotifyFileTransferCanceledInv ==
  ASSUME TransferInv, NEW x \in Xfers, NotifyFileTransferCanceled(x)
  PROVE  TransferInv'
<1>. USE DEF vars, libVars, idVars, requestVars, workerVars
<1>0. TransferTypes /\ RestInv /\ QueueInv /\ RefInv /\ x \in Xfers
  BY DEF TransferInv, RestInv, Xfers
<1>1. Received("canceled", x)
  BY DEF NotifyFileTransferCanceled
<1>2. queue' \in Seq(Messages)
  BY <1>0, <1>1, ReceivedQueue DEF Kinds
<1>3. 1 \in 1 .. Len(queue) /\ queue[1].kind = "canceled" /\ queue[1].xfer = x
  <2>1. Len(queue) \in Nat /\ Len(queue) > 0 /\ queue[1] = Message("canceled", x)
    BY <1>0, <1>1, ReceivedQueue, QueuedMessages DEF Kinds
  <2>. QED
    BY <2>1 DEF Message
<1>4. status[x] # "new"
  BY <1>0, <1>3 DEF QueueInv
<1>5. TransferTypes'
  BY <1>0, FileTransferAssumption, <1>2, <1>4
  DEF NotifyFileTransferCanceled, Unref, RemovePurpleXfer, TransferTypes
<1>6. Live(x) => refs[x] >= 2
  <2>1. /\ Cardinality(QueuedReports(x)) = Cardinality(QueuedReports(x)') + 1
        /\ Cardinality(QueuedReports(x)') \in Nat
    BY <1>0, <1>1, ReportsReceived DEF Kinds
  <2>2. Holds(x) \in Nat
    BY DEF Holds
  <2>. QED
    BY <1>0, <2>1, <2>2 DEF RefInv, TransferTypes
<1>7. RestInv'
  BY <1>0, FileTransferAssumption, <1>4, <1>6
  DEF NotifyFileTransferCanceled, Unref, RemovePurpleXfer, RestInv, IdInv, RemoteInv, NewInv,
      Untouched, OfferInv, ShownInv, RecordInv, MappedInv, Live, TransferTypes
<1>8. QueueInv'
  <2>1. /\ \A y \in Xfers : status[y] # "new" => status'[y] # "new"
        /\ \A y \in Xfers \ {x} : shown[y] = "absent" => shown'[y] = "absent"
        /\ shown[x] = "absent" => "canceled" = "init" \/ shown'[x] = "absent"
        /\ \A y \in Receives \ {x} : request[y] = "posted" => request'[y] = "posted"
        /\ x \in Receives /\ request[x] = "posted" => "canceled" = "ask" \/ request'[x] = "posted"
        /\ \A y \in Receives : request[y] = "answered" => request'[y] = "answered"
    BY <1>0, <1>4 DEF NotifyFileTransferCanceled, Unref, TransferTypes
  <2>. QED
    BY <1>0, <1>1, <2>1, QueueReceived DEF Kinds
<1>9. RefInv'
  <2>. SUFFICES ASSUME NEW y \in Xfers, Live(y)'
                PROVE  refs'[y] >= 1 + Holds(y)' + Cardinality(QueuedReports(y)')
    BY DEF RefInv
  <2>1. /\ Cardinality(QueuedReports(y)) =
             Cardinality(QueuedReports(y)') + (IF y = x /\ "canceled" # "ask" THEN 1 ELSE 0)
        /\ Cardinality(QueuedReports(y)') \in Nat
    BY <1>0, <1>1, ReportsReceived DEF Kinds
  <2>2. Cardinality(QueuedReports(y)) \in Nat
    BY <1>0, ReportsFinite
  <2>. QED
    BY <1>0, FileTransferAssumption, <1>4, <2>1, <2>2
    DEF NotifyFileTransferCanceled, Unref, RefInv, Live, Holds, TransferTypes
<1>. QED
  BY <1>5, <1>7, <1>8, <1>9 DEF TransferInv, RestInv

\* OfferFile keeps the invariant.
LEMMA OfferFileInv ==
  ASSUME TransferInv, NEW x \in Receives, OfferFile(x)
  PROVE  TransferInv'
<1>. USE DEF vars, libVars, idVars, requestVars, workerVars
<1>0. TransferTypes /\ RestInv /\ QueueInv /\ RefInv /\ x \in Xfers
  BY DEF TransferInv, RestInv, Xfers
<1>1. Cardinality(QueuedReports(x)) = 0
  <2>1. \A i \in 1 .. Len(queue) : queue[i].xfer # x
    BY <1>0 DEF OfferFile, QueueInv
  <2>. QED
    BY <1>0, <2>1, NoReports
<1>2. UNCHANGED queue
  BY DEF OfferFile, SetStatus
<1>3. TransferTypes'
  BY <1>0, FileTransferAssumption, <1>1
  DEF OfferFile, SetStatus, TransferTypes, Statuses
<1>4. RestInv'
  BY <1>0, FileTransferAssumption, <1>1
  DEF OfferFile, SetStatus, RestInv, IdInv, RemoteInv, NewInv, Untouched, OfferInv, ShownInv,
      RecordInv, MappedInv, Live, TransferTypes, Final
<1>5. Keeps
  BY <1>0, FileTransferAssumption, <1>1
  DEF OfferFile, SetStatus, Keeps, RestInv, NewInv, TransferTypes
<1>6. QueueInv'
  BY <1>0, <1>5, <1>2, QueueKept
<1>7. RefInv'
  <2>. SUFFICES ASSUME NEW y \in Xfers, Live(y)'
                PROVE  refs'[y] >= 1 + Holds(y)' + Cardinality(QueuedReports(y)')
    BY DEF RefInv
  <2>1. Cardinality(QueuedReports(y)') = Cardinality(QueuedReports(y))
    BY <1>2 DEF QueuedReports
  <2>2. Cardinality(QueuedReports(y)) \in Nat
    BY <1>0, ReportsFinite
  <2>. QED
    BY <1>0, FileTransferAssumption, <1>1, <2>1, <2>2
    DEF OfferFile, SetStatus, RefInv, Live, Holds, TransferTypes
<1>. QED
  BY <1>3, <1>4, <1>6, <1>7 DEF TransferInv, RestInv

\* ClientAnswers keeps the invariant.
LEMMA ClientAnswersInv ==
  ASSUME TransferInv, NEW x \in Sends, ClientAnswers(x)
  PROVE  TransferInv'
<1>. USE DEF vars, libVars, idVars, requestVars, workerVars
<1>0. TransferTypes /\ RestInv /\ QueueInv /\ RefInv /\ x \in Xfers
  BY DEF TransferInv, RestInv, Xfers
<1>1. UNCHANGED queue
  BY DEF ClientAnswers, FileSendFailed
<1>2. TransferTypes'
  BY <1>0, FileTransferAssumption
  DEF ClientAnswers, FileSendFailed, TransferTypes
<1>3. RestInv'
  BY <1>0, FileTransferAssumption
  DEF ClientAnswers, RestInv, IdInv, RemoteInv, NewInv, Untouched, OfferInv, ShownInv,
      RecordInv, MappedInv, Live, TransferTypes
<1>4. Keeps
  BY <1>0, FileTransferAssumption
  DEF ClientAnswers, Keeps, TransferTypes
<1>5. QueueInv'
  BY <1>0, <1>4, <1>1, QueueKept
<1>6. RefInv'
  <2>. SUFFICES ASSUME NEW y \in Xfers, Live(y)'
                PROVE  refs'[y] >= 1 + Holds(y)' + Cardinality(QueuedReports(y)')
    BY DEF RefInv
  <2>1. Cardinality(QueuedReports(y)') = Cardinality(QueuedReports(y))
    BY <1>1 DEF QueuedReports
  <2>2. Cardinality(QueuedReports(y)) \in Nat
    BY <1>0, ReportsFinite
  <2>. QED
    BY <1>0, FileTransferAssumption, <2>1, <2>2
    DEF ClientAnswers, RefInv, Live, Holds, TransferTypes
<1>. QED
  BY <1>2, <1>3, <1>5, <1>6 DEF TransferInv, RestInv

\* StartTransfer keeps the invariant.
LEMMA StartTransferInv ==
  ASSUME TransferInv, NEW x \in Xfers, StartTransfer(x)
  PROVE  TransferInv'
<1>. USE DEF vars, libVars, idVars, requestVars, workerVars
<1>0. TransferTypes /\ RestInv /\ QueueInv /\ RefInv /\ x \in Xfers
  BY DEF TransferInv, RestInv, Xfers
<1>1. UNCHANGED queue
  BY DEF StartTransfer, Negotiated, Running, SetStatus
<1>2. TransferTypes'
  BY <1>0, FileTransferAssumption
  DEF StartTransfer, SetStatus, TransferTypes, Statuses
<1>3. RestInv'
  BY <1>0, FileTransferAssumption
  DEF StartTransfer, Negotiated, Running, SetStatus, RestInv, IdInv, RemoteInv, NewInv,
    Untouched, OfferInv,
      ShownInv, RecordInv, MappedInv, Live, TransferTypes, Final
<1>4. Keeps
  BY <1>0, FileTransferAssumption
  DEF StartTransfer, SetStatus, Keeps, TransferTypes
<1>5. QueueInv'
  BY <1>0, <1>4, <1>1, QueueKept
<1>6. RefInv'
  <2>. SUFFICES ASSUME NEW y \in Xfers, Live(y)'
                PROVE  refs'[y] >= 1 + Holds(y)' + Cardinality(QueuedReports(y)')
    BY DEF RefInv
  <2>1. Cardinality(QueuedReports(y)') = Cardinality(QueuedReports(y))
    BY <1>1 DEF QueuedReports
  <2>2. Cardinality(QueuedReports(y)) \in Nat
    BY <1>0, ReportsFinite
  <2>. QED
    BY <1>0, FileTransferAssumption, <2>1, <2>2
    DEF StartTransfer, Negotiated, Running, SetStatus, RefInv, Live, Holds, TransferTypes, Final
<1>. QED
  BY <1>2, <1>3, <1>5, <1>6 DEF TransferInv, RestInv

\* TransferBytes keeps the invariant.
LEMMA TransferBytesInv ==
  ASSUME TransferInv, NEW x \in Xfers, TransferBytes(x)
  PROVE  TransferInv'
<1>. USE DEF vars, libVars, idVars, requestVars, workerVars
<1>0. TransferTypes /\ RestInv /\ QueueInv /\ RefInv /\ x \in Xfers
  BY DEF TransferInv, RestInv, Xfers
<1>1. Post("progress", x)
  BY DEF TransferBytes
<1>2. queue' \in Seq(Messages)
  BY <1>0, <1>1, PostQueue DEF Kinds
<1>3. TransferTypes'
  BY <1>0, FileTransferAssumption, <1>2
  DEF TransferBytes, PostedRefs, TransferTypes
<1>4. RestInv'
  BY <1>0, FileTransferAssumption
  DEF TransferBytes, RestInv, IdInv, RemoteInv, NewInv, Untouched, OfferInv, ShownInv,
      RecordInv, MappedInv, Live, TransferTypes
<1>5. Keeps
  BY <1>0, FileTransferAssumption
  DEF TransferBytes, Keeps, TransferTypes
<1>6. status[x] # "new"
  BY <1>0
  DEF TransferBytes, RestInv, TransferTypes
<1>7. QueueInv'
  BY <1>0, <1>5, <1>1, <1>6, QueueReported
<1>8. RefInv'
  <2>. SUFFICES ASSUME NEW y \in Xfers, Live(y)'
                PROVE  refs'[y] >= 1 + Holds(y)' + Cardinality(QueuedReports(y)')
    BY DEF RefInv
  <2>1. Cardinality(QueuedReports(y)') =
           Cardinality(QueuedReports(y)) + (IF y = x /\ "progress" # "ask" THEN 1 ELSE 0)
    BY <1>0, <1>1, ReportsPosted DEF Kinds
  <2>2. Cardinality(QueuedReports(y)) \in Nat
    BY <1>0, ReportsFinite
  <2>. QED
    BY <1>0, FileTransferAssumption, <2>1, <2>2
    DEF TransferBytes, RefInv, Live, Holds, PostedRefs, TransferTypes
<1>. QED
  BY <1>3, <1>4, <1>7, <1>8 DEF TransferInv, RestInv

\* CompleteTransfer keeps the invariant.
LEMMA CompleteTransferInv ==
  ASSUME TransferInv, NEW x \in Xfers, CompleteTransfer(x)
  PROVE  TransferInv'
<1>. USE DEF vars, libVars, idVars, requestVars, workerVars
<1>0. TransferTypes /\ RestInv /\ QueueInv /\ RefInv /\ x \in Xfers
  BY DEF TransferInv, RestInv, Xfers
<1>1. queue' \in Seq(Messages)
  BY <1>0, CompletedQueue
<1>2. TransferTypes'
  BY <1>0, FileTransferAssumption, <1>1
  DEF CompleteTransfer, SetStatus, PostedRefs, TransferTypes, Statuses, Final
<1>3. RestInv'
  BY <1>0, FileTransferAssumption
  DEF CompleteTransfer, SetStatus, RestInv, IdInv, RemoteInv, NewInv, Untouched, OfferInv,
      ShownInv, RecordInv, MappedInv, Live, TransferTypes, Final
<1>4. Keeps
  BY <1>0, FileTransferAssumption
  DEF CompleteTransfer, SetStatus, Keeps, TransferTypes
<1>5. QueueInv'
  <2>1. /\ Len(queue') = Len(queue) + 2 /\ Len(queue) \in Nat
        /\ \A i \in 1 .. Len(queue) : queue'[i] = queue[i] /\ queue[i].xfer \in Xfers
        /\ \A i \in Len(queue) + 1 .. Len(queue) + 2 : queue'[i] = Message("progress", x)
    BY <1>0, CompletedQueue, QueuedMessages
  <2>2. \A i \in Len(queue) + 1 .. Len(queue) + 2 : queue'[i].kind = "progress" /\ queue'[i].xfer = x
    BY <2>1 DEF Message
  <2>3. ASSUME NEW i \in 1 .. Len(queue'), i \notin 1 .. Len(queue)
        PROVE  i \in Len(queue) + 1 .. Len(queue) + 2
    BY <2>1, <2>3
  <2>4. status'[x] # "new"
    BY <1>0 DEF CompleteTransfer, SetStatus, TransferTypes
  <2>. QED
    BY <1>0, <1>4, <2>1, <2>2, <2>3, <2>4 DEF QueueInv, Keeps
<1>6. RefInv'
  <2>. SUFFICES ASSUME NEW y \in Xfers, Live(y)'
                PROVE  refs'[y] >= 1 + Holds(y)' + Cardinality(QueuedReports(y)')
    BY DEF RefInv
  <2>1. y # x /\ Live(y) /\ refs'[y] = refs[y] /\ Holds(y)' = Holds(y)
    BY <1>0 DEF CompleteTransfer, SetStatus, Live, Holds, Final, TransferTypes
  <2>2. /\ Len(queue') = Len(queue) + 2 /\ Len(queue) \in Nat
        /\ \A i \in 1 .. Len(queue) : queue'[i] = queue[i]
        /\ \A i \in Len(queue) + 1 .. Len(queue) + 2 : queue'[i] = Message("progress", x)
    BY <1>0, CompletedQueue, QueuedMessages
  <2>3. \A i \in Len(queue) + 1 .. Len(queue) + 2 : queue'[i].xfer = x
    BY <2>2 DEF Message
  <2>4. \A i \in 1 .. Len(queue') : i \in 1 .. Len(queue) \/ i \in Len(queue) + 1 .. Len(queue) + 2
    BY <2>2
  <2>5. QueuedReports(y)' = QueuedReports(y)
    BY <2>1, <2>2, <2>3, <2>4 DEF QueuedReports
  <2>. QED
    BY <1>0, <2>1, <2>5 DEF RefInv
<1>. QED
  BY <1>2, <1>3, <1>5, <1>6 DEF TransferInv, RestInv

\* EndLocally keeps the invariant.
LEMMA EndLocallyInv ==
  ASSUME TransferInv, NEW x \in Xfers, EndLocally(x)
  PROVE  TransferInv'
<1>. USE DEF vars, libVars, idVars, requestVars, workerVars
<1>0. TransferTypes /\ RestInv /\ QueueInv /\ RefInv /\ x \in Xfers
  BY DEF TransferInv, RestInv, Xfers
<1>1. UNCHANGED queue
  BY DEF EndLocally, Negotiated, Running, CancelLocal
<1>2. TransferTypes'
  BY <1>0, FileTransferAssumption
  DEF EndLocally, CancelLocal, SetStatus, Unref, RemovePurpleXfer, TransferTypes, Statuses,
      Final
<1>3. RestInv'
  BY <1>0, FileTransferAssumption
  DEF EndLocally, Negotiated, Running, CancelLocal, SetStatus, Unref, RemovePurpleXfer,
    RestInv, IdInv,
      RemoteInv, NewInv, Untouched, OfferInv, ShownInv, RecordInv, MappedInv, Live,
      TransferTypes, Final
<1>4. Keeps
  BY <1>0, FileTransferAssumption
  DEF EndLocally, CancelLocal, SetStatus, Keeps, TransferTypes
<1>5. QueueInv'
  BY <1>0, <1>4, <1>1, QueueKept
<1>6. RefInv'
  <2>. SUFFICES ASSUME NEW y \in Xfers, Live(y)'
                PROVE  refs'[y] >= 1 + Holds(y)' + Cardinality(QueuedReports(y)')
    BY DEF RefInv
  <2>1. Cardinality(QueuedReports(y)') = Cardinality(QueuedReports(y))
    BY <1>1 DEF QueuedReports
  <2>2. Cardinality(QueuedReports(y)) \in Nat
    BY <1>0, ReportsFinite
  <2>. QED
    BY <1>0, FileTransferAssumption, <2>1, <2>2
    DEF EndLocally, CancelLocal, SetStatus, Unref, RefInv, Live, Holds, TransferTypes, Final
<1>. QED
  BY <1>2, <1>3, <1>5, <1>6 DEF TransferInv, RestInv

\* EndRemotely keeps the invariant.
LEMMA EndRemotelyInv ==
  ASSUME TransferInv, NEW x \in Xfers, EndRemotely(x)
  PROVE  TransferInv'
<1>. USE DEF vars, libVars, idVars, requestVars, workerVars
<1>0. TransferTypes /\ RestInv /\ QueueInv /\ RefInv /\ x \in Xfers
  BY DEF TransferInv, RestInv, Xfers
<1>1. Post("canceled", x)
  BY DEF EndRemotely, Negotiated, Running, CancelRemote
<1>2. queue' \in Seq(Messages)
  BY <1>0, <1>1, PostQueue DEF Kinds
<1>3. TransferTypes'
  BY <1>0, FileTransferAssumption, <1>2
  DEF EndRemotely, CancelRemote, SetStatus, RemovePurpleXfer, PostedRefs, TransferTypes,
      Statuses, Final
<1>4. RestInv'
  BY <1>0, FileTransferAssumption
  DEF EndRemotely, Negotiated, Running, CancelRemote, SetStatus, RemovePurpleXfer, RestInv,
    IdInv,
      RemoteInv, NewInv, Untouched, OfferInv, ShownInv, RecordInv, MappedInv, Live,
      TransferTypes, Final
<1>5. Keeps
  BY <1>0, FileTransferAssumption
  DEF EndRemotely, CancelRemote, SetStatus, Keeps, TransferTypes
<1>6. status[x] # "new"
  BY <1>0
  DEF EndRemotely, Negotiated, Running, TransferTypes
<1>7. QueueInv'
  BY <1>0, <1>5, <1>1, <1>6, QueueReported
<1>8. RefInv'
  <2>. SUFFICES ASSUME NEW y \in Xfers, Live(y)'
                PROVE  refs'[y] >= 1 + Holds(y)' + Cardinality(QueuedReports(y)')
    BY DEF RefInv
  <2>1. Cardinality(QueuedReports(y)') =
           Cardinality(QueuedReports(y)) + (IF y = x /\ "canceled" # "ask" THEN 1 ELSE 0)
    BY <1>0, <1>1, ReportsPosted DEF Kinds
  <2>2. Cardinality(QueuedReports(y)) \in Nat
    BY <1>0, ReportsFinite
  <2>. QED
    BY <1>0, FileTransferAssumption, <2>1, <2>2
    DEF EndRemotely, CancelRemote, SetStatus, RefInv, Live, Holds, TransferTypes, Final
<1>. QED
  BY <1>3, <1>4, <1>7, <1>8 DEF TransferInv, RestInv

\* RequestActionThread keeps the invariant.
LEMMA RequestActionThreadInv ==
  ASSUME TransferInv, NEW x \in Receives, RequestActionThread(x)
  PROVE  TransferInv'
<1>. USE DEF vars, libVars, idVars, requestVars, workerVars
<1>0. TransferTypes /\ RestInv /\ QueueInv /\ RefInv /\ x \in Xfers
  BY DEF TransferInv, RestInv, Xfers
<1>1. Post("ask", x)
  BY DEF RequestActionThread, AddPurpleXfer
<1>2. queue' \in Seq(Messages)
  BY <1>0, <1>1, PostQueue DEF Kinds
<1>3. TransferTypes'
  BY <1>0, FileTransferAssumption, <1>2
  DEF RequestActionThread, AddPurpleXfer, TransferTypes
<1>4. RestInv'
  BY <1>0, FileTransferAssumption
  DEF RequestActionThread, AddPurpleXfer, RestInv, IdInv, RemoteInv, NewInv, Untouched,
      OfferInv, ShownInv, RecordInv, MappedInv, Live, TransferTypes
<1>5. QueueInv'
  <2>1. /\ Len(queue') = Len(queue) + 1 /\ Len(queue) \in Nat
        /\ \A i \in 1 .. Len(queue) : queue'[i] = queue[i] /\ queue[i].xfer \in Xfers
        /\ queue'[Len(queue) + 1] = Message("ask", x)
    BY <1>0, <1>1, PostQueue, QueuedMessages DEF Kinds
  <2>2. \A i \in 1 .. Len(queue) : queue[i] # Message("ask", x)
    BY <1>0 DEF RequestActionThread, QueueInv, Message, TransferTypes
  <2>3. \A i \in 1 .. Len(queue') : i \in 1 .. Len(queue) \/ i = Len(queue) + 1
    BY <2>1
  <2>4. ASSUME NEW i \in 1 .. Len(queue'), NEW j \in 1 .. Len(queue'), queue'[i] = queue'[j],
               queue'[i].kind \in {"ask", "init"}
        PROVE  i = j
    BY <1>0, <2>1, <2>2, <2>3, <2>4 DEF QueueInv
  <2>5. ASSUME NEW i \in 1 .. Len(queue')
        PROVE  /\ status'[queue'[i].xfer] # "new"
               /\ queue'[i].kind = "ask" =>
                    queue'[i].xfer \in Receives /\ request'[queue'[i].xfer] = "posted"
               /\ queue'[i].kind = "init" =>
                    /\ shown'[queue'[i].xfer] = "absent"
                    /\ queue'[i].xfer \in Receives => request'[queue'[i].xfer] = "answered"
    <3>1. CASE i \in 1 .. Len(queue)
      BY <1>0, <2>1, <3>1 DEF RequestActionThread, QueueInv, TransferTypes
    <3>2. CASE i = Len(queue) + 1
      BY <1>0, <2>1, <3>2, FileTransferAssumption
      DEF RequestActionThread, Message, TransferTypes, RestInv, NewInv
    <3>. QED
      BY <2>3, <3>1, <3>2
  <2>. QED
    BY <2>4, <2>5 DEF QueueInv
<1>6. RefInv'
  <2>. SUFFICES ASSUME NEW y \in Xfers, Live(y)'
                PROVE  refs'[y] >= 1 + Holds(y)' + Cardinality(QueuedReports(y)')
    BY DEF RefInv
  <2>1. Cardinality(QueuedReports(y)') =
           Cardinality(QueuedReports(y)) + (IF y = x /\ "ask" # "ask" THEN 1 ELSE 0)
    BY <1>0, <1>1, ReportsPosted DEF Kinds
  <2>2. Cardinality(QueuedReports(y)) \in Nat
    BY <1>0, ReportsFinite
  <2>. QED
    BY <1>0, FileTransferAssumption, <2>1, <2>2
    DEF RequestActionThread, RefInv, Live, Holds, TransferTypes
<1>. QED
  BY <1>3, <1>4, <1>5, <1>6 DEF TransferInv, RestInv

\* A path that is accepted, or comes too late, keeps the invariant.
LEMMA PathAnsweredInv ==
  ASSUME TransferInv, NEW x \in Receives, PathChosen(x), request'[x] = "answered"
  PROVE  TransferInv'
<1>. USE DEF vars, libVars, idVars, requestVars, workerVars
<1>0. TransferTypes /\ RestInv /\ QueueInv /\ RefInv /\ x \in Xfers
  BY DEF TransferInv, RestInv, Xfers
<1>a. /\ request[x] = "path"
      /\ request' = [request EXCEPT ![x] = "answered"]
      /\ IF status[x] # "cancelRemote" THEN AcceptPath(x)
         ELSE UNCHANGED <<status, refs, m_mapFileTransfer, queue>>
      /\ UNCHANGED <<idVars, file, record, workerVars, shown>>
  BY <1>0 DEF PathChosen, ChooseFileOk, RefuseDirectory, DenyPath, AcceptPath, TransferTypes
<1>1. UNCHANGED queue \/ Post("init", x)
  BY <1>a DEF AcceptPath
<1>2. queue' \in Seq(Messages)
  <2>1. CASE UNCHANGED queue
    BY <1>0, <2>1 DEF TransferTypes
  <2>2. CASE Post("init", x)
    BY <1>0, <2>2, PostQueue DEF Kinds
  <2>. QED
    BY <1>1, <2>1, <2>2
<1>3. TransferTypes'
  <2>1. request' = [request EXCEPT ![x] = "answered"]
    BY <1>a DEF AcceptPath
  <2>2. UNCHANGED <<idVars, file, m_mapFileTransfer, record, workerVars, shown>>
    BY <1>a DEF AcceptPath
  <2>3. status' \in [Xfers -> Statuses \cup {"new"}] /\ refs' \in [Xfers -> Int]
    <3>1. CASE status[x] # "cancelRemote"
      <4>1. /\ status' = [status EXCEPT ![x] = "accepted"]
            /\ refs' = [refs EXCEPT ![x] = @ + PostedRefs - 1]
        BY <1>a, <3>1 DEF AcceptPath, SetStatus
      <4>. QED
        BY <1>0, <4>1 DEF TransferTypes, Statuses, PostedRefs
    <3>2. CASE status[x] = "cancelRemote"
      BY <1>a, <1>0, <3>2 DEF AcceptPath, TransferTypes
    <3>. QED
      BY <3>1, <3>2
  <2>. QED
    BY <1>0, <1>2, <2>1, <2>2, <2>3 DEF TransferTypes
<1>4. RestInv'
  <2>1. /\ \A y \in Xfers \ {x} : status'[y] = status[y] /\ shown'[y] = shown[y]
        /\ \A y \in Receives \ {x} : request'[y] = request[y]
        /\ UNCHANGED idVars
        /\ record' \subseteq record
        /\ m_mapFileTransfer' \subseteq m_mapFileTransfer
        /\ \A f \in Sends : picked'[f] \in {picked[f], NoXfer}
    BY <1>a, <1>0, FileTransferAssumption DEF AcceptPath, SetStatus, TransferTypes
  <2>2. status[x] # "new"
    BY <1>a, <1>0, FileTransferAssumption
    DEF AcceptPath, RestInv, NewInv, TransferTypes
  <2>3. /\ status'[x] # "new"
        /\ status'[x] = "cancelRemote" => x \notin m_mapFileTransfer'
        /\ status[x] \in Final => status'[x] \in Final
        /\ \A y \in m_mapFileTransfer \ m_mapFileTransfer' : status'[y] \in Final
    BY <1>a, <1>0, FileTransferAssumption, <2>2
    DEF AcceptPath, SetStatus, RestInv, RemoteInv, OfferInv, TransferTypes, Final
  <2>4. \/ shown'[x] = shown[x]
        \/ shown[x] # "absent" /\ (shown'[x] \in Final => status'[x] \in Final)
    BY <1>a, <1>0, FileTransferAssumption
    DEF AcceptPath, SetStatus, TransferTypes
  <2>5. x \in Receives =>
          /\ \/ request'[x] = request[x]
             \/ request[x] \in Asking /\ request'[x] \in Asking \cup {"answered", "denied"}
          /\ request[x] = "offered" => status'[x] = status[x]
          /\ request'[x] # "answered" => status'[x] \in {status[x], "cancelRemote"}
    BY <1>a, <1>0, FileTransferAssumption
    DEF Asking, AcceptPath, SetStatus, TransferTypes
  <2>6. StatusStep(x)
    BY <2>1, <2>2, <2>3, <2>4, <2>5 DEF StatusStep, Live
  <2>. QED
    BY <1>0, <2>6, StatusStepKeeps
<1>5. Keeps
  BY <1>a, <1>0, FileTransferAssumption
  DEF AcceptPath, SetStatus, Keeps, TransferTypes
<1>6. QueueInv'
  <2>1. CASE UNCHANGED queue
    BY <1>0, <1>5, <2>1, QueueKept
  <2>2. CASE Post("init", x)
    <3>1. /\ Len(queue') = Len(queue) + 1 /\ Len(queue) \in Nat
          /\ \A i \in 1 .. Len(queue) : queue'[i] = queue[i] /\ queue[i].xfer \in Xfers
          /\ queue'[Len(queue) + 1] = Message("init", x)
      BY <1>0, <2>2, PostQueue, QueuedMessages DEF Kinds
    <3>2. \A i \in 1 .. Len(queue) : queue[i] # Message("init", x)
      BY <1>a, <1>0 DEF AcceptPath, QueueInv, Message, TransferTypes
    <3>3. \A i \in 1 .. Len(queue') : i \in 1 .. Len(queue) \/ i = Len(queue) + 1
      BY <3>1
    <3>4. ASSUME NEW i \in 1 .. Len(queue'), NEW j \in 1 .. Len(queue'), queue'[i] = queue'[j],
                 queue'[i].kind \in {"ask", "init"}
          PROVE  i = j
      BY <1>0, <3>1, <3>2, <3>3, <3>4 DEF QueueInv
    <3>5. ASSUME NEW i \in 1 .. Len(queue')
          PROVE  /\ status'[queue'[i].xfer] # "new"
                 /\ queue'[i].kind = "ask" =>
                      queue'[i].xfer \in Receives /\ request'[queue'[i].xfer] = "posted"
                 /\ queue'[i].kind = "init" =>
                      /\ shown'[queue'[i].xfer] = "absent"
                      /\ queue'[i].xfer \in Receives => request'[queue'[i].xfer] = "answered"
      <4>1. CASE i \in 1 .. Len(queue)
        BY <1>a, <1>0, <3>1, <4>1 DEF AcceptPath, SetStatus, QueueInv, TransferTypes
      <4>2. CASE i = Len(queue) + 1
        BY <1>a, <1>0, <3>1, <4>2, FileTransferAssumption
        DEF AcceptPath, SetStatus, Message, TransferTypes, RestInv, OfferInv
      <4>. QED
        BY <3>3, <4>1, <4>2
    <3>. QED
      BY <3>4, <3>5 DEF QueueInv
  <2>. QED
    BY <1>1, <2>1, <2>2
<1>7. RefInv'
  <2>. SUFFICES ASSUME NEW y \in Xfers, Live(y)'
                PROVE  refs'[y] >= 1 + Holds(y)' + Cardinality(QueuedReports(y)')
    BY DEF RefInv
  <2>1. Cardinality(QueuedReports(y)) \in Nat
    BY <1>0, ReportsFinite
  <2>2. CASE status[x] = "cancelRemote"
    <3>1. Cardinality(QueuedReports(y)') = Cardinality(QueuedReports(y))
      BY <1>a, <2>2 DEF AcceptPath, QueuedReports
    <3>. QED
      BY <1>a, <1>0, <2>1, <2>2, <3>1 DEF AcceptPath, RefInv, Live, Holds, TransferTypes
  <2>3. CASE status[x] # "cancelRemote"
    <3>1. Post("init", x)
      BY <1>a, <2>3 DEF AcceptPath
    <3>2. Cardinality(QueuedReports(y)') =
            Cardinality(QueuedReports(y)) + (IF y = x /\ "init" # "ask" THEN 1 ELSE 0)
      BY <1>0, <3>1, ReportsPosted DEF Kinds
    <3>3. y = x => Live(x)
      BY <1>a, <1>0 DEF AcceptPath, RestInv, NewInv, OfferInv, Live, Final, TransferTypes
    <3>. QED
      BY <1>a, <1>0, <2>1, <2>3, <3>2, <3>3
      DEF AcceptPath, SetStatus, PostedRefs, RefInv, Live, Holds, TransferTypes
  <2>. QED
    BY <2>2, <2>3
<1>. QED
  BY <1>3, <1>4, <1>6, <1>7 DEF TransferInv, RestInv

\* A question that is put again, or waits to be, keeps the invariant.
LEMMA AskingAgainInv ==
  ASSUME TransferInv, NEW x \in Receives,
         NEW from \in {"path", "unwritable"}, NEW to \in {"path", "unwritable"},
         request[x] = from, request' = [request EXCEPT ![x] = to],
         UNCHANGED <<libVars, idVars, record, workerVars, queue, shown>>
  PROVE  TransferInv'
<1>. USE DEF libVars, idVars, workerVars
<1>0. TransferTypes /\ RestInv /\ QueueInv /\ RefInv /\ x \in Xfers
  BY DEF TransferInv, RestInv, Xfers
<1>1. TransferTypes'
  BY <1>0 DEF TransferTypes
<1>2. RestInv'
  BY <1>0 DEF RestInv, IdInv, RemoteInv, NewInv, Untouched, OfferInv, ShownInv, RecordInv,
              MappedInv, Live, TransferTypes
<1>3. QueueInv'
  BY <1>0 DEF QueueInv, TransferTypes
<1>4. RefInv'
  BY <1>0 DEF RefInv, Live, Holds, QueuedReports, TransferTypes
<1>. QED
  BY <1>1, <1>2, <1>3, <1>4 DEF TransferInv, RestInv

\* NotificationClosed keeps the invariant.
LEMMA NotificationClosedInv ==
  ASSUME TransferInv, NEW x \in Receives, NotificationClosed(x)
  PROVE  TransferInv'
  BY AskingAgainInv DEF NotificationClosed

\* A transfer that is denied gives up the reference of libpurple and that of the
\* question, and may stay in the map for the window's.
LEMMA PathDeniedInv ==
  ASSUME TransferInv, NEW x \in Receives, PathChosen(x), request'[x] = "denied"
  PROVE  TransferInv'
<1>. USE DEF libVars, idVars, workerVars
<1>0. TransferTypes /\ RestInv /\ QueueInv /\ RefInv /\ x \in Xfers
  BY DEF TransferInv, RestInv, Xfers
<1>1. /\ request[x] = "path"
      /\ request' = [request EXCEPT ![x] = "denied"]
      /\ refs' = [refs EXCEPT ![x] = @ - 2]
      /\ m_mapFileTransfer' \in {m_mapFileTransfer, m_mapFileTransfer \ {x}}
      /\ UNCHANGED <<status, queue, idVars, file, record, workerVars, shown>>
  BY <1>0 DEF PathChosen, ChooseFileOk, RefuseDirectory, DenyPath, AcceptPath, Unref,
              RemovePurpleXfer, TransferTypes
<1>2. TransferTypes'
  BY <1>0, <1>1 DEF TransferTypes
<1>3. \A y \in Xfers : Live(y)' => Live(y) /\ y # x
  BY <1>0, <1>1 DEF Live, TransferTypes
<1>4. RestInv'
  <2>1. IdInv' /\ RemoteInv' /\ ShownInv' /\ RecordInv'
    BY <1>0, <1>1 DEF RestInv, IdInv, RemoteInv, ShownInv, RecordInv, TransferTypes
  <2>2. NewInv' /\ OfferInv'
    BY <1>0, <1>1 DEF RestInv, NewInv, Untouched, OfferInv, TransferTypes
  <2>3. MappedInv'
    BY <1>0, <1>1, <1>3 DEF RestInv, MappedInv, TransferTypes
  <2>. QED
    BY <2>1, <2>2, <2>3 DEF RestInv
<1>5. QueueInv'
  <2>1. \A i \in 1 .. Len(queue) : queue[i].kind \in {"ask", "init"} => queue[i].xfer # x
    BY <1>0, <1>1 DEF QueueInv
  <2>2. \A i \in 1 .. Len(queue) :
          queue[i].xfer \in Receives \ {x} => request'[queue[i].xfer] = request[queue[i].xfer]
    BY <1>0, <1>1 DEF TransferTypes
  <2>. QED
    BY <1>0, <1>1, <2>1, <2>2 DEF QueueInv
<1>6. RefInv'
  BY <1>0, <1>1, <1>3 DEF RefInv, Holds, QueuedReports, TransferTypes
<1>. QED
  BY <1>2, <1>4, <1>5, <1>6 DEF TransferInv, RestInv

\* PathChosen keeps the invariant.
LEMMA PathChosenInv ==
  ASSUME TransferInv, NEW x \in Receives, PathChosen(x)
  PROVE  TransferInv'
<1>0. request \in [Receives -> {"none", "offered", "posted", "asked", "path", "unwritable",
                                "answered", "denied"}]
  BY DEF TransferInv, TransferTypes
<1>1. CASE request'[x] = "answered"
  BY <1>1, PathAnsweredInv
<1>2. CASE request'[x] = "denied"
  BY <1>2, PathDeniedInv
<1>3. CASE RefuseDirectory(x)
  <2>1. /\ request[x] = "path" /\ request' = [request EXCEPT ![x] = "unwritable"]
        /\ UNCHANGED <<libVars, idVars, record, workerVars, queue, shown>>
    BY <1>3 DEF PathChosen, RefuseDirectory, libVars
  <2>. QED
    BY <2>1, AskingAgainInv
<1>. QED
  BY <1>0, <1>1, <1>2, <1>3 DEF PathChosen, ChooseFileOk, AcceptPath, DenyPath

\* PathRefused keeps the invariant.
LEMMA PathRefusedInv ==
  ASSUME TransferInv, NEW x \in Receives, PathRefused(x)
  PROVE  TransferInv'
<1>. USE DEF vars, libVars, idVars, requestVars, workerVars
<1>0. TransferTypes /\ RestInv /\ QueueInv /\ RefInv /\ x \in Xfers
  BY DEF TransferInv, RestInv, Xfers
<1>1. UNCHANGED queue
  BY DEF PathRefused, CancelLocal, SetStatus
<1>2. TransferTypes'
  <2>1. /\ request' = [request EXCEPT ![x] = "answered"]
        /\ UNCHANGED <<idVars, file, record, workerVars, queue, shown>>
    BY DEF PathRefused
  <2>2. /\ status' \in [Xfers -> Statuses \cup {"new"}] /\ refs' \in [Xfers -> Int]
        /\ m_mapFileTransfer' \subseteq Xfers
    BY <1>0 DEF PathRefused, CancelLocal, SetStatus, Unref, RemovePurpleXfer, TransferTypes,
                Statuses, Final
  <2>. QED
    BY <1>0, <2>1, <2>2 DEF TransferTypes
<1>3. RestInv'
  <2>1. /\ \A y \in Xfers \ {x} : status'[y] = status[y] /\ shown'[y] = shown[y]
        /\ \A y \in Receives \ {x} : request'[y] = request[y]
        /\ UNCHANGED idVars
        /\ record' \subseteq record
        /\ m_mapFileTransfer' \subseteq m_mapFileTransfer
        /\ \A f \in Sends : picked'[f] \in {picked[f], NoXfer}
    BY <1>0, FileTransferAssumption
    DEF PathRefused, CancelLocal, SetStatus, Unref, RemovePurpleXfer, TransferTypes
  <2>2. status[x] # "new"
    BY <1>0, FileTransferAssumption
    DEF PathRefused, RestInv, NewInv, TransferTypes
  <2>3. /\ status'[x] # "new"
        /\ status'[x] = "cancelRemote" => x \notin m_mapFileTransfer'
        /\ status[x] \in Final => status'[x] \in Final
        /\ \A y \in m_mapFileTransfer \ m_mapFileTransfer' : status'[y] \in Final
    BY <1>0, FileTransferAssumption, <2>2
    DEF PathRefused, CancelLocal, SetStatus, Unref, RemovePurpleXfer, RestInv, RemoteInv,
        TransferTypes, Final
  <2>4. \/ shown'[x] = shown[x]
        \/ shown[x] # "absent" /\ (shown'[x] \in Final => status'[x] \in Final)
    BY <1>0, FileTransferAssumption
    DEF PathRefused, CancelLocal, TransferTypes
  <2>5. x \in Receives =>
          /\ \/ request'[x] = request[x]
             \/ request[x] \in Asking /\ request'[x] \in Asking \cup {"answered", "denied"}
          /\ request[x] = "offered" => status'[x] = status[x]
          /\ request'[x] # "answered" => status'[x] \in {status[x], "cancelRemote"}
    BY <1>0, FileTransferAssumption
    DEF Asking, PathRefused, CancelLocal, TransferTypes
  <2>6. StatusStep(x)
    BY <2>1, <2>2, <2>3, <2>4, <2>5 DEF StatusStep, Live
  <2>. QED
    BY <1>0, <2>6, StatusStepKeeps
<1>4. Keeps
  BY <1>0, FileTransferAssumption
  DEF PathRefused, CancelLocal, SetStatus, Keeps, TransferTypes
<1>5. QueueInv'
  BY <1>0, <1>4, <1>1, QueueKept
<1>6. RefInv'
  <2>. SUFFICES ASSUME NEW y \in Xfers, Live(y)'
                PROVE  refs'[y] >= 1 + Holds(y)' + Cardinality(QueuedReports(y)')
    BY DEF RefInv
  <2>1. Cardinality(QueuedReports(y)') = Cardinality(QueuedReports(y))
    BY <1>1 DEF QueuedReports
  <2>2. Cardinality(QueuedReports(y)) \in Nat
    BY <1>0, ReportsFinite
  <2>. QED
    BY <1>0, FileTransferAssumption, <2>1, <2>2
    DEF PathRefused, CancelLocal, SetStatus, Unref, RefInv, Live, Holds, TransferTypes, Final
<1>. QED
  BY <1>2, <1>3, <1>5, <1>6 DEF TransferInv, RestInv

\* PickTransfer keeps the invariant.
LEMMA PickTransferInv ==
  ASSUME TransferInv, NEW x \in Sends, PickTransfer(x)
  PROVE  TransferInv'
<1>. USE DEF vars, libVars, idVars, requestVars, workerVars
<1>0. TransferTypes /\ RestInv /\ QueueInv /\ RefInv /\ x \in Xfers
  BY DEF TransferInv, RestInv, Xfers
<1>1. GetPurpleXfer(Who[x]) \in m_mapFileTransfer \cup {NoXfer}
  BY <1>0, PickedIsMapped DEF RestInv
<1>2. UNCHANGED queue
  BY DEF PickTransfer
<1>3. TransferTypes'
  BY <1>0, FileTransferAssumption, <1>1 DEF PickTransfer, PostedRefs, TransferTypes
<1>4. RestInv'
  BY <1>0, FileTransferAssumption, <1>1
  DEF PickTransfer, RestInv, IdInv, RemoteInv, NewInv, Untouched, OfferInv, ShownInv, RecordInv,
      MappedInv, Live, TransferTypes
<1>5. Keeps
  BY <1>0, FileTransferAssumption, <1>1
  DEF PickTransfer, Keeps, TransferTypes
<1>6. QueueInv'
  BY <1>0, <1>5, <1>2, QueueKept
<1>7. RefInv'
  <2>. SUFFICES ASSUME NEW y \in Xfers, Live(y)'
                PROVE  refs'[y] >= 1 + Holds(y)' + Cardinality(QueuedReports(y)')
    BY DEF RefInv
  <2>1. Cardinality(QueuedReports(y)') = Cardinality(QueuedReports(y))
    BY <1>2 DEF QueuedReports
  <2>2. Cardinality(QueuedReports(y)) \in Nat
    BY <1>0, ReportsFinite
  <2>. QED
    BY <1>0, FileTransferAssumption, <1>1, <2>1, <2>2
    DEF PickTransfer, RefInv, Live, Holds, TransferTypes
<1>. QED
  BY <1>3, <1>4, <1>6, <1>7 DEF TransferInv, RestInv

\* CancelPicked keeps the invariant.
LEMMA CancelPickedInv ==
  ASSUME TransferInv, NEW x \in Sends, CancelPicked(x)
  PROVE  TransferInv'
<1>. USE DEF vars, libVars, idVars, requestVars, workerVars
<1>0. TransferTypes /\ RestInv /\ QueueInv /\ RefInv /\ x \in Xfers
  BY DEF TransferInv, RestInv, Xfers
<1>1. picked[x] \in Xfers /\ status[picked[x]] # "new"
  BY <1>0 DEF CancelPicked, TransferTypes, RestInv, NewInv, Untouched
<1>2. \/ UNCHANGED <<status, refs, m_mapFileTransfer, queue>>
           \/ CancelRemote(picked[x])
  BY DEF CancelPicked
<1>3. queue' \in Seq(Messages)
  <2>1. CASE UNCHANGED <<status, refs, m_mapFileTransfer, queue>>
    BY <1>0, <2>1 DEF TransferTypes
  <2>2. CASE CancelRemote(picked[x])
    <3>1. Post("canceled", picked[x])
      BY <2>2 DEF CancelRemote
    <3>. QED
      BY <1>0, <1>1, <3>1, PostQueue DEF Kinds
  <2>. QED
    BY <1>2, <2>1, <2>2
<1>4. TransferTypes'
  <2>1. picked' = [picked EXCEPT ![x] = NoXfer]
    BY DEF CancelPicked
  <2>2. UNCHANGED <<idVars, file, requestVars, failed, canceling, shown>>
    BY DEF CancelPicked
  <2>3. /\ status' \in [Xfers -> Statuses \cup {"new"}] /\ refs' \in [Xfers -> Int]
        /\ m_mapFileTransfer' \subseteq Xfers
    <3>1. CASE CancelRemote(picked[x])
      <4>1. /\ status' = [status EXCEPT ![picked[x]] = "cancelRemote"]
            /\ refs' = [refs EXCEPT ![picked[x]] = @ + PostedRefs - 1]
            /\ m_mapFileTransfer' \subseteq m_mapFileTransfer
        BY <3>1 DEF CancelRemote, SetStatus, RemovePurpleXfer
      <4>. QED
        BY <1>0, <1>1, <4>1 DEF TransferTypes, Statuses, Final, PostedRefs
    <3>2. CASE UNCHANGED <<status, refs, m_mapFileTransfer, queue>>
      BY <1>0, <3>2 DEF TransferTypes
    <3>. QED
      BY <1>2, <3>1, <3>2
  <2>. QED
    BY <1>0, <1>3, <2>1, <2>2, <2>3 DEF TransferTypes
<1>5. RestInv'
  <2>1. /\ \A y \in Xfers \ {picked[x]} : status'[y] = status[y] /\ shown'[y] = shown[y]
        /\ \A y \in Receives \ {picked[x]} : request'[y] = request[y]
        /\ UNCHANGED idVars
        /\ record' \subseteq record
        /\ m_mapFileTransfer' \subseteq m_mapFileTransfer
        /\ \A f \in Sends : picked'[f] \in {picked[f], NoXfer}
    BY <1>0, FileTransferAssumption, <1>1
    DEF CancelPicked, CancelRemote, SetStatus, RemovePurpleXfer, TransferTypes
  <2>2. status[picked[x]] # "new"
    BY <1>0, FileTransferAssumption, <1>1
    DEF CancelPicked, CancelRemote, TransferTypes
  <2>3. /\ status'[picked[x]] # "new"
        /\ status'[picked[x]] = "cancelRemote" => picked[x] \notin m_mapFileTransfer'
        /\ status[picked[x]] \in Final => status'[picked[x]] \in Final
        /\ \A y \in m_mapFileTransfer \ m_mapFileTransfer' : status'[y] \in Final
    BY <1>0, FileTransferAssumption, <1>1, <2>2
    DEF CancelPicked, CancelRemote, SetStatus, RemovePurpleXfer, RestInv, RemoteInv,
        TransferTypes, Final
  <2>4. \/ shown'[picked[x]] = shown[picked[x]]
        \/ /\ shown[picked[x]] # "absent"
           /\ shown'[picked[x]] \in Final => status'[picked[x]] \in Final
    BY <1>0, FileTransferAssumption, <1>1
    DEF CancelPicked, CancelRemote, TransferTypes
  <2>5. picked[x] \in Receives =>
          /\ \/ request'[picked[x]] = request[picked[x]]
             \/ /\ request[picked[x]] \in Asking
                /\ request'[picked[x]] \in Asking \cup {"answered", "denied"}
          /\ request[picked[x]] = "offered" => status'[picked[x]] = status[picked[x]]
          /\ request'[picked[x]] # "answered" =>
               status'[picked[x]] \in {status[picked[x]], "cancelRemote"}
    BY <1>0, FileTransferAssumption, <1>1
    DEF CancelPicked, CancelRemote, SetStatus, RestInv, NewInv, Untouched, TransferTypes
  <2>6. StatusStep(picked[x])
    BY <2>1, <2>2, <2>3, <2>4, <2>5 DEF StatusStep, Live
  <2>. QED
    BY <1>0, <1>1, <2>6, StatusStepKeeps
<1>6. Keeps
  BY <1>0, FileTransferAssumption, <1>1
  DEF CancelPicked, CancelRemote, SetStatus, Keeps, TransferTypes
<1>7. QueueInv'
  BY <1>0, <1>1, <1>2, <1>6, QueueKept, QueueReported DEF CancelRemote
<1>8. RefInv'
  <2>. SUFFICES ASSUME NEW y \in Xfers, Live(y)'
                PROVE  refs'[y] >= 1 + Holds(y)' + Cardinality(QueuedReports(y)')
    BY DEF RefInv
  <2>1. CASE UNCHANGED <<status, refs, m_mapFileTransfer, queue>>
    BY <1>0, <2>1 DEF CancelPicked, RefInv, Live, Holds, QueuedReports
  <2>2. CASE CancelRemote(picked[x])
    <3>1. Cardinality(QueuedReports(y)') =
            Cardinality(QueuedReports(y)) + (IF y = picked[x] /\ "canceled" # "ask" THEN 1 ELSE 0)
      BY <1>0, <1>1, <2>2, ReportsPosted DEF CancelRemote, Kinds
    <3>2. y # picked[x]
      BY <1>0, <1>1, <2>2 DEF CancelRemote, SetStatus, Live, Final, TransferTypes
    <3>3. Cardinality(QueuedReports(y)) \in Nat
      BY <1>0, ReportsFinite
    <3>. QED
      BY <1>0, <2>2, <3>1, <3>2, <3>3
      DEF CancelPicked, CancelRemote, SetStatus, RefInv, Live, Holds, TransferTypes
  <2>. QED
    BY <1>2, <2>1, <2>2
<1>. QED
  BY <1>4, <1>5, <1>7, <1>8 DEF TransferInv, RestInv

-----------------------------------------------------------------------------
\* The invariant holds when nothing has been sent or offered yet.
LEMMA TransferInvInit ==
  ASSUME FileTransferInit
  PROVE  TransferInv
<1>1. queue \in Seq(Messages) /\ Len(queue) = 0
  BY DEF FileTransferInit
<1>2. TransferTypes
  BY <1>1 DEF FileTransferInit, TransferTypes
<1>3. QueueInv
  BY <1>1 DEF QueueInv
<1>4. IdInv /\ RemoteInv /\ NewInv /\ OfferInv
  BY FileTransferAssumption
  DEF FileTransferInit, IdInv, RemoteInv, NewInv, Untouched, OfferInv, Xfers
<1>5. ShownInv /\ RecordInv /\ MappedInv /\ RefInv
  BY DEF FileTransferInit, ShownInv, RecordInv, MappedInv, RefInv, Live, Final
<1>. QED
  BY <1>2, <1>3, <1>4, <1>5 DEF TransferInv

\* Every action keeps the invariant, and so does a step that changes nothing.
LEMMA TransferInvNext ==
  ASSUME TransferInv, [FileTransferNext]_vars
  PROVE  TransferInv'
<1>1. CASE \E x \in Sends : SendFile(x)
  BY <1>1, SendFileInv
<1>2. CASE \E x \in Sends : ClientAnswers(x)
  BY <1>2, ClientAnswersInv
<1>3. CASE \E x \in Sends : PickTransfer(x)
  BY <1>3, PickTransferInv
<1>4. CASE \E x \in Sends : CancelPicked(x)
  BY <1>4, CancelPickedInv
<1>5. CASE \E x \in Receives : OfferFile(x)
  BY <1>5, OfferFileInv
<1>6. CASE \E x \in Receives : RequestActionThread(x)
  BY <1>6, RequestActionThreadInv
<1>7. CASE \E x \in Receives : AcceptFileAsync(x)
  BY <1>7, AcceptFileAsyncInv
<1>8. CASE \E x \in Receives : RejectFileAsync(x)
  BY <1>8, RejectFileAsyncInv
<1>9. CASE \E x \in Receives : CloseConversation(x)
  BY <1>9, CloseConversationInv
<1>10. CASE \E x \in Receives : PathChosen(x)
  BY <1>10, PathChosenInv
<1>11. CASE \E x \in Receives : PathRefused(x) \/ NotificationClosed(x)
  BY <1>11, PathRefusedInv, NotificationClosedInv
<1>12. CASE \E x \in Xfers : StartTransfer(x)
  BY <1>12, StartTransferInv
<1>13. CASE \E x \in Xfers : TransferBytes(x)
  BY <1>13, TransferBytesInv
<1>14. CASE \E x \in Xfers : CompleteTransfer(x)
  BY <1>14, CompleteTransferInv
<1>15. CASE \E x \in Xfers : EndLocally(x)
  BY <1>15, EndLocallyInv
<1>16. CASE \E x \in Xfers : EndRemotely(x)
  BY <1>16, EndRemotelyInv
<1>17. CASE \E x \in Xfers : CancelFileTransfer(x)
  BY <1>17, CancelFileTransferInv
<1>18. CASE \E x \in Receives : NotifyRequestFileTransferAsync(x)
  BY <1>18, NotifyRequestFileTransferAsyncInv
<1>19. CASE \E x \in Xfers : NotifyFileTransferInit(x)
  BY <1>19, NotifyFileTransferInitInv
<1>20. CASE \E x \in Xfers : NotifyFileTransferUpdateProgress(x)
  BY <1>20, NotifyFileTransferUpdateProgressInv
<1>21. CASE \E x \in Xfers : NotifyFileTransferCanceled(x)
  BY <1>21, NotifyFileTransferCanceledInv
<1>22. CASE UNCHANGED vars
  BY <1>22
  DEF vars, libVars, idVars, requestVars, workerVars, TransferInv, TransferTypes, IdInv,
      RemoteInv, NewInv, Untouched, OfferInv, ShownInv, RecordInv, MappedInv, QueueInv,
      RefInv, Live, Holds, QueuedReports
<1>. QED
  BY <1>1, <1>2, <1>3, <1>4, <1>5, <1>6, <1>7, <1>8, <1>9, <1>10, <1>11,
     <1>12, <1>13, <1>14, <1>15, <1>16, <1>17, <1>18, <1>19, <1>20, <1>21, <1>22
  DEF FileTransferNext, HandleMessage, CancelFileTransfers

\* The inductive invariant holds in every state of every behaviour.
THEOREM TransferInvariant == FileTransferSpec => []TransferInv
<1>1. FileTransferInit => TransferInv
  BY TransferInvInit
<1>2. TransferInv /\ [FileTransferNext]_vars => TransferInv'
  BY TransferInvNext
<1>. QED
  BY <1>1, <1>2, PTL DEF FileTransferSpec

\* RunningIsMapped, for any transfers: the references that the queue, the
\* window and libpurple hold keep a transfer that can go on in the map of
\* CPurpleProtocol, where a cancel of the user finds it.
THEOREM MappedWhileRunning == FileTransferSpec => []RunningIsMapped
<1>1. TransferInv => RunningIsMapped
  BY FileTransferAssumption
  DEF TransferInv, NewInv, OfferInv, MappedInv, RunningIsMapped, Running, Live, Final
<1>. QED
  BY <1>1, TransferInvariant, PTL

\* RemoteCancelIsKept, for any transfers: neither an answer of the user nor a
\* step of libpurple takes a remote cancel back.
THEOREM RemoteCancelKept == FileTransferSpec => RemoteCancelIsKept
<1>1. ASSUME TransferInv, [FileTransferNext]_vars, NEW x \in Xfers, status[x] = "cancelRemote"
      PROVE  status'[x] = "cancelRemote"
  <2>0. TransferTypes /\ RemoteInv
    BY <1>1 DEF TransferInv
  <2>1. CASE \E y \in Sends : SendFile(y)
    BY <1>1, <2>0, <2>1 DEF SendFile, SetStatus, TransferTypes
  <2>2. CASE \E y \in Sends : CancelPicked(y)
    BY <1>1, <2>0, <2>2 DEF CancelPicked, CancelRemote, SetStatus, TransferTypes
  <2>3. CASE \E y \in Receives : OfferFile(y)
    BY <1>1, <2>0, <2>3 DEF OfferFile, SetStatus, TransferTypes
  <2>4. CASE \E y \in Receives : RejectFileAsync(y)
    BY <1>1, <2>0, <2>4 DEF RejectFileAsync, SetStatus, TransferTypes
  <2>5. CASE \E y \in Receives : PathChosen(y)
    BY <1>1, <2>0, <2>5 DEF PathChosen, ChooseFileOk, AcceptPath, RefuseDirectory, DenyPath,
        SetStatus, TransferTypes
  <2>6. CASE \E y \in Receives : PathRefused(y)
    BY <1>1, <2>0, <2>6 DEF PathRefused, CancelLocal, SetStatus, TransferTypes
  <2>7. CASE \E y \in Xfers : StartTransfer(y)
    BY <1>1, <2>0, <2>7 DEF StartTransfer, Negotiated, Running, SetStatus, TransferTypes
  <2>8. CASE \E y \in Xfers : CompleteTransfer(y)
    BY <1>1, <2>0, <2>8 DEF CompleteTransfer, SetStatus, TransferTypes
  <2>9. CASE \E y \in Xfers : EndLocally(y)
    BY <1>1, <2>0, <2>9 DEF EndLocally, Negotiated, Running, CancelLocal, SetStatus,
      TransferTypes
  <2>10. CASE \E y \in Xfers : EndRemotely(y)
    BY <1>1, <2>0, <2>10 DEF EndRemotely, CancelRemote, SetStatus, TransferTypes
  <2>11. CASE \E y \in Xfers : CancelFileTransfer(y)
    BY <1>1, <2>0, <2>11
    DEF CancelFileTransfer, CancelLocal, SetStatus, TransferTypes, RemoteInv
  <2>12. CASE HandleMessage
    BY <1>1, <2>12
    DEF HandleMessage, NotifyRequestFileTransferAsync, NotifyFileTransferInit,
        NotifyFileTransferUpdateProgress, NotifyFileTransferCanceled, libVars
  <2>13. CASE \E y \in Sends : ClientAnswers(y) \/ PickTransfer(y)
    BY <1>1, <2>13 DEF ClientAnswers, PickTransfer, libVars
  <2>14. CASE \E y \in Receives : RequestActionThread(y) \/ AcceptFileAsync(y)
                              \/ CloseConversation(y) \/ NotificationClosed(y)
    BY <1>1, <2>14
    DEF RequestActionThread, AcceptFileAsync, CloseConversation, NotificationClosed, libVars
  <2>15. CASE \E y \in Xfers : TransferBytes(y)
    BY <1>1, <2>15 DEF TransferBytes
  <2>16. CASE UNCHANGED vars
    BY <1>1, <2>16 DEF vars, libVars
  <2>. QED
    BY <1>1, <2>1, <2>2, <2>3, <2>4, <2>5, <2>6, <2>7, <2>8, <2>9, <2>10, <2>11, <2>12, <2>13,
       <2>14, <2>15, <2>16
    DEF FileTransferNext, CancelFileTransfers
<1>2. TransferInv /\ [FileTransferNext]_vars
        => [\A x \in Xfers : status[x] = "cancelRemote" => status'[x] = "cancelRemote"]_vars
  BY <1>1
<1>. QED
  BY <1>2, TransferInvariant, PTL DEF FileTransferSpec, RemoteCancelIsKept

\* ShownEndIsKept, for any transfers: what the thread of the user interface
\* reads from a transfer whose end has been shown is an end.
THEOREM ShownEndKept == FileTransferSpec => ShownEndIsKept
<1>1. ASSUME TransferInv, [FileTransferNext]_vars, NEW x \in Xfers, shown[x] \in Final
      PROVE  shown'[x] \in Final
  <2>0. TransferTypes /\ ShownInv /\ QueueInv
    BY <1>1 DEF TransferInv
  <2>1. ASSUME NEW y \in Xfers, CancelFileTransfer(y) PROVE shown'[x] \in Final
    BY <1>1, <2>0, <2>1 DEF CancelFileTransfer, ShownInv, TransferTypes
  <2>2. ASSUME NEW y \in Xfers, NotifyFileTransferInit(y) PROVE shown'[x] \in Final
    <3>1. queue[1] = Message("init", y) /\ 1 \in 1 .. Len(queue)
      BY <2>0, <2>2, ReceivedQueue, QueuedMessages DEF NotifyFileTransferInit, Kinds
    <3>2. shown[y] = "absent"
      BY <2>0, <3>1 DEF QueueInv, Message
    <3>. QED
      BY <1>1, <2>0, <2>2, <3>2 DEF NotifyFileTransferInit, TransferTypes, Final
  <2>3. ASSUME NEW y \in Xfers, NotifyFileTransferUpdateProgress(y) PROVE shown'[x] \in Final
    BY <1>1, <2>0, <2>3 DEF NotifyFileTransferUpdateProgress, ShownInv, TransferTypes
  <2>4. ASSUME NEW y \in Xfers, NotifyFileTransferCanceled(y) PROVE shown'[x] \in Final
    BY <1>1, <2>0, <2>4 DEF NotifyFileTransferCanceled, ShownInv, TransferTypes
  <2>5. ASSUME \/ UNCHANGED vars
               \/ \E y \in Sends : SendFile(y)
               \/ \E y \in Sends : ClientAnswers(y)
               \/ \E y \in Sends : PickTransfer(y)
               \/ \E y \in Sends : CancelPicked(y)
               \/ \E y \in Receives : OfferFile(y)
               \/ \E y \in Receives : RequestActionThread(y)
               \/ \E y \in Receives : AcceptFileAsync(y)
               \/ \E y \in Receives : RejectFileAsync(y)
               \/ \E y \in Receives : CloseConversation(y)
               \/ \E y \in Receives : PathChosen(y)
               \/ \E y \in Receives : PathRefused(y) \/ NotificationClosed(y)
               \/ \E y \in Xfers : StartTransfer(y)
               \/ \E y \in Xfers : TransferBytes(y)
               \/ \E y \in Xfers : CompleteTransfer(y)
               \/ \E y \in Xfers : EndLocally(y)
               \/ \E y \in Xfers : EndRemotely(y)
               \/ \E y \in Receives : NotifyRequestFileTransferAsync(y)
        PROVE  UNCHANGED shown
    BY <2>5
    DEF SendFile, ClientAnswers, PickTransfer, CancelPicked, OfferFile,
        RequestActionThread, AcceptFileAsync, RejectFileAsync, CloseConversation,
        PathChosen, PathRefused, NotificationClosed, StartTransfer, TransferBytes,
        CompleteTransfer, EndLocally,
        EndRemotely, NotifyRequestFileTransferAsync, vars
  <2>. QED
    BY <1>1, <2>1, <2>2, <2>3, <2>4, <2>5
    DEF FileTransferNext, HandleMessage, CancelFileTransfers
<1>2. TransferInv /\ [FileTransferNext]_vars
        => [\A x \in Xfers : shown[x] \in Final => shown'[x] \in Final]_vars
  BY <1>1
<1>. QED
  BY <1>2, TransferInvariant, PTL DEF FileTransferSpec, ShownEndIsKept
=============================================================================
