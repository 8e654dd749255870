----------------------- MODULE AccountConnection_proofs -----------------------
(***************************************************************************)
(* What the user interface shows of an account agrees with libpurple once  *)
(* nothing of the account is on its way, for any accounts, any number of   *)
(* acts of the user and queues of any length.                              *)
(***************************************************************************)
EXTENDS AccountConnection, SequenceTheorems, TLAPS

\* A queue has no notification of an account, or this one as the last of them.
NoneOf(queue, a) == \A i \in DOMAIN queue : queue[i].account # a
LastOf(queue, e, a) == \E i \in DOMAIN queue :
  /\ queue[i].event = e /\ queue[i].account = a
  /\ \A j \in DOMAIN queue : j > i => queue[j].account # a

\* The notifications of an account on their way are its messages, then its threads.
Nothing(a) == NoneOf(notifiers, a) /\ NoneOf(messages, a)
LastIs(e, a) ==
  LastOf(notifiers, e, a) \/ (NoneOf(notifiers, a) /\ LastOf(messages, e, a))

Holds(queue, a) == \E i \in DOMAIN queue : queue[i] = a
Disconnecting(a) == Queued("disconnect", a) \/ Holds(disconnectSources, a)

\* No notification of the account has overtaken another one, no dialog has ended for an
\* account that was connected meanwhile, and the protocol has refused no connection.
InOrder(a) == ~preFinalizeDone /\ upsets[a] \subseteq {"raced"}

\* An error is one of a connection; Connect goes on for an account that is not connected.
ConnectInv ==
  /\ \A a \in Accounts : purpleError[a] => purpleState[a] \in {"connecting", "online"}
  /\ \A a \in Accounts : InOrder(a) /\ uimPc[a] = "connect" => connectionState[a] # "connected"

\* The last notification on its way or, when there is none, the connection that is shown
\* tells what libpurple has done last.
Told(a) ==
  /\ purpleState[a] \in {"unregistered", "offline"} =>
       (Nothing(a) /\ connectionState[a] = "disconnected") \/ LastIs("disconnected", a)
  /\ purpleState[a] = "connecting" /\ ~purpleError[a] =>
       (Nothing(a) /\ connectionState[a] # "connected") \/ LastIs("disconnected", a)
  /\ purpleState[a] = "online" /\ ~purpleError[a] /\ ~Disconnecting(a) =>
       (Nothing(a) /\ connectionState[a] = "connected") \/ LastIs("connected", a)

NewsInv == \A a \in Accounts : InOrder(a) => Told(a)

\* The last status of the account that is queued.
RequestOf(op, a) == op.method = "set_status" /\ op.account = a
LastRequest(queue, a, s) == \E i \in DOMAIN queue :
  /\ RequestOf(queue[i], a) /\ queue[i].status = s
  /\ \A j \in DOMAIN queue : j > i => ~RequestOf(queue[j], a)

\* The status shown is the one requested last, or libpurple has it, unless the connection
\* is about to be lost.
ShownConnected(a) ==
  /\ ~preFinalizeDone /\ upsets[a] = {}
  /\ connectionState[a] = "connected" /\ userStatus[a] # "offline"

StatusTold(a) ==
  \/ ~Nothing(a) \/ purpleError[a] \/ Disconnecting(a)
  \/ LastRequest(asyncExecList, a, userStatus[a])
  \/ ~Queued("set_status", a) /\ purpleStatus[a] = ProtocolStatus(userStatus[a])

StatusInv == \A a \in Accounts : ShownConnected(a) => StatusTold(a)

AccountInv ==
  /\ AccountTypeOK
  /\ ErrorsAreNotConnected
  /\ ConnectInv
  /\ NewsInv
  /\ StatusInv

-----------------------------------------------------------------------------
(* The queues.                                                              *)

\* What a queue tells after a notification has been added at its end.
LEMMA AppendNews ==
  ASSUME NEW queue \in Seq(Notifications), NEW n \in Notifications, NEW a
  PROVE  /\ NoneOf(Append(queue, n), a) <=> NoneOf(queue, a) /\ n.account # a
         /\ \A e : LastOf(Append(queue, n), e, a) <=>
              IF n.account = a THEN n.event = e ELSE LastOf(queue, e, a)
<1>. DEFINE longer == Append(queue, n)
<1>1. /\ DOMAIN queue = 1 .. Len(queue) /\ Len(queue) \in Nat
      /\ DOMAIN longer = 1 .. Len(queue) + 1
      /\ \A i \in 1 .. Len(queue) : longer[i] = queue[i]
      /\ longer[Len(queue) + 1] = n
  BY AppendProperties, LenProperties
<1>. HIDE DEF longer
<1>2. NoneOf(longer, a) <=> NoneOf(queue, a) /\ n.account # a
  BY <1>1 DEF NoneOf
<1>3. ASSUME NEW e PROVE LastOf(longer, e, a) <=>
        IF n.account = a THEN n.event = e ELSE LastOf(queue, e, a)
  BY <1>1 DEF LastOf
<1>. QED
  BY <1>2, <1>3 DEF longer

\* What it tells after the first one has been taken.
LEMMA TailNews ==
  ASSUME NEW queue \in Seq(Notifications), queue # <<>>, NEW a
  PROVE  /\ NoneOf(queue, a) <=> NoneOf(Tail(queue), a) /\ Head(queue).account # a
         /\ \A e : LastOf(queue, e, a) <=>
              \/ LastOf(Tail(queue), e, a)
              \/ NoneOf(Tail(queue), a) /\ Head(queue).account = a /\ Head(queue).event = e
<1>. DEFINE rest == Tail(queue)
<1>1. /\ DOMAIN queue = 1 .. Len(queue) /\ Len(queue) \in Nat \ {0}
      /\ DOMAIN rest = 1 .. Len(queue) - 1
      /\ \A i \in 1 .. Len(queue) - 1 : rest[i] = queue[i + 1]
      /\ Head(queue) = queue[1]
  BY HeadTailProperties, LenProperties, EmptySeq
<1>. HIDE DEF rest
<1>2. \A i \in DOMAIN queue : i = 1 \/ (i - 1 \in DOMAIN rest /\ rest[i - 1] = queue[i])
  BY <1>1
<1>3. \A i \in DOMAIN rest : i + 1 \in DOMAIN queue /\ rest[i] = queue[i + 1]
  BY <1>1
<1>4. NoneOf(queue, a) <=> NoneOf(rest, a) /\ queue[1].account # a
  BY <1>1, <1>2, <1>3 DEF NoneOf
<1>5. ASSUME NEW e, LastOf(queue, e, a)
      PROVE  LastOf(rest, e, a) \/ (NoneOf(rest, a) /\ queue[1].account = a /\ queue[1].event = e)
  <2>1. PICK i \in DOMAIN queue : /\ queue[i].event = e /\ queue[i].account = a
                                  /\ \A j \in DOMAIN queue : j > i => queue[j].account # a
    BY <1>5 DEF LastOf
  <2>2. CASE i = 1
    BY <2>1, <2>2, <1>1 DEF NoneOf
  <2>3. CASE i # 1
    <3>1. i - 1 \in DOMAIN rest /\ rest[i - 1] = queue[i]
      BY <2>3, <1>2
    <3>2. \A j \in DOMAIN rest : j > i - 1 => rest[j].account # a
      BY <2>1, <2>3, <1>1, <1>3
    <3>. QED
      BY <2>1, <3>1, <3>2 DEF LastOf
  <2>. QED
    BY <2>2, <2>3
<1>6. ASSUME NEW e, LastOf(rest, e, a) PROVE LastOf(queue, e, a)
  <2>1. PICK i \in DOMAIN rest : /\ rest[i].event = e /\ rest[i].account = a
                                 /\ \A j \in DOMAIN rest : j > i => rest[j].account # a
    BY <1>6 DEF LastOf
  <2>2. \A j \in DOMAIN queue : j > i + 1 => queue[j].account # a
    BY <2>1, <1>1, <1>2
  <2>. QED
    BY <2>1, <2>2, <1>1, <1>3 DEF LastOf
<1>7. ASSUME NEW e, NoneOf(rest, a), queue[1].account = a, queue[1].event = e
      PROVE  LastOf(queue, e, a)
  <2>1. \A j \in DOMAIN queue : j > 1 => queue[j].account # a
    BY <1>7, <1>1, <1>2 DEF NoneOf
  <2>. QED
    BY <2>1, <1>7, <1>1 DEF LastOf
<1>. QED
  BY <1>1, <1>4, <1>5, <1>6, <1>7 DEF rest

\* What is left of a queue without its i-th element.
Rest(queue, i) == SubSeq(queue, 1, i - 1) \o SubSeq(queue, i + 1, Len(queue))

LEMMA RestOfQueue ==
  ASSUME NEW S, NEW queue \in Seq(S), NEW i \in DOMAIN queue
  PROVE  /\ Rest(queue, i) \in Seq(S)
         /\ \A j \in DOMAIN queue : j < i =>
              j \in DOMAIN Rest(queue, i) /\ Rest(queue, i)[j] = queue[j]
         /\ \A j \in DOMAIN queue : j > i =>
              j - 1 \in DOMAIN Rest(queue, i) /\ Rest(queue, i)[j - 1] = queue[j]
         /\ \A k \in DOMAIN Rest(queue, i) :
              \/ k < i /\ k \in DOMAIN queue /\ Rest(queue, i)[k] = queue[k]
              \/ k >= i /\ k + 1 \in DOMAIN queue /\ Rest(queue, i)[k] = queue[k + 1]
<1>. DEFINE before == SubSeq(queue, 1, i - 1)
            after == SubSeq(queue, i + 1, Len(queue))
            rest == before \o after
<1>1. DOMAIN queue = 1 .. Len(queue) /\ Len(queue) \in Nat /\ i \in 1 .. Len(queue)
  BY LenProperties
<1>2. /\ before \in Seq(S) /\ Len(before) = i - 1
      /\ \A j \in 1 .. i - 1 : before[j] = queue[j]
  BY <1>1, SubSeqProperties, ElementOfSeq
<1>3. /\ after \in Seq(S) /\ Len(after) = Len(queue) - i
      /\ \A j \in 1 .. Len(queue) - i : after[j] = queue[i + j]
  <2>1. \A j \in i + 1 .. Len(queue) : queue[j] \in S
    BY <1>1, ElementOfSeq
  <2>2. /\ after \in Seq(S)
        /\ Len(after) = IF i + 1 <= Len(queue) THEN Len(queue) - (i + 1) + 1 ELSE 0
        /\ \A j \in 1 .. Len(queue) - (i + 1) + 1 : after[j] = queue[(i + 1) + j - 1]
    <3>1. i + 1 \in Int /\ Len(queue) \in Int
      BY <1>1
    <3>. QED
      BY <3>1, <2>1, SubSeqProperties
  <2>3. ASSUME NEW j \in 1 .. Len(queue) - i PROVE after[j] = queue[i + j]
    <3>1. j \in 1 .. Len(queue) - (i + 1) + 1 /\ (i + 1) + j - 1 = i + j
      BY <1>1
    <3>. QED
      BY <3>1, <2>2
  <2>. QED
    BY <1>1, <2>2, <2>3
<1>. HIDE DEF before, after
<1>4. /\ rest \in Seq(S) /\ Len(rest) = Len(before) + Len(after)
      /\ \A j \in 1 .. Len(before) + Len(after) :
           rest[j] = IF j <= Len(before) THEN before[j] ELSE after[j - Len(before)]
  BY <1>2, <1>3, ConcatProperties
<1>5. DOMAIN rest = 1 .. Len(rest)
  BY <1>4, LenProperties
<1>. HIDE DEF rest
<1>6. DOMAIN rest = 1 .. Len(queue) - 1
  BY <1>1, <1>2, <1>3, <1>4, <1>5
<1>7. ASSUME NEW j \in DOMAIN queue, j < i PROVE j \in DOMAIN rest /\ rest[j] = queue[j]
  BY <1>1, <1>2, <1>3, <1>4, <1>6, <1>7
<1>8. ASSUME NEW j \in DOMAIN queue, j > i PROVE j - 1 \in DOMAIN rest /\ rest[j - 1] = queue[j]
  <2>1. j - 1 \in 1 .. Len(before) + Len(after) /\ ~(j - 1 <= Len(before))
    BY <1>1, <1>2, <1>3, <1>8
  <2>2. (j - 1) - Len(before) = j - i /\ j - i \in 1 .. Len(queue) - i /\ i + (j - i) = j
    BY <1>1, <1>2, <1>8
  <2>3. rest[j - 1] = after[j - i]
    BY <1>4, <2>1, <2>2
  <2>4. after[j - i] = queue[i + (j - i)]
    BY <1>3, <2>2
  <2>5. j - 1 \in DOMAIN rest
    BY <1>1, <1>6, <1>8
  <2>. QED
    BY <2>2, <2>3, <2>4, <2>5
<1>9. ASSUME NEW k \in DOMAIN rest
      PROVE  \/ k < i /\ k \in DOMAIN queue /\ rest[k] = queue[k]
             \/ k >= i /\ k + 1 \in DOMAIN queue /\ rest[k] = queue[k + 1]
  <2>1. CASE k < i
    BY <2>1, <1>1, <1>6, <1>7
  <2>2. CASE k >= i
    <3>1. k + 1 \in DOMAIN queue /\ k + 1 > i /\ (k + 1) - 1 = k
      BY <2>2, <1>1, <1>6
    <3>. QED
      BY <2>2, <3>1, <1>8
  <2>. QED
    BY <2>1, <2>2, <1>1, <1>6
<1>10. rest = Rest(queue, i)
  BY DEF rest, before, after, Rest
<1>. QED
  BY <1>4, <1>7, <1>8, <1>9, <1>10

\* What it tells after the i-th one, which is the first of its account, has been taken.
LEMMA RemoveNews ==
  ASSUME NEW queue \in Seq(Notifications), NEW i \in DOMAIN queue, NEW a
  PROVE  /\ Rest(queue, i) \in Seq(Notifications)
         /\ NoneOf(queue, a) <=> NoneOf(Rest(queue, i), a) /\ queue[i].account # a
         /\ queue[i].account # a \/ (\A j \in 1 .. i - 1 : queue[j].account # a) =>
              \A e : LastOf(queue, e, a) <=>
                \/ LastOf(Rest(queue, i), e, a)
                \/ /\ NoneOf(Rest(queue, i), a)
                   /\ queue[i].account = a /\ queue[i].event = e
<1>. DEFINE rest == Rest(queue, i)
<1>1. /\ rest \in Seq(Notifications)
      /\ \A j \in DOMAIN queue : j < i => j \in DOMAIN rest /\ rest[j] = queue[j]
      /\ \A j \in DOMAIN queue : j > i => j - 1 \in DOMAIN rest /\ rest[j - 1] = queue[j]
      /\ \A k \in DOMAIN rest : \/ k < i /\ k \in DOMAIN queue /\ rest[k] = queue[k]
                                \/ k >= i /\ k + 1 \in DOMAIN queue /\ rest[k] = queue[k + 1]
  BY RestOfQueue
<1>. HIDE DEF rest
<1>2. /\ DOMAIN queue \subseteq Int /\ DOMAIN rest \subseteq Int /\ i \in Int
      /\ \A j \in DOMAIN queue : j < i => j \in 1 .. i - 1
  <2>1. DOMAIN queue = 1 .. Len(queue) /\ DOMAIN rest = 1 .. Len(rest)
        /\ Len(queue) \in Nat /\ Len(rest) \in Nat
    BY <1>1, LenProperties
  <2>. QED
    BY <2>1
<1>3. NoneOf(queue, a) <=> NoneOf(rest, a) /\ queue[i].account # a
  <2>1. ASSUME NoneOf(queue, a) PROVE NoneOf(rest, a)
    BY <2>1, <1>1 DEF NoneOf
  <2>2. ASSUME NoneOf(rest, a), queue[i].account # a, NEW j \in DOMAIN queue
        PROVE  queue[j].account # a
    <3>1. j = i \/ j < i \/ j > i
      BY <1>2
    <3>. QED
      BY <2>2, <3>1, <1>1 DEF NoneOf
  <2>. QED
    BY <2>1, <2>2 DEF NoneOf
<1>4. ASSUME queue[i].account # a \/ (\A j \in 1 .. i - 1 : queue[j].account # a), NEW e
      PROVE  LastOf(queue, e, a) <=>
               \/ LastOf(rest, e, a)
               \/ NoneOf(rest, a) /\ queue[i].account = a /\ queue[i].event = e
  <2>1. ASSUME LastOf(queue, e, a)
        PROVE  \/ LastOf(rest, e, a)
               \/ NoneOf(rest, a) /\ queue[i].account = a /\ queue[i].event = e
    <3>1. PICK k \in DOMAIN queue : /\ queue[k].event = e /\ queue[k].account = a
                                    /\ \A j \in DOMAIN queue : j > k => queue[j].account # a
      BY <2>1 DEF LastOf
    <3>2. CASE k < i
      <4>1. queue[i].account # a
        BY <3>1, <3>2
      <4>2. ASSUME NEW j \in DOMAIN rest, j > k PROVE rest[j].account # a
        <5>1. j < i \/ (j + 1 > k /\ j + 1 > i)
          BY <3>2, <4>2, <1>2
        <5>. QED
          BY <5>1, <4>2, <3>1, <1>1, <1>2
      <4>. QED
        BY <4>2, <3>1, <3>2, <1>1 DEF LastOf
    <3>3. CASE k > i
      <4>1. ASSUME NEW j \in DOMAIN rest, j > k - 1 PROVE rest[j].account # a
        <5>1. j >= i /\ j + 1 > k
          BY <3>3, <4>1, <1>2
        <5>2. ~(j < i)
          BY <5>1, <1>2
        <5>. QED
          BY <5>1, <5>2, <3>1, <1>1
      <4>. QED
        BY <4>1, <3>1, <3>3, <1>1 DEF LastOf
    <3>4. CASE k = i
      <4>1. ASSUME NEW j \in DOMAIN rest PROVE rest[j].account # a
        <5>1. CASE j < i
          <6>1. j \in DOMAIN queue /\ rest[j] = queue[j] /\ j \in 1 .. i - 1
            BY <5>1, <1>1, <1>2
          <6>. QED
            BY <6>1, <3>1, <3>4, <1>4
        <5>2. CASE ~(j < i)
          <6>1. j + 1 \in DOMAIN queue /\ rest[j] = queue[j + 1] /\ j + 1 > k
            BY <5>2, <3>4, <1>1, <1>2
          <6>. QED
            BY <6>1, <3>1
        <5>. QED
          BY <5>1, <5>2
      <4>. QED
        BY <4>1, <3>1, <3>4 DEF NoneOf
    <3>. QED
      BY <3>2, <3>3, <3>4, <1>2
  <2>2. ASSUME LastOf(rest, e, a) PROVE LastOf(queue, e, a)
    <3>1. PICK k \in DOMAIN rest : /\ rest[k].event = e /\ rest[k].account = a
                                   /\ \A j \in DOMAIN rest : j > k => rest[j].account # a
      BY <2>2 DEF LastOf
    <3>2. CASE k < i
      <4>1. k \in DOMAIN queue /\ queue[k] = rest[k] /\ k \in 1 .. i - 1
        BY <3>2, <1>1, <1>2
      <4>2. queue[i].account # a
        BY <4>1, <3>1, <1>4
      <4>3. ASSUME NEW j \in DOMAIN queue, j > k PROVE queue[j].account # a
        <5>1. j = i \/ j < i \/ (j > i /\ j - 1 > k)
          BY <3>2, <1>2
        <5>. QED
          BY <5>1, <4>2, <4>3, <3>1, <1>1
      <4>. QED
        BY <4>1, <4>3, <3>1 DEF LastOf
    <3>3. CASE ~(k < i)
      <4>1. k + 1 \in DOMAIN queue /\ queue[k + 1] = rest[k]
        BY <3>3, <1>1
      <4>2. ASSUME NEW j \in DOMAIN queue, j > k + 1 PROVE queue[j].account # a
        <5>1. j > i /\ j - 1 > k
          BY <3>3, <4>2, <1>2
        <5>. QED
          BY <5>1, <3>1, <1>1
      <4>. QED
        BY <4>1, <4>2, <3>1 DEF LastOf
    <3>. QED
      BY <3>2, <3>3
  <2>3. ASSUME NoneOf(rest, a), queue[i].account = a, queue[i].event = e
        PROVE  LastOf(queue, e, a)
    <3>1. \A j \in DOMAIN queue : j > i => queue[j].account # a
      BY <2>3, <1>1 DEF NoneOf
    <3>. QED
      BY <2>3, <3>1 DEF LastOf
  <2>. QED
    BY <2>1, <2>2, <2>3
<1>. QED
  BY <1>1, <1>3, <1>4 DEF rest

\* The operations that are queued, after one has been added, and after one has been taken.
QueuedIn(queue, m, a) == \E i \in DOMAIN queue : queue[i].method = m /\ queue[i].account = a

LEMMA AppendRequest ==
  ASSUME NEW queue \in Seq(Operations), NEW op \in Operations, NEW a
  PROVE  /\ \A m : QueuedIn(Append(queue, op), m, a) <=>
              QueuedIn(queue, m, a) \/ (op.method = m /\ op.account = a)
         /\ \A s : LastRequest(Append(queue, op), a, s) <=>
              IF RequestOf(op, a) THEN op.status = s ELSE LastRequest(queue, a, s)
<1>. DEFINE longer == Append(queue, op)
<1>1. /\ DOMAIN queue = 1 .. Len(queue) /\ Len(queue) \in Nat
      /\ DOMAIN longer = 1 .. Len(queue) + 1
      /\ \A i \in 1 .. Len(queue) : longer[i] = queue[i]
      /\ longer[Len(queue) + 1] = op
  BY AppendProperties, LenProperties
<1>. HIDE DEF longer
<1>2. ASSUME NEW m PROVE QueuedIn(longer, m, a) <=>
        QueuedIn(queue, m, a) \/ (op.method = m /\ op.account = a)
  BY <1>1 DEF QueuedIn
<1>3. ASSUME NEW s PROVE LastRequest(longer, a, s) <=>
        IF RequestOf(op, a) THEN op.status = s ELSE LastRequest(queue, a, s)
  BY <1>1 DEF LastRequest
<1>. QED
  BY <1>2, <1>3 DEF longer

LEMMA TailRequest ==
  ASSUME NEW queue \in Seq(Operations), queue # <<>>, NEW a
  PROVE  /\ \A m : QueuedIn(queue, m, a) <=>
              QueuedIn(Tail(queue), m, a) \/ (Head(queue).method = m /\ Head(queue).account = a)
         /\ \A s : LastRequest(queue, a, s) =>
              \/ LastRequest(Tail(queue), a, s)
              \/ /\ ~QueuedIn(Tail(queue), "set_status", a)
                 /\ RequestOf(Head(queue), a) /\ Head(queue).status = s
<1>. DEFINE rest == Tail(queue)
<1>1. /\ DOMAIN queue = 1 .. Len(queue) /\ Len(queue) \in Nat \ {0}
      /\ DOMAIN rest = 1 .. Len(queue) - 1
      /\ \A i \in 1 .. Len(queue) - 1 : rest[i] = queue[i + 1]
      /\ Head(queue) = queue[1]
  BY HeadTailProperties, LenProperties, EmptySeq
<1>. HIDE DEF rest
<1>2. \A i \in DOMAIN queue : i = 1 \/ (i - 1 \in DOMAIN rest /\ rest[i - 1] = queue[i])
  BY <1>1
<1>3. \A i \in DOMAIN rest : i + 1 \in DOMAIN queue /\ rest[i] = queue[i + 1]
  BY <1>1
<1>4. ASSUME NEW m PROVE QueuedIn(queue, m, a) <=>
        QueuedIn(rest, m, a) \/ (queue[1].method = m /\ queue[1].account = a)
  BY <1>1, <1>2, <1>3 DEF QueuedIn
<1>5. ASSUME NEW s, LastRequest(queue, a, s)
      PROVE  \/ LastRequest(rest, a, s)
             \/ /\ ~QueuedIn(rest, "set_status", a)
                /\ RequestOf(queue[1], a) /\ queue[1].status = s
  <2>1. PICK i \in DOMAIN queue :
          /\ RequestOf(queue[i], a) /\ queue[i].status = s
          /\ \A j \in DOMAIN queue : j > i => ~RequestOf(queue[j], a)
    BY <1>5 DEF LastRequest
  <2>2. CASE i = 1
    <3>1. \A j \in DOMAIN rest : ~RequestOf(rest[j], a)
      BY <2>1, <2>2, <1>1, <1>3
    <3>. QED
      BY <2>1, <2>2, <3>1 DEF QueuedIn, RequestOf
  <2>3. CASE i # 1
    <3>1. i - 1 \in DOMAIN rest /\ rest[i - 1] = queue[i]
      BY <2>3, <1>2
    <3>2. \A j \in DOMAIN rest : j > i - 1 => ~RequestOf(rest[j], a)
      BY <2>1, <2>3, <1>1, <1>3
    <3>. QED
      BY <2>1, <3>1, <3>2 DEF LastRequest
  <2>. QED
    BY <2>2, <2>3
<1>. QED
  BY <1>1, <1>4, <1>5 DEF rest

\* The sources of the main loop, likewise.
LEMMA AppendSource ==
  ASSUME NEW queue \in Seq(Accounts), NEW a \in Accounts
  PROVE  \A b : Holds(Append(queue, a), b) <=> Holds(queue, b) \/ a = b
<1>. DEFINE longer == Append(queue, a)
<1>1. /\ DOMAIN queue = 1 .. Len(queue) /\ Len(queue) \in Nat
      /\ DOMAIN longer = 1 .. Len(queue) + 1
      /\ \A i \in 1 .. Len(queue) : longer[i] = queue[i]
      /\ longer[Len(queue) + 1] = a
  BY AppendProperties, LenProperties
<1>. HIDE DEF longer
<1>2. \A b : Holds(longer, b) <=> Holds(queue, b) \/ a = b
  BY <1>1 DEF Holds
<1>. QED
  BY <1>2 DEF longer

LEMMA TailSource ==
  ASSUME NEW queue \in Seq(Accounts), queue # <<>>
  PROVE  \A b : Holds(queue, b) <=> Holds(Tail(queue), b) \/ Head(queue) = b
<1>. DEFINE rest == Tail(queue)
<1>1. /\ DOMAIN queue = 1 .. Len(queue) /\ Len(queue) \in Nat \ {0}
      /\ DOMAIN rest = 1 .. Len(queue) - 1
      /\ \A i \in 1 .. Len(queue) - 1 : rest[i] = queue[i + 1]
      /\ Head(queue) = queue[1]
  BY HeadTailProperties, LenProperties, EmptySeq
<1>. HIDE DEF rest
<1>2. \A i \in DOMAIN queue : i = 1 \/ (i - 1 \in DOMAIN rest /\ rest[i - 1] = queue[i])
  BY <1>1
<1>3. \A i \in DOMAIN rest : i + 1 \in DOMAIN queue /\ rest[i] = queue[i + 1]
  BY <1>1
<1>4. \A b : Holds(queue, b) <=> Holds(rest, b) \/ queue[1] = b
  BY <1>1, <1>2, <1>3 DEF Holds
<1>. QED
  BY <1>1, <1>4 DEF rest

-----------------------------------------------------------------------------
(* What the steps do to the notifications, the operations and the requests. *)

\* Nothing is lost or added while both queues stay.
LEMMA NewsStays ==
  ASSUME UNCHANGED <<notifiers, messages>>
  PROVE  \A b : /\ Nothing(b)' <=> Nothing(b)
                /\ \A x : LastIs(x, b)' <=> LastIs(x, b)
  BY DEF Nothing, LastIs

LEMMA LastIsSomething ==
  ASSUME NEW e, NEW a, LastIs(e, a)
  PROVE  ~Nothing(a)
  BY DEF LastIs, Nothing, LastOf, NoneOf

\* A thread that is started has the last notification of its account.
LEMMA NotifierStarted ==
  ASSUME AccountTypeOK, NEW e \in Events, NEW a \in Accounts,
         StartNotifier(e, a), messages' = messages
  PROVE  /\ notifiers' \in Seq(Notifications)
         /\ LastIs(e, a)'
         /\ \A b : b # a => /\ Nothing(b)' <=> Nothing(b)
                            /\ \A x : LastIs(x, b)' <=> LastIs(x, b)
<1>. DEFINE n == [event |-> e, account |-> a]
<1>1. /\ notifiers \in Seq(Notifications) /\ n \in Notifications
      /\ notifiers' = Append(notifiers, n) /\ n.event = e /\ n.account = a
  BY DEF AccountTypeOK, Notifications, StartNotifier
<1>. HIDE DEF n
<1>2. notifiers' \in Seq(Notifications)
  BY <1>1, AppendProperties
<1>3. \A b : /\ NoneOf(notifiers', b) <=> NoneOf(notifiers, b) /\ a # b
             /\ \A x : LastOf(notifiers', x, b) <=> IF a = b THEN e = x ELSE LastOf(notifiers, x, b)
  BY <1>1, AppendNews
<1>4. LastIs(e, a)'
  BY <1>3 DEF LastIs
<1>5. ASSUME NEW b, b # a
      PROVE  (Nothing(b)' <=> Nothing(b)) /\ (\A x : LastIs(x, b)' <=> LastIs(x, b))
  BY <1>3, <1>5 DEF Nothing, LastIs
<1>. QED
  BY <1>2, <1>4, <1>5

\* A notification that is posted in its turn keeps its place.
LEMMA NotificationPosted ==
  ASSUME AccountTypeOK, NEW i \in DOMAIN notifiers, PostNotification(i)
  PROVE  /\ notifiers' \in Seq(Notifications)
         /\ messages' \in Seq(Notifications)
         /\ notifiers[i].account \in Accounts
         /\ ~preFinalizeDone => \A b \in Accounts : Nothing(b)' <=> Nothing(b)
         /\ \A b \in Accounts : InOrder(b)' =>
              InOrder(b) /\ \A x : LastIs(x, b) => LastIs(x, b)'
<1>1. /\ notifiers \in Seq(Notifications) /\ messages \in Seq(Notifications)
      /\ upsets \in [Accounts -> SUBSET Upsets]
      /\ preFinalizeDone' = preFinalizeDone
  BY DEF AccountTypeOK, PostNotification, uimVars
<1>2. notifiers[i] \in Notifications
  BY <1>1, LenProperties, ElementOfSeq
<1>3. notifiers[i].account \in Accounts
  BY <1>2 DEF Notifications
<1>4. notifiers' = Rest(notifiers, i) /\ notifiers' \in Seq(Notifications)
  BY <1>1, RemoveNews DEF PostNotification, Rest
<1>5. messages' = IF preFinalizeDone THEN messages ELSE Append(messages, notifiers[i])
  BY DEF PostNotification
<1>6. messages' \in Seq(Notifications)
  BY <1>1, <1>2, <1>5, AppendProperties
<1>7. \A b : /\ NoneOf(notifiers, b) <=> NoneOf(notifiers', b) /\ notifiers[i].account # b
             /\ notifiers[i].account # b \/ (\A j \in 1 .. i - 1 : notifiers[j].account # b) =>
                  \A e : LastOf(notifiers, e, b) <=>
                    \/ LastOf(notifiers', e, b)
                    \/ NoneOf(notifiers', b) /\ notifiers[i].account = b /\ notifiers[i].event = e
  BY <1>1, <1>4, RemoveNews
<1>8. ~preFinalizeDone =>
        \A b : /\ NoneOf(messages', b) <=> NoneOf(messages, b) /\ notifiers[i].account # b
               /\ \A e : LastOf(messages', e, b) <=>
                    IF notifiers[i].account = b THEN notifiers[i].event = e
                                                ELSE LastOf(messages, e, b)
  BY <1>1, <1>2, <1>5, AppendNews
<1>9. ~preFinalizeDone => \A b \in Accounts : Nothing(b)' <=> Nothing(b)
  BY <1>7, <1>8 DEF Nothing
<1>10. ASSUME NEW b \in Accounts, InOrder(b)'
       PROVE  InOrder(b) /\ \A x : LastIs(x, b) => LastIs(x, b)'
  <2>1. /\ upsets[b] \subseteq upsets'[b]
        /\ notifiers[i].account = b
             /\ (\E j \in 1 .. i - 1 : notifiers[j].account = notifiers[i].account)
           => "overtaken" \in upsets'[b]
    BY <1>1, <1>3 DEF PostNotification, Upset
  <2>2. ~preFinalizeDone /\ upsets[b] \subseteq {"raced"} /\ "overtaken" \notin upsets'[b]
    BY <1>1, <1>10, <2>1 DEF InOrder
  <2>3. notifiers[i].account # b \/ (\A j \in 1 .. i - 1 : notifiers[j].account # b)
    BY <2>1, <2>2
  <2>4. \A x : LastIs(x, b) => LastIs(x, b)'
    BY <1>7, <1>8, <2>2, <2>3 DEF LastIs
  <2>. QED
    BY <2>2, <2>4 DEF InOrder
<1>. QED
  BY <1>3, <1>4, <1>6, <1>9, <1>10

\* A message that is taken was the last notification of its account or is not.
LEMMA MessageTaken ==
  ASSUME AccountTypeOK, messages # <<>>, messages' = Tail(messages), notifiers' = notifiers,
         NEW e, NEW a, e = Head(messages).event, a = Head(messages).account
  PROVE  /\ e \in Events /\ a \in Accounts
         /\ messages' \in Seq(Notifications)
         /\ \A b : b # a => /\ Nothing(b)' <=> Nothing(b)
                            /\ \A x : LastIs(x, b)' <=> LastIs(x, b)
         /\ ~Nothing(a)
         /\ \A x : LastIs(x, a) => LastIs(x, a)' \/ (Nothing(a)' /\ x = e)
<1>1. messages \in Seq(Notifications)
  BY DEF AccountTypeOK
<1>2. Head(messages) \in Notifications /\ messages' \in Seq(Notifications)
  BY <1>1, HeadTailProperties
<1>3. e \in Events /\ a \in Accounts
  BY <1>2 DEF Notifications
<1>4. \A b : /\ NoneOf(messages, b) <=> NoneOf(messages', b) /\ a # b
             /\ \A x : LastOf(messages, x, b) <=>
                  LastOf(messages', x, b) \/ (NoneOf(messages', b) /\ a = b /\ e = x)
  BY <1>1, TailNews
<1>5. ASSUME NEW b, b # a
      PROVE  (Nothing(b)' <=> Nothing(b)) /\ (\A x : LastIs(x, b)' <=> LastIs(x, b))
  BY <1>4, <1>5 DEF Nothing, LastIs
<1>6. ~Nothing(a)
  BY <1>4 DEF Nothing
<1>7. ASSUME NEW x, LastIs(x, a) PROVE LastIs(x, a)' \/ (Nothing(a)' /\ x = e)
  BY <1>4, <1>7 DEF Nothing, LastIs
<1>. QED
  BY <1>2, <1>3, <1>5, <1>6, <1>7

-----------------------------------------------------------------------------
(* InternalSetStatus, and what is requested of the protocol.                *)

Connections == {"disconnected", "connecting", "connected"}

LEMMA SetStatusFacts ==
  ASSUME AccountTypeOK, NEW a \in Accounts, NEW s \in Statuses \cup {"auto_away_return"},
         NEW c \in Connections, NEW r, r = InternalSetStatus(a, s, c)
  PROVE  /\ r.status \in Statuses /\ r.previous \in Statuses /\ r.connection \in Connections
         /\ r.request \in {"none", "disconnect", "set_status"}
         /\ r.request = "disconnect" => r.connection = "disconnected"
         /\ r.request # "disconnect" => r.connection = c
         /\ r.request = "set_status" => c = "connected"
         /\ r.request = "none" /\ c = "connected" =>
              r.status = userStatus[a] \/ r.status = "offline"
         /\ s \in {"online", "away", "invisible", "busy"} /\ c = "connected" =>
              r.request # "none"
         /\ s = "offline" => r.request = "none"
         /\ s # "invisible" => r.request # "disconnect"
<1>1. userStatus[a] \in Statuses /\ previousStatus[a] \in Statuses
  BY DEF AccountTypeOK
<1>2. ValidStatus(a, s) # s => s = "invisible"
  BY DEF ValidStatus
<1>3. CASE ValidStatus(a, s) # s
  <2>1. r = [connection |-> "disconnected", status |-> userStatus[a],
             previous |-> previousStatus[a], request |-> "disconnect"]
    BY <1>2, <1>3 DEF InternalSetStatus, Unchanged
  <2>. QED
    BY <1>1, <1>2, <1>3, <2>1 DEF Connections
<1>4. CASE ValidStatus(a, s) = s /\ s = "auto_away" /\ userStatus[a] \in {"invisible", "offline"}
  <2>1. r = [connection |-> c, status |-> userStatus[a],
             previous |-> previousStatus[a], request |-> "none"]
    BY <1>4 DEF InternalSetStatus, Unchanged
  <2>. QED
    BY <1>1, <1>4, <2>1
<1>5. CASE /\ ValidStatus(a, s) = s
           /\ ~(s = "auto_away" /\ userStatus[a] \in {"invisible", "offline"})
  <2>. DEFINE new == IF s = "auto_away_return" THEN previousStatus[a] ELSE s
              previous == IF s = "auto_away_return" THEN previousStatus[a] ELSE userStatus[a]
  <2>1. r = [connection |-> c, status |-> new, previous |-> previous,
             request |-> IF new # "offline" /\ c = "connected" THEN "set_status" ELSE "none"]
    BY <1>5 DEF InternalSetStatus
  <2>2. new \in Statuses /\ previous \in Statuses
    BY <1>1
  <2>3. /\ s = "offline" => new = "offline"
        /\ s \in {"online", "away", "invisible", "busy"} => new # "offline"
    OBVIOUS
  <2>. HIDE DEF new, previous
  <2>. QED
    BY <2>1, <2>2, <2>3
<1>. QED
  BY <1>3, <1>4, <1>5

LEMMA UnchangedFacts ==
  ASSUME NEW a \in Accounts, NEW c, NEW q, NEW r, r = Unchanged(a, c, q)
  PROVE  /\ r.connection = c /\ r.status = userStatus[a] /\ r.previous = previousStatus[a]
         /\ r.request = q
  BY DEF Unchanged

LEMMA BecomesFacts ==
  ASSUME AccountTypeOK, NEW a \in Accounts, NEW r, Becomes(a, r),
         r.connection \in Connections, r.status \in Statuses, r.previous \in Statuses
  PROVE  /\ connectionState' \in [Accounts -> Connections]
         /\ userStatus' \in [Accounts -> Statuses]
         /\ previousStatus' \in [Accounts -> Statuses]
         /\ connectionState'[a] = r.connection /\ userStatus'[a] = r.status
         /\ \A b \in Accounts : b # a =>
              connectionState'[b] = connectionState[b] /\ userStatus'[b] = userStatus[b]
  BY DEF AccountTypeOK, Becomes, Connections

LEMMA OperationFacts ==
  ASSUME NEW m \in {"disconnect", "set_status"}, NEW a \in Accounts, NEW s \in Statuses,
         NEW op, op = Operation(m, a, s)
  PROVE  op \in Operations /\ op.method = m /\ op.account = a /\ op.status = s
  BY DEF Operation, Operations

LEMMA OperationParts ==
  ASSUME NEW op \in Operations
  PROVE  op.method \in {"disconnect", "set_status"} /\ op.account \in Accounts
         /\ op.status \in Statuses
  BY DEF Operations

LEMMA StatusSetFacts ==
  ASSUME AccountTypeOK, NEW a \in Accounts, NEW s \in Statuses
  PROVE  /\ StatusSet(a, s) \in [Accounts -> Statuses]
         /\ \A b \in Accounts : b # a => StatusSet(a, s)[b] = purpleStatus[b]
         /\ purpleState[a] = "online" => StatusSet(a, s)[a] = ProtocolStatus(s)
  BY DEF AccountTypeOK, StatusSet, ProtocolStatus, Statuses

\* A status set at once leaves the queue alone, and is alone if nothing has been upset.
LEMMA RequestedNow ==
  ASSUME AccountTypeOK, NEW a \in Accounts, NEW r, RequestNow(a, r), r.status \in Statuses,
         r.request \in {"none", "disconnect", "set_status"}
  PROVE  /\ asyncExecList' \in Seq(Operations)
         /\ purpleStatus' \in [Accounts -> Statuses]
         /\ upsets' \in [Accounts -> SUBSET Upsets]
         /\ \A b \in Accounts : upsets[b] \subseteq upsets'[b]
         /\ \A b \in Accounts : b # a => purpleStatus'[b] = purpleStatus[b]
         /\ \A b : QueuedIn(asyncExecList', "disconnect", b) <=>
              QueuedIn(asyncExecList, "disconnect", b) \/ (b = a /\ r.request = "disconnect")
         /\ \A b : /\ QueuedIn(asyncExecList', "set_status", b) <=>
                        QueuedIn(asyncExecList, "set_status", b)
                   /\ \A s : LastRequest(asyncExecList, b, s) => LastRequest(asyncExecList', b, s)
         /\ r.request = "set_status" /\ upsets'[a] = {} =>
              ~QueuedIn(asyncExecList, "set_status", a)
         /\ r.request = "set_status" /\ purpleState[a] = "online" =>
              purpleStatus'[a] = ProtocolStatus(r.status)
         /\ r.request # "set_status" => purpleStatus' = purpleStatus
<1>1. /\ asyncExecList \in Seq(Operations) /\ purpleStatus \in [Accounts -> Statuses]
      /\ upsets \in [Accounts -> SUBSET Upsets]
  BY DEF AccountTypeOK
<1>. DEFINE op == Operation("disconnect", a, "offline")
<1>2. op \in Operations /\ op.method = "disconnect" /\ op.account = a
  <2>1. "offline" \in Statuses
    BY DEF Statuses
  <2>. QED
    BY <2>1, OperationFacts
<1>3. asyncExecList' = IF r.request = "disconnect" THEN Append(asyncExecList, op)
                                                   ELSE asyncExecList
  BY DEF RequestNow
<1>. HIDE DEF op
<1>4. asyncExecList' \in Seq(Operations)
  BY <1>1, <1>2, <1>3, AppendProperties
<1>5. ASSUME NEW b
      PROVE  /\ QueuedIn(asyncExecList', "disconnect", b) <=>
                  QueuedIn(asyncExecList, "disconnect", b) \/ (b = a /\ r.request = "disconnect")
             /\ QueuedIn(asyncExecList', "set_status", b) <=>
                  QueuedIn(asyncExecList, "set_status", b)
             /\ \A s : LastRequest(asyncExecList, b, s) => LastRequest(asyncExecList', b, s)
  BY <1>1, <1>2, <1>3, AppendRequest DEF RequestOf
<1>6. upsets' = [upsets EXCEPT ![a] = @ \cup Upset("raced", Races(a, r))]
      /\ Upset("raced", Races(a, r)) \subseteq Upsets
  BY DEF RequestNow, Upset, Upsets
<1>7. /\ upsets' \in [Accounts -> SUBSET Upsets]
      /\ \A b \in Accounts : upsets[b] \subseteq upsets'[b]
      /\ Upset("raced", Races(a, r)) \subseteq upsets'[a]
  BY <1>1, <1>6
<1>8. r.request = "set_status" /\ upsets'[a] = {} => ~QueuedIn(asyncExecList, "set_status", a)
  BY <1>7 DEF Upset, Races, Queued, QueuedIn
<1>9. /\ purpleStatus' \in [Accounts -> Statuses]
      /\ \A b \in Accounts : b # a => purpleStatus'[b] = purpleStatus[b]
      /\ r.request = "set_status" /\ purpleState[a] = "online" =>
           purpleStatus'[a] = ProtocolStatus(r.status)
      /\ r.request # "set_status" => purpleStatus' = purpleStatus
  BY <1>1, StatusSetFacts DEF RequestNow
<1>. QED
  BY <1>4, <1>5, <1>7, <1>8, <1>9

-----------------------------------------------------------------------------
(* The invariant of one account, and the steps that leave it alone.         *)

Agrees(a) ==
  /\ a \in errorEntries => connectionState[a] # "connected"
  /\ purpleError[a] => purpleState[a] \in {"connecting", "online"}
  /\ InOrder(a) /\ uimPc[a] = "connect" => connectionState[a] # "connected"
  /\ InOrder(a) => Told(a)
  /\ ShownConnected(a) => StatusTold(a)

LEMMA InvOfAccounts ==
  /\ AccountInv <=> AccountTypeOK /\ \A a \in Accounts : Agrees(a)
  /\ AccountInv' <=> AccountTypeOK' /\ \A a \in Accounts : Agrees(a)'
<1>1. /\ AccountTypeOK => errorEntries \subseteq Accounts
      /\ AccountTypeOK' => errorEntries' \subseteq Accounts
  BY DEF AccountTypeOK
<1>2. AccountInv <=> AccountTypeOK /\ \A a \in Accounts : Agrees(a)
  BY <1>1 DEF AccountInv, Agrees, ErrorsAreNotConnected, ConnectInv, NewsInv, StatusInv
<1>3. AccountInv' <=> AccountTypeOK' /\ \A a \in Accounts : Agrees(a)'
  BY <1>1 DEF AccountInv, Agrees, ErrorsAreNotConnected, ConnectInv, NewsInv, StatusInv
<1>. QED
  BY <1>2, <1>3

\* An account that is shown connected while libpurple has lost it will be told so.
LEMMA LostIsTold ==
  ASSUME NEW b \in Accounts, Agrees(b), ShownConnected(b), purpleState[b] # "online",
         AccountTypeOK
  PROVE  purpleError[b] \/ ~Nothing(b)
<1>1. InOrder(b) /\ connectionState[b] = "connected"
  BY DEF ShownConnected, InOrder
<1>2. purpleState[b] \in {"unregistered", "offline", "connecting"}
  BY DEF AccountTypeOK
<1>. QED
  BY <1>1, <1>2, LastIsSomething DEF Agrees, Told

\* What is known of an account is kept by every step that adds to what is on its way,
\* and changes its connection only to one that is about to be, or has been, given up.
LEMMA ToldStays ==
  ASSUME NEW b \in Accounts, AccountTypeOK, InOrder(b) => Told(b),
         purpleState'[b] = purpleState[b], purpleError'[b] = purpleError[b],
         InOrder(b)' => /\ InOrder(b)
                        /\ Nothing(b) => Nothing(b)'
                        /\ \A x : LastIs(x, b) => LastIs(x, b)'
                        /\ \/ connectionState'[b] = connectionState[b]
                           \/ /\ connectionState'[b] = "disconnected"
                              /\ connectionState[b] # "connected" \/ Disconnecting(b)',
         Disconnecting(b) => Disconnecting(b)' \/ purpleState[b] # "online"
  PROVE  InOrder(b)' => Told(b)'
<1>. SUFFICES ASSUME InOrder(b)' PROVE Told(b)'
  OBVIOUS
<1>1. Told(b)
  OBVIOUS
<1>. QED
  BY <1>1 DEF Told

LEMMA StatusStays ==
  ASSUME NEW b \in Accounts, AccountTypeOK, Agrees(b),
         purpleState'[b] = purpleState[b], purpleError'[b] = purpleError[b],
         ShownConnected(b)' =>
           /\ ShownConnected(b)
           /\ Nothing(b)' => Nothing(b)
           /\ userStatus'[b] = userStatus[b] /\ purpleStatus'[b] = purpleStatus[b]
           /\ LastRequest(asyncExecList, b, userStatus[b]) =>
                LastRequest(asyncExecList', b, userStatus[b])
           /\ QueuedIn(asyncExecList', "set_status", b) => QueuedIn(asyncExecList, "set_status", b),
         Disconnecting(b) => Disconnecting(b)' \/ purpleState[b] # "online"
  PROVE  ShownConnected(b)' => StatusTold(b)'
<1>. SUFFICES ASSUME ShownConnected(b)' PROVE StatusTold(b)'
  OBVIOUS
<1>1. ShownConnected(b) /\ StatusTold(b)
  BY DEF Agrees
<1>2. purpleState[b] # "online" => purpleError[b] \/ ~Nothing(b)
  BY <1>1, LostIsTold
<1>. QED
  BY <1>1, <1>2 DEF StatusTold, Queued, QueuedIn

\* Both together, for an account that a step leaves alone.
LEMMA OtherAccount ==
  ASSUME NEW b \in Accounts, AccountTypeOK, Agrees(b),
         b \in errorEntries' => b \in errorEntries,
         uimPc'[b] = uimPc[b],
         connectionState'[b] = connectionState[b], userStatus'[b] = userStatus[b],
         purpleState'[b] = purpleState[b], purpleError'[b] = purpleError[b],
         purpleStatus'[b] = purpleStatus[b],
         preFinalizeDone' = preFinalizeDone, upsets[b] \subseteq upsets'[b],
         Nothing(b)' <=> Nothing(b),
         \A x : LastIs(x, b)' <=> LastIs(x, b),
         Disconnecting(b) => Disconnecting(b)' \/ purpleState[b] # "online",
         LastRequest(asyncExecList, b, userStatus[b]) =>
           LastRequest(asyncExecList', b, userStatus[b]),
         QueuedIn(asyncExecList', "set_status", b) => QueuedIn(asyncExecList, "set_status", b)
  PROVE  Agrees(b)'
<1>1. (InOrder(b)' => InOrder(b)) /\ (ShownConnected(b)' => ShownConnected(b))
  BY DEF InOrder, ShownConnected
<1>2. InOrder(b)' => Told(b)'
  BY <1>1, ToldStays DEF Agrees
<1>3. ShownConnected(b)' => StatusTold(b)'
  BY <1>1, StatusStays
<1>. QED
  BY <1>1, <1>2, <1>3 DEF Agrees

\* An account whose status has been set, at once or by going away or coming back.
LEMMA StatusHasBeenSet ==
  ASSUME NEW b \in Accounts, AccountTypeOK, Agrees(b), NEW s,
         UNCHANGED <<purpleState, purpleError, notifiers, messages, preFinalizeDone>>,
         upsets[b] \subseteq upsets'[b], connectionState'[b] = connectionState[b],
         upsets'[b] = {} => ~QueuedIn(asyncExecList', "set_status", b),
         userStatus'[b] = s, purpleState[b] = "online" => purpleStatus'[b] = ProtocolStatus(s)
  PROVE  ShownConnected(b)' => StatusTold(b)'
<1>. SUFFICES ASSUME ShownConnected(b)' PROVE StatusTold(b)'
  OBVIOUS
<1>1. InOrder(b) /\ connectionState[b] = "connected" /\ upsets'[b] = {}
  BY DEF ShownConnected, InOrder
<1>2. CASE purpleState[b] = "online"
  BY <1>1, <1>2 DEF StatusTold, Queued, QueuedIn
<1>3. CASE purpleState[b] # "online"
  <2>1. purpleState[b] \in {"unregistered", "offline", "connecting"}
    BY <1>3 DEF AccountTypeOK
  <2>2. purpleError[b] \/ ~Nothing(b)
    BY <1>1, <2>1, LastIsSomething DEF Agrees, Told
  <2>. QED
    BY <2>2, NewsStays DEF StatusTold
<1>. QED
  BY <1>2, <1>3

-----------------------------------------------------------------------------
(* What the user asks for.                                                  *)

\* A status or a disconnection requested at once, for an account that goes on to Connect
\* unless it is shown connected.
LEMMA UserRequests ==
  ASSUME AccountInv, NEW a \in Accounts, NEW r,
         Becomes(a, r), RequestNow(a, r),
         r.status \in Statuses, r.previous \in Statuses,
         r.request \in {"none", "disconnect", "set_status"},
         \/ r.connection = "disconnected" /\ r.request = "disconnect"
         \/ /\ r.connection = connectionState[a] /\ r.request # "disconnect"
            /\ r.request = "none" /\ r.connection = "connected" =>
                 r.status = userStatus[a] \/ r.status = "offline",
         UNCHANGED <<passwordKnown, errorEntries, gotAway, preFinalizeDone, purpleVars,
                     notifiers, messages>>,
         userActs' \in 0 .. MaxUserActs,
         \/ uimPc' = uimPc
         \/ uimPc' = [uimPc EXCEPT ![a] = "idle"]
         \/ uimPc' = [uimPc EXCEPT ![a] = "connect"] /\ r.connection # "connected"
  PROVE  AccountInv'
<1>1. AccountTypeOK /\ (\A b \in Accounts : Agrees(b)) /\ connectionState[a] \in Connections
  BY InvOfAccounts DEF AccountTypeOK, Connections
<1>2. /\ asyncExecList' \in Seq(Operations)
      /\ purpleStatus' \in [Accounts -> Statuses]
      /\ upsets' \in [Accounts -> SUBSET Upsets]
      /\ \A b \in Accounts : upsets[b] \subseteq upsets'[b]
      /\ \A b \in Accounts : b # a => purpleStatus'[b] = purpleStatus[b]
      /\ \A b : QueuedIn(asyncExecList', "disconnect", b) <=>
           QueuedIn(asyncExecList, "disconnect", b) \/ (b = a /\ r.request = "disconnect")
      /\ \A b : /\ QueuedIn(asyncExecList', "set_status", b) <=>
                     QueuedIn(asyncExecList, "set_status", b)
                /\ \A s : LastRequest(asyncExecList, b, s) => LastRequest(asyncExecList', b, s)
      /\ r.request = "set_status" /\ upsets'[a] = {} =>
           ~QueuedIn(asyncExecList, "set_status", a)
      /\ r.request = "set_status" /\ purpleState[a] = "online" =>
           purpleStatus'[a] = ProtocolStatus(r.status)
      /\ r.request # "set_status" => purpleStatus' = purpleStatus
  BY <1>1, RequestedNow
<1>3. /\ connectionState' \in [Accounts -> Connections]
      /\ userStatus' \in [Accounts -> Statuses]
      /\ previousStatus' \in [Accounts -> Statuses]
      /\ connectionState'[a] = r.connection /\ userStatus'[a] = r.status
      /\ \A b \in Accounts : b # a =>
           connectionState'[b] = connectionState[b] /\ userStatus'[b] = userStatus[b]
  <2>1. r.connection \in Connections
    BY <1>1 DEF Connections
  <2>. QED
    BY <1>1, <2>1, BecomesFacts
<1>4. /\ UNCHANGED <<purpleState, purpleError, disconnectSources, notifiers, messages>>
      /\ UNCHANGED <<passwordKnown, errorEntries, gotAway, preFinalizeDone>>
  BY DEF purpleVars
<1>5. /\ uimPc' \in [Accounts -> {"idle", "connect", "asking"}]
      /\ \A b \in Accounts : b # a => uimPc'[b] = uimPc[b]
      /\ uimPc'[a] = "connect" => uimPc[a] = "connect" \/ r.connection # "connected"
  BY <1>1 DEF AccountTypeOK
<1>6. AccountTypeOK'
  BY <1>1, <1>2, <1>3, <1>4, <1>5 DEF AccountTypeOK, Connections
<1>7. \A b : (Nothing(b)' <=> Nothing(b)) /\ (\A x : LastIs(x, b)' <=> LastIs(x, b))
  BY <1>4, NewsStays
<1>8. \A b : Disconnecting(b)' <=> Disconnecting(b) \/ (b = a /\ r.request = "disconnect")
  BY <1>2, <1>4 DEF Disconnecting, Queued, QueuedIn
<1>9. ASSUME NEW b \in Accounts, b # a PROVE Agrees(b)'
  BY <1>1, <1>2, <1>3, <1>4, <1>5, <1>7, <1>8, <1>9, OtherAccount
<1>10. Agrees(a)'
  <2>1. InOrder(a)' => InOrder(a)
    BY <1>2, <1>4 DEF InOrder
  <2>2. InOrder(a)' => Told(a)'
    <3>1. \/ connectionState'[a] = connectionState[a]
          \/ connectionState'[a] = "disconnected" /\ Disconnecting(a)'
      BY <1>3, <1>8
    <3>. QED
      BY <1>1, <1>4, <1>7, <1>8, <2>1, <3>1, ToldStays DEF Agrees
  <2>3. ShownConnected(a)' => StatusTold(a)'
    <3>1. CASE r.connection = "disconnected" \/ r.status = "offline"
      BY <1>3, <3>1 DEF ShownConnected
    <3>2. CASE r.request = "set_status" /\ r.connection = connectionState[a]
      BY <1>1, <1>2, <1>3, <1>4, <3>2, StatusHasBeenSet
    <3>3. CASE /\ r.request = "none" /\ r.connection = connectionState[a]
               /\ r.connection = "connected" => r.status = userStatus[a]
      <4>1. ShownConnected(a)' => ShownConnected(a) /\ userStatus'[a] = userStatus[a]
        BY <1>2, <1>3, <1>4, <3>3 DEF ShownConnected
      <4>2. purpleStatus'[a] = purpleStatus[a]
        BY <1>2, <3>3
      <4>. QED
        BY <1>1, <1>2, <1>4, <1>7, <1>8, <4>1, <4>2, StatusStays
    <3>. QED
      BY <3>1, <3>2, <3>3
  <2>4. /\ a \in errorEntries' => connectionState'[a] # "connected"
        /\ purpleError'[a] => purpleState'[a] \in {"connecting", "online"}
        /\ InOrder(a)' /\ uimPc'[a] = "connect" => connectionState'[a] # "connected"
    BY <1>1, <1>3, <1>4, <1>5, <2>1 DEF Agrees
  <2>. QED
    BY <2>2, <2>3, <2>4 DEF Agrees
<1>. QED
  BY <1>6, <1>9, <1>10, InvOfAccounts

LEMMA SetUserStatusStep ==
  ASSUME AccountInv, NEW a \in Accounts, NEW s \in UserStatuses, SetUserStatusCommand(a, s)
  PROVE  AccountInv'
<1>. DEFINE r == InternalSetStatus(a, s, connectionState[a])
<1>1. s \in Statuses /\ connectionState[a] \in Connections
  BY AccountAssumption DEF Statuses, AccountInv, AccountTypeOK, Connections
<1>2. /\ Becomes(a, r) /\ RequestNow(a, r) /\ UserActs
      /\ uimPc' = [uimPc EXCEPT ![a] = IF r.connection = "connected" THEN "idle" ELSE "connect"]
      /\ UNCHANGED <<passwordKnown, errorEntries, gotAway, preFinalizeDone, purpleVars,
                     notifiers, messages>>
  BY DEF SetUserStatusCommand
<1>3. /\ r.status \in Statuses /\ r.previous \in Statuses
      /\ r.request \in {"none", "disconnect", "set_status"}
      /\ \/ r.connection = "disconnected" /\ r.request = "disconnect"
         \/ /\ r.connection = connectionState[a] /\ r.request # "disconnect"
            /\ r.request = "none" /\ r.connection = "connected" =>
                 r.status = userStatus[a] \/ r.status = "offline"
  BY <1>1, SetStatusFacts DEF AccountInv
<1>4. userActs' \in 0 .. MaxUserActs
  BY <1>2, AccountAssumption DEF AccountInv, AccountTypeOK, UserActs
<1>. HIDE DEF r
<1>5. \/ uimPc' = [uimPc EXCEPT ![a] = "idle"]
      \/ uimPc' = [uimPc EXCEPT ![a] = "connect"] /\ r.connection # "connected"
  BY <1>2
<1>. QED
  BY <1>2, <1>3, <1>4, <1>5, UserRequests

LEMMA ReconnectStep ==
  ASSUME AccountInv, NEW a \in Accounts, ReconnectCommand(a)
  PROVE  AccountInv'
<1>. DEFINE r == InternalSetStatus(a, previousStatus[a], connectionState[a])
<1>1. previousStatus[a] \in Statuses /\ connectionState[a] \in Connections
  BY DEF AccountInv, AccountTypeOK, Connections
<1>2. /\ Becomes(a, r) /\ RequestNow(a, r) /\ UserActs /\ a \in errorEntries
      /\ uimPc' = [uimPc EXCEPT ![a] = "connect"]
      /\ UNCHANGED <<passwordKnown, errorEntries, gotAway, preFinalizeDone, purpleVars,
                     notifiers, messages>>
  BY DEF ReconnectCommand
<1>3. /\ r.status \in Statuses /\ r.previous \in Statuses
      /\ r.request \in {"none", "disconnect", "set_status"}
      /\ \/ r.connection = "disconnected" /\ r.request = "disconnect"
         \/ /\ r.connection = connectionState[a] /\ r.request # "disconnect"
            /\ r.request = "none" /\ r.connection = "connected" =>
                 r.status = userStatus[a] \/ r.status = "offline"
  BY <1>1, SetStatusFacts DEF AccountInv
<1>4. userActs' \in 0 .. MaxUserActs
  BY <1>2, AccountAssumption DEF AccountInv, AccountTypeOK, UserActs
<1>5. connectionState[a] # "connected"
  BY <1>2 DEF AccountInv, ErrorsAreNotConnected
<1>. HIDE DEF r
<1>6. r.connection # "connected"
  BY <1>3, <1>5
<1>. QED
  BY <1>2, <1>3, <1>4, <1>6, UserRequests

LEMMA DisconnectStep ==
  ASSUME AccountInv, NEW a \in Accounts, DisconnectCommand(a)
  PROVE  AccountInv'
<1>. DEFINE r == Unchanged(a, "disconnected", "disconnect")
<1>1. userStatus[a] \in Statuses /\ previousStatus[a] \in Statuses
  BY DEF AccountInv, AccountTypeOK
<1>2. /\ Becomes(a, r) /\ RequestNow(a, r) /\ UserActs
      /\ UNCHANGED <<uimVars, purpleVars, notifiers, messages>>
  BY DEF DisconnectCommand
<1>3. /\ r.connection = "disconnected" /\ r.request = "disconnect"
      /\ r.status = userStatus[a] /\ r.previous = previousStatus[a]
  BY UnchangedFacts
<1>4. userActs' \in 0 .. MaxUserActs
  BY <1>2, AccountAssumption DEF AccountInv, AccountTypeOK, UserActs
<1>5. uimPc' = uimPc /\ UNCHANGED <<passwordKnown, errorEntries, gotAway, preFinalizeDone,
                                    purpleVars, notifiers, messages>>
  BY <1>2 DEF uimVars
<1>. HIDE DEF r
<1>. QED
  BY <1>1, <1>2, <1>3, <1>4, <1>5, UserRequests

LEMMA DisconnectAllStep ==
  ASSUME AccountInv, NEW a \in Accounts, DisconnectAllCommand(a)
  PROVE  AccountInv'
<1>1. AccountTypeOK /\ (\A b \in Accounts : Agrees(b))
  BY InvOfAccounts
<1>2. /\ disconnectSources' = Append(disconnectSources, a)
      /\ UNCHANGED <<uimPc, passwordKnown, errorEntries, gotAway, preFinalizeDone, purpleState,
                     purpleError, asyncExecList, purpleStatus, notifiers, messages, upsets>>
  BY DEF DisconnectAllCommand, uimVars
<1>3. userActs' \in 0 .. MaxUserActs
  BY <1>1, AccountAssumption DEF DisconnectAllCommand, AccountTypeOK, UserActs
<1>4. /\ connectionState' \in [Accounts -> Connections]
      /\ userStatus' \in [Accounts -> Statuses] /\ previousStatus' \in [Accounts -> Statuses]
      /\ connectionState'[a] = "disconnected"
      /\ \A b \in Accounts : b # a =>
           connectionState'[b] = connectionState[b] /\ userStatus'[b] = userStatus[b]
  <2>. DEFINE r == Unchanged(a, "disconnected", "none")
  <2>1. userStatus[a] \in Statuses /\ previousStatus[a] \in Statuses /\ Becomes(a, r)
    BY <1>1 DEF AccountTypeOK, DisconnectAllCommand
  <2>2. r.connection = "disconnected" /\ r.status = userStatus[a] /\ r.previous = previousStatus[a]
    BY UnchangedFacts
  <2>3. "disconnected" \in Connections
    BY DEF Connections
  <2>. HIDE DEF r
  <2>. QED
    BY <1>1, <2>1, <2>2, <2>3, BecomesFacts
<1>5. disconnectSources' \in Seq(Accounts)
      /\ \A b : Holds(disconnectSources', b) <=> Holds(disconnectSources, b) \/ a = b
  <2>1. disconnectSources \in Seq(Accounts)
    BY <1>1 DEF AccountTypeOK
  <2>. QED
    BY <1>2, <2>1, AppendSource, AppendProperties
<1>6. AccountTypeOK'
  BY <1>1, <1>2, <1>3, <1>4, <1>5 DEF AccountTypeOK, Connections
<1>7. \A b : (Nothing(b)' <=> Nothing(b)) /\ (\A x : LastIs(x, b)' <=> LastIs(x, b))
  BY <1>2, NewsStays
<1>8. \A b : Disconnecting(b)' <=> Disconnecting(b) \/ a = b
  BY <1>2, <1>5 DEF Disconnecting, Queued
<1>9. ASSUME NEW b \in Accounts, b # a PROVE Agrees(b)'
  BY <1>1, <1>2, <1>4, <1>7, <1>8, <1>9, OtherAccount
<1>10. Agrees(a)'
  <2>1. InOrder(a)' => Told(a)'
    BY <1>1, <1>2, <1>4, <1>7, <1>8, ToldStays DEF Agrees, InOrder
  <2>. QED
    BY <1>1, <1>2, <1>4, <2>1 DEF Agrees, InOrder, ShownConnected
<1>. QED
  BY <1>6, <1>9, <1>10, InvOfAccounts

LEMMA ConnectCommandStep ==
  ASSUME AccountInv, NEW a \in Accounts, ConnectCommand(a)
  PROVE  AccountInv'
<1>1. AccountTypeOK /\ (\A b \in Accounts : Agrees(b))
  BY InvOfAccounts
<1>2. /\ UNCHANGED <<passwordKnown, errorEntries, gotAway, preFinalizeDone, connectionState,
                     userStatus, previousStatus, disconnectSources, purpleState, purpleError,
                     asyncExecList, purpleStatus, notifiers, messages, upsets>>
      /\ connectionState[a] # "connected" /\ uimPc' = [uimPc EXCEPT ![a] = "connect"]
  BY DEF ConnectCommand, accountVars, purpleVars
<1>3. userActs' \in 0 .. MaxUserActs
  BY <1>1, AccountAssumption DEF ConnectCommand, AccountTypeOK, UserActs
<1>4. AccountTypeOK' /\ (\A b \in Accounts : b # a => uimPc'[b] = uimPc[b])
  BY <1>1, <1>2, <1>3 DEF AccountTypeOK
<1>5. \A b : (Nothing(b)' <=> Nothing(b)) /\ (\A x : LastIs(x, b)' <=> LastIs(x, b))
  BY <1>2, NewsStays
<1>6. \A b : Disconnecting(b)' <=> Disconnecting(b)
  BY <1>2 DEF Disconnecting, Queued
<1>7. ASSUME NEW b \in Accounts PROVE Agrees(b)'
  <2>1. b # a => Agrees(b)'
    BY <1>1, <1>2, <1>4, <1>5, <1>6, OtherAccount
  <2>2. (InOrder(b)' => Told(b)') /\ (ShownConnected(b)' => StatusTold(b)')
    BY <1>1, <1>2, <1>5, <1>6 DEF Agrees, InOrder, Told, ShownConnected, StatusTold, Queued
  <2>3. b = a => Agrees(b)'
    BY <1>1, <1>2, <2>2 DEF Agrees
  <2>. QED
    BY <2>1, <2>3
<1>. QED
  BY <1>4, <1>7, InvOfAccounts

LEMMA AutoAwayStep ==
  ASSUME AccountInv, NEW s \in {"auto_away", "auto_away_return"}, NEW enabled \in BOOLEAN,
         AutoAway(s, enabled), userActs' \in 0 .. MaxUserActs, gotAway' \in BOOLEAN
  PROVE  AccountInv'
<1>. DEFINE r(b) == IF enabled /\ connectionState[b] = "connected"
                      THEN InternalSetStatus(b, s, "connected")
                      ELSE Unchanged(b, connectionState[b], "none")
<1>1. AccountTypeOK /\ (\A b \in Accounts : Agrees(b))
  BY InvOfAccounts
<1>2. /\ userStatus' = [b \in Accounts |-> r(b).status]
      /\ previousStatus' = [b \in Accounts |-> r(b).previous]
      /\ purpleStatus' = [b \in Accounts |->
           IF r(b).request = "set_status" THEN StatusSet(b, r(b).status)[b] ELSE purpleStatus[b]]
      /\ upsets' = [b \in Accounts |-> upsets[b] \cup Upset("raced", Races(b, r(b)))]
      /\ UNCHANGED <<uimPc, passwordKnown, errorEntries, preFinalizeDone, connectionState,
                     disconnectSources, purpleState, purpleError, asyncExecList, notifiers,
                     messages>>
  BY DEF AutoAway, purpleVars
<1>3. ASSUME NEW b \in Accounts
      PROVE  /\ r(b).status \in Statuses /\ r(b).previous \in Statuses
             /\ r(b).request = "set_status" \/ r(b).status = userStatus[b]
                \/ r(b).status = "offline"
  <2>1. CASE enabled /\ connectionState[b] = "connected"
    <3>1. r(b) = InternalSetStatus(b, s, "connected")
      BY <2>1
    <3>2. "connected" \in Connections /\ s \in Statuses \cup {"auto_away_return"}
      BY DEF Connections, Statuses
    <3>. HIDE DEF r
    <3>. QED
      BY <1>1, <3>1, <3>2, SetStatusFacts
  <2>2. CASE ~(enabled /\ connectionState[b] = "connected")
    <3>1. r(b) = Unchanged(b, connectionState[b], "none")
      BY <2>2
    <3>2. userStatus[b] \in Statuses /\ previousStatus[b] \in Statuses
      BY <1>1 DEF AccountTypeOK
    <3>. HIDE DEF r
    <3>. QED
      BY <3>1, <3>2, UnchangedFacts
  <2>. QED
    BY <2>1, <2>2
<1>. HIDE DEF r
<1>4. ASSUME NEW b \in Accounts
      PROVE  /\ purpleStatus'[b] \in Statuses
             /\ r(b).request # "set_status" => purpleStatus'[b] = purpleStatus[b]
             /\ r(b).request = "set_status" /\ purpleState[b] = "online" =>
                  purpleStatus'[b] = ProtocolStatus(r(b).status)
             /\ upsets[b] \subseteq upsets'[b] /\ upsets'[b] \subseteq Upsets
             /\ r(b).request = "set_status" /\ upsets'[b] = {} =>
                  ~QueuedIn(asyncExecList, "set_status", b)
  <2>1. /\ purpleStatus'[b] = IF r(b).request = "set_status" THEN StatusSet(b, r(b).status)[b]
                                                             ELSE purpleStatus[b]
        /\ upsets'[b] = upsets[b] \cup Upset("raced", Races(b, r(b)))
    BY <1>2
  <2>2. purpleStatus[b] \in Statuses /\ upsets[b] \subseteq Upsets
    BY <1>1 DEF AccountTypeOK
  <2>3. /\ StatusSet(b, r(b).status)[b] \in Statuses
        /\ purpleState[b] = "online" => StatusSet(b, r(b).status)[b] = ProtocolStatus(r(b).status)
    BY <1>1, <1>3, StatusSetFacts
  <2>4. /\ Upset("raced", Races(b, r(b))) \subseteq Upsets
        /\ r(b).request = "set_status" /\ Upset("raced", Races(b, r(b))) = {} =>
             ~QueuedIn(asyncExecList, "set_status", b)
    BY DEF Upset, Upsets, Races, Queued, QueuedIn
  <2>. QED
    BY <2>1, <2>2, <2>3, <2>4
<1>5. /\ userStatus' \in [Accounts -> Statuses] /\ previousStatus' \in [Accounts -> Statuses]
      /\ purpleStatus' \in [Accounts -> Statuses] /\ upsets' \in [Accounts -> SUBSET Upsets]
      /\ \A b \in Accounts : userStatus'[b] = r(b).status
  <2>1. \A b \in Accounts : purpleStatus'[b] \in Statuses /\ upsets'[b] \in SUBSET Upsets
    BY <1>4
  <2>2. DOMAIN purpleStatus' = Accounts /\ DOMAIN upsets' = Accounts
        /\ purpleStatus' = [b \in Accounts |-> purpleStatus'[b]]
        /\ upsets' = [b \in Accounts |-> upsets'[b]]
    BY <1>2
  <2>3. purpleStatus' \in [Accounts -> Statuses] /\ upsets' \in [Accounts -> SUBSET Upsets]
    BY <2>1, <2>2
  <2>. QED
    BY <1>2, <1>3, <2>3
<1>6. AccountTypeOK'
  BY <1>1, <1>2, <1>5 DEF AccountTypeOK
<1>7. \A b : (Nothing(b)' <=> Nothing(b)) /\ (\A x : LastIs(x, b)' <=> LastIs(x, b))
  BY <1>2, NewsStays
<1>8. \A b : Disconnecting(b)' <=> Disconnecting(b)
  BY <1>2 DEF Disconnecting, Queued
<1>9. ASSUME NEW b \in Accounts PROVE Agrees(b)'
  <2>1. InOrder(b)' => InOrder(b)
    BY <1>2, <1>4 DEF InOrder
  <2>2. InOrder(b)' => Told(b)'
    BY <1>1, <1>2, <1>7, <1>8, <2>1, ToldStays DEF Agrees
  <2>3. ShownConnected(b)' => StatusTold(b)'
    <3>1. CASE r(b).request = "set_status"
      BY <1>1, <1>2, <1>4, <1>5, <3>1, StatusHasBeenSet
    <3>2. CASE r(b).request # "set_status" /\ r(b).status = userStatus[b]
      <4>1. ShownConnected(b)' => ShownConnected(b)
        BY <1>2, <1>4, <1>5, <3>2 DEF ShownConnected
      <4>2. userStatus'[b] = userStatus[b] /\ purpleStatus'[b] = purpleStatus[b]
        BY <1>4, <1>5, <3>2
      <4>. QED
        BY <1>1, <1>2, <1>7, <1>8, <4>1, <4>2, StatusStays
    <3>3. CASE r(b).status = "offline"
      BY <1>5, <3>3 DEF ShownConnected
    <3>. QED
      BY <1>3, <3>1, <3>2, <3>3
  <2>. QED
    BY <1>1, <1>2, <2>1, <2>2, <2>3 DEF Agrees
<1>. QED
  BY <1>6, <1>9, InvOfAccounts

LEMMA IdleTimerStep ==
  ASSUME AccountInv, GoAway \/ ComeBack
  PROVE  AccountInv'
<1>1. /\ gotAway' \in BOOLEAN /\ IdleTimer
      /\ \E s \in {"auto_away", "auto_away_return"}, enabled \in BOOLEAN : AutoAway(s, enabled)
  BY DEF GoAway, ComeBack
<1>2. userActs' \in 0 .. MaxUserActs
  BY <1>1, AccountAssumption DEF IdleTimer, AccountInv, AccountTypeOK
<1>. QED
  BY <1>1, <1>2, AutoAwayStep

LEMMA PreFinalizeStep ==
  ASSUME AccountInv, PreFinalize
  PROVE  AccountInv'
<1>1. AccountTypeOK /\ (\A b \in Accounts : Agrees(b))
  BY InvOfAccounts
<1>2. /\ UNCHANGED <<uimPc, passwordKnown, errorEntries, gotAway, connectionState, userStatus,
                     previousStatus, disconnectSources, purpleState, purpleError, asyncExecList,
                     purpleStatus, notifiers, messages, userActs, upsets>>
      /\ preFinalizeDone' = TRUE
  BY DEF PreFinalize, accountVars, purpleVars
<1>3. AccountTypeOK'
  BY <1>1, <1>2 DEF AccountTypeOK
<1>4. ASSUME NEW b \in Accounts PROVE Agrees(b)'
  BY <1>1, <1>2 DEF Agrees, InOrder, ShownConnected
<1>. QED
  BY <1>3, <1>4, InvOfAccounts

-----------------------------------------------------------------------------
(* Connect and its dialog.                                                  *)

LEMMA PasswordStep ==
  ASSUME AccountInv, NEW a \in Accounts, RequestPassword(a) \/ PasswordEntered(a)
  PROVE  AccountInv'
<1>1. AccountTypeOK /\ (\A b \in Accounts : Agrees(b))
  BY InvOfAccounts
<1>2. /\ UNCHANGED <<errorEntries, gotAway, preFinalizeDone, disconnectSources, purpleError,
                     asyncExecList, purpleStatus, notifiers, messages, userActs,
                     connectionState, userStatus, previousStatus, purpleState>>
      /\ \/ uimPc' = [uimPc EXCEPT ![a] = "asking"] /\ UNCHANGED <<passwordKnown, upsets>>
         \/ /\ uimPc' = [uimPc EXCEPT ![a] = "connect"]
            /\ passwordKnown' = [passwordKnown EXCEPT ![a] = TRUE]
            /\ DialogEnds(a)
  BY DEF RequestPassword, PasswordEntered, UIMGoto, accountVars
<1>3. /\ upsets' \in [Accounts -> SUBSET Upsets]
      /\ \A b \in Accounts : upsets[b] \subseteq upsets'[b]
      /\ uimPc'[a] = "connect" /\ connectionState[a] = "connected" => "asked" \in upsets'[a]
  <2>1. CASE UNCHANGED upsets /\ uimPc' = [uimPc EXCEPT ![a] = "asking"]
    BY <1>1, <2>1 DEF AccountTypeOK
  <2>2. CASE DialogEnds(a)
    <3>1. /\ upsets' = [upsets EXCEPT
               ![a] = @ \cup Upset("asked", connectionState[a] = "connected")]
          /\ Upset("asked", connectionState[a] = "connected") \subseteq Upsets
          /\ connectionState[a] = "connected" =>
               "asked" \in Upset("asked", connectionState[a] = "connected")
      BY <2>2 DEF DialogEnds, Upset, Upsets
    <3>2. upsets \in [Accounts -> SUBSET Upsets]
      BY <1>1 DEF AccountTypeOK
    <3>. QED
      BY <3>1, <3>2
  <2>. QED
    BY <1>2, <2>1, <2>2
<1>4. AccountTypeOK' /\ (\A b \in Accounts : b # a => uimPc'[b] = uimPc[b])
  BY <1>1, <1>2, <1>3 DEF AccountTypeOK
<1>5. \A b : (Nothing(b)' <=> Nothing(b)) /\ (\A x : LastIs(x, b)' <=> LastIs(x, b))
  BY <1>2, NewsStays
<1>6. \A b : Disconnecting(b)' <=> Disconnecting(b)
  BY <1>2 DEF Disconnecting, Queued
<1>7. ASSUME NEW b \in Accounts PROVE Agrees(b)'
  <2>1. b # a => Agrees(b)'
    BY <1>1, <1>2, <1>3, <1>4, <1>5, <1>6, OtherAccount
  <2>2. (InOrder(b)' => InOrder(b)) /\ (ShownConnected(b)' => ShownConnected(b))
    BY <1>2, <1>3 DEF InOrder, ShownConnected
  <2>3. InOrder(b)' => Told(b)'
    BY <1>1, <1>2, <1>5, <1>6, <2>2, ToldStays DEF Agrees
  <2>4. ShownConnected(b)' => StatusTold(b)'
    BY <1>1, <1>2, <1>5, <1>6, <2>2, StatusStays
  <2>5. InOrder(a)' /\ uimPc'[a] = "connect" => connectionState'[a] # "connected"
    BY <1>2, <1>3 DEF InOrder
  <2>6. b = a => Agrees(b)'
    BY <1>1, <1>2, <2>3, <2>4, <2>5 DEF Agrees
  <2>. QED
    BY <2>1, <2>6
<1>. QED
  BY <1>4, <1>7, InvOfAccounts

LEMMA PasswordCanceledStep ==
  ASSUME AccountInv, NEW a \in Accounts, PasswordCanceled(a)
  PROVE  AccountInv'
<1>. DEFINE r == InternalSetStatus(a, "offline", "disconnected")
<1>1. AccountTypeOK /\ (\A b \in Accounts : Agrees(b))
  BY InvOfAccounts
<1>2. /\ UNCHANGED <<passwordKnown, errorEntries, gotAway, preFinalizeDone, disconnectSources,
                     purpleError, asyncExecList, purpleStatus, notifiers, messages, userActs,
                     purpleState>>
      /\ uimPc' = [uimPc EXCEPT ![a] = "idle"] /\ Becomes(a, r) /\ DialogEnds(a)
  BY DEF PasswordCanceled, UIMGoto
<1>3. r.status \in Statuses /\ r.previous \in Statuses /\ r.connection = "disconnected"
      /\ r.connection \in Connections
  <2>1. "offline" \in Statuses /\ "disconnected" \in Connections
    BY DEF Statuses, Connections
  <2>. QED
    BY <1>1, <2>1, SetStatusFacts
<1>. HIDE DEF r
<1>4. /\ connectionState' \in [Accounts -> Connections]
      /\ userStatus' \in [Accounts -> Statuses] /\ previousStatus' \in [Accounts -> Statuses]
      /\ connectionState'[a] = "disconnected"
      /\ \A b \in Accounts : b # a =>
           connectionState'[b] = connectionState[b] /\ userStatus'[b] = userStatus[b]
  BY <1>1, <1>2, <1>3, BecomesFacts
<1>5. /\ upsets' \in [Accounts -> SUBSET Upsets]
      /\ \A b \in Accounts : upsets[b] \subseteq upsets'[b]
      /\ connectionState[a] = "connected" => "asked" \in upsets'[a]
  <2>1. /\ upsets' = [upsets EXCEPT ![a] = @ \cup Upset("asked", connectionState[a] = "connected")]
        /\ Upset("asked", connectionState[a] = "connected") \subseteq Upsets
        /\ connectionState[a] = "connected" =>
             "asked" \in Upset("asked", connectionState[a] = "connected")
    BY <1>2 DEF DialogEnds, Upset, Upsets
  <2>2. upsets \in [Accounts -> SUBSET Upsets]
    BY <1>1 DEF AccountTypeOK
  <2>. QED
    BY <2>1, <2>2
<1>6. AccountTypeOK' /\ (\A b \in Accounts : b # a => uimPc'[b] = uimPc[b])
  BY <1>1, <1>2, <1>4, <1>5 DEF AccountTypeOK, Connections
<1>7. \A b : (Nothing(b)' <=> Nothing(b)) /\ (\A x : LastIs(x, b)' <=> LastIs(x, b))
  BY <1>2, NewsStays
<1>8. \A b : Disconnecting(b)' <=> Disconnecting(b)
  BY <1>2 DEF Disconnecting, Queued
<1>9. ASSUME NEW b \in Accounts, b # a PROVE Agrees(b)'
  BY <1>1, <1>2, <1>4, <1>5, <1>6, <1>7, <1>8, <1>9, OtherAccount
<1>10. Agrees(a)'
  <2>1. InOrder(a)' => InOrder(a) /\ connectionState[a] # "connected"
    BY <1>2, <1>5 DEF InOrder
  <2>2. InOrder(a)' => Told(a)'
    BY <1>1, <1>2, <1>4, <1>7, <1>8, <2>1, ToldStays DEF Agrees
  <2>. QED
    BY <1>1, <1>2, <1>4, <2>2 DEF Agrees, ShownConnected
<1>. QED
  BY <1>6, <1>9, <1>10, InvOfAccounts

LEMMA ConnectStep ==
  ASSUME AccountInv, NEW a \in Accounts, Connect(a)
  PROVE  AccountInv'
<1>1. AccountTypeOK /\ (\A b \in Accounts : Agrees(b))
  BY InvOfAccounts
<1>2. /\ UNCHANGED <<errorEntries, gotAway, preFinalizeDone, disconnectSources, purpleError,
                     asyncExecList, purpleStatus, notifiers, messages, userActs,
                     passwordKnown, userStatus, previousStatus, upsets>>
      /\ uimPc[a] = "connect" /\ uimPc' = [uimPc EXCEPT ![a] = "idle"]
      /\ connectionState' = [connectionState EXCEPT ![a] = "connecting"]
      /\ purpleState' = [purpleState EXCEPT
           ![a] = IF @ \in {"unregistered", "offline"} THEN "connecting" ELSE @]
  BY DEF Connect, UIMGoto
<1>3. /\ AccountTypeOK' /\ connectionState'[a] = "connecting"
      /\ purpleState[a] \in {"unregistered", "offline", "connecting"} =>
           purpleState'[a] = "connecting"
      /\ purpleState[a] = "online" => purpleState'[a] = "online"
      /\ purpleState[a] \in {"unregistered", "offline", "connecting", "online"}
  BY <1>1, <1>2 DEF AccountTypeOK
<1>4. \A b \in Accounts : b # a => /\ uimPc'[b] = uimPc[b] /\ purpleState'[b] = purpleState[b]
                                   /\ connectionState'[b] = connectionState[b]
  BY <1>1, <1>2 DEF AccountTypeOK
<1>5. \A b : (Nothing(b)' <=> Nothing(b)) /\ (\A x : LastIs(x, b)' <=> LastIs(x, b))
  BY <1>2, NewsStays
<1>6. \A b : Disconnecting(b)' <=> Disconnecting(b)
  BY <1>2 DEF Disconnecting, Queued
<1>7. ASSUME NEW b \in Accounts, b # a PROVE Agrees(b)'
  BY <1>1, <1>2, <1>4, <1>5, <1>6, <1>7, OtherAccount
<1>8. Agrees(a)'
  <2>1. ASSUME InOrder(a)' PROVE Told(a)'
    <3>1. InOrder(a) /\ connectionState[a] # "connected" /\ Told(a)
      BY <1>1, <1>2, <2>1 DEF InOrder, Agrees
    <3>2. CASE purpleState[a] \in {"unregistered", "offline"}
      BY <1>3, <1>5, <3>1, <3>2 DEF Told
    <3>3. CASE purpleState[a] = "connecting"
      BY <1>2, <1>3, <1>5, <3>1, <3>3 DEF Told
    <3>4. CASE purpleState[a] = "online"
      BY <1>2, <1>3, <1>5, <1>6, <3>1, <3>4 DEF Told
    <3>. QED
      BY <1>3, <3>2, <3>3, <3>4
  <2>. QED
    BY <1>1, <1>2, <1>3, <2>1 DEF Agrees, ShownConnected
<1>. QED
  BY <1>3, <1>7, <1>8, InvOfAccounts

LEMMA ConnectFailsStep ==
  ASSUME AccountInv, NEW a \in Accounts, ConnectFails(a)
  PROVE  AccountInv'
<1>1. AccountTypeOK /\ (\A b \in Accounts : Agrees(b))
  BY InvOfAccounts
<1>2. /\ UNCHANGED <<errorEntries, gotAway, preFinalizeDone, disconnectSources, purpleError,
                     asyncExecList, purpleStatus, notifiers, messages, userActs,
                     passwordKnown, userStatus, previousStatus>>
      /\ uimPc' = [uimPc EXCEPT ![a] = "idle"]
      /\ connectionState' = [connectionState EXCEPT ![a] = "connecting"]
      /\ purpleState[a] \in {"unregistered", "offline"}
      /\ purpleState' \in {purpleState, [purpleState EXCEPT ![a] = "offline"]}
      /\ upsets' = [upsets EXCEPT ![a] = @ \cup {"failed"}]
  BY DEF ConnectFails, UIMGoto
<1>3. AccountTypeOK' /\ connectionState'[a] = "connecting" /\ "failed" \in upsets'[a]
  BY <1>1, <1>2 DEF AccountTypeOK, Upsets
<1>4. \A b \in Accounts : b # a => /\ uimPc'[b] = uimPc[b] /\ purpleState'[b] = purpleState[b]
                                   /\ connectionState'[b] = connectionState[b]
                                   /\ upsets'[b] = upsets[b]
  BY <1>1, <1>2 DEF AccountTypeOK
<1>5. \A b : (Nothing(b)' <=> Nothing(b)) /\ (\A x : LastIs(x, b)' <=> LastIs(x, b))
  BY <1>2, NewsStays
<1>6. \A b : Disconnecting(b)' <=> Disconnecting(b)
  BY <1>2 DEF Disconnecting, Queued
<1>7. ASSUME NEW b \in Accounts, b # a PROVE Agrees(b)'
  BY <1>1, <1>2, <1>4, <1>5, <1>6, <1>7, OtherAccount
<1>8. Agrees(a)'
  <2>1. ~InOrder(a)' /\ ~ShownConnected(a)'
    BY <1>3 DEF InOrder, ShownConnected
  <2>2. ~purpleError'[a]
    BY <1>1, <1>2 DEF Agrees
  <2>. QED
    BY <1>3, <2>1, <2>2 DEF Agrees
<1>. QED
  BY <1>3, <1>7, <1>8, InvOfAccounts

-----------------------------------------------------------------------------
(* The asynchronous thread and the main loop of libpurple.                  *)

LEMMA RunAsyncStep ==
  ASSUME AccountInv, RunAsyncOperation
  PROVE  AccountInv'
<1>. DEFINE op == Head(asyncExecList)
<1>1. AccountTypeOK /\ (\A b \in Accounts : Agrees(b))
  BY InvOfAccounts
<1>2. /\ asyncExecList # <<>> /\ asyncExecList' = Tail(asyncExecList)
      /\ UNCHANGED <<uimPc, passwordKnown, errorEntries, gotAway, preFinalizeDone,
                     connectionState, userStatus, previousStatus, purpleState, purpleError,
                     notifiers, messages, userActs, upsets>>
      /\ \/ /\ op.method = "disconnect" /\ UNCHANGED purpleStatus
            /\ disconnectSources' = IF purpleState[op.account] = "unregistered"
                 THEN disconnectSources ELSE Append(disconnectSources, op.account)
         \/ /\ op.method = "set_status" /\ UNCHANGED disconnectSources
            /\ purpleStatus' = StatusSet(op.account, op.status)
  BY DEF RunAsyncOperation, uimVars, accountVars
<1>3. asyncExecList \in Seq(Operations) /\ disconnectSources \in Seq(Accounts)
      /\ purpleStatus \in [Accounts -> Statuses]
  BY <1>1 DEF AccountTypeOK
<1>4. op \in Operations /\ asyncExecList' \in Seq(Operations)
  BY <1>2, <1>3, HeadTailProperties
<1>5. op.account \in Accounts /\ op.status \in Statuses
  BY <1>4, OperationParts
<1>6. \A b : /\ \A m : QueuedIn(asyncExecList, m, b) <=>
                  QueuedIn(asyncExecList', m, b) \/ (op.method = m /\ op.account = b)
             /\ \A s : LastRequest(asyncExecList, b, s) =>
                  \/ LastRequest(asyncExecList', b, s)
                  \/ /\ ~QueuedIn(asyncExecList', "set_status", b)
                     /\ RequestOf(op, b) /\ op.status = s
  BY <1>2, <1>3, TailRequest
<1>. HIDE DEF op
<1>7. /\ disconnectSources' \in Seq(Accounts)
      /\ \A b : Holds(disconnectSources, b) => Holds(disconnectSources', b)
      /\ op.method = "disconnect" /\ purpleState[op.account] # "unregistered" =>
           Holds(disconnectSources', op.account)
  <2>1. CASE disconnectSources' = Append(disconnectSources, op.account)
    BY <1>3, <1>5, <2>1, AppendProperties, AppendSource
  <2>2. CASE /\ disconnectSources' = disconnectSources
             /\ op.method = "set_status" \/ purpleState[op.account] = "unregistered"
    BY <1>3, <2>2
  <2>. QED
    BY <1>2, <2>1, <2>2
<1>8. /\ purpleStatus' \in [Accounts -> Statuses]
      /\ \A b \in Accounts : b # op.account => purpleStatus'[b] = purpleStatus[b]
      /\ op.method = "disconnect" => purpleStatus' = purpleStatus
      /\ op.method = "set_status" /\ purpleState[op.account] = "online" =>
           purpleStatus'[op.account] = ProtocolStatus(op.status)
  BY <1>1, <1>2, <1>3, <1>5, StatusSetFacts
<1>9. AccountTypeOK'
  BY <1>1, <1>2, <1>4, <1>7, <1>8 DEF AccountTypeOK
<1>10. \A b : (Nothing(b)' <=> Nothing(b)) /\ (\A x : LastIs(x, b)' <=> LastIs(x, b))
  BY <1>2, NewsStays
<1>11. \A b \in Accounts : Disconnecting(b) => Disconnecting(b)' \/ purpleState[b] # "online"
  BY <1>6, <1>7 DEF Disconnecting, Queued, QueuedIn
<1>12. ASSUME NEW b \in Accounts, b # op.account \/ op.method = "disconnect" PROVE Agrees(b)'
  <2>1. /\ \A s : LastRequest(asyncExecList, b, s) => LastRequest(asyncExecList', b, s)
        /\ purpleStatus'[b] = purpleStatus[b]
    BY <1>6, <1>8, <1>12 DEF RequestOf
  <2>. QED
    BY <1>1, <1>2, <1>6, <1>10, <1>11, <2>1, OtherAccount
<1>13. ASSUME NEW b \in Accounts, b = op.account, op.method = "set_status" PROVE Agrees(b)'
  <2>1. /\ InOrder(b)' <=> InOrder(b)
        /\ ShownConnected(b)' <=> ShownConnected(b)
    BY <1>2 DEF InOrder, ShownConnected
  <2>2. InOrder(b)' => Told(b)'
    BY <1>1, <1>2, <1>10, <1>11, <2>1, ToldStays DEF Agrees
  <2>3. ASSUME ShownConnected(b)' PROVE StatusTold(b)'
    <3>1. StatusTold(b) /\ (purpleState[b] # "online" => purpleError[b] \/ ~Nothing(b))
      BY <1>1, <2>1, <2>3, LostIsTold DEF Agrees
    <3>2. CASE ~Nothing(b) \/ purpleError[b] \/ purpleState[b] # "online"
      BY <1>2, <1>10, <3>1, <3>2 DEF StatusTold
    <3>3. CASE Disconnecting(b) /\ purpleState[b] = "online"
      BY <1>11, <3>3 DEF StatusTold
    <3>4. CASE LastRequest(asyncExecList, b, userStatus[b]) /\ purpleState[b] = "online"
      <4>1. \/ LastRequest(asyncExecList', b, userStatus[b])
            \/ ~QueuedIn(asyncExecList', "set_status", b) /\ op.status = userStatus[b]
        BY <1>6, <3>4
      <4>. QED
        BY <1>2, <1>8, <1>13, <3>4, <4>1 DEF StatusTold, Queued, QueuedIn
    <3>5. QueuedIn(asyncExecList, "set_status", b)
      BY <1>6, <1>13
    <3>. QED
      BY <3>1, <3>2, <3>3, <3>4, <3>5 DEF StatusTold, Queued, QueuedIn
  <2>. QED
    BY <1>1, <1>2, <2>1, <2>2, <2>3 DEF Agrees
<1>14. op.method = "disconnect" \/ op.method = "set_status"
  BY <1>2
<1>. QED
  BY <1>9, <1>12, <1>13, <1>14, InvOfAccounts

\* A notification of libpurple: the account is online, in error or offline from now on,
\* and this is the last that is told of it.
LEMMA LoopTells ==
  ASSUME AccountInv, NEW a \in Accounts, NEW e \in Events, StartNotifier(e, a), LoopLeaves,
         disconnectSources' \in Seq(Accounts),
         \A b : b # a => (Holds(disconnectSources', b) <=> Holds(disconnectSources, b)),
         purpleState' \in [Accounts -> {"unregistered", "offline", "connecting", "online"}],
         purpleError' \in [Accounts -> BOOLEAN],
         \A b \in Accounts : b # a =>
           purpleState'[b] = purpleState[b] /\ purpleError'[b] = purpleError[b],
         \/ e = "connected" /\ purpleState'[a] = "online" /\ ~purpleError'[a]
         \/ e = "report_disconnect" /\ purpleError'[a]
            /\ purpleState'[a] \in {"connecting", "online"}
         \/ e = "disconnected" /\ purpleState'[a] = "offline" /\ ~purpleError'[a]
  PROVE  AccountInv'
<1>1. AccountTypeOK /\ (\A b \in Accounts : Agrees(b))
  BY InvOfAccounts
<1>2. UNCHANGED <<uimPc, passwordKnown, errorEntries, gotAway, preFinalizeDone,
                  connectionState, userStatus, previousStatus, asyncExecList, purpleStatus,
                  messages, userActs, upsets>>
  BY DEF LoopLeaves, uimVars, accountVars
<1>3. /\ notifiers' \in Seq(Notifications)
      /\ LastIs(e, a)'
      /\ \A b : b # a => /\ Nothing(b)' <=> Nothing(b)
                         /\ \A x : LastIs(x, b)' <=> LastIs(x, b)
  BY <1>1, <1>2, NotifierStarted
<1>4. AccountTypeOK'
  BY <1>1, <1>2, <1>3 DEF AccountTypeOK
<1>5. ASSUME NEW b \in Accounts, b # a PROVE Agrees(b)'
  <2>1. Disconnecting(b)' <=> Disconnecting(b)
    BY <1>2, <1>5 DEF Disconnecting, Queued
  <2>. QED
    BY <1>1, <1>2, <1>3, <1>5, <2>1, OtherAccount
<1>6. Agrees(a)'
  <2>1. Told(a)'
    BY <1>3 DEF Told
  <2>2. ~Nothing(a)'
    BY <1>3 DEF LastIs, Nothing, LastOf, NoneOf
  <2>3. /\ a \in errorEntries' => connectionState'[a] # "connected"
        /\ InOrder(a)' /\ uimPc'[a] = "connect" => connectionState'[a] # "connected"
        /\ purpleError'[a] => purpleState'[a] \in {"connecting", "online"}
    BY <1>1, <1>2 DEF Agrees, InOrder
  <2>. QED
    BY <2>1, <2>2, <2>3 DEF Agrees, StatusTold
<1>. QED
  BY <1>4, <1>5, <1>6, InvOfAccounts

LEMMA LoopStep ==
  ASSUME AccountInv, NEW a \in Accounts, LoginSucceeds(a) \/ ConnectionError(a)
  PROVE  AccountInv'
<1>1. /\ purpleState \in [Accounts -> {"unregistered", "offline", "connecting", "online"}]
      /\ purpleError \in [Accounts -> BOOLEAN] /\ disconnectSources \in Seq(Accounts)
  BY DEF AccountInv, AccountTypeOK
<1>2. CASE LoginSucceeds(a)
  <2>1. /\ StartNotifier("connected", a) /\ LoopLeaves /\ ~purpleError[a]
        /\ purpleState' = [purpleState EXCEPT ![a] = "online"]
        /\ UNCHANGED <<disconnectSources, purpleError>>
    BY <1>2 DEF LoginSucceeds
  <2>2. "connected" \in Events
    BY DEF Events
  <2>. QED
    BY <1>1, <2>1, <2>2, LoopTells
<1>3. CASE ConnectionError(a)
  <2>1. /\ StartNotifier("report_disconnect", a) /\ LoopLeaves
        /\ purpleState[a] \in {"connecting", "online"}
        /\ purpleError' = [purpleError EXCEPT ![a] = TRUE]
        /\ UNCHANGED <<disconnectSources, purpleState>>
    BY <1>3 DEF ConnectionError
  <2>2. "report_disconnect" \in Events
    BY DEF Events
  <2>3. purpleError' \in [Accounts -> BOOLEAN] /\ purpleError'[a]
        /\ \A b \in Accounts : b # a => purpleError'[b] = purpleError[b]
    BY <1>1, <2>1
  <2>. QED
    BY <1>1, <2>1, <2>2, <2>3, LoopTells
<1>. QED
  BY <1>2, <1>3

LEMMA PurpleDisconnects ==
  ASSUME AccountInv, NEW a \in Accounts, PurpleDisconnect(a), LoopLeaves,
         disconnectSources' \in Seq(Accounts),
         \A b : b # a => (Holds(disconnectSources', b) <=> Holds(disconnectSources, b))
  PROVE  AccountInv'
<1>1. /\ purpleState \in [Accounts -> {"unregistered", "offline", "connecting", "online"}]
      /\ purpleError \in [Accounts -> BOOLEAN]
  BY DEF AccountInv, AccountTypeOK
<1>2. CASE purpleState[a] \in {"connecting", "online"}
  <2>1. /\ purpleState' = [purpleState EXCEPT ![a] = "offline"]
        /\ purpleError' = [purpleError EXCEPT ![a] = FALSE]
        /\ StartNotifier("disconnected", a)
    BY <1>2 DEF PurpleDisconnect
  <2>2. "disconnected" \in Events
    BY DEF Events
  <2>3. /\ purpleError' \in [Accounts -> BOOLEAN] /\ ~purpleError'[a]
        /\ \A b \in Accounts : b # a => purpleError'[b] = purpleError[b]
    BY <1>1, <2>1
  <2>4. /\ purpleState' \in [Accounts -> {"unregistered", "offline", "connecting", "online"}]
        /\ purpleState'[a] = "offline"
        /\ \A b \in Accounts : b # a => purpleState'[b] = purpleState[b]
    BY <1>1, <2>1
  <2>. QED
    BY <2>1, <2>2, <2>3, <2>4, LoopTells
<1>3. CASE purpleState[a] \notin {"connecting", "online"}
  <2>1. AccountTypeOK /\ (\A b \in Accounts : Agrees(b))
    BY InvOfAccounts
  <2>2. UNCHANGED <<uimPc, passwordKnown, errorEntries, gotAway, preFinalizeDone,
                    connectionState, userStatus, previousStatus, asyncExecList, purpleStatus,
                    messages, userActs, upsets, purpleState, purpleError, notifiers>>
    BY <1>3 DEF PurpleDisconnect, LoopLeaves, uimVars, accountVars
  <2>3. AccountTypeOK'
    BY <2>1, <2>2 DEF AccountTypeOK
  <2>4. \A b : (Nothing(b)' <=> Nothing(b)) /\ (\A x : LastIs(x, b)' <=> LastIs(x, b))
    BY <2>2, NewsStays
  <2>5. \A b \in Accounts : Disconnecting(b) => Disconnecting(b)' \/ purpleState[b] # "online"
    BY <1>3, <2>2 DEF Disconnecting, Queued
  <2>6. ASSUME NEW b \in Accounts PROVE Agrees(b)'
    BY <2>1, <2>2, <2>4, <2>5, OtherAccount
  <2>. QED
    BY <2>3, <2>6, InvOfAccounts
<1>. QED
  BY <1>2, <1>3

LEMMA DisconnectMethodStep ==
  ASSUME AccountInv, SerializedDisconnectMethod
  PROVE  AccountInv'
<1>. DEFINE a == Head(disconnectSources)
<1>1. disconnectSources \in Seq(Accounts) /\ disconnectSources # <<>>
      /\ disconnectSources' = Tail(disconnectSources) /\ PurpleDisconnect(a) /\ LoopLeaves
  BY DEF AccountInv, AccountTypeOK, SerializedDisconnectMethod
<1>2. a \in Accounts /\ disconnectSources' \in Seq(Accounts)
  BY <1>1, HeadTailProperties
<1>3. \A b : Holds(disconnectSources, b) <=> Holds(disconnectSources', b) \/ a = b
  BY <1>1, TailSource
<1>. HIDE DEF a
<1>. QED
  BY <1>1, <1>2, <1>3, PurpleDisconnects

LEMMA DestroyStep ==
  ASSUME AccountInv, NEW a \in Accounts, DestroyFailedConnection(a)
  PROVE  AccountInv'
<1>1. disconnectSources \in Seq(Accounts) /\ disconnectSources' = disconnectSources
      /\ PurpleDisconnect(a) /\ LoopLeaves
  BY DEF AccountInv, AccountTypeOK, DestroyFailedConnection
<1>. QED
  BY <1>1, PurpleDisconnects

-----------------------------------------------------------------------------
(* The notifications.                                                       *)

LEMMA PostStep ==
  ASSUME AccountInv, NEW i \in DOMAIN notifiers, PostNotification(i)
  PROVE  AccountInv'
<1>1. AccountTypeOK /\ (\A b \in Accounts : Agrees(b))
  BY InvOfAccounts
<1>2. UNCHANGED <<uimPc, passwordKnown, errorEntries, gotAway, preFinalizeDone,
                  connectionState, userStatus, previousStatus, disconnectSources, purpleState,
                  purpleError, asyncExecList, purpleStatus, userActs>>
  BY DEF PostNotification, uimVars, accountVars, purpleVars
<1>3. /\ notifiers' \in Seq(Notifications)
      /\ messages' \in Seq(Notifications)
      /\ notifiers[i].account \in Accounts
      /\ ~preFinalizeDone => \A b \in Accounts : Nothing(b)' <=> Nothing(b)
      /\ \A b \in Accounts : InOrder(b)' =>
           InOrder(b) /\ \A x : LastIs(x, b) => LastIs(x, b)'
  BY <1>1, NotificationPosted
<1>4. /\ upsets' \in [Accounts -> SUBSET Upsets]
      /\ \A b \in Accounts : upsets[b] \subseteq upsets'[b]
  <2>. DEFINE u == Upset("overtaken", \E j \in 1 .. i - 1 :
                           notifiers[j].account = notifiers[i].account)
  <2>1. u \subseteq Upsets /\ upsets \in [Accounts -> SUBSET Upsets]
    BY <1>1 DEF AccountTypeOK, Upset, Upsets
  <2>2. upsets' = [upsets EXCEPT ![notifiers[i].account] = @ \cup u]
    BY DEF PostNotification
  <2>. HIDE DEF u
  <2>. QED
    BY <1>3, <2>1, <2>2
<1>5. AccountTypeOK'
  BY <1>1, <1>2, <1>3, <1>4 DEF AccountTypeOK
<1>6. \A b : Disconnecting(b)' <=> Disconnecting(b)
  BY <1>2 DEF Disconnecting, Queued
<1>7. ASSUME NEW b \in Accounts PROVE Agrees(b)'
  <2>1. /\ InOrder(b)' => InOrder(b) /\ (Nothing(b)' <=> Nothing(b))
        /\ ShownConnected(b)' => ShownConnected(b) /\ (Nothing(b)' <=> Nothing(b))
    BY <1>2, <1>3, <1>4 DEF InOrder, ShownConnected
  <2>2. InOrder(b)' => Told(b)'
    BY <1>1, <1>2, <1>3, <1>6, <2>1, ToldStays DEF Agrees
  <2>3. ShownConnected(b)' => StatusTold(b)'
    BY <1>1, <1>2, <1>6, <2>1, StatusStays
  <2>. QED
    BY <1>1, <1>2, <2>1, <2>2, <2>3 DEF Agrees
<1>. QED
  BY <1>5, <1>7, InvOfAccounts

\* What every handler of a message leaves alone.
LEMMA MessageHandled ==
  ASSUME AccountInv, messages # <<>>, messages' = Tail(messages), HandlerLeaves, UIMDispatches,
         NEW e, NEW a, e = Head(messages).event, a = Head(messages).account,
         passwordKnown' \in [Accounts -> BOOLEAN], errorEntries' \in SUBSET Accounts,
         connectionState' \in [Accounts -> Connections],
         userStatus' \in [Accounts -> Statuses], previousStatus' \in [Accounts -> Statuses],
         asyncExecList' \in Seq(Operations), purpleStatus' = purpleStatus,
         \A b \in Accounts : b # a =>
           /\ b \in errorEntries' => b \in errorEntries
           /\ connectionState'[b] = connectionState[b] /\ userStatus'[b] = userStatus[b],
         \A b : QueuedIn(asyncExecList, "disconnect", b) =>
           QueuedIn(asyncExecList', "disconnect", b),
         \A b : b # a =>
           /\ QueuedIn(asyncExecList', "set_status", b) => QueuedIn(asyncExecList, "set_status", b)
           /\ \A s : LastRequest(asyncExecList, b, s) => LastRequest(asyncExecList', b, s),
         a \in errorEntries' => connectionState'[a] # "connected",
         preFinalizeDone \/
           /\ e \in {"disconnected", "report_disconnect"} => connectionState'[a] = "disconnected"
           /\ e = "connected" =>
                \/ connectionState'[a] = "connected"
                   /\ LastRequest(asyncExecList', a, userStatus'[a])
                \/ connectionState'[a] = "disconnected"
                   /\ QueuedIn(asyncExecList', "disconnect", a)
  PROVE  AccountInv'
<1>1. AccountTypeOK /\ (\A b \in Accounts : Agrees(b))
  BY InvOfAccounts
<1>2. UNCHANGED <<uimPc, gotAway, preFinalizeDone, disconnectSources, purpleState,
                  purpleError, purpleStatus, notifiers, userActs, upsets>>
  BY DEF HandlerLeaves, purpleVars
<1>3. /\ e \in Events /\ a \in Accounts
      /\ messages' \in Seq(Notifications)
      /\ \A b : b # a => /\ Nothing(b)' <=> Nothing(b)
                         /\ \A x : LastIs(x, b)' <=> LastIs(x, b)
      /\ ~Nothing(a)
      /\ \A x : LastIs(x, a) => LastIs(x, a)' \/ (Nothing(a)' /\ x = e)
  BY <1>1, <1>2, MessageTaken
<1>4. AccountTypeOK'
  BY <1>1, <1>2, <1>3 DEF AccountTypeOK, Connections
<1>5. \A b : Disconnecting(b) => Disconnecting(b)'
  BY <1>2 DEF Disconnecting, Queued, QueuedIn
<1>6. ASSUME NEW b \in Accounts, b # a PROVE Agrees(b)'
  BY <1>1, <1>2, <1>3, <1>5, <1>6, OtherAccount
<1>7. Agrees(a)'
  <2>1. ASSUME InOrder(a)' PROVE Told(a)'
    <3>1. InOrder(a) /\ Told(a) /\ ~preFinalizeDone
      BY <1>1, <1>2, <1>3, <2>1 DEF InOrder, Agrees
    <3>2. /\ QueuedIn(asyncExecList', "disconnect", a) => Disconnecting(a)'
          /\ e \in {"connected", "disconnected", "report_disconnect"}
      BY <1>3 DEF Disconnecting, Queued, QueuedIn, Events
    <3>. QED
      BY <1>2, <1>3, <1>5, <3>1, <3>2 DEF Told
  <2>2. ASSUME ShownConnected(a)' PROVE StatusTold(a)'
    <3>1. connectionState'[a] = "connected" /\ ~preFinalizeDone
      BY <1>2, <2>2 DEF ShownConnected
    <3>2. e = "connected"
      BY <1>3, <3>1 DEF Events
    <3>. QED
      BY <3>1, <3>2 DEF StatusTold
  <2>3. /\ purpleError'[a] => purpleState'[a] \in {"connecting", "online"}
        /\ uimPc'[a] # "connect"
    BY <1>1, <1>2, <1>3 DEF Agrees, UIMDispatches
  <2>. QED
    BY <2>1, <2>2, <2>3 DEF Agrees
<1>. QED
  BY <1>4, <1>6, <1>7, InvOfAccounts

LEMMA ConnectedStep ==
  ASSUME AccountInv, messages # <<>>, messages' = Tail(messages), HandlerLeaves, UIMDispatches,
         Head(messages).event = "connected", NotifyConnected(Head(messages).account)
  PROVE  AccountInv'
<1>. DEFINE a == Head(messages).account
            s == IF userStatus[a] \in {"away", "invisible", "busy"} THEN userStatus[a]
                                                                    ELSE "online"
            r == InternalSetStatus(a, s, "connected")
            op == Operation(r.request, a, r.status)
<1>1. AccountTypeOK /\ asyncExecList \in Seq(Operations) /\ messages \in Seq(Notifications)
      /\ errorEntries \in SUBSET Accounts /\ passwordKnown \in [Accounts -> BOOLEAN]
  BY DEF AccountInv, AccountTypeOK
<1>2. /\ Becomes(a, r) /\ errorEntries' = errorEntries \ {a} /\ passwordKnown' = passwordKnown
      /\ asyncExecList' = IF r.request = "none" THEN asyncExecList ELSE Append(asyncExecList, op)
      /\ purpleStatus' = purpleStatus
  BY DEF NotifyConnected, RequestQueued
<1>3. a \in Accounts
  <2>1. Head(messages) \in Notifications
    BY <1>1, HeadTailProperties
  <2>. QED
    BY <2>1 DEF Notifications
<1>4. s \in Statuses /\ s \in {"online", "away", "invisible", "busy"}
  BY DEF Statuses
<1>. HIDE DEF a, s
<1>5. /\ r.status \in Statuses /\ r.previous \in Statuses /\ r.connection \in Connections
      /\ r.request \in {"disconnect", "set_status"}
      /\ r.request = "disconnect" => r.connection = "disconnected"
      /\ r.request = "set_status" => r.connection = "connected"
  <2>1. "connected" \in Connections
    BY DEF Connections
  <2>. QED
    BY <1>1, <1>3, <1>4, <2>1, SetStatusFacts
<1>. HIDE DEF r
<1>6. op \in Operations /\ op.method = r.request /\ op.account = a /\ op.status = r.status
  BY <1>3, <1>5, OperationFacts
<1>. HIDE DEF op
<1>7. /\ connectionState' \in [Accounts -> Connections]
      /\ userStatus' \in [Accounts -> Statuses]
      /\ previousStatus' \in [Accounts -> Statuses]
      /\ connectionState'[a] = r.connection /\ userStatus'[a] = r.status
      /\ \A b \in Accounts : b # a =>
           connectionState'[b] = connectionState[b] /\ userStatus'[b] = userStatus[b]
  BY <1>1, <1>2, <1>3, <1>5, BecomesFacts
<1>8. /\ asyncExecList' \in Seq(Operations)
      /\ \A b : /\ \A m : QueuedIn(asyncExecList', m, b) <=>
                     QueuedIn(asyncExecList, m, b) \/ (r.request = m /\ a = b)
                /\ \A x : LastRequest(asyncExecList', b, x) <=>
                     IF RequestOf(op, b) THEN r.status = x ELSE LastRequest(asyncExecList, b, x)
  <2>1. asyncExecList' = Append(asyncExecList, op)
    BY <1>2, <1>5
  <2>2. asyncExecList' \in Seq(Operations)
    BY <1>1, <1>6, <2>1, AppendProperties
  <2>3. ASSUME NEW b
        PROVE  /\ \A m : QueuedIn(asyncExecList', m, b) <=>
                    QueuedIn(asyncExecList, m, b) \/ (r.request = m /\ a = b)
               /\ \A x : LastRequest(asyncExecList', b, x) <=>
                    IF RequestOf(op, b) THEN r.status = x ELSE LastRequest(asyncExecList, b, x)
    BY <1>1, <1>6, <2>1, AppendRequest
  <2>. QED
    BY <2>2, <2>3
<1>9. /\ \A b : b # a => ~RequestOf(op, b)
      /\ r.request = "set_status" => RequestOf(op, a)
  BY <1>6 DEF RequestOf
<1>10. /\ a \notin errorEntries' /\ errorEntries' \in SUBSET Accounts
       /\ \A b \in Accounts : b \in errorEntries' => b \in errorEntries
       /\ passwordKnown' \in [Accounts -> BOOLEAN]
  BY <1>1, <1>2
<1>11. \/ connectionState'[a] = "connected" /\ LastRequest(asyncExecList', a, userStatus'[a])
       \/ connectionState'[a] = "disconnected" /\ QueuedIn(asyncExecList', "disconnect", a)
  BY <1>5, <1>7, <1>8, <1>9
<1>12. a = Head(messages).account
  BY DEF a
<1>13. \A b : QueuedIn(asyncExecList, "disconnect", b) => QueuedIn(asyncExecList', "disconnect", b)
  BY <1>8
<1>14. ASSUME NEW b, b # a
       PROVE  /\ QueuedIn(asyncExecList', "set_status", b) =>
                   QueuedIn(asyncExecList, "set_status", b)
              /\ \A x : LastRequest(asyncExecList, b, x) => LastRequest(asyncExecList', b, x)
  <2>1. ~RequestOf(op, b)
    BY <1>9, <1>14
  <2>2. QueuedIn(asyncExecList', "set_status", b) => QueuedIn(asyncExecList, "set_status", b)
    BY <1>8, <1>14
  <2>3. \A x : LastRequest(asyncExecList, b, x) => LastRequest(asyncExecList', b, x)
    BY <1>8, <2>1
  <2>. QED
    BY <2>2, <2>3
<1>15. \A b \in Accounts : b # a =>
         /\ b \in errorEntries' => b \in errorEntries
         /\ connectionState'[b] = connectionState[b] /\ userStatus'[b] = userStatus[b]
  BY <1>7, <1>10
<1>16. \A b : b # a =>
         /\ QueuedIn(asyncExecList', "set_status", b) => QueuedIn(asyncExecList, "set_status", b)
         /\ \A x : LastRequest(asyncExecList, b, x) => LastRequest(asyncExecList', b, x)
  BY <1>14
<1>17. connectionState' \in [Accounts -> Connections] /\ userStatus' \in [Accounts -> Statuses]
       /\ previousStatus' \in [Accounts -> Statuses] /\ asyncExecList' \in Seq(Operations)
       /\ purpleStatus' = purpleStatus /\ passwordKnown' \in [Accounts -> BOOLEAN]
       /\ errorEntries' \in SUBSET Accounts /\ a \notin errorEntries'
  BY <1>2, <1>7, <1>8, <1>10
<1>. QED
  BY <1>11, <1>12, <1>13, <1>15, <1>16, <1>17, MessageHandled

LEMMA DisconnectedStep ==
  ASSUME AccountInv, messages # <<>>, messages' = Tail(messages), HandlerLeaves, UIMDispatches,
         \/ Head(messages).event = "disconnected" /\ NotifyDisconnected(Head(messages).account)
         \/ /\ Head(messages).event = "report_disconnect"
            /\ NotifyReportDisconnect(Head(messages).account)
  PROVE  AccountInv'
<1>. DEFINE a == Head(messages).account
<1>1. AccountTypeOK /\ asyncExecList \in Seq(Operations) /\ messages \in Seq(Notifications)
      /\ errorEntries \in SUBSET Accounts /\ passwordKnown \in [Accounts -> BOOLEAN]
  BY DEF AccountInv, AccountTypeOK
<1>2. a \in Accounts
  <2>1. Head(messages) \in Notifications
    BY <1>1, HeadTailProperties
  <2>. QED
    BY <2>1 DEF Notifications
<1>3. a = Head(messages).account
  OBVIOUS
<1>. HIDE DEF a
<1>4. /\ asyncExecList' = asyncExecList /\ purpleStatus' = purpleStatus
      /\ errorEntries' \in SUBSET Accounts /\ passwordKnown' \in [Accounts -> BOOLEAN]
      /\ \A b \in Accounts : b # a => (b \in errorEntries' => b \in errorEntries)
  <2>1. CASE NotifyDisconnected(a)
    BY <1>1, <2>1 DEF NotifyDisconnected
  <2>2. CASE NotifyReportDisconnect(a)
    <3>1. PICK known \in {passwordKnown[a], FALSE} :
            passwordKnown' = [passwordKnown EXCEPT ![a] = known]
      BY <2>2 DEF NotifyReportDisconnect
    <3>2. passwordKnown' \in [Accounts -> BOOLEAN]
      BY <1>1, <1>2, <3>1
    <3>. QED
      BY <1>1, <1>2, <2>2, <3>2 DEF NotifyReportDisconnect
  <2>. QED
    BY <1>3, <2>1, <2>2
<1>5. PICK r : /\ Becomes(a, r) /\ r.connection = "disconnected"
               /\ r.status \in Statuses /\ r.previous \in Statuses
  <2>1. "offline" \in Statuses /\ "disconnected" \in Connections /\ userStatus[a] \in Statuses
    BY <1>1, <1>2 DEF Statuses, Connections, AccountTypeOK
  <2>2. CASE NotifyDisconnected(a)
    <3>. DEFINE r == InternalSetStatus(a, "offline", "disconnected")
    <3>1. Becomes(a, r)
      BY <2>2 DEF NotifyDisconnected
    <3>2. r.connection = "disconnected" /\ r.status \in Statuses /\ r.previous \in Statuses
      BY <1>1, <1>2, <2>1, SetStatusFacts
    <3>. HIDE DEF r
    <3>. QED
      BY <3>1, <3>2
  <2>3. CASE NotifyReportDisconnect(a)
    <3>. DEFINE r == [connection |-> "disconnected", status |-> userStatus[a],
                      previous |-> userStatus[a]]
    <3>1. Becomes(a, r)
      BY <2>3 DEF NotifyReportDisconnect
    <3>2. r.connection = "disconnected" /\ r.status \in Statuses /\ r.previous \in Statuses
      BY <2>1
    <3>. HIDE DEF r
    <3>. QED
      BY <3>1, <3>2
  <2>. QED
    BY <1>3, <2>2, <2>3
<1>6. /\ connectionState' \in [Accounts -> Connections]
      /\ userStatus' \in [Accounts -> Statuses]
      /\ previousStatus' \in [Accounts -> Statuses]
      /\ connectionState'[a] = "disconnected"
      /\ \A b \in Accounts : b # a =>
           connectionState'[b] = connectionState[b] /\ userStatus'[b] = userStatus[b]
  <2>1. r.connection \in Connections
    BY <1>5 DEF Connections
  <2>. QED
    BY <1>1, <1>2, <1>5, <2>1, BecomesFacts
<1>. QED
  BY <1>1, <1>3, <1>4, <1>6, MessageHandled

LEMMA DispatchStep ==
  ASSUME AccountInv, DispatchMessage
  PROVE  AccountInv'
<1>1. /\ messages # <<>> /\ messages' = Tail(messages) /\ HandlerLeaves /\ UIMDispatches
  BY DEF DispatchMessage
<1>2. CASE preFinalizeDone
  <2>1. UNCHANGED <<passwordKnown, errorEntries, connectionState, userStatus, previousStatus,
                    asyncExecList, purpleStatus>>
    BY <1>2 DEF DispatchMessage, accountVars
  <2>2. /\ passwordKnown \in [Accounts -> BOOLEAN] /\ errorEntries \in SUBSET Accounts
        /\ connectionState \in [Accounts -> Connections]
        /\ userStatus \in [Accounts -> Statuses] /\ previousStatus \in [Accounts -> Statuses]
        /\ asyncExecList \in Seq(Operations)
        /\ \A b \in errorEntries : connectionState[b] # "connected"
    BY DEF AccountInv, AccountTypeOK, ErrorsAreNotConnected, Connections
  <2>. QED
    BY <1>1, <1>2, <2>1, <2>2, MessageHandled
<1>3. CASE ~preFinalizeDone
  <2>1. Handle(Head(messages))
    BY <1>3 DEF DispatchMessage
  <2>. QED
    BY <1>1, <2>1, ConnectedStep, DisconnectedStep DEF Handle
<1>. QED
  BY <1>2, <1>3

-----------------------------------------------------------------------------
(* The invariant.                                                           *)

LEMMA AccountInvInit ==
  ASSUME AccountInit
  PROVE  AccountInv
<1>1. AccountTypeOK
  <2>1. /\ "idle" \in {"idle", "connect", "asking"} /\ "offline" \in Statuses
        /\ "online" \in Statuses /\ 0 \in 0 .. MaxUserActs
        /\ <<>> \in Seq(Operations) /\ <<>> \in Seq(Accounts) /\ <<>> \in Seq(Notifications)
    BY AccountAssumption, EmptySeq DEF Statuses
  <2>. QED
    BY <2>1 DEF AccountInit, AccountTypeOK
<1>2. ASSUME NEW a \in Accounts PROVE Agrees(a)
  <2>1. Nothing(a)
    BY DEF AccountInit, Nothing, NoneOf
  <2>2. /\ errorEntries = {} /\ ~purpleError[a] /\ uimPc[a] = "idle"
        /\ connectionState[a] = "disconnected" /\ purpleState[a] = "unregistered"
    BY DEF AccountInit
  <2>. QED
    BY <2>1, <2>2 DEF Agrees, Told, ShownConnected
<1>. QED
  BY <1>1, <1>2, InvOfAccounts

LEMMA AccountInvStep ==
  ASSUME AccountInv, [AccountNext]_vars
  PROVE  AccountInv'
<1>1. ASSUME NEW a \in Accounts, User(a) PROVE AccountInv'
  BY <1>1, SetUserStatusStep, ConnectCommandStep, ReconnectStep, DisconnectStep,
     DisconnectAllStep, PasswordStep, PasswordCanceledStep DEF User
<1>2. ASSUME NEW a \in Accounts, UIMConnects(a) PROVE AccountInv'
  BY <1>2, ConnectStep, ConnectFailsStep, PasswordStep DEF UIMConnects
<1>3. ASSUME NEW a \in Accounts,
             LoginSucceeds(a) \/ ConnectionError(a) \/ DestroyFailedConnection(a)
      PROVE  AccountInv'
  BY <1>3, LoopStep, DestroyStep
<1>4. ASSUME UNCHANGED vars PROVE AccountInv'
  <2>1. UNCHANGED <<uimPc, passwordKnown, errorEntries, gotAway, preFinalizeDone,
                    connectionState, userStatus, previousStatus, disconnectSources, purpleState,
                    purpleError, asyncExecList, purpleStatus, notifiers, messages, userActs,
                    upsets>>
    BY <1>4 DEF vars, uimVars, accountVars, purpleVars
  <2>2. AccountTypeOK'
    BY <2>1 DEF AccountInv, AccountTypeOK
  <2>3. \A b : (Nothing(b)' <=> Nothing(b)) /\ (\A x : LastIs(x, b)' <=> LastIs(x, b))
    BY <2>1, NewsStays
  <2>4. \A b : Disconnecting(b)' <=> Disconnecting(b)
    BY <2>1 DEF Disconnecting, Queued
  <2>5. ASSUME NEW b \in Accounts PROVE Agrees(b)'
    <3>1. AccountTypeOK /\ Agrees(b)
      BY InvOfAccounts
    <3>. QED
      BY <2>1, <2>3, <2>4, <3>1, OtherAccount
  <2>. QED
    BY <2>2, <2>5, InvOfAccounts
<1>. QED
  BY <1>1, <1>2, <1>3, <1>4, IdleTimerStep, PreFinalizeStep, RunAsyncStep,
     DisconnectMethodStep, PostStep, DispatchStep DEF AccountNext

LEMMA AccountInvAlways == AccountSpec => []AccountInv
<1>1. AccountInit => AccountInv
  BY AccountInvInit
<1>2. AccountInv /\ [AccountNext]_vars => AccountInv'
  BY AccountInvStep
<1>. QED
  BY <1>1, <1>2, PTL DEF AccountSpec

\* The accounts, the queues and the bounds have their types in every reachable state.
THEOREM AccountTypeCorrect == AccountSpec => []AccountTypeOK
<1>1. AccountInv => AccountTypeOK
  BY DEF AccountInv
<1>. QED
  BY <1>1, AccountInvAlways, PTL

\* NotifyConnected takes the entry of the account off the window of connection errors, so
\* that ReconnectAll never meets an account that is shown connected.
THEOREM ConnectedAccountsHaveNoError == AccountSpec => []ErrorsAreNotConnected
<1>1. AccountInv => ErrorsAreNotConnected
  BY DEF AccountInv
<1>. QED
  BY <1>1, AccountInvAlways, PTL

LEMMA QuietFacts ==
  ASSUME NEW a \in Accounts, Quiet(a)
  PROVE  /\ Nothing(a) /\ ~purpleError[a] /\ ~Disconnecting(a) /\ ~preFinalizeDone
         /\ ~Queued("set_status", a) /\ \A s : ~LastRequest(asyncExecList, a, s)
         /\ \A e : ~LastIs(e, a)
<1>1. Nothing(a) /\ ~purpleError[a] /\ ~preFinalizeDone /\ ~Queued("set_status", a)
      /\ ~Disconnecting(a)
  BY DEF Quiet, Nothing, NoneOf, Disconnecting, Holds
<1>2. \A s : ~LastRequest(asyncExecList, a, s)
  BY <1>1 DEF LastRequest, RequestOf, Queued
<1>. QED
  BY <1>1, <1>2, LastIsSomething

\* Whatever the user asked for and the network did, an account of which nothing is on its
\* way is shown connected exactly if libpurple has its connection, unless a notification
\* has overtaken another, a dialog has ended for an account connected meanwhile, or the
\* protocol has refused the connection.
THEOREM QuietAccountsAgree == AccountSpec => []QuietAgreement
<1>1. ASSUME AccountInv PROVE QuietAgreement
  <2>1. SUFFICES ASSUME NEW a \in Accounts, Quiet(a), upsets[a] \subseteq {"raced"}
                 PROVE  /\ connectionState[a] = "connected" <=> purpleState[a] = "online"
                        /\ connectionState[a] = "connecting" => purpleState[a] = "connecting"
    BY DEF QuietAgreement
  <2>2. Nothing(a) /\ ~purpleError[a] /\ ~Disconnecting(a) /\ ~preFinalizeDone
        /\ \A e : ~LastIs(e, a)
    BY <2>1, QuietFacts
  <2>3. Told(a)
    BY <1>1, <2>1, <2>2 DEF AccountInv, NewsInv, InOrder
  <2>4. purpleState[a] \in {"unregistered", "offline", "connecting", "online"}
    BY <1>1, <2>1 DEF AccountInv, AccountTypeOK
  <2>. QED
    BY <2>2, <2>3, <2>4 DEF Told
<1>. QED
  BY <1>1, AccountInvAlways, PTL

\* And libpurple has been told the status that is shown, unless besides a status set at
\* once has passed a queued one.
THEOREM QuietStatusesAgree == AccountSpec => []QuietStatusAgreement
<1>1. ASSUME AccountInv PROVE QuietStatusAgreement
  <2>1. SUFFICES ASSUME NEW a \in Accounts, Quiet(a), upsets[a] = {},
                        connectionState[a] = "connected", userStatus[a] # "offline"
                 PROVE  purpleStatus[a] = ProtocolStatus(userStatus[a])
    BY DEF QuietStatusAgreement
  <2>2. StatusTold(a)
    BY <1>1, <2>1 DEF AccountInv, StatusInv, ShownConnected, Quiet
  <2>. QED
    BY <2>1, <2>2, QuietFacts DEF StatusTold
<1>. QED
  BY <1>1, AccountInvAlways, PTL

\* A connection that is shown connecting, in the order of InOrder, has something under way
\* that will end it: the login itself, its error, a disconnection or a notification.
UnderWay(a) ==
  purpleState[a] = "connecting" \/ purpleError[a] \/ Disconnecting(a) \/ ~Nothing(a)

ConnectingIsUnderWay ==
  \A a \in Accounts : InOrder(a) /\ connectionState[a] = "connecting" => UnderWay(a)

\* The window never shows an account connecting that libpurple and the queues have nothing
\* of, but for the ways out of InOrder; ConnectingEnds rests on it.
THEOREM ConnectingAccountsAreUnderWay == AccountSpec => []ConnectingIsUnderWay
<1>1. ASSUME AccountInv PROVE ConnectingIsUnderWay
  <2>1. SUFFICES ASSUME NEW a \in Accounts, InOrder(a), connectionState[a] = "connecting",
                        ~UnderWay(a)
                 PROVE  FALSE
    BY DEF ConnectingIsUnderWay
  <2>2. Nothing(a) /\ (\A e : ~LastIs(e, a)) /\ ~Disconnecting(a) /\ ~purpleError[a]
        /\ purpleState[a] # "connecting"
    BY <2>1, LastIsSomething DEF UnderWay
  <2>3. Told(a)
    BY <1>1, <2>1 DEF AccountInv, NewsInv
  <2>4. purpleState[a] \in {"unregistered", "offline", "connecting", "online"}
    BY <1>1 DEF AccountInv, AccountTypeOK
  <2>. QED
    BY <2>1, <2>2, <2>3, <2>4 DEF Told
<1>. QED
  BY <1>1, AccountInvAlways, PTL
=============================================================================
