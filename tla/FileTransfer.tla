----------------------------- MODULE FileTransfer -----------------------------
(***************************************************************************)
(* Transfers of files over Jabber.  libpurple's main loop runs each        *)
(* PurpleXfer and reports it to CPurpleProtocol, which keeps the transfers *)
(* in m_mapFileTransfer and posts what it is told to the thread of the     *)
(* user interface; there CFileTransferManager keeps its own list.  Worker  *)
(* threads put offers and paths to the user and cancel the transfers to a  *)
(* contact whose client takes no files.  A message carries the transfer,   *)
(* not its status: the handler reads the status the transfer has then.     *)
(***************************************************************************)
EXTENDS Integers, Sequences, FiniteSets

CONSTANTS
  Sends,             \* transfers the user may start
  Receives,          \* transfers a contact may offer
  Contacts,
  Who,               \* the contact of a transfer (PurpleXfer.who)
  NoXfer,            \* NULL
  MaxRefs            \* bound: references of a transfer that is reported again

Xfers == Sends \cup Receives

ASSUME FileTransferAssumption ==
  /\ Sends \cap Receives = {}
  /\ Who \in [Xfers -> Contacts]
  /\ NoXfer \notin Xfers
  /\ MaxRefs \in Nat

VARIABLES
  status,            \* PurpleXfer.status; "new" before the transfer exists
  refs,              \* PurpleXfer.ref; 0 once it is destroyed
  file,              \* the local file of a received transfer
  m_mapFileTransfer, \* the transfers in the map
  ui_data,           \* the id of a transfer, its key in the map; 0 if it has none
  m_lNextFileTransferId,
  request,           \* how far the offer of a transfer has been put to the user
  record,            \* the offers a conversation window still shows
  failed,            \* transfers reported with "File Send Failed"
  disco_callbacks,   \* those that wait to hear what the contact's client takes
  canceling,         \* those whose NotifyMessageThread is in CancelFileTransfers
  picked,            \* pXfer there
  queue,             \* messages posted to the thread of the user interface
  shown              \* status in m_listFileTransfers; "absent" if it is not there

idVars == <<ui_data, m_lNextFileTransferId>>
libVars == <<status, refs, file, m_mapFileTransfer>>
requestVars == <<request, record>>
workerVars == <<failed, disco_callbacks, canceling, picked>>
vars == <<libVars, idVars, requestVars, workerVars, queue, shown>>

Final == {"done", "cancelLocal", "cancelRemote"}
Statuses == {"notStarted", "accepted", "started"} \cup Final
Kinds == {"ask", "init", "progress", "canceled"}
Message(kind, x) == [kind |-> kind, xfer |-> x]
Messages == [kind : Kinds, xfer : Xfers]

FileTransferInit ==
  /\ status = [x \in Xfers |-> "new"]
  /\ refs = [x \in Xfers |-> 0]
  /\ file = [x \in Xfers |-> "none"]
  /\ m_mapFileTransfer = {}
  /\ ui_data = [x \in Xfers |-> 0]
  /\ m_lNextFileTransferId = 0
  /\ request = [x \in Receives |-> "none"]
  /\ record = {}
  /\ failed = {}
  /\ disco_callbacks = {}
  /\ canceling = {}
  /\ picked = [x \in Sends |-> NoXfer]
  /\ queue = <<>>
  /\ shown = [x \in Xfers |-> "absent"]

\* AddPurpleXfer, for a transfer that has no id yet.
AddPurpleXfer(x) ==
  /\ m_lNextFileTransferId' = m_lNextFileTransferId + 1
  /\ ui_data' = [ui_data EXCEPT ![x] = m_lNextFileTransferId + 1]
  /\ m_mapFileTransfer' = m_mapFileTransfer \cup {x}


\* Mutant: erase(it, end()).
RemoveFromThere(x) == {y \in m_mapFileTransfer : ui_data[y] < ui_data[x]}

\* RemovePurpleXfer does nothing if the transfer is not there.
RemovePurpleXfer(x) == m_mapFileTransfer \ {x}

\* GetPurpleXfer(pAccount, strContact) goes through the map in the order of the
\* ids.  pXfer is left at the last entry seen, so the loop that finds nobody
\* returns the last transfer of the map.
GetPurpleXfer(c) ==
  LET ofContact == {x \in m_mapFileTransfer : Who[x] = c}
  IN  IF m_mapFileTransfer = {} THEN NoXfer
      ELSE IF ofContact = {}
           THEN CHOOSE x \in m_mapFileTransfer :
                  \A y \in m_mapFileTransfer : ui_data[y] <= ui_data[x]
           ELSE CHOOSE x \in ofContact : \A y \in ofContact : ui_data[x] <= ui_data[y]


\* Mutant: neither Clone() nor the constructor takes a reference.
PostedRefsNone == 0

\* References a posted CPurpleFileTransferInfo takes: Clone() and the
\* constructor it calls take one each, the destructor gives one back.
PostedRefs == 2

\* purple_xfer_unref, n times; purple_xfer_destroy reports the last one and
\* OnFileTransferDestroyed takes the transfer from the map.
Unref(x, n) ==
  /\ refs' = [refs EXCEPT ![x] = @ - n]
  /\ m_mapFileTransfer' = IF refs[x] = n THEN RemovePurpleXfer(x) ELSE m_mapFileTransfer

SetStatus(x, s) == status' = [status EXCEPT ![x] = s]
Post(kind, x) == queue' = Append(queue, Message(kind, x))

\* purple_xfer_cancel_local; the service's FileTransferCancelLocal is empty.
CancelLocal(x) == SetStatus(x, "cancelLocal") /\ Unref(x, 1)


\* Mutant: the transfer stays in the map.
CancelRemoteKeeps(x) ==
  /\ SetStatus(x, "cancelRemote")
  /\ Post("canceled", x)
  /\ refs' = [refs EXCEPT ![x] = @ + PostedRefs - 1]
  /\ UNCHANGED m_mapFileTransfer

\* purple_xfer_cancel_remote, with OnFileTransferCanceled.
CancelRemote(x) ==
  /\ SetStatus(x, "cancelRemote")
  /\ m_mapFileTransfer' = RemovePurpleXfer(x)
  /\ Post("canceled", x)
  /\ refs' = [refs EXCEPT ![x] = @ + PostedRefs - 1]

(***************************************************************************)
(* The thread of the user interface, with access to libpurple              *)
(***************************************************************************)

\* purple_notify_error(.., "File Send Failed", ..) starts a worker thread, which
\* cancels if the text says ", user" (is not online, does not support file
\* transfers); it does not if the JID is invalid or its presence unknown.
FileSendFailed(x, saysUser) ==
  /\ failed' = failed \cup {x}
  /\ canceling' = IF saysUser THEN canceling \cup {x} ELSE canceling

\* jabber_disco_info_do; disco_callbacks has one entry for each client.
AskClient(x) ==
  \E y \in {x} \cup {z \in disco_callbacks : Who[z] = Who[x]} :
    disco_callbacks' = (disco_callbacks \ {y}) \cup {x}

\* SendFile: purple_xfer_request_accepted reports the new transfer, and
\* jabber_si_xfer_init fails at once if the contact has no resource online.
\* What the client takes may be known, else it is asked.
SendFile(x) ==
  /\ x \in Sends /\ status[x] = "new"
  /\ SetStatus(x, "notStarted")
  /\ refs' = [refs EXCEPT ![x] = 1 + PostedRefs]
  /\ AddPurpleXfer(x)
  /\ Post("init", x)
  /\ \/ (\E saysUser \in BOOLEAN : FileSendFailed(x, saysUser)) /\ UNCHANGED disco_callbacks
     \/ UNCHANGED <<failed, canceling>> /\ (AskClient(x) \/ UNCHANGED disco_callbacks)
  /\ UNCHANGED <<file, requestVars, picked, shown>>

\* AcceptFileAsync: the callback is purple_xfer_choose_file, whose request is
\* the worker thread that asks for the path.
AcceptFileAsync(x) ==
  /\ x \in record /\ request[x] = "asked"
  /\ request' = [request EXCEPT ![x] = IF status[x] # "cancelRemote" THEN "path" ELSE "answered"]
  /\ UNCHANGED <<libVars, idVars, record, workerVars, queue, shown>>

\* RejectFileAsync: the callback is cancel_recv_cb.
RejectFileAsync(x) ==
  /\ x \in record /\ request[x] = "asked"
  /\ request' = [request EXCEPT ![x] = "answered"]
  /\ IF status[x] # "cancelRemote"
     THEN /\ SetStatus(x, "cancelLocal")
          /\ refs' = [refs EXCEPT ![x] = @ - 2]
          /\ m_mapFileTransfer' = RemovePurpleXfer(x)
     ELSE UNCHANGED <<status, refs, m_mapFileTransfer>>
  /\ UNCHANGED <<idVars, file, record, workerVars, queue, shown>>

\* The window goes, with its CMessageTemplateRecord and the reference of its
\* CPurpleRequestFileTransferAsyncInfo; an offer not answered stays so.
CloseConversation(x) ==
  /\ x \in record
  /\ record' = record \ {x}
  /\ Unref(x, 1)
  /\ UNCHANGED <<idVars, status, file, request, workerVars, queue, shown>>


\* Mutant: libpurple is not told.
CancelFileTransferHere(x) ==
  /\ shown[x] \notin Final \cup {"absent"}
  /\ shown' = [shown EXCEPT ![x] = "cancelLocal"]
  /\ UNCHANGED <<libVars, idVars, requestVars, workerVars, queue>>

\* CFileTransferManager::CancelFileTransfer; the protocol finds the transfer
\* by its id.
CancelFileTransfer(x) ==
  /\ shown[x] \notin Final \cup {"absent"}
  /\ shown' = [shown EXCEPT ![x] = "cancelLocal"]
  /\ IF x \in m_mapFileTransfer THEN CancelLocal(x)
     ELSE UNCHANGED <<status, refs, m_mapFileTransfer>>
  /\ UNCHANGED <<idVars, file, requestVars, workerVars, queue>>

(***************************************************************************)
(* The same thread, handling what was posted                               *)
(***************************************************************************)
Received(kind, x) == queue # <<>> /\ Head(queue) = Message(kind, x) /\ queue' = Tail(queue)

\* NotifyRequestFileTransferAsync: the window keeps the posted information.
NotifyRequestFileTransferAsync(x) ==
  /\ Received("ask", x)
  /\ request' = [request EXCEPT ![x] = "asked"]
  /\ record' = record \cup {x}
  /\ UNCHANGED <<libVars, idVars, workerVars, shown>>

NotifyFileTransferInit(x) ==
  /\ Received("init", x)
  /\ shown' = [shown EXCEPT ![x] = "notStarted"]
  /\ Unref(x, 1)
  /\ UNCHANGED <<idVars, status, file, requestVars, workerVars>>


\* Mutant: only a transfer under way is updated.
UpdateProgressStarted(x) ==
  /\ Received("progress", x)
  /\ shown' = [shown EXCEPT ![x] = IF @ # "absent" /\ status[x] = "started" THEN "started" ELSE @]
  /\ Unref(x, 1)
  /\ UNCHANGED <<idVars, status, file, requestVars, workerVars>>

NotifyFileTransferUpdateProgress(x) ==
  /\ Received("progress", x)
  /\ shown' = [shown EXCEPT ![x] = IF @ # "absent" THEN status[x] ELSE @]
  /\ Unref(x, 1)
  /\ UNCHANGED <<idVars, status, file, requestVars, workerVars>>


\* Mutant: the status is set for the temporary transfer only.
CanceledNotSet(x) ==
  /\ Received("canceled", x)
  /\ file' = [file EXCEPT ![x] = IF shown[x] # "absent" /\ @ # "none" THEN "deleted" ELSE @]
  /\ Unref(x, 1)
  /\ UNCHANGED <<idVars, status, shown, requestVars, workerVars>>

\* A transfer that is not in the list is shown by a temporary one, and its
\* file is left alone.
NotifyFileTransferCanceled(x) ==
  /\ Received("canceled", x)
  /\ shown' = [shown EXCEPT ![x] = IF @ # "absent" THEN status[x] ELSE @]
  /\ file' = [file EXCEPT ![x] = IF shown[x] # "absent" /\ @ # "none" THEN "deleted" ELSE @]
  /\ Unref(x, 1)
  /\ UNCHANGED <<idVars, status, requestVars, workerVars>>

HandleMessage ==
  \/ \E x \in Receives : NotifyRequestFileTransferAsync(x)
  \/ \E x \in Xfers :
       \/ NotifyFileTransferInit(x)
       \/ NotifyFileTransferUpdateProgress(x)
       \/ NotifyFileTransferCanceled(x)

(***************************************************************************)
(* libpurple's main loop                                                   *)
(***************************************************************************)

\* jabber_si_parse: the new transfer is put to the user by a worker thread.
OfferFile(x) ==
  /\ x \in Receives /\ status[x] = "new"
  /\ SetStatus(x, "notStarted")
  /\ refs' = [refs EXCEPT ![x] = 2]
  /\ request' = [request EXCEPT ![x] = "offered"]
  /\ UNCHANGED <<idVars, file, m_mapFileTransfer, record, workerVars, queue, shown>>

\* The stream is negotiated or carries the file: xfer->data is not NULL.
Running(x) ==
  \/ status[x] \in {"accepted", "started"}
  \/ x \in Sends \ failed /\ status[x] = "notStarted"

\* jabber_si_xfer_send_disco_cb: the contact's client takes no files, or takes
\* them and is sent the request.  A cancel does not withdraw the callback: that
\* no files are taken is reported after it too; if they are, the callback then
\* uses the data the transfer has lost, and the process ends.
ClientAnswers(x) ==
  /\ x \in disco_callbacks
  /\ disco_callbacks' = disco_callbacks \ {x}
  /\ FileSendFailed(x, TRUE) \/ (Running(x) /\ UNCHANGED <<failed, canceling>>)
  /\ UNCHANGED <<libVars, idVars, requestVars, picked, queue, shown>>

\* The request has been sent, or the offer accepted.
Negotiated(x) == Running(x) /\ x \notin disco_callbacks

\* purple_xfer_start, begin_transfer.
StartTransfer(x) ==
  /\ Negotiated(x) /\ status[x] # "started"
  /\ SetStatus(x, "started")
  /\ file' = [file EXCEPT ![x] = IF x \in Receives THEN "partial" ELSE @]
  /\ UNCHANGED <<idVars, refs, m_mapFileTransfer, requestVars, workerVars, queue, shown>>

\* transfer_cb, with bytes that are not the last ones.
TransferBytes(x) ==
  /\ status[x] = "started" /\ refs[x] < MaxRefs
  /\ Post("progress", x)
  /\ refs' = [refs EXCEPT ![x] = @ + PostedRefs]
  /\ UNCHANGED <<idVars, status, file, m_mapFileTransfer, requestVars, workerVars, shown>>

\* transfer_cb with the last bytes: purple_xfer_set_completed reports them,
\* transfer_cb does so again, and purple_xfer_end gives up one reference.
CompleteTransfer(x) ==
  /\ status[x] = "started"
  /\ SetStatus(x, "done")
  /\ file' = [file EXCEPT ![x] = IF x \in Receives THEN "complete" ELSE @]
  /\ queue' = queue \o <<Message("progress", x), Message("progress", x)>>
  /\ refs' = [refs EXCEPT ![x] = @ + 2 * PostedRefs - 1]
  /\ UNCHANGED <<idVars, m_mapFileTransfer, requestVars, workerVars, shown>>

\* No stream host answers, or the file cannot be opened.
EndLocally(x) ==
  /\ Negotiated(x)
  /\ CancelLocal(x)
  /\ UNCHANGED <<idVars, file, requestVars, workerVars, queue, shown>>

\* The contact refuses or cancels, or the stream fails.
EndRemotely(x) ==
  /\ Negotiated(x)
  /\ CancelRemote(x)
  /\ UNCHANGED <<idVars, file, requestVars, workerVars, shown>>

(***************************************************************************)
(* Worker threads                                                          *)
(***************************************************************************)


\* Mutant: SetPurpleXFer takes no reference.
RequestActionThreadNoRef(x) ==
  /\ request[x] = "offered"
  /\ request' = [request EXCEPT ![x] = "posted"]
  /\ AddPurpleXfer(x)
  /\ Post("ask", x)
  /\ UNCHANGED <<status, refs, file, record, workerVars, shown>>

\* RequestActionThread: ProcessRequestFileTransferAction.  The information
\* that it posts holds a reference.
RequestActionThread(x) ==
  /\ request[x] = "offered"
  /\ request' = [request EXCEPT ![x] = "posted"]
  /\ AddPurpleXfer(x)
  /\ refs' = [refs EXCEPT ![x] = @ + 1]
  /\ Post("ask", x)
  /\ UNCHANGED <<status, file, record, workerVars, shown>>

\* purple_xfer_choose_file_ok_cb: the transfer is accepted.
AcceptPath(x) ==
  /\ request' = [request EXCEPT ![x] = "answered"]
  /\ SetStatus(x, "accepted")
  /\ refs' = [refs EXCEPT ![x] = @ + PostedRefs - 1]
  /\ Post("init", x)
  /\ UNCHANGED m_mapFileTransfer

\* The directory cannot be written to: the question, with its reference, is left
\* to the notification that says so.
RefuseDirectory(x) ==
  /\ request' = [request EXCEPT ![x] = "unwritable"]
  /\ UNCHANGED <<status, refs, m_mapFileTransfer, queue>>

\* The path is a directory: the transfer is denied, its status stays as it was.
DenyPath(x) ==
  /\ request' = [request EXCEPT ![x] = "denied"]
  /\ Unref(x, 2)
  /\ UNCHANGED <<status, queue>>

ChooseFileOk(x) == AcceptPath(x) \/ RefuseDirectory(x) \/ DenyPath(x)


\* Mutant: a remote cancel is not tested.
PathChosenAnyway(x) ==
  /\ request[x] = "path"
  /\ ChooseFileOk(x)
  /\ UNCHANGED <<idVars, file, record, workerVars, shown>>

\* RequestFileThread: the user gives a path.
PathChosen(x) ==
  /\ request[x] = "path"
  /\ IF status[x] # "cancelRemote" THEN ChooseFileOk(x)
     ELSE /\ request' = [request EXCEPT ![x] = "answered"]
          /\ UNCHANGED <<status, refs, m_mapFileTransfer, queue>>
  /\ UNCHANGED <<idVars, file, record, workerVars, shown>>

\* NotifyUserInfoThread closes the oldest notification, whichever it is: all
\* have the handle of the service.  purple_xfer_choose_file asks for a path again.
NotificationClosed(x) ==
  /\ request[x] = "unwritable"
  /\ request' = [request EXCEPT ![x] = "path"]
  /\ UNCHANGED <<libVars, idVars, record, workerVars, queue, shown>>

\* RequestFileThread: the user gives none (purple_xfer_choose_file_cancel_cb).
PathRefused(x) ==
  /\ request[x] = "path"
  /\ request' = [request EXCEPT ![x] = "answered"]
  /\ IF status[x] # "cancelRemote" THEN CancelLocal(x)
     ELSE UNCHANGED <<status, refs, m_mapFileTransfer>>
  /\ UNCHANGED <<idVars, file, record, workerVars, queue, shown>>

\* CancelFileTransfers, in the NotifyMessageThread of the transfer f: the next
\* transfer is read before libpurple is waited for.
PickTransfer(f) ==
  /\ f \in canceling /\ picked[f] = NoXfer
  /\ picked' = [picked EXCEPT ![f] = GetPurpleXfer(Who[f])]
  /\ canceling' = IF GetPurpleXfer(Who[f]) = NoXfer THEN canceling \ {f} ELSE canceling
  /\ UNCHANGED <<libVars, idVars, requestVars, failed, disco_callbacks, queue, shown>>

\* A transfer destroyed since it was picked is left as it was.
CancelPicked(f) ==
  /\ picked[f] # NoXfer
  /\ IF refs[picked[f]] > 0 THEN CancelRemote(picked[f])
     ELSE UNCHANGED <<status, refs, m_mapFileTransfer, queue>>
  /\ picked' = [picked EXCEPT ![f] = NoXfer]
  /\ UNCHANGED <<idVars, file, requestVars, failed, disco_callbacks, canceling, shown>>

CancelFileTransfers(f) == PickTransfer(f) \/ CancelPicked(f)

FileTransferNext ==
  \/ HandleMessage
  \/ \E x \in Sends : SendFile(x) \/ ClientAnswers(x) \/ CancelFileTransfers(x)
  \/ \E x \in Receives :
       \/ OfferFile(x) \/ RequestActionThread(x)
       \/ AcceptFileAsync(x) \/ RejectFileAsync(x) \/ CloseConversation(x)
       \/ PathChosen(x) \/ PathRefused(x) \/ NotificationClosed(x)
  \/ \E x \in Xfers :
       \/ StartTransfer(x) \/ TransferBytes(x) \/ CompleteTransfer(x)
       \/ EndLocally(x) \/ EndRemotely(x) \/ CancelFileTransfer(x)

FileTransferSpec == FileTransferInit /\ [][FileTransferNext]_vars

\* The message loop and the worker threads go on; the network and the user
\* promise nothing.
FairFileTransferSpec ==
  /\ FileTransferSpec
  /\ WF_vars(HandleMessage)
  /\ \A f \in Sends : WF_vars(CancelFileTransfers(f))
  /\ \A x \in Receives : WF_vars(RequestActionThread(x))

(***************************************************************************)
(* Properties                                                              *)
(***************************************************************************)

\* Every variable keeps its type, no reference is given up twice.
TransferTypeOK ==
  /\ status \in [Xfers -> Statuses \cup {"new"}]
  /\ refs \in [Xfers -> Nat]
  /\ file \in [Xfers -> {"none", "partial", "complete", "deleted"}]
  /\ m_mapFileTransfer \subseteq Xfers
  /\ ui_data \in [Xfers -> Nat]
  /\ m_lNextFileTransferId \in Nat
  /\ request \in [Receives -> {"none", "offered", "posted", "asked", "path", "unwritable",
                             "answered", "denied"}]
  /\ record \subseteq Receives
  /\ failed \subseteq Sends
  /\ disco_callbacks \subseteq Sends
  /\ canceling \subseteq failed
  /\ picked \in [Sends -> Xfers \cup {NoXfer}]
  /\ queue \in Seq(Messages)
  /\ shown \in [Xfers -> Statuses \cup {"absent"}]

Queued(x) == \E i \in DOMAIN queue : queue[i].xfer = x

\* A transfer that the map, a message, an offer on the screen, the thread asking
\* for a path or the notification that asks again still points to has not been
\* destroyed, although the thread of the user interface and the workers give up
\* references too.  What CancelFileTransfers has picked may have been.
NothingDangles ==
  \A x \in Xfers :
    \/ x \in m_mapFileTransfer \cup record
    \/ Queued(x)
    \/ x \in Receives /\ request[x] \in {"path", "unwritable"}
    => refs[x] > 0

\* Once nothing about it is on its way, an end the user is shown is the one
\* libpurple knows, and a completion or a remote cancel is shown.
QuietEndsAgree ==
  \A x \in Xfers :
    ~Queued(x) /\ shown[x] # "absent"
    /\ (shown[x] \in Final \/ status[x] \in {"done", "cancelRemote"}) => shown[x] = status[x]

\* As long as a transfer can go on, CPurpleProtocol::CancelFileTransfer finds
\* it: it cannot carry bytes and be out of the user's reach.
RunningIsMapped == \A x \in Xfers : Running(x) => x \in m_mapFileTransfer

\* What the user is shown as over never goes back to a transfer under way,
\* whatever was posted before it was cancelled.
ShownEndIsKept ==
  [][\A x \in Xfers : shown[x] \in Final => shown'[x] \in Final]_vars

\* A transfer that was cancelled remotely, also while its offer or its path
\* was on the screen, is not accepted, started or completed afterwards.
RemoteCancelIsKept ==
  [][\A x \in Xfers : status[x] = "cancelRemote" => status'[x] = "cancelRemote"]_vars

\* CancelFileTransfers, a loop until the map has no transfer left, ends.
CancelEnds == \A f \in Sends : f \in canceling ~> f \notin canceling

\* A transfer completed or cancelled by the other side is shown as over.
EndIsShown ==
  \A x \in Xfers :
    shown[x] # "absent" /\ status[x] \in {"done", "cancelRemote"} ~> shown[x] \in Final

\* The comment of NotifyFileTransferCanceled: what it deletes is an
\* incomplete file.
DeletedIsIncomplete ==
  [][\A x \in Xfers : file'[x] = "deleted" /\ file[x] # "deleted" => file[x] = "partial"]_vars
=============================================================================
