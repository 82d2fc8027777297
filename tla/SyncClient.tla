------------------------------ MODULE SyncClient ------------------------------
(***************************************************************************)
(* The blocking clients, from end to end: ServiceStub::SyncRequest(),      *)
(* ClientSyncReader, ClientSyncWriter and ClientSyncReaderWriter.  A call  *)
(* has a plucking completion queue of its own: each function starts a      *)
(* batch and waits, without a timeout, for its event.  The handler on the  *)
(* other side is a stream by its specification OrderedStream; the call may *)
(* die at any moment.  One thread uses a client: Data::status is not       *)
(* locked.                                                                 *)
(***************************************************************************)
EXTENDS Naturals, Sequences, CallOps

CONSTANTS MaxMsgs,     \* bound: messages each way
          StartMayFail \* may grpc_call_start_batch() refuse a valid batch?

ASSUME SyncAssumption == MaxMsgs \in Nat \ {0} /\ StartMayFail \in BOOLEAN

VARIABLES
  kind,               \* which client; "request" is SyncRequest()
  deadline,           \* has the call a deadline? GetTimeoutMs(): nil means none
  status,             \* ClientSyncReaderData::status, ClientSyncWriterData::status
  writing_closed_, init_md_received_,  \* of ClientSyncReaderWriterImpl
  at,                 \* the batch the thread waits for, "idle" or "gone"
  \* grpc core and the other side (external)
  used,               \* operations that were started
  received,           \* requests that reached the handler
  eof,                \* the client was given the end of the stream
  accepted, sent, closing, ended, broken, \* the handler's writer or replier
  dead,               \* the call has died
  \* history
  nread,              \* messages the user was given
  last,               \* the status the last RecvStatus(), Close() or request returned
  stopped,            \* ReadOne() has returned false, or SetErrorStatus() was called
  repeated,           \* the user called RecvStatus() or Close() before
  refused,            \* a batch was refused by IsRefused
  asserted,           \* CodRecvMsg::GetResultMsg() found no message
  lost                \* Write() returned true for a message the dead call lost

handler == <<accepted, sent, closing, ended, broken>>
own == <<status, writing_closed_, init_md_received_, at, used, received, eof,
         nread, last, stopped, repeated, refused, asserted, lost>>
vars == <<kind, deadline, own, handler, dead>>

Handler == INSTANCE OrderedStream WITH
  Msg <- 1 .. MaxMsgs, Status <- {"ok", "error"}, NoStatus <- "none"

Kinds == {"request", "reader", "writer", "rdwr"}
Waits == {"start", "write", "close_writing", "init_md", "read", "close", "status"}

TypeOK ==
  /\ kind \in Kinds /\ at \in Waits \cup {"new", "idle", "gone"}
  /\ {deadline, writing_closed_, init_md_received_, dead, eof, stopped,
      repeated, refused, asserted, lost} \subseteq BOOLEAN
  /\ status \in {"ok", "error", "internal", "user"}
  /\ last \in {"none", "ok", "error", "internal", "user"}
  /\ used \subseteq ClientCallTag
  /\ {received, nread} \subseteq Nat
  /\ Handler!TypeOK

Init ==
  /\ kind \in Kinds /\ deadline \in BOOLEAN
  /\ status = "ok" /\ writing_closed_ = FALSE /\ init_md_received_ = FALSE
  /\ at = "new" /\ used = {} /\ received = 0 /\ eof = FALSE
  /\ Handler!Init /\ ~broken /\ dead = FALSE
  /\ nread = 0 /\ last = "none" /\ stopped = FALSE /\ repeated = FALSE
  /\ refused = FALSE /\ asserted = FALSE /\ lost = FALSE

Streams == kind \in {"reader", "rdwr"}   \* the answer is a stream
HalfClosed == "send_close_from_client" \in used

-------------------------------------------------------------------------------
(* Starting a batch: tag.Start().  A batch that is taken leaves the thread in
   Pluck(); one that is refused makes the function return. *)

Takes(ops, wait) == ~IsRefused(used, ops) /\ used' = used \cup ops /\ at' = wait

Refuses(ops) ==
  /\ StartMayFail \/ IsRefused(used, ops)
  /\ refused' = (refused \/ IsRefused(used, ops))
  /\ at' = "idle" /\ UNCHANGED used

\* Start() with status.SetInternalError() if it fails.
Starts(ops, wait) ==
  \/ Takes(ops, wait) /\ UNCHANGED <<status, refused>>
  \/ Refuses(ops) /\ status' = "internal"

Returned(st) == last' = st
Unread == UNCHANGED <<received, eof, nread, stopped>>
Unchecked == UNCHANGED <<writing_closed_, init_md_received_, asserted, lost>>

-------------------------------------------------------------------------------
(* What the user calls *)

\* The constructors start the call.
New(k, tag) ==
  /\ at = "new" /\ kind = k
  /\ Starts(tag, "start")
  /\ Unread /\ Unchecked /\ UNCHANGED <<last, repeated>>
NewReader == New("reader", ClientReaderInitTag)
NewWriter == New("writer", ClientSendInitMdTag)
NewReaderWriter == New("rdwr", ClientSendInitMdTag)

\* ServiceStub::SyncRequest(): its status is a local variable.
SyncRequest ==
  /\ at = "new" /\ kind = "request"
  /\ \/ Takes(ClientCallTag, "close") /\ UNCHANGED <<refused, last>>
     \/ Refuses(ClientCallTag) /\ Returned("internal")
  /\ Unread /\ Unchecked /\ UNCHANGED <<status, repeated>>

\* SyncWrite(), if it gets past its test of the status.
Write ==
  /\ at = "idle" /\ kind \in {"writer", "rdwr"} /\ status = "ok"
  /\ received < MaxMsgs
  /\ Starts(ClientSendMsgTag, "write")
  /\ Unread /\ Unchecked /\ UNCHANGED <<last, repeated>>

\* Fault: a redundant call closes again.
CloseWriting_Again ==
  /\ at = "idle" /\ kind = "rdwr"
  /\ writing_closed_' = TRUE
  /\ IF status = "ok" THEN Starts(ClientSendCloseTag, "close_writing")
                      ELSE UNCHANGED <<used, at, status, refused>>
  /\ Unread /\ UNCHANGED <<init_md_received_, asserted, lost, last, repeated>>
CloseWriting ==
  /\ at = "idle" /\ kind = "rdwr" /\ ~writing_closed_
  /\ writing_closed_' = TRUE
  /\ IF status = "ok" THEN Starts(ClientSendCloseTag, "close_writing")
                      ELSE UNCHANGED <<used, at, status, refused>>
  /\ Unread /\ UNCHANGED <<init_md_received_, asserted, lost, last, repeated>>

\* The read batch of SyncReadOne(); ReadOne() returns false if it is refused.
StartRead == Starts(ClientReaderReadTag, "read") /\ stopped' = (stopped \/ at' = "idle")

\* Fault: a user who broke the reading goes on reading.
ReadsOn_Always == TRUE
ReadsOn == status = "ok"

\* ReadOne(), the first time with RecvInitMdIfNot().
ReadOne ==
  /\ at = "idle" /\ Streams
  /\ IF ~ReadsOn
       THEN stopped' = TRUE /\ UNCHANGED <<used, at, status, refused, init_md_received_>>
     ELSE IF kind = "rdwr" /\ ~init_md_received_
       THEN /\ init_md_received_' = TRUE
            /\ Starts(ClientRecvInitMdTag, "init_md")
            /\ stopped' = (stopped \/ at' = "idle")
     ELSE StartRead /\ UNCHANGED init_md_received_
  /\ UNCHANGED <<writing_closed_, received, eof, nread, last, repeated, asserted, lost>>

\* RecvStatus(): a stored error, or a batch; its failure is not stored.
RecvStatus ==
  /\ at = "idle" /\ Streams
  /\ IF status # "ok"
       THEN Returned(status) /\ UNCHANGED <<used, at, refused, repeated>>
     ELSE /\ \/ Takes(ClientReaderRecvStatusTag, "status") /\ UNCHANGED <<refused, last>>
             \/ Refuses(ClientReaderRecvStatusTag) /\ Returned("internal")
          /\ repeated' = (repeated \/ ClientRecvStatus \subseteq used)
  /\ Unread /\ Unchecked /\ UNCHANGED status

SetErrorStatus ==
  /\ at = "idle" /\ Streams
  /\ status' = "user" /\ stopped' = TRUE
  /\ Unchecked /\ UNCHANGED <<at, used, received, eof, nread, last, repeated, refused>>

\* ClientSyncWriter::Close()
Close ==
  /\ at = "idle" /\ kind = "writer"
  /\ IF status # "ok"
       THEN Returned(status) /\ UNCHANGED <<used, at, status, refused, repeated>>
     ELSE /\ Starts(ClientWriterCloseTag, "close")
          /\ last' = IF at' = "idle" THEN "internal" ELSE last
          /\ repeated' = (repeated \/ ClientRecvStatus \subseteq used)
  /\ Unread /\ Unchecked

\* The last copy goes; of a reader-writer, ~ClientSyncReaderWriterImpl() has
\* called CloseWriting().  The call is cancelled unless it has its status.
Destroy ==
  /\ at = "idle" /\ (kind = "rdwr" => writing_closed_)
  /\ at' = "gone"
  /\ dead' = (dead \/ ~(ClientRecvStatus \subseteq used))
  /\ Unread /\ Unchecked /\ UNCHANGED <<used, status, last, repeated, refused>>

-------------------------------------------------------------------------------
(* Pluck() returns the event of the batch *)

MdArrived == sent # <<>> \/ ended # "none" \/ dead
AllRead == ended # "none" /\ nread = Len(sent)
Idle == at' = "idle" /\ UNCHANGED used

\* The call is open; of a server-streaming call the handler has answered.
OnStart ==
  /\ at = "start" /\ (kind = "reader" => MdArrived)
  /\ Idle /\ Unread /\ Unchecked /\ UNCHANGED <<status, last, repeated, refused>>

\* SyncWrite() returns true, whether the message went out or not.
OnWrite ==
  /\ at = "write"
  /\ \/ ~dead /\ ~HalfClosed /\ received' = received + 1 /\ UNCHANGED lost
     \/ /\ dead \/ HalfClosed \/ ended # "none"
        /\ lost' = (lost \/ (ended = "none" /\ ~HalfClosed))
        /\ UNCHANGED received
  /\ Idle
  /\ UNCHANGED <<status, writing_closed_, init_md_received_, eof, nread, last, stopped,
                 repeated, refused, asserted>>

OnCloseWriting ==
  /\ at = "close_writing"
  /\ Idle /\ Unread /\ Unchecked /\ UNCHANGED <<status, last, repeated, refused>>

\* RecvInitMdIfNot() is done, ReadOne() goes on.
OnInitMd ==
  /\ at = "init_md" /\ MdArrived
  /\ StartRead
  /\ Unchecked /\ UNCHANGED <<received, eof, nread, last, repeated>>

\* SyncReadOne() goes on: a message, a bad message, or none.
OnRead ==
  /\ at = "read"
  /\ \/ /\ nread < Len(sent) /\ ~eof /\ nread' = nread + 1 /\ UNCHANGED eof
        /\ \/ UNCHANGED <<status, stopped>>
           \/ status' = "internal" /\ stopped' = TRUE
     \/ /\ AllRead \/ dead
        /\ eof' = TRUE /\ stopped' = TRUE /\ UNCHANGED <<nread, status>>
  /\ Idle /\ Unchecked /\ UNCHANGED <<received, last, repeated, refused>>

OnStatus ==
  /\ at = "status"
  /\ \/ AllRead /\ Returned(ended)
     \/ dead /\ Returned("error")
  /\ Idle /\ Unread /\ Unchecked /\ UNCHANGED <<status, repeated, refused>>

\* Fault: a message is taken for a good status.
AnswerStatus_Msg(st, msg) == IF msg THEN {"ok", "internal"} ELSE {st}
\* tag.IsStatusOk() ? tag.GetResponse() : tag.GetStatus()
AnswerStatus(st, msg) == IF st = "ok" /\ msg THEN {"ok", "internal"} ELSE {st}

\* The batch of Close() or of SyncRequest() brought the status st and, if msg, a
\* message.
Answer(st, msg) ==
  /\ \E answer \in AnswerStatus(st, msg) :
       Returned(answer) /\ status' = IF kind = "writer" THEN answer ELSE status
  /\ asserted' = (asserted \/ (st = "ok" /\ ~msg))
  /\ nread' = IF msg THEN 1 ELSE 0

OnClose ==
  /\ at = "close"
  /\ LET msg == sent # <<>> /\ RecvMsg \subseteq used
     IN \/ ended # "none" /\ Answer(ended, msg)
        \/ dead /\ (Answer("error", msg) \/ Answer("error", FALSE))
  /\ Idle
  /\ UNCHANGED <<writing_closed_, init_md_received_, received, eof, stopped,
                 repeated, refused, lost>>

OnEvent == OnStart \/ OnWrite \/ OnCloseWriting \/ OnInitMd \/ OnRead \/ OnStatus \/ OnClose

-------------------------------------------------------------------------------
(* The other side *)

\* A handler of one answer replies a message and OK, or a status alone; one of a
\* single request is called when it is there.  Nothing arrives of a dead call.
OneAnswer == kind \in {"request", "writer"}
HandlerStep ==
  /\ IF kind \in {"request", "reader"} THEN HalfClosed ELSE used # {}
  /\ \/ \E m \in 1 .. MaxMsgs :
          /\ m = Len(accepted) + 1 /\ (OneAnswer => m = 1)
          /\ Handler!Accept(m)
     \/ Handler!Send \/ Handler!End \/ Handler!Break
     \/ \E st \in {"ok", "error"} :
          (OneAnswer /\ accepted # <<>> => st = "ok") /\ Handler!Close(st)
  /\ dead => sent' = sent /\ ended' = ended
  /\ UNCHANGED <<kind, deadline, own, dead>>

Die == ~dead /\ dead' = TRUE /\ UNCHANGED <<kind, deadline, own, handler>>

UserStep ==
  \/ NewReader \/ NewWriter \/ NewReaderWriter \/ SyncRequest
  \/ Write \/ CloseWriting \/ ReadOne \/ RecvStatus \/ SetErrorStatus \/ Close
ClientStep == (UserStep \/ OnEvent) /\ UNCHANGED <<kind, deadline, handler, dead>>
DestroyStep == Destroy /\ UNCHANGED <<kind, deadline, handler>>

Next == ClientStep \/ DestroyStep \/ HandlerStep \/ Die \/ (at = "gone" /\ UNCHANGED vars)

SafeSpec == Init /\ [][Next]_vars

\* grpc core delivers the events; the handler's stream keeps its promise; the
\* handler closes once the client's stream has ended; a call whose handler broke,
\* or whose deadline comes, dies.
Spec ==
  /\ SafeSpec
  /\ WF_vars(OnEvent /\ ClientStep)
  /\ WF_vars((Handler!Send \/ Handler!End) /\ HandlerStep)
  /\ WF_vars(HalfClosed /\ HandlerStep /\ closing = "none" /\ closing' # "none")
  /\ WF_vars((broken \/ deadline) /\ Die)

-------------------------------------------------------------------------------
(* Properties *)

\* grpc core refuses a batch for its operations only if the user receives the
\* status or closes a second time: whatever else is called, in any order and how
\* often, no function starts what another has started.
BatchesAccepted == refused => repeated

\* If a user is told OK, the handler closed with OK, everything it accepted was
\* read, and no message that Write() took was lost by a call that died.
OkIsTrue ==
  last = "ok" => /\ ended = "ok" /\ closing = "ok" /\ sent = accepted /\ ~lost
                 /\ nread = Len(accepted) \/ asserted

\* The client finds no message behind an OK only if the handler replied an "error"
\* that is OK.
AssertsHold == asserted => closing = "ok" /\ accepted = <<>>

\* "Set error status to break reading": after an error, the end of the stream or
\* SetErrorStatus(), ReadOne() gives no message.
ReadStops == [][stopped => nread' = nread]_vars

\* Every function returns: with a deadline always, without one as long as the
\* user closes the writing before reading, and reads to the end before receiving
\* the status.
WellUsed ==
  /\ at = "status" => stopped
  /\ kind = "rdwr" /\ at \in {"init_md", "read", "status"} => writing_closed_
CallsReturn == at \in Waits /\ (deadline \/ WellUsed) ~> at \notin Waits

===============================================================================
