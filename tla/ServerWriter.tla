----------------------------- MODULE ServerWriter -----------------------------
(***************************************************************************)
(* ServerWriterImpl, the writer of a server-side streaming or              *)
(* bidirectional call: application threads write and close through copies  *)
(* of a ServerWriter; the thread that runs the completion queue calls      *)
(* TryToWriteNext() when a write batch completes.                          *)
(*                                                                         *)
(* Every function that holds mtx_ from start to end is one action.  The    *)
(* functions that lock more than once (Write, SyncWrite, SyncClose) are    *)
(* split where they unlock; pc[t] says where thread t is in between.       *)
(***************************************************************************)
EXTENDS Integers, Sequences, FiniteSets

CONSTANTS Threads,       \* threads that hold a copy of the writer
          CqThread,      \* the one that also runs the completion queue
          Calls,         \* Calls[t]: the operations thread t may call
          Status,        \* statuses to close with; the destructor uses OK
          OK, NoStatus,
          HighSizes,     \* arguments of SetHighQueueSize()
          InitHighSize,  \* initial high_queue_size_ (size_t max in the code)
          MaxMsgs,       \* bound: write calls in a behaviour
          StartMayFail   \* may grpc_call_start_batch() refuse a batch?

Ops == {"Write", "SyncWrite", "AsyncWrite", "SyncClose", "AsyncClose",
        "SetHighQueueSize"}

ASSUME ConstantsAssumption ==
  /\ CqThread \in Threads
  /\ Calls \in [Threads -> SUBSET Ops]
  /\ OK \in Status /\ NoStatus \notin Status
  /\ HighSizes \subseteq Nat /\ InitHighSize \in Nat
  /\ MaxMsgs \in Nat
  /\ StartMayFail \in BOOLEAN

VARIABLES
  \* the fields of ServerWriterImpl
  closed_, send_init_md_, is_sending_, high_queue_size_, queue_,
  close_status_uptr_,
  wild,        \* queue_ was popped while empty: its size() is 2^64 - 1
  \* the threads
  pc, arg,     \* where a thread is, and the message it is writing
  handles,     \* threads that still hold a copy of the ServerWriter
  process,     \* "up", or how the process died: "assert", "ub"
  destroyed,   \* ~ServerWriterImpl() has run
  \* grpc core: what StartBatch() took (external)
  sent, ended, md_batches,
  inflight,    \* write batches grpc core is working on
  events,      \* their completions waiting in the completion queue
  \* history, read by no action
  accepted,    \* messages an AsyncWrite() took, in lock order
  broken,      \* StartBatch() has refused a batch
  nmsgs,       \* messages passed to a write call so far
  outcome      \* what the write call of a message answered

fields == <<closed_, send_init_md_, is_sending_, high_queue_size_, queue_,
            close_status_uptr_, wild>>
transport == <<sent, ended, md_batches, inflight, events>>
stream == <<accepted, broken>>
calls == <<nmsgs, outcome>>
vars == <<fields, transport, stream, calls, pc, arg, handles, process,
          destroyed>>

Msg == 1 .. MaxMsgs

\* refused: AsyncWrite() false.  taken: AsyncWrite() true.
\* synced, unsure: SyncWrite() true, and false after AsyncWrite() was true.
Outcomes == {"none", "refused", "taken", "synced", "unsure"}

TypeOK ==
  /\ closed_ \in BOOLEAN /\ send_init_md_ \in BOOLEAN
  /\ is_sending_ \in BOOLEAN /\ wild \in BOOLEAN
  /\ high_queue_size_ \in Nat
  /\ queue_ \in Seq(Msg)
  /\ close_status_uptr_ \in Status \cup {NoStatus}
  /\ pc \in [Threads -> {"idle", "low", "high", "spin_write", "sync_ret",
                         "spin_close"}]
  /\ arg \in [Threads -> Msg \cup {0}]
  /\ handles \subseteq Threads
  /\ process \in {"up", "assert", "ub"}
  /\ destroyed \in BOOLEAN
  /\ sent \in Seq(Msg) /\ accepted \in Seq(Msg)
  /\ ended \in Status \cup {NoStatus}
  /\ md_batches \in Nat /\ inflight \in Nat /\ events \in Nat
  /\ broken \in BOOLEAN
  /\ nmsgs \in 0 .. MaxMsgs
  /\ outcome \in [Msg -> Outcomes]

Init ==
  /\ closed_ = FALSE /\ send_init_md_ = TRUE /\ is_sending_ = FALSE
  /\ high_queue_size_ = InitHighSize
  /\ queue_ = <<>> /\ wild = FALSE
  /\ close_status_uptr_ = NoStatus
  /\ pc = [t \in Threads |-> "idle"] /\ arg = [t \in Threads |-> 0]
  /\ handles = {t \in Threads : Calls[t] # {}}
  /\ process = "up" /\ destroyed = FALSE
  /\ sent = <<>> /\ ended = NoStatus /\ md_batches = 0
  /\ inflight = 0 /\ events = 0
  /\ accepted = <<>> /\ broken = FALSE
  /\ nmsgs = 0 /\ outcome = [m \in Msg |-> "none"]

-------------------------------------------------------------------------------
(* Parts of the handlers *)

\* assert(P): the build keeps assertions.
CodeAssert(P) == process' = IF P THEN "up" ELSE "assert"

\* Fault: the last queued message is overlooked.
QueueIsEmpty_OffByOne == Len(queue_) <= 1 /\ ~wild

\* size() of the std::queue; only compared with 0 and high_queue_size_.
QueueIsEmpty == queue_ = <<>> /\ ~wild
QueueIsHigh == wild \/ Len(queue_) >= high_queue_size_

\* A batch with CallOperations::SendInitMd() if send_init_md_.
CarryInitMd == md_batches' = md_batches + (IF send_init_md_ THEN 1 ELSE 0)

\* SendMsg(): a batch grpc core takes.  rest is what stays queued.
SendMsgOk(m, rest) ==
  /\ is_sending_' = TRUE
  /\ sent' = Append(sent, m) /\ inflight' = inflight + 1
  /\ CarryInitMd /\ send_init_md_' = FALSE
  /\ queue_' = rest
  /\ UNCHANGED <<closed_, broken>>

\* SendMsg(): a batch grpc core refuses.
SendMsgFails ==
  /\ StartMayFail
  /\ is_sending_' = TRUE /\ closed_' = TRUE
  /\ queue_' = <<>>
  /\ broken' = TRUE
  /\ UNCHANGED <<send_init_md_, sent, inflight, md_batches>>

\* SendStatus(): taken and refused.
SendStatusOk(s) ==
  /\ closed_' = TRUE
  /\ ended' = s /\ CarryInitMd
  /\ UNCHANGED broken

SendStatusFails ==
  /\ StartMayFail
  /\ closed_' = TRUE
  /\ broken' = TRUE
  /\ UNCHANGED <<ended, md_batches>>

\* Fault: a close that waits for the queue is forgotten.
Closing_Sent == closed_
Closing == closed_ \/ close_status_uptr_ # NoStatus

\* The early return of AsyncWrite() and AsyncClose().
IgnoreCall ==
  /\ Closing
  /\ UNCHANGED <<fields, transport, stream, process>>

QueueMsg(m) ==
  /\ ~Closing /\ is_sending_
  /\ queue_' = Append(queue_, m)
  /\ accepted' = Append(accepted, m)
  /\ UNCHANGED <<closed_, send_init_md_, is_sending_, high_queue_size_,
                 close_status_uptr_, wild, transport, broken, process>>

SendNow(m) ==
  /\ ~Closing /\ ~is_sending_
  /\ CodeAssert(QueueIsEmpty)
  /\ SendMsgOk(m, queue_)
  /\ accepted' = Append(accepted, m)
  /\ UNCHANGED <<high_queue_size_, close_status_uptr_, wild, ended, events>>

SendNowFails ==
  /\ ~Closing /\ ~is_sending_
  /\ CodeAssert(QueueIsEmpty)
  /\ SendMsgFails
  /\ UNCHANGED <<high_queue_size_, close_status_uptr_, wild, ended, events,
                 accepted>>

\* AsyncWrite(): returns true, returns false.
AsyncWriteTakes(m) == QueueMsg(m) \/ SendNow(m)
AsyncWriteRefuses == IgnoreCall \/ SendNowFails

\* AsyncClose() while a message is being sent.
DeferClose(s) ==
  /\ ~Closing /\ is_sending_
  /\ close_status_uptr_' = s
  /\ UNCHANGED <<closed_, send_init_md_, is_sending_, high_queue_size_,
                 queue_, wild, transport, stream, process>>

CloseNow(s) ==
  /\ ~Closing /\ ~is_sending_
  /\ close_status_uptr_' = s
  /\ CodeAssert(QueueIsEmpty)
  /\ SendStatusOk(s) \/ SendStatusFails
  /\ UNCHANGED <<send_init_md_, is_sending_, high_queue_size_, queue_, wild,
                 sent, inflight, events, accepted>>

\* AsyncClose().
AsyncCloseBody(s) == IgnoreCall \/ DeferClose(s) \/ CloseNow(s)

-------------------------------------------------------------------------------
(* The application's calls *)

Idle(t) == process = "up" /\ t \in handles /\ pc[t] = "idle"
Goto(t, l) == pc' = [pc EXCEPT ![t] = l]

\* A new message enters a write call.
NewMsg == nmsgs < MaxMsgs /\ nmsgs' = nmsgs + 1
Answer(m, o) == outcome' = [outcome EXCEPT ![m] = o]

\* AsyncWrite(m) of which the caller learns nothing but the answer.
AsyncWriteBody(m) ==
  \/ AsyncWriteTakes(m) /\ Answer(m, "taken")
  \/ AsyncWriteRefuses /\ Answer(m, "refused")

AsyncWrite(t) ==
  /\ Idle(t) /\ "AsyncWrite" \in Calls[t] /\ NewMsg
  /\ AsyncWriteBody(nmsgs + 1)
  /\ UNCHANGED <<pc, arg, handles, destroyed>>

\* The first critical section of Write(): which way to write is decided ...
Write(t) ==
  /\ Idle(t) /\ "Write" \in Calls[t] /\ NewMsg
  /\ Goto(t, IF QueueIsHigh THEN "high" ELSE "low")
  /\ arg' = [arg EXCEPT ![t] = nmsgs + 1]
  /\ UNCHANGED <<fields, transport, stream, outcome, handles, process,
                 destroyed>>

\* ... and acted on later: AsyncWrite() of a Write() below the high mark.
WriteLow(t) ==
  /\ process = "up" /\ pc[t] = "low"
  /\ AsyncWriteBody(arg[t])
  /\ Goto(t, "idle")
  /\ UNCHANGED <<nmsgs, arg, handles, destroyed>>

\* SyncWrite(), up to its loop; called by the application or by Write().
SyncWriteBody(t, m) ==
  \/ AsyncWriteTakes(m) /\ Goto(t, "spin_write") /\ UNCHANGED outcome
  \/ AsyncWriteRefuses /\ Goto(t, "idle") /\ Answer(m, "refused")

SyncWrite(t) ==
  /\ Idle(t) /\ "SyncWrite" \in Calls[t] /\ NewMsg
  /\ SyncWriteBody(t, nmsgs + 1)
  /\ arg' = [arg EXCEPT ![t] = nmsgs + 1]
  /\ UNCHANGED <<handles, destroyed>>

WriteHigh(t) ==
  /\ process = "up" /\ pc[t] = "high"
  /\ SyncWriteBody(t, arg[t])
  /\ UNCHANGED <<nmsgs, arg, handles, destroyed>>

\* while (GetQueueSize()) yield(): the iteration that leaves the loop.
SpinWrite(t) ==
  /\ process = "up" /\ pc[t] = "spin_write"
  /\ QueueIsEmpty
  /\ Goto(t, "sync_ret")
  /\ UNCHANGED <<fields, transport, stream, calls, arg, handles, process,
                 destroyed>>

\* return !closed_, under a lock of its own.
SyncRet(t) ==
  /\ process = "up" /\ pc[t] = "sync_ret"
  /\ Answer(arg[t], IF closed_ THEN "unsure" ELSE "synced")
  /\ Goto(t, "idle")
  /\ UNCHANGED <<fields, transport, stream, nmsgs, arg, handles, process,
                 destroyed>>

AsyncClose(t) ==
  /\ Idle(t) /\ "AsyncClose" \in Calls[t]
  /\ \E s \in Status : AsyncCloseBody(s)
  /\ UNCHANGED <<calls, pc, arg, handles, destroyed>>

SyncClose(t) ==
  /\ Idle(t) /\ "SyncClose" \in Calls[t]
  /\ \E s \in Status : AsyncCloseBody(s)
  /\ Goto(t, "spin_close")
  /\ UNCHANGED <<calls, arg, handles, destroyed>>

SpinClose(t) ==
  /\ process = "up" /\ pc[t] = "spin_close"
  /\ QueueIsEmpty
  /\ Goto(t, "idle")
  /\ UNCHANGED <<fields, transport, stream, calls, arg, handles, process,
                 destroyed>>

SetHighQueueSize(t) ==
  /\ Idle(t) /\ "SetHighQueueSize" \in Calls[t]
  /\ \E n \in HighSizes : n # high_queue_size_ /\ high_queue_size_' = n
  /\ UNCHANGED <<closed_, send_init_md_, is_sending_, queue_,
                 close_status_uptr_, wild, transport, stream, calls, pc, arg,
                 handles, process, destroyed>>

\* ~ServerWriter() of the copy thread t holds.
Release(t) ==
  /\ Idle(t)
  /\ handles' = handles \ {t}
  /\ UNCHANGED <<fields, transport, stream, calls, pc, arg, process, destroyed>>

-------------------------------------------------------------------------------
(* The completion queue thread and the destructor *)

\* grpc core finishes the write batch, with or without success: the
\* completion callback ignores which.
BatchCompletes ==
  /\ process = "up" /\ inflight > 0
  /\ inflight' = inflight - 1 /\ events' = events + 1
  /\ UNCHANGED <<fields, sent, ended, md_batches, stream, calls, pc, arg,
                 handles, process, destroyed>>

\* TryToWriteNext(): send the front of the queue ...
SendFront ==
  /\ ~closed_ /\ ~QueueIsEmpty
  /\ SendMsgOk(Head(queue_), Tail(queue_))
  /\ UNCHANGED <<high_queue_size_, close_status_uptr_, wild, ended, accepted,
                 process>>

\* ... which grpc core may refuse.  SendMsg() has then emptied queue_, and the
\* pop() that follows is undefined: it destroys a string that is not there and
\* moves the begin of the deque past its end, or the process dies.
SendFrontFails ==
  /\ ~closed_ /\ ~QueueIsEmpty
  /\ SendMsgFails
  /\ \/ wild' = TRUE /\ UNCHANGED process
     \/ process' = "ub" /\ UNCHANGED wild
  /\ UNCHANGED <<high_queue_size_, close_status_uptr_, ended, accepted>>

SendDeferredStatus ==
  /\ ~closed_ /\ QueueIsEmpty /\ close_status_uptr_ # NoStatus
  /\ is_sending_' = FALSE
  /\ SendStatusOk(close_status_uptr_) \/ SendStatusFails
  /\ UNCHANGED <<send_init_md_, high_queue_size_, queue_, close_status_uptr_,
                 wild, sent, inflight, accepted, process>>

GoIdle ==
  /\ ~closed_ /\ QueueIsEmpty /\ close_status_uptr_ = NoStatus
  /\ is_sending_' = FALSE
  /\ UNCHANGED <<closed_, send_init_md_, high_queue_size_, queue_,
                 close_status_uptr_, wild, sent, ended, md_batches, inflight,
                 stream, process>>

IgnoreCompletion ==
  /\ closed_
  /\ UNCHANGED <<fields, sent, ended, md_batches, inflight, stream, process>>

\* Fault: the queue is not resumed.
TryToWriteNext_NoResume == IgnoreCompletion \/ SendDeferredStatus \/ GoIdle

TryToWriteNext ==
  \/ IgnoreCompletion \/ SendFront \/ SendFrontFails \/ SendDeferredStatus
  \/ GoIdle

\* The completion queue thread takes the completion of a write batch and
\* runs its callback; it must not be inside a call of its own.
Complete ==
  /\ process = "up" /\ events > 0 /\ pc[CqThread] = "idle"
  /\ events' = events - 1
  /\ TryToWriteNext
  /\ UNCHANGED <<calls, pc, arg, handles, destroyed>>

\* Fault: the destructor does not close.
Destroy_NoClose ==
  /\ process = "up" /\ ~destroyed
  /\ handles = {} /\ inflight = 0 /\ events = 0
  /\ destroyed' = TRUE
  /\ UNCHANGED <<fields, transport, stream, calls, pc, arg, handles, process>>

\* ~ServerWriterImpl(): no copy is left and no write tag holds a pointer.
\* SyncClose(OK) does not spin: nobody else can touch the queue.
Destroy ==
  /\ process = "up" /\ ~destroyed
  /\ handles = {} /\ inflight = 0 /\ events = 0
  /\ destroyed' = TRUE
  /\ \/ QueueIsEmpty /\ AsyncCloseBody(OK)
     \/ /\ ~QueueIsEmpty
        /\ CodeAssert(FALSE)
        /\ UNCHANGED <<fields, transport, stream>>
  /\ UNCHANGED <<calls, pc, arg, handles>>

-------------------------------------------------------------------------------
Call(t) ==
  \/ Write(t) \/ SyncWrite(t) \/ AsyncWrite(t) \/ AsyncClose(t)
  \/ SyncClose(t) \/ SetHighQueueSize(t) \/ Release(t)

\* A thread goes on inside the call it is in.
Resume(t) ==
  \/ WriteLow(t) \/ WriteHigh(t) \/ SpinWrite(t) \/ SyncRet(t) \/ SpinClose(t)

\* An iteration of a blocking loop that finds the queue not empty.
Yield(t) ==
  /\ process = "up" /\ pc[t] \in {"spin_write", "spin_close"} /\ ~QueueIsEmpty
  /\ UNCHANGED vars

\* The destroyed writer, or the dead process, has nothing left to do.
Done == (destroyed \/ process # "up") /\ UNCHANGED vars

Next ==
  \/ \E t \in Threads : Call(t) \/ Resume(t) \/ Yield(t)
  \/ BatchCompletes
  \/ Complete
  \/ Destroy
  \/ Done

\* Threads run, grpc core completes what it took, and the completion queue is
\* polled for as long as the server runs.  Nobody is obliged to call anything.
Fairness ==
  /\ \A t \in Threads : WF_vars(Resume(t))
  /\ WF_vars(BatchCompletes)
  /\ WF_vars(Complete)
  /\ WF_vars(Destroy)

SafeSpec == Init /\ [][Next]_vars
Spec == SafeSpec /\ Fairness

-------------------------------------------------------------------------------
(* Properties *)

ToSet(s) == {s[i] : i \in 1 .. Len(s)}

\* No assertion of server_writer_impl.cpp fails, whatever the threads do and
\* whichever batches are refused, until queue_ is popped while empty.
AssertsHold == process = "assert" => wild

\* While no batch was refused, what AsyncWrite() accepted is exactly what went
\* to grpc core followed by what is queued: no message of any thread is lost,
\* duplicated or overtaken by the hand-over between AsyncWrite() (which sends
\* directly when idle) and TryToWriteNext() (which pops the queue).
NothingLost == ~broken => accepted = sent \o queue_

\* "grpc must send one by one" (is_sending_): at most one write batch is out or
\* waiting for its callback, and the status is sent with none out.
OneByOne ==
  /\ inflight + events <= 1
  /\ ended # NoStatus => inflight + events = 0

\* "to send initial metadata once" (send_init_md_): the first batch grpc core
\* takes, message or status, carries the initial metadata, and no other does.
InitMdOnce ==
  md_batches = IF sent = <<>> /\ ended = NoStatus THEN 0 ELSE 1

\* What a write call answered is true of the wire: a message SyncWrite()
\* confirmed was handed to grpc core, whoever closed or failed in between, and
\* a message that was refused never is.
AnswersAreTrue ==
  \A m \in Msg :
    /\ outcome[m] = "synced" => m \in ToSet(sent)
    /\ outcome[m] = "refused" => m \notin ToSet(accepted)

\* The status goes out behind every accepted message, and a writer that was
\* destroyed has sent one, closed explicitly or not ("Close() is optional. Dtr()
\* will auto SyncClose()."), unless a batch was refused.
EndsWithStatus ==
  /\ ended # NoStatus => sent = accepted
  /\ destroyed => ended # NoStatus \/ broken

\* ServerWriter implements an ordered stream.
Stream == INSTANCE OrderedStream WITH closing <- close_status_uptr_

\* Every accepted message goes out, in order, and then the status.
ImplementsStream == Stream!Spec

\* A SyncWrite() or SyncClose() returns: its loop ends when the queue is sent
\* or, on error, is reset "to break SyncWrite()".
SyncCallsReturn ==
  \A t \in Threads :
    pc[t] \in {"spin_write", "spin_close"} ~> pc[t] = "idle" \/ process # "up"

\* The same for as long as queue_ is not popped while empty: a close, a refused
\* batch or a completion of another thread never leaves a loop waiting.
SyncCallsReturnUnlessWild ==
  \A t \in Threads :
    pc[t] \in {"spin_write", "spin_close"}
      ~> pc[t] = "idle" \/ process # "up" \/ wild

\* When the last copy goes, the client gets its status.
ReleaseEnds == (handles = {}) ~> (ended # NoStatus \/ broken)

==============================================================================
