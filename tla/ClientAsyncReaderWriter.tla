------------------------ MODULE ClientAsyncReaderWriter ------------------------
(***************************************************************************)
(* ClientAsyncReaderWriterImpl, the client side of a bidirectional call,   *)
(* with its ImplWrapper.  Every function holds the recursive mutex from    *)
(* start to end; but the message and status callbacks run under it and may *)
(* call the object again ("Callbacks will lock again."), so a function is  *)
(* split where it calls back: stack holds the callbacks that are running,  *)
(* and what their caller does next is part of their return.                *)
(***************************************************************************)
EXTENDS Naturals, Sequences

CONSTANTS Calls,       \* Calls[w]: what may be called from w (see Callers)
          MaxMsgs,     \* bound: messages passed to Write()
          MaxReads,    \* bound: messages the server sends
          StartMayFail \* may grpc_call_start_batch() refuse a batch?

\* The application, the message callback, and the status callback that is told
\* an error or the normal end.
Callers == {"app", "msg", "err", "end"}
Ops == {"Write", "CloseWriting", "ReadEach", "SetErrorStatus"}

ASSUME BidiAssumption ==
  /\ Calls \in [Callers -> SUBSET Ops]
  /\ MaxMsgs \in Nat /\ MaxReads \in Nat
  /\ StartMayFail \in BOOLEAN

VARIABLES
  \* the fields of ClientAsyncReaderWriterImpl; of a callback, whether it is set
  status_, msg_cb_, status_cb_, inited_, reading_started_, writing_closing_,
  reading_ended_, writing_ended_, msg_queue_, has_sent_close_,
  stack,        \* the running callbacks, innermost last
  wrapped,      \* a copy of ClientAsyncReaderWriter is left
  process,      \* "up", or where an assertion failed: in Write(), in OnRead()
                \* after the message callback, or anywhere else
  \* grpc core and the server (external)
  sent, half_closed,
  sending,      \* message batches whose OnSent() is to come
  reading,      \* read batches whose OnRead() is to come
  server_status,\* the status the server ended the call with, if it did
  \* history
  accepted, confirmed, nmsgs,
  nread,        \* messages read
  reports       \* what the status callback was told

ended == <<reading_ended_, writing_ended_>>
setup == <<msg_cb_, inited_, reading_started_>>
wire == <<sent, sending, reading, half_closed>>
vars == <<status_, setup, status_cb_, writing_closing_, ended, msg_queue_,
          has_sent_close_, stack, wrapped, process, wire, server_status,
          accepted, confirmed, nmsgs, nread, reports>>

Msg == 1 .. MaxMsgs
StatusCodes == {"ok", "error"}

TypeOK ==
  /\ status_ \in StatusCodes /\ msg_queue_ \in Seq(Msg)
  /\ {msg_cb_, status_cb_, inited_, reading_started_, writing_closing_,
      reading_ended_, writing_ended_, has_sent_close_} \subseteq BOOLEAN
  /\ stack \in Seq({"msg", "err", "end"})
  /\ wrapped \in BOOLEAN /\ process \in {"up", "write", "read", "assert"}
  /\ sent \in Seq(Msg) /\ accepted \in Seq(Msg)
  /\ half_closed \in BOOLEAN /\ server_status \in StatusCodes \cup {"none"}
  /\ {sending, reading, confirmed} \subseteq Nat
  /\ nmsgs \in 0 .. MaxMsgs /\ nread \in 0 .. MaxReads
  /\ reports \in Seq(StatusCodes)

Init ==
  /\ status_ = "ok" /\ msg_cb_ = FALSE /\ status_cb_ \in BOOLEAN
  /\ inited_ = FALSE /\ reading_started_ = FALSE /\ writing_closing_ = FALSE
  /\ reading_ended_ = FALSE /\ writing_ended_ = FALSE
  /\ msg_queue_ = <<>> /\ has_sent_close_ = FALSE
  /\ stack = <<>> /\ wrapped = TRUE /\ process = "up"
  /\ sent = <<>> /\ half_closed = FALSE /\ sending = 0 /\ reading = 0
  /\ server_status = "none"
  /\ accepted = <<>> /\ confirmed = 0 /\ nmsgs = 0 /\ nread = 0
  /\ reports = <<>>

-------------------------------------------------------------------------------
(* Parts of the functions.  stk is the stack of callbacks they are called from. *)

\* The failure of an assertion; nothing after it counts.
Abort(where) ==
  /\ process' = where
  /\ UNCHANGED <<status_, setup, status_cb_, writing_closing_, ended,
                 msg_queue_, has_sent_close_, stack, wrapped, wire,
                 server_status, accepted, confirmed, nread, reports>>

NoCallback(stk) == stack' = stk /\ UNCHANGED reports
CallBack(stk, kind, st) ==
  stack' = Append(stk, kind) /\ reports' = Append(reports, st)

\* Fault: the ended flags are left as they are.
EndOnError_KeepsFlags(stk, writing_done) ==
  /\ status_' = "error"
  /\ writing_ended_' = writing_done /\ UNCHANGED reading_ended_
  /\ IF status_cb_ THEN CallBack(stk, "err", "error") ELSE NoCallback(stk)

\* EndOnErrorStatus(); with a callback the flags are set after it.
EndOnError(stk, writing_done) ==
  /\ status_' = "error"
  /\ writing_ended_' = (writing_done \/ ~status_cb_)
  /\ reading_ended_' = (reading_ended_ \/ ~status_cb_)
  /\ IF status_cb_ THEN CallBack(stk, "err", "error") ELSE NoCallback(stk)

\* A batch is refused: SetInternalError().
Refused(stk) == StartMayFail /\ EndOnError(stk, writing_ended_)

\* InitIfNot() inside Write() and ReadEach(): goes well, or ends the call.
InitOk == inited_' = TRUE
InitFails ==
  /\ ~inited_ /\ status_ = "ok"
  /\ inited_' = TRUE
  /\ Refused(stack)

\* CallStatusCb() at the normal end.
CallStatusCb(stk) ==
  IF status_cb_ THEN CallBack(stk, "end", status_) ELSE NoCallback(stk)

\* ReadNext().
ReadNextOk == reading' = reading + 1 /\ UNCHANGED <<status_, ended>>

-------------------------------------------------------------------------------
(* The calls, of the application or of a running callback *)

Caller == IF stack = <<>> THEN "app" ELSE stack[Len(stack)]
CanCall(op) == process = "up" /\ wrapped /\ op \in Calls[Caller]

WriteRefused ==
  /\ \/ InitFails
     \/ /\ InitOk
        /\ IF status_ # "ok" THEN reading_ended_ /\ writing_ended_
           ELSE writing_closing_ \/ writing_ended_
        /\ UNCHANGED <<status_, ended, stack, reports>>
  /\ UNCHANGED <<msg_queue_, sent, sending, accepted, process, msg_cb_,
                 reading_started_>>

WriteQueued(m) ==
  /\ InitOk /\ status_ = "ok" /\ ~writing_closing_ /\ ~writing_ended_
  /\ msg_queue_ # <<>>
  /\ msg_queue_' = Append(msg_queue_, m) /\ accepted' = Append(accepted, m)
  /\ UNCHANGED <<status_, ended, stack, reports, sent, sending, process,
                 msg_cb_, reading_started_>>

WriteSent(m) ==
  /\ InitOk /\ status_ = "ok" /\ ~writing_closing_ /\ ~writing_ended_
  /\ msg_queue_ = <<>>
  /\ msg_queue_' = <<m>>
  /\ \/ /\ sent' = Append(sent, m) /\ sending' = sending + 1
        /\ accepted' = Append(accepted, m)
        /\ UNCHANGED <<status_, ended, stack, reports>>
     \/ Refused(stack) /\ UNCHANGED <<sent, sending, accepted>>
  /\ UNCHANGED <<process, msg_cb_, reading_started_>>

Write ==
  /\ CanCall("Write") /\ nmsgs < MaxMsgs
  /\ nmsgs' = nmsgs + 1
  /\ \/ /\ \/ WriteRefused \/ WriteQueued(nmsgs') \/ WriteSent(nmsgs')
        /\ UNCHANGED <<status_cb_, writing_closing_, has_sent_close_, wrapped,
                       reading, half_closed, server_status, confirmed, nread>>
     \/ /\ status_ # "ok" /\ ~(reading_ended_ /\ writing_ended_)
        /\ Abort("write")

\* The early returns of CloseWriting().
MustSendClose == ~writing_closing_ /\ status_ = "ok" /\ msg_queue_ = <<>>

\* SendClose() and, on the normal path, what follows it: after.
SendClose(stk, after) ==
  /\ has_sent_close_' = TRUE
  /\ \/ /\ half_closed' = TRUE /\ writing_ended_' = TRUE
        /\ after
        /\ UNCHANGED <<status_, reading_ended_>>
     \/ /\ StartMayFail /\ EndOnError(stk, TRUE)
        /\ UNCHANGED half_closed

CloseWritingBody ==
  /\ \/ MustSendClose /\ has_sent_close_ /\ Abort("assert")
     \/ /\ MustSendClose /\ ~has_sent_close_
        /\ writing_closing_' = TRUE
        /\ SendClose(stack, NoCallback(stack))
        /\ UNCHANGED process
     \/ /\ ~MustSendClose
        /\ writing_closing_' = TRUE
        /\ UNCHANGED <<has_sent_close_, status_, ended, stack, reports,
                       half_closed, process>>
  /\ UNCHANGED <<setup, status_cb_, msg_queue_, sent, sending, reading,
                 server_status, accepted, confirmed, nmsgs, nread>>

CloseWriting == CanCall("CloseWriting") /\ CloseWritingBody /\ UNCHANGED wrapped

\* ~ClientAsyncReaderWriterImplWrapper() of the last copy.
DropWrapper == CanCall("CloseWriting") /\ wrapped' = FALSE /\ CloseWritingBody

ReadEach ==
  /\ CanCall("ReadEach") /\ ~reading_started_
  /\ reading_started_' = TRUE
  /\ \/ InitFails /\ UNCHANGED <<msg_cb_, reading>>
     \/ /\ InitOk /\ status_ # "ok"
        /\ UNCHANGED <<msg_cb_, reading, status_, ended, stack, reports>>
     \/ /\ InitOk /\ status_ = "ok"
        /\ msg_cb_' \in BOOLEAN
        /\ \/ ReadNextOk /\ NoCallback(stack)
           \/ Refused(stack) /\ UNCHANGED reading
  /\ UNCHANGED <<status_cb_, writing_closing_, msg_queue_, has_sent_close_,
                 wrapped, process, sent, sending, half_closed, server_status,
                 accepted, confirmed, nmsgs, nread>>

\* SetErrorStatus(); a status that is an error already is only replaced.
SetErrorStatus ==
  /\ CanCall("SetErrorStatus") /\ status_ = "ok"
  /\ EndOnError(stack, writing_ended_)
  /\ UNCHANGED <<setup, status_cb_, writing_closing_, msg_queue_,
                 has_sent_close_, wrapped, process, wire, server_status,
                 accepted, confirmed, nmsgs, nread>>

-------------------------------------------------------------------------------
(* The completion callbacks, on the completion queue thread *)

Unlocked == process = "up" /\ stack = <<>>
Popped == Tail(msg_queue_)

\* The parts of OnSent() after the pop.
SentTooLate ==
  /\ status_ # "ok" /\ sending' = sending - 1
  /\ UNCHANGED <<status_, ended, stack, reports, sent, has_sent_close_,
                 half_closed>>
SentBadly ==
  /\ status_ = "ok"
  /\ EndOnError(<<>>, writing_ended_)
  /\ sending' = sending - 1
  /\ UNCHANGED <<sent, has_sent_close_, half_closed>>

\* Fault: the queue is not resumed.
SentOne_NoResume ==
  /\ status_ = "ok" /\ Popped # <<>>
  /\ sending' = sending - 1
  /\ UNCHANGED <<status_, ended, stack, reports, sent, has_sent_close_,
                 half_closed>>
SentOne ==
  /\ status_ = "ok" /\ Popped # <<>>
  /\ \/ /\ sent' = Append(sent, Head(Popped))
        /\ UNCHANGED <<sending, status_, ended, stack, reports>>
     \/ Refused(<<>>) /\ sending' = sending - 1 /\ UNCHANGED sent
  /\ UNCHANGED <<has_sent_close_, half_closed>>
SentAll ==
  /\ status_ = "ok" /\ Popped = <<>>
  /\ sending' = sending - 1
  /\ IF writing_closing_
     THEN SendClose(<<>>, IF reading_ended_ THEN CallStatusCb(<<>>)
                          ELSE NoCallback(<<>>))
     ELSE UNCHANGED <<status_, ended, stack, reports, has_sent_close_,
                      half_closed>>
  /\ UNCHANGED sent

OnSent(success) ==
  /\ Unlocked /\ sending > 0
  /\ \/ /\ \/ msg_queue_ = <<>>
           \/ status_ # "ok" /\ status_cb_
           \/ status_ = "ok" /\ success /\ Len(msg_queue_) = 1
                /\ writing_closing_ /\ has_sent_close_
        /\ Abort("assert")
     \/ /\ msg_queue_ # <<>> /\ msg_queue_' = Popped
        /\ confirmed' = confirmed + (IF success THEN 1 ELSE 0)
        /\ \/ SentTooLate /\ ~status_cb_
           \/ ~success /\ SentBadly
           \/ success /\ SentOne
           \/ success /\ SentAll /\ ~(writing_closing_ /\ has_sent_close_)
        /\ UNCHANGED <<setup, status_cb_, writing_closing_, wrapped, process,
                       reading, server_status, accepted, nread>>
  /\ UNCHANGED nmsgs

\* OnRead(): what the read batch brought.
ReadTooLate ==
  /\ status_ # "ok" /\ ~status_cb_
  /\ UNCHANGED <<status_, ended, stack, reports, server_status, nread>>
ReadBadly ==
  /\ status_ = "ok"
  /\ EndOnError(<<>>, writing_ended_)
  /\ UNCHANGED <<server_status, nread>>

\* Fault: the end of reading alone is the end of the call.
ReadEnd_Alone ==
  /\ status_ = "ok"
  /\ server_status' \in StatusCodes
  /\ reading_ended_' = TRUE
  /\ CallStatusCb(<<>>)
  /\ UNCHANGED <<status_, writing_ended_, nread>>
\* No message: the server has ended the stream, with a status nobody asks for.
ReadEnd ==
  /\ status_ = "ok"
  /\ server_status' \in StatusCodes
  /\ reading_ended_' = TRUE
  /\ IF writing_ended_ THEN CallStatusCb(<<>>) ELSE NoCallback(<<>>)
  /\ UNCHANGED <<status_, writing_ended_, nread>>

\* A message for msg_cb_: MsgCbReturns goes on.
ReadMsg ==
  /\ status_ = "ok" /\ msg_cb_ /\ nread < MaxReads
  /\ nread' = nread + 1
  /\ stack' = <<"msg">>
  /\ UNCHANGED <<status_, ended, reports, server_status>>

\* grpc core has completed the read batch.
ReadCompletes == reading > 0

OnRead ==
  /\ Unlocked /\ ReadCompletes
  /\ \/ status_ # "ok" /\ status_cb_ /\ Abort("assert")
     \/ /\ ReadTooLate \/ ReadBadly \/ ReadEnd \/ ReadMsg
        /\ reading' = reading - 1
        /\ UNCHANGED process
     \/ /\ status_ = "ok" /\ ~msg_cb_ /\ nread < MaxReads
        /\ nread' = nread + 1
        /\ \/ UNCHANGED <<reading, status_, ended>> /\ NoCallback(<<>>)
           \/ Refused(<<>>) /\ reading' = reading - 1
        /\ UNCHANGED <<server_status, process>>
  /\ UNCHANGED <<setup, status_cb_, writing_closing_, msg_queue_,
                 has_sent_close_, wrapped, sent, sending, half_closed, accepted,
                 confirmed, nmsgs>>

Outer == SubSeq(stack, 1, Len(stack) - 1)

\* The message callback returns OK, and ReadNext() follows, or an error.
MsgCbReturns ==
  /\ process = "up" /\ Caller = "msg"
  /\ \/ status_ # "ok" /\ Abort("read")
     \/ /\ status_ = "ok"
        /\ \/ ReadNextOk /\ NoCallback(Outer)
           \/ Refused(Outer) /\ UNCHANGED reading
           \/ EndOnError(Outer, writing_ended_) /\ UNCHANGED reading
        /\ UNCHANGED process
  /\ UNCHANGED <<setup, status_cb_, writing_closing_, msg_queue_,
                 has_sent_close_, wrapped, sent, sending, half_closed,
                 server_status, accepted, confirmed, nmsgs, nread>>

\* Fault: the callback is kept after the call.
StatusCbReturns_Keeps ==
  /\ process = "up" /\ Caller \in {"err", "end"}
  /\ stack' = Outer
  /\ reading_ended_' = TRUE /\ writing_ended_' = TRUE
  /\ UNCHANGED <<status_, setup, status_cb_, writing_closing_, msg_queue_,
                 has_sent_close_, wrapped, process, wire, server_status,
                 accepted, confirmed, nmsgs, nread, reports>>

\* The status callback returns to CallStatusCb() and its caller.
StatusCbReturns ==
  /\ process = "up" /\ Caller \in {"err", "end"}
  /\ stack' = Outer
  /\ status_cb_' = FALSE
  /\ IF Caller = "err" THEN reading_ended_' = TRUE /\ writing_ended_' = TRUE
     ELSE UNCHANGED ended
  /\ UNCHANGED <<status_, setup, writing_closing_, msg_queue_, has_sent_close_,
                 wrapped, process, wire, server_status, accepted, confirmed,
                 nmsgs, nread, reports>>

\* ~ClientAsyncReaderWriterImpl() runs: "No CqTag shares this."
Gone == ~wrapped /\ sending = 0 /\ reading = 0 /\ stack = <<>>

Done == (Gone \/ process # "up") /\ UNCHANGED vars

Next ==
  \/ Write \/ CloseWriting \/ DropWrapper \/ ReadEach \/ SetErrorStatus
  \/ \E success \in BOOLEAN : OnSent(success)
  \/ OnRead
  \/ MsgCbReturns \/ StatusCbReturns
  \/ Done

\* grpc core completes the writes, the completion queue is polled and callbacks
\* return.  When a read completes is up to the server.
Fairness ==
  /\ WF_vars(\E success \in BOOLEAN : OnSent(success))
  /\ WF_vars(MsgCbReturns \/ StatusCbReturns)

SafeSpec == Init /\ [][Next]_vars
Spec == SafeSpec /\ Fairness

-------------------------------------------------------------------------------
(* Properties *)

\* Whatever the application and the callbacks call and whichever batch is
\* refused, two assertions only can fail: that of Write() when the status
\* callback of an error calls it, before EndOnErrorStatus() sets the ended flags,
\* and those behind the message callback when it has set an error status itself.
\* The destructor's hold too: when no tag and no user has the object any more,
\* writing has ended, and so has reading if it was ever asked for.
AssertsHold ==
  /\ Gone /\ process = "up" =>
       writing_ended_ /\ (reading_started_ => reading_ended_)
  /\ process # "assert"
  /\ process = "write" => Caller = "err"
  /\ process = "read" => Caller = "msg" /\ ~status_cb_

\* One message and one read batch at a time, the half-close behind the last
\* message, and no read after the end of the stream.
OneByOne ==
  /\ sending <= 1 /\ reading <= 1
  /\ half_closed => sending = 0
  /\ reading_ended_ /\ status_ = "ok" => reading = 0

\* The status callback is called once at most ("already called and reset"), and
\* an error of any batch or of the message callback has been reported, and has
\* ended both directions, as soon as the function that met it returns.
ErrorReported ==
  /\ Len(reports) <= 1
  /\ status_ # "ok" /\ stack = <<>> =>
       ~status_cb_ /\ reading_ended_ /\ writing_ended_

\* A status callback that is told OK: the server ended its stream, every
\* accepted message was sent with success and the half-close behind them.
OkIsTrue ==
  \A i \in DOMAIN reports :
    reports[i] = "ok" =>
      /\ server_status # "none" /\ half_closed
      /\ sent = accepted /\ confirmed = Len(accepted)

\* The writing side is an ordered stream that ends with the half-close.
Stream == INSTANCE OrderedStream WITH
  Status <- {"closed"}, NoStatus <- "none",
  closing <- IF writing_closing_ THEN "closed" ELSE "none",
  ended <- IF half_closed THEN "closed" ELSE "none",
  broken <- status_ # "ok" \/ process # "up"

\* Every accepted message goes out, in order, and then the half-close, while
\* reads complete and callbacks call the object again.
ImplementsStream == Stream!Spec

===============================================================================
