--------------------------- MODULE ClientAsyncWriter ---------------------------
(***************************************************************************)
(* ClientAsyncWriterImpl, the writer of a client-side streaming call, with *)
(* its ImplWrapper.  Every function holds the recursive mutex from start   *)
(* to end, so each is one action; the two completion callbacks (OnSent,    *)
(* OnClosed) come from the thread that runs the completion queue.          *)
(* The close callback runs under the mutex and may call the writer again:  *)
(* it runs after is_closing_ is set, when Write() and Close() do nothing.  *)
(***************************************************************************)
EXTENDS Naturals, Sequences

CONSTANTS CloseCbs,    \* callbacks given to Close()
          NoCb,        \* Close() without one
          MaxMsgs,     \* bound: messages passed to Write()
          StartMayFail \* may grpc_call_start_batch() refuse a batch?

ASSUME ClientWriterAssumption ==
  /\ NoCb \notin CloseCbs
  /\ MaxMsgs \in Nat
  /\ StartMayFail \in BOOLEAN

VARIABLES
  \* the fields of ClientAsyncWriterImpl
  status_, is_closing_, close_cb_, has_sent_close_, msg_queue_,
  wrapped,     \* a copy of ClientAsyncWriter is left
  process,     \* "up", or "assert" after a failed assertion
  \* grpc core (external)
  sent,        \* messages of the batches it took
  half_closed, \* it took the close batch
  sending,     \* message batches whose OnSent() is to come
  awaiting,    \* close batches whose OnClosed() is to come
  \* history
  accepted,    \* messages Write() answered true for
  confirmed,   \* messages whose batch completed with success
  nmsgs,       \* messages passed to Write()
  asked,       \* the callback the first Close() came with
  reports      \* the calls of close callbacks: which, with what status

impl == <<status_, is_closing_, close_cb_, has_sent_close_, msg_queue_>>
core == <<sent, half_closed, sending, awaiting>>
history == <<accepted, confirmed, nmsgs, asked, reports>>
vars == <<impl, core, history, wrapped, process>>

Msg == 1 .. MaxMsgs
StatusCodes == {"ok", "error"}

TypeOK ==
  /\ status_ \in StatusCodes
  /\ is_closing_ \in BOOLEAN /\ has_sent_close_ \in BOOLEAN
  /\ close_cb_ \in CloseCbs \cup {NoCb} /\ asked \in CloseCbs \cup {NoCb}
  /\ msg_queue_ \in Seq(Msg)
  /\ wrapped \in BOOLEAN /\ process \in {"up", "assert"}
  /\ sent \in Seq(Msg) /\ accepted \in Seq(Msg)
  /\ half_closed \in BOOLEAN
  /\ sending \in Nat /\ awaiting \in Nat
  /\ confirmed \in Nat /\ nmsgs \in 0 .. MaxMsgs
  /\ reports \in Seq([cb : CloseCbs, status : StatusCodes])

\* The constructor: the batch with the initial metadata is taken or refused.
Init ==
  /\ status_ \in IF StartMayFail THEN StatusCodes ELSE {"ok"}
  /\ is_closing_ = FALSE /\ has_sent_close_ = FALSE
  /\ close_cb_ = NoCb /\ msg_queue_ = <<>>
  /\ wrapped = TRUE /\ process = "up"
  /\ sent = <<>> /\ half_closed = FALSE /\ sending = 0 /\ awaiting = 0
  /\ accepted = <<>> /\ confirmed = 0 /\ nmsgs = 0
  /\ asked = NoCb /\ reports = <<>>

-------------------------------------------------------------------------------
(* Parts of the functions *)

CodeAssert(P) == process' = IF P THEN "up" ELSE "assert"

Report(cb, st) ==
  reports' = IF cb = NoCb THEN reports
             ELSE Append(reports, [cb |-> cb, status |-> st])

\* CallCloseCb() with the pending callback cb and status_ = st.
CallCloseCb(cb, st) == Report(cb, st) /\ close_cb_' = NoCb

\* Fault: only Close() reports errors.
FailWith_Silent(cb) ==
  status_' = "error" /\ close_cb_' = cb /\ UNCHANGED reports
\* status_.SetInternalError() and TryToCallCloseCb().
FailWith(cb) == status_' = "error" /\ CallCloseCb(cb, "error")

\* The batches that grpc core may take or refuse: of a message, in SendNext() ...
SendNextOk(m) ==
  /\ sent' = Append(sent, m) /\ sending' = sending + 1
  /\ UNCHANGED <<status_, close_cb_, reports>>
SendNextFails == StartMayFail /\ FailWith(close_cb_) /\ UNCHANGED <<sent, sending>>

\* ... and of the half-close, in SendClose() with the pending callback cb.
SendCloseOk(cb) ==
  /\ half_closed' = TRUE /\ awaiting' = awaiting + 1
  /\ close_cb_' = cb
  /\ UNCHANGED <<status_, reports>>
SendCloseFails(cb) ==
  StartMayFail /\ FailWith(cb) /\ UNCHANGED <<half_closed, awaiting>>
SendClose(cb) ==
  /\ CodeAssert(~has_sent_close_)
  /\ has_sent_close_' = TRUE
  /\ SendCloseOk(cb) \/ SendCloseFails(cb)

-------------------------------------------------------------------------------
(* The application's calls *)

Callable == process = "up" /\ wrapped

WriteRefused ==
  /\ status_ # "ok" \/ is_closing_
  /\ UNCHANGED <<status_, close_cb_, msg_queue_, sent, sending, accepted,
                 reports>>

\* The message waits behind the one that is being sent.
WriteQueued(m) ==
  /\ status_ = "ok" /\ ~is_closing_ /\ msg_queue_ # <<>>
  /\ msg_queue_' = Append(msg_queue_, m) /\ accepted' = Append(accepted, m)
  /\ UNCHANGED <<status_, close_cb_, sent, sending, reports>>

WriteSent(m) ==
  /\ status_ = "ok" /\ ~is_closing_ /\ msg_queue_ = <<>>
  /\ msg_queue_' = <<m>>
  /\ \/ SendNextOk(m) /\ accepted' = Append(accepted, m)
     \/ SendNextFails /\ UNCHANGED accepted

Write ==
  /\ Callable /\ nmsgs < MaxMsgs
  /\ nmsgs' = nmsgs + 1
  /\ WriteRefused \/ WriteQueued(nmsgs') \/ WriteSent(nmsgs')
  /\ UNCHANGED <<is_closing_, has_sent_close_, half_closed, awaiting, confirmed,
                 asked, wrapped, process>>

CloseAgain == is_closing_ /\ UNCHANGED <<impl, core, reports, asked, process>>

CloseFirst(cb) == ~is_closing_ /\ is_closing_' = TRUE /\ asked' = cb

CloseAfterError(cb) ==
  /\ CloseFirst(cb) /\ status_ # "ok"
  /\ CallCloseCb(cb, status_)
  /\ UNCHANGED <<status_, has_sent_close_, msg_queue_, core, process>>

CloseLater(cb) ==
  /\ CloseFirst(cb) /\ status_ = "ok" /\ msg_queue_ # <<>>
  /\ close_cb_' = cb
  /\ UNCHANGED <<status_, has_sent_close_, msg_queue_, core, reports, process>>

CloseNow(cb) ==
  /\ CloseFirst(cb) /\ status_ = "ok" /\ msg_queue_ = <<>>
  /\ SendClose(cb)
  /\ UNCHANGED <<msg_queue_, sent, sending>>

CloseWith(cb) ==
  CloseAgain \/ CloseAfterError(cb) \/ CloseLater(cb) \/ CloseNow(cb)

Close ==
  /\ Callable
  /\ \E cb \in CloseCbs \cup {NoCb} : CloseWith(cb)
  /\ UNCHANGED <<accepted, confirmed, nmsgs, wrapped>>

\* ~ClientAsyncWriterImplWrapper(): the last copy goes, Close() without handler.
DropWrapper ==
  /\ Callable
  /\ wrapped' = FALSE
  /\ CloseWith(NoCb)
  /\ UNCHANGED <<accepted, confirmed, nmsgs>>

-------------------------------------------------------------------------------
(* The completion callbacks *)

Popped == Tail(msg_queue_)

\* An error was found while the message was being sent.
SentTooLate ==
  /\ status_ # "ok"
  /\ CodeAssert(close_cb_ = NoCb)
  /\ sending' = sending - 1
  /\ UNCHANGED <<status_, close_cb_, reports, has_sent_close_, sent,
                 half_closed, awaiting>>

SentBadly ==
  /\ status_ = "ok"
  /\ FailWith(close_cb_)
  /\ sending' = sending - 1
  /\ UNCHANGED <<has_sent_close_, sent, half_closed, awaiting, process>>

\* Fault: the queue is not resumed.
SentOne_NoResume ==
  /\ status_ = "ok" /\ Popped # <<>>
  /\ sending' = sending - 1
  /\ UNCHANGED <<status_, close_cb_, reports, has_sent_close_, sent,
                 half_closed, awaiting, process>>
\* SendNext(): the front of the popped queue is sent in place of the old one.
SentOne ==
  /\ status_ = "ok" /\ Popped # <<>>
  /\ \/ /\ sent' = Append(sent, Head(Popped))
        /\ UNCHANGED <<sending, status_, close_cb_, reports>>
     \/ /\ StartMayFail
        /\ FailWith(close_cb_)
        /\ sending' = sending - 1
        /\ UNCHANGED sent
  /\ UNCHANGED <<has_sent_close_, half_closed, awaiting, process>>

SentAll ==
  /\ status_ = "ok" /\ Popped = <<>>
  /\ sending' = sending - 1
  /\ IF is_closing_ THEN SendClose(close_cb_)
     ELSE UNCHANGED <<status_, close_cb_, reports, has_sent_close_,
                      half_closed, awaiting, process>>
  /\ UNCHANGED sent

\* OnSent(success): the batch of the front message has completed.
OnSent(success) ==
  /\ process = "up" /\ sending > 0
  /\ IF msg_queue_ = <<>>
     THEN CodeAssert(FALSE) /\ UNCHANGED <<impl, core, confirmed, reports>>
     ELSE /\ msg_queue_' = Popped
          /\ confirmed' = confirmed + (IF success THEN 1 ELSE 0)
          /\ \/ SentTooLate
             \/ ~success /\ SentBadly
             \/ success /\ (SentOne \/ SentAll)
          /\ UNCHANGED is_closing_
  /\ UNCHANGED <<accepted, nmsgs, asked, wrapped>>

ClosedTooLate ==
  /\ status_ # "ok"
  /\ CodeAssert(close_cb_ = NoCb)
  /\ UNCHANGED <<status_, close_cb_, reports>>

\* OnClosed(): the call is over with the server's status, or with the one of
\* GetResponse() when that was OK; the success of the batch is not looked at.
OnClosed(st) ==
  /\ process = "up" /\ awaiting > 0
  /\ awaiting' = awaiting - 1
  /\ \/ ClosedTooLate
     \/ status_ = "ok" /\ status_' = st /\ CallCloseCb(close_cb_, st)
          /\ UNCHANGED process
  /\ UNCHANGED <<is_closing_, has_sent_close_, msg_queue_, sent, half_closed,
                 sending, accepted, confirmed, nmsgs, asked, wrapped>>

\* ~ClientAsyncWriterImpl() runs: no copy and no tag holds it.
Gone == ~wrapped /\ sending = 0 /\ awaiting = 0

Done == (Gone \/ process # "up") /\ UNCHANGED vars

Next ==
  \/ Write
  \/ Close
  \/ DropWrapper
  \/ \E success \in BOOLEAN : OnSent(success)
  \/ \E st \in StatusCodes : OnClosed(st)
  \/ Done

\* grpc core completes what it took and the completion queue is polled.
Fairness ==
  /\ WF_vars(\E success \in BOOLEAN : OnSent(success))
  /\ WF_vars(\E st \in StatusCodes : OnClosed(st))

SafeSpec == Init /\ [][Next]_vars
Spec == SafeSpec /\ Fairness

-------------------------------------------------------------------------------
(* Properties *)

\* The assertions "Already reset in CallCloseCb() or not set yet.", "Already
\* called and reset.", "!has_sent_close_" and "!msg_queue_.empty()" hold in
\* every order of calls, completions and errors.
AssertsHold == process = "up"

\* One batch at a time ("Send messages one by one"): a message is sent only
\* when the one before it has completed, the half-close when all have; the
\* front of the queue is the message that is being sent.
OneByOne ==
  /\ sending + awaiting <= 1
  /\ half_closed => sending = 0
  /\ sending = 1 => Head(msg_queue_) = sent[Len(sent)]

\* The callback of the first Close() is called ("called once"), no other and
\* not twice; when the object is destroyed it "Has done CallCloseCb()".
ReportedOnce ==
  /\ Len(reports) <= 1
  /\ reports # <<>> => reports[1].cb = asked
  /\ Gone /\ asked # NoCb => reports # <<>>

\* A close callback that is told OK is told the truth: every message Write()
\* accepted was sent, each batch completed with success, and the half-close
\* went out behind them.
SuccessIsTrue ==
  \A i \in DOMAIN reports :
    reports[i].status = "ok" =>
      sent = accepted /\ confirmed = Len(accepted) /\ half_closed

\* A Close() is answered, whatever fails in between.
CloseAnswered == asked # NoCb ~> reports # <<>>

\* The writer implements an ordered stream whose end marker is the half-close.
Stream == INSTANCE OrderedStream WITH
  Status <- {"closed"}, NoStatus <- "none",
  closing <- IF is_closing_ THEN "closed" ELSE "none",
  ended <- IF half_closed THEN "closed" ELSE "none",
  broken <- status_ # "ok"

\* Every accepted message goes out, in order, and then the half-close.
ImplementsStream == Stream!Spec

===============================================================================
