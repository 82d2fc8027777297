--------------------------- MODULE ClientAsyncReader ---------------------------
(***************************************************************************)
(* ClientAsyncReaderImpl, the reader of a server-streaming call: Start()   *)
(* starts the call and a chain of reads, each started by the completion of *)
(* the one before; at the end of the stream a last batch receives the      *)
(* status.  Callbacks run inside OnRead(), under the recursive mutex; the  *)
(* only call they can make, ReadEach(), finds is_started_ set.             *)
(***************************************************************************)
EXTENDS Naturals, Sequences

CONSTANTS MaxReads,    \* bound: messages of the server that are read
          ReadMayFail \* may grpc_call_start_batch() refuse a batch?

ASSUME ReaderAssumption == MaxReads \in Nat /\ ReadMayFail \in BOOLEAN

VARIABLES
  \* the fields of ClientAsyncReaderImpl; of a callback, whether it is set
  is_started_, status_, msg_cb_, status_cb_,
  \* grpc core (external)
  reading,     \* read batches whose OnRead() is to come
  receiving,   \* status batches whose DoComplete() is to come
  \* history
  asked,       \* ReadEach() came with a status callback
  nread,       \* messages read
  delivered,   \* messages passed to the message callback
  at_end,      \* the end of the stream was read
  told         \* what the status callback was told

readerVars == <<is_started_, status_, msg_cb_, status_cb_, reading, receiving, asked,
          nread, delivered, at_end, told>>

StatusCodes == {"ok", "error"}

ReaderTypeOK ==
  /\ {is_started_, msg_cb_, status_cb_, asked, at_end} \subseteq BOOLEAN
  /\ status_ \in StatusCodes
  /\ {reading, receiving} \subseteq Nat
  /\ {nread, delivered} \subseteq 0 .. MaxReads
  /\ told \in Seq(StatusCodes)

ReaderInit ==
  /\ is_started_ = FALSE /\ status_ = "ok"
  /\ msg_cb_ = FALSE /\ status_cb_ = FALSE
  /\ reading = 0 /\ receiving = 0
  /\ asked = FALSE /\ nread = 0 /\ delivered = 0 /\ at_end = FALSE
  /\ told = <<>>

-------------------------------------------------------------------------------
(* Parts of the functions *)

Tell(cb, st) == told' = IF cb THEN Append(told, st) ELSE told

\* Fault: the call goes on without a word.
Fail_Silent(cb) == status_' = "error" /\ status_cb_' = cb /\ UNCHANGED told
\* status_ is set to an error, then CallStatusCb() with the callback cb.
Fail(cb) == status_' = "error" /\ Tell(cb, "error") /\ status_cb_' = FALSE

\* ReadNext() with the status callback cb.
ReadNext(cb) ==
  \/ /\ reading' = reading + 1
     /\ status_cb_' = cb
     /\ UNCHANGED <<status_, told>>
  \/ /\ ReadMayFail /\ Fail(cb)
     /\ UNCHANGED reading

-------------------------------------------------------------------------------

\* The early return of Start().
StartsCall == ~is_started_

\* Start(), which ReadEach() calls: Init() and the first ReadNext().
Start ==
  /\ StartsCall
  /\ is_started_' = TRUE
  /\ msg_cb_' \in BOOLEAN /\ asked' \in BOOLEAN
  /\ \/ ReadNext(asked')
     \/ ReadMayFail /\ Fail(asked') /\ UNCHANGED reading
  /\ UNCHANGED <<receiving, nread, delivered, at_end>>

\* OnRead() of a batch that failed.
OnReadFailed ==
  /\ reading > 0 /\ reading' = reading - 1
  /\ Fail(status_cb_)
  /\ UNCHANGED <<is_started_, msg_cb_, receiving, asked, nread, delivered,
                 at_end>>

\* OnRead() of a batch without a message: RecvStatus(), which passes a copy of
\* the status callback on and leaves status_ and status_cb_ as they are.
OnReadEnd ==
  /\ reading > 0 /\ reading' = reading - 1
  /\ at_end' = TRUE
  /\ \/ receiving' = receiving + 1 /\ UNCHANGED told
     \/ ReadMayFail /\ Tell(status_cb_, "error") /\ UNCHANGED receiving
  /\ UNCHANGED <<is_started_, status_, msg_cb_, status_cb_, asked, nread,
                 delivered>>

\* Fault: a message that cannot be parsed is skipped.
OnReadBad_Skips ==
  /\ nread < MaxReads /\ nread' = nread + 1
  /\ reading > 0
  /\ UNCHANGED <<is_started_, status_, msg_cb_, status_cb_, reading, receiving,
                 asked, delivered, at_end, told>>
\* OnRead() of a message that cannot be parsed.
OnReadBad ==
  /\ nread < MaxReads /\ nread' = nread + 1
  /\ reading > 0 /\ reading' = reading - 1
  /\ Fail(status_cb_)
  /\ UNCHANGED <<is_started_, msg_cb_, receiving, asked, delivered, at_end>>

\* OnRead() of a message; the message callback may return an error.
OnReadMsg ==
  /\ nread < MaxReads /\ nread' = nread + 1
  /\ reading > 0
  /\ delivered' = delivered + (IF msg_cb_ THEN 1 ELSE 0)
  /\ \/ UNCHANGED <<reading, status_, status_cb_, told>>
     \/ /\ ReadMayFail \/ msg_cb_
        /\ Fail(status_cb_)
        /\ reading' = reading - 1
  /\ UNCHANGED <<is_started_, msg_cb_, receiving, asked, at_end>>

\* DoComplete() of the status batch, with the server's status st if it succeeds.
OnRecvStatus(success, st) ==
  /\ receiving > 0 /\ receiving' = receiving - 1
  /\ Tell(status_cb_, IF success THEN st ELSE "error")
  /\ UNCHANGED <<is_started_, status_, msg_cb_, status_cb_, reading, asked,
                 nread, delivered, at_end>>

Ended == is_started_ /\ reading = 0 /\ receiving = 0
ReaderDone == Ended /\ UNCHANGED readerVars

OnRead == OnReadFailed \/ OnReadEnd \/ OnReadBad \/ OnReadMsg
Receive == \E success \in BOOLEAN, st \in StatusCodes : OnRecvStatus(success, st)

ReaderNext == Start \/ OnRead \/ Receive \/ ReaderDone

ReaderSafeSpec == ReaderInit /\ [][ReaderNext]_readerVars

\* The server keeps sending, or ends the call, or the call dies: no read stays
\* out for ever, and the completion queue is polled.
ReaderSpec == ReaderSafeSpec /\ WF_readerVars(OnRead) /\ WF_readerVars(Receive)
===============================================================================
