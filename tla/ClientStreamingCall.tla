-------------------------- MODULE ClientStreamingCall --------------------------
(***************************************************************************)
(* A client-streaming call from end to end: the client's ClientAsyncWriter,*)
(* the server's ServerReader with the user's reader, and the ServerReplier *)
(* that the user's reader and another thread of the service share.  The    *)
(* call may die at any moment (deadline, connection, cancellation).        *)
(***************************************************************************)
EXTENDS ClientAsyncWriter

CONSTANT MayBeBad \* the messages that the server may fail to decode

ASSUME MayBeBadAssumption == MayBeBad \subseteq Msg

VARIABLES
  has_on_msg, started, reading, nread, bad, calls, \* ServerReader
  replied_, pc, reply, answer, ncalls, tried, returned, late, \* ServerReplier
  dead \* the call has died

reader == <<has_on_msg, started, reading, nread, bad, calls>>
replier == <<replied_, pc, reply, answer, ncalls, tried, returned, late>>
allVars == <<vars, reader, replier, dead>>

Reader == INSTANCE ServerReader WITH
  Payloads <- Msg, ByService <- FALSE, MaxSent <- MaxMsgs

\* "handler" is the user's reader, "timer" a thread that gives up early.
Replier == INSTANCE ServerReplier WITH
  Threads <- {"handler", "timer"}, Replies <- StatusCodes, MaxCalls <- 1,
  started <- tried

CallTypeOK == TypeOK /\ Reader!TypeOK /\ Replier!TypeOK

CallInit ==
  /\ Init /\ Reader!ReaderInit /\ Replier!Init
  /\ bad \in SUBSET MayBeBad
  /\ has_on_msg \/ bad = {} \* no message is decoded without an on_msg()
  /\ reply = [t \in {"handler", "timer"} |-> "error"]
  /\ dead = FALSE

-------------------------------------------------------------------------------

ClientCalls == (Write \/ Close \/ DropWrapper) /\ UNCHANGED <<reader, replier, dead>>

\* A message batch fails when the call is over.
MessageSent ==
  /\ \/ OnSent(TRUE)
     \/ (dead \/ answer # <<>>) /\ OnSent(FALSE)
  /\ UNCHANGED <<reader, replier, dead>>

\* The close batch completes when the call is over: with the server's answer,
\* or with grpc core's error.  The response of an OK may be malformed.
CallOver ==
  /\ \/ answer = <<"ok">> /\ OnClosed("ok")
     \/ (dead \/ answer # <<>>) /\ OnClosed("error")
  /\ UNCHANGED <<reader, replier, dead>>

ReadStep == (Reader!Start \/ Reader!Complete) /\ UNCHANGED <<vars, replier>>

\* on_end() answers the call.
HandlerReplies ==
  /\ Reader!Ended
  /\ Replier!CallWith("handler", IF Reader!EndedCleanly THEN "ok" ELSE "error")
  /\ UNCHANGED <<vars, reader, dead>>

TimerReplies ==
  /\ started /\ Replier!CallWith("timer", "error")
  /\ UNCHANGED <<vars, reader, dead>>

ReplyStep ==
  /\ \E t \in {"handler", "timer"} : Replier!Step(t)
  /\ UNCHANGED <<vars, reader, dead>>

Die == ~dead /\ dead' = TRUE /\ UNCHANGED <<vars, reader, replier>>

\* No client is left, the reader is ended, nobody replies any more.
Settled ==
  /\ Gone \/ process # "up"
  /\ Reader!Ended /\ \A t \in {"handler", "timer"} : pc[t] = "idle"

CallNext ==
  \/ ClientCalls \/ MessageSent \/ CallOver
  \/ ReadStep \/ HandlerReplies \/ TimerReplies \/ ReplyStep
  \/ Die
  \/ Settled /\ UNCHANGED allVars

\* A call that the server dropped without an answer, or that the client was
\* refused, is cancelled by grpc core in the end.
Dropped == status_ # "ok" \/ (tried # <<>> /\ answer = <<>>)

CallSafeSpec == CallInit /\ [][CallNext]_allVars

\* Completion queues are polled, threads run, and on_end() answers.
CallSpec ==
  /\ CallSafeSpec
  /\ WF_allVars(MessageSent)
  /\ WF_allVars(CallOver)
  /\ WF_allVars(ReadStep)
  /\ WF_allVars(HandlerReplies)
  /\ WF_allVars(ReplyStep)
  /\ WF_allVars(Dropped /\ Die)

-------------------------------------------------------------------------------
(* Properties *)

\* An OK told to the client's close callback is the handler's, who gave it after
\* the user's reader had taken every message the writer accepted, in order.
OkEndToEnd ==
  (\E i \in DOMAIN reports : reports[i].status = "ok") =>
    /\ answer = <<"ok">> /\ nread = Len(accepted)
    /\ has_on_msg =>
         calls = [i \in 1 .. Len(accepted) + 1 |->
                    IF i > Len(accepted) THEN <<"end">> ELSE <<"msg", accepted[i]>>]

\* The user's reader is ended once, behind everything else, and its chain of reads
\* with it; see ServerReader.
EndsOnce == Reader!EndsOnce
\* A half-close, or the death of the call, ends the user's reader.
ReaderEnds == Reader!ReaderEnds

\* A reply that begins after another has returned is ignored; see ServerReplier.
LateReplyIgnored == Replier!LateReplyIgnored

===============================================================================
