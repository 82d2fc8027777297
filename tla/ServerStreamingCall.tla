-------------------------- MODULE ServerStreamingCall --------------------------
(***************************************************************************)
(* A server-streaming call from end to end: the writer of the handler, by  *)
(* its specification OrderedStream, the messages and the status on their   *)
(* way, and the client's ClientAsyncReader.  The call may die at any       *)
(* moment (deadline, connection, cancellation): messages that are not read *)
(* yet may then be lost, and the status is grpc core's.                    *)
(***************************************************************************)
EXTENDS ClientAsyncReader

CONSTANT MaxMsgs \* bound: messages the handler writes

ASSUME MaxMsgsAssumption == MaxMsgs \in 0 .. MaxReads

VARIABLES accepted, sent, closing, ended, broken, \* the handler's writer
          dead                                    \* the call has died

server == <<accepted, sent, closing, ended, broken>>
allVars == <<readerVars, server, dead>>

Server == INSTANCE OrderedStream WITH
  Msg <- 1 .. MaxMsgs, Status <- StatusCodes, NoStatus <- "none"

CallTypeOK == ReaderTypeOK /\ Server!TypeOK /\ dead \in BOOLEAN

CallInit ==
  /\ ReaderInit /\ Server!Init
  /\ ~broken /\ dead = FALSE

\* The handler writes its messages in order, once the call has been started.
ServerStep ==
  /\ is_started_
  /\ \/ \E m \in 1 .. MaxMsgs : m = Len(accepted) + 1 /\ Server!Accept(m)
     \/ Server!Send \/ Server!End \/ Server!Break
     \/ \E st \in StatusCodes : Server!Close(st)
  /\ UNCHANGED <<readerVars, dead>>

Die == ~dead /\ dead' = TRUE /\ UNCHANGED <<readerVars, server>>

AllRead == ended # "none" /\ nread = Len(sent)

\* What grpc core can make of a read or status batch of the client.
ClientStep ==
  /\ \/ Start
     \/ dead /\ OnReadFailed
     \/ (dead \/ AllRead) /\ OnReadEnd
     \/ nread < Len(sent) /\ (OnReadMsg \/ OnReadBad)
     \/ AllRead /\ OnRecvStatus(TRUE, ended)
     \/ dead /\ \E success \in BOOLEAN : OnRecvStatus(success, "error")
  /\ UNCHANGED <<server, dead>>

CallNext == ServerStep \/ Die \/ ClientStep \/ (Ended /\ UNCHANGED allVars)

CallSafeSpec == CallInit /\ [][CallNext]_allVars

\* The writer keeps its promise, the client's completion queue is polled, and a
\* call whose writer broke or that the client was refused dies in the end.
CallSpec ==
  /\ CallSafeSpec
  /\ WF_allVars((Server!Send \/ Server!End) /\ ServerStep)
  /\ WF_allVars(ClientStep /\ ~Start)
  /\ WF_allVars(broken /\ Die)

-------------------------------------------------------------------------------
(* Properties *)

\* If the client is told OK, the handler closed with OK, and every message the
\* handler's writer accepted was read and, if there is a message callback,
\* passed to it.
OkMeansAllRead ==
  \A i \in DOMAIN told :
    told[i] = "ok" =>
      /\ closing = "ok" /\ nread = Len(accepted)
      /\ msg_cb_ => delivered = Len(accepted)

\* A handler that closes, or a call that dies, ends the client's wait, whichever
\* link of the chain of reads fails and however: a status callback that came with
\* ReadEach() is called.
StatusTold == asked /\ (closing # "none" \/ dead) ~> told # <<>>

===============================================================================
