------------------------------ MODULE ServerReader ------------------------------
(***************************************************************************)
(* The reading side of a client-streaming or bidirectional call on the     *)
(* server: ServerReader::Start() and the chain of ServerReaderCqTags, with *)
(* the Lua Reader that decodes each message for the user's reader.  The    *)
(* chain runs on the completion queue thread alone.                        *)
(***************************************************************************)
EXTENDS Naturals, Sequences

CONSTANTS Payloads,    \* what the client sends
          ByService,   \* was the Lua Reader made by Service.lua?
          MaxSent,     \* bound: messages of the client
          StartMayFail \* may grpc_call_start_batch() refuse a batch?

VARIABLES
  has_on_msg,  \* the user's reader has an on_msg()
  started,     \* Start() has been called
  reading,     \* read batches whose DoComplete() is to come
  nread,       \* messages DoComplete() has taken
  \* the client and the wire (external)
  sent,        \* messages the client has sent
  bad,         \* those that c.decode() does not understand; the first one counts
  half_closed, \* the client has half-closed
  dead,        \* the call has died
  \* history
  calls        \* the calls of the user's reader: <<"msg", payload>>, "error", "end"

client == <<sent, bad, half_closed, dead>>
vars == <<has_on_msg, started, reading, nread, client, calls>>

Events == ({"msg"} \X Payloads) \cup {<<"error">>, <<"end">>}

TypeOK ==
  /\ {has_on_msg, started, half_closed, dead} \subseteq BOOLEAN
  /\ reading \in Nat /\ nread \in 0 .. Len(sent)
  /\ sent \in Seq(Payloads) /\ bad \subseteq Payloads
  /\ calls \in Seq(Events)

\* The service method has returned its reader.
ReaderInit ==
  /\ has_on_msg \in BOOLEAN
  /\ started = FALSE /\ reading = 0 /\ nread = 0
  /\ calls = <<>>

Init ==
  /\ ReaderInit
  /\ sent = <<>> /\ half_closed = FALSE /\ dead = FALSE
  /\ bad \in {{}} \cup {{p} : p \in Payloads}

-------------------------------------------------------------------------------
(* The client: it sends, half-closes, or the call dies. *)

reader == <<has_on_msg, started, reading, nread, calls>>

ClientSends ==
  /\ ~half_closed /\ ~dead /\ Len(sent) < MaxSent
  /\ \E p \in Payloads : sent' = Append(sent, p)
  /\ UNCHANGED <<reader, bad, half_closed, dead>>

ClientCloses ==
  /\ ~half_closed /\ half_closed' = TRUE
  /\ UNCHANGED <<reader, sent, bad, dead>>

CallDies ==
  /\ ~dead /\ dead' = TRUE
  /\ UNCHANGED <<reader, sent, bad, half_closed>>

-------------------------------------------------------------------------------
(* ServerReader and ServerReaderCqTag.  told: calls already made in the step. *)

\* The handlers that Reader finds in its _impl.  Service.lua passes the user's
\* reader as pb, the message type as impl, and there is no handler in a string.
Dispatch(events) == IF ByService THEN <<>> ELSE events

\* EndOnError(): OnError(), OnEnd().
EndOnError(told) == calls' = told \o Dispatch(<<<<"error">>, <<"end">>>>)

\* Reader:on_msg_str(): what the user's reader is called with.
OnMsgStr(p) ==
  calls \o Dispatch(IF has_on_msg /\ p \notin bad THEN <<<<"msg", p>>>> ELSE <<>>)
\* Fault: a message that cannot be decoded is skipped.
OnMsgStrFails_Never(p) == FALSE
\* It returns an error string.
OnMsgStrFails(p) == ~ByService /\ has_on_msg /\ p \in bad

\* Start(): the first read.
Start ==
  /\ ~started /\ started' = TRUE
  /\ \/ reading' = 1 /\ UNCHANGED calls
     \/ StartMayFail /\ EndOnError(calls) /\ UNCHANGED reading
  /\ UNCHANGED <<has_on_msg, nread, client>>

\* DoComplete() of a batch that failed.
ReadFailed ==
  /\ dead /\ reading > 0 /\ reading' = reading - 1
  /\ EndOnError(calls)
  /\ UNCHANGED <<has_on_msg, started, nread, client>>

\* DoComplete() without a message: the half-close, or a read of a dead call that
\* completes with success.
ReadEnd ==
  /\ dead \/ (half_closed /\ nread = Len(sent))
  /\ reading > 0 /\ reading' = reading - 1
  /\ calls' = calls \o Dispatch(<<<<"end">>>>)
  /\ UNCHANGED <<has_on_msg, started, nread, client>>

\* A message has arrived.
TakesMsg == reading > 0 /\ nread < Len(sent) /\ nread' = nread + 1

\* Fault: the next tag is started also after an error.
ReadMsg_GoesOn ==
  /\ TakesMsg
  /\ IF OnMsgStrFails(sent[nread']) THEN EndOnError(calls)
     ELSE calls' = OnMsgStr(sent[nread'])
  /\ UNCHANGED <<has_on_msg, started, reading, client>>
\* DoComplete() of a message; the next tag is started, unless it was bad.
ReadMsg ==
  /\ TakesMsg
  /\ LET msg == sent[nread'] IN
       \/ /\ ~OnMsgStrFails(msg)
          /\ calls' = OnMsgStr(msg)
          /\ UNCHANGED reading
       \/ /\ StartMayFail \/ OnMsgStrFails(msg)
          /\ EndOnError(OnMsgStr(msg))
          /\ reading' = reading - 1
  /\ UNCHANGED <<has_on_msg, started, client>>

Complete == ReadFailed \/ ReadEnd \/ ReadMsg

Ended == started /\ reading = 0
EndedCleanly == Ended /\ <<"error">> \notin {calls[i] : i \in DOMAIN calls}

Done == Ended /\ UNCHANGED vars

Next == ClientSends \/ ClientCloses \/ CallDies \/ Start \/ Complete \/ Done

SafeSpec == Init /\ [][Next]_vars

\* The completion queue is polled.  Clients may stop sending without closing.
Spec == SafeSpec /\ WF_vars(Complete)

-------------------------------------------------------------------------------
(* Properties *)

LastCall == calls[Len(calls)]

\* The user's reader is ended once, after everything else, with an error or
\* without: "In case of end on error, OnError() is already called
\* before OnEnd()."  The chain of tags ends with it: no read is out any more.
EndsOnce ==
  /\ reading <= 1 /\ (calls # <<>> /\ LastCall = <<"end">> => reading = 0)
  /\ \A i \in DOMAIN calls :
       /\ calls[i] = <<"end">> => i = Len(calls)
       /\ calls[i] = <<"error">> /\ i < Len(calls) =>
            i = Len(calls) - 1 /\ LastCall = <<"end">>
  /\ Ended => calls # <<>> /\ LastCall = <<"end">>

\* A started reader is ended when the client half-closes or the call dies.
ReaderEnds == started /\ (half_closed \/ dead) ~> Ended

===============================================================================
