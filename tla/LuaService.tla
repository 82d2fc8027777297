------------------------------ MODULE LuaService ------------------------------
(***************************************************************************)
(* The Lua service behind a server, for one call: Service::CallMethod()    *)
(* dispatches it to Service.lua, which calls the user's service method     *)
(* with a Replier or a Writer, and, of a method whose requests are a       *)
(* stream, wraps the reader it returns.  One thread runs the Lua state and *)
(* polls the completion queue.  The garbage collector ends the C++ replier *)
(* or writer once no Lua code refers to it.                                *)
(***************************************************************************)
EXTENDS Naturals, Sequences

CONSTANTS MaxMsgs,     \* bound: messages each way
          StartMayFail \* may grpc_call_start_batch() refuse a batch?

ASSUME LuaServiceAssumption == MaxMsgs \in Nat \ {0} /\ StartMayFail \in BOOLEAN

VARIABLES
  kind,                \* MethodInfo: IsClientStreaming, IsServerStreaming
  handler,             \* the user's method: "none", "running", "returned" or "raised"
  holds,               \* the user's code can reach what it was given
  object,              \* the ServerReplier or ServerWriter: "none", "alive", "collected"
  reading, nread,      \* the ServerReader: a read is out, messages taken
  accepted, sent, closing, ended, broken, \* the answer, as an OrderedStream
  \* the client and grpc core (external)
  requests,            \* messages the client has sent
  half_closed, dead

reader == <<reading, nread>>
answer == <<accepted, sent, closing, ended, broken>>
service == <<handler, holds, object, reader, answer>>
wire == <<requests, half_closed>>

Kinds == {"simple", "s2c", "c2s", "bidi"}
ClientStreaming == kind \in {"c2s", "bidi"}
ServerStreaming == kind \in {"s2c", "bidi"}

Writer == INSTANCE OrderedStream WITH
  Msg <- 1 .. MaxMsgs, Status <- {"ok", "error"}, NoStatus <- "none"

ServiceTypeOK ==
  /\ kind \in Kinds /\ handler \in {"none", "running", "returned", "raised"}
  /\ object \in {"none", "alive", "collected"} /\ holds \in BOOLEAN
  /\ reading \in BOOLEAN /\ nread \in 0 .. Len(requests) /\ Writer!TypeOK
  /\ requests \in Seq(1 .. MaxMsgs) /\ half_closed \in BOOLEAN

ServiceInit ==
  /\ kind \in Kinds /\ handler = "none" /\ holds = FALSE /\ object = "none"
  /\ reading = FALSE /\ nread = 0
  /\ Writer!Init /\ ~broken

-------------------------------------------------------------------------------
(* Dispatch *)

\* CallMethod(), up to the call of the user's method: with the request, or with
\* none if the requests are a stream.  given: the user's method gets the object.
CallMethod(k, given) ==
  /\ handler = "none" /\ kind = k /\ (ClientStreaming \/ requests # <<>>)
  /\ handler' = "running" /\ object' = "alive" /\ holds' = given
  /\ UNCHANGED <<reader, answer>>

CallSimpleMethod == CallMethod("simple", TRUE)
\* It passes "replier", a global variable that does not exist.
CallS2cStreamingMethod == CallMethod("s2c", FALSE)
CallC2sStreamingMethod == CallMethod("c2s", TRUE)
CallBidiStreamingMethod == CallMethod("bidi", TRUE)

Dispatch ==
  \/ CallSimpleMethod \/ CallS2cStreamingMethod
  \/ CallC2sStreamingMethod \/ CallBidiStreamingMethod

\* Where the user's method leaves a reference to its object.
Places == {"nowhere", "reader", "elsewhere"}
\* Reader:new() is called without pb: the message type is its _impl, and nothing
\* refers to the reader that the method returned.
Keeps(place) == place = "elsewhere"

\* The next ServerReaderCqTag starts, or the chain ends.
ReadsNext == {TRUE} \cup {r \in {FALSE} : StartMayFail}

\* The method returns: std::make_shared<ServerReader>(luaReader)->Start(pCall).
HandlerReturns ==
  /\ handler = "running" /\ handler' = "returned"
  /\ \E place \in Places : holds' = (holds /\ Keeps(place))
  /\ reading' \in IF ClientStreaming THEN ReadsNext ELSE {FALSE}
  /\ UNCHANGED <<nread, object, answer>>

\* The method raises an error, and the exception leaves Server::Run(): a method
\* that is not there, a nil that is indexed, a message that cannot be encoded.
HandlerRaises ==
  /\ handler = "running" /\ handler' = "raised"
  /\ holds' \in {FALSE, holds}
  /\ UNCHANGED <<object, reader, answer>>

-------------------------------------------------------------------------------
(* The user's code, in its method or later *)

Uses == holds /\ (handler = "running" \/ object = "alive")

\* Writer:write()
Write ==
  /\ Uses /\ ServerStreaming /\ Len(accepted) < MaxMsgs
  /\ Writer!Accept(Len(accepted) + 1)
  /\ UNCHANGED <<handler, holds, object, reader>>

\* Writer:close(): "always close with OK status".
CloseWriter ==
  /\ Uses /\ ServerStreaming /\ Writer!Close("ok")
  /\ UNCHANGED <<handler, holds, object, reader>>

\* One batch with a message, if any, and the status; the first one counts.
SendReply(msgs, status) ==
  /\ Uses /\ ~ServerStreaming
  /\ closing = "none" /\ closing' = status
  /\ \/ accepted' = msgs /\ sent' = msgs /\ ended' = status /\ UNCHANGED broken
     \/ StartMayFail /\ broken' = TRUE /\ UNCHANGED <<accepted, sent, ended>>
  /\ UNCHANGED <<handler, holds, object, reader>>

Reply == SendReply(<<1>>, "ok")
\* With any code: 0 is OK.
ReplyError == \E status \in {"ok", "error"} : SendReply(<<>>, status)

\* The last reference is gone.
LetGo ==
  /\ handler # "running" /\ holds /\ holds' = FALSE
  /\ UNCHANGED <<handler, object, reader, answer>>

UserStep == Write \/ CloseWriter \/ Reply \/ ReplyError \/ LetGo

-------------------------------------------------------------------------------
(* The collector, the completion queue, and the last reference to the call *)

\* __gc: ~ServerWriterImpl() closes with OK what is not closed.
Finalize ==
  IF ServerStreaming /\ closing = "none" THEN Writer!Close("ok") ELSE UNCHANGED answer

Collect ==
  /\ object = "alive" /\ handler # "running" /\ ~holds
  /\ object' = "collected" /\ Finalize
  /\ UNCHANGED <<handler, holds, reader>>

WriterStep ==
  /\ ServerStreaming /\ (Writer!Send \/ Writer!End)
  /\ UNCHANGED <<handler, holds, object, reader>>

WriterBreaks ==
  /\ ServerStreaming /\ StartMayFail /\ ~broken /\ Writer!Break
  /\ UNCHANGED <<handler, holds, object, reader>>

\* ServerReaderCqTag, as in ServerReader: a message, or the end of the requests.
\* The Lua Reader finds no handler for either in its _impl.
ReadStep ==
  /\ reading
  /\ \/ nread < Len(requests) /\ nread' = nread + 1 /\ reading' \in ReadsNext
     \/ /\ dead \/ ended # "none" \/ (half_closed /\ nread = Len(requests))
        /\ reading' = FALSE /\ UNCHANGED nread
  /\ UNCHANGED <<handler, holds, object, answer>>

\* Who has a CallSptr: the object, and the tag of a read or of a write.
Writing == Writer!Usable /\ (sent # accepted \/ closing # "none")
CallHeld == handler = "running" \/ object = "alive" \/ reading \/ Writing

\* ~Call(): grpc core cancels a call without a status when it is unreferenced.
Released == handler \in {"returned", "raised"} /\ ~CallHeld /\ ended = "none"

ServiceStep ==
  \/ Dispatch \/ HandlerReturns \/ HandlerRaises \/ UserStep
  \/ Collect \/ WriterStep \/ WriterBreaks \/ ReadStep
===============================================================================
