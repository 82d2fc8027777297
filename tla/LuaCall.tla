------------------------------- MODULE LuaCall -------------------------------
(***************************************************************************)
(* A call between two Lua programs: the client's Lua code over the C++     *)
(* clients and the server's Lua service over the C++ reader, writer and    *)
(* replier, each with its collector.  The call may die at any moment.      *)
(***************************************************************************)
EXTENDS LuaService

VARIABLES sync, client, given, object_held, nheard, bad, heard, reads, queue

clientVars == <<sync, client, given, object_held, nheard, bad, heard, reads, queue>>

Client == INSTANCE LuaClient

vars == <<kind, service, wire, dead, clientVars>>

TypeOK == ServiceTypeOK /\ Client!ClientTypeOK /\ dead \in BOOLEAN

Init == ServiceInit /\ Client!ClientInit /\ dead = FALSE

\* The server hears of a call that was made; a dead call transports nothing.
ServerSide(step) ==
  /\ Client!Begun /\ step
  /\ dead => sent' = sent /\ ended' = ended
  /\ UNCHANGED <<kind, wire, dead, clientVars>>

ClientSide(step) == step /\ UNCHANGED <<kind, sync, service>>

\* Deadline, connection, or the server's last reference.
DieWith(cause) ==
  /\ cause /\ client # "new" /\ ~dead /\ dead' = TRUE
  /\ UNCHANGED <<kind, service, wire, clientVars>>
Cancelled == DieWith(Released \/ broken)
Die == DieWith(TRUE)

\* Nobody has anything left to do.
Settled ==
  /\ client \in {"over", "silent", "lost", "aborted"} /\ handler # "running" /\ ~reading
  /\ object # "alive" \/ holds

Next ==
  \/ ServerSide(ServiceStep) \/ ClientSide(Client!ClientStep) \/ Die
  \/ (Settled /\ UNCHANGED vars)

SafeSpec == Init /\ [][Next]_vars

\* The completion queues are polled, methods return or raise, a blocking client
\* reads, garbage is collected, and the writer keeps its promise.
Spec ==
  /\ SafeSpec
  /\ WF_vars(ServerSide(Dispatch))
  /\ WF_vars(ServerSide(HandlerReturns \/ HandlerRaises))
  /\ WF_vars(ServerSide(Collect))
  /\ WF_vars(ServerSide(WriterStep))
  /\ WF_vars(ServerSide(ReadStep))
  /\ WF_vars(Cancelled)
  /\ WF_vars(ClientSide(Client!Hear))

-------------------------------------------------------------------------------
(* Properties *)

HeardEnd(r) == <<"end", r>> \in {heard[i] : i \in DOMAIN heard}

\* A response table is the handler's reply.  An OK told at the end of a stream
\* comes after every message that the handler's writer accepted, and each was
\* passed to the message callback if it could be decoded, though the collector
\* may have closed the writer, and though the method may have raised an error.
\* Exception: the asynchronous reader-writer takes the end of a dead call for the
\* end of the stream, and what it has passed on is all that came.
OkEndToEnd ==
  /\ HeardEnd("table") => accepted = <<1>> /\ closing = "ok"
  /\ HeardEnd("ok") =>
       /\ (closing = "ok" /\ nheard = Len(accepted)) \/ (kind = "bidi" /\ dead)
       /\ "msg" \in given =>
            {i \in 1 .. MaxMsgs : <<"msg", i>> \in {heard[j] : j \in DOMAIN heard}}
              = (1 .. nheard) \ bad

\* A user with an error, status or close callback hears of the end of a call that
\* is over, once, and after everything else.  Exceptions are a request's answer
\* that does not decode, or that comes without a response callback; an asynchronous
\* reader-writer ("silent") whose reading ends before its writing is closed with
\* nothing queued; and a message callback that raised an error, behind which there
\* may at most be a failed write.
EndHeardOnce ==
  LET ends == {i \in DOMAIN heard : heard[i][1] = "end"} IN
  /\ ends \subseteq {Len(heard)}
  /\ ends # {} => client = "over"
  /\ ~sync /\ client = "over" /\ "end" \in given /\ ends = {} =>
       kind = "simple" /\ ended = "ok" /\ ("msg" \notin given \/ 1 \in bad)
  /\ client = "silent" => kind = "bidi" /\ ~sync /\ half_closed /\ reads = "ended"

\* A method that returned or raised and keeps no reference ends the call, as soon
\* as the client's stream has ended: the collector takes its object, the reader's
\* last tag the call, and the client's call is over at last, of which its user hears
\* as far as EndHeardOnce says.  An asynchronous reader-writer must have been asked
\* to read: one that was not never ends, or fails an assertion when it is collected.
CallEnds ==
  handler \in {"returned", "raised"} /\ ~holds
    /\ (half_closed \/ (~object_held /\ client = "open"))
    /\ (kind = "bidi" /\ ~sync => reads # "no")
  ~> client # "open"
===============================================================================
