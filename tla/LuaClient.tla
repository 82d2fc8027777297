------------------------------- MODULE LuaClient -------------------------------
(***************************************************************************)
(* The Lua side of a client, for one call: what ServiceStub.lua and the    *)
(* classes of async/ and sync/ make of the results of the C++ clients, with*)
(* the callbacks of msg_cb_wrapper.lua, CbWrapper.cpp and the bindings, and*)
(* the collector that ends the C++ object.  One thread runs the Lua state; *)
(* callbacks are called inside run().                                      *)
(***************************************************************************)
EXTENDS Naturals, Sequences

CONSTANT MaxMsgs \* bound: messages each way

VARIABLES
  kind,         \* as in LuaService
  sync,         \* is it a blocking client?
  client,       \* "new", "open", "over"; "silent": over, and nobody was told;
                \* "lost": a callback has raised an error; or "aborted" by an
                \* assertion
  given,        \* the callbacks the user gave: "msg", "end"
  object_held,  \* the user's code can reach the client object
  nheard,       \* messages taken from grpc core
  bad,          \* those that c.decode() does not understand
  heard,        \* what the user got: callbacks, or values of the blocking functions
  reads, queue, \* of an asynchronous reader-writer: was ReadEach() called, has
                \* the reading ended; msg_queue_, and is it closed behind it
  \* the other side and grpc core (external)
  requests, half_closed,  \* the client's stream
  sent, ended, dead       \* the answer, its status, and the call's death

own == <<client, given, object_held, nheard, bad, heard>>
stream == <<reads, queue>>
clientVars == <<sync, own, stream>>

OneAnswer == kind \in {"simple", "c2s"}
OneRequest == kind \in {"simple", "s2c"}
AsyncBidi == kind = "bidi" /\ ~sync

\* How a call ends for the user: a status, a response table, a response table
\* beside an error, or a nil beside an OK.
Ends == {"ok", "error", "internal", "table", "empty", "nil"}
Heard == ({"msg"} \X (1 .. MaxMsgs)) \cup ({"end"} \X Ends) \cup {<<"nil">>}

ClientTypeOK ==
  /\ sync \in BOOLEAN /\ object_held \in BOOLEAN
  /\ client \in {"new", "open", "over", "silent", "lost", "aborted"}
  /\ given \subseteq {"msg", "end"} /\ bad \subseteq 1 .. MaxMsgs
  /\ nheard \in 0 .. MaxMsgs /\ heard \in Seq(Heard)
  /\ reads \in {"no", "on", "ended"} /\ queue \in {"empty", "sending", "closing"}

ClientInit ==
  /\ sync \in BOOLEAN /\ client = "new" /\ object_held = FALSE
  /\ given \in SUBSET {"msg", "end"}
  /\ sync => given = {} \* a blocking client has no callbacks
  /\ kind = "c2s" => "msg" \notin given
  /\ bad \in SUBSET (IF OneAnswer THEN {1} ELSE 1 .. MaxMsgs)
  /\ ~sync /\ kind # "c2s" /\ "msg" \notin given => bad = {} \* nobody decodes
  /\ nheard = 0 /\ heard = <<>> /\ reads = "no" /\ queue = "empty"
  /\ requests = <<>> /\ half_closed = FALSE

-------------------------------------------------------------------------------
(* The user's calls *)

\* A call is made; an object may be returned to go on with.
Request(k, blocking, object) ==
  /\ client = "new" /\ kind = k /\ sync = blocking
  /\ client' = "open" /\ object_held' = object
  /\ requests' = (IF OneRequest THEN <<1>> ELSE <<>>)
  /\ half_closed' = OneRequest
  /\ UNCHANGED <<given, nheard, bad, heard, stream, dead>>

sync_request == Request("simple", TRUE, FALSE)
async_request == Request("simple", FALSE, FALSE)
sync_request_read == Request("s2c", TRUE, TRUE)
async_request_read == Request("s2c", FALSE, FALSE)
sync_request_write == Request("c2s", TRUE, TRUE)
async_request_write == Request("c2s", FALSE, TRUE)
sync_request_rdwr == Request("bidi", TRUE, TRUE)
async_request_rdwr == Request("bidi", FALSE, TRUE)

Requests ==
  \/ sync_request \/ async_request \/ sync_request_read \/ async_request_read
  \/ sync_request_write \/ async_request_write \/ sync_request_rdwr \/ async_request_rdwr

\* The server hears of the call: of an asynchronous reader-writer after InitIfNot().
Begun == client # "new" /\ (AsyncBidi => reads # "no" \/ requests # <<>>)

Usable == client \in {"open", "lost"} /\ object_held
Closing == half_closed \/ queue = "closing"

Write ==
  /\ Usable /\ ~OneRequest /\ ~Closing
  /\ Len(requests) < MaxMsgs
  /\ requests' = Append(requests, Len(requests) + 1)
  /\ queue' = IF AsyncBidi THEN "sending" ELSE queue
  /\ UNCHANGED <<own, reads, half_closed, dead>>

\* ClientAsyncReaderWriter:read_each()
ReadEach ==
  /\ Usable /\ AsyncBidi /\ reads = "no" /\ reads' = "on"
  /\ UNCHANGED <<own, queue, requests, half_closed, dead>>

\* The half-close goes out, or later behind what is queued.  If the reading has
\* ended before, nobody is told that both have.
HalfClose ==
  /\ half_closed' = (queue = "empty")
  /\ queue' = IF queue = "empty" THEN "empty" ELSE "closing"
  /\ client' = IF half_closed' /\ reads = "ended" THEN "silent" ELSE client

\* close() and close_writing()
CloseWriting ==
  /\ Usable /\ ~Closing /\ HalfClose
  /\ UNCHANGED <<given, object_held, nheard, bad, heard, reads, requests, dead>>

\* Fault: the finalizer of an asynchronous client leaves its stream open.
Collect_Open ==
  /\ Usable /\ object_held' = FALSE
  /\ dead' = (dead \/ sync)
  /\ UNCHANGED <<client, given, nheard, bad, heard, stream, requests, half_closed>>
\* The user lets go of the object and it is collected: a writer closes without a
\* callback, a reader-writer closes the writing, the call of a blocking client
\* is cancelled.
Collect ==
  /\ Usable /\ object_held' = FALSE
  /\ ~(sync /\ kind = "c2s" /\ half_closed) \* not inside its close()
  /\ dead' = (dead \/ sync)
  /\ given' = IF kind = "c2s" /\ ~half_closed THEN {} ELSE given
  /\ \/ sync /\ half_closed' = TRUE /\ client' = "over" /\ UNCHANGED queue
     \/ ~sync /\ ~Closing /\ HalfClose
     \/ ~sync /\ Closing /\ UNCHANGED <<client, queue, half_closed>>
  /\ UNCHANGED <<nheard, bad, heard, reads, requests>>

-------------------------------------------------------------------------------
(* What the user hears *)

Hears(what) == heard' = Append(heard, what)

TakesMsg ==
  /\ client = "open" /\ ~OneAnswer /\ nheard < Len(sent)
  /\ AsyncBidi => reads = "on"
  /\ nheard' = nheard + 1
  /\ UNCHANGED <<given, object_held, bad>>

\* read_one(): nil also if the message does not decode.
read_one ==
  /\ sync /\ object_held /\ TakesMsg
  /\ Hears(IF nheard' \in bad THEN <<"nil">> ELSE <<"msg", nheard'>>)
  /\ UNCHANGED client

\* The wrapped message callback returns nothing, also if it could not decode.  If
\* the user's raises an error, it leaves run(), and no tag reads on.
on_msg_str ==
  /\ ~sync /\ TakesMsg
  /\ IF "msg" \in given /\ nheard' \notin bad
       THEN Hears(<<"msg", nheard'>>) /\ client' \in {"open", "lost"}
       ELSE UNCHANGED <<client, heard>>

\* Fault: every stream ends well.
StreamEnds_Ok(st) == {"ok"}
\* The status callback.  The blocking readers have no function for the status.
StreamEnds(st) == IF sync THEN {"nil"} ELSE {st}

\* The one answer: status and response.
AsyncRequestEnds(st, good) ==
  CASE st # "ok" /\ "end" \in given -> {"error"}
    [] st = "ok" /\ good /\ "msg" \in given -> {"table"}
    [] OTHER -> {} \* also of a response that does not decode
\* sync_request(): the string of an error is "", not nil, and that decodes.
SyncRequestEnds(st, good) ==
  {IF st # "ok" THEN "empty" ELSE IF good THEN "table" ELSE "nil"}
\* ClientSyncWriter:close()
SyncWriterEnds(st, good) ==
  {IF st # "ok" THEN "error" ELSE IF good THEN "table" ELSE "internal"}
\* Fault: nobody is told of a response that does not decode.
AsyncWriterEnds_Mute(st, good) == IF st # "ok" THEN {"error"} ELSE {r \in {"table"} : good}
\* wrap_close_cb()
AsyncWriterEnds(st, good) ==
  {IF st # "ok" THEN "error" ELSE IF good THEN "table" ELSE "internal"}

\* What the user hears at the end, if anything.
EndsWith(st) ==
  LET good == 1 \notin bad IN
  CASE kind = "simple" -> IF sync THEN SyncRequestEnds(st, good) ELSE AsyncRequestEnds(st, good)
    [] ~sync /\ "end" \notin given -> {}
    [] kind = "c2s" -> IF sync THEN SyncWriterEnds(st, good) ELSE AsyncWriterEnds(st, good)
    [] OTHER -> StreamEnds(st)

\* The status, or the answer and the status.
Tells(st) ==
  \/ EndsWith(st) = {} /\ UNCHANGED heard
  \/ \E r \in EndsWith(st) : Hears(<<"end", r>>)

\* grpc core completes the last batch with the handler's status or its own.
Statuses ==
  (IF ended # "none" /\ (OneAnswer \/ nheard = Len(sent)) THEN {ended} ELSE {})
    \cup (IF dead THEN {"error"} ELSE {})

\* An OK without a response: the assertion in CodRecvMsg::GetResultMsg() fails.
NoResponse(st) == OneAnswer /\ st = "ok" /\ sent = <<>>

\* All clients but the asynchronous reader-writer receive the status; a writer
\* when it was closed.
Receives == client = "open" /\ ~AsyncBidi /\ (kind = "c2s" => half_closed)

Abort ==
  /\ Receives /\ \E st \in Statuses : NoResponse(st)
  /\ client' = "aborted"
  /\ UNCHANGED <<given, object_held, nheard, bad, heard>>

Finish ==
  /\ Receives /\ \E st \in {s \in Statuses : ~NoResponse(s)} : Tells(st)
  /\ client' = "over"
  /\ nheard' = IF OneAnswer THEN Len(sent) ELSE nheard
  /\ UNCHANGED <<given, object_held, bad>>

-------------------------------------------------------------------------------
(* The asynchronous reader-writer never receives the status: it is over when both *)
(* directions have ended, or at the first error.                                  *)

Over(st) == client' = "over" /\ Tells(st)

\* OnRead() of a read without a message: the end of the stream, or the same of a
\* dead call, of which a read may also fail.
ReadsEnd ==
  /\ AsyncBidi /\ client = "open" /\ reads = "on" /\ reads' = "ended"
  /\ \/ /\ dead \/ (ended # "none" /\ nheard = Len(sent))
        /\ IF half_closed THEN Over("ok") ELSE UNCHANGED <<client, heard>>
     \/ dead /\ Over("error")
  /\ UNCHANGED <<given, object_held, nheard, bad, queue, half_closed>>

\* OnSent() of the last message in the queue; a call that is over sends no more.
OnSent ==
  /\ client \in {"open", "lost"} /\ queue # "empty" /\ queue' = "empty"
  /\ \/ /\ half_closed' = (queue = "closing")
        /\ IF half_closed' /\ reads = "ended" THEN Over("ok")
             ELSE UNCHANGED <<client, heard>>
     \/ (dead \/ ended # "none") /\ Over("error") /\ UNCHANGED half_closed
  /\ UNCHANGED <<given, object_held, nheard, bad, reads>>

\* ~ClientAsyncReaderWriterImpl() asserts that the reading has ended.
Destroy ==
  /\ AsyncBidi /\ client = "open" /\ ~object_held /\ half_closed /\ reads = "no"
  /\ client' = "aborted"
  /\ UNCHANGED <<given, object_held, nheard, bad, heard, stream, half_closed>>

Hear ==
  \/ (read_one \/ on_msg_str \/ Abort \/ Finish) /\ UNCHANGED <<stream, requests, half_closed, dead>>
  \/ (ReadsEnd \/ OnSent \/ Destroy) /\ UNCHANGED <<requests, dead>>

ClientStep == Requests \/ Write \/ ReadEach \/ CloseWriting \/ Collect \/ Hear
===============================================================================
