------------------------------- MODULE CallProofs -------------------------------
(***************************************************************************)
(* Proofs about LuaCall: a call of any kind between two Lua programs, from *)
(* end to end, for any number of messages.                                 *)
(***************************************************************************)
EXTENDS LuaCall, SequenceTheorems, TLAPS

-------------------------------------------------------------------------------
(* The server of the call *)

\* A status that went out is that of the close, behind every accepted message.
AnswerEnds ==
  /\ accepted \in Seq(Nat) /\ sent \in Seq(Nat)
  /\ closing \in {"ok", "error", "none"} /\ ended \in {"ok", "error", "none"}
  /\ ended # "none" => closing = ended /\ sent = accepted

\* The server's steps: a writer as OrderedStream has it.  Once its status is out
\* nothing is accepted or sent any more.
LEMMA AnswerStep ==
  ASSUME AnswerEnds,
         \/ \E m \in Nat : Writer!Accept(m)
         \/ Writer!Send \/ Writer!End \/ Writer!Break
         \/ \E st \in {"ok", "error"} : Writer!Close(st)
  PROVE  AnswerEnds' /\ (ended # "none" => UNCHANGED <<accepted, sent, closing, ended>>)
<1> USE DEF AnswerEnds
<1>1. ASSUME NEW m \in Nat, Writer!Accept(m) PROVE AnswerEnds'
  <2>1. accepted' \in Seq(Nat)
    BY <1>1, AppendProperties DEF Writer!Accept
  <2>2. /\ sent' = sent \/ sent' = accepted'
        /\ ended = "none" /\ UNCHANGED <<closing, ended>>
    BY <1>1 DEF Writer!Accept, Writer!Usable
  <2> QED BY <2>1, <2>2
<1>2. CASE Writer!Send
  <2>1. accepted[Len(sent) + 1] \in Nat
    BY <1>2, LenProperties, ElementOfSeq DEF Writer!Send
  <2> QED BY <1>2, <2>1, AppendProperties DEF Writer!Send, Writer!Usable
<1>3. CASE Writer!End
  BY <1>3 DEF Writer!End, Writer!Usable
<1>4. CASE Writer!Break
  BY <1>4 DEF Writer!Break
<1>5. ASSUME NEW st \in {"ok", "error"}, Writer!Close(st) PROVE AnswerEnds'
  BY <1>5 DEF Writer!Close, Writer!Usable
<1>6. ended # "none" => UNCHANGED <<accepted, sent, closing, ended>>
  BY DEF Writer!Accept, Writer!Send, Writer!End, Writer!Break, Writer!Close, Writer!Usable
<1> QED BY <1>1, <1>2, <1>3, <1>4, <1>5, <1>6

-------------------------------------------------------------------------------
(* The call between two Lua programs *)

\* A method that does not stream answers with an error or with its response.
Answers == {<<>>, <<1>>}

\* The answer has no more messages than the bound, and none that was not accepted.
AnswerBound == Len(sent) <= Len(accepted) /\ Len(accepted) <= MaxMsgs

\* Before the call the client has not sent anything.
NotAsked == client = "new" => requests = <<>>

LuaTypeInv == TypeOK /\ AnswerBound /\ NotAsked

LEMMA LuaTypeInit == Init => LuaTypeInv
<1> SUFFICES ASSUME Init PROVE LuaTypeInv
  OBVIOUS
<1> USE LuaServiceAssumption
<1>1. /\ accepted = <<>> /\ sent = <<>> /\ requests = <<>> /\ heard = <<>>
      /\ nread = 0 /\ nheard = 0
  BY DEF Init, ServiceInit, Writer!Init, Client!ClientInit
<1>2. /\ accepted \in Seq(1 .. MaxMsgs) /\ sent \in Seq(1 .. MaxMsgs)
      /\ requests \in Seq(1 .. MaxMsgs) /\ heard \in Seq(Client!Heard)
  BY <1>1
<1>3. AnswerBound
  BY <1>1 DEF AnswerBound
<1>4. nread \in 0 .. Len(requests) /\ nheard \in 0 .. MaxMsgs
  BY <1>1
<1>5. ServiceTypeOK
  BY <1>2, <1>4 DEF Init, ServiceInit, Writer!Init, Writer!TypeOK, ServiceTypeOK, Client!ClientInit
<1>7. bad \subseteq 1 .. MaxMsgs /\ given \subseteq {"msg", "end"}
  BY DEF Init, Client!ClientInit
<1>6. Client!ClientTypeOK
  BY <1>2, <1>4, <1>7 DEF Init, Client!ClientInit, Client!ClientTypeOK
<1> QED BY <1>1, <1>3, <1>5, <1>6 DEF Init, TypeOK, NotAsked, LuaTypeInv

\* A step of the writer keeps the type of the answer and its bound.
LEMMA WriterType ==
  ASSUME Writer!TypeOK, AnswerBound,
         \/ Len(accepted) < MaxMsgs /\ Writer!Accept(Len(accepted) + 1)
         \/ Writer!Send \/ Writer!End \/ Writer!Break \/ Writer!Close("ok")
  PROVE  Writer!TypeOK' /\ AnswerBound'
<1> USE LuaServiceAssumption DEF Writer!TypeOK, AnswerBound
<1>1. CASE Len(accepted) < MaxMsgs /\ Writer!Accept(Len(accepted) + 1)
  <2>1. Len(accepted) + 1 \in 1 .. MaxMsgs
    BY <1>1, LenProperties
  <2>2. /\ accepted' = Append(accepted, Len(accepted) + 1)
        /\ sent' = sent \/ sent' = accepted'
        /\ UNCHANGED <<closing, ended, broken>>
    BY <1>1 DEF Writer!Accept
  <2>3. accepted' \in Seq(1 .. MaxMsgs) /\ Len(accepted') = Len(accepted) + 1
    BY <2>1, <2>2, AppendProperties
  <2>4. AnswerBound'
    BY <1>1, <2>2, <2>3, LenProperties
  <2> QED BY <2>2, <2>3, <2>4
<1>2. CASE Writer!Send
  <2>1. accepted[Len(sent) + 1] \in 1 .. MaxMsgs
    BY <1>2, LenProperties, ElementOfSeq DEF Writer!Send
  <2>2. /\ sent' = Append(sent, accepted[Len(sent) + 1])
        /\ Len(sent) < Len(accepted)
        /\ UNCHANGED <<accepted, closing, ended, broken>>
    BY <1>2 DEF Writer!Send
  <2>3. sent' \in Seq(1 .. MaxMsgs) /\ Len(sent') = Len(sent) + 1
    BY <2>1, <2>2, AppendProperties
  <2>4. AnswerBound'
    BY <2>2, <2>3, LenProperties
  <2> QED BY <2>2, <2>3, <2>4
<1>3. CASE Writer!End \/ Writer!Break \/ Writer!Close("ok")
  BY <1>3 DEF Writer!End, Writer!Break, Writer!Close
<1> QED BY <1>1, <1>2, <1>3

\* What a step of the service does to the answer: as the writer of a stream, or
\* as a reply that is given once.
LEMMA AnswerChanges ==
  ASSUME ServiceStep
  PROVE  \/ UNCHANGED answer
         \/ /\ ServerStreaming
            /\ \/ Len(accepted) < MaxMsgs /\ Writer!Accept(Len(accepted) + 1)
               \/ Writer!Send \/ Writer!End \/ Writer!Break \/ Writer!Close("ok")
         \/ SendReply(<<1>>, "ok") \/ SendReply(<<>>, "ok") \/ SendReply(<<>>, "error")
<1>1. CASE Dispatch
  BY <1>1 DEF Dispatch, CallSimpleMethod, CallS2cStreamingMethod,
              CallC2sStreamingMethod, CallBidiStreamingMethod, CallMethod
<1>2. CASE HandlerReturns \/ HandlerRaises \/ ReadStep
  BY <1>2 DEF HandlerReturns, HandlerRaises, ReadStep
<1>3. CASE UserStep
  BY <1>3 DEF UserStep, Write, CloseWriter, Reply, ReplyError, LetGo
<1>4. CASE Collect
  BY <1>4 DEF Collect, Finalize
<1>5. CASE WriterStep \/ WriterBreaks
  BY <1>5 DEF WriterStep, WriterBreaks
<1> QED BY <1>1, <1>2, <1>3, <1>4, <1>5 DEF ServiceStep

LEMMA LuaServiceType ==
  ASSUME TypeOK, AnswerBound, ServiceStep, UNCHANGED <<kind, wire>>
  PROVE  ServiceTypeOK' /\ AnswerBound'
<1> USE LuaServiceAssumption
<1>1. Writer!TypeOK' /\ AnswerBound'
  <2>1. CASE UNCHANGED answer
    BY <2>1 DEF answer, TypeOK, ServiceTypeOK, Writer!TypeOK, AnswerBound
  <2>2. ASSUME NEW msgs \in Answers, NEW st \in {"ok", "error"}, SendReply(msgs, st)
        PROVE  Writer!TypeOK' /\ AnswerBound'
    <3>1. msgs \in Seq(1 .. MaxMsgs) /\ Len(msgs) <= MaxMsgs
      <4>1. CASE msgs = <<>>
        BY <4>1
      <4>2. CASE msgs = <<1>>
        BY <4>2
      <4> QED BY <2>2, <4>1, <4>2 DEF Answers
    <3>2. /\ (accepted' = msgs /\ sent' = msgs) \/ UNCHANGED <<accepted, sent>>
          /\ closing' = st /\ ended' \in {st, ended}
      BY <2>2 DEF SendReply
    <3>3. broken' \in BOOLEAN
      BY <2>2 DEF SendReply, TypeOK, ServiceTypeOK, Writer!TypeOK
    <3>4. /\ accepted' \in Seq(1 .. MaxMsgs) /\ sent' \in Seq(1 .. MaxMsgs)
          /\ closing' \in {"ok", "error", "none"} /\ ended' \in {"ok", "error", "none"}
      BY <3>1, <3>2 DEF TypeOK, ServiceTypeOK, Writer!TypeOK
    <3>5. Len(sent') <= Len(accepted') /\ Len(accepted') <= MaxMsgs
      <4>1. CASE accepted' = msgs /\ sent' = msgs
        BY <3>1, <4>1, LenProperties
      <4>2. CASE UNCHANGED <<accepted, sent>>
        BY <4>2 DEF AnswerBound
      <4> QED BY <3>2, <4>1, <4>2
    <3> QED BY <3>3, <3>4, <3>5 DEF Writer!TypeOK, AnswerBound
  <2> QED BY <2>1, <2>2, WriterType, AnswerChanges DEF Answers, TypeOK, ServiceTypeOK
<1>2. kind' = kind /\ requests' = requests /\ half_closed' = half_closed
  BY DEF wire
<1>3. /\ handler' \in {"none", "running", "returned", "raised"}
      /\ object' \in {"none", "alive", "collected"} /\ holds' \in BOOLEAN
  BY DEF TypeOK, ServiceTypeOK, ServiceStep, Dispatch, CallSimpleMethod, CallS2cStreamingMethod,
         CallC2sStreamingMethod, CallBidiStreamingMethod, CallMethod, HandlerReturns,
         HandlerRaises, ReadStep, UserStep, Write, CloseWriter, Reply, ReplyError, SendReply,
         LetGo, Collect, WriterStep, WriterBreaks
<1>4. reading' \in BOOLEAN /\ nread' \in 0 .. Len(requests)
  <2>1. CASE HandlerReturns
    BY <2>1 DEF HandlerReturns, ReadsNext, TypeOK, ServiceTypeOK
  <2>2. CASE ReadStep
    <3>1. reading' \in BOOLEAN
      BY <2>2 DEF ReadStep, ReadsNext
    <3>2. (nread < Len(requests) /\ nread' = nread + 1) \/ nread' = nread
      BY <2>2 DEF ReadStep
    <3> QED BY <3>1, <3>2, LenProperties DEF TypeOK, ServiceTypeOK
  <2>3. CASE UNCHANGED reader
    BY <2>3 DEF reader, TypeOK, ServiceTypeOK
  <2> QED BY <2>1, <2>2, <2>3
      DEF ServiceStep, Dispatch, CallSimpleMethod, CallS2cStreamingMethod,
          CallC2sStreamingMethod, CallBidiStreamingMethod, CallMethod, HandlerRaises,
          UserStep, Write, CloseWriter, Reply, ReplyError, SendReply, LetGo, Collect,
          WriterStep, WriterBreaks
<1> QED BY <1>1, <1>2, <1>3, <1>4 DEF ServiceTypeOK, TypeOK

\* A message that the client takes.
LEMMA TakesOne ==
  ASSUME Client!read_one \/ Client!on_msg_str
  PROVE  /\ client = "open" /\ ~Client!OneAnswer
         /\ nheard < Len(sent) /\ nheard' = nheard + 1
         /\ client' \in {"open", "lost"}
         /\ \/ heard' = heard
            \/ heard' = Append(heard, <<"nil">>)
            \/ heard' = Append(heard, <<"msg", nheard + 1>>)
         /\ UNCHANGED <<given, object_held, bad>>
  BY DEF Client!read_one, Client!on_msg_str, Client!TakesMsg, Client!Hears

\* What a call can end with.
LEMMA EndsAre ==
  ASSUME NEW st \in {"ok", "error"}
  PROVE  Client!EndsWith(st) \subseteq Client!Ends
  BY DEF Client!EndsWith, Client!Ends, Client!SyncRequestEnds, Client!AsyncRequestEnds,
         Client!SyncWriterEnds, Client!AsyncWriterEnds, Client!StreamEnds

LEMMA StatusesAre == TypeOK => Client!Statuses \subseteq {"ok", "error"}
  BY DEF TypeOK, ServiceTypeOK, Writer!TypeOK, Client!Statuses

\* The end of a call.
LEMMA FinishIs ==
  ASSUME TypeOK, Client!Finish
  PROVE  \E st \in Client!Statuses :
           /\ st \in {"ok", "error"} /\ ~Client!NoResponse(st)
           /\ client = "open" /\ client' = "over" /\ ~Client!AsyncBidi
           /\ Client!Tells(st)
           /\ nheard' = IF Client!OneAnswer THEN Len(sent) ELSE nheard
           /\ UNCHANGED <<given, object_held, bad>>
  BY StatusesAre DEF Client!Finish, Client!Receives

\* What the user is told.
LEMMA TellsIs ==
  ASSUME NEW st \in {"ok", "error"}, Client!Tells(st)
  PROVE  heard' = heard \/ \E r \in Client!Ends : heard' = Append(heard, <<"end", r>>)
  BY EndsAre DEF Client!Tells, Client!Hears

\* What the steps of the client do to the user's side.
LEMMA ClientChanges ==
  ASSUME TypeOK, Client!ClientStep
  PROVE  \/ /\ client = "new" /\ client' = "open" /\ object_held' \in BOOLEAN
            /\ requests' \in {<<>>, <<1>>}
            /\ half_closed' \in BOOLEAN
            /\ UNCHANGED <<given, nheard, bad, heard, reads, queue, dead>>
         \/ /\ client \in {"open", "lost"} /\ client' \in {client, "silent"}
            /\ half_closed' \in BOOLEAN
            /\ reads' \in {reads, "on"} /\ queue' \in {queue, "sending", "closing"}
            /\ UNCHANGED <<given, object_held, nheard, bad, heard, dead>>
         \/ Client!Collect
         \/ Client!Hear
<1>1. CASE Client!Requests
  <2>1. \E k \in Kinds, blocking, back \in BOOLEAN : Client!Request(k, blocking, back)
    BY <1>1 DEF Kinds, Client!Requests, Client!sync_request, Client!async_request,
       Client!sync_request_read, Client!async_request_read, Client!sync_request_write,
       Client!async_request_write, Client!sync_request_rdwr, Client!async_request_rdwr
  <2>2. PICK k \in Kinds, blocking, back \in BOOLEAN : Client!Request(k, blocking, back)
    BY <2>1
  <2>3. /\ client = "new" /\ client' = "open"
        /\ UNCHANGED <<given, nheard, bad, heard, reads, queue, dead>>
    BY <2>2 DEF Client!Request, Client!stream
  <2>4. object_held' \in BOOLEAN
    BY <2>2 DEF Client!Request
  <2>5. requests' \in {<<>>, <<1>>}
    BY <2>2 DEF Client!Request
  <2>6. half_closed' \in BOOLEAN
    BY <2>2 DEF Client!Request, Client!OneRequest
  <2> QED BY <2>3, <2>4, <2>5, <2>6
<1>2. CASE Client!Write \/ Client!ReadEach
  <2>1. half_closed' \in BOOLEAN
    BY <1>2 DEF Client!Write, Client!ReadEach, TypeOK, ServiceTypeOK
  <2> QED BY <1>2, <2>1 DEF Client!Write, Client!ReadEach, Client!Usable, Client!own
<1>3. CASE Client!CloseWriting
  <2>1. half_closed' \in BOOLEAN
    BY <1>3 DEF Client!CloseWriting, Client!HalfClose
  <2>2. client' \in {client, "silent"} /\ queue' \in {queue, "closing"}
    BY <1>3 DEF Client!CloseWriting, Client!HalfClose
  <2> QED BY <1>3, <2>1, <2>2 DEF Client!CloseWriting, Client!Usable
<1> QED BY <1>1, <1>2, <1>3 DEF Client!ClientStep

\* What the collector does.
LEMMA CollectIs ==
  ASSUME TypeOK, Client!Collect
  PROVE  /\ client \in {"open", "lost"} /\ client' \in {client, "silent", "over"}
         /\ client' = "over" => sync
         /\ object_held' = FALSE /\ queue' \in {queue, "closing"}
         /\ half_closed' \in BOOLEAN /\ (dead' = TRUE \/ dead' = dead)
         /\ given' = given \/ (given' = {} /\ Client!OneAnswer)
         /\ UNCHANGED <<nheard, bad, heard, reads, requests>>
<1>1. half_closed' \in BOOLEAN
  BY DEF Client!Collect, Client!HalfClose, TypeOK, ServiceTypeOK
<1>2. dead' = TRUE \/ dead' = dead
  <2>1. dead' = (dead \/ sync)
    BY DEF Client!Collect
  <2> QED BY <2>1 DEF TypeOK, Client!ClientTypeOK
<1>3. /\ client' \in {client, "silent", "over"} /\ queue' \in {queue, "closing"}
      /\ client' = "over" => sync
  BY DEF Client!Collect, Client!HalfClose, Client!Usable
<1> QED BY <1>1, <1>2, <1>3 DEF Client!Collect, Client!Usable, Client!OneAnswer

\* What the asynchronous reader-writer does when a read or a write completes.
LEMMA BidiEnds ==
  ASSUME TypeOK, Client!ReadsEnd \/ Client!OnSent
  PROVE  /\ client \in {"open", "lost"} /\ half_closed' \in BOOLEAN
         /\ reads' \in {reads, "ended"} /\ queue' \in {queue, "empty"}
         /\ \/ client' = client /\ heard' = heard
            \/ /\ client' = "over"
               /\ \E st \in {"ok", "error"} :
                    /\ Client!Tells(st)
                    /\ st = "ok" /\ reads # "ended" =>
                         Client!AsyncBidi /\ (dead \/ (ended # "none" /\ nheard = Len(sent)))
         /\ UNCHANGED <<given, object_held, nheard, bad>>
<1>1. half_closed' \in BOOLEAN
  BY DEF Client!ReadsEnd, Client!OnSent, TypeOK, ServiceTypeOK
<1>2. CASE Client!ReadsEnd
  BY <1>1, <1>2 DEF Client!ReadsEnd, Client!Over
<1>3. CASE Client!OnSent
  BY <1>1, <1>3 DEF Client!OnSent, Client!Over
<1> QED BY <1>2, <1>3

LEMMA LuaClientType ==
  ASSUME LuaTypeInv, ClientSide(Client!ClientStep)
  PROVE  LuaTypeInv'
<1> USE LuaServiceAssumption DEF LuaTypeInv
<1>1. UNCHANGED <<kind, sync, service>>
  BY DEF ClientSide
<1>2. AnswerBound' /\ Writer!TypeOK' /\ kind' = kind /\ sync' = sync
  BY <1>1 DEF service, answer, AnswerBound, TypeOK, ServiceTypeOK, Writer!TypeOK
<1>3. /\ requests' \in Seq(1 .. MaxMsgs) /\ Len(requests) <= Len(requests')
      /\ client' # "new"
  <2>1. CASE Client!Requests
    <3>1. requests = <<>> /\ client' = "open" /\ (requests' = <<1>> \/ requests' = <<>>)
      BY <2>1 DEF NotAsked, Client!Requests, Client!sync_request, Client!async_request,
         Client!sync_request_read, Client!async_request_read, Client!sync_request_write,
         Client!async_request_write, Client!sync_request_rdwr, Client!async_request_rdwr,
         Client!Request
    <3>2. CASE requests' = <<1>>
      BY <3>1, <3>2
    <3>3. CASE requests' = <<>>
      BY <3>1, <3>3
    <3> QED BY <3>1, <3>2, <3>3
  <2>2. CASE Client!Write
    <3>1. /\ Len(requests) < MaxMsgs /\ requests' = Append(requests, Len(requests) + 1)
          /\ client' # "new"
      BY <2>2 DEF Client!Write, Client!own, Client!Usable
    <3>2. requests \in Seq(1 .. MaxMsgs) /\ Len(requests) + 1 \in 1 .. MaxMsgs
      BY <3>1, LenProperties DEF TypeOK, ServiceTypeOK
    <3> QED BY <3>1, <3>2, AppendProperties, LenProperties
  <2>3. CASE UNCHANGED requests /\ client' # "new"
    BY <2>3, LenProperties DEF TypeOK, ServiceTypeOK
  <2>4. CASE Client!Hear
    BY <2>3, <2>4, TakesOne, FinishIs, BidiEnds DEF Client!Hear, Client!Abort, Client!Destroy
  <2>5. CASE Client!ReadEach \/ Client!CloseWriting
    BY <2>3, <2>5 DEF Client!ReadEach, Client!CloseWriting, Client!HalfClose, Client!Usable, Client!own
  <2>6. CASE Client!Collect
    BY <2>3, <2>6, CollectIs
  <2> QED BY <2>1, <2>2, <2>4, <2>5, <2>6 DEF ClientSide, Client!ClientStep
<1>4. half_closed' \in BOOLEAN /\ dead' \in BOOLEAN
  <2>1. CASE Client!Collect
    BY <2>1, CollectIs DEF TypeOK
  <2>2. CASE Client!Hear
    BY <2>2, BidiEnds DEF Client!Hear, Client!Destroy, TypeOK, ServiceTypeOK
  <2> QED BY <2>1, <2>2, ClientChanges DEF ClientSide, TypeOK
<1>5. ServiceTypeOK'
  BY <1>1, <1>2, <1>3, <1>4, LenProperties DEF service, reader, TypeOK, ServiceTypeOK
<1>6. given' \subseteq {"msg", "end"} /\ bad' \subseteq 1 .. MaxMsgs
  <2>1. CASE Client!Collect
    <3>1. bad' = bad /\ (given' = {} \/ given' = given)
      BY <2>1, CollectIs
    <3> QED BY <3>1 DEF TypeOK, Client!ClientTypeOK
  <2>2. CASE Client!Hear
    <3>1. UNCHANGED <<given, bad>>
      BY <2>2, TakesOne, FinishIs, BidiEnds DEF Client!Hear, Client!Abort, Client!Destroy
    <3> QED BY <3>1 DEF TypeOK, Client!ClientTypeOK
  <2> QED BY <2>1, <2>2, ClientChanges DEF ClientSide, TypeOK, Client!ClientTypeOK
<1>7. nheard' \in 0 .. MaxMsgs
  <2>1. Len(sent) \in 0 .. MaxMsgs /\ nheard \in 0 .. MaxMsgs
    BY LenProperties DEF AnswerBound, TypeOK, ServiceTypeOK, Writer!TypeOK, Client!ClientTypeOK
  <2>2. \/ nheard' = nheard \/ nheard' = Len(sent)
        \/ nheard < Len(sent) /\ nheard' = nheard + 1
    BY ClientChanges, CollectIs, TakesOne, FinishIs, BidiEnds
    DEF ClientSide, Client!Hear, Client!Abort, Client!Destroy
  <2> QED BY <2>1, <2>2
<1>8. heard' \in Seq(Client!Heard)
  <2>1. heard \in Seq(Client!Heard)
    BY DEF TypeOK, Client!ClientTypeOK
  <2>0. \A e \in Client!Heard : Append(heard, e) \in Seq(Client!Heard)
    BY <2>1, AppendProperties
  <2>2. CASE Client!read_one \/ Client!on_msg_str
    <3>1. nheard + 1 \in 1 .. MaxMsgs
      BY <2>2, TakesOne, LenProperties
      DEF AnswerBound, TypeOK, ServiceTypeOK, Writer!TypeOK, Client!ClientTypeOK
    <3>2. <<"nil">> \in Client!Heard /\ <<"msg", nheard + 1>> \in Client!Heard
      BY <3>1 DEF Client!Heard
    <3>3. \/ heard' = heard
          \/ heard' = Append(heard, <<"nil">>)
          \/ heard' = Append(heard, <<"msg", nheard + 1>>)
      BY <2>2, TakesOne
    <3> QED BY <2>0, <2>1, <3>2, <3>3
  <2>3. ASSUME NEW st \in {"ok", "error"}, Client!Tells(st) PROVE heard' \in Seq(Client!Heard)
    <3>1. \A r \in Client!Ends : <<"end", r>> \in Client!Heard
      BY DEF Client!Heard
    <3>2. heard' = heard \/ \E r \in Client!Ends : heard' = Append(heard, <<"end", r>>)
      BY <2>3, TellsIs
    <3> QED BY <2>0, <2>1, <3>1, <3>2
  <2>4. CASE UNCHANGED heard
    BY <2>1, <2>4
  <2>5. CASE Client!Finish
    BY <2>3, <2>5, FinishIs
  <2>6. CASE Client!ReadsEnd \/ Client!OnSent
    BY <2>1, <2>3, <2>6, BidiEnds
  <2> QED BY <2>2, <2>4, <2>5, <2>6, ClientChanges, CollectIs
      DEF ClientSide, Client!Hear, Client!Abort, Client!Destroy
<1>9. object_held' \in BOOLEAN /\ client' \in {"new", "open", "over", "silent", "lost", "aborted"}
  <2>1. CASE Client!Collect
    BY <2>1, CollectIs
  <2>2. CASE Client!Hear
    <3>1. object_held' = object_held /\ client' \in {"open", "over", "lost", "aborted"}
      BY <2>2, TakesOne, FinishIs, BidiEnds DEF Client!Hear, Client!Abort, Client!Destroy
    <3> QED BY <3>1 DEF TypeOK, Client!ClientTypeOK
  <2> QED BY <2>1, <2>2, ClientChanges DEF ClientSide, TypeOK, Client!ClientTypeOK
<1>10. reads' \in {"no", "on", "ended"} /\ queue' \in {"empty", "sending", "closing"}
  <2>1. reads \in {"no", "on", "ended"} /\ queue \in {"empty", "sending", "closing"}
    BY DEF TypeOK, Client!ClientTypeOK
  <2>2. CASE Client!Collect
    BY <2>1, <2>2, CollectIs
  <2>3. CASE Client!Hear
    BY <2>1, <2>3, BidiEnds DEF Client!Hear, Client!Destroy, Client!stream
  <2> QED BY <2>1, <2>2, <2>3, ClientChanges DEF ClientSide
<1> QED BY <1>2, <1>3, <1>4, <1>5, <1>6, <1>7, <1>8, <1>9, <1>10
    DEF TypeOK, Client!ClientTypeOK, NotAsked

LEMMA LuaTypeStep == LuaTypeInv /\ [Next]_vars => LuaTypeInv'
<1> SUFFICES ASSUME LuaTypeInv, [Next]_vars PROVE LuaTypeInv'
  OBVIOUS
<1>1. CASE ServerSide(ServiceStep)
  <2>1. ServiceStep /\ UNCHANGED <<kind, wire, dead, clientVars>>
    BY <1>1 DEF ServerSide
  <2>2. ServiceTypeOK' /\ AnswerBound'
    BY <2>1, LuaServiceType DEF LuaTypeInv
  <2>3. Client!ClientTypeOK' /\ dead' \in BOOLEAN /\ NotAsked'
    BY <2>1 DEF clientVars, wire, LuaTypeInv, TypeOK, Client!ClientTypeOK, NotAsked
  <2> QED BY <2>2, <2>3 DEF LuaTypeInv, TypeOK
<1>2. CASE Die \/ UNCHANGED vars
  <2>1. UNCHANGED <<kind, service, wire, clientVars>> /\ (dead' = TRUE \/ dead' = dead)
    BY <1>2 DEF Die, DieWith, vars
  <2>2. ServiceTypeOK' /\ AnswerBound' /\ NotAsked'
    BY <2>1 DEF service, reader, answer, wire, clientVars, LuaTypeInv, TypeOK, ServiceTypeOK,
                Writer!TypeOK, AnswerBound, NotAsked
  <2>3. Client!ClientTypeOK'
    BY <2>1 DEF clientVars, LuaTypeInv, TypeOK, Client!ClientTypeOK
  <2>4. dead' \in BOOLEAN
    BY <2>1 DEF LuaTypeInv, TypeOK
  <2> QED BY <2>2, <2>3, <2>4 DEF LuaTypeInv, TypeOK
<1> QED BY <1>1, <1>2, LuaClientType DEF Next

LEMMA LuaTypeHolds == SafeSpec => []LuaTypeInv
  BY LuaTypeInit, LuaTypeStep, PTL DEF SafeSpec

\* Every variable of a call between two Lua programs keeps its type, whoever acts.
THEOREM LuaTypeCorrect == SafeSpec => []TypeOK
<1>1. LuaTypeInv => TypeOK
  BY DEF LuaTypeInv
<1> QED BY <1>1, LuaTypeHolds, PTL

-------------------------------------------------------------------------------
(* What the user of the Lua client hears *)

Heard1(x) == \E j \in DOMAIN heard : heard[j] = x
IsEnd(j) == heard[j][1] = "end"

\* The user hears of the end once, behind everything else, unless the answer of a
\* simple request does not decode or has no callback.
EndInv ==
  /\ \A j \in DOMAIN heard : IsEnd(j) => j = Len(heard) /\ client = "over"
  /\ ~sync /\ client = "over" /\ "end" \in given /\ (\A j \in DOMAIN heard : ~IsEnd(j)) =>
       kind = "simple" /\ ended = "ok" /\ ("msg" \notin given \/ 1 \in bad)

\* The one reply of a method that is not a stream is given with its status.
ReplyInv ==
  ~ServerStreaming =>
    /\ sent = accepted
    /\ accepted # <<>> => accepted = <<1>> /\ closing = "ok"

\* Of the messages of a stream those that decode are passed on, one after the other.
MsgsInv ==
  /\ \A i \in Nat : Heard1(<<"msg", i>>) => i <= nheard /\ ~Client!OneAnswer
  /\ ~sync /\ ~Client!OneAnswer /\ "msg" \in given =>
       \A i \in 1 .. nheard : Heard1(<<"msg", i>>) <=> i \notin bad

\* A response table or an OK is told of an answer that is complete.
TruthInv ==
  /\ Heard1(<<"end", "table">>) => ~ServerStreaming /\ accepted = <<1>> /\ closing = "ok"
  /\ Heard1(<<"end", "ok">>) =>
       /\ ~sync /\ ~Client!OneAnswer /\ client = "over"
       /\ (ended = "ok" /\ nheard = Len(sent)) \/ (kind = "bidi" /\ dead)

\* The stream of an answer is closed with OK.  The reading of an asynchronous
\* reader-writer has ended where that of the answer has, or with the call.
StreamInv ==
  /\ ServerStreaming => closing # "error"
  /\ reads # "no" \/ queue # "empty" => Client!AsyncBidi
  /\ reads = "ended" => dead \/ (ended # "none" /\ nheard = Len(sent))
  /\ client = "silent" => half_closed /\ reads = "ended"

LuaInv ==
  LuaTypeInv /\ AnswerEnds /\ ReplyInv /\ EndInv /\ MsgsInv /\ TruthInv /\ StreamInv

LEMMA LuaInvInit == Init => LuaInv
<1> SUFFICES ASSUME Init PROVE LuaInv
  OBVIOUS
<1>1. LuaTypeInv
  BY LuaTypeInit
<1>2. /\ accepted = <<>> /\ sent = <<>> /\ heard = <<>> /\ nheard = 0
      /\ closing = "none" /\ ended = "none"
  BY DEF Init, ServiceInit, Writer!Init, Client!ClientInit
<1>3. DOMAIN heard = {} /\ accepted \in Seq(Nat) /\ sent \in Seq(Nat)
  BY <1>2
<1>4. client = "new" /\ reads = "no" /\ queue = "empty"
  BY DEF Init, Client!ClientInit
<1>5. AnswerEnds /\ ReplyInv
  BY <1>2, <1>3 DEF AnswerEnds, ReplyInv
<1>6. EndInv /\ MsgsInv /\ TruthInv /\ StreamInv
  BY <1>2, <1>3, <1>4 DEF EndInv, MsgsInv, TruthInv, StreamInv, Heard1
<1> QED BY <1>1, <1>5, <1>6 DEF LuaInv

\* A status that went out, and what was accepted and sent before it, stay.
LEMMA LuaServerStep ==
  ASSUME LuaInv, ServiceStep, UNCHANGED <<kind, wire, dead, clientVars>>
  PROVE  AnswerEnds' /\ ReplyInv' /\ EndInv' /\ MsgsInv' /\ TruthInv' /\ StreamInv'
<1>1. /\ AnswerEnds'
      /\ ended # "none" => UNCHANGED <<accepted, sent, closing, ended>>
  <2>1. CASE UNCHANGED answer
    BY <2>1 DEF answer, LuaInv, AnswerEnds
  <2>2. ASSUME NEW msgs \in Answers, NEW st \in {"ok", "error"}, SendReply(msgs, st)
        PROVE  /\ AnswerEnds'
               /\ ended # "none" => UNCHANGED <<accepted, sent, closing, ended>>
    <3>1. msgs \in Seq(Nat)
      <4>1. CASE msgs = <<>>
        BY <4>1
      <4>2. CASE msgs = <<1>>
        BY <4>2
      <4> QED BY <2>2, <4>1, <4>2 DEF Answers
    <3>2. ended = "none" /\ closing' = st
      BY <2>2 DEF SendReply, LuaInv, AnswerEnds
    <3>3. \/ accepted' = msgs /\ sent' = msgs /\ ended' = st
          \/ UNCHANGED <<accepted, sent, ended>>
      BY <2>2 DEF SendReply
    <3> QED BY <3>1, <3>2, <3>3 DEF LuaInv, AnswerEnds
  <2>3. ASSUME Writer!Accept(Len(accepted) + 1) PROVE \E m \in Nat : Writer!Accept(m)
    BY <2>3, LenProperties DEF LuaInv, AnswerEnds
  <2> QED BY <2>1, <2>2, <2>3, AnswerChanges, AnswerStep DEF Answers, LuaInv
<1>2. UNCHANGED <<kind, sync, client, given, nheard, bad, heard, reads, queue, dead, half_closed>>
  BY DEF clientVars, wire
<1>3. /\ ReplyInv'
      /\ ~ServerStreaming /\ closing # "none" => UNCHANGED <<accepted, closing>>
  <2>1. CASE ServerStreaming
    BY <1>2, <2>1 DEF ReplyInv, ServerStreaming
  <2>2. CASE UNCHANGED answer
    BY <1>2, <2>2 DEF answer, LuaInv, ReplyInv, ServerStreaming
  <2>3. ASSUME NEW msgs \in Answers, NEW st, SendReply(msgs, st),
               msgs # <<>> => st = "ok"
        PROVE  /\ ReplyInv'
               /\ closing # "none" => UNCHANGED <<accepted, closing>>
    <3>1. /\ ~ServerStreaming /\ closing = "none" /\ closing' = st
          /\ (accepted' = msgs /\ sent' = msgs) \/ UNCHANGED <<accepted, sent>>
      BY <2>3 DEF SendReply
    <3>2. accepted = <<>> /\ sent = <<>>
      BY <3>1 DEF LuaInv, ReplyInv
    <3> QED BY <2>3, <3>1, <3>2 DEF Answers, ReplyInv
  <2>4. CASE SendReply(<<1>>, "ok")
    BY <2>3, <2>4 DEF Answers
  <2>5. CASE SendReply(<<>>, "ok")
    BY <2>3, <2>5 DEF Answers
  <2>6. CASE SendReply(<<>>, "error")
    BY <2>3, <2>6 DEF Answers
  <2> QED BY <2>1, <2>2, <2>4, <2>5, <2>6, AnswerChanges
<1>4. EndInv'
  BY <1>1, <1>2 DEF LuaInv, EndInv, IsEnd
<1>5. MsgsInv'
  BY <1>2 DEF LuaInv, MsgsInv, Heard1, Client!OneAnswer
<1>6. TruthInv'
  <2>1. Heard1(<<"end", "table">>)' =>
          ~ServerStreaming' /\ accepted' = <<1>> /\ closing' = "ok"
    BY <1>2, <1>3 DEF LuaInv, TruthInv, Heard1, ServerStreaming
  <2>2. Heard1(<<"end", "ok">>)' =>
          /\ ~sync' /\ ~Client!OneAnswer' /\ client' = "over"
          /\ (ended' = "ok" /\ nheard' = Len(sent')) \/ (kind' = "bidi" /\ dead')
    BY <1>1, <1>2 DEF LuaInv, TruthInv, Heard1, Client!OneAnswer
  <2> QED BY <2>1, <2>2 DEF TruthInv
<1>7. StreamInv'
  <2>1. ServerStreaming => closing' \in {closing, "ok"}
    <3>1. CASE UNCHANGED answer
      BY <3>1 DEF answer
    <3>2. ServerStreaming => ~SendReply(<<1>>, "ok") /\ ~SendReply(<<>>, "ok") /\ ~SendReply(<<>>, "error")
      BY DEF SendReply
    <3>3. CASE \/ Len(accepted) < MaxMsgs /\ Writer!Accept(Len(accepted) + 1)
               \/ Writer!Send \/ Writer!End \/ Writer!Break \/ Writer!Close("ok")
      BY <3>3 DEF Writer!Accept, Writer!Send, Writer!End, Writer!Break, Writer!Close
    <3> QED BY <3>1, <3>2, <3>3, AnswerChanges
  <2>2. ServerStreaming' => closing' # "error"
    BY <1>2, <2>1 DEF LuaInv, StreamInv, ServerStreaming
  <2> QED BY <1>1, <1>2, <2>2 DEF LuaInv, StreamInv, Client!AsyncBidi
<1> QED BY <1>1, <1>3, <1>4, <1>5, <1>6, <1>7

\* What is heard anew is behind all that was heard.
LEMMA HearsMore ==
  ASSUME TypeOK, NEW x, heard' = Append(heard, x)
  PROVE  /\ Len(heard') = Len(heard) + 1 /\ DOMAIN heard' = 1 .. Len(heard) + 1
         /\ DOMAIN heard = 1 .. Len(heard) /\ Len(heard) \in Nat
         /\ heard'[Len(heard) + 1] = x
         /\ \A j \in DOMAIN heard : heard'[j] = heard[j]
         /\ \A y : Heard1(y)' <=> Heard1(y) \/ y = x
<1>1. heard \in Seq(Client!Heard)
  BY DEF TypeOK, Client!ClientTypeOK
<1>2. heard \in Seq(Client!Heard \cup {x}) /\ x \in Client!Heard \cup {x}
  BY <1>1, SeqMonotonic
<1> QED BY <1>2, AppendProperties, LenProperties DEF Heard1

\* What can be told at the end, and when nothing is.
LEMMA TableEnds ==
  ASSUME NEW st \in {"ok", "error"}, "table" \in Client!EndsWith(st)
  PROVE  Client!OneAnswer /\ st = "ok"
  BY DEF Client!EndsWith, Client!OneAnswer, Client!SyncRequestEnds, Client!AsyncRequestEnds,
         Client!SyncWriterEnds, Client!AsyncWriterEnds, Client!StreamEnds

LEMMA OkEnds ==
  ASSUME NEW st \in {"ok", "error"}, "ok" \in Client!EndsWith(st)
  PROVE  ~sync /\ ~Client!OneAnswer /\ st = "ok"
  BY DEF Client!EndsWith, Client!OneAnswer, Client!SyncRequestEnds, Client!AsyncRequestEnds,
         Client!SyncWriterEnds, Client!AsyncWriterEnds, Client!StreamEnds

LEMMA NothingEnds ==
  ASSUME NEW st \in {"ok", "error"}, Client!EndsWith(st) = {}, ~sync, "end" \in given
  PROVE  kind = "simple" /\ st = "ok" /\ ("msg" \notin given \/ 1 \in bad)
  BY DEF Client!EndsWith, Client!AsyncRequestEnds, Client!AsyncWriterEnds, Client!StreamEnds

\* A step in which the user hears nothing.
LEMMA LuaQuiet ==
  ASSUME LuaInv, UNCHANGED <<kind, sync, service, nheard, bad, heard>>,
         given' = given \/ (Client!OneAnswer /\ client # "over"),
         client' = client \/ (client # "over" /\ (sync \/ client' # "over")),
         dead' = TRUE \/ dead' = dead
  PROVE  EndInv' /\ MsgsInv' /\ TruthInv'
<1> USE DEF LuaInv
<1>1. UNCHANGED <<accepted, sent, closing, ended>>
  BY DEF service, answer
<1>2. EndInv'
  BY <1>1 DEF EndInv, IsEnd
<1>3. MsgsInv'
  BY <1>1 DEF MsgsInv, Heard1, Client!OneAnswer
<1>4. TruthInv'
  <2>1. client' = client \/ ~Heard1(<<"end", "ok">>)
    BY DEF TruthInv
  <2>2. Heard1(<<"end", "ok">>)' <=> Heard1(<<"end", "ok">>)
    BY DEF Heard1
  <2>3. Heard1(<<"end", "table">>)' <=> Heard1(<<"end", "table">>)
    BY DEF Heard1
  <2> QED BY <1>1, <2>1, <2>2, <2>3 DEF TruthInv, Client!OneAnswer, ServerStreaming
<1> QED BY <1>2, <1>3, <1>4

LEMMA LuaHearsMsg ==
  ASSUME LuaInv, Client!read_one \/ Client!on_msg_str, UNCHANGED <<kind, sync, service>>
  PROVE  EndInv' /\ MsgsInv' /\ TruthInv'
<1> USE DEF LuaInv
<1>1. /\ client = "open" /\ ~Client!OneAnswer /\ nheard' = nheard + 1
      /\ client' \in {"open", "lost"} /\ UNCHANGED <<given, bad>>
  BY TakesOne
<1>2. UNCHANGED <<accepted, sent, closing, ended>>
  BY DEF service, answer
<1>3. /\ \A j \in DOMAIN heard : ~IsEnd(j)
      /\ ~Heard1(<<"end", "ok">>)
  BY <1>1 DEF EndInv, TruthInv
<1>4. nheard \in Nat /\ kind \in Kinds
  BY LuaServiceAssumption DEF LuaTypeInv, TypeOK, ServiceTypeOK, Client!ClientTypeOK
<1>7. ~sync => \/ "msg" \in given /\ nheard + 1 \notin bad /\ heard' = Append(heard, <<"msg", nheard + 1>>)
               \/ ("msg" \notin given \/ nheard + 1 \in bad) /\ heard' = heard
  BY <1>1 DEF Client!read_one, Client!on_msg_str, Client!Hears
<1>9. \A x : Append(heard, x) # heard
  <2> TAKE x
  <2>1. heard \in Seq(Client!Heard \cup {x}) /\ x \in Client!Heard \cup {x}
    BY SeqMonotonic DEF LuaTypeInv, TypeOK, Client!ClientTypeOK
  <2>2. Len(Append(heard, x)) = Len(heard) + 1 /\ Len(heard) \in Nat
    BY <2>1, AppendProperties, LenProperties
  <2> QED BY <2>2
<1>8. kind' = kind /\ sync' = sync
  OBVIOUS
<1>5. CASE heard' = heard
  <2>1. EndInv' /\ TruthInv'
    BY <1>1, <1>2, <1>3, <1>5 DEF EndInv, TruthInv, IsEnd, Heard1, Client!OneAnswer, ServerStreaming
  <2>2. \A y : Heard1(y)' <=> Heard1(y)
    BY <1>5 DEF Heard1
  <2>3. ~sync /\ "msg" \in given => nheard + 1 \in bad
    BY <1>1, <1>5, <1>7, <1>9
  <2>4. MsgsInv'
    BY <1>1, <1>4, <1>8, <2>2, <2>3 DEF MsgsInv, Client!OneAnswer
  <2> QED BY <2>1, <2>4
<1>6. ASSUME NEW x, x = <<"nil">> \/ x = <<"msg", nheard + 1>>, heard' = Append(heard, x)
      PROVE  EndInv' /\ MsgsInv' /\ TruthInv'
  <2>1. x[1] # "end"
    BY <1>6
  <2>2. /\ DOMAIN heard' = 1 .. Len(heard) + 1 /\ DOMAIN heard = 1 .. Len(heard)
        /\ Len(heard) \in Nat /\ heard'[Len(heard) + 1] = x
        /\ \A j \in DOMAIN heard : heard'[j] = heard[j]
        /\ \A y : Heard1(y)' <=> Heard1(y) \/ y = x
    BY <1>6, HearsMore DEF LuaTypeInv
  <2>3. EndInv'
    <3>1. \A j \in DOMAIN heard' : ~IsEnd(j)'
      <4> SUFFICES ASSUME NEW j \in DOMAIN heard' PROVE heard'[j][1] # "end"
        BY DEF IsEnd
      <4>1. CASE j = Len(heard) + 1
        BY <2>1, <2>2, <4>1
      <4>2. CASE j \in DOMAIN heard
        BY <1>3, <2>2, <4>2 DEF IsEnd
      <4> QED BY <2>2, <4>1, <4>2
    <3> QED BY <1>1, <3>1 DEF EndInv
  <2>4. TruthInv'
    <3>1. /\ Heard1(<<"end", "ok">>)' <=> Heard1(<<"end", "ok">>)
          /\ Heard1(<<"end", "table">>)' <=> Heard1(<<"end", "table">>)
      BY <2>1, <2>2
    <3> QED BY <1>2, <1>3, <3>1 DEF TruthInv, ServerStreaming
  <2>5. ~sync /\ "msg" \in given => nheard + 1 \notin bad /\ x = <<"msg", nheard + 1>>
    <3>1. heard' # heard
      BY <1>6, <1>9
    <3>2. ASSUME heard' = Append(heard, <<"msg", nheard + 1>>)
          PROVE  x = <<"msg", nheard + 1>>
      <4>1. heard'[Len(heard) + 1] = <<"msg", nheard + 1>>
        BY <3>2, HearsMore DEF LuaTypeInv
      <4> QED BY <2>2, <4>1
    <3> QED BY <1>7, <3>1, <3>2
  <2>6. MsgsInv'
    <3>1. \A i \in Nat : Heard1(<<"msg", i>>)' =>
            Heard1(<<"msg", i>>) \/ (i = nheard + 1)
      BY <1>6, <2>2
    <3>2. \A i \in Nat : Heard1(<<"msg", i>>)' => i <= nheard' /\ ~Client!OneAnswer
      BY <1>1, <1>4, <3>1 DEF MsgsInv
    <3>3. ASSUME ~sync, ~Client!OneAnswer, "msg" \in given, NEW i \in 1 .. nheard + 1
          PROVE  Heard1(<<"msg", i>>)' <=> i \notin bad
      <4>1. CASE i = nheard + 1
        BY <2>2, <2>5, <3>3, <4>1
      <4>2. CASE i \in 1 .. nheard
        BY <1>4, <2>2, <2>5, <3>3, <4>2 DEF MsgsInv
      <4> QED BY <1>4, <4>1, <4>2
    <3> QED BY <1>1, <1>8, <3>2, <3>3 DEF MsgsInv, Client!OneAnswer
  <2> QED BY <2>3, <2>4, <2>6
<1> QED BY <1>5, <1>6, TakesOne

\* What makes it right to tell a status.
IsTrue(st) ==
  st = "ok" =>
    /\ Client!OneAnswer => ended = "ok" /\ sent # <<>>
    /\ ~Client!OneAnswer => (ended = "ok" /\ nheard = Len(sent)) \/ (kind = "bidi" /\ dead)

LEMMA LuaHearsEnd ==
  ASSUME LuaInv, NEW st \in {"ok", "error"}, IsTrue(st), Client!Tells(st),
         client # "over", client' = "over",
         nheard' = IF Client!OneAnswer THEN Len(sent) ELSE nheard,
         UNCHANGED <<kind, sync, service, given, bad, dead>>
  PROVE  EndInv' /\ MsgsInv' /\ TruthInv'
<1> USE DEF LuaInv
<1>1. \/ Client!EndsWith(st) = {} /\ heard' = heard
      \/ \E r \in Client!EndsWith(st) : heard' = Append(heard, <<"end", r>>)
  BY DEF Client!Tells, Client!Hears
<1>2. UNCHANGED <<kind, sync, accepted, sent, closing, ended>>
  BY DEF service, answer
<1>3. /\ \A j \in DOMAIN heard : ~IsEnd(j)
      /\ ~Heard1(<<"end", "ok">>)
  BY DEF EndInv, TruthInv
<1>5. \A i \in Nat : Heard1(<<"msg", i>>)' <=> Heard1(<<"msg", i>>)
  <2>1. CASE heard' = heard
    BY <2>1 DEF Heard1
  <2>2. ASSUME NEW r, heard' = Append(heard, <<"end", r>>)
        PROVE  \A i \in Nat : Heard1(<<"msg", i>>)' <=> Heard1(<<"msg", i>>)
    <3>1. \A y : Heard1(y)' <=> Heard1(y) \/ y = <<"end", r>>
      BY <2>2, HearsMore DEF LuaTypeInv
    <3> QED BY <3>1
  <2> QED BY <1>1, <2>1, <2>2
<1>6. MsgsInv'
  <2>1. \A i \in Nat : Heard1(<<"msg", i>>)' => i <= nheard' /\ ~Client!OneAnswer
    BY <1>1, <1>5 DEF MsgsInv
  <2>2. nheard \in Nat
    BY LuaServiceAssumption DEF LuaTypeInv, TypeOK, Client!ClientTypeOK
  <2> QED BY <1>1, <1>2, <1>5, <2>1, <2>2 DEF MsgsInv, Client!OneAnswer
<1>7. CASE Client!EndsWith(st) = {} /\ heard' = heard
  <2>1. EndInv'
    BY <1>1, <1>2, <1>3, <1>7, NothingEnds DEF EndInv, IsEnd, IsTrue, Client!OneAnswer
  <2>2. TruthInv'
    BY <1>2, <1>3, <1>7 DEF TruthInv, Heard1, ServerStreaming
  <2> QED BY <2>1, <2>2, <1>6
<1>8. ASSUME NEW r \in Client!EndsWith(st), heard' = Append(heard, <<"end", r>>)
      PROVE  EndInv' /\ TruthInv'
  <2>1. /\ Len(heard') = Len(heard) + 1
        /\ DOMAIN heard' = 1 .. Len(heard) + 1 /\ DOMAIN heard = 1 .. Len(heard)
        /\ Len(heard) \in Nat /\ heard'[Len(heard) + 1] = <<"end", r>>
        /\ \A j \in DOMAIN heard : heard'[j] = heard[j]
        /\ \A y : Heard1(y)' <=> Heard1(y) \/ y = <<"end", r>>
    BY <1>8, HearsMore DEF LuaTypeInv
  <2>2. \A j \in DOMAIN heard' : heard'[j][1] = "end" => j = Len(heard')
    BY <1>3, <2>1 DEF IsEnd
  <2>3. Len(heard) + 1 \in DOMAIN heard' /\ heard'[Len(heard) + 1][1] = "end"
    BY <2>1
  <2>4. EndInv'
    BY <1>1, <2>2, <2>3 DEF EndInv, IsEnd
  <2>5. Heard1(<<"end", "ok">>)' =>
          /\ ~sync /\ ~Client!OneAnswer
          /\ (ended = "ok" /\ nheard = Len(sent)) \/ (kind = "bidi" /\ dead)
    BY <1>3, <2>1, OkEnds DEF IsTrue
  <2>6. Heard1(<<"end", "table">>)' =>
          ~ServerStreaming /\ accepted = <<1>> /\ closing = "ok"
    <3>1. CASE Heard1(<<"end", "table">>)
      BY <3>1 DEF TruthInv
    <3>2. CASE r = "table"
      <4>1. Client!OneAnswer /\ sent # <<>>
        BY <3>2, TableEnds DEF IsTrue
      <4>2. ~ServerStreaming
        BY <4>1 DEF Client!OneAnswer, ServerStreaming
      <4> QED BY <4>1, <4>2 DEF ReplyInv
    <3> QED BY <2>1, <3>1, <3>2
  <2>7. TruthInv'
    BY <1>1, <1>2, <2>5, <2>6 DEF TruthInv, Client!OneAnswer, ServerStreaming
  <2> QED BY <2>4, <2>7
<1> QED BY <1>1, <1>6, <1>7, <1>8

\* What a step of the client does to its reading and to the half-close.
LEMMA LuaStreamStep ==
  ASSUME LuaInv, ClientSide(Client!ClientStep)
  PROVE  StreamInv'
<1> USE DEF LuaInv
<1>1. UNCHANGED <<kind, sync, closing, ended, sent>>
  BY DEF ClientSide, service, answer
<1>2. CASE Client!Requests
  <2>1. client' = "open" /\ UNCHANGED <<reads, queue, nheard, dead>>
    BY <1>2 DEF Client!Requests, Client!sync_request, Client!async_request,
       Client!sync_request_read, Client!async_request_read, Client!sync_request_write,
       Client!async_request_write, Client!sync_request_rdwr, Client!async_request_rdwr,
       Client!Request, Client!stream
  <2> QED BY <1>1, <2>1 DEF StreamInv, ServerStreaming, Client!AsyncBidi
<1>3. CASE Client!Write \/ Client!ReadEach
  BY <1>1, <1>3 DEF StreamInv, ServerStreaming, Client!AsyncBidi, Client!Write, Client!ReadEach,
     Client!Usable, Client!own
<1>4. CASE Client!CloseWriting
  BY <1>1, <1>4 DEF StreamInv, ServerStreaming, Client!AsyncBidi, Client!CloseWriting,
     Client!Usable, Client!HalfClose
<1>5. CASE Client!Collect
  <2>1. client' = "silent" => half_closed' /\ reads = "ended"
    BY <1>5 DEF Client!Collect, Client!HalfClose, Client!Usable
  <2>2. dead => dead'
    BY <1>5 DEF Client!Collect
  <2>3. (queue' = queue \/ (queue # "empty" /\ queue' = "closing")) /\ UNCHANGED <<reads, nheard>>
    BY <1>5 DEF Client!Collect, Client!HalfClose
  <2> QED BY <1>1, <2>1, <2>2, <2>3 DEF StreamInv, ServerStreaming, Client!AsyncBidi
<1>6. CASE (Client!read_one \/ Client!on_msg_str) /\ UNCHANGED <<reads, queue, dead>>
  <2>1. client' # "silent" /\ (Client!AsyncBidi => reads = "on")
    BY <1>6 DEF Client!read_one, Client!on_msg_str, Client!TakesMsg
  <2> QED BY <1>1, <1>6, <2>1 DEF StreamInv, ServerStreaming, Client!AsyncBidi
<1>7. CASE (Client!Abort \/ Client!Finish \/ Client!Destroy) /\ UNCHANGED <<reads, queue, dead>>
  <2>1. client' # "silent"
    BY <1>7 DEF Client!Abort, Client!Finish, Client!Destroy
  <2>2. nheard' = nheard \/ ~Client!AsyncBidi
    BY <1>7 DEF Client!Abort, Client!Finish, Client!Receives, Client!Destroy
  <2> QED BY <1>1, <1>7, <2>1, <2>2 DEF StreamInv, ServerStreaming, Client!AsyncBidi
<1>8. CASE Client!ReadsEnd /\ dead' = dead
  <2>1. Client!AsyncBidi /\ reads' = "ended" /\ nheard' = nheard /\ client' # "silent"
    BY <1>8 DEF Client!ReadsEnd, Client!Over
  <2>2. (dead \/ (ended # "none" /\ nheard = Len(sent))) /\ queue' = queue
    BY <1>8 DEF Client!ReadsEnd
  <2> QED BY <1>1, <1>8, <2>1, <2>2 DEF StreamInv, ServerStreaming, Client!AsyncBidi
<1>9. CASE Client!OnSent /\ dead' = dead
  <2>1. reads' = reads /\ queue' = "empty" /\ nheard' = nheard /\ client' # "silent"
    BY <1>9 DEF Client!OnSent, Client!Over
  <2> QED BY <1>1, <1>9, <2>1 DEF StreamInv, ServerStreaming, Client!AsyncBidi
<1> QED BY <1>2, <1>3, <1>4, <1>5, <1>6, <1>7, <1>8, <1>9
    DEF ClientSide, Client!ClientStep, Client!Hear, Client!stream, Client!Destroy

LEMMA LuaInvStep == LuaInv /\ [Next]_vars => LuaInv'
<1> SUFFICES ASSUME LuaInv, [Next]_vars PROVE LuaInv'
  OBVIOUS
<1>1. LuaTypeInv'
  BY LuaTypeStep DEF LuaInv
<1>2. CASE ServerSide(ServiceStep)
  BY <1>1, <1>2, LuaServerStep DEF ServerSide, LuaInv
<1>3. CASE ClientSide(Client!ClientStep)
  <2>1. Client!ClientStep /\ UNCHANGED <<kind, sync, service>>
    BY <1>3 DEF ClientSide
  <2>2. AnswerEnds' /\ ReplyInv'
    BY <2>1 DEF service, answer, LuaInv, AnswerEnds, ReplyInv, ServerStreaming
  <2>3. EndInv' /\ MsgsInv' /\ TruthInv'
    <3>1. CASE Client!read_one \/ Client!on_msg_str
      BY <2>1, <3>1, LuaHearsMsg
    <3>2. CASE Client!Finish /\ dead' = dead
      <4>1. PICK st \in Client!Statuses :
              /\ st \in {"ok", "error"} /\ ~Client!NoResponse(st)
              /\ client = "open" /\ client' = "over" /\ Client!Tells(st)
              /\ nheard' = IF Client!OneAnswer THEN Len(sent) ELSE nheard
              /\ UNCHANGED <<given, bad>>
        BY <3>2, FinishIs DEF LuaInv, LuaTypeInv
      <4>2. IsTrue(st)
        BY <4>1 DEF Client!Statuses, Client!NoResponse, IsTrue
      <4> QED BY <2>1, <3>2, <4>1, <4>2, LuaHearsEnd
    <3>3. CASE (Client!Abort \/ Client!Destroy) /\ dead' = dead
      <4>1. /\ client = "open" /\ client' = "aborted" /\ given' = given
            /\ UNCHANGED <<nheard, bad, heard>>
        BY <3>3 DEF Client!Abort, Client!Destroy, Client!Receives
      <4> QED BY <2>1, <3>3, <4>1, LuaQuiet
    <3>4. CASE Client!Collect
      <4>1. /\ client # "over" /\ (sync \/ client' # "over")
            /\ given' = given \/ Client!OneAnswer
            /\ UNCHANGED <<nheard, bad, heard>>
            /\ dead' = TRUE \/ dead' = dead
        BY <3>4, CollectIs DEF LuaInv, LuaTypeInv
      <4> QED BY <2>1, <4>1, LuaQuiet
    <3>5. CASE /\ client' = client \/ (client # "over" /\ client' # "over")
               /\ UNCHANGED <<given, nheard, bad, heard, dead>>
      BY <2>1, <3>5, LuaQuiet
    <3>6. CASE (Client!ReadsEnd \/ Client!OnSent) /\ dead' = dead
      <4>1. /\ client \in {"open", "lost"} /\ UNCHANGED <<given, nheard, bad>>
            /\ \/ client' = client /\ heard' = heard
               \/ /\ client' = "over"
                  /\ \E st \in {"ok", "error"} :
                       /\ Client!Tells(st)
                       /\ st = "ok" /\ reads # "ended" =>
                            Client!AsyncBidi /\ (dead \/ (ended # "none" /\ nheard = Len(sent)))
        BY <3>6, BidiEnds DEF LuaInv, LuaTypeInv
      <4>2. CASE client' = client /\ heard' = heard
        BY <2>1, <3>6, <4>1, <4>2, LuaQuiet
      <4>3. ASSUME client' = "over", NEW st \in {"ok", "error"}, Client!Tells(st),
                   st = "ok" /\ reads # "ended" =>
                     Client!AsyncBidi /\ (dead \/ (ended # "none" /\ nheard = Len(sent)))
            PROVE  EndInv' /\ MsgsInv' /\ TruthInv'
        <5>1. Client!AsyncBidi
          BY <3>6 DEF LuaInv, StreamInv, Client!ReadsEnd, Client!OnSent
        <5>2. ~Client!OneAnswer
          BY <5>1 DEF Client!OneAnswer, Client!AsyncBidi
        <5>3. ended # "none" => ended = "ok"
          BY <5>1 DEF LuaInv, AnswerEnds, StreamInv, Client!AsyncBidi, ServerStreaming
        <5>4. IsTrue(st)
          BY <4>3, <5>1, <5>2, <5>3 DEF IsTrue, LuaInv, StreamInv, Client!AsyncBidi
        <5> QED BY <2>1, <3>6, <4>1, <4>3, <5>2, <5>4, LuaHearsEnd
      <4> QED BY <4>1, <4>2, <4>3
    <3> QED BY <2>1, <3>1, <3>2, <3>3, <3>4, <3>5, <3>6, ClientChanges
        DEF Client!Hear, LuaInv, LuaTypeInv
  <2>4. StreamInv'
    BY <1>3, LuaStreamStep
  <2> QED BY <1>1, <2>2, <2>3, <2>4 DEF LuaInv
<1>4. CASE Die \/ UNCHANGED vars
  <2>1. UNCHANGED <<kind, service, wire, clientVars>> /\ (dead' = TRUE \/ dead' = dead)
    BY <1>4 DEF Die, DieWith, vars
  <2>2. AnswerEnds' /\ ReplyInv'
    BY <2>1 DEF service, answer, LuaInv, AnswerEnds, ReplyInv, ServerStreaming
  <2>3. EndInv' /\ MsgsInv' /\ TruthInv'
    BY <2>1, LuaQuiet DEF clientVars
  <2>4. StreamInv'
    BY <2>1 DEF clientVars, service, answer, wire, LuaInv, StreamInv, ServerStreaming,
                Client!AsyncBidi
  <2> QED BY <1>1, <2>2, <2>3, <2>4 DEF LuaInv
<1> QED BY <1>2, <1>3, <1>4 DEF Next

LEMMA LuaInvHolds == SafeSpec => []LuaInv
  BY LuaInvInit, LuaInvStep, PTL DEF SafeSpec

\* A response table that the Lua client gets is the handler's one reply, and an OK
\* comes when the stream of the answer was read to its end, each message that could
\* be decoded having been passed on; whatever is collected, refused or raised.
THEOREM LuaOkIsTrue == SafeSpec => []OkEndToEnd
<1>1. LuaInv => OkEndToEnd
  <2> SUFFICES ASSUME LuaInv PROVE OkEndToEnd
    OBVIOUS
  <2>1. \A x : x \in {heard[i] : i \in DOMAIN heard} <=> Heard1(x)
    BY DEF Heard1
  <2>2. HeardEnd("table") => accepted = <<1>> /\ closing = "ok"
    BY <2>1 DEF HeardEnd, LuaInv, TruthInv
  <2>3. ASSUME HeardEnd("ok")
        PROVE  /\ (closing = "ok" /\ nheard = Len(accepted)) \/ (kind = "bidi" /\ dead)
               /\ ~sync /\ ~Client!OneAnswer
    BY <2>1, <2>3 DEF HeardEnd, LuaInv, TruthInv, AnswerEnds
  <2>4. ASSUME HeardEnd("ok"), "msg" \in given
        PROVE  {i \in 1 .. MaxMsgs : <<"msg", i>> \in {heard[j] : j \in DOMAIN heard}}
                 = (1 .. nheard) \ bad
    <3>1. \A i \in 1 .. nheard : Heard1(<<"msg", i>>) <=> i \notin bad
      BY <2>3, <2>4 DEF LuaInv, MsgsInv
    <3>2. \A i \in 1 .. MaxMsgs : Heard1(<<"msg", i>>) => i \in 1 .. nheard
      BY DEF LuaInv, MsgsInv, LuaTypeInv, TypeOK, Client!ClientTypeOK
    <3>3. 1 .. nheard \subseteq 1 .. MaxMsgs
      BY LuaServiceAssumption DEF LuaInv, LuaTypeInv, TypeOK, Client!ClientTypeOK
    <3> QED BY <2>1, <3>1, <3>2, <3>3
  <2> QED BY <2>2, <2>3, <2>4 DEF OkEndToEnd
<1> QED BY <1>1, LuaInvHolds, PTL

\* The user of the Lua client hears of the end once, behind everything else.
THEOREM LuaEndHeardOnce == SafeSpec => []EndHeardOnce
<1>1. LuaInv => EndHeardOnce
  BY DEF LuaInv, EndInv, IsEnd, StreamInv, Client!AsyncBidi, EndHeardOnce
<1> QED BY <1>1, LuaInvHolds, PTL
===============================================================================
