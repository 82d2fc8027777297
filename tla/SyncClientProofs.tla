---------------------------- MODULE SyncClientProofs ----------------------------
(* Proofs about SyncClient for any number of messages, with batches that may *)
(* or may not be refused.                                                    *)
EXTENDS SyncClient, SequenceTheorems, TLAPS

-------------------------------------------------------------------------------
(* The invariants. *)

\* What was started follows from what the client remembers.
InUse ==
  /\ at = "new" => used = {}
  /\ kind = "rdwr" /\ HalfClosed => writing_closed_
  /\ kind = "rdwr" /\ "recv_initial_metadata" \in used => init_md_received_
  /\ kind = "writer" /\ (HalfClosed \/ "recv_initial_metadata" \in used)
       => "recv_status_on_client" \in used
  /\ BatchesAccepted

\* Which client waits for what, and why ReadOne() will not read again.
Turn ==
  /\ at \in {"init_md", "read", "status"} => Streams
  /\ at = "close" => OneAnswer /\ RecvMsg \subseteq used
  /\ stopped => Streams /\ (eof \/ (status # "ok" /\ at \notin {"init_md", "read"}))

\* What the handler's stream promises.
HandlerInv ==
  /\ ended # "none" => ended = closing /\ sent = accepted
  /\ OneAnswer => Len(accepted) <= 1

Truth ==
  /\ OkIsTrue /\ AssertsHold
  /\ asserted => OneAnswer
  /\ lost => dead /\ ended = "none"

SyncInv == TypeOK /\ InUse /\ Turn /\ HandlerInv /\ Truth

-------------------------------------------------------------------------------
(* Types. *)

LEMMA TagTypes ==
  /\ {ClientSendInitMdTag, ClientSendMsgTag, ClientSendCloseTag, ClientRecvInitMdTag,
      ClientReaderReadTag, ClientReaderRecvStatusTag, ClientReaderInitTag,
      ClientWriterCloseTag} \subseteq SUBSET ClientCallTag
  BY DEF ClientSendInitMdTag, ClientSendMsgTag, ClientSendCloseTag, ClientRecvInitMdTag,
         ClientReaderReadTag, ClientReaderRecvStatusTag, ClientReaderInitTag,
         ClientWriterCloseTag, ClientCallTag

LEMMA StartTypes ==
  ASSUME TypeOK, NEW ops \in SUBSET ClientCallTag, NEW wait \in Waits, Starts(ops, wait)
  PROVE  /\ used' \in SUBSET ClientCallTag /\ at' \in Waits \cup {"idle"}
         /\ status' \in {"ok", "error", "internal", "user"} /\ refused' \in BOOLEAN
  BY DEF TypeOK, Starts, Takes, Refuses, IsRefused

LEMMA HandlerTypes ==
  ASSUME TypeOK, HandlerStep PROVE Handler!TypeOK'
<1>1. Handler!TypeOK
  BY DEF TypeOK
<1>2. ASSUME NEW m \in 1 .. MaxMsgs, Handler!Accept(m) PROVE Handler!TypeOK'
  <2>1. accepted' \in Seq(1 .. MaxMsgs)
    BY <1>1, <1>2, AppendProperties DEF Handler!TypeOK, Handler!Accept
  <2>. QED  BY <1>1, <1>2, <2>1 DEF Handler!TypeOK, Handler!Accept
<1>3. CASE Handler!Send
  <2>1. accepted[Len(sent) + 1] \in 1 .. MaxMsgs
    <3>1. accepted \in Seq(1 .. MaxMsgs) /\ Len(sent) \in Nat /\ Len(sent) < Len(accepted)
      BY <1>1, <1>3, LenProperties DEF Handler!TypeOK, Handler!Send
    <3>2. Len(sent) + 1 \in 1 .. Len(accepted)
      BY <3>1, LenProperties
    <3>. QED  BY <3>1, <3>2, ElementOfSeq
  <2>2. sent' \in Seq(1 .. MaxMsgs)
    BY <1>1, <1>3, <2>1, AppendProperties DEF Handler!TypeOK, Handler!Send
  <2>. QED  BY <1>1, <1>3, <2>2 DEF Handler!TypeOK, Handler!Send
<1>4. ASSUME NEW s \in {"ok", "error"}, Handler!Close(s) PROVE Handler!TypeOK'
  BY <1>1, <1>4 DEF Handler!TypeOK, Handler!Close
<1>5. CASE Handler!End \/ Handler!Break
  BY <1>1, <1>5 DEF Handler!TypeOK, Handler!End, Handler!Break
<1>. QED  BY <1>2, <1>3, <1>4, <1>5 DEF HandlerStep

LEMMA TypeStep ==
  ASSUME TypeOK, [Next]_vars PROVE TypeOK'
<1>. USE SyncAssumption
<1>1. ASSUME UserStep \/ OnEvent, UNCHANGED <<kind, deadline, handler, dead>>
      PROVE  TypeOK'
  <2>1. Handler!TypeOK'
    BY <1>1 DEF TypeOK, Handler!TypeOK, handler
  <2>2. /\ used' \in SUBSET ClientCallTag /\ at' \in Waits \cup {"new", "idle", "gone"}
        /\ status' \in {"ok", "error", "internal", "user"} /\ refused' \in BOOLEAN
    <3>1. CASE NewReader \/ NewWriter \/ NewReaderWriter
      BY <3>1, StartTypes, TagTypes DEF NewReader, NewWriter, NewReaderWriter, New, Waits
    <3>2. CASE Write \/ CloseWriting \/ ReadOne \/ Close
      BY <3>2, StartTypes, TagTypes DEF Write, CloseWriting, ReadOne, StartRead, Close, Waits, TypeOK
    <3>3. CASE SyncRequest \/ RecvStatus \/ SetErrorStatus
      BY <3>3, TagTypes
      DEF SyncRequest, RecvStatus, SetErrorStatus, Takes, Refuses, IsRefused, Waits, TypeOK
    <3>4. CASE OnEvent
      BY <3>4, StartTypes, TagTypes
      DEF OnEvent, OnStart, OnWrite, OnCloseWriting, OnInitMd, OnRead, OnStatus, OnClose,
          StartRead, Idle, Answer, AnswerStatus, Waits, TypeOK, Handler!TypeOK
    <3>. QED  BY <1>1, <3>1, <3>2, <3>3, <3>4 DEF UserStep
  <2>3. /\ {writing_closed_, init_md_received_, stopped, repeated, eof, asserted, lost}' \subseteq BOOLEAN
        /\ last' \in {"none", "ok", "error", "internal", "user"}
        /\ {received, nread}' \subseteq Nat
    <3>1. CASE NewReader \/ NewWriter \/ NewReaderWriter \/ SyncRequest
      BY <3>1 DEF NewReader, NewWriter, NewReaderWriter, New, SyncRequest, Unread, Unchecked, Returned, TypeOK
    <3>2. CASE Write \/ CloseWriting \/ ReadOne
      BY <3>2 DEF Write, CloseWriting, ReadOne, StartRead, Unread, Unchecked, TypeOK
    <3>3. CASE RecvStatus \/ SetErrorStatus \/ Close
      BY <3>3 DEF RecvStatus, SetErrorStatus, Close, Unread, Unchecked, Returned, TypeOK
    <3>4. CASE OnStart \/ OnCloseWriting \/ OnInitMd
      BY <3>4 DEF OnStart, OnCloseWriting, OnInitMd, StartRead, Unread, Unchecked, TypeOK
    <3>5. CASE OnWrite
      BY <3>5 DEF OnWrite, TypeOK
    <3>6. CASE OnRead
      <4>1. nread \in Nat /\ nread' \in {nread, nread + 1}
        BY <3>6 DEF OnRead, TypeOK
      <4>2. eof' \in {eof, TRUE} /\ stopped' \in {stopped, TRUE}
        BY <3>6 DEF OnRead
      <4>3. UNCHANGED <<writing_closed_, init_md_received_, repeated, asserted, lost, last, received>>
        BY <3>6 DEF OnRead, Unchecked
      <4>4. nread' \in Nat
        BY <4>1
      <4>5. eof \in BOOLEAN /\ stopped \in BOOLEAN
        BY DEF TypeOK
      <4>6. eof' \in BOOLEAN /\ stopped' \in BOOLEAN
        BY <4>2, <4>5
      <4>. QED  BY <4>3, <4>4, <4>6 DEF TypeOK
    <3>7. CASE OnStatus
      BY <3>7 DEF OnStatus, Unread, Unchecked, Returned, TypeOK, Handler!TypeOK
    <3>8. CASE OnClose
      <4>1. PICK st \in {"ok", "error"}, msg \in BOOLEAN : Answer(st, msg)
        BY <3>8 DEF OnClose, TypeOK, Handler!TypeOK
      <4>2. last' \in {"ok", "error", "internal"} /\ asserted' \in BOOLEAN /\ nread' \in Nat
        BY <4>1 DEF Answer, AnswerStatus, Returned, TypeOK
      <4>. QED  BY <3>8, <4>2 DEF OnClose, TypeOK
    <3>. QED  BY <1>1, <3>1, <3>2, <3>3, <3>4, <3>5, <3>6, <3>7, <3>8 DEF UserStep, OnEvent
  <2>. QED  BY <1>1, <2>1, <2>2, <2>3 DEF TypeOK
<1>2. CASE DestroyStep
  BY <1>2 DEF TypeOK, DestroyStep, Destroy, Unread, Unchecked, handler, Handler!TypeOK
<1>3. CASE HandlerStep
  BY <1>3, HandlerTypes DEF TypeOK, HandlerStep, own
<1>4. CASE Die
  BY <1>4 DEF TypeOK, Die, own, handler, Handler!TypeOK
<1>5. CASE UNCHANGED vars
  BY <1>5 DEF TypeOK, vars, own, handler, Handler!TypeOK
<1>. QED  BY <1>1, <1>2, <1>3, <1>4, <1>5 DEF Next, ClientStep

-------------------------------------------------------------------------------
(* Batches. *)

LEMMA Refusals ==
  ASSUME NEW u
  PROVE  /\ \A ops : ~IsRefused({}, ops)
         /\ ~IsRefused(u, ClientSendMsgTag) /\ ~IsRefused(u, ClientReaderReadTag)
         /\ IsRefused(u, ClientSendCloseTag) => "send_close_from_client" \in u
         /\ IsRefused(u, ClientRecvInitMdTag) => "recv_initial_metadata" \in u
         /\ IsRefused(u, ClientReaderRecvStatusTag) => "recv_status_on_client" \in u
         /\ IsRefused(u, ClientWriterCloseTag) =>
              \/ "send_close_from_client" \in u \/ "recv_initial_metadata" \in u
              \/ "recv_status_on_client" \in u
         /\ ClientRecvStatus \subseteq u <=> "recv_status_on_client" \in u
  BY DEF IsRefused, Repeatable, ClientSendMsgTag, ClientReaderReadTag, ClientSendCloseTag,
         ClientRecvInitMdTag, ClientReaderRecvStatusTag, ClientWriterCloseTag, SendMsg, RecvMsg,
         ClientSendClose, RecvInitMd, ClientRecvStatus

LEMMA Contents ==
  /\ \A op \in {"send_close_from_client", "recv_initial_metadata"} :
       /\ op \notin ClientSendInitMdTag /\ op \notin ClientSendMsgTag
       /\ op \notin ClientReaderReadTag /\ op \notin ClientReaderRecvStatusTag
  /\ "recv_initial_metadata" \notin ClientSendCloseTag
  /\ "send_close_from_client" \notin ClientRecvInitMdTag
  /\ "recv_status_on_client" \in ClientWriterCloseTag
  BY DEF ClientSendInitMdTag, ClientSendMsgTag, ClientReaderReadTag, ClientReaderRecvStatusTag,
         ClientSendCloseTag, ClientRecvInitMdTag, ClientWriterCloseTag, SendInitMd, SendMsg,
         RecvMsg, ClientSendClose, RecvInitMd, ClientRecvStatus

\* A start puts its operations into use, or none; it records a refusal.
LEMMA StartUses ==
  ASSUME TypeOK, NEW ops, NEW wait, Starts(ops, wait)
  PROVE  /\ used' \in {used, used \cup ops}
         /\ refused' => refused \/ IsRefused(used, ops)
         /\ at' \in {"idle", wait}
<1>1. refused \in BOOLEAN /\ IsRefused(used, ops) \in BOOLEAN
  BY DEF TypeOK, IsRefused
<1>. QED  BY <1>1 DEF Starts, Takes, Refuses

LEMMA InUseStep ==
  ASSUME TypeOK, InUse, Turn, [Next]_vars PROVE InUse'
<1>. USE DEF InUse, BatchesAccepted, HalfClosed
<1>1. ASSUME UNCHANGED <<kind, own>> PROVE InUse'
  BY <1>1 DEF own
<1>2. ASSUME ClientStep PROVE InUse'
  <2>1. kind' = kind
    BY <1>2 DEF ClientStep
  <2>2. ASSUME NEW k, NEW tag, New(k, tag), k = "reader" \/ tag = ClientSendInitMdTag
        PROVE  InUse'
    <3>1. used = {} /\ ~IsRefused(used, tag) /\ kind = k
      BY <2>2, Refusals DEF New
    <3>2. used' \in {{}, tag} /\ (refused' => refused) /\ at' # "new"
      BY <2>2, <3>1, StartUses DEF New
    <3>3. UNCHANGED <<repeated, writing_closed_, init_md_received_>>
      BY <2>2 DEF New, Unchecked
    <3>. QED  BY <2>1, <2>2, <3>1, <3>2, <3>3, Contents
  <2>3. CASE NewReader \/ NewWriter \/ NewReaderWriter
    BY <2>2, <2>3 DEF NewReader, NewWriter, NewReaderWriter
  <2>4. CASE SyncRequest
    <3>1. used = {} /\ ~IsRefused(used, ClientCallTag) /\ kind = "request"
      BY <2>4, Refusals DEF SyncRequest
    <3>2. (refused' => refused) /\ at' # "new" /\ repeated' = repeated
      <4>1. refused \in BOOLEAN /\ IsRefused(used, ClientCallTag) = FALSE
        BY <3>1 DEF TypeOK, IsRefused
      <4>. QED  BY <2>4, <4>1 DEF SyncRequest, Takes, Refuses
    <3>. QED  BY <2>1, <3>1, <3>2
  <2>5. CASE Write
    <3>1. /\ used' \in {used, used \cup ClientSendMsgTag} /\ (refused' => refused) /\ at' # "new"
      BY <2>5, StartUses, Refusals DEF Write
    <3>2. UNCHANGED <<repeated, writing_closed_, init_md_received_>>
      BY <2>5 DEF Write, Unchecked
    <3>3. kind \in {"writer", "rdwr"}
      BY <2>5 DEF Write
    <3>4. /\ HalfClosed' => HalfClosed
          /\ "recv_initial_metadata" \in used' => "recv_initial_metadata" \in used
          /\ "recv_status_on_client" \in used => "recv_status_on_client" \in used'
      BY <3>1, Contents
    <3>. QED  BY <2>1, <3>1, <3>2, <3>4
  <2>6. CASE CloseWriting
    <3>1. /\ used' \in {used, used \cup ClientSendCloseTag} /\ at' # "new"
          /\ refused' => refused \/ IsRefused(used, ClientSendCloseTag)
      BY <2>6, StartUses DEF CloseWriting
    <3>2. /\ UNCHANGED <<repeated, init_md_received_>> /\ kind = "rdwr"
          /\ ~writing_closed_ /\ writing_closed_'
      BY <2>6 DEF CloseWriting
    <3>3. "recv_initial_metadata" \in used' => "recv_initial_metadata" \in used
      BY <3>1, Contents
    <3>. QED  BY <2>1, <3>1, <3>2, <3>3, Refusals
  <2>7. CASE ReadOne /\ kind = "rdwr" /\ ~init_md_received_ /\ ReadsOn
    <3>1. /\ used' \in {used, used \cup ClientRecvInitMdTag} /\ at' # "new"
          /\ refused' => refused \/ IsRefused(used, ClientRecvInitMdTag)
      BY <2>7, StartUses DEF ReadOne
    <3>2. UNCHANGED <<repeated, writing_closed_>> /\ init_md_received_'
      BY <2>7 DEF ReadOne
    <3>3. HalfClosed' => HalfClosed
      BY <3>1, Contents
    <3>. QED  BY <2>1, <2>7, <3>1, <3>2, <3>3, Refusals
  <2>8. CASE OnInitMd \/ (ReadOne /\ ~(kind = "rdwr" /\ ~init_md_received_ /\ ReadsOn))
    <3>1. /\ used' \in {used, used \cup ClientReaderReadTag} /\ (refused' => refused)
          /\ at' # "new"
      BY <2>8, StartUses, Refusals DEF OnInitMd, ReadOne, StartRead
    <3>2. UNCHANGED <<repeated, writing_closed_, init_md_received_>>
      BY <2>8 DEF OnInitMd, ReadOne, Unchecked
    <3>3. kind \in {"reader", "rdwr"}
      BY <2>8 DEF OnInitMd, ReadOne, Turn, Streams
    <3>4. /\ HalfClosed' => HalfClosed
          /\ "recv_initial_metadata" \in used' => "recv_initial_metadata" \in used
      BY <3>1, Contents
    <3>. QED  BY <2>1, <3>1, <3>2, <3>3, <3>4
  <2>9. CASE RecvStatus
    <3>1. CASE status # "ok"
      BY <2>1, <2>9, <3>1 DEF RecvStatus, Unchecked
    <3>2. CASE status = "ok"
      <4>1. /\ used' \in {used, used \cup ClientReaderRecvStatusTag} /\ at' # "new"
            /\ refused' => refused \/ IsRefused(used, ClientReaderRecvStatusTag)
        BY <2>9, <3>2 DEF RecvStatus, Takes, Refuses
      <4>2. UNCHANGED <<writing_closed_, init_md_received_>>
        BY <2>9 DEF RecvStatus, Unchecked
      <4>3. repeated' = (repeated \/ "recv_status_on_client" \in used)
        BY <2>9, <3>2, Refusals DEF RecvStatus
      <4>4. kind \in {"reader", "rdwr"}
        BY <2>9 DEF RecvStatus, Streams
      <4>5. /\ HalfClosed' => HalfClosed
            /\ "recv_initial_metadata" \in used' => "recv_initial_metadata" \in used
        BY <4>1, Contents
      <4>. QED  BY <2>1, <4>1, <4>2, <4>3, <4>4, <4>5, Refusals
    <3>. QED  BY <3>1, <3>2
  <2>10. CASE Close
    <3>1. CASE status # "ok"
      BY <2>1, <2>10, <3>1 DEF Close, Unchecked
    <3>2. CASE status = "ok"
      <4>1. /\ used' \in {used, used \cup ClientWriterCloseTag} /\ at' # "new"
            /\ refused' => refused \/ IsRefused(used, ClientWriterCloseTag)
        BY <2>10, <3>2, StartUses DEF Close
      <4>2. repeated' = (repeated \/ "recv_status_on_client" \in used)
        BY <2>10, <3>2, Refusals DEF Close
      <4>3. kind = "writer"
        BY <2>10 DEF Close
      <4>. QED  BY <2>1, <4>1, <4>2, <4>3, Refusals, Contents
    <3>. QED  BY <3>1, <3>2
  <2>11. CASE SetErrorStatus \/ OnStart \/ OnWrite \/ OnCloseWriting \/ OnRead \/ OnStatus \/ OnClose
    <3>1. /\ UNCHANGED <<used, repeated, refused, writing_closed_, init_md_received_>>
          /\ at' = "idle"
      BY <2>11
      DEF SetErrorStatus, OnStart, OnWrite, OnCloseWriting, OnRead, OnStatus, OnClose, Idle, Unchecked
    <3>. QED  BY <2>1, <3>1
  <2>. QED
    BY <1>2, <2>3, <2>4, <2>5, <2>6, <2>7, <2>8, <2>9, <2>10, <2>11
    DEF ClientStep, UserStep, OnEvent
<1>3. CASE DestroyStep
  BY <1>3 DEF DestroyStep, Destroy, Unchecked
<1>. QED  BY <1>1, <1>2, <1>3 DEF Next, HandlerStep, Die, vars

-------------------------------------------------------------------------------
(* Whose turn it is. *)

LEMMA TurnStep ==
  ASSUME TypeOK, Turn, [Next]_vars PROVE Turn'
<1>. USE DEF Turn, Streams, OneAnswer
<1>1. ASSUME UNCHANGED <<kind, own>> PROVE Turn'
  BY <1>1 DEF own
<1>2. ASSUME ClientStep PROVE Turn'
  <2>1. kind' = kind
    BY <1>2 DEF ClientStep
  <2>2. CASE NewReader \/ NewWriter \/ NewReaderWriter
    BY <2>1, <2>2 DEF NewReader, NewWriter, NewReaderWriter, New, Unread, Starts, Takes, Refuses
  <2>3. CASE SyncRequest
    BY <2>1, <2>3 DEF SyncRequest, Unread, Takes, Refuses, ClientCallTag
  <2>4. CASE Write \/ CloseWriting
    BY <2>1, <2>4 DEF Write, CloseWriting, Unread, Starts, Takes, Refuses
  <2>5. CASE ReadOne
    BY <2>1, <2>5 DEF ReadOne, ReadsOn, StartRead, Starts, Takes, Refuses
  <2>6. CASE RecvStatus \/ SetErrorStatus
    BY <2>1, <2>6 DEF RecvStatus, SetErrorStatus, Unread, Takes, Refuses
  <2>7. CASE Close
    BY <2>1, <2>7 DEF Close, Unread, Starts, Takes, Refuses, ClientWriterCloseTag
  <2>8. CASE OnInitMd
    BY <2>1, <2>8 DEF OnInitMd, StartRead, Starts, Takes, Refuses
  <2>9. CASE OnStart \/ OnWrite \/ OnCloseWriting \/ OnStatus
    BY <2>1, <2>9 DEF OnStart, OnWrite, OnCloseWriting, OnStatus, Idle, Unread
  <2>10. CASE OnRead
    BY <2>1, <2>10 DEF OnRead, Idle
  <2>11. CASE OnClose
    BY <2>1, <2>11 DEF OnClose, Idle
  <2>. QED
    BY <1>2, <2>2, <2>3, <2>4, <2>5, <2>6, <2>7, <2>8, <2>9, <2>10, <2>11
    DEF ClientStep, UserStep, OnEvent
<1>3. CASE DestroyStep
  BY <1>3 DEF DestroyStep, Destroy, Unread
<1>. QED  BY <1>1, <1>2, <1>3 DEF Next, HandlerStep, Die, vars

\* Reading goes no further.
LEMMA NoMoreReads ==
  ASSUME TypeOK, Turn, Next, stopped PROVE nread' = nread
<1>1. CASE OnRead
  BY <1>1 DEF Turn, OnRead
<1>2. CASE OnClose
  BY <1>2 DEF Turn, OnClose, Streams, OneAnswer
<1>3. CASE UserStep \/ OnStart \/ OnWrite \/ OnCloseWriting \/ OnInitMd \/ OnStatus
  BY <1>3
  DEF UserStep, NewReader, NewWriter, NewReaderWriter, New, SyncRequest, Write, CloseWriting,
      ReadOne, RecvStatus, SetErrorStatus, Close, OnStart, OnWrite, OnCloseWriting, OnInitMd,
      OnStatus, Unread
<1>4. CASE DestroyStep \/ HandlerStep \/ Die \/ UNCHANGED vars
  BY <1>4 DEF DestroyStep, Destroy, HandlerStep, Die, Unread, own, vars
<1>. QED  BY <1>1, <1>2, <1>3, <1>4 DEF Next, ClientStep, OnEvent

-------------------------------------------------------------------------------
(* What the client is told. *)

LEMMA HandlerInvStep ==
  ASSUME TypeOK, HandlerInv, HandlerStep PROVE HandlerInv'
<1>. USE DEF HandlerInv, OneAnswer
<1>1. kind' = kind /\ accepted \in Seq(1 .. MaxMsgs)
  BY DEF HandlerStep, TypeOK, Handler!TypeOK
<1>2. ASSUME NEW m \in 1 .. MaxMsgs, Handler!Accept(m), m = Len(accepted) + 1, OneAnswer => m = 1
      PROVE  HandlerInv'
  <2>1. Len(accepted') = Len(accepted) + 1 /\ Len(accepted) \in Nat
    BY <1>1, <1>2, AppendProperties, LenProperties DEF Handler!Accept
  <2>. QED  BY <1>1, <1>2, <2>1 DEF Handler!Accept, Handler!Usable
<1>3. CASE Handler!Send
  BY <1>1, <1>3 DEF Handler!Send, Handler!Usable
<1>4. ASSUME NEW s \in {"ok", "error"}, Handler!Close(s) PROVE HandlerInv'
  BY <1>1, <1>4 DEF Handler!Close, Handler!Usable, TypeOK, Handler!TypeOK
<1>5. CASE Handler!End \/ Handler!Break
  BY <1>1, <1>5 DEF Handler!End, Handler!Break, Handler!Usable
<1>. QED  BY <1>2, <1>3, <1>4, <1>5 DEF HandlerStep

LEMMA TruthStep ==
  ASSUME TypeOK, Turn, HandlerInv, Truth, [Next]_vars PROVE Truth'
<1>. USE DEF Truth, OkIsTrue, AssertsHold
<1>1. ASSUME UNCHANGED <<kind, last, ended, closing, sent, accepted, lost, nread, asserted>>,
             dead => dead'
      PROVE  Truth'
  BY <1>1 DEF OneAnswer
<1>2. CASE ClientStep
  <2>1. UNCHANGED <<kind, ended, closing, sent, accepted, dead>>
    BY <1>2 DEF ClientStep, handler
  <2>2. CASE NewReader \/ NewWriter \/ NewReaderWriter \/ Write \/ CloseWriting \/ ReadOne
               \/ SetErrorStatus \/ OnStart \/ OnCloseWriting \/ OnInitMd
    <3>1. UNCHANGED <<last, lost, nread, asserted>>
      BY <2>2
      DEF NewReader, NewWriter, NewReaderWriter, New, Write, CloseWriting, ReadOne,
          SetErrorStatus, OnStart, OnCloseWriting, OnInitMd, Unread, Unchecked
    <3>. QED  BY <1>1, <2>1, <3>1
  <2>3. CASE SyncRequest \/ RecvStatus \/ Close
    <3>1. UNCHANGED <<lost, nread, asserted>>
      BY <2>3 DEF SyncRequest, RecvStatus, Close, Unread, Unchecked
    <3>2. last' = last \/ last' # "ok"
      BY <2>3 DEF SyncRequest, RecvStatus, Close, Returned
    <3>. QED  BY <2>1, <3>1, <3>2 DEF OneAnswer
  <2>4. CASE OnWrite
    <3>1. UNCHANGED <<last, nread, asserted>>
      BY <2>4 DEF OnWrite
    <3>2. lost' => lost \/ (dead /\ ended = "none")
      BY <2>4 DEF OnWrite, TypeOK
    <3>. QED  BY <2>1, <3>1, <3>2 DEF OneAnswer
  <2>5. CASE OnRead
    <3>1. UNCHANGED <<last, lost, asserted>> /\ Streams
      BY <2>5 DEF OnRead, Unchecked, Turn
    <3>2. ~asserted
      BY <3>1 DEF Streams, OneAnswer
    <3>3. last = "ok" => ended = "ok" /\ sent = accepted /\ nread = Len(accepted)
      BY <3>2
    <3>4. last = "ok" => nread' = nread
      <4>1. nread < Len(sent) \/ nread' = nread
        BY <2>5 DEF OnRead
      <4>2. nread \in Nat
        BY DEF TypeOK
      <4>. QED  BY <3>3, <4>1, <4>2
    <3>. QED  BY <2>1, <3>1, <3>2, <3>4
  <2>6. CASE OnStatus
    <3>1. UNCHANGED <<lost, nread, asserted>>
      BY <2>6 DEF OnStatus, Unread, Unchecked
    <3>2. last' = "ok" => AllRead /\ ended = "ok"
      BY <2>6 DEF OnStatus, Returned
    <3>. QED  BY <2>1, <3>1, <3>2 DEF OneAnswer, AllRead, HandlerInv
  <2>7. CASE OnClose
    <3>1. PICK st \in {"ok", "error"}, msg \in BOOLEAN :
            /\ Answer(st, msg)
            /\ st = "ok" => ended = "ok" /\ msg = (sent # <<>> /\ RecvMsg \subseteq used)
      BY <2>7 DEF OnClose, TypeOK, Handler!TypeOK
    <3>2. lost' = lost /\ at = "close"
      BY <2>7 DEF OnClose
    <3>3. OneAnswer /\ RecvMsg \subseteq used
      BY <3>2 DEF Turn
    <3>4. st = "ok" => closing = "ok" /\ sent = accepted /\ ended = "ok" /\ ~lost
      BY <3>1 DEF HandlerInv
    <3>5. asserted' => asserted \/ (st = "ok" /\ accepted = <<>>)
      BY <3>1, <3>3, <3>4 DEF Answer, TypeOK
    <3>6. last' = "ok" => st = "ok"
      BY <3>1 DEF Answer, AnswerStatus, Returned
    <3>7. st = "ok" => nread' = Len(accepted)
      <4>1. accepted \in Seq(1 .. MaxMsgs) /\ Len(accepted) <= 1
        BY <3>3 DEF HandlerInv, TypeOK, Handler!TypeOK
      <4>2. Len(accepted) \in Nat /\ (accepted = <<>> <=> Len(accepted) = 0)
        BY <4>1, LenProperties, EmptySeq
      <4>3. nread' = IF msg THEN 1 ELSE 0
        BY <3>1 DEF Answer
      <4>4. st = "ok" => msg = (accepted # <<>>)
        BY <3>1, <3>3, <3>4
      <4>5. Len(accepted) \in {0, 1}
        <5>1. \A n \in Nat : n <= 1 => n \in {0, 1}
          OBVIOUS
        <5>. QED  BY <4>1, <4>2, <5>1, Zenon
      <4>. QED  BY <4>2, <4>3, <4>4, <4>5
    <3>8. OneAnswer'
      BY <2>1, <3>3 DEF OneAnswer
    <3>. QED  BY <2>1, <3>2, <3>4, <3>5, <3>6, <3>7, <3>8
  <2>. QED
    BY <1>2, <2>2, <2>3, <2>4, <2>5, <2>6, <2>7 DEF ClientStep, UserStep, OnEvent
<1>3. CASE DestroyStep
  <2>1. UNCHANGED <<kind, last, ended, closing, sent, accepted, lost, nread, asserted>>
    BY <1>3 DEF DestroyStep, Destroy, Unread, Unchecked, handler
  <2>2. dead => dead'
    BY <1>3 DEF DestroyStep, Destroy
  <2>. QED  BY <1>1, <2>1, <2>2
<1>4. CASE HandlerStep
  <2>1. UNCHANGED <<kind, last, lost, nread, asserted, dead>>
    BY <1>4 DEF HandlerStep, own
  <2>2. dead => ended' = ended
    BY <1>4 DEF HandlerStep
  <2>3. closing # "none" => UNCHANGED <<accepted, closing>>
    BY <1>4
    DEF HandlerStep, Handler!Accept, Handler!Send, Handler!Close, Handler!End, Handler!Break
  <2>4. ended # "none" => UNCHANGED <<sent, ended>>
    <3>1. ended # "none" => closing # "none"
      BY DEF HandlerInv
    <3>. QED
      BY <1>4, <3>1
      DEF HandlerStep, Handler!Accept, Handler!Send, Handler!Close, Handler!End, Handler!Break,
          Handler!Usable
  <2>. QED  BY <2>1, <2>2, <2>3, <2>4 DEF OneAnswer, HandlerInv
<1>5. CASE Die \/ UNCHANGED vars
  BY <1>1, <1>5 DEF Die, own, handler, vars
<1>. QED  BY <1>2, <1>3, <1>4, <1>5 DEF Next

-------------------------------------------------------------------------------
(* Theorems. *)

LEMMA InitInv == Init => SyncInv
<1>. SUFFICES ASSUME Init PROVE SyncInv
  OBVIOUS
<1>. USE SyncAssumption DEF Init
<1>1. Handler!TypeOK /\ HandlerInv
  BY DEF Handler!Init, Handler!TypeOK, HandlerInv
<1>2. TypeOK
  <2>1. {deadline, writing_closed_, init_md_received_, dead, eof, stopped,
         repeated, refused, asserted, lost} \subseteq BOOLEAN
    OBVIOUS
  <2>2. kind \in Kinds /\ used = {} /\ received = 0 /\ nread = 0
    OBVIOUS
  <2>. QED  BY <1>1, <2>1, <2>2 DEF TypeOK
<1>3. InUse /\ Turn
  BY DEF InUse, Turn, BatchesAccepted, HalfClosed
<1>4. Truth
  BY DEF Truth, OkIsTrue, AssertsHold
<1>. QED  BY <1>1, <1>2, <1>3, <1>4 DEF SyncInv

LEMMA Inductive == SyncInv /\ [Next]_vars => SyncInv'
<1>. SUFFICES ASSUME SyncInv, [Next]_vars PROVE SyncInv'
  OBVIOUS
<1>1. HandlerInv'
  <2>1. CASE HandlerStep
    BY <2>1, HandlerInvStep DEF SyncInv
  <2>2. CASE UNCHANGED <<kind, handler>>
    BY <2>2 DEF SyncInv, HandlerInv, OneAnswer, handler
  <2>. QED  BY <2>1, <2>2 DEF Next, ClientStep, DestroyStep, Die, vars
<1>. QED  BY <1>1, TypeStep, InUseStep, TurnStep, TruthStep DEF SyncInv

LEMMA Invariant == SafeSpec => []SyncInv
  BY InitInv, Inductive, PTL DEF SafeSpec

\* The fields keep their types: statuses are among those the code assigns.
THEOREM TypeCorrect == SafeSpec => []TypeOK
  BY Invariant, PTL DEF SyncInv

\* No function of a blocking client starts an operation of the call that an earlier
\* one has started, unless the user asks for the status or closes twice.
THEOREM NothingStartedTwice == SafeSpec => []BatchesAccepted
<1>1. SyncInv => BatchesAccepted
  BY DEF SyncInv, InUse
<1>. QED  BY <1>1, Invariant, PTL

\* An OK that RecvStatus(), Close() or SyncRequest() returns is the handler's, and
\* everything that was sent each way before it has arrived.
THEOREM OkIsTruth == SafeSpec => []OkIsTrue
<1>1. SyncInv => OkIsTrue
  BY DEF SyncInv, Truth
<1>. QED  BY <1>1, Invariant, PTL

\* GetResultMsg() finds a message behind every OK but that of a handler that closed
\* with one and replied nothing.
THEOREM MessageBehindOk == SafeSpec => []AssertsHold
<1>1. SyncInv => AssertsHold
  BY DEF SyncInv, Truth
<1>. QED  BY <1>1, Invariant, PTL

\* ReadOne() gives no message any more once it has returned false, or the user has
\* broken the reading.
THEOREM NothingAfterStop == SafeSpec => ReadStops
<1>1. SyncInv /\ [Next]_vars => [stopped => nread' = nread]_vars
  BY NoMoreReads DEF SyncInv
<1>. QED  BY <1>1, Invariant, PTL DEF SafeSpec, ReadStops
===============================================================================
