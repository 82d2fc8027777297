-------------------------- MODULE ServerWriterProofs --------------------------
(* Proofs about ServerWriter for any threads, calls, statuses and bounds. *)
EXTENDS ServerWriter, SequenceTheorems, TLAPS

\* Moving the front of the queue to the end of what was sent keeps the whole.
LEMMA MoveFront ==
  ASSUME NEW S, NEW s \in Seq(S), NEW q \in Seq(S), q # <<>>
  PROVE  /\ s \o q = Append(s, Head(q)) \o Tail(q)
         /\ Len(s) < Len(s \o q)
         /\ (s \o q)[Len(s) + 1] = Head(q)
<1>1. Head(q) \in S /\ Tail(q) \in Seq(S) /\ q = <<Head(q)>> \o Tail(q)
  BY HeadTailProperties
<1>2. <<Head(q)>> \in Seq(S) /\ s \o <<Head(q)>> = Append(s, Head(q))
  BY <1>1, AppendIsConcat
<1>3. s \o q = Append(s, Head(q)) \o Tail(q)
  BY <1>1, <1>2, ConcatAssociative
<1>4. Len(s) \in Nat /\ Len(q) \in Nat \ {0} /\ Head(q) = q[1]
  BY LenProperties, EmptySeq, HeadTailProperties
<1> QED BY <1>3, <1>4, ConcatProperties

\* The part of the type invariant that the locked bodies can disturb.
WriterType ==
  /\ closed_ \in BOOLEAN /\ send_init_md_ \in BOOLEAN
  /\ is_sending_ \in BOOLEAN /\ wild \in BOOLEAN
  /\ high_queue_size_ \in Nat
  /\ queue_ \in Seq(Msg)
  /\ close_status_uptr_ \in Status \cup {NoStatus}
  /\ process \in {"up", "assert", "ub"}
  /\ sent \in Seq(Msg) /\ accepted \in Seq(Msg)
  /\ ended \in Status \cup {NoStatus}
  /\ md_batches \in Nat /\ inflight \in Nat /\ events \in Nat
  /\ broken \in BOOLEAN

\* Who may send: the thread that finds is_sending_ false, or the callback of
\* the one batch that is out.  Nothing is queued unless a batch is out.
Handover ==
  /\ (wild \/ broken) => closed_
  /\ (closed_ \/ ~is_sending_) => queue_ = <<>>
  /\ inflight + events = (IF is_sending_ /\ ~closed_ THEN 1 ELSE 0)
  /\ ended # NoStatus => closed_ /\ ~broken
  /\ closed_ => ended # NoStatus \/ broken
  /\ (close_status_uptr_ # NoStatus /\ ~closed_) => is_sending_
  /\ process = "assert" => wild

\* The locked bodies keep the writer's fields in their types.
LEMMA CarryType ==
  ASSUME md_batches \in Nat, send_init_md_ \in BOOLEAN, CarryInitMd
  PROVE  md_batches' \in Nat
  BY DEF CarryInitMd

LEMMA SendMsgType ==
  ASSUME WriterType, NEW m \in Msg, NEW rest \in Seq(Msg), SendMsgOk(m, rest)
  PROVE  /\ is_sending_' \in BOOLEAN /\ send_init_md_' \in BOOLEAN
         /\ sent' \in Seq(Msg) /\ queue_' \in Seq(Msg)
         /\ inflight' \in Nat /\ md_batches' \in Nat
         /\ UNCHANGED <<closed_, broken>>
<1> USE DEF WriterType
<1>1. md_batches' \in Nat
  BY CarryType DEF SendMsgOk
<1>2. inflight' \in Nat
  BY DEF SendMsgOk
<1>3. sent' \in Seq(Msg)
  <2>1. sent' = Append(sent, m)
    BY DEF SendMsgOk
  <2> QED BY <2>1, AppendProperties
<1> QED BY <1>1, <1>2, <1>3 DEF SendMsgOk

LEMMA TakesOk ==
  ASSUME WriterType, Handover, process = "up",
         NEW m \in Msg, AsyncWriteTakes(m)
  PROVE  WriterType' /\ Handover'
<1> USE DEF WriterType
<1>1. CASE QueueMsg(m)
  <2>1. WriterType'
    BY <1>1, AppendProperties DEF QueueMsg, transport
  <2>2. Handover'
    BY <1>1 DEF QueueMsg, transport, Handover, Closing
  <2> QED BY <2>1, <2>2
<1>2. CASE SendNow(m)
  <2>1. queue_ \in Seq(Msg) /\ accepted' \in Seq(Msg)
    BY <1>2, AppendProperties DEF SendNow
  <2>2. QueueIsEmpty
    BY <1>2 DEF SendNow, Handover, QueueIsEmpty, Closing
  <2>3. process' = "up"
    BY <1>2, <2>2 DEF SendNow, CodeAssert
  <2>4. /\ UNCHANGED <<high_queue_size_, close_status_uptr_, wild, ended,
                       events>>
        /\ SendMsgOk(m, queue_)
    BY <1>2 DEF SendNow
  <2>5. WriterType'
    BY <2>1, <2>3, <2>4, SendMsgType
  <2>6. Handover'
    BY <1>2, <2>2, <2>3 DEF SendNow, SendMsgOk, Handover, Closing, QueueIsEmpty
  <2> QED BY <2>5, <2>6
<1> QED BY <1>1, <1>2 DEF AsyncWriteTakes

LEMMA IgnoreOk ==
  ASSUME WriterType, Handover, IgnoreCall
  PROVE  WriterType' /\ Handover'
  BY DEF WriterType, Handover, IgnoreCall, fields, transport, stream

LEMMA RefusesOk ==
  ASSUME WriterType, Handover, process = "up", AsyncWriteRefuses
  PROVE  WriterType' /\ Handover'
<1>1. CASE SendNowFails
  <2>1. QueueIsEmpty
    BY <1>1 DEF SendNowFails, Handover, QueueIsEmpty, Closing
  <2>2. process' = "up"
    BY <1>1, <2>1 DEF SendNowFails, CodeAssert
  <2>3. WriterType'
    BY <1>1, <2>2, EmptySeq DEF WriterType, SendNowFails, SendMsgFails
  <2>4. Handover'
    BY <1>1, <2>1, <2>2
    DEF WriterType, SendNowFails, SendMsgFails, Handover, Closing, QueueIsEmpty
  <2> QED BY <2>3, <2>4
<1> QED BY <1>1, IgnoreOk DEF AsyncWriteRefuses

LEMMA CloseBodyOk ==
  ASSUME WriterType, Handover, process = "up",
         NEW s \in Status, AsyncCloseBody(s)
  PROVE  WriterType' /\ Handover'
<1> USE ConstantsAssumption DEF WriterType
<1>1. CASE DeferClose(s)
  BY <1>1 DEF DeferClose, transport, stream, Handover, Closing
<1>2. CASE CloseNow(s)
  <2>1. QueueIsEmpty
    BY <1>2 DEF CloseNow, Handover, QueueIsEmpty, Closing
  <2>2. process' = "up"
    BY <1>2, <2>1 DEF CloseNow, CodeAssert
  <2>3. CASE SendStatusOk(s)
    <3>1. md_batches' \in Nat
      BY <2>3, CarryType DEF SendStatusOk
    <3>2. WriterType'
      BY <1>2, <2>2, <2>3, <3>1 DEF CloseNow, SendStatusOk
    <3>3. Handover'
      BY <1>2, <2>1, <2>2, <2>3
      DEF CloseNow, SendStatusOk, Handover, Closing, QueueIsEmpty
    <3> QED BY <3>2, <3>3
  <2>4. CASE SendStatusFails
    <3>2. WriterType'
      BY <1>2, <2>2, <2>4 DEF CloseNow, SendStatusFails
    <3>3. Handover'
      BY <1>2, <2>1, <2>2, <2>4
      DEF CloseNow, SendStatusFails, Handover, Closing, QueueIsEmpty
    <3> QED BY <3>2, <3>3
  <2> QED BY <1>2, <2>3, <2>4 DEF CloseNow
<1> QED BY <1>1, <1>2, IgnoreOk DEF AsyncCloseBody

LEMMA CompleteOk ==
  ASSUME WriterType, Handover, Complete
  PROVE  WriterType' /\ Handover'
<1> USE ConstantsAssumption DEF WriterType
<1>0. /\ events' \in Nat /\ events' = events - 1 /\ events > 0
      /\ process = "up"
  BY DEF Complete
<1>1. is_sending_ /\ ~closed_ /\ inflight = 0 /\ events = 1
  BY <1>0 DEF Handover
<1>2. CASE SendFront
  <2>1. queue_ # <<>>
    BY <1>2 DEF SendFront, QueueIsEmpty, Handover
  <2>2. Head(queue_) \in Msg /\ Tail(queue_) \in Seq(Msg)
    BY <2>1, HeadTailProperties
  <2>3. /\ UNCHANGED <<high_queue_size_, close_status_uptr_, wild, ended,
                       accepted, process>>
        /\ SendMsgOk(Head(queue_), Tail(queue_))
    BY <1>2 DEF SendFront
  <2>4. WriterType'
    BY <1>0, <2>2, <2>3, SendMsgType
  <2>5. Handover'
    BY <1>0, <1>1, <1>2 DEF SendFront, SendMsgOk, Handover
  <2> QED BY <2>4, <2>5
<1>3. CASE SendFrontFails
  <2>1. WriterType'
    BY <1>0, <1>3, EmptySeq DEF SendFrontFails, SendMsgFails
  <2>2. Handover'
    BY <1>0, <1>1, <1>3 DEF SendFrontFails, SendMsgFails, Handover
  <2> QED BY <2>1, <2>2
<1>4. CASE SendDeferredStatus /\ SendStatusOk(close_status_uptr_)
  <2>1. md_batches' \in Nat
    BY <1>4, CarryType DEF SendStatusOk
  <2>2. WriterType'
    BY <1>0, <1>4, <2>1 DEF SendDeferredStatus, SendStatusOk
  <2>3. Handover'
    BY <1>0, <1>1, <1>4
    DEF SendDeferredStatus, SendStatusOk, Handover, QueueIsEmpty
  <2> QED BY <2>2, <2>3
<1>5. CASE SendDeferredStatus /\ SendStatusFails
  <2>2. WriterType'
    BY <1>0, <1>5 DEF SendDeferredStatus, SendStatusFails
  <2>3. Handover'
    BY <1>0, <1>1, <1>5
    DEF SendDeferredStatus, SendStatusFails, Handover, QueueIsEmpty
  <2> QED BY <2>2, <2>3
<1>6. CASE GoIdle
  <2>1. WriterType'
    BY <1>0, <1>6 DEF GoIdle, stream
  <2>2. Handover'
    BY <1>0, <1>1, <1>6 DEF GoIdle, Handover, QueueIsEmpty, stream
  <2> QED BY <2>1, <2>2
<1>7. ~IgnoreCompletion
  BY <1>1 DEF IgnoreCompletion
<1> QED
  BY <1>2, <1>3, <1>4, <1>5, <1>6, <1>7
  DEF Complete, TryToWriteNext, SendDeferredStatus

-------------------------------------------------------------------------------
\* The part of the type invariant that only the callers' steps disturb.
CallerType ==
  /\ pc \in [Threads -> {"idle", "low", "high", "spin_write", "sync_ret",
                         "spin_close"}]
  /\ arg \in [Threads -> Msg \cup {0}]
  /\ handles \subseteq Threads
  /\ destroyed \in BOOLEAN
  /\ nmsgs \in 0 .. MaxMsgs
  /\ outcome \in [Msg -> Outcomes]

\* A thread that was handed a message has it.
ArgOk == \A t \in Threads :
           pc[t] \in {"low", "high", "spin_write", "sync_ret"} => arg[t] \in Msg

LEMMA TypeSplit == TypeOK <=> WriterType /\ CallerType
  BY DEF TypeOK, WriterType, CallerType

\* A step that touches nothing of the writer but its high mark, or dies of an
\* assertion after the queue was popped while empty.
QuietStep ==
  /\ high_queue_size_' \in Nat
  /\ \/ process' = process
     \/ process' = "assert" /\ wild
  /\ UNCHANGED <<closed_, send_init_md_, is_sending_, queue_,
                 close_status_uptr_, wild, transport, stream>>

\* What a step can do to the writer.
WriterStep ==
  \/ process = "up" /\ \E m \in Msg : AsyncWriteTakes(m)
  \/ process = "up" /\ AsyncWriteRefuses
  \/ process = "up" /\ \E s \in Status : AsyncCloseBody(s)
  \/ Complete
  \/ BatchCompletes
  \/ QuietStep

LEMMA NextMsgOk ==
  ASSUME CallerType, NewMsg
  PROVE  nmsgs + 1 \in Msg /\ nmsgs' = nmsgs + 1 /\ nmsgs' \in 0 .. MaxMsgs
  BY ConstantsAssumption DEF CallerType, NewMsg, Msg

LEMMA NextIsWriterStep ==
  ASSUME TypeOK, Handover, ArgOk, [Next]_vars
  PROVE  WriterStep
<1> USE TypeSplit
<1>0. WriterType /\ CallerType
  OBVIOUS
<1>1. ASSUME NEW t \in Threads, AsyncWrite(t) PROVE WriterStep
  BY <1>0, <1>1, NextMsgOk DEF AsyncWrite, Idle, AsyncWriteBody, WriterStep
<1>2. ASSUME NEW t \in Threads, SyncWrite(t) PROVE WriterStep
  BY <1>0, <1>2, NextMsgOk DEF SyncWrite, Idle, SyncWriteBody, WriterStep
<1>3. ASSUME NEW t \in Threads, WriteLow(t) PROVE WriterStep
  BY <1>3 DEF WriteLow, AsyncWriteBody, WriterStep, ArgOk
<1>4. ASSUME NEW t \in Threads, WriteHigh(t) PROVE WriterStep
  BY <1>4 DEF WriteHigh, SyncWriteBody, WriterStep, ArgOk
<1>5. ASSUME NEW t \in Threads, AsyncClose(t) PROVE WriterStep
  BY <1>5 DEF AsyncClose, Idle, WriterStep
<1>6. ASSUME NEW t \in Threads, SyncClose(t) PROVE WriterStep
  BY <1>6 DEF SyncClose, Idle, WriterStep
<1>7. ASSUME NEW t \in Threads,
             Write(t) \/ SpinWrite(t) \/ SyncRet(t) \/ SpinClose(t) \/ Release(t)
      PROVE  WriterStep
  <2>1. UNCHANGED <<fields, transport, stream, process>>
    BY <1>7 DEF Write, SpinWrite, SyncRet, SpinClose, Release
  <2> QED BY <1>0, <2>1 DEF fields, WriterStep, QuietStep, WriterType
<1>8. ASSUME NEW t \in Threads, SetHighQueueSize(t) PROVE WriterStep
  BY <1>8, ConstantsAssumption DEF SetHighQueueSize, WriterStep, QuietStep
<1>9. CASE UNCHANGED vars
  BY <1>0, <1>9 DEF vars, fields, WriterStep, QuietStep, WriterType
<1>10. CASE Destroy
  <2>1. CASE AsyncCloseBody(OK)
    BY <1>10, <2>1, ConstantsAssumption DEF Destroy, WriterStep
  <2>2. CASE ~QueueIsEmpty /\ CodeAssert(FALSE) /\ UNCHANGED <<fields, transport, stream>>
    <3>1. wild
      BY <1>0, <1>10, <2>2 DEF Destroy, Handover, QueueIsEmpty, WriterType
    <3>2. process' = "assert"
      BY <2>2 DEF CodeAssert
    <3> QED BY <1>0, <2>2, <3>1, <3>2
      DEF fields, WriterStep, QuietStep, WriterType
  <2> QED BY <1>10, <2>1, <2>2 DEF Destroy
<1> QED
  BY <1>1, <1>2, <1>3, <1>4, <1>5, <1>6, <1>7, <1>8, <1>9, <1>10
  DEF Next, Call, Resume, Yield, Done, WriterStep

LEMMA WriterStepOk ==
  ASSUME WriterType, Handover, WriterStep
  PROVE  WriterType' /\ Handover'
<1>1. CASE BatchCompletes
  BY <1>1 DEF BatchCompletes, WriterType, Handover, fields, stream
<1>2. CASE QuietStep
  BY <1>2 DEF QuietStep, WriterType, Handover, transport, stream
<1> QED
  BY <1>1, <1>2, TakesOk, RefusesOk, CloseBodyOk, CompleteOk DEF WriterStep

\* The threads: what each step does to their program counters.
LEMMA CallerOk ==
  ASSUME CallerType, ArgOk, [Next]_vars
  PROVE  CallerType' /\ ArgOk'
<1> USE DEF CallerType, ArgOk, Outcomes
<1>1. ASSUME NEW t \in Threads, AsyncWrite(t) PROVE CallerType' /\ ArgOk'
  BY <1>1, NextMsgOk DEF AsyncWrite, AsyncWriteBody, Answer
<1>2. ASSUME NEW t \in Threads, SyncWrite(t) PROVE CallerType' /\ ArgOk'
  BY <1>2, NextMsgOk DEF SyncWrite, SyncWriteBody, Answer, Goto
<1>3. ASSUME NEW t \in Threads, WriteLow(t) PROVE CallerType' /\ ArgOk'
  BY <1>3 DEF WriteLow, AsyncWriteBody, Answer, Goto
<1>4. ASSUME NEW t \in Threads, WriteHigh(t) PROVE CallerType' /\ ArgOk'
  BY <1>4 DEF WriteHigh, SyncWriteBody, Answer, Goto
<1>5. ASSUME NEW t \in Threads, Write(t) PROVE CallerType' /\ ArgOk'
  BY <1>5, NextMsgOk DEF Write, Goto
<1>6. ASSUME NEW t \in Threads, SyncRet(t) PROVE CallerType' /\ ArgOk'
  BY <1>6 DEF SyncRet, Answer, Goto
<1>7. ASSUME NEW t \in Threads,
             SpinWrite(t) \/ SpinClose(t) \/ SyncClose(t)
      PROVE  CallerType' /\ ArgOk'
  BY <1>7 DEF SpinWrite, SpinClose, SyncClose, Goto, calls
<1>8. ASSUME NEW t \in Threads,
             AsyncClose(t) \/ SetHighQueueSize(t) \/ Release(t)
      PROVE  CallerType' /\ ArgOk'
  BY <1>8 DEF AsyncClose, SetHighQueueSize, Release, calls
<1>9. CASE BatchCompletes \/ Complete \/ Destroy
  BY <1>9 DEF BatchCompletes, Complete, Destroy, calls
<1>10. CASE UNCHANGED vars
  BY <1>10 DEF vars, calls
<1> QED
  BY <1>1, <1>2, <1>3, <1>4, <1>5, <1>6, <1>7, <1>8, <1>9, <1>10
  DEF Next, Call, Resume, Yield, Done

\* TypeOK is not inductive alone: TryToWriteNext() pops a queue of whose
\* emptiness only Handover knows.
TypeInv == TypeOK /\ Handover /\ ArgOk

LEMMA TypeInvInit == Init => TypeInv
<1> SUFFICES ASSUME Init PROVE TypeInv
  OBVIOUS
<1> USE ConstantsAssumption DEF Init
<1>1. WriterType
  <2>1. queue_ \in Seq(Msg) /\ sent \in Seq(Msg) /\ accepted \in Seq(Msg)
    BY EmptySeq
  <2> QED BY <2>1 DEF WriterType
<1>2. CallerType /\ ArgOk
  <2>1. /\ pc \in [Threads -> {"idle", "low", "high", "spin_write",
                               "sync_ret", "spin_close"}]
        /\ arg \in [Threads -> Msg \cup {0}]
        /\ outcome \in [Msg -> Outcomes]
    BY DEF Outcomes
  <2>2. handles \subseteq Threads /\ destroyed \in BOOLEAN
    OBVIOUS
  <2>3. nmsgs \in 0 .. MaxMsgs
    OBVIOUS
  <2>4. ArgOk
    BY DEF ArgOk
  <2> QED BY <2>1, <2>2, <2>3, <2>4 DEF CallerType
<1>3. Handover
  BY DEF Handover
<1> QED BY <1>1, <1>2, <1>3, TypeSplit DEF TypeInv

LEMMA TypeInvStep == TypeInv /\ [Next]_vars => TypeInv'
<1> SUFFICES ASSUME TypeInv, [Next]_vars PROVE TypeInv'
  OBVIOUS
<1>1. WriterType /\ CallerType /\ Handover /\ ArgOk
  BY TypeSplit DEF TypeInv
<1>2. WriterType' /\ Handover'
  BY <1>1, NextIsWriterStep, WriterStepOk DEF TypeInv
<1>3. CallerType' /\ ArgOk'
  BY <1>1, CallerOk
<1>4. TypeOK' <=> WriterType' /\ CallerType'
  BY DEF TypeOK, WriterType, CallerType
<1> QED BY <1>2, <1>3, <1>4 DEF TypeInv

LEMMA TypeInvHolds == SafeSpec => []TypeInv
  BY TypeInvInit, TypeInvStep, PTL DEF SafeSpec

\* Every field, counter and program counter keeps its type, for any threads,
\* calls and bounds; with it the hand-over of the right to send is safe.
THEOREM TypeCorrect == SafeSpec => []TypeOK
<1>1. TypeInv => TypeOK
  BY DEF TypeInv
<1> QED BY <1>1, TypeInvHolds, PTL

\* No assertion fails unless queue_ was popped while empty, and at most one
\* write batch is out at a time, none when the status goes out.
THEOREM AssertsAndOneByOne == SafeSpec => [](AssertsHold /\ OneByOne)
<1>1. TypeInv => AssertsHold /\ OneByOne
  BY DEF TypeInv, TypeOK, Handover, AssertsHold, OneByOne
<1> QED BY <1>1, TypeInvHolds, PTL

-------------------------------------------------------------------------------
(* Order: nothing accepted is lost, duplicated or overtaken. *)

\* A message queued behind the others is the last of the whole.
LEMMA PushBack ==
  ASSUME NEW s \in Seq(Msg), NEW q \in Seq(Msg), NEW m \in Msg
  PROVE  Append(s \o q, m) = s \o Append(q, m)
<1>1. s \o q \in Seq(Msg) /\ <<m>> \in Seq(Msg)
  BY ConcatProperties
<1>2. Append(s \o q, m) = (s \o q) \o <<m>> /\ Append(q, m) = q \o <<m>>
  BY <1>1, AppendIsConcat
<1> QED BY <1>1, <1>2, ConcatAssociative

LEMMA OrderStep ==
  ASSUME WriterType, Handover, NothingLost, WriterStep
  PROVE  NothingLost'
<1> USE DEF WriterType
<1>1. ASSUME NEW m \in Msg, QueueMsg(m) PROVE NothingLost'
  <2>1. /\ accepted' = Append(accepted, m) /\ queue_' = Append(queue_, m)
        /\ sent' = sent /\ broken' = broken
    BY <1>1 DEF QueueMsg, transport
  <2>2. Append(sent \o queue_, m) = sent \o Append(queue_, m)
    <3>1. sent \in Seq(Msg) /\ queue_ \in Seq(Msg)
      OBVIOUS
    <3> QED BY <3>1, PushBack
  <2> QED BY <2>1, <2>2 DEF NothingLost
<1>2. ASSUME NEW m \in Msg, SendNow(m) PROVE NothingLost'
  <2>1. queue_ = <<>> /\ queue_' = <<>> /\ ~broken
    BY <1>2 DEF SendNow, SendMsgOk, Handover, Closing
  <2>2. accepted = sent /\ sent' = Append(sent, m) /\ accepted' = sent'
    BY <1>2, <2>1, ConcatEmptySeq DEF SendNow, SendMsgOk, NothingLost
  <2>3. sent' \in Seq(Msg)
    BY <2>2, AppendProperties
  <2> QED BY <2>1, <2>2, <2>3, ConcatEmptySeq DEF NothingLost
<1>3. CASE SendFront
  <2>1. queue_ # <<>> /\ ~broken /\ UNCHANGED accepted
    BY <1>3 DEF SendFront, QueueIsEmpty, Handover
  <2>2. sent' = Append(sent, Head(queue_)) /\ queue_' = Tail(queue_)
    BY <1>3 DEF SendFront, SendMsgOk
  <2> QED BY <2>1, <2>2, MoveFront DEF NothingLost
<1>4. CASE SendNowFails \/ SendFrontFails
  BY <1>4 DEF SendNowFails, SendFrontFails, SendMsgFails, NothingLost
<1>5. CASE IgnoreCall \/ IgnoreCompletion \/ GoIdle \/ QuietStep
           \/ BatchCompletes
  BY <1>5 DEF IgnoreCall, IgnoreCompletion, GoIdle, QuietStep, BatchCompletes,
              fields, transport, stream, NothingLost
<1>6. ASSUME NEW s \in Status, DeferClose(s) \/ CloseNow(s)
      PROVE  NothingLost'
  BY <1>6 DEF DeferClose, CloseNow, SendStatusOk, SendStatusFails, transport,
              stream, NothingLost
<1>7. CASE SendDeferredStatus
  BY <1>7 DEF SendDeferredStatus, SendStatusOk, SendStatusFails, NothingLost
<1> QED
  BY <1>1, <1>2, <1>3, <1>4, <1>5, <1>6, <1>7
  DEF WriterStep, AsyncWriteTakes, AsyncWriteRefuses, AsyncCloseBody, Complete,
      TryToWriteNext

-------------------------------------------------------------------------------
(* Initial metadata and the status. *)

\* The metadata has gone with the first batch.
MetadataInv == InitMdOnce /\ (send_init_md_ <=> sent = <<>>)

LEMMA MetadataStep ==
  ASSUME WriterType, Handover, MetadataInv, WriterStep
  PROVE  MetadataInv'
<1> USE DEF WriterType, MetadataInv, InitMdOnce
<1>1. ASSUME NEW m \in Msg, NEW rest, SendMsgOk(m, rest), ~closed_,
             ended' = ended
      PROVE  MetadataInv'
  <2>1. ended = NoStatus /\ sent' # <<>> /\ ~send_init_md_'
    BY <1>1, AppendProperties DEF SendMsgOk, Handover
  <2>2. md_batches' = 1
    BY <1>1, <2>1 DEF SendMsgOk, CarryInitMd
  <2> QED BY <1>1, <2>1, <2>2
<1>2. ASSUME NEW s \in Status, SendStatusOk(s), ~closed_,
             UNCHANGED <<sent, send_init_md_>>
      PROVE  MetadataInv'
  <2>1. ended = NoStatus /\ ended' # NoStatus
    BY <1>2, ConstantsAssumption DEF SendStatusOk, Handover
  <2>2. md_batches' = 1
    BY <1>2, <2>1 DEF SendStatusOk, CarryInitMd
  <2> QED BY <1>2, <2>1, <2>2
<1>3. ASSUME UNCHANGED <<sent, send_init_md_, ended, md_batches>>
      PROVE  MetadataInv'
  BY <1>3
<1>4. ASSUME NEW m \in Msg, AsyncWriteTakes(m) PROVE MetadataInv'
  BY <1>1, <1>3, <1>4
  DEF AsyncWriteTakes, QueueMsg, SendNow, transport, Closing
<1>5. CASE AsyncWriteRefuses \/ QuietStep \/ BatchCompletes
  BY <1>3, <1>5
  DEF AsyncWriteRefuses, IgnoreCall, SendNowFails, SendMsgFails, QuietStep,
      BatchCompletes, fields, transport
<1>6. ASSUME NEW s \in Status, AsyncCloseBody(s) PROVE MetadataInv'
  BY <1>2, <1>3, <1>6
  DEF AsyncCloseBody, IgnoreCall, DeferClose, CloseNow, SendStatusFails,
      fields, transport, Closing
<1>7. CASE SendFront
  <2>1. Head(queue_) \in Msg
    BY <1>7, HeadTailProperties DEF SendFront, QueueIsEmpty, Handover
  <2> QED BY <1>1, <1>7, <2>1 DEF SendFront
<1>8. CASE SendDeferredStatus
  BY <1>2, <1>3, <1>8 DEF SendDeferredStatus, SendStatusFails
<1>9. CASE SendFrontFails \/ GoIdle \/ IgnoreCompletion
  BY <1>3, <1>9
  DEF SendFrontFails, SendMsgFails, GoIdle, IgnoreCompletion, fields
<1> QED
  BY <1>4, <1>5, <1>6, <1>7, <1>8, <1>9
  DEF WriterStep, Complete, TryToWriteNext

\* closed_ is final, and the destructor leaves it set.
LEMMA ClosedIsFinal ==
  ASSUME WriterType, Handover, WriterStep, closed_
  PROVE  closed_'
  BY DEF WriterStep, AsyncWriteTakes, QueueMsg, SendNow, AsyncWriteRefuses,
         IgnoreCall, SendNowFails, AsyncCloseBody, DeferClose, CloseNow,
         Complete, TryToWriteNext, IgnoreCompletion, SendFront,
         SendFrontFails, SendDeferredStatus, GoIdle, BatchCompletes,
         QuietStep, Closing, fields

LEMMA DestroyCloses ==
  ASSUME WriterType, Handover, Destroy
  PROVE  closed_'
<1> USE DEF WriterType
<1>1. closed_ \/ (~is_sending_ /\ close_status_uptr_ = NoStatus)
  BY DEF Destroy, Handover
<1>2. CASE closed_
  BY <1>2 DEF Destroy, AsyncCloseBody, IgnoreCall, DeferClose, CloseNow,
              Closing, fields
<1>3. CASE ~closed_
  <2>1. QueueIsEmpty /\ ~Closing /\ ~is_sending_
    BY <1>1, <1>3 DEF Handover, QueueIsEmpty, Closing
  <2>2. CloseNow(OK)
    BY <2>1 DEF Destroy, AsyncCloseBody, IgnoreCall, DeferClose
  <2> QED BY <2>2 DEF CloseNow, SendStatusOk, SendStatusFails
<1> QED BY <1>2, <1>3

LEMMA DestroyedStep ==
  ASSUME WriterType, Handover, WriterStep, destroyed => closed_, [Next]_vars
  PROVE  (destroyed => closed_)'
<1>1. CASE Destroy
  BY <1>1, DestroyCloses
<1>2. CASE ~Destroy
  <2>1. destroyed' = destroyed
    BY <1>2 DEF Next, Call, Resume, Yield, Done, vars, Write, SyncWrite,
                AsyncWrite, AsyncClose, SyncClose, SetHighQueueSize, Release,
                WriteLow, WriteHigh, SpinWrite, SyncRet, SpinClose,
                BatchCompletes, Complete
  <2> QED BY <2>1, ClosedIsFinal
<1> QED BY <1>1, <1>2

-------------------------------------------------------------------------------
\* The inductive invariant.
StreamInv ==
  /\ TypeInv
  /\ NothingLost
  /\ MetadataInv
  /\ destroyed => closed_

LEMMA StreamInvInit == Init => StreamInv
<1> SUFFICES ASSUME Init PROVE StreamInv
  OBVIOUS
<1>1. NothingLost
  BY ConcatEmptySeq, EmptySeq DEF Init, NothingLost
<1>2. MetadataInv
  BY DEF Init, MetadataInv, InitMdOnce
<1> QED BY <1>1, <1>2, TypeInvInit DEF Init, StreamInv

LEMMA StreamInvStep == StreamInv /\ [Next]_vars => StreamInv'
<1> SUFFICES ASSUME StreamInv, [Next]_vars PROVE StreamInv'
  OBVIOUS
<1>1. WriterType /\ Handover /\ WriterStep
  BY TypeSplit, NextIsWriterStep DEF StreamInv, TypeInv
<1>2. NothingLost' /\ MetadataInv'
  BY <1>1, OrderStep, MetadataStep DEF StreamInv
<1>3. (destroyed => closed_)'
  BY <1>1, DestroyedStep DEF StreamInv
<1> QED BY <1>2, <1>3, TypeInvStep DEF StreamInv

LEMMA StreamInvHolds == SafeSpec => []StreamInv
  BY StreamInvInit, StreamInvStep, PTL DEF SafeSpec

\* While no batch was refused, AsyncWrite() and TryToWriteNext() lose,
\* duplicate and reorder nothing, whatever the threads do.
THEOREM NoMessageLost == SafeSpec => []NothingLost
<1>1. StreamInv => NothingLost
  BY DEF StreamInv
<1> QED BY <1>1, StreamInvHolds, PTL

\* The initial metadata goes with the first batch and only with it, be that a
\* message or the status of a stream closed unwritten.
THEOREM MetadataOnce == SafeSpec => []InitMdOnce
<1>1. StreamInv => InitMdOnce
  BY DEF StreamInv, MetadataInv
<1> QED BY <1>1, StreamInvHolds, PTL

\* The status goes out behind every accepted message, and a destroyed writer
\* has sent one or met a refusal.
THEOREM StatusLast == SafeSpec => []EndsWithStatus
<1>1. ASSUME StreamInv PROVE EndsWithStatus
  <2>1. ASSUME ended # NoStatus PROVE sent = accepted
    <3>1. ~broken /\ queue_ = <<>> /\ sent \in Seq(Msg)
      BY <1>1, <2>1 DEF StreamInv, TypeInv, TypeOK, Handover
    <3> QED BY <1>1, <3>1, ConcatEmptySeq DEF StreamInv, NothingLost
  <2>2. destroyed => ended # NoStatus \/ broken
    BY <1>1 DEF StreamInv, TypeInv, Handover
  <2> QED BY <2>1, <2>2 DEF EndsWithStatus
<1> QED BY <1>1, StreamInvHolds, PTL

-------------------------------------------------------------------------------
(* The answers of the write calls. *)

\* A thread that has a message but has not yet offered it to AsyncWrite().
Offering(t) == pc[t] \in {"low", "high"}

\* A message is offered once: those accepted, held and answered are told apart.
Offered ==
  /\ ToSet(accepted) \subseteq 1 .. nmsgs
  /\ \A t \in Threads : Offering(t) =>
       /\ arg[t] \in 1 .. nmsgs /\ arg[t] \notin ToSet(accepted)
       /\ outcome[arg[t]] # "refused"
  /\ \A t, u \in Threads : t # u /\ Offering(t) /\ Offering(u) => arg[t] # arg[u]
  /\ \A m \in Msg : m > nmsgs => outcome[m] # "refused"

\* What a thread inside SyncWrite() may rely on.
Waiting ==
  \A t \in Threads :
    /\ pc[t] \in {"spin_write", "sync_ret"} => arg[t] \in ToSet(accepted)
    /\ pc[t] = "sync_ret" /\ ~closed_ => arg[t] \in ToSet(sent)

AnswersInv == Offered /\ Waiting /\ AnswersAreTrue

LEMMA ToSetAppend ==
  ASSUME NEW s \in Seq(Msg), NEW m \in Msg
  PROVE  ToSet(Append(s, m)) = ToSet(s) \cup {m}
<1>1. /\ Len(Append(s, m)) = Len(s) + 1 /\ Len(s) \in Nat
      /\ Append(s, m)[Len(s) + 1] = m
      /\ \A i \in 1 .. Len(s) : Append(s, m)[i] = s[i]
  BY AppendProperties, LenProperties
<1>2. 1 .. Len(Append(s, m)) = (1 .. Len(s)) \cup {Len(s) + 1}
  BY <1>1
<1> QED BY <1>1, <1>2 DEF ToSet

\* AsyncWrite() that answers true adds its message, everything else none ...
LEMMA AcceptedStep ==
  ASSUME WriterType
  PROVE  /\ \A m \in Msg : AsyncWriteTakes(m) =>
              ToSet(accepted') = ToSet(accepted) \cup {m}
         /\ AsyncWriteRefuses => accepted' = accepted
         /\ \A s \in Status : AsyncCloseBody(s) => accepted' = accepted
         /\ Complete => accepted' = accepted
<1> USE DEF WriterType
<1>1. ASSUME NEW m \in Msg, AsyncWriteTakes(m)
      PROVE  ToSet(accepted') = ToSet(accepted) \cup {m}
  <2>1. accepted' = Append(accepted, m)
    BY <1>1 DEF AsyncWriteTakes, QueueMsg, SendNow
  <2> QED BY <2>1, ToSetAppend
<1>2. ASSUME AsyncWriteRefuses PROVE accepted' = accepted
  BY <1>2 DEF AsyncWriteRefuses, IgnoreCall, SendNowFails, stream
<1>3. ASSUME NEW s \in Status, AsyncCloseBody(s) PROVE accepted' = accepted
  BY <1>3 DEF AsyncCloseBody, IgnoreCall, DeferClose, CloseNow, stream
<1>4. ASSUME Complete PROVE accepted' = accepted
  BY <1>4 DEF Complete, TryToWriteNext, IgnoreCompletion, SendFront,
              SendFrontFails, SendDeferredStatus, GoIdle, stream
<1> QED BY <1>1, <1>2, <1>3, <1>4

\* ... and what is sent stays sent.
LEMMA SentGrows ==
  ASSUME WriterType, Handover, WriterStep
  PROVE  ToSet(sent) \subseteq ToSet(sent')
<1> USE DEF WriterType
<1>1. ASSUME NEW m \in Msg, sent' = Append(sent, m)
      PROVE  ToSet(sent) \subseteq ToSet(sent')
  BY <1>1, ToSetAppend
<1>2. ASSUME NEW m \in Msg, AsyncWriteTakes(m)
      PROVE  ToSet(sent) \subseteq ToSet(sent')
  BY <1>1, <1>2 DEF AsyncWriteTakes, QueueMsg, SendNow, SendMsgOk, transport
<1>3. CASE SendFront
  <2>1. Head(queue_) \in Msg
    BY <1>3, HeadTailProperties DEF SendFront, QueueIsEmpty, Handover
  <2> QED BY <1>1, <1>3, <2>1 DEF SendFront, SendMsgOk
<1>4. ASSUME sent' = sent PROVE ToSet(sent) \subseteq ToSet(sent')
  BY <1>4
<1>5. CASE AsyncWriteRefuses \/ QuietStep \/ BatchCompletes
  BY <1>4, <1>5 DEF AsyncWriteRefuses, IgnoreCall, SendNowFails, SendMsgFails,
                    QuietStep, BatchCompletes, transport
<1>6. ASSUME NEW s \in Status, AsyncCloseBody(s) PROVE sent' = sent
  BY <1>6 DEF AsyncCloseBody, IgnoreCall, DeferClose, CloseNow, transport
<1>7. CASE SendFrontFails \/ SendDeferredStatus \/ GoIdle \/ IgnoreCompletion
  BY <1>4, <1>7 DEF SendFrontFails, SendMsgFails, SendDeferredStatus, GoIdle,
                    IgnoreCompletion
<1> QED
  BY <1>2, <1>3, <1>4, <1>5, <1>6, <1>7
  DEF WriterStep, Complete, TryToWriteNext

\* A step that offers, accepts and answers nothing.
LEMMA NothingOffered ==
  ASSUME TypeOK, AnswersInv, accepted' = accepted, calls' = calls, arg' = arg,
         \A t \in Threads : pc'[t] # pc[t] => pc'[t] \in {"idle", "spin_close"},
         ToSet(sent) \subseteq ToSet(sent'), closed_ => closed_'
  PROVE  AnswersInv'
<1> USE DEF TypeOK, AnswersInv, calls
<1>1. Offered'
  BY DEF Offered, Offering
<1>2. Waiting'
  BY DEF Waiting
<1>3. AnswersAreTrue'
  BY DEF AnswersAreTrue
<1> QED BY <1>1, <1>2, <1>3

LEMMA AnswersStep ==
  ASSUME StreamInv, AnswersInv, [Next]_vars
  PROVE  AnswersInv'
<1>0. /\ WriterType /\ CallerType /\ Handover /\ ArgOk /\ WriterStep
      /\ TypeOK /\ NothingLost
  BY TypeSplit, NextIsWriterStep DEF StreamInv, TypeInv
<1>01. ToSet(sent) \subseteq ToSet(sent') /\ (closed_ => closed_')
  BY <1>0, SentGrows, ClosedIsFinal
<1> USE DEF AnswersInv
<1>1. ASSUME NEW t \in Threads, AsyncWrite(t) PROVE AnswersInv'
  <2>1. /\ nmsgs \in Nat /\ nmsgs + 1 \in Msg /\ nmsgs' = nmsgs + 1
        /\ pc' = pc /\ arg' = arg
    BY <1>0, <1>1, NextMsgOk, ConstantsAssumption DEF AsyncWrite, CallerType
  <2>2. \/ /\ ToSet(accepted') = ToSet(accepted) \cup {nmsgs + 1}
           /\ outcome' = [outcome EXCEPT ![nmsgs + 1] = "taken"]
        \/ /\ accepted' = accepted
           /\ outcome' = [outcome EXCEPT ![nmsgs + 1] = "refused"]
    BY <1>0, <1>1, <2>1, AcceptedStep DEF AsyncWrite, AsyncWriteBody, Answer
  <2>3. Offered'
    <3>1. ToSet(accepted') \subseteq 1 .. nmsgs'
      BY <1>0, <2>1, <2>2 DEF Offered, Offering, CallerType
    <3>2. ASSUME NEW u \in Threads, Offering(u)'
          PROVE  /\ Offering(u) /\ arg'[u] = arg[u] /\ arg[u] \in 1 .. nmsgs'
                 /\ arg[u] \notin ToSet(accepted') /\ outcome'[arg[u]] # "refused"
      BY <1>0, <2>1, <2>2, <3>2, ConstantsAssumption
      DEF Offered, Offering, CallerType, Msg
    <3>3. ASSUME NEW n \in Msg, n > nmsgs' PROVE outcome'[n] # "refused"
      BY <1>0, <2>1, <2>2, <3>3, ConstantsAssumption
      DEF Offered, Offering, CallerType, Msg
    <3> QED BY <3>1, <3>2, <3>3 DEF Offered
  <2>4. Waiting'
    BY <1>01, <2>1, <2>2 DEF Waiting
  <2>5. AnswersAreTrue'
    BY <1>0, <1>01, <2>1, <2>2 DEF Offered, AnswersAreTrue, CallerType
  <2> QED BY <2>3, <2>4, <2>5
<1>2. ASSUME NEW t \in Threads, Write(t) PROVE AnswersInv'
  <2>1. /\ nmsgs \in Nat /\ nmsgs + 1 \in Msg /\ nmsgs' = nmsgs + 1
        /\ accepted' = accepted /\ outcome' = outcome
        /\ arg' = [arg EXCEPT ![t] = nmsgs + 1]
    BY <1>0, <1>2, NextMsgOk, ConstantsAssumption DEF Write, CallerType, stream
  <2>2. pc' = [pc EXCEPT ![t] = "high"] \/ pc' = [pc EXCEPT ![t] = "low"]
    BY <1>2 DEF Write, Goto
  <2>3. Offered'
    BY <1>0, <2>1, <2>2 DEF Offered, Offering, CallerType, Msg
  <2>4. Waiting'
    BY <1>0, <1>01, <2>1, <2>2 DEF Waiting, CallerType
  <2>5. AnswersAreTrue'
    BY <1>01, <2>1 DEF AnswersAreTrue
  <2> QED BY <2>3, <2>4, <2>5
<1>3. ASSUME NEW t \in Threads, WriteLow(t) PROVE AnswersInv'
  <2>1. /\ arg[t] \in Msg /\ nmsgs' = nmsgs /\ arg' = arg
        /\ pc' = [pc EXCEPT ![t] = "idle"] /\ Offering(t)
    BY <1>0, <1>3 DEF WriteLow, Goto, ArgOk, Offering
  <2>2. \/ /\ ToSet(accepted') = ToSet(accepted) \cup {arg[t]}
           /\ outcome' = [outcome EXCEPT ![arg[t]] = "taken"]
        \/ /\ accepted' = accepted
           /\ outcome' = [outcome EXCEPT ![arg[t]] = "refused"]
    BY <1>0, <1>3, <2>1, AcceptedStep DEF WriteLow, AsyncWriteBody, Answer
  <2>3. Offered'
    <3>1. ToSet(accepted') \subseteq 1 .. nmsgs'
      BY <1>0, <2>1, <2>2 DEF Offered, Offering, CallerType
    <3>2. ASSUME NEW u \in Threads, Offering(u)'
          PROVE  /\ Offering(u) /\ arg'[u] = arg[u] /\ arg[u] \in 1 .. nmsgs'
                 /\ arg[u] \notin ToSet(accepted') /\ outcome'[arg[u]] # "refused"
      BY <1>0, <2>1, <2>2, <3>2, ConstantsAssumption
      DEF Offered, Offering, CallerType, Msg
    <3>3. ASSUME NEW n \in Msg, n > nmsgs' PROVE outcome'[n] # "refused"
      BY <1>0, <2>1, <2>2, <3>3, ConstantsAssumption
      DEF Offered, Offering, CallerType, Msg
    <3> QED BY <3>1, <3>2, <3>3 DEF Offered
  <2>4. Waiting'
    BY <1>0, <1>01, <2>1, <2>2 DEF Waiting, CallerType
  <2>5. AnswersAreTrue'
    BY <1>0, <1>01, <2>1, <2>2 DEF Offered, AnswersAreTrue, CallerType
  <2> QED BY <2>3, <2>4, <2>5
<1>4. ASSUME NEW t \in Threads, SyncWrite(t) PROVE AnswersInv'
  <2>1. /\ nmsgs \in Nat /\ nmsgs + 1 \in Msg /\ nmsgs' = nmsgs + 1
        /\ arg' = [arg EXCEPT ![t] = nmsgs + 1]
    BY <1>0, <1>4, NextMsgOk, ConstantsAssumption DEF SyncWrite, CallerType
  <2>2. \/ /\ ToSet(accepted') = ToSet(accepted) \cup {nmsgs + 1}
           /\ pc' = [pc EXCEPT ![t] = "spin_write"] /\ outcome' = outcome
        \/ /\ accepted' = accepted /\ pc' = [pc EXCEPT ![t] = "idle"]
           /\ outcome' = [outcome EXCEPT ![nmsgs + 1] = "refused"]
    BY <1>0, <1>4, <2>1, AcceptedStep DEF SyncWrite, SyncWriteBody, Answer, Goto
  <2>3. Offered'
    <3>1. ToSet(accepted') \subseteq 1 .. nmsgs'
      BY <1>0, <2>1, <2>2 DEF Offered, Offering, CallerType
    <3>2. ASSUME NEW u \in Threads, Offering(u)'
          PROVE  /\ Offering(u) /\ arg'[u] = arg[u] /\ arg[u] \in 1 .. nmsgs'
                 /\ arg[u] \notin ToSet(accepted') /\ outcome'[arg[u]] # "refused"
      BY <1>0, <2>1, <2>2, <3>2, ConstantsAssumption
      DEF Offered, Offering, CallerType, Msg
    <3>3. ASSUME NEW n \in Msg, n > nmsgs' PROVE outcome'[n] # "refused"
      BY <1>0, <2>1, <2>2, <3>3, ConstantsAssumption
      DEF Offered, Offering, CallerType, Msg
    <3> QED BY <3>1, <3>2, <3>3 DEF Offered
  <2>4. Waiting'
    BY <1>0, <1>01, <2>1, <2>2 DEF Waiting, CallerType
  <2>5. AnswersAreTrue'
    BY <1>0, <1>01, <2>1, <2>2 DEF Offered, AnswersAreTrue, CallerType
  <2> QED BY <2>3, <2>4, <2>5
<1>5. ASSUME NEW t \in Threads, WriteHigh(t) PROVE AnswersInv'
  <2>1. /\ arg[t] \in Msg /\ nmsgs' = nmsgs /\ arg' = arg /\ Offering(t)
    BY <1>0, <1>5 DEF WriteHigh, ArgOk, Offering
  <2>2. \/ /\ ToSet(accepted') = ToSet(accepted) \cup {arg[t]}
           /\ pc' = [pc EXCEPT ![t] = "spin_write"] /\ outcome' = outcome
        \/ /\ accepted' = accepted /\ pc' = [pc EXCEPT ![t] = "idle"]
           /\ outcome' = [outcome EXCEPT ![arg[t]] = "refused"]
    BY <1>0, <1>5, <2>1, AcceptedStep DEF WriteHigh, SyncWriteBody, Answer, Goto
  <2>3. Offered'
    <3>1. ToSet(accepted') \subseteq 1 .. nmsgs'
      BY <1>0, <2>1, <2>2 DEF Offered, Offering, CallerType
    <3>2. ASSUME NEW u \in Threads, Offering(u)'
          PROVE  /\ Offering(u) /\ arg'[u] = arg[u] /\ arg[u] \in 1 .. nmsgs'
                 /\ arg[u] \notin ToSet(accepted') /\ outcome'[arg[u]] # "refused"
      BY <1>0, <2>1, <2>2, <3>2, ConstantsAssumption
      DEF Offered, Offering, CallerType, Msg
    <3>3. ASSUME NEW n \in Msg, n > nmsgs' PROVE outcome'[n] # "refused"
      BY <1>0, <2>1, <2>2, <3>3, ConstantsAssumption
      DEF Offered, Offering, CallerType, Msg
    <3> QED BY <3>1, <3>2, <3>3 DEF Offered
  <2>4. Waiting'
    BY <1>0, <1>01, <2>1, <2>2 DEF Waiting, CallerType
  <2>5. AnswersAreTrue'
    BY <1>0, <1>01, <2>1, <2>2 DEF Offered, AnswersAreTrue, CallerType
  <2> QED BY <2>3, <2>4, <2>5
<1>6. ASSUME NEW t \in Threads, SpinWrite(t) PROVE AnswersInv'
  <2>1. /\ UNCHANGED <<accepted, sent, closed_, nmsgs, outcome, arg>>
        /\ pc[t] = "spin_write" /\ pc' = [pc EXCEPT ![t] = "sync_ret"]
        /\ queue_ = <<>>
    BY <1>6 DEF SpinWrite, Goto, QueueIsEmpty, fields, transport, stream, calls
  <2>2. ~closed_ => sent = accepted
    BY <1>0, <2>1, ConcatEmptySeq DEF Handover, NothingLost, WriterType
  <2>3. Offered'
    BY <1>0, <2>1 DEF Offered, Offering, CallerType
  <2>4. Waiting'
    BY <1>0, <2>1, <2>2 DEF Waiting, CallerType
  <2>5. AnswersAreTrue'
    BY <2>1 DEF AnswersAreTrue
  <2> QED BY <2>3, <2>4, <2>5
<1>7. ASSUME NEW t \in Threads, SyncRet(t) PROVE AnswersInv'
  <2>1. /\ UNCHANGED <<accepted, sent, closed_, nmsgs, arg>>
        /\ pc[t] = "sync_ret" /\ pc' = [pc EXCEPT ![t] = "idle"]
        /\ arg[t] \in Msg
    BY <1>0, <1>7 DEF SyncRet, Goto, fields, transport, stream, ArgOk
  <2>2. \/ closed_ /\ outcome' = [outcome EXCEPT ![arg[t]] = "unsure"]
        \/ ~closed_ /\ outcome' = [outcome EXCEPT ![arg[t]] = "synced"]
    BY <1>7 DEF SyncRet, Answer
  <2>3. Offered'
    BY <1>0, <2>1, <2>2 DEF Offered, Offering, Waiting, CallerType
  <2>4. Waiting'
    BY <1>0, <2>1 DEF Waiting, CallerType
  <2>5. AnswersAreTrue'
    BY <1>0, <2>1, <2>2 DEF Waiting, AnswersAreTrue, CallerType
  <2> QED BY <2>3, <2>4, <2>5
<1>8. ASSUME NEW t \in Threads,
             AsyncClose(t) \/ SyncClose(t) \/ SpinClose(t) \/ Release(t)
               \/ SetHighQueueSize(t)
      PROVE  AnswersInv'
  <2>1. accepted' = accepted /\ calls' = calls /\ arg' = arg
    BY <1>0, <1>8, AcceptedStep DEF AsyncClose, SyncClose, SpinClose, Release,
                                    SetHighQueueSize, stream
  <2>2. \A u \in Threads : pc'[u] # pc[u] => pc'[u] \in {"idle", "spin_close"}
    BY <1>0, <1>8 DEF AsyncClose, SyncClose, SpinClose, Release,
                      SetHighQueueSize, Goto, CallerType
  <2> QED BY <1>0, <1>01, <2>1, <2>2, NothingOffered
<1>9. CASE BatchCompletes \/ Complete \/ Destroy \/ UNCHANGED vars
  <2>1. accepted' = accepted
    BY <1>0, <1>9, AcceptedStep, ConstantsAssumption
    DEF BatchCompletes, Destroy, vars, stream
  <2>2. calls' = calls /\ arg' = arg /\ pc' = pc
    BY <1>9 DEF BatchCompletes, Complete, Destroy, vars
  <2> QED BY <1>0, <1>01, <2>1, <2>2, NothingOffered
<1> QED
  BY <1>1, <1>2, <1>3, <1>4, <1>5, <1>6, <1>7, <1>8, <1>9
  DEF Next, Call, Resume, Yield, Done

LEMMA AnswersInit == Init => AnswersInv
<1> SUFFICES ASSUME Init PROVE AnswersInv
  OBVIOUS
<1>1. ToSet(accepted) = {}
  BY EmptySeq DEF Init, ToSet
<1>2. Offered /\ Waiting
  BY <1>1 DEF Init, Offered, Offering, Waiting
<1>3. AnswersAreTrue
  BY DEF Init, AnswersAreTrue
<1> QED BY <1>2, <1>3 DEF AnswersInv

\* A SyncWrite() that answered true has handed its message to grpc core, and a
\* message that was refused is never sent, whatever other threads do between
\* the critical sections of a call.
THEOREM AnswersTrue == SafeSpec => []AnswersAreTrue
<1>1. StreamInv /\ AnswersInv /\ [Next]_vars => (StreamInv /\ AnswersInv)'
  BY StreamInvStep, AnswersStep
<1>2. Init => StreamInv /\ AnswersInv
  BY StreamInvInit, AnswersInit
<1>3. StreamInv /\ AnswersInv => AnswersAreTrue
  BY DEF AnswersInv
<1> QED BY <1>1, <1>2, <1>3, PTL DEF SafeSpec

-------------------------------------------------------------------------------
(* ServerWriter implements OrderedStream. *)

\* The step of the ordered stream that a step of the writer is.
LEMMA StepRefines ==
  ASSUME WriterType, Handover, NothingLost, WriterStep
  PROVE  [Stream!Next]_(Stream!vars)
<1> USE DEF WriterType, Stream!vars
<1>1. ASSUME NEW m \in Msg, AsyncWriteTakes(m) PROVE Stream!Accept(m)
  <2>1. ~broken /\ ended = NoStatus /\ close_status_uptr_ = NoStatus
    BY <1>1 DEF AsyncWriteTakes, QueueMsg, SendNow, Closing, Handover
  <2>2. CASE QueueMsg(m)
    BY <2>1, <2>2 DEF QueueMsg, transport, Stream!Accept, Stream!Usable
  <2>3. CASE SendNow(m)
    <3>1. queue_ = <<>>
      BY <2>3 DEF SendNow, Handover, Closing
    <3>2. sent = accepted
      BY <2>1, <3>1, ConcatEmptySeq DEF NothingLost
    <3> QED BY <2>1, <2>3, <3>2
      DEF SendNow, SendMsgOk, Stream!Accept, Stream!Usable
  <2> QED BY <1>1, <2>2, <2>3 DEF AsyncWriteTakes
<1>2. ASSUME SendNowFails \/ SendFrontFails PROVE Stream!Break
  BY <1>2 DEF SendNowFails, SendFrontFails, SendMsgFails, Stream!Break
<1>3. ASSUME NEW s \in Status, DeferClose(s) PROVE Stream!Close(s)
  BY <1>3 DEF DeferClose, transport, stream, Closing, Stream!Close
<1>4. ASSUME NEW s \in Status, CloseNow(s) PROVE Stream!Close(s)
  <2>1. ~broken /\ ended = NoStatus /\ close_status_uptr_ = NoStatus
        /\ queue_ = <<>>
    BY <1>4 DEF CloseNow, Closing, Handover
  <2>2. sent = accepted
    BY <2>1, ConcatEmptySeq DEF NothingLost
  <2> QED BY <1>4, <2>1, <2>2
    DEF CloseNow, SendStatusOk, SendStatusFails, Stream!Close, Stream!Usable
<1>5. ASSUME SendFront PROVE Stream!Send
  <2>1. queue_ # <<>> /\ ~broken /\ ended = NoStatus
    BY <1>5 DEF SendFront, QueueIsEmpty, Handover
  <2>2. Len(sent) < Len(accepted) /\ accepted[Len(sent) + 1] = Head(queue_)
    BY <2>1, MoveFront DEF NothingLost
  <2>3. /\ sent' = Append(sent, Head(queue_))
        /\ UNCHANGED <<accepted, close_status_uptr_, ended, broken>>
    BY <1>5 DEF SendFront, SendMsgOk
  <2> QED BY <2>1, <2>2, <2>3 DEF Stream!Send, Stream!Usable
<1>6. ASSUME SendDeferredStatus PROVE Stream!End \/ Stream!Break
  <2>1. ~broken /\ ended = NoStatus /\ close_status_uptr_ # NoStatus
        /\ queue_ = <<>>
    BY <1>6 DEF SendDeferredStatus, QueueIsEmpty, Handover
  <2>2. sent = accepted
    BY <2>1, ConcatEmptySeq DEF NothingLost
  <2> QED BY <1>6, <2>1, <2>2
    DEF SendDeferredStatus, SendStatusOk, SendStatusFails, Stream!End,
        Stream!Break, Stream!Usable
<1>7. ASSUME IgnoreCall \/ IgnoreCompletion \/ GoIdle \/ QuietStep
               \/ BatchCompletes
      PROVE  UNCHANGED Stream!vars
  BY <1>7 DEF IgnoreCall, IgnoreCompletion, GoIdle, QuietStep, BatchCompletes,
              fields, transport, stream
<1> QED
  BY <1>1, <1>2, <1>3, <1>4, <1>5, <1>6, <1>7
  DEF WriterStep, AsyncWriteRefuses, AsyncCloseBody, Complete, TryToWriteNext,
      Stream!Next

\* Every behaviour of the writer, whatever its threads call and whichever
\* batches are refused, is one of an ordered stream.
THEOREM Refinement == SafeSpec => Stream!SafeSpec
<1>1. Init => Stream!Init
  BY DEF Init, Stream!Init
<1>2. StreamInv /\ [Next]_vars => [Stream!Next]_(Stream!vars)
  <2> SUFFICES ASSUME StreamInv, [Next]_vars
               PROVE  [Stream!Next]_(Stream!vars)
    OBVIOUS
  <2>1. WriterType /\ Handover /\ NothingLost /\ WriterStep
    BY TypeSplit, NextIsWriterStep DEF StreamInv, TypeInv
  <2> QED BY <2>1, StepRefines
<1> QED BY <1>1, <1>2, StreamInvHolds, PTL DEF SafeSpec, Stream!SafeSpec
==============================================================================
