--------------------- MODULE ClientAsyncReaderWriterProofs ---------------------
(* Proofs about ClientAsyncReaderWriter for any number of messages and reads *)
(* and any callbacks, but for one that sets an error status when it is told  *)
(* the normal end: it would be called again before it is reset.              *)
EXTENDS ClientAsyncReaderWriter, SequenceTheorems, TLAPS

\* Moving the front of the queue to the end of what was sent keeps the whole.
LEMMA MoveFront ==
  ASSUME NEW S, NEW s \in Seq(S), NEW q \in Seq(S), q # <<>>
  PROVE  /\ s \o q = Append(s, Head(q)) \o Tail(q)
         /\ Len(s) < Len(s \o q)
         /\ (s \o q)[Len(s) + 1] = Head(q)
<1>1. Head(q) \in S /\ Tail(q) \in Seq(S) /\ q = <<Head(q)>> \o Tail(q)
  BY HeadTailProperties
<1>2. <<Head(q)>> \in Seq(S) /\ s \o <<Head(q)>> = Append(s, Head(q))
  BY <1>1, AppendIsConcat
<1>3. s \o q = Append(s, Head(q)) \o Tail(q)
  BY <1>1, <1>2, ConcatAssociative
<1>4. Len(s) \in Nat /\ Len(q) \in Nat \ {0} /\ Head(q) = q[1]
  BY LenProperties, EmptySeq, HeadTailProperties
<1> QED BY <1>3, <1>4, ConcatProperties

QuietEnd == "SetErrorStatus" \notin Calls["end"]

-------------------------------------------------------------------------------
(* The invariants. *)

\* How callbacks nest: a status callback in a message callback or alone.
Stacks == {<<>>, <<"msg">>, <<"err">>, <<"end">>, <<"msg", "err">>}
InMsg(stk) == stk = <<"msg">> \/ stk = <<"msg", "err">>

\* A reader that was started has a read out, is in the message callback, or has
\* ended.
ReadInv ==
  /\ stack \in Stacks
  /\ reading \in {0, 1}
  /\ reading_started_ => inited_
  /\ ~reading_started_ => reading = 0
  /\ InMsg(stack) => reading_started_ /\ reading = 0
  /\ status_ = "ok" =>
       /\ reading_ended_ =>
            reading_started_ /\ reading = 0 /\ server_status # "none" /\ ~InMsg(stack)
       /\ reading_started_ /\ ~reading_ended_ => reading = 1 \/ stack = <<"msg">>

\* Whoever finds the queue empty may send, the completion callback of the one batch
\* that is out otherwise; a close that found the queue empty has been sent.
WriteInv ==
  /\ sending \in {0, 1} /\ (sending = 1 => msg_queue_ # <<>>)
  /\ has_sent_close_ => writing_closing_ /\ msg_queue_ = <<>>
  /\ half_closed => has_sent_close_
  /\ ~wrapped => writing_closing_
  /\ status_ = "ok" =>
       /\ msg_queue_ # <<>> => sending = 1
       /\ writing_closing_ /\ msg_queue_ = <<>> => has_sent_close_
       /\ has_sent_close_ => half_closed
       /\ writing_ended_ <=> half_closed

\* An error is reported, and both directions are ended, before anything else runs.
ErrorInv ==
  /\ Caller = "err" => status_ # "ok"
  /\ Caller = "end" => status_ = "ok" /\ reading_ended_ /\ writing_ended_
  /\ status_ # "ok" /\ Caller # "err" => ~status_cb_ /\ reading_ended_ /\ writing_ended_
  /\ Len(reports) <= 1
  /\ status_cb_ /\ Caller \notin {"err", "end"} => reports = <<>>
  /\ process # "assert"
  /\ process = "write" => Caller = "err"
  /\ process = "read" => Caller = "msg" /\ ~status_cb_

\* What was accepted is what was sent and the queue behind its front.
DataInv ==
  status_ = "ok" =>
    /\ accepted = IF msg_queue_ = <<>> THEN sent ELSE sent \o Tail(msg_queue_)
    /\ confirmed + sending = Len(sent)

BidiInv == TypeOK /\ ReadInv /\ WriteInv /\ ErrorInv /\ DataInv /\ OkIsTrue

-------------------------------------------------------------------------------
(* Stacks of callbacks. *)

Top(stk) == IF stk = <<>> THEN "app" ELSE stk[Len(stk)]
Front(stk) == SubSeq(stk, 1, Len(stk) - 1)

LEMMA Tops ==
  /\ Top(<<>>) = "app" /\ Top(<<"msg">>) = "msg" /\ Top(<<"err">>) = "err"
  /\ Top(<<"end">>) = "end" /\ Top(<<"msg", "err">>) = "err"
  /\ <<"msg">> # <<>> /\ <<"err">> # <<>> /\ <<"end">> # <<>> /\ <<"msg", "err">> # <<>>
  BY DEF Top

LEMMA Two ==
  /\ <<"msg", "err">> \in Seq({"msg", "err", "end"})
  /\ Len(<<"msg", "err">>) = 2 /\ <<"msg", "err">>[1] = "msg" /\ <<"msg", "err">>[2] = "err"
  OBVIOUS

LEMMA Fronts ==
  /\ Front(<<"msg">>) = <<>> /\ Front(<<"err">>) = <<>> /\ Front(<<"end">>) = <<>>
  /\ Front(<<"msg", "err">>) = <<"msg">>
<1>1. Front(<<"msg">>) = <<>> /\ Front(<<"err">>) = <<>> /\ Front(<<"end">>) = <<>>
  BY SubSeqEmpty DEF Front
<1>2. Front(<<"msg", "err">>) = <<"msg">>
  <2>. DEFINE t == <<"msg", "err">>
              u == SubSeq(t, 1, 1)
  <2>1. \A i \in 1 .. 1 : t[i] \in {"msg"}
    BY Two
  <2>2. u \in Seq({"msg"}) /\ Len(u) = 1 /\ u[1] = t[1]
    BY <2>1, SubSeqProperties
  <2>3. u \in Seq({"msg"}) /\ Len(u) = 1 /\ u[1] = "msg"
    BY <2>2, Two
  <2>4. <<"msg">> \in Seq({"msg"}) /\ Len(<<"msg">>) = 1 /\ <<"msg">>[1] = "msg"
    OBVIOUS
  <2>. HIDE DEF u
  <2>5. u = <<"msg">>
    BY <2>3, <2>4, SeqEqual
  <2>. QED  BY <2>5, Two DEF u, Front
<1>. QED  BY <1>1, <1>2

LEMMA Pushes ==
  /\ Append(<<>>, "err") = <<"err">> /\ Append(<<>>, "end") = <<"end">>
  /\ Append(<<"msg">>, "err") = <<"msg", "err">>
<1>1. Append(<<>>, "err") = <<"err">> /\ Append(<<>>, "end") = <<"end">>
  OBVIOUS
<1>2. Append(<<"msg">>, "err") = <<"msg", "err">>
  <2>. DEFINE S == {"msg", "err", "end"}
              a == Append(<<"msg">>, "err")
  <2>1. <<"msg">> \in Seq(S) /\ "err" \in S /\ Len(<<"msg">>) = 1 /\ <<"msg">>[1] = "msg"
    OBVIOUS
  <2>2. a \in Seq(S) /\ Len(a) = 2 /\ a[1] = "msg" /\ a[2] = "err"
    BY <2>1, AppendProperties
  <2>. HIDE DEF a
  <2>3. \A i \in 1 .. 2 : a[i] = <<"msg", "err">>[i]
    BY <2>2, Two
  <2>4. a = <<"msg", "err">>
    BY <2>2, <2>3, Two, SeqEqual
  <2>. QED  BY <2>4 DEF a
<1>. QED  BY <1>1, <1>2

LEMMA Outside == ~InMsg(<<>>) /\ ~InMsg(<<"err">>) /\ ~InMsg(<<"end">>)
<1>1. \A stk : InMsg(stk) => stk # <<>> /\ stk[1] = "msg"
  BY Two, Tops DEF InMsg
<1>2. <<"err">>[1] = "err" /\ <<"end">>[1] = "end"
  OBVIOUS
<1>. QED  BY <1>1, <1>2

LEMMA StackTypes == Stacks \subseteq Seq({"msg", "err", "end"})
  BY DEF Stacks

LEMMA CallerIsTop == Caller = Top(stack) /\ Outer = Front(stack)
  BY DEF Caller, Top, Outer, Front

-------------------------------------------------------------------------------
(* The parts of the functions. *)

\* No status callback is running.
Plain == {<<>>, <<"msg">>}

\* EndOnErrorStatus(): the error is reported, or nobody is to be told of it.
LEMMA FailOk ==
  ASSUME BidiInv, Caller \notin {"err", "end"}, NEW stk \in Plain, NEW done \in BOOLEAN,
         EndOnError(stk, done), status_cb_' = status_cb_, process = "up", process' = "up"
  PROVE  /\ status_' = "error" /\ stack' \in Stacks /\ (InMsg(stack') => InMsg(stk))
         /\ reports' \in Seq(StatusCodes)
         /\ reading_ended_' \in BOOLEAN /\ writing_ended_' \in BOOLEAN
         /\ ErrorInv'
         /\ reports' = reports \/ reports' = <<"error">>
<1>. USE DEF BidiInv
<1>1. reading_ended_' \in BOOLEAN /\ writing_ended_' \in BOOLEAN /\ status_' = "error"
  BY DEF EndOnError, TypeOK
<1>2. CASE status_cb_
  <2>1. reports = <<>> /\ stack' = Append(stk, "err") /\ reports' = Append(reports, "error")
    BY <1>2 DEF EndOnError, CallBack, ErrorInv
  <2>2. reports' = <<"error">> /\ Len(reports') = 1 /\ reports' \in Seq(StatusCodes)
    BY <2>1 DEF StatusCodes
  <2>3. /\ stack' \in Stacks /\ Top(stack') = "err" /\ (InMsg(stack') => InMsg(stk))
    <3>1. CASE stk = <<>>
      <4>1. stack' = <<"err">>
        BY <2>1, <3>1, Pushes
      <4>. QED  BY <4>1, Tops, Outside DEF Stacks
    <3>2. CASE stk = <<"msg">>
      <4>1. stack' = <<"msg", "err">>
        BY <2>1, <3>2, Pushes
      <4>. QED  BY <3>2, <4>1, Tops DEF Stacks, InMsg
    <3>. QED  BY <3>1, <3>2 DEF Plain
  <2>4. Caller' = "err"
    BY <2>3 DEF Caller, Top
  <2>5. ErrorInv'
    BY <1>1, <2>2, <2>4 DEF ErrorInv
  <2>. QED  BY <1>1, <2>2, <2>3, <2>5
<1>3. CASE ~status_cb_
  <2>1. stack' = stk /\ reports' = reports /\ reading_ended_' /\ writing_ended_'
    BY <1>3 DEF EndOnError, NoCallback
  <2>2. Caller' = Top(stk) /\ Top(stk) \notin {"err", "end"}
    BY <2>1, Tops DEF Caller, Top, Plain
  <2>3. ErrorInv'
    BY <1>1, <1>3, <2>1, <2>2 DEF ErrorInv
  <2>. QED  BY <1>1, <2>1, <2>3 DEF TypeOK, Plain, Stacks
<1>. QED  BY <1>2, <1>3

\* Nothing that was told OK is touched again.
LEMMA OkKeeps ==
  ASSUME OkIsTrue, reports' = reports \/ reports' = <<"error">>,
         half_closed => half_closed' /\ UNCHANGED <<sent, accepted, confirmed>>,
         server_status # "none" => server_status' # "none"
  PROVE  OkIsTrue'
<1>1. CASE reports' = reports
  BY <1>1 DEF OkIsTrue
<1>2. CASE reports' = <<"error">>
  <2>1. \A i \in DOMAIN reports' : reports'[i] = "error"
    BY <1>2
  <2>. QED  BY <2>1 DEF OkIsTrue
<1>. QED  BY <1>1, <1>2

LEMMA Callers4 ==
  ASSUME BidiInv
  PROVE  /\ Caller \in {"app", "msg", "err", "end"}
         /\ Caller \notin {"err", "end"} <=> stack \in Plain
         /\ Caller = "msg" <=> stack = <<"msg">>
  BY Tops DEF BidiInv, ReadInv, Stacks, Plain, Caller, Top

\* Whoever may write, read or close while the status is OK runs in no status callback.
LEMMA MayGoOn ==
  ASSUME BidiInv, status_ = "ok",
         ~inited_ \/ ~reading_started_ \/ ~writing_closing_ \/ ~writing_ended_
  PROVE  stack \in Plain /\ Caller \notin {"err", "end"}
<1>1. Caller # "err"
  BY DEF BidiInv, ErrorInv
<1>2. Caller # "end"
  <2>. SUFFICES ASSUME Caller = "end" PROVE FALSE
    OBVIOUS
  <2>1. reading_ended_ /\ writing_ended_
    BY DEF BidiInv, ErrorInv
  <2>2. reading_started_ /\ inited_
    BY <2>1 DEF BidiInv, ReadInv
  <2>3. writing_closing_
    BY <2>1 DEF BidiInv, WriteInv
  <2>. QED  BY <2>1, <2>2, <2>3
<1>. QED  BY <1>1, <1>2, Callers4

\* A message queued behind the others is the last of the whole.
LEMMA QueuedBehind ==
  ASSUME NEW s \in Seq(Msg), NEW q \in Seq(Msg), NEW m \in Msg
  PROVE  Append(s \o q, m) = s \o Append(q, m)
<1>1. s \o q \in Seq(Msg) /\ <<m>> \in Seq(Msg)
  BY ConcatProperties
<1>2. Append(s \o q, m) = (s \o q) \o <<m>> /\ Append(q, m) = q \o <<m>>
  BY <1>1, AppendIsConcat
<1>. QED  BY <1>1, <1>2, ConcatAssociative

-------------------------------------------------------------------------------
(* The functions keep the invariant. *)

\* Batches of Write() and ReadEach() that are refused, and SetErrorStatus().
LEMMA FailsInPlace ==
  ASSUME BidiInv, stack \in Plain, process = "up", EndOnError(stack, writing_ended_),
         msg_queue_' = msg_queue_ \/ (msg_queue_' # <<>> /\ msg_queue_' \in Seq(Msg) /\ ~has_sent_close_),
         inited_ => inited_', inited_' \in BOOLEAN, reading_started_ => reading_started_',
         reading_started_' => inited_', reading_started_' \in BOOLEAN, msg_cb_' \in BOOLEAN,
         UNCHANGED <<status_cb_, writing_closing_, has_sent_close_, wrapped, process, sent,
                     sending, reading, half_closed, server_status, accepted, confirmed, nread>>,
         nmsgs' \in 0 .. MaxMsgs
  PROVE  BidiInv'
<1>. USE DEF BidiInv
<1>1. Caller \notin {"err", "end"}
  BY Callers4
<1>2. writing_ended_ \in BOOLEAN
  BY DEF TypeOK
<1>3. /\ status_' = "error" /\ stack' \in Stacks /\ (InMsg(stack') => InMsg(stack))
      /\ reports' \in Seq(StatusCodes)
      /\ reading_ended_' \in BOOLEAN /\ writing_ended_' \in BOOLEAN
      /\ ErrorInv'
      /\ reports' = reports \/ reports' = <<"error">>
  BY <1>1, <1>2, FailOk
<1>4. TypeOK'
  BY <1>3, StackTypes DEF TypeOK, StatusCodes
<1>5. ReadInv' /\ WriteInv'
  BY <1>3 DEF ReadInv, WriteInv
<1>6. OkIsTrue'
  BY <1>3, OkKeeps
<1>. QED  BY <1>3, <1>4, <1>5, <1>6 DEF DataInv

\* A failed assertion stops everything.
LEMMA Aborted ==
  ASSUME BidiInv, nmsgs' \in 0 .. MaxMsgs,
         \/ process' = "write" /\ Caller = "err"
         \/ process' = "read" /\ Caller = "msg" /\ ~status_cb_,
         UNCHANGED <<status_, setup, status_cb_, writing_closing_, ended,
                     msg_queue_, has_sent_close_, stack, wrapped, wire,
                     server_status, accepted, confirmed, nread, reports>>
  PROVE  BidiInv'
<1>. USE DEF BidiInv, setup, ended, wire
<1>1. TypeOK'
  BY DEF TypeOK
<1>2. ReadInv' /\ WriteInv' /\ DataInv' /\ OkIsTrue'
  BY DEF ReadInv, WriteInv, DataInv, OkIsTrue
<1>3. ErrorInv'
  BY DEF ErrorInv, Caller
<1>. QED  BY <1>1, <1>2, <1>3

\* Another message is queued, or the first one is handed over.
LEMMA WriteOk ==
  ASSUME BidiInv, Write PROVE BidiInv'
<1>. USE BidiAssumption DEF BidiInv
<1>1. process = "up" /\ nmsgs' = nmsgs + 1 /\ nmsgs' \in 0 .. MaxMsgs /\ nmsgs' \in Msg
  BY DEF Write, CanCall, TypeOK, Msg
<1>2. ASSUME \/ WriteRefused \/ WriteQueued(nmsgs') \/ WriteSent(nmsgs'),
             UNCHANGED <<status_cb_, writing_closing_, has_sent_close_, wrapped,
                         reading, half_closed, server_status, confirmed, nread>>
      PROVE  BidiInv'
  <2>1. UNCHANGED <<process, msg_cb_, reading_started_>>
    BY <1>2 DEF WriteRefused, WriteQueued, WriteSent
  <2>2. CASE WriteRefused /\ InitFails
    <3>1. status_ = "ok" /\ ~inited_ /\ inited_' /\ EndOnError(stack, writing_ended_)
      BY <2>2 DEF InitFails, Refused
    <3>2. UNCHANGED <<msg_queue_, sent, sending, accepted>>
      BY <2>2 DEF WriteRefused
    <3>3. inited_' \in BOOLEAN
      BY <2>2 DEF InitFails
    <3>4. stack \in Plain
      BY <3>1, MayGoOn
    <3>. QED  BY <1>1, <1>2, <2>1, <3>1, <3>2, <3>3, <3>4, FailsInPlace DEF TypeOK, ReadInv
  <2>3. CASE WriteRefused /\ InitOk /\ UNCHANGED <<status_, ended, stack, reports>>
    <3>1. UNCHANGED <<msg_queue_, sent, sending, accepted>> /\ inited_' = TRUE
      BY <2>3 DEF WriteRefused, InitOk
    <3>2. UNCHANGED <<status_, reading_ended_, writing_ended_, stack, reports>>
      BY <2>3 DEF ended
    <3>3. TypeOK'
      BY <1>1, <1>2, <2>1, <3>1, <3>2 DEF TypeOK
    <3>4. ReadInv' /\ WriteInv' /\ DataInv'
      BY <1>2, <2>1, <3>1, <3>2 DEF ReadInv, WriteInv, DataInv
    <3>5. ErrorInv' /\ OkIsTrue'
      BY <1>2, <2>1, <3>1, <3>2 DEF ErrorInv, OkIsTrue, Caller
    <3>. QED  BY <3>3, <3>4, <3>5
  <2>4. CASE WriteQueued(nmsgs')
    <3>1. /\ UNCHANGED <<status_, reading_ended_, writing_ended_, stack, reports, sent, sending>>
          /\ inited_' = TRUE /\ status_ = "ok" /\ ~writing_closing_ /\ msg_queue_ # <<>>
          /\ msg_queue_' = Append(msg_queue_, nmsgs') /\ accepted' = Append(accepted, nmsgs')
      BY <2>4 DEF WriteQueued, InitOk, ended
    <3>2. msg_queue_ \in Seq(Msg) /\ accepted \in Seq(Msg) /\ sent \in Seq(Msg)
      BY DEF TypeOK
    <3>3. /\ msg_queue_' \in Seq(Msg) /\ accepted' \in Seq(Msg) /\ msg_queue_' # <<>>
          /\ Tail(msg_queue_') = Append(Tail(msg_queue_), nmsgs')
      <4>1. Tail(Append(msg_queue_, nmsgs')) = Append(Tail(msg_queue_), nmsgs')
        BY <1>1, <3>1, <3>2, HeadTailAppend
      <4>. QED  BY <1>1, <3>1, <3>2, <4>1, AppendProperties
    <3>4. TypeOK'
      BY <1>1, <1>2, <2>1, <3>1, <3>3 DEF TypeOK
    <3>5. ReadInv' /\ WriteInv'
      BY <1>2, <2>1, <3>1, <3>3 DEF ReadInv, WriteInv
    <3>6. ErrorInv'
      BY <1>2, <2>1, <3>1 DEF ErrorInv, Caller
    <3>7. OkIsTrue'
      BY <1>2, <3>1, OkKeeps DEF WriteInv
    <3>8. DataInv'
      <4>1. accepted = sent \o Tail(msg_queue_) /\ Tail(msg_queue_) \in Seq(Msg)
        BY <3>1, <3>2, HeadTailProperties DEF DataInv
      <4>2. accepted' = sent \o Tail(msg_queue_')
        <5>1. Append(sent \o Tail(msg_queue_), nmsgs') = sent \o Append(Tail(msg_queue_), nmsgs')
          <6>. DEFINE t == Tail(msg_queue_)
                      m == nmsgs'
          <6>1. sent \in Seq(Msg) /\ t \in Seq(Msg) /\ m \in Msg
            BY <1>1, <3>2, <4>1
          <6>. HIDE DEF t, m
          <6>2. Append(sent \o t, m) = sent \o Append(t, m)
            BY ONLY <6>1, QueuedBehind
          <6>. QED  BY <6>2 DEF t, m
        <5>. QED  BY <3>1, <3>3, <4>1, <5>1
      <4>. QED  BY <1>2, <3>1, <3>3, <4>2 DEF DataInv
    <3>. QED  BY <3>4, <3>5, <3>6, <3>7, <3>8
  <2>5. CASE WriteSent(nmsgs')
    <3>1. /\ inited_' = TRUE /\ status_ = "ok" /\ ~writing_closing_ /\ ~writing_ended_
          /\ msg_queue_ = <<>> /\ msg_queue_' = <<nmsgs'>>
      BY <2>5 DEF WriteSent, InitOk
    <3>2. msg_queue_' \in Seq(Msg) /\ msg_queue_' # <<>> /\ Tail(msg_queue_') = <<>>
      BY <1>1, <3>1
    <3>3. sending = 0 /\ ~has_sent_close_ /\ ~half_closed
      BY <3>1 DEF WriteInv
    <3>4. CASE Refused(stack) /\ UNCHANGED <<sent, sending, accepted>>
      <4>1. stack \in Plain /\ EndOnError(stack, writing_ended_)
        BY <3>1, <3>4, MayGoOn DEF Refused
      <4>. QED
        BY <1>1, <1>2, <2>1, <3>1, <3>2, <3>3, <3>4, <4>1, FailsInPlace DEF TypeOK, ReadInv
    <3>5. CASE /\ sent' = Append(sent, nmsgs') /\ sending' = sending + 1
               /\ accepted' = Append(accepted, nmsgs')
               /\ UNCHANGED <<status_, ended, stack, reports>>
      <4>1. UNCHANGED <<status_, reading_ended_, writing_ended_, stack, reports>> /\ sending' = 1
        BY <3>3, <3>5 DEF ended
      <4>2. sent \in Seq(Msg) /\ accepted \in Seq(Msg) /\ accepted = sent
        BY <3>1 DEF TypeOK, DataInv
      <4>3. sent' \in Seq(Msg) /\ accepted' = sent' /\ Len(sent') = Len(sent) + 1
        BY <1>1, <3>5, <4>2, AppendProperties
      <4>4. TypeOK'
        BY <1>1, <1>2, <2>1, <3>1, <3>2, <4>1, <4>3 DEF TypeOK
      <4>5. ReadInv' /\ WriteInv'
        BY <1>2, <2>1, <3>1, <3>2, <3>3, <4>1 DEF ReadInv, WriteInv
      <4>6. ErrorInv'
        BY <1>2, <2>1, <3>1, <4>1 DEF ErrorInv, Caller
      <4>7. OkIsTrue'
        BY <1>2, <3>3, <4>1, OkKeeps
      <4>8. DataInv'
        <5>1. accepted' = sent' \o Tail(msg_queue_')
          BY <3>2, <4>3, ConcatEmptySeq
        <5>2. confirmed' + sending' = Len(sent')
          BY <1>2, <3>1, <3>3, <4>1, <4>3 DEF DataInv, TypeOK
        <5>. QED  BY <3>2, <5>1, <5>2 DEF DataInv
      <4>. QED  BY <4>4, <4>5, <4>6, <4>7, <4>8
    <3>. QED  BY <2>5, <3>4, <3>5 DEF WriteSent
  <2>. QED  BY <1>2, <2>2, <2>3, <2>4, <2>5 DEF WriteRefused
<1>3. ASSUME status_ # "ok", ~(reading_ended_ /\ writing_ended_), Abort("write")
      PROVE  BidiInv'
  <2>1. process' = "write" /\ Caller = "err"
    BY <1>3 DEF Abort, ErrorInv
  <2>2. UNCHANGED <<status_, setup, status_cb_, writing_closing_, ended,
                    msg_queue_, has_sent_close_, stack, wrapped, wire,
                    server_status, accepted, confirmed, nread, reports>>
    BY <1>3 DEF Abort
  <2>. QED  BY <1>1, <2>1, <2>2, Aborted
<1>. QED  BY <1>2, <1>3 DEF Write

\* Closing: the half-close of an empty queue goes out, or is left to OnSent().
LEMMA CloseBodyOk ==
  ASSUME BidiInv, CloseWritingBody, process = "up",
         wrapped' \in BOOLEAN
  PROVE  BidiInv'
<1>. USE DEF BidiInv
<1>1. /\ UNCHANGED <<status_cb_, msg_cb_, inited_, reading_started_, msg_queue_, sent, sending,
                     reading, server_status, accepted, confirmed, nmsgs, nread>>
  BY DEF CloseWritingBody, setup
<1>2. ~(MustSendClose /\ has_sent_close_)
  BY DEF MustSendClose, WriteInv
<1>3. writing_closing_' = TRUE /\ process' = "up"
  BY <1>2 DEF CloseWritingBody
<1>4. CASE ~MustSendClose
  <2>1. UNCHANGED <<has_sent_close_, status_, reading_ended_, writing_ended_, stack, reports,
                    half_closed>>
    BY <1>4 DEF CloseWritingBody, ended
  <2>2. TypeOK' /\ ReadInv' /\ DataInv'
    BY <1>1, <1>3, <2>1 DEF TypeOK, ReadInv, DataInv
  <2>3. WriteInv'
    BY <1>1, <1>3, <1>4, <2>1 DEF WriteInv, MustSendClose
  <2>4. ErrorInv' /\ OkIsTrue'
    BY <1>1, <1>3, <2>1 DEF ErrorInv, OkIsTrue, Caller
  <2>. QED  BY <2>2, <2>3, <2>4
<1>5. CASE MustSendClose
  <2>1. /\ status_ = "ok" /\ msg_queue_ = <<>> /\ ~writing_closing_ /\ ~has_sent_close_
        /\ SendClose(stack, NoCallback(stack)) /\ has_sent_close_'
    BY <1>2, <1>5 DEF CloseWritingBody, MustSendClose, SendClose
  <2>2. stack \in Plain /\ Caller \notin {"err", "end"}
    BY <2>1, MayGoOn
  <2>3. ~half_closed /\ sending = 0
    BY <2>1 DEF WriteInv
  <2>4. CASE /\ half_closed' = TRUE /\ writing_ended_' = TRUE /\ NoCallback(stack)
             /\ UNCHANGED <<status_, reading_ended_>>
    <3>1. stack' = stack /\ reports' = reports
      BY <2>4 DEF NoCallback
    <3>2. TypeOK'
      BY <1>1, <1>3, <2>1, <2>4, <3>1 DEF TypeOK, SendClose
    <3>3. ReadInv' /\ WriteInv' /\ DataInv'
      BY <1>1, <1>3, <2>1, <2>3, <2>4, <3>1 DEF ReadInv, WriteInv, DataInv
    <3>4. ErrorInv'
      BY <1>1, <1>3, <2>1, <2>2, <2>4, <3>1 DEF ErrorInv, Caller
    <3>5. OkIsTrue'
      BY <1>1, <2>3, <3>1, OkKeeps
    <3>. QED  BY <3>2, <3>3, <3>4, <3>5
  <2>5. CASE EndOnError(stack, TRUE) /\ UNCHANGED half_closed
    <3>1. /\ status_' = "error" /\ stack' \in Stacks /\ (InMsg(stack') => InMsg(stack))
          /\ reports' \in Seq(StatusCodes)
          /\ reading_ended_' \in BOOLEAN /\ writing_ended_' \in BOOLEAN
          /\ ErrorInv'
          /\ reports' = reports \/ reports' = <<"error">>
      BY <1>1, <1>3, <2>2, <2>5, FailOk
    <3>2. TypeOK'
      BY <1>1, <1>3, <2>1, <2>5, <3>1, StackTypes DEF TypeOK, StatusCodes, SendClose
    <3>3. ReadInv' /\ WriteInv'
      BY <1>1, <1>3, <2>1, <2>5, <3>1 DEF ReadInv, WriteInv
    <3>4. OkIsTrue'
      BY <1>1, <2>3, <3>1, OkKeeps
    <3>. QED  BY <3>1, <3>2, <3>3, <3>4 DEF DataInv
  <2>. QED  BY <2>1, <2>4, <2>5 DEF SendClose
<1>. QED  BY <1>4, <1>5

LEMMA ReadEachOk ==
  ASSUME BidiInv, ReadEach PROVE BidiInv'
<1>. USE DEF BidiInv
<1>1. /\ UNCHANGED <<status_cb_, writing_closing_, msg_queue_, has_sent_close_,
                     wrapped, process, sent, sending, half_closed, server_status,
                     accepted, confirmed, nmsgs, nread>>
      /\ process = "up" /\ ~reading_started_ /\ reading_started_' = TRUE
      /\ inited_' = TRUE
  BY DEF ReadEach, CanCall, InitFails, InitOk
<1>2. reading = 0 /\ ~InMsg(stack) /\ msg_cb_' \in BOOLEAN /\ nmsgs' \in 0 .. MaxMsgs
  BY <1>1 DEF ReadEach, ReadInv, TypeOK
<1>3. CASE EndOnError(stack, writing_ended_) /\ UNCHANGED reading /\ status_ = "ok"
  <2>1. stack \in Plain
    BY <1>1, <1>3, MayGoOn
  <2>. QED  BY <1>1, <1>2, <1>3, <2>1, FailsInPlace
<1>4. CASE /\ status_ # "ok"
           /\ UNCHANGED <<reading, status_, ended, stack, reports>>
  <2>1. UNCHANGED <<reading, status_, reading_ended_, writing_ended_, stack, reports>>
    BY <1>4 DEF ended
  <2>2. TypeOK' /\ ReadInv' /\ WriteInv' /\ DataInv'
    BY <1>1, <1>2, <1>4, <2>1 DEF TypeOK, ReadInv, WriteInv, DataInv
  <2>3. ErrorInv' /\ OkIsTrue'
    BY <1>1, <2>1 DEF ErrorInv, OkIsTrue, Caller
  <2>. QED  BY <2>2, <2>3
<1>5. CASE status_ = "ok" /\ ReadNextOk /\ NoCallback(stack)
  <2>1. /\ UNCHANGED <<status_, reading_ended_, writing_ended_, stack, reports>>
        /\ reading' = 1
    BY <1>2, <1>5 DEF ReadNextOk, NoCallback, ended
  <2>2. ~reading_ended_
    BY <1>1, <1>5 DEF ReadInv
  <2>3. TypeOK' /\ ReadInv'
    BY <1>1, <1>2, <2>1, <2>2 DEF TypeOK, ReadInv
  <2>4. WriteInv' /\ DataInv'
    BY <1>1, <2>1 DEF WriteInv, DataInv
  <2>5. ErrorInv' /\ OkIsTrue'
    BY <1>1, <2>1 DEF ErrorInv, OkIsTrue, Caller
  <2>. QED  BY <2>3, <2>4, <2>5
<1>. QED  BY <1>3, <1>4, <1>5 DEF ReadEach, InitFails, Refused

LEMMA SetErrorOk ==
  ASSUME BidiInv, QuietEnd, SetErrorStatus PROVE BidiInv'
<1>. USE DEF BidiInv
<1>1. /\ UNCHANGED <<msg_cb_, inited_, reading_started_, status_cb_, writing_closing_, msg_queue_,
                     has_sent_close_, wrapped, process, sent, sending, reading, half_closed,
                     server_status, accepted, confirmed, nmsgs, nread>>
      /\ process = "up" /\ EndOnError(stack, writing_ended_)
  BY DEF SetErrorStatus, CanCall, setup, wire
<1>2. Caller \notin {"err", "end"}
  BY DEF SetErrorStatus, CanCall, QuietEnd, ErrorInv
<1>3. stack \in Plain
  BY <1>2, Callers4
<1>. QED  BY <1>1, <1>3, FailsInPlace DEF TypeOK, ReadInv

-------------------------------------------------------------------------------
(* The completion callbacks keep it. *)

\* CallStatusCb() at the normal end.
LEMMA EndOk ==
  ASSUME BidiInv, stack \in Plain, CallStatusCb(<<>>), status_ = "ok", status_' = "ok",
         reading_ended_' = TRUE, writing_ended_' = TRUE, status_cb_' = status_cb_, process = "up",
         process' = "up"
  PROVE  /\ stack' \in Stacks /\ ~InMsg(stack') /\ ErrorInv'
         /\ reports' \in Seq(StatusCodes)
         /\ reports' = reports \/ reports' = <<"ok">>
<1>. USE DEF BidiInv
<1>0. Caller \notin {"err", "end"}
  BY Callers4
<1>1. CASE status_cb_
  <2>1. reports = <<>> /\ stack' = Append(<<>>, "end") /\ reports' = Append(reports, "ok")
    BY <1>0, <1>1 DEF CallStatusCb, CallBack, ErrorInv
  <2>2. stack' = <<"end">> /\ reports' = <<"ok">>
    BY <2>1, Pushes
  <2>3. Len(reports') = 1 /\ reports' \in Seq(StatusCodes)
    BY <2>2 DEF StatusCodes
  <2>4. Caller' = "end"
    BY <2>2, Tops DEF Caller, Top
  <2>5. ErrorInv'
    BY <2>3, <2>4 DEF ErrorInv
  <2>. QED  BY <2>2, <2>3, <2>5, Outside DEF Stacks
<1>2. CASE ~status_cb_
  <2>1. stack' = <<>> /\ reports' = reports
    BY <1>2 DEF CallStatusCb, NoCallback
  <2>2. Caller' = "app"
    BY <2>1 DEF Caller
  <2>3. ErrorInv'
    BY <1>2, <2>1, <2>2 DEF ErrorInv
  <2>. QED  BY <2>1, <2>3, Outside DEF Stacks, TypeOK
<1>. QED  BY <1>1, <1>2

\* Without a callback nothing changes for the errors.
LEMMA QuietOk ==
  ASSUME BidiInv, stack' = stack, reports' = reports, status_' = status_, status_ = "ok",
         reading_ended_ => reading_ended_', writing_ended_ => writing_ended_',
         UNCHANGED <<status_cb_, process>>
  PROVE  ErrorInv'
  BY DEF BidiInv, ErrorInv, Caller

\* What OnSent() finds, and does in any case.
Finds(success) ==
  /\ stack = <<>> /\ stack \in Plain /\ Caller = "app" /\ process = "up"
  /\ sending = 1 /\ msg_queue_ # <<>> /\ ~has_sent_close_ /\ ~half_closed
  /\ msg_queue_' = Popped /\ Popped \in Seq(Msg)
  /\ confirmed' = confirmed + (IF success THEN 1 ELSE 0) /\ confirmed' \in Nat
  /\ UNCHANGED <<msg_cb_, inited_, reading_started_, status_cb_, writing_closing_, wrapped,
                 process, reading, server_status, accepted, nread, nmsgs>>

LEMMA SentFinds ==
  ASSUME BidiInv, NEW success \in BOOLEAN, OnSent(success)
  PROVE  /\ Finds(success)
         /\ \/ SentTooLate /\ ~status_cb_
            \/ ~success /\ SentBadly
            \/ success /\ SentOne
            \/ success /\ SentAll
<1>1. /\ stack = <<>> /\ process = "up" /\ sending = 1 /\ msg_queue_ # <<>>
      /\ ~has_sent_close_ /\ ~half_closed
  BY DEF OnSent, Unlocked, BidiInv, WriteInv, TypeOK
<1>2. Caller = "app"
  BY <1>1 DEF Caller
<1>3. status_ # "ok" => ~status_cb_
  BY <1>2 DEF BidiInv, ErrorInv
<1>4. Popped \in Seq(Msg)
  BY <1>1, HeadTailProperties DEF BidiInv, TypeOK, Popped
<1>5. /\ msg_queue_' = Popped /\ confirmed' = confirmed + (IF success THEN 1 ELSE 0)
      /\ \/ SentTooLate /\ ~status_cb_
         \/ ~success /\ SentBadly
         \/ success /\ SentOne
         \/ success /\ SentAll
      /\ UNCHANGED <<msg_cb_, inited_, reading_started_, status_cb_, writing_closing_, wrapped,
                     process, reading, server_status, accepted, nread, nmsgs>>
  BY <1>1, <1>3 DEF OnSent, setup
<1>6. confirmed' \in Nat
  BY <1>5 DEF BidiInv, TypeOK
<1>. QED  BY <1>1, <1>2, <1>4, <1>5, <1>6 DEF Plain, Finds

\* A batch fails, or the next one or the half-close behind it is refused.
LEMMA SentFails ==
  ASSUME BidiInv, NEW success \in BOOLEAN, Finds(success), NEW done \in BOOLEAN,
         EndOnError(<<>>, done), sending' = 0, sent' = sent, half_closed' = half_closed,
         has_sent_close_' \in BOOLEAN,
         has_sent_close_' => writing_closing_ /\ Popped = <<>>
  PROVE  BidiInv'
<1>. USE DEF BidiInv, Finds
<1>1. /\ status_' = "error" /\ stack' \in Stacks /\ (InMsg(stack') => InMsg(<<>>))
      /\ reports' \in Seq(StatusCodes)
      /\ reading_ended_' \in BOOLEAN /\ writing_ended_' \in BOOLEAN
      /\ ErrorInv'
      /\ reports' = reports \/ reports' = <<"error">>
  BY FailOk DEF Plain
<1>2. TypeOK'
  BY <1>1, StackTypes DEF TypeOK, StatusCodes
<1>3. ReadInv'
  BY <1>1, Outside DEF ReadInv
<1>4. WriteInv'
  BY <1>1 DEF WriteInv
<1>5. OkIsTrue'
  BY <1>1, OkKeeps
<1>. QED  BY <1>1, <1>2, <1>3, <1>4, <1>5 DEF DataInv

LEMMA SentOneOk ==
  ASSUME BidiInv, Finds(TRUE), SentOne PROVE BidiInv'
<1>. USE DEF BidiInv
<1>1. status_ = "ok" /\ Popped # <<>> /\ UNCHANGED <<has_sent_close_, half_closed>>
  BY DEF SentOne
<1>2. CASE Refused(<<>>) /\ sending' = sending - 1 /\ UNCHANGED sent
  <2>1. sending' = 0 /\ EndOnError(<<>>, writing_ended_)
    BY <1>2 DEF Refused, Finds
  <2>2. writing_ended_ \in BOOLEAN /\ has_sent_close_' \in BOOLEAN /\ ~has_sent_close_'
    BY <1>1 DEF TypeOK, Finds
  <2>. QED  BY <1>1, <1>2, <2>1, <2>2, SentFails
<1>3. CASE /\ sent' = Append(sent, Head(Popped))
           /\ UNCHANGED <<sending, status_, ended, stack, reports>>
  <2>1. /\ UNCHANGED <<sending, status_, reading_ended_, writing_ended_, stack, reports>>
        /\ sending = 1 /\ msg_queue_' = Popped /\ Popped \in Seq(Msg)
    BY <1>3 DEF ended, Finds
  <2>2. /\ accepted = sent \o Popped /\ sent \in Seq(Msg) /\ Len(sent) = confirmed + 1
    BY <1>1, <2>1 DEF Finds, Popped, DataInv, TypeOK
  <2>3. Head(Popped) \in Msg /\ sent' \in Seq(Msg) /\ Len(sent') = Len(sent) + 1
    BY <1>1, <1>3, <2>1, <2>2, HeadTailProperties, AppendProperties
  <2>4. accepted' = sent' \o Tail(msg_queue_')
    <3>1. sent \o Popped = Append(sent, Head(Popped)) \o Tail(Popped)
      BY <1>1, <2>1, <2>2, MoveFront
    <3>. QED  BY <1>3, <2>1, <2>2, <3>1 DEF Finds
  <2>5. TypeOK'
    BY <1>1, <2>1, <2>3 DEF TypeOK, Finds
  <2>6. ReadInv' /\ WriteInv'
    BY <1>1, <2>1 DEF ReadInv, WriteInv, Finds
  <2>7. ErrorInv'
    BY <1>1, <2>1, QuietOk DEF Finds
  <2>8. OkIsTrue'
    BY <2>1, OkKeeps DEF Finds
  <2>9. confirmed' + sending' = Len(sent')
    <3>1. confirmed' = confirmed + 1 /\ confirmed \in Nat
      BY DEF Finds, TypeOK
    <3>. QED  BY <2>1, <2>2, <2>3, <3>1
  <2>10. DataInv'
    BY <1>1, <2>1, <2>4, <2>9 DEF DataInv
  <2>. QED  BY <2>5, <2>6, <2>7, <2>8, <2>10
<1>. QED  BY <1>2, <1>3 DEF SentOne

LEMMA SentAllOk ==
  ASSUME BidiInv, Finds(TRUE), SentAll PROVE BidiInv'
<1>. USE DEF BidiInv
<1>1. status_ = "ok" /\ Popped = <<>> /\ sending' = 0 /\ sent' = sent
  BY DEF SentAll, Finds
<1>2. accepted = sent /\ sent \in Seq(Msg) /\ confirmed' = Len(sent)
  <2>1. accepted = sent \o <<>> /\ sent \in Seq(Msg)
    BY <1>1 DEF Finds, Popped, DataInv, TypeOK
  <2>2. confirmed + 1 = Len(sent) /\ confirmed' = confirmed + 1
    BY <1>1 DEF Finds, DataInv
  <2>. QED  BY <2>1, <2>2, ConcatEmptySeq
<1>3. DataInv'
  <2>1. accepted' = sent' /\ msg_queue_' = <<>>
    BY <1>1, <1>2 DEF Finds
  <2>2. confirmed' + sending' = Len(sent')
    BY <1>1, <1>2, LenProperties
  <2>. QED  BY <2>1, <2>2 DEF DataInv
<1>4. CASE ~writing_closing_
  <2>1. UNCHANGED <<status_, reading_ended_, writing_ended_, stack, reports, has_sent_close_,
                    half_closed>>
    BY <1>4 DEF SentAll, ended
  <2>2. TypeOK' /\ ReadInv' /\ WriteInv'
    BY <1>1, <1>4, <2>1 DEF TypeOK, ReadInv, WriteInv, Finds
  <2>3. ErrorInv'
    BY <1>1, <2>1, QuietOk DEF Finds
  <2>4. OkIsTrue'
    BY <2>1, OkKeeps DEF Finds
  <2>. QED  BY <1>3, <2>2, <2>3, <2>4
<1>5. CASE writing_closing_ /\ EndOnError(<<>>, TRUE) /\ UNCHANGED half_closed /\ has_sent_close_' = TRUE
  BY <1>1, <1>5, SentFails
<1>6. CASE /\ writing_closing_ /\ has_sent_close_' = TRUE
           /\ half_closed' = TRUE /\ writing_ended_' = TRUE
           /\ IF reading_ended_ THEN CallStatusCb(<<>>) ELSE NoCallback(<<>>)
           /\ UNCHANGED <<status_, reading_ended_>>
  <2>1. /\ stack' \in Stacks /\ ~InMsg(stack') /\ ErrorInv'
        /\ reports' \in Seq(StatusCodes)
        /\ reports' = reports \/ (reports' = <<"ok">> /\ reading_ended_)
    <3>1. CASE reading_ended_
      <4>1. /\ stack \in Plain /\ CallStatusCb(<<>>) /\ status_' = "ok" /\ process = "up"
            /\ status_cb_' = status_cb_ /\ process' = "up"
        BY <1>1, <1>6, <3>1 DEF Finds
      <4>2. reading_ended_' = TRUE /\ writing_ended_' = TRUE
        BY <1>6, <3>1 DEF TypeOK
      <4>. QED  BY <1>1, <3>1, <4>1, <4>2, EndOk
    <3>2. CASE ~reading_ended_
      <4>1. stack' = <<>> /\ reports' = reports
        BY <1>6, <3>2 DEF NoCallback
      <4>2. ErrorInv'
        BY <1>1, <1>6, <4>1, QuietOk DEF Finds
      <4>. QED  BY <4>1, <4>2, Outside DEF Stacks, TypeOK
    <3>. QED  BY <3>1, <3>2
  <2>2. TypeOK'
    BY <1>1, <1>6, <2>1, StackTypes DEF TypeOK, Finds
  <2>3. ReadInv'
    BY <1>1, <1>6, <2>1, Tops DEF ReadInv, Finds
  <2>4. WriteInv'
    BY <1>1, <1>6 DEF WriteInv, Finds
  <2>5. OkIsTrue'
    <3>1. CASE reports' = reports
      BY <3>1, OkKeeps DEF Finds
    <3>2. CASE reading_ended_
      <4>1. server_status' # "none" /\ half_closed' /\ sent' = accepted' /\ confirmed' = Len(accepted')
        BY <1>1, <1>2, <1>6, <3>2 DEF ReadInv, Finds
      <4>. QED  BY <4>1 DEF OkIsTrue
    <3>. QED  BY <2>1, <3>1, <3>2
  <2>. QED  BY <1>3, <2>1, <2>2, <2>3, <2>4, <2>5
<1>. QED  BY <1>4, <1>5, <1>6 DEF SentAll, SendClose

LEMMA SentOk ==
  ASSUME BidiInv, NEW success \in BOOLEAN, OnSent(success) PROVE BidiInv'
<1>. USE DEF BidiInv
<1>1. Finds(success)
  BY SentFinds
<1>2. CASE SentTooLate /\ ~status_cb_
  <2>1. /\ status_ # "ok" /\ sending' = 0
        /\ UNCHANGED <<status_, reading_ended_, writing_ended_, stack, reports, sent,
                       has_sent_close_, half_closed>>
    BY <1>1, <1>2 DEF SentTooLate, ended, Finds
  <2>2. TypeOK' /\ ReadInv' /\ WriteInv' /\ DataInv'
    BY <1>1, <2>1 DEF TypeOK, ReadInv, WriteInv, DataInv, Finds
  <2>3. ErrorInv'
    BY <1>1, <2>1 DEF ErrorInv, Caller, Finds
  <2>4. OkIsTrue'
    BY <1>1, <2>1, OkKeeps DEF Finds
  <2>. QED  BY <2>2, <2>3, <2>4
<1>3. CASE SentBadly
  <2>1. /\ EndOnError(<<>>, writing_ended_) /\ sending' = 0
        /\ UNCHANGED <<sent, has_sent_close_, half_closed>>
    BY <1>1, <1>3 DEF SentBadly, Finds
  <2>2. writing_ended_ \in BOOLEAN /\ has_sent_close_' \in BOOLEAN /\ ~has_sent_close_'
    BY <1>1, <2>1 DEF TypeOK, Finds
  <2>. QED  BY <1>1, <2>1, <2>2, SentFails
<1>4. CASE success /\ (SentOne \/ SentAll)
  BY <1>1, <1>4, SentOneOk, SentAllOk DEF Finds
<1>. QED  BY <1>2, <1>3, <1>4, SentFinds

\* A read that fails or whose message callback does, or a next one that is refused.
LEMMA ReadFails ==
  ASSUME BidiInv, stack \in Plain, process = "up", EndOnError(<<>>, writing_ended_),
         reading' = 0, nread' \in 0 .. MaxReads,
         UNCHANGED <<msg_cb_, inited_, reading_started_, status_cb_, writing_closing_, msg_queue_,
                     has_sent_close_, wrapped, process, sent, sending, half_closed,
                     server_status, accepted, confirmed, nmsgs>>
  PROVE  BidiInv'
<1>. USE DEF BidiInv
<1>1. writing_ended_ \in BOOLEAN /\ Caller \notin {"err", "end"}
  BY Callers4 DEF TypeOK
<1>2. /\ status_' = "error" /\ stack' \in Stacks /\ (InMsg(stack') => InMsg(<<>>))
      /\ reports' \in Seq(StatusCodes)
      /\ reading_ended_' \in BOOLEAN /\ writing_ended_' \in BOOLEAN
      /\ ErrorInv'
      /\ reports' = reports \/ reports' = <<"error">>
  BY <1>1, FailOk DEF Plain
<1>3. TypeOK'
  BY <1>2, StackTypes DEF TypeOK, StatusCodes
<1>4. ReadInv' /\ WriteInv'
  BY <1>2, Outside DEF ReadInv, WriteInv
<1>5. OkIsTrue'
  BY <1>2, OkKeeps
<1>. QED  BY <1>2, <1>3, <1>4, <1>5 DEF DataInv

LEMMA ReadEndOk ==
  ASSUME BidiInv, stack = <<>>, process = "up", reading = 1, ReadEnd, reading' = 0,
         UNCHANGED <<msg_cb_, inited_, reading_started_, status_cb_, writing_closing_, msg_queue_,
                     has_sent_close_, wrapped, process, sent, sending, half_closed,
                     accepted, confirmed, nmsgs>>
  PROVE  BidiInv'
<1>. USE DEF BidiInv
<1>1. /\ status_ = "ok" /\ server_status' \in StatusCodes /\ reading_ended_' = TRUE
      /\ UNCHANGED <<status_, writing_ended_, nread>>
  BY DEF ReadEnd
<1>2. server_status' # "none"
  BY <1>1 DEF StatusCodes
<1>3. /\ stack' \in Stacks /\ ~InMsg(stack') /\ ErrorInv'
      /\ reports' \in Seq(StatusCodes)
      /\ reports' = reports \/ (reports' = <<"ok">> /\ writing_ended_)
  <2>1. CASE writing_ended_
    <3>1. stack \in Plain /\ CallStatusCb(<<>>) /\ status_' = "ok"
      BY <1>1, <2>1 DEF ReadEnd, Plain
    <3>2. reading_ended_' = TRUE /\ writing_ended_' = TRUE
      BY <1>1, <2>1 DEF TypeOK
    <3>. QED  BY <1>1, <2>1, <3>1, <3>2, EndOk
  <2>2. CASE ~writing_ended_
    <3>1. stack' = <<>> /\ reports' = reports
      BY <2>2 DEF ReadEnd, NoCallback
    <3>2. ErrorInv'
      BY <1>1, <3>1, QuietOk
    <3>. QED  BY <3>1, <3>2, Outside DEF Stacks, TypeOK
  <2>. QED  BY <2>1, <2>2
<1>4. TypeOK'
  BY <1>1, <1>3, StackTypes DEF TypeOK
<1>5. ReadInv'
  BY <1>1, <1>2, <1>3 DEF ReadInv
<1>6. WriteInv' /\ DataInv'
  BY <1>1 DEF WriteInv, DataInv
<1>7. OkIsTrue'
  <2>1. CASE reports' = reports
    BY <1>2, <2>1, OkKeeps
  <2>2. CASE writing_ended_
    <3>1. half_closed /\ msg_queue_ = <<>> /\ sending = 0
      BY <1>1, <2>2 DEF WriteInv
    <3>2. sent = accepted /\ confirmed = Len(sent)
      BY <1>1, <3>1 DEF DataInv, TypeOK
    <3>. QED  BY <1>2, <3>1, <3>2 DEF OkIsTrue
  <2>. QED  BY <1>3, <2>1, <2>2
<1>. QED  BY <1>3, <1>4, <1>5, <1>6, <1>7

LEMMA ReadOk ==
  ASSUME BidiInv, OnRead PROVE BidiInv'
<1>. USE DEF BidiInv
<1>1. stack = <<>> /\ process = "up" /\ reading = 1 /\ Caller = "app" /\ reading_started_ /\ inited_
  BY DEF OnRead, Unlocked, ReadCompletes, ReadInv, Caller
<1>2. status_ # "ok" => ~status_cb_
  BY <1>1 DEF ErrorInv
<1>3. UNCHANGED <<msg_cb_, inited_, reading_started_, status_cb_, writing_closing_, msg_queue_,
                  has_sent_close_, wrapped, sent, sending, half_closed, accepted, confirmed, nmsgs>>
  BY DEF OnRead, setup
<1>4. stack \in Plain /\ nread \in 0 .. MaxReads
  BY <1>1 DEF Plain, TypeOK
<1>5. CASE ReadTooLate /\ reading' = reading - 1 /\ UNCHANGED process
  <2>1. /\ status_ # "ok" /\ reading' = 0
        /\ UNCHANGED <<status_, reading_ended_, writing_ended_, stack, reports, server_status, nread>>
    BY <1>1, <1>5 DEF ReadTooLate, ended
  <2>2. TypeOK' /\ ReadInv' /\ WriteInv' /\ DataInv'
    BY <1>1, <1>3, <1>5, <2>1 DEF TypeOK, ReadInv, WriteInv, DataInv
  <2>3. ErrorInv' /\ OkIsTrue'
    BY <1>3, <1>5, <2>1 DEF ErrorInv, OkIsTrue, Caller
  <2>. QED  BY <2>2, <2>3
<1>6. CASE ReadBadly /\ reading' = reading - 1 /\ UNCHANGED process
  <2>1. /\ EndOnError(<<>>, writing_ended_) /\ reading' = 0
        /\ UNCHANGED <<server_status, nread>>
    BY <1>1, <1>6 DEF ReadBadly
  <2>. QED  BY <1>1, <1>3, <1>4, <1>6, <2>1, ReadFails
<1>7. CASE ReadEnd /\ reading' = reading - 1 /\ UNCHANGED process
  <2>1. reading' = 0
    BY <1>1, <1>7
  <2>. QED  BY <1>1, <1>3, <1>7, <2>1, ReadEndOk
<1>8. CASE ReadMsg /\ reading' = reading - 1 /\ UNCHANGED process
  <2>1. /\ status_ = "ok" /\ reading' = 0 /\ stack' = <<"msg">> /\ nread' \in 0 .. MaxReads
        /\ UNCHANGED <<status_, reading_ended_, writing_ended_, reports, server_status>>
    BY <1>1, <1>4, <1>8, BidiAssumption DEF ReadMsg, ended
  <2>2. ~reading_ended_
    BY <1>1, <2>1 DEF ReadInv
  <2>3. stack' \in Stacks
    BY <2>1 DEF Stacks
  <2>4. TypeOK'
    BY <1>3, <1>8, <2>1, <2>3, StackTypes DEF TypeOK
  <2>5. ReadInv' /\ WriteInv' /\ DataInv'
    BY <1>1, <1>3, <2>1, <2>2, <2>3 DEF ReadInv, WriteInv, DataInv
  <2>6. Caller' = "msg"
    BY <2>1, Tops DEF Caller, Top
  <2>7. ErrorInv'
    BY <1>1, <1>3, <1>8, <2>1, <2>6 DEF ErrorInv
  <2>8. OkIsTrue'
    BY <1>3, <2>1 DEF OkIsTrue
  <2>. QED  BY <2>4, <2>5, <2>7, <2>8
<1>9. ASSUME status_ = "ok", nread < MaxReads, nread' = nread + 1, UNCHANGED <<server_status, process>>,
             \/ UNCHANGED <<reading, status_, ended>> /\ NoCallback(<<>>)
             \/ Refused(<<>>) /\ reading' = reading - 1
      PROVE  BidiInv'
  <2>1. nread' \in 0 .. MaxReads
    BY <1>4, <1>9, BidiAssumption
  <2>2. CASE UNCHANGED <<reading, status_, ended>> /\ NoCallback(<<>>)
    <3>1. UNCHANGED <<reading, status_, reading_ended_, writing_ended_, stack, reports>>
      BY <1>1, <2>2 DEF NoCallback, ended
    <3>2. TypeOK' /\ ReadInv' /\ WriteInv' /\ DataInv'
      BY <1>3, <1>9, <2>1, <3>1 DEF TypeOK, ReadInv, WriteInv, DataInv
    <3>3. ErrorInv' /\ OkIsTrue'
      BY <1>3, <1>9, <3>1 DEF ErrorInv, OkIsTrue, Caller
    <3>. QED  BY <3>2, <3>3
  <2>3. CASE Refused(<<>>) /\ reading' = reading - 1
    <3>1. EndOnError(<<>>, writing_ended_) /\ reading' = 0
      BY <1>1, <2>3 DEF Refused
    <3>. QED  BY <1>1, <1>3, <1>4, <1>9, <2>1, <3>1, ReadFails
  <2>. QED  BY <1>9, <2>2, <2>3
<1>. QED
  BY <1>2, <1>5, <1>6, <1>7, <1>8, <1>9 DEF OnRead

LEMMA MsgReturnOk ==
  ASSUME BidiInv, MsgCbReturns PROVE BidiInv'
<1>. USE DEF BidiInv
<1>1. stack = <<"msg">> /\ stack \in Plain /\ process = "up" /\ Caller = "msg"
  BY Callers4 DEF MsgCbReturns, Plain
<1>2. reading = 0 /\ reading_started_ /\ Outer = <<>>
  BY <1>1, Fronts DEF ReadInv, InMsg, Outer, Front
<1>3. UNCHANGED <<msg_cb_, inited_, reading_started_, status_cb_, writing_closing_, msg_queue_,
                  has_sent_close_, wrapped, sent, sending, half_closed, server_status,
                  accepted, confirmed, nmsgs, nread>>
  BY DEF MsgCbReturns, setup
<1>4. CASE status_ # "ok" /\ Abort("read")
  <2>1. process' = "read" /\ ~status_cb_ /\ nmsgs' \in 0 .. MaxMsgs
    BY <1>1, <1>3, <1>4 DEF Abort, ErrorInv, TypeOK
  <2>. QED  BY <1>1, <1>4, <2>1, Aborted DEF Abort
<1>5. CASE status_ = "ok" /\ ReadNextOk /\ NoCallback(Outer) /\ UNCHANGED process
  <2>1. /\ UNCHANGED <<status_, reading_ended_, writing_ended_, reports>>
        /\ reading' = 1 /\ stack' = <<>>
    BY <1>2, <1>5 DEF ReadNextOk, NoCallback, ended
  <2>2. ~reading_ended_
    BY <1>1, <1>5 DEF ReadInv, InMsg
  <2>3. TypeOK' /\ WriteInv' /\ DataInv'
    BY <1>3, <1>5, <2>1 DEF TypeOK, WriteInv, DataInv
  <2>4. ReadInv'
    BY <1>2, <1>3, <2>1, <2>2, Outside DEF ReadInv, Stacks
  <2>5. Caller' = "app"
    BY <2>1 DEF Caller
  <2>6. ErrorInv'
    BY <1>1, <1>3, <1>5, <2>1, <2>5 DEF ErrorInv
  <2>7. OkIsTrue'
    BY <1>3, <2>1 DEF OkIsTrue
  <2>. QED  BY <2>3, <2>4, <2>6, <2>7
<1>6. CASE EndOnError(Outer, writing_ended_) /\ UNCHANGED reading /\ UNCHANGED process
  BY <1>1, <1>2, <1>3, <1>6, ReadFails DEF TypeOK
<1>. QED  BY <1>4, <1>5, <1>6 DEF MsgCbReturns, Refused

LEMMA StatusReturnOk ==
  ASSUME BidiInv, StatusCbReturns PROVE BidiInv'
<1>. USE DEF BidiInv
<1>1. /\ process = "up" /\ Caller \in {"err", "end"} /\ stack' = Outer /\ status_cb_' = FALSE
      /\ IF Caller = "err" THEN reading_ended_' = TRUE /\ writing_ended_' = TRUE
         ELSE UNCHANGED <<reading_ended_, writing_ended_>>
      /\ UNCHANGED <<status_, msg_cb_, inited_, reading_started_, writing_closing_, msg_queue_,
                     has_sent_close_, wrapped, process, sent, sending, reading, half_closed,
                     server_status, accepted, confirmed, nmsgs, nread, reports>>
  BY DEF StatusCbReturns, setup, wire, ended
<1>2. stack' \in Plain /\ (InMsg(stack') => InMsg(stack)) /\ Caller' \in {"app", "msg"}
  <2>1. stack \in {<<"err">>, <<"end">>, <<"msg", "err">>}
    BY <1>1, Callers4 DEF ReadInv, Stacks, Plain
  <2>2. CASE stack = <<"err">> \/ stack = <<"end">>
    <3>1. stack' = <<>>
      BY <1>1, <2>2, Fronts DEF Outer, Front
    <3>. QED  BY <3>1, Outside DEF Plain, Caller
  <2>3. CASE stack = <<"msg", "err">>
    <3>1. stack' = <<"msg">>
      BY <1>1, <2>3, Fronts DEF Outer, Front
    <3>2. Caller' = "msg"
      BY <3>1, Tops DEF Caller, Top
    <3>. QED  BY <2>3, <3>1, <3>2 DEF Plain, InMsg
  <2>. QED  BY <2>1, <2>2, <2>3
<1>3. stack' \in Stacks
  BY <1>2 DEF Plain, Stacks
<1>4. reading_ended_' \in BOOLEAN /\ writing_ended_' \in BOOLEAN
  BY <1>1 DEF TypeOK
<1>5. TypeOK'
  BY <1>1, <1>3, <1>4, StackTypes DEF TypeOK
<1>6. status_ = "ok" => Caller = "end" /\ UNCHANGED <<reading_ended_, writing_ended_>>
  BY <1>1 DEF ErrorInv
<1>7. ReadInv' /\ WriteInv' /\ DataInv'
  <2>1. ReadInv'
    BY <1>1, <1>2, <1>3, <1>6 DEF ReadInv, ErrorInv
  <2>2. WriteInv' /\ DataInv'
    BY <1>1, <1>6 DEF WriteInv, DataInv
  <2>. QED  BY <2>1, <2>2
<1>8. ErrorInv'
  BY <1>1, <1>2 DEF ErrorInv
<1>9. OkIsTrue'
  BY <1>1 DEF OkIsTrue
<1>. QED  BY <1>5, <1>7, <1>8, <1>9

-------------------------------------------------------------------------------
(* The writing side is an ordered stream. *)

Still == UNCHANGED <<accepted, sent, writing_closing_, half_closed>>

\* An error breaks the stream.
LEMMA BreakStep ==
  ASSUME Still, status_' # "ok" PROVE Stream!Next
<1>1. Stream!Break
  BY DEF Still, Stream!Break
<1>. QED  BY <1>1 DEF Stream!Next

LEMMA StillStep ==
  ASSUME Still, UNCHANGED <<status_, process>> PROVE UNCHANGED Stream!vars
  BY DEF Still, Stream!vars

LEMMA WriteStreams ==
  ASSUME BidiInv, Write PROVE Stream!Next \/ UNCHANGED Stream!vars
<1>. USE DEF BidiInv
<1>1. process = "up" /\ nmsgs' \in Msg
  BY BidiAssumption DEF Write, CanCall, TypeOK, Msg
<1>2. CASE Abort("write")
  BY <1>2, BreakStep, StillStep DEF Abort, Still, wire, Stream!vars, Stream!Next, Stream!Break
<1>3. ASSUME WriteRefused \/ WriteQueued(nmsgs') \/ WriteSent(nmsgs'),
             UNCHANGED <<writing_closing_, half_closed>>
      PROVE  Stream!Next \/ UNCHANGED Stream!vars
  <2>1. CASE WriteRefused
    <3>1. Still /\ process' = process
      BY <1>3, <2>1 DEF WriteRefused, Still
    <3>2. status_' = status_ \/ status_' # "ok"
      BY <2>1 DEF WriteRefused, InitFails, Refused, EndOnError
    <3>. QED  BY <3>1, <3>2, BreakStep, StillStep
  <2>2. CASE WriteQueued(nmsgs')
    <3>1. /\ status_ = "ok" /\ status_' = "ok" /\ process' = "up" /\ ~writing_closing_
          /\ sent' = sent /\ accepted' = Append(accepted, nmsgs') /\ ~half_closed
      BY <1>1, <2>2 DEF WriteQueued, WriteInv
    <3>2. Stream!Accept(nmsgs')
      BY <1>1, <1>3, <3>1 DEF Stream!Accept, Stream!Usable
    <3>. QED  BY <1>1, <3>2 DEF Stream!Next
  <2>3. CASE WriteSent(nmsgs')
    <3>1. /\ status_ = "ok" /\ process' = "up" /\ ~writing_closing_ /\ ~half_closed
          /\ sent = accepted
      BY <1>1, <2>3 DEF WriteSent, WriteInv, DataInv
    <3>2. CASE Refused(stack) /\ UNCHANGED <<sent, accepted>>
      BY <1>3, <3>2, BreakStep DEF Refused, EndOnError, Still
    <3>3. CASE /\ sent' = Append(sent, nmsgs') /\ accepted' = Append(accepted, nmsgs')
               /\ UNCHANGED status_
      <4>1. Stream!Accept(nmsgs')
        BY <1>1, <1>3, <3>1, <3>3 DEF Stream!Accept, Stream!Usable
      <4>. QED  BY <1>1, <4>1 DEF Stream!Next
    <3>. QED  BY <2>3, <3>2, <3>3 DEF WriteSent
  <2>. QED  BY <1>3, <2>1, <2>2, <2>3
<1>. QED  BY <1>2, <1>3 DEF Write

LEMMA CloseStreams ==
  ASSUME BidiInv, CloseWritingBody, process = "up"
  PROVE  Stream!Next \/ UNCHANGED Stream!vars
<1>. USE DEF BidiInv
<1>1. UNCHANGED <<accepted, sent>> /\ writing_closing_' = TRUE /\ process' = "up"
  BY DEF CloseWritingBody, MustSendClose, WriteInv
<1>2. CASE writing_closing_
  <2>1. UNCHANGED <<status_, half_closed>>
    BY <1>2 DEF CloseWritingBody, MustSendClose
  <2>2. writing_closing_' = writing_closing_
    BY <1>1, <1>2 DEF TypeOK
  <2>. QED  BY <1>1, <2>1, <2>2, StillStep DEF Still
<1>3. CASE ~writing_closing_
  <2>1. ~half_closed
    BY <1>3 DEF WriteInv
  <2>2. CASE UNCHANGED <<status_, half_closed>>
    <3>1. Stream!Close("closed")
      BY <1>1, <1>3, <2>2 DEF Stream!Close
    <3>. QED  BY <3>1 DEF Stream!Next
  <2>3. CASE MustSendClose /\ half_closed' = TRUE /\ status_' = status_
    <3>1. status_ = "ok" /\ sent = accepted
      BY <2>3 DEF MustSendClose, DataInv
    <3>2. Stream!Close("closed")
      BY <1>1, <1>3, <2>1, <2>3, <3>1 DEF Stream!Close, Stream!Usable
    <3>. QED  BY <3>2 DEF Stream!Next
  <2>4. CASE status_' = "error" /\ half_closed' = half_closed
    <3>1. Stream!Close("closed")
      BY <1>1, <1>3, <2>4 DEF Stream!Close
    <3>. QED  BY <3>1 DEF Stream!Next
  <2>5. \/ UNCHANGED <<status_, half_closed>>
        \/ MustSendClose /\ half_closed' = TRUE /\ status_' = status_
        \/ status_' = "error" /\ half_closed' = half_closed
    BY <1>1 DEF CloseWritingBody, SendClose, EndOnError, Abort
  <2>. QED  BY <2>2, <2>3, <2>4, <2>5
<1>. QED  BY <1>2, <1>3

LEMMA SentStreams ==
  ASSUME BidiInv, NEW success \in BOOLEAN, OnSent(success)
  PROVE  Stream!Next \/ UNCHANGED Stream!vars
<1>. USE DEF BidiInv
<1>1. /\ Finds(success)
      /\ SentTooLate \/ SentBadly \/ SentOne \/ SentAll
  BY SentFinds
<1>2. /\ UNCHANGED <<accepted, process, writing_closing_>> /\ process = "up" /\ ~half_closed
      /\ msg_queue_ # <<>> /\ Popped \in Seq(Msg)
  BY <1>1 DEF Finds
<1>3. status_ = "ok" => accepted = sent \o Popped /\ sent \in Seq(Msg)
  BY <1>2 DEF DataInv, Popped, TypeOK
<1>4. CASE SentTooLate
  BY <1>2, <1>4, StillStep DEF SentTooLate, Still
<1>5. CASE SentBadly
  BY <1>2, <1>5, BreakStep DEF SentBadly, EndOnError, Still
<1>6. CASE SentOne
  <2>1. CASE Refused(<<>>) /\ UNCHANGED sent
    BY <1>2, <1>6, <2>1, BreakStep DEF SentOne, Refused, EndOnError, Still
  <2>2. CASE sent' = Append(sent, Head(Popped)) /\ UNCHANGED status_
    <3>1. status_ = "ok" /\ Popped # <<>> /\ half_closed' = half_closed
      BY <1>6 DEF SentOne
    <3>2. Len(sent) < Len(accepted) /\ accepted[Len(sent) + 1] = Head(Popped)
      BY <1>2, <1>3, <3>1, MoveFront
    <3>3. Stream!Send
      BY <1>2, <2>2, <3>1, <3>2 DEF Stream!Send, Stream!Usable
    <3>. QED  BY <3>3 DEF Stream!Next
  <2>. QED  BY <1>6, <2>1, <2>2 DEF SentOne
<1>7. CASE SentAll
  <2>1. status_ = "ok" /\ sent' = sent /\ sent = accepted
    BY <1>3, <1>7, ConcatEmptySeq DEF SentAll
  <2>2. CASE UNCHANGED <<status_, half_closed>>
    BY <1>2, <2>1, <2>2, StillStep DEF Still
  <2>3. CASE status_' = "error" /\ UNCHANGED half_closed
    BY <1>2, <2>1, <2>3, BreakStep DEF Still
  <2>4. CASE half_closed' = TRUE /\ status_' = status_ /\ writing_closing_
    <3>1. Stream!End
      BY <1>2, <2>1, <2>4 DEF Stream!End, Stream!Usable
    <3>. QED  BY <3>1 DEF Stream!Next
  <2>. QED  BY <1>7, <2>2, <2>3, <2>4 DEF SentAll, SendClose, EndOnError
<1>. QED  BY <1>1, <1>4, <1>5, <1>6, <1>7

\* The other functions do not write; some of them fail.
LEMMA OtherStreams ==
  ASSUME BidiInv, ReadEach \/ SetErrorStatus \/ OnRead \/ MsgCbReturns \/ StatusCbReturns
  PROVE  Stream!Next \/ UNCHANGED Stream!vars
<1>1. Still
  BY DEF Still, ReadEach, SetErrorStatus, OnRead, MsgCbReturns, StatusCbReturns, wire, Abort
<1>2. \/ UNCHANGED <<status_, process>>
      \/ status_' # "ok"
  <2>1. CASE ReadEach
    BY <2>1 DEF ReadEach, InitFails, Refused, EndOnError, ReadNextOk
  <2>2. CASE SetErrorStatus \/ StatusCbReturns
    BY <2>2 DEF SetErrorStatus, StatusCbReturns, EndOnError
  <2>3. CASE OnRead
    BY <2>3
    DEF OnRead, ReadTooLate, ReadBadly, ReadEnd, ReadMsg, Refused, EndOnError, Abort
  <2>4. CASE MsgCbReturns
    BY <2>4 DEF MsgCbReturns, ReadNextOk, Refused, EndOnError, Abort
  <2>. QED  BY <2>1, <2>2, <2>3, <2>4
<1>. QED  BY <1>1, <1>2, BreakStep, StillStep

LEMMA StreamStep ==
  BidiInv /\ [Next]_vars => [Stream!Next]_(Stream!vars)
<1>. SUFFICES ASSUME BidiInv, [Next]_vars PROVE Stream!Next \/ UNCHANGED Stream!vars
  OBVIOUS
<1>1. CASE CloseWriting \/ DropWrapper
  BY <1>1, CloseStreams DEF CloseWriting, DropWrapper, CanCall
<1>2. CASE UNCHANGED vars
  BY <1>2, StillStep DEF vars, wire, Still
<1>3. CASE Write
  BY <1>3, WriteStreams
<1>4. ASSUME NEW success \in BOOLEAN, OnSent(success) PROVE Stream!Next \/ UNCHANGED Stream!vars
  BY <1>4, SentStreams
<1>5. CASE ReadEach \/ SetErrorStatus \/ OnRead \/ MsgCbReturns \/ StatusCbReturns
  BY <1>5, OtherStreams
<1>. QED  BY <1>1, <1>2, <1>3, <1>4, <1>5 DEF Next, Done

-------------------------------------------------------------------------------
(* Theorems. *)

LEMMA InitBidi == Init => BidiInv
<1>. SUFFICES ASSUME Init PROVE BidiInv
  OBVIOUS
<1>. USE BidiAssumption DEF Init
<1>1. TypeOK
  <2>1. /\ msg_queue_ \in Seq(Msg) /\ stack \in Seq({"msg", "err", "end"})
        /\ sent \in Seq(Msg) /\ accepted \in Seq(Msg) /\ reports \in Seq(StatusCodes)
    BY EmptySeq
  <2>2. {msg_cb_, status_cb_, inited_, reading_started_, writing_closing_,
         reading_ended_, writing_ended_, has_sent_close_} \subseteq BOOLEAN
    OBVIOUS
  <2>3. status_ \in StatusCodes /\ wrapped \in BOOLEAN /\ half_closed \in BOOLEAN
    BY DEF StatusCodes
  <2>4. {sending, reading, confirmed} \subseteq Nat
    OBVIOUS
  <2>5. nmsgs \in 0 .. MaxMsgs /\ nread \in 0 .. MaxReads
    <3>1. 0 \in 0 .. MaxMsgs /\ 0 \in 0 .. MaxReads
      BY BidiAssumption
    <3>. QED  BY <3>1
  <2>. QED  BY <2>1, <2>2, <2>3, <2>4, <2>5 DEF TypeOK
<1>2. ReadInv /\ WriteInv
  BY Outside DEF ReadInv, WriteInv, Stacks
<1>3. ErrorInv
  <2>1. Caller = "app" /\ Len(reports) = 0
    BY EmptySeq DEF Caller
  <2>. QED  BY <2>1 DEF ErrorInv
<1>4. DataInv /\ OkIsTrue
  <2>1. Len(sent) = 0 /\ DOMAIN reports = {}
    BY EmptySeq
  <2>. QED  BY <2>1 DEF DataInv, OkIsTrue
<1>. QED  BY <1>1, <1>2, <1>3, <1>4 DEF BidiInv

LEMMA BidiStep ==
  ASSUME QuietEnd PROVE BidiInv /\ [Next]_vars => BidiInv'
<1>. SUFFICES ASSUME BidiInv, [Next]_vars PROVE BidiInv'
  OBVIOUS
<1>1. CASE Write \/ ReadEach \/ SetErrorStatus
  BY <1>1, WriteOk, ReadEachOk, SetErrorOk
<1>2. CASE CloseWriting \/ DropWrapper
  <2>1. CloseWritingBody /\ process = "up" /\ wrapped' \in BOOLEAN
    BY <1>2 DEF CloseWriting, DropWrapper, CanCall, BidiInv, TypeOK
  <2>. QED  BY <2>1, CloseBodyOk
<1>3. CASE OnRead \/ MsgCbReturns \/ StatusCbReturns
  BY <1>3, ReadOk, MsgReturnOk, StatusReturnOk
<1>4. ASSUME NEW success \in BOOLEAN, OnSent(success) PROVE BidiInv'
  BY <1>4, SentOk
<1>5. CASE UNCHANGED vars
  <2>. USE <1>5 DEF vars, setup, ended, wire
  <2>1. TypeOK' /\ ReadInv' /\ WriteInv'
    BY DEF BidiInv, TypeOK, ReadInv, WriteInv
  <2>2. ErrorInv' /\ DataInv' /\ OkIsTrue'
    BY DEF BidiInv, ErrorInv, Caller, DataInv, OkIsTrue
  <2>. QED  BY <2>1, <2>2 DEF BidiInv
<1>. QED  BY <1>1, <1>2, <1>3, <1>4, <1>5 DEF Next, Done

LEMMA BidiHolds ==
  ASSUME QuietEnd PROVE SafeSpec => []BidiInv
  BY InitBidi, BidiStep, PTL DEF SafeSpec

\* The fields of a bidirectional client keep their types.
THEOREM TypeCorrect ==
  ASSUME QuietEnd PROVE SafeSpec => []TypeOK
<1>1. BidiInv => TypeOK
  BY DEF BidiInv
<1>. QED  BY <1>1, BidiHolds, PTL

\* Of the assertions of client_async_reader_writer_impl.cpp two only can fail: that
\* of Write() in the status callback of an error, and those behind a message
\* callback that has set an error status.
THEOREM TwoAssertsFail ==
  ASSUME QuietEnd PROVE SafeSpec => []AssertsHold
<1>1. BidiInv => AssertsHold
  <2>. SUFFICES ASSUME BidiInv PROVE AssertsHold
    OBVIOUS
  <2>1. ASSUME Gone PROVE writing_ended_ /\ (reading_started_ => reading_ended_)
    <3>1. Caller = "app" /\ writing_closing_ /\ sending = 0 /\ reading = 0 /\ stack = <<>>
      BY <2>1 DEF Gone, Caller, BidiInv, WriteInv
    <3>2. CASE status_ # "ok"
      BY <3>1, <3>2 DEF BidiInv, ErrorInv
    <3>3. CASE status_ = "ok"
      <4>1. writing_ended_
        BY <3>1, <3>3 DEF BidiInv, WriteInv
      <4>2. reading_started_ => reading_ended_
        BY <3>1, <3>3, Tops DEF BidiInv, ReadInv
      <4>. QED  BY <4>1, <4>2
    <3>. QED  BY <3>2, <3>3
  <2>. QED  BY <2>1 DEF AssertsHold, BidiInv, ErrorInv
<1>. QED  BY <1>1, BidiHolds, PTL

\* One message and one read at a time, the half-close behind the last message, and
\* no read after the end of the stream.
THEOREM BatchesOneByOne ==
  ASSUME QuietEnd PROVE SafeSpec => []OneByOne
<1>1. BidiInv => OneByOne
  BY DEF BidiInv, ReadInv, WriteInv, OneByOne
<1>. QED  BY <1>1, BidiHolds, PTL

\* The status callback is called once at most, and an error has been reported, and
\* has ended both directions, as soon as the function that met it returns.
THEOREM ErrorsReported ==
  ASSUME QuietEnd PROVE SafeSpec => []ErrorReported
<1>1. BidiInv => ErrorReported
  <2>. SUFFICES ASSUME BidiInv PROVE ErrorReported
    OBVIOUS
  <2>1. stack = <<>> => Caller = "app"
    BY DEF Caller
  <2>. QED  BY <2>1 DEF ErrorReported, BidiInv, ErrorInv
<1>. QED  BY <1>1, BidiHolds, PTL

\* A status callback that is told OK: the server ended its stream, and every
\* accepted message went out with success, the half-close behind them.
THEOREM OkIsTruth ==
  ASSUME QuietEnd PROVE SafeSpec => []OkIsTrue
<1>1. BidiInv => OkIsTrue
  BY DEF BidiInv
<1>. QED  BY <1>1, BidiHolds, PTL

\* Whatever callbacks call and whichever batch fails, the writing side of the call
\* keeps the promise of OrderedStream, the half-close being the end marker.
THEOREM Refinement ==
  ASSUME QuietEnd PROVE SafeSpec => Stream!SafeSpec
<1>1. Init => Stream!Init
  BY DEF Init, Stream!Init
<1>. QED  BY <1>1, BidiHolds, StreamStep, PTL DEF SafeSpec, Stream!SafeSpec
===============================================================================
