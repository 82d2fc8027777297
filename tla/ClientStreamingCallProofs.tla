----------------------- MODULE ClientStreamingCallProofs -----------------------
(* Proofs about ClientStreamingCall and its two ends: the ClientAsyncWriter   *)
(* for any callbacks and number of messages, the ServerReplier for any        *)
(* threads, replies and number of calls, and then the call from end to end.   *)
EXTENDS ClientStreamingCall, SequenceTheorems, TLAPS

-------------------------------------------------------------------------------
(* The writer *)

\* Moving the front of the queue to the end of what was sent keeps the whole.
LEMMA MoveFront ==
  ASSUME NEW S, NEW s \in Seq(S), NEW q \in Seq(S), q # <<>>
  PROVE  /\ s \o q = Append(s, Head(q)) \o Tail(q)
         /\ Len(s) < Len(s \o q)
         /\ (s \o q)[Len(s) + 1] = Head(q)
<1>1. Head(q) \in S /\ Tail(q) \in Seq(S) /\ q = <<Head(q)>> \o Tail(q)
  BY HeadTailProperties
<1>2. <<Head(q)>> \in Seq(S) /\ s \o <<Head(q)>> = Append(s, Head(q))
  BY <1>1, AppendIsConcat
<1>3. s \o q = Append(s, Head(q)) \o Tail(q)
  BY <1>1, <1>2, ConcatAssociative
<1>4. Len(s) \in Nat /\ Len(q) \in Nat \ {0} /\ Head(q) = q[1]
  BY LenProperties, EmptySeq, HeadTailProperties
<1> QED BY <1>3, <1>4, ConcatProperties

\* Whose turn it is to send: a caller's when the queue is empty, the completion
\* callback's of the one batch that is out otherwise.  Every error ends sending.
Turn ==
  /\ process = "up"
  /\ sending \in {0, 1} /\ awaiting \in {0, 1}
  /\ sending = 1 => status_ = "ok" /\ ~has_sent_close_
  /\ status_ = "ok" => (sending = 1 <=> msg_queue_ # <<>>)
  /\ awaiting = 1 => status_ = "ok" /\ half_closed
  /\ half_closed => has_sent_close_
  /\ has_sent_close_ => is_closing_
  /\ is_closing_ /\ status_ = "ok" => sending = 1 \/ half_closed

\* The callback cb of the first Close(), which came with ask, is pending, or it
\* has been called.
Pending(cb, ask) ==
  \/ cb = ask /\ reports = <<>>
  \/ cb = NoCb /\ ask # NoCb /\ Len(reports) = 1 /\ reports[1].cb = ask

\* A pending callback has a batch out whose completion will call it.
Answered ==
  /\ ~is_closing_ => asked = NoCb
  /\ status_ # "ok" => close_cb_ = NoCb
  /\ close_cb_ # NoCb => sending = 1 \/ awaiting = 1
  /\ Pending(close_cb_, asked)

TurnInv == TypeOK /\ Turn /\ Answered

-------------------------------------------------------------------------------
(* The bodies of the functions keep TurnInv. *)

\* Calling the pending callback answers the first Close().
LEMMA ReportOk ==
  ASSUME TypeOK, NEW cb \in CloseCbs \cup {NoCb}, NEW ask,
         NEW st \in StatusCodes, Pending(cb, ask), Report(cb, st)
  PROVE  /\ reports' \in Seq([cb : CloseCbs, status : StatusCodes])
         /\ \/ ask = NoCb /\ reports' = <<>>
            \/ ask # NoCb /\ Len(reports') = 1 /\ reports'[1].cb = ask
         /\ reports' = reports \/ reports' = <<[cb |-> cb, status |-> st]>>
<1> USE DEF TypeOK
<1>1. CASE cb = NoCb
  BY <1>1 DEF Report, Pending
<1>2. CASE cb # NoCb
  <2> DEFINE r == [cb |-> cb, status |-> st]
  <2>1. cb = ask /\ reports = <<>>
    BY <1>2 DEF Pending
  <2>2. r \in [cb : CloseCbs, status : StatusCodes] /\ r.cb = ask
    BY <1>2, <2>1
  <2>3. reports' = Append(<<>>, r)
    BY <1>2, <2>1 DEF Report
  <2> HIDE DEF r
  <2>4. reports' = <<r>>
    BY <2>3, <2>2
  <2> QED BY <1>2, <2>1, <2>2, <2>4 DEF r
<1> QED BY <1>1, <1>2

\* FailWith(): the callback is called, and none is pending any more.
LEMMA FailOk ==
  ASSUME TypeOK, NEW cb \in CloseCbs \cup {NoCb}, NEW ask, Pending(cb, ask),
         FailWith(cb), asked' = ask
  PROVE  /\ status_' = "error" /\ close_cb_' = NoCb
         /\ reports' \in Seq([cb : CloseCbs, status : StatusCodes])
         /\ Pending(close_cb_, asked)'
         /\ \/ reports' = reports
            \/ reports' = <<[cb |-> cb, status |-> "error"]>>
<1>1. Report(cb, "error") /\ status_' = "error" /\ close_cb_' = NoCb
  BY DEF FailWith, CallCloseCb
<1>2. "error" \in StatusCodes
  BY DEF StatusCodes
<1> QED BY <1>1, <1>2, ReportOk DEF Pending

LEMMA WriteOk ==
  ASSUME TurnInv, Write
  PROVE  TurnInv'
<1> USE ClientWriterAssumption
<1>0. /\ nmsgs' = nmsgs + 1 /\ nmsgs' \in 0 .. MaxMsgs /\ nmsgs' \in Msg
      /\ UNCHANGED <<is_closing_, has_sent_close_, half_closed, awaiting,
                     confirmed, asked, wrapped, process>>
  BY DEF Write, TurnInv, TypeOK, Msg
<1>1. CASE WriteRefused
  BY <1>0, <1>1 DEF WriteRefused, TurnInv, TypeOK, Turn, Answered, Pending
<1>2. CASE WriteQueued(nmsgs')
  <2>1. TypeOK'
    BY <1>0, <1>2, AppendProperties DEF WriteQueued, TurnInv, TypeOK
  <2>2. Turn' /\ Answered'
    BY <1>0, <1>2, AppendProperties
    DEF WriteQueued, TurnInv, TypeOK, Turn, Answered, Pending
  <2> QED BY <2>1, <2>2 DEF TurnInv
<1>3. CASE WriteSent(nmsgs')
  <2>1. /\ status_ = "ok" /\ ~is_closing_ /\ msg_queue_ = <<>>
        /\ msg_queue_' = <<nmsgs'>>
    BY <1>3 DEF WriteSent
  <2>2. msg_queue_' \in Seq(Msg) /\ msg_queue_' # <<>>
    BY <1>0, <2>1
  <2>3. CASE SendNextOk(nmsgs') /\ accepted' = Append(accepted, nmsgs')
    <3>1. TypeOK'
      BY <1>0, <2>2, <2>3, AppendProperties DEF SendNextOk, TurnInv, TypeOK
    <3>2. Turn' /\ Answered'
      BY <1>0, <2>1, <2>2, <2>3
      DEF SendNextOk, TurnInv, Turn, Answered, Pending
    <3> QED BY <3>1, <3>2 DEF TurnInv
  <2>4. CASE SendNextFails /\ UNCHANGED accepted
    <3>1. /\ status_' = "error" /\ close_cb_' = NoCb
          /\ reports' \in Seq([cb : CloseCbs, status : StatusCodes])
          /\ Pending(close_cb_, asked)'
      BY <1>0, <2>4, FailOk DEF SendNextFails, TurnInv, TypeOK, Answered
    <3>2. TypeOK'
      BY <1>0, <2>2, <2>4, <3>1
      DEF SendNextFails, TurnInv, TypeOK, StatusCodes
    <3>3. Turn' /\ Answered'
      BY <1>0, <2>1, <2>2, <2>4, <3>1 DEF SendNextFails, TurnInv, Turn, Answered
    <3> QED BY <3>2, <3>3 DEF TurnInv
  <2> QED BY <1>3, <2>3, <2>4 DEF WriteSent
<1> QED BY <1>1, <1>2, <1>3 DEF Write

\* SendClose() of an empty queue: the half-close goes out, or the callback is
\* called.
LEMMA SendCloseTurn ==
  ASSUME TypeOK, NEW cb \in CloseCbs \cup {NoCb}, NEW ask, Pending(cb, ask),
         process = "up", ~has_sent_close_, awaiting = 0, SendClose(cb),
         asked' = ask
  PROVE  /\ process' = "up" /\ has_sent_close_'
         /\ reports' \in Seq([cb : CloseCbs, status : StatusCodes])
         /\ Pending(close_cb_, asked)'
         /\ close_cb_' \in CloseCbs \cup {NoCb}
         /\ \/ /\ half_closed' /\ awaiting' = 1
               /\ status_' = status_ /\ reports' = reports
            \/ /\ half_closed' = half_closed /\ awaiting' = 0
               /\ status_' = "error" /\ close_cb_' = NoCb
               /\ \/ reports' = reports
                  \/ reports' = <<[cb |-> cb, status |-> "error"]>>
<1>1. process' = "up" /\ has_sent_close_'
  BY DEF SendClose, CodeAssert
<1>2. CASE SendCloseOk(cb)
  BY <1>1, <1>2 DEF SendCloseOk, Pending, TypeOK
<1>3. CASE SendCloseFails(cb)
  BY <1>1, <1>3, FailOk DEF SendCloseFails
<1> QED BY <1>2, <1>3 DEF SendClose

LEMMA CloseOk ==
  ASSUME TurnInv, NEW cb \in CloseCbs \cup {NoCb}, CloseWith(cb),
         UNCHANGED <<accepted, confirmed, nmsgs>>, wrapped' \in BOOLEAN
  PROVE  TurnInv'
<1>1. CASE CloseAgain
  BY <1>1 DEF CloseAgain, TurnInv, TypeOK, Turn, Answered, Pending, impl, core
<1>2. ASSUME CloseFirst(cb)
      PROVE  /\ ~is_closing_ /\ is_closing_' /\ asked' = cb
             /\ close_cb_ = NoCb /\ reports = <<>> /\ Pending(cb, cb)
             /\ ~has_sent_close_ /\ ~half_closed /\ awaiting = 0
             /\ process = "up"
  BY <1>2 DEF CloseFirst, TurnInv, Turn, Answered, Pending
<1>3. CASE CloseAfterError(cb)
  <2>1. CloseFirst(cb) /\ status_ = "error" /\ Report(cb, "error")
        /\ close_cb_' = NoCb
    BY <1>3 DEF CloseAfterError, CallCloseCb, TurnInv, TypeOK, StatusCodes
  <2>2. "error" \in StatusCodes
    BY DEF StatusCodes
  <2>3. /\ reports' \in Seq([cb : CloseCbs, status : StatusCodes])
        /\ Pending(NoCb, cb)'
    <3>1. TypeOK /\ Pending(cb, cb) /\ Report(cb, "error")
      BY <1>2, <2>1 DEF TurnInv
    <3>2. /\ reports' \in Seq([cb : CloseCbs, status : StatusCodes])
          /\ \/ cb = NoCb /\ reports' = <<>>
             \/ cb # NoCb /\ Len(reports') = 1 /\ reports'[1].cb = cb
      BY <2>2, <3>1, ReportOk
    <3> QED BY <3>2 DEF Pending
  <2>4. TypeOK'
    BY <1>2, <1>3, <2>1, <2>3 DEF CloseAfterError, TurnInv, TypeOK, core
  <2>5. Turn' /\ Answered'
    BY <1>2, <1>3, <2>1, <2>3
    DEF CloseAfterError, TurnInv, Turn, Answered, Pending, core
  <2> QED BY <2>4, <2>5 DEF TurnInv
<1>4. CASE CloseLater(cb)
  <2>1. CloseFirst(cb)
    BY <1>4 DEF CloseLater
  <2>2. TypeOK'
    BY <1>2, <1>4, <2>1 DEF CloseLater, TurnInv, TypeOK, core
  <2>3. Turn' /\ Answered'
    BY <1>2, <1>4, <2>1 DEF CloseLater, TurnInv, Turn, Answered, Pending, core
  <2> QED BY <2>2, <2>3 DEF TurnInv
<1>5. CASE CloseNow(cb)
  <2>1. /\ CloseFirst(cb) /\ SendClose(cb) /\ msg_queue_ = <<>>
        /\ status_ = "ok"
        /\ UNCHANGED <<msg_queue_, sent, sending>>
    BY <1>5 DEF CloseNow
  <2>2. sending = 0
    BY <2>1 DEF TurnInv, Turn
  <2>3. /\ process' = "up" /\ has_sent_close_'
        /\ reports' \in Seq([cb : CloseCbs, status : StatusCodes])
        /\ Pending(close_cb_, asked)'
        /\ close_cb_' \in CloseCbs \cup {NoCb}
        /\ \/ half_closed' /\ awaiting' = 1 /\ status_' = "ok"
           \/ /\ half_closed' = half_closed /\ awaiting' = 0
              /\ status_' = "error" /\ close_cb_' = NoCb
    BY <1>2, <2>1, SendCloseTurn DEF TurnInv
  <2>4. /\ has_sent_close_' \in BOOLEAN /\ half_closed' \in BOOLEAN
        /\ is_closing_' \in BOOLEAN
    BY <1>2, <2>1, <2>3
    DEF SendClose, SendCloseOk, SendCloseFails, CloseFirst, TurnInv, TypeOK
  <2>5. TypeOK'
    BY <1>2, <2>1, <2>3, <2>4 DEF TurnInv, TypeOK, StatusCodes
  <2>6. Turn' /\ Answered'
    BY <1>2, <2>1, <2>2, <2>3 DEF TurnInv, Turn, Answered
  <2> QED BY <2>5, <2>6 DEF TurnInv
<1> QED BY <1>1, <1>3, <1>4, <1>5 DEF CloseWith

\* What OnSent() finds: the one batch that is out, of the front of the queue.
LEMMA SentFinds ==
  ASSUME TurnInv, NEW success \in BOOLEAN, OnSent(success)
  PROVE  /\ sending = 1 /\ awaiting = 0 /\ ~has_sent_close_ /\ ~half_closed
         /\ status_ = "ok" /\ process = "up"
         /\ msg_queue_ # <<>> /\ Popped \in Seq(Msg) /\ msg_queue_' = Popped
         /\ Popped # <<>> => Head(Popped) \in Msg
         /\ confirmed' = confirmed + (IF success THEN 1 ELSE 0)
         /\ (~success /\ SentBadly) \/ (success /\ SentOne)
              \/ (success /\ SentAll)
         /\ UNCHANGED <<is_closing_, accepted, nmsgs, asked, wrapped>>
<1>1. sending = 1 /\ process = "up"
  BY DEF OnSent, TurnInv, Turn
<1>2. /\ status_ = "ok" /\ msg_queue_ # <<>> /\ ~has_sent_close_
      /\ ~half_closed /\ awaiting = 0
  BY <1>1 DEF TurnInv, Turn
<1>3. Popped \in Seq(Msg) /\ (Popped # <<>> => Head(Popped) \in Msg)
  BY <1>2, HeadTailProperties DEF Popped, TurnInv, TypeOK
<1>4. ~SentTooLate
  BY <1>2 DEF SentTooLate
<1> QED BY <1>1, <1>2, <1>3, <1>4 DEF OnSent

LEMMA SentOk ==
  ASSUME TurnInv, NEW success \in BOOLEAN, OnSent(success)
  PROVE  TurnInv'
<1>0. confirmed' \in Nat /\ Pending(close_cb_, asked) /\ TypeOK
      /\ close_cb_ \in CloseCbs \cup {NoCb}
  BY SentFinds DEF TurnInv, Answered, TypeOK
<1>1. ASSUME FailWith(close_cb_), sending' = sending - 1,
             sent' = sent, has_sent_close_' = has_sent_close_,
             half_closed' = half_closed, awaiting' = awaiting,
             process' = process
      PROVE  TurnInv'
  <2>1. /\ status_' = "error" /\ close_cb_' = NoCb
        /\ reports' \in Seq([cb : CloseCbs, status : StatusCodes])
        /\ Pending(close_cb_, asked)'
    BY <1>0, <1>1, SentFinds, FailOk
  <2>2. TypeOK'
    BY <1>0, <1>1, <2>1, SentFinds DEF TypeOK, StatusCodes
  <2>3. Turn' /\ Answered'
    BY <1>1, <2>1, SentFinds DEF TurnInv, Turn, Answered
  <2> QED BY <2>2, <2>3 DEF TurnInv
<1>2. CASE SentBadly
  BY <1>1, <1>2 DEF SentBadly
<1>3. CASE SentOne
  <2>1. CASE sent' = Append(sent, Head(Popped))
             /\ UNCHANGED <<sending, status_, close_cb_, reports>>
    <3>1. TypeOK'
      BY <1>0, <1>3, <2>1, SentFinds, AppendProperties DEF SentOne, TypeOK
    <3>2. Turn' /\ Answered'
      BY <1>3, <2>1, SentFinds DEF SentOne, TurnInv, Turn, Answered, Pending
    <3> QED BY <3>1, <3>2 DEF TurnInv
  <2> QED BY <1>1, <1>3, <2>1 DEF SentOne
<1>4. CASE SentAll
  <2>1. Popped = <<>> /\ sending' = 0 /\ sent' = sent
    BY <1>4, SentFinds DEF SentAll
  <2>2. CASE is_closing_
    <3>1. SendClose(close_cb_)
      BY <1>4, <2>2 DEF SentAll
    <3>2. /\ process' = "up" /\ has_sent_close_'
          /\ reports' \in Seq([cb : CloseCbs, status : StatusCodes])
          /\ Pending(close_cb_, asked)'
          /\ close_cb_' \in CloseCbs \cup {NoCb}
          /\ \/ half_closed' /\ awaiting' = 1 /\ status_' = "ok"
             \/ /\ half_closed' = half_closed /\ awaiting' = 0
                /\ status_' = "error" /\ close_cb_' = NoCb
      BY <1>0, <3>1, SentFinds, SendCloseTurn
    <3>3. has_sent_close_' \in BOOLEAN /\ half_closed' \in BOOLEAN
      BY <1>0, <3>1, <3>2 DEF SendClose, SendCloseOk, SendCloseFails, TypeOK
    <3>4. TypeOK'
      BY <1>0, <2>1, <3>2, <3>3, SentFinds DEF TypeOK, StatusCodes
    <3>5. Turn' /\ Answered'
      BY <2>1, <2>2, <3>2, SentFinds DEF TurnInv, Turn, Answered
    <3> QED BY <3>4, <3>5 DEF TurnInv
  <2>3. CASE ~is_closing_
    <3>1. UNCHANGED <<status_, close_cb_, reports, has_sent_close_,
                      half_closed, awaiting, process>>
      BY <1>4, <2>3 DEF SentAll
    <3>2. TypeOK'
      BY <1>0, <2>1, <3>1, SentFinds DEF TypeOK
    <3>3. Turn' /\ Answered'
      BY <2>1, <2>3, <3>1, SentFinds DEF TurnInv, Turn, Answered, Pending
    <3> QED BY <3>2, <3>3 DEF TurnInv
  <2> QED BY <2>2, <2>3
<1> QED BY <1>2, <1>3, <1>4, SentFinds

LEMMA ClosedOk ==
  ASSUME TurnInv, NEW st \in StatusCodes, OnClosed(st)
  PROVE  TurnInv'
<1>1. /\ awaiting = 1 /\ awaiting' = 0 /\ status_ = "ok" /\ sending = 0
      /\ process = "up"
      /\ half_closed /\ has_sent_close_
  BY DEF OnClosed, TurnInv, Turn
<1>2. /\ status_' = st /\ Report(close_cb_, st) /\ close_cb_' = NoCb
      /\ UNCHANGED <<is_closing_, has_sent_close_, msg_queue_, sent,
                     half_closed, sending, accepted, confirmed, nmsgs, asked,
                     wrapped, process>>
  BY <1>1 DEF OnClosed, ClosedTooLate, CallCloseCb
<1>3. /\ reports' \in Seq([cb : CloseCbs, status : StatusCodes])
      /\ Pending(NoCb, asked)'
  <2>1. Pending(close_cb_, asked) /\ close_cb_ \in CloseCbs \cup {NoCb}
    BY DEF TurnInv, Answered, TypeOK
  <2>2. /\ reports' \in Seq([cb : CloseCbs, status : StatusCodes])
        /\ \/ asked = NoCb /\ reports' = <<>>
           \/ asked # NoCb /\ Len(reports') = 1 /\ reports'[1].cb = asked
    BY <1>2, <2>1, ReportOk DEF TurnInv
  <2> QED BY <1>2, <2>2 DEF Pending
<1>4. TypeOK'
  <2>1. awaiting' \in Nat /\ awaiting' = awaiting - 1
    BY <1>1
  <2> QED BY <1>2, <1>3, <2>1 DEF TurnInv, TypeOK
<1>5. Turn' /\ Answered'
  BY <1>1, <1>2, <1>3 DEF TurnInv, Turn, Answered, Pending
<1> QED BY <1>4, <1>5 DEF TurnInv

LEMMA TurnInvInit == Init => TurnInv
<1> SUFFICES ASSUME Init PROVE TurnInv
  OBVIOUS
<1> USE DEF Init
<1>1. TypeOK
  <2>1. status_ \in StatusCodes /\ nmsgs \in 0 .. MaxMsgs
    BY ClientWriterAssumption DEF StatusCodes
  <2>2. /\ msg_queue_ \in Seq(Msg) /\ sent \in Seq(Msg)
        /\ accepted \in Seq(Msg)
        /\ reports \in Seq([cb : CloseCbs, status : StatusCodes])
    BY EmptySeq
  <2> QED BY <2>1, <2>2 DEF TypeOK
<1>2. Turn /\ Answered
  BY DEF Turn, Answered, Pending
<1> QED BY <1>1, <1>2 DEF TurnInv

LEMMA TurnInvStep == TurnInv /\ [Next]_vars => TurnInv'
<1> SUFFICES ASSUME TurnInv, [Next]_vars PROVE TurnInv'
  OBVIOUS
<1>1. CASE Write
  BY <1>1, WriteOk
<1>2. CASE Close
  BY <1>2, CloseOk DEF Close, TurnInv, TypeOK
<1>3. CASE DropWrapper
  BY <1>3, CloseOk DEF DropWrapper
<1>4. ASSUME NEW success \in BOOLEAN, OnSent(success) PROVE TurnInv'
  BY <1>4, SentOk
<1>5. ASSUME NEW st \in StatusCodes, OnClosed(st) PROVE TurnInv'
  BY <1>5, ClosedOk
<1>6. CASE UNCHANGED vars
  BY <1>6 DEF vars, impl, core, history, TurnInv, TypeOK, Turn, Answered,
              Pending
<1> QED BY <1>1, <1>2, <1>3, <1>4, <1>5, <1>6 DEF Next, Done

LEMMA TurnInvHolds == SafeSpec => []TurnInv
  BY TurnInvInit, TurnInvStep, PTL DEF SafeSpec

\* Every field, counter and history keeps its type, for any callbacks and any
\* number of messages.
THEOREM TypeCorrect == SafeSpec => []TypeOK
<1>1. TurnInv => TypeOK
  BY DEF TurnInv
<1> QED BY <1>1, TurnInvHolds, PTL

\* No assertion of client_async_writer_impl.cpp fails in any order of calls,
\* completions and errors.
THEOREM NoAssertFails == SafeSpec => []AssertsHold
<1>1. TurnInv => AssertsHold
  BY DEF TurnInv, Turn, AssertsHold
<1> QED BY <1>1, TurnInvHolds, PTL

\* Whatever is refused or fails, the callback of the first Close() is called, no
\* other and not twice, before the object is destroyed.
THEOREM ClosedOnce == SafeSpec => []ReportedOnce
<1>1. ASSUME TurnInv PROVE ReportedOnce
  <2>1. Pending(close_cb_, asked)
        /\ (close_cb_ # NoCb => sending = 1 \/ awaiting = 1)
    BY <1>1 DEF TurnInv, Answered
  <2>2. CASE close_cb_ = asked /\ reports = <<>>
    <3>1. asked # NoCb => ~Gone
      BY <2>1, <2>2 DEF Gone
    <3> QED BY <2>2, <3>1, EmptySeq DEF ReportedOnce
  <2>3. CASE close_cb_ = NoCb /\ Len(reports) = 1 /\ reports[1].cb = asked
    BY <2>3 DEF ReportedOnce
  <2> QED BY <2>1, <2>2, <2>3 DEF Pending
<1> QED BY <1>1, TurnInvHolds, PTL

-------------------------------------------------------------------------------
(* Order, and what a callback that is told OK may rely on. *)

\* The messages behind the one that is being sent.
Waiting == IF msg_queue_ = <<>> THEN <<>> ELSE Tail(msg_queue_)

OrderInv ==
  /\ status_ = "ok" =>
       accepted = sent \o Waiting /\ confirmed + sending = Len(sent)
  /\ sending = 1 => sent # <<>> /\ Head(msg_queue_) = sent[Len(sent)]
  /\ half_closed => sent = accepted /\ confirmed = Len(accepted)
  /\ \A i \in DOMAIN reports : reports[i].status = "ok" => half_closed

\* A message queued behind the others is the last of the whole.
LEMMA PushBack ==
  ASSUME NEW s \in Seq(Msg), NEW q \in Seq(Msg), NEW m \in Msg
  PROVE  Append(s \o q, m) = s \o Append(q, m)
<1>1. s \o q \in Seq(Msg) /\ <<m>> \in Seq(Msg)
  BY ConcatProperties
<1>2. Append(s \o q, m) = (s \o q) \o <<m>> /\ Append(q, m) = q \o <<m>>
  BY <1>1, AppendIsConcat
<1> QED BY <1>1, <1>2, ConcatAssociative

LEMMA OrderInit == Init => OrderInv
<1> SUFFICES ASSUME Init PROVE OrderInv
  OBVIOUS
<1>1. accepted = sent \o Waiting /\ Len(sent) = 0
  BY EmptySeq, ConcatEmptySeq DEF Init, Waiting
<1>2. \A i \in DOMAIN reports : reports[i].status = "ok" => half_closed
  BY EmptySeq DEF Init
<1> QED BY <1>1, <1>2 DEF Init, OrderInv

\* A callback that is told an error adds no promise.
LEMMA NoPromise ==
  ASSUME OrderInv, NEW cb, half_closed => half_closed',
         reports' = reports \/ reports' = <<[cb |-> cb, status |-> "error"]>>
  PROVE  \A i \in DOMAIN reports' : reports'[i].status = "ok" => half_closed'
<1>1. CASE reports' = reports
  BY <1>1 DEF OrderInv
<1>2. CASE reports' = <<[cb |-> cb, status |-> "error"]>>
  BY <1>2
<1> QED BY <1>1, <1>2

LEMMA OrderWrite ==
  ASSUME TurnInv, OrderInv, Write
  PROVE  OrderInv'
<1>0. /\ nmsgs' \in Msg
      /\ UNCHANGED <<is_closing_, has_sent_close_, half_closed, awaiting,
                     confirmed, asked, wrapped, process>>
  BY ClientWriterAssumption DEF Write, TurnInv, TypeOK, Msg
<1>1. CASE WriteRefused
  BY <1>0, <1>1 DEF WriteRefused, OrderInv, Waiting
<1>2. CASE WriteQueued(nmsgs')
  <2>1. /\ status_ = "ok" /\ sending = 1 /\ msg_queue_ # <<>> /\ ~half_closed
        /\ msg_queue_' = Append(msg_queue_, nmsgs')
        /\ accepted' = Append(accepted, nmsgs')
        /\ UNCHANGED <<status_, sent, sending, reports>>
    BY <1>2 DEF WriteQueued, TurnInv, Turn
  <2>2. msg_queue_ \in Seq(Msg) /\ sent \in Seq(Msg)
    BY DEF TurnInv, TypeOK
  <2>3. /\ Tail(msg_queue_) \in Seq(Msg) /\ msg_queue_' # <<>>
        /\ Head(msg_queue_') = Head(msg_queue_)
        /\ Tail(msg_queue_') = Append(Tail(msg_queue_), nmsgs')
    BY <1>0, <2>1, <2>2, HeadTailProperties, AppendProperties, HeadTailAppend
  <2>4. accepted' = (sent \o Waiting)'
    <3>1. accepted = sent \o Tail(msg_queue_)
      BY <2>1 DEF OrderInv, Waiting
    <3>2. Append(sent \o Tail(msg_queue_), nmsgs') = sent \o Append(Tail(msg_queue_), nmsgs')
      BY <1>0, <2>2, <2>3, PushBack
    <3>. QED  BY <2>1, <2>3, <3>1, <3>2 DEF Waiting
  <2>5. confirmed' + sending' = Len(sent')
    BY <1>0, <2>1 DEF OrderInv
  <2>6. sent' # <<>> /\ Head(msg_queue_') = sent'[Len(sent')]
    BY <2>1, <2>3 DEF OrderInv
  <2>7. ~half_closed' /\ \A i \in DOMAIN reports' : reports'[i].status # "ok"
    BY <1>0, <2>1 DEF OrderInv
  <2> QED BY <2>4, <2>5, <2>6, <2>7 DEF OrderInv
<1>3. CASE WriteSent(nmsgs')
  <2>1. /\ status_ = "ok" /\ ~half_closed /\ msg_queue_ = <<>> /\ sending = 0
        /\ msg_queue_' = <<nmsgs'>> /\ sent \in Seq(Msg)
    BY <1>3 DEF WriteSent, TurnInv, Turn, TypeOK
  <2>2. accepted = sent /\ confirmed = Len(sent)
    <3>1. accepted = sent \o <<>> /\ confirmed + sending = Len(sent)
      BY <2>1 DEF OrderInv, Waiting
    <3>2. confirmed \in Nat
      BY DEF TurnInv, TypeOK
    <3> QED BY <2>1, <3>1, <3>2, ConcatEmptySeq
  <2>3. CASE SendNextOk(nmsgs') /\ accepted' = Append(accepted, nmsgs')
    <3>1. /\ sent' = Append(sent, nmsgs') /\ sending' = 1
          /\ UNCHANGED <<status_, reports>>
      BY <2>1, <2>3 DEF SendNextOk
    <3>2. /\ sent' \in Seq(Msg) /\ Len(sent') = Len(sent) + 1
          /\ sent'[Len(sent')] = nmsgs' /\ sent' # <<>>
      BY <1>0, <2>1, <3>1, AppendProperties
    <3>3. Waiting' = <<>> /\ Head(msg_queue_') = nmsgs'
      BY <1>0, <2>1 DEF Waiting
    <3>4. accepted' = (sent \o Waiting)'
      BY <2>2, <2>3, <3>1, <3>2, <3>3, ConcatEmptySeq
    <3>5. confirmed' + sending' = Len(sent')
      BY <1>0, <2>1, <2>2, <3>1, <3>2 DEF TurnInv, TypeOK
    <3> QED BY <1>0, <2>1, <3>1, <3>2, <3>3, <3>4, <3>5 DEF OrderInv
  <2>4. CASE SendNextFails
    <3>1. /\ status_' = "error" /\ sent' = sent /\ sending' = 0
          /\ \/ reports' = reports
             \/ reports' = <<[cb |-> close_cb_, status |-> "error"]>>
      BY <1>0, <2>1, <2>4, FailOk
      DEF SendNextFails, TurnInv, TypeOK, Answered
    <3>2. \A i \in DOMAIN reports' : reports'[i].status = "ok" => half_closed'
      BY <1>0, <3>1, NoPromise
    <3> QED BY <1>0, <2>1, <3>1, <3>2 DEF OrderInv
  <2> QED BY <1>3, <2>3, <2>4 DEF WriteSent
<1> QED BY <1>1, <1>2, <1>3 DEF Write

LEMMA OrderClose ==
  ASSUME TurnInv, OrderInv, NEW cb \in CloseCbs \cup {NoCb}, CloseWith(cb),
         UNCHANGED <<accepted, confirmed>>
  PROVE  OrderInv'
<1>1. CASE CloseAgain
  BY <1>1 DEF CloseAgain, OrderInv, Waiting, impl, core
<1>2. ASSUME CloseFirst(cb)
      PROVE  /\ asked' = cb /\ Pending(cb, cb) /\ ~has_sent_close_
             /\ reports = <<>> /\ awaiting = 0 /\ process = "up" /\ TypeOK
  BY <1>2 DEF CloseFirst, TurnInv, Turn, Answered, Pending
<1>3. CASE CloseAfterError(cb)
  <2>1. /\ CloseFirst(cb) /\ Report(cb, "error")
        /\ UNCHANGED <<status_, msg_queue_, core>>
    BY <1>3
    DEF CloseAfterError, CallCloseCb, TurnInv, TypeOK, StatusCodes
  <2>2. "error" \in StatusCodes
    BY DEF StatusCodes
  <2>3. reports' = reports \/ reports' = <<[cb |-> cb, status |-> "error"]>>
    BY <1>2, <2>1, <2>2, ReportOk
  <2>4. \A i \in DOMAIN reports' : reports'[i].status = "ok" => half_closed'
    BY <2>1, <2>3, NoPromise DEF core
  <2> QED BY <2>1, <2>4 DEF OrderInv, Waiting, core
<1>4. CASE CloseLater(cb)
  BY <1>4 DEF CloseLater, OrderInv, Waiting, core
<1>5. CASE CloseNow(cb)
  <2>1. /\ CloseFirst(cb) /\ SendClose(cb) /\ msg_queue_ = <<>>
        /\ status_ = "ok" /\ sending = 0
        /\ UNCHANGED <<msg_queue_, sent, sending>>
    BY <1>5 DEF CloseNow, TurnInv, Turn
  <2>2. sent = accepted /\ confirmed = Len(accepted)
    <3>1. accepted = sent \o <<>> /\ confirmed + sending = Len(sent)
      BY <2>1 DEF OrderInv, Waiting
    <3>2. confirmed \in Nat /\ sent \in Seq(Msg)
      BY DEF TurnInv, TypeOK
    <3> QED BY <2>1, <3>1, <3>2, ConcatEmptySeq
  <2>3. \/ half_closed' /\ status_' = status_ /\ reports' = reports
        \/ /\ half_closed' = half_closed /\ status_' = "error"
           /\ \/ reports' = reports
              \/ reports' = <<[cb |-> cb, status |-> "error"]>>
    BY <1>2, <2>1, SendCloseTurn
  <2>4. \A i \in DOMAIN reports' : reports'[i].status = "ok" => half_closed'
    BY <2>3, NoPromise
  <2> QED BY <2>1, <2>2, <2>3, <2>4 DEF OrderInv, Waiting
<1> QED BY <1>1, <1>3, <1>4, <1>5 DEF CloseWith

LEMMA OrderSent ==
  ASSUME TurnInv, OrderInv, NEW success \in BOOLEAN, OnSent(success)
  PROVE  OrderInv'
<1>0. /\ TypeOK /\ Pending(close_cb_, asked) /\ process = "up"
      /\ close_cb_ \in CloseCbs \cup {NoCb}
  BY DEF TurnInv, Turn, Answered, TypeOK
<1>1. /\ accepted = sent \o Popped /\ confirmed + 1 = Len(sent)
      /\ sent # <<>> /\ confirmed \in Nat /\ sent \in Seq(Msg)
  BY SentFinds DEF OrderInv, Waiting, Popped, TurnInv, TypeOK
<1>2. ASSUME FailWith(close_cb_), sending' = sending - 1,
             half_closed' = half_closed
      PROVE  OrderInv'
  <2>1. /\ status_' = "error" /\ sending' = 0 /\ ~half_closed'
        /\ \/ reports' = reports
           \/ reports' = <<[cb |-> close_cb_, status |-> "error"]>>
    BY <1>0, <1>2, SentFinds, FailOk
  <2>2. \A i \in DOMAIN reports' : reports'[i].status = "ok" => half_closed'
    BY <1>2, <2>1, NoPromise
  <2> QED BY <2>1, <2>2 DEF OrderInv
<1>3. CASE SentBadly
  BY <1>2, <1>3 DEF SentBadly
<1>4. CASE success /\ SentOne
  <2>1. CASE sent' = Append(sent, Head(Popped))
             /\ UNCHANGED <<sending, status_, close_cb_, reports>>
    <3>1. /\ Popped # <<>> /\ sending' = 1 /\ half_closed' = half_closed
          /\ msg_queue_' = Popped /\ accepted' = accepted
          /\ confirmed' = confirmed + 1 /\ ~half_closed
          /\ status_' = "ok" /\ reports' = reports
      BY <1>4, <2>1, SentFinds DEF SentOne
    <3>2. Waiting' = Tail(Popped)
      BY <3>1 DEF Waiting
    <3>3. accepted' = (sent \o Waiting)'
      BY <1>1, <2>1, <3>1, <3>2, SentFinds, MoveFront
    <3>4. /\ Len(sent') = Len(sent) + 1 /\ sent' # <<>>
          /\ sent'[Len(sent')] = Head(Popped)
      BY <1>1, <2>1, <3>1, SentFinds, AppendProperties
    <3>5. confirmed' + sending' = Len(sent')
      BY <1>1, <3>1, <3>4
    <3> QED BY <3>1, <3>3, <3>4, <3>5 DEF OrderInv
  <2> QED BY <1>2, <1>4, <2>1 DEF SentOne
<1>5. CASE success /\ SentAll
  <2>1. /\ Popped = <<>> /\ sending' = 0 /\ sent' = sent
        /\ confirmed' = confirmed + 1 /\ accepted' = accepted
        /\ Waiting' = <<>>
    <3>1. success /\ Popped = <<>> /\ sending' = sending - 1 /\ sent' = sent
      BY <1>5 DEF SentAll
    <3>2. /\ sending = 1 /\ accepted' = accepted /\ msg_queue_' = Popped
          /\ confirmed' = confirmed + (IF success THEN 1 ELSE 0)
      BY SentFinds
    <3>3. sending' = 0 /\ confirmed' = confirmed + 1
      BY <3>1, <3>2
    <3> QED BY <3>1, <3>2, <3>3 DEF Waiting
  <2>2. sent = accepted /\ confirmed' = Len(accepted)
    BY <1>1, <2>1, ConcatEmptySeq
  <2>3. \/ half_closed' /\ status_' = status_ /\ reports' = reports
        \/ /\ half_closed' = half_closed /\ status_' = "error"
           /\ \/ reports' = reports
              \/ reports' = <<[cb |-> close_cb_, status |-> "error"]>>
        \/ UNCHANGED <<status_, half_closed, reports>>
    BY <1>0, <1>5, SentFinds, SendCloseTurn DEF SentAll
  <2>4. \A i \in DOMAIN reports' : reports'[i].status = "ok" => half_closed'
    BY <2>3, NoPromise
  <2>5. accepted' = (sent \o Waiting)' /\ confirmed' + sending' = Len(sent')
    BY <1>1, <2>1, <2>2, ConcatEmptySeq
  <2> QED BY <2>1, <2>2, <2>4, <2>5 DEF OrderInv
<1> QED BY <1>3, <1>4, <1>5, SentFinds

LEMMA OrderClosed ==
  ASSUME TurnInv, OrderInv, NEW st \in StatusCodes, OnClosed(st)
  PROVE  OrderInv'
<1>1. /\ status_ = "ok" /\ half_closed /\ sending = 0
      /\ UNCHANGED <<msg_queue_, sent, half_closed, sending, accepted,
                     confirmed>>
  BY DEF OnClosed, TurnInv, Turn
<1> QED BY <1>1 DEF OrderInv, Waiting

StreamInv == TurnInv /\ OrderInv

LEMMA StreamInvStep == StreamInv /\ [Next]_vars => StreamInv'
<1> SUFFICES ASSUME StreamInv, [Next]_vars PROVE StreamInv'
  OBVIOUS
<1>0. TurnInv /\ OrderInv /\ TurnInv'
  BY TurnInvStep DEF StreamInv
<1>1. CASE Write
  BY <1>0, <1>1, OrderWrite DEF StreamInv
<1>2. CASE Close
  BY <1>0, <1>2, OrderClose DEF Close, StreamInv
<1>3. CASE DropWrapper
  BY <1>0, <1>3, OrderClose DEF DropWrapper, StreamInv
<1>4. ASSUME NEW success \in BOOLEAN, OnSent(success) PROVE StreamInv'
  BY <1>0, <1>4, OrderSent DEF StreamInv
<1>5. ASSUME NEW st \in StatusCodes, OnClosed(st) PROVE StreamInv'
  BY <1>0, <1>5, OrderClosed DEF StreamInv
<1>6. CASE UNCHANGED vars
  BY <1>0, <1>6 DEF vars, impl, core, history, OrderInv, Waiting, StreamInv
<1> QED BY <1>1, <1>2, <1>3, <1>4, <1>5, <1>6 DEF Next, Done

LEMMA StreamInvHolds == SafeSpec => []StreamInv
<1>1. Init => StreamInv
  BY TurnInvInit, OrderInit DEF StreamInv
<1> QED BY <1>1, StreamInvStep, PTL DEF SafeSpec

\* A message is sent only when the one before it has completed, the half-close
\* when all have.
THEOREM SendOneByOne == SafeSpec => []OneByOne
<1>1. StreamInv => OneByOne
  BY DEF StreamInv, TurnInv, Turn, OrderInv, OneByOne
<1> QED BY <1>1, StreamInvHolds, PTL

\* A close callback that is told OK is told the truth: everything accepted was
\* sent, with success, and the half-close behind it.
THEOREM OkIsTruth == SafeSpec => []SuccessIsTrue
<1>1. StreamInv => SuccessIsTrue
  BY DEF StreamInv, OrderInv, SuccessIsTrue
<1> QED BY <1>1, StreamInvHolds, PTL

-------------------------------------------------------------------------------
(* ClientAsyncWriter implements OrderedStream. *)

LEMMA WriteRefines ==
  ASSUME TurnInv, OrderInv, Write
  PROVE  [Stream!Next]_(Stream!vars)
<1>0. /\ nmsgs' \in Msg /\ UNCHANGED <<is_closing_, half_closed>>
  BY ClientWriterAssumption DEF Write, TurnInv, TypeOK, Msg
<1>1. CASE WriteRefused
  BY <1>0, <1>1 DEF WriteRefused, Stream!vars
<1>2. ASSUME status_ = "ok", ~is_closing_
      PROVE  Stream!Usable /\ ~half_closed
  BY <1>2 DEF Stream!Usable, TurnInv, Turn
<1>3. CASE WriteQueued(nmsgs')
  <2>1. Stream!Accept(nmsgs')
    BY <1>0, <1>2, <1>3 DEF WriteQueued, Stream!Accept
  <2> QED BY <1>0, <2>1 DEF Stream!Next
<1>4. CASE WriteSent(nmsgs')
  <2>1. status_ = "ok" /\ ~is_closing_ /\ sent = accepted
    <3>1. status_ = "ok" /\ ~is_closing_ /\ accepted = sent \o <<>>
      BY <1>4 DEF WriteSent, OrderInv, Waiting
    <3> QED BY <3>1, ConcatEmptySeq DEF TurnInv, TypeOK
  <2>2. CASE SendNextOk(nmsgs') /\ accepted' = Append(accepted, nmsgs')
    <3>1. Stream!Accept(nmsgs')
      BY <1>0, <1>2, <2>1, <2>2 DEF SendNextOk, Stream!Accept
    <3> QED BY <1>0, <3>1 DEF Stream!Next
  <2>3. CASE SendNextFails /\ UNCHANGED accepted
    <3>1. Stream!Break
      BY <1>0, <2>3 DEF SendNextFails, FailWith, Stream!Break
    <3> QED BY <3>1 DEF Stream!Next
  <2> QED BY <1>4, <2>2, <2>3 DEF WriteSent
<1> QED BY <1>1, <1>3, <1>4 DEF Write

LEMMA CloseRefines ==
  ASSUME TurnInv, OrderInv, NEW cb \in CloseCbs \cup {NoCb}, CloseWith(cb),
         UNCHANGED accepted
  PROVE  [Stream!Next]_(Stream!vars)
<1>1. CASE CloseAgain
  BY <1>1 DEF CloseAgain, impl, core, Stream!vars
<1>2. ASSUME CloseFirst(cb)
      PROVE  ~is_closing_ /\ is_closing_' /\ ~half_closed
  BY <1>2 DEF CloseFirst, TurnInv, Turn
<1>3. CASE CloseAfterError(cb) \/ CloseLater(cb)
  <2>1. CloseFirst(cb) /\ UNCHANGED <<status_, sent, half_closed>>
    BY <1>3 DEF CloseAfterError, CloseLater, core
  <2>2. Stream!Close("closed")
    BY <1>2, <2>1 DEF Stream!Close
  <2> QED BY <2>2 DEF Stream!Next
<1>4. CASE CloseNow(cb)
  <2>1. /\ CloseFirst(cb) /\ SendClose(cb) /\ msg_queue_ = <<>>
        /\ status_ = "ok" /\ sent' = sent
    BY <1>4 DEF CloseNow
  <2>2. sent = accepted
    <3>1. accepted = sent \o <<>>
      BY <2>1 DEF OrderInv, Waiting
    <3> QED BY <3>1, ConcatEmptySeq DEF TurnInv, TypeOK
  <2>3. Stream!Usable
    BY <1>2, <2>1 DEF Stream!Usable
  <2>4. ASSUME SendCloseOk(cb) PROVE Stream!Close("closed")
    <3>1. half_closed' /\ status_' = status_
      BY <2>4 DEF SendCloseOk
    <3> QED BY <1>2, <2>1, <2>2, <2>3, <3>1 DEF Stream!Close
  <2>5. ASSUME SendCloseFails(cb) PROVE Stream!Close("closed")
    <3>1. status_' = "error" /\ half_closed' = half_closed
      BY <2>5 DEF SendCloseFails, FailWith
    <3> QED BY <1>2, <2>1, <3>1 DEF Stream!Close
  <2>6. Stream!Close("closed")
    BY <2>1, <2>4, <2>5 DEF SendClose
  <2> QED BY <2>6 DEF Stream!Next
<1> QED BY <1>1, <1>3, <1>4 DEF CloseWith

LEMMA SentRefines ==
  ASSUME TurnInv, OrderInv, NEW success \in BOOLEAN, OnSent(success)
  PROVE  [Stream!Next]_(Stream!vars)
<1>1. /\ accepted = sent \o Popped /\ sent \in Seq(Msg)
      /\ Popped \in Seq(Msg) /\ Stream!Usable /\ ~half_closed
      /\ UNCHANGED <<is_closing_, accepted>>
  BY SentFinds DEF OrderInv, Waiting, Popped, TurnInv, TypeOK, Stream!Usable
<1>2. ASSUME FailWith(close_cb_), UNCHANGED <<sent, half_closed>>
      PROVE  Stream!Break
  BY <1>1, <1>2 DEF FailWith, Stream!Break
<1>3. CASE SentBadly
  BY <1>2, <1>3 DEF SentBadly, Stream!Next
<1>4. CASE SentOne
  <2>1. CASE sent' = Append(sent, Head(Popped)) /\ UNCHANGED status_
    <3>1. Popped # <<>> /\ half_closed' = half_closed
      BY <1>4 DEF SentOne
    <3>2. Len(sent) < Len(accepted) /\ accepted[Len(sent) + 1] = Head(Popped)
      BY <1>1, <3>1, MoveFront
    <3>3. Stream!Send
      BY <1>1, <2>1, <3>1, <3>2 DEF Stream!Send
    <3> QED BY <3>3 DEF Stream!Next
  <2> QED BY <1>2, <1>4, <2>1 DEF SentOne, Stream!Next
<1>5. CASE SentAll
  <2>1. sent' = sent /\ sent = accepted
    BY <1>1, <1>5, ConcatEmptySeq DEF SentAll
  <2>2. CASE is_closing_
    <3>1. SendClose(close_cb_)
      BY <1>5, <2>2 DEF SentAll
    <3>2. CASE SendCloseOk(close_cb_)
      <4>1. Stream!End
        BY <1>1, <2>1, <2>2, <3>2 DEF SendCloseOk, Stream!End
      <4> QED BY <4>1 DEF Stream!Next
    <3>3. CASE SendCloseFails(close_cb_)
      BY <1>2, <2>1, <3>3 DEF SendCloseFails, Stream!Next
    <3> QED BY <3>1, <3>2, <3>3 DEF SendClose
  <2>3. CASE ~is_closing_
    BY <1>1, <1>5, <2>1, <2>3 DEF SentAll, Stream!vars
  <2> QED BY <2>2, <2>3
<1> QED BY <1>3, <1>4, <1>5, SentFinds

LEMMA ClosedRefines ==
  ASSUME TurnInv, NEW st \in StatusCodes, OnClosed(st)
  PROVE  [Stream!Next]_(Stream!vars)
<1>0. status_ = "ok"
  BY DEF OnClosed, TurnInv, Turn
<1>1. /\ status_ = "ok" /\ status_' \in StatusCodes
      /\ UNCHANGED <<is_closing_, sent, half_closed, accepted>>
  BY <1>0 DEF OnClosed, ClosedTooLate
<1>2. CASE status_' = "ok"
  BY <1>1, <1>2 DEF Stream!vars
<1>3. CASE status_' = "error"
  <2>1. Stream!Break
    BY <1>1, <1>3 DEF Stream!Break
  <2> QED BY <2>1 DEF Stream!Next
<1> QED BY <1>1, <1>2, <1>3 DEF StatusCodes

\* Every behaviour of the writer, whatever is called, refused or fails, is one
\* of an ordered stream that ends with the half-close.
THEOREM Refinement == SafeSpec => Stream!SafeSpec
<1>1. Init => Stream!Init
  BY DEF Init, Stream!Init
<1>2. StreamInv /\ [Next]_vars => [Stream!Next]_(Stream!vars)
  <2> SUFFICES ASSUME StreamInv, [Next]_vars
               PROVE  [Stream!Next]_(Stream!vars)
    OBVIOUS
  <2>1. TurnInv /\ OrderInv
    BY DEF StreamInv
  <2>2. ASSUME Close \/ DropWrapper PROVE [Stream!Next]_(Stream!vars)
    BY <2>1, <2>2, CloseRefines DEF Close, DropWrapper
  <2>3. CASE UNCHANGED vars
    BY <2>3 DEF vars, impl, core, history, Stream!vars
  <2> QED
    BY <2>1, <2>2, <2>3, WriteRefines, SentRefines, ClosedRefines
    DEF Next, Done
<1> QED BY <1>1, <1>2, StreamInvHolds, PTL DEF SafeSpec, Stream!SafeSpec

-------------------------------------------------------------------------------
(* A replier in the hands of any threads, whatever they reply. *)

CONSTANTS Threads, Replies, MaxCalls

Shared == INSTANCE ServerReplier WITH started <- tried

LEMMA ReplierTypeInit == Shared!Init => Shared!TypeOK
<1> SUFFICES ASSUME Shared!Init PROVE Shared!TypeOK
  OBVIOUS
<1>1. Len(answer) = 0 /\ answer \in Seq(Replies) /\ tried \in Seq(Threads)
  BY EmptySeq DEF Shared!Init
<1>2. late \subseteq Threads /\ ncalls \in [Threads -> Nat] /\ Len(answer) <= 1
  BY <1>1 DEF Shared!Init
<1> QED BY <1>1, <1>2 DEF Shared!Init, Shared!TypeOK

\* Every step of a thread keeps the types.
LEMMA ReplierTypeStep ==
  Shared!TypeOK /\ [Shared!Next]_(Shared!vars) => Shared!TypeOK'
<1> SUFFICES ASSUME Shared!TypeOK, [Shared!Next]_(Shared!vars) PROVE Shared!TypeOK'
  OBVIOUS
<1> USE DEF Shared!TypeOK, Shared!Goto
<1>1. ASSUME NEW t \in Threads, Shared!Call(t) PROVE Shared!TypeOK'
  <2>1. PICK r \in Replies : Shared!CallWith(t, r)
    BY <1>1 DEF Shared!Call
  <2> QED BY <2>1 DEF Shared!CallWith
<1>2. ASSUME NEW t \in Threads, Shared!TestReplied(t) PROVE Shared!TypeOK'
  BY <1>2 DEF Shared!TestReplied
<1>3. ASSUME NEW t \in Threads, Shared!SetReplied(t) PROVE Shared!TypeOK'
  BY <1>3 DEF Shared!SetReplied
<1>4. ASSUME NEW t \in Threads, Shared!StartReply(t) PROVE Shared!TypeOK'
  <2>1. answer' \in Seq(Replies) /\ Len(answer') <= 1
    <3>1. CASE answer' = <<reply[t]>>
      BY <3>1
    <3>2. CASE answer' = answer
      BY <3>2
    <3> QED BY <1>4, <3>1, <3>2 DEF Shared!StartReply, Shared!TakeBatch
  <2>2. tried' \in Seq(Threads)
    BY <1>4, AppendProperties DEF Shared!StartReply
  <2> QED BY <1>4, <2>1, <2>2 DEF Shared!StartReply
<1>5. CASE UNCHANGED Shared!vars
  BY <1>5 DEF Shared!vars
<1>6. CASE Shared!CallDies
  BY <1>6 DEF Shared!CallDies
<1> QED BY <1>1, <1>2, <1>3, <1>4, <1>5, <1>6 DEF Shared!Next, Shared!Step, Shared!Done

\* Every field, counter and history keeps its type; grpc core takes one answer.
THEOREM ReplierTypeCorrect == Shared!SafeSpec => []Shared!TypeOK
  BY ReplierTypeInit, ReplierTypeStep, PTL DEF Shared!SafeSpec

-------------------------------------------------------------------------------
\* Once a call has returned, the replier knows that a reply was given; so does
\* every thread that is about to start one.
Remembered ==
  /\ returned => replied_
  /\ \A t \in Threads : pc[t] = "start" => replied_
  /\ \A t \in late : returned /\ pc[t] \in {"idle", "test"}

\* Every step of a thread keeps what is remembered.
LEMMA RememberedStep ==
  Shared!TypeOK /\ Remembered /\ [Shared!Next]_(Shared!vars) => Remembered'
<1> SUFFICES ASSUME Shared!TypeOK, Remembered, [Shared!Next]_(Shared!vars)
             PROVE  Remembered'
  OBVIOUS
<1> USE DEF Remembered, Shared!TypeOK, Shared!Goto
<1>1. ASSUME NEW t \in Threads, Shared!Call(t) PROVE Remembered'
  BY <1>1 DEF Shared!Call, Shared!CallWith
<1>2. ASSUME NEW t \in Threads, Shared!TestReplied(t) PROVE Remembered'
  BY <1>2 DEF Shared!TestReplied
<1>3. ASSUME NEW t \in Threads, Shared!SetReplied(t) PROVE Remembered'
  BY <1>3 DEF Shared!SetReplied
<1>4. ASSUME NEW t \in Threads, Shared!StartReply(t) PROVE Remembered'
  BY <1>4 DEF Shared!StartReply
<1>5. CASE UNCHANGED Shared!vars
  BY <1>5 DEF Shared!vars
<1>6. CASE Shared!CallDies
  BY <1>6 DEF Shared!CallDies
<1> QED BY <1>1, <1>2, <1>3, <1>4, <1>5, <1>6 DEF Shared!Next, Shared!Step, Shared!Done

\* However many threads race, a reply that begins after another call has
\* returned does not go to grpc core.
THEOREM LateIgnored == Shared!SafeSpec => []Shared!LateReplyIgnored
<1>1. Shared!Init => Remembered
  BY DEF Shared!Init, Remembered
<1>2. Remembered => Shared!LateReplyIgnored
  BY DEF Remembered, Shared!LateReplyIgnored
<1> QED BY <1>1, <1>2, ReplierTypeCorrect, RememberedStep, PTL DEF Shared!SafeSpec

-------------------------------------------------------------------------------
(* The user's reader *)

\* What the user's reader has been called with when n messages were taken.
Heard(n) ==
  IF has_on_msg THEN [i \in 1 .. n |-> <<"msg", sent[i]>>] ELSE <<>>

\* A read of a dead call may end the reader before everything is taken.
EndedPlainly ==
  \E n \in 0 .. nread : calls = Append(Heard(n), <<"end">>)

EndedByClient ==
  /\ half_closed /\ nread = Len(sent)
  /\ calls = Append(Heard(nread), <<"end">>)

\* The last message may be the one that was bad.
EndedByError ==
  \E n \in 0 .. nread :
    calls = Append(Append(Heard(n), <<"error">>), <<"end">>)

\* One read is out at most, and what the reader was called with are the messages
\* taken from what the client sent, followed by one end.
ReaderInv ==
  /\ reading \in {0, 1} /\ nread \in 0 .. Len(sent)
  /\ has_on_msg \in BOOLEAN /\ started \in BOOLEAN
  /\ ~started => reading = 0 /\ nread = 0 /\ calls = <<>>
  /\ reading = 1 => started /\ calls = Heard(nread)
  /\ Reader!Ended =>
       EndedByClient \/ (dead /\ EndedPlainly) \/ EndedByError

Events == Reader!Events

\* Before its end a reader is called with messages alone.
LEMMA HeardType ==
  ASSUME sent \in Seq(Msg), NEW n \in 0 .. Len(sent)
  PROVE  /\ Heard(n) \in Seq(Events)
         /\ \A i \in DOMAIN Heard(n) : \E m \in Msg : Heard(n)[i] = <<"msg", m>>
<1>1. CASE has_on_msg
  <2>1. \A i \in 1 .. n : sent[i] \in Msg
    BY LenProperties, ElementOfSeq
  <2>2. \A i \in 1 .. n : <<"msg", sent[i]>> \in {"msg"} \X Msg
    BY <2>1
  <2>3. \A i \in 1 .. n : <<"msg", sent[i]>> \in Events
    BY <2>2 DEF Events, Reader!Events
  <2>4. Heard(n) = [i \in 1 .. n |-> <<"msg", sent[i]>>]
    BY <1>1 DEF Heard
  <2>5. n \in Nat
    BY LenProperties
  <2>6. Heard(n) \in [1 .. n -> Events]
    BY <2>3, <2>4
  <2>7. Heard(n) \in Seq(Events)
    BY <2>5, <2>6, SeqDef
  <2> QED BY <2>1, <2>4, <2>7
<1>2. CASE ~has_on_msg
  BY <1>2 DEF Heard
<1> QED BY <1>1, <1>2

\* One more message taken.
LEMMA HeardMore ==
  ASSUME sent \in Seq(Msg), NEW n \in 0 .. Len(sent), n < Len(sent), has_on_msg
  PROVE  Heard(n) \o <<<<"msg", sent[n + 1]>>>> = Heard(n + 1)
<1>1. n \in Nat /\ Heard(n) = [i \in 1 .. n |-> <<"msg", sent[i]>>]
      /\ Heard(n + 1) = [i \in 1 .. n + 1 |-> <<"msg", sent[i]>>]
  BY LenProperties DEF Heard
<1>2. Heard(n) \in Seq(Events) /\ Heard(n + 1) \in Seq(Events)
  <2>1. n + 1 \in 0 .. Len(sent)
    BY LenProperties
  <2> QED BY <2>1, HeardType
<1>3. <<"msg", sent[n + 1]>> \in Events
  <2>1. n + 1 \in 1 .. Len(sent)
    BY <1>1
  <2>2. sent[n + 1] \in Msg
    BY <2>1
  <2> QED BY <2>2 DEF Events, Reader!Events
<1> DEFINE e == <<"msg", sent[n + 1]>>
<1>4. Heard(n) \o <<e>> = Append(Heard(n), e)
  BY <1>2, <1>3, AppendIsConcat
<1>5. Len(Heard(n)) = n /\ Len(Heard(n + 1)) = n + 1
  BY <1>1
<1> HIDE DEF e
<1>6. Append(Heard(n), e) = Heard(n + 1)
  <2>1. Append(Heard(n), e) \in Seq(Events) /\ Len(Append(Heard(n), e)) = n + 1
    BY <1>2, <1>3, <1>5, AppendProperties DEF e
  <2>2. ASSUME NEW i \in 1 .. n + 1
        PROVE  Append(Heard(n), e)[i] = Heard(n + 1)[i]
    <3>1. CASE i = n + 1
      BY <3>1, <1>1, <1>2, <1>3, <1>5, AppendProperties DEF e
    <3>2. CASE i \in 1 .. n
      BY <3>2, <1>1, <1>2, <1>3, <1>5, AppendProperties DEF e
    <3> QED BY <1>1, <3>1, <3>2
  <2> QED BY <1>2, <1>5, <2>1, <2>2, SeqEqual
<1> QED BY <1>4, <1>6 DEF e

\* What was heard is not changed by what the client sends later.
LEMMA HeardKept ==
  ASSUME sent \in Seq(Msg), NEW n \in 0 .. Len(sent),
         has_on_msg' = has_on_msg, NEW m \in Msg,
         sent' = sent \/ sent' = Append(sent, m)
  PROVE  Heard(n)' = Heard(n) /\ Len(sent) <= Len(sent)' /\ sent' \in Seq(Msg)
<1>1. Len(sent) \in Nat /\ n \in Nat /\ n <= Len(sent)
  BY LenProperties
<1>2. /\ \A i \in 1 .. n : sent'[i] = sent[i]
      /\ Len(sent) <= Len(sent') /\ sent' \in Seq(Msg)
  BY <1>1, AppendProperties
<1> QED BY <1>2 DEF Heard

\* The client only adds to what it has sent, and nothing behind the half-close.
LEMMA SentGrows ==
  ASSUME StreamInv, [Next]_vars
  PROVE  /\ sent' = sent \/ \E m \in Msg : sent' = Append(sent, m)
         /\ half_closed => half_closed' /\ sent' = sent
<1>0. TurnInv /\ sent \in Seq(Msg) /\ msg_queue_ \in Seq(Msg)
  BY DEF StreamInv, TurnInv, TypeOK
<1>1. half_closed => is_closing_ /\ sending = 0 /\ has_sent_close_
  BY <1>0 DEF TurnInv, Turn
<1>2. CASE Write
  <2>1. nmsgs' \in Msg /\ half_closed' = half_closed
    BY <1>0, <1>2, ClientWriterAssumption DEF Write, TurnInv, TypeOK, Msg
  <2>2. CASE WriteRefused \/ WriteQueued(nmsgs')
    BY <2>1, <2>2 DEF WriteRefused, WriteQueued
  <2>3. CASE WriteSent(nmsgs')
    BY <1>1, <2>1, <2>3 DEF WriteSent, SendNextOk, SendNextFails
  <2> QED BY <1>2, <2>2, <2>3 DEF Write
<1>3. ASSUME NEW cb \in CloseCbs \cup {NoCb}, CloseWith(cb)
      PROVE  sent' = sent /\ (half_closed => half_closed')
  <2>1. CASE CloseAgain \/ CloseAfterError(cb) \/ CloseLater(cb)
    BY <2>1 DEF CloseAgain, CloseAfterError, CloseLater, core
  <2>2. CASE CloseNow(cb)
    BY <2>2 DEF CloseNow, SendClose, SendCloseOk, SendCloseFails
  <2> QED BY <1>3, <2>1, <2>2 DEF CloseWith
<1>4. ASSUME NEW success \in BOOLEAN, OnSent(success)
      PROVE  /\ ~half_closed
             /\ sent' = sent \/ \E m \in Msg : sent' = Append(sent, m)
  <2>1. ~half_closed /\ Popped \in Seq(Msg)
    BY <1>0, <1>4, SentFinds
  <2>2. CASE SentBadly
    BY <2>1, <2>2 DEF SentBadly
  <2>3. CASE SentOne
    <3>1. Popped # <<>>
      BY <2>3 DEF SentOne
    <3>2. Head(Popped) \in Msg
      BY <2>1, <3>1, HeadTailProperties
    <3> QED BY <2>1, <2>3, <3>2 DEF SentOne
  <2>4. CASE SentAll
    BY <2>1, <2>4 DEF SentAll
  <2> QED BY <1>0, <1>4, <2>2, <2>3, <2>4, SentFinds
<1>5. ASSUME NEW st \in StatusCodes, OnClosed(st)
      PROVE  sent' = sent /\ half_closed' = half_closed
  BY <1>5 DEF OnClosed
<1>6. CASE UNCHANGED vars
  BY <1>6 DEF vars, core
<1> QED BY <1>2, <1>3, <1>4, <1>5, <1>6 DEF Next, Close, DropWrapper, Done

\* Nothing the client does takes a message from the reader.
LEMMA ReaderClient ==
  ASSUME StreamInv, ReaderInv, [Next]_vars, UNCHANGED reader, dead => dead'
  PROVE  ReaderInv'
<1>0. /\ sent \in Seq(Msg) /\ nread \in 0 .. Len(sent) /\ Len(sent) \in Nat
      /\ UNCHANGED <<has_on_msg, started, reading, nread, calls>>
  BY LenProperties DEF StreamInv, TurnInv, TypeOK, ReaderInv, reader
<1>1. CASE sent' = sent
  <2>1. half_closed => half_closed'
    BY SentGrows
  <2>2. Heard(nread)' = Heard(nread) /\ EndedByError' = EndedByError
        /\ EndedPlainly' = EndedPlainly
    BY <1>0, <1>1 DEF Heard, EndedByError, EndedPlainly
  <2> QED BY <1>0, <1>1, <2>1, <2>2
          DEF ReaderInv, EndedByClient, Reader!Ended
<1>2. CASE ~half_closed /\ \E m \in Msg : sent' = Append(sent, m)
  <2>1. PICK m \in Msg : sent' = Append(sent, m)
    BY <1>2
  <2>2. \A n \in 0 .. Len(sent) :
          Heard(n)' = Heard(n) /\ Len(sent) <= Len(sent') /\ Len(sent') \in Nat
    BY <1>0, <2>1, HeardKept, LenProperties
  <2>3. Heard(nread)' = Heard(nread) /\ nread' \in 0 .. Len(sent')
    BY <1>0, <2>2
  <2>4. ASSUME EndedByError PROVE EndedByError'
    <3>1. PICK n \in 0 .. nread :
            calls = Append(Append(Heard(n), <<"error">>), <<"end">>)
      BY <2>4 DEF EndedByError
    <3>2. n \in 0 .. Len(sent)
      BY <1>0
    <3>3. calls' = Append(Append(Heard(n)', <<"error">>), <<"end">>)
      BY <1>0, <2>2, <3>1, <3>2
    <3> QED BY <1>0, <3>3 DEF EndedByError, Heard
  <2>5. ASSUME EndedPlainly PROVE EndedPlainly'
    <3>1. PICK n \in 0 .. nread : calls = Append(Heard(n), <<"end">>)
      BY <2>5 DEF EndedPlainly
    <3>2. n \in 0 .. Len(sent)
      BY <1>0
    <3>3. calls' = Append(Heard(n)', <<"end">>)
      BY <1>0, <2>2, <3>1, <3>2
    <3> QED BY <1>0, <3>3 DEF EndedPlainly, Heard
  <2>6. ~EndedByClient
    BY <1>2 DEF EndedByClient
  <2> QED BY <1>0, <2>3, <2>4, <2>5, <2>6 DEF ReaderInv, Reader!Ended
<1> QED BY <1>1, <1>2, SentGrows

\* EndOnError() behind what was heard.
LEMMA EndOnErrorOk ==
  ASSUME NEW told \in Seq(Events), Reader!EndOnError(told)
  PROVE  calls' = Append(Append(told, <<"error">>), <<"end">>)
<1>1. <<"error">> \in Events /\ <<"end">> \in Events
  BY DEF Events, Reader!Events
<1>2. calls' = told \o <<<<"error">>, <<"end">>>>
  BY DEF Reader!EndOnError, Reader!Dispatch
<1> DEFINE e == <<"error">>
           f == <<"end">>
<1>3. e \in Events /\ f \in Events /\ calls' = told \o <<e, f>>
  BY <1>1, <1>2
<1> HIDE DEF e, f
<1>4. <<e, f>> = Append(<<e>>, f) /\ <<e>> \in Seq(Events)
  BY <1>3
<1>5. Append(<<e>>, f) = <<e>> \o <<f>> /\ <<f>> \in Seq(Events)
  BY <1>3, <1>4, AppendIsConcat
<1>6. told \o <<e, f>> = (told \o <<e>>) \o <<f>>
  BY <1>3, <1>4, <1>5, ConcatAssociative
<1>7. told \o <<e>> = Append(told, e) /\ Append(told, e) \in Seq(Events)
  BY <1>3, AppendIsConcat, AppendProperties
<1>8. (told \o <<e>>) \o <<f>> = Append(Append(told, e), f)
  BY <1>3, <1>7, AppendIsConcat
<1> QED BY <1>3, <1>6, <1>8 DEF e, f

\* Start() and each DoComplete() keep the chain of reads in order.
LEMMA ReaderSteps ==
  ASSUME StreamInv, ReaderInv, Reader!Start \/ Reader!Complete,
         UNCHANGED <<sent, half_closed, dead>>
  PROVE  ReaderInv'
<1>0. /\ sent \in Seq(Msg) /\ Len(sent) \in Nat /\ nread \in Nat
      /\ nread \in 0 .. Len(sent) /\ sent' = sent /\ half_closed' = half_closed
      /\ Heard(nread) \in Seq(Events) /\ Heard(0) = <<>>
  <2>1. sent \in Seq(Msg) /\ nread \in 0 .. Len(sent)
    BY DEF StreamInv, TurnInv, TypeOK, ReaderInv
  <2>2. Heard(0) = <<>>
    BY DEF Heard
  <2> QED BY <2>1, <2>2, LenProperties, HeardType
<1>1. ASSUME has_on_msg' = has_on_msg, NEW n
      PROVE  Heard(n)' = Heard(n)
  BY <1>0, <1>1 DEF Heard
\* The reader has ended on an error, behind n messages.
<1>2. ASSUME has_on_msg' = has_on_msg, started', reading' = 0, started' \in BOOLEAN,
             nread' \in 0 .. Len(sent), NEW n \in 0 .. nread',
             Reader!EndOnError(Heard(n))
      PROVE  ReaderInv'
  <2>1. n \in 0 .. Len(sent)
    BY <1>0, <1>2
  <2>2. calls' = Append(Append(Heard(n), <<"error">>), <<"end">>)
    BY <1>0, <1>2, <2>1, HeardType, EndOnErrorOk
  <2>3. calls' = Append(Append(Heard(n)', <<"error">>), <<"end">>)
    BY <1>1, <1>2, <2>2
  <2>4. EndedByError'
    BY <1>2, <2>3 DEF EndedByError, Heard
  <2> QED BY <1>0, <1>2, <2>4 DEF ReaderInv
<1>3. CASE Reader!Start
  <2>1. /\ ~started /\ started' /\ started' \in BOOLEAN
        /\ reading = 0 /\ nread = 0 /\ calls = Heard(0)
        /\ UNCHANGED <<has_on_msg, nread>>
    BY <1>0, <1>3 DEF Reader!Start, ReaderInv
  <2>2. CASE reading' = 1 /\ UNCHANGED calls
    BY <1>0, <1>1, <2>1, <2>2 DEF ReaderInv, Reader!Ended
  <2>3. CASE Reader!EndOnError(calls) /\ UNCHANGED reading
    BY <1>0, <1>2, <2>1, <2>3
  <2> QED BY <1>3, <2>2, <2>3 DEF Reader!Start
<1>4. ASSUME reading > 0
      PROVE  reading = 1 /\ started /\ started \in BOOLEAN /\ calls = Heard(nread)
  BY <1>4 DEF ReaderInv
<1>5. CASE Reader!ReadFailed
  <2>1. /\ reading > 0 /\ reading' = reading - 1
        /\ UNCHANGED <<has_on_msg, started, nread>> /\ Reader!EndOnError(calls)
    BY <1>5 DEF Reader!ReadFailed
  <2>2. reading' = 0 /\ Reader!EndOnError(Heard(nread)) /\ started'
    BY <1>4, <2>1
  <2>3. started' \in BOOLEAN
    BY <2>1 DEF ReaderInv
  <2>4. nread' \in 0 .. Len(sent) /\ nread \in 0 .. nread'
    BY <1>0, <2>1
  <2> QED BY <1>2, <2>1, <2>2, <2>3, <2>4
<1>6. CASE Reader!ReadEnd
  <2>1. /\ reading > 0 /\ reading' = reading - 1
        /\ dead \/ (half_closed /\ nread = Len(sent))
        /\ UNCHANGED <<has_on_msg, started, nread>>
        /\ calls' = calls \o <<<<"end">>>>
    BY <1>6 DEF Reader!ReadEnd, Reader!Dispatch
  <2>2. <<"end">> \in Events
    BY DEF Events, Reader!Events
  <2>3. reading' = 0 /\ calls' = Append(Heard(nread), <<"end">>) /\ started'
    BY <1>0, <1>4, <2>1, <2>2, AppendIsConcat
  <2>4. Heard(nread)' = Heard(nread)
    BY <1>0, <2>1 DEF Heard
  <2>5. CASE half_closed /\ nread = Len(sent)
    <3>1. EndedByClient'
      BY <1>0, <2>1, <2>3, <2>4, <2>5 DEF EndedByClient
    <3> QED BY <1>0, <2>1, <2>3, <3>1 DEF ReaderInv
  <2>6. CASE dead
    <3>1. nread' \in 0 .. nread' /\ calls' = Append(Heard(nread)', <<"end">>)
      BY <1>0, <2>1, <2>3, <2>4
    <3>2. EndedPlainly'
      BY <2>1, <3>1 DEF EndedPlainly, Heard
    <3> QED BY <1>0, <2>1, <2>3, <2>6, <3>2 DEF ReaderInv
  <2> QED BY <2>1, <2>5, <2>6
<1>7. CASE Reader!ReadMsg
  <2> DEFINE msg == sent[nread']
  <2>1. /\ reading > 0 /\ nread < Len(sent) /\ nread' = nread + 1
        /\ UNCHANGED <<has_on_msg, started>>
    BY <1>7 DEF Reader!ReadMsg, Reader!TakesMsg
  <2>2. /\ nread' \in 0 .. Len(sent) /\ nread' \in Nat
        /\ reading = 1 /\ started' /\ calls = Heard(nread)
    BY <1>0, <1>4, <2>1
  <2>3. started' \in BOOLEAN
    BY <2>1 DEF ReaderInv
  <2>4. CASE has_on_msg /\ msg \notin bad
    <3>1. Reader!OnMsgStr(msg) = Heard(nread) \o <<<<"msg", sent[nread + 1]>>>>
      BY <2>1, <2>2, <2>4 DEF Reader!OnMsgStr, Reader!Dispatch
    <3>2. Reader!OnMsgStr(msg) = Heard(nread') /\ ~Reader!OnMsgStrFails(msg)
      BY <1>0, <2>1, <2>4, <3>1, HeardMore DEF Reader!OnMsgStrFails
    <3>3. CASE calls' = Reader!OnMsgStr(msg) /\ UNCHANGED reading
      <4>1. calls' = Heard(nread')
        BY <3>2, <3>3
      <4>2. calls' = Heard(nread)'
        BY <1>1, <2>1, <4>1 DEF Heard
      <4> QED BY <1>0, <2>1, <2>2, <2>3, <3>3, <4>2 DEF ReaderInv, Reader!Ended
    <3>4. CASE Reader!EndOnError(Reader!OnMsgStr(msg)) /\ reading' = reading - 1
      <4>1. Reader!EndOnError(Heard(nread')) /\ reading' = 0
        BY <2>2, <3>2, <3>4
      <4>2. nread' \in 0 .. nread'
        BY <2>2
      <4> QED BY <1>2, <2>1, <2>2, <2>3, <4>1, <4>2
    <3> QED BY <1>7, <3>3, <3>4 DEF Reader!ReadMsg
  <2>5. CASE ~(has_on_msg /\ msg \notin bad)
    <3>1. Reader!OnMsgStr(msg) = Heard(nread)
      <4>1. Reader!OnMsgStr(msg) = Heard(nread) \o <<>>
        BY <2>2, <2>5 DEF Reader!OnMsgStr, Reader!Dispatch
      <4> QED BY <1>0, <4>1, ConcatEmptySeq
    <3>2. CASE ~Reader!OnMsgStrFails(msg) /\ calls' = Reader!OnMsgStr(msg)
               /\ UNCHANGED reading
      <4>1. ~has_on_msg
        BY <2>5, <3>2 DEF Reader!OnMsgStrFails
      <4>2. calls' = Heard(nread) /\ Heard(nread)' = <<>> /\ Heard(nread) = <<>>
        BY <2>1, <3>1, <3>2, <4>1 DEF Heard
      <4> QED BY <1>0, <2>1, <2>2, <2>3, <3>2, <4>2 DEF ReaderInv, Reader!Ended
    <3>3. CASE Reader!EndOnError(Reader!OnMsgStr(msg)) /\ reading' = reading - 1
      <4>1. Reader!EndOnError(Heard(nread)) /\ reading' = 0
        BY <2>2, <3>1, <3>3
      <4>2. nread \in 0 .. nread'
        BY <1>0, <2>1
      <4> QED BY <1>2, <2>1, <2>2, <2>3, <4>1, <4>2
    <3> QED BY <1>7, <3>2, <3>3 DEF Reader!ReadMsg
  <2> QED BY <2>4, <2>5
<1> QED BY <1>3, <1>5, <1>6, <1>7 DEF Reader!Complete

\* The three calls of the user's reader are told apart.
LEMMA EventsDiffer ==
  /\ <<"error">> # <<"end">>
  /\ \A m : <<"msg", m>> # <<"end">> /\ <<"msg", m>> # <<"error">>
<1>1. <<"error">> # <<"end">>
  OBVIOUS
<1>2. ASSUME NEW m, NEW x PROVE <<"msg", m>> # <<x>>
  <2>1. Len(<<"msg", m>>) = 2 /\ Len(<<x>>) = 1
    OBVIOUS
  <2> QED BY <2>1
<1> QED BY <1>1, <1>2

\* What an ended reader was called with.
LEMMA CallsOfEnded ==
  ASSUME StreamInv, ReaderInv, NEW n \in 0 .. Len(sent)
  PROVE  /\ calls = Heard(n) =>
              \A i \in DOMAIN calls :
                calls[i] # <<"end">> /\ calls[i] # <<"error">>
         /\ calls = Append(Heard(n), <<"end">>) =>
              /\ Len(calls) \in DOMAIN calls /\ calls # <<>>
              /\ \A i \in DOMAIN calls :
                   /\ calls[i] # <<"error">>
                   /\ calls[i] = <<"end">> <=> i = Len(calls)
         /\ calls = Append(Append(Heard(n), <<"error">>), <<"end">>) =>
              /\ Len(calls) \in Nat /\ Len(calls) > 1 /\ calls # <<>>
              /\ \A i \in DOMAIN calls :
                   /\ calls[i] = <<"error">> <=> i = Len(calls) - 1
                   /\ calls[i] = <<"end">> <=> i = Len(calls)
              /\ {Len(calls) - 1, Len(calls)} \subseteq DOMAIN calls
<1> DEFINE h == Heard(n)
           k == Len(h)
<1>1. /\ h \in Seq(Events)
      /\ \A i \in DOMAIN h : h[i] # <<"end">> /\ h[i] # <<"error">>
  <2>1. sent \in Seq(Msg)
    BY DEF StreamInv, TurnInv, TypeOK
  <2> QED BY <2>1, HeardType, EventsDiffer
<1>2. k \in Nat /\ DOMAIN h = 1 .. k
  BY <1>1, LenProperties
<1>3. <<"error">> \in Events /\ <<"end">> \in Events /\ <<"error">> # <<"end">>
  BY EventsDiffer DEF Events, Reader!Events
<1> DEFINE e == <<"error">>
           f == <<"end">>
           c == Append(h, f)
           d == Append(Append(h, e), f)
<1>4. e \in Events /\ f \in Events /\ e # f
      /\ \A i \in DOMAIN h : h[i] # f /\ h[i] # e
  BY <1>1, <1>3
<1> HIDE DEF e, f, h
<1>5. /\ c \in Seq(Events) /\ Len(c) = k + 1 /\ DOMAIN c = 1 .. k + 1
      /\ c[k + 1] = f /\ \A i \in 1 .. k : c[i] = h[i]
  BY <1>1, <1>2, <1>4, AppendProperties
<1>6. /\ Append(h, e) \in Seq(Events) /\ Len(Append(h, e)) = k + 1
      /\ Append(h, e)[k + 1] = e /\ \A i \in 1 .. k : Append(h, e)[i] = h[i]
  BY <1>1, <1>2, <1>4, AppendProperties
<1>7. /\ d \in Seq(Events) /\ Len(d) = k + 2 /\ DOMAIN d = 1 .. k + 2
      /\ d[k + 2] = f /\ d[k + 1] = e /\ \A i \in 1 .. k : d[i] = h[i]
  BY <1>2, <1>4, <1>6, AppendProperties
<1>8. calls = h => \A i \in DOMAIN calls : calls[i] # f /\ calls[i] # e
  BY <1>4
<1>9. calls = c => /\ Len(calls) \in DOMAIN calls /\ calls # <<>>
                   /\ \A i \in DOMAIN calls :
                        calls[i] # e /\ (calls[i] = f <=> i = Len(calls))
  BY <1>2, <1>4, <1>5
<1>10. calls = d => /\ Len(calls) \in Nat /\ Len(calls) > 1 /\ calls # <<>>
                    /\ \A i \in DOMAIN calls :
                         /\ calls[i] = e <=> i = Len(calls) - 1
                         /\ calls[i] = f <=> i = Len(calls)
                    /\ {Len(calls) - 1, Len(calls)} \subseteq DOMAIN calls
  BY <1>2, <1>4, <1>7
<1> QED BY <1>8, <1>9, <1>10 DEF e, f, h

\* A reader that was ended without an error took everything up to the half-close,
\* unless the call is dead.
LEMMA CleanEnd ==
  ASSUME StreamInv, ReaderInv, Reader!EndedCleanly, ~dead
  PROVE  EndedByClient
<1> SUFFICES ASSUME EndedByError PROVE FALSE
  BY DEF ReaderInv, Reader!EndedCleanly
<1>1. PICK n \in 0 .. nread :
        calls = Append(Append(Heard(n), <<"error">>), <<"end">>)
  BY DEF EndedByError
<1>2. n \in 0 .. Len(sent)
  BY LenProperties DEF ReaderInv, StreamInv, TurnInv, TypeOK
<1>3. /\ Len(calls) - 1 \in DOMAIN calls
      /\ calls[Len(calls) - 1] = <<"error">>
  BY <1>1, <1>2, CallsOfEnded
<1> QED BY <1>3 DEF Reader!EndedCleanly

\* The chain ends with its one OnEnd().
LEMMA EndsOnceInv ==
  ASSUME StreamInv, ReaderInv
  PROVE  EndsOnce
<1>0. /\ nread \in 0 .. Len(sent) /\ reading <= 1 /\ reading \in {0, 1}
      /\ 0 .. nread \subseteq 0 .. Len(sent)
  <2>1. Len(sent) \in Nat
    BY LenProperties DEF StreamInv, TurnInv, TypeOK
  <2> QED BY <2>1 DEF ReaderInv
<1> USE DEF EndsOnce, Reader!EndsOnce, Reader!LastCall
<1>1. CASE ~started
  BY <1>0, <1>1 DEF ReaderInv, Reader!Ended
<1>2. CASE reading = 1
  <2>1. \A i \in DOMAIN calls : calls[i] # <<"end">> /\ calls[i] # <<"error">>
    BY <1>0, <1>2, CallsOfEnded DEF ReaderInv
  <2>2. calls \in Seq(Events)
    <3>1. sent \in Seq(Msg)
      BY DEF StreamInv, TurnInv, TypeOK
    <3> QED BY <1>0, <1>2, <3>1, HeardType DEF ReaderInv
  <2>3. calls # <<>> => Len(calls) \in DOMAIN calls
    BY <2>2, EmptySeq, LenProperties
  <2>4. ~(calls # <<>> /\ calls[Len(calls)] = <<"end">>)
    BY <2>1, <2>3
  <2>5. ~Reader!Ended
    BY <1>2 DEF Reader!Ended
  <2> QED BY <1>0, <2>1, <2>4, <2>5
<1>3. CASE started /\ reading = 0
  <2>1. CASE EndedByClient
    BY <1>0, <1>3, <2>1, CallsOfEnded DEF EndedByClient
  <2>2. CASE EndedByError
    <3>1. PICK n \in 0 .. Len(sent) :
            calls = Append(Append(Heard(n), <<"error">>), <<"end">>)
      BY <1>0, <2>2 DEF EndedByError
    <3>2. /\ Len(calls) \in Nat /\ Len(calls) > 1 /\ calls # <<>>
          /\ \A i \in DOMAIN calls :
               /\ calls[i] = <<"error">> <=> i = Len(calls) - 1
               /\ calls[i] = <<"end">> <=> i = Len(calls)
      BY <3>1, CallsOfEnded
    <3>3. Len(calls) \in DOMAIN calls
      BY <3>1, CallsOfEnded
    <3> QED BY <1>0, <1>3, <3>2, <3>3
  <2>3. CASE EndedPlainly
    <3>1. PICK n \in 0 .. Len(sent) : calls = Append(Heard(n), <<"end">>)
      BY <1>0, <2>3 DEF EndedPlainly
    <3> QED BY <1>0, <1>3, <3>1, CallsOfEnded
  <2> QED BY <1>3, <2>1, <2>2, <2>3 DEF ReaderInv, Reader!Ended
<1> QED BY <1>0, <1>1, <1>2, <1>3

-------------------------------------------------------------------------------
(* The two who reply, and what the client is told. *)

Repliers == {"handler", "timer"}

\* The handler says OK when its reader was ended without an error, the other
\* thread never.  It reaches grpc core in time when the half-close was the end;
\* the client's callback says OK when grpc core has such an answer.
Concluded == Reader!Ended /\ EndedByClient

TruthInv ==
  /\ \A t \in Repliers : reply[t] = "ok" => Reader!EndedCleanly
  /\ answer = <<"ok">> => Concluded
  /\ \A i \in DOMAIN reports : reports[i].status = "ok" => answer = <<"ok">>

\* Which messages are bad is fixed.
WireInv == bad \subseteq Msg /\ dead \in BOOLEAN

CallInv == StreamInv /\ ReaderInv /\ Replier!TypeOK /\ WireInv /\ TruthInv

\* The types of the replier that the handler and the timer share.
LEMMA CallReplierStep ==
  ASSUME Replier!TypeOK,
         \/ \E t \in Repliers : Replier!Call(t) \/ Replier!Step(t)
         \/ UNCHANGED replier,
         dead' \in BOOLEAN
  PROVE  Replier!TypeOK'
<1> USE DEF Replier!TypeOK, Replier!Goto
<1>1. ASSUME NEW t \in Repliers, Replier!Call(t) PROVE Replier!TypeOK'
  <2>1. PICK r \in StatusCodes : Replier!CallWith(t, r)
    BY <1>1 DEF Replier!Call
  <2> QED BY <2>1 DEF Replier!CallWith, Repliers
<1>2. ASSUME NEW t \in Repliers, Replier!TestReplied(t) PROVE Replier!TypeOK'
  BY <1>2 DEF Replier!TestReplied
<1>3. ASSUME NEW t \in Repliers, Replier!SetReplied(t) PROVE Replier!TypeOK'
  BY <1>3 DEF Replier!SetReplied
<1>4. ASSUME NEW t \in Repliers, Replier!StartReply(t) PROVE Replier!TypeOK'
  <2>1. answer' \in Seq(StatusCodes) /\ Len(answer') <= 1
    <3>1. reply[t] \in StatusCodes
      BY DEF Repliers
    <3>2. CASE answer' = <<reply[t]>>
      BY <3>1, <3>2
    <3>3. CASE answer' = answer
      BY <3>3
    <3> QED BY <1>4, <3>2, <3>3 DEF Replier!StartReply, Replier!TakeBatch
  <2>2. tried' \in Seq(Repliers)
    BY <1>4, AppendProperties DEF Replier!StartReply, Repliers
  <2> QED BY <1>4, <2>1, <2>2 DEF Replier!StartReply, Repliers
<1>5. CASE UNCHANGED replier
  BY <1>5 DEF replier
<1> QED BY <1>1, <1>2, <1>3, <1>4, <1>5 DEF Replier!Step

\* Only OnClosed() tells an OK that the writer did not say before.
LEMMA ErrorReports ==
  ASSUME StreamInv,
         Write \/ Close \/ DropWrapper \/ \E success \in BOOLEAN : OnSent(success)
  PROVE  \/ reports' = reports
         \/ \E cb : reports' = <<[cb |-> cb, status |-> "error"]>>
<1> DEFINE Goal ==
     \/ reports' = reports
     \/ \E cb : reports' = <<[cb |-> cb, status |-> "error"]>>
<1>0. /\ TypeOK /\ TurnInv /\ "error" \in StatusCodes
      /\ close_cb_ \in CloseCbs \cup {NoCb} /\ Pending(close_cb_, asked)
  BY DEF StreamInv, TurnInv, Answered, TypeOK, StatusCodes
<1>1. ASSUME NEW cb \in CloseCbs \cup {NoCb}, NEW ask, Pending(cb, ask),
             Report(cb, "error")
      PROVE  Goal
  <2>1. reports' = reports \/ reports' = <<[cb |-> cb, status |-> "error"]>>
    <3> HIDE DEF Goal
    <3> QED BY <1>0, <1>1, ReportOk
  <2> QED BY <2>1
<1>2. ASSUME FailWith(close_cb_) PROVE Goal
  BY <1>0, <1>1, <1>2 DEF FailWith, CallCloseCb
<1>3. ASSUME NEW cb \in CloseCbs \cup {NoCb}, NEW ask, Pending(cb, ask),
             SendClose(cb)
      PROVE  Goal
  BY <1>1, <1>3 DEF SendClose, SendCloseOk, SendCloseFails, FailWith, CallCloseCb
<1>4. CASE Write
  BY <1>2, <1>4
  DEF Write, WriteRefused, WriteQueued, WriteSent, SendNextOk, SendNextFails
<1>5. ASSUME NEW cb \in CloseCbs \cup {NoCb}, CloseWith(cb) PROVE Goal
  <2>1. ASSUME CloseFirst(cb) PROVE Pending(cb, cb)
    BY <1>0, <2>1 DEF CloseFirst, TurnInv, Turn, Answered, Pending
  <2>2. CASE CloseAgain \/ CloseLater(cb)
    BY <2>2 DEF CloseAgain, CloseLater
  <2>3. CASE CloseAfterError(cb)
    <3>1. CloseFirst(cb) /\ Report(cb, "error")
      BY <1>0, <2>3 DEF CloseAfterError, CallCloseCb, TypeOK, StatusCodes
    <3> QED BY <1>1, <2>1, <3>1
  <2>4. CASE CloseNow(cb)
    BY <1>3, <2>1, <2>4 DEF CloseNow
  <2> QED BY <1>5, <2>2, <2>3, <2>4 DEF CloseWith
<1>6. ASSUME NEW success \in BOOLEAN, OnSent(success) PROVE Goal
  <2>1. SentBadly \/ SentOne \/ SentAll
    BY <1>0, <1>6, SentFinds
  <2> QED BY <1>0, <1>2, <1>3, <2>1 DEF SentBadly, SentOne, SentAll
<1> QED BY <1>4, <1>5, <1>6 DEF Close, DropWrapper

\* OnClosed() tells its status, if anybody is still to be told.
LEMMA ClosedReports ==
  ASSUME StreamInv, NEW st \in StatusCodes, OnClosed(st)
  PROVE  \/ reports' = reports
         \/ \E cb : reports' = <<[cb |-> cb, status |-> st]>>
<1>1. /\ TypeOK /\ Pending(close_cb_, asked) /\ close_cb_ \in CloseCbs \cup {NoCb}
      /\ awaiting = 1 /\ status_ = "ok"
  BY DEF StreamInv, TurnInv, Turn, Answered, TypeOK, OnClosed
<1>2. Report(close_cb_, st)
  BY <1>1 DEF OnClosed, ClosedTooLate, CallCloseCb
<1> QED BY <1>1, <1>2, ReportOk

\* A new report of an OK needs the server's OK.
LEMMA ReportsTrue ==
  ASSUME TruthInv, NEW st, st = "ok" => answer = <<"ok">>, answer' = answer,
         \/ reports' = reports
         \/ \E cb : reports' = <<[cb |-> cb, status |-> st]>>
  PROVE  \A i \in DOMAIN reports' : reports'[i].status = "ok" => answer' = <<"ok">>
<1>1. CASE reports' = reports
  BY <1>1 DEF TruthInv
<1>2. ASSUME NEW cb, reports' = <<[cb |-> cb, status |-> st]>>
      PROVE  \A i \in DOMAIN reports' : reports'[i].status = st
  BY <1>2
<1> QED BY <1>1, <1>2

\* A reader that has ended stays as it is.
LEMMA EndedStays ==
  ASSUME ReaderInv, Reader!EndedCleanly, ReadStep \/ UNCHANGED reader
  PROVE  Reader!EndedCleanly'
<1>1. started /\ reading = 0
  BY DEF Reader!EndedCleanly, Reader!Ended
<1>2. ~ReadStep
  BY <1>1 DEF ReadStep, Reader!Start, Reader!Complete, Reader!ReadFailed,
              Reader!ReadEnd, Reader!ReadMsg, Reader!TakesMsg
<1> QED BY <1>2 DEF reader, Reader!EndedCleanly, Reader!Ended

\* Nor does the client send anything behind its half-close.
LEMMA ConclusionStays ==
  ASSUME StreamInv, ReaderInv, Concluded, ReadStep \/ UNCHANGED reader,
         [Next]_vars
  PROVE  Concluded'
<1>1. started /\ reading = 0 /\ half_closed /\ nread = Len(sent)
  BY DEF Concluded, Reader!Ended, EndedByClient
<1>2. ~ReadStep
  BY <1>1 DEF ReadStep, Reader!Start, Reader!Complete, Reader!ReadFailed,
              Reader!ReadEnd, Reader!ReadMsg, Reader!TakesMsg
<1>3. half_closed' /\ sent' = sent
  BY <1>1, SentGrows
<1>4. UNCHANGED <<has_on_msg, started, reading, nread, calls>>
  BY <1>2 DEF reader
<1>5. Heard(nread)' = Heard(nread)
  BY <1>3, <1>4 DEF Heard
<1> QED BY <1>1, <1>3, <1>4, <1>5 DEF Concluded, EndedByClient, Reader!Ended

\* The answer is what one of the two replied.
LEMMA RepliesTrue ==
  ASSUME CallInv, UNCHANGED <<reader, vars>>,
         \/ /\ Reader!Ended
            /\ Replier!CallWith("handler",
                                IF Reader!EndedCleanly THEN "ok" ELSE "error")
         \/ Replier!CallWith("timer", "error")
         \/ \E t \in Repliers : Replier!Step(t)
  PROVE  TruthInv'
<1>0. /\ reply \in [Repliers -> StatusCodes] /\ answer \in Seq(StatusCodes)
      /\ (Reader!EndedCleanly => Reader!EndedCleanly')
      /\ (Concluded => Concluded')
      /\ reports' = reports
  BY EndedStays, ConclusionStays DEF CallInv, Replier!TypeOK, Repliers, vars, history
<1> USE DEF CallInv, TruthInv
<1>1. CASE Replier!CallWith("handler",
                            IF Reader!EndedCleanly THEN "ok" ELSE "error")
  BY <1>0, <1>1 DEF Replier!CallWith, Repliers
<1>2. CASE Replier!CallWith("timer", "error")
  BY <1>0, <1>2 DEF Replier!CallWith, Repliers
<1>3. ASSUME NEW t \in Repliers, Replier!TestReplied(t) \/ Replier!SetReplied(t)
      PROVE  TruthInv'
  BY <1>0, <1>3 DEF Replier!TestReplied, Replier!SetReplied
<1>4. ASSUME NEW t \in Repliers, Replier!StartReply(t) PROVE TruthInv'
  <2>1. reply' = reply
    BY <1>4 DEF Replier!StartReply
  <2>2. CASE answer' = answer
    BY <1>0, <2>1, <2>2
  <2>3. CASE answer = <<>> /\ ~dead /\ answer' = <<reply[t]>>
    <3>1. answer # <<"ok">>
      BY <2>3
    <3>2. answer' = <<"ok">> => reply[t] = "ok"
      BY <2>3
    <3>3. Reader!EndedCleanly => Concluded
      BY <2>3, CleanEnd DEF Concluded, Reader!EndedCleanly
    <3> QED BY <1>0, <2>1, <3>1, <3>2, <3>3
  <2> QED BY <1>4, <2>2, <2>3 DEF Replier!StartReply, Replier!TakeBatch
<1> QED BY <1>1, <1>2, <1>3, <1>4 DEF Replier!Step

LEMMA CallInvInit == CallInit => CallInv
<1> SUFFICES ASSUME CallInit PROVE CallInv
  OBVIOUS
<1>1. StreamInv
  BY TurnInvInit, OrderInit DEF StreamInv, CallInit
<1>2. ReaderInv
  <2>1. Len(sent) = 0 /\ Len(sent) \in Nat
    BY EmptySeq DEF CallInit, Init
  <2>2. /\ has_on_msg \in BOOLEAN /\ ~started /\ started \in BOOLEAN
        /\ reading = 0 /\ nread = 0 /\ calls = <<>>
    BY DEF CallInit, Reader!ReaderInit
  <2>3. reading \in {0, 1} /\ nread \in 0 .. Len(sent)
    BY <2>1, <2>2
  <2> QED BY <2>2, <2>3 DEF ReaderInv, Reader!Ended
<1>3. Replier!TypeOK
  <2>1. Len(answer) <= 1 /\ answer \in Seq(StatusCodes) /\ tried \in Seq(Repliers)
    BY EmptySeq DEF CallInit, Replier!Init
  <2> QED BY <2>1 DEF CallInit, Replier!Init, Replier!TypeOK, Repliers
<1>4. WireInv
  BY MayBeBadAssumption DEF WireInv, CallInit
<1>5. TruthInv
  <2>1. reports = <<>> /\ answer = <<>>
    BY DEF CallInit, Init, Replier!Init
  <2>2. \A t \in Repliers : reply[t] = "error"
    BY DEF CallInit, Repliers
  <2> QED BY <2>1, <2>2, EmptySeq DEF TruthInv
<1> QED BY <1>1, <1>2, <1>3, <1>4, <1>5 DEF CallInv

\* Every step of the call, one by one.
LEMMA CallInvStep == CallInv /\ [CallNext]_allVars => CallInv'
<1> SUFFICES ASSUME CallInv, [CallNext]_allVars PROVE CallInv'
  OBVIOUS
<1>0. StreamInv /\ ReaderInv /\ Replier!TypeOK /\ WireInv /\ TruthInv
  BY DEF CallInv
\* A step of the writer's that makes no report of an OK.
<1>1. ASSUME [Next]_vars, UNCHANGED <<reader, replier, dead>>,
             NEW st \in StatusCodes, st = "ok" => answer = <<"ok">>,
             \/ reports' = reports
             \/ \E cb : reports' = <<[cb |-> cb, status |-> st]>>
      PROVE  CallInv'
  <2>1. StreamInv' /\ ReaderInv'
    BY <1>0, <1>1, StreamInvStep, ReaderClient
  <2>2. WireInv'
    BY <1>0, <1>1 DEF reader, WireInv
  <2>5. Replier!TypeOK'
    BY <1>0, <1>1, <2>2, CallReplierStep DEF WireInv
  <2>3. answer' = answer /\ reply' = reply
    BY <1>1 DEF replier
  <2>4. TruthInv'
    <3>1. \A i \in DOMAIN reports' :
            reports'[i].status = "ok" => answer' = <<"ok">>
      BY <1>0, <1>1, <2>3, ReportsTrue
    <3> QED BY <1>0, <1>1, <2>3, <3>1, EndedStays, ConclusionStays DEF TruthInv
  <2> QED BY <2>1, <2>2, <2>4, <2>5 DEF CallInv
<1>2. CASE ClientCalls
  <2>1. [Next]_vars /\ UNCHANGED <<reader, replier, dead>>
    BY <1>2 DEF ClientCalls, Next
  <2>2. \/ reports' = reports
        \/ \E cb : reports' = <<[cb |-> cb, status |-> "error"]>>
    BY <1>0, <1>2, ErrorReports DEF ClientCalls
  <2> QED BY <1>1, <2>1, <2>2 DEF StatusCodes
<1>3. CASE MessageSent
  <2>1. /\ [Next]_vars /\ UNCHANGED <<reader, replier, dead>>
        /\ \E success \in BOOLEAN : OnSent(success)
    BY <1>3 DEF MessageSent, Next
  <2>2. \/ reports' = reports
        \/ \E cb : reports' = <<[cb |-> cb, status |-> "error"]>>
    BY <1>0, <2>1, ErrorReports
  <2> QED BY <1>1, <2>1, <2>2 DEF StatusCodes
<1>4. CASE CallOver
  <2>1. PICK st \in StatusCodes : OnClosed(st) /\ (st = "ok" => answer = <<"ok">>)
    BY <1>4 DEF CallOver, StatusCodes
  <2>2. [Next]_vars /\ UNCHANGED <<reader, replier, dead>>
    BY <1>4, <2>1 DEF CallOver, Next
  <2>3. \/ reports' = reports
        \/ \E cb : reports' = <<[cb |-> cb, status |-> st]>>
    BY <1>0, <2>1, ClosedReports
  <2> QED BY <1>1, <2>1, <2>2, <2>3
<1>5. CASE ReadStep
  <2>1. UNCHANGED <<vars, replier>> /\ (Reader!Start \/ Reader!Complete)
    BY <1>5 DEF ReadStep
  <2>2. UNCHANGED <<sent, half_closed, reports, answer, reply, dead>>
    BY <2>1 DEF vars, core, history, replier, Reader!Start, Reader!Complete,
                Reader!ReadFailed, Reader!ReadEnd, Reader!ReadMsg, Reader!client
  <2>3. StreamInv' /\ ReaderInv' /\ Replier!TypeOK'
    BY <1>0, <2>1, <2>2, StreamInvStep, ReaderSteps, CallReplierStep DEF WireInv
  <2>4. UNCHANGED <<bad, dead>>
    BY <2>1 DEF Reader!Start, Reader!Complete, Reader!ReadFailed, Reader!ReadEnd,
                Reader!ReadMsg, Reader!client
  <2>5. TruthInv'
    BY <1>0, <1>5, <2>1, <2>2, EndedStays, ConclusionStays DEF TruthInv
  <2> QED BY <1>0, <2>3, <2>4, <2>5 DEF CallInv, WireInv
<1>6. CASE HandlerReplies \/ TimerReplies \/ ReplyStep
  <2>1. /\ UNCHANGED <<vars, reader, dead>>
        /\ \/ /\ Reader!Ended
              /\ Replier!CallWith("handler",
                                  IF Reader!EndedCleanly THEN "ok" ELSE "error")
           \/ Replier!CallWith("timer", "error")
           \/ \E t \in Repliers : Replier!Step(t)
    BY <1>6 DEF HandlerReplies, TimerReplies, ReplyStep, Repliers
  <2>2. \E t \in Repliers : Replier!Call(t) \/ Replier!Step(t)
    <3>1. ASSUME NEW t \in Repliers, NEW r \in StatusCodes, Replier!CallWith(t, r)
          PROVE  Replier!Call(t)
      BY <3>1 DEF Replier!Call
    <3>2. /\ "handler" \in Repliers /\ "timer" \in Repliers
          /\ "ok" \in StatusCodes /\ "error" \in StatusCodes
      BY DEF Repliers, StatusCodes
    <3> QED BY <2>1, <3>1, <3>2
  <2>3. StreamInv' /\ ReaderInv' /\ Replier!TypeOK'
    BY <1>0, <2>1, <2>2, StreamInvStep, ReaderClient, CallReplierStep DEF WireInv
  <2>4. TruthInv'
    <3>1. UNCHANGED <<reader, vars>>
      BY <2>1
    <3> QED BY <1>0, <2>1, <3>1, RepliesTrue DEF CallInv
  <2> QED BY <1>0, <2>1, <2>3, <2>4 DEF CallInv, WireInv, reader
<1>7. CASE Die
  <2>1. UNCHANGED <<vars, reader, replier>> /\ dead' = TRUE
    BY <1>7 DEF Die
  <2>2. UNCHANGED <<reports, answer, reply>>
    BY <2>1 DEF vars, history, replier
  <2>3. StreamInv' /\ ReaderInv' /\ Replier!TypeOK'
    BY <1>0, <2>1, StreamInvStep, ReaderClient, CallReplierStep
  <2>4. TruthInv'
    BY <1>0, <2>1, <2>2, EndedStays, ConclusionStays DEF TruthInv
  <2> QED BY <1>0, <2>1, <2>3, <2>4 DEF CallInv, WireInv, reader
<1>8. CASE UNCHANGED allVars
  <2>1. [Next]_vars /\ UNCHANGED <<reader, replier, dead, reports>>
    BY <1>8 DEF allVars, vars, history
  <2> QED BY <1>1, <2>1 DEF StatusCodes
<1> QED BY <1>2, <1>3, <1>4, <1>5, <1>6, <1>7, <1>8 DEF CallNext

LEMMA CallInvHolds == CallSafeSpec => []CallInv
  BY CallInvInit, CallInvStep, PTL DEF CallSafeSpec

\* Every field, counter and history of the three parts keeps its type.
THEOREM CallTypeCorrect == CallSafeSpec => []CallTypeOK
<1>1. ASSUME CallInv PROVE CallTypeOK
  <2>1. /\ TypeOK /\ StreamInv /\ ReaderInv /\ Replier!TypeOK /\ WireInv
        /\ sent \in Seq(Msg) /\ nread \in 0 .. Len(sent)
    BY <1>1 DEF CallInv, StreamInv, TurnInv, TypeOK, ReaderInv
  <2>2. Len(sent) \in Nat /\ nread \in Nat
    BY <2>1, LenProperties
  <2>3. <<"error">> \in Events /\ <<"end">> \in Events
    BY DEF Events, Reader!Events
  <2>4. ASSUME NEW n \in 0 .. Len(sent) PROVE Heard(n) \in Seq(Events)
    BY <2>1, HeardType
  <2>5. calls \in Seq(Events)
    <3>1. CASE ~started
      BY <2>1, <3>1, EmptySeq DEF ReaderInv
    <3>2. CASE reading = 1
      BY <2>1, <2>4, <3>2 DEF ReaderInv
    <3>3. CASE EndedByClient
      BY <2>1, <2>3, <2>4, <3>3, AppendProperties DEF EndedByClient
    <3>4. CASE EndedByError
      <4>1. PICK n \in 0 .. nread :
              calls = Append(Append(Heard(n), <<"error">>), <<"end">>)
        BY <3>4 DEF EndedByError
      <4>2. Heard(n) \in Seq(Events)
        BY <2>1, <2>2, <2>4
      <4>3. Append(Heard(n), <<"error">>) \in Seq(Events)
        BY <2>3, <4>2, AppendProperties
      <4> QED BY <2>3, <4>1, <4>3, AppendProperties
    <3>5. CASE EndedPlainly
      <4>1. PICK n \in 0 .. nread : calls = Append(Heard(n), <<"end">>)
        BY <3>5 DEF EndedPlainly
      <4>2. Heard(n) \in Seq(Events)
        BY <2>1, <2>2, <2>4
      <4> QED BY <2>3, <4>1, <4>2, AppendProperties
    <3> QED BY <2>1, <3>1, <3>2, <3>3, <3>4, <3>5 DEF ReaderInv, Reader!Ended
  <2>6. Reader!TypeOK
    BY <2>1, <2>5 DEF Reader!TypeOK, ReaderInv, WireInv, TypeOK, Events
  <2> QED BY <2>1, <2>6 DEF CallTypeOK
<1> QED BY <1>1, CallInvHolds, PTL

\* Whatever fails on either side, the user's reader is ended once, behind
\* everything else.
THEOREM ReaderEndedOnce == CallSafeSpec => []EndsOnce
<1>1. CallInv => EndsOnce
  BY EndsOnceInv DEF CallInv
<1> QED BY <1>1, CallInvHolds, PTL

\* An OK told to the client's close callback was given by the handler, when the
\* user's reader had been given every message that the writer accepted.
THEOREM OkIsTrueEndToEnd == CallSafeSpec => []OkEndToEnd
<1>1. ASSUME CallInv PROVE OkEndToEnd
  <2> SUFFICES ASSUME NEW i \in DOMAIN reports, reports[i].status = "ok"
               PROVE  /\ answer = <<"ok">> /\ nread = Len(accepted)
                      /\ has_on_msg =>
                           calls = [k \in 1 .. Len(accepted) + 1 |->
                                      IF k > Len(accepted) THEN <<"end">>
                                      ELSE <<"msg", accepted[k]>>]
    BY DEF OkEndToEnd
  <2>1. /\ answer = <<"ok">> /\ Concluded /\ half_closed /\ sent = accepted
        /\ StreamInv /\ ReaderInv /\ sent \in Seq(Msg)
    BY <1>1 DEF CallInv, TruthInv, StreamInv, OrderInv, TurnInv, TypeOK,
                Concluded, EndedByClient
  <2>2. nread = Len(sent) /\ calls = Append(Heard(nread), <<"end">>)
    BY <2>1 DEF Concluded, EndedByClient
  <2>3. ASSUME has_on_msg
        PROVE  calls = [k \in 1 .. Len(sent) + 1 |->
                          IF k > Len(sent) THEN <<"end">> ELSE <<"msg", sent[k]>>]
    <3>1. /\ Len(sent) \in Nat
          /\ Heard(nread) = [k \in 1 .. Len(sent) |-> <<"msg", sent[k]>>]
      BY <2>1, <2>2, <2>3, LenProperties DEF Heard
    <3>2. Heard(nread) \in Seq(Events) /\ <<"end">> \in Events
      BY <2>1, <2>2, <3>1, HeardType DEF Events, Reader!Events
    <3> DEFINE n == Len(sent)
               h == Heard(nread)
               f == <<"end">>
               r == [k \in 1 .. n + 1 |-> IF k > n THEN f ELSE <<"msg", sent[k]>>]
    <3>3. /\ n \in Nat /\ h \in Seq(Events) /\ f \in Events
          /\ Len(h) = n /\ \A k \in 1 .. n : h[k] = <<"msg", sent[k]>>
      BY <3>1, <3>2
    <3>4. DOMAIN r = 1 .. n + 1 /\ r[n + 1] = f
          /\ \A k \in 1 .. n : r[k] = <<"msg", sent[k]>>
      BY <3>3
    <3>5. r = [k \in 1 .. n + 1 |-> r[k]]
      OBVIOUS
    <3> HIDE DEF f, h, r, n
    <3>6. /\ Append(h, f) \in Seq(Events) /\ Len(Append(h, f)) = n + 1
          /\ Append(h, f)[n + 1] = f /\ \A k \in 1 .. n : Append(h, f)[k] = h[k]
      BY <3>3, AppendProperties
    <3> DEFINE c == Append(h, f)
    <3>7. c \in [1 .. n + 1 -> Events]
      BY <3>6, LenProperties
    <3> HIDE DEF c
    <3>8. ASSUME NEW k \in 1 .. n + 1 PROVE c[k] = r[k]
      <4>1. CASE k = n + 1
        BY <3>4, <3>6, <4>1 DEF c
      <4>2. CASE k \in 1 .. n
        BY <3>3, <3>4, <3>6, <4>2 DEF c
      <4> QED BY <3>3, <4>1, <4>2
    <3>9. c = r
      BY <3>4, <3>5, <3>7, <3>8
    <3> QED BY <2>2, <3>9 DEF c, f, h, r, n
  <2> QED BY <2>1, <2>2, <2>3
<1> QED BY <1>1, CallInvHolds, PTL

\* A step of the call is one of the writer's, or leaves the writer alone.
LEMMA CallIsWriter == CallSafeSpec => SafeSpec
<1>1. CallInit => Init
  BY DEF CallInit
<1>2. [CallNext]_allVars => [Next]_vars
  <2> SUFFICES ASSUME [CallNext]_allVars PROVE [Next]_vars
    OBVIOUS
  <2>1. CASE ClientCalls \/ MessageSent \/ CallOver
    BY <2>1 DEF ClientCalls, MessageSent, CallOver, Next, StatusCodes
  <2>2. CASE ReadStep \/ HandlerReplies \/ TimerReplies \/ ReplyStep \/ Die
    BY <2>2 DEF ReadStep, HandlerReplies, TimerReplies, ReplyStep, Die
  <2>3. CASE UNCHANGED allVars
    BY <2>3 DEF allVars
  <2> QED BY <2>1, <2>2, <2>3 DEF CallNext
<1> QED BY <1>1, <1>2, PTL DEF CallSafeSpec, SafeSpec

\* What the server is sent in a client-streaming call is an ordered stream that
\* ends with the half-close.
THEOREM CallRefinement == CallSafeSpec => Stream!SafeSpec
  BY CallIsWriter, Refinement, PTL
===============================================================================
