------------------------------ MODULE ClientProofs ------------------------------
(***************************************************************************)
(* Proofs about the client: ServiceStub, for any requests, threads and     *)
(* callbacks, and a server-streaming call from end to end                  *)
(* (ServerStreamingCall), for any number of messages.  The two share no    *)
(* state.                                                                  *)
(***************************************************************************)
EXTENDS ServiceStub, ServerStreamingCall, SequenceTheorems, TLAPS

LEMMA Pair ==
  ASSUME NEW S, NEW x \in S, NEW y \in S
  PROVE  Append(<<x>>, y) = <<x, y>>
<1>1. Append(<<x>>, y) \in Seq(S) /\ Len(Append(<<x>>, y)) = 2
  BY AppendProperties
<1>2. Append(<<x>>, y)[1] = x /\ Append(<<x>>, y)[2] = y
  BY AppendProperties
<1>3. <<x, y>> \in Seq(S) /\ Len(<<x, y>>) = 2
  OBVIOUS
<1>4. \A i \in 1 .. 2 : Append(<<x>>, y)[i] = <<x, y>>[i]
  BY <1>2
<1>. QED  BY <1>1, <1>3, <1>4, SeqEqual

-------------------------------------------------------------------------------
(* The invariant. *)

\* What a request has heard when it is over.
HeardWell(r) ==
  \/ heard[r] = <<"error">> /\ answer[r] # "ok"
  \/ heard[r] = <<"response">> /\ answer[r] \in {"ok", "bad"}
  \/ answer[r] = "bad" /\ heard[r] = IF lua THEN <<>> ELSE <<"response", "error">>

\* Only what is over has heard anything; grpc core answers nothing that was not
\* started; a blocking request has both callbacks.
RequestInv(r) ==
  /\ call[r] # "over" => heard[r] = <<>>
  /\ call[r] = "new" => answer[r] = "none"
  /\ call[r] = "sync" => given[r] = Callbacks
  /\ call[r] = "over" /\ given[r] = Callbacks => HeardWell(r)

\* A drained queue stays so: it takes no request.
IInv ==
  /\ TypeOK
  /\ \A r \in Reqs : RequestInv(r)
  /\ returned => Drained

LEMMA CallIfType ==
  ASSUME NEW c, NEW cb \in Callbacks, NEW cbs \in Seq(Callbacks)
  PROVE  CallIf(c, cb, cbs) \in Seq(Callbacks)
  BY AppendProperties DEF CallIf

\* What the tag of a request with both callbacks calls, in order.
LEMMA HeardBoth ==
  ASSUME NEW r \in Reqs, TypeOK, given[r] = Callbacks, answer[r] # "none",
         heard[r] = <<>>
  PROVE  LET cbs == CallIf(HearsError(r), "error",
                      CallIf(HearsResponse(r), "response", heard[r]))
         IN  \/ cbs = <<"error">> /\ answer[r] = "error"
             \/ cbs = <<"response">> /\ answer[r] = "ok"
             \/ answer[r] = "bad" /\ cbs = IF lua THEN <<>> ELSE <<"response", "error">>
<1>1. answer[r] \in {"ok", "bad", "error"} /\ "response" \in given[r] /\ "error" \in given[r]
  BY DEF TypeOK, Callbacks
<1>2. HearsError(r) <=> answer[r] = "error" \/ (answer[r] = "bad" /\ ~lua)
  BY <1>1 DEF HearsError, CallbackFails
<1>3. HearsResponse(r) <=> answer[r] = "ok" \/ (answer[r] = "bad" /\ ~lua)
  BY <1>1 DEF HearsResponse
<1>4. Append(<<>>, "error") = <<"error">> /\ Append(<<>>, "response") = <<"response">>
  OBVIOUS
<1>5. Append(<<"response">>, "error") = <<"response", "error">>
  BY Pair, "response" \in Callbacks, "error" \in Callbacks DEF Callbacks
<1>6. CASE answer[r] = "ok"
  BY <1>2, <1>3, <1>4, <1>6 DEF CallIf
<1>7. CASE answer[r] = "error"
  BY <1>2, <1>3, <1>4, <1>7 DEF CallIf
<1>8. CASE answer[r] = "bad" /\ lua
  BY <1>2, <1>3, <1>8 DEF CallIf
<1>9. CASE answer[r] = "bad" /\ ~lua
  BY <1>2, <1>3, <1>4, <1>5, <1>9 DEF CallIf
<1>. QED  BY <1>1, <1>6, <1>7, <1>8, <1>9

-------------------------------------------------------------------------------
(* Types. *)

Types == 
  /\ lua \in BOOLEAN /\ stub \in {"up", "joining", "gone"}
  /\ process \in {"up", "ub", "terminated"}
  /\ queue \in {"up", "shut"} /\ running \subseteq Runners /\ returned \in BOOLEAN
WatchTypes ==
  /\ start_ \in BOOLEAN /\ status_change_cb_ \in BOOLEAN
  /\ m_pID \in 0 .. MaxWatchers
  /\ watcher \in [Watchers -> {"none", "test", "wait", "call", "ended"}]
  /\ \A w \in Watchers : watcher[w] = "none" <=> w > m_pID
RequestTypes ==
  /\ call \in [Reqs -> {"new", "async", "sync", "over"}]
  /\ given \in [Reqs -> SUBSET Callbacks]
  /\ answer \in [Reqs -> {"none", "ok", "bad", "error"}]
  /\ heard \in [Reqs -> Seq(Callbacks)]

LEMMA TypeSplit == TypeOK <=> Types /\ WatchTypes /\ RequestTypes
  BY DEF TypeOK, Types, WatchTypes, RequestTypes
LEMMA TypeJoin == Types' /\ WatchTypes' /\ RequestTypes' => TypeOK'
  BY DEF TypeOK, Types, WatchTypes, RequestTypes

\* What the actions do to the requests.
OneRequest(r) == AsyncRequest(r) \/ SyncRequest(r) \/ Answer(r) \/ SyncReturns(r)
NoRequest ==
  \/ \E t \in Runners : Run(t) \/ RunReturns(t)
  \/ \E w \in Watchers : WatcherStep(w)
  \/ Shutdown \/ SetStatusChangeCb \/ Destroy \/ Joined \/ Done \/ UNCHANGED vars

LEMMA NextSplit ==
  [Next]_vars =>
    \/ \E r \in Reqs : OneRequest(r) \/ \E t \in Runners : Complete(t, r)
    \/ NoRequest
  BY DEF Next, OneRequest, NoRequest

LEMMA WatcherTypes ==
  ASSUME WatchTypes, NEW w \in Watchers, watcher[w] # "none",
         NEW l \in {"test", "wait", "call", "ended"}, Goto(w, l),
         UNCHANGED <<start_, status_change_cb_, m_pID>>
  PROVE  WatchTypes'
<1>1. watcher' \in [Watchers -> {"none", "test", "wait", "call", "ended"}]
  BY DEF WatchTypes, Goto
<1>2. \A v \in Watchers : watcher'[v] = "none" <=> watcher[v] = "none"
  BY DEF WatchTypes, Goto
<1>. QED  BY <1>1, <1>2 DEF WatchTypes

LEMMA NewWatcherTypes ==
  ASSUME WatchTypes, m_pID < MaxWatchers, m_pID' = m_pID + 1,
         Goto(m_pID', "test"), start_' \in BOOLEAN, status_change_cb_' \in BOOLEAN
  PROVE  WatchTypes'
<1>1. m_pID' \in Watchers /\ m_pID' \in 0 .. MaxWatchers
  BY MaxWatchersAssumption DEF WatchTypes, Watchers
<1>2. watcher' \in [Watchers -> {"none", "test", "wait", "call", "ended"}]
  BY <1>1 DEF WatchTypes, Goto
<1>3. \A v \in Watchers : watcher'[v] = IF v = m_pID' THEN "test" ELSE watcher[v]
  BY <1>1 DEF WatchTypes, Goto
<1>4. \A v \in Watchers : v > m_pID <=> v = m_pID' \/ v > m_pID'
  BY MaxWatchersAssumption DEF WatchTypes, Watchers
<1>5. ~(m_pID' > m_pID')
  BY <1>1, MaxWatchersAssumption DEF Watchers
<1>6. \A v \in Watchers : watcher'[v] = "none" <=> v > m_pID'
  BY <1>3, <1>4, <1>5 DEF WatchTypes
<1>. QED  BY <1>1, <1>2, <1>6 DEF WatchTypes

\* The steps of threads that touch no request.
LEMMA NoRequestTypes ==
  ASSUME TypeOK, NoRequest
  PROVE  Types' /\ WatchTypes' /\ UNCHANGED <<lua, requests>>
<1>. USE TypeSplit
<1>1. ASSUME NEW t \in Runners, Run(t) \/ RunReturns(t)
      PROVE  Types' /\ WatchTypes' /\ UNCHANGED <<lua, requests>>
  BY <1>1 DEF Run, RunReturns, Types, WatchTypes, watch
<1>2. ASSUME NEW w \in Watchers, WatcherStep(w)
      PROVE  Types' /\ WatchTypes' /\ UNCHANGED <<lua, requests>>
  <2>1. Types' /\ UNCHANGED <<lua, requests>>
    BY <1>2 DEF WatcherStep, WatcherTests, WatcherWaits, WatcherCalls, Types
  <2>2. UNCHANGED <<start_, status_change_cb_, m_pID>>
    BY <1>2 DEF WatcherStep
  <2>3. UNCHANGED watcher => WatchTypes'
    BY <2>2 DEF WatchTypes
  <2>4. (/\ watcher[w] # "none"
         /\ \E l \in {"test", "wait", "call", "ended"} : Goto(w, l)) => WatchTypes'
    BY <2>2, WatcherTypes
  <2>5. UNCHANGED watcher \/ /\ watcher[w] # "none"
                             /\ \E l \in {"test", "wait", "call", "ended"} : Goto(w, l)
    BY <1>2 DEF WatcherStep, WatcherTests, WatcherWaits, WatcherCalls, Watch
  <2>. QED  BY <2>1, <2>3, <2>4, <2>5
<1>3. CASE SetStatusChangeCb
  <2>1. Types' /\ UNCHANGED <<lua, requests>>
    BY <1>3 DEF SetStatusChangeCb, Types
  <2>2. UNCHANGED <<start_, m_pID, watcher>> => WatchTypes'
    BY <1>3 DEF SetStatusChangeCb, WatchTypes
  <2>3. (/\ start_' = TRUE /\ m_pID < MaxWatchers /\ m_pID' = m_pID + 1
         /\ Goto(m_pID', "test")) => WatchTypes'
    BY <1>3, NewWatcherTypes DEF SetStatusChangeCb
  <2>. QED  BY <1>3, <2>1, <2>2, <2>3 DEF SetStatusChangeCb
<1>4. CASE Shutdown
  BY <1>4 DEF Shutdown, Types, WatchTypes
<1>5. CASE Destroy \/ Joined
  BY <1>5 DEF Destroy, Joined, Types, WatchTypes, watch
<1>6. CASE Done \/ UNCHANGED vars
  BY <1>6 DEF Done, vars, Types, WatchTypes, watch
<1>. QED  BY <1>1, <1>2, <1>3, <1>4, <1>5, <1>6 DEF NoRequest

\* A Run() returns from a drained queue only, and a queue that was shut down
\* stays so.
LEMMA NoRequestDrained ==
  ASSUME TypeOK, NoRequest, returned => Drained
  PROVE  returned' => Drained'
<1>1. call' = call
  BY NoRequestTypes DEF requests
<1>2. queue' = queue \/ queue' = "shut"
  BY DEF NoRequest, Run, RunReturns, WatcherStep, Shutdown, SetStatusChangeCb, Destroy,
         Joined, Done, vars
<1>3. returned' = returned \/ Drained
  BY DEF NoRequest, Run, RunReturns, WatcherStep, Shutdown, SetStatusChangeCb, Destroy,
         Joined, Done, vars
<1>. QED  BY <1>1, <1>2, <1>3 DEF Drained

-------------------------------------------------------------------------------
(* The steps of a request. *)

LEMMA RefusedTypes ==
  ASSUME RequestTypes, NEW r \in Reqs, call[r] = "new", NEW cbs, Refused(r, cbs)
  PROVE  /\ call' \in [Reqs -> {"new", "async", "sync", "over"}]
         /\ heard' \in [Reqs -> Seq(Callbacks)]
<1>1. CallIf("error" \in cbs, "error", heard[r]) \in Seq(Callbacks)
  BY CallIfType DEF RequestTypes, Callbacks
<1>. QED  BY <1>1 DEF Refused, Over, RequestTypes

LEMMA RequestTypesStep ==
  ASSUME TypeOK, NEW r \in Reqs, OneRequest(r) \/ \E t \in Runners : Complete(t, r)
  PROVE  TypeOK'
<1>. SUFFICES RequestTypes'
  <2>1. Types' /\ WatchTypes'
    BY TypeSplit DEF OneRequest, AsyncRequest, SyncRequest, Answer, SyncReturns, Complete,
         Types, WatchTypes, watch
  <2>. QED  BY <2>1, TypeJoin
<1>. USE TypeSplit
<1>1. CASE AsyncRequest(r)
  <2>1. given' \in [Reqs -> SUBSET Callbacks] /\ answer' = answer
    BY <1>1, GivenAssumption DEF AsyncRequest, RequestTypes
  <2>2. CASE call' = [call EXCEPT ![r] = "async"] /\ UNCHANGED heard
    BY <2>1, <2>2 DEF RequestTypes
  <2>3. CASE \E cbs \in Given : Refused(r, cbs)
    BY <1>1, <2>1, <2>3, RefusedTypes DEF AsyncRequest, RequestTypes
  <2>. QED  BY <1>1, <2>2, <2>3 DEF AsyncRequest
<1>2. CASE SyncRequest(r)
  <2>1. given' \in [Reqs -> SUBSET Callbacks] /\ answer' = answer
    BY <1>2 DEF SyncRequest, RequestTypes
  <2>2. CASE call' = [call EXCEPT ![r] = "sync"] /\ UNCHANGED heard
    BY <2>1, <2>2 DEF RequestTypes
  <2>3. CASE Refused(r, Callbacks)
    BY <1>2, <2>1, <2>3, RefusedTypes DEF SyncRequest, RequestTypes
  <2>. QED  BY <1>2, <2>2, <2>3 DEF SyncRequest
<1>3. CASE Answer(r)
  BY <1>3 DEF Answer, RequestTypes
<1>4. CASE SyncReturns(r)
  <2>1. Append(heard[r], IF answer[r] = "error" THEN "error" ELSE "response") \in Seq(Callbacks)
    BY AppendProperties DEF RequestTypes, Callbacks
  <2>. QED  BY <1>4, <2>1 DEF SyncReturns, Over, RequestTypes
<1>5. CASE \E t \in Runners : Complete(t, r)
  <2>1. CallIf(HearsError(r), "error", CallIf(HearsResponse(r), "response", heard[r]))
          \in Seq(Callbacks)
    BY CallIfType DEF RequestTypes, Callbacks
  <2>2. heard' \in [Reqs -> Seq(Callbacks)]
    BY <1>5, <2>1 DEF Complete, DoComplete, RequestTypes
  <2>3. /\ call' \in [Reqs -> {"new", "async", "sync", "over"}]
        /\ UNCHANGED <<given, answer>>
    BY <1>5 DEF Complete, Over, RequestTypes
  <2>. QED  BY <2>2, <2>3 DEF RequestTypes
<1>. QED  BY <1>1, <1>2, <1>3, <1>4, <1>5 DEF OneRequest

\* A request that is refused hears of it, if it has the callback.
LEMMA RefusedWell ==
  ASSUME TypeOK, NEW r \in Reqs, call[r] = "new", RequestInv(r), NEW cbs, Refused(r, cbs),
         given' = [given EXCEPT ![r] = cbs], UNCHANGED answer
  PROVE  RequestInv(r)'
<1>1. call'[r] = "over" /\ given'[r] = cbs /\ answer'[r] = "none"
  BY DEF Refused, Over, TypeOK, RequestInv
<1>2. heard'[r] = CallIf("error" \in cbs, "error", <<>>)
  BY DEF Refused, TypeOK, RequestInv
<1>3. cbs = Callbacks => heard'[r] = <<"error">>
  BY <1>2 DEF CallIf, Callbacks
<1>. QED  BY <1>1, <1>3 DEF RequestInv, HeardWell

\* A step of one request leaves the others alone and keeps its own part of the
\* invariant.
LEMMA RequestStep ==
  ASSUME TypeOK, NEW r \in Reqs, RequestInv(r),
         OneRequest(r) \/ \E t \in Runners : Complete(t, r)
  PROVE  RequestInv(r)'
<1>1. CASE AsyncRequest(r)
  <2>1. PICK cbs \in Given :
          /\ given' = [given EXCEPT ![r] = cbs]
          /\ \/ ~Drained /\ call' = [call EXCEPT ![r] = "async"] /\ UNCHANGED heard
             \/ Refuses /\ Refused(r, cbs)
    BY <1>1 DEF AsyncRequest
  <2>2. call[r] = "new" /\ answer' = answer
    BY <1>1 DEF AsyncRequest
  <2>3. CASE call' = [call EXCEPT ![r] = "async"] /\ UNCHANGED heard
    BY <2>2, <2>3 DEF RequestInv, TypeOK
  <2>. QED  BY <2>1, <2>2, <2>3, RefusedWell
<1>2. CASE SyncRequest(r)
  <2>1. call[r] = "new" /\ answer' = answer /\ given' = [given EXCEPT ![r] = Callbacks]
    BY <1>2 DEF SyncRequest
  <2>2. CASE call' = [call EXCEPT ![r] = "sync"] /\ UNCHANGED heard
    BY <2>1, <2>2 DEF RequestInv, TypeOK
  <2>. QED  BY <1>2, <2>1, <2>2, RefusedWell DEF SyncRequest
<1>3. CASE Answer(r)
  BY <1>3 DEF Answer, RequestInv, TypeOK
<1>4. CASE SyncReturns(r)
  <2>1. call'[r] = "over" /\ answer' = answer /\ answer[r] \in {"ok", "bad", "error"}
    BY <1>4 DEF SyncReturns, Over, TypeOK
  <2>2. heard'[r] = <<IF answer[r] = "error" THEN "error" ELSE "response">>
    BY <1>4 DEF SyncReturns, TypeOK, RequestInv
  <2>. QED  BY <2>1, <2>2 DEF RequestInv, HeardWell
<1>5. CASE \E t \in Runners : Complete(t, r)
  <2>1. call[r] = "async" /\ answer[r] # "none" /\ call'[r] = "over"
    BY <1>5 DEF Complete, Over, TypeOK
  <2>2. UNCHANGED <<lua, given, answer>> /\ heard[r] = <<>>
    BY <1>5, <2>1 DEF Complete, RequestInv
  <2>3. heard'[r] = CallIf(HearsError(r), "error", CallIf(HearsResponse(r), "response", heard[r]))
    BY <1>5 DEF Complete, DoComplete, TypeOK
  <2>4. given[r] = Callbacks => HeardWell(r)'
    BY <2>1, <2>2, <2>3, HeardBoth DEF HeardWell
  <2>. QED  BY <2>1, <2>2, <2>4 DEF RequestInv
<1>. QED  BY <1>1, <1>2, <1>3, <1>4, <1>5 DEF OneRequest

LEMMA OthersKeep ==
  ASSUME TypeOK, NEW r \in Reqs, NEW s \in Reqs, s # r, RequestInv(s),
         OneRequest(r) \/ \E t \in Runners : Complete(t, r)
  PROVE  RequestInv(s)'
<1>1. call'[s] = call[s]
  BY DEF OneRequest, AsyncRequest, SyncRequest, Answer, SyncReturns, Complete, Refused, Over, TypeOK
<1>2. given'[s] = given[s]
  BY DEF OneRequest, AsyncRequest, SyncRequest, Answer, SyncReturns, Complete, TypeOK
<1>3. answer'[s] = answer[s] /\ lua' = lua
  BY DEF OneRequest, AsyncRequest, SyncRequest, Answer, SyncReturns, Complete, TypeOK
<1>4. heard'[s] = heard[s]
  BY DEF OneRequest, AsyncRequest, SyncRequest, Answer, SyncReturns, Complete, Refused,
         DoComplete, TypeOK
<1>. QED  BY <1>1, <1>2, <1>3, <1>4 DEF RequestInv, HeardWell

\* A drained queue takes no request.
LEMMA RequestDrained ==
  ASSUME TypeOK, NEW r \in Reqs, returned => Drained,
         OneRequest(r) \/ \E t \in Runners : Complete(t, r)
  PROVE  returned' => Drained'
<1>1. returned' = returned /\ queue' = queue
  BY DEF OneRequest, AsyncRequest, SyncRequest, Answer, SyncReturns, Complete
<1>2. Drained => \A s \in Reqs : call'[s] # "async"
  BY DEF OneRequest, AsyncRequest, SyncRequest, Answer, SyncReturns, Complete, Refused, Over,
         TypeOK, Drained
<1>. QED  BY <1>1, <1>2 DEF Drained

-------------------------------------------------------------------------------
(* The theorems. *)

LEMMA InvInit == Init => IInv
<1>. SUFFICES ASSUME Init PROVE IInv
  OBVIOUS
<1>1. Types
  BY DEF Init, Types
<1>2. WatchTypes
  <2>1. m_pID = 0 /\ 0 \in 0 .. MaxWatchers /\ \A w \in Watchers : w > 0
    BY MaxWatchersAssumption DEF Init, Watchers
  <2>2. watcher = [w \in Watchers |-> "none"]
    BY DEF Init
  <2>. QED  BY <2>1, <2>2 DEF Init, WatchTypes
<1>3. RequestTypes
  BY DEF Init, RequestTypes
<1>4. \A r \in Reqs : RequestInv(r)
  BY DEF Init, RequestInv
<1>5. ~returned
  BY DEF Init
<1>. QED  BY <1>1, <1>2, <1>3, <1>4, <1>5, TypeSplit DEF IInv

LEMMA InvNext == IInv /\ [Next]_vars => IInv'
<1>. SUFFICES ASSUME IInv, [Next]_vars PROVE IInv'
  OBVIOUS
<1>. USE DEF IInv
<1>1. ASSUME NEW r \in Reqs, OneRequest(r) \/ \E t \in Runners : Complete(t, r)
      PROVE  IInv'
  <2>1. TypeOK'
    BY <1>1, RequestTypesStep
  <2>2. \A s \in Reqs : RequestInv(s)'
    BY <1>1, RequestStep, OthersKeep
  <2>3. returned' => Drained'
    BY <1>1, RequestDrained
  <2>. QED  BY <2>1, <2>2, <2>3
<1>2. CASE NoRequest
  <2>1. TypeOK'
    <3>1. RequestTypes'
      BY <1>2, NoRequestTypes, TypeSplit DEF RequestTypes, requests
    <3>. QED  BY <1>2, <3>1, NoRequestTypes, TypeJoin
  <2>2. \A s \in Reqs : RequestInv(s)'
    BY <1>2, NoRequestTypes DEF RequestInv, HeardWell, requests
  <2>3. returned' => Drained'
    BY <1>2, NoRequestDrained
  <2>. QED  BY <2>1, <2>2, <2>3
<1>. QED  BY <1>1, <1>2, NextSplit

\* The state of the stub, of its watchers and of its requests is well typed: a
\* watcher was created if its number is not above m_pID, however often
\* SetStatusChangeCb() and Shutdown() are called.
THEOREM TypeCorrect == SafeSpec => []TypeOK
  BY InvInit, InvNext, PTL DEF SafeSpec, IInv

\* A request hears of its end when it is over and once, and a Run() that
\* returned left no request behind: AnsweredOnce, for any number of requests,
\* threads in Run() and watchers, any callbacks and any grpc core.
THEOREM RequestsAnsweredOnce == SafeSpec => []AnsweredOnce
<1>1. IInv => AnsweredOnce
  BY DEF IInv, AnsweredOnce, RequestInv, HeardWell, Drained
<1>. QED  BY <1>1, InvInit, InvNext, PTL DEF SafeSpec

-------------------------------------------------------------------------------
(* The server-streaming call *)

\* The client has one batch out, the next read or that of the status, until its
\* chain ends.  Until then no message was lost on the way to the callback.
CallChain ==
  /\ is_started_ \in BOOLEAN /\ told \in Seq({"ok", "error"})
  /\ reading \in {0, 1} /\ receiving \in {0, 1} /\ (reading = 0 \/ receiving = 0)
  /\ nread \in Nat /\ delivered \in Nat
  /\ ~is_started_ => reading = 0 /\ receiving = 0 /\ nread = 0 /\ delivered = 0 /\ told = <<>>
  /\ (reading = 1 \/ receiving = 1) /\ msg_cb_ => delivered = nread

\* A status that went out is that of the close, behind every accepted message.
AnswerEnds ==
  /\ accepted \in Seq(Nat) /\ sent \in Seq(Nat)
  /\ closing \in {"ok", "error", "none"} /\ ended \in {"ok", "error", "none"}
  /\ ended # "none" => closing = ended /\ sent = accepted

\* An OK was told: the client's chain has ended with the server's.
CallOk ==
  (\E i \in DOMAIN told : told[i] = "ok") =>
    /\ reading = 0 /\ receiving = 0
    /\ ended = "ok" /\ nread = Len(sent) /\ (msg_cb_ => delivered = nread)

CallInv == CallChain /\ AnswerEnds /\ CallOk

LEMMA CallInvInit == CallInit => CallInv
<1> SUFFICES ASSUME CallInit PROVE CallInv
  OBVIOUS
<1>1. /\ told = <<>> /\ accepted = <<>> /\ sent = <<>> /\ closing = "none" /\ ended = "none"
      /\ reading = 0 /\ receiving = 0 /\ nread = 0 /\ delivered = 0
  BY DEF CallInit, ReaderInit, Server!Init
<1>0. is_started_ = FALSE
  BY DEF CallInit, ReaderInit
<1>2. DOMAIN told = {}
  BY <1>1
<1>3. told \in Seq({"ok", "error"}) /\ accepted \in Seq(Nat) /\ sent \in Seq(Nat)
  BY <1>1
<1>4. CallChain
  <2>2. is_started_ \in BOOLEAN
    BY <1>0
  <2> QED BY <1>0, <1>1, <1>3, <2>2 DEF CallChain
<1>5. AnswerEnds /\ CallOk
  BY <1>1, <1>2, <1>3 DEF AnswerEnds, CallOk
<1> QED BY <1>4, <1>5 DEF CallInv

\* The server's steps: a writer as OrderedStream has it.  Once its status is out
\* nothing is accepted or sent any more.
LEMMA AnswerStep ==
  ASSUME AnswerEnds,
         \/ \E m \in Nat : Server!Accept(m)
         \/ Server!Send \/ Server!End \/ Server!Break
         \/ \E st \in {"ok", "error"} : Server!Close(st)
  PROVE  AnswerEnds' /\ (ended # "none" => UNCHANGED <<accepted, sent, closing, ended>>)
<1> USE DEF AnswerEnds
<1>1. ASSUME NEW m \in Nat, Server!Accept(m) PROVE AnswerEnds'
  <2>1. accepted' \in Seq(Nat)
    BY <1>1, AppendProperties DEF Server!Accept
  <2>2. /\ sent' = sent \/ sent' = accepted'
        /\ ended = "none" /\ UNCHANGED <<closing, ended>>
    BY <1>1 DEF Server!Accept, Server!Usable
  <2> QED BY <2>1, <2>2
<1>2. CASE Server!Send
  <2>1. accepted[Len(sent) + 1] \in Nat
    BY <1>2, LenProperties, ElementOfSeq DEF Server!Send
  <2> QED BY <1>2, <2>1, AppendProperties DEF Server!Send, Server!Usable
<1>3. CASE Server!End
  BY <1>3 DEF Server!End, Server!Usable
<1>4. CASE Server!Break
  BY <1>4 DEF Server!Break
<1>5. ASSUME NEW st \in {"ok", "error"}, Server!Close(st) PROVE AnswerEnds'
  BY <1>5 DEF Server!Close, Server!Usable
<1>6. ended # "none" => UNCHANGED <<accepted, sent, closing, ended>>
  BY DEF Server!Accept, Server!Send, Server!End, Server!Break, Server!Close, Server!Usable
<1> QED BY <1>1, <1>2, <1>3, <1>4, <1>5, <1>6

LEMMA CallServerStep == CallInv /\ ServerStep => CallInv'
<1> SUFFICES ASSUME CallInv, ServerStep PROVE CallInv'
  OBVIOUS
<1>1. UNCHANGED <<is_started_, msg_cb_, reading, receiving, nread, delivered, told>>
  BY DEF ServerStep, readerVars
<1>2. AnswerEnds' /\ (ended # "none" => UNCHANGED <<accepted, sent, closing, ended>>)
  <2>1. \/ \E m \in Nat : Server!Accept(m)
        \/ Server!Send \/ Server!End \/ Server!Break
        \/ \E st \in {"ok", "error"} : Server!Close(st)
    BY DEF ServerStep, StatusCodes
  <2> QED BY <2>1, AnswerStep DEF CallInv
<1>3. CallChain'
  BY <1>1 DEF CallInv, CallChain
<1>4. CallOk'
  BY <1>1, <1>2 DEF CallInv, CallOk
<1> QED BY <1>2, <1>3, <1>4 DEF CallInv

\* The client's steps: the server's answer stays as it is.
LEMMA CallClientStep == CallInv /\ ClientStep => CallInv'
<1> SUFFICES ASSUME CallInv, ClientStep PROVE CallInv'
  OBVIOUS
<1>1. AnswerEnds' /\ UNCHANGED <<accepted, sent, closing, ended>>
  BY DEF ClientStep, server, CallInv, AnswerEnds
<1>2. CASE Start
  <2>1. /\ ~is_started_
        /\ told' = told \/ told' = Append(told, "error")
        /\ reading' \in {reading, reading + 1}
        /\ UNCHANGED <<receiving, nread, delivered>>
    BY <1>2 DEF Start, StartsCall, ReadNext, Fail, Tell
  <2>2. is_started_' = TRUE
    BY <1>2 DEF Start
  <2>3. /\ reading = 0 /\ receiving = 0 /\ nread = 0 /\ delivered = 0
        /\ told = <<>>
    BY <2>1 DEF CallInv, CallChain
  <2>4. told' = <<>> \/ told' = <<"error">>
    BY <2>1, <2>3
  <2>5. told' \in Seq({"ok", "error"})
    <3>1. CASE told' = <<>>
      BY <3>1
    <3>2. CASE told' = <<"error">>
      BY <3>2
    <3> QED BY <2>4, <3>1, <3>2
  <2>6. CallChain'
    <3>1. reading' \in {0, 1} /\ receiving' = 0 /\ nread' = 0 /\ delivered' = 0
      BY <2>1, <2>3
    <3>2. is_started_' \in BOOLEAN
      BY <2>2
    <3> QED BY <2>2, <2>5, <3>1, <3>2 DEF CallChain
  <2>7. CallOk'
    BY <2>4 DEF CallOk
  <2> QED BY <1>1, <2>6, <2>7 DEF CallInv
<1>3. ASSUME OnRead PROVE CallInv'
  <2>1. /\ reading = 1 /\ receiving = 0 /\ is_started_
        /\ UNCHANGED <<is_started_, msg_cb_>>
        /\ told' = told \/ told' = Append(told, "error")
    BY <1>3 DEF OnRead, OnReadFailed, OnReadEnd, OnReadBad,
                OnReadMsg, Fail, Tell, CallInv, CallChain
  <2>2. /\ reading' \in {0, 1} /\ receiving' \in {0, 1} /\ (reading' = 0 \/ receiving' = 0)
        /\ nread' \in {nread, nread + 1} /\ delivered' \in {delivered, delivered + 1}
        /\ (reading' = 1 \/ receiving' = 1) /\ msg_cb_ => delivered' = nread'
    BY <2>1, <1>3 DEF OnRead, OnReadFailed, OnReadEnd, OnReadBad,
                OnReadMsg, Fail, Tell, CallInv, CallChain
  <2>3. told' \in Seq({"ok", "error"})
    BY <2>1, AppendProperties DEF CallInv, CallChain
  <2>4. CallChain'
    BY <2>1, <2>2, <2>3 DEF CallInv, CallChain
  <2>5. ~(\E i \in DOMAIN told' : told'[i] = "ok")
    <3>1. told \in Seq({"ok", "error"}) /\ ~(\E i \in DOMAIN told : told[i] = "ok")
      BY <2>1 DEF CallInv, CallChain, CallOk
    <3> QED BY <2>1, <3>1, AppendProperties
  <2>6. CallOk'
    BY <2>5 DEF CallOk
  <2> QED BY <1>1, <2>4, <2>6 DEF CallInv
<1>4. ASSUME NEW success \in BOOLEAN, NEW st \in {"ok", "error"},
             OnRecvStatus(success, st),
             success /\ st = "ok" => AllRead /\ st = ended
      PROVE  CallInv'
  <2>1. /\ reading = 0 /\ receiving = 1 /\ reading' = 0 /\ receiving' = 0 /\ is_started_
        /\ UNCHANGED <<is_started_, msg_cb_, nread, delivered>>
        /\ msg_cb_ => delivered = nread
    BY <1>4 DEF OnRecvStatus, CallInv, CallChain
  <2>2. told' = told \/ told' = Append(told, IF success THEN st ELSE "error")
    BY <1>4 DEF OnRecvStatus, Tell
  <2>3. CallChain'
    <3>1. told' \in Seq({"ok", "error"})
      BY <2>2, AppendProperties DEF CallInv, CallChain
    <3> QED BY <2>1, <3>1 DEF CallInv, CallChain
  <2>4. told \in Seq({"ok", "error"}) /\ ~(\E i \in DOMAIN told : told[i] = "ok")
    BY <2>1 DEF CallInv, CallChain, CallOk
  <2>5. CallOk'
    <3>1. CASE success /\ st = "ok"
      BY <1>1, <1>4, <2>1, <3>1 DEF CallOk, AllRead
    <3>2. CASE ~(success /\ st = "ok")
      <4>1. ~(\E i \in DOMAIN told' : told'[i] = "ok")
        BY <2>2, <2>4, <3>2, AppendProperties
      <4> QED BY <4>1 DEF CallOk
    <3> QED BY <3>1, <3>2
  <2> QED BY <1>1, <2>3, <2>5 DEF CallInv
<1>5. ended # "none" => ended \in {"ok", "error"}
  BY DEF CallInv, AnswerEnds
<1> QED
  BY <1>2, <1>3, <1>4, <1>5 DEF ClientStep, OnRead, AllRead

\* However the call dies and whatever fails: a client that is told OK has read
\* every message that the handler's writer accepted, and passed it on.
THEOREM StreamOkIsTrue == CallSafeSpec => []OkMeansAllRead
<1>1. CallInv /\ [CallNext]_allVars => CallInv'
  <2> SUFFICES ASSUME CallInv, [CallNext]_allVars PROVE CallInv'
    OBVIOUS
  <2>1. CASE Die
    BY <2>1 DEF Die, readerVars, server, CallInv, CallChain, AnswerEnds, CallOk
  <2>2. CASE UNCHANGED allVars
    BY <2>2 DEF allVars, readerVars, server, CallInv, CallChain, AnswerEnds, CallOk
  <2> QED BY <2>1, <2>2, CallServerStep, CallClientStep DEF CallNext
<1>2. CallInv => OkMeansAllRead
  BY DEF CallInv, CallOk, AnswerEnds, OkMeansAllRead
<1> QED BY <1>1, <1>2, CallInvInit, PTL DEF CallSafeSpec

\* The types, one by one; no more is delivered than read.
Flags ==
  /\ is_started_ \in BOOLEAN /\ msg_cb_ \in BOOLEAN /\ status_cb_ \in BOOLEAN
  /\ asked \in BOOLEAN /\ at_end \in BOOLEAN
ReaderTypes ==
  /\ Flags
  /\ status_ \in StatusCodes /\ reading \in Nat /\ receiving \in Nat
  /\ nread \in 0 .. MaxReads /\ delivered \in 0 .. nread /\ told \in Seq(StatusCodes)

CallTypes == ReaderTypes /\ Server!TypeOK /\ dead \in BOOLEAN

LEMMA CallTypesStep == CallTypes /\ [CallNext]_allVars => CallTypes'
<1> SUFFICES ASSUME CallTypes, [CallNext]_allVars PROVE CallTypes'
  OBVIOUS
<1> USE DEF CallTypes, StatusCodes
<1>0. MaxReads \in Nat /\ MaxMsgs \in 0 .. MaxReads
  BY ReaderAssumption, MaxMsgsAssumption
<1>1. ASSUME UNCHANGED server PROVE Server!TypeOK'
  BY <1>1 DEF server, Server!TypeOK
<1>2. ASSUME UNCHANGED readerVars PROVE ReaderTypes'
  BY <1>2 DEF readerVars, ReaderTypes, Flags
<1>3. CASE ServerStep
  <2>1. ASSUME NEW m \in 1 .. MaxMsgs, Server!Accept(m) PROVE Server!TypeOK'
    <3>1. accepted' = Append(accepted, m) /\ accepted' \in Seq(1 .. MaxMsgs)
      BY <2>1, AppendProperties DEF Server!Accept, Server!TypeOK
    <3>2. sent' = sent \/ sent' = accepted'
      BY <2>1 DEF Server!Accept
    <3> QED BY <2>1, <3>1, <3>2 DEF Server!Accept, Server!TypeOK
  <2>2. ASSUME Server!Send PROVE Server!TypeOK'
    <3>1. accepted[Len(sent) + 1] \in 1 .. MaxMsgs
      <4>1. accepted \in Seq(1 .. MaxMsgs) /\ sent \in Seq(1 .. MaxMsgs) /\ Len(sent) < Len(accepted)
        BY <2>2 DEF Server!Send, Server!TypeOK
      <4>2. Len(sent) + 1 \in 1 .. Len(accepted)
        BY <4>1, LenProperties
      <4> QED BY <4>1, <4>2, ElementOfSeq
    <3>2. sent' \in Seq(1 .. MaxMsgs)
      BY <2>2, <3>1, AppendProperties DEF Server!Send, Server!TypeOK
    <3>3. UNCHANGED <<accepted, closing, ended, broken>>
      BY <2>2 DEF Server!Send
    <3> QED BY <3>2, <3>3 DEF Server!TypeOK
  <2>3. ASSUME Server!End \/ Server!Break \/ \E st \in StatusCodes : Server!Close(st)
        PROVE  Server!TypeOK'
    BY <2>3 DEF Server!End, Server!Break, Server!Close, Server!TypeOK
  <2> QED BY <1>2, <1>3, <2>1, <2>2, <2>3 DEF ServerStep
<1>4. CASE Die \/ UNCHANGED allVars
  BY <1>1, <1>2, <1>4 DEF Die, allVars
<1>5. CASE ClientStep
  <2>1. ended # "none" => ended \in StatusCodes
    BY DEF Server!TypeOK
  <2>2. \A st \in StatusCodes : Append(told, st) \in Seq(StatusCodes)
    BY AppendProperties DEF ReaderTypes
  <2>3. dead' \in BOOLEAN /\ Server!TypeOK'
    BY <1>1, <1>5 DEF ClientStep
  <2>4. ASSUME Start PROVE ReaderTypes'
    <3>1. /\ status_' \in StatusCodes /\ reading' \in Nat
          /\ UNCHANGED <<receiving, nread, delivered>>
          /\ told' = told \/ told' = Append(told, "error")
      BY <2>4 DEF Start, ReadNext, Fail, Tell, ReaderTypes
    <3>2. Flags'
      <4>1. msg_cb_' \in BOOLEAN /\ asked' \in BOOLEAN /\ at_end' = at_end /\ is_started_' = TRUE
        BY <2>4 DEF Start
      <4>2. status_cb_' = asked' \/ status_cb_' = FALSE
        BY <2>4 DEF Start, ReadNext, Fail
      <4> QED BY <4>1, <4>2 DEF ReaderTypes, Flags
    <3> QED BY <2>2, <3>1, <3>2 DEF ReaderTypes
  <2>5. ASSUME OnReadFailed \/ OnReadEnd \/ OnReadMsg \/ OnReadBad PROVE ReaderTypes'
    <3>1. /\ status_' \in StatusCodes /\ reading' \in Nat /\ receiving' \in Nat
          /\ told' = told \/ told' = Append(told, "error")
      BY <2>5 DEF OnReadFailed, OnReadEnd, OnReadMsg, OnReadBad, Fail, Tell, ReaderTypes
    <3>2. nread' \in 0 .. MaxReads /\ delivered' \in 0 .. nread'
      BY <1>0, <2>5 DEF OnReadFailed, OnReadEnd, OnReadMsg, OnReadBad, ReaderTypes
    <3>3. Flags'
      <4>1. status_cb_' = status_cb_ \/ status_cb_' = FALSE
        BY <2>5 DEF OnReadFailed, OnReadEnd, OnReadMsg, OnReadBad, Fail
      <4>2. at_end' = at_end \/ at_end' = TRUE
        BY <2>5 DEF OnReadFailed, OnReadEnd, OnReadMsg, OnReadBad
      <4>3. UNCHANGED <<is_started_, msg_cb_, asked>>
        BY <2>5 DEF OnReadFailed, OnReadEnd, OnReadMsg, OnReadBad
      <4> QED BY <4>1, <4>2, <4>3 DEF ReaderTypes, Flags
    <3> QED BY <2>2, <3>1, <3>2, <3>3 DEF ReaderTypes
  <2>7. ASSUME NEW success \in BOOLEAN, NEW st \in StatusCodes, OnRecvStatus(success, st)
        PROVE  ReaderTypes'
    <3>1. /\ UNCHANGED <<status_, reading, nread, delivered>> /\ receiving' \in Nat
          /\ told' = told \/ \E code \in StatusCodes : told' = Append(told, code)
      BY <2>7 DEF OnRecvStatus, Tell, ReaderTypes
    <3>2. Flags'
      BY <2>7 DEF OnRecvStatus, ReaderTypes, Flags
    <3> QED BY <2>2, <3>1, <3>2 DEF ReaderTypes
  <2> QED BY <1>5, <2>1, <2>3, <2>4, <2>5, <2>7 DEF ClientStep, AllRead
<1> QED BY <1>3, <1>4, <1>5 DEF CallNext, allVars

\* The types of the call, its reader and its writer, within their bounds.
THEOREM StreamTypeCorrect == CallSafeSpec => []CallTypeOK
<1>1. CallInit => CallTypes
  <2> SUFFICES ASSUME CallInit PROVE CallTypes
    OBVIOUS
  <2>1. Flags
    BY DEF CallInit, ReaderInit, Flags
  <2>2. told = <<>> /\ accepted = <<>> /\ sent = <<>>
    BY DEF CallInit, ReaderInit, Server!Init
  <2>3. told \in Seq(StatusCodes) /\ accepted \in Seq(1 .. MaxMsgs) /\ sent \in Seq(1 .. MaxMsgs)
    BY <2>2
  <2>4. ReaderTypes
    BY <2>1, <2>3, ReaderAssumption DEF CallInit, ReaderInit, ReaderTypes, StatusCodes
  <2>5. broken \in BOOLEAN /\ dead \in BOOLEAN
    BY DEF CallInit, Server!Init
  <2>6. Server!TypeOK
    BY <2>3, <2>5 DEF CallInit, Server!Init, Server!TypeOK, StatusCodes
  <2> QED BY <2>4, <2>5, <2>6 DEF CallTypes
<1>2. CallTypes => CallTypeOK
  BY ReaderAssumption DEF CallTypes, ReaderTypes, Flags, CallTypeOK, ReaderTypeOK
<1> QED BY <1>1, <1>2, CallTypesStep, PTL DEF CallSafeSpec
================================================================================
