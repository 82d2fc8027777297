------------------------------ MODULE ServiceStub ------------------------------
(***************************************************************************)
(* ServiceStub: unary requests, asynchronous and blocking, the threads     *)
(* inside Run(), and the thread that watches the channel's connectivity.   *)
(* Requests may come from any thread; SetStatusChangeCb() is "non-thread-  *)
(* safe" and comes from one thread.  The destructor waits for that thread. *)
(***************************************************************************)
EXTENDS Naturals, Sequences

CONSTANTS Reqs,        \* requests
          Runners,     \* threads that call Run()
          MaxWatchers, \* bound: threads created by SetStatusChangeCb()
          Given,       \* which of its two callbacks a request may come with
          StartMayFail \* may grpc_call_start_batch() refuse a valid batch?

Callbacks == {"response", "error"}

ASSUME MaxWatchersAssumption == MaxWatchers \in Nat
ASSUME GivenAssumption == Given \subseteq SUBSET Callbacks

Watchers == 1 .. MaxWatchers

VARIABLES
  lua,     \* are the callbacks those of a Lua stub?
  stub,    \* "up", "joining" the watcher in the destructor, or "gone"
  process, \* "up", "ub" or "terminated"
  start_, status_change_cb_,
  m_pID,   \* the last watcher that was created; 0: none
  watcher, \* where each watcher is in ThreadRun()
  queue,   \* the completion queue: "up" or "shut" (external)
  running, \* threads inside Run()
  call,    \* "new", "async", "sync" or "over"
  given,   \* the callbacks of a request that are not empty
  answer,  \* how grpc core completes the call (external)
  \* history
  heard,   \* the callbacks that were called, in order
  returned \* a Run() has returned

watch == <<start_, status_change_cb_, m_pID, watcher>>
requests == <<call, given, answer, heard>>
vars == <<lua, stub, process, watch, queue, running, requests, returned>>

TypeOK ==
  /\ lua \in BOOLEAN /\ stub \in {"up", "joining", "gone"}
  /\ process \in {"up", "ub", "terminated"}
  /\ start_ \in BOOLEAN /\ status_change_cb_ \in BOOLEAN
  /\ m_pID \in 0 .. MaxWatchers
  /\ watcher \in [Watchers -> {"none", "test", "wait", "call", "ended"}]
  /\ \A w \in Watchers : watcher[w] = "none" <=> w > m_pID
  /\ queue \in {"up", "shut"} /\ running \subseteq Runners
  /\ call \in [Reqs -> {"new", "async", "sync", "over"}]
  /\ given \in [Reqs -> SUBSET Callbacks]
  /\ answer \in [Reqs -> {"none", "ok", "bad", "error"}]
  /\ heard \in [Reqs -> Seq(Callbacks)] /\ returned \in BOOLEAN

Init ==
  /\ lua \in BOOLEAN /\ stub = "up" /\ process = "up"
  /\ start_ = FALSE /\ status_change_cb_ = FALSE /\ m_pID = 0
  /\ watcher = [w \in Watchers |-> "none"]
  /\ queue = "up" /\ running = {}
  /\ call = [r \in Reqs |-> "new"] /\ given = [r \in Reqs |-> {}]
  /\ answer = [r \in Reqs |-> "none"] /\ heard = [r \in Reqs |-> <<>>]
  /\ returned = FALSE

Up == process = "up"
Usable == Up /\ stub = "up"

-------------------------------------------------------------------------------
(* Requests. *)

\* A queue that was shut down takes new work only while it has work.
Drained == queue = "shut" /\ \A r \in Reqs : call[r] # "async"
Refuses == StartMayFail \/ queue = "shut"

Over(r) == call' = [call EXCEPT ![r] = "over"]
CallIf(cond, cb, cbs) == IF cond THEN Append(cbs, cb) ELSE cbs

\* The tag is deleted, and the error is told to the caller at once.
Refused(r, cbs) ==
  /\ Over(r)
  /\ heard' = [heard EXCEPT ![r] = CallIf("error" \in cbs, "error", @)]

\* AsyncRequest()
AsyncRequest(r) ==
  /\ Usable /\ call[r] = "new"
  /\ \E cbs \in Given :
       /\ given' = [given EXCEPT ![r] = cbs]
       /\ \/ ~Drained /\ call' = [call EXCEPT ![r] = "async"] /\ UNCHANGED heard
          \/ Refuses /\ Refused(r, cbs)
  /\ UNCHANGED <<lua, stub, process, watch, queue, running, answer, returned>>

\* SyncRequest() waits on a queue of its own and returns what a callback hears.
SyncRequest(r) ==
  /\ Usable /\ call[r] = "new"
  /\ given' = [given EXCEPT ![r] = Callbacks]
  /\ \/ call' = [call EXCEPT ![r] = "sync"] /\ UNCHANGED heard
     \/ StartMayFail /\ Refused(r, Callbacks)
  /\ UNCHANGED <<lua, stub, process, watch, queue, running, answer, returned>>

\* The one batch of a call completes: with the server's response, which may be
\* "bad" (the response callback returns an error: it cannot be decoded), with
\* the server's error status, or with grpc core's.
Answer(r) ==
  /\ Up /\ call[r] \in {"async", "sync"} /\ answer[r] = "none"
  /\ \E a \in {"ok", "bad", "error"} : answer' = [answer EXCEPT ![r] = a]
  /\ UNCHANGED <<lua, stub, process, watch, queue, running, call, given, heard, returned>>

SyncReturns(r) ==
  /\ Up /\ call[r] = "sync" /\ answer[r] # "none"
  /\ Over(r)
  /\ heard' = [heard EXCEPT ![r] =
                 Append(@, IF answer[r] = "error" THEN "error" ELSE "response")]
  /\ UNCHANGED <<lua, stub, process, watch, queue, running, given, answer, returned>>

-------------------------------------------------------------------------------
(* Run() and ClientAsyncCallCqTag::DoComplete(). *)

\* response_cb_ is called.  The wrapper of msg_cb_wrapper.lua calls the user's
\* function only with a response that it could decode.
HearsResponse(r) ==
  /\ "response" \in given[r]
  /\ answer[r] = "ok" \/ (answer[r] = "bad" /\ ~lua)

\* The response callback returns an error.  That wrapper returns nothing: the
\* error of its on_msg_str() gets lost.
CallbackFails(r) == "response" \in given[r] /\ answer[r] = "bad" /\ ~lua
HearsError(r) == "error" \in given[r] /\ (answer[r] = "error" \/ CallbackFails(r))

DoComplete(r) ==
  heard' = [heard EXCEPT ![r] =
              CallIf(HearsError(r), "error", CallIf(HearsResponse(r), "response", @))]

\* Fault: nobody drains a queue that was shut down before Run().
Run_WhileUp(t) ==
  /\ Usable /\ t \notin running /\ queue = "up"
  /\ running' = running \cup {t}
  /\ UNCHANGED <<lua, stub, process, watch, queue, requests, returned>>
\* Run() of a stub, or the call of Run() again.
Run(t) ==
  /\ Usable /\ t \notin running
  /\ ~Drained \* else it returns at once
  /\ running' = running \cup {t}
  /\ UNCHANGED <<lua, stub, process, watch, queue, requests, returned>>

\* A thread in Run() takes the event of a call.  If a Lua callback raises an
\* error, the exception leaves Run().
Complete(t, r) ==
  /\ Up /\ t \in running
  /\ call[r] = "async" /\ answer[r] # "none"
  /\ Over(r) /\ DoComplete(r)
  /\ \/ UNCHANGED running
     \/ lua /\ heard'[r] # <<>> /\ running' = running \ {t}
  /\ UNCHANGED <<lua, stub, process, watch, queue, given, answer, returned>>

\* Fault: Run() ends at the shutdown, whatever is still in the queue.
RunReturns_AtShutdown(t) ==
  /\ Up /\ t \in running /\ queue = "shut"
  /\ running' = running \ {t} /\ returned' = TRUE
  /\ UNCHANGED <<lua, stub, process, watch, queue, requests>>
\* GRPC_QUEUE_SHUTDOWN: the queue is shut down and drained.
RunReturns(t) ==
  /\ Up /\ t \in running /\ Drained
  /\ running' = running \ {t} /\ returned' = TRUE
  /\ UNCHANGED <<lua, stub, process, watch, queue, requests>>

\* Shutdown()
Shutdown ==
  /\ Usable
  /\ start_' = FALSE /\ queue' = "shut"
  /\ UNCHANGED <<lua, stub, process, status_change_cb_, m_pID, watcher, running, requests, returned>>

-------------------------------------------------------------------------------
(* The watcher. *)

Goto(w, l) == watcher' = [watcher EXCEPT ![w] = l]

\* SetStatusChangeCb(), also with an empty callback.  To replace the callback
\* while a watcher calls it is a data race.
SetStatusChangeCb ==
  /\ Usable
  /\ process' \in IF \E w \in Watchers : watcher[w] = "call" THEN {"up", "ub"} ELSE {"up"}
  /\ status_change_cb_' \in BOOLEAN
  /\ \/ start_ /\ UNCHANGED <<start_, m_pID, watcher>>
     \/ /\ ~start_ /\ start_' = TRUE
        /\ m_pID < MaxWatchers /\ m_pID' = m_pID + 1
        /\ Goto(m_pID', "test")
  /\ UNCHANGED <<lua, stub, queue, running, requests, returned>>

\* Fault: the thread runs for ever.
Watch_ForEver(w) == Goto(w, "wait")
\* while (p->start_)
Watch(w) == Goto(w, IF start_ THEN "wait" ELSE "ended")

\* A watcher whose stub is gone uses freed memory.
WatcherTests(w) ==
  /\ watcher[w] = "test"
  /\ IF stub = "gone" THEN process' = "ub" /\ UNCHANGED watcher
     ELSE Watch(w) /\ UNCHANGED process

\* WaitForStateChangeImpl() ends, in a state other than last_observed or at the
\* deadline, and the new state is observed.
WatcherWaits(w) ==
  /\ watcher[w] = "wait"
  /\ Goto(w, "call") /\ UNCHANGED process

\* The callback; an empty one throws, and nobody catches it in this thread.
WatcherCalls(w) ==
  /\ watcher[w] = "call"
  /\ IF status_change_cb_ THEN Goto(w, "test") /\ UNCHANGED process
     ELSE process' = "terminated" /\ UNCHANGED watcher

WatcherStep(w) ==
  /\ Up
  /\ WatcherTests(w) \/ WatcherWaits(w) \/ WatcherCalls(w)
  /\ UNCHANGED <<lua, stub, start_, status_change_cb_, m_pID, queue, running, requests, returned>>

-------------------------------------------------------------------------------
\* The destructor, when no thread is inside a call.  To join a thread that was
\* never created is undefined.
Destroy ==
  /\ Usable /\ running = {} /\ \A r \in Reqs : call[r] # "sync"
  /\ IF m_pID = 0
     THEN \/ stub' = "gone" /\ UNCHANGED process
          \/ process' = "ub" /\ UNCHANGED stub
     ELSE stub' = "joining" /\ UNCHANGED process
  /\ UNCHANGED <<lua, watch, queue, running, requests, returned>>

\* pthread_join() returns.
Joined ==
  /\ Up /\ stub = "joining" /\ watcher[m_pID] = "ended"
  /\ stub' = "gone"
  /\ UNCHANGED <<lua, process, watch, queue, running, requests, returned>>

Done == (~Up \/ stub = "gone") /\ UNCHANGED vars

Next ==
  \/ \E r \in Reqs : AsyncRequest(r) \/ SyncRequest(r) \/ Answer(r) \/ SyncReturns(r)
  \/ \E t \in Runners : Run(t) \/ RunReturns(t) \/ \E r \in Reqs : Complete(t, r)
  \/ \E w \in Watchers : WatcherStep(w)
  \/ Shutdown \/ SetStatusChangeCb \/ Destroy \/ Joined \/ Done

SafeSpec == Init /\ [][Next]_vars

\* Calls are over, and waits end, at last, if only at their deadline; threads go
\* on; some thread is in Run() as long as there is work.
Spec ==
  /\ SafeSpec
  /\ \A r \in Reqs : WF_vars(Answer(r)) /\ WF_vars(SyncReturns(r))
  /\ \A r \in Reqs : WF_vars(\E t \in Runners : Complete(t, r))
  /\ WF_vars(running = {} /\ \E t \in Runners : Run(t))
  /\ \A w \in Watchers : WF_vars(WatcherStep(w))
  /\ WF_vars(Joined)

-------------------------------------------------------------------------------
(* Properties *)

\* A request with both callbacks hears of its end when it is over, and once: by
\* the response or by an error.  Exceptions are a response callback that returns
\* an error, which calls both, and a response that the Lua wrapper cannot decode,
\* which calls none.  Once a Run() has returned, and not by an exception, every
\* request that grpc core took is over, whichever thread made it and when:
\* "Request the shutdown of all runs." gives up no request.
AnsweredOnce ==
  \A r \in Reqs :
    /\ returned => call[r] # "async"
    /\ heard[r] # <<>> => call[r] = "over"
    /\ call[r] = "over" /\ given[r] = Callbacks =>
         \/ heard[r] = <<"error">> /\ answer[r] # "ok"
         \/ heard[r] = <<"response">> /\ answer[r] \in {"ok", "bad"}
         \/ answer[r] = "bad" /\ heard[r] = IF lua THEN <<>> ELSE <<"response", "error">>

\* Every request is over at last, also if the stub is shut down before, and
\* though callbacks raise errors, unless the stub is destroyed.
RequestAnswered ==
  \A r \in Reqs :
    call[r] \in {"async", "sync"} ~> call[r] = "over" \/ ~Usable

\* The destructor of a stub that was shut down returns, if the waits for the
\* channel end: the last watcher sees the flag, whatever the channel does.
DestroyReturns == stub = "joining" /\ ~start_ ~> stub = "gone" \/ ~Up

===============================================================================
