--------------------------------- MODULE Server ---------------------------------
(***************************************************************************)
(* Server with its ServerMethodCallCqTags: services are registered, the    *)
(* first Run() requests one call of each method, and each Run() takes one  *)
(* event from the completion queue.  A tag that has received a call gives  *)
(* it to the service and requests the next one.  Run() and the callbacks   *)
(* belong to one thread; Shutdown() comes from the same or another one,    *)
(* and started_ and shutdown_ are plain fields that both access.           *)
(***************************************************************************)
EXTENDS Naturals, Sequences, FiniteSets

CONSTANTS Services,
          MethodCount,     \* methods of a service
          ClientStreaming, \* the methods with a stream of requests
          MaxRegs,         \* bound: calls of RegisterService() for a service
          MaxCalls         \* bound: calls of a method that arrive

Methods == Services \X (1 .. MethodCount)

ASSUME ServerAssumption ==
  /\ MethodCount \in Nat /\ ClientStreaming \subseteq Methods
  /\ MaxRegs \in Nat /\ MaxCalls \in Nat

VARIABLES
  service_map_,  \* the registered_methods: not there, a handle, or null
  started_, shutdown_,
  pc,            \* where the thread is in Run(): "idle", "start", "request",
                 \* "poll", "call" or "renew"
  todo,          \* methods that RequestMethodsCalls() has yet to request
  tag,           \* the event whose DoComplete() runs
  pc_shut,       \* where Shutdown() is: "idle", "notify", "queue" or "done"
  process,       \* "up"; "assert" after a failed assertion, "ub" after an
                 \* event was taken whose tag is no CompletionQueueTag
  \* grpc core (external)
  serving,       \* the methods it knew at its start
  waiting,       \* calls that arrived and no request took
  requests,      \* requests that wait for a call
  events,        \* the completion queue
  open,          \* calls that were given to the service and are not finished
  stopping,      \* grpc_server_shutdown_and_notify() was called,
  notified,      \* and has put its event into the queue
  queue_shut,    \* grpc_completion_queue_shutdown() was called
  \* history
  regs,          \* times a service was registered ...
  regs0,         \* ... before the start
  arrived, given,\* calls of a method that arrived, that CallMethod() was given
  threw,         \* methods with a handler that raised an error
  overlapped     \* Shutdown() was called inside a Run()

core == <<serving, waiting, requests, events, open, stopping, notified,
          queue_shut>>
history == <<regs, regs0, arrived, given, threw, overlapped>>
vars == <<service_map_, started_, shutdown_, pc, todo, tag, pc_shut, process,
          core, history>>

\* An event: a call with or without a payload, a failed request, or the
\* notification whose tag is the Server.
CallEvent(m, payload) == [method |-> m, success |-> TRUE, payload |-> payload]
FailEvent(m) == [method |-> m, success |-> FALSE, payload |-> FALSE]
NoMethod == <<>>
ServerEvent == FailEvent(NoMethod)
Events ==
  [method : Methods \cup {NoMethod}, success : BOOLEAN, payload : BOOLEAN]

TypeOK ==
  /\ service_map_ \in [Methods -> {"none", "handle", "null"}]
  /\ {started_, shutdown_, stopping, notified, queue_shut, overlapped}
       \subseteq BOOLEAN
  /\ pc \in {"idle", "start", "request", "poll", "call", "renew"}
  /\ pc_shut \in {"idle", "notify", "queue", "done"}
  /\ process \in {"up", "assert", "ub"}
  /\ {todo, serving, threw} \subseteq SUBSET Methods
  /\ tag \in Events /\ events \in Seq(Events)
  /\ {waiting, requests, arrived, given} \subseteq [Methods -> Nat]
  /\ {regs, regs0} \subseteq [Services -> Nat] /\ open \in Nat

Init ==
  /\ service_map_ = [m \in Methods |-> "none"]
  /\ started_ = FALSE /\ shutdown_ = FALSE
  /\ pc = "idle" /\ todo = {} /\ tag = ServerEvent
  /\ pc_shut = "idle" /\ process = "up"
  /\ serving = {} /\ events = <<>> /\ open = 0
  /\ waiting = [m \in Methods |-> 0] /\ requests = waiting
  /\ stopping = FALSE /\ notified = FALSE /\ queue_shut = FALSE
  /\ regs = [s \in Services |-> 0] /\ regs0 = regs
  /\ arrived = waiting /\ given = waiting
  /\ threw = {} /\ overlapped = FALSE

Up == process = "up"
Goto(l) == pc' = l

-------------------------------------------------------------------------------
(* Registration and Run() *)

\* RegisterService(): the entry of the name is filled anew, with the answers of
\* grpc core, which gives no second handle for a name.
RegisterService(s) ==
  /\ Up /\ pc = "idle" /\ regs[s] < MaxRegs
  /\ regs' = [regs EXCEPT ![s] = @ + 1]
  /\ service_map_' = [m \in Methods |->
       IF m[1] # s THEN service_map_[m]
       ELSE IF regs[s] = 0 THEN "handle" ELSE "null"]
  /\ UNCHANGED <<started_, shutdown_, pc, todo, tag, pc_shut, process, core,
                 regs0, arrived, given, threw, overlapped>>

\* Fault: Run() does not look at shutdown_.
Run_Always ==
  /\ Up /\ pc = "idle"
  /\ Goto(IF started_ THEN "poll" ELSE "start")
  /\ UNCHANGED <<service_map_, started_, shutdown_, todo, tag, pc_shut, process,
                 core, history>>
Run ==
  /\ Up /\ pc = "idle" /\ ~shutdown_
  /\ Goto(IF started_ THEN "poll" ELSE "start")
  /\ UNCHANGED <<service_map_, started_, shutdown_, todo, tag, pc_shut, process,
                 core, history>>

\* started_ = true; grpc_server_start();
Start ==
  /\ Up /\ pc = "start"
  /\ started_' = TRUE
  /\ serving' = {m \in Methods : service_map_[m] # "none"}
  /\ regs0' = regs
  /\ todo' = {m \in Methods : service_map_[m] = "handle"}
  /\ Goto("request")
  /\ UNCHANGED <<service_map_, shutdown_, tag, pc_shut, process, waiting,
                 requests, events, open, stopping, notified, queue_shut, regs,
                 arrived, given, threw, overlapped>>

\* The constructor of ServerMethodCallCqTag, which asserts GRPC_CALL_OK: grpc
\* core lists the request, or fails it when it is stopping, or refuses it on a
\* queue that was shut down.
RequestCall(m) ==
  \/ /\ ~stopping /\ requests' = [requests EXCEPT ![m] = @ + 1]
     /\ UNCHANGED <<events, process>>
  \/ /\ stopping /\ events' = Append(events, FailEvent(m))
     /\ UNCHANGED <<requests, process>>
  \/ /\ queue_shut /\ process' = "assert"
     /\ UNCHANGED <<requests, events>>

\* RequestMethodsCalls(), one method after the other.
Request ==
  /\ Up /\ pc = "request"
  /\ \/ \E m \in todo :
          RequestCall(m) /\ todo' = todo \ {m} /\ UNCHANGED pc
     \/ /\ todo = {} /\ Goto("poll")
        /\ UNCHANGED <<todo, requests, events, process>>
  /\ UNCHANGED <<service_map_, started_, shutdown_, tag, pc_shut, serving,
                 waiting, open, stopping, notified, queue_shut, history>>

\* UnBlockingRun(): one event, if there is one.
Poll ==
  /\ Up /\ pc = "poll"
  /\ IF events = <<>>
     THEN Goto("idle") /\ UNCHANGED <<tag, events, process>>
     ELSE /\ tag' = Head(events) /\ events' = Tail(events)
          /\ IF tag'.method = NoMethod THEN process' = "ub" /\ UNCHANGED pc
             ELSE /\ Goto(IF tag'.success THEN "call" ELSE "renew")
                  /\ UNCHANGED process
  /\ UNCHANGED <<service_map_, started_, shutdown_, todo, pc_shut, serving,
                 waiting, requests, open, stopping, notified, queue_shut,
                 history>>

\* Has the method, streaming or not, a handler for what has arrived?
Fits == tag.payload = (tag.method \notin ClientStreaming)

CallMethodKeeps ==
  UNCHANGED <<service_map_, started_, shutdown_, todo, tag, pc_shut, process,
              serving, waiting, requests, events, stopping, notified, queue_shut,
              regs, regs0, arrived, overlapped>>

\* Fault: a call that does not fit is not followed by a new request.
CallMethod_OnlyFitting ==
  /\ Up /\ pc = "call"
  /\ given' = [given EXCEPT ![tag.method] = @ + 1]
  /\ IF Fits THEN open' = open + 1 /\ Goto("renew")
     ELSE Goto("idle") /\ UNCHANGED open
  /\ UNCHANGED threw /\ CallMethodKeeps

\* Service::CallMethod(): a handler is called, or the call is dropped.
CallMethod ==
  /\ Up /\ pc = "call"
  /\ given' = [given EXCEPT ![tag.method] = @ + 1]
  /\ open' = IF Fits THEN open + 1 ELSE open
  /\ Goto("renew")
  /\ UNCHANGED threw /\ CallMethodKeeps

\* The handler raises an error: a LuaException leaves DoComplete() and Run().
HandlerThrows ==
  /\ Up /\ pc = "call" /\ Fits
  /\ given' = [given EXCEPT ![tag.method] = @ + 1]
  /\ open' = open + 1 /\ threw' = threw \cup {tag.method}
  /\ Goto("idle")
  /\ CallMethodKeeps

\* The end of DoComplete(): the next call is requested.
Renew ==
  /\ Up /\ pc = "renew"
  /\ RequestCall(tag.method)
  /\ Goto("idle")
  /\ UNCHANGED <<service_map_, started_, shutdown_, todo, tag, pc_shut, serving,
                 waiting, open, stopping, notified, queue_shut, history>>

-------------------------------------------------------------------------------
(* Shutdown() *)

ShutdownBegins ==
  /\ Up /\ pc_shut = "idle" /\ started_ /\ ~shutdown_
  /\ shutdown_' = TRUE /\ pc_shut' = "notify"
  /\ overlapped' = (pc # "idle")
  /\ UNCHANGED <<service_map_, started_, pc, todo, tag, process, core, regs,
                 regs0, arrived, given, threw>>

ShutdownNotify ==
  /\ Up /\ pc_shut = "notify"
  /\ stopping' = TRUE /\ pc_shut' = "queue"
  /\ UNCHANGED <<service_map_, started_, shutdown_, pc, todo, tag, process,
                 serving, waiting, requests, events, open, notified, queue_shut,
                 history>>

\* The queue is shut down, not drained; Shutdown() returns.
ShutdownQueue ==
  /\ Up /\ pc_shut = "queue"
  /\ queue_shut' = TRUE /\ pc_shut' = "done"
  /\ UNCHANGED <<service_map_, started_, shutdown_, pc, todo, tag, process,
                 serving, waiting, requests, events, open, stopping, notified,
                 history>>

-------------------------------------------------------------------------------
(* grpc core *)

coreKeeps == <<service_map_, started_, shutdown_, pc, todo, tag, pc_shut, process>>

CallArrives(m) ==
  /\ Up /\ m \in serving /\ ~stopping /\ arrived[m] < MaxCalls
  /\ arrived' = [arrived EXCEPT ![m] = @ + 1]
  /\ waiting' = [waiting EXCEPT ![m] = @ + 1]
  /\ UNCHANGED <<coreKeeps, serving, requests, events, open, stopping, notified,
                 queue_shut, regs, regs0, given, threw, overlapped>>

\* A request takes a call; a payload is read unless the requests are a stream,
\* and there is none if the client sent none.
CallMatches(m) ==
  /\ Up /\ ~stopping /\ waiting[m] > 0 /\ requests[m] > 0
  /\ waiting' = [waiting EXCEPT ![m] = @ - 1]
  /\ requests' = [requests EXCEPT ![m] = @ - 1]
  /\ \E payload \in {FALSE, m \notin ClientStreaming} :
       events' = Append(events, CallEvent(m, payload))
  /\ UNCHANGED <<coreKeeps, serving, open, stopping, notified, queue_shut, history>>

CallFinishes ==
  /\ Up /\ open > 0 /\ open' = open - 1
  /\ UNCHANGED <<coreKeeps, serving, waiting, requests, events, stopping, notified,
                 queue_shut, history>>

RequestFails(m) ==
  /\ Up /\ stopping /\ requests[m] > 0
  /\ requests' = [requests EXCEPT ![m] = @ - 1]
  /\ events' = Append(events, FailEvent(m))
  /\ UNCHANGED <<coreKeeps, serving, waiting, open, stopping, notified,
                 queue_shut, history>>

ServerStopped ==
  /\ Up /\ stopping /\ ~notified /\ open = 0 /\ \A m \in Methods : requests[m] = 0
  /\ notified' = TRUE /\ events' = Append(events, ServerEvent)
  /\ UNCHANGED <<coreKeeps, serving, waiting, requests, open, stopping,
                 queue_shut, history>>

-------------------------------------------------------------------------------

Done ==
  /\ ~Up \/ (pc_shut = "done" /\ pc = "idle")
  /\ UNCHANGED vars

RunStep == Start \/ Request \/ Poll \/ CallMethod \/ HandlerThrows \/ Renew
ShutdownStep == ShutdownNotify \/ ShutdownQueue

Next ==
  \/ \E s \in Services : RegisterService(s)
  \/ Run \/ RunStep
  \/ ShutdownBegins \/ ShutdownStep
  \/ \E m \in Methods : CallArrives(m) \/ CallMatches(m) \/ RequestFails(m)
  \/ CallFinishes \/ ServerStopped
  \/ Done

SafeSpec == Init /\ [][Next]_vars

\* The application runs the server again and again; grpc core matches calls
\* with requests.  Nobody is obliged to shut the server down.
Spec ==
  /\ SafeSpec
  /\ WF_vars(Run) /\ WF_vars(RunStep) /\ WF_vars(ShutdownStep)
  /\ \A m \in Methods : WF_vars(CallMatches(m))

-------------------------------------------------------------------------------
(* Properties *)

\* The tags of method m: they wait for a call, for the queue, or for DoComplete().
Tags(m) ==
  requests[m]
  + Cardinality({i \in DOMAIN events : events[i].method = m})
  + (IF pc \in {"call", "renew"} /\ tag.method = m THEN 1 ELSE 0)

\* Of each method one call is requested at a time, always: its tag requests the
\* next call whatever becomes of this one.  Exceptions are a method whose handler
\* raised an error, and one whose service was registered twice, or late.
StaysRequested ==
  pc \notin {"start", "request"} /\ started_ /\ ~shutdown_ =>
    \A m \in Methods :
      Tags(m) = IF regs0[m[1]] = 1 /\ m \notin threw THEN 1 ELSE 0

\* The assertion on the request's result holds, and each tag that is taken is a
\* CompletionQueueTag, unless Shutdown() is called while the server runs.
AssertsHold == ~Up => overlapped

\* A call that arrives is given to its service.
CallsAreGiven ==
  \A m \in Methods :
    regs0[m[1]] = 1 /\ arrived[m] > given[m] ~>
      arrived[m] = given[m] \/ m \in threw \/ shutdown_

===============================================================================
