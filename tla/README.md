# grpc_lua: a TLA+ model of its calls

grpc_lua binds gRPC to Lua. A C++ layer (`src/lua-grpc/core`) wraps the grpc C
core in clients, servers, readers, writers and repliers; a binding layer
(`src/lua-grpc/lua`, `src/lua-grpc/pb`) makes them Lua objects; Lua modules
(`src/grpc`) add message types. This directory models the C++ objects that keep
state across callbacks and threads, the Lua programs over them, the codec and the
parts of the binding library they stand on, model-checks them with TLC, and proves
the central ones with TLAPS.

Source paths below are relative to `src/lua-grpc/core/` unless they begin with
`src/`.

## Inventory

### How a call runs

Every batch handed to grpc core (`common/impl/call.h:60`,
`grpc_call_start_batch`) carries a *tag*, a heap object derived from
`CompletionQueueTag`. grpc core either **refuses** the batch, and then the tag is
deleted at once and `Start()` returns false, or **takes** it, and then its
completion appears in the completion queue exactly once, with or without
success. The thread that runs the queue (`common/run.cpp`,
`common/impl/do_next_completion.cpp:15-58`) takes an event, calls
`DoComplete(success)` of the tag and deletes the tag. The tags hold shared
pointers to the objects below, so an object lives until the last user copy and
the last tag are gone.

| component | state | operations | who calls it |
|---|---|---|---|
| `ServerWriterImpl` (`server/impl/server_writer_impl.*`) | send queue and its high mark, `is_sending_`, `closed_`, `send_init_md_`, deferred status | `Write`, `SyncWrite`, `AsyncWrite`, `SyncClose`, `AsyncClose`, `SetHighQueueSize`, destructor | any thread; `TryToWriteNext` by its write tag |
| `ServerReplierImpl` (`server/impl/server_replier_impl.h`) | atomic `replied_` | `ReplyStr`, `ReplyError` | any thread |
| `ServerReader` and its tags (`server/server_reader.cpp`, `server/impl/cqtag/server_reader_cqtag.h`) | the read that is out; the Lua reader | `Start`, `DoComplete` | service dispatch, queue thread |
| `ClientAsyncWriterImpl` (`client/impl/client_async_writer_impl.*`) | send queue, status, close callback, `is_closing_`, `has_sent_close_` | `Write`, `Close`, destructor; `OnSent`, `OnClosed` | any thread; tags |
| `ClientAsyncReaderImpl` (`client/impl/client_async_reader_impl.*`) | status, message and status callbacks, `is_started_` | `ReadEach`; `OnRead`, the status tag | any thread; tags |
| `ClientAsyncReaderWriterImpl` (`client/impl/client_async_reader_writer_impl.*`) | both of the above, `reading_ended_`, `writing_ended_` | `Write`, `CloseWriting`, `ReadEach`, `SetErrorStatus`, destructor; `OnSent`, `OnRead` | any thread and its own callbacks; tags |
| `Server`, `ServerMethodCallCqTag` (`server/server.cpp`) | services, `started_`, `shutdown_`, one requested call a method | `RegisterService`, `AddListeningPort`, `Run`, `Shutdown`, destructor | application |
| `ServiceStub`, `Channel` (`client/service_stub.*`) | deadline, queue, watcher thread | `SyncRequest`, `AsyncRequest`, `Run`, `Shutdown`, `SetStatusChangeCb` | application |
| synchronous clients (`client/client_sync_*.cpp`, `client/impl/client_sync_*`) | status and a pluck queue of their own, `writing_closed_`, `init_md_received_` | `ReadOne`, `Write`, `CloseWriting`, `Close`, `RecvStatus`, `SyncRequest` | one thread |
| Lua service dispatch (`src/lua-grpc/lua/server`, `src/grpc/server`) | method tables; the objects that the user's Lua code still refers to | `CallMethod` by kind of method; `Replier`, `Writer`, `Reader` | `Server` |
| Lua client (`src/grpc/client`, `src/lua-grpc/lua/client`) | callbacks, timeouts | eight requests, wrappers, finalizers | application |
| protobuf codec (`src/lua-grpc/pb`) | descriptors | import, encode, decode, find a method | both sides |
| `lua-intf` references (`src/lua-intf/LuaIntf/LuaRef.h`, `src/LuaRef.cpp`) | slots of the Lua registry | copy, move, assign, index, iterate, destroy | the binding layer and the codec |
| `lua-intf` classes (`impl/CppBind*.h`, `impl/CppObject.h`, `src/*.cpp`) | the metatables of classes and modules; userdata | registrations, `__index`, `__newindex`, conversions of userdata, `__gc` | binding layer, scripts |
| `lua-intf` calls (`impl/CppArg.h`, `impl/CppInvoke.h`, `impl/LuaType.h`) | none | parameters from Lua arguments, results to Lua, conversions of values | every bound function |

`lua-intf` is vendored; the parts listed are modelled because the binding layer
and the codec stand on them. `net/Net.cpp` lists network interfaces; statuses,
slices, string references and credentials are values.

### What is hard

* **Handing over the right to send.** A grpc call may have one message batch out.
  Writers queue while one is out and the completion callback sends the next, so
  callers, closers and the callback pass one permission to each other.
* **Closing behind a queue.** A close that comes while messages are queued is sent
  later by whoever empties the queue, or never if a batch fails first.
* **Blocking calls** (`SyncWrite`, `SyncClose`, `Write` at the high mark) spin on
  the size of a queue that only another thread drains, and look at the outcome
  in a critical section of its own. Those of the synchronous clients wait without
  a timeout.
* **Refused and failed batches** at any link of a chain of reads or writes. Each
  must reach the one callback that was promised an answer, once.
* **Callbacks under a recursive mutex**, which may call the object that called
  them in the middle of one of its functions.
* **Operations a call takes once.** grpc core refuses a second half-close or a
  second receipt of the status; the synchronous clients must remember what they
  have started.
* **Lua errors and the collector.** An error raised in a callback leaves through
  C++ frames; an object that Lua forgets ends a stream or a call by its finalizer.
* **Check and set in two steps** (`replied_`).
* **The end of an object**: assertions in destructors, threads to join, queues to
  drain.
* **Ownership across two languages**: slots of the registry that are borrowed by
  proxies and iterators, userdata that hold objects by value, pointer or shared
  pointer and are converted up and down a class hierarchy.
* **Orders the interpreter chooses**: in which order Lua walks a table that is
  encoded, where it finds its border.

PROJECT.json lists each of these hazards at its line with the properties that
watch it.

## Modules

| module | models | abstraction |
|---|---|---|
| `OrderedStream` | what a streaming writer promises: accepted messages go out once and in order, then the end marker; the transport may break | abstract specification, refined by three modules and used as the remote side by three |
| `ServerWriter`, `MCServerWriter` | `ServerWriterImpl`, its tags and its destructor | one action for each critical section |
| `ClientAsyncWriter` | `ClientAsyncWriterImpl` and its wrapper | one action for each function: every function holds the mutex throughout |
| `ClientAsyncReaderWriter`, `MCClientAsyncReaderWriter` | `ClientAsyncReaderWriterImpl` and its wrapper | functions are split where they call back |
| `ClientAsyncReader` | `ClientAsyncReaderImpl` and its status tag | one action for each function |
| `ServerStreamingCall` | a server-streaming call: the server's `OrderedStream`, a call that may die, the client's `ClientAsyncReader` | composition |
| `ServerReplier` | `ServerReplierImpl` | one action for each access to the atomic flag |
| `ServerReader` | `ServerReader::Start`, its chain of tags, the Lua `Reader` | one action for each `DoComplete` |
| `ClientStreamingCall` | a client-streaming call: `ClientAsyncWriter`, `ServerReader`, `ServerReplier` over a call that may die | composition |
| `ServiceStub` | unary calls of `ServiceStub`, `Run()`, `Shutdown()`, the watcher of the channel and the destructor | one action for each call, completion, and step of the watcher |
| `Server`, `MCServer` | `Server`, its `ServerMethodCallCqTag`s and its completion queue | `Run()` is split where another thread's `Shutdown()` can come between, and where a handler runs |
| `CallOps` | the batches of the tags as sets of operations, and grpc core's rule on which it takes | operators |
| `SyncClient` | the four blocking clients against a handler's `OrderedStream` over a call that may die | one action for each start of a batch and one for its event |
| `LuaService` | the Lua service for one call: dispatch, the user's method, the objects it gets, the collector | one action for each call between C++ and Lua |
| `LuaClient` | what `ServiceStub.lua` and the Lua client classes make of the results of the C++ clients | the same |
| `LuaCall` | both Lua programs over one call that may die | composition |
| `LuaValue` | Lua values and their conversions to and from C++ | operators that give the set of results |
| `LuaInvoke` | the call of a bound C++ function: parameters, defaults, results | operators |
| `LuaCalls` | a call of a bound C++ function and `ServiceStub:set_timeout_sec()`: what they are given and what they give | one action for each |
| `LuaScalar` | a scalar on its way from Lua into a message and back | operators |
| `Codec`, `MCCodec` | the protobuf codec; its behaviours make one call of `LuaCalls` instead | one action for each function of the Lua interface; what Lua may choose is a set of outcomes |
| `LuaRefs`, `MCLuaRefs` | `LuaRef`, `LuaTableRef`, `LuaTableIterator` | one action for each member function |
| `LuaBinding` | the tables that registrations build, and the look-up in them | one action for each registration |
| `LuaObject`, `MCLuaObject` | C++ objects in Lua: construction, pushes, conversions, `__gc`, over `LuaBinding` | one action for each operation of a program or a script |
| `ServerWriterProofs`, `ClientAsyncReaderWriterProofs`, `ServerProofs`, `SyncClientProofs` | theorems about the module of the same name | |
| `ClientStreamingCallProofs` | theorems about `ClientAsyncWriter`, `ServerReplier` and their composition `ClientStreamingCall` | |
| `ClientProofs` | theorems about `ServiceStub` and about the composition `ServerStreamingCall` | |
| `LuaIntfProofs` | theorems about `LuaRefs`, `LuaObject`, `LuaCalls` and `LuaScalar` | |
| `CallProofs` | theorems about the composition `LuaCall` | |

Fields keep their names (`is_sending_`, `msg_queue_`, ...). Messages are numbers
in the order of the calls or model values; statuses are `"ok"`/`"error"` or model
values. grpc core is external. What the modules assume of it is what the code
relies on: it takes or refuses a batch (refusal only if `StartMayFail`, of a client's reads `ReadMayFail`), keeps
batches of one kind in order, and completes each taken batch once.
`sent`, `ended`, `half_closed` record the batches taken; `sending`, `reading`,
`inflight`, `events`, ... count tags that are out. Variables marked *history*
(`accepted`, `confirmed`, `outcome`, `reports`, ...) are read by no action.

**ServerWriter.** `pc[t]` says where thread `t` is in a function that locks more
than once. `Write` takes `GetQueueSize()` against the mark in one critical section
(action `Write`) and writes in another (`WriteLow`, `WriteHigh`); `SyncWrite` adds
the message, spins (`Yield`, `SpinWrite`) and then reads `closed_` under a third
lock (`SyncRet`). `TryToWriteNext` has one operator for each of its branches. Where
it pops an empty queue (`SendFrontFails`, below) the outcome is undefined
behaviour, and the model lets the process die (`process = "ub"`) or go on with a
size of 2^64 - 1 (`wild`). Assertions are kept: the makefile compiles with
`-O0 -g3` and without `-DNDEBUG` (`src/lua-grpc/makefile`). A failed one stops the
process (`process = "assert"`).

**ClientAsyncWriter.** The close callback runs under the mutex but only after
`is_closing_` is set, when a call from it does nothing; it is part of the action
that calls it.

**ClientAsyncReaderWriter.** A callback can change the state its caller goes on
with. `stack` holds the running callbacks; `MsgCbReturns` and `StatusCbReturns`
are the rest of the functions that called them. `Calls` says what may be called
from where. `process` tells two assertions apart from all others: that of
`Write()` and those behind the message callback.

**ClientAsyncReader, ServerStreamingCall.** The reader alone lets every read end
in every way. In the composition a read brings a message the handler has sent, the
end of the stream when all are read, and fails only when the call is dead; the
server's part is the specification that `ServerWriter` is shown to implement.

**ServerReplier.** `TestReplied`, `SetReplied` and `StartReply` are the three
steps of a reply. `late` remembers the threads whose call began after another had
returned. `dead` is the death of the call in grpc core, which takes an answer no
more: none of the handler's reaches the client then.

**ServerReader.** `calls` is the sequence of calls of the user's reader.
`ByService` says whether the Lua `Reader` was constructed as `Service.lua` does
it. The chain ends at the first message that cannot be decoded, so it is enough to
let one message be `bad`. A read that succeeds without a message ends it plainly
(`ReadEnd`), be it the client's half-close or that of a dead call. The user's Lua
callbacks do not raise errors here.

**ClientStreamingCall.** What the writer sends (`sent`, `half_closed`) is what the
reader reads. The user's reader replies when its `on_end()` is called, OK or an
error as it was ended; another thread may reply earlier. The answer that grpc core
took, or its error if the call died, is what completes the close batch. The
modules' own properties are checked here, under this environment, and `OkEndToEnd`
relates the two ends. The parts share `dead`: the reader of a dead call may be ended
plainly before it has everything, but the OK that its handler replies is not taken.

**Server.** `pc` is where the application's thread is in `Run()`, `pc_shut` where
`Shutdown()` is. `events` is the completion queue with the events of method requests
and of the shutdown; the tags of the other modules share the queue but not this
state. `HandlerThrows` is the `LuaException` that a failing handler sends through
`DoComplete()`. The unsynchronised fields `started_` and `shutdown_` are read and
written one at a time. After a shutdown of the queue grpc core may refuse or still
take a request; both are modelled.

**ServiceStub.** `call[r]` says whether request `r` is new, out (`"async"`,
`"sync"`) or over, and `answer[r]` how grpc core completes its batch: with the
response, with one that cannot be decoded (`"bad"`), or with an error. A request
that is refused is over at once. `lua` tells a stub used from Lua: its response
callback is that of `msg_cb_wrapper.lua`, and a callback that raises an error
throws out of `DoComplete()` and of `Run()`, past the deletion of the tag. `running`
is the set of threads inside `Run()`. `watcher[w]` is where the thread that
`SetStatusChangeCb()` created is in `ThreadRun()`; a second one is created when the
callback is set again after `Shutdown()`, and `m_pID` remembers only the last.
`process = "ub"` stands for a callback replaced while it is called, a join of a
thread that was never created, and a watcher that outlives its stub.
`start_` is a plain `bool` that two threads use; the makefile compiles without
optimisation, so each test of it reads it again.

**SyncClient.** `at` is the batch the thread waits for in `Pluck()`; `used` is the
set of operations that were started. Each `On...` action is the rest of the
function after its batch. `repeated` remembers that the user received the status,
or closed, twice, which the classes do not prevent. The four classes share the
module because they share their helpers; `kind` tells them apart.

**LuaService, LuaClient, LuaCall.** `holds` and `object_held` say whether the
user's Lua code can still reach the object it was given; the collector may run at
any moment after it cannot. `HandlerRaises` is a Lua error in the user's method,
`"lost"` one in a callback of a client. `given` are the callbacks the user gave.
`Finish` is the end of the clients that receive the status. The asynchronous
reader-writer does not: `reads` and `queue` are how far each of its directions is,
`ReadsEnd` and `OnSent` end them, and it is over when both have ended (`Over`), of which
`HalfClose` does not tell the user (`client = "silent"`), or at the first error. Its
call begins with its first `Write()` or `ReadEach()` (`Begun`); one that is closed,
collected and was never asked to read fails the assertion of its destructor
(`Destroy`). Batches are not refused here, as they are in the modules of the C++ classes.
Errors in `src/grpc/server/Service.lua` are modelled as they are:
`CallS2cStreamingMethod` passes nothing to the method (`:114` names a variable that
does not exist), and no handler of a reader is ever found (`:128`, `:142`).

**Codec, LuaScalar, LuaCalls, LuaInvoke, LuaValue.** A Lua number is counted in
halves, so that there are numbers with and without an integer representation;
`LuaRange` and `IntRange` are how many numbers the two widths of integers hold, and
conversions wrap as `static_cast` does. A conversion gives the set of its results, the
empty set being a Lua error. `result` is what the last call of a bound function asked for and
got. `Encode` gives the set of messages that some order of the walk makes. The parser of
proto files and the wire format are protobuf's. Setting a repeated field or a map
appends to what the message has there, and a field that is a message is set in the one it
holds: `SetField` takes the message, and `Encode` begins with a new one. Fields of
floating point, and strings that do not parse as the number they are encoded as, are
left out. `Codec` recurses over descriptors and
so has no theorems; the modules it extends do not recurse and have some.

**LuaRefs.** `registry` is the registry of the Lua state with its slots, `ref` the
members of the C++ objects. `means` (*history*) is what an object was made to
denote, and `walk` which keys an iterator has given. `Room` is the bound on slots.

**LuaBinding, LuaObject.** A class has three tables (static, class, const); `mt`
holds their entries, `super` and `down` the links between them. `Program` is the
sequence of registrations, of some with alternatives; objects come and go where it
pauses (`Pauses`), that is between two expressions of a registration.
`BuildMetaTable` stores `class` in the tables of objects; the other fields that lua-intf
keeps for itself (`OwnFields`) are the structure of the model's tables, and no program
registers one of those names.
`declared` is what was registered, from which the properties say what C++ would
have a name mean. `ud` is what a userdata holds and its metatable.

## Runs

`codec`, `lua_refs` and `lua_object` do not check deadlock: their programs end when
the bound on tables, slots, objects or registrations is reached. All other runs
leave it on; their modules have a step for the states in which the system may
stop.

| run | instance | what it shows |
|---|---|---|
| `server_writer` | 2 application threads with every operation between them, the queue thread with the non-blocking ones (`AllCalls`); 3 messages, 2 statuses, marks 1 and 2, batches may be refused | `AnswersAreTrue`, `EndsWithStatus`, `ImplementsStream` (refinement with liveness), `ReleaseEnds`, `SyncCallsReturnUnlessWild` |
| `server_writer_hang` | blocking calls (`SyncCalls`), batches may be refused | **violated**: `SyncCallsReturn` |
| `bidi` | 4 messages out, 3 in; callbacks call the object again (`Reentrant`); batches are refused or fail | `AssertsHold`, `ErrorReported`, `OkIsTrue`, `ImplementsStream` |
| `server_streaming_call` | 3 messages over a call that may die; batches are refused, messages bad | `OkMeansAllRead`, `StatusTold` |
| `client_streaming_call` | 3 messages, 2 close callbacks, one message may be bad, the handler and one more thread reply once; everything may be refused or fail | `OkEndToEnd`, `EndsOnce`, `CloseAnswered`, `ReaderEnds` |
| `server` | 2 services, 2 registrations each, 2 calls of each method, handlers that raise errors, shutdown at any moment | `StaysRequested`, `AssertsHold`, `CallsAreGiven` |
| `service_stub` | 2 requests with and without callbacks, a thread in `Run()`, 2 watchers, shutdown and destruction at any moment; calls may be refused | `AnsweredOnce`, `RequestAnswered`, `DestroyReturns` |
| `sync_client` | each of the four clients, with and without a deadline, 2 messages each way; batches may be refused, messages bad, the call dead | `BatchesAccepted`, `OkIsTrue`, `AssertsHold`, `ReadStops`, `CallsReturn` |
| `lua_call` | the four kinds of method, blocking or not, 2 messages each way, every set of callbacks and of bad messages; errors raised, objects collected, the call dead at any moment | `OkEndToEnd`, `EndHeardOnce`, `CallEnds` |
| `codec` | a message type with a field of each kind (arrays, maps, a oneof, a nested message, an enum); tables of one or two entries with 31 values; 68 timeouts; functions of up to three parameters with every modifier | `RoundTrip`, `Stable`, `TimeoutKept`, `ArgumentsKept` |
| `lua_refs` | 3 C++ variables, 2 tables, one of which may be the metatable of the other, 2 keys, 6 slots | `OwnedOnce`, `Denotes`, `WalksAll` |
| `lua_object` | 1 module and 3 classes with every kind of registration, the third with or without its super class; 2 objects, 2 userdata | `ConversionsKept`, `LifeKept`, `NamesMeanDeclared`, `ReadOnlyKept` |

Every checked property is falsified by a fault planted in the model: the
definitions whose comments say "Fault:" or "fault:" are such faults and no part of
the model.

**Bounds.** A write queue shows all it can with one message out and two queued:
a third is one more of the second. Two application threads and the queue
thread give every pair of concurrent critical sections; two repliers are a race or
a late reply. Two statuses tell one close
from another. A read chain needs a first, a middle and a last link: three
messages. A method needs two calls to be requested again between them, and a
service two registrations to be registered twice. A stub needs two requests, one
of them made while the other is in the queue, and two watchers, one of which ends
or not before the other is joined. A blocking client has one batch out at a time;
two messages are one before and one behind any other call. Three references are an
original, a copy and a stranger that may take a slot one of them gave back. Three
classes are a class, its super class and that one's; two userdata show one object
twice, or two objects. A `lua_Integer` of 32 numbers and an `int` of 16 have
values that fit both, one, and neither. Tables of two entries have two orders, and
two members of a oneof.

The bounds on counters (`MaxMsgs`, `MaxReads`, `MaxCalls`, `MaxSent`, `MaxRegs`,
`MaxWatchers`) are guards of the application's or the remote side's actions only.
In `lua_refs` the variables, and in `lua_object` the objects and the userdata, are
interchangeable (`SYMMETRY`): both runs check invariants only, and no definition
chooses among them. In `server_writer` `AllCalls` divides the operations between
the threads, so that the run with liveness stays small: each pair of operations
that can meet in two threads does, but for two of `SyncWrite`, `AsyncClose` or
`SetHighQueueSize` each; the theorems have no such restriction.

**Fairness.** `WF` of the completions: grpc core completes what it took, and the
application runs the queue (`Server::Run`, `ServiceStub::Run`) for as long as it
uses the objects. `WF` of the steps of a thread inside a call: the scheduler
runs it, and the spin loops yield. `WF` of a callback's return. On the client a
read completes only when the server sends something, ends the call, or the call
dies. The application is obliged to nothing but this: in `ClientStreamingCall` the
user's `on_end()` replies (without a reply no `Close()` can be answered) and a call
whose last user copy is dropped dies at its deadline; in `Server` the application
keeps calling `Run()` and handlers return or raise an error. In `ServiceStub` a
call is over and a wait for the channel ends, at the latest at its deadline, and
the application calls `Run()` again when an exception left it and work remains.
The default deadline of a channel is `INT64_MAX` milliseconds
(`client/channel.h:52`): `DestroyReturns` means something to an application only if
it sets one. In `SyncClient` a handler closes once the client's stream has ended,
and a call with a deadline dies if nothing else ends it: `CallsReturn` asks a
deadline or a user who closes the writing before he reads, and reads to the end
before he receives the status. In `LuaCall` methods return or raise, the collector
comes at last, a blocking client reads on, and a call that nobody refers to is
cancelled; of an asynchronous reader-writer `CallEnds` asks that its user called
`read_each()`, and promises an end that its user may not hear of.

**The queue thread does not block.** The runs give it `AsyncWrite` and
`AsyncClose` only. A `SyncWrite` on that thread waits for a callback that only it
can run. The Lua binding is safe: its `write` calls `Write()` with the default mark
`size_t` max, which is never reached (`server/impl/server_writer_impl.h:53`), and
its `close` calls `AsyncClose()`.

## What the violated run shows

`server_writer_hang`: on a refused batch `SendMsg()` empties the queue "to
break SyncWrite()", and `TryToWriteNext()` then pops the empty queue
(`server/impl/server_writer_impl.cpp:99-100`). The pop is undefined; if the
process survives it, the size is 2^64 - 1 and every blocked call waits for
ever. `SyncCallsReturnUnlessWild` says that this is the only way to hang.

## Where code and comments part

Weaknesses that are written into passing properties as exceptions:

* `AssertsHold` of `ClientAsyncReaderWriter` admits the failure of two assertions:
  `Write()` from the status callback of an error (`:38`; the ended flags are set
  only after the callback, `:233-237`), and `SetErrorStatus()`, or a refused
  `Write()`, in the message callback (`:194`, `:232`). It holds only for an
  object that was asked to read: the destructor asserts `reading_ended_` (`:30`)
  also when `ReadEach()` was never called.
* `StaysRequested` of `Server` leaves out a method whose handler raised an error
  (its tag is lost with the exception, and no call of the method is ever requested
  again) and a service that was registered twice or after the start; its
  `AssertsHold` leaves out a `Shutdown()` that comes inside a `Run()`.
* `AnsweredOnce` of `ServiceStub` leaves out a response that cannot be decoded: the
  function that `msg_cb_wrapper.wrap` returns drops the error of `on_msg_str()`
  (`src/grpc/client/msg_cb_wrapper.lua:43`), and neither callback of a Lua client
  is called. `DestroyReturns` leaves out a stub whose flag `start_` is set, which
  can be destroyed only after `Shutdown()`, and a process that died: the destructor
  joins a thread that may never have been created (`client/service_stub.cpp:35`),
  and of two watchers only the last. The watcher of a Lua stub runs Lua code beside
  the thread in `Run()`, which no property can save.
* `BatchesAccepted` of `SyncClient` leaves out a user who receives the status or
  closes twice; `AssertsHold` leaves out a handler that replies an error whose code
  is OK, which leaves the client without a message behind an OK.
* `OkEndToEnd` of `LuaCall` does not promise that a reply was written by a method
  that ended well: the finalizer of a writer closes with OK, also when the
  method raised an error. For the asynchronous reader-writer it does not promise that
  an OK is the server's status, nor, of a dead call, that all messages came before it:
  any read that succeeds without a message ends the reading with OK
  (`client/impl/client_async_reader_writer_impl.cpp:125-129`), and `Receives` leaves
  the class out because it never receives the status of the server.
* `EndHeardOnce` has an asynchronous reader-writer of which nobody hears the end
  (`"silent"`): when the server ends its stream first, and `CloseWriting()` or the
  finalizer then finds the queue empty, both directions have ended and the status
  callback is never called (`:50-62`, against `:109` and `:127`). It may also tell an
  error behind a message callback that raised one.
* `CallEnds` leaves out an asynchronous reader-writer that was never asked to read: its
  reading does not end, and the destructor asserts that it has (`:30`).
* `ArgumentsKept` has a mandatory `bool` whose argument is missing as false, where
  `src/lua-intf/README.md:396` and `:404` promise an error (`get` of `bool` is
  `lua_toboolean()`, which takes anything). It has an optional `bool` that is given nil
  as false, not as its default (`src/lua-intf/LuaIntf/impl/LuaType.h`, `opt` of `bool`),
  and no output parameters of a constructor, which are accepted and never pushed
  (`impl/CppBindClass.h:28-64`).

Disagreements that a reading shows and no run is needed for:

* Two threads pass `if (replied_) return;` before either sets it
  (`server/impl/server_replier_impl.h:33`). `LateReplyIgnored` says what remains:
  whoever calls after a reply has returned is ignored.
* `Service.lua:128` and `:142` pass the user's reader to `Reader:new()` in the
  place of another argument; none of its handlers is called.
* `Shutdown()`, "waiting for all rpc processing to finish"
  (`server/server.h:44`), starts the shutdown and returns: the wait is commented out
  and the deadline unused (`server/server.cpp:86-95`).
* `sync_request()` of the Lua stub gives an empty response beside an error, not nil
  (`src/lua-grpc/lua/client/BindServiceStub.cpp:57`, against the comment above it and
  `src/grpc/client/ServiceStub.lua:93`).
* The move constructor of `LuaTableIterator` takes its value from the slot of the
  table (`src/lua-intf/LuaIntf/src/LuaRef.cpp:78`); nothing in the repository moves
  one, and the model leaves it out.
* `get(key, def)` of a `LuaRef` never gives a default that is a `LuaRef`: the test
  asks for an absent argument and is given nil (`src/lua-intf/LuaIntf/LuaRef.h:1335`).
* `_ref_def` does not compile (`src/lua-intf/LuaIntf/impl/CppArg.h:157`).

## What is proved

Every theorem is about a specification without fairness (`SafeSpec`; `CallSafeSpec` of
`ServerStreamingCall`, `RefSpec` of `LuaRefs`, `Spec` of `LuaObject`, `CallsSpec` of
`LuaCalls`), for any values of the constants that the named `ASSUME`s of the modules
allow; TLC evaluates these on every run. `ScalarsKept` is about operators.

`ServerWriterProofs`, for any threads, calls, statuses, marks and number of
messages:

* `TypeCorrect`: `TypeOK`.
* `AssertsAndOneByOne`: no assertion fails unless the queue was popped while
  empty, and at most one write batch is out, none when the status is.
* `NoMessageLost`, `MetadataOnce`, `StatusLast`: the order of the messages, the
  initial metadata in the first batch and in no other, the status behind all
  messages and always sent by the destructor (`EndsWithStatus`).
* `AnswersTrue`: a `SyncWrite()` that answered true has handed its message over, and
  a refused message is never sent (`AnswersAreTrue`).
* `Refinement`: every behaviour is one of `OrderedStream!SafeSpec`.

`ClientStreamingCallProofs`, of the writer for any close callbacks and number of
messages:

* `TypeCorrect`: `TypeOK`.
* `NoAssertFails`: the assertions of `client_async_writer_impl.cpp` hold (`AssertsHold`).
* `ClosedOnce`: the callback of the first `Close()` is called, no other and not
  twice, before the object is destroyed (`ReportedOnce`).
* `SendOneByOne`: one batch at a time, the half-close behind all messages.
* `OkIsTruth`: an OK given to the close callback means that everything accepted
  was sent with success, and the half-close behind it (`SuccessIsTrue`).
* `Refinement`: every behaviour is one of `OrderedStream!SafeSpec`, the half-close
  being the end marker.

of the replier for any threads, replies and number of calls:

* `ReplierTypeCorrect`: `TypeOK`, and that grpc core takes one answer at most.
* `LateIgnored`: a call that begins after another has returned starts no batch
  (`LateReplyIgnored`). The invariant `Remembered` carries it: once a call has
  returned, and while a thread is about to start its batch, `replied_` is set; so
  a late thread finds it set. It says nothing of threads that race.

and of `ClientStreamingCall` from end to end, whichever messages cannot be decoded
and whenever the call dies:

* `CallTypeCorrect`: `CallTypeOK`, the types of all three parts.
* `ReaderEndedOnce`: the user's reader is ended once, behind everything else
  (`EndsOnce`).
* `OkIsTrueEndToEnd`: an OK told to the client's close callback was given by the
  handler, when its reader had taken every accepted message in order (`OkEndToEnd`).
* `CallRefinement`: what the server is sent is an `OrderedStream!SafeSpec`.

`CallProofs`, for any number of messages:

* `LuaTypeCorrect`: `TypeOK` of `LuaCall`.
* `LuaOkIsTrue`, `LuaEndHeardOnce`: `OkEndToEnd` and `EndHeardOnce` of `LuaCall`,
  whatever kinds of methods the two programs take the call for, whatever raises an
  error, and whenever the collector runs, with the exceptions named above.

`ClientAsyncReaderWriterProofs`, for any number of messages and reads and any
callbacks, with one hypothesis, `QuietEnd`: a status callback that is told the
normal end does not call `SetErrorStatus()`. Without it the callback is called again
before it is reset, and nothing below holds.

* `TypeCorrect`: `TypeOK`.
* `TwoAssertsFail`: of the assertions only the two above can fail (`AssertsHold`).
* `BatchesOneByOne`: one write and one read at a time, the half-close last.
* `ErrorsReported`: an error is told to the status callback, once (`ErrorReported`).
* `OkIsTruth`: `OkIsTrue`.
* `Refinement`: the writing half is an `OrderedStream!SafeSpec`.

`SyncClientProofs`, for any number of messages, with batches refused or not:

* `TypeCorrect`: `TypeOK`.
* `NothingStartedTwice` (`BatchesAccepted`), `OkIsTruth` (`OkIsTrue`),
  `MessageBehindOk` (`AssertsHold`), and the action property `NothingAfterStop`
  (`ReadStops`).

`ClientProofs`, of `ServiceStub` for any requests, threads in `Run()`, watchers and
sets of callbacks:

* `TypeCorrect`: `TypeOK`, and so that watchers are numbered as they were created.
* `RequestsAnsweredOnce`: `AnsweredOnce`. The invariant adds what a request that is
  not over must look like (nothing heard, nothing answered before it is out, both
  callbacks in a blocking one), and that a `Run()` returns from a drained queue,
  which takes no request any more and so stays drained.

and of `ServerStreamingCall` for any number of messages, whichever of them cannot be
decoded and whenever the call dies:

* `StreamTypeCorrect`: `CallTypeOK`.
* `StreamOkIsTrue`: `OkMeansAllRead`: an OK told to the status callback is the
  handler's, and comes behind every message its writer accepted.

`ServerProofs`, for any services, methods and numbers of calls:

* `TypeCorrect`: `TypeOK`.
* `OnlyOverlapBreaks`: `AssertsHold`.
* `OneRequestEach`: `StaysRequested`.

`LuaIntfProofs`, for any number of C++ variables, slots, tables, keys and values, in
any order of copies, moves, assignments, stores and destructors:

* `RefInvariant`: `RefInv`, the types and everything the next two need.
* `SlotsOwnedOnce`: `OwnedOnce`: no slot leaks, none is given back twice.
* `ReferencesDenote`: `Denotes`: nobody's value changes by what others do.
* `LoopsWalkAll`: `WalksAll`: a loop gives no key twice and, when it compares as the
  end, owes none.

`LuaAssumption` is what it needs of Lua: a key has one place in the order of
`lua_next()`, `nil` is no table and no key, and no value looks like a free slot.

of `LuaObject`, for any finite number of classes with any single inheritance, any
program of registrations in any order, and any number of objects and userdata:

* `ObjectInvariant`: `Invariant`, what the others need.
* `ConversionsRight`: `ConversionsKept`: a userdata is taken for what its object is
  and for nothing else, and a const one is never taken for one that is not.
* `LifetimesKept`: `LifeKept`: what Lua owns is destroyed with the last that has it,
  not before and not later, and no userdata is left behind.
* `TablesAsDeclared`: `NamesInv`: the tables have what is registered in them.
* `NamesRight`: `NamesMeanDeclared`: a name reads, writes or calls on an object, through
  any chain of classes, what the nearest class that registers it has it mean, and on a
  const object only what constness allows.
* `ReadOnlyRight`: `ReadOnlyKept`: what is registered read-only keeps its value, in its
  class, in those that extend it and in its module, whatever scripts assign.

of `LuaCalls`, for any bound functions with any parameters, any arguments and any timeouts:

* `ArgumentsPassed`: `ArgumentsKept`: a parameter takes its own argument or its default, a
  call raises exactly if an argument cannot be converted, and Lua gets the values returned
  and the output parameters, in order.
* `TimeoutsKept`: `TimeoutKept`: a timeout in milliseconds is the one in seconds to the
  millisecond, as far as an `int64_t` of any size goes, and does not overflow.

and of `LuaScalar`, for any Lua value, any enums and any width of the integers:

* `ScalarsKept`: a scalar that can be encoded is decoded as the same one modulo the width of
  its field, and what was decoded is encoded as it was.

`ClassesAssumption` is what C++ says of classes (finitely many, and none its own base);
`ProgramAssumption` that what is registered in a class or in a module is what can be,
that `__call` goes on to a class, and that a program registers no `__gc` of its own.
`NamesAssumption` is what the last three need of a program: a name has one meaning among
the members of a class, one among its statics and one in a module (a second registration
would replace the first or, next to one of another kind, hide it), the names that
lua-intf (`OwnFields`) and Lua keep for themselves are nobody's, and indexers are what
numbers mean.
`CallsAssumption` says that parameters and arguments are sequences, and that a
parameter for input is an integer, a number, a `bool` or a string; `ValueAssumption`
that no two numbers have one numeral, that ranges are even and that the larger is twice a
multiple of the smaller; `EnumsAssumption`, that the number of an enum is an `int32`.

**The argument for ServerWriter.** None of the properties is inductive. The
invariant is `TypeInv`: types, `ArgOk` (a thread inside a write call holds a
message), and `Handover`, which says who may send:
the number of batches out is 1 exactly when `is_sending_ /\ ~closed_`; the queue is
empty when nobody is sending or the writer is closed; a closed writer has ended or
broken; a deferred status waits for a batch that is out. `StreamInv` adds order,
metadata and the destructor. `NextIsWriterStep` reduces the sixteen actions of the
threads to the eight things they can do to the writer (`WriterStep`), so that each
later invariant is shown for those only. `AnswersTrue` needs more: `Offered` (a message
that a thread is about to write is new, and no other thread's) and `Waiting` (the
message of a thread that waits in `SyncWrite()` was accepted, and sent if the wait
has ended and the writer is not closed).

**The argument for ClientAsyncWriter.** `TurnInv` holds the control: types; `Turn`
(one batch is out, and while the status is OK that is exactly when the queue is
not empty, so a caller may send only when no completion will; an error ends
sending for good); and `Answered` (a pending callback always has a batch out whose
completion will call it). `OrderInv` holds the data: as long as the status is OK,
what was accepted is what was sent followed by the queue behind its front; what is
confirmed and what is out together are what was sent; a half-close, and so an OK
report, finds everything sent and confirmed. `OneByOne` needs the data as well, for
it says that the front of the queue is the message that was sent last. `TurnInv` is
inductive by itself; `StreamInv`, both together, serves the order and the
refinement, which is shown per action: a `Write` is an `Accept`, `Break` or nothing,
`OnSent` a `Send`, an `End`, a `Break` or nothing.

**The argument for ClientStreamingCall.** `CallInv` joins what each part knows.
`StreamInv`, from above, holds in the call too: its steps are the writer's or leave
the writer alone. `ReaderInv` says exactly what the user's reader was called with:
while a read is out, the messages taken so far (`Heard`); when the chain has ended,
these and an end (then the client had half-closed and everything was taken), or
some of them, an error and an end; and some of them and an end without an error only
when the call is dead (`EndedPlainly`). `HeardKept` makes that stable: the client only
adds to what it sent, and nothing behind the half-close (`SentGrows`). `TruthInv`
carries the OK backwards: a report says OK only if grpc core has an OK as answer
(`ReportsTrue`), the answer only if the handler replied it, and the handler only if
its reader was ended without an error, which stays so (`EndedStays`); from there
`CleanEnd` and the half-close of `OrderInv` give that all that was accepted was taken.
A reader that a dead call ended plainly may have taken less, and its handler may reply
OK; but no answer is taken any more, so that an OK as answer means that the client
had ended the reader (`Concluded`), which later steps keep (`ConclusionStays`).

**The argument for ServerStreamingCall and LuaCall.** In both the server is an
`OrderedStream`, of which `AnswerEnds` says that a status that went out is that of
the close and is behind everything accepted. `CallChain` has the one batch that the
client's chain keeps out, and that no message is lost until it ends; `CallOk` says
where the chain must have ended when an OK is told. For `LuaCall`, `ReplyInv` has the
one reply of a method that does not stream, given together with its status;
`MsgsInv` that of the messages of a stream those that decode were passed on, as far
as the client has read; `StreamInv`, of the asynchronous reader-writer, that its
reading has ended where that of the answer has or with the call, and that nobody hears
of an end only behind that; `EndInv` and `TruthInv` are the two properties as every step
needs them. `LuaTypeInv` adds to the types that the answer is bounded by what was
accepted and that a client that has not called has sent nothing.

**The argument for ClientAsyncReaderWriter.** `BidiInv` has a part for each
concern. `WriteInv` and `DataInv` say what `TurnInv` and `OrderInv` say above, both
as long as the status is OK. `ReadInv` has the one read, and which callbacks can be
running: a message callback runs where its read was taken, so no second one can
start. `ErrorInv` is the heart: whenever anything but the error's own status callback
runs, an error has been reported and both directions are ended. The running
callbacks are a stack of at most two, and `Tops`, `Fronts` and `Pushes` say what the
sequence operators make of it; `FailsInPlace` is the step that every failure of
every operation comes to.

**The argument for SyncClient.** `InUse` relates `used` to what each class
remembers: of a reader-writer that was half-closed `writing_closed_` is set, and so
on; from it no start meets an operation that is in use, but for the repeated ones.
`Turn` says which class waits for which batch and why a reader that was stopped does
not read on (a stored error, or the end of the stream). `HandlerInv` is what the
`OrderedStream` on the other side promises, and `Truth` joins the two.

**The argument for Server.** `StaysRequested` counts: `Balanced` says that the tags
of a method, wherever they are, and its place in the list that
`RequestMethodsCalls()` goes through, are as many as are due. `Count` is the
cardinality of the positions of the queue that hold an event of the method;
`CountAppend` and `CountTail` say how it changes at either end. `CtrlInv` says who may
be where, and needs no counting.

**The argument for LuaRefs.** `RefInv` is inductive. `ObjInv` says what a live object
is: each of its references is a slot with the right value in it or stands for nil
(`Denoted`), key and value are two slots, and what a proxy or an iterator borrows is
owned by a live `LuaRef` (`Lender`). `OwnInv` says that a used slot has an owner and no
two objects own one. Nearly every member function gives back what the object has,
takes at most two references, and makes it something else: `Freed` is the registry in
between, `Takes` one reference taken, and `Renew` and `Retire` show once and for all
that the invariant holds behind it, so that a function has only to be shown to be of
that form. A move and a swap take nothing (`Trade`), a store does not touch objects.
Each step of one object also leaves what the others borrow (`Still`), which
`WalkInv` needs: of the keys an iterator has given none is behind the one it is at,
and those it owes are fields that are (`Before`). `NextPlace` is what `lua_next()`
promises, and `WalkOn` the step of a loop.

**The argument for LuaObject.** `BindInv` is about the tables: the `___super` of a table is
the table of the same kind of the class it extends, its `__downcast` list has such
tables of classes that extend it, and in the two tables of the objects of a class is
the destructor of that class and constness, which no later registration replaces
(`RawSetKeeps`, through which every registration goes). `UserdataInv` is about the
objects: the metatable of a userdata is that of a class its object is of, and of const
objects if the userdata is const (`Suits`); who shows a value is alone with it; a
pointer is to an object that C++ keeps. A chain and a downcast are recursive functions
over the tables. `Recursion` shows that a function which recurs along a link that
leads down is there, `Descent` that what holds whenever it holds one link on holds for
all, both from the least counterexample; `Bases`, `Chain` and `FindClassID` are then
three instances: every table of a chain is of a base and of the same kind
(`ChainFacts`), a downcast ends at a class of the object (`FindFacts`). `Gc` needs both
halves: `__gc` runs only if the metatable is exactly that of the destructor in it, and
what it destroys nobody else has.

**The argument for names.** Neither `NamesMeanDeclared` nor `ReadOnlyKept` says what is
in a table, so neither is inductive. `NamesInv` says it: under a name a table has the
entries (`Entry`) of the registrations that store there (`Places`), or a value that a
script assigned in a module, and that only where nothing has a setter; and a table has
a `___super` if and only if its class was declared to extend one. A registration makes
several entries, in one or two tables, one after the other: `RawSetPuts` and `PairPuts` say what
one and two of them do to the names (`Puts`, `PutsBoth`), and each kind of registration
ends in the same statement (`Written`), so that `StepNames` needs one case for them all.
What the look-up finds follows in three parts. `ChainHeirs`, by `Descent`: the tables of
a chain are those of the classes that a declaration runs through (`Heirs`), one for one
and of one kind. `LookUpIs`: if at each class something is found exactly when something
is declared (`LevelReads`, `LevelWrites`, `LevelStatic`), the look-up stops where the
declaration does. `RunsIs` and `EntryMeans`: what it finds there accepts the object
if its constness is right, for which it takes `Suits` of `UserdataInv`.

**The argument for LuaCalls.** Each call is by itself, so the theorems are about what one
gives. `TupleInputIs`: the argument that is next when a parameter is reached is found by
counting the parameters for input before it (`InputsBefore`), which is shown from the
least parameter for which it is not; the count exists at all because it satisfies the
recursion that defines it. `TupleOutputIs` is the same for what is pushed behind the
call, one parameter at a time (`InOrderStep`), `PushedIs` joins it to what was returned, and
`TopIs` says that Lua takes these and no argument from the stack. For a timeout,
`LateTimely` and `CastTimely` are the two sides of the comparison in `GetTimeoutMs()`:
above it the product would not fit, below it truncation loses less than a millisecond.
For scalars, `SignedIs` and `UnsignedIs` say that a cast is off by a multiple of the
range and nothing if the value fits; `PushedSame` puts the two casts of a round trip together.

## Model-checked only

* Liveness (`SyncCallsReturnUnlessWild`, `ReleaseEnds`, `CloseAnswered`, `StatusTold`,
  `ReaderEnds`, `CallsAreGiven`, `RequestAnswered`, `DestroyReturns`, `CallsReturn`,
  `CallEnds`, and the fairness part of `ImplementsStream`): the prover knows neither
  fairness nor `ENABLED`.
* `RoundTrip` and `Stable` of `Codec`, but for scalars (`ScalarsKept`): messages, arrays
  and maps recurse over descriptors, and what a recursive definition computes for
  every input would need an induction the prover cannot instantiate.

The converse: `NothingLost`, `OneByOne`, `InitMdOnce` and `AssertsHold` of
`ServerWriter`, `AssertsHold`, `OneByOne`, `ReportedOnce` and `SuccessIsTrue` of
`ClientAsyncWriter`, `OneByOne` of `ClientAsyncReaderWriter`, `LateReplyIgnored`, and
`TypeOK` of all modules with proofs are theorems and in no run.

## Not modelled

* `ServiceStub::SetCompletionQueue`, which the Lua binding does not export, and
  copies of a stub, which share `m_pID` and would join the thread twice.
* `Server::AddListeningPort`, which changes no state of this library, and the
  destructor of `Server`, which joins a thread that is never created
  (`server/server.cpp:34`) and so is undefined before anything else.
* Of `lua-intf`: `LuaState.h` and `LuaContext.h`, inline names for the C functions
  of Lua; `LuaCompat`, which stands in for functions of newer versions of Lua;
  `QtLuaIntf`. C++ classes with several bases, and scripts that call `__gc`.
* `Net.cpp`: one system call. Credentials, slices, string references, statuses,
  times: values without a protocol.
* Contents of messages and metadata, compression, and the text of statuses: no
  property depends on them.

## Plan

1. `OrderedStream`, `ServerWriter` with proofs. *Done.*
2. `ClientAsyncWriter`, `ClientAsyncReaderWriter`, `ClientAsyncReader`,
   `ServerStreamingCall`. *Done, with proofs of the writer and the reader-writer.*
3. `ServerReplier`, `ServerReader`. *Done.*
4. `ClientStreamingCall`: `ClientAsyncWriter`, `ServerReader` and `ServerReplier`
   in one call. *Done.*
5. `Server`: registration, start, the method request that its own completion
   renews, shutdown against a running queue. *Done, with proofs.*
6. `ServiceStub`: unary calls, each answered once; the watcher thread, its flag
   and its join. *Done, with proofs.*
7. Synchronous clients over pluck queues. *Done, with proofs.*
8. The Lua dispatch and the Lua clients, composed in `LuaCall`; the protobuf codec,
   checked against a round trip. *Done, with proofs of `LuaCall` and of scalars.*
9. The references, class tables and calls of `lua-intf`. *Done, with proofs of the
   references, of the objects, of what names mean and of calls and their arguments.*
10. Proofs of the end-to-end properties of the compositions. *Done.*
