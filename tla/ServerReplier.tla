----------------------------- MODULE ServerReplier -----------------------------
(***************************************************************************)
(* ServerReplierImpl: the reply to a unary or client-streaming call, given *)
(* by any thread that holds a copy of the ServerReplier.  replied_ is an   *)
(* atomic_bool, but it is tested and set in two steps; there is no mutex.  *)
(***************************************************************************)
EXTENDS Naturals, Sequences

CONSTANTS Threads,     \* threads that hold a copy
          Replies,     \* what they reply: messages and error statuses
          MaxCalls,    \* bound: calls of a thread
          StartMayFail \* may grpc_call_start_batch() refuse a valid batch?

VARIABLES
  replied_,
  pc, reply,   \* where a thread is, and what it replies
  answer,      \* the reply that grpc core can give to the client (external)
  dead,        \* the call has died (external)
  \* history
  ncalls,
  started,     \* the replies that went to grpc core, taken or refused
  returned,    \* a call has returned
  late         \* threads whose last call began after another had returned

vars == <<replied_, pc, reply, answer, dead, ncalls, started, returned, late>>

TypeOK ==
  /\ {replied_, returned, dead} \subseteq BOOLEAN
  /\ pc \in [Threads -> {"idle", "test", "set", "start"}]
  /\ reply \in [Threads -> Replies]
  /\ answer \in Seq(Replies) /\ Len(answer) <= 1
  /\ started \in Seq(Threads)
  /\ ncalls \in [Threads -> Nat]
  /\ late \subseteq Threads

Init ==
  /\ replied_ = FALSE
  /\ pc = [t \in Threads |-> "idle"] /\ reply \in [Threads -> Replies]
  /\ answer = <<>> /\ dead = FALSE
  /\ ncalls = [t \in Threads |-> 0] /\ started = <<>>
  /\ returned = FALSE /\ late = {}

Goto(t, l) == pc' = [pc EXCEPT ![t] = l]

\* A thread calls ReplyStr() or ReplyError().
CallWith(t, r) ==
  /\ pc[t] = "idle" /\ ncalls[t] < MaxCalls
  /\ reply' = [reply EXCEPT ![t] = r]
  /\ ncalls' = [ncalls EXCEPT ![t] = @ + 1]
  /\ late' = IF returned THEN late \cup {t} ELSE late \ {t}
  /\ Goto(t, "test")
  /\ UNCHANGED <<replied_, answer, dead, started, returned>>
Call(t) == \E r \in Replies : CallWith(t, r)

\* if (replied_) return;
TestReplied(t) ==
  /\ pc[t] = "test"
  /\ Goto(t, IF replied_ THEN "idle" ELSE "set")
  /\ returned' = (returned \/ replied_)
  /\ UNCHANGED <<replied_, reply, answer, dead, ncalls, started, late>>

\* replied_ = true;
SetReplied(t) ==
  /\ pc[t] = "set"
  /\ replied_' = TRUE
  /\ Goto(t, "start")
  /\ UNCHANGED <<reply, answer, dead, ncalls, started, returned, late>>

\* grpc core takes a batch that sends a status once for a call; from a dead call
\* nothing reaches the client.
TakeBatch(r) ==
  \/ answer = <<>> /\ ~dead /\ answer' = <<r>>
  \/ (answer # <<>> \/ dead \/ StartMayFail) /\ UNCHANGED answer

\* A new ServerReplierCqTag starts its batch, or is deleted.
StartReply(t) ==
  /\ pc[t] = "start"
  /\ TakeBatch(reply[t])
  /\ started' = Append(started, t)
  /\ returned' = TRUE
  /\ Goto(t, "idle")
  /\ UNCHANGED <<replied_, reply, dead, ncalls, late>>

Step(t) == TestReplied(t) \/ SetReplied(t) \/ StartReply(t)

CallDies ==
  /\ ~dead /\ dead' = TRUE
  /\ UNCHANGED <<replied_, pc, reply, answer, ncalls, started, returned, late>>

Done == (\A t \in Threads : pc[t] = "idle") /\ UNCHANGED vars

Next == (\E t \in Threads : Call(t) \/ Step(t)) \/ CallDies \/ Done

SafeSpec == Init /\ [][Next]_vars

\* A thread that is inside a call goes on.
Spec == SafeSpec /\ \A t \in Threads : WF_vars(Step(t))

-------------------------------------------------------------------------------
(* Properties *)

\* A reply that begins after another call has returned is ignored ("ignore other
\* replies"), even if several raced before it: of threads that reply one after
\* the other only the first one is heard.
LateReplyIgnored ==
  \A t \in Threads : pc[t] \in {"set", "start"} => t \notin late

===============================================================================
