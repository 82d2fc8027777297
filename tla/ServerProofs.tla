------------------------------ MODULE ServerProofs ------------------------------
(* Proofs about Server for any services, methods and numbers of calls.       *)
EXTENDS Server, FunctionTheorems, FiniteSetTheorems, SequenceTheorems, TLAPS

-------------------------------------------------------------------------------
(* Counting the events of a method. *)

Of(q, m) == {i \in DOMAIN q : q[i].method = m}
Count(q, m) == Cardinality(Of(q, m))

LEMMA OfFinite ==
  ASSUME NEW q \in Seq(Events), NEW m
  PROVE  IsFiniteSet(Of(q, m)) /\ Count(q, m) \in Nat
<1>1. Len(q) \in Nat /\ DOMAIN q = 1 .. Len(q)
  OBVIOUS
<1>2. IsFiniteSet(1 .. Len(q))
  BY <1>1, FS_Interval
<1>3. Of(q, m) \in SUBSET (1 .. Len(q))
  BY <1>1 DEF Of
<1>4. IsFiniteSet(Of(q, m))
  BY <1>2, <1>3, FS_Subset
<1>. QED  BY <1>4, FS_CardinalityType DEF Count

LEMMA CountAppend ==
  ASSUME NEW q \in Seq(Events), NEW e \in Events, NEW m
  PROVE  Count(Append(q, e), m) = Count(q, m) + (IF e.method = m THEN 1 ELSE 0)
<1>. DEFINE n == Len(q)
            a == Append(q, e)
<1>1. /\ n \in Nat /\ DOMAIN q = 1 .. n /\ DOMAIN a = 1 .. (n + 1)
      /\ a[n + 1] = e /\ \A i \in 1 .. n : a[i] = q[i]
  BY AppendProperties
<1>2. IsFiniteSet(Of(q, m)) /\ n + 1 \notin Of(q, m) /\ Count(q, m) \in Nat
  BY <1>1, OfFinite DEF Of
<1>3. CASE e.method = m
  <2>1. Of(a, m) = Of(q, m) \cup {n + 1}
    BY <1>1, <1>3 DEF Of
  <2>2. Cardinality(Of(q, m) \cup {n + 1}) = Cardinality(Of(q, m)) + 1
    BY <1>2, FS_AddElement
  <2>. HIDE DEF n
  <2>. QED  BY <1>3, <2>1, <2>2 DEF Count
<1>4. CASE e.method # m
  <2>1. Of(a, m) = Of(q, m)
    BY <1>1, <1>4 DEF Of
  <2>. QED  BY <1>2, <1>4, <2>1 DEF Count
<1>. QED  BY <1>3, <1>4

\* Taking the first event shifts the others, one to one.
LEMMA CountTail ==
  ASSUME NEW q \in Seq(Events), q # <<>>, NEW m
  PROVE  Count(q, m) = Count(Tail(q), m) + (IF Head(q).method = m THEN 1 ELSE 0)
<1>. DEFINE n == Len(q)
            t == Tail(q)
            R == Of(q, m) \ {1}
            f == [i \in Of(t, m) |-> i + 1]
<1>1. /\ n \in Nat /\ n # 0 /\ DOMAIN q = 1 .. n /\ DOMAIN t = 1 .. (n - 1)
      /\ t \in Seq(Events) /\ Head(q) = q[1]
      /\ \A i \in 1 .. (n - 1) : t[i] = q[i + 1]
  BY HeadTailProperties, EmptySeq
<1>2. /\ IsFiniteSet(Of(q, m)) /\ IsFiniteSet(Of(t, m))
      /\ Count(q, m) \in Nat /\ Count(t, m) \in Nat
  BY <1>1, OfFinite
<1>3. f \in [Of(t, m) -> R]
  BY <1>1 DEF Of
<1>4. \A i, j \in Of(t, m) : f[i] = f[j] => i = j
  BY <1>1 DEF Of
<1>5. \A j \in R : \E i \in Of(t, m) : f[i] = j
  <2>. SUFFICES ASSUME NEW j \in R PROVE j - 1 \in Of(t, m) /\ f[j - 1] = j
    OBVIOUS
  <2>1. j \in 2 .. n /\ q[j].method = m
    BY <1>1 DEF Of
  <2>2. j - 1 \in 1 .. (n - 1) /\ (j - 1) + 1 = j
    BY <1>1, <2>1
  <2>3. t[j - 1] = q[j]
    BY <1>1, <2>2
  <2>. QED  BY <1>1, <2>1, <2>2, <2>3 DEF Of
<1>6. ExistsBijection(Of(t, m), R)
  <2>1. f \in Bijection(Of(t, m), R)
    BY <1>3, <1>4, <1>5, Fun_IsBij
  <2>. QED  BY <2>1 DEF ExistsBijection
<1>7. Cardinality(R) = Count(t, m)
  BY <1>2, <1>6, FS_Bijection DEF Count
<1>8. 1 \in Of(q, m) <=> Head(q).method = m
  BY <1>1 DEF Of
<1>9. Cardinality(R) = IF 1 \in Of(q, m) THEN Count(q, m) - 1 ELSE Count(q, m)
  BY <1>2, FS_RemoveElement DEF Count
<1>. QED  BY <1>2, <1>7, <1>8, <1>9

-------------------------------------------------------------------------------
(* Types. *)

LEMMA EventTypes ==
  /\ ServerEvent \in Events
  /\ \A m \in Methods, b \in BOOLEAN : CallEvent(m, b) \in Events
  /\ \A m \in Methods \cup {NoMethod} : FailEvent(m) \in Events
  BY DEF Events, CallEvent, FailEvent, ServerEvent

LEMMA InitTypes == Init => TypeOK
<1>. USE ServerAssumption
<1>. SUFFICES ASSUME Init PROVE TypeOK
  OBVIOUS
<1>1. {started_, shutdown_, stopping, notified, queue_shut, overlapped} \subseteq BOOLEAN
  BY DEF Init
<1>2. events \in Seq(Events) /\ tag \in Events
  BY EventTypes DEF Init
<1>3. {todo, serving, threw} \subseteq SUBSET Methods
  BY DEF Init
<1>4. /\ {waiting, requests, arrived, given} \subseteq [Methods -> Nat]
      /\ {regs, regs0} \subseteq [Services -> Nat]
  BY DEF Init
<1>5. /\ service_map_ \in [Methods -> {"none", "handle", "null"}]
      /\ pc \in {"idle", "start", "request", "poll", "call", "renew"}
      /\ pc_shut \in {"idle", "notify", "queue", "done"}
      /\ process \in {"up", "assert", "ub"} /\ open \in Nat
  BY DEF Init
<1>. QED  BY <1>1, <1>2, <1>3, <1>4, <1>5 DEF TypeOK

LEMMA RequestTypes ==
  ASSUME TypeOK, NEW m \in Methods, RequestCall(m)
  PROVE  /\ requests' \in [Methods -> Nat]
         /\ events' \in Seq(Events)
         /\ process' \in {"up", "assert", "ub"}
<1>1. requests \in [Methods -> Nat] /\ events \in Seq(Events) /\ process \in {"up", "assert", "ub"}
  BY DEF TypeOK
<1>2. CASE ~stopping /\ requests' = [requests EXCEPT ![m] = @ + 1] /\ UNCHANGED <<events, process>>
  BY <1>1, <1>2
<1>3. CASE stopping /\ events' = Append(events, FailEvent(m)) /\ UNCHANGED <<requests, process>>
  BY <1>1, <1>3, EventTypes, AppendProperties
<1>4. CASE queue_shut /\ process' = "assert" /\ UNCHANGED <<requests, events>>
  BY <1>1, <1>4
<1>. QED  BY <1>2, <1>3, <1>4 DEF RequestCall

\* What every method tag that is in use belongs to.
TagOk == pc \in {"call", "renew"} => tag.method \in Methods

LEMMA TypeStep ==
  ASSUME TypeOK, TagOk, [Next]_vars
  PROVE  TypeOK'
<1>. USE ServerAssumption
<1>1. ASSUME NEW s \in Services, RegisterService(s) PROVE TypeOK'
  <2>1. regs' \in [Services -> Nat]
    BY <1>1 DEF RegisterService, TypeOK
  <2>2. service_map_' \in [Methods -> {"none", "handle", "null"}]
    BY <1>1 DEF RegisterService, TypeOK
  <2>. QED  BY <1>1, <2>1, <2>2 DEF TypeOK, RegisterService, core
<1>2. CASE Run
  BY <1>2 DEF TypeOK, Run, Goto, core, history
<1>3. CASE Start
  BY <1>3 DEF TypeOK, Start, Goto
<1>4. CASE Request
  <2>1. /\ requests' \in [Methods -> Nat] /\ events' \in Seq(Events)
        /\ process' \in {"up", "assert", "ub"}
    <3>1. ASSUME NEW m \in todo, RequestCall(m) PROVE <2>1
      BY <3>1, RequestTypes DEF TypeOK
    <3>2. CASE UNCHANGED <<requests, events, process>>
      BY <3>2 DEF TypeOK
    <3>. QED  BY <1>4, <3>1, <3>2 DEF Request
  <2>2. todo' \in SUBSET Methods /\ pc' \in {"request", "poll"}
    BY <1>4 DEF Request, TypeOK, Goto
  <2>. QED  BY <1>4, <2>1, <2>2 DEF Request, TypeOK, history
<1>5. CASE Poll
  <2>1. tag' \in Events /\ events' \in Seq(Events)
    <3>1. tag \in Events /\ events \in Seq(Events)
      BY DEF TypeOK
    <3>2. CASE events = <<>>
      BY <1>5, <3>1, <3>2 DEF Poll
    <3>3. CASE events # <<>>
      <4>1. tag' = Head(events) /\ events' = Tail(events)
        BY <1>5, <3>3 DEF Poll
      <4>. QED  BY <3>1, <3>3, <4>1, HeadTailProperties
    <3>. QED  BY <3>2, <3>3
  <2>2. pc' \in {"idle", "poll", "call", "renew"} /\ process' \in {"up", "assert", "ub"}
    BY <1>5 DEF Poll, TypeOK, Goto
  <2>. QED  BY <1>5, <2>1, <2>2 DEF Poll, TypeOK, history
<1>6. CASE CallMethod \/ HandlerThrows
  <2>1. /\ given' \in [Methods -> Nat] /\ open' \in Nat /\ threw' \in SUBSET Methods
        /\ pc' \in {"idle", "renew"}
    <3>1. /\ tag.method \in Methods /\ given \in [Methods -> Nat]
          /\ open \in Nat /\ threw \in SUBSET Methods
      BY <1>6 DEF CallMethod, HandlerThrows, TypeOK, TagOk
    <3>2. given' = [given EXCEPT ![tag.method] = @ + 1]
      BY <1>6 DEF CallMethod, HandlerThrows
    <3>3. open' \in {open, open + 1}
      BY <1>6 DEF CallMethod, HandlerThrows
    <3>4. threw' \in {threw, threw \cup {tag.method}} /\ pc' \in {"idle", "renew"}
      BY <1>6 DEF CallMethod, HandlerThrows, Goto
    <3>. QED  BY <3>1, <3>2, <3>3, <3>4
  <2>2. CallMethodKeeps
    BY <1>6 DEF CallMethod, HandlerThrows
  <2>. QED  BY <2>1, <2>2 DEF TypeOK, CallMethodKeeps
<1>7. CASE Renew
  <2>1. tag.method \in Methods /\ RequestCall(tag.method)
    BY <1>7 DEF Renew, TagOk
  <2>2. /\ requests' \in [Methods -> Nat] /\ events' \in Seq(Events)
        /\ process' \in {"up", "assert", "ub"}
    BY <2>1, RequestTypes
  <2>. QED  BY <1>7, <2>2 DEF Renew, TypeOK, Goto, history
<1>8. CASE ShutdownBegins
  <2>1. shutdown_' \in BOOLEAN /\ overlapped' \in BOOLEAN /\ pc_shut' = "notify"
    BY <1>8 DEF ShutdownBegins
  <2>. QED  BY <1>8, <2>1 DEF ShutdownBegins, TypeOK, core
<1>9. CASE ShutdownNotify
  BY <1>9 DEF ShutdownNotify, TypeOK, history
<1>10. CASE ShutdownQueue
  BY <1>10 DEF ShutdownQueue, TypeOK, history
<1>11. ASSUME NEW m \in Methods, CallArrives(m) PROVE TypeOK'
  <2>1. waiting' \in [Methods -> Nat] /\ arrived' \in [Methods -> Nat]
    BY <1>11 DEF CallArrives, TypeOK
  <2>. QED  BY <1>11, <2>1 DEF CallArrives, TypeOK, coreKeeps
<1>12. ASSUME NEW m \in Methods, CallMatches(m) PROVE TypeOK'
  <2>1. events' \in Seq(Events)
    <3>1. PICK b \in BOOLEAN : events' = Append(events, CallEvent(m, b))
      BY <1>12 DEF CallMatches
    <3>. QED  BY <3>1, EventTypes, AppendProperties DEF TypeOK
  <2>2. waiting' \in [Methods -> Nat] /\ requests' \in [Methods -> Nat]
    <3>1. /\ waiting' = [waiting EXCEPT ![m] = @ - 1] /\ waiting[m] > 0
          /\ requests' = [requests EXCEPT ![m] = @ - 1] /\ requests[m] > 0
      BY <1>12 DEF CallMatches
    <3>2. waiting \in [Methods -> Nat] /\ requests \in [Methods -> Nat]
      BY DEF TypeOK
    <3>3. waiting' \in [Methods -> Nat]
      BY <3>1, <3>2
    <3>4. requests' \in [Methods -> Nat]
      BY <3>1, <3>2
    <3>. QED  BY <3>3, <3>4
  <2>3. UNCHANGED <<coreKeeps, serving, open, stopping, notified, queue_shut, history>>
    BY <1>12 DEF CallMatches
  <2>. QED  BY <2>1, <2>2, <2>3 DEF TypeOK, coreKeeps, history
<1>13. ASSUME NEW m \in Methods, RequestFails(m) PROVE TypeOK'
  <2>1. events' \in Seq(Events)
    BY <1>13, EventTypes, AppendProperties DEF RequestFails, TypeOK
  <2>2. requests' \in [Methods -> Nat]
    BY <1>13 DEF RequestFails, TypeOK
  <2>. QED  BY <1>13, <2>1, <2>2 DEF RequestFails, TypeOK, coreKeeps, history
<1>14. CASE CallFinishes
  BY <1>14 DEF CallFinishes, TypeOK, coreKeeps, history
<1>15. CASE ServerStopped
  <2>1. events' \in Seq(Events) /\ notified' = TRUE
    BY <1>15, EventTypes, AppendProperties DEF ServerStopped, TypeOK
  <2>. QED  BY <1>15, <2>1 DEF ServerStopped, TypeOK, coreKeeps, history
<1>16. CASE UNCHANGED vars
  BY <1>16 DEF vars, core, history, TypeOK
<1>. QED
  BY <1>1, <1>2, <1>3, <1>4, <1>5, <1>6, <1>7, <1>8, <1>9, <1>10, <1>11, <1>12,
     <1>13, <1>14, <1>15, <1>16 DEF Next, RunStep, ShutdownStep, Done

-------------------------------------------------------------------------------
(* Who may be where. *)

CtrlInv ==
  /\ TagOk
  /\ todo # {} => pc = "request"
  /\ pc \in {"request", "poll", "call", "renew"} => started_
  /\ pc = "start" => ~started_
  /\ shutdown_ => started_
  /\ overlapped => shutdown_
  /\ pc # "idle" /\ shutdown_ => overlapped
  /\ stopping \/ queue_shut \/ pc_shut # "idle" => shutdown_
  /\ \A i \in DOMAIN events : events[i].method = NoMethod => shutdown_
  /\ AssertsHold

LEMMA MethodsAreMethods == NoMethod \notin Methods
  BY DEF NoMethod, Methods

LEMMA RequestCtrl ==
  ASSUME TypeOK, CtrlInv, NEW m \in Methods, RequestCall(m), Up, pc # "idle"
  PROVE  /\ process' \in {"up", "assert"} /\ (process' = "assert" => overlapped)
         /\ \A i \in DOMAIN events' : events'[i].method = NoMethod => shutdown_
<1>1. process' \in {"up", "assert"} /\ (process' = "assert" => overlapped)
  BY DEF RequestCall, CtrlInv, Up, TypeOK
<1>2. ASSUME UNCHANGED events
      PROVE  \A i \in DOMAIN events' : events'[i].method = NoMethod => shutdown_
  BY <1>2 DEF CtrlInv
<1>3. stopping => shutdown_
  BY DEF CtrlInv
<1>. QED  BY <1>1, <1>2, <1>3 DEF RequestCall

LEMMA CtrlStep ==
  ASSUME TypeOK, CtrlInv, [Next]_vars
  PROVE  CtrlInv'
<1>1. ASSUME NEW s \in Services, RegisterService(s) PROVE CtrlInv'
  BY <1>1 DEF CtrlInv, TagOk, AssertsHold, Up, RegisterService, core
<1>2. CASE Run
  BY <1>2 DEF CtrlInv, TagOk, AssertsHold, Up, Run, Goto, core, history
<1>3. CASE Start
  BY <1>3 DEF CtrlInv, TagOk, AssertsHold, Up, Start, Goto
<1>4. CASE Request
  <2>1. /\ process' \in {"up", "assert"} /\ (process' = "assert" => overlapped)
        /\ \A i \in DOMAIN events' : events'[i].method = NoMethod => shutdown_
    <3>1. ASSUME NEW m \in todo, RequestCall(m) PROVE <2>1
      <4>1. m \in Methods /\ Up /\ pc # "idle"
        BY <1>4 DEF Request, TypeOK
      <4>. QED  BY <3>1, <4>1, RequestCtrl
    <3>2. CASE UNCHANGED <<requests, events, process>>
      BY <1>4, <3>2 DEF Request, CtrlInv, Up
    <3>. QED  BY <1>4, <3>1, <3>2 DEF Request
  <2>2. /\ pc = "request" /\ pc' \in {"request", "poll"}
        /\ todo' # {} => pc' = "request"
    BY <1>4 DEF Request, Goto
  <2>3. UNCHANGED <<started_, shutdown_, tag, pc_shut, stopping, queue_shut, overlapped>>
    BY <1>4 DEF Request, history
  <2>. QED  BY <2>1, <2>2, <2>3 DEF CtrlInv, TagOk, AssertsHold, Up
<1>5. CASE Poll
  <2>1. CASE events = <<>>
    BY <1>5, <2>1 DEF Poll, Goto, CtrlInv, TagOk, AssertsHold, Up, history
  <2>2. CASE events # <<>>
    <3>1. /\ events \in Seq(Events) /\ tag' = Head(events) /\ events' = Tail(events)
          /\ Up /\ pc = "poll"
      BY <1>5, <2>2 DEF Poll, TypeOK
    <3>2. /\ DOMAIN events' = 1 .. (Len(events) - 1) /\ 1 \in DOMAIN events
          /\ DOMAIN events = 1 .. Len(events) /\ Len(events) \in Nat
          /\ \A i \in DOMAIN events' : events'[i] = events[i + 1]
          /\ tag' = events[1] /\ tag' \in Events
      BY <2>2, <3>1, HeadTailProperties, EmptySeq
    <3>3. \A i \in DOMAIN events' : i + 1 \in DOMAIN events
      BY <3>2
    <3>4. \A i \in DOMAIN events' : events'[i].method = NoMethod => shutdown_
      BY <3>2, <3>3 DEF CtrlInv
    <3>5. tag'.method \in Methods \cup {NoMethod}
      BY <3>2 DEF Events
    <3>6. CASE tag'.method = NoMethod
      <4>1. process' = "ub" /\ pc' = pc /\ shutdown_
        BY <1>5, <2>2, <3>2, <3>6 DEF Poll, CtrlInv
      <4>. QED  BY <1>5, <3>1, <3>4, <4>1 DEF Poll, CtrlInv, TagOk, AssertsHold, Up, history
    <3>7. CASE tag'.method # NoMethod
      <4>1. process' = process /\ pc' \in {"call", "renew"} /\ tag'.method \in Methods
        BY <1>5, <2>2, <3>5, <3>7 DEF Poll, Goto
      <4>. QED  BY <1>5, <3>1, <3>4, <4>1 DEF Poll, CtrlInv, TagOk, AssertsHold, Up, history
    <3>. QED  BY <3>6, <3>7
  <2>. QED  BY <2>1, <2>2
<1>6. CASE CallMethod \/ HandlerThrows
  <2>1. CallMethodKeeps /\ pc = "call" /\ pc' \in {"renew", "idle"}
    BY <1>6 DEF CallMethod, HandlerThrows, Goto
  <2>. QED  BY <2>1 DEF CallMethodKeeps, CtrlInv, TagOk, AssertsHold, Up
<1>7. CASE Renew
  <2>1. tag.method \in Methods /\ RequestCall(tag.method) /\ Up /\ pc = "renew" /\ pc' = "idle"
    BY <1>7 DEF Renew, CtrlInv, TagOk, Goto
  <2>2. /\ process' \in {"up", "assert"} /\ (process' = "assert" => overlapped)
        /\ \A i \in DOMAIN events' : events'[i].method = NoMethod => shutdown_
    BY <2>1, RequestCtrl
  <2>3. UNCHANGED <<started_, shutdown_, todo, pc_shut, stopping, queue_shut, overlapped>>
    BY <1>7 DEF Renew, history
  <2>. QED  BY <2>1, <2>2, <2>3 DEF CtrlInv, TagOk, AssertsHold, Up
<1>8. CASE ShutdownBegins
  BY <1>8 DEF ShutdownBegins, CtrlInv, TagOk, AssertsHold, Up, core
<1>9. CASE ShutdownNotify
  BY <1>9 DEF ShutdownNotify, CtrlInv, TagOk, AssertsHold, Up, history
<1>10. CASE ShutdownQueue
  BY <1>10 DEF ShutdownQueue, CtrlInv, TagOk, AssertsHold, Up, history
<1>11. ASSUME NEW m \in Methods, CallArrives(m) PROVE CtrlInv'
  BY <1>11 DEF CallArrives, coreKeeps, CtrlInv, TagOk, AssertsHold, Up
<1>12. ASSUME NEW m \in Methods, CallMatches(m) PROVE CtrlInv'
  <2>1. PICK b \in BOOLEAN : events' = Append(events, CallEvent(m, b))
    BY <1>12 DEF CallMatches
  <2>2. /\ DOMAIN events' = 1 .. (Len(events) + 1) /\ DOMAIN events = 1 .. Len(events)
        /\ Len(events) \in Nat /\ events'[Len(events) + 1] = CallEvent(m, b)
        /\ \A i \in 1 .. Len(events) : events'[i] = events[i]
    BY <2>1, EventTypes, AppendProperties DEF TypeOK
  <2>3. CallEvent(m, b).method # NoMethod
    BY MethodsAreMethods DEF CallEvent
  <2>4. \A i \in DOMAIN events' : events'[i].method = NoMethod => shutdown_
    BY <2>2, <2>3 DEF CtrlInv
  <2>. QED  BY <1>12, <2>4 DEF CallMatches, coreKeeps, history, CtrlInv, TagOk, AssertsHold, Up
<1>13. ASSUME NEW m \in Methods, RequestFails(m) PROVE CtrlInv'
  BY <1>13 DEF RequestFails, coreKeeps, history, CtrlInv, TagOk, AssertsHold, Up
<1>14. CASE CallFinishes
  BY <1>14 DEF CallFinishes, coreKeeps, history, CtrlInv, TagOk, AssertsHold, Up
<1>15. CASE ServerStopped
  BY <1>15 DEF ServerStopped, coreKeeps, history, CtrlInv, TagOk, AssertsHold, Up
<1>16. CASE UNCHANGED vars
  BY <1>16 DEF vars, core, history, CtrlInv, TagOk, AssertsHold, Up
<1>. QED
  BY <1>1, <1>2, <1>3, <1>4, <1>5, <1>6, <1>7, <1>8, <1>9, <1>10, <1>11, <1>12,
     <1>13, <1>14, <1>15, <1>16 DEF Next, RunStep, ShutdownStep, Done

\* TypeOK, and the assertion on a request and the cast of a tag hold unless
\* Shutdown() comes inside a Run().
THEOREM TypeCorrect == SafeSpec => []TypeOK
<1>1. Init => TypeOK /\ CtrlInv
  BY InitTypes DEF Init, CtrlInv, TagOk, AssertsHold, Up
<1>2. TypeOK /\ CtrlInv /\ [Next]_vars => (TypeOK /\ CtrlInv)'
  BY TypeStep, CtrlStep DEF CtrlInv
<1>. QED  BY <1>1, <1>2, PTL DEF SafeSpec

THEOREM OnlyOverlapBreaks == SafeSpec => []AssertsHold
<1>1. Init => TypeOK /\ CtrlInv
  BY InitTypes DEF Init, CtrlInv, TagOk, AssertsHold, Up
<1>2. TypeOK /\ CtrlInv /\ [Next]_vars => (TypeOK /\ CtrlInv)'
  BY TypeStep, CtrlStep DEF CtrlInv
<1>3. CtrlInv => AssertsHold
  BY DEF CtrlInv
<1>. QED  BY <1>1, <1>2, <1>3, PTL DEF SafeSpec

-------------------------------------------------------------------------------
(* One request of each method. *)

Held(m) == IF pc \in {"call", "renew"} /\ tag.method = m THEN 1 ELSE 0
Todo(m) == IF m \in todo THEN 1 ELSE 0
Due(m) == IF regs0[m[1]] = 1 /\ m \notin threw THEN 1 ELSE 0
Balanced(m) == requests[m] + Count(events, m) + Held(m) + Todo(m) = Due(m)

\* Before the start there is nothing but the registrations; from then on the tags
\* of a method and its place in the list of RequestMethodsCalls() are as many
\* as are due.
TagInv ==
  /\ ~started_ =>
       /\ events = <<>> /\ threw = {}
       /\ \A m \in Methods :
            requests[m] = 0 /\ (service_map_[m] = "handle" <=> regs[m[1]] = 1)
  /\ started_ /\ ~shutdown_ => \A m \in Methods : Balanced(m)

LEMMA CountTypes ==
  ASSUME TypeOK, NEW m \in Methods
  PROVE  requests[m] \in Nat /\ Count(events, m) \in Nat
  BY OfFinite DEF TypeOK

\* A server that was not shut down takes every request.
LEMMA RequestTaken ==
  ASSUME CtrlInv, ~shutdown_, NEW m \in Methods, RequestCall(m)
  PROVE  requests' = [requests EXCEPT ![m] = @ + 1] /\ UNCHANGED events
  BY DEF RequestCall, CtrlInv

LEMMA FirstBalance ==
  ASSUME TypeOK, CtrlInv, TagInv, Start, NEW m \in Methods
  PROVE  Balanced(m)'
<1>1. /\ ~started_ /\ events = <<>> /\ threw = {} /\ requests[m] = 0
      /\ service_map_[m] = "handle" <=> regs[m[1]] = 1
  BY DEF Start, CtrlInv, TagInv
<1>2. Count(<<>>, m) = 0
  <2>1. Of(<<>>, m) = {}
    BY DEF Of
  <2>. QED  BY <2>1, FS_EmptySet DEF Count
<1>3. /\ requests'[m] = 0 /\ events' = <<>> /\ Held(m)' = 0 /\ threw' = {}
      /\ regs0' = regs /\ (m \in todo' <=> regs[m[1]] = 1)
  BY <1>1 DEF Start, Held, Goto
<1>. QED  BY <1>2, <1>3 DEF Balanced, Todo, Due

LEMMA BalanceStep ==
  ASSUME TypeOK, TypeOK', CtrlInv, TagInv, [Next]_vars, started_, ~shutdown_',
         NEW m \in Methods
  PROVE  Balanced(m)'
<1>1. shutdown_ => shutdown_'
  BY DEF Next, RunStep, ShutdownStep, RegisterService, Run, Start, Request, Poll,
         CallMethod, HandlerThrows, CallMethodKeeps, Renew, ShutdownBegins,
         ShutdownNotify, ShutdownQueue, CallArrives, CallMatches, CallFinishes,
         RequestFails, ServerStopped, Done, coreKeeps, vars
<1>2. ~shutdown_ /\ Balanced(m) /\ Up /\ ~stopping /\ pc_shut = "idle"
  BY <1>1 DEF TagInv, CtrlInv, AssertsHold
<1>3. /\ requests[m] \in Nat /\ Count(events, m) \in Nat /\ requests \in [Methods -> Nat]
  BY CountTypes DEF TypeOK
<1>4. ASSUME UNCHANGED <<requests, events, todo, regs0, threw>>, Held(m)' = Held(m)
      PROVE  Balanced(m)'
  BY <1>2, <1>4 DEF Balanced, Todo, Due
<1>5. ASSUME NEW s \in Services, RegisterService(s) PROVE Balanced(m)'
  BY <1>4, <1>5 DEF RegisterService, core, Held
<1>6. CASE Run
  BY <1>4, <1>6 DEF Run, core, history, Held, Goto
<1>7. CASE Start
  BY <1>7 DEF Start, CtrlInv
<1>8. CASE Request
  <2>1. ASSUME NEW n \in todo, RequestCall(n), todo' = todo \ {n}, UNCHANGED pc
        PROVE  Balanced(m)'
    <3>1. n \in Methods
      BY <2>1 DEF TypeOK
    <3>2. requests' = [requests EXCEPT ![n] = @ + 1] /\ UNCHANGED events
      BY <1>2, <2>1, <3>1, RequestTaken
    <3>3. UNCHANGED <<regs0, threw>> /\ Held(m)' = Held(m)
      BY <1>8, <2>1 DEF Request, history, Held
    <3>4. Held(m) \in Nat /\ Due(m) \in Nat
      BY DEF Held, Due
    <3>5. CASE n = m
      <4>1. requests'[m] = requests[m] + 1 /\ Todo(m) = 1 /\ Todo(m)' = 0
        BY <1>3, <2>1, <3>1, <3>2, <3>5 DEF Todo
      <4>2. Due(m)' = Due(m) /\ Count(events, m)' = Count(events, m)
        BY <3>2, <3>3 DEF Due
      <4>. QED  BY <1>2, <1>3, <3>3, <3>4, <4>1, <4>2 DEF Balanced
    <3>6. CASE n # m
      <4>1. requests'[m] = requests[m] /\ Todo(m)' = Todo(m)
        BY <1>3, <2>1, <3>1, <3>2, <3>6 DEF Todo
      <4>2. Due(m)' = Due(m) /\ Count(events, m)' = Count(events, m)
        BY <3>2, <3>3 DEF Due
      <4>. QED  BY <1>2, <3>3, <4>1, <4>2 DEF Balanced
    <3>. QED  BY <3>5, <3>6
  <2>2. ASSUME UNCHANGED <<todo, requests, events, process>>, Goto("poll")
        PROVE  Balanced(m)'
    BY <1>4, <1>8, <2>2 DEF Request, history, Held, Goto
  <2>. QED  BY <1>8, <2>1, <2>2 DEF Request
<1>9. CASE Poll
  <2>1. CASE events = <<>>
    BY <1>4, <1>9, <2>1 DEF Poll, history, Held, Goto
  <2>2. CASE events # <<>>
    <3>1. /\ events \in Seq(Events) /\ tag' = Head(events) /\ events' = Tail(events)
          /\ pc = "poll" /\ UNCHANGED <<requests, todo, regs0, threw>>
      BY <1>9, <2>2 DEF Poll, TypeOK, history
    <3>2. Head(events) = events[1] /\ 1 \in DOMAIN events
      BY <2>2, <3>1, HeadTailProperties, EmptySeq
    <3>3. tag'.method # NoMethod
      BY <1>2, <3>1, <3>2 DEF CtrlInv
    <3>4. pc' \in {"call", "renew"}
      BY <1>9, <2>2, <3>3 DEF Poll, Goto
    <3>5. Count(events, m) = Count(events', m) + (IF Head(events).method = m THEN 1 ELSE 0)
      BY <2>2, <3>1, CountTail
    <3>6. Held(m) = 0 /\ Held(m)' = (IF Head(events).method = m THEN 1 ELSE 0)
      BY <3>1, <3>4 DEF Held
    <3>7. Todo(m)' = Todo(m) /\ Due(m)' = Due(m) /\ requests'[m] = requests[m]
      BY <3>1 DEF Todo, Due
    <3>8. Count(events', m) \in Nat /\ Todo(m) \in Nat
      BY OfFinite DEF TypeOK, Todo
    <3>9. requests[m] + Count(events', m) + Held(m)' + Todo(m) = Due(m)
      BY <1>2, <1>3, <3>5, <3>6, <3>8 DEF Balanced
    <3>. QED  BY <3>7, <3>9 DEF Balanced, Count, Of
  <2>. QED  BY <2>1, <2>2
<1>10. CASE CallMethod
  BY <1>4, <1>10 DEF CallMethod, CallMethodKeeps, Held, Goto
<1>11. CASE HandlerThrows
  <2>1. /\ UNCHANGED <<requests, events, todo, regs0, tag>> /\ pc = "call" /\ pc' = "idle"
        /\ threw' = threw \cup {tag.method}
    BY <1>11 DEF HandlerThrows, CallMethodKeeps, Goto
  <2>2. Held(m)' = 0 /\ Todo(m) \in Nat /\ Todo(m)' = Todo(m) /\ requests'[m] = requests[m]
    BY <2>1 DEF Held, Todo
  <2>3. Count(events, m)' = Count(events, m)
    BY <2>1
  <2>4. CASE tag.method = m
    <3>1. Held(m) = 1 /\ Due(m)' = 0 /\ Due(m) \in {0, 1}
      BY <2>1, <2>4 DEF Held, Due
    <3>. QED  BY <1>2, <1>3, <2>2, <2>3, <3>1 DEF Balanced
  <2>5. CASE tag.method # m
    <3>1. Held(m) = 0 /\ Due(m)' = Due(m)
      BY <2>1, <2>5 DEF Held, Due
    <3>. QED  BY <1>2, <1>3, <2>2, <2>3, <3>1 DEF Balanced
  <2>. QED  BY <2>4, <2>5
<1>12. CASE Renew
  <2>1. /\ tag.method \in Methods /\ RequestCall(tag.method) /\ pc = "renew" /\ pc' = "idle"
        /\ UNCHANGED <<todo, tag, regs0, threw>>
    BY <1>12 DEF Renew, CtrlInv, TagOk, Goto, history
  <2>2. requests' = [requests EXCEPT ![tag.method] = @ + 1] /\ UNCHANGED events
    BY <1>2, <2>1, RequestTaken
  <2>3. /\ Held(m) = (IF tag.method = m THEN 1 ELSE 0) /\ Held(m)' = 0
        /\ Todo(m) \in Nat /\ Todo(m)' = Todo(m) /\ Due(m)' = Due(m)
    BY <2>1 DEF Held, Todo, Due
  <2>4. requests'[m] = requests[m] + Held(m)
    BY <1>3, <2>1, <2>2, <2>3
  <2>5. Count(events, m)' = Count(events, m)
    BY <2>2
  <2>. QED  BY <1>2, <1>3, <2>3, <2>4, <2>5 DEF Balanced
<1>13. CASE ShutdownBegins
  BY <1>13 DEF ShutdownBegins
<1>14. CASE ShutdownNotify \/ ShutdownQueue
  BY <1>2, <1>14 DEF ShutdownNotify, ShutdownQueue
<1>15. ASSUME NEW n \in Methods, CallArrives(n) PROVE Balanced(m)'
  BY <1>4, <1>15 DEF CallArrives, coreKeeps, Held
<1>16. ASSUME NEW n \in Methods, CallMatches(n) PROVE Balanced(m)'
  <2>1. PICK b \in BOOLEAN : events' = Append(events, CallEvent(n, b))
    BY <1>16 DEF CallMatches
  <2>2. /\ requests' = [requests EXCEPT ![n] = @ - 1]
        /\ UNCHANGED <<pc, tag, todo, regs0, threw>>
    BY <1>16 DEF CallMatches, coreKeeps, history
  <2>3. CallEvent(n, b) \in Events /\ CallEvent(n, b).method = n
    BY EventTypes DEF CallEvent
  <2>4. Count(events', m) = Count(events, m) + (IF n = m THEN 1 ELSE 0)
    <3>1. events \in Seq(Events)
      BY DEF TypeOK
    <3>. QED  BY <2>1, <2>3, <3>1, CountAppend
  <2>5. requests'[m] = requests[m] - (IF n = m THEN 1 ELSE 0)
    BY <1>3, <2>2
  <2>6. /\ Held(m)' = Held(m) /\ Todo(m)' = Todo(m) /\ Due(m)' = Due(m)
        /\ Held(m) \in Nat /\ Todo(m) \in Nat /\ Due(m) \in Nat
    BY <2>2 DEF Held, Todo, Due
  <2>7. requests'[m] + Count(events', m) = requests[m] + Count(events, m)
    BY <1>3, <2>4, <2>5
  <2>8. requests'[m] \in Int /\ Count(events', m) \in Int
    BY <1>3, <2>4, <2>5
  <2>9. requests'[m] + Count(events', m) + Held(m) + Todo(m) = Due(m)
    BY <1>2, <1>3, <2>6, <2>7, <2>8 DEF Balanced
  <2>. QED  BY <2>6, <2>9 DEF Balanced, Count, Of
<1>17. ASSUME NEW n \in Methods, RequestFails(n) PROVE Balanced(m)'
  BY <1>2, <1>17 DEF RequestFails
<1>18. CASE CallFinishes
  BY <1>4, <1>18 DEF CallFinishes, coreKeeps, history, Held
<1>19. CASE ServerStopped
  BY <1>2, <1>19 DEF ServerStopped
<1>20. CASE UNCHANGED vars
  BY <1>4, <1>20 DEF vars, core, history, Held
<1>. QED
  BY <1>5, <1>6, <1>7, <1>8, <1>9, <1>10, <1>11, <1>12, <1>13, <1>14, <1>15, <1>16,
     <1>17, <1>18, <1>19, <1>20 DEF Next, RunStep, ShutdownStep, Done

LEMMA QuietBeforeStart ==
  ASSUME TypeOK, CtrlInv, TagInv, [Next]_vars, ~started_'
  PROVE  /\ events' = <<>> /\ threw' = {}
         /\ \A m \in Methods :
              requests'[m] = 0 /\ (service_map_'[m] = "handle" <=> regs'[m[1]] = 1)
<1>1. started_ => started_'
  BY DEF Next, RunStep, ShutdownStep, RegisterService, Run, Start, Request, Poll,
         CallMethod, HandlerThrows, CallMethodKeeps, Renew, ShutdownBegins,
         ShutdownNotify, ShutdownQueue, CallArrives, CallMatches, CallFinishes,
         RequestFails, ServerStopped, Done, coreKeeps, vars
<1>2. /\ ~started_ /\ ~shutdown_ /\ ~stopping /\ pc_shut = "idle"
      /\ pc \in {"idle", "start"}
      /\ events = <<>> /\ threw = {}
      /\ \A m \in Methods :
           requests[m] = 0 /\ (service_map_[m] = "handle" <=> regs[m[1]] = 1)
  <2>1. ~started_
    BY <1>1
  <2>2. ~shutdown_ /\ ~stopping /\ pc_shut = "idle"
    BY <2>1 DEF CtrlInv
  <2>3. pc \in {"idle", "start"}
    BY <2>1 DEF CtrlInv, TypeOK
  <2>. QED  BY <2>1, <2>2, <2>3 DEF TagInv
<1>3. ASSUME UNCHANGED <<events, threw, requests, service_map_, regs>>
      PROVE  /\ events' = <<>> /\ threw' = {}
             /\ \A m \in Methods :
                  requests'[m] = 0 /\ (service_map_'[m] = "handle" <=> regs'[m[1]] = 1)
  BY <1>2, <1>3
<1>4. ASSUME NEW s \in Services, RegisterService(s)
      PROVE  /\ events' = <<>> /\ threw' = {}
             /\ \A m \in Methods :
                  requests'[m] = 0 /\ (service_map_'[m] = "handle" <=> regs'[m[1]] = 1)
  <2>1. UNCHANGED <<events, threw, requests>>
    BY <1>4 DEF RegisterService, core
  <2>2. ASSUME NEW m \in Methods
        PROVE  service_map_'[m] = "handle" <=> regs'[m[1]] = 1
    <3>1. m[1] \in Services /\ regs \in [Services -> Nat]
      BY DEF Methods, TypeOK
    <3>2. regs' = [regs EXCEPT ![s] = @ + 1]
      BY <1>4 DEF RegisterService
    <3>3. service_map_'[m] = IF m[1] # s THEN service_map_[m]
                             ELSE IF regs[s] = 0 THEN "handle" ELSE "null"
      BY <1>4 DEF RegisterService
    <3>4. CASE m[1] = s
      <4>1. regs'[m[1]] = regs[s] + 1 /\ regs[s] \in Nat
        BY <3>1, <3>2, <3>4
      <4>. QED  BY <3>3, <3>4, <4>1
    <3>5. CASE m[1] # s
      <4>1. regs'[m[1]] = regs[m[1]]
        BY <3>1, <3>2, <3>5
      <4>. QED  BY <1>2, <3>3, <3>5, <4>1
    <3>. QED  BY <3>4, <3>5
  <2>. QED  BY <1>2, <2>1, <2>2
<1>5. CASE Run
  BY <1>3, <1>5 DEF Run, core, history
<1>6. CASE \E n \in Methods : CallArrives(n)
  BY <1>3, <1>6 DEF CallArrives, coreKeeps
<1>7. CASE CallFinishes
  BY <1>3, <1>7 DEF CallFinishes, coreKeeps, history
<1>8. CASE UNCHANGED vars
  BY <1>3, <1>8 DEF vars, core, history
<1>9. ~Start /\ ~Request /\ ~Poll /\ ~CallMethod /\ ~HandlerThrows /\ ~Renew
  BY <1>2 DEF Start, Request, Poll, CallMethod, HandlerThrows, Renew
<1>10. ~ShutdownBegins /\ ~ShutdownNotify /\ ~ShutdownQueue /\ ~ServerStopped
  BY <1>2 DEF ShutdownBegins, ShutdownNotify, ShutdownQueue, ServerStopped
<1>11. ASSUME NEW n \in Methods PROVE ~CallMatches(n) /\ ~RequestFails(n)
  <2>1. requests[n] = 0 /\ ~stopping
    BY <1>2
  <2>2. ~(requests[n] > 0)
    BY <2>1
  <2>. QED  BY <2>1, <2>2 DEF CallMatches, RequestFails
<1>. QED
  BY <1>4, <1>5, <1>6, <1>7, <1>8, <1>9, <1>10, <1>11 DEF Next, RunStep, ShutdownStep, Done

LEMMA TagStep ==
  ASSUME TypeOK, TypeOK', CtrlInv, TagInv, [Next]_vars
  PROVE  TagInv'
<1>1. ASSUME started_', ~shutdown_', NEW m \in Methods PROVE Balanced(m)'
  <2>1. CASE started_
    BY <1>1, <2>1, BalanceStep
  <2>2. CASE ~started_
    <3>1. Start
      BY <1>1, <2>2
      DEF Next, RunStep, ShutdownStep, RegisterService, Run, Request, Poll, CallMethod,
          HandlerThrows, CallMethodKeeps, Renew, ShutdownBegins, ShutdownNotify,
          ShutdownQueue, CallArrives, CallMatches, CallFinishes, RequestFails,
          ServerStopped, Done, coreKeeps, vars
    <3>. QED  BY <3>1, FirstBalance
  <2>. QED  BY <2>1, <2>2
<1>. QED  BY <1>1, QuietBeforeStart DEF TagInv

LEMMA InitInv == Init => TypeOK /\ CtrlInv /\ TagInv
<1>. SUFFICES ASSUME Init PROVE TypeOK /\ CtrlInv /\ TagInv
  OBVIOUS
<1>1. CtrlInv
  BY DEF Init, CtrlInv, TagOk, AssertsHold, Up
<1>2. TagInv
  <2>1. \A m \in Methods : m[1] \in Services
    BY DEF Methods
  <2>. QED  BY <2>1 DEF Init, TagInv
<1>. QED  BY <1>1, <1>2, InitTypes

\* A server that was not shut down keeps one request of each method out, whatever
\* becomes of its calls, unless its handler raised an error, or its service was
\* not registered exactly once before the start.
THEOREM OneRequestEach == SafeSpec => []StaysRequested
<1>1. TypeOK /\ CtrlInv /\ TagInv /\ [Next]_vars => (TypeOK /\ CtrlInv /\ TagInv)'
  BY TypeStep, CtrlStep, TagStep DEF CtrlInv
<1>2. TypeOK /\ CtrlInv /\ TagInv => StaysRequested
  <2>. SUFFICES ASSUME TypeOK, CtrlInv, TagInv, pc \notin {"start", "request"},
                       started_, ~shutdown_, NEW m \in Methods
                PROVE  Tags(m) = Due(m)
    BY DEF StaysRequested, Due
  <2>1. Balanced(m) /\ Todo(m) = 0
    BY DEF TagInv, CtrlInv, Todo
  <2>2. requests[m] \in Nat /\ Count(events, m) \in Nat /\ Held(m) \in Nat
    BY CountTypes DEF Held
  <2>3. requests[m] + Count(events, m) + Held(m) = Due(m)
    BY <2>1, <2>2 DEF Balanced
  <2>. QED  BY <2>3 DEF Tags, Count, Of, Held
<1>. QED  BY <1>1, <1>2, InitInv, PTL DEF SafeSpec
===============================================================================
