---------------------------- MODULE MCServerWriter ----------------------------
(* Instances of ServerWriter for TLC. *)
EXTENDS ServerWriter, TLC

CONSTANTS t1, t2, cq

\* Every operation, between two application threads; the completion queue
\* thread, which runs the Lua handlers, writes and closes without blocking.
AllCalls ==
  (cq :> {"AsyncWrite", "AsyncClose"})
    @@ (t1 :> {"Write", "AsyncWrite", "SyncClose", "SetHighQueueSize"})
    @@ (t2 :> {"Write", "SyncWrite", "SyncClose"})

\* Two threads use the blocking operations.
SyncCalls ==
  (cq :> {"AsyncWrite"}) @@ (t1 :> {"SyncWrite", "SyncClose"})
    @@ (t2 :> {"Write", "SyncClose"})
=============================================================================
