---------------------- MODULE MCClientAsyncReaderWriter ----------------------
(* Instances of ClientAsyncReaderWriter for TLC. *)
EXTENDS ClientAsyncReaderWriter

\* Anyone may call anything, but for SetErrorStatus() in a status callback that
\* is told the normal end: it would be called again before it is reset.
Reentrant == [w \in Callers |-> IF w = "end" THEN Ops \ {"SetErrorStatus"} ELSE Ops]
==============================================================================
