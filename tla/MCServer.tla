-------------------------------- MODULE MCServer --------------------------------
(* Two services of one method each, the first with a stream of requests. *)
EXTENDS Server

CONSTANTS s, t

TwoServices == {s, t}
Streams == {<<s, 1>>}
===============================================================================
