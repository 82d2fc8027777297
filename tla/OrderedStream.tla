---------------------------- MODULE OrderedStream ----------------------------
(***************************************************************************)
(* What a streaming writer of this library promises to its callers, on the *)
(* server (ServerWriter) and on the client (ClientAsyncWriter): messages   *)
(* it accepted go to the transport in the order of acceptance, each once;  *)
(* after a close nothing more is accepted, and the end marker (a status on *)
(* the server, a half-close on the client) goes out after the last         *)
(* accepted message.  The transport may break at any moment; after that    *)
(* nothing goes out any more.                                              *)
(***************************************************************************)
EXTENDS Naturals, Sequences

CONSTANTS Msg,      \* what can be written
          Status,   \* what a stream can be closed with
          NoStatus  \* "not closed" and "end marker not sent", not a status

VARIABLES accepted, \* messages accepted, in order of acceptance
          sent,     \* messages handed to the transport, in that order
          closing,  \* the status the stream was closed with
          ended,    \* the status that went out
          broken    \* the transport refused or failed a batch

vars == <<accepted, sent, closing, ended, broken>>

TypeOK ==
  /\ accepted \in Seq(Msg)
  /\ sent \in Seq(Msg)
  /\ closing \in Status \cup {NoStatus}
  /\ ended \in Status \cup {NoStatus}
  /\ broken \in BOOLEAN

Init ==
  /\ accepted = <<>>
  /\ sent = <<>>
  /\ closing = NoStatus
  /\ ended = NoStatus
  /\ broken \in BOOLEAN

Usable == ~broken /\ ended = NoStatus

\* Accept a message; an idle stream hands it over at once.
Accept(m) ==
  /\ Usable /\ closing = NoStatus
  /\ accepted' = Append(accepted, m)
  /\ \/ sent' = sent
     \/ sent = accepted /\ sent' = accepted'
  /\ UNCHANGED <<closing, ended, broken>>

Send ==
  /\ Usable /\ Len(sent) < Len(accepted)
  /\ sent' = Append(sent, accepted[Len(sent) + 1])
  /\ UNCHANGED <<accepted, closing, ended, broken>>

\* Close; an idle stream sends the end marker at once, or breaks doing so.
Close(s) ==
  /\ closing = NoStatus
  /\ closing' = s
  /\ \/ UNCHANGED <<ended, broken>>
     \/ Usable /\ sent = accepted /\ ended' = s /\ UNCHANGED broken
     \/ broken' = TRUE /\ UNCHANGED ended
  /\ UNCHANGED <<accepted, sent>>

End ==
  /\ Usable /\ closing # NoStatus /\ sent = accepted
  /\ ended' = closing
  /\ UNCHANGED <<accepted, sent, closing, broken>>

Break ==
  /\ broken' = TRUE
  /\ UNCHANGED <<accepted, sent, closing, ended>>

Next ==
  \/ \E m \in Msg : Accept(m)
  \/ Send
  \/ \E s \in Status : Close(s)
  \/ End
  \/ Break

SafeSpec == Init /\ [][Next]_vars

\* The stream does not rest while something accepted has not gone out.
Spec == SafeSpec /\ WF_vars(Send \/ End)
==============================================================================
