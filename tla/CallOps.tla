-------------------------------- MODULE CallOps --------------------------------
(***************************************************************************)
(* The batches of operations that the tags of this library start on a      *)
(* call: each is the set of kinds its Start() puts into CallOperations,    *)
(* and grpc core's rule on which of them it takes.                         *)
(***************************************************************************)

\* CallOperations, one operation each
SendInitMd == {"send_initial_metadata"}
SendMsg == {"send_message"}
RecvInitMd == {"recv_initial_metadata"}
RecvMsg == {"recv_message"}
ClientSendClose == {"send_close_from_client"}
ClientRecvStatus == {"recv_status_on_client"}

\* The tags of the blocking clients
ClientSendInitMdTag == SendInitMd
ClientSendMsgTag == SendMsg
ClientSendCloseTag == ClientSendClose
ClientRecvInitMdTag == RecvInitMd
ClientReaderReadTag == RecvMsg
ClientReaderRecvStatusTag == ClientRecvStatus
ClientReaderInitTag == SendMsg \cup SendInitMd \cup RecvInitMd \cup ClientSendClose
\* Fault: the batch waits for the answer without ending the stream.
ClientWriterCloseTag_Open == RecvInitMd \cup RecvMsg \cup ClientRecvStatus
\* Fault: the batch does not receive the answer.
ClientWriterCloseTag_NoMsg == ClientSendClose \cup RecvInitMd \cup ClientRecvStatus
ClientWriterCloseTag == ClientSendClose \cup RecvInitMd \cup RecvMsg \cup ClientRecvStatus
ClientCallTag == SendMsg \cup SendInitMd \cup RecvInitMd \cup RecvMsg
                   \cup ClientSendClose \cup ClientRecvStatus

\* Messages are sent and received many times, anything else once for a call.
Repeatable == SendMsg \cup RecvMsg
IsRefused(used, ops) == (ops \ Repeatable) \cap used # {}

===============================================================================
