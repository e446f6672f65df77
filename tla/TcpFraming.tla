----------------------------- MODULE TcpFraming -----------------------------
(***************************************************************************)
(* The framed messages of labs/tcp_framing: the client and the server      *)
(* program (client_main.c, server_main.c) over message_io.c, stream_io.c,  *)
(* tcp_client.c and tcp_server.c, joined by one TCP connection.  Both send *)
(* and receive a given number of messages, one in the two programs and     *)
(* several in tests/test_tcp_integration.c.                                *)
(*                                                                         *)
(* The connection carries cells: a field of the header is one cell, and so *)
(* is a byte of the payload.  A send or recv moves any number of cells     *)
(* that fits, and can fail at any time.                                    *)
(***************************************************************************)
EXTENDS Naturals, Sequences, SequencesExt

CONSTANTS
  Scripts,                    \* what the two sides do
  MESSAGE_MAX_PAYLOAD_SIZE,   \* scaled down, like the buffers
  PayloadBufferSize,          \* the buffer given to message_receive
  SocketBuffer,               \* cells the connection holds
  NetworkFaults               \* calls that may fail

MESSAGE_MAGIC == 9
MESSAGE_PROTOCOL_VERSION == 1
MESSAGE_TYPE_TEXT == 1
MESSAGE_TYPE_PING == 2
MESSAGE_HEADER_SIZE == 5

(* A message and everything a peer may say of it.  The client of this      *)
(* repository gives only the type and the payload.                         *)
Frame ==
  [magic : Nat, version : Nat, type : Nat, reserved : Nat, payload_length : Nat,
   payload : Seq(Nat)]

message(type, payload) ==
  [magic |-> MESSAGE_MAGIC, version |-> MESSAGE_PROTOCOL_VERSION, type |-> type,
   reserved |-> 0, payload_length |-> Len(payload), payload |-> payload]

NetworkFaultKinds == {"socket", "bind", "connect", "accept", "send", "recv", "close", "kill"}

(* foreign: the client is another program, which writes its frames as they *)
(* are.  It may cut the last one short.                                    *)
Script ==
  [sends : Seq(Frame), receives : Nat \ {0}, foreign : BOOLEAN]

ASSUME SizesAssumption ==
  {MESSAGE_MAX_PAYLOAD_SIZE, PayloadBufferSize} \subseteq Nat /\ SocketBuffer \in Nat \ {0}
ASSUME NetworkFaultsAssumption == NetworkFaults \subseteq NetworkFaultKinds
ASSUME ScriptsAssumption ==
  \A s \in Scripts :
    /\ s \in Script
    /\ \A i \in DOMAIN s.sends :
         LET f == s.sends[i] IN
         /\ i < Len(s.sends) => f.payload_length = Len(f.payload)
         /\ Len(f.payload) <= f.payload_length
         /\ ~s.foreign => f = message(f.type, f.payload)

VARIABLES
  script,
  client, server,              \* the next step of the two programs
  client_failed, server_failed,\* operation_failed
  descriptors,                 \* open ones: "listen", "accepted", "client"
  connection,                  \* "none", "pending" until the accept, "accepted"
  stream,                      \* cells sent and not yet received
  outgoing,                    \* what send_all still has to send
  sent_count,                  \* messages that send_all has sent
  incoming,                    \* what recv_exact has got so far
  header, received,            \* the decoded header; the messages given out
  faulted                      \* history: a call failed

senderVars == <<client, client_failed, outgoing, sent_count>>
receiverVars == <<server, server_failed, incoming, header, received>>
framingVars == <<script, senderVars, receiverVars, descriptors, connection, stream, faulted>>

FramingInit ==
  /\ script \in Scripts
  /\ client = "connect" /\ server = "create"
  /\ client_failed = FALSE /\ server_failed = FALSE
  /\ descriptors = {} /\ connection = "none"
  /\ stream = <<>> /\ outgoing = <<>> /\ sent_count = 0
  /\ incoming = <<>> /\ header = <<>> /\ received = <<>>
  /\ faulted = FALSE

Fault(kind) == kind \in NetworkFaults /\ faulted' = TRUE

-----------------------------------------------------------------------------
(* The header (message.c). *)

TypeIsValid(type) == type \in {MESSAGE_TYPE_TEXT, MESSAGE_TYPE_PING}

message_encode_header(f) == <<f.magic, f.version, f.type, f.reserved, f.payload_length>>

EncodeError(f) ==
  CASE ~TypeIsValid(f.type) -> "EINVAL"
    [] TypeIsValid(f.type) /\ f.payload_length > MESSAGE_MAX_PAYLOAD_SIZE -> "EMSGSIZE"
    [] OTHER -> "0"

(* message_decode_header: its error for five cells, in the order of its    *)
(* checks.                                                                 *)
DecodeError(cells) ==
  IF cells[1] # MESSAGE_MAGIC THEN "EBADMSG"
  ELSE IF cells[2] # MESSAGE_PROTOCOL_VERSION THEN "EPROTONOSUPPORT"
  ELSE IF ~TypeIsValid(cells[3]) \/ cells[4] # 0 THEN "EBADMSG"
  ELSE IF cells[5] > MESSAGE_MAX_PAYLOAD_SIZE THEN "EMSGSIZE" ELSE "0"

message_decode_header(cells) == [type |-> cells[3], payload_length |-> cells[5]]

-----------------------------------------------------------------------------
(* The client. *)

(* tcp_client_connect: without a listening server it is refused, and the   *)
(* socket is closed again.                                                 *)
Connect ==
  /\ client = "connect"
  /\ \/ /\ "listen" \in descriptors
        /\ descriptors' = descriptors \cup {"client"} /\ connection' = "pending"
        /\ client' = "send" /\ UNCHANGED <<client_failed, faulted>>
     \/ /\ client' = "exited" /\ client_failed' = TRUE
        /\ UNCHANGED <<descriptors, connection>>
        /\ \/ "listen" \notin descriptors /\ UNCHANGED faulted
           \/ Fault("socket") \/ Fault("connect")
  /\ UNCHANGED <<script, outgoing, sent_count, receiverVars, stream>>

(* message_send: header and payload go to send_all one after the other; a  *)
(* message that cannot be encoded is refused before a cell is sent.        *)
MessageSend ==
  LET f == script.sends[sent_count + 1] IN
  /\ client = "send"
  /\ \/ /\ sent_count = Len(script.sends)
        /\ client' = "close" /\ UNCHANGED <<outgoing, client_failed>>
     \/ /\ sent_count < Len(script.sends) /\ ~script.foreign /\ EncodeError(f) # "0"
        /\ client' = "close" /\ client_failed' = TRUE /\ UNCHANGED outgoing
     \/ /\ sent_count < Len(script.sends) /\ (script.foreign \/ EncodeError(f) = "0")
        /\ outgoing' = message_encode_header(f) \o f.payload
        /\ client' = "send_all" /\ UNCHANGED client_failed
  /\ UNCHANGED <<script, sent_count, receiverVars, descriptors, connection, stream, faulted>>

(* With these descriptors, can the server get what is sent? *)
Reachable(open) ==
  "accepted" \in open \/ (connection = "pending" /\ "listen" \in open)

ServerReachable == Reachable(descriptors)

SendFails ==
  /\ client' = "close" /\ client_failed' = TRUE /\ outgoing' = <<>>
  /\ UNCHANGED <<stream, sent_count>>

(* One turn of send_all: some of what is left goes out; send waits for     *)
(* room.  Once the server has closed, send fails, or what it takes is lost.*)
SendAll ==
  /\ client = "send_all"
  /\ \/ \E n \in 1 .. Len(outgoing) :
          /\ ServerReachable => Len(stream) + n <= SocketBuffer
          /\ stream' = IF ServerReachable THEN stream \o SubSeq(outgoing, 1, n) ELSE stream
          /\ outgoing' = SubSeq(outgoing, n + 1, Len(outgoing))
          /\ IF n = Len(outgoing) THEN client' = "send" /\ sent_count' = sent_count + 1
             ELSE UNCHANGED <<client, sent_count>>
          /\ UNCHANGED <<client_failed, faulted>>
     \/ ~ServerReachable /\ SendFails /\ UNCHANGED faulted
  /\ UNCHANGED <<script, receiverVars, descriptors, connection>>

SendError ==
  /\ client = "send_all" /\ Fault("send") /\ SendFails
  /\ UNCHANGED <<script, receiverVars, descriptors, connection>>

ClientClose ==
  /\ client = "close"
  /\ descriptors' = descriptors \ {"client"}
  /\ client' = "exited"
  /\ \/ UNCHANGED <<client_failed, faulted>>
     \/ client_failed' = TRUE /\ Fault("close")
  /\ UNCHANGED <<script, outgoing, sent_count, receiverVars, connection, stream>>

(* The client is killed: the system closes its end of the connection.      *)
ClientKilled ==
  /\ client \in {"send", "send_all", "close"} /\ Fault("kill")
  /\ descriptors' = descriptors \ {"client"}
  /\ client' = "exited" /\ client_failed' = TRUE /\ outgoing' = <<>>
  /\ UNCHANGED <<script, sent_count, receiverVars, connection, stream>>

-----------------------------------------------------------------------------
(* The server. *)

(* tcp_server_create: when an option, the address or listen fails the      *)
(* socket is closed again.                                                 *)
Create ==
  /\ server = "create"
  /\ \/ /\ descriptors' = descriptors \cup {"listen"} /\ server' = "accept"
        /\ UNCHANGED <<server_failed, faulted>>
     \/ /\ server' = "exited" /\ server_failed' = TRUE /\ UNCHANGED descriptors
        /\ Fault("socket") \/ Fault("bind")
  /\ UNCHANGED <<script, senderVars, incoming, header, received, connection, stream>>

(* tcp_server_accept waits for a client. *)
Accept ==
  /\ server = "accept"
  /\ connection = "pending" /\ connection' = "accepted"
  /\ descriptors' = descriptors \cup {"accepted"} /\ server' = "receive"
  /\ UNCHANGED <<script, senderVars, server_failed, faulted, incoming, header, received, stream>>

(* Seeded fault: a server without a client forgets to stop listening. *)
ExitListening ==
  /\ server = "accept" /\ Fault("accept")
  /\ server' = "exited" /\ server_failed' = TRUE
  /\ UNCHANGED <<script, senderVars, descriptors, connection, incoming, header, received, stream>>

(* When it fails the server is done. *)
AcceptError ==
  /\ server = "accept" /\ Fault("accept")
  /\ server' = "close_server" /\ server_failed' = TRUE
  /\ UNCHANGED <<script, senderVars, descriptors, connection, incoming, header, received, stream>>

ReceiveFails ==
  /\ server' = "close_client" /\ server_failed' = TRUE
  /\ incoming' = <<>> /\ header' = <<>> /\ UNCHANGED received

(* How many cells the current recv_exact is for: the header, then payload. *)
Wanted == IF header = <<>> THEN MESSAGE_HEADER_SIZE ELSE header.payload_length

(* Seeded fault: whatever one recv returns is taken for the payload. *)
PayloadInOneRecv ==
  IF header = <<>> THEN Len(incoming) = Wanted ELSE incoming # <<>> \/ Wanted = 0

RecvDone == Len(incoming) = Wanted

(* Seeded fault: the end of the stream is taken for an interruption. *)
RetryAtEnd ==
  /\ server = "receive" /\ ~RecvDone
  /\ \E n \in 1 .. (Wanted - Len(incoming)) :
       /\ n <= Len(stream)
       /\ incoming' = incoming \o SubSeq(stream, 1, n)
       /\ stream' = SubSeq(stream, n + 1, Len(stream))
  /\ UNCHANGED <<server, server_failed, header, received, faulted>>
  /\ UNCHANGED <<script, senderVars, descriptors, connection>>

(* One turn of recv_exact: some of what is there, at most what is wanted.  *)
(* When the client has closed and nothing is left, it is ECONNRESET.       *)
RecvExact ==
  /\ server = "receive" /\ ~RecvDone
  /\ \/ \E n \in 1 .. (Wanted - Len(incoming)) :
          /\ n <= Len(stream)
          /\ incoming' = incoming \o SubSeq(stream, 1, n)
          /\ stream' = SubSeq(stream, n + 1, Len(stream))
          /\ UNCHANGED <<server, server_failed, header, received, faulted>>
     \/ /\ stream = <<>> /\ "client" \notin descriptors
        /\ ReceiveFails /\ UNCHANGED <<stream, faulted>>
  /\ UNCHANGED <<script, senderVars, descriptors, connection>>

RecvError ==
  /\ server = "receive" /\ ~RecvDone /\ Fault("recv") /\ ReceiveFails
  /\ UNCHANGED <<script, senderVars, descriptors, connection, stream>>

(* Between the two reads of message_receive: the header is decoded and its *)
(* length compared with the caller's buffer.                               *)
DecodeHeader ==
  /\ server = "receive" /\ header = <<>> /\ RecvDone
  /\ \/ /\ \/ DecodeError(incoming) # "0"
           \/ message_decode_header(incoming).payload_length > PayloadBufferSize
        /\ ReceiveFails
     \/ /\ DecodeError(incoming) = "0"
        /\ message_decode_header(incoming).payload_length <= PayloadBufferSize
        /\ header' = message_decode_header(incoming) /\ incoming' = <<>>
        /\ UNCHANGED <<server, server_failed, received>>
  /\ UNCHANGED <<script, senderVars, descriptors, connection, stream, faulted>>

(* Seeded fault: any type of message will do. *)
PublishAnyType ==
  /\ server = "receive" /\ header # <<>> /\ RecvDone
  /\ received' = Append(received, message(header.type, incoming))
  /\ header' = <<>> /\ incoming' = <<>>
  /\ server' = IF Len(received') = script.receives THEN "close_client" ELSE "receive"
  /\ UNCHANGED <<script, senderVars, descriptors, connection, stream, faulted, server_failed>>

(* message_receive returns the message: only now the caller sees it.  The  *)
(* server program takes only text.                                         *)
Publish ==
  /\ server = "receive" /\ header # <<>> /\ RecvDone
  /\ received' = Append(received, message(header.type, incoming))
  /\ header' = <<>> /\ incoming' = <<>>
  /\ \/ /\ header.type # MESSAGE_TYPE_TEXT
        /\ server' = "close_client" /\ server_failed' = TRUE
     \/ /\ header.type = MESSAGE_TYPE_TEXT
        /\ server' = IF Len(received') = script.receives THEN "close_client" ELSE "receive"
        /\ UNCHANGED server_failed
  /\ UNCHANGED <<script, senderVars, descriptors, connection, stream, faulted>>

(* connection_close of the accepted and of the listening socket.           *)
ConnectionClose(step, descriptor, next) ==
  /\ server = step
  /\ descriptors' = descriptors \ {descriptor}
  /\ stream' = IF Reachable(descriptors') THEN stream ELSE <<>>
  /\ server' = next
  /\ \/ UNCHANGED <<server_failed, faulted>>
     \/ server_failed' = TRUE /\ Fault("close")
  /\ UNCHANGED <<script, senderVars, incoming, header, received, connection>>

CloseClient == ConnectionClose("close_client", "accepted", "close_server")

CloseServer == ConnectionClose("close_server", "listen", "exited")

-----------------------------------------------------------------------------

Client == Connect \/ MessageSend \/ SendAll \/ ClientClose

Server ==
  \/ Create \/ Accept \/ RecvExact \/ DecodeHeader \/ Publish
  \/ CloseClient \/ CloseServer

(* What may happen at any time but never has to. *)
Failure == ClientKilled \/ SendError \/ AcceptError \/ RecvError

FramingNext == Client \/ Server \/ Failure

FramingSpec == FramingInit /\ [][FramingNext]_framingVars

(* Both programs run on; no call on which they wait has to fail. *)
FairFramingSpec == FramingSpec /\ WF_framingVars(Client) /\ WF_framingVars(Server)

-----------------------------------------------------------------------------

Sent == SubSeq(script.sends, 1, sent_count)

(* Well-formed, complete and within the sizes. *)
IsDeliverable(f) ==
  /\ f = message(f.type, f.payload)
  /\ EncodeError(f) = "0" /\ Len(f.payload) <= PayloadBufferSize

Channel ==
  INSTANCE MessageChannel WITH
    Messages <- UNION {Range(s.sends) : s \in Scripts},
    Deliverable <- IsDeliverable,
    sent <- Sent, delivered <- received,
    broken <- server \in {"close_client", "close_server", "exited"}

(* However send and recv cut the stream, messages arrive whole, once and   *)
(* in order, and none after the first that is malformed, cut short or too  *)
(* large (message_io.h).                                                   *)
ImplementsMessageChannel == Channel!ChannelSpec

(* A program that has ended holds no descriptor (connection_close).        *)
DescriptorsClosed ==
  /\ client = "exited" => "client" \notin descriptors
  /\ server = "exited" => descriptors \subseteq {"client"}

(* The server's success means that it got its messages, all text, and that *)
(* they are the client's first; its failure, that a call failed, that the  *)
(* client sent less or something else.  The client's success says only     *)
(* that it handed everything over.                                         *)
ExitsAreTruthful ==
  /\ server = "exited" /\ ~server_failed =>
       /\ received = SubSeq(script.sends, 1, script.receives)
       /\ \A i \in DOMAIN received : received[i].type = MESSAGE_TYPE_TEXT
  /\ server = "exited" /\ server_failed =>
       \/ faulted
       \/ client_failed \/ Len(script.sends) < script.receives
       \/ \E i \in 1 .. script.receives :
            ~IsDeliverable(script.sends[i]) \/ script.sends[i].type # MESSAGE_TYPE_TEXT
  /\ client = "exited" /\ ~client_failed => sent_count = Len(script.sends)

(* Once connected both sides end: neither waits for cells, or for room,    *)
(* that the other will not give.                                           *)
BothEnd == connection # "none" ~> (client = "exited" /\ server = "exited")
=============================================================================
