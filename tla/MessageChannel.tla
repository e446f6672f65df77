--------------------------- MODULE MessageChannel ---------------------------
(***************************************************************************)
(* What message_send and message_receive of labs/tcp_framing promise about *)
(* a connection (message_io.h), without bytes: messages arrive whole, once *)
(* and in order; the first one that is malformed, cut short or too large   *)
(* is the end of the channel, and so is any error of either side.          *)
(***************************************************************************)
EXTENDS Naturals, Sequences

CONSTANTS
  Messages,          \* what may be sent
  Deliverable(_)     \* is it well-formed, and does it fit?

VARIABLES
  sent,         \* messages handed over completely
  delivered,    \* messages that message_receive has given out
  broken        \* no more of them will be

channelVars == <<sent, delivered, broken>>

ChannelInit == sent = <<>> /\ delivered = <<>> /\ broken = FALSE

Send(m) == sent' = Append(sent, m) /\ UNCHANGED <<delivered, broken>>

Deliver ==
  /\ ~broken /\ Len(delivered) < Len(sent)
  /\ Deliverable(sent[Len(delivered) + 1])
  /\ delivered' = Append(delivered, sent[Len(delivered) + 1])
  /\ UNCHANGED sent
  /\ broken' \in BOOLEAN

Break == broken' = TRUE /\ UNCHANGED <<sent, delivered>>

ChannelNext == Deliver \/ Break \/ \E m \in Messages : Send(m)

ChannelSpec == ChannelInit /\ [][ChannelNext]_channelVars
=============================================================================
