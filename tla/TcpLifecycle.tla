---------------------------- MODULE TcpLifecycle ----------------------------
(***************************************************************************)
(* What the TCP state of a flow record is evidence of.  The properties     *)
(* read the packets of the record, in capture order, and never the events  *)
(* of the state machine itself.                                            *)
(***************************************************************************)
EXTENDS FlowRecordLife

tcp == record.tcp_state

(* What the packets show, independently of the state machine. *)

SentBy(i, d) == DirectionOf(accepted[i]) = d
Has(i, f) == f \in accepted[i].tcp_flags
IsSyn(i) == Has(i, "SYN") /\ ~Has(i, "ACK")
IsSynAck(i) == Has(i, "SYN") /\ Has(i, "ACK")
IsBareAck(i) == Has(i, "ACK") /\ ~Has(i, "SYN")
Ends(i) == Has(i, "FIN") \/ Has(i, "RST")

(* A reported handshake happened: the first packet of the flow is the      *)
(* initiator's SYN, a SYN-ACK of the other side and then an ACK of the     *)
(* initiator follow, and no FIN or RST came before that ACK                *)
(* (tcp_flow_state_observe, handshake_completed).                          *)
HandshakeIsReal ==
  tcp.handshake_completed =>
    \E j, k \in 2 .. Len(accepted) :
      /\ j < k
      /\ IsSyn(1) /\ SentBy(1, tcp.initiator_direction)
      /\ IsSynAck(j) /\ ~SentBy(j, tcp.initiator_direction)
      /\ IsBareAck(k) /\ SentBy(k, tcp.initiator_direction)
      /\ \A i \in 1 .. k : ~Ends(i)

(* A flow reported CLOSED saw the orderly release: a FIN of the side named *)
(* in first_fin_direction, later a FIN of the other side, and then an ACK  *)
(* of the first side, with no RST before it.                               *)
CloseIsReal ==
  tcp.phase = "CLOSED" =>
    \E i, j, k \in 1 .. Len(accepted) :
      /\ i < j /\ j < k
      /\ Has(i, "FIN") /\ SentBy(i, tcp.first_fin_direction)
      /\ Has(j, "FIN") /\ ~SentBy(j, tcp.first_fin_direction)
      /\ Has(k, "ACK") /\ SentBy(k, tcp.first_fin_direction)
      /\ \A n \in 1 .. k : ~Has(n, "RST")

(* The two terminal phases exclude each other by what came first: a TCP    *)
(* flow in which some packet carried RST is RESET, or it was CLOSED before *)
(* the first RST; and RESET is never reported without one.                 *)
ResetIsReal ==
  /\ tcp.phase = "RESET" => \E i \in 1 .. Len(accepted) : Has(i, "RST")
  /\ record.key.protocol = "TCP" /\ (\E i \in 1 .. Len(accepted) : Has(i, "RST")) =>
       tcp.phase \in {"RESET", "CLOSED"}

(* FIN_SEEN means that exactly one side has finished and no reset came:    *)
(* every packet that carries FIN is of the side first_fin_direction.       *)
HalfCloseIsOneSided ==
  tcp.phase = "FIN_SEEN" =>
    /\ \E i \in 1 .. Len(accepted) : Has(i, "FIN")
    /\ \A i \in 1 .. Len(accepted) : Has(i, "FIN") => SentBy(i, tcp.first_fin_direction)

(* Each of the phases reported at the end of a flow is backed by packets. *)
EndIsReal == CloseIsReal /\ ResetIsReal /\ HalfCloseIsOneSided

(* How far a flow has progressed; MIDSTREAM and ESTABLISHED are siblings.  *)
Rank == [UNOBSERVED |-> 0, SYN_SEEN |-> 1, SYN_ACK_SEEN |-> 2, ESTABLISHED |-> 3,
         MIDSTREAM |-> 3, FIN_SEEN |-> 4, FIN_BIDIRECTIONAL |-> 5, CLOSED |-> 6,
         RESET |-> 6]

(* No packet takes a flow back: the phase changes only to one of a higher  *)
(* rank, and what was learnt (handshake, initiator, first FIN) is kept.    *)
PhaseNeverRegresses ==
  [][/\ tcp'.phase # tcp.phase => Rank[tcp'.phase] > Rank[tcp.phase]
     /\ tcp.handshake_completed => tcp'.handshake_completed
     /\ tcp.initiator_direction # UNKNOWN =>
          tcp'.initiator_direction = tcp.initiator_direction
     /\ tcp.first_fin_direction # UNKNOWN =>
          tcp'.first_fin_direction = tcp.first_fin_direction]_vars

(* tcp_flow_state.h says the machine recognises the three-way handshake    *)
(* and its retransmissions.  The packets of d are a handshake that it      *)
(* opened, every packet possibly repeated before the final ACK.            *)
RetransmittedHandshake(d) ==
  LET n == Len(accepted) IN
  /\ n >= 3
  /\ \A i \in 1 .. n - 1 : \/ SentBy(i, d) /\ accepted[i].tcp_flags = {"SYN"}
                           \/ ~SentBy(i, d) /\ accepted[i].tcp_flags = {"SYN", "ACK"}
  /\ SentBy(1, d)
  /\ \E i \in 2 .. n - 1 : ~SentBy(i, d)
  /\ SentBy(n, d) /\ accepted[n].tcp_flags = {"ACK"}

(* Such a flow is ESTABLISHED.  It is not when the initiator's SYN is seen *)
(* again after the SYN-ACK: the code then reports MIDSTREAM for good.      *)
RetransmissionRecognised ==
  (\E d \in Directions : RetransmittedHandshake(d)) => tcp.phase = "ESTABLISHED"
=============================================================================
