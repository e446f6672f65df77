---------------------------- MODULE TcpFlowState ----------------------------
(***************************************************************************)
(* The TCP connection state that one flow record carries                   *)
(* (src/flow/tcp_flow_state.c).  The C function mutates a struct in place; *)
(* here it is an operator from the old state to the new one.  A packet is  *)
(* a direction and the set of the four flag bits the code looks at.        *)
(***************************************************************************)

A_TO_B == "A_TO_B"
B_TO_A == "B_TO_A"
UNKNOWN == "UNKNOWN"

(* The two values tcp_flow_direction_is_valid accepts. *)
Directions == {A_TO_B, B_TO_A}

TcpFlags == {"SYN", "ACK", "FIN", "RST"}

Phases == {"UNOBSERVED", "SYN_SEEN", "SYN_ACK_SEEN", "ESTABLISHED", "MIDSTREAM",
           "FIN_SEEN", "FIN_BIDIRECTIONAL", "CLOSED", "RESET"}

TcpState ==
  [phase : Phases,
   initiator_direction : Directions \cup {UNKNOWN},
   first_fin_direction : Directions \cup {UNKNOWN},
   handshake_completed : BOOLEAN,
   initialized : BOOLEAN]

(* The all-zero struct that the record of a UDP or ICMP flow keeps. *)
ZeroTcpState ==
  [phase |-> "UNOBSERVED", initiator_direction |-> UNKNOWN,
   first_fin_direction |-> UNKNOWN, handshake_completed |-> FALSE,
   initialized |-> FALSE]

tcp_flow_state_init == [ZeroTcpState EXCEPT !.initialized = TRUE]

(* One event per packet: RST beats FIN, FIN beats the handshake flags. *)
tcp_flow_event_from_flags(flags) ==
  CASE "RST" \in flags -> "RST"
    [] "RST" \notin flags /\ "FIN" \in flags -> "FIN"
    [] flags \cap {"RST", "FIN"} = {} /\ {"SYN", "ACK"} \subseteq flags -> "SYN_ACK"
    [] flags \cap {"RST", "FIN", "ACK"} = {} /\ "SYN" \in flags -> "SYN"
    [] flags \cap {"RST", "FIN", "SYN"} = {} /\ "ACK" \in flags -> "ACK"
    [] OTHER -> "OTHER"

(* Seeded fault: a repeated FIN of one side counts as the other side's. *)
RepeatedFinClosesBoth(s, d) ==
  CASE s.phase = "FIN_SEEN" -> [s EXCEPT !.phase = "FIN_BIDIRECTIONAL"]
    [] s.phase = "FIN_BIDIRECTIONAL" -> s
    [] OTHER -> [s EXCEPT !.phase = "FIN_SEEN", !.first_fin_direction = d]

(* A FIN: the first one is remembered with its direction, one from the     *)
(* other side makes it bidirectional, a retransmission changes nothing.    *)
ObserveFin(s, d) ==
  CASE s.phase = "FIN_SEEN" ->
         IF d # s.first_fin_direction
         THEN [s EXCEPT !.phase = "FIN_BIDIRECTIONAL"] ELSE s
    [] s.phase = "FIN_BIDIRECTIONAL" -> s
    [] OTHER -> [s EXCEPT !.phase = "FIN_SEEN", !.first_fin_direction = d]

(* Seeded fault: any ACK completes the handshake, whoever sent it. *)
AnyAckEstablishes(s, d, event) ==
  CASE s.phase = "UNOBSERVED" ->
         IF event = "SYN"
         THEN [s EXCEPT !.phase = "SYN_SEEN", !.initiator_direction = d]
         ELSE [s EXCEPT !.phase = "MIDSTREAM"]
    [] s.phase = "SYN_SEEN" ->
         IF event = "SYN_ACK" THEN [s EXCEPT !.phase = "SYN_ACK_SEEN"]
         ELSE IF event = "SYN" THEN s ELSE [s EXCEPT !.phase = "MIDSTREAM"]
    [] s.phase = "SYN_ACK_SEEN" ->
         IF event = "ACK"
         THEN [s EXCEPT !.phase = "ESTABLISHED", !.handshake_completed = TRUE] ELSE s
    [] OTHER -> s

(* The three phases of an unfinished handshake; anything out of order      *)
(* makes the flow MIDSTREAM.                                               *)
ObserveHandshake(s, d, event) ==
  LET fromInitiator == d = s.initiator_direction IN
  CASE s.phase = "UNOBSERVED" ->
         IF event = "SYN"
         THEN [s EXCEPT !.phase = "SYN_SEEN", !.initiator_direction = d]
         ELSE [s EXCEPT !.phase = "MIDSTREAM"]
    [] s.phase = "SYN_SEEN" ->
         IF event = "SYN" /\ fromInitiator THEN s
         ELSE IF event = "SYN_ACK" /\ ~fromInitiator
              THEN [s EXCEPT !.phase = "SYN_ACK_SEEN"]
              ELSE [s EXCEPT !.phase = "MIDSTREAM"]
    [] s.phase = "SYN_ACK_SEEN" ->
         IF event = "SYN_ACK" /\ ~fromInitiator THEN s
         ELSE IF event = "ACK" /\ fromInitiator
              THEN [s EXCEPT !.phase = "ESTABLISHED", !.handshake_completed = TRUE]
              ELSE [s EXCEPT !.phase = "MIDSTREAM"]
    [] OTHER -> s

(* Seeded fault: a late packet reopens a finished connection. *)
ReopenAfterClose(s, d, flags) ==
  LET event == tcp_flow_event_from_flags(flags) IN
  CASE event = "RST" -> [s EXCEPT !.phase = "RESET"]
    [] event = "FIN" -> ObserveFin(s, d)
    [] s.phase = "FIN_BIDIRECTIONAL" /\ event = "ACK" -> [s EXCEPT !.phase = "CLOSED"]
    [] OTHER -> ObserveHandshake(s, d, event)

(* The state after one packet: CLOSED and RESET absorb, RST and FIN are    *)
(* handled in every other phase, and only then the phase decides.          *)
tcp_flow_state_observe(s, d, flags) ==
  LET event == tcp_flow_event_from_flags(flags) IN
  CASE s.phase \in {"CLOSED", "RESET"} -> s
    [] s.phase \notin {"CLOSED", "RESET"} /\ event = "RST" -> [s EXCEPT !.phase = "RESET"]
    [] s.phase \notin {"CLOSED", "RESET"} /\ event = "FIN" -> ObserveFin(s, d)
    [] s.phase = "FIN_BIDIRECTIONAL" /\ event \notin {"RST", "FIN"} ->
         IF event = "ACK" /\ d = s.first_fin_direction
         THEN [s EXCEPT !.phase = "CLOSED"] ELSE s
    [] OTHER -> ObserveHandshake(s, d, event)
=============================================================================
