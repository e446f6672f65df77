------------------------- MODULE FlowRecordProofs --------------------------
(***************************************************************************)
(* For every traffic and every number of packets: the TCP state of a flow  *)
(* record is backed by the packets of the record and never goes back; its  *)
(* summary is the exact summary of the packets, which are those of one     *)
(* conversation; and its feature row describes them.                       *)
(***************************************************************************)
EXTENDS TcpLifecycle, ProofLemmas

-----------------------------------------------------------------------------
(* The invariant. *)

(* The packets of the record are complete packets of its key.              *)
History ==
  /\ traffic \in DOMAIN Traffics
  /\ record \in FlowRecords
  /\ accepted \in Seq(PacketInfo) /\ 1 <= Len(accepted)
  /\ \A i \in 1 .. Len(accepted) : KeyError(accepted[i]) = "0"

NoEndSoFar == \A i \in 1 .. Len(accepted) : ~Ends(i)

NoResetSoFar == \A i \in 1 .. Len(accepted) : ~Has(i, "RST")

Opened ==
  /\ tcp.initiator_direction \in Directions
  /\ IsSyn(1) /\ SentBy(1, tcp.initiator_direction)

Answered ==
  \E j \in 2 .. Len(accepted) : IsSynAck(j) /\ ~SentBy(j, tcp.initiator_direction)

(* A FIN of the side of the first FIN, and later one of the other side.    *)
BothFinished ==
  \E i, j \in 1 .. Len(accepted) :
    /\ i < j
    /\ Has(i, "FIN") /\ SentBy(i, tcp.first_fin_direction)
    /\ Has(j, "FIN") /\ ~SentBy(j, tcp.first_fin_direction)

(* What the packets have shown when a TCP flow is in its phase.            *)
Evidence ==
  /\ tcp.phase # "UNOBSERVED"
  /\ tcp.phase \in {"SYN_SEEN", "SYN_ACK_SEEN", "ESTABLISHED", "MIDSTREAM"} =>
       NoEndSoFar /\ tcp.first_fin_direction = UNKNOWN
  /\ tcp.phase \in {"SYN_SEEN", "SYN_ACK_SEEN"} => Opened
  /\ tcp.phase = "SYN_ACK_SEEN" => Answered
  /\ tcp.phase \in {"FIN_SEEN", "FIN_BIDIRECTIONAL"} => NoResetSoFar
  /\ tcp.phase = "FIN_BIDIRECTIONAL" => BothFinished

(* The record of another protocol keeps the state it was created with.     *)
TcpOrNot ==
  \/ record.key.protocol = "TCP" /\ tcp.initialized /\ Evidence
  \/ record.key.protocol # "TCP" /\ tcp = ZeroTcpState

IInv == History /\ TcpOrNot /\ HandshakeIsReal /\ EndIsReal

-----------------------------------------------------------------------------
(* One packet. *)

(* The event of a packet says which flags it carries. *)
LEMMA EventFlags ==
  ASSUME NEW flags
  PROVE  LET e == tcp_flow_event_from_flags(flags) IN
         /\ e \in {"RST", "FIN", "SYN_ACK", "SYN", "ACK", "OTHER"}
         /\ e = "RST" <=> "RST" \in flags
         /\ e = "FIN" => "FIN" \in flags
         /\ e \notin {"RST", "FIN"} => "RST" \notin flags /\ "FIN" \notin flags
         /\ e = "SYN_ACK" => "SYN" \in flags /\ "ACK" \in flags
         /\ e = "SYN" => "SYN" \in flags /\ "ACK" \notin flags
         /\ e = "ACK" => "ACK" \in flags /\ "SYN" \notin flags
BY DEF tcp_flow_event_from_flags

(* What one packet of direction d and event e does to the TCP state, phase *)
(* by phase: from s to t.                                                  *)
Observed(s, d, e, t) ==
  \/ t = s /\ s.phase \in {"CLOSED", "RESET"}
  \/ /\ s.phase \notin {"CLOSED", "RESET"} /\ e = "RST"
     /\ t = [s EXCEPT !.phase = "RESET"]
  \/ /\ s.phase \notin {"CLOSED", "RESET", "FIN_SEEN", "FIN_BIDIRECTIONAL"} /\ e = "FIN"
     /\ t = [s EXCEPT !.phase = "FIN_SEEN", !.first_fin_direction = d]
  \/ /\ s.phase = "FIN_SEEN" /\ e = "FIN" /\ d # s.first_fin_direction
     /\ t = [s EXCEPT !.phase = "FIN_BIDIRECTIONAL"]
  \/ s.phase = "FIN_SEEN" /\ e = "FIN" /\ d = s.first_fin_direction /\ t = s
  \/ s.phase = "FIN_SEEN" /\ e \notin {"RST", "FIN"} /\ t = s
  \/ s.phase = "FIN_BIDIRECTIONAL" /\ e # "RST" /\ t = s
  \/ /\ s.phase = "FIN_BIDIRECTIONAL" /\ e = "ACK" /\ d = s.first_fin_direction
     /\ t = [s EXCEPT !.phase = "CLOSED"]
  \/ /\ s.phase \in {"UNOBSERVED", "SYN_SEEN", "SYN_ACK_SEEN", "ESTABLISHED", "MIDSTREAM"}
     /\ e \notin {"RST", "FIN"}
     /\ t = ObserveHandshake(s, d, e)

LEMMA ObserveCases ==
  ASSUME NEW s \in TcpState, NEW d, NEW flags,
         NEW e, e = tcp_flow_event_from_flags(flags),
         NEW t, t = tcp_flow_state_observe(s, d, flags)
  PROVE  Observed(s, d, e, t)
<1> USE DEF Observed
<1>1. e \in {"RST", "FIN", "SYN_ACK", "SYN", "ACK", "OTHER"}
  BY EventFlags
<1>2. s.phase \in Phases
  BY DEF TcpState
<1>3. CASE s.phase \in {"CLOSED", "RESET"} \/ e = "RST"
  BY <1>1, <1>2, <1>3 DEF tcp_flow_state_observe, Phases
<1>4. CASE s.phase \notin {"CLOSED", "RESET"} /\ e = "FIN"
  BY <1>2, <1>4 DEF tcp_flow_state_observe, ObserveFin, Phases
<1>5. CASE s.phase \notin {"CLOSED", "RESET"} /\ e \notin {"RST", "FIN"}
  <2>1. CASE s.phase = "FIN_SEEN"
    BY <1>5, <2>1 DEF tcp_flow_state_observe, ObserveHandshake
  <2>2. CASE s.phase = "FIN_BIDIRECTIONAL"
    BY <1>5, <2>2 DEF tcp_flow_state_observe
  <2>3. CASE s.phase \notin {"FIN_SEEN", "FIN_BIDIRECTIONAL"}
    BY <1>2, <1>5, <2>3 DEF tcp_flow_state_observe, Phases
  <2> QED BY <2>1, <2>2, <2>3
<1> QED BY <1>3, <1>4, <1>5

(* What a packet that does not end the connection does in the phases of    *)
(* the handshake, once the first packet has been observed.                 *)
Shaken(s, d, e, t) ==
  \/ t = s
  \/ s.phase \in {"SYN_SEEN", "SYN_ACK_SEEN"} /\ t = [s EXCEPT !.phase = "MIDSTREAM"]
  \/ /\ s.phase = "SYN_SEEN" /\ e = "SYN_ACK" /\ d # s.initiator_direction
     /\ t = [s EXCEPT !.phase = "SYN_ACK_SEEN"]
  \/ /\ s.phase = "SYN_ACK_SEEN" /\ e = "ACK" /\ d = s.initiator_direction
     /\ t = [s EXCEPT !.phase = "ESTABLISHED", !.handshake_completed = TRUE]

LEMMA HandshakeCases ==
  ASSUME NEW s \in TcpState, NEW d, NEW e, s.phase # "UNOBSERVED",
         NEW t, t = ObserveHandshake(s, d, e)
  PROVE  Shaken(s, d, e, t)
<1>1. CASE s.phase = "SYN_SEEN"
  BY <1>1 DEF ObserveHandshake, Shaken
<1>2. CASE s.phase = "SYN_ACK_SEEN"
  BY <1>2 DEF ObserveHandshake, Shaken
<1>3. CASE s.phase \notin {"SYN_SEEN", "SYN_ACK_SEEN"}
  BY <1>3 DEF ObserveHandshake, Shaken
<1> QED BY <1>1, <1>2, <1>3

(* The record of a further packet: its TCP state is observed, if its       *)
(* protocol is TCP, and its key is the same.                               *)
LEMMA UpdatedRecord ==
  ASSUME NEW r \in FlowRecords, NEW p \in PacketInfo, RecordUpdateError(r, p) = "0"
  PROVE  /\ KeyError(p) = "0" /\ DirectionOf(p) \in Directions
         /\ p.protocol = r.key.protocol
         /\ flow_record_update(r, p) \in FlowRecords
         /\ flow_record_update(r, p).key = r.key
         /\ flow_record_update(r, p).tcp_state =
              (IF p.protocol = "TCP"
               THEN tcp_flow_state_observe(r.tcp_state, DirectionOf(p), p.tcp_flags)
               ELSE r.tcp_state)
<1>1. KeyError(p) = "0" /\ r.key = KeyOf(p)
  BY DEF RecordUpdateError
<1>2. p.protocol = r.key.protocol
  BY <1>1 DEF KeyOf
<1>3. flow_record_update(r, p).tcp_state =
        (IF p.protocol = "TCP"
         THEN tcp_flow_state_observe(r.tcp_state, DirectionOf(p), p.tcp_flags)
         ELSE r.tcp_state)
  BY DEF flow_record_update, FlowRecords
<1> QED BY <1>1, <1>2, <1>3, KeyType, RecordUpdateType

(* The history with one more packet: the earlier packets keep their place. *)
LEMMA Appended ==
  ASSUME accepted \in Seq(PacketInfo), NEW p \in PacketInfo, accepted' = Append(accepted, p)
  PROVE  /\ accepted' \in Seq(PacketInfo)
         /\ Len(accepted) \in Nat /\ Len(accepted') = Len(accepted) + 1
         /\ accepted'[Len(accepted) + 1] = p
         /\ \A i \in 1 .. Len(accepted) : accepted'[i] = accepted[i]
OBVIOUS

(* The handshake and the release that the properties ask for. *)
HandshakeSeen ==
  \E j, k \in 2 .. Len(accepted) :
    /\ j < k
    /\ IsSyn(1) /\ SentBy(1, tcp.initiator_direction)
    /\ IsSynAck(j) /\ ~SentBy(j, tcp.initiator_direction)
    /\ IsBareAck(k) /\ SentBy(k, tcp.initiator_direction)
    /\ \A i \in 1 .. k : ~Ends(i)

ReleaseSeen ==
  \E i, j, k \in 1 .. Len(accepted) :
    /\ i < j /\ j < k
    /\ Has(i, "FIN") /\ SentBy(i, tcp.first_fin_direction)
    /\ Has(j, "FIN") /\ ~SentBy(j, tcp.first_fin_direction)
    /\ Has(k, "ACK") /\ SentBy(k, tcp.first_fin_direction)
    /\ \A n \in 1 .. k : ~Has(n, "RST")

(* What the packets had shown, they still show. *)
LEMMA EvidenceStays ==
  ASSUME accepted \in Seq(PacketInfo), NEW p \in PacketInfo, accepted' = Append(accepted, p),
         1 <= Len(accepted)
  PROVE  /\ tcp'.initiator_direction = tcp.initiator_direction =>
              /\ Opened => Opened'
              /\ Answered => Answered'
              /\ HandshakeSeen => HandshakeSeen'
         /\ tcp'.first_fin_direction = tcp.first_fin_direction =>
              /\ BothFinished => BothFinished'
              /\ ReleaseSeen => ReleaseSeen'
         /\ NoEndSoFar /\ p.tcp_flags \cap {"FIN", "RST"} = {} => NoEndSoFar'
         /\ NoResetSoFar /\ "RST" \notin p.tcp_flags => NoResetSoFar'
         /\ NoEndSoFar => NoResetSoFar
<1> DEFINE n == Len(accepted)
<1>1. /\ n \in Nat /\ 1 <= n /\ Len(accepted') = n + 1
      /\ accepted'[n + 1] = p
      /\ \A i \in 1 .. n : accepted'[i] = accepted[i]
  BY Appended
<1>2. n = Len(accepted)
  OBVIOUS
<1> HIDE DEF n
<1>3. NoEndSoFar /\ p.tcp_flags \cap {"FIN", "RST"} = {} => NoEndSoFar'
  BY <1>1, <1>2 DEF NoEndSoFar, Ends, Has
<1>4. NoResetSoFar /\ "RST" \notin p.tcp_flags => NoResetSoFar'
  BY <1>1, <1>2 DEF NoResetSoFar, Has
<1>5. NoEndSoFar => NoResetSoFar
  BY DEF NoEndSoFar, NoResetSoFar, Ends
<1>6. ASSUME tcp'.initiator_direction = tcp.initiator_direction
      PROVE  /\ Opened => Opened'
             /\ Answered => Answered'
             /\ HandshakeSeen => HandshakeSeen'
  <2>1. Opened => Opened'
    BY <1>1, <1>6 DEF Opened, IsSyn, Has, SentBy
  <2>2. Answered => Answered'
    BY <1>1, <1>2, <1>6 DEF Answered, IsSynAck, Has, SentBy
  <2>3. ASSUME HandshakeSeen PROVE HandshakeSeen'
    <3>1. PICK j \in 2 .. n, k \in 2 .. n :
            /\ j < k
            /\ IsSyn(1) /\ SentBy(1, tcp.initiator_direction)
            /\ IsSynAck(j) /\ ~SentBy(j, tcp.initiator_direction)
            /\ IsBareAck(k) /\ SentBy(k, tcp.initiator_direction)
            /\ \A i \in 1 .. k : ~Ends(i)
      BY <2>3, <1>2 DEF HandshakeSeen
    <3>2. accepted'[1] = accepted[1] /\ accepted'[j] = accepted[j] /\ accepted'[k] = accepted[k]
          /\ \A i \in 1 .. k : accepted'[i] = accepted[i]
      BY <1>1
    <3>3. /\ IsSyn(1)' /\ DirectionOf(accepted'[1]) = tcp.initiator_direction
          /\ IsSynAck(j)' /\ DirectionOf(accepted'[j]) # tcp.initiator_direction
          /\ IsBareAck(k)' /\ DirectionOf(accepted'[k]) = tcp.initiator_direction
          /\ \A i \in 1 .. k : ~Ends(i)'
      BY <3>1, <3>2 DEF IsSyn, IsSynAck, IsBareAck, Ends, Has, SentBy
    <3>4. j \in 2 .. Len(accepted') /\ k \in 2 .. Len(accepted')
      BY <1>1
    <3> QED BY <1>6, <3>1, <3>3, <3>4 DEF HandshakeSeen, SentBy
  <2> QED BY <2>1, <2>2, <2>3
<1>7. ASSUME tcp'.first_fin_direction = tcp.first_fin_direction
      PROVE  /\ BothFinished => BothFinished'
             /\ ReleaseSeen => ReleaseSeen'
  <2>1. BothFinished => BothFinished'
    BY <1>1, <1>2, <1>7 DEF BothFinished, Has, SentBy
  <2>2. ReleaseSeen => ReleaseSeen'
    BY <1>1, <1>2, <1>7, SMTT(30) DEF ReleaseSeen, Has, SentBy
  <2> QED BY <2>1, <2>2
<1> QED BY <1>3, <1>4, <1>5, <1>6, <1>7

(* A TCP flow with one more packet. *)
LEMMA TcpStep ==
  ASSUME IInv, record.key.protocol = "TCP", NEW p \in PacketInfo,
         RecordUpdateError(record, p) = "0",
         record' = flow_record_update(record, p), accepted' = Append(accepted, p)
  PROVE  Evidence' /\ tcp'.initialized /\ HandshakeIsReal' /\ EndIsReal'
<1> PICK n : n = Len(accepted)
  OBVIOUS
<1> DEFINE d == DirectionOf(p)
           flags == p.tcp_flags
           e == tcp_flow_event_from_flags(flags)
<1>1. /\ d \in Directions /\ p.protocol = "TCP"
      /\ tcp \in TcpState /\ tcp.initialized /\ Evidence
      /\ tcp' = tcp_flow_state_observe(tcp, d, flags)
      /\ record'.key.protocol = "TCP"
  BY UpdatedRecord DEF IInv, History, TcpOrNot, FlowRecords, tcp
<1>2. /\ e = tcp_flow_event_from_flags(flags)
      /\ e \in {"RST", "FIN", "SYN_ACK", "SYN", "ACK", "OTHER"}
      /\ e = "RST" <=> "RST" \in flags
      /\ e = "FIN" => "FIN" \in flags
      /\ e \notin {"RST", "FIN"} => "RST" \notin flags /\ "FIN" \notin flags
      /\ e = "SYN_ACK" => "SYN" \in flags /\ "ACK" \in flags
      /\ e = "SYN" => "SYN" \in flags /\ "ACK" \notin flags
      /\ e = "ACK" => "ACK" \in flags /\ "SYN" \notin flags
  BY EventFlags
<1>3. /\ n \in Nat /\ 1 <= n /\ Len(accepted') = n + 1
      /\ accepted'[n + 1].tcp_flags = flags /\ DirectionOf(accepted'[n + 1]) = d
      /\ \A i \in 1 .. n : accepted'[i] = accepted[i]
      /\ n = Len(accepted)
  BY Appended DEF IInv, History
<1>4. /\ tcp.phase \in Phases
      /\ DOMAIN tcp = {"phase", "initiator_direction", "first_fin_direction",
                       "handshake_completed", "initialized"}
  BY <1>1 DEF TcpState
<1>5. /\ tcp.handshake_completed => HandshakeSeen
      /\ tcp.phase = "CLOSED" => ReleaseSeen
      /\ ResetIsReal /\ HalfCloseIsOneSided
  BY DEF IInv, HandshakeIsReal, HandshakeSeen, EndIsReal, CloseIsReal, ReleaseSeen
<1>6. (tcp'.handshake_completed => HandshakeSeen') /\ (tcp'.phase = "CLOSED" => ReleaseSeen')
        /\ ResetIsReal' /\ HalfCloseIsOneSided' => HandshakeIsReal' /\ EndIsReal'
  BY DEF HandshakeIsReal, HandshakeSeen, EndIsReal, CloseIsReal, ReleaseSeen
<1>7. /\ tcp'.initiator_direction = tcp.initiator_direction =>
           /\ Opened => Opened'
           /\ Answered => Answered'
           /\ HandshakeSeen => HandshakeSeen'
      /\ tcp'.first_fin_direction = tcp.first_fin_direction =>
           /\ BothFinished => BothFinished'
           /\ ReleaseSeen => ReleaseSeen'
      /\ NoEndSoFar /\ flags \cap {"FIN", "RST"} = {} => NoEndSoFar'
      /\ NoResetSoFar /\ "RST" \notin flags => NoResetSoFar'
      /\ NoEndSoFar => NoResetSoFar
  BY EvidenceStays DEF IInv, History
<1> HIDE DEF d, flags, e
<1>16. Observed(tcp, d, e, tcp')
  BY <1>1, <1>2, ObserveCases
<1>8. CASE tcp' = tcp /\ tcp.phase \in {"CLOSED", "RESET"}
  <2>1. ResetIsReal' /\ HalfCloseIsOneSided'
    BY <1>1, <1>3, <1>5, <1>8 DEF ResetIsReal, HalfCloseIsOneSided, Has
  <2> QED BY <1>1, <1>5, <1>6, <1>7, <1>8, <2>1 DEF Evidence
<1>9. CASE e = "RST" /\ tcp' = [tcp EXCEPT !.phase = "RESET"]
  <2>1. /\ tcp'.phase = "RESET" /\ tcp'.initiator_direction = tcp.initiator_direction
        /\ tcp'.handshake_completed = tcp.handshake_completed
        /\ tcp'.initialized = tcp.initialized
    BY <1>4, <1>9
  <2>2. ResetIsReal' /\ HalfCloseIsOneSided'
    BY <1>2, <1>3, <1>9, <2>1 DEF ResetIsReal, HalfCloseIsOneSided, Has
  <2> QED BY <1>1, <1>5, <1>6, <1>7, <2>1, <2>2 DEF Evidence
<1>10. CASE /\ tcp.phase \in {"UNOBSERVED", "SYN_SEEN", "SYN_ACK_SEEN", "ESTABLISHED", "MIDSTREAM"}
            /\ e = "FIN"
            /\ tcp' = [tcp EXCEPT !.phase = "FIN_SEEN", !.first_fin_direction = d]
  <2>1. /\ tcp'.phase = "FIN_SEEN" /\ tcp'.first_fin_direction = d
        /\ tcp'.initiator_direction = tcp.initiator_direction
        /\ tcp'.handshake_completed = tcp.handshake_completed
        /\ tcp'.initialized = tcp.initialized
    BY <1>4, <1>10
  <2>2. NoEndSoFar /\ NoResetSoFar'
    BY <1>1, <1>2, <1>7, <1>10 DEF Evidence
  <2>3. ResetIsReal'
    BY <2>1, <2>2 DEF ResetIsReal, NoResetSoFar
  <2>4. HalfCloseIsOneSided'
    BY <1>2, <1>3, <1>10, <2>1, <2>2 DEF HalfCloseIsOneSided, NoEndSoFar, Ends, Has, SentBy
  <2> QED BY <1>1, <1>5, <1>6, <1>7, <2>1, <2>2, <2>3, <2>4 DEF Evidence
<1>11. CASE /\ tcp.phase = "FIN_SEEN" /\ e = "FIN" /\ d # tcp.first_fin_direction
            /\ tcp' = [tcp EXCEPT !.phase = "FIN_BIDIRECTIONAL"]
  <2>1. /\ tcp'.phase = "FIN_BIDIRECTIONAL"
        /\ tcp'.first_fin_direction = tcp.first_fin_direction
        /\ tcp'.initiator_direction = tcp.initiator_direction
        /\ tcp'.handshake_completed = tcp.handshake_completed
        /\ tcp'.initialized = tcp.initialized
    BY <1>4, <1>11
  <2>2. NoResetSoFar'
    BY <1>1, <1>2, <1>7, <1>11 DEF Evidence
  <2>3. ResetIsReal' /\ HalfCloseIsOneSided'
    BY <2>1, <2>2 DEF ResetIsReal, NoResetSoFar, HalfCloseIsOneSided
  <2>4. BothFinished'
    <3>1. PICK i \in 1 .. n : Has(i, "FIN")
      BY <1>3, <1>5, <1>11 DEF HalfCloseIsOneSided
    <3>2. Has(i, "FIN") /\ SentBy(i, tcp.first_fin_direction)
      BY <1>3, <1>5, <1>11, <3>1 DEF HalfCloseIsOneSided
    <3>3. /\ "FIN" \in accepted'[i].tcp_flags
          /\ DirectionOf(accepted'[i]) = tcp.first_fin_direction
          /\ "FIN" \in accepted'[n + 1].tcp_flags
          /\ DirectionOf(accepted'[n + 1]) # tcp.first_fin_direction
      BY <1>2, <1>3, <1>11, <3>2 DEF Has, SentBy
    <3>4. i \in 1 .. Len(accepted') /\ n + 1 \in 1 .. Len(accepted') /\ i < n + 1
      BY <1>3
    <3> QED BY <2>1, <3>3, <3>4 DEF BothFinished, Has, SentBy
  <2> QED BY <1>1, <1>5, <1>6, <1>7, <2>1, <2>2, <2>3, <2>4 DEF Evidence
<1>12. CASE /\ tcp.phase = "FIN_SEEN" /\ tcp' = tcp
            /\ e = "FIN" => d = tcp.first_fin_direction
            /\ e # "RST"
  <2>1. NoResetSoFar'
    BY <1>1, <1>2, <1>7, <1>12 DEF Evidence
  <2>2. ResetIsReal'
    BY <1>12, <2>1 DEF ResetIsReal, NoResetSoFar
  <2>3. HalfCloseIsOneSided'
    <3>1. \E i \in 1 .. Len(accepted') : Has(i, "FIN")'
      BY <1>3, <1>5, <1>12 DEF HalfCloseIsOneSided, Has
    <3>2. ASSUME NEW i \in 1 .. Len(accepted'), Has(i, "FIN")'
          PROVE  DirectionOf(accepted'[i]) = tcp.first_fin_direction
      <4>1. CASE i = n + 1
        BY <1>2, <1>3, <1>12, <3>2, <4>1 DEF Has
      <4>2. CASE i # n + 1
        BY <1>3, <1>5, <1>12, <3>2, <4>2 DEF HalfCloseIsOneSided, Has, SentBy
      <4> QED BY <4>1, <4>2
    <3> QED BY <1>12, <3>1, <3>2 DEF HalfCloseIsOneSided, SentBy
  <2> QED BY <1>1, <1>5, <1>6, <1>7, <1>12, <2>1, <2>2, <2>3 DEF Evidence
<1>13. CASE tcp.phase = "FIN_BIDIRECTIONAL" /\ e # "RST" /\ tcp' = tcp
  <2>1. NoResetSoFar' /\ BothFinished'
    BY <1>1, <1>2, <1>7, <1>13 DEF Evidence
  <2>2. ResetIsReal' /\ HalfCloseIsOneSided'
    BY <1>13, <2>1 DEF ResetIsReal, NoResetSoFar, HalfCloseIsOneSided
  <2> QED BY <1>1, <1>5, <1>6, <1>7, <1>13, <2>1, <2>2 DEF Evidence
<1>14. CASE /\ tcp.phase = "FIN_BIDIRECTIONAL" /\ e = "ACK" /\ d = tcp.first_fin_direction
            /\ tcp' = [tcp EXCEPT !.phase = "CLOSED"]
  <2>1. /\ tcp'.phase = "CLOSED"
        /\ tcp'.first_fin_direction = tcp.first_fin_direction
        /\ tcp'.initiator_direction = tcp.initiator_direction
        /\ tcp'.handshake_completed = tcp.handshake_completed
        /\ tcp'.initialized = tcp.initialized
    BY <1>4, <1>14
  <2>2. NoResetSoFar' /\ BothFinished
    BY <1>1, <1>2, <1>7, <1>14 DEF Evidence
  <2>3. ResetIsReal' /\ HalfCloseIsOneSided'
    BY <2>1, <2>2 DEF ResetIsReal, NoResetSoFar, HalfCloseIsOneSided
  <2>4. ReleaseSeen'
    <3>1. PICK i \in 1 .. n, j \in 1 .. n :
            /\ i < j
            /\ Has(i, "FIN") /\ SentBy(i, tcp.first_fin_direction)
            /\ Has(j, "FIN") /\ ~SentBy(j, tcp.first_fin_direction)
      BY <1>3, <2>2 DEF BothFinished
    <3>0. accepted'[i] = accepted[i] /\ accepted'[j] = accepted[j]
      BY <1>3
    <3>2. Has(i, "FIN")' /\ Has(j, "FIN")' /\ Has(n + 1, "ACK")'
      <4>1. Has(i, "FIN")' /\ Has(j, "FIN")'
        BY <3>0, <3>1 DEF Has
      <4>2. "ACK" \in flags
        BY <1>2, <1>14
      <4>3. "ACK" \in accepted'[n + 1].tcp_flags
        BY <1>3, <4>2
      <4>4. Has(n + 1, "ACK")'
        BY <4>3 DEF Has
      <4> QED BY <4>1, <4>4
    <3>3. /\ i \in 1 .. Len(accepted') /\ j \in 1 .. Len(accepted')
          /\ n + 1 \in 1 .. Len(accepted') /\ j < n + 1
      BY <1>3
    <3>4. \A m \in 1 .. n + 1 : ~Has(m, "RST")'
      BY <1>3, <2>2 DEF NoResetSoFar
    <3>5. /\ SentBy(i, tcp.first_fin_direction)' /\ ~SentBy(j, tcp.first_fin_direction)'
          /\ SentBy(n + 1, tcp.first_fin_direction)'
      <4>1. /\ SentBy(i, tcp.first_fin_direction)' /\ ~SentBy(j, tcp.first_fin_direction)'
        BY <3>0, <2>1, <3>1 DEF SentBy
      <4>2. SentBy(n + 1, tcp.first_fin_direction)'
        BY <1>3, <1>14, <2>1 DEF SentBy
      <4> QED BY <4>1, <4>2
    <3> QED BY <3>1, <3>2, <3>3, <3>4, <3>5 DEF ReleaseSeen
  <2> QED BY <1>1, <1>5, <1>6, <1>7, <2>1, <2>2, <2>3, <2>4 DEF Evidence
<1>15. CASE /\ tcp.phase \in {"SYN_SEEN", "SYN_ACK_SEEN", "ESTABLISHED", "MIDSTREAM"}
            /\ e \notin {"RST", "FIN"}
            /\ Shaken(tcp, d, e, tcp')
  <2>1. NoEndSoFar' /\ NoResetSoFar'
    BY <1>1, <1>2, <1>7, <1>15 DEF Evidence, NoEndSoFar, NoResetSoFar, Ends
  <2>2. tcp'.phase \in {"SYN_SEEN", "SYN_ACK_SEEN", "ESTABLISHED", "MIDSTREAM"}
    BY <1>4, <1>15 DEF Shaken
  <2>3. ResetIsReal' /\ HalfCloseIsOneSided'
    BY <2>1, <2>2 DEF ResetIsReal, HalfCloseIsOneSided, NoResetSoFar
  <2>8. /\ tcp'.initiator_direction = tcp.initiator_direction
        /\ tcp'.initialized = tcp.initialized
        /\ tcp'.first_fin_direction = tcp.first_fin_direction
    BY <1>4, <1>15 DEF Shaken
  <2>4. /\ tcp'.initiator_direction = tcp.initiator_direction
        /\ tcp'.initialized = tcp.initialized
        /\ tcp'.first_fin_direction = UNKNOWN
    BY <1>1, <1>15, <2>8 DEF Evidence
  <2>5. CASE tcp' = tcp \/ tcp' = [tcp EXCEPT !.phase = "MIDSTREAM"]
    <3>1. /\ tcp'.handshake_completed = tcp.handshake_completed
          /\ tcp'.phase \in {tcp.phase, "MIDSTREAM"}
      BY <1>4, <2>5
    <3> QED BY <1>1, <1>5, <1>6, <1>7, <2>1, <2>2, <2>3, <2>4, <3>1 DEF Evidence
  <2>6. CASE /\ tcp.phase = "SYN_SEEN" /\ e = "SYN_ACK" /\ d # tcp.initiator_direction
             /\ tcp' = [tcp EXCEPT !.phase = "SYN_ACK_SEEN"]
    <3>1. tcp'.phase = "SYN_ACK_SEEN" /\ tcp'.handshake_completed = tcp.handshake_completed
      BY <1>4, <2>6
    <3>2. IsSynAck(n + 1)' /\ ~SentBy(n + 1, tcp.initiator_direction)'
      BY <1>2, <1>3, <2>4, <2>6 DEF IsSynAck, Has, SentBy
    <3>3. n + 1 \in 2 .. Len(accepted')
      BY <1>3
    <3>4. Answered'
      BY <3>2, <3>3 DEF Answered
    <3> QED BY <1>1, <1>5, <1>6, <1>7, <2>1, <2>3, <2>4, <2>6, <3>1, <3>4 DEF Evidence
  <2>7. CASE /\ tcp.phase = "SYN_ACK_SEEN" /\ e = "ACK" /\ d = tcp.initiator_direction
             /\ tcp' = [tcp EXCEPT !.phase = "ESTABLISHED", !.handshake_completed = TRUE]
    <3>1. tcp'.phase = "ESTABLISHED"
      BY <1>4, <2>7
    <3>2. IsBareAck(n + 1)' /\ SentBy(n + 1, tcp.initiator_direction)'
      BY <1>2, <1>3, <2>4, <2>7 DEF IsBareAck, Has, SentBy
    <3>3. Opened' /\ Answered
      BY <1>1, <1>7, <2>4, <2>7 DEF Evidence
    <3>4. PICK j \in 2 .. n : IsSynAck(j) /\ ~SentBy(j, tcp.initiator_direction)
      BY <1>3, <3>3 DEF Answered
    <3>5. accepted'[j] = accepted[j]
      BY <1>3
    <3>6. IsSynAck(j)' /\ ~SentBy(j, tcp.initiator_direction)'
      BY <2>4, <3>4, <3>5 DEF IsSynAck, Has, SentBy
    <3>7. /\ j \in 2 .. Len(accepted') /\ n + 1 \in 2 .. Len(accepted') /\ j < n + 1
          /\ \A i \in 1 .. n + 1 : ~Ends(i)'
      BY <1>3, <2>1 DEF NoEndSoFar
    <3>8. HandshakeSeen'
      BY <3>2, <3>3, <3>6, <3>7 DEF HandshakeSeen, Opened
    <3> QED BY <1>1, <1>6, <2>1, <2>3, <2>4, <3>1, <3>8 DEF Evidence
  <2> QED BY <1>15, <2>5, <2>6, <2>7 DEF Shaken
<1>17. tcp.phase # "UNOBSERVED"
  BY <1>1 DEF Evidence
<1>18. tcp' = ObserveHandshake(tcp, d, e) => Shaken(tcp, d, e, tcp')
  BY <1>1, <1>17, HandshakeCases
<1> QED BY <1>4, <1>8, <1>9, <1>10, <1>11, <1>12, <1>13, <1>14, <1>15, <1>16, <1>17, <1>18
        DEF Phases, Observed

(* The TCP state of the first packet. *)
LEMMA FirstObserved ==
  ASSUME NEW d \in Directions, NEW flags,
         NEW e, e = tcp_flow_event_from_flags(flags),
         NEW t, t = tcp_flow_state_observe(tcp_flow_state_init, d, flags)
  PROVE  /\ t.initialized /\ ~t.handshake_completed
         /\ \/ e = "RST" /\ t.phase = "RESET"
            \/ e = "FIN" /\ t.phase = "FIN_SEEN" /\ t.first_fin_direction = d
            \/ /\ e = "SYN" /\ t.phase = "SYN_SEEN" /\ t.first_fin_direction = UNKNOWN
               /\ t.initiator_direction = d
            \/ /\ e \notin {"RST", "FIN"} /\ t.phase = "MIDSTREAM"
               /\ t.first_fin_direction = UNKNOWN
<1> DEFINE s == tcp_flow_state_init
<1>1. /\ s \in TcpState /\ s.phase = "UNOBSERVED" /\ s.initialized /\ ~s.handshake_completed
      /\ s.first_fin_direction = UNKNOWN
      /\ DOMAIN s = {"phase", "initiator_direction", "first_fin_direction",
                     "handshake_completed", "initialized"}
  BY ZeroTypes DEF tcp_flow_state_init, ZeroTcpState
<1> HIDE DEF s
<1>2. Observed(s, d, e, t)
  BY <1>1, ObserveCases DEF s
<1> QED BY <1>1, <1>2 DEF Observed, ObserveHandshake

(* A first packet makes the invariant true. *)
LEMMA InitEstablishes == Init => IInv
<1> SUFFICES ASSUME Init PROVE IInv
  OBVIOUS
<1>1. PICK p \in Traffics[traffic] :
        RecordInitError(p) = "0" /\ record = flow_record_init(p) /\ accepted = <<p>>
  BY DEF Init
<1>2. p \in PacketInfo /\ traffic \in DOMAIN Traffics
  BY TrafficsAssumption DEF Init
<1>3. KeyError(p) = "0"
  BY <1>1 DEF RecordInitError
<1>4. DirectionOf(p) \in Directions /\ record \in FlowRecords /\ record.key = KeyOf(p)
  BY <1>1, <1>2, <1>3, KeyType, RecordInitType
<1>5. Len(accepted) = 1 /\ accepted[1] = p /\ accepted \in Seq(PacketInfo)
  BY <1>1, <1>2
<1>6. History
  BY <1>2, <1>3, <1>4, <1>5 DEF History
<1>7. record.key.protocol = p.protocol
  BY <1>4 DEF KeyOf
<1>8. tcp = IF p.protocol = "TCP"
            THEN tcp_flow_state_observe(tcp_flow_state_init, DirectionOf(p), p.tcp_flags)
            ELSE ZeroTcpState
  BY <1>1 DEF flow_record_init, tcp
<1>9. CASE p.protocol # "TCP"
  <2>1. tcp = ZeroTcpState /\ tcp.phase = "UNOBSERVED" /\ ~tcp.handshake_completed
    BY <1>8, <1>9 DEF ZeroTcpState
  <2> QED BY <1>6, <1>7, <1>9, <2>1
          DEF IInv, TcpOrNot, HandshakeIsReal, EndIsReal, CloseIsReal, ResetIsReal,
              HalfCloseIsOneSided
<1>10. CASE p.protocol = "TCP"
  <2> PICK e : e = tcp_flow_event_from_flags(p.tcp_flags)
    OBVIOUS
  <2>1. tcp = tcp_flow_state_observe(tcp_flow_state_init, DirectionOf(p), p.tcp_flags)
    BY <1>8, <1>10
  <2>2. /\ tcp.initialized /\ ~tcp.handshake_completed
        /\ \/ e = "RST" /\ tcp.phase = "RESET"
           \/ e = "FIN" /\ tcp.phase = "FIN_SEEN" /\ tcp.first_fin_direction = DirectionOf(p)
           \/ /\ e = "SYN" /\ tcp.phase = "SYN_SEEN" /\ tcp.first_fin_direction = UNKNOWN
              /\ tcp.initiator_direction = DirectionOf(p)
           \/ /\ e \notin {"RST", "FIN"} /\ tcp.phase = "MIDSTREAM"
              /\ tcp.first_fin_direction = UNKNOWN
    BY <1>4, <2>1, FirstObserved
  <2>3. /\ e = "RST" <=> "RST" \in p.tcp_flags
        /\ e = "FIN" => "FIN" \in p.tcp_flags
        /\ e \notin {"RST", "FIN"} => "RST" \notin p.tcp_flags /\ "FIN" \notin p.tcp_flags
        /\ e = "SYN" => "SYN" \in p.tcp_flags /\ "ACK" \notin p.tcp_flags
    BY EventFlags
  <2>4. /\ (e = "RST" <=> Has(1, "RST"))
        /\ (e = "FIN" => Has(1, "FIN") /\ SentBy(1, DirectionOf(p)))
        /\ (e \notin {"RST", "FIN"} => ~Ends(1))
        /\ (e = "SYN" => IsSyn(1) /\ SentBy(1, DirectionOf(p)))
    BY <1>5, <2>3 DEF Has, SentBy, Ends, IsSyn
  <2>5. /\ tcp.phase \in {"SYN_SEEN", "MIDSTREAM"} => NoEndSoFar
        /\ tcp.phase = "SYN_SEEN" => Opened
        /\ tcp.phase \in {"SYN_SEEN", "MIDSTREAM", "FIN_SEEN"} => NoResetSoFar
    BY <1>4, <1>5, <2>2, <2>4 DEF NoEndSoFar, NoResetSoFar, Opened, Ends
  <2>6. Evidence
    BY <2>2, <2>5 DEF Evidence
  <2>7. HandshakeIsReal
    BY <2>2 DEF HandshakeIsReal
  <2>8. CloseIsReal /\ ResetIsReal /\ HalfCloseIsOneSided
    BY <1>5, <2>2, <2>4, <2>5 DEF CloseIsReal, ResetIsReal, HalfCloseIsOneSided, NoResetSoFar
  <2> QED BY <1>6, <1>7, <1>10, <2>2, <2>6, <2>7, <2>8 DEF IInv, TcpOrNot, EndIsReal
<1> QED BY <1>9, <1>10

(* Every further packet keeps it. *)
LEMMA StepKeeps == IInv /\ [Next]_vars => IInv'
<1> SUFFICES ASSUME IInv, [Next]_vars PROVE IInv'
  OBVIOUS
<1>1. CASE UNCHANGED vars
  BY <1>1 DEF vars, IInv, History, TcpOrNot, Evidence, NoEndSoFar, NoResetSoFar, Opened,
              Answered, BothFinished, HandshakeIsReal, EndIsReal, CloseIsReal, ResetIsReal,
              HalfCloseIsOneSided, IsSyn, IsSynAck, IsBareAck, Ends, Has, SentBy, tcp
<1>2. ASSUME NEW p \in Traffics[traffic], Update(p)
      PROVE  IInv'
  <2>1. /\ p \in PacketInfo /\ RecordUpdateError(record, p) = "0"
        /\ record' = flow_record_update(record, p) /\ accepted' = Append(accepted, p)
        /\ traffic' = traffic /\ record \in FlowRecords
    BY <1>2, TrafficsAssumption DEF Update, IInv, History
  <2>2. /\ KeyError(p) = "0" /\ p.protocol = record.key.protocol
        /\ record' \in FlowRecords /\ record'.key = record.key
        /\ p.protocol # "TCP" => tcp' = tcp
    BY <2>1, UpdatedRecord DEF tcp
  <2>3. History'
    BY <2>1, <2>2, Appended DEF IInv, History
  <2>4. CASE record.key.protocol = "TCP"
    BY <2>1, <2>2, <2>3, <2>4, TcpStep DEF IInv, TcpOrNot
  <2>5. CASE record.key.protocol # "TCP"
    <3>1. tcp' = ZeroTcpState /\ tcp'.phase = "UNOBSERVED" /\ ~tcp'.handshake_completed
      BY <2>2, <2>5 DEF IInv, TcpOrNot, ZeroTcpState
    <3> QED BY <2>2, <2>3, <2>5, <3>1
            DEF IInv, TcpOrNot, HandshakeIsReal, EndIsReal, CloseIsReal, ResetIsReal,
                HalfCloseIsOneSided
  <2> QED BY <2>4, <2>5
<1> QED BY <1>1, <1>2 DEF Next

(* No packet takes a flow back. *)
NoRegress ==
  /\ tcp'.phase # tcp.phase => Rank[tcp'.phase] > Rank[tcp.phase]
  /\ tcp.handshake_completed => tcp'.handshake_completed
  /\ tcp.initiator_direction # UNKNOWN =>
       tcp'.initiator_direction = tcp.initiator_direction
  /\ tcp.first_fin_direction # UNKNOWN =>
       tcp'.first_fin_direction = tcp.first_fin_direction

LEMMA StepAdvances == IInv /\ [Next]_vars => [NoRegress]_vars
<1> SUFFICES ASSUME IInv, NEW p \in Traffics[traffic], Update(p) PROVE NoRegress
  BY DEF Next
<1>1. /\ p \in PacketInfo /\ RecordUpdateError(record, p) = "0"
      /\ record' = flow_record_update(record, p) /\ record \in FlowRecords
  BY TrafficsAssumption DEF Update, IInv, History
<1>2. /\ p.protocol = record.key.protocol /\ DirectionOf(p) \in Directions
      /\ tcp' = IF p.protocol = "TCP"
                THEN tcp_flow_state_observe(tcp, DirectionOf(p), p.tcp_flags) ELSE tcp
  BY <1>1, UpdatedRecord DEF tcp
<1>3. CASE p.protocol # "TCP"
  BY <1>2, <1>3 DEF NoRegress
<1>4. CASE p.protocol = "TCP"
  <2> PICK e : e = tcp_flow_event_from_flags(p.tcp_flags)
    OBVIOUS
  <2>1. tcp \in TcpState /\ Evidence
    BY <1>1, <1>2, <1>4 DEF IInv, TcpOrNot, FlowRecords, tcp
  <2>2. Observed(tcp, DirectionOf(p), e, tcp')
    BY <1>2, <1>4, <2>1, ObserveCases
  <2>3. tcp.phase # "UNOBSERVED"
    BY <2>1 DEF Evidence
  <2>4. tcp' = ObserveHandshake(tcp, DirectionOf(p), e) => Shaken(tcp, DirectionOf(p), e, tcp')
    BY <2>1, <2>3, HandshakeCases
  <2>5. DOMAIN tcp = {"phase", "initiator_direction", "first_fin_direction",
                      "handshake_completed", "initialized"}
        /\ tcp.phase \in Phases
    BY <2>1 DEF TcpState
  <2>6. \/ tcp' = tcp
        \/ Rank[tcp'.phase] > Rank[tcp.phase]
    <3>1. \/ tcp' = tcp
          \/ tcp.phase \notin {"UNOBSERVED", "CLOSED", "RESET"} /\ tcp'.phase = "RESET"
          \/ tcp.phase = "FIN_BIDIRECTIONAL" /\ tcp'.phase = "CLOSED"
          \/ tcp.phase = "FIN_SEEN" /\ tcp'.phase = "FIN_BIDIRECTIONAL"
          \/ /\ tcp.phase \in {"SYN_SEEN", "SYN_ACK_SEEN", "ESTABLISHED", "MIDSTREAM"}
             /\ tcp'.phase = "FIN_SEEN"
          \/ tcp.phase \in {"SYN_SEEN", "SYN_ACK_SEEN"} /\ tcp'.phase = "MIDSTREAM"
          \/ tcp.phase = "SYN_SEEN" /\ tcp'.phase = "SYN_ACK_SEEN"
          \/ tcp.phase = "SYN_ACK_SEEN" /\ tcp'.phase = "ESTABLISHED"
      BY <2>2, <2>3, <2>4, <2>5 DEF Observed, Shaken, Phases
    <3>2. /\ Rank["SYN_SEEN"] = 1 /\ Rank["SYN_ACK_SEEN"] = 2 /\ Rank["ESTABLISHED"] = 3
          /\ Rank["MIDSTREAM"] = 3 /\ Rank["FIN_SEEN"] = 4 /\ Rank["FIN_BIDIRECTIONAL"] = 5
          /\ Rank["CLOSED"] = 6 /\ Rank["RESET"] = 6
      BY DEF Rank
    <3>3. tcp.phase \in {"SYN_SEEN", "SYN_ACK_SEEN", "ESTABLISHED", "MIDSTREAM", "FIN_SEEN",
                         "FIN_BIDIRECTIONAL", "CLOSED", "RESET"}
      BY <2>3, <2>5 DEF Phases
    <3> QED BY <3>1, <3>2, <3>3
  <2>7. tcp.handshake_completed => tcp'.handshake_completed
    BY <2>2, <2>3, <2>4, <2>5 DEF Observed, Shaken
  <2>8. tcp'.initiator_direction = tcp.initiator_direction
    BY <2>2, <2>3, <2>4, <2>5 DEF Observed, Shaken
  <2>9. tcp.first_fin_direction # UNKNOWN =>
          tcp'.first_fin_direction = tcp.first_fin_direction
    BY <2>1, <2>2, <2>3, <2>4, <2>5 DEF Observed, Shaken, Evidence, Phases
  <2> QED BY <2>6, <2>7, <2>8, <2>9 DEF NoRegress
<1> QED BY <1>3, <1>4

-----------------------------------------------------------------------------
(* The theorems of the TCP state. *)

(* The invariant holds in every reachable state, for every traffic. *)
THEOREM Invariance == Spec => []IInv
<1>1. Init => IInv
  BY InitEstablishes
<1>2. IInv /\ [Next]_vars => IInv'
  BY StepKeeps
<1> QED BY <1>1, <1>2, PTL DEF Spec

(* A reported handshake happened among the packets of the record. *)
THEOREM HandshakeCorrect == Spec => []HandshakeIsReal
<1>1. IInv => HandshakeIsReal
  BY DEF IInv
<1> QED BY <1>1, Invariance, PTL

(* A reported end of the connection (closed, reset, half closed) is backed *)
(* by the packets of the record.                                           *)
THEOREM EndCorrect == Spec => []EndIsReal
<1>1. IInv => EndIsReal
  BY DEF IInv
<1> QED BY <1>1, Invariance, PTL

(* No packet takes the TCP state of a record back. *)
THEOREM PhaseCorrect == Spec => PhaseNeverRegresses
<1>1. IInv /\ [Next]_vars => [NoRegress]_vars
  BY StepAdvances
<1>2. Spec => []IInv
  BY Invariance
<1>3. Spec => [][NoRegress]_vars
  BY <1>1, <1>2, PTL DEF Spec
<1> QED BY <1>3 DEF NoRegress, PhaseNeverRegresses

-----------------------------------------------------------------------------
(* Which packets share a key. *)

AnyEndpoint == [address : Nat, port : Nat]

(* The order of endpoints is total, and equal only on equal endpoints. *)
LEMMA EndpointOrder ==
  ASSUME NEW x \in AnyEndpoint, NEW y \in AnyEndpoint
  PROVE  /\ EndpointAtOrBelow(x, y) \/ EndpointAtOrBelow(y, x)
         /\ EndpointAtOrBelow(x, y) /\ EndpointAtOrBelow(y, x) => x = y
<1>1. /\ x.address \in Nat /\ x.port \in Nat /\ y.address \in Nat /\ y.port \in Nat
      /\ x = [address |-> x.address, port |-> x.port]
      /\ y = [address |-> y.address, port |-> y.port]
  BY DEF AnyEndpoint
<1> QED BY <1>1 DEF EndpointAtOrBelow

LEMMA EndpointType ==
  ASSUME NEW p \in PacketInfo
  PROVE  SourceEndpoint(p) \in AnyEndpoint /\ DestinationEndpoint(p) \in AnyEndpoint
<1>1. /\ p.source \in Nat /\ p.destination \in Nat
      /\ p.source_port \in Nat /\ p.destination_port \in Nat
  BY AddressesAssumption, PortsAssumption DEF PacketInfo
<1> QED BY <1>1 DEF SourceEndpoint, DestinationEndpoint, FlowEndpoint, AnyEndpoint

(* The endpoints of two packets of one protocol agree as their ends do. *)
LEMMA EndsAgree ==
  ASSUME NEW p \in PacketInfo, NEW q \in PacketInfo, p.protocol = q.protocol
  PROVE  /\ EndsOf(p) = EndsOf(q) <=>
              \/ /\ SourceEndpoint(p) = SourceEndpoint(q)
                 /\ DestinationEndpoint(p) = DestinationEndpoint(q)
              \/ /\ SourceEndpoint(p) = DestinationEndpoint(q)
                 /\ DestinationEndpoint(p) = SourceEndpoint(q)
<1> USE DEF SourceEndpoint, DestinationEndpoint, FlowEndpoint
<1>0. ASSUME NEW a, NEW b, NEW c, NEW e
      PROVE  {a, b} = {c, e} <=> (a = c /\ b = e) \/ (a = e /\ b = c)
  OBVIOUS
<1>1. CASE p.protocol = "ICMP"
  <2>1. EndsOf(p) = {<<p.source>>, <<p.destination>>} /\ EndsOf(q) = {<<q.source>>, <<q.destination>>}
    BY <1>1 DEF EndsOf
  <2>2. \A a, b : <<a>> = <<b>> <=> a = b
    OBVIOUS
  <2>3. EndsOf(p) = EndsOf(q) <=>
          \/ p.source = q.source /\ p.destination = q.destination
          \/ p.source = q.destination /\ p.destination = q.source
    <3> DEFINE x == <<p.source>>
               y == <<p.destination>>
               u == <<q.source>>
               v == <<q.destination>>
    <3>1. EndsOf(p) = {x, y} /\ EndsOf(q) = {u, v}
      BY <2>1
    <3>2. /\ x = u <=> p.source = q.source
          /\ y = v <=> p.destination = q.destination
          /\ x = v <=> p.source = q.destination
          /\ y = u <=> p.destination = q.source
      BY <2>2
    <3> HIDE DEF x, y, u, v
    <3>3. EndsOf(p) = EndsOf(q) <=> (x = u /\ y = v) \/ (x = v /\ y = u)
      BY <1>0, <3>1
    <3> QED BY <3>2, <3>3
  <2> QED BY <1>1, <2>3
<1>2. CASE p.protocol # "ICMP"
  <2>1. /\ EndsOf(p) = {<<p.source, p.source_port>>, <<p.destination, p.destination_port>>}
        /\ EndsOf(q) = {<<q.source, q.source_port>>, <<q.destination, q.destination_port>>}
    BY <1>2 DEF EndsOf
  <2>2. \A a, b, c, e : <<a, b>> = <<c, e>> <=> a = c /\ b = e
    OBVIOUS
  <2>3. EndsOf(p) = EndsOf(q) <=>
          \/ /\ p.source = q.source /\ p.source_port = q.source_port
             /\ p.destination = q.destination /\ p.destination_port = q.destination_port
          \/ /\ p.source = q.destination /\ p.source_port = q.destination_port
             /\ p.destination = q.source /\ p.destination_port = q.source_port
    <3> DEFINE x == <<p.source, p.source_port>>
               y == <<p.destination, p.destination_port>>
               u == <<q.source, q.source_port>>
               v == <<q.destination, q.destination_port>>
    <3>1. EndsOf(p) = {x, y} /\ EndsOf(q) = {u, v}
      BY <2>1
    <3>2. /\ x = u <=> p.source = q.source /\ p.source_port = q.source_port
          /\ y = v <=> p.destination = q.destination /\ p.destination_port = q.destination_port
          /\ x = v <=> p.source = q.destination /\ p.source_port = q.destination_port
          /\ y = u <=> p.destination = q.source /\ p.destination_port = q.source_port
      BY <2>2
    <3> HIDE DEF x, y, u, v
    <3>3. EndsOf(p) = EndsOf(q) <=> (x = u /\ y = v) \/ (x = v /\ y = u)
      BY <1>0, <3>1
    <3> QED BY <3>2, <3>3
  <2>4. SourceEndpoint(p) = SourceEndpoint(q) <=>
          p.source = q.source /\ p.source_port = q.source_port
    BY <1>2
  <2>5. DestinationEndpoint(p) = DestinationEndpoint(q) <=>
          p.destination = q.destination /\ p.destination_port = q.destination_port
    BY <1>2
  <2>6. SourceEndpoint(p) = DestinationEndpoint(q) <=>
          p.source = q.destination /\ p.source_port = q.destination_port
    BY <1>2
  <2>7. DestinationEndpoint(p) = SourceEndpoint(q) <=>
          p.destination = q.source /\ p.destination_port = q.source_port
    BY <1>2
  <2> QED BY <2>3, <2>4, <2>5, <2>6, <2>7
<1> QED BY <1>1, <1>2

(* Two packets have one key exactly when they are of one conversation. *)
LEMMA OneKey ==
  ASSUME NEW p \in PacketInfo, NEW q \in PacketInfo
  PROVE  KeyOf(p) = KeyOf(q) <=> SameConversation(p, q)
<1> DEFINE s == SourceEndpoint(p)
           d == DestinationEndpoint(p)
           s2 == SourceEndpoint(q)
           d2 == DestinationEndpoint(q)
<1>1. s \in AnyEndpoint /\ d \in AnyEndpoint /\ s2 \in AnyEndpoint /\ d2 \in AnyEndpoint
  BY EndpointType
<1>2. /\ KeyOf(p).protocol = p.protocol /\ KeyOf(q).protocol = q.protocol
      /\ IF EndpointAtOrBelow(s, d)
         THEN KeyOf(p).endpoint_a = s /\ KeyOf(p).endpoint_b = d
         ELSE KeyOf(p).endpoint_a = d /\ KeyOf(p).endpoint_b = s
      /\ IF EndpointAtOrBelow(s2, d2)
         THEN KeyOf(q).endpoint_a = s2 /\ KeyOf(q).endpoint_b = d2
         ELSE KeyOf(q).endpoint_a = d2 /\ KeyOf(q).endpoint_b = s2
      /\ KeyOf(p) = [endpoint_a |-> KeyOf(p).endpoint_a, endpoint_b |-> KeyOf(p).endpoint_b,
                     protocol |-> p.protocol]
      /\ KeyOf(q) = [endpoint_a |-> KeyOf(q).endpoint_a, endpoint_b |-> KeyOf(q).endpoint_b,
                     protocol |-> q.protocol]
  BY DEF KeyOf
<1>3. CASE p.protocol # q.protocol
  BY <1>2, <1>3 DEF SameConversation
<1>4. CASE p.protocol = q.protocol
  <2>1. SameConversation(p, q) <=> (s = s2 /\ d = d2) \/ (s = d2 /\ d = s2)
    BY <1>4, EndsAgree DEF SameConversation
  <2>2. /\ EndpointAtOrBelow(s, d) \/ EndpointAtOrBelow(d, s)
        /\ EndpointAtOrBelow(s, d) /\ EndpointAtOrBelow(d, s) => s = d
        /\ EndpointAtOrBelow(s2, d2) \/ EndpointAtOrBelow(d2, s2)
        /\ EndpointAtOrBelow(s2, d2) /\ EndpointAtOrBelow(d2, s2) => s2 = d2
    BY <1>1, EndpointOrder
  <2> HIDE DEF s, d, s2, d2
  <2> QED BY <1>2, <1>4, <2>1, <2>2
<1> QED BY <1>3, <1>4

(* Between two different ends the direction says who sent. *)
LEMMA WhoSent ==
  ASSUME NEW p \in PacketInfo, NEW q \in PacketInfo, SameConversation(p, q),
         Cardinality(EndsOf(p)) = 2
  PROVE  DirectionOf(q) = DirectionOf(p) <=> SourceEndpoint(q) = SourceEndpoint(p)
<1> DEFINE s == SourceEndpoint(p)
           d == DestinationEndpoint(p)
           s2 == SourceEndpoint(q)
           d2 == DestinationEndpoint(q)
<1>1. s \in AnyEndpoint /\ d \in AnyEndpoint /\ s2 \in AnyEndpoint /\ d2 \in AnyEndpoint
  BY EndpointType
<1>2. s # d
  <2> SUFFICES ASSUME s = d PROVE FALSE
    OBVIOUS
  <2>1. \E x : EndsOf(p) = {x}
    BY DEF EndsOf, SourceEndpoint, DestinationEndpoint, FlowEndpoint
  <2>2. Cardinality(EndsOf(p)) = 1
    BY <2>1, FS_Singleton
  <2> QED BY <2>2
<1>3. (s = s2 /\ d = d2) \/ (s = d2 /\ d = s2)
  BY EndsAgree DEF SameConversation
<1>4. /\ EndpointAtOrBelow(s, d) \/ EndpointAtOrBelow(d, s)
      /\ ~(EndpointAtOrBelow(s, d) /\ EndpointAtOrBelow(d, s))
  BY <1>1, <1>2, EndpointOrder
<1>5. /\ DirectionOf(p) = IF EndpointAtOrBelow(s, d) THEN A_TO_B ELSE B_TO_A
      /\ DirectionOf(q) = IF EndpointAtOrBelow(s2, d2) THEN A_TO_B ELSE B_TO_A
      /\ A_TO_B # B_TO_A
  BY DEF DirectionOf, A_TO_B, B_TO_A
<1> HIDE DEF s, d, s2, d2
<1>6. DirectionOf(q) = DirectionOf(p) <=> s2 = s
  BY <1>2, <1>3, <1>4, <1>5
<1> QED BY <1>6 DEF s, s2

-----------------------------------------------------------------------------
(* The summary of the packets. *)

(* The packets have the record's key, and its TCP state is in use exactly  *)
(* if its protocol is TCP.                                                 *)
OfOneKey ==
  /\ traffic \in DOMAIN Traffics
  /\ record \in FlowRecords
  /\ accepted \in Seq(PacketInfo) /\ 1 <= Len(accepted)
  /\ \A i \in 1 .. Len(accepted) :
       KeyError(accepted[i]) = "0" /\ KeyOf(accepted[i]) = record.key
  /\ record.tcp_state.initialized = (record.key.protocol = "TCP")
  /\ record.key.protocol # "TCP" => record.tcp_state = ZeroTcpState

SummaryInv == OfOneKey /\ SummaryIsExact

(* The packets of a direction are finitely many, with lengths in Nat. *)
LEMMA SentFinite ==
  ASSUME accepted \in Seq(PacketInfo), NEW d
  PROVE  /\ DOMAIN accepted = 1 .. Len(accepted) /\ Len(accepted) \in Nat
         /\ SentIn(d) \subseteq 1 .. Len(accepted) /\ IsFiniteSet(SentIn(d))
         /\ Cardinality(SentIn(d)) \in Nat
         /\ \A i \in 1 .. Len(accepted) :
              /\ CapturedLengths[i] = accepted[i].captured_length
              /\ WireLengths[i] = accepted[i].wire_length
              /\ CapturedLengths[i] \in Nat /\ WireLengths[i] \in Nat
<1>1. DOMAIN accepted = 1 .. Len(accepted) /\ Len(accepted) \in Nat
  OBVIOUS
<1>2. SentIn(d) \subseteq 1 .. Len(accepted)
  BY <1>1 DEF SentIn
<1>3. IsFiniteSet(SentIn(d)) /\ Cardinality(SentIn(d)) \in Nat
  <2>1. IsFiniteSet(1 .. Len(accepted))
    BY <1>1, FS_Interval
  <2>2. IsFiniteSet(SentIn(d))
    BY <1>2, <2>1, FS_Subset
  <2> QED BY <2>2, FS_CardinalityType
<1>4. \A i \in 1 .. Len(accepted) :
        accepted[i].captured_length \in Nat /\ accepted[i].wire_length \in Nat
  <2> SUFFICES ASSUME NEW i \in 1 .. Len(accepted)
               PROVE  accepted[i].captured_length \in Nat /\ accepted[i].wire_length \in Nat
    OBVIOUS
  <2>1. accepted[i] \in PacketInfo
    OBVIOUS
  <2> QED BY <2>1 DEF PacketInfo
<1> QED BY <1>1, <1>2, <1>3, <1>4 DEF CapturedLengths, WireLengths

(* One more packet adds one index to its direction and none to the other. *)
LEMMA OneMorePacket ==
  ASSUME accepted \in Seq(PacketInfo), NEW p \in PacketInfo, accepted' = Append(accepted, p),
         NEW d
  PROVE  StatsOf(d)' = IF DirectionOf(p) = d
                       THEN flow_direction_stats_add_packet(StatsOf(d), p) ELSE StatsOf(d)
<1> DEFINE n == Len(accepted)
           S == SentIn(d)
           T == SentIn(d)'
<1>1. /\ accepted' \in Seq(PacketInfo) /\ n \in Nat /\ Len(accepted') = n + 1
      /\ accepted'[n + 1] = p
      /\ \A i \in 1 .. n : accepted'[i] = accepted[i]
      /\ DOMAIN accepted = 1 .. n /\ DOMAIN accepted' = 1 .. n + 1
  BY Appended
<1>2. /\ S \subseteq 1 .. n /\ IsFiniteSet(S) /\ n + 1 \notin S
      /\ \A i \in 1 .. n : CapturedLengths[i] \in Nat /\ WireLengths[i] \in Nat
  BY <1>1, SentFinite
<1>3. /\ \A i \in 1 .. n : CapturedLengths'[i] = CapturedLengths[i]
      /\ CapturedLengths'[n + 1] = p.captured_length
      /\ \A i \in 1 .. n : WireLengths'[i] = WireLengths[i]
      /\ WireLengths'[n + 1] = p.wire_length
  BY <1>1 DEF CapturedLengths, WireLengths
<1>4. T = IF DirectionOf(p) = d THEN S \cup {n + 1} ELSE S
  BY <1>1 DEF SentIn
<1>5. p.captured_length \in Nat /\ p.wire_length \in Nat
  BY DEF PacketInfo
<1>6. /\ SumFunctionOnSet(CapturedLengths', S) = SumFunctionOnSet(CapturedLengths, S)
      /\ SumFunctionOnSet(WireLengths', S) = SumFunctionOnSet(WireLengths, S)
      /\ SumFunctionOnSet(CapturedLengths, S) \in Int /\ SumFunctionOnSet(WireLengths, S) \in Int
  <2>1. /\ \A i \in S : CapturedLengths'[i] = CapturedLengths[i]
        /\ \A i \in S : WireLengths'[i] = WireLengths[i]
        /\ \A i \in S : CapturedLengths[i] \in Int
        /\ \A i \in S : WireLengths[i] \in Int
    BY <1>2, <1>3
  <2> HIDE DEF S
  <2> QED BY <1>2, <2>1, SumSame, SumType
<1>7. /\ SumFunctionOnSet(CapturedLengths', S \cup {n + 1}) =
           p.captured_length + SumFunctionOnSet(CapturedLengths, S)
      /\ SumFunctionOnSet(WireLengths', S \cup {n + 1}) =
           p.wire_length + SumFunctionOnSet(WireLengths, S)
      /\ Cardinality(S \cup {n + 1}) = Cardinality(S) + 1
  <2>1. /\ \A i \in S \cup {n + 1} : CapturedLengths'[i] \in Int
        /\ \A i \in S \cup {n + 1} : WireLengths'[i] \in Int
    <3> HIDE DEF S, n
    <3>1. ASSUME NEW i \in S \cup {n + 1}
          PROVE  CapturedLengths'[i] \in Int /\ WireLengths'[i] \in Int
      <4>1. CASE i = n + 1
        BY <1>3, <1>5, <4>1
      <4>2. CASE i \in 1 .. n
        <5>1. CapturedLengths[i] \in Nat /\ WireLengths[i] \in Nat
          BY <1>2, <4>2
        <5> QED BY <1>3, <4>2, <5>1
      <4> QED BY <1>2, <4>1, <4>2
    <3> QED BY <3>1
  <2> HIDE DEF S, n
  <2>2. SumFunctionOnSet(CapturedLengths', S \cup {n + 1}) =
          CapturedLengths'[n + 1] + SumFunctionOnSet(CapturedLengths', S)
    BY <1>2, <2>1, SumAdd
  <2>3. SumFunctionOnSet(WireLengths', S \cup {n + 1}) =
          WireLengths'[n + 1] + SumFunctionOnSet(WireLengths', S)
    BY <1>2, <2>1, SumAdd
  <2>4. Cardinality(S \cup {n + 1}) = Cardinality(S) + 1
    BY <1>2, FS_AddElement
  <2> QED BY <1>3, <1>6, <2>2, <2>3, <2>4
<1>8. StatsOf(d)' = [packet_count |-> Cardinality(T),
                     captured_byte_count |-> SumFunctionOnSet(CapturedLengths', T),
                     wire_byte_count |-> SumFunctionOnSet(WireLengths', T)]
  BY DEF StatsOf
<1>9. StatsOf(d) = [packet_count |-> Cardinality(S),
                    captured_byte_count |-> SumFunctionOnSet(CapturedLengths, S),
                    wire_byte_count |-> SumFunctionOnSet(WireLengths, S)]
  BY DEF StatsOf
<1> HIDE DEF S, T, n
<1>10. CASE DirectionOf(p) = d
  <2>1. T = S \cup {n + 1}
    BY <1>4, <1>10
  <2>2. flow_direction_stats_add_packet(StatsOf(d), p) =
          [packet_count |-> Cardinality(S) + 1,
           captured_byte_count |-> SumFunctionOnSet(CapturedLengths, S) + p.captured_length,
           wire_byte_count |-> SumFunctionOnSet(WireLengths, S) + p.wire_length]
    BY <1>9 DEF flow_direction_stats_add_packet
  <2>3. /\ p.captured_length + SumFunctionOnSet(CapturedLengths, S) =
             SumFunctionOnSet(CapturedLengths, S) + p.captured_length
        /\ p.wire_length + SumFunctionOnSet(WireLengths, S) =
             SumFunctionOnSet(WireLengths, S) + p.wire_length
    BY <1>5, <1>6
  <2> QED BY <1>7, <1>8, <1>10, <2>1, <2>2, <2>3
<1>11. CASE DirectionOf(p) # d
  <2>1. T = S
    BY <1>4, <1>11
  <2> QED BY <1>6, <1>8, <1>9, <1>11, <2>1
<1> QED BY <1>10, <1>11

(* Observing a packet keeps a TCP state in use. *)
LEMMA InitializedKept ==
  ASSUME NEW s \in TcpState, NEW d, NEW flags
  PROVE  tcp_flow_state_observe(s, d, flags).initialized = s.initialized
<1> PICK e : e = tcp_flow_event_from_flags(flags)
  OBVIOUS
<1> PICK t : t = tcp_flow_state_observe(s, d, flags)
  OBVIOUS
<1>1. Observed(s, d, e, t)
  BY ObserveCases
<1>2. DOMAIN s = {"phase", "initiator_direction", "first_fin_direction",
                  "handshake_completed", "initialized"}
  BY DEF TcpState
<1> QED BY <1>1, <1>2 DEF Observed, ObserveHandshake

(* The order of timestamps. *)
LEMMA TimeOrder ==
  ASSUME NEW x \in Timestamp, NEW y \in Timestamp, NEW z \in Timestamp
  PROVE  /\ TimeAtOrBefore(x, x)
         /\ TimeAtOrBefore(x, y) <=> ~TimeBefore(y, x)
         /\ TimeBefore(x, y) => TimeAtOrBefore(x, y)
         /\ TimeAtOrBefore(x, y) /\ TimeAtOrBefore(y, z) => TimeAtOrBefore(x, z)
<1>1. /\ x.seconds \in Int /\ y.seconds \in Int /\ z.seconds \in Int
      /\ x.microseconds \in Int /\ y.microseconds \in Int /\ z.microseconds \in Int
  BY TimestampParts
<1> QED BY <1>1 DEF TimeAtOrBefore, TimeBefore

(* A first packet makes the summary exact. *)
LEMMA InitSummary == Init => SummaryInv
<1> SUFFICES ASSUME Init PROVE SummaryInv
  OBVIOUS
<1>1. PICK p \in Traffics[traffic] :
        RecordInitError(p) = "0" /\ record = flow_record_init(p) /\ accepted = <<p>>
  BY DEF Init
<1>2. p \in PacketInfo /\ traffic \in DOMAIN Traffics
  BY TrafficsAssumption DEF Init
<1>3. KeyError(p) = "0"
  BY <1>1 DEF RecordInitError
<1>4. /\ DirectionOf(p) \in Directions /\ record \in FlowRecords /\ record.key = KeyOf(p)
      /\ record.key.protocol = p.protocol
  BY <1>1, <1>2, <1>3, KeyType, RecordInitType DEF KeyOf
<1>5. Len(accepted) = 1 /\ accepted[1] = p /\ accepted \in Seq(PacketInfo)
      /\ DOMAIN accepted = {1}
  BY <1>1, <1>2
<1>6. /\ record.tcp_state.initialized = (record.key.protocol = "TCP")
      /\ record.key.protocol # "TCP" => record.tcp_state = ZeroTcpState
  <2>1. record.tcp_state = IF p.protocol = "TCP"
                           THEN tcp_flow_state_observe(tcp_flow_state_init, DirectionOf(p), p.tcp_flags)
                           ELSE ZeroTcpState
    BY <1>1 DEF flow_record_init
  <2>2. ~ZeroTcpState.initialized
    BY DEF ZeroTcpState
  <2>3. tcp_flow_state_observe(tcp_flow_state_init, DirectionOf(p), p.tcp_flags).initialized
    BY <1>4, FirstObserved
  <2>4. record.tcp_state.initialized \in BOOLEAN
    BY <1>4 DEF FlowRecords, TcpState
  <2>5. record.tcp_state.initialized <=> p.protocol = "TCP"
    BY <2>1, <2>2, <2>3
  <2>6. record.tcp_state.initialized = (p.protocol = "TCP")
    BY <2>4, <2>5
  <2> QED BY <1>4, <2>1, <2>6
<1>7. OfOneKey
  BY <1>2, <1>3, <1>4, <1>5, <1>6 DEF OfOneKey
<1>8. \A d \in Directions : record.stats[d] = StatsOf(d)
  <2> SUFFICES ASSUME NEW d \in Directions PROVE record.stats[d] = StatsOf(d)
    OBVIOUS
  <2>1. record.stats[d] = IF d = DirectionOf(p)
                          THEN flow_direction_stats_add_packet(ZeroStats, p) ELSE ZeroStats
    BY <1>1 DEF flow_record_init
  <2>2. CapturedLengths[1] = p.captured_length /\ WireLengths[1] = p.wire_length
    BY <1>5 DEF CapturedLengths, WireLengths
  <2>3. p.captured_length \in Nat /\ p.wire_length \in Nat
    BY <1>2 DEF PacketInfo
  <2>4. CASE d = DirectionOf(p)
    <3>1. SentIn(d) = {1}
      BY <1>5, <2>4 DEF SentIn
    <3>2. Cardinality({1}) = 1 /\ IsFiniteSet({1}) /\ {1} \ {1} = {}
      BY FS_Singleton
    <3>3. /\ SumFunctionOnSet(CapturedLengths, {1}) =
               CapturedLengths[1] + SumFunctionOnSet(CapturedLengths, {})
          /\ SumFunctionOnSet(WireLengths, {1}) =
               WireLengths[1] + SumFunctionOnSet(WireLengths, {})
      <4>1. /\ \A x \in {1} : CapturedLengths[x] \in Int
            /\ \A x \in {1} : WireLengths[x] \in Int
        BY <2>2, <2>3
      <4> QED BY <3>2, <4>1, SumRemove
    <3>4. StatsOf(d) = [packet_count |-> 1, captured_byte_count |-> p.captured_length,
                        wire_byte_count |-> p.wire_length]
      BY <2>2, <2>3, <3>1, <3>2, <3>3, SumEmpty DEF StatsOf
    <3> QED BY <2>1, <2>3, <2>4, <3>4 DEF flow_direction_stats_add_packet, ZeroStats
  <2>5. CASE d # DirectionOf(p)
    <3>1. SentIn(d) = {}
      BY <1>5, <2>5 DEF SentIn
    <3> QED BY <2>1, <2>5, <3>1, SumEmpty, FS_EmptySet DEF StatsOf, ZeroStats
  <2> QED BY <2>4, <2>5
<1>9. /\ record.first_seen = p.timestamp /\ record.last_seen = p.timestamp
      /\ p.timestamp \in Timestamp
  BY <1>1, <1>2 DEF flow_record_init, PacketInfo
<1>10. TimeAtOrBefore(p.timestamp, p.timestamp)
  BY <1>9, TimeOrder
<1> QED BY <1>5, <1>7, <1>8, <1>9, <1>10 DEF SummaryInv, SummaryIsExact

(* One more packet keeps it exact. *)
LEMMA StepSummary == SummaryInv /\ [Next]_vars => SummaryInv'
<1> SUFFICES ASSUME SummaryInv, [Next]_vars PROVE SummaryInv'
  OBVIOUS
<1>1. CASE UNCHANGED vars
  BY <1>1 DEF vars, SummaryInv, OfOneKey, SummaryIsExact, StatsOf, SentIn, CapturedLengths,
              WireLengths
<1>2. ASSUME NEW p \in Traffics[traffic], Update(p)
      PROVE  SummaryInv'
  <2> DEFINE n == Len(accepted)
  <2>1. /\ p \in PacketInfo /\ RecordUpdateError(record, p) = "0"
        /\ record' = flow_record_update(record, p) /\ accepted' = Append(accepted, p)
        /\ traffic' = traffic /\ record \in FlowRecords /\ accepted \in Seq(PacketInfo)
    BY <1>2, TrafficsAssumption DEF Update, SummaryInv, OfOneKey
  <2>2. /\ KeyError(p) = "0" /\ DirectionOf(p) \in Directions /\ record.key = KeyOf(p)
        /\ p.protocol = record.key.protocol
        /\ record' \in FlowRecords /\ record'.key = record.key
        /\ record'.tcp_state =
              (IF p.protocol = "TCP"
               THEN tcp_flow_state_observe(record.tcp_state, DirectionOf(p), p.tcp_flags)
               ELSE record.tcp_state)
    BY <2>1, UpdatedRecord DEF RecordUpdateError
  <2>3. /\ accepted' \in Seq(PacketInfo) /\ n \in Nat /\ Len(accepted') = n + 1
        /\ accepted'[n + 1] = p
        /\ \A i \in 1 .. n : accepted'[i] = accepted[i]
        /\ DOMAIN accepted = 1 .. n /\ DOMAIN accepted' = 1 .. n + 1
    BY <2>1, Appended
  <2>4. /\ record'.tcp_state.initialized = (record'.key.protocol = "TCP")
        /\ record'.key.protocol # "TCP" => record'.tcp_state = ZeroTcpState
    <3>1. record.tcp_state \in TcpState
      BY <2>1 DEF FlowRecords
    <3>2. record'.tcp_state.initialized = record.tcp_state.initialized
      <4>1. CASE p.protocol = "TCP"
        BY <2>2, <3>1, <4>1, InitializedKept
      <4> QED BY <2>2, <4>1
    <3> QED BY <2>2, <3>2 DEF SummaryInv, OfOneKey
  <2>5. OfOneKey'
    <3>1. \A i \in 1 .. n + 1 :
            KeyError(accepted'[i]) = "0" /\ KeyOf(accepted'[i]) = record'.key
      BY <2>2, <2>3 DEF SummaryInv, OfOneKey
    <3>2. 1 <= n + 1
      BY <2>3
    <3> QED BY <2>1, <2>2, <2>3, <2>4, <3>1, <3>2 DEF SummaryInv, OfOneKey
  <2>6. \A d \in Directions : record'.stats[d] = StatsOf(d)'
    <3>1. record'.stats = [record.stats EXCEPT ![DirectionOf(p)] =
                             flow_direction_stats_add_packet(@, p)]
          /\ record.stats \in [Directions -> DirectionStats]
      BY <2>1 DEF flow_record_update, FlowRecords
    <3> SUFFICES ASSUME NEW d \in Directions PROVE record'.stats[d] = StatsOf(d)'
      OBVIOUS
    <3>2. record.stats[d] = StatsOf(d)
      BY DEF SummaryInv, SummaryIsExact
    <3>3. record'.stats[d] = IF DirectionOf(p) = d
                             THEN flow_direction_stats_add_packet(record.stats[d], p)
                             ELSE record.stats[d]
      BY <2>2, <3>1
    <3>4. StatsOf(d)' = IF DirectionOf(p) = d
                        THEN flow_direction_stats_add_packet(StatsOf(d), p) ELSE StatsOf(d)
      BY <2>1, OneMorePacket
    <3> QED BY <3>2, <3>3, <3>4
  <2>7. /\ record.first_seen \in Timestamp /\ record.last_seen \in Timestamp
        /\ p.timestamp \in Timestamp
        /\ \A i \in 1 .. n : accepted[i].timestamp \in Timestamp
    <3>1. \A i \in 1 .. n : accepted[i] \in PacketInfo
      BY <2>1
    <3>2. \A q \in PacketInfo : q.timestamp \in Timestamp
      BY DEF PacketInfo
    <3> QED BY <2>1, <3>1, <3>2 DEF FlowRecords
  <2>8. /\ record'.first_seen = IF TimeBefore(p.timestamp, record.first_seen)
                                THEN p.timestamp ELSE record.first_seen
        /\ record'.last_seen = IF TimeBefore(record.last_seen, p.timestamp)
                               THEN p.timestamp ELSE record.last_seen
    BY <2>1 DEF flow_record_update, FlowRecords
  <2>9. /\ \A i \in 1 .. n : /\ TimeAtOrBefore(record.first_seen, accepted[i].timestamp)
                             /\ TimeAtOrBefore(accepted[i].timestamp, record.last_seen)
        /\ \E i \in 1 .. n : record.first_seen = accepted[i].timestamp
        /\ \E i \in 1 .. n : record.last_seen = accepted[i].timestamp
    BY <2>3 DEF SummaryInv, SummaryIsExact
  <2>10. /\ record'.first_seen \in Timestamp /\ record'.last_seen \in Timestamp
         /\ TimeAtOrBefore(record'.first_seen, record.first_seen)
         /\ TimeAtOrBefore(record'.first_seen, p.timestamp)
         /\ TimeAtOrBefore(record.last_seen, record'.last_seen)
         /\ TimeAtOrBefore(p.timestamp, record'.last_seen)
    BY <2>7, <2>8, TimeOrder
  <2>11. \A i \in 1 .. n : /\ TimeAtOrBefore(record'.first_seen, accepted[i].timestamp)
                           /\ TimeAtOrBefore(accepted[i].timestamp, record'.last_seen)
    <3> TAKE i \in 1 .. n
    <3>1. accepted[i].timestamp \in Timestamp
      BY <2>7
    <3>2. TimeAtOrBefore(record.first_seen, accepted[i].timestamp)
          /\ TimeAtOrBefore(accepted[i].timestamp, record.last_seen)
      BY <2>9
    <3> QED BY <2>7, <2>10, <3>1, <3>2, TimeOrder
  <2>12. \A i \in 1 .. n + 1 : /\ TimeAtOrBefore(record'.first_seen, accepted'[i].timestamp)
                               /\ TimeAtOrBefore(accepted'[i].timestamp, record'.last_seen)
    BY <2>3, <2>10, <2>11
  <2>13. /\ \E i \in 1 .. n + 1 : record'.first_seen = accepted'[i].timestamp
         /\ \E i \in 1 .. n + 1 : record'.last_seen = accepted'[i].timestamp
    <3>1. \A i \in 1 .. n : i \in 1 .. n + 1
      BY <2>3
    <3>2. n + 1 \in 1 .. n + 1
      BY <2>3
    <3>3. \E i \in 1 .. n + 1 : record'.first_seen = accepted'[i].timestamp
      BY <2>3, <2>8, <2>9, <3>1, <3>2
    <3>4. \E i \in 1 .. n + 1 : record'.last_seen = accepted'[i].timestamp
      BY <2>3, <2>8, <2>9, <3>1, <3>2
    <3> QED BY <3>3, <3>4
  <2>14. SummaryIsExact'
    BY <2>3, <2>6, <2>12, <2>13 DEF SummaryIsExact
  <2> QED BY <2>5, <2>14 DEF SummaryInv
<1> QED BY <1>1, <1>2 DEF Next

(* What the summary says of the record. *)
LEMMA SummaryParts ==
  ASSUME SummaryInv
  PROVE  /\ accepted \in Seq(PacketInfo) /\ Len(accepted) \in Nat /\ 1 <= Len(accepted)
         /\ DOMAIN accepted = 1 .. Len(accepted)
         /\ \A i \in 1 .. Len(accepted) : accepted[i] \in PacketInfo
         /\ \A p \in Traffics[traffic] : p \in PacketInfo
         /\ record \in FlowRecords /\ record.key = KeyOf(accepted[1])
         /\ KeyError(accepted[1]) = "0"
         /\ record.tcp_state.initialized = (record.key.protocol = "TCP")
         /\ \A d \in Directions : record.stats[d] = StatsOf(d)
<1>1. /\ accepted \in Seq(PacketInfo) /\ 1 <= Len(accepted) /\ record \in FlowRecords
      /\ \A i \in 1 .. Len(accepted) :
           KeyError(accepted[i]) = "0" /\ KeyOf(accepted[i]) = record.key
      /\ record.tcp_state.initialized = (record.key.protocol = "TCP")
      /\ \A d \in Directions : record.stats[d] = StatsOf(d)
      /\ traffic \in DOMAIN Traffics
  BY DEF SummaryInv, OfOneKey, SummaryIsExact
<1>2. /\ Len(accepted) \in Nat /\ DOMAIN accepted = 1 .. Len(accepted)
      /\ \A i \in 1 .. Len(accepted) : accepted[i] \in PacketInfo
  BY <1>1
<1>3. 1 \in 1 .. Len(accepted)
  BY <1>1, <1>2
<1> QED BY <1>1, <1>2, <1>3, TrafficsAssumption

(* The protocol test of flow_record_update never fails once the keys agree. *)
LEMMA NeverInvalid ==
  ASSUME SummaryInv, NEW p \in Traffics[traffic], KeyError(p) = "0"
  PROVE  /\ RecordUpdateError(record, p) =
              (IF record.key # KeyOf(p) THEN "ENOENT"
               ELSE IF StatsOverflow(StatsOf(DirectionOf(p)), p) THEN "EOVERFLOW" ELSE "0")
         /\ record.key = KeyOf(p) <=> SameConversation(accepted[1], p)
<1>1. /\ p \in PacketInfo /\ 1 \in 1 .. Len(accepted) /\ accepted[1] \in PacketInfo
      /\ record.key = KeyOf(accepted[1])
      /\ record.tcp_state.initialized = (record.key.protocol = "TCP")
      /\ \A d \in Directions : record.stats[d] = StatsOf(d)
  BY SummaryParts
<1>2. DirectionOf(p) \in Directions
  BY <1>1, KeyType
<1>3. CASE record.key # KeyOf(p)
  <2>1. RecordUpdateError(record, p) = "ENOENT"
    BY <1>3 DEF RecordUpdateError
  <2> QED BY <1>1, <1>3, <2>1, OneKey
<1>4. CASE record.key = KeyOf(p)
  <2>1. record.key.protocol = p.protocol
    BY <1>4 DEF KeyOf
  <2>2. RecordUpdateError(record, p) =
          (IF record.tcp_state.initialized # (p.protocol = "TCP") THEN "EINVAL"
           ELSE IF StatsOverflow(record.stats[DirectionOf(p)], p) THEN "EOVERFLOW" ELSE "0")
    BY <1>4 DEF RecordUpdateError
  <2>3. record.stats[DirectionOf(p)] = StatsOf(DirectionOf(p))
    BY <1>1, <1>2
  <2>4. record.tcp_state.initialized = (p.protocol = "TCP")
    BY <1>1, <2>1
  <2>5. RecordUpdateError(record, p) =
          (IF StatsOverflow(record.stats[DirectionOf(p)], p) THEN "EOVERFLOW" ELSE "0")
    BY <2>2, <2>4, Zenon
  <2> QED BY <1>1, <1>4, <2>3, <2>5, OneKey
<1> QED BY <1>3, <1>4

LEMMA ConversationFollows == SummaryInv => OneConversation
<1> SUFFICES ASSUME SummaryInv PROVE OneConversation
  OBVIOUS
<1>1. ASSUME NEW p \in Traffics[traffic], KeyError(p) = "0"
      PROVE  RecordUpdateError(record, p) = "ENOENT" <=> ~SameConversation(accepted[1], p)
  BY <1>1, NeverInvalid
<1>2. ASSUME NEW i \in DOMAIN accepted, Cardinality(EndsOf(accepted[1])) = 2
      PROVE  DirectionOf(accepted[i]) = DirectionOf(accepted[1]) <=>
               SourceEndpoint(accepted[i]) = SourceEndpoint(accepted[1])
  <2>1. /\ 1 \in 1 .. Len(accepted) /\ accepted[1] \in PacketInfo
        /\ i \in 1 .. Len(accepted) /\ accepted[i] \in PacketInfo
    BY SummaryParts
  <2>2. KeyOf(accepted[1]) = KeyOf(accepted[i])
    BY <2>1 DEF SummaryInv, OfOneKey
  <2>3. SameConversation(accepted[1], accepted[i])
    BY <2>1, <2>2, OneKey
  <2> QED BY <1>2, <2>1, <2>3, WhoSent
<1> QED BY <1>1, <1>2 DEF OneConversation

(* The sums are counters: the test of flow_direction_stats_add_packet is   *)
(* the comparison of the new sum with the largest value.                   *)
LEMMA OverflowIsNoFit ==
  ASSUME NEW s \in DirectionStats, NEW p \in PacketInfo
  PROVE  ~StatsOverflow(s, p) <=>
           /\ s.packet_count + 1 <= CounterMax
           /\ s.captured_byte_count + p.captured_length <= CounterMax
           /\ s.wire_byte_count + p.wire_length <= CounterMax
<1>1. /\ CounterMax \in Nat
      /\ s.packet_count \in 0 .. CounterMax /\ s.captured_byte_count \in 0 .. CounterMax
      /\ s.wire_byte_count \in 0 .. CounterMax
      /\ p.captured_length \in Nat /\ p.wire_length \in Nat
  BY CounterMaxAssumption DEF DirectionStats, Counter, PacketInfo
<1> QED BY <1>1 DEF StatsOverflow

LEMMA StatsAreCounters ==
  ASSUME SummaryInv
  PROVE  \A d \in Directions : StatsOf(d) \in DirectionStats
<1>1. record.stats \in [Directions -> DirectionStats]
  BY SummaryParts DEF FlowRecords
<1> QED BY <1>1, SummaryParts

LEMMA RefusalFollows == SummaryInv => RefusedOnlyWhenFull
<1> SUFFICES ASSUME SummaryInv, NEW p \in Traffics[traffic],
                    KeyError(p) = "0", SameConversation(accepted[1], p)
             PROVE  LET s == IF DirectionOf(p) = A_TO_B THEN StatsOf(A_TO_B) ELSE StatsOf(B_TO_A) IN
                    RecordUpdateError(record, p) = "0" <=>
                      /\ s.packet_count + 1 <= CounterMax
                      /\ s.captured_byte_count + p.captured_length <= CounterMax
                      /\ s.wire_byte_count + p.wire_length <= CounterMax
  BY DEF RefusedOnlyWhenFull
<1>1. p \in PacketInfo /\ DirectionOf(p) \in Directions
  BY SummaryParts, KeyType
<1>2. RecordUpdateError(record, p) = "0" <=> ~StatsOverflow(StatsOf(DirectionOf(p)), p)
  BY NeverInvalid
<1>3. StatsOf(DirectionOf(p)) \in DirectionStats
  BY <1>1, StatsAreCounters
<1>4. StatsOf(DirectionOf(p)) =
        (IF DirectionOf(p) = A_TO_B THEN StatsOf(A_TO_B) ELSE StatsOf(B_TO_A))
  BY <1>1 DEF Directions
<1>5. ~StatsOverflow(StatsOf(DirectionOf(p)), p) <=>
           /\ StatsOf(DirectionOf(p)).packet_count + 1 <= CounterMax
           /\ StatsOf(DirectionOf(p)).captured_byte_count + p.captured_length <= CounterMax
           /\ StatsOf(DirectionOf(p)).wire_byte_count + p.wire_length <= CounterMax
  BY <1>1, <1>3, OverflowIsNoFit
<1> QED BY <1>2, <1>4, <1>5

(* The two directions share out the packets, and a direction without       *)
(* packets has no bytes.                                                   *)
LEMMA DirectionsShareOut ==
  ASSUME SummaryInv
  PROVE  /\ StatsOf(A_TO_B).packet_count + StatsOf(B_TO_A).packet_count = Len(accepted)
         /\ \A d \in Directions : StatsOf(d).packet_count = 0 =>
              StatsOf(d).captured_byte_count = 0 /\ StatsOf(d).wire_byte_count = 0
<1> DEFINE n == Len(accepted)
           A == SentIn(A_TO_B)
           B == SentIn(B_TO_A)
<1>1. accepted \in Seq(PacketInfo) /\ n \in Nat /\ DOMAIN accepted = 1 .. n
  BY SummaryParts
<1>2. \A i \in 1 .. n : DirectionOf(accepted[i]) \in Directions
  BY SummaryParts, KeyType DEF SummaryInv, OfOneKey
<1>3. A \cup B = 1 .. n /\ A \cap B = {}
  BY <1>1, <1>2 DEF SentIn, Directions, A_TO_B, B_TO_A
<1>4. IsFiniteSet(A) /\ IsFiniteSet(B) /\ Cardinality(A) \in Nat /\ Cardinality(B) \in Nat
  BY <1>1, SentFinite
<1>5. Cardinality(A) + Cardinality(B) = n
  <2>1. Cardinality(1 .. n) = n
    BY <1>1, FS_Interval
  <2> HIDE DEF A, B, n
  <2>2. Cardinality(A \cup B) = Cardinality(A) + Cardinality(B) - Cardinality(A \cap B)
    BY <1>4, FS_Union
  <2>3. Cardinality(A \cap B) = 0
    BY <1>3, FS_EmptySet
  <2>4. Cardinality(A \cup B) = n
    BY <1>3, <2>1
  <2> QED BY <1>4, <2>2, <2>3, <2>4
<1>6. ASSUME NEW d \in Directions, StatsOf(d).packet_count = 0
      PROVE  StatsOf(d).captured_byte_count = 0 /\ StatsOf(d).wire_byte_count = 0
  <2>1. IsFiniteSet(SentIn(d)) /\ Cardinality(SentIn(d)) = 0
    BY <1>1, <1>6, SentFinite DEF StatsOf
  <2>2. SentIn(d) = {}
    BY <2>1, FS_EmptySet
  <2> QED BY <2>2, SumEmpty DEF StatsOf
<1> QED BY <1>5, <1>6 DEF StatsOf

(* Microseconds since the epoch. *)
Microseconds(t) == t.seconds * MicrosecondsPerSecond + t.microseconds

LEMMA TimeIsMicroseconds ==
  ASSUME NEW x \in Timestamp, NEW y \in Timestamp
  PROVE  /\ Microseconds(x) \in Int
         /\ TimeAtOrBefore(x, y) <=> Microseconds(x) <= Microseconds(y)
         /\ DurationMicroseconds(x, y) = Microseconds(y) - Microseconds(x)
<1> DEFINE xs == x.seconds
           ys == y.seconds
           xu == x.microseconds
           yu == y.microseconds
           M == MicrosecondsPerSecond
<1>1. /\ xs \in Int /\ ys \in Int /\ xu \in 0 .. M - 1 /\ yu \in 0 .. M - 1
      /\ M \in Int /\ 0 < M
  <2>1. M \in Int /\ 0 < M
    BY SMT DEF MicrosecondsPerSecond
  <2>2. /\ xs \in Int /\ ys \in Int /\ xu \in 0 .. M - 1 /\ yu \in 0 .. M - 1
    BY SMT DEF Timestamp
  <2> QED BY <2>1, <2>2
<1>2. /\ Microseconds(x) = xs * M + xu
      /\ Microseconds(y) = ys * M + yu
      /\ TimeAtOrBefore(x, y) <=> xs < ys \/ (xs = ys /\ xu <= yu)
      /\ DurationMicroseconds(x, y) =
           (IF yu < xu THEN (ys - xs - 1) * M + (M - xu + yu) ELSE (ys - xs) * M + (yu - xu))
  BY SMT DEF Microseconds, DurationMicroseconds, TimeAtOrBefore
<1> HIDE DEF xs, ys, xu, yu, M
<1>3. /\ xs * M \in Int /\ ys * M \in Int
      /\ (ys - xs) * M = ys * M - xs * M
      /\ (ys - xs - 1) * M = ys * M - xs * M - M
  BY SMT, <1>1
<1>4. /\ xs < ys => xs * M + M <= ys * M
      /\ ys < xs => ys * M + M <= xs * M
  BY SMT, <1>1
<1> DEFINE xm == xs * M
           ym == ys * M
<1>5. /\ xm \in Int /\ ym \in Int
      /\ Microseconds(x) = xm + xu
      /\ Microseconds(y) = ym + yu
      /\ DurationMicroseconds(x, y) =
           (IF yu < xu THEN ym - xm - M + (M - xu + yu) ELSE ym - xm + (yu - xu))
      /\ xs < ys => xm + M <= ym
      /\ ys < xs => ym + M <= xm
      /\ xs = ys => xm = ym
  BY <1>2, <1>3, <1>4
<1> HIDE DEF xm, ym
<1>6. Microseconds(x) \in Int
  BY SMT, <1>1, <1>5
<1>7. TimeAtOrBefore(x, y) <=> Microseconds(x) <= Microseconds(y)
  BY SMT, <1>1, <1>2, <1>5
<1>8. DurationMicroseconds(x, y) = Microseconds(y) - Microseconds(x)
  BY SMT, <1>1, <1>5
<1> QED BY <1>6, <1>7, <1>8

(* The duration of the record is the longest span between two packets. *)
LEMMA DurationIsLongestSpan ==
  ASSUME SummaryInv
  PROVE  LET spans == {Span(i, j) : i, j \in DOMAIN accepted}
             duration == DurationMicroseconds(record.first_seen, record.last_seen) IN
         /\ ~TimeBefore(record.last_seen, record.first_seen)
         /\ duration \in Int /\ duration \in spans
         /\ \A span \in spans : span \in Int /\ span <= duration
<1> DEFINE f == record.first_seen
           l == record.last_seen
           n == Len(accepted)
           At(i) == accepted[i].timestamp
<1>1. f \in Timestamp /\ l \in Timestamp
  BY SMT, SummaryParts DEF FlowRecords
<1>2. DOMAIN accepted = 1 .. n /\ \A i \in 1 .. n : accepted[i].timestamp \in Timestamp
  BY SMT, SummaryParts DEF PacketInfo
<1>3. /\ \A i \in 1 .. n : TimeAtOrBefore(f, At(i)) /\ TimeAtOrBefore(At(i), l)
      /\ \E i \in 1 .. n : f = At(i)
      /\ \E i \in 1 .. n : l = At(i)
  BY <1>2 DEF SummaryInv, SummaryIsExact
<1>4. ASSUME NEW i \in 1 .. n, NEW j \in 1 .. n
      PROVE  Span(i, j) = Microseconds(At(j)) - Microseconds(At(i))
  <2> DEFINE M == MicrosecondsPerSecond
             is == At(i).seconds
             js == At(j).seconds
             iu == At(i).microseconds
             ju == At(j).microseconds
  <2>1. is \in Int /\ js \in Int /\ iu \in Int /\ ju \in Int /\ M \in Int
    <3>1. M \in Int
      BY SMT DEF MicrosecondsPerSecond
    <3> HIDE DEF M
    <3> QED BY SMT, <1>2, <3>1, TimestampParts
  <2>2. /\ Microseconds(At(i)) = is * M + iu /\ Microseconds(At(j)) = js * M + ju
        /\ Span(i, j) = (js - is) * M + ju - iu
    BY SMT DEF Microseconds, Span
  <2> HIDE DEF M, is, js, iu, ju
  <2>3. (js - is) * M = js * M - is * M /\ js * M \in Int /\ is * M \in Int
    BY SMT, <2>1
  <2> QED BY SMT, <2>1, <2>2, <2>3
<1>5. DurationMicroseconds(f, l) = Microseconds(l) - Microseconds(f)
      /\ Microseconds(f) \in Int /\ Microseconds(l) \in Int
  BY SMT, <1>1, TimeIsMicroseconds
<1>6. \A i \in 1 .. n : /\ Microseconds(At(i)) \in Int
                        /\ Microseconds(f) <= Microseconds(At(i))
                        /\ Microseconds(At(i)) <= Microseconds(l)
  BY SMT, <1>1, <1>2, <1>3, TimeIsMicroseconds
<1>7. ~TimeBefore(l, f)
  <2>1. PICK i \in 1 .. n : l = At(i)
    BY SMT, <1>3
  <2>2. TimeAtOrBefore(f, l)
    BY SMT, <1>3, <2>1
  <2> QED BY SMT, <1>1, <2>2, TimeOrder
<1>8. \E i, j \in 1 .. n : DurationMicroseconds(f, l) = Span(i, j)
  <2>1. PICK i \in 1 .. n : f = At(i)
    BY SMT, <1>3
  <2>2. PICK j \in 1 .. n : l = At(j)
    BY SMT, <1>3
  <2>3. DurationMicroseconds(f, l) = Span(i, j)
    BY SMT, <1>4, <1>5, <2>1, <2>2
  <2> QED BY SMT, <2>3
<1>9. ASSUME NEW i \in 1 .. n, NEW j \in 1 .. n
      PROVE  Span(i, j) \in Int /\ Span(i, j) <= DurationMicroseconds(f, l)
  <2>1. /\ Microseconds(At(i)) \in Int /\ Microseconds(At(j)) \in Int
        /\ Microseconds(f) <= Microseconds(At(i)) /\ Microseconds(At(j)) <= Microseconds(l)
    BY SMT, <1>6
  <2>2. Span(i, j) = Microseconds(At(j)) - Microseconds(At(i))
    BY SMT, <1>4
  <2> HIDE DEF At, f, l
  <2> QED BY SMT, <1>5, <2>1, <2>2
<1>10. DurationMicroseconds(f, l) \in Int
  BY SMT, <1>5
<1> HIDE DEF n
<1> QED BY SMT, <1>2, <1>7, <1>8, <1>9, <1>10

(* What a record with these totals is refused for. *)
LEMMA FeaturesFollow == SummaryInv => FeaturesMatchPackets
<1> SUFFICES ASSUME SummaryInv PROVE FeaturesMatchPackets
  OBVIOUS
<1> DEFINE a == StatsOf(A_TO_B)
           b == StatsOf(B_TO_A)
           n == Len(accepted)
           spans == {Span(i, j) : i, j \in DOMAIN accepted}
           duration == DurationMicroseconds(record.first_seen, record.last_seen)
           features == flow_features_from_record(record)
           Row == /\ a.captured_byte_count <= a.wire_byte_count
                  /\ b.captured_byte_count <= b.wire_byte_count
                  /\ n <= CounterMax
                  /\ a.wire_byte_count + b.wire_byte_count <= CounterMax
                  /\ \A span \in spans : span <= DurationMax
<1>1. /\ n \in Nat /\ 1 <= n /\ record \in FlowRecords
      /\ record.stats[A_TO_B] = a /\ record.stats[B_TO_A] = b
      /\ record.tcp_state.initialized = (record.key.protocol = "TCP")
      /\ record.key.protocol # "TCP" => record.tcp_state = ZeroTcpState
  BY SummaryParts DEF SummaryInv, OfOneKey, Directions
<1>2. a \in DirectionStats /\ b \in DirectionStats
  BY StatsAreCounters DEF Directions
<1>3. /\ a.packet_count \in Nat /\ a.captured_byte_count \in Nat /\ a.wire_byte_count \in Nat
      /\ b.packet_count \in Nat /\ b.captured_byte_count \in Nat /\ b.wire_byte_count \in Nat
      /\ CounterMax \in Nat /\ DurationMax \in Nat
  BY <1>2, CounterMaxAssumption, DurationMaxAssumption DEF DirectionStats, Counter
<1>4. /\ a.packet_count + b.packet_count = n
      /\ a.packet_count = 0 => a.captured_byte_count = 0 /\ a.wire_byte_count = 0
      /\ b.packet_count = 0 => b.captured_byte_count = 0 /\ b.wire_byte_count = 0
  BY DirectionsShareOut DEF Directions
<1>5. /\ ~TimeBefore(record.last_seen, record.first_seen)
      /\ duration \in Int /\ duration \in spans
      /\ \A span \in spans : span \in Int /\ span <= duration
  BY DurationIsLongestSpan
<1>6. /\ TotalPackets(record) = n
      /\ TotalCaptured(record) = a.captured_byte_count + b.captured_byte_count
      /\ TotalWire(record) = a.wire_byte_count + b.wire_byte_count
  BY <1>1, <1>4 DEF TotalPackets, TotalCaptured, TotalWire
<1>7. (\E d \in Directions : ~DirectionStatsValid(record.stats[d])) <=>
        ~(a.captured_byte_count <= a.wire_byte_count /\ b.captured_byte_count <= b.wire_byte_count)
  BY <1>1, <1>4 DEF DirectionStatsValid, Directions
<1>8. (\A span \in spans : span <= DurationMax) <=> duration <= DurationMax
  <2> HIDE DEF spans, duration
  <2>1. ASSUME duration <= DurationMax, NEW span \in spans PROVE span <= DurationMax
    <3>1. span \in Int /\ span <= duration /\ duration \in Int
      BY <1>5
    <3> QED BY <1>3, <2>1, <3>1
  <2> QED BY <1>5, <2>1
<1>9. FeaturesError(record) = "0" <=> Row
  <2>1. FeaturesError(record) =
          IF ~(a.captured_byte_count <= a.wire_byte_count
                 /\ b.captured_byte_count <= b.wire_byte_count) THEN "EINVAL"
          ELSE IF n > CounterMax THEN "EOVERFLOW"
          ELSE IF n = 0 THEN "EINVAL"
          ELSE IF \/ a.captured_byte_count + b.captured_byte_count > CounterMax
                  \/ a.wire_byte_count + b.wire_byte_count > CounterMax THEN "EOVERFLOW"
          ELSE IF duration > DurationMax THEN "EOVERFLOW"
          ELSE "0"
    <3>1. ~((record.key.protocol = "TCP") # record.tcp_state.initialized)
      BY <1>1, Zenon
    <3> HIDE DEF a, b, n, duration
    <3> QED BY <1>5, <1>6, <1>7, <3>1 DEF FeaturesError, duration
  <2> HIDE DEF a, b, n, duration, spans
  <2> QED BY <1>1, <1>3, <1>5, <1>8, <2>1
<1>10. /\ features.total_packet_count = n
       /\ features.total_captured_byte_count = a.captured_byte_count + b.captured_byte_count
       /\ features.total_wire_byte_count = a.wire_byte_count + b.wire_byte_count
       /\ features.duration_microseconds = duration
       /\ features.packet_count_imbalance_ratio = Imbalance(a.packet_count, b.packet_count, n)
       /\ features.wire_byte_count_imbalance_ratio =
            Imbalance(a.wire_byte_count, b.wire_byte_count, a.wire_byte_count + b.wire_byte_count)
       /\ features.protocol = record.key.protocol
       /\ features.tcp_phase = IF record.key.protocol = "TCP" THEN record.tcp_state.phase ELSE "UNOBSERVED"
       /\ features.tcp_state_applicable = (record.key.protocol = "TCP")
       /\ features.tcp_handshake_completed =
            (record.key.protocol = "TCP" /\ record.tcp_state.handshake_completed)
  BY <1>1, <1>6 DEF flow_features_from_record
<1>11. ASSUME NEW l \in Nat, NEW r \in Nat, NEW t, t = l + r
       PROVE  /\ RatioValid(Imbalance(l, r, t))
              /\ t # 0 => (Imbalance(l, r, t)[1] = Imbalance(l, r, t)[2] <=> 0 \in {l, r})
  BY <1>11 DEF RatioValid, Imbalance
<1>12. ASSUME Row PROVE ExportError(features) = "0"
  <2>1. /\ features.total_packet_count # 0
        /\ ~(features.total_captured_byte_count > features.total_wire_byte_count)
    <3> HIDE DEF a, b, n, spans, features
    <3> QED BY <1>1, <1>3, <1>10, <1>12
  <2>2. /\ RatioValid(features.packet_count_imbalance_ratio)
        /\ RatioValid(features.wire_byte_count_imbalance_ratio)
    <3>1. RatioValid(Imbalance(a.packet_count, b.packet_count, n))
      BY <1>3, <1>4, <1>11
    <3>2. RatioValid(Imbalance(a.wire_byte_count, b.wire_byte_count,
                               a.wire_byte_count + b.wire_byte_count))
      BY <1>3, <1>11
    <3> HIDE DEF a, b, n, features
    <3> QED BY <1>10, <3>1, <3>2
  <2>3. features.tcp_state_applicable <=> features.protocol = "TCP"
    <3> HIDE DEF a, b, n, features
    <3> QED BY <1>10
  <2>4. features.protocol # "TCP" =>
          features.tcp_phase = "UNOBSERVED" /\ ~features.tcp_handshake_completed
    <3> HIDE DEF a, b, n, features
    <3> QED BY <1>10
  <2> HIDE DEF features
  <2> QED BY <2>1, <2>2, <2>3, <2>4 DEF ExportError
<1>13. FeatureRowError(record) = "0" <=> Row
  <2>1. FeatureRowError(record) =
          IF FeaturesError(record) # "0" THEN FeaturesError(record) ELSE ExportError(features)
    BY DEF FeatureRowError
  <2> HIDE DEF Row, features
  <2> QED BY <1>9, <1>12, <2>1
<1>14. (features.packet_count_imbalance_ratio[1] = features.packet_count_imbalance_ratio[2]
          <=> 0 \in {a.packet_count, b.packet_count})
  <2> DEFINE ratio == Imbalance(a.packet_count, b.packet_count, n)
  <2>1. n # 0 => (ratio[1] = ratio[2] <=> 0 \in {a.packet_count, b.packet_count})
    BY <1>3, <1>4, <1>11
  <2>2. features.packet_count_imbalance_ratio = ratio
    BY <1>10
  <2> HIDE DEF a, b, n, features, ratio
  <2> QED BY <1>1, <2>1, <2>2
<1>15. (FeatureRowError(record) = "0" <=>
          /\ a.captured_byte_count <= a.wire_byte_count
          /\ b.captured_byte_count <= b.wire_byte_count
          /\ Len(accepted) <= CounterMax
          /\ a.wire_byte_count + b.wire_byte_count <= CounterMax
          /\ \A span \in spans : span <= DurationMax)
  BY <1>13
<1>16. /\ features.total_packet_count = Len(accepted)
       /\ features.total_wire_byte_count = a.wire_byte_count + b.wire_byte_count
       /\ features.duration_microseconds \in spans
       /\ \A span \in spans : span <= features.duration_microseconds
       /\ features.packet_count_imbalance_ratio[1] = features.packet_count_imbalance_ratio[2]
            <=> 0 \in {a.packet_count, b.packet_count}
  <2> HIDE DEF a, b, features, spans
  <2> QED BY <1>5, <1>10, <1>14
<1> HIDE DEF a, b, features, spans, Row, n, duration
<1> QED BY <1>15, <1>16 DEF FeaturesMatchPackets, a, b, spans, features

-----------------------------------------------------------------------------
(* The theorems of the summary. *)

(* The summary of a record is exact in every reachable state. *)
THEOREM SummaryInvariance == Spec => []SummaryInv
BY InitSummary, StepSummary, PTL DEF Spec

(* The counters of each direction are the sums over its packets, and the   *)
(* interval of activity is that of the packets.                            *)
THEOREM SummaryCorrect == Spec => []SummaryIsExact
<1>1. SummaryInv => SummaryIsExact
  BY DEF SummaryInv
<1> QED BY <1>1, SummaryInvariance, PTL

(* A record takes the packets of one conversation and of no other. *)
THEOREM ConversationCorrect == Spec => []OneConversation
BY ConversationFollows, SummaryInvariance, PTL

(* A packet of the conversation is refused only if a counter would pass    *)
(* its limit.                                                              *)
THEOREM RefusalCorrect == Spec => []RefusedOnlyWhenFull
BY RefusalFollows, SummaryInvariance, PTL

(* A record has a feature row exactly when its sums and its span fit, and  *)
(* the row describes the packets.                                          *)
THEOREM FeaturesCorrect == Spec => []FeaturesMatchPackets
BY FeaturesFollow, SummaryInvariance, PTL
=============================================================================
