-------------------------- MODULE PacketParseProofs --------------------------
(***************************************************************************)
(* The class of a packet and the payload of its layers, for every frame    *)
(* and every snapshot length.                                              *)
(***************************************************************************)
EXTENDS PacketParse, TLAPS

-----------------------------------------------------------------------------
(* The invariant. *)

(* The least header of the transport protocol of f. *)
Minimum(f) == IF f.protocol = "TCP" THEN 20 ELSE 8

(* What the transport header says is possible in the declared length. *)
TransportSane(f) ==
  /\ f.protocol = "TCP" =>
       4 * f.data_offset >= 20 /\ 4 * f.data_offset <= f.total_length - HeaderLength(f)
  /\ f.protocol = "UDP" =>
       f.udp_length >= 8 /\ f.udp_length = f.total_length - HeaderLength(f)

(* How many of the n captured bytes belong to the IPv4 payload. *)
Available(f, n) == AvailableLength(n - 14, f.total_length) - HeaderLength(f)

(* The class of the transport part of f, of which n bytes were captured. *)
TransportVerdict(f, n) ==
  IF f.protocol \notin Transports \/ f.fragmented THEN "UNSUPPORTED"
  ELSE IF f.total_length - HeaderLength(f) < Minimum(f) THEN "MALFORMED"
  ELSE IF Available(f, n) < Minimum(f) THEN "TRUNCATED"
  ELSE IF ~TransportSane(f) THEN "MALFORMED"
  ELSE IF Available(f, n) < TransportHeader(f) THEN "TRUNCATED" ELSE "COMPLETE"

(* The class of f, of which n bytes were captured. *)
Verdict(f, n) ==
  IF n < 14 THEN "TRUNCATED"
  ELSE IF f.ether_type # "IPV4" THEN "UNSUPPORTED"
  ELSE IF n < 34 THEN "TRUNCATED"
  ELSE IF f.version # 4 \/ f.ihl < 5 \/ f.total_length < HeaderLength(f) THEN "MALFORMED"
  ELSE IF n < 14 + HeaderLength(f) THEN "TRUNCATED" ELSE TransportVerdict(f, n)

Info ==
  [layers : SUBSET Layers, protocol : Transports \cup {"OTHER"},
   view : [Layers -> [offset : Nat, length : Nat]],
   ipv4_header_length : Nat, ipv4_total_length : Nat, truncated : BOOLEAN,
   parse_status : ParseStatus, error_layer : Layers \cup {"NONE"},
   error_code : {"0", "ENODATA", "EBADMSG", "ENOTSUP"}, error_offset : Nat]

Types ==
  /\ frame \in Frames /\ captured_length \in Nat
  /\ pc \in {"ethernet", "ipv4", "dispatch", "done"}
  /\ info \in Info /\ error = "0"

AfterEthernet ==
  /\ info.layers = {"ETHERNET"} /\ captured_length >= 14 /\ frame.ether_type = "IPV4"
  /\ info.view["ETHERNET"] = [offset |-> 14, length |-> captured_length - 14]

AfterIpv4 ==
  /\ info.layers = {"ETHERNET", "IPV4"} /\ captured_length >= 14 + HeaderLength(frame)
  /\ frame.ether_type = "IPV4" /\ frame.version = 4 /\ frame.ihl >= 5
  /\ frame.total_length >= HeaderLength(frame)
  /\ info.view["ETHERNET"] = [offset |-> 14, length |-> captured_length - 14]
  /\ info.view["IPV4"] =
       [offset |-> 14 + HeaderLength(frame), length |-> Available(frame, captured_length)]
  /\ info.ipv4_header_length = HeaderLength(frame)
  /\ info.ipv4_total_length = frame.total_length
  /\ info.protocol = frame.protocol
  /\ info.truncated = (captured_length - 14 < frame.total_length)

AfterAll ==
  /\ packet_result = Verdict(frame, captured_length)
  /\ packet_result = "COMPLETE" => KeyError(info) = "0"

(* A longer capture of the same frame got its class. *)
EarlierVerdict ==
  earlier # "NONE" => \E m \in Nat : m > captured_length /\ earlier = Verdict(frame, m)

IInv ==
  /\ Types /\ EarlierVerdict /\ PayloadIsDeclared
  /\ pc = "ethernet" => info.layers = {}
  /\ pc = "ipv4" => AfterEthernet
  /\ pc = "dispatch" => AfterIpv4
  /\ pc = "done" => AfterAll

-----------------------------------------------------------------------------
(* The reference class. *)

(* The numbers in the headers of a frame. *)
LEMMA FrameParts ==
  ASSUME NEW f \in Frame
  PROVE  /\ f.total_length \in Nat /\ f.udp_length \in Nat
         /\ f.ihl \in Nat /\ f.data_offset \in Nat
<1>1. Uint16 \subseteq Nat
  BY DEF Uint16
<1>2. f.total_length \in Uint16 /\ f.udp_length \in Uint16
  BY DEF Frame
<1>3. f.ihl \in 0 .. 15 /\ f.data_offset \in 0 .. 15
  BY DEF Frame
<1>4. f.total_length \in Nat /\ f.udp_length \in Nat
  BY <1>1, <1>2
<1>5. f.ihl \in Nat /\ f.data_offset \in Nat
  BY <1>3
<1> QED BY <1>4, <1>5

(* Capturing less can only truncate. *)
LEMMA VerdictShrinks ==
  ASSUME NEW f \in Frame, NEW n \in Nat, NEW m \in Nat, n < m
  PROVE  Verdict(f, n) \in {"TRUNCATED", Verdict(f, m)}
<1>1. /\ f.total_length \in Int /\ HeaderLength(f) \in Int /\ TransportHeader(f) \in Int
      /\ f.ihl \in Int /\ Minimum(f) \in Int
  BY FrameParts DEF HeaderLength, TransportHeader, Minimum
<1>2. Available(f, n) \in Int /\ Available(f, m) \in Int /\ Available(f, n) <= Available(f, m)
  BY <1>1 DEF Available, AvailableLength
<1>3. TransportVerdict(f, n) \in {"TRUNCATED", TransportVerdict(f, m)}
  BY <1>1, <1>2 DEF TransportVerdict
<1> QED BY <1>1, <1>3 DEF Verdict

(* A class of its own for each kind of packet; COMPLETE means what the     *)
(* headers say.                                                            *)
LEMMA VerdictMeaning ==
  ASSUME NEW f \in Frame, NEW n \in Nat
  PROVE  /\ Verdict(f, n) # "NONE"
         /\ Verdict(f, n) = "COMPLETE" <=>
              /\ WellFormed(f)
              /\ ETHERNET_HEADER_LENGTH + HeaderLength(f) + TransportHeader(f) <= n
<1>1. Verdict(f, n) # "NONE"
  BY DEF Verdict, TransportVerdict
<1>2. /\ f.total_length \in Nat /\ f.ihl \in Nat /\ f.data_offset \in Nat /\ f.udp_length \in Nat
  BY FrameParts
<1>3. Verdict(f, n) = "COMPLETE" <=>
        /\ n >= 14 /\ f.ether_type = "IPV4" /\ n >= 34 /\ f.version = 4 /\ f.ihl >= 5
        /\ f.total_length >= HeaderLength(f) /\ n >= 14 + HeaderLength(f)
        /\ f.protocol \in Transports /\ ~f.fragmented
        /\ f.total_length - HeaderLength(f) >= Minimum(f)
        /\ Available(f, n) >= Minimum(f) /\ TransportSane(f)
        /\ Available(f, n) >= TransportHeader(f)
  <2> DEFINE h == HeaderLength(f)
             a == Available(f, n)
             k == Minimum(f)
             t == TransportHeader(f)
  <2>1. h \in Int /\ a \in Int /\ k \in Int /\ t \in Int
    BY <1>2 DEF HeaderLength, Available, AvailableLength, Minimum, TransportHeader
  <2> HIDE DEF h, a, k, t
  <2>2. TransportVerdict(f, n) = "COMPLETE" <=>
          /\ f.protocol \in Transports /\ ~f.fragmented /\ f.total_length - h >= k
          /\ a >= k /\ TransportSane(f) /\ a >= t
    BY <1>2, <2>1 DEF TransportVerdict, h, a, k, t
  <2>3. Verdict(f, n) = "COMPLETE" <=>
          /\ n >= 14 /\ f.ether_type = "IPV4" /\ n >= 34 /\ f.version = 4 /\ f.ihl >= 5
          /\ f.total_length >= h /\ n >= 14 + h /\ TransportVerdict(f, n) = "COMPLETE"
    BY <1>2, <2>1 DEF Verdict, h
  <2> QED BY <2>2, <2>3 DEF h, a, k, t
<1>4. CASE f.protocol = "TCP"
  BY <1>1, <1>2, <1>3, <1>4
     DEF WellFormed, Available, AvailableLength, HeaderLength, TransportHeader, Minimum,
         TransportSane, Transports, ETHERNET_HEADER_LENGTH
<1>5. CASE f.protocol # "TCP"
  BY <1>1, <1>2, <1>3, <1>5
     DEF WellFormed, Available, AvailableLength, HeaderLength, TransportHeader, Minimum,
         TransportSane, Transports, ETHERNET_HEADER_LENGTH
<1> QED BY <1>4, <1>5

-----------------------------------------------------------------------------
(* The cursors. *)

LEMMA WholeCursor ==
  ASSUME NEW b \in Nat, NEW n \in Nat, NEW k \in Nat
  PROVE  LET c == byte_cursor_init(b, n) IN
         /\ byte_cursor_require_bytes(c, k) = IF n < k THEN "ENODATA" ELSE "0"
         /\ byte_cursor_remaining(byte_cursor_skip(c, k)) = IF k > n THEN 0 ELSE n - k
BY DEF byte_cursor_init, byte_cursor_require_bytes, byte_cursor_remaining, byte_cursor_skip

LEMMA SkippedCursor ==
  ASSUME NEW b \in Nat, NEW n \in Nat, NEW k \in Nat, NEW j \in Nat, k <= n
  PROVE  byte_cursor_require_bytes(byte_cursor_skip(byte_cursor_init(b, n), k), j)
           = IF n - k < j THEN "ENODATA" ELSE "0"
BY DEF byte_cursor_init, byte_cursor_require_bytes, byte_cursor_remaining, byte_cursor_skip

(* A payload inside the capture is read by a cursor of its length. *)
LEMMA PayloadCursor ==
  ASSUME Types, NEW l \in info.layers,
         info.view[l].offset + info.view[l].length <= captured_length
  PROVE  /\ ViewError(l) = "0"
         /\ PayloadView(l) = byte_cursor_init(info.view[l].offset, info.view[l].length)
<1>1. /\ info.view[l].offset \in Nat /\ info.view[l].length \in Nat
      /\ captured_length \in Nat
  BY DEF Types, Info
<1>2. ViewError(l) = "0"
  BY <1>1 DEF ViewError
<1>3. PayloadView(l) = byte_cursor_init(info.view[l].offset, info.view[l].length)
  BY <1>1 DEF PayloadView, SliceOf, byte_cursor_skip, byte_cursor_init
<1> QED BY <1>2, <1>3

-----------------------------------------------------------------------------
(* The two ways in which a parser ends. *)

(* A packet that is rejected inside its capture has the class of the error *)
(* and keeps what was parsed of it.                                        *)
LEMMA Rejected ==
  ASSUME IInv, NEW l \in Layers, NEW code \in {"ENODATA", "EBADMSG", "ENOTSUP"},
         NEW offset \in Nat, offset <= captured_length,
         Reject(l, code, offset),
         ClassOf(code) = Verdict(frame, captured_length)
  PROVE  IInv'
<1>1. /\ pc' = "done" /\ error' = error /\ packet_result' = ClassOf(code)
      /\ frame' = frame /\ captured_length' = captured_length /\ earlier' = earlier
      /\ info' = [info EXCEPT !.parse_status = ClassOf(code), !.error_layer = l,
                              !.error_code = code, !.error_offset = offset]
  BY DEF Reject, Same, IInv, Types
<1>2. ClassOf(code) \in {"TRUNCATED", "MALFORMED", "UNSUPPORTED"}
  BY DEF ClassOf
<1>3. info \in Info
  BY DEF IInv, Types
<1>4. /\ info' \in Info /\ info'.layers = info.layers /\ info'.view = info.view
      /\ info'.truncated = info.truncated
  BY <1>1, <1>2, <1>3 DEF Info, ParseStatus
<1>5. Types' /\ EarlierVerdict'
  BY <1>1, <1>4 DEF IInv, Types, EarlierVerdict
<1>6. PayloadIsDeclared'
  BY <1>1, <1>4 DEF IInv, PayloadIsDeclared
<1>7. AfterAll'
  BY <1>1, <1>2 DEF AfterAll
<1> QED BY <1>1, <1>5, <1>6, <1>7 DEF IInv

(* A packet whose transport header is there becomes COMPLETE. *)
LEMMA Completed ==
  ASSUME IInv, AfterIpv4, NEW l \in Transports, NEW h \in Nat,
         l = info.protocol, h <= info.view["IPV4"].length,
         info.view["IPV4"].length \in Nat,
         14 + HeaderLength(frame) + info.view["IPV4"].length <= captured_length,
         Complete(l, h), Verdict(frame, captured_length) = "COMPLETE"
  PROVE  IInv'
<1>1. info \in Info /\ l \in Layers /\ l \notin {"ETHERNET", "IPV4"}
  BY DEF IInv, Types, Layers, Transports
<1>2. "IPV4" \in info.layers /\ info.view["IPV4"].offset = 14 + HeaderLength(frame)
  BY DEF AfterIpv4
<1>3. PayloadView("IPV4") = byte_cursor_init(info.view["IPV4"].offset, info.view["IPV4"].length)
  BY <1>2, PayloadCursor DEF IInv
<1>4. info.view["IPV4"].offset \in Nat
  BY <1>1 DEF Info, Layers
<1>5. byte_cursor_remaining(byte_cursor_skip(PayloadView("IPV4"), h)) = info.view["IPV4"].length - h
  BY <1>3, <1>4, WholeCursor
<1> DEFINE v == [offset |-> info.view["IPV4"].offset + h, length |-> info.view["IPV4"].length - h]
<1>6. v \in [offset : Nat, length : Nat]
  BY <1>4
<1>7. /\ info' = [info EXCEPT !.layers = @ \cup {l}, !.view[l] = v, !.parse_status = "COMPLETE"]
      /\ packet_result' = "COMPLETE" /\ pc' = "done" /\ error' = error
      /\ frame' = frame /\ captured_length' = captured_length /\ earlier' = earlier
  BY <1>5 DEF Complete, Same, PayloadStart
<1> HIDE DEF v
<1>8. /\ info' \in Info /\ info'.layers = info.layers \cup {l}
      /\ info'.view = [info.view EXCEPT ![l] = v]
      /\ info'.truncated = info.truncated /\ info'.protocol = info.protocol
      /\ info'.parse_status = "COMPLETE"
  BY <1>1, <1>6, <1>7 DEF Info, ParseStatus
<1>9. Types' /\ EarlierVerdict'
  BY <1>7, <1>8 DEF IInv, Types, EarlierVerdict
<1>10. /\ info'.view["ETHERNET"] = info.view["ETHERNET"] /\ info'.view["IPV4"] = info.view["IPV4"]
       /\ info'.view[l] = v
  BY <1>1, <1>8 DEF Info, Layers
<1>11. info'.layers = {"ETHERNET", "IPV4", l}
  BY <1>8 DEF AfterIpv4
<1>12. PayloadIsDeclared'
  <2>1. /\ "ETHERNET" \in info.layers /\ "IPV4" \in info.layers /\ info.layers \cap Transports = {}
    BY DEF AfterIpv4, Transports
  <2>2. \A k \in info'.layers \cap Transports : k = l
    BY <1>11 DEF Transports
  <2>3. /\ v.offset = info.view["IPV4"].offset + h
        /\ v.offset + v.length = info.view["IPV4"].offset + info.view["IPV4"].length
        /\ info.view["IPV4"].offset <= v.offset
        /\ v.offset <= v.offset + v.length
    BY <1>4 DEF v
  <2>4. /\ \A k \in info'.layers \cap Transports :
             /\ info'.view["IPV4"].offset <= info'.view[k].offset
             /\ info'.view[k].offset + info'.view[k].length
                  = info'.view["IPV4"].offset + info'.view["IPV4"].length
             /\ info'.view[k].offset <= info'.view[k].offset + info'.view[k].length
    BY <1>10, <2>2, <2>3
  <2> QED BY <1>7, <1>8, <1>10, <2>1, <2>4 DEF IInv, PayloadIsDeclared
<1>13. AfterAll'
  <2>1. info'.layers \cap Transports = {l} /\ "IPV4" \in info'.layers
    BY <1>11 DEF Transports
  <2>2. info'.protocol = l /\ l # "OTHER"
    BY <1>8 DEF Transports
  <2>3. KeyError(info)' = "0"
    BY <1>8, <2>1, <2>2 DEF KeyError
  <2> QED BY <1>7, <2>3 DEF AfterAll
<1> QED BY <1>7, <1>9, <1>12, <1>13 DEF IInv

-----------------------------------------------------------------------------
(* The parsers. *)

LEMMA EthernetKeeps == IInv /\ ethernet_parse => IInv'
<1> SUFFICES ASSUME IInv, ethernet_parse PROVE IInv'
  OBVIOUS
<1> DEFINE rest == byte_cursor_skip(byte_cursor_init(0, captured_length), ETHERNET_HEADER_LENGTH)
           v == [offset |-> ETHERNET_HEADER_LENGTH, length |-> byte_cursor_remaining(rest)]
           parsed == [info EXCEPT !.layers = @ \cup {"ETHERNET"}, !.view["ETHERNET"] = v]
<1>1. /\ captured_length \in Nat /\ info \in Info /\ info.layers = {} /\ pc = "ethernet"
      /\ frame \in Frame
  BY FramesAssumption DEF ethernet_parse, IInv, Types
<1>2. byte_cursor_require_bytes(byte_cursor_init(0, captured_length), ETHERNET_HEADER_LENGTH)
        = IF captured_length < 14 THEN "ENODATA" ELSE "0"
  BY <1>1, WholeCursor DEF ETHERNET_HEADER_LENGTH
<1>3. CASE captured_length < 14
  <2>1. Reject("ETHERNET", "ENODATA", captured_length)
    BY <1>2, <1>3 DEF ethernet_parse
  <2>2. ClassOf("ENODATA") = Verdict(frame, captured_length)
    BY <1>3 DEF ClassOf, Verdict
  <2> QED BY <1>1, <2>1, <2>2, Rejected DEF Layers
<1>4. CASE captured_length >= 14
  <2>1. v = [offset |-> 14, length |-> captured_length - 14]
    BY <1>1, <1>4, WholeCursor DEF ETHERNET_HEADER_LENGTH
  <2>2. v \in [offset : Nat, length : Nat]
    BY <1>1, <1>4, <2>1
  <2>3. \/ /\ frame.ether_type = "IPV4" /\ Accept("ETHERNET", parsed, "ipv4")
        \/ /\ frame.ether_type # "IPV4" /\ info' = parsed /\ packet_result' = "UNSUPPORTED"
           /\ pc' = "done" /\ Same /\ error' = error
    BY <1>1, <1>2, <1>4 DEF ethernet_parse
  <2> HIDE DEF v
  <2>4. /\ parsed \in Info /\ parsed.layers = {"ETHERNET"} /\ parsed.view["ETHERNET"] = v
        /\ [parsed EXCEPT !.layers = @ \cup {"ETHERNET"}] = parsed
    BY <1>1, <2>2 DEF Info, Layers
  <2> HIDE DEF parsed
  <2>5. /\ info' = parsed /\ error' = error /\ frame' = frame
        /\ captured_length' = captured_length /\ earlier' = earlier
        /\ \/ frame.ether_type = "IPV4" /\ pc' = "ipv4"
           \/ frame.ether_type # "IPV4" /\ pc' = "done" /\ packet_result' = "UNSUPPORTED"
    BY <2>3, <2>4 DEF Accept, Same
  <2>6. Types' /\ EarlierVerdict'
    BY <1>1, <2>4, <2>5 DEF IInv, Types, EarlierVerdict
  <2>7. PayloadIsDeclared'
    BY <1>1, <2>1, <2>4, <2>5 DEF PayloadIsDeclared, Transports
  <2>8. frame.ether_type = "IPV4" => AfterEthernet'
    BY <1>4, <2>1, <2>4, <2>5 DEF AfterEthernet
  <2>9. frame.ether_type # "IPV4" => AfterAll'
    BY <1>1, <1>4, <2>5 DEF AfterAll, Verdict
  <2> QED BY <2>5, <2>6, <2>7, <2>8, <2>9 DEF IInv
<1> QED BY <1>1, <1>3, <1>4

LEMMA Ipv4Keeps == IInv /\ ipv4_parse => IInv'
<1> SUFFICES ASSUME IInv, ipv4_parse PROVE IInv'
  OBVIOUS
<1> DEFINE n == captured_length
           h == frame.ihl * IPV4_HEADER_WORD_SIZE
           sane == frame.version = 4 /\ frame.ihl >= 5
           v == [offset |-> info.view["ETHERNET"].offset + h,
                 length |-> AvailableLength(info.view["ETHERNET"].length, frame.total_length) - h]
           parsed == [info EXCEPT
                        !.protocol = frame.protocol,
                        !.ipv4_header_length = h,
                        !.ipv4_total_length = frame.total_length,
                        !.truncated = info.view["ETHERNET"].length < frame.total_length,
                        !.view["IPV4"] = v]
<1>1. /\ n \in Nat /\ info \in Info /\ pc = "ipv4" /\ AfterEthernet /\ frame \in Frame
      /\ info.layers = {"ETHERNET"} /\ n >= 14 /\ frame.ether_type = "IPV4"
      /\ info.view["ETHERNET"].offset = 14 /\ info.view["ETHERNET"].length = n - 14
  BY FramesAssumption DEF ipv4_parse, IInv, Types, AfterEthernet
<1>2. /\ frame.ihl \in Nat /\ frame.total_length \in Nat /\ h = HeaderLength(frame) /\ h \in Nat
  BY <1>1, FrameParts DEF HeaderLength, IPV4_HEADER_WORD_SIZE
<1>3. ViewError("ETHERNET") = "0" /\ PayloadView("ETHERNET") = byte_cursor_init(14, n - 14)
  BY <1>1, PayloadCursor DEF IInv
<1>4. byte_cursor_require_bytes(PayloadView("ETHERNET"), IPV4_MIN_HEADER_LENGTH)
        = IF n - 14 < 20 THEN "ENODATA" ELSE "0"
  BY <1>1, <1>3, WholeCursor DEF IPV4_MIN_HEADER_LENGTH
<1>5. n >= 34 /\ frame.ihl >= 5 =>
        byte_cursor_require_bytes(byte_cursor_skip(PayloadView("ETHERNET"), IPV4_MIN_HEADER_LENGTH),
                                  h - IPV4_MIN_HEADER_LENGTH)
          = IF n - 14 - 20 < h - 20 THEN "ENODATA" ELSE "0"
  <2> SUFFICES ASSUME n >= 34, frame.ihl >= 5
               PROVE  byte_cursor_require_bytes(
                        byte_cursor_skip(PayloadView("ETHERNET"), IPV4_MIN_HEADER_LENGTH),
                        h - IPV4_MIN_HEADER_LENGTH)
                      = IF n - 14 - 20 < h - 20 THEN "ENODATA" ELSE "0"
    OBVIOUS
  <2>1. h - 20 \in Nat /\ n - 14 \in Nat /\ 20 <= n - 14
    BY <1>1, <1>2 DEF IPV4_HEADER_WORD_SIZE
  <2>2. IPV4_MIN_HEADER_LENGTH = 20
    BY DEF IPV4_MIN_HEADER_LENGTH
  <2> HIDE DEF h, n
  <2>3. byte_cursor_require_bytes(byte_cursor_skip(byte_cursor_init(14, n - 14), 20), h - 20)
          = IF n - 14 - 20 < h - 20 THEN "ENODATA" ELSE "0"
    BY <2>1, SkippedCursor
  <2> QED BY <1>3, <2>2, <2>3
<1>6. CapturedEnd("ETHERNET") = n
  BY <1>1 DEF CapturedEnd
<1>7. /\ ClassOf("ENODATA") = "TRUNCATED" /\ ClassOf("EBADMSG") = "MALFORMED"
      /\ "IPV4" \in Layers
  BY DEF ClassOf, Layers
<1>8. CASE n < 34
  <2>1. Reject("IPV4", "ENODATA", n)
    BY <1>1, <1>3, <1>4, <1>6, <1>8 DEF ipv4_parse
  <2>2. Verdict(frame, n) = "TRUNCATED"
    BY <1>1, <1>8 DEF Verdict
  <2> QED BY <1>1, <1>7, <2>1, <2>2, Rejected
<1>9. CASE n >= 34 /\ (~sane \/ frame.total_length < h)
  <2>1. \E offset \in {14, 16} : Reject("IPV4", "EBADMSG", offset)
    <3>1. \/ Reject("IPV4", "EBADMSG", info.view["ETHERNET"].offset)
          \/ Reject("IPV4", "EBADMSG", info.view["ETHERNET"].offset + 2)
      BY <1>1, <1>2, <1>3, <1>4, <1>9 DEF ipv4_parse
    <3> QED BY <1>1, <3>1
  <2>2. Verdict(frame, n) = "MALFORMED"
    BY <1>1, <1>2, <1>9 DEF Verdict
  <2> QED BY <1>1, <1>7, <1>9, <2>1, <2>2, Rejected
<1>10. CASE n >= 34 /\ sane /\ frame.total_length >= h /\ n < 14 + h
  <2>1. Reject("IPV4", "ENODATA", n)
    BY <1>1, <1>2, <1>3, <1>4, <1>5, <1>6, <1>10 DEF ipv4_parse
  <2>2. Verdict(frame, n) = "TRUNCATED"
    BY <1>1, <1>2, <1>10 DEF Verdict
  <2> QED BY <1>1, <1>7, <2>1, <2>2, Rejected
<1>11. CASE n >= 34 /\ sane /\ frame.total_length >= h /\ n >= 14 + h
  <2>1. Accept("IPV4", parsed, "dispatch")
    BY <1>1, <1>2, <1>3, <1>4, <1>5, <1>11 DEF ipv4_parse
  <2>2. v = [offset |-> 14 + HeaderLength(frame), length |-> Available(frame, n)]
    BY <1>1, <1>2 DEF Available
  <2>3. v \in [offset : Nat, length : Nat]
    <3>1. AvailableLength(n - 14, frame.total_length) - h \in Nat
      BY <1>1, <1>2, <1>11 DEF AvailableLength
    <3> QED BY <1>1, <1>2, <3>1
  <2> HIDE DEF v, h
  <2>4. /\ parsed \in Info /\ parsed.layers = {"ETHERNET"} /\ parsed.view["IPV4"] = v
        /\ parsed.view["ETHERNET"] = info.view["ETHERNET"]
        /\ parsed.ipv4_header_length = h /\ parsed.ipv4_total_length = frame.total_length
        /\ parsed.protocol = frame.protocol
        /\ parsed.truncated = (n - 14 < frame.total_length)
    <3>1. frame.protocol \in Transports \cup {"OTHER"}
      BY <1>1 DEF Frame
    <3> DEFINE short == info.view["ETHERNET"].length < frame.total_length
    <3>2. short \in BOOLEAN /\ short = (n - 14 < frame.total_length)
      BY <1>1
    <3> HIDE DEF short
    <3>3. parsed = [info EXCEPT !.protocol = frame.protocol, !.ipv4_header_length = h,
                                !.ipv4_total_length = frame.total_length,
                                !.truncated = short, !.view["IPV4"] = v]
      BY DEF short
    <3> HIDE DEF parsed
    <3>4. parsed \in Info
      BY <1>1, <1>2, <2>3, <3>1, <3>2, <3>3 DEF Info, Layers
    <3>5. /\ parsed.layers = {"ETHERNET"} /\ parsed.view["IPV4"] = v
          /\ parsed.view["ETHERNET"] = info.view["ETHERNET"]
          /\ parsed.ipv4_header_length = h /\ parsed.ipv4_total_length = frame.total_length
          /\ parsed.protocol = frame.protocol /\ parsed.truncated = short
      BY <1>1, <3>3 DEF Info, Layers
    <3> QED BY <3>2, <3>4, <3>5
  <2> HIDE DEF parsed
  <2>5. /\ info' = [parsed EXCEPT !.layers = @ \cup {"IPV4"}] /\ error' = error
        /\ frame' = frame /\ captured_length' = n /\ earlier' = earlier /\ pc' = "dispatch"
    BY <2>1 DEF Accept, Same
  <2>6. /\ info' \in Info /\ info'.layers = {"ETHERNET", "IPV4"} /\ info'.view["IPV4"] = v
        /\ info'.view["ETHERNET"] = info.view["ETHERNET"]
        /\ info'.ipv4_header_length = h /\ info'.ipv4_total_length = frame.total_length
        /\ info'.protocol = frame.protocol
        /\ info'.truncated = (n - 14 < frame.total_length)
    BY <2>4, <2>5 DEF Info, Layers
  <2>7. Types' /\ EarlierVerdict'
    BY <2>5, <2>6 DEF IInv, Types, EarlierVerdict
  <2>8. AfterIpv4'
    BY <1>1, <1>2, <1>11, <2>2, <2>5, <2>6 DEF AfterIpv4, AfterEthernet
  <2>9. v.offset = 14 + h
        /\ v.offset + v.length = 14 + AvailableLength(n - 14, frame.total_length)
    BY <1>1, <1>2, <2>2 DEF Available, AvailableLength
  <2>10. PayloadIsDeclared'
    <3>1. AvailableLength(n - 14, frame.total_length)
            = IF n - 14 < frame.total_length THEN n - 14 ELSE frame.total_length
      BY <1>1, <1>2 DEF AvailableLength
    <3>2. info'.layers \cap Transports = {}
      BY <2>6 DEF Transports
    <3>3. 14 <= v.offset
      BY <1>2, <2>9
    <3>4. /\ info'.view["ETHERNET"].offset = 14
          /\ info'.view["ETHERNET"].offset + info'.view["ETHERNET"].length = n
      BY <1>1, <2>6
    <3>5. info'.truncated <=> n < 14 + frame.total_length
      <4>1. n - 14 < frame.total_length <=> n < 14 + frame.total_length
        BY <1>1, <1>2
      <4> QED BY <2>6, <4>1
    <3>6. v.offset + v.length = IF info'.truncated THEN n ELSE 14 + frame.total_length
      <4>1. v.offset + v.length = IF n - 14 < frame.total_length THEN n ELSE 14 + frame.total_length
        BY <1>1, <1>2, <2>9, <3>1
      <4> QED BY <2>6, <4>1
    <3> QED BY <2>5, <2>6, <3>2, <3>3, <3>4, <3>5, <3>6
            DEF PayloadIsDeclared, ETHERNET_HEADER_LENGTH
  <2> QED BY <2>5, <2>7, <2>8, <2>10 DEF IInv
<1> QED BY <1>1, <1>2, <1>8, <1>9, <1>10, <1>11

(* The IPv4 payload that the dispatch hands to a transport parser. *)
LEMMA Segment ==
  ASSUME IInv, AfterIpv4
  PROVE  LET n == captured_length
             h == HeaderLength(frame)
             a == Available(frame, captured_length) IN
         /\ n \in Nat /\ frame \in Frame /\ info \in Info /\ h \in Nat /\ a \in Nat
         /\ 14 + h + a <= n /\ a <= frame.total_length - h
         /\ info.view["IPV4"].offset = 14 + h /\ info.view["IPV4"].length = a
         /\ PayloadStart = 14 + h /\ CapturedEnd("IPV4") = 14 + h + a
         /\ DeclaredLength = frame.total_length - h
         /\ ViewError("IPV4") = "0" /\ PayloadView("IPV4") = byte_cursor_init(14 + h, a)
         /\ Verdict(frame, n) = TransportVerdict(frame, n)
<1> DEFINE n == captured_length
           h == HeaderLength(frame)
           a == Available(frame, captured_length)
<1>1. /\ n \in Nat /\ frame \in Frame /\ info \in Info /\ "IPV4" \in info.layers
      /\ frame.ether_type = "IPV4" /\ frame.version = 4 /\ frame.ihl >= 5
      /\ frame.total_length >= h /\ n >= 14 + h
  BY FramesAssumption DEF IInv, Types, AfterIpv4
<1>2. /\ frame.ihl \in Nat /\ frame.total_length \in Nat /\ h \in Nat /\ h >= 20
  BY <1>1, FrameParts DEF HeaderLength
<1>3. /\ info.view["IPV4"].offset = 14 + h /\ info.view["IPV4"].length = a
      /\ info.ipv4_header_length = h /\ info.ipv4_total_length = frame.total_length
  BY DEF AfterIpv4
<1>4. a \in Nat /\ 14 + h + a <= n /\ a <= frame.total_length - h
  BY <1>1, <1>2 DEF Available, AvailableLength
<1>5. Verdict(frame, n) = TransportVerdict(frame, n)
  BY <1>1, <1>2 DEF Verdict
<1> HIDE DEF n, h, a
<1>6. /\ PayloadStart = 14 + h /\ CapturedEnd("IPV4") = 14 + h + a
      /\ DeclaredLength = frame.total_length - h
  BY <1>3 DEF PayloadStart, CapturedEnd, DeclaredLength
<1>7. ViewError("IPV4") = "0" /\ PayloadView("IPV4") = byte_cursor_init(14 + h, a)
  BY <1>1, <1>3, <1>4, PayloadCursor DEF IInv, n
<1> QED BY <1>1, <1>2, <1>3, <1>4, <1>5, <1>6, <1>7 DEF n, h, a

(* What the three transport parsers have in common. *)
LEMMA TransportKeeps ==
  ASSUME IInv, AfterIpv4, NEW l \in Transports, l = info.protocol,
         NEW minimum \in Nat, minimum = Minimum(frame),
         NEW ACTION Rest, Transport(l, minimum, Rest),
         /\ Rest /\ ~frame.fragmented
         /\ frame.total_length - HeaderLength(frame) >= minimum
         /\ Available(frame, captured_length) >= minimum
         => IInv'
  PROVE  IInv'
<1> DEFINE n == captured_length
           h == HeaderLength(frame)
           a == Available(frame, captured_length)
<1>1. /\ n \in Nat /\ frame \in Frame /\ h \in Nat /\ a \in Nat
      /\ 14 + h + a <= n /\ PayloadStart = 14 + h /\ CapturedEnd("IPV4") = 14 + h + a
      /\ DeclaredLength = frame.total_length - h
      /\ ViewError("IPV4") = "0" /\ PayloadView("IPV4") = byte_cursor_init(14 + h, a)
      /\ Verdict(frame, n) = TransportVerdict(frame, n)
  BY Segment
<1>2. frame.total_length \in Nat /\ frame.protocol \in Transports
  BY <1>1, FrameParts DEF AfterIpv4
<1>3. l \in Layers
  BY DEF Layers
<1>4. 14 + h \in Nat /\ 14 + h <= n /\ 14 + h + a \in Nat /\ 14 + h + a <= n
  BY <1>1
<1>5. /\ ClassOf("ENODATA") = "TRUNCATED" /\ ClassOf("EBADMSG") = "MALFORMED"
      /\ ClassOf("ENOTSUP") = "UNSUPPORTED"
  BY DEF ClassOf
<1> HIDE DEF n, h, a
<1>6. byte_cursor_require_bytes(PayloadView("IPV4"), minimum)
        = IF a < minimum THEN "ENODATA" ELSE "0"
  <2>1. a \in Nat
    BY <1>1
  <2>2. byte_cursor_require_bytes(byte_cursor_init(14 + h, a), minimum)
          = IF a < minimum THEN "ENODATA" ELSE "0"
    BY <1>4, <2>1, WholeCursor
  <2> QED BY <1>1, <2>2
<1>7. CASE frame.fragmented
  <2>1. Reject(l, "ENOTSUP", 14 + h)
    BY <1>1, <1>7 DEF Transport
  <2>2. Verdict(frame, n) = "UNSUPPORTED"
    BY <1>1, <1>7 DEF TransportVerdict
  <2> QED BY <1>3, <1>4, <1>5, <2>1, <2>2, Rejected DEF n
<1>8. CASE ~frame.fragmented /\ frame.total_length - h < minimum
  <2>1. Reject(l, "EBADMSG", 14 + h)
    BY <1>1, <1>8 DEF Transport
  <2>2. Verdict(frame, n) = "MALFORMED"
    BY <1>1, <1>2, <1>8 DEF TransportVerdict, h
  <2> QED BY <1>3, <1>4, <1>5, <2>1, <2>2, Rejected DEF n
<1>9. CASE ~frame.fragmented /\ frame.total_length - h >= minimum /\ a < minimum
  <2>1. Reject(l, "ENODATA", 14 + h + a)
    BY <1>1, <1>2, <1>6, <1>9 DEF Transport
  <2>2. Verdict(frame, n) = "TRUNCATED"
    BY <1>1, <1>2, <1>9 DEF TransportVerdict, h, a, n
  <2> QED BY <1>3, <1>4, <1>5, <2>1, <2>2, Rejected DEF n
<1>10. CASE ~frame.fragmented /\ frame.total_length - h >= minimum /\ a >= minimum
  <2>1. Rest
    BY <1>1, <1>2, <1>6, <1>10 DEF Transport
  <2> QED BY <1>10, <2>1 DEF n, h, a
<1> QED BY <1>1, <1>2, <1>7, <1>8, <1>9, <1>10

LEMMA TcpKeeps == IInv /\ pc = "dispatch" /\ tcp_parse => IInv'
<1> SUFFICES ASSUME IInv, pc = "dispatch", tcp_parse PROVE IInv'
  OBVIOUS
<1> DEFINE n == captured_length
           h == HeaderLength(frame)
           a == Available(frame, captured_length)
           t == frame.data_offset * TCP_HEADER_WORD_SIZE
           rest == byte_cursor_remaining(byte_cursor_skip(PayloadView("IPV4"), TCP_MIN_HEADER_LENGTH))
           Rest == \/ /\ t < TCP_MIN_HEADER_LENGTH \/ t > DeclaredLength
                      /\ Reject("TCP", "EBADMSG", PayloadStart + 12)
                   \/ /\ t >= TCP_MIN_HEADER_LENGTH /\ t <= DeclaredLength
                      /\ IF rest < t - TCP_MIN_HEADER_LENGTH
                         THEN Reject("TCP", UncapturedCode, CapturedEnd("IPV4"))
                         ELSE Complete("TCP", t)
<1>1. AfterIpv4 /\ info.protocol = "TCP" /\ frame.protocol = "TCP"
  BY DEF tcp_parse, IInv, AfterIpv4
<1>2. /\ n \in Nat /\ frame \in Frame /\ h \in Nat /\ a \in Nat /\ info.view["IPV4"].length = a
      /\ 14 + h + a <= n /\ PayloadStart = 14 + h /\ CapturedEnd("IPV4") = 14 + h + a
      /\ DeclaredLength = frame.total_length - h
      /\ PayloadView("IPV4") = byte_cursor_init(14 + h, a)
      /\ Verdict(frame, n) = TransportVerdict(frame, n)
  BY <1>1, Segment
<1>3. frame.total_length \in Nat /\ frame.data_offset \in Nat
  BY <1>2, FrameParts
<1>4. t = TransportHeader(frame) /\ t = 4 * frame.data_offset /\ t \in Nat
  BY <1>1, <1>3 DEF TransportHeader, TCP_HEADER_WORD_SIZE
<1>5. Transport("TCP", TCP_MIN_HEADER_LENGTH, Rest)
  BY DEF tcp_parse
<1>6. TCP_MIN_HEADER_LENGTH = 20 /\ Minimum(frame) = 20 /\ "TCP" \in Transports
  BY <1>1 DEF TCP_MIN_HEADER_LENGTH, Minimum, Transports
<1>7. ASSUME Rest, ~frame.fragmented, frame.total_length - h >= 20, a >= 20
      PROVE  IInv'
  <2>1. rest = a - 20
    <3>1. 14 + h \in Nat
      BY <1>2
    <3>2. byte_cursor_remaining(byte_cursor_skip(byte_cursor_init(14 + h, a), 20)) = a - 20
      <4>1. /\ 14 + h \in Nat /\ a \in Nat /\ 20 \in Nat /\ a >= 20
        BY <1>2, <1>7
      <4> HIDE DEF h, a
      <4> QED BY <4>1, WholeCursor
    <3> QED BY <1>2, <1>6, <3>2
  <2>2. /\ TransportVerdict(frame, n) =
             IF ~TransportSane(frame) THEN "MALFORMED"
             ELSE IF a < t THEN "TRUNCATED" ELSE "COMPLETE"
        /\ TransportSane(frame) <=> t >= 20 /\ t <= frame.total_length - h
    BY <1>1, <1>2, <1>3, <1>4, <1>6, <1>7 DEF TransportVerdict, TransportSane
  <2> HIDE DEF rest, t, h, a
  <2>3. CASE t < 20 \/ t > frame.total_length - h
    <3>1. Reject("TCP", "EBADMSG", 14 + h + 12)
      BY <1>2, <1>3, <1>4, <1>6, <1>7, <2>3
    <3>2. Verdict(frame, n) = "MALFORMED" /\ ClassOf("EBADMSG") = "MALFORMED"
      BY <1>2, <1>3, <1>4, <2>2, <2>3 DEF ClassOf
    <3>3. 14 + h + 12 \in Nat /\ 14 + h + 12 <= n /\ "TCP" \in Layers
      BY <1>2, <1>7 DEF Layers, Transports
    <3> QED BY <3>1, <3>2, <3>3, Rejected
  <2>4. CASE t >= 20 /\ t <= frame.total_length - h /\ a < t
    <3>1. Reject("TCP", "ENODATA", 14 + h + a)
      BY <1>2, <1>3, <1>4, <1>6, <1>7, <2>1, <2>4 DEF UncapturedCode
    <3>2. Verdict(frame, n) = "TRUNCATED" /\ ClassOf("ENODATA") = "TRUNCATED"
      BY <1>2, <2>2, <2>4 DEF ClassOf
    <3>3. 14 + h + a \in Nat /\ "TCP" \in Layers
      BY <1>2 DEF Layers, Transports
    <3> QED BY <1>2, <3>1, <3>2, <3>3, Rejected
  <2>5. CASE t >= 20 /\ t <= frame.total_length - h /\ a >= t
    <3>1. Complete("TCP", t)
      BY <1>2, <1>3, <1>4, <1>6, <1>7, <2>1, <2>5
    <3>2. Verdict(frame, n) = "COMPLETE"
      BY <1>2, <1>4, <2>2, <2>5
    <3> QED BY <1>1, <1>2, <1>4, <1>6, <2>5, <3>1, <3>2, Completed DEF h
  <2> QED BY <1>2, <1>3, <1>4, <2>3, <2>4, <2>5
<1> HIDE DEF Rest
<1> QED BY <1>1, <1>5, <1>6, <1>7, TransportKeeps

LEMMA UdpKeeps == IInv /\ pc = "dispatch" /\ udp_parse => IInv'
<1> SUFFICES ASSUME IInv, pc = "dispatch", udp_parse PROVE IInv'
  OBVIOUS
<1> DEFINE n == captured_length
           h == HeaderLength(frame)
           a == Available(frame, captured_length)
           Rest == \/ /\ frame.udp_length < UDP_HEADER_LENGTH \/ frame.udp_length # DeclaredLength
                      /\ Reject("UDP", "EBADMSG", PayloadStart + 4)
                   \/ /\ frame.udp_length >= UDP_HEADER_LENGTH
                      /\ frame.udp_length = DeclaredLength
                      /\ Complete("UDP", UDP_HEADER_LENGTH)
<1>1. AfterIpv4 /\ info.protocol = "UDP" /\ frame.protocol = "UDP"
  BY DEF udp_parse, IInv, AfterIpv4
<1>2. /\ n \in Nat /\ frame \in Frame /\ h \in Nat /\ a \in Nat /\ info.view["IPV4"].length = a
      /\ 14 + h + a <= n /\ PayloadStart = 14 + h /\ DeclaredLength = frame.total_length - h
      /\ Verdict(frame, n) = TransportVerdict(frame, n)
  BY <1>1, Segment
<1>3. frame.total_length \in Nat /\ frame.udp_length \in Nat
  BY <1>2, FrameParts
<1>4. UDP_HEADER_LENGTH = 8 /\ Minimum(frame) = 8 /\ TransportHeader(frame) = 8 /\ "UDP" \in Transports
  BY <1>1 DEF UDP_HEADER_LENGTH, Minimum, TransportHeader, Transports
<1>5. Transport("UDP", UDP_HEADER_LENGTH, Rest)
  BY DEF udp_parse
<1>6. ASSUME Rest, ~frame.fragmented, frame.total_length - h >= 8, a >= 8
      PROVE  IInv'
  <2>1. /\ TransportVerdict(frame, n) = IF ~TransportSane(frame) THEN "MALFORMED" ELSE "COMPLETE"
        /\ TransportSane(frame) <=> frame.udp_length >= 8 /\ frame.udp_length = frame.total_length - h
    BY <1>1, <1>2, <1>3, <1>4, <1>6 DEF TransportVerdict, TransportSane
  <2> HIDE DEF h, a
  <2>2. CASE frame.udp_length < 8 \/ frame.udp_length # frame.total_length - h
    <3>1. Reject("UDP", "EBADMSG", 14 + h + 4)
      BY <1>2, <1>3, <1>4, <1>6, <2>2
    <3>2. Verdict(frame, n) = "MALFORMED" /\ ClassOf("EBADMSG") = "MALFORMED"
      BY <1>2, <1>3, <2>1, <2>2 DEF ClassOf
    <3>3. 14 + h + 4 \in Nat /\ 14 + h + 4 <= n /\ "UDP" \in Layers
      BY <1>2, <1>6 DEF Layers, Transports
    <3> QED BY <3>1, <3>2, <3>3, Rejected
  <2>3. CASE frame.udp_length >= 8 /\ frame.udp_length = frame.total_length - h
    <3>1. Complete("UDP", 8)
      BY <1>2, <1>3, <1>4, <1>6, <2>3
    <3>2. Verdict(frame, n) = "COMPLETE"
      BY <1>2, <2>1, <2>3
    <3> QED BY <1>1, <1>2, <1>4, <1>6, <3>1, <3>2, Completed DEF h
  <2> QED BY <1>2, <1>3, <2>2, <2>3
<1> HIDE DEF Rest
<1> QED BY <1>1, <1>4, <1>5, <1>6, TransportKeeps

LEMMA IcmpKeeps == IInv /\ pc = "dispatch" /\ icmp_parse => IInv'
<1> SUFFICES ASSUME IInv, pc = "dispatch", icmp_parse PROVE IInv'
  OBVIOUS
<1> DEFINE n == captured_length
           h == HeaderLength(frame)
           a == Available(frame, captured_length)
           Rest == Complete("ICMP", ICMP_HEADER_LENGTH)
<1>1. AfterIpv4 /\ info.protocol = "ICMP" /\ frame.protocol = "ICMP"
  BY DEF icmp_parse, IInv, AfterIpv4
<1>2. /\ n \in Nat /\ frame \in Frame /\ h \in Nat /\ a \in Nat /\ info.view["IPV4"].length = a
      /\ 14 + h + a <= n /\ Verdict(frame, n) = TransportVerdict(frame, n)
  BY <1>1, Segment
<1>3. /\ ICMP_HEADER_LENGTH = 8 /\ Minimum(frame) = 8 /\ TransportHeader(frame) = 8
      /\ "ICMP" \in Transports
  BY <1>1 DEF ICMP_HEADER_LENGTH, Minimum, TransportHeader, Transports
<1>4. Transport("ICMP", ICMP_HEADER_LENGTH, Rest)
  BY DEF icmp_parse
<1>5. frame.total_length \in Nat
  BY <1>2, FrameParts
<1>6. ASSUME Rest, ~frame.fragmented, frame.total_length - h >= 8, a >= 8
      PROVE  IInv'
  <2>1. Complete("ICMP", 8)
    BY <1>3, <1>6
  <2>2. Verdict(frame, n) = "COMPLETE"
    BY <1>1, <1>2, <1>3, <1>5, <1>6 DEF TransportVerdict, TransportSane
  <2> HIDE DEF h, a
  <2> QED BY <1>1, <1>2, <1>3, <1>6, <2>1, <2>2, Completed DEF h
<1> HIDE DEF Rest
<1> QED BY <1>1, <1>3, <1>4, <1>6, TransportKeeps

LEMMA UnsupportedKeeps == IInv /\ pc = "dispatch" /\ UnsupportedProtocol => IInv'
<1> SUFFICES ASSUME IInv, pc = "dispatch", UnsupportedProtocol PROVE IInv'
  OBVIOUS
<1>1. AfterIpv4 /\ frame.protocol = "OTHER"
  BY DEF UnsupportedProtocol, IInv, AfterIpv4
<1>2. PayloadStart \in Nat /\ PayloadStart <= captured_length
      /\ Verdict(frame, captured_length) = TransportVerdict(frame, captured_length)
  BY <1>1, Segment
<1>3. Verdict(frame, captured_length) = "UNSUPPORTED" /\ ClassOf("ENOTSUP") = "UNSUPPORTED"
  BY <1>1, <1>2 DEF TransportVerdict, Transports, ClassOf
<1> QED BY <1>2, <1>3, Rejected DEF UnsupportedProtocol, Layers

LEMMA RecaptureKeeps == IInv /\ Recapture => IInv'
<1> SUFFICES ASSUME IInv, Recapture PROVE IInv'
  OBVIOUS
<1>1. /\ captured_length \in Nat /\ pc = "done" /\ error = "0" /\ frame \in Frames
      /\ packet_result = Verdict(frame, captured_length)
  BY DEF Recapture, IInv, Types, AfterAll
<1>2. /\ captured_length' \in Nat /\ captured_length' < captured_length
      /\ earlier' = packet_result /\ pc' = "ethernet" /\ info' = packet_info_init
      /\ frame' = frame /\ error' = error
  BY <1>1 DEF Recapture
<1>3. packet_info_init \in Info /\ packet_info_init.layers = {}
  BY DEF packet_info_init, Info, NoView, ParseStatus
<1>4. Types' /\ PayloadIsDeclared'
  BY <1>1, <1>2, <1>3 DEF Types, PayloadIsDeclared
<1>5. EarlierVerdict'
  BY <1>1, <1>2 DEF EarlierVerdict
<1> QED BY <1>2, <1>3, <1>4, <1>5 DEF IInv
-----------------------------------------------------------------------------
(* The theorems. *)

(* The invariant holds for every set of frames and every capture of them. *)
THEOREM Invariance == Spec => []IInv
<1>1. Init => IInv
  <2> SUFFICES ASSUME Init PROVE IInv
    OBVIOUS
  <2>1. /\ frame \in Frames /\ captured_length \in Nat
        /\ pc = "ethernet" /\ info = packet_info_init /\ error = "0" /\ earlier = "NONE"
    BY FramesAssumption DEF Init, Frame
  <2>2. packet_info_init \in Info /\ packet_info_init.layers = {}
    BY DEF packet_info_init, Info, NoView, ParseStatus
  <2> QED BY <2>1, <2>2 DEF IInv, Types, EarlierVerdict, PayloadIsDeclared
<1>2. IInv /\ [Next]_vars => IInv'
  <2>1. ASSUME IInv, UNCHANGED vars PROVE IInv'
    BY <2>1 DEF vars, IInv, Types, EarlierVerdict, PayloadIsDeclared, AfterEthernet, AfterIpv4,
                AfterAll
  <2> QED BY <2>1, EthernetKeeps, Ipv4Keeps, TcpKeeps, UdpKeeps, IcmpKeeps, UnsupportedKeeps,
             RecaptureKeeps
          DEF Next, ipv4_dispatch_payload
<1> QED BY <1>1, <1>2, PTL DEF Spec

(* No packet ends the run and every one gets a class. *)
THEOREM NeverFatal == Spec => []VerdictNeverFatal
<1>1. IInv => VerdictNeverFatal
  BY FramesAssumption, VerdictMeaning DEF IInv, Types, AfterAll, VerdictNeverFatal
<1> QED BY <1>1, Invariance, PTL

(* COMPLETE is given exactly to the packets whose headers are well formed  *)
(* and captured, and a flow key can be made of each.                       *)
THEOREM CompleteCorrect == Spec => []CompleteIsJustified
<1>1. IInv => CompleteIsJustified
  BY FramesAssumption, VerdictMeaning DEF IInv, Types, AfterAll, CompleteIsJustified
<1> QED BY <1>1, Invariance, PTL

(* The payload of every layer is where the headers say. *)
THEOREM PayloadCorrect == Spec => []PayloadIsDeclared
<1>1. IInv => PayloadIsDeclared
  BY DEF IInv
<1> QED BY <1>1, Invariance, PTL

(* Capturing less of a packet can only make it TRUNCATED. *)
THEOREM SnaplenCorrect == Spec => []SnaplenOnlyTruncates
<1>1. IInv => SnaplenOnlyTruncates
  <2> SUFFICES ASSUME IInv, pc = "done", earlier # "NONE"
               PROVE  packet_result \in {"TRUNCATED", earlier}
    BY DEF SnaplenOnlyTruncates
  <2>1. PICK m \in Nat : m > captured_length /\ earlier = Verdict(frame, m)
    BY DEF IInv, EarlierVerdict
  <2>2. /\ captured_length \in Nat /\ frame \in Frame
        /\ packet_result = Verdict(frame, captured_length)
    BY FramesAssumption DEF IInv, Types, AfterAll
  <2> QED BY <2>1, <2>2, VerdictShrinks
<1> QED BY <1>1, Invariance, PTL
=============================================================================
