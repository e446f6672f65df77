----------------------------- MODULE PacketParse -----------------------------
(***************************************************************************)
(* From captured bytes to a packet class: the parsers of src/protocol      *)
(* (ethernet.c, ipv4.c, ipv4_dispatch.c, tcp.c, udp.c, icmp.c), called in  *)
(* this order by app_process_packet (src/app/app.c), with the result in a  *)
(* packet_info_t.  A frame is the record of the header fields that decide  *)
(* something; captured_length bytes of it are in the capture.              *)
(***************************************************************************)
EXTENDS ByteCursor, FlowKey

CONSTANT Frames   \* the frames on the wire

ETHERNET_HEADER_LENGTH == 14
IPV4_MIN_HEADER_LENGTH == 20
TCP_MIN_HEADER_LENGTH == 20
UDP_HEADER_LENGTH == 8
ICMP_HEADER_LENGTH == 8

(* A 16-bit field of a header. *)
Uint16 == 0 .. 65535

(* fragmented: more fragments follow, or this one is not the first.        *)
(* data_offset means something in a TCP header only, udp_length in a UDP   *)
(* header only.                                                            *)
Frame ==
  [length : Nat, ether_type : {"IPV4", "OTHER"}, version : 0 .. 15, ihl : 0 .. 15,
   total_length : Uint16, fragmented : BOOLEAN, protocol : Transports \cup {"OTHER"},
   data_offset : 0 .. 15, udp_length : Uint16]

ASSUME FramesAssumption == Frames \subseteq Frame

VARIABLES
  frame, captured_length,   \* the packet, and how much of it was captured
  pc,                       \* the parser that runs next
  info,                     \* packet_info_t
  packet_result, error,     \* what app_process_packet hands back and returns
  earlier                   \* history: the class of a longer capture of frame

vars == <<frame, captured_length, pc, info, packet_result, error, earlier>>

Layers == {"ETHERNET", "IPV4"} \cup Transports

NoView == [offset |-> 0, length |-> 0]

(* layers are the has_* flags; view the payload of each layer; truncated   *)
(* the flag that every transport parser copies from the IPv4 layer.        *)
packet_info_init ==
  [layers |-> {}, protocol |-> "OTHER", view |-> [l \in Layers |-> NoView],
   ipv4_header_length |-> 0, ipv4_total_length |-> 0, truncated |-> FALSE,
   parse_status |-> "NOT_STARTED", error_layer |-> "NONE", error_code |-> "0",
   error_offset |-> 0]

Init ==
  /\ frame \in Frames
  /\ captured_length = frame.length
  /\ pc = "ethernet" /\ info = packet_info_init
  /\ packet_result = "NONE" /\ error = "0" /\ earlier = "NONE"

Same == UNCHANGED <<frame, captured_length, earlier>>

(* app_process_packet: an error other than the three that classify a       *)
(* packet is returned, and ends the run.                                   *)
Fatal(code) == pc' = "done" /\ error' = code /\ Same /\ UNCHANGED <<info, packet_result>>

ClassOf(code) ==
  CASE code = "ENODATA" -> "TRUNCATED"
    [] code = "EBADMSG" -> "MALFORMED"
    [] code = "ENOTSUP" -> "UNSUPPORTED"

(* packet_info_set_error, which refuses an offset that was not captured,   *)
(* and the class that app_process_packet makes of the error.               *)
Reject(layer, code, offset) ==
  IF offset > captured_length THEN Fatal("EINVAL")
  ELSE /\ info' = [info EXCEPT !.parse_status = ClassOf(code), !.error_layer = layer,
                               !.error_code = code, !.error_offset = offset]
       /\ packet_result' = ClassOf(code)
       /\ pc' = "done"
       /\ Same /\ UNCHANGED error

Accept(layer, updated, next) ==
  /\ info' = [updated EXCEPT !.layers = @ \cup {layer}]
  /\ pc' = next
  /\ Same /\ UNCHANGED <<packet_result, error>>

(* ethernet_payload_view, ipv4_payload_view and their like: a cursor over  *)
(* the payload of a layer, if it lies in the frame.                        *)
ViewError(layer) ==
  LET v == info.view[layer] IN
  IF \/ layer \notin info.layers
     \/ v.offset > captured_length
     \/ v.length > captured_length - v.offset THEN "EINVAL" ELSE "0"

PayloadView(layer) ==
  LET whole == byte_cursor_skip(byte_cursor_init(0, captured_length), info.view[layer].offset)
  IN  SliceOf(whole, info.view[layer].length)

(* Seeded fault: the end of what should have been captured. *)
DeclaredEnd(layer) == info.view[layer].offset + frame.total_length

(* network_end_offset, captured_segment_end, ...: where the capture ends. *)
CapturedEnd(layer) == info.view[layer].offset + info.view[layer].length

-----------------------------------------------------------------------------

ethernet_parse ==
  LET cursor == byte_cursor_init(0, captured_length)
      header == byte_cursor_require_bytes(cursor, ETHERNET_HEADER_LENGTH)
      rest == byte_cursor_skip(cursor, ETHERNET_HEADER_LENGTH)
      parsed == [info EXCEPT !.layers = @ \cup {"ETHERNET"},
                             !.view["ETHERNET"] =
                               [offset |-> ETHERNET_HEADER_LENGTH,
                                length |-> byte_cursor_remaining(rest)]] IN
  /\ pc = "ethernet"
  /\ \/ header # "0" /\ Reject("ETHERNET", header, captured_length)
     \/ header = "0" /\ frame.ether_type = "IPV4" /\ Accept("ETHERNET", parsed, "ipv4")
     \/ /\ header = "0" /\ frame.ether_type # "IPV4"
        /\ info' = parsed /\ packet_result' = "UNSUPPORTED" /\ pc' = "done"
        /\ Same /\ UNCHANGED error

IPV4_HEADER_WORD_SIZE == 4

(* Seeded fault: the padding of a short frame is taken as payload. *)
PaddedLength(available, total) == available

(* available_ipv4_length *)
AvailableLength(available, total) == IF total < available THEN total ELSE available

ipv4_parse ==
  LET network == PayloadView("ETHERNET")
      start == info.view["ETHERNET"].offset
      captured == info.view["ETHERNET"].length
      base == byte_cursor_require_bytes(network, IPV4_MIN_HEADER_LENGTH)
      header_length == frame.ihl * IPV4_HEADER_WORD_SIZE
      options ==
        byte_cursor_require_bytes(byte_cursor_skip(network, IPV4_MIN_HEADER_LENGTH),
                                  header_length - IPV4_MIN_HEADER_LENGTH)
      sane == frame.version = 4 /\ frame.ihl >= 5 IN
  /\ pc = "ipv4"
  /\ IF ViewError("ETHERNET") # "0" THEN Fatal(ViewError("ETHERNET"))
     ELSE
       \/ base # "0" /\ Reject("IPV4", base, CapturedEnd("ETHERNET"))
       \/ base = "0" /\ ~sane /\ Reject("IPV4", "EBADMSG", start)
       \/ /\ base = "0" /\ sane /\ frame.total_length < header_length
          /\ Reject("IPV4", "EBADMSG", start + 2)
       \/ /\ base = "0" /\ sane /\ frame.total_length >= header_length
          /\ options # "0" /\ Reject("IPV4", options, CapturedEnd("ETHERNET"))
       \/ /\ base = "0" /\ sane /\ frame.total_length >= header_length /\ options = "0"
          /\ Accept("IPV4",
                    [info EXCEPT
                       !.protocol = frame.protocol,
                       !.ipv4_header_length = header_length,
                       !.ipv4_total_length = frame.total_length,
                       !.truncated = captured < frame.total_length,
                       !.view["IPV4"] =
                         [offset |-> start + header_length,
                          length |-> AvailableLength(captured, frame.total_length)
                                       - header_length]],
                    "dispatch")

-----------------------------------------------------------------------------
(* ipv4_dispatch_payload and the three transport parsers. *)

(* declared_segment_length and its like: the length that the IPv4 header   *)
(* gives to the transport layer, captured or not.                          *)
DeclaredLength == info.ipv4_total_length - info.ipv4_header_length

PayloadStart == info.view["IPV4"].offset

(* packet_info_mark_complete, after the parser published its layer. *)
Complete(layer, header_length) ==
  /\ info' = [info EXCEPT !.layers = @ \cup {layer},
                          !.view[layer] =
                            [offset |-> PayloadStart + header_length,
                             length |-> byte_cursor_remaining(
                                          byte_cursor_skip(PayloadView("IPV4"), header_length))],
                          !.parse_status = "COMPLETE"]
  /\ packet_result' = "COMPLETE"
  /\ pc' = "done"
  /\ Same /\ UNCHANGED error

(* What the three have in common: fragments are not reassembled, the       *)
(* header must fit the declared length and must have been captured; then   *)
(* Rest looks into it.                                                     *)
Transport(layer, minimum, Rest) ==
  LET header == byte_cursor_require_bytes(PayloadView("IPV4"), minimum) IN
  IF frame.fragmented THEN Reject(layer, "ENOTSUP", PayloadStart)
  ELSE IF DeclaredLength < minimum THEN Reject(layer, "EBADMSG", PayloadStart)
  ELSE IF ViewError("IPV4") # "0" THEN Fatal(ViewError("IPV4"))
  ELSE IF header # "0" THEN Reject(layer, header, CapturedEnd("IPV4"))
  ELSE Rest

TCP_HEADER_WORD_SIZE == 4

(* Seeded fault: options beyond the capture are taken as beyond the segment. *)
OptionsCode == "EBADMSG"

UncapturedCode == "ENODATA"

tcp_parse ==
  LET header_length == frame.data_offset * TCP_HEADER_WORD_SIZE
      segment == byte_cursor_skip(PayloadView("IPV4"), TCP_MIN_HEADER_LENGTH) IN
  /\ info.protocol = "TCP"
  /\ Transport("TCP", TCP_MIN_HEADER_LENGTH,
       \/ /\ header_length < TCP_MIN_HEADER_LENGTH \/ header_length > DeclaredLength
          /\ Reject("TCP", "EBADMSG", PayloadStart + 12)
       \/ /\ header_length >= TCP_MIN_HEADER_LENGTH /\ header_length <= DeclaredLength
          /\ IF byte_cursor_remaining(segment) < header_length - TCP_MIN_HEADER_LENGTH
             THEN Reject("TCP", UncapturedCode, CapturedEnd("IPV4"))
             ELSE Complete("TCP", header_length))

(* The UDP length must be exactly what the IPv4 header leaves. *)
udp_parse ==
  /\ info.protocol = "UDP"
  /\ Transport("UDP", UDP_HEADER_LENGTH,
       \/ /\ frame.udp_length < UDP_HEADER_LENGTH \/ frame.udp_length # DeclaredLength
          /\ Reject("UDP", "EBADMSG", PayloadStart + 4)
       \/ /\ frame.udp_length >= UDP_HEADER_LENGTH /\ frame.udp_length = DeclaredLength
          /\ Complete("UDP", UDP_HEADER_LENGTH))

icmp_parse ==
  /\ info.protocol = "ICMP"
  /\ Transport("ICMP", ICMP_HEADER_LENGTH, Complete("ICMP", ICMP_HEADER_LENGTH))

(* Seeded fault: a protocol without a parser passes as parsed. *)
NothingToParse ==
  /\ info.protocol = "OTHER"
  /\ info' = [info EXCEPT !.parse_status = "COMPLETE"]
  /\ packet_result' = "COMPLETE" /\ pc' = "done"
  /\ Same /\ UNCHANGED error

UnsupportedProtocol ==
  info.protocol = "OTHER" /\ Reject("IPV4", "ENOTSUP", PayloadStart)

ipv4_dispatch_payload ==
  /\ pc = "dispatch"
  /\ tcp_parse \/ udp_parse \/ icmp_parse \/ UnsupportedProtocol

(* The same frame again, captured with a smaller snapshot length. *)
Recapture ==
  /\ pc = "done" /\ earlier = "NONE" /\ error = "0"
  /\ captured_length' \in 0 .. captured_length - 1
  /\ earlier' = packet_result
  /\ pc' = "ethernet" /\ info' = packet_info_init /\ packet_result' = "NONE"
  /\ UNCHANGED <<frame, error>>

Next == ethernet_parse \/ ipv4_parse \/ ipv4_dispatch_payload \/ Recapture

Spec == Init /\ [][Next]_vars

-----------------------------------------------------------------------------

(* Whatever its length fields say and wherever the capture cuts it, a      *)
(* packet gets a class and never ends the run (app_process_packet: neither *)
(* into the flow table nor the end of the reading).                        *)
VerdictNeverFatal == error = "0" /\ (pc = "done" => packet_result # "NONE")

(* What the headers of the frame say, whoever reads them. *)
HeaderLength(f) == 4 * f.ihl

TransportHeader(f) == IF f.protocol = "TCP" THEN 4 * f.data_offset ELSE 8

WellFormed(f) ==
  /\ f.ether_type = "IPV4" /\ f.version = 4 /\ f.ihl >= 5
  /\ f.protocol \in Transports /\ ~f.fragmented
  /\ f.protocol = "TCP" => f.data_offset >= 5
  /\ HeaderLength(f) + TransportHeader(f) <= f.total_length
  /\ f.protocol = "UDP" => HeaderLength(f) + f.udp_length = f.total_length

(* A packet goes into the flow table exactly when its headers are well     *)
(* formed and were captured up to the last one; and then flow_key.c makes  *)
(* a key of it, so that no parsed packet ends the run there.               *)
CompleteIsJustified ==
  pc = "done" =>
    /\ packet_result = "COMPLETE" <=>
         /\ WellFormed(frame)
         /\ ETHERNET_HEADER_LENGTH + HeaderLength(frame) + TransportHeader(frame)
              <= captured_length
    /\ packet_result = "COMPLETE" => KeyError(info) = "0"

(* The payload of each layer lies in that of the layer below it; that of   *)
(* IPv4 and of the transport layer ends where the IPv4 header says, before *)
(* any padding of the frame, or at the end of the capture, and then it is  *)
(* marked as truncated.                                                    *)
PayloadIsDeclared ==
  LET end == ETHERNET_HEADER_LENGTH + frame.total_length
      start(l) == info.view[l].offset
      stop(l) == start(l) + info.view[l].length IN
  /\ "ETHERNET" \in info.layers => stop("ETHERNET") = captured_length
  /\ "IPV4" \in info.layers =>
       /\ start("ETHERNET") <= start("IPV4")
       /\ stop("IPV4") = IF info.truncated THEN captured_length ELSE end
       /\ info.truncated <=> captured_length < end
  /\ \A l \in info.layers \cap Transports :
       start("IPV4") <= start(l) /\ stop(l) = stop("IPV4") /\ start(l) <= stop(l)

(* Capturing less of a packet can only make it TRUNCATED: no snapshot      *)
(* length turns a good packet into a malformed one or the other way round. *)
SnaplenOnlyTruncates ==
  pc = "done" /\ earlier # "NONE" => packet_result \in {"TRUNCATED", earlier}
=============================================================================
