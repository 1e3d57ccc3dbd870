----------------------------- MODULE TCPOverIP -----------------------------
(***************************************************************************)
(* The adapters that carry TCP segments in IPv4 datagrams: FdAdapterBase   *)
(* and TCPOverIPv4Adapter (src/util/fd_adapter.hh, tcp_over_ip.cc),        *)
(* TCPOverIPv4OverTunFdAdapter and TCPOverIPv4OverEthernetAdapter          *)
(* (tuntap_adapter.cc), LossyFdAdapter (lossy_fd_adapter.hh), and         *)
(* NetworkInterfaceAdapter of src/apps/endtoend.cc, which is the second of *)
(* them on a socket pair.                                                  *)
(*                                                                         *)
(* An adapter is a record of its configuration, the listening flag, and    *)
(* for Ethernet its NetworkInterface and the next hop; an Address is       *)
(* [ip, port].  What is read or written is the bytes of one datagram or    *)
(* frame.                                                                  *)
(***************************************************************************)
EXTENDS Headers, NetworkInterface

(***************************************************************************)
(* A datagram into the segment it carries for this connection: {} or       *)
(* {segment}, and the adapter.                                             *)
(***************************************************************************)
nothing(a) == [segment |-> {}, adapter |-> a]

\* The datagram is one to look at: to us and from our peer.
is_related(a, header) ==
  a.listening \/ (header.dst = a.source.ip /\ header.src = a.destination.ip)

\* The first SYN that comes decides who the peer is.
bound(a, header, seg) ==
  [a EXCEPT !.source.ip = header.dst, !.listening = FALSE,
            !.destination = [ip |-> header.src, port |-> seg.udinfo.src_port]]

is_opening(a, seg) == a.listening /\ seg.sender_message.SYN /\ ~seg.reset

accepted(a, header, seg) ==
  LET after == IF is_opening(a, seg) THEN bound(a, header, seg) ELSE a
  IN  IF seg.udinfo.dst_port # a.source.port THEN nothing(a)
      ELSE IF after.listening \/ seg.udinfo.src_port # after.destination.port THEN nothing(after)
      ELSE [segment |-> {seg}, adapter |-> after]

unwrapped(a, header, segments) ==
  IF ~is_related(a, header) \/ header.proto # PROTO_TCP \/ segments = {} THEN nothing(a)
  ELSE accepted(a, header, CHOOSE seg \in segments : TRUE)

unwrap_tcp_in_ip(a, dgram) ==
  unwrapped(a, dgram.header,
            TCPSegment_parse(Parser(dgram.payload), pseudo_checksum(dgram.header)).segment)

(***************************************************************************)
(* A segment into a datagram: the segment with its ports and its checksum, *)
(* and the datagram with it.                                               *)
(***************************************************************************)
addressed(a, seg) ==
  [seg EXCEPT !.udinfo.src_port = a.source.port, !.udinfo.dst_port = a.destination.port]

datagram_header(a, seg) ==
  IPv4Header(a.source.ip, a.destination.ip,
             IPv4Header_LENGTH + 4 * TCPHeaderMinLen + Len(seg.sender_message.payload))

wrapped_segment(a, seg) ==
  TCPSegment_compute_checksum(addressed(a, seg), pseudo_checksum(datagram_header(a, seg)))

wrap_tcp_in_ip(a, seg) ==
  [header  |-> compute_checksum(datagram_header(a, seg)),
   payload |-> TCPSegment_serialize(wrapped_segment(a, seg))]

(***************************************************************************)
(* FileDescriptor::read of one datagram into buffers of the given sizes    *)
(* and one more for the rest.                                              *)
(***************************************************************************)
scattered(bytes, sizes) ==
  LET start(i) == FoldLeft(LAMBDA sum, size : sum + size, 0, SubSeq(sizes, 1, i))
      part(i) == Slice(bytes, Least(start(i - 1), Len(bytes)), Least(start(i), Len(bytes)))
  IN  [i \in 1 .. Len(sizes) + 1 |->
         IF i <= Len(sizes) THEN part(i)
         ELSE Slice(bytes, Least(start(Len(sizes)), Len(bytes)), Len(bytes))]

(***************************************************************************)
(* The TUN device.                                                         *)
(***************************************************************************)
tun_parsed(buffers) == IPv4Datagram_parse(Parser(buffers))

tun_read(a, bytes) ==
  LET parsed == tun_parsed(scattered(bytes, <<IPv4Header_LENGTH>>))
  IN  IF parsed.parser.error_ THEN nothing(a) ELSE unwrap_tcp_in_ip(a, parsed.dgram)

tun_write(a, seg) == FlattenSeq(IPv4Datagram_serialize(wrap_tcp_in_ip(a, seg)))

(***************************************************************************)
(* LossyFdAdapter around an adapter: what was read is dropped behind the   *)
(* adapter's own read, which may have taken its peer from it.              *)
(***************************************************************************)
read_dropped(result) == [result EXCEPT !.segment = {}]

(***************************************************************************)
(* The TAP device.  What the NetworkInterface is given is the frame with   *)
(* its payload parsed: {} when a parse fails, and then it does nothing.    *)
(***************************************************************************)
Type == [IPv4 |-> 2048, ARP |-> 2054]
Opcode == [request |-> 1, reply |-> 2]

named(names, number) == {name \in DOMAIN names : names[name] = number}

unless_error(p, object) == IF p.error_ THEN {} ELSE {object}

payload_parsed(type, buffers) ==
  LET dgram == IPv4Datagram_parse(Parser(buffers))
      arp == ARPMessage_parse(Parser(buffers))
  IN  IF type = TYPE_IPv4 THEN unless_error(dgram.parser, dgram.dgram)
      ELSE {[message EXCEPT !.opcode = CHOOSE o \in named(Opcode, @) : TRUE] :
              message \in unless_error(arp.parser, arp.message)}

frame_parsed(buffers) ==
  LET parsed == EthernetFrame_parse(Parser(buffers))
      header == parsed.frame.header
      frames(type) == {[header EXCEPT !.type = type] @@ [payload |-> payload] :
                         payload \in payload_parsed(type, parsed.frame.payload)}
  IN  IF parsed.parser.error_ THEN {}
      ELSE UNION {frames(type) : type \in named(Type, header.type)}

frame_bytes(frame) ==
  LET payload == IF frame.type = TYPE_IPv4 THEN IPv4Datagram_serialize(frame.payload)
                 ELSE ARPMessage_serialize([frame.payload EXCEPT !.opcode = Opcode[@]])
  IN  FlattenSeq(EthernetFrame_serialize(
        [header |-> [frame EXCEPT !.type = Type[@]], payload |-> payload]))

\* send_pending: the adapter, and the frames it wrote.
sent_pending(a) == [a EXCEPT !.interface.send_queue = <<>>]
pending(a) == [i \in DOMAIN a.interface.send_queue |-> frame_bytes(a.interface.send_queue[i])]

\* read and write before send_pending.
frame_received(a, dgrams) ==
  IF dgrams = {} THEN nothing(a) ELSE unwrap_tcp_in_ip(a, CHOOSE d \in dgrams : TRUE)

frame_read(a, frame) ==
  frame_received([a EXCEPT !.interface = recv_frame(@, frame)],
                 received_datagram(a.interface, frame))

frames_read(a, frames) ==
  IF frames = {} THEN nothing(a) ELSE frame_read(a, CHOOSE frame \in frames : TRUE)

ethernet_read(a, bytes) ==
  frames_read(a, frame_parsed(scattered(bytes, <<EthernetHeader_LENGTH, IPv4Header_LENGTH>>)))

ethernet_write(a, seg) ==
  [a EXCEPT !.interface = send_datagram(@, wrap_tcp_in_ip(a, seg), a.next_hop)]

ethernet_tick(a, ms) == [a EXCEPT !.interface = NetworkInterface_tick(@, ms)]
=============================================================================
