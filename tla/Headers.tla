------------------------------ MODULE Headers ------------------------------
(***************************************************************************)
(* What the headers look like on the wire: EthernetHeader and              *)
(* EthernetFrame, ARPMessage, IPv4Header and IPv4Datagram, TCPSegment      *)
(* (src/util), each with its parse and its serialize.                      *)
(*                                                                         *)
(* A parse returns the object and the parser it leaves; a serialize        *)
(* returns the serializer it leaves.                                       *)
(***************************************************************************)
EXTENDS Parser

(***************************************************************************)
(* EthernetHeader, EthernetFrame.  The type and an ARP message's opcode    *)
(* are kept as numbers here.                                               *)
(***************************************************************************)
EthernetHeader_LENGTH == 14
EthernetLayout == [dst |-> <<0, 6>>, src |-> <<6, 12>>, type |-> <<12, 14>>]

EthernetFrame_parse(p) ==
  LET read == integers(p, EthernetLayout)
  IN  [frame  |-> [header |-> read.fields, payload |-> dump_all(read.parser.input_)],
       parser |-> read.parser]

buffers_written(s, buffers) == FoldLeft(buffer, s, buffers)

EthernetFrame_serialize(frame) ==
  output(buffers_written(written(Serializer, frame.header, EthernetLayout), frame.payload))

(***************************************************************************)
(* ARPMessage.                                                             *)
(***************************************************************************)
ARPHead == [hardware_type |-> <<0, 2>>, protocol_type |-> <<2, 4>>,
            hardware_address_size |-> <<4, 5>>, protocol_address_size |-> <<5, 6>>,
            opcode |-> <<6, 8>>]
ARPAddresses == [sender_ethernet_address |-> <<0, 6>>, sender_ip_address |-> <<6, 10>>,
                 target_ethernet_address |-> <<10, 16>>, target_ip_address |-> <<16, 20>>]

Supported == [hardware_type |-> 1, protocol_type |-> 2048, hardware_address_size |-> 6,
              protocol_address_size |-> 4]

supported(head) ==
  /\ \A field \in DOMAIN Supported : head[field] = Supported[field]
  /\ head.opcode \in {1, 2}

ARPMessage_parse(p) ==
  LET head == integers(p, ARPHead)
      rest == integers(head.parser, ARPAddresses)
  IN  IF supported(head.fields)
      THEN [message |-> rest.fields @@ head.fields, parser |-> rest.parser]
      ELSE [message |-> head.fields, parser |-> set_error(head.parser)]

\* serialize refuses what is not supported.
ARPMessage_serialize(message) ==
  output(written(written(Serializer, message @@ Supported, ARPHead), message, ARPAddresses))

(***************************************************************************)
(* IPv4Header, IPv4Datagram.                                               *)
(***************************************************************************)
IPv4Header_LENGTH == 20
PROTO_TCP == 6

IPv4Layout == [first_byte |-> <<0, 1>>, tos |-> <<1, 2>>, len |-> <<2, 4>>, id |-> <<4, 6>>,
               fo_val |-> <<6, 8>>, ttl |-> <<8, 9>>, proto |-> <<9, 10>>,
               cksum |-> <<10, 12>>, src |-> <<12, 16>>, dst |-> <<16, 20>>]

\* The header's fields of which two or three share a byte or a word.
unpacked(fields) ==
  fields @@ [ver |-> fields.first_byte \div 16, hlen |-> fields.first_byte % 16,
             df |-> Bit(fields.fo_val, 16384), mf |-> Bit(fields.fo_val, 8192),
             offset |-> fields.fo_val % 8192]

packed(header) ==
  [header EXCEPT !.first_byte = 16 * header.ver + header.hlen,
                 !.fo_val = (IF header.df THEN 16384 ELSE 0) + (IF header.mf THEN 8192 ELSE 0)
                            + header.offset]

IPv4Header(src, dst, len) ==
  packed([first_byte |-> 0, fo_val |-> 0, ver |-> 4, hlen |-> IPv4Header_LENGTH \div 4, tos |-> 0,
          len |-> len, id |-> 0, df |-> TRUE, mf |-> FALSE, offset |-> 0, ttl |-> 128,
          proto |-> PROTO_TCP, cksum |-> 0, src |-> src, dst |-> dst])

header_written(header) == written(Serializer, packed(header), IPv4Layout)

compute_checksum(header) ==
  [header EXCEPT !.cksum =
     checksum(0, FlattenSeq(output(header_written([header EXCEPT !.cksum = 0]))))]

payload_length(header) == (header.len - 4 * header.hlen) % Bits16

pseudo_checksum(header) ==
  header.src[1] + header.src[2] + header.dst[1] + header.dst[2] + header.proto
    + payload_length(header)

\* The checks of parse: the parser it leaves.
verified(p, header) ==
  LET skipped == skipping(p, 4 * header.hlen - IPv4Header_LENGTH)
  IN  IF p.error_ \/ header.ver # 4 \/ header.hlen < 5 THEN set_error(p)
      ELSE IF compute_checksum(header).cksum # header.cksum THEN set_error(skipped)
      ELSE skipped

IPv4Header_parse(p) ==
  LET read == integers(p, IPv4Layout)
      header == unpacked(read.fields)
  IN  [header |-> header, parser |-> verified(read.parser, header)]

\* All that remains is the payload, whatever the length in the header.
IPv4Datagram_parse(p) ==
  LET read == IPv4Header_parse(p)
  IN  [dgram  |-> [header |-> read.header, payload |-> dump_all(read.parser.input_)],
       parser |-> read.parser]

IPv4Datagram_serialize(dgram) ==
  output(buffers_written(header_written(dgram.header), dgram.payload))

(***************************************************************************)
(* TCPSegment.                                                             *)
(***************************************************************************)
TCPHeaderMinLen == 5
TCPLayout == [src_port |-> <<0, 2>>, dst_port |-> <<2, 4>>, seqno |-> <<4, 8>>,
              ackno |-> <<8, 12>>, data_offset |-> <<12, 13>>, flags |-> <<13, 14>>,
              window_size |-> <<14, 16>>, cksum |-> <<16, 18>>, urgent |-> <<18, 20>>]

TCPSegmentOf(fields, payload) ==
  [sender_message   |-> [seqno |-> fields.seqno, SYN |-> Bit(fields.flags, 2),
                         FIN |-> Bit(fields.flags, 1), payload |-> payload],
   receiver_message |-> [ackno |-> IF Bit(fields.flags, 16) THEN {fields.ackno} ELSE {},
                         window_size |-> fields.window_size],
   reset            |-> Bit(fields.flags, 4),
   udinfo           |-> [src_port |-> fields.src_port, dst_port |-> fields.dst_port,
                         cksum |-> fields.cksum]]

FieldsOf(seg) ==
  LET ackno == seg.receiver_message.ackno
      set(flag, value) == IF flag THEN value ELSE 0
  IN  seg.udinfo @@
      [seqno |-> seg.sender_message.seqno,
       ackno |-> IF ackno = {} THEN <<0, 0>> ELSE CHOOSE a \in ackno : TRUE,
       data_offset |-> 16 * TCPHeaderMinLen, urgent |-> 0,
       flags |-> set(ackno # {}, 16) + set(seg.reset, 4) + set(seg.sender_message.SYN, 2)
                 + set(seg.sender_message.FIN, 1),
       window_size |-> seg.receiver_message.window_size]

\* Fault: nothing is verified.
NotVerified(p, pseudo) == TRUE

checksum_verified(p, pseudo) == checksum(pseudo, dump_whole(p.input_)) = 0

\* The segment is {} when there is an error.
segment_read(accepted, read) ==
  LET words == read.fields.data_offset \div 16
      skipped == skipping(read.parser, 4 * words - 4 * TCPHeaderMinLen)
  IN  IF ~accepted \/ read.parser.error_ \/ words < TCPHeaderMinLen
      THEN [segment |-> {}, parser |-> set_error(read.parser)]
      ELSE [segment |-> {TCPSegmentOf(read.fields, dump_whole(skipped.input_))},
            parser |-> skipped]

TCPSegment_parse(p, pseudo) ==
  segment_read(checksum_verified(p, pseudo), integers(p, TCPLayout))

TCPSegment_serialize(seg) ==
  output(buffer(written(Serializer, FieldsOf(seg), TCPLayout), seg.sender_message.payload))

TCPSegment_compute_checksum(seg, pseudo) ==
  LET bytes == FlattenSeq(TCPSegment_serialize([seg EXCEPT !.udinfo.cksum = 0]))
  IN  [seg EXCEPT !.udinfo.cksum = checksum(pseudo, bytes)]
=============================================================================
