----------------------------- MODULE TCPReceiver -----------------------------
(***************************************************************************)
(* The class TCPReceiver (src/src/tcp_receiver.hh, tcp_receiver.cc) and    *)
(* the message it sends (src/util/tcp_receiver_message.hh).  Its methods   *)
(* are given the Reassembler and the inbound ByteStream they work on.      *)
(***************************************************************************)
EXTENDS Reassembler, TCPSender

CONSTANT UINT16_MAX   \* the largest window_size

ASSUME WindowAssumption == UINT16_MAX \in Nat

TCPReceiver == [m_recv_zero_point |-> 0, m_syn_rcvd |-> FALSE, m_fin_rcvd |-> FALSE]

\* The stream index of the first byte of the payload: SYN takes a number and
\* no index.
first_index(zero_point, message, inbound) ==
  (Wrap32_unwrap(message.seqno, zero_point, inbound.bytes_pushed_) - 1 + One(message.SYN))
    % Modulus64

receive_into(rcv, result) ==
  [receiver |-> rcv, reassembler |-> result.reassembler, inbound |-> result.output]

TCPReceiver_receive(rcv, message, r, inbound) ==
  LET received ==
        [m_recv_zero_point |-> IF message.SYN THEN message.seqno ELSE rcv.m_recv_zero_point,
         m_syn_rcvd |-> TRUE,
         m_fin_rcvd |-> rcv.m_fin_rcvd \/ message.FIN]
      index == first_index(received.m_recv_zero_point, message, inbound)
  IN  IF ~rcv.m_syn_rcvd /\ ~message.SYN
      THEN [receiver |-> rcv, reassembler |-> r, inbound |-> inbound]
      ELSE receive_into(received,
                        Reassembler_insert(r, index, message.payload, message.FIN, inbound))

\* The absolute number of the next byte, or of what comes after FIN.
absolute_ackno(inbound) == inbound.bytes_pushed_ + 1 + One(inbound.is_close_)

\* Fault: FIN is acknowledged as soon as it is received, gap or not.
AcksFinEarly(rcv, inbound) ==
  [ackno |-> IF rcv.m_syn_rcvd
             THEN {Wrap32_wrap(inbound.bytes_pushed_ + 1 + One(rcv.m_fin_rcvd),
                               rcv.m_recv_zero_point)} ELSE {},
   window_size |-> Least(Writer_available_capacity(inbound), UINT16_MAX)]

TCPReceiver_send(rcv, inbound) ==
  [ackno |-> IF rcv.m_syn_rcvd
             THEN {Wrap32_wrap(absolute_ackno(inbound), rcv.m_recv_zero_point)} ELSE {},
   window_size |-> Least(Writer_available_capacity(inbound), UINT16_MAX)]
=============================================================================
