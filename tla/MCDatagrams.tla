---------------------------- MODULE MCDatagrams ----------------------------
(* Two clients with the same port that both want the server.                *)
EXTENDS Datagrams

MCClients == {"c", "d"}
MCIP == [c |-> <<2560, 1>>, d |-> <<2560, 2>>, s |-> <<2560, 3>>]
MCEthernetAddress ==
  [c |-> <<2, 0, 0, 0, 0, 1>>, d |-> <<2, 0, 0, 0, 0, 2>>, s |-> <<2, 0, 0, 0, 0, 3>>]
Broadcast == <<255, 255, 255, 255, 255, 255>>
NoEthernetAddress == <<0, 0, 0, 0, 0, 0>>

Segment(seqno, SYN, payload, ackno, reset) ==
  [sender_message   |-> [seqno |-> seqno, SYN |-> SYN, FIN |-> FALSE, payload |-> payload],
   receiver_message |-> [ackno |-> ackno, window_size |-> 1000],
   reset            |-> reset,
   udinfo           |-> [src_port |-> 0, dst_port |-> 0, cksum |-> 0]]

\* The sum of the words of c's second segment carries, and with the carry added
\* in it carries again.
MCSegments ==
  [c |-> <<Segment(<<1, 65535>>, TRUE, <<>>, {}, FALSE),
           Segment(<<2, 0>>, FALSE, <<152, 49, 255>>, {<<9, 10>>}, FALSE)>>,
   d |-> <<Segment(<<1, 65535>>, TRUE, <<>>, {}, FALSE)>>,
   s |-> <<Segment(<<9, 9>>, TRUE, <<>>, {<<2, 0>>}, FALSE)>>]
=============================================================================
