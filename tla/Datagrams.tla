----------------------------- MODULE Datagrams -----------------------------
(***************************************************************************)
(* Hosts on one Ethernet, each with a TCPOverIPv4OverEthernetAdapter: some *)
(* connect to the server, which listens and takes the first of them.  The  *)
(* TCP behind an adapter is left out: a host writes the segments it is     *)
(* given, in order, and what its adapter reads is recorded.                *)
(*                                                                         *)
(* Frames are bytes.  The Ethernet takes them to all the hosts in any      *)
(* order and may change a byte of one; an adapter may be a lossy one.      *)
(***************************************************************************)
EXTENDS TCPOverIP

CONSTANTS Clients, Server, Port,     \* the hosts; the port the server listens on
          EthernetAddress, IP,       \* of each host
          Segments,                  \* what each host writes: a sequence
          MaxFaults                  \* bound: what the network does, and ticks

VARIABLES adapter,   \* of each host
          wire,      \* the frames on their way
          count,     \* how many segments each host wrote
          sent,      \* those segments, as they went into a datagram, by host
          got,       \* the segments each host's adapter read, in order
          faults

vars == <<adapter, wire, count, sent, got, faults>>

Hosts == Clients \cup {Server}
Address(h) == [ip |-> IP[h], port |-> Port]
Nowhere == [ip |-> <<0, 0>>, port |-> 0]

\* The server's own address is not given: it takes the one that is contacted.
Adapter(h) ==
  [source      |-> IF h = Server THEN [Nowhere EXCEPT !.port = Port] ELSE Address(h),
   destination |-> IF h = Server THEN Nowhere ELSE Address(Server),
   listening   |-> h = Server,
   interface   |-> NetworkInterface(EthernetAddress[h], IP[h]),
   next_hop    |-> IP[IF h = Server THEN CHOOSE c \in Clients : TRUE ELSE Server]]

ASSUME DatagramsAssumption ==
  /\ Server \notin Clients /\ Clients # {} /\ MaxFaults \in Nat
  /\ \A h, k \in Hosts : h # k => IP[h] # IP[k] /\ EthernetAddress[h] # EthernetAddress[k]

Init ==
  /\ adapter = [h \in Hosts |-> Adapter(h)]
  /\ wire = {}
  /\ count = [h \in Hosts |-> 0]
  /\ sent = [h \in Hosts |-> {}]
  /\ got = [h \in Hosts |-> <<>>]
  /\ faults = 0

\* send_pending of every adapter.
Frames(adapters) == UNION {Range(pending(adapters[h])) : h \in Hosts}
AllSent(adapters) == [h \in Hosts |-> sent_pending(adapters[h])]

\* The TCP of a host writes its next segment.  The server's has none before it
\* knows its peer.
CanWrite(h) == count[h] < Len(Segments[h]) /\ ~adapter[h].listening
NextSegment(h) == Segments[h][count[h] + 1]

Write(h) ==
  /\ CanWrite(h)
  /\ LET after == [adapter EXCEPT ![h] = ethernet_write(@, NextSegment(h))]
     IN  /\ wire' = wire \cup Frames(after)
         /\ adapter' = AllSent(after)
         /\ sent' = [sent EXCEPT ![h] = @ \cup {wrapped_segment(adapter[h], NextSegment(h))}]
  /\ count' = [count EXCEPT ![h] = @ + 1]
  /\ UNCHANGED <<got, faults>>

\* Every host hears what became of the frame, the one that sent it too: it is
\* not for it.
Heard(frame, bytes, dropped) ==
  \E result \in {[h \in Hosts |-> ethernet_read(adapter[h], bytes)]} :
    LET after == [h \in Hosts |-> result[h].adapter]
        read(h) == IF dropped THEN read_dropped(result[h]) ELSE result[h]
    IN  /\ adapter' = AllSent(after)
        /\ wire' = (wire \ {frame}) \cup Frames(after)
        /\ got' = [h \in Hosts |-> got[h] \o SetToSeq(read(h).segment)]
        /\ UNCHANGED <<count, sent>>

Transmit == (\E frame \in wire : Heard(frame, frame, FALSE)) /\ UNCHANGED faults

Faulty == faults < MaxFaults /\ faults' = faults + 1

\* A lossy adapter drops what it reads, or what it should write.
DropRead == Faulty /\ \E frame \in wire : Heard(frame, frame, TRUE)

DropWrite(h) ==
  /\ Faulty /\ CanWrite(h)
  /\ count' = [count EXCEPT ![h] = @ + 1]
  /\ UNCHANGED <<adapter, wire, sent, got>>

\* An ARP message has nothing to tell a changed one by: it is left alone.
Corrupt ==
  /\ Faulty
  /\ \E frame \in {f \in wire : f[14] = Type.IPv4 % 256} : \E i \in DOMAIN frame :
       Heard(frame, [frame EXCEPT ![i] = (@ + 1) % 256], FALSE)

\* Time enough for a request to be repeated.
Tick ==
  /\ Faulty
  /\ \E h \in Hosts :
       \E after \in {[adapter EXCEPT ![h] = ethernet_tick(@, ARP_REQUEST_TIMEOUT_MS + 1)]} :
         wire' = wire \cup Frames(after) /\ adapter' = AllSent(after)
  /\ UNCHANGED <<count, sent, got>>

Next ==
  \/ \E h \in Hosts : Write(h) \/ DropWrite(h)
  \/ Transmit \/ DropRead \/ Corrupt \/ Tick

Spec == Init /\ [][Next]_vars

(***************************************************************************)
(* Properties.                                                             *)
(***************************************************************************)
PeerOf(h) == {k \in Hosts : IP[k] = adapter[h].destination.ip}

\* What an adapter reads was written, as it is, by the other end of its one
\* connection: never by another host, never changed on the way.
ReadIsWritten ==
  \A h \in Hosts : \A i \in DOMAIN got[h] :
    \E k \in PeerOf(h) : got[h][i] \in sent[k]

\* A segment that comes through the TUN device to the other end of a connection
\* as it was written is read, whole: no checksum that a writer computes is
\* refused, and no field loses a bit on the way into bytes and back.
ReadsWhole ==
  \A h \in Hosts : \A k \in PeerOf(h) :
    h \in PeerOf(k) /\ ~adapter[k].listening =>
      \A i \in DOMAIN Segments[h] :
        LET seg == Segments[h][i]
        IN  tun_read(adapter[k], tun_write(adapter[h], seg)).segment
              = {wrapped_segment(adapter[h], seg)}

\* The bytes of a frame mean the same wherever the buffers end that they were
\* read into, and no parser looks for a byte where a buffer has none.
AnyBuffers(bytes) ==
  {<<bytes>>} \cup {scattered(bytes, sizes) : sizes \in {<<14, 20>>, <<1, 12, 20, 2>>}}

\* A parser's result without the buffers it leaves.
Told(parsed) ==
  [parsed EXCEPT !.parser = [error |-> @.error_, undefined |-> @.undefined]]

DatagramTold(parsed) ==
  {Told([parsed EXCEPT !.dgram = @.header]),
   Told(TCPSegment_parse(Parser(parsed.dgram.payload), pseudo_checksum(parsed.dgram.header)))}

FrameTold(parsed) ==
  {Told([parsed EXCEPT !.frame = @.header]), Told(ARPMessage_parse(Parser(parsed.frame.payload)))}
    \cup DatagramTold(tun_parsed(parsed.frame.payload))

Meaning(buffers) == FrameTold(EthernetFrame_parse(Parser(buffers)))

SplitsAgree ==
  \A frame \in wire :
    /\ Cardinality({Meaning(buffers) : buffers \in AnyBuffers(frame)}) = 1
    /\ \A result \in Meaning(<<frame>>) : ~result.parser.undefined
=============================================================================
