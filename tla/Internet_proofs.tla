--------------------------- MODULE Internet_proofs ---------------------------
(***************************************************************************)
(* The invariants of Internet hold for every topology of hosts and         *)
(* routers, every set of routes and datagrams, and any number of missed    *)
(* frames and restarts.                                                    *)
(*                                                                         *)
(* The inductive invariant says what each frame on its way may claim:      *)
(* whoever sends an ARP message, the address it gives for an IP address is *)
(* one its owner has or had; a request asks for an address that is not its *)
(* sender's; and a reply about one IP address goes to the owner of         *)
(* another.  So nothing a port hears is about itself, and its own entry is *)
(* never overwritten.  A frame with a datagram goes to the owner of its    *)
(* next hop, and to an address that is no next hop only with what is for   *)
(* it and crossed a router.                                                *)
(*                                                                         *)
(* That no datagram is duplicated is shown apart, from that invariant: the *)
(* ids at different places differ, and a step moves them or loses them.    *)
(***************************************************************************)
EXTENDS Internet, DataLemmas

(***************************************************************************)
(* What an interface holds.  c is the number of addresses that each port   *)
(* has had, D the set of datagrams that were sent.                         *)
(***************************************************************************)
CopiesOf(D) == UNION {{[d EXCEPT !.ttl = ttl] : ttl \in 0 .. d.ttl} : d \in D}

Crossed(d, D) == \E e \in D : e.id = d.id /\ d.ttl < e.ttl

\* What may be sent to the address ip: if it is no next hop of others, what is
\* for it, and by a router.
Bound(D, ip) == {d \in CopiesOf(D) : ip \in NextHops \/ (d.dst = ip /\ Crossed(d, D))}

Owned(c, ip) ==
  UNION {{EthernetAddress(p, k) : k \in 1 .. c[p]} : p \in {q \in Ports : IP[q] = ip}}

Addresses == (Ports \X Nat) \cup {ETHERNET_BROADCAST, NoAddress}

IPv4Frames(c, D, ip) ==
  [type : {TYPE_IPv4}, payload : Bound(D, ip), dst : Owned(c, ip), src : Addresses]

Messages(opcode, s, from, targets) ==
  [opcode : {opcode}, sender_ip_address : {s}, sender_ethernet_address : from,
   target_ip_address : targets, target_ethernet_address : Addresses]

RequestFrames(p, c) ==
  [type : {TYPE_ARP}, payload : Messages(OPCODE_REQUEST, IP[p], Owned(c, IP[p]), UInt32 \ {IP[p]}),
   dst : {ETHERNET_BROADCAST}, src : Addresses]

\* A reply to the owner of t, about s.
ReplyFrames(c, s, t) ==
  [type : {TYPE_ARP}, payload : Messages(OPCODE_REPLY, s, Owned(c, s), {t}),
   dst : Owned(c, t), src : Addresses]

AllIPv4Frames(c, D) == UNION {IPv4Frames(c, D, ip) : ip \in IPAddresses}

AllReplyFrames(c) ==
  UNION {UNION {ReplyFrames(c, s, t) : t \in IPAddresses \ {s}} : s \in IPAddresses}

\* What port p may have in its queue.
Frames(p, c, D) == AllIPv4Frames(c, D) \cup RequestFrames(p, c) \cup AllReplyFrames(c)

Fields == {"ethernet_address_", "ip_address_", "timer", "arp_timer", "address_map",
           "arp_request_expire_timers", "datagram_cache", "send_queue"}

MapSound(map, p, c) ==
  /\ DOMAIN map \subseteq IPAddresses
  /\ \A ip \in DOMAIN map : map[ip].ethernet_address \in Owned(c, ip)
  /\ IP[p] \in DOMAIN map
  /\ map[IP[p]] = AddressCache(EthernetAddress(p, c[p]), UINT64_MAX)

TimersSound(timers) ==
  /\ DOMAIN timers \subseteq UInt32
  /\ \A ip \in DOMAIN timers : timers[ip] \in Nat

\* Only datagrams for an address that is not known wait, at least one for each.
CacheSound(cache, map, D) ==
  /\ IsFunction(cache)
  /\ DOMAIN cache \subseteq UInt32
  /\ \A ip \in DOMAIN cache : cache[ip] \in Seq(Bound(D, ip)) /\ cache[ip] # <<>> /\ ip \notin DOMAIN map

Sound(n, p, c, D) ==
  /\ DOMAIN n = Fields
  /\ n.ethernet_address_ = EthernetAddress(p, c[p]) /\ n.ip_address_ = IP[p]
  /\ n.timer \in Nat /\ n.arp_timer \in 0 .. ARP_REQUEST_TIMEOUT_MS - 1
  /\ MapSound(n.address_map, p, c)
  /\ TimersSound(n.arp_request_expire_timers)
  /\ CacheSound(n.datagram_cache, n.address_map, D)
  /\ n.send_queue \in Seq(Frames(p, c, D))

PortSound(a, p, c, D) ==
  /\ DOMAIN a = {"interface", "datagrams_in_"}
  /\ Sound(a.interface, p, c, D)
  /\ a.datagrams_in_ \in Seq(Bound(D, IP[p]))

\* For each address, either the last request is long ago or its timer still
\* runs; and what waits was asked for.
Paced(n, when, time) ==
  /\ when \in [UInt32 -> Int]
  /\ n.timer <= time
  /\ \A ip \in UInt32 :
       \/ time - when[ip] >= ARP_REQUEST_TIMEOUT_MS
       \/ /\ ip \in DOMAIN n.arp_request_expire_timers
          /\ n.arp_request_expire_timers[ip] - n.timer = (when[ip] + ARP_REQUEST_TIMEOUT_MS) - time
  /\ \A ip \in DOMAIN n.datagram_cache : when[ip] >= 0

Tables ==
  /\ IsFunction(table) /\ DOMAIN table = Routers
  /\ \A r \in Routers : \A k \in DOMAIN table[r].next_hops : table[r].next_hops[k] \in NextHops
  /\ added \in [Routers -> Nat]

Inv ==
  /\ IsFunction(port) /\ DOMAIN port = Ports /\ DOMAIN asked = Ports
  /\ \A p \in Ports : PortSound(port[p], p, card, sent)
  /\ \A p \in Ports : Paced(port[p].interface, asked[p], now)
  /\ card \in [Ports -> Nat \ {0}]
  /\ now \in 0 .. MaxTime /\ sent \subseteq Datagrams
  /\ Tables

Cards == [Ports -> Nat \ {0}]

LEMMA Hops ==
  /\ \A h \in Hosts : Gateway[h] \in NextHops
  /\ \A r \in Routers : \A i \in DOMAIN Routes[r] : Routes[r][i].next_hop \subseteq NextHops
  /\ NextHops \subseteq UInt32
<1>1. ASSUME NEW r \in Routers, NEW i \in DOMAIN Routes[r]
      PROVE  Routes[r][i].next_hop \subseteq NextHops
  BY DEF NextHops
<1>2. ASSUME NEW r \in Routers, NEW i \in DOMAIN Routes[r]
      PROVE  Routes[r][i].next_hop \subseteq UInt32
  <2>1. PICK R, s : /\ R = [route_prefix : UInt32, prefix_length : Nat, next_hop : SUBSET UInt32,
                            interface_num : DOMAIN Interfaces[r]]
                    /\ s = Routes[r]
    OBVIOUS
  <2>2. s \in Seq(R)
    BY <2>1, DatagramAssumption
  <2>3. s[i] \in R
    BY <2>1, <2>2, ElementOfSeq, LenProperties
  <2>4. QED
    BY <2>1, <2>3
<1>3. NextHops \subseteq UInt32
  BY <1>2, DatagramAssumption DEF NextHops
<1>4. QED
  BY <1>1, <1>3 DEF NextHops

LEMMA Constants ==
  /\ UInt32 \subseteq Nat
  /\ ARP_REQUEST_TIMEOUT_MS \in Nat /\ ARP_REQUEST_TIMEOUT_MS > 0
  /\ ADDRESS_CACHE_TIMEOUT_MS \in Nat /\ ADDRESS_CACHE_TIMEOUT_MS > 0
  /\ UINT64_MAX \in Nat /\ MaxTime \in Nat /\ MaxTime < UINT64_MAX
  /\ \A p \in Ports : IP[p] \in UInt32 /\ IP[p] \in IPAddresses
  /\ \A p, q \in Ports : IP[p] = IP[q] => p = q
  /\ IPAddresses \subseteq UInt32
  /\ Hosts \subseteq Ports
BY ModulusAssumption, TimeoutAssumption, TimeAssumption, TopologyAssumption
   DEF UInt32, UINT64_MAX, IPAddresses

(***************************************************************************)
(* Addresses and frames.                                                   *)
(***************************************************************************)
LEMMA OwnedProperties ==
  ASSUME NEW c \in Cards, NEW ip, NEW a \in Owned(c, ip)
  PROVE  /\ a \in Addresses /\ a # ETHERNET_BROADCAST
         /\ \A p \in Ports, k \in Nat : a = EthernetAddress(p, k) => IP[p] = ip
<1>1. PICK q \in Ports : IP[q] = ip /\ a \in {EthernetAddress(q, k) : k \in 1 .. c[q]}
  BY DEF Owned
<1> PICK k \in 1 .. c[q] : a = <<q, k>>
  BY <1>1 DEF EthernetAddress
<1>2. k \in Nat
  BY DEF Cards
<1>3. a \in Ports \X Nat
  BY <1>2
<1>4. \A p \in Ports, j \in Nat : a = <<p, j>> => p = q
  OBVIOUS
<1>5. QED
  BY <1>1, <1>3, <1>4, TopologyAssumption DEF Addresses, EthernetAddress

LEMMA OwnAddress ==
  ASSUME NEW c \in Cards, NEW p \in Ports
  PROVE  EthernetAddress(p, c[p]) \in Owned(c, IP[p])
<1>1. c[p] \in 1 .. c[p]
  BY DEF Cards
<1>2. QED
  BY <1>1 DEF Owned

LEMMA FrameKinds ==
  ASSUME NEW c, NEW p, NEW D, NEW f
  PROVE  f \in Frames(p, c, D) <=>
           \/ f \in RequestFrames(p, c)
           \/ \E ip \in IPAddresses : f \in IPv4Frames(c, D, ip)
           \/ \E s, t \in IPAddresses : s # t /\ f \in ReplyFrames(c, s, t)
<1>1. f \in AllIPv4Frames(c, D) <=> \E ip \in IPAddresses : f \in IPv4Frames(c, D, ip)
  BY DEF AllIPv4Frames
<1>2. f \in AllReplyFrames(c) <=> \E s, t \in IPAddresses : s # t /\ f \in ReplyFrames(c, s, t)
  BY DEF AllReplyFrames
<1>3. QED
  BY <1>1, <1>2 DEF Frames

LEMMA FrameCases ==
  ASSUME NEW c, NEW p, NEW D, NEW f \in Frames(p, c, D)
  PROVE  \/ /\ f.type = TYPE_IPv4
            /\ \E ip \in IPAddresses : f.dst \in Owned(c, ip) /\ f.payload \in Bound(D, ip)
         \/ /\ f.type = TYPE_ARP /\ f.payload.opcode = OPCODE_REQUEST
            /\ f.payload.sender_ip_address = IP[p]
            /\ f.payload.sender_ethernet_address \in Owned(c, IP[p])
            /\ f.payload.target_ip_address \in UInt32 \ {IP[p]}
         \/ /\ f.type = TYPE_ARP /\ f.payload.opcode = OPCODE_REPLY
            /\ \E s, t \in IPAddresses : /\ s # t /\ f.dst \in Owned(c, t)
                                         /\ f.payload.sender_ip_address = s
                                         /\ f.payload.sender_ethernet_address \in Owned(c, s)
<1>1. CASE \E ip \in IPAddresses : f \in IPv4Frames(c, D, ip)
  BY <1>1 DEF IPv4Frames
<1>2. CASE f \in RequestFrames(p, c)
  <2>1. f.type = TYPE_ARP /\ f.payload \in Messages(OPCODE_REQUEST, IP[p], Owned(c, IP[p]), UInt32 \ {IP[p]})
    BY <1>2 DEF RequestFrames
  <2>2. QED
    BY <2>1 DEF Messages
<1>3. CASE \E s, t \in IPAddresses : s # t /\ f \in ReplyFrames(c, s, t)
  <2>1. PICK s \in IPAddresses, t \in IPAddresses : s # t /\ f \in ReplyFrames(c, s, t)
    BY <1>3
  <2>2. /\ f.type = TYPE_ARP /\ f.dst \in Owned(c, t)
        /\ f.payload \in Messages(OPCODE_REPLY, s, Owned(c, s), {t})
    BY <2>1 DEF ReplyFrames
  <2>3. QED
    BY <2>1, <2>2 DEF Messages
<1>4. QED
  BY <1>1, <1>2, <1>3, FrameKinds

LEMMA IPv4Frame ==
  ASSUME NEW c, NEW p, NEW D, NEW ip \in IPAddresses, NEW dgram \in Bound(D, ip),
         NEW dst \in Owned(c, ip), NEW src \in Addresses
  PROVE  [type |-> TYPE_IPv4, payload |-> dgram, dst |-> dst, src |-> src] \in Frames(p, c, D)
<1>1. PICK f : f = [type |-> TYPE_IPv4, payload |-> dgram, dst |-> dst, src |-> src]
  OBVIOUS
<1>2. f \in IPv4Frames(c, D, ip)
  BY <1>1 DEF IPv4Frames
<1>3. QED
  BY <1>1, <1>2, FrameKinds

LEMMA RequestFrame ==
  ASSUME NEW c, NEW p, NEW D, NEW from \in Owned(c, IP[p]), NEW ip \in UInt32, ip # IP[p],
         NEW target \in Addresses, NEW src \in Addresses,
         NEW message,
         message = [opcode                  |-> OPCODE_REQUEST,
                    sender_ip_address       |-> IP[p],
                    sender_ethernet_address |-> from,
                    target_ip_address       |-> ip,
                    target_ethernet_address |-> target]
  PROVE  [type |-> TYPE_ARP, payload |-> message, dst |-> ETHERNET_BROADCAST, src |-> src]
           \in Frames(p, c, D)
<1>1. message \in Messages(OPCODE_REQUEST, IP[p], Owned(c, IP[p]), UInt32 \ {IP[p]})
  BY DEF Messages
<1>2. QED
  BY <1>1, FrameKinds DEF RequestFrames

LEMMA ReplyFrame ==
  ASSUME NEW c, NEW p, NEW D, NEW s \in IPAddresses, NEW t \in IPAddresses, s # t,
         NEW from \in Owned(c, s), NEW to \in Owned(c, t),
         NEW target \in Addresses, NEW src \in Addresses,
         NEW message,
         message = [opcode                  |-> OPCODE_REPLY,
                    sender_ip_address       |-> s,
                    sender_ethernet_address |-> from,
                    target_ip_address       |-> t,
                    target_ethernet_address |-> target]
  PROVE  [type |-> TYPE_ARP, payload |-> message, dst |-> to, src |-> src] \in Frames(p, c, D)
<1>1. message \in Messages(OPCODE_REPLY, s, Owned(c, s), {t})
  BY DEF Messages
<1>2. [type |-> TYPE_ARP, payload |-> message, dst |-> to, src |-> src] \in ReplyFrames(c, s, t)
  BY <1>1 DEF ReplyFrames
<1>3. QED
  BY <1>2, FrameKinds

\* What a port hears about an address is about another one than its own, and
\* true.
LEMMA Heard ==
  ASSUME NEW c \in Cards, NEW D, NEW p \in Ports, NEW q \in Ports, p # q,
         NEW f \in Frames(p, c, D), f.type = TYPE_ARP,
         f.dst \in {EthernetAddress(q, c[q]), ETHERNET_BROADCAST}
  PROVE  /\ f.payload.sender_ip_address \in IPAddresses \ {IP[q]}
         /\ f.payload.sender_ethernet_address \in Owned(c, f.payload.sender_ip_address)
         /\ f.payload.opcode = OPCODE_REQUEST =>
              f.payload.target_ip_address # f.payload.sender_ip_address
<1>1. TYPE_ARP # TYPE_IPv4 /\ OPCODE_REPLY # OPCODE_REQUEST
  BY DEF TYPE_ARP, TYPE_IPv4, OPCODE_REPLY, OPCODE_REQUEST
<1>2. CASE /\ f.payload.sender_ip_address = IP[p]
           /\ f.payload.sender_ethernet_address \in Owned(c, IP[p])
           /\ f.payload.target_ip_address \in UInt32 \ {IP[p]}
  BY <1>2, Constants
<1>3. ASSUME f.payload.opcode = OPCODE_REPLY,
             NEW s \in IPAddresses, NEW t \in IPAddresses, s # t, f.dst \in Owned(c, t),
             f.payload.sender_ip_address = s, f.payload.sender_ethernet_address \in Owned(c, s)
      PROVE  /\ f.payload.sender_ip_address \in IPAddresses \ {IP[q]}
             /\ f.payload.sender_ethernet_address \in Owned(c, f.payload.sender_ip_address)
             /\ f.payload.opcode = OPCODE_REQUEST =>
                  f.payload.target_ip_address # f.payload.sender_ip_address
  <2>1. f.dst = EthernetAddress(q, c[q]) /\ c[q] \in Nat
    BY <1>3, OwnedProperties DEF Cards
  <2>2. t = IP[q]
    BY <1>3, <2>1, OwnedProperties
  <2>3. QED
    BY <1>1, <1>3, <2>2
<1>4. QED
  BY <1>1, <1>2, <1>3, FrameCases


(***************************************************************************)
(* The methods of an interface.  What is asked for by the frames after the *)
(* first few, and the times of requests with those asked for now.          *)
(***************************************************************************)
IsRequest(f) == f.type = TYPE_ARP /\ f.payload.opcode = OPCODE_REQUEST

Requests(n, from) ==
  {n.send_queue[i].payload.target_ip_address :
     i \in {j \in from + 1 .. Len(n.send_queue) : IsRequest(n.send_queue[j])}}

Later(when, ips, time) == [ip \in UInt32 |-> IF ip \in ips THEN time ELSE when[ip]]

\* n came from an interface with from frames, that asked when it did.
Follows(n, from, when, time) ==
  /\ from \in 0 .. Len(n.send_queue)
  /\ Requests(n, from) \subseteq UInt32
  /\ \A ip \in Requests(n, from) : time - when[ip] >= ARP_REQUEST_TIMEOUT_MS
  /\ Paced(n, Later(when, Requests(n, from), time), time)

Queued(n, frame) == [n EXCEPT !.send_queue = Append(@, frame)]

LEMMA AddressKnown ==
  ASSUME NEW n, NEW p \in Ports, NEW c \in Cards, NEW D, Sound(n, p, c, D), NEW ip
  PROVE  /\ ethernet_address_of(n, ip) \in Addresses
         /\ Known(n, ip) => /\ ip \in IPAddresses
                            /\ ethernet_address_of(n, ip) \in Owned(c, ip)
         /\ n.ethernet_address_ \in Addresses
         /\ Known(n, IP[p]) /\ n.ip_address_ = IP[p]
<1>1. MapSound(n.address_map, p, c) /\ n.ethernet_address_ = EthernetAddress(p, c[p])
      /\ n.ip_address_ = IP[p]
  BY DEF Sound
<1>2. Known(n, ip) => /\ ip \in IPAddresses
                      /\ ethernet_address_of(n, ip) \in Owned(c, ip)
  BY <1>1 DEF Known, ethernet_address_of, MapSound
<1>3. NoAddress \in Addresses
  BY DEF Addresses
<1>4. ethernet_address_of(n, ip) \in Addresses
  BY <1>2, <1>3, OwnedProperties DEF ethernet_address_of
<1>5. n.ethernet_address_ \in Addresses
  BY <1>1, OwnAddress, OwnedProperties
<1>6. Known(n, IP[p])
  BY <1>1 DEF MapSound, Known
<1>7. QED
  BY <1>1, <1>2, <1>4, <1>5, <1>6

LEMMA QueuedIsSound ==
  ASSUME NEW n, NEW p, NEW c, NEW D, Sound(n, p, c, D), NEW frame \in Frames(p, c, D)
  PROVE  Sound(Queued(n, frame), p, c, D)
<1>1. PICK q : q = Append(n.send_queue, frame)
  OBVIOUS
<1>2. q \in Seq(Frames(p, c, D))
  <2>1. PICK F : F = Frames(p, c, D)
    OBVIOUS
  <2>2. n.send_queue \in Seq(F)
    BY <2>1 DEF Sound
  <2>3. QED
    BY <1>1, <2>1, <2>2
<1>3. PICK m : m = Queued(n, frame)
  OBVIOUS
<1>4. m = [ethernet_address_         |-> n.ethernet_address_,
           ip_address_               |-> n.ip_address_,
           timer                     |-> n.timer,
           arp_timer                 |-> n.arp_timer,
           address_map               |-> n.address_map,
           arp_request_expire_timers |-> n.arp_request_expire_timers,
           datagram_cache            |-> n.datagram_cache,
           send_queue                |-> q]
  <2>1. DOMAIN n = Fields
    BY DEF Sound
  <2>2. QED
    BY <1>1, <1>3, <2>1 DEF Queued, Fields
<1>5. Sound(m, p, c, D)
  BY <1>2, <1>4 DEF Sound, Fields
<1>6. QED
  BY <1>3, <1>5

\* A frame that asks for nothing adds no request, one that asks adds one.
LEMMA QueuedRequests ==
  ASSUME NEW n, NEW p, NEW c, NEW D, Sound(n, p, c, D), NEW frame,
         NEW from \in 0 .. Len(n.send_queue)
  PROVE  /\ from \in 0 .. Len(Queued(n, frame).send_queue)
         /\ ~IsRequest(frame) => Requests(Queued(n, frame), from) = Requests(n, from)
         /\ IsRequest(frame) =>
              Requests(Queued(n, frame), from)
                = Requests(n, from) \cup {frame.payload.target_ip_address}
<1>1. PICK q : q = n.send_queue
  OBVIOUS
<1>2. PICK F : q \in Seq(F)
  BY <1>1 DEF Sound
<1>3. PICK r : r = Append(q, frame)
  OBVIOUS
<1>4. PICK len \in Nat : len = Len(q)
  BY <1>2, LenProperties
<1>5. Len(r) = len + 1 /\ (\A j \in 1 .. len : r[j] = q[j]) /\ r[len + 1] = frame
  <2>1. q \in Seq(F \cup {frame}) /\ frame \in F \cup {frame}
    <3>1. F \subseteq F \cup {frame}
      OBVIOUS
    <3>2. QED
      BY <1>2, <3>1, SeqMonotonic
  <2>2. QED
    BY <2>1, <1>3, <1>4, AppendProperties
<1>6. Queued(n, frame).send_queue = r
  <2>1. DOMAIN n = Fields
    BY DEF Sound
  <2>2. QED
    BY <1>1, <1>3, <2>1 DEF Queued, Fields
<1>7. PICK A : A = {j \in from + 1 .. len : IsRequest(q[j])}
  OBVIOUS
<1>8. PICK B : B = {j \in from + 1 .. len + 1 : IsRequest(r[j])}
  OBVIOUS
<1>9. \A j : j \in B <=> j \in A \/ (j = len + 1 /\ IsRequest(frame))
  <2>1. SUFFICES ASSUME NEW j PROVE j \in B <=> j \in A \/ (j = len + 1 /\ IsRequest(frame))
    OBVIOUS
  <2>2. from \in Nat /\ from <= len
    BY <1>1, <1>4
  <2>3. j \in from + 1 .. len + 1 <=> j \in from + 1 .. len \/ j = len + 1
    BY <1>4, <2>2
  <2>4. j \in from + 1 .. len => IsRequest(r[j]) = IsRequest(q[j]) /\ j # len + 1
    <3>1. j \in from + 1 .. len => j \in 1 .. len /\ j # len + 1
      BY <1>4, <2>2
    <3>2. j \in from + 1 .. len => r[j] = q[j]
      BY <1>5, <3>1
    <3>3. QED
      BY <3>1, <3>2
  <2>5. QED
    BY <1>5, <1>7, <1>8, <2>3, <2>4
<1>10. Requests(n, from) = {q[i].payload.target_ip_address : i \in A}
  BY <1>1, <1>4, <1>7 DEF Requests
<1>11. Requests(Queued(n, frame), from) = {r[i].payload.target_ip_address : i \in B}
  BY <1>5, <1>6, <1>8 DEF Requests
<1>12. \A i \in A : r[i] = q[i]
  BY <1>1, <1>4, <1>5, <1>7
<1>13. from \in 0 .. Len(Queued(n, frame).send_queue)
  BY <1>1, <1>4, <1>5, <1>6
<1>14. CASE ~IsRequest(frame)
  <2>1. A = B
    BY <1>9, <1>14, <1>7, <1>8
  <2>2. QED
    BY <1>10, <1>11, <1>12, <1>13, <1>14, <2>1
<1>15. CASE IsRequest(frame)
  <2>1. B = A \cup {len + 1}
    BY <1>9, <1>15, <1>7, <1>8
  <2>2. QED
    BY <1>5, <1>10, <1>11, <1>12, <1>13, <1>15, <2>1
<1>16. QED
  BY <1>14, <1>15

LEMMA PushIsSound ==
  ASSUME NEW n, NEW p \in Ports, NEW c \in Cards, NEW D, Sound(n, p, c, D),
         NEW hop, Known(n, hop), NEW dgram \in Bound(D, hop),
         NEW dst, dst = ethernet_address_of(n, hop)
  PROVE  /\ Sound(push_datagram(n, dgram, dst), p, c, D)
         /\ \E frame : /\ ~IsRequest(frame) /\ frame \in Frames(p, c, D)
                       /\ frame.type = TYPE_IPv4 /\ frame.payload = dgram
                       /\ push_datagram(n, dgram, dst) = Queued(n, frame)
<1>1. PICK frame : frame = create_ethernet_frame(n, TYPE_IPv4, dgram, dst)
  OBVIOUS
<1>2. frame \in Frames(p, c, D) /\ frame.type = TYPE_IPv4 /\ frame.payload = dgram
  BY <1>1, AddressKnown, IPv4Frame DEF create_ethernet_frame
<1>3. push_datagram(n, dgram, dst) = Queued(n, frame)
  BY <1>1 DEF push_datagram, Queued
<1>4. ~IsRequest(frame)
  BY <1>2 DEF IsRequest, TYPE_IPv4, TYPE_ARP
<1>5. QED
  BY <1>2, <1>3, <1>4, QueuedIsSound

\* n after the request in the frame, with the datagram that waits for its reply.
Asked(n, hop, dgram, frame) ==
  [ethernet_address_         |-> n.ethernet_address_,
   ip_address_               |-> n.ip_address_,
   timer                     |-> n.timer,
   arp_timer                 |-> n.arp_timer,
   address_map               |-> n.address_map,
   arp_request_expire_timers |->
     Assigned(n.arp_request_expire_timers, hop, n.timer + ARP_REQUEST_TIMEOUT_MS),
   datagram_cache            |->
     Assigned(n.datagram_cache, hop,
              Append(IF hop \in DOMAIN n.datagram_cache
                     THEN n.datagram_cache[hop] ELSE <<>>, dgram)),
   send_queue                |-> Queued(n, frame).send_queue]

LEMMA RequestFields ==
  ASSUME NEW n, NEW p \in Ports, NEW c \in Cards, NEW D, Sound(n, p, c, D),
         NEW dgram, NEW hop \in UInt32, ~Known(n, hop)
  PROVE  \E frame \in Frames(p, c, D) :
           /\ IsRequest(frame) /\ frame.payload.target_ip_address = hop
           /\ wait(push_arp_request(n, hop), dgram, hop) = Asked(n, hop, dgram, frame)
<1>1. PICK message :
        message = [opcode                  |-> OPCODE_REQUEST,
                   sender_ip_address       |-> n.ip_address_,
                   sender_ethernet_address |-> ethernet_address_of(n, n.ip_address_),
                   target_ip_address       |-> hop,
                   target_ethernet_address |-> ethernet_address_of(n, hop)]
  OBVIOUS
<1>2. PICK frame : frame = create_ethernet_frame(n, TYPE_ARP, message, ETHERNET_BROADCAST)
  OBVIOUS
<1>3. frame = [type |-> TYPE_ARP, payload |-> message, dst |-> ETHERNET_BROADCAST,
               src |-> n.ethernet_address_]
  BY <1>2 DEF create_ethernet_frame
<1>4. n.ip_address_ = IP[p] /\ Known(n, IP[p]) /\ hop # IP[p]
  BY AddressKnown
<1>5. frame \in Frames(p, c, D)
  <2>1. PICK from \in Owned(c, IP[p]) : from = ethernet_address_of(n, IP[p])
    BY <1>4, AddressKnown
  <2>2. PICK target \in Addresses : target = ethernet_address_of(n, hop)
    BY AddressKnown
  <2>3. PICK src \in Addresses : src = n.ethernet_address_
    BY AddressKnown
  <2>4. message = [opcode                  |-> OPCODE_REQUEST,
                   sender_ip_address       |-> IP[p],
                   sender_ethernet_address |-> from,
                   target_ip_address       |-> hop,
                   target_ethernet_address |-> target]
    BY <1>1, <1>4, <2>1, <2>2
  <2>5. QED
    BY <1>3, <1>4, <2>3, <2>4, RequestFrame
<1>6. IsRequest(frame) /\ frame.payload.target_ip_address = hop
  BY <1>1, <1>3 DEF IsRequest
<1>7. PICK m : m = Queued(n, frame)
  OBVIOUS
<1>8. push_arp(n, OPCODE_REQUEST, n.ip_address_, hop, ETHERNET_BROADCAST) = m
  BY <1>1, <1>2, <1>7 DEF push_arp, Queued
<1>9. DOMAIN n = Fields
  BY DEF Sound
<1>10. m = [ethernet_address_         |-> n.ethernet_address_,
            ip_address_               |-> n.ip_address_,
            timer                     |-> n.timer,
            arp_timer                 |-> n.arp_timer,
            address_map               |-> n.address_map,
            arp_request_expire_timers |-> n.arp_request_expire_timers,
            datagram_cache            |-> n.datagram_cache,
            send_queue                |-> m.send_queue]
  BY <1>7, <1>9 DEF Queued, Fields
<1>11. PICK k : k = push_arp_request(n, hop)
  OBVIOUS
<1>12. k = [ethernet_address_         |-> n.ethernet_address_,
            ip_address_               |-> n.ip_address_,
            timer                     |-> n.timer,
            arp_timer                 |-> n.arp_timer,
            address_map               |-> n.address_map,
            arp_request_expire_timers |->
              Assigned(n.arp_request_expire_timers, hop, n.timer + ARP_REQUEST_TIMEOUT_MS),
            datagram_cache            |-> n.datagram_cache,
            send_queue                |-> m.send_queue]
  BY <1>8, <1>10, <1>11 DEF push_arp_request
<1>13. wait(k, dgram, hop) =
           [ethernet_address_         |-> n.ethernet_address_,
            ip_address_               |-> n.ip_address_,
            timer                     |-> n.timer,
            arp_timer                 |-> n.arp_timer,
            address_map               |-> n.address_map,
            arp_request_expire_timers |->
              Assigned(n.arp_request_expire_timers, hop, n.timer + ARP_REQUEST_TIMEOUT_MS),
            datagram_cache            |->
              Assigned(n.datagram_cache, hop,
                       Append(IF hop \in DOMAIN n.datagram_cache
                              THEN n.datagram_cache[hop] ELSE <<>>, dgram)),
            send_queue                |-> m.send_queue]
  BY <1>12 DEF wait
<1>14. wait(k, dgram, hop) = Asked(n, hop, dgram, frame)
  BY <1>7, <1>13 DEF Asked
<1>15. QED
  BY <1>5, <1>6, <1>11, <1>14

LEMMA RequestIsSound ==
  ASSUME NEW n, NEW p \in Ports, NEW c \in Cards, NEW D, Sound(n, p, c, D),
         NEW hop \in UInt32, ~Known(n, hop), NEW dgram \in Bound(D, hop)
  PROVE  Sound(wait(push_arp_request(n, hop), dgram, hop), p, c, D)
<1>1. PICK m : m = wait(push_arp_request(n, hop), dgram, hop)
  OBVIOUS
<1>2. PICK timers : timers = Assigned(n.arp_request_expire_timers, hop,
                                      n.timer + ARP_REQUEST_TIMEOUT_MS)
  OBVIOUS
<1>3. PICK queue : queue = Append(IF hop \in DOMAIN n.datagram_cache
                                  THEN n.datagram_cache[hop] ELSE <<>>, dgram)
  OBVIOUS
<1>4. PICK cache : cache = Assigned(n.datagram_cache, hop, queue)
  OBVIOUS
<1>5. PICK frame \in Frames(p, c, D) : m = Asked(n, hop, dgram, frame)
  BY <1>1, RequestFields
<1>6. TimersSound(timers)
  <2>1. TimersSound(n.arp_request_expire_timers) /\ n.timer + ARP_REQUEST_TIMEOUT_MS \in Nat
    BY Constants DEF Sound
  <2>2. QED
    BY <1>2, <2>1 DEF TimersSound, Assigned
<1>7. queue \in Seq(Bound(D, hop)) /\ queue # <<>>
  <2>1. hop \in DOMAIN n.datagram_cache => n.datagram_cache[hop] \in Seq(Bound(D, hop))
    BY DEF Sound, CacheSound
  <2>2. PICK q \in Seq(Bound(D, hop)) : queue = Append(q, dgram)
    BY <1>3, <2>1, EmptySeq
  <2>3. QED
    BY <2>2, AppendProperties
<1>8. CacheSound(cache, n.address_map, D)
  <2>1. CacheSound(n.datagram_cache, n.address_map, D) /\ hop \notin DOMAIN n.address_map
    BY DEF Sound, Known
  <2>2. IsFunction(cache)
    BY <1>4 DEF Assigned, IsFunction
  <2>3. DOMAIN cache = DOMAIN n.datagram_cache \cup {hop}
    BY <1>4 DEF Assigned
  <2>4. \A ip \in DOMAIN cache : cache[ip] = IF ip = hop THEN queue ELSE n.datagram_cache[ip]
    BY <1>4 DEF Assigned
  <2>5. QED
    BY <1>7, <2>1, <2>2, <2>3, <2>4 DEF CacheSound
<1>9. Queued(n, frame).send_queue \in Seq(Frames(p, c, D))
  BY QueuedIsSound DEF Sound
<1>10. m = [ethernet_address_         |-> n.ethernet_address_,
            ip_address_               |-> n.ip_address_,
            timer                     |-> n.timer,
            arp_timer                 |-> n.arp_timer,
            address_map               |-> n.address_map,
            arp_request_expire_timers |-> timers,
            datagram_cache            |-> cache,
            send_queue                |-> Queued(n, frame).send_queue]
  BY <1>2, <1>3, <1>4, <1>5 DEF Asked
<1>11. Sound(m, p, c, D)
  BY <1>6, <1>8, <1>9, <1>10 DEF Sound, Fields
<1>12. QED
  BY <1>1, <1>11

LEMMA SentIsSound ==
  ASSUME NEW n, NEW p \in Ports, NEW c \in Cards, NEW D, Sound(n, p, c, D),
         NEW hop \in UInt32, NEW dgram \in Bound(D, hop)
  PROVE  Sound(send_datagram(n, dgram, hop), p, c, D)
BY AddressKnown, PushIsSound, RequestIsSound DEF send_datagram

\* Another frame, queue apart, changes nothing.
LEMMA QueuedFollows ==
  ASSUME NEW n, NEW p, NEW c, NEW D, Sound(n, p, c, D), NEW frame, ~IsRequest(frame),
         NEW from, NEW when, NEW time, Follows(n, from, when, time)
  PROVE  Follows(Queued(n, frame), from, when, time)
<1>1. PICK m : m = Queued(n, frame)
  OBVIOUS
<1>2. /\ m.timer = n.timer
      /\ m.arp_request_expire_timers = n.arp_request_expire_timers
      /\ m.datagram_cache = n.datagram_cache
  <2>1. DOMAIN n = Fields
    BY DEF Sound
  <2>2. QED
    BY <1>1, <2>1 DEF Queued, Fields
<1>3. PICK ips : ips = Requests(n, from)
  OBVIOUS
<1>4. from \in 0 .. Len(m.send_queue) /\ Requests(m, from) = ips
  BY <1>1, <1>3, QueuedRequests DEF Follows
<1>5. /\ ips \subseteq UInt32
      /\ \A ip \in ips : time - when[ip] >= ARP_REQUEST_TIMEOUT_MS
      /\ Paced(n, Later(when, ips, time), time)
  BY <1>3 DEF Follows
<1>6. Paced(m, Later(when, ips, time), time)
  BY <1>2, <1>5 DEF Paced
<1>7. QED
  BY <1>1, <1>4, <1>5, <1>6 DEF Follows

\* A request is sent only when the last one for the same address is over.
LEMMA RequestFollows ==
  ASSUME NEW n, NEW p \in Ports, NEW c \in Cards, NEW D, Sound(n, p, c, D),
         NEW dgram, NEW hop \in UInt32, ~Known(n, hop), ~request_is_pending(n, hop),
         NEW from, NEW when \in [UInt32 -> Int], NEW time \in Nat, Follows(n, from, when, time)
  PROVE  Follows(wait(push_arp_request(n, hop), dgram, hop), from, when, time)
<1>1. PICK m : m = wait(push_arp_request(n, hop), dgram, hop)
  OBVIOUS
<1>2. PICK frame \in Frames(p, c, D) :
        /\ IsRequest(frame) /\ frame.payload.target_ip_address = hop
        /\ m = Asked(n, hop, dgram, frame)
  BY <1>1, RequestFields
<1>3. PICK ips : ips = Requests(n, from)
  OBVIOUS
<1>4. PICK new : new = ips \cup {hop}
  OBVIOUS
<1>5. m.send_queue = Queued(n, frame).send_queue
  BY <1>2 DEF Asked
<1>6. from \in 0 .. Len(m.send_queue) /\ Requests(m, from) = new
  <2>1. from \in 0 .. Len(n.send_queue)
    BY DEF Follows
  <2>2. /\ from \in 0 .. Len(Queued(n, frame).send_queue)
        /\ Requests(Queued(n, frame), from) = new
    BY <1>2, <1>3, <1>4, <2>1, QueuedRequests
  <2>3. QED
    BY <1>5, <2>2 DEF Requests
<1>7. PICK w : w = Later(when, ips, time)
  OBVIOUS
<1>8. PICK v : v = Later(when, new, time)
  OBVIOUS
<1>9. PICK T \in Nat : T = ARP_REQUEST_TIMEOUT_MS /\ T > 0
  BY Constants
<1>10. /\ ips \subseteq UInt32
       /\ \A ip \in ips : time - when[ip] >= T
       /\ Paced(n, w, time)
  BY <1>3, <1>7, <1>9 DEF Follows
<1>11. v \in [UInt32 -> Int] /\ v[hop] = time /\ \A ip \in UInt32 : ip # hop => v[ip] = w[ip]
  BY <1>4, <1>7, <1>8 DEF Later
<1>12. PICK old : old = n.arp_request_expire_timers
  OBVIOUS
<1>13. n.timer \in Nat /\ DOMAIN old \subseteq UInt32 /\ \A ip \in DOMAIN old : old[ip] \in Nat
  BY <1>12 DEF Sound, TimersSound
<1>14. n.timer <= time /\ w \in [UInt32 -> Int]
  BY <1>10 DEF Paced
<1>15. time - w[hop] >= T
  <2>1. CASE time - w[hop] >= ARP_REQUEST_TIMEOUT_MS
    BY <1>9, <2>1
  <2>2. CASE hop \in DOMAIN old /\ old[hop] - n.timer = (w[hop] + ARP_REQUEST_TIMEOUT_MS) - time
    <3>1. n.timer > old[hop]
      BY <1>12, <1>13, <2>2 DEF request_is_pending
    <3>2. PICK a \in Nat : a = old[hop]
      BY <1>13, <2>2
    <3>3. PICK b \in Int : b = w[hop]
      BY <1>14
    <3>4. a - n.timer = (b + T) - time /\ n.timer > a
      BY <1>9, <2>2, <3>1, <3>2, <3>3
    <3>5. time - b >= T
      BY <1>9, <1>13, <3>4
    <3>6. QED
      BY <3>3, <3>5
  <2>3. QED
    BY <1>10, <1>12, <2>1, <2>2 DEF Paced
<1>16. hop \notin ips
  <2>1. SUFFICES ASSUME hop \in ips PROVE FALSE
    OBVIOUS
  <2>2. w[hop] = time
    BY <1>7, <2>1 DEF Later
  <2>3. QED
    BY <1>9, <1>15, <2>2
<1>17. w[hop] = when[hop]
  BY <1>7, <1>16 DEF Later
<1>18. \A ip \in new : time - when[ip] >= T
  BY <1>4, <1>10, <1>15, <1>17
<1>19. PICK timers : timers = Assigned(old, hop, n.timer + T)
  OBVIOUS
<1>20. /\ m.timer = n.timer /\ m.arp_request_expire_timers = timers
       /\ DOMAIN m.datagram_cache = DOMAIN n.datagram_cache \cup {hop}
  BY <1>2, <1>9, <1>12, <1>19 DEF Asked, Assigned
<1>21. /\ DOMAIN timers = DOMAIN old \cup {hop} /\ timers[hop] = n.timer + T
       /\ \A ip \in DOMAIN old : ip # hop => timers[ip] = old[ip]
  BY <1>19 DEF Assigned
<1>22. ASSUME NEW ip \in UInt32
       PROVE  \/ time - v[ip] >= ARP_REQUEST_TIMEOUT_MS
              \/ /\ ip \in DOMAIN timers
                 /\ timers[ip] - n.timer = (v[ip] + ARP_REQUEST_TIMEOUT_MS) - time
  <2>1. CASE ip = hop
    <3>1. (n.timer + T) - n.timer = (time + T) - time
      BY <1>9, <1>13
    <3>2. QED
      BY <1>9, <1>11, <1>21, <2>1, <3>1
  <2>2. CASE ip # hop
    <3>1. v[ip] = w[ip]
      BY <1>11, <2>2
    <3>2. \/ time - w[ip] >= ARP_REQUEST_TIMEOUT_MS
          \/ /\ ip \in DOMAIN old
             /\ old[ip] - n.timer = (w[ip] + ARP_REQUEST_TIMEOUT_MS) - time
      BY <1>10, <1>12 DEF Paced
    <3>3. ip \in DOMAIN old => ip \in DOMAIN timers /\ timers[ip] = old[ip]
      BY <1>21, <2>2
    <3>4. QED
      BY <3>1, <3>2, <3>3
  <2>3. QED
    BY <2>1, <2>2
<1>23. ASSUME NEW ip \in DOMAIN m.datagram_cache
       PROVE  v[ip] >= 0
  <2>1. CASE ip = hop
    BY <1>11, <2>1
  <2>2. CASE ip # hop
    <3>1. ip \in DOMAIN n.datagram_cache
      BY <1>20, <2>2
    <3>2. ip \in UInt32
      BY <3>1 DEF Sound, CacheSound
    <3>3. w[ip] >= 0
      BY <1>10, <3>1 DEF Paced
    <3>4. QED
      BY <1>11, <2>2, <3>2, <3>3
  <2>3. QED
    BY <2>1, <2>2
<1>24. Paced(m, v, time)
  BY <1>11, <1>14, <1>20, <1>22, <1>23 DEF Paced
<1>25. QED
  BY <1>1, <1>4, <1>6, <1>8, <1>9, <1>10, <1>18, <1>24 DEF Follows

LEMMA SentFollows ==
  ASSUME NEW n, NEW p \in Ports, NEW c \in Cards, NEW D, Sound(n, p, c, D),
         NEW hop \in UInt32, NEW dgram \in Bound(D, hop),
         NEW from, NEW when \in [UInt32 -> Int], NEW time \in Nat, Follows(n, from, when, time)
  PROVE  Follows(send_datagram(n, dgram, hop), from, when, time)
<1>1. CASE Known(n, hop)
  <2>1. PICK dst \in Addresses : dst = ethernet_address_of(n, hop)
    BY AddressKnown
  <2>2. send_datagram(n, dgram, hop) = push_datagram(n, dgram, dst)
    BY <1>1, <2>1 DEF send_datagram
  <2>3. PICK frame : /\ ~IsRequest(frame) /\ frame \in Frames(p, c, D)
                     /\ frame.type = TYPE_IPv4 /\ frame.payload = dgram
                     /\ push_datagram(n, dgram, dst) = Queued(n, frame)
    BY <1>1, <2>1, PushIsSound
  <2>4. Follows(Queued(n, frame), from, when, time)
    BY <2>3, QueuedFollows
  <2>5. QED
    BY <2>2, <2>3, <2>4
<1>2. CASE ~Known(n, hop) /\ request_is_pending(n, hop)
  BY <1>2 DEF send_datagram
<1>3. CASE ~Known(n, hop) /\ ~request_is_pending(n, hop)
  BY <1>3, RequestFollows DEF send_datagram
<1>4. QED
  BY <1>1, <1>2, <1>3

\* An interface that nothing happened to.
LEMMA StartsToFollow ==
  ASSUME NEW n, NEW p, NEW c, NEW D, Sound(n, p, c, D),
         NEW when \in [UInt32 -> Int], NEW time, Paced(n, when, time)
  PROVE  /\ Follows(n, Len(n.send_queue), when, time)
         /\ Requests(n, Len(n.send_queue)) = {}
<1>1. PICK len \in Nat : len = Len(n.send_queue)
  BY LenProperties DEF Sound
<1>2. {j \in len + 1 .. len : IsRequest(n.send_queue[j])} = {}
  BY <1>1
<1>3. Requests(n, len) = {}
  BY <1>1, <1>2 DEF Requests
<1>4. Later(when, {}, time) = when
  BY DEF Later
<1>5. len \in 0 .. len
  BY <1>1
<1>6. QED
  BY <1>1, <1>3, <1>4, <1>5 DEF Follows

(***************************************************************************)
(* What an interface does with a frame that it hears.                      *)
(***************************************************************************)
Answers(n, m) ==
  /\ m.timer = n.timer /\ m.arp_request_expire_timers = n.arp_request_expire_timers
  /\ DOMAIN m.datagram_cache \subseteq DOMAIN n.datagram_cache
  /\ Len(n.send_queue) \in 0 .. Len(m.send_queue)
  /\ Requests(m, Len(n.send_queue)) = {}

LEMMA AnswersNothing ==
  ASSUME NEW n, NEW p, NEW c, NEW D, Sound(n, p, c, D)
  PROVE  Answers(n, n)
<1>1. PICK len \in Nat : len = Len(n.send_queue)
  BY LenProperties DEF Sound
<1>2. {j \in len + 1 .. len : IsRequest(n.send_queue[j])} = {}
  BY <1>1
<1>3. Requests(n, len) = {} /\ len \in 0 .. len
  BY <1>1, <1>2 DEF Requests
<1>4. QED
  BY <1>1, <1>3 DEF Answers

LEMMA AnswersArePaced ==
  ASSUME NEW n, NEW m, Answers(n, m), NEW when, NEW time, Paced(n, when, time)
  PROVE  Paced(m, when, time)
BY DEF Answers, Paced

\* n after the address of ip was learned, the frames were sent and m waits.
Learned(n, ip, address, frames, m) ==
  [ethernet_address_         |-> n.ethernet_address_,
   ip_address_               |-> n.ip_address_,
   timer                     |-> n.timer,
   arp_timer                 |-> n.arp_timer,
   address_map               |->
     Assigned(n.address_map, ip,
              AddressCache(address, n.timer + ADDRESS_CACHE_TIMEOUT_MS)),
   arp_request_expire_timers |-> n.arp_request_expire_timers,
   datagram_cache            |-> m,
   send_queue                |->
     n.send_queue \o [i \in DOMAIN frames |->
                        [type |-> TYPE_IPv4, payload |-> frames[i],
                         dst |-> address, src |-> n.ethernet_address_]]]

\* The datagrams that wait for ip.
Waiting(n, ip) == IF ip \in DOMAIN n.datagram_cache THEN n.datagram_cache[ip] ELSE <<>>

Learns(n, D, ip, address, k) ==
  \E frames \in Seq(Bound(D, ip)) : \E m :
    /\ frames = Waiting(n, ip) /\ k = Learned(n, ip, address, frames, m)
    /\ IsFunction(m) /\ DOMAIN m = DOMAIN n.datagram_cache \ {ip}
    /\ \A a \in DOMAIN m : m[a] = n.datagram_cache[a]

\* The sender of the message is learned, and what waited for it is sent.
LEMMA LearnedFields ==
  ASSUME NEW n, NEW p, NEW c, NEW D, Sound(n, p, c, D), NEW ip, NEW address
  PROVE  Learns(n, D, ip, address, send_waiting(learn(n, ip, address), ip, address))
<1>1. DOMAIN n = Fields /\ IsFunction(n.datagram_cache)
      /\ n.send_queue \in Seq(Frames(p, c, D))
      /\ \A a \in DOMAIN n.datagram_cache : n.datagram_cache[a] \in Seq(Bound(D, a))
  BY DEF Sound, CacheSound
<1>2. PICK map : map = Assigned(n.address_map, ip,
                                AddressCache(address, n.timer + ADDRESS_CACHE_TIMEOUT_MS))
  OBVIOUS
<1>3. PICK k : k = learn(n, ip, address)
  OBVIOUS
<1>4. k = [ethernet_address_         |-> n.ethernet_address_,
           ip_address_               |-> n.ip_address_,
           timer                     |-> n.timer,
           arp_timer                 |-> n.arp_timer,
           address_map               |-> map,
           arp_request_expire_timers |-> n.arp_request_expire_timers,
           datagram_cache            |-> n.datagram_cache,
           send_queue                |-> n.send_queue]
  BY <1>1, <1>2, <1>3 DEF learn, Fields
<1>5. CASE ip \notin DOMAIN n.datagram_cache
  <2>1. send_waiting(k, ip, address) = k
    BY <1>4, <1>5 DEF send_waiting
  <2>2. PICK frames : frames = <<>>
    OBVIOUS
  <2>3. frames \in Seq(Bound(D, ip)) /\ DOMAIN frames = {}
    BY <2>2, EmptySeq
  <2>4. PICK queue :
          queue = [i \in DOMAIN frames |-> [type |-> TYPE_IPv4, payload |-> frames[i],
                                            dst |-> address, src |-> n.ethernet_address_]]
    OBVIOUS
  <2>5. queue = <<>>
    BY <2>3, <2>4
  <2>6. n.send_queue \o queue = n.send_queue
    BY <1>1, <2>5, ConcatEmptySeq
  <2>7. DOMAIN n.datagram_cache = DOMAIN n.datagram_cache \ {ip}
    BY <1>5
  <2>8. send_waiting(k, ip, address) = Learned(n, ip, address, frames, n.datagram_cache)
    BY <1>2, <1>4, <2>1, <2>4, <2>6 DEF Learned
  <2>9. QED
    BY <1>1, <1>3, <1>5, <2>2, <2>3, <2>7, <2>8 DEF Learns, Waiting
<1>6. CASE ip \in DOMAIN n.datagram_cache
  <2>1. PICK frames \in Seq(Bound(D, ip)) : frames = n.datagram_cache[ip]
    BY <1>1, <1>6
  <2>2. PICK queue :
          queue = [i \in DOMAIN frames |-> [type |-> TYPE_IPv4, payload |-> frames[i],
                                            dst |-> address, src |-> n.ethernet_address_]]
    OBVIOUS
  <2>3. queue = [i \in DOMAIN frames |-> create_ethernet_frame(k, TYPE_IPv4, frames[i], address)]
    BY <1>4, <2>2 DEF create_ethernet_frame
  <2>4. PICK m : m = Restrict(n.datagram_cache, DOMAIN n.datagram_cache \ {ip})
    OBVIOUS
  <2>5. /\ IsFunction(m) /\ DOMAIN m = DOMAIN n.datagram_cache \ {ip}
        /\ \A a \in DOMAIN m : m[a] = n.datagram_cache[a]
    BY <2>4 DEF Restrict, IsFunction
  <2>6. send_waiting(k, ip, address) =
          [k EXCEPT !.send_queue = n.send_queue \o queue, !.datagram_cache = m]
    BY <1>4, <1>6, <2>1, <2>3, <2>4 DEF send_waiting
  <2>7. send_waiting(k, ip, address) =
          [ethernet_address_         |-> n.ethernet_address_,
           ip_address_               |-> n.ip_address_,
           timer                     |-> n.timer,
           arp_timer                 |-> n.arp_timer,
           address_map               |-> map,
           arp_request_expire_timers |-> n.arp_request_expire_timers,
           datagram_cache            |-> m,
           send_queue                |-> n.send_queue \o queue]
    BY <1>4, <2>6
  <2>8. send_waiting(k, ip, address) = Learned(n, ip, address, frames, m)
    BY <1>2, <2>2, <2>7 DEF Learned
  <2>9. QED
    BY <1>3, <1>6, <2>1, <2>5, <2>8 DEF Learns, Waiting
<1>7. QED
  BY <1>5, <1>6

LEMMA LearnedIsSound ==
  ASSUME NEW n, NEW p \in Ports, NEW c \in Cards, NEW D, Sound(n, p, c, D),
         NEW ip \in IPAddresses \ {IP[p]}, NEW address \in Owned(c, ip),
         NEW k, k = send_waiting(learn(n, ip, address), ip, address)
  PROVE  Sound(k, p, c, D) /\ Answers(n, k) /\ Known(k, ip)
<1>1. PICK map : map = Assigned(n.address_map, ip,
                                AddressCache(address, n.timer + ADDRESS_CACHE_TIMEOUT_MS))
  OBVIOUS
<1>2. Learns(n, D, ip, address, k)
  BY LearnedFields
<1>3. PICK frames \in Seq(Bound(D, ip)) : \E m :
        /\ k = Learned(n, ip, address, frames, m)
        /\ IsFunction(m) /\ DOMAIN m = DOMAIN n.datagram_cache \ {ip}
        /\ \A a \in DOMAIN m : m[a] = n.datagram_cache[a]
  BY <1>2 DEF Learns
<1>4. PICK m :
        /\ k = Learned(n, ip, address, frames, m)
        /\ IsFunction(m) /\ DOMAIN m = DOMAIN n.datagram_cache \ {ip}
        /\ \A a \in DOMAIN m : m[a] = n.datagram_cache[a]
  BY <1>3
<1>5. PICK more :
        more = [i \in DOMAIN frames |-> [type |-> TYPE_IPv4, payload |-> frames[i],
                                         dst |-> address, src |-> n.ethernet_address_]]
  OBVIOUS
<1>6. PICK F : F = Frames(p, c, D)
  OBVIOUS
<1>7. PICK a \in Nat, b \in Nat : a = Len(n.send_queue) /\ b = Len(frames)
  BY LenProperties DEF Sound
<1>8. DOMAIN frames = 1 .. b /\ \A i \in 1 .. b : frames[i] \in Bound(D, ip)
  BY <1>7, LenProperties, ElementOfSeq
<1>9. \A i \in 1 .. b : more[i] \in F /\ more[i].type = TYPE_IPv4
  <2>1. SUFFICES ASSUME NEW i \in 1 .. b PROVE more[i] \in F /\ more[i].type = TYPE_IPv4
    OBVIOUS
  <2>2. more[i] = [type |-> TYPE_IPv4, payload |-> frames[i],
                   dst |-> address, src |-> n.ethernet_address_]
    BY <1>5, <1>8
  <2>3. frames[i] \in Bound(D, ip) /\ n.ethernet_address_ \in Addresses
    BY <1>8, AddressKnown, OwnedProperties
  <2>4. QED
    BY <1>6, <2>2, <2>3, IPv4Frame
<1>10. more \in Seq(F) /\ Len(more) = b
  <2>1. DOMAIN more = 1 .. b /\ more \in [1 .. b -> F]
    BY <1>5, <1>8, <1>9
  <2>2. more \in Seq(F)
    BY <2>1, SeqDef
  <2>3. QED
    BY <1>7, <2>1, <2>2, LenProperties
<1>11. PICK q : q = n.send_queue \o more
  OBVIOUS
<1>12. n.send_queue \in Seq(F)
  BY <1>6 DEF Sound
<1>13. q \in Seq(F) /\ Len(q) = a + b /\ \A j \in a + 1 .. a + b : q[j] = more[j - a]
  BY <1>7, <1>10, <1>11, <1>12, ConcatProperties
<1>14. k = [ethernet_address_         |-> n.ethernet_address_,
            ip_address_               |-> n.ip_address_,
            timer                     |-> n.timer,
            arp_timer                 |-> n.arp_timer,
            address_map               |-> map,
            arp_request_expire_timers |-> n.arp_request_expire_timers,
            datagram_cache            |-> m,
            send_queue                |-> q]
  BY <1>1, <1>4, <1>5, <1>11 DEF Learned
<1>15. MapSound(map, p, c)
  <2>1. MapSound(n.address_map, p, c)
    BY DEF Sound
  <2>2. /\ DOMAIN map = DOMAIN n.address_map \cup {ip}
        /\ map[ip].ethernet_address = address
        /\ \A e \in DOMAIN n.address_map : e # ip => map[e] = n.address_map[e]
    BY <1>1 DEF Assigned, AddressCache
  <2>3. QED
    BY <2>1, <2>2 DEF MapSound
<1>16. CacheSound(m, map, D)
  <2>1. CacheSound(n.datagram_cache, n.address_map, D)
    BY DEF Sound
  <2>2. DOMAIN map = DOMAIN n.address_map \cup {ip}
    BY <1>1 DEF Assigned
  <2>3. QED
    BY <1>4, <2>1, <2>2 DEF CacheSound
<1>17. Sound(k, p, c, D)
  BY <1>6, <1>13, <1>14, <1>15, <1>16 DEF Sound, Fields
<1>18. Known(k, ip)
  BY <1>1, <1>14 DEF Known, Assigned
<1>19. Requests(k, a) = {}
  <2>1. \A j \in a + 1 .. a + b : ~IsRequest(q[j])
    <3>1. SUFFICES ASSUME NEW j \in a + 1 .. a + b PROVE ~IsRequest(q[j])
      OBVIOUS
    <3>2. j - a \in 1 .. b
      BY <1>7
    <3>3. q[j].type = TYPE_IPv4
      BY <1>9, <1>13, <3>2
    <3>4. QED
      BY <3>3 DEF IsRequest, TYPE_IPv4, TYPE_ARP
  <2>2. k.send_queue = q /\ Len(k.send_queue) = a + b
    BY <1>13, <1>14
  <2>3. {j \in a + 1 .. Len(k.send_queue) : IsRequest(k.send_queue[j])} = {}
    BY <2>1, <2>2
  <2>4. QED
    BY <2>3 DEF Requests
<1>20. Answers(n, k)
  <2>1. a \in 0 .. Len(k.send_queue)
    BY <1>7, <1>13, <1>14
  <2>2. DOMAIN k.datagram_cache \subseteq DOMAIN n.datagram_cache
    BY <1>4, <1>14
  <2>3. QED
    BY <1>7, <1>14, <1>19, <2>1, <2>2 DEF Answers
<1>21. QED
  BY <1>17, <1>18, <1>20

\* A request for a known address is answered with what is known.
LEMMA AnswerIsSound ==
  ASSUME NEW n, NEW p \in Ports, NEW c \in Cards, NEW D, Sound(n, p, c, D),
         NEW message, Known(n, message.sender_ip_address),
         message.opcode = OPCODE_REQUEST =>
           message.target_ip_address # message.sender_ip_address
  PROVE  /\ Sound(answer(n, message), p, c, D)
         /\ \/ answer(n, message) = n
            \/ \E frame : /\ frame.type = TYPE_ARP /\ ~IsRequest(frame)
                          /\ frame \in Frames(p, c, D) /\ answer(n, message) = Queued(n, frame)
<1>1. CASE ~(message.opcode = OPCODE_REQUEST /\ Known(n, message.target_ip_address))
  BY <1>1 DEF answer
<1>2. CASE message.opcode = OPCODE_REQUEST /\ Known(n, message.target_ip_address)
  <2>1. PICK s, t : s = message.target_ip_address /\ t = message.sender_ip_address
    OBVIOUS
  <2>2. s \in IPAddresses /\ t \in IPAddresses /\ s # t
    BY <1>2, <2>1, AddressKnown
  <2>3. PICK from \in Owned(c, s) : from = ethernet_address_of(n, s)
    BY <1>2, <2>1, AddressKnown
  <2>4. PICK to \in Owned(c, t) : to = ethernet_address_of(n, t)
    BY <2>1, AddressKnown
  <2>5. to \in Addresses /\ n.ethernet_address_ \in Addresses
    BY <2>4, OwnedProperties, AddressKnown
  <2>6. PICK reply :
          reply = [opcode                  |-> OPCODE_REPLY,
                   sender_ip_address       |-> s,
                   sender_ethernet_address |-> from,
                   target_ip_address       |-> t,
                   target_ethernet_address |-> to]
    OBVIOUS
  <2>7. PICK frame :
          frame = [type |-> TYPE_ARP, payload |-> reply, dst |-> to, src |-> n.ethernet_address_]
    OBVIOUS
  <2>8. frame \in Frames(p, c, D)
    BY <2>2, <2>5, <2>6, <2>7, ReplyFrame
  <2>9. frame.type = TYPE_ARP /\ ~IsRequest(frame)
    BY <2>6, <2>7 DEF IsRequest, OPCODE_REPLY, OPCODE_REQUEST
  <2>10. answer(n, message) = push_arp_reply(n, s, t)
    BY <1>2, <2>1 DEF answer
  <2>11. push_arp_reply(n, s, t) = Queued(n, frame)
    BY <2>3, <2>4, <2>6, <2>7 DEF push_arp_reply, push_arp, create_ethernet_frame, Queued
  <2>12. QED
    BY <2>8, <2>9, <2>10, <2>11, QueuedIsSound
<1>3. QED
  BY <1>1, <1>2

LEMMA QueuedAnswers ==
  ASSUME NEW n, NEW k, NEW p, NEW c, NEW D, Sound(k, p, c, D), Answers(n, k),
         NEW frame, ~IsRequest(frame)
  PROVE  Answers(n, Queued(k, frame))
<1>1. PICK m : m = Queued(k, frame)
  OBVIOUS
<1>2. /\ m.timer = k.timer
      /\ m.arp_request_expire_timers = k.arp_request_expire_timers
      /\ m.datagram_cache = k.datagram_cache
  <2>1. DOMAIN k = Fields
    BY DEF Sound
  <2>2. QED
    BY <1>1, <2>1 DEF Queued, Fields
<1>3. PICK len : len = Len(n.send_queue)
  OBVIOUS
<1>4. len \in 0 .. Len(k.send_queue) /\ Requests(k, len) = {}
  BY <1>3 DEF Answers
<1>5. len \in 0 .. Len(m.send_queue) /\ Requests(m, len) = {}
  BY <1>1, <1>4, QueuedRequests
<1>6. QED
  BY <1>1, <1>2, <1>3, <1>5 DEF Answers

LEMMA HeardIsSound ==
  ASSUME NEW c \in Cards, NEW D, NEW p \in Ports, NEW q \in Ports, p # q,
         NEW frame \in Frames(p, c, D), NEW n, Sound(n, q, c, D)
  PROVE  Sound(recv_frame(n, frame), q, c, D) /\ Answers(n, recv_frame(n, frame))
<1>1. CASE ~(is_addressed(n, frame) /\ frame.type = TYPE_ARP)
  BY <1>1, AnswersNothing DEF recv_frame
<1>2. CASE is_addressed(n, frame) /\ frame.type = TYPE_ARP
  <2>1. PICK message : message = frame.payload
    OBVIOUS
  <2>2. PICK ip, address : ip = message.sender_ip_address
                           /\ address = message.sender_ethernet_address
    OBVIOUS
  <2>3. frame.dst \in {EthernetAddress(q, c[q]), ETHERNET_BROADCAST}
    BY <1>2 DEF is_addressed, Sound
  <2>4. /\ ip \in IPAddresses \ {IP[q]} /\ address \in Owned(c, ip)
        /\ message.opcode = OPCODE_REQUEST => message.target_ip_address # ip
    BY <1>2, <2>1, <2>2, <2>3, Heard
  <2>5. PICK k : k = send_waiting(learn(n, ip, address), ip, address)
    OBVIOUS
  <2>6. Sound(k, q, c, D) /\ Answers(n, k) /\ Known(k, ip)
    BY <2>4, <2>5, LearnedIsSound
  <2>7. recv_frame(n, frame) = answer(k, message)
    BY <1>2, <2>1, <2>2, <2>5 DEF recv_frame, handle_arp
  <2>8. /\ Sound(answer(k, message), q, c, D)
        /\ \/ answer(k, message) = k
           \/ \E f : ~IsRequest(f) /\ answer(k, message) = Queued(k, f)
    BY <2>2, <2>4, <2>6, AnswerIsSound
  <2>9. Answers(n, answer(k, message))
    BY <2>6, <2>8, QueuedAnswers
  <2>10. QED
    BY <2>7, <2>8, <2>9
<1>3. QED
  BY <1>1, <1>2

LEMMA FewToSeq ==
  ASSUME NEW D, NEW S, S = {} \/ \E d \in D : S = {d}
  PROVE  SetToSeq(S) \in Seq(D)
<1>1. CASE S = {}
  <2>1. Cardinality(S) = 0
    BY <1>1, FS_EmptySet
  <2>2. PICK f : f = <<>>
    OBVIOUS
  <2>3. f \in [1 .. 0 -> S] /\ IsInjective(f)
    BY <2>2 DEF IsInjective
  <2>4. SetToSeq(S) \in [1 .. 0 -> S]
    BY <2>1, <2>3 DEF SetToSeq
  <2>5. [1 .. 0 -> S] \subseteq Seq(D)
    <3>1. [1 .. 0 -> S] \subseteq [1 .. 0 -> D]
      BY <1>1
    <3>2. [1 .. 0 -> D] \in {[1 .. n -> D] : n \in Nat}
      OBVIOUS
    <3>3. QED
      BY <3>1, <3>2, SeqDef
  <2>6. QED
    BY <2>4, <2>5
<1>2. CASE \E d \in D : S = {d}
  <2>1. PICK d \in D : S = {d}
    BY <1>2
  <2>2. Cardinality(S) = 1
    BY <2>1, FS_Singleton
  <2>3. PICK f : f = [i \in 1 .. 1 |-> d]
    OBVIOUS
  <2>4. f \in [1 .. 1 -> S] /\ IsInjective(f)
    BY <2>1, <2>3 DEF IsInjective
  <2>5. SetToSeq(S) \in [1 .. 1 -> S]
    BY <2>2, <2>4 DEF SetToSeq
  <2>6. [1 .. 1 -> S] \subseteq Seq(D)
    <3>1. [1 .. 1 -> S] \subseteq [1 .. 1 -> D]
      BY <2>1
    <3>2. [1 .. 1 -> D] \in {[1 .. n -> D] : n \in Nat}
      OBVIOUS
    <3>3. QED
      BY <3>1, <3>2, SeqDef
  <2>7. QED
    BY <2>5, <2>6
<1>3. QED
  BY <1>1, <1>2

LEMMA PortHears ==
  ASSUME NEW c \in Cards, NEW D, NEW p \in Ports, NEW q \in Ports, p # q,
         NEW frame \in Frames(p, c, D), NEW a, PortSound(a, q, c, D)
  PROVE  /\ PortSound(async_recv_frame(a, frame), q, c, D)
         /\ Answers(a.interface, async_recv_frame(a, frame).interface)
<1>1. PICK n, in, B : n = a.interface /\ in = a.datagrams_in_ /\ B = Bound(D, IP[q])
  OBVIOUS
<1>2. Sound(n, q, c, D) /\ in \in Seq(B)
  BY <1>1 DEF PortSound
<1>3. Sound(recv_frame(n, frame), q, c, D) /\ Answers(n, recv_frame(n, frame))
  BY <1>2, HeardIsSound
<1>4. PICK S : S = received_datagram(n, frame)
  OBVIOUS
<1>5. S = {} \/ \E d \in B : S = {d}
  <2>1. SUFFICES ASSUME is_addressed(n, frame), frame.type = TYPE_IPv4
                 PROVE  frame.payload \in B
    BY <1>4 DEF received_datagram
  <2>2. PICK ip \in IPAddresses : frame.dst \in Owned(c, ip) /\ frame.payload \in Bound(D, ip)
    BY <2>1, FrameCases DEF TYPE_IPv4, TYPE_ARP
  <2>3. frame.dst = EthernetAddress(q, c[q]) /\ c[q] \in Nat
    BY <1>2, <2>1, <2>2, OwnedProperties DEF is_addressed, Sound, Cards
  <2>4. IP[q] = ip
    BY <2>2, <2>3, OwnedProperties
  <2>5. QED
    BY <1>1, <2>2, <2>4
<1>6. PICK more \in Seq(B) : more = SetToSeq(S)
  BY <1>5, FewToSeq
<1>7. async_recv_frame(a, frame) = [interface |-> recv_frame(n, frame), datagrams_in_ |-> in \o more]
  BY <1>1, <1>4, <1>6 DEF async_recv_frame
<1>8. in \o more \in Seq(B)
  BY <1>2, ConcatProperties
<1>9. QED
  BY <1>1, <1>3, <1>7, <1>8 DEF PortSound

(***************************************************************************)
(* Time.                                                                   *)
(***************************************************************************)
\* The fields after a tick: some addresses are forgotten and, at times, the
\* requests that are over.
Ticked(n, now1, arp) ==
  [ethernet_address_         |-> n.ethernet_address_,
   ip_address_               |-> n.ip_address_,
   timer                     |-> now1,
   arp_timer                 |-> IF arp < ARP_REQUEST_TIMEOUT_MS THEN arp ELSE 0,
   address_map               |->
     Restrict(n.address_map, {ip \in DOMAIN n.address_map :
                                now1 < n.address_map[ip].expire_time_ms}),
   arp_request_expire_timers |->
     IF arp < ARP_REQUEST_TIMEOUT_MS THEN n.arp_request_expire_timers
     ELSE Restrict(n.arp_request_expire_timers, {ip \in DOMAIN n.arp_request_expire_timers :
                                                   now1 < n.arp_request_expire_timers[ip]}),
   datagram_cache            |-> n.datagram_cache,
   send_queue                |-> n.send_queue]

LEMMA TickFields ==
  ASSUME NEW n, NEW p, NEW c, NEW D, Sound(n, p, c, D), NEW ms \in Nat
  PROVE  NetworkInterface_tick(n, ms) = Ticked(n, n.timer + ms, n.arp_timer + ms)
<1>0. PICK now1, arp : now1 = n.timer + ms /\ arp = n.arp_timer + ms
  OBVIOUS
<1> DEFINE known == {ip \in DOMAIN n.address_map : now1 < n.address_map[ip].expire_time_ms}
           left == {ip \in DOMAIN n.arp_request_expire_timers :
                      now1 < n.arp_request_expire_timers[ip]}
<1>1. DOMAIN n = Fields
  BY DEF Sound
<1>2. PICK k : k = [n EXCEPT !.timer = @ + ms, !.arp_timer = @ + ms]
  OBVIOUS
<1>3. k = [ethernet_address_         |-> n.ethernet_address_,
           ip_address_               |-> n.ip_address_,
           timer                     |-> now1,
           arp_timer                 |-> arp,
           address_map               |-> n.address_map,
           arp_request_expire_timers |-> n.arp_request_expire_timers,
           datagram_cache            |-> n.datagram_cache,
           send_queue                |-> n.send_queue]
  BY <1>0, <1>1, <1>2 DEF Fields
<1>4. PICK m : m = expire_addresses(k)
  OBVIOUS
<1>5. PICK map : map = Restrict(n.address_map, known)
  OBVIOUS
<1>6. m = [ethernet_address_         |-> n.ethernet_address_,
           ip_address_               |-> n.ip_address_,
           timer                     |-> now1,
           arp_timer                 |-> arp,
           address_map               |-> map,
           arp_request_expire_timers |-> n.arp_request_expire_timers,
           datagram_cache            |-> n.datagram_cache,
           send_queue                |-> n.send_queue]
  <2>1. {ip \in DOMAIN k.address_map : k.timer < k.address_map[ip].expire_time_ms} = known
    BY <1>3
  <2>2. m = [k EXCEPT !.address_map = Restrict(k.address_map, known)]
    BY <1>4, <2>1 DEF expire_addresses
  <2>3. QED
    BY <1>3, <1>5, <2>2
<1>7. NetworkInterface_tick(n, ms) = expire_requests(m)
  BY <1>2, <1>4 DEF NetworkInterface_tick
<1>8. CASE arp < ARP_REQUEST_TIMEOUT_MS
  <2>1. expire_requests(m) = m
    BY <1>6, <1>8 DEF expire_requests
  <2>2. QED
    BY <1>0, <1>5, <1>6, <1>7, <1>8, <2>1 DEF Ticked
<1>9. CASE ~(arp < ARP_REQUEST_TIMEOUT_MS)
  <2>1. {ip \in DOMAIN m.arp_request_expire_timers : m.timer < m.arp_request_expire_timers[ip]} = left
    BY <1>6
  <2>2. PICK timers : timers = Restrict(n.arp_request_expire_timers, left)
    OBVIOUS
  <2>3. expire_requests(m) = [m EXCEPT !.arp_timer = 0, !.arp_request_expire_timers = timers]
    BY <1>6, <1>9, <2>1, <2>2 DEF expire_requests
  <2>4. expire_requests(m) =
          [ethernet_address_         |-> n.ethernet_address_,
           ip_address_               |-> n.ip_address_,
           timer                     |-> now1,
           arp_timer                 |-> 0,
           address_map               |-> map,
           arp_request_expire_timers |-> timers,
           datagram_cache            |-> n.datagram_cache,
           send_queue                |-> n.send_queue]
    BY <1>6, <2>3
  <2>5. QED
    BY <1>0, <1>5, <1>7, <1>9, <2>2, <2>4 DEF Ticked
<1>10. QED
  BY <1>8, <1>9

LEMMA TickIsSound ==
  ASSUME NEW n, NEW p, NEW c, NEW D, Sound(n, p, c, D),
         NEW when, NEW time \in Nat, Paced(n, when, time),
         NEW ms \in Nat, time + ms <= MaxTime, NEW m, m = NetworkInterface_tick(n, ms)
  PROVE  Sound(m, p, c, D) /\ Paced(m, when, time + ms) /\ m.send_queue = n.send_queue
<1>1. PICK T \in Nat : T = ARP_REQUEST_TIMEOUT_MS /\ T > 0
  BY Constants
<1>2. PICK t \in Nat, u \in Nat : t = n.timer /\ u = n.arp_timer
  BY <1>1 DEF Sound
<1>3. PICK now1 \in Nat, arp \in Nat : now1 = t + ms /\ arp = u + ms
  BY <1>2
<1>4. PICK old, was : old = n.arp_request_expire_timers /\ was = n.address_map
  OBVIOUS
<1>5. PICK known : known = {ip \in DOMAIN was : now1 < was[ip].expire_time_ms}
  OBVIOUS
<1>6. PICK left : left = {ip \in DOMAIN old : now1 < old[ip]}
  OBVIOUS
<1>7. PICK map : map = Restrict(was, known)
  OBVIOUS
<1>8. PICK timers : timers = IF arp < T THEN old ELSE Restrict(old, left)
  OBVIOUS
<1>9. m = [ethernet_address_         |-> n.ethernet_address_,
           ip_address_               |-> n.ip_address_,
           timer                     |-> now1,
           arp_timer                 |-> IF arp < T THEN arp ELSE 0,
           address_map               |-> map,
           arp_request_expire_timers |-> timers,
           datagram_cache            |-> n.datagram_cache,
           send_queue                |-> n.send_queue]
  <2>1. m = Ticked(n, now1, arp)
    BY <1>2, <1>3, TickFields
  <2>2. QED
    BY <1>1, <1>4, <1>5, <1>6, <1>7, <1>8, <2>1 DEF Ticked
<1>10. t <= time /\ now1 <= time + ms /\ now1 < UINT64_MAX
  BY <1>2, <1>3, Constants DEF Paced
<1>11. MapSound(was, p, c) /\ TimersSound(old) /\ CacheSound(n.datagram_cache, was, D)
  BY <1>4 DEF Sound
<1>12. DOMAIN map = known /\ known \subseteq DOMAIN was /\ \A ip \in known : map[ip] = was[ip]
  BY <1>5, <1>7 DEF Restrict
<1>13. MapSound(map, p, c)
  <2>1. IP[p] \in known
    BY <1>5, <1>10, <1>11 DEF MapSound, AddressCache
  <2>2. QED
    BY <1>11, <1>12, <2>1 DEF MapSound
<1>14. /\ DOMAIN timers \subseteq DOMAIN old /\ \A ip \in DOMAIN timers : timers[ip] = old[ip]
       /\ \A ip \in DOMAIN old : ip \in DOMAIN timers \/ ~(now1 < old[ip])
  BY <1>6, <1>8 DEF Restrict
<1>15. TimersSound(timers)
  BY <1>11, <1>14 DEF TimersSound
<1>16. CacheSound(n.datagram_cache, map, D)
  BY <1>11, <1>12 DEF CacheSound
<1>17. (IF arp < T THEN arp ELSE 0) \in 0 .. ARP_REQUEST_TIMEOUT_MS - 1
  BY <1>1, <1>3
<1>18. Sound(m, p, c, D)
  BY <1>9, <1>13, <1>15, <1>16, <1>17 DEF Sound, Fields
<1>19. ASSUME NEW ip \in UInt32
       PROVE  \/ (time + ms) - when[ip] >= ARP_REQUEST_TIMEOUT_MS
              \/ /\ ip \in DOMAIN timers
                 /\ timers[ip] - now1 = (when[ip] + ARP_REQUEST_TIMEOUT_MS) - (time + ms)
  <2>1. PICK w \in Int : w = when[ip]
    BY DEF Paced
  <2>2. CASE time - w >= T
    BY <1>1, <2>1, <2>2
  <2>3. CASE ip \in DOMAIN old /\ old[ip] - t = (w + T) - time
    <3>1. PICK o \in Nat : o = old[ip]
      BY <1>11, <2>3 DEF TimersSound
    <3>2. o - t = (w + T) - time
      BY <2>3, <3>1
    <3>3. o - now1 = (w + T) - (time + ms)
      BY <1>1, <1>2, <1>3, <2>1, <3>1, <3>2
    <3>4. CASE ip \in DOMAIN timers
      BY <1>1, <1>14, <2>1, <3>1, <3>3, <3>4
    <3>5. CASE ~(now1 < o)
      BY <1>1, <1>3, <2>1, <3>1, <3>3, <3>5
    <3>6. QED
      BY <1>14, <2>3, <3>1, <3>4, <3>5
  <2>4. QED
    BY <1>1, <1>2, <1>4, <2>1, <2>2, <2>3 DEF Paced
<1>20. Paced(m, when, time + ms)
  <2>1. /\ m.timer = now1 /\ m.arp_request_expire_timers = timers
        /\ m.datagram_cache = n.datagram_cache
    BY <1>9
  <2>2. when \in [UInt32 -> Int] /\ \A ip \in DOMAIN n.datagram_cache : when[ip] >= 0
    BY DEF Paced
  <2>3. QED
    BY <1>10, <1>19, <2>1, <2>2 DEF Paced
<1>21. QED
  BY <1>9, <1>18, <1>20

(***************************************************************************)
(* A frame leaves; a port has had another address; more was sent.          *)
(***************************************************************************)
LEMMA PortTransmits ==
  ASSUME NEW p, NEW c, NEW D, NEW a, PortSound(a, p, c, D), a.interface.send_queue # <<>>,
         NEW b, DOMAIN b = DOMAIN a, b.datagrams_in_ = a.datagrams_in_,
         b.interface = frame_sent(a.interface)
  PROVE  /\ frame_to_send(a.interface) \in Frames(p, c, D)
         /\ PortSound(b, p, c, D)
         /\ Len(b.interface.send_queue) < Len(a.interface.send_queue)
         /\ b.interface.timer = a.interface.timer
         /\ b.interface.arp_request_expire_timers = a.interface.arp_request_expire_timers
         /\ b.interface.datagram_cache = a.interface.datagram_cache
<1>1. PICK n, q, F : n = a.interface /\ q = n.send_queue /\ F = Frames(p, c, D)
  OBVIOUS
<1>2. Sound(n, p, c, D) /\ DOMAIN n = Fields /\ DOMAIN a = {"interface", "datagrams_in_"}
      /\ a.datagrams_in_ \in Seq(Bound(D, IP[p]))
  BY <1>1 DEF PortSound, Sound
<1>3. q \in Seq(F) /\ q # <<>>
  BY <1>1, <1>2 DEF Sound
<1>4. Head(q) \in F /\ Tail(q) \in Seq(F) /\ Len(Tail(q)) < Len(q)
  <2>1. Head(q) \in F /\ Tail(q) \in Seq(F) /\ Len(Tail(q)) = Len(q) - 1 /\ Len(q) \in Nat
    BY <1>3, HeadTailProperties, LenProperties
  <2>2. QED
    BY <2>1
<1>5. PICK m : m = frame_sent(n)
  OBVIOUS
<1>6. m = [ethernet_address_         |-> n.ethernet_address_,
           ip_address_               |-> n.ip_address_,
           timer                     |-> n.timer,
           arp_timer                 |-> n.arp_timer,
           address_map               |-> n.address_map,
           arp_request_expire_timers |-> n.arp_request_expire_timers,
           datagram_cache            |-> n.datagram_cache,
           send_queue                |-> Tail(q)]
  BY <1>1, <1>2, <1>5 DEF frame_sent, Fields
<1>7. b.interface = m
  BY <1>1, <1>5
<1>8. Sound(m, p, c, D)
  BY <1>1, <1>2, <1>4, <1>6 DEF Sound, Fields
<1>9. PortSound(b, p, c, D)
  BY <1>2, <1>7, <1>8 DEF PortSound
<1>10. QED
  BY <1>1, <1>4, <1>6, <1>7, <1>9 DEF frame_to_send

LEMMA BoundGrows ==
  ASSUME NEW C, NEW D, C \subseteq D, NEW ip
  PROVE  Bound(C, ip) \subseteq Bound(D, ip)
BY DEF Bound, CopiesOf, Crossed

LEMMA FramesGrow ==
  ASSUME NEW c \in Cards, NEW d \in Cards, \A q \in Ports : c[q] <= d[q],
         NEW p, NEW C, NEW D, C \subseteq D
  PROVE  /\ \A ip : Owned(c, ip) \subseteq Owned(d, ip)
         /\ Frames(p, c, C) \subseteq Frames(p, d, D)
<1>1. \A ip : Owned(c, ip) \subseteq Owned(d, ip)
  <2>1. \A q \in Ports : 1 .. c[q] \subseteq 1 .. d[q]
    BY DEF Cards
  <2>2. QED
    BY <2>1 DEF Owned
<1>2. \A ip : IPv4Frames(c, C, ip) \subseteq IPv4Frames(d, D, ip)
  BY <1>1, BoundGrows DEF IPv4Frames
<1>3. \A opcode, s, from, to, targets : from \subseteq to =>
        Messages(opcode, s, from, targets) \subseteq Messages(opcode, s, to, targets)
  BY DEF Messages
<1>4. RequestFrames(p, c) \subseteq RequestFrames(p, d)
  BY <1>1, <1>3 DEF RequestFrames
<1>5. \A s, t : ReplyFrames(c, s, t) \subseteq ReplyFrames(d, s, t)
  BY <1>1, <1>3 DEF ReplyFrames
<1>6. QED
  BY <1>1, <1>2, <1>4, <1>5 DEF Frames, AllIPv4Frames, AllReplyFrames

LEMMA SoundGrows ==
  ASSUME NEW c \in Cards, NEW d \in Cards, \A q \in Ports : c[q] <= d[q],
         NEW p, c[p] = d[p], NEW C, NEW D, C \subseteq D,
         NEW a, PortSound(a, p, c, C)
  PROVE  PortSound(a, p, d, D)
<1>1. PICK n : n = a.interface /\ Sound(n, p, c, C)
  BY DEF PortSound
<1>2. \A ip : Owned(c, ip) \subseteq Owned(d, ip)
  BY FramesGrow
<1>3. PICK E, F : E = Frames(p, c, C) /\ F = Frames(p, d, D)
  OBVIOUS
<1>4. E \subseteq F
  BY <1>3, FramesGrow
<1>5. n.send_queue \in Seq(F)
  BY <1>1, <1>3, <1>4, SeqMonotonic DEF Sound
<1>6. \A ip, s : s \in Seq(Bound(C, ip)) => s \in Seq(Bound(D, ip))
  BY BoundGrows, SeqMonotonic
<1>7. MapSound(n.address_map, p, d)
  BY <1>1, <1>2 DEF Sound, MapSound
<1>8. CacheSound(n.datagram_cache, n.address_map, D)
  BY <1>1, <1>6 DEF Sound, CacheSound
<1>9. Sound(n, p, d, D)
  BY <1>1, <1>3, <1>5, <1>7, <1>8 DEF Sound
<1>10. QED
  BY <1>1, <1>6, <1>9 DEF PortSound

\* A port at the start, or after a restart.
LEMMA AttachedIsSound ==
  ASSUME NEW p \in Ports, NEW c \in Cards, NEW D, NEW when, NEW time \in Nat,
         when = [ip \in UInt32 |-> -ARP_REQUEST_TIMEOUT_MS]
  PROVE  /\ PortSound(Attached(p, c[p]), p, c, D)
         /\ Paced(Attached(p, c[p]).interface, when, time)
         /\ Attached(p, c[p]).interface.send_queue = <<>>
<1>1. PICK a, n : a = Attached(p, c[p]) /\ n = NetworkInterface(EthernetAddress(p, c[p]), IP[p])
  OBVIOUS
<1>2. a = [interface |-> n, datagrams_in_ |-> <<>>]
  BY <1>1 DEF Attached, AsyncNetworkInterface
<1>3. PICK map, none, empty :
        /\ map = [ip \in {IP[p]} |-> AddressCache(EthernetAddress(p, c[p]), UINT64_MAX)]
        /\ none = [ip \in {} |-> 0]
        /\ empty = [ip \in {} |-> <<>>]
  OBVIOUS
<1>4. n = [ethernet_address_         |-> EthernetAddress(p, c[p]),
           ip_address_               |-> IP[p],
           timer                     |-> 0,
           arp_timer                 |-> 0,
           address_map               |-> map,
           arp_request_expire_timers |-> none,
           datagram_cache            |-> empty,
           send_queue                |-> <<>>]
  BY <1>1, <1>3 DEF NetworkInterface
<1>5. MapSound(map, p, c)
  BY <1>3, OwnAddress, Constants DEF MapSound, AddressCache
<1>6. TimersSound(none) /\ CacheSound(empty, map, D)
  BY <1>3 DEF TimersSound, CacheSound, IsFunction
<1>7. 0 \in Nat /\ 0 \in 0 .. ARP_REQUEST_TIMEOUT_MS - 1
  BY Constants
<1>8. <<>> \in Seq(Frames(p, c, D)) /\ <<>> \in Seq(Bound(D, IP[p]))
  BY EmptySeq
<1>9. PortSound(a, p, c, D)
  BY <1>2, <1>4, <1>5, <1>6, <1>7, <1>8 DEF PortSound, Sound, Fields
<1>10. Paced(n, when, time)
  <2>1. when \in [UInt32 -> Int] /\ \A ip \in UInt32 : time - when[ip] >= ARP_REQUEST_TIMEOUT_MS
    BY Constants
  <2>2. n.timer <= time /\ DOMAIN n.datagram_cache = {}
    BY <1>3, <1>4
  <2>3. QED
    BY <2>1, <2>2 DEF Paced
<1>11. QED
  BY <1>1, <1>2, <1>4, <1>9, <1>10

(***************************************************************************)
(* The inboxes of a router in a row, and the fold over them.  Both are     *)
(* recursive functions of the library: that there is one is shown for the  *)
(* first k elements, by a least k for which there would be none.           *)
(***************************************************************************)
Concatenated(f, k, seqs) ==
  f = [i \in 1 .. k |-> IF i = 1 THEN seqs[i] ELSE f[i - 1] \o seqs[i]]

LEMMA ConcatenatedExists ==
  ASSUME NEW n \in Nat, NEW seqs
  PROVE  \E f : Concatenated(f, n, seqs)
<1> DEFINE T == {k \in Nat : ~ \E f : Concatenated(f, k, seqs)}
<1>1. SUFFICES ASSUME T # {} PROVE FALSE
  OBVIOUS
<1>2. PICK k \in T : \A j \in T : k <= j
  <2>1. T \in SUBSET Nat
    OBVIOUS
  <2> HIDE DEF T
  <2>2. QED
    BY <1>1, <2>1, MinProperties
<1>3. k \in Nat /\ ~ \E f : Concatenated(f, k, seqs)
  OBVIOUS
<1>4. k # 0
  <2>1. SUFFICES ASSUME k = 0 PROVE FALSE
    OBVIOUS
  <2>2. PICK f : f = [i \in 1 .. 0 |-> seqs[i]]
    OBVIOUS
  <2>3. f = [i \in 1 .. 0 |-> IF i = 1 THEN seqs[i] ELSE f[i - 1] \o seqs[i]]
    BY <2>2
  <2>4. QED
    BY <1>3, <2>1, <2>3 DEF Concatenated
<1>5. k - 1 \in Nat /\ ~(k <= k - 1)
  BY <1>3, <1>4
<1>6. k - 1 \notin T
  BY <1>2, <1>5
<1>7. PICK f : Concatenated(f, k - 1, seqs)
  BY <1>5, <1>6
<1>8. PICK g : g = [i \in 1 .. k |-> IF i < k THEN f[i]
                                     ELSE IF i = 1 THEN seqs[i] ELSE f[i - 1] \o seqs[i]]
  OBVIOUS
<1>9. \A i \in 1 .. k : g[i] = IF i = 1 THEN seqs[i] ELSE g[i - 1] \o seqs[i]
  <2>1. SUFFICES ASSUME NEW i \in 1 .. k
                 PROVE g[i] = IF i = 1 THEN seqs[i] ELSE g[i - 1] \o seqs[i]
    OBVIOUS
  <2>2. i # 1 => i - 1 \in 1 .. k /\ i - 1 < k /\ i - 1 \in 1 .. k - 1
    BY <1>3
  <2>3. i # 1 => g[i - 1] = f[i - 1]
    BY <1>8, <2>2
  <2>4. CASE i < k
    <3>1. i \in 1 .. k - 1
      BY <1>3, <2>4
    <3>2. g[i] = f[i]
      BY <1>8, <2>4
    <3>3. f[i] = IF i = 1 THEN seqs[i] ELSE f[i - 1] \o seqs[i]
      BY <1>7, <3>1 DEF Concatenated
    <3>4. QED
      BY <2>3, <3>2, <3>3
  <2>5. CASE ~(i < k)
    BY <1>8, <2>3, <2>5
  <2>6. QED
    BY <2>4, <2>5
<1>10. Concatenated(g, k, seqs)
  <2>1. g = [i \in 1 .. k |-> g[i]]
    BY <1>8
  <2>2. QED
    BY <1>9, <2>1 DEF Concatenated
<1>11. QED
  BY <1>3, <1>10

LEMMA FlattenIsSeq ==
  ASSUME NEW D, NEW n \in Nat, NEW seqs \in [1 .. n -> Seq(D)]
  PROVE  FlattenSeq(seqs) \in Seq(D)
<1>1. Len(seqs) = n /\ seqs \in Seq(Seq(D))
  <2>1. [1 .. n -> Seq(D)] \in {[1 .. m -> Seq(D)] : m \in Nat}
    OBVIOUS
  <2>2. seqs \in Seq(Seq(D))
    BY <2>1, SeqDef
  <2>3. QED
    BY <2>2, LenProperties
<1>2. CASE n = 0
  <2>1. FlattenSeq(seqs) = seqs
    BY <1>1, <1>2 DEF FlattenSeq
  <2>2. seqs = <<>>
    BY <1>1, <1>2, EmptySeq
  <2>3. QED
    BY <2>1, <2>2, EmptySeq
<1>3. CASE n # 0
  <2>1. PICK flatten : flatten = CHOOSE f : Concatenated(f, n, seqs)
    OBVIOUS
  <2>2. Concatenated(flatten, n, seqs)
    BY <2>1, ConcatenatedExists
  <2>3. FlattenSeq(seqs) = flatten[n]
    BY <1>1, <1>3, <2>1 DEF FlattenSeq, Concatenated
  <2> DEFINE T == {i \in 1 .. n : flatten[i] \notin Seq(D)}
  <2>4. T = {}
    <3>1. SUFFICES ASSUME T # {} PROVE FALSE
      OBVIOUS
    <3>2. PICK k \in T : \A j \in T : k <= j
      <4>1. T \in SUBSET Nat
        OBVIOUS
      <4> HIDE DEF T
      <4>2. QED
        BY <3>1, <4>1, MinProperties
    <3>3. k \in 1 .. n /\ flatten[k] \notin Seq(D)
      OBVIOUS
    <3>4. flatten[k] = IF k = 1 THEN seqs[k] ELSE flatten[k - 1] \o seqs[k]
      BY <2>2, <3>3 DEF Concatenated
    <3>5. seqs[k] \in Seq(D)
      BY <3>3
    <3>6. k # 1 /\ k - 1 \in 1 .. n /\ ~(k <= k - 1)
      BY <3>3, <3>4, <3>5
    <3>7. flatten[k - 1] \in Seq(D)
      BY <3>2, <3>6
    <3>8. flatten[k - 1] \o seqs[k] \in Seq(D)
      BY <3>5, <3>7, ConcatProperties
    <3>9. QED
      BY <3>3, <3>4, <3>6, <3>8
  <2>5. n \in 1 .. n
    BY <1>3
  <2>6. QED
    BY <2>3, <2>4, <2>5
<1>4. QED
  BY <1>2, <1>3

Folded(f, k, base, dgrams, last) ==
  f = [s \in SUBSET (1 .. k) |->
         IF s = {} THEN base
         ELSE route_datagram(f[s \ {Max(s)}], dgrams[Max(s)], last)]

LEMMA MaxOfSome ==
  ASSUME NEW k \in Nat, NEW s \in SUBSET (1 .. k), s # {}
  PROVE  Max(s) \in s /\ Max(s) \in 1 .. k /\ \A i \in s : i <= Max(s)
<1>1. s \in SUBSET Nat /\ \A i \in s : i <= k
  OBVIOUS
<1>2. QED
  BY <1>1, MaxProperties

LEMMA FoldedExists ==
  ASSUME NEW n \in Nat, NEW base, NEW dgrams, NEW last
  PROVE  \E f : Folded(f, n, base, dgrams, last)
<1> DEFINE T == {k \in Nat : ~ \E f : Folded(f, k, base, dgrams, last)}
           Step(f, s) == IF s = {} THEN base
                         ELSE route_datagram(f[s \ {Max(s)}], dgrams[Max(s)], last)
<1>1. SUFFICES ASSUME T # {} PROVE FALSE
  OBVIOUS
<1>2. PICK k \in T : \A j \in T : k <= j
  <2>1. T \in SUBSET Nat
    OBVIOUS
  <2> HIDE DEF T
  <2>2. QED
    BY <1>1, <2>1, MinProperties
<1>3. k \in Nat /\ ~ \E f : Folded(f, k, base, dgrams, last)
  OBVIOUS
<1>4. k # 0
  <2>1. SUFFICES ASSUME k = 0 PROVE FALSE
    OBVIOUS
  <2>2. PICK f : f = [s \in SUBSET (1 .. 0) |-> base]
    OBVIOUS
  <2>3. \A s \in SUBSET (1 .. 0) : s = {}
    OBVIOUS
  <2>4. \A s \in SUBSET (1 .. 0) : f[s] = Step(f, s)
    BY <2>2, <2>3
  <2>5. f = [s \in SUBSET (1 .. 0) |-> Step(f, s)]
    <3> HIDE DEF Step
    <3>1. QED
      BY <2>2, <2>4
  <2>6. QED
    BY <1>3, <2>1, <2>5 DEF Folded
<1>5. k - 1 \in Nat /\ ~(k <= k - 1)
  BY <1>3, <1>4
<1>6. k - 1 \notin T
  BY <1>2, <1>5
<1>7. PICK f : Folded(f, k - 1, base, dgrams, last)
  BY <1>5, <1>6
<1>8. PICK g : g = [s \in SUBSET (1 .. k) |->
                      IF k \notin s THEN f[s]
                      ELSE route_datagram(f[s \ {k}], dgrams[k], last)]
  OBVIOUS
<1>9. \A s \in SUBSET (1 .. k) : g[s] = Step(g, s)
  <2>1. SUFFICES ASSUME NEW s \in SUBSET (1 .. k) PROVE g[s] = Step(g, s)
    OBVIOUS
  <2>2. CASE k \in s
    <3>1. Max(s) = k
      <4>1. Max(s) \in 1 .. k /\ k <= Max(s)
        BY <1>3, <2>2, MaxOfSome
      <4>2. QED
        BY <1>3, <4>1
    <3>2. g[s] = route_datagram(f[s \ {k}], dgrams[k], last)
      BY <1>8, <2>2
    <3>3. g[s \ {k}] = f[s \ {k}]
      BY <1>8
    <3>4. QED
      BY <2>2, <3>1, <3>2, <3>3
  <2>3. CASE k \notin s
    <3>1. s \in SUBSET (1 .. k - 1)
      BY <1>3, <2>3
    <3>2. g[s] = f[s]
      BY <1>8, <2>3
    <3>3. f[s] = Step(f, s)
      BY <1>7, <3>1 DEF Folded
    <3>4. s # {} => g[s \ {Max(s)}] = f[s \ {Max(s)}]
      <4>1. s \ {Max(s)} \in SUBSET (1 .. k) /\ k \notin s \ {Max(s)}
        BY <2>3
      <4>2. QED
        BY <1>8, <4>1
    <3>5. QED
      BY <3>2, <3>3, <3>4
  <2>4. QED
    BY <2>2, <2>3
<1>10. Folded(g, k, base, dgrams, last)
  <2>1. g = [s \in SUBSET (1 .. k) |-> g[s]]
    BY <1>8
  <2>2. g = [s \in SUBSET (1 .. k) |-> Step(g, s)]
    <3> HIDE DEF Step
    <3>1. QED
      BY <1>9, <2>1
  <2>3. QED
    BY <2>2 DEF Folded
<1>11. QED
  BY <1>3, <1>10

(***************************************************************************)
(* Routing.                                                                *)
(***************************************************************************)
PortFollows(a, p) ==
  /\ PortSound(a, p, card, sent)
  /\ Follows(a.interface, Len(port[p].interface.send_queue), asked[p], now)

\* x is what the router r became by sending some datagrams.
RouterFollows(x, r) ==
  /\ DOMAIN x = {"interfaces_", "route_table_"}
  /\ x.route_table_ = table[r]
  /\ DOMAIN x.interfaces_ = DOMAIN Interfaces[r]
  /\ \A i \in DOMAIN Interfaces[r] : PortFollows(x.interfaces_[i], Interfaces[r][i])

LEMMA CopiesProperties ==
  ASSUME Inv, NEW dgram \in CopiesOf(sent)
  PROVE  /\ dgram.dst \in UInt32
         /\ dgram.ttl \notin {0, 1} =>
              \A hop : hop \in NextHops \/ hop = dgram.dst =>
                [dgram EXCEPT !.ttl = @ - 1] \in Bound(sent, hop)
         /\ [dgram EXCEPT !.ttl = @ - 1].id = dgram.id
<1>1. PICK d \in sent, t \in Nat : t \in 0 .. d.ttl /\ dgram = [d EXCEPT !.ttl = t]
  <2>1. PICK d \in sent : dgram \in {[d EXCEPT !.ttl = t] : t \in 0 .. d.ttl}
    BY DEF CopiesOf
  <2>2. QED
    BY <2>1
<1>2. d \in [id : {d.id}, src : UInt32, dst : UInt32, ttl : Nat]
  BY DatagramAssumption DEF Inv
<1>3. dgram.dst = d.dst /\ dgram.ttl = t /\ dgram.id = d.id
  BY <1>1, <1>2
<1>4. ASSUME dgram.ttl \notin {0, 1}, NEW hop, hop \in NextHops \/ hop = dgram.dst
      PROVE  [dgram EXCEPT !.ttl = @ - 1] \in Bound(sent, hop)
  <2>1. t - 1 \in 0 .. d.ttl /\ t - 1 < d.ttl
    BY <1>1, <1>2, <1>3, <1>4
  <2>2. PICK less : less = [dgram EXCEPT !.ttl = @ - 1]
    OBVIOUS
  <2>3. less = [d EXCEPT !.ttl = t - 1]
    BY <1>1, <1>2, <2>2
  <2>4. less \in {[d EXCEPT !.ttl = s] : s \in 0 .. d.ttl}
    BY <2>1, <2>3
  <2>5. less \in CopiesOf(sent)
    BY <2>4 DEF CopiesOf
  <2>6. less.id = d.id /\ less.ttl = t - 1 /\ less.dst = dgram.dst
    BY <1>2, <1>3, <2>3
  <2>7. Crossed(less, sent)
    BY <2>1, <2>6 DEF Crossed
  <2>8. QED
    BY <1>4, <2>2, <2>5, <2>6, <2>7 DEF Bound
<1>5. [dgram EXCEPT !.ttl = @ - 1].id = dgram.id
  BY <1>1, <1>2
<1>6. QED
  BY <1>2, <1>3, <1>4, <1>5

LEMMA PortSends ==
  ASSUME Inv, NEW a, NEW p \in Ports, PortFollows(a, p),
         NEW hop \in UInt32, NEW dgram \in Bound(sent, hop), NEW b, DOMAIN b = DOMAIN a, b.datagrams_in_ = a.datagrams_in_,
         b.interface = send_datagram(a.interface, dgram, hop)
  PROVE  PortFollows(b, p)
<1>1. card \in Cards /\ asked[p] \in [UInt32 -> Int] /\ now \in Nat
  BY Constants DEF Inv, Cards, Paced
<1>2. PICK n, from : n = a.interface /\ from = Len(port[p].interface.send_queue)
  OBVIOUS
<1>3. Sound(n, p, card, sent) /\ Follows(n, from, asked[p], now)
  BY <1>2 DEF PortFollows, PortSound
<1>4. Sound(send_datagram(n, dgram, hop), p, card, sent)
  BY <1>1, <1>3, SentIsSound
<1>5. Follows(send_datagram(n, dgram, hop), from, asked[p], now)
  BY <1>1, <1>3, SentFollows
<1>6. QED
  BY <1>2, <1>4, <1>5 DEF PortFollows, PortSound

LEMMA RouterPorts ==
  ASSUME NEW r \in Routers, NEW i \in DOMAIN Interfaces[r]
  PROVE  Interfaces[r][i] \in Ports /\ Interfaces[r][i] \notin Hosts
<1>1. PICK s : s = Interfaces[r] /\ s \in Seq(Ports \ Hosts)
  BY TopologyAssumption
<1>2. s[i] \in Ports \ Hosts
  BY <1>1, ElementOfSeq, LenProperties
<1>3. QED
  BY <1>1, <1>2

LEMMA RouteDatagramFollows ==
  ASSUME Inv, NEW r \in Routers, NEW x, RouterFollows(x, r), NEW dgram \in CopiesOf(sent), NEW last
  PROVE  RouterFollows(route_datagram(x, dgram, last), r)
<1>1. PICK key : key = last[dgram.dst]
  OBVIOUS
<1>2. x.route_table_ = table[r]
  BY DEF RouterFollows
<1>3. CASE dgram.ttl \in {0, 1} \/ dgram.dst \notin DOMAIN last
  BY <1>3 DEF route_datagram
<1>4. CASE dgram.ttl \notin {0, 1} /\ dgram.dst \in DOMAIN last
  <2>1. PICK hop : hop = next_hop_of(table[r], key, dgram)
    OBVIOUS
  <2>2. hop \in UInt32 /\ (hop \in NextHops \/ hop = dgram.dst)
    BY <2>1, CopiesProperties, Hops DEF next_hop_of, Inv, Tables
  <2>3. PICK less \in Bound(sent, hop) : less = [dgram EXCEPT !.ttl = @ - 1]
    BY <1>4, <2>2, CopiesProperties
  <2>4. PICK k : k = table[r].entries[key]
    OBVIOUS
  <2>5. PICK y : y = route_datagram(x, dgram, last)
    OBVIOUS
  <2>6. y = [x EXCEPT !.interfaces_[k].interface = send_datagram(@, less, hop)]
    BY <1>1, <1>2, <1>4, <2>1, <2>3, <2>4, <2>5 DEF route_datagram
  <2>7. DOMAIN x = {"interfaces_", "route_table_"} /\ DOMAIN x.interfaces_ = DOMAIN Interfaces[r]
    BY DEF RouterFollows
  <2>8. /\ DOMAIN y = {"interfaces_", "route_table_"} /\ y.route_table_ = table[r]
        /\ DOMAIN y.interfaces_ = DOMAIN Interfaces[r]
        /\ \A i \in DOMAIN Interfaces[r] : i # k => y.interfaces_[i] = x.interfaces_[i]
        /\ k \in DOMAIN Interfaces[r] =>
             y.interfaces_[k] = [x.interfaces_[k] EXCEPT !.interface = send_datagram(@, less, hop)]
    BY <1>2, <2>6, <2>7
  <2>9. ASSUME NEW i \in DOMAIN Interfaces[r]
        PROVE  PortFollows(y.interfaces_[i], Interfaces[r][i])
    <3>1. PICK a, p : a = x.interfaces_[i] /\ p = Interfaces[r][i]
      OBVIOUS
    <3>2. PortFollows(a, p) /\ p \in Ports
      BY <3>1, RouterPorts DEF RouterFollows
    <3>3. CASE i # k
      BY <2>8, <3>1, <3>2, <3>3
    <3>4. CASE i = k
      <4>1. PICK b : b = y.interfaces_[i]
        OBVIOUS
      <4>2. b = [a EXCEPT !.interface = send_datagram(@, less, hop)]
        BY <2>8, <3>1, <3>4, <4>1
      <4>3. DOMAIN a = {"interface", "datagrams_in_"}
        BY <3>2 DEF PortFollows, PortSound
      <4>4. /\ DOMAIN b = DOMAIN a /\ b.datagrams_in_ = a.datagrams_in_
            /\ b.interface = send_datagram(a.interface, less, hop)
        BY <4>2, <4>3
      <4>5. PortFollows(b, p)
        BY <2>2, <2>3, <3>2, <4>4, PortSends
      <4>6. QED
        BY <3>1, <4>1, <4>5
    <3>5. QED
      BY <3>3, <3>4
  <2>10. RouterFollows(y, r)
    BY <2>8, <2>9 DEF RouterFollows
  <2>11. QED
    BY <2>5, <2>10
<1>5. QED
  BY <1>3, <1>4

\* The fold of route, over the datagrams of all the inboxes.
RoutedInTurn(base, dgrams, last) ==
  FoldLeft(LAMBDA r, dgram : route_datagram(r, dgram, last), base, dgrams)

LEMMA FoldFollows ==
  ASSUME Inv, NEW r \in Routers, NEW base, RouterFollows(base, r),
         NEW dgrams \in Seq(CopiesOf(sent)), NEW last
  PROVE  RouterFollows(RoutedInTurn(base, dgrams, last), r)
<1>1. PICK n \in Nat : n = Len(dgrams)
  BY LenProperties
<1>2. DOMAIN dgrams = 1 .. n /\ \A i \in 1 .. n : dgrams[i] \in CopiesOf(sent)
  BY <1>1, LenProperties, ElementOfSeq
<1>3. PICK iter : iter = CHOOSE f : Folded(f, n, base, dgrams, last)
  OBVIOUS
<1>4. Folded(iter, n, base, dgrams, last)
  BY <1>3, FoldedExists
<1>5. RoutedInTurn(base, dgrams, last) = iter[1 .. n]
  BY <1>2, <1>3 DEF RoutedInTurn, FoldLeft, MapThenFoldSet, Folded
<1> DEFINE T == {k \in Nat : k <= n /\ \E s \in SUBSET (1 .. k) : ~RouterFollows(iter[s], r)}
<1>6. T = {}
  <2>1. SUFFICES ASSUME T # {} PROVE FALSE
    OBVIOUS
  <2>2. PICK k \in T : \A j \in T : k <= j
    <3>1. T \in SUBSET Nat
      OBVIOUS
    <3> HIDE DEF T
    <3>2. QED
      BY <2>1, <3>1, MinProperties
  <2>3. PICK s \in SUBSET (1 .. k) : ~RouterFollows(iter[s], r)
    OBVIOUS
  <2>4. k \in Nat /\ k <= n /\ s \in SUBSET (1 .. n)
    BY <2>2
  <2>5. iter[s] = IF s = {} THEN base ELSE route_datagram(iter[s \ {Max(s)}], dgrams[Max(s)], last)
    BY <1>4, <2>4 DEF Folded
  <2>6. s # {}
    BY <2>3, <2>5
  <2>7. PICK m \in s : m = Max(s) /\ m \in 1 .. k /\ \A i \in s : i <= m
    BY <2>4, <2>6, MaxOfSome
  <2>8. PICK u : u = s \ {m}
    OBVIOUS
  <2>9. u \in SUBSET (1 .. m - 1) /\ m - 1 \in Nat /\ m - 1 <= n /\ ~(k <= m - 1)
    <3>1. m \in Nat /\ m >= 1 /\ m <= k
      BY <2>4, <2>7
    <3>2. \A i \in u : i \in Nat /\ i >= 1 /\ i <= m /\ i # m
      BY <2>4, <2>7, <2>8
    <3>3. u \in SUBSET (1 .. m - 1)
      BY <3>1, <3>2
    <3>4. QED
      BY <2>4, <3>1, <3>3
  <2>10. m - 1 \notin T
    BY <2>2, <2>9
  <2>11. RouterFollows(iter[u], r)
    BY <2>9, <2>10
  <2>12. dgrams[m] \in CopiesOf(sent)
    BY <1>2, <2>4, <2>7
  <2>13. RouterFollows(route_datagram(iter[u], dgrams[m], last), r)
    BY <2>11, <2>12, RouteDatagramFollows
  <2>14. QED
    BY <2>3, <2>5, <2>6, <2>7, <2>8, <2>13
<1>7. RouterFollows(iter[1 .. n], r)
  <2>1. n \notin T
    BY <1>6
  <2>2. QED
    BY <2>1
<1>8. QED
  BY <1>5, <1>7

\* What route does is the fold, over the inboxes, of the router with them empty.
Unfolded(r, n, ports, inboxes, dgrams, emptied) ==
  /\ n \in Nat /\ ports = Interfaces[r] /\ DOMAIN ports = 1 .. n
  /\ inboxes = [i \in 1 .. n |-> port[ports[i]].datagrams_in_]
  /\ dgrams = FlattenSeq(inboxes)
  /\ emptied = [interfaces_ |-> [i \in 1 .. n |-> [port[ports[i]] EXCEPT !.datagrams_in_ = <<>>]],
                route_table_ |-> table[r]]

LEMMA RouteUnfolds ==
  ASSUME Inv, NEW r \in Routers, NEW last
  PROVE  \E n, ports, inboxes, dgrams, emptied :
           /\ Unfolded(r, n, ports, inboxes, dgrams, emptied)
           /\ inboxes \in [1 .. n -> Seq(CopiesOf(sent))] /\ dgrams \in Seq(CopiesOf(sent))
           /\ route(RouterOf(r), last) = RoutedInTurn(emptied, dgrams, last)
           /\ RouterFollows(emptied, r)
<1> PICK ports : ports = Interfaces[r]
  OBVIOUS
<1>1. PICK n \in Nat : ports = Interfaces[r] /\ DOMAIN ports = 1 .. n
  <2>1. ports \in Seq(Ports \ Hosts)
    BY TopologyAssumption
  <2>2. QED
    BY <2>1, LenProperties
<1>2. \A i \in 1 .. n : ports[i] \in Ports
  BY <1>1, RouterPorts
<1>3. PICK x : x = RouterOf(r)
  OBVIOUS
<1>4. x = [interfaces_ |-> [i \in 1 .. n |-> port[ports[i]]], route_table_ |-> table[r]]
  BY <1>1, <1>3 DEF RouterOf, Router
<1>5. PICK inboxes : inboxes = [i \in 1 .. n |-> port[ports[i]].datagrams_in_]
  OBVIOUS
<1>6. inboxes \in [1 .. n -> Seq(CopiesOf(sent))]
  <2>1. \A ip : Bound(sent, ip) \subseteq CopiesOf(sent)
    BY DEF Bound
  <2>2. ASSUME NEW i \in 1 .. n PROVE port[ports[i]].datagrams_in_ \in Seq(CopiesOf(sent))
    BY <1>2, <2>1, SeqMonotonic DEF Inv, PortSound
  <2>3. QED
    BY <1>5, <2>2
<1>7. PICK dgrams \in Seq(CopiesOf(sent)) : dgrams = FlattenSeq(inboxes)
  BY <1>6, FlattenIsSeq
<1>8. PICK emptied :
        emptied = [interfaces_ |-> [i \in 1 .. n |-> [port[ports[i]] EXCEPT !.datagrams_in_ = <<>>]],
                   route_table_ |-> table[r]]
  OBVIOUS
<1>9. route(x, last) =
        RoutedInTurn(emptied, dgrams, last)
  <2>1. [i \in DOMAIN x.interfaces_ |-> x.interfaces_[i].datagrams_in_] = inboxes
    BY <1>4, <1>5
  <2>2. [x EXCEPT !.interfaces_ = [i \in DOMAIN @ |-> [@[i] EXCEPT !.datagrams_in_ = <<>>]]] = emptied
    <3>1. PICK all : all = [i \in DOMAIN x.interfaces_ |->
                              [x.interfaces_[i] EXCEPT !.datagrams_in_ = <<>>]]
      OBVIOUS
    <3>2. all = [i \in 1 .. n |-> [port[ports[i]] EXCEPT !.datagrams_in_ = <<>>]]
      BY <1>4, <3>1
    <3>3. [x EXCEPT !.interfaces_ = all] = emptied
      <4>1. emptied = [interfaces_ |-> all, route_table_ |-> table[r]]
        BY <1>8, <3>2, Zenon
      <4>2. PICK old, tables : x = [interfaces_ |-> old, route_table_ |-> tables] /\ tables = table[r]
        BY <1>4, Zenon
      <4>3. QED
        BY <4>1, <4>2
    <3>4. QED
      BY <3>1, <3>3, Zenon
  <2>3. QED
    BY <1>7, <2>1, <2>2, Zenon DEF route, RoutedInTurn
<1>10. RouterFollows(emptied, r)
  <2>1. ASSUME NEW i \in 1 .. n PROVE PortFollows(emptied.interfaces_[i], ports[i])
    <3>1. PICK p, a, b : p = ports[i] /\ a = port[p] /\ b = emptied.interfaces_[i]
      OBVIOUS
    <3>2. p \in Ports
      BY <1>2, <3>1
    <3>3. PortSound(a, p, card, sent) /\ Paced(a.interface, asked[p], now)
      BY <3>1, <3>2 DEF Inv
    <3>4. DOMAIN a = {"interface", "datagrams_in_"} /\ b = [a EXCEPT !.datagrams_in_ = <<>>]
      BY <1>8, <3>1, <3>3 DEF PortSound
    <3>5. DOMAIN b = DOMAIN a /\ b.interface = a.interface /\ b.datagrams_in_ = <<>>
      BY <3>4
    <3>6. PortSound(b, p, card, sent)
      BY <3>3, <3>4, <3>5, EmptySeq DEF PortSound
    <3>7. Follows(a.interface, Len(a.interface.send_queue), asked[p], now)
      <4>1. Sound(a.interface, p, card, sent) /\ asked[p] \in [UInt32 -> Int]
        BY <3>3 DEF PortSound, Paced
      <4>2. QED
        BY <3>3, <4>1, StartsToFollow
    <3>8. QED
      BY <3>1, <3>5, <3>6, <3>7 DEF PortFollows
  <2>2. QED
    BY <1>1, <1>8, <2>1 DEF RouterFollows
<1>11. Unfolded(r, n, ports, inboxes, dgrams, emptied)
  BY <1>1, <1>5, <1>7, <1>8 DEF Unfolded
<1>12. QED
  BY <1>3, <1>6, <1>7, <1>9, <1>10, <1>11

LEMMA RouteFollows ==
  ASSUME Inv, NEW r \in Routers, NEW last
  PROVE  RouterFollows(route(RouterOf(r), last), r)
BY RouteUnfolds, FoldFollows

(***************************************************************************)
(* The steps.                                                              *)
(***************************************************************************)
\* What the action property says of a step.
Apart == \A p \in Ports : \A ip \in Asks(p) : now - asked[p][ip] >= ARP_REQUEST_TIMEOUT_MS

LEMMA Present ==
  ASSUME Inv
  PROVE  /\ card \in Cards /\ now \in Nat
         /\ \A p \in Ports : /\ PortSound(port[p], p, card, sent)
                             /\ Sound(port[p].interface, p, card, sent)
                             /\ Paced(port[p].interface, asked[p], now)
                             /\ asked[p] \in [UInt32 -> Int]
                             /\ Len(port[p].interface.send_queue) \in Nat
<1>1. card \in Cards /\ now \in Nat
  BY Constants DEF Inv, Cards
<1>2. ASSUME NEW p \in Ports
      PROVE  /\ PortSound(port[p], p, card, sent)
             /\ Sound(port[p].interface, p, card, sent)
             /\ Paced(port[p].interface, asked[p], now)
             /\ asked[p] \in [UInt32 -> Int]
  BY DEF Inv, PortSound, Paced
<1>3. \A p \in Ports : Len(port[p].interface.send_queue) \in Nat
  BY <1>2, LenProperties DEF Sound
<1>4. QED
  BY <1>1, <1>2, <1>3

\* What p asks for are the requests behind the frames that were there.
LEMMA AsksAreRequests ==
  ASSUME NEW p, NEW S, NEW n, n = port'[p].interface, n.send_queue \in Seq(S),
         NEW from \in Nat, from = Len(port[p].interface.send_queue)
  PROVE  /\ Len(n.send_queue) <= from => Asks(p) = {}
         /\ from \in 0 .. Len(n.send_queue) => Asks(p) = Requests(n, from)
<1> PICK q \in Seq(S) : q = n.send_queue
  OBVIOUS
<1>1. PICK len \in Nat : q = n.send_queue /\ len = Len(q)
  BY LenProperties
<1>2. PICK s : s = SubSeq(q, from + 1, len)
  OBVIOUS
<1>3. Asks(p) = Requested(s)
  BY <1>1, <1>2 DEF Asks
<1>4. CASE len <= from
  <2>1. s = <<>>
    <3>1. from + 1 \in Int /\ len \in Int /\ len < from + 1
      BY <1>4
    <3>2. QED
      BY <1>2, <3>1, SubSeqEmpty
  <2>2. Requested(s) = {}
    BY <2>1 DEF Requested
  <2>3. Requests(n, from) = {}
    <3>1. {j \in from + 1 .. len : IsRequest(q[j])} = {}
      BY <1>4
    <3>2. QED
      BY <1>1, <3>1 DEF Requests
  <2>4. QED
    BY <1>1, <1>3, <2>2, <2>3
<1>5. CASE from < len
  <2>1. s \in Seq(S) /\ Len(s) = len - from /\ \A i \in 1 .. len - from : s[i] = q[from + i]
    <3>1. from + 1 \in Int /\ len \in Int /\ from + 1 <= len /\ \A i \in from + 1 .. len : q[i] \in S
      <4>1. q \in Seq(S) /\ \A i \in from + 1 .. len : i \in 1 .. len
        BY <1>1
      <4>2. \A i \in 1 .. len : q[i] \in S
        BY <1>1, <4>1, ElementOfSeq
      <4>3. QED
        BY <1>5, <4>1, <4>2
    <3>2. /\ s \in Seq(S) /\ Len(s) = (len - (from + 1)) + 1
          /\ \A i \in 1 .. (len - (from + 1)) + 1 : s[i] = q[((from + 1) + i) - 1]
      <4>1. /\ s \in Seq(S) /\ Len(s) = IF from + 1 <= len THEN (len - (from + 1)) + 1 ELSE 0
            /\ \A i \in 1 .. (len - (from + 1)) + 1 : s[i] = q[((from + 1) + i) - 1]
        <5>1. PICK m \in Int : m = from + 1
          BY <3>1
        <5>2. \A i \in m .. len : q[i] \in S
          BY <3>1, <5>1
        <5>3. /\ SubSeq(q, m, len) \in Seq(S)
              /\ Len(SubSeq(q, m, len)) = IF m <= len THEN (len - m) + 1 ELSE 0
              /\ \A i \in 1 .. (len - m) + 1 : SubSeq(q, m, len)[i] = q[(m + i) - 1]
          BY <3>1, <5>2, SubSeqProperties
        <5>4. QED
          BY <1>2, <5>1, <5>3
      <4>2. QED
        BY <3>1, <4>1
    <3>3. (len - (from + 1)) + 1 = len - from
      BY <1>1
    <3>4. \A i \in 1 .. len - from : ((from + 1) + i) - 1 = from + i
      BY <1>1
    <3>5. QED
      BY <3>2, <3>3, <3>4
  <2>2. DOMAIN s = 1 .. len - from
    BY <2>1, LenProperties
  <2>3. PICK A, B : A = {j \in DOMAIN s : s[j].type = TYPE_ARP /\ s[j].payload.opcode = OPCODE_REQUEST}
                    /\ B = {j \in from + 1 .. len : IsRequest(q[j])}
    OBVIOUS
  <2>4. \A i \in A : from + i \in B /\ s[i] = q[from + i]
    <3>1. SUFFICES ASSUME NEW i \in A PROVE from + i \in B /\ s[i] = q[from + i]
      OBVIOUS
    <3>2. i \in 1 .. len - from /\ IsRequest(s[i])
      BY <2>2, <2>3 DEF IsRequest
    <3>3. from + i \in from + 1 .. len
      BY <1>1, <3>2
    <3>4. QED
      BY <2>1, <2>3, <3>2, <3>3
  <2>5. \A j \in B : j - from \in A /\ s[j - from] = q[j]
    <3>1. SUFFICES ASSUME NEW j \in B PROVE j - from \in A /\ s[j - from] = q[j]
      OBVIOUS
    <3>2. j \in from + 1 .. len /\ IsRequest(q[j])
      BY <2>3
    <3>3. j - from \in 1 .. len - from /\ from + (j - from) = j
      BY <1>1, <3>2
    <3>4. s[j - from] = q[j]
      BY <2>1, <3>3
    <3>5. QED
      BY <2>2, <2>3, <3>2, <3>3, <3>4 DEF IsRequest
  <2>6. Requested(s) = {s[i].payload.target_ip_address : i \in A}
    BY <2>3 DEF Requested
  <2>7. Requests(n, from) = {q[j].payload.target_ip_address : j \in B}
    BY <1>1, <2>3 DEF Requests
  <2>8. {s[i].payload.target_ip_address : i \in A} = {q[j].payload.target_ip_address : j \in B}
    <3>1. ASSUME NEW i \in A
          PROVE  s[i].payload.target_ip_address \in {q[j].payload.target_ip_address : j \in B}
      BY <2>4
    <3>2. ASSUME NEW j \in B
          PROVE  q[j].payload.target_ip_address \in {s[i].payload.target_ip_address : i \in A}
      <4>1. j - from \in A /\ s[j - from] = q[j]
        BY <2>5
      <4>2. QED
        BY <4>1
    <3>3. QED
      BY <3>1, <3>2
  <2>9. Asks(p) = Requests(n, from)
    BY <1>3, <2>6, <2>7, <2>8
  <2>10. ~(Len(n.send_queue) <= from)
    BY <1>1, <1>5
  <2>11. QED
    BY <2>9, <2>10
<1>6. QED
  BY <1>1, <1>4, <1>5

\* A port that sent datagrams.
LEMMA PortAsked ==
  ASSUME Inv, Asking, NEW p \in Ports, NEW c, NEW D, PortSound(port'[p], p, c, D),
         Follows(port'[p].interface, Len(port[p].interface.send_queue), asked[p], now)
  PROVE  /\ Paced(port'[p].interface, asked'[p], now)
         /\ \A ip \in Asks(p) : now - asked[p][ip] >= ARP_REQUEST_TIMEOUT_MS
<1>1. PICK n : n = port'[p].interface
  OBVIOUS
<1>2. PICK from \in Nat : from = Len(port[p].interface.send_queue)
  BY Present
<1>3. n.send_queue \in Seq(Frames(p, c, D))
  BY <1>1 DEF PortSound, Sound
<1>4. Asks(p) = Requests(n, from)
  BY <1>1, <1>2, <1>3, AsksAreRequests DEF Follows
<1>5. asked'[p] = Later(asked[p], Requests(n, from), now)
  BY <1>4 DEF Asking, Later
<1>6. QED
  BY <1>1, <1>2, <1>4, <1>5 DEF Follows

\* A port that sent no request.
LEMMA PortSilent ==
  ASSUME Inv, asked' = asked, NEW p \in Ports, NEW c, NEW D, PortSound(port'[p], p, c, D),
         Answers(port[p].interface, port'[p].interface)
  PROVE  Paced(port'[p].interface, asked'[p], now) /\ Asks(p) = {}
<1>1. PICK n : n = port'[p].interface
  OBVIOUS
<1>2. PICK from \in Nat : from = Len(port[p].interface.send_queue)
  BY Present
<1>3. n.send_queue \in Seq(Frames(p, c, D))
  BY <1>1 DEF PortSound, Sound
<1>4. Asks(p) = {}
  BY <1>1, <1>2, <1>3, AsksAreRequests DEF Answers
<1>5. Paced(n, asked[p], now)
  BY <1>1, Present, AnswersArePaced
<1>6. QED
  BY <1>1, <1>4, <1>5

LEMMA PortStays ==
  ASSUME Inv, NEW p \in Ports, port'[p] = port[p]
  PROVE  /\ PortSound(port'[p], p, card, sent)
         /\ Answers(port[p].interface, port'[p].interface)
BY Present, AnswersNothing

LEMMA InitInv == Init => Inv
<1> SUFFICES ASSUME Init PROVE Inv
  OBVIOUS
<1>1. card \in Cards /\ card \in [Ports -> Nat \ {0}]
  BY DEF Init, Cards
<1>2. now = 0 /\ now \in Nat /\ now \in 0 .. MaxTime
  BY Constants DEF Init
<1>3. IsFunction(port) /\ DOMAIN port = Ports /\ DOMAIN asked = Ports
  BY DEF Init, IsFunction
<1>4. ASSUME NEW p \in Ports
      PROVE  PortSound(port[p], p, card, sent) /\ Paced(port[p].interface, asked[p], now)
  <2>1. port[p] = Attached(p, card[p]) /\ asked[p] = [ip \in UInt32 |-> -ARP_REQUEST_TIMEOUT_MS]
    BY DEF Init
  <2>2. QED
    BY <1>1, <1>2, <2>1, AttachedIsSound
<1>5. Tables
  BY DEF Init, Tables, RouteTable, IsFunction
<1>6. QED
  BY <1>1, <1>2, <1>3, <1>4, <1>5 DEF Inv, Init

LEMMA TransmitStep ==
  ASSUME Inv, NEW p \in Ports, Transmit(p)
  PROVE  Inv' /\ Apart
<1>1. PICK heard \in SUBSET Neighbours(p) :
        port' = [q \in Ports |->
                   IF q = p THEN [port[p] EXCEPT !.interface = frame_sent(@)]
                   ELSE IF q \in heard
                   THEN async_recv_frame(port[q], frame_to_send(port[p].interface))
                   ELSE port[q]]
  BY DEF Transmit
<1>2. port[p].interface.send_queue # <<>>
      /\ UNCHANGED <<table, added, card, sent, asked, now>>
  BY DEF Transmit
<1>3. PICK a, b : a = port[p] /\ b = [a EXCEPT !.interface = frame_sent(@)]
  OBVIOUS
<1>4. /\ frame_to_send(a.interface) \in Frames(p, card, sent)
      /\ PortSound(b, p, card, sent)
      /\ Len(b.interface.send_queue) < Len(a.interface.send_queue)
      /\ b.interface.timer = a.interface.timer
      /\ b.interface.arp_request_expire_timers = a.interface.arp_request_expire_timers
      /\ b.interface.datagram_cache = a.interface.datagram_cache
  <2>1. PortSound(a, p, card, sent) /\ a.interface.send_queue # <<>>
    BY <1>2, <1>3, Present
  <2>2. DOMAIN b = DOMAIN a /\ b.datagrams_in_ = a.datagrams_in_ /\ b.interface = frame_sent(a.interface)
    BY <1>3, <2>1 DEF PortSound
  <2>3. QED
    BY <2>1, <2>2, PortTransmits
<1>5. ASSUME NEW q \in Ports
      PROVE  PortSound(port'[q], q, card, sent) /\ Paced(port'[q].interface, asked'[q], now)
             /\ Asks(q) = {}
  <2>1. CASE q = p
    <3>1. port'[p] = b
      BY <1>1, <1>3
    <3>2. Paced(b.interface, asked[p], now)
      <4>1. Paced(port[p].interface, asked[p], now)
        BY Present
      <4>2. QED
        BY <1>3, <1>4, <4>1 DEF Paced
    <3>3. Asks(p) = {}
      <4>1. b.interface.send_queue \in Seq(Frames(p, card, sent))
        BY <1>4 DEF PortSound, Sound
      <4>2. Len(port[p].interface.send_queue) \in Nat /\ Len(b.interface.send_queue) \in Nat
        BY <4>1, Present, LenProperties
      <4>3. Len(b.interface.send_queue) <= Len(port[p].interface.send_queue)
        BY <1>3, <1>4, <4>2
      <4>4. QED
        BY <3>1, <4>1, <4>2, <4>3, AsksAreRequests
    <3>4. QED
      BY <1>2, <1>4, <2>1, <3>1, <3>2, <3>3
  <2>2. CASE q # p /\ q \in heard
    <3>1. port'[q] = async_recv_frame(port[q], frame_to_send(port[p].interface))
      BY <1>1, <2>2
    <3>2. PortSound(port'[q], q, card, sent) /\ Answers(port[q].interface, port'[q].interface)
      <4>1. q \in Ports /\ p # q /\ PortSound(port[q], q, card, sent) /\ card \in Cards
        BY <2>2, Present
      <4>2. frame_to_send(port[p].interface) \in Frames(p, card, sent)
        BY <1>3, <1>4
      <4>3. QED
        BY <3>1, <4>1, <4>2, PortHears
    <3>3. QED
      BY <1>2, <3>2, PortSilent
  <2>3. CASE q # p /\ q \notin heard
    <3>1. port'[q] = port[q]
      BY <1>1, <2>3
    <3>2. QED
      BY <1>2, <3>1, PortStays, PortSilent
  <2>4. QED
    BY <2>1, <2>2, <2>3
<1>6. IsFunction(port') /\ DOMAIN port' = Ports /\ DOMAIN asked' = Ports
  BY <1>1, <1>2 DEF Inv, IsFunction
<1>7. Tables'
  BY <1>2 DEF Inv, Tables
<1>8. Inv'
  BY <1>2, <1>5, <1>6, <1>7 DEF Inv
<1>9. QED
  BY <1>5, <1>8 DEF Apart

\* The datagram is sent from now on, to the gateway.
LEMMA SendStep ==
  ASSUME Inv, NEW h \in Hosts, Send(h)
  PROVE  Inv' /\ Apart
<1>1. PICK d \in Datagrams \ sent :
        /\ sent' = sent \cup {d}
        /\ port' = [port EXCEPT ![h].interface = send_datagram(@, d, Gateway[h])]
  BY DEF Send
<1>2. Asking /\ UNCHANGED <<table, added, card, now>>
  BY DEF Send
<1>3. h \in Ports /\ Gateway[h] \in UInt32 /\ Gateway[h] \in NextHops
  BY Constants, DatagramAssumption, Hops
<1>4. PICK D : D = sent'
  OBVIOUS
<1>5. sent \subseteq D
  BY <1>1, <1>4
<1>6. d \in Bound(D, Gateway[h])
  <2>1. d \in [id : {d.id}, src : UInt32, dst : UInt32, ttl : Nat]
    BY <1>1, DatagramAssumption
  <2>2. d.ttl \in 0 .. d.ttl /\ d = [d EXCEPT !.ttl = d.ttl]
    BY <2>1
  <2>3. d \in {[d EXCEPT !.ttl = ttl] : ttl \in 0 .. d.ttl}
    BY <2>2
  <2>4. d \in sent'
    BY <1>1
  <2>5. d \in CopiesOf(D)
    BY <1>4, <2>3, <2>4 DEF CopiesOf
  <2>6. QED
    BY <1>3, <2>5 DEF Bound
<1>7. IsFunction(port') /\ DOMAIN port' = Ports /\ DOMAIN asked' = Ports
  BY <1>1, <1>2 DEF Inv, IsFunction, Asking
<1>8. ASSUME NEW p \in Ports
      PROVE  PortSound(port'[p], p, card, D)
             /\ Follows(port'[p].interface, Len(port[p].interface.send_queue), asked[p], now)
  <2>1. PICK a, b : a = port[p] /\ b = port'[p]
    OBVIOUS
  <2>2. PICK n, from : n = a.interface /\ from = Len(n.send_queue)
    OBVIOUS
  <2>3. PortSound(a, p, card, D)
    <3>1. PortSound(a, p, card, sent) /\ card \in Cards /\ \A q \in Ports : card[q] <= card[q]
      BY <2>1, Present DEF Cards
    <3>2. QED
      BY <1>5, <3>1, SoundGrows
  <2>4. Sound(n, p, card, D) /\ DOMAIN a = {"interface", "datagrams_in_"}
    BY <2>2, <2>3 DEF PortSound
  <2>5. asked[p] \in [UInt32 -> Int] /\ Paced(n, asked[p], now) /\ now \in Nat /\ card \in Cards
    BY <2>1, <2>2, Present
  <2>6. Follows(n, from, asked[p], now)
    BY <2>2, <2>4, <2>5, StartsToFollow
  <2>7. CASE p # h
    <3>1. b = a
      BY <1>1, <1>3, <2>1, <2>7 DEF Inv
    <3>2. QED
      BY <2>1, <2>2, <2>3, <2>6, <3>1
  <2>8. CASE p = h
    <3>1. b = [a EXCEPT !.interface = send_datagram(@, d, Gateway[h])]
      BY <1>1, <1>3, <2>1, <2>8 DEF Inv
    <3>2. /\ DOMAIN b = DOMAIN a /\ b.datagrams_in_ = a.datagrams_in_
          /\ b.interface = send_datagram(n, d, Gateway[h])
      BY <2>2, <2>4, <3>1
    <3>3. Sound(b.interface, p, card, D)
      BY <1>3, <1>6, <2>4, <2>5, <3>2, SentIsSound
    <3>4. Follows(b.interface, from, asked[p], now)
      BY <1>3, <1>6, <2>4, <2>5, <2>6, <3>2, SentFollows
    <3>5. PortSound(b, p, card, D)
      BY <2>3, <3>2, <3>3 DEF PortSound
    <3>6. QED
      BY <2>1, <2>2, <3>4, <3>5
  <2>9. QED
    BY <2>7, <2>8
<1>9. \A p \in Ports : /\ Paced(port'[p].interface, asked'[p], now)
                       /\ \A ip \in Asks(p) : now - asked[p][ip] >= ARP_REQUEST_TIMEOUT_MS
  BY <1>2, <1>8, PortAsked
<1>10. Tables'
  BY <1>2 DEF Inv, Tables
<1>11. Inv'
  BY <1>1, <1>2, <1>4, <1>7, <1>8, <1>9, <1>10 DEF Inv
<1>12. QED
  BY <1>9, <1>11 DEF Apart

LEMMA RouteStep ==
  ASSUME Inv, NEW r \in Routers, Route(r)
  PROVE  Inv' /\ Apart
<1>1. PICK last :
        port' = [p \in Ports |->
                   IF \E i \in DOMAIN Interfaces[r] : Interfaces[r][i] = p
                   THEN route(RouterOf(r), last).interfaces_[CHOOSE i \in DOMAIN Interfaces[r] :
                                                               Interfaces[r][i] = p]
                   ELSE port[p]]
  BY DEF Route
<1>2. Asking /\ UNCHANGED <<table, added, card, sent, now>>
  BY DEF Route
<1>3. PICK x : x = route(RouterOf(r), last)
  OBVIOUS
<1>4. RouterFollows(x, r)
  BY <1>3, RouteFollows
<1>5. IsFunction(port') /\ DOMAIN port' = Ports /\ DOMAIN asked' = Ports
  BY <1>1, <1>2 DEF IsFunction, Asking
<1>6. ASSUME NEW p \in Ports
      PROVE  PortFollows(port'[p], p)
  <2>1. CASE \E i \in DOMAIN Interfaces[r] : Interfaces[r][i] = p
    <3>1. PICK i : i = CHOOSE j \in DOMAIN Interfaces[r] : Interfaces[r][j] = p
      OBVIOUS
    <3>2. i \in DOMAIN Interfaces[r] /\ Interfaces[r][i] = p
      BY <2>1, <3>1
    <3>3. port'[p] = x.interfaces_[i]
      BY <1>1, <1>3, <2>1, <3>1
    <3>4. QED
      BY <1>4, <3>2, <3>3 DEF RouterFollows
  <2>2. CASE ~ \E i \in DOMAIN Interfaces[r] : Interfaces[r][i] = p
    <3>1. port'[p] = port[p]
      BY <1>1, <2>2
    <3>2. Follows(port[p].interface, Len(port[p].interface.send_queue), asked[p], now)
      BY Present, StartsToFollow
    <3>3. QED
      BY <3>1, <3>2, Present DEF PortFollows
  <2>3. QED
    BY <2>1, <2>2
<1>7. \A p \in Ports : /\ Paced(port'[p].interface, asked'[p], now)
                       /\ \A ip \in Asks(p) : now - asked[p][ip] >= ARP_REQUEST_TIMEOUT_MS
  BY <1>2, <1>6, PortAsked DEF PortFollows
<1>8. Tables'
  BY <1>2 DEF Inv, Tables
<1>9. Inv'
  BY <1>2, <1>5, <1>6, <1>7, <1>8 DEF Inv, PortFollows
<1>10. QED
  BY <1>7, <1>9 DEF Apart

LEMMA AddRouteStep ==
  ASSUME Inv, NEW r \in Routers, AddRoute(r)
  PROVE  Inv' /\ Apart
<1>1. PICK call : call = Routes[r][added[r] + 1]
  OBVIOUS
<1>2. /\ added[r] < Len(Routes[r]) /\ added' = [added EXCEPT ![r] = @ + 1]
      /\ table' = [table EXCEPT ![r] =
                     add_route(RouterOf(r), call.route_prefix, call.prefix_length,
                               call.next_hop, call.interface_num).route_table_]
      /\ UNCHANGED <<port, card, sent, asked, now>>
  BY <1>1 DEF AddRoute
<1>3. PICK key : key = Key(call.route_prefix, call.prefix_length)
  OBVIOUS
<1>4. table' = [table EXCEPT ![r] = insert(table[r], key, call.interface_num, call.next_hop)]
  BY <1>2, <1>3 DEF add_route, RouterOf, Router
<1>5. call.next_hop \in SUBSET NextHops
  <2>1. PICK s : s = Routes[r] /\ s \in Seq([route_prefix : UInt32, prefix_length : Nat,
                                             next_hop : SUBSET UInt32,
                                             interface_num : DOMAIN Interfaces[r]])
    BY DatagramAssumption
  <2>2. added[r] \in Nat /\ Len(s) \in Nat /\ DOMAIN s = 1 .. Len(s)
    BY <2>1, LenProperties DEF Inv, Tables
  <2>3. added[r] + 1 \in DOMAIN s
    BY <1>2, <2>1, <2>2
  <2>4. QED
    BY <1>1, <2>1, <2>3, Hops
<1>6. PICK t : t = insert(table[r], key, call.interface_num, call.next_hop)
  OBVIOUS
<1>7. \A k \in DOMAIN table[r].next_hops : table[r].next_hops[k] \in NextHops
  BY DEF Inv, Tables
<1>8. \A k \in DOMAIN t.next_hops : t.next_hops[k] \in NextHops
  <2>1. CASE call.next_hop = {}
    <3>1. t.next_hops = table[r].next_hops
      BY <1>6, <2>1 DEF insert
    <3>2. QED
      BY <1>7, <3>1
  <2>2. CASE call.next_hop # {}
    <3>1. PICK hop : hop = CHOOSE ip \in call.next_hop : TRUE
      OBVIOUS
    <3>2. hop \in NextHops
      BY <1>5, <2>2, <3>1
    <3>3. t.next_hops = Assigned(table[r].next_hops, key, hop)
      BY <1>6, <2>2, <3>1 DEF insert
    <3>4. QED
      BY <1>7, <3>2, <3>3 DEF Assigned
  <2>3. QED
    BY <2>1, <2>2
<1>9. Tables'
  <2>1. IsFunction(table') /\ DOMAIN table' = Routers
    BY <1>4 DEF Inv, Tables, IsFunction
  <2>2. \A s \in Routers : table'[s] = IF s = r THEN t ELSE table[s]
    BY <1>4, <1>6 DEF Inv, Tables
  <2>3. added' \in [Routers -> Nat]
    BY <1>2 DEF Inv, Tables
  <2>4. \A s \in Routers : \A k \in DOMAIN table'[s].next_hops : table'[s].next_hops[k] \in NextHops
    BY <1>8, <2>2 DEF Inv, Tables
  <2>5. QED
    BY <2>1, <2>3, <2>4 DEF Tables
<1>10. Inv'
  BY <1>2, <1>9 DEF Inv
<1>11. \A p \in Ports : Asks(p) = {}
  BY <1>2, PortStays, PortSilent
<1>12. QED
  BY <1>10, <1>11 DEF Apart

LEMMA ReceiveStep ==
  ASSUME Inv, NEW h \in Hosts, Receive(h)
  PROVE  Inv' /\ Apart
<1>1. /\ port[h].datagrams_in_ # <<>> /\ port' = [port EXCEPT ![h] = taken(@)]
      /\ UNCHANGED <<table, added, card, sent, asked, now>>
  BY DEF Receive
<1>2. h \in Ports
  BY Constants
<1>3. IsFunction(port') /\ DOMAIN port' = Ports /\ DOMAIN asked' = Ports
  BY <1>1 DEF Inv, IsFunction
<1>4. ASSUME NEW p \in Ports
      PROVE  /\ PortSound(port'[p], p, card, sent)
             /\ Answers(port[p].interface, port'[p].interface)
  <2>1. CASE p # h
    <3>1. port'[p] = port[p]
      BY <1>1, <2>1 DEF Inv
    <3>2. QED
      BY <3>1, PortStays
  <2>2. CASE p = h
    <3>1. PICK a, b : a = port[p] /\ b = port'[p]
      OBVIOUS
    <3>2. PortSound(a, p, card, sent) /\ a.datagrams_in_ # <<>>
      BY <1>1, <2>2, <3>1, Present
    <3>3. b = taken(a)
      BY <1>1, <1>2, <2>2, <3>1 DEF Inv
    <3>4. /\ DOMAIN b = DOMAIN a /\ b.interface = a.interface
          /\ b.datagrams_in_ = Tail(a.datagrams_in_)
      BY <3>2, <3>3 DEF taken, PortSound
    <3>5. Tail(a.datagrams_in_) \in Seq(Bound(sent, IP[p]))
      BY <3>2, HeadTailProperties DEF PortSound
    <3>6. PortSound(b, p, card, sent)
      BY <3>2, <3>4, <3>5 DEF PortSound
    <3>7. Answers(a.interface, b.interface)
      BY <3>2, <3>4, AnswersNothing DEF PortSound
    <3>8. QED
      BY <3>1, <3>6, <3>7
  <2>3. QED
    BY <2>1, <2>2
<1>5. \A p \in Ports : Paced(port'[p].interface, asked'[p], now) /\ Asks(p) = {}
  BY <1>1, <1>4, PortSilent
<1>6. Tables'
  BY <1>1 DEF Inv, Tables
<1>7. Inv'
  BY <1>1, <1>3, <1>4, <1>5, <1>6 DEF Inv
<1>8. QED
  BY <1>5, <1>7 DEF Apart

LEMMA TickStep ==
  ASSUME Inv, Tick
  PROVE  Inv' /\ Apart
<1>1. PICK ms \in Steps :
        /\ now' = now + ms
        /\ port' = [p \in Ports |-> [port[p] EXCEPT !.interface = NetworkInterface_tick(@, ms)]]
  BY DEF Tick
<1>2. now' <= MaxTime /\ UNCHANGED <<table, added, card, sent, asked>>
  BY DEF Tick
<1>3. ms \in Nat /\ now \in Nat /\ now + ms <= MaxTime /\ now' \in 0 .. MaxTime
  BY <1>1, <1>2, Present, Constants, TimeAssumption
<1>4. IsFunction(port') /\ DOMAIN port' = Ports /\ DOMAIN asked' = Ports
  BY <1>1, <1>2 DEF Inv, IsFunction
<1>5. ASSUME NEW p \in Ports
      PROVE  /\ PortSound(port'[p], p, card, sent)
             /\ Paced(port'[p].interface, asked'[p], now')
             /\ Asks(p) = {}
  <2>1. PICK a, b : a = port[p] /\ b = port'[p]
    OBVIOUS
  <2>2. PortSound(a, p, card, sent) /\ Paced(a.interface, asked[p], now)
    BY <2>1, Present
  <2>3. b = [a EXCEPT !.interface = NetworkInterface_tick(@, ms)]
    BY <1>1, <2>1
  <2>4. /\ DOMAIN b = DOMAIN a /\ b.datagrams_in_ = a.datagrams_in_
        /\ b.interface = NetworkInterface_tick(a.interface, ms)
    BY <2>2, <2>3 DEF PortSound
  <2>5. /\ Sound(b.interface, p, card, sent) /\ Paced(b.interface, asked[p], now + ms)
        /\ b.interface.send_queue = a.interface.send_queue
    BY <1>3, <2>2, <2>4, TickIsSound DEF PortSound
  <2>6. PortSound(b, p, card, sent)
    BY <2>2, <2>4, <2>5 DEF PortSound
  <2>7. Asks(p) = {}
    <3>1. PICK from \in Nat : from = Len(port[p].interface.send_queue)
      BY Present
    <3>2. b.interface.send_queue \in Seq(Frames(p, card, sent))
      BY <2>5 DEF Sound
    <3>3. Len(b.interface.send_queue) <= from
      BY <2>1, <2>5, <3>1
    <3>4. QED
      BY <2>1, <3>1, <3>2, <3>3, AsksAreRequests
  <2>8. QED
    BY <1>1, <1>2, <2>1, <2>5, <2>6, <2>7
<1>6. Tables'
  BY <1>2 DEF Inv, Tables
<1>7. Inv'
  BY <1>2, <1>3, <1>4, <1>5, <1>6 DEF Inv
<1>8. QED
  BY <1>5, <1>7 DEF Apart

LEMMA RestartStep ==
  ASSUME Inv, NEW h \in Restarting, Restart(h)
  PROVE  Inv' /\ Apart
<1>1. /\ card' = [card EXCEPT ![h] = @ + 1]
      /\ port' = [port EXCEPT ![h] = Attached(h, card[h] + 1)]
      /\ asked' = [asked EXCEPT ![h] = [ip \in UInt32 |-> -ARP_REQUEST_TIMEOUT_MS]]
      /\ UNCHANGED <<table, added, sent, now>>
  BY DEF Restart
<1>2. h \in Ports
  BY Constants, TopologyAssumption
<1>3. /\ card' \in Cards /\ card'[h] = card[h] + 1 /\ card' \in [Ports -> Nat \ {0}]
      /\ \A p \in Ports : card[p] <= card'[p] /\ (p # h => card'[p] = card[p])
  BY <1>1, <1>2, Present DEF Cards
<1>4. IsFunction(port') /\ DOMAIN port' = Ports /\ DOMAIN asked' = Ports
  BY <1>1 DEF Inv, IsFunction
<1>5. ASSUME NEW p \in Ports
      PROVE  /\ PortSound(port'[p], p, card', sent)
             /\ Paced(port'[p].interface, asked'[p], now)
             /\ Asks(p) = {}
  <2>1. CASE p # h
    <3>1. port'[p] = port[p] /\ card'[p] = card[p]
      BY <1>1, <1>3, <2>1 DEF Inv
    <3>2. asked'[p] = asked[p]
      BY <1>1, <2>1, Present
    <3>3. PortSound(port[p], p, card', sent)
      <4>1. PortSound(port[p], p, card, sent) /\ card \in Cards
        BY Present
      <4>2. QED
        BY <1>3, <3>1, <4>1, SoundGrows
    <3>4. Asks(p) = {}
      <4>1. PICK from \in Nat : from = Len(port[p].interface.send_queue)
        BY Present
      <4>2. port[p].interface.send_queue \in Seq(Frames(p, card', sent))
        BY <3>3 DEF PortSound, Sound
      <4>3. QED
        BY <3>1, <4>1, <4>2, AsksAreRequests
    <3>5. QED
      BY <3>1, <3>2, <3>3, <3>4, Present
  <2>2. CASE p = h
    <3>1. port'[p] = Attached(p, card'[p])
      BY <1>1, <1>2, <1>3, <2>2 DEF Inv
    <3>2. PICK when : when = [ip \in UInt32 |-> -ARP_REQUEST_TIMEOUT_MS]
      OBVIOUS
    <3>3. /\ PortSound(port'[p], p, card', sent) /\ Paced(port'[p].interface, when, now)
          /\ port'[p].interface.send_queue = <<>>
      BY <1>3, <3>1, <3>2, Present, AttachedIsSound
    <3>4. asked'[p] = when
      BY <1>1, <1>2, <2>2, <3>2 DEF Inv
    <3>5. Asks(p) = {}
      <4>1. PICK from \in Nat : from = Len(port[p].interface.send_queue)
        BY Present
      <4>2. port'[p].interface.send_queue \in Seq({}) /\ Len(port'[p].interface.send_queue) <= from
        BY <3>3, <4>1, EmptySeq
      <4>3. QED
        BY <4>1, <4>2, AsksAreRequests
    <3>6. QED
      BY <3>3, <3>4, <3>5
  <2>3. QED
    BY <2>1, <2>2
<1>6. Tables'
  BY <1>1 DEF Inv, Tables
<1>7. Inv'
  BY <1>1, <1>3, <1>4, <1>5, <1>6 DEF Inv
<1>8. QED
  BY <1>5, <1>7 DEF Apart

LEMMA NextStep ==
  ASSUME Inv, Next
  PROVE  Inv' /\ Apart
BY SendStep, ReceiveStep, RestartStep, TransmitStep, RouteStep, AddRouteStep, TickStep DEF Next

LEMMA NextInv == Inv /\ [Next]_vars => Inv'
<1> SUFFICES ASSUME Inv, [Next]_vars PROVE Inv'
  OBVIOUS
<1>1. CASE Next
  BY <1>1, NextStep
<1>2. CASE UNCHANGED vars
  <2>1. Tables'
    BY <1>2 DEF Inv, Tables, vars
  <2>2. QED
    BY <1>2, <2>1 DEF Inv, vars
<1>3. QED
  BY <1>1, <1>2

(***************************************************************************)
(* Where the copies are: the ids of the datagrams in a queue, in the       *)
(* frames of a queue and in the queues that wait, and that they differ.    *)
(***************************************************************************)
Ids(s) == {s[i].id : i \in DOMAIN s}
Once(s) == \A i, j \in DOMAIN s : s[i].id = s[j].id => i = j

Framed(q) == {i \in DOMAIN q : q[i].type = TYPE_IPv4}
FramedIds(q) == {q[i].payload.id : i \in Framed(q)}
FramedOnce(q) == \A i, j \in Framed(q) : q[i].payload.id = q[j].payload.id => i = j

LEMMA JoinIds ==
  ASSUME NEW S, NEW s \in Seq(S), NEW T, NEW t \in Seq(T)
  PROVE  /\ Ids(s \o t) = Ids(s) \cup Ids(t)
         /\ Once(s) /\ Once(t) /\ Ids(s) \cap Ids(t) = {} => Once(s \o t)
<1>1. PICK a \in Nat, b \in Nat : a = Len(s) /\ b = Len(t)
  BY LenProperties
<1>2. PICK u : u = s \o t
  OBVIOUS
<1>3. DOMAIN s = 1 .. a /\ DOMAIN t = 1 .. b /\ DOMAIN u = 1 .. a + b
      /\ \A i \in 1 .. a + b : u[i] = IF i <= a THEN s[i] ELSE t[i - a]
  <2>1. s \in Seq(S \cup T) /\ t \in Seq(S \cup T)
    BY SeqMonotonic
  <2>2. u \in Seq(S \cup T) /\ Len(u) = a + b
        /\ \A i \in 1 .. a + b : u[i] = IF i <= a THEN s[i] ELSE t[i - a]
    BY <1>1, <1>2, <2>1, ConcatProperties
  <2>3. QED
    BY <1>1, <2>1, <2>2, LenProperties
<1>4. \A i \in 1 .. a : i \in 1 .. a + b /\ u[i] = s[i]
  BY <1>3
<1>5. \A i \in 1 .. b : a + i \in 1 .. a + b /\ u[a + i] = t[i]
  <2>1. SUFFICES ASSUME NEW i \in 1 .. b PROVE a + i \in 1 .. a + b /\ u[a + i] = t[i]
    OBVIOUS
  <2>2. a + i \in 1 .. a + b /\ ~(a + i <= a) /\ (a + i) - a = i
    BY <1>1
  <2>3. QED
    BY <1>3, <2>2
<1>6. \A i \in 1 .. a + b : i \in 1 .. a \/ \E j \in 1 .. b : i = a + j
  <2>1. SUFFICES ASSUME NEW i \in 1 .. a + b, ~(i \in 1 .. a) PROVE \E j \in 1 .. b : i = a + j
    OBVIOUS
  <2>2. i - a \in 1 .. b /\ i = a + (i - a)
    BY <1>1, <2>1
  <2>3. QED
    BY <2>2
<1>7. Ids(u) = Ids(s) \cup Ids(t)
  <2>1. ASSUME NEW i \in 1 .. a + b PROVE u[i].id \in Ids(s) \cup Ids(t)
    <3>1. CASE i \in 1 .. a
      BY <1>3, <1>4, <3>1 DEF Ids
    <3>2. CASE i \notin 1 .. a
      <4>1. PICK j \in 1 .. b : i = a + j
        BY <1>6, <3>2
      <4>2. QED
        BY <1>3, <1>5, <4>1 DEF Ids
    <3>3. QED
      BY <3>1, <3>2
  <2>2. ASSUME NEW i \in 1 .. a PROVE s[i].id \in Ids(u)
    <3>1. i \in DOMAIN u /\ s[i].id = u[i].id
      BY <1>3, <1>4
    <3>2. QED
      BY <3>1 DEF Ids
  <2>3. ASSUME NEW i \in 1 .. b PROVE t[i].id \in Ids(u)
    <3>1. a + i \in DOMAIN u /\ t[i].id = u[a + i].id
      BY <1>3, <1>5
    <3>2. QED
      BY <3>1 DEF Ids
  <2>4. QED
    BY <1>3, <2>1, <2>2, <2>3 DEF Ids
<1>8. ASSUME Once(s), Once(t), Ids(s) \cap Ids(t) = {} PROVE Once(u)
  <2>1. SUFFICES ASSUME NEW i \in 1 .. a + b, NEW j \in 1 .. a + b, u[i].id = u[j].id
                 PROVE  i = j
    BY <1>3 DEF Once
  <2>2. \A k \in 1 .. a, l \in 1 .. b : s[k].id # t[l].id
    BY <1>3, <1>8 DEF Ids
  <2>3. CASE i \in 1 .. a /\ j \in 1 .. a
    BY <1>3, <1>4, <1>8, <2>1, <2>3 DEF Once
  <2>4. CASE i \in 1 .. a /\ j \notin 1 .. a
    <3>1. PICK l \in 1 .. b : j = a + l
      BY <1>6, <2>4
    <3>2. QED
      BY <1>4, <1>5, <2>1, <2>2, <2>4, <3>1
  <2>5. CASE i \notin 1 .. a /\ j \in 1 .. a
    <3>1. PICK k \in 1 .. b : i = a + k
      BY <1>6, <2>5
    <3>2. QED
      BY <1>4, <1>5, <2>1, <2>2, <2>5, <3>1
  <2>6. CASE i \notin 1 .. a /\ j \notin 1 .. a
    <3>1. PICK k \in 1 .. b, l \in 1 .. b : i = a + k /\ j = a + l
      BY <1>6, <2>6
    <3>2. k = l
      <4>1. t[k].id = t[l].id /\ k \in DOMAIN t /\ l \in DOMAIN t
        BY <1>3, <1>5, <2>1, <3>1
      <4>2. QED
        BY <1>8, <4>1 DEF Once
    <3>3. QED
      BY <3>1, <3>2
  <2>7. QED
    BY <2>3, <2>4, <2>5, <2>6
<1>9. QED
  BY <1>2, <1>7, <1>8

LEMMA JoinFrames ==
  ASSUME NEW S, NEW s \in Seq(S), NEW T, NEW t \in Seq(T)
  PROVE  /\ FramedIds(s \o t) = FramedIds(s) \cup FramedIds(t)
         /\ FramedOnce(s) /\ FramedOnce(t) /\ FramedIds(s) \cap FramedIds(t) = {} =>
              FramedOnce(s \o t)
<1>1. PICK a \in Nat, b \in Nat : a = Len(s) /\ b = Len(t)
  BY LenProperties
<1>2. PICK u : u = s \o t
  OBVIOUS
<1>3. DOMAIN s = 1 .. a /\ DOMAIN t = 1 .. b /\ DOMAIN u = 1 .. a + b
      /\ \A i \in 1 .. a + b : u[i] = IF i <= a THEN s[i] ELSE t[i - a]
  <2>1. s \in Seq(S \cup T) /\ t \in Seq(S \cup T)
    BY SeqMonotonic
  <2>2. u \in Seq(S \cup T) /\ Len(u) = a + b
        /\ \A i \in 1 .. a + b : u[i] = IF i <= a THEN s[i] ELSE t[i - a]
    BY <1>1, <1>2, <2>1, ConcatProperties
  <2>3. QED
    BY <1>1, <2>1, <2>2, LenProperties
<1>4. \A i \in 1 .. a : i \in 1 .. a + b /\ u[i] = s[i]
  BY <1>3
<1>5. \A i \in 1 .. b : a + i \in 1 .. a + b /\ u[a + i] = t[i]
  <2>1. SUFFICES ASSUME NEW i \in 1 .. b PROVE a + i \in 1 .. a + b /\ u[a + i] = t[i]
    OBVIOUS
  <2>2. a + i \in 1 .. a + b /\ ~(a + i <= a) /\ (a + i) - a = i
    BY <1>1
  <2>3. QED
    BY <1>3, <2>2
<1>6. \A i \in 1 .. a + b : i \in 1 .. a \/ \E j \in 1 .. b : i = a + j
  <2>1. SUFFICES ASSUME NEW i \in 1 .. a + b, ~(i \in 1 .. a) PROVE \E j \in 1 .. b : i = a + j
    OBVIOUS
  <2>2. i - a \in 1 .. b /\ i = a + (i - a)
    BY <1>1, <2>1
  <2>3. QED
    BY <2>2
<1>7. Framed(s) \subseteq 1 .. a /\ Framed(t) \subseteq 1 .. b /\ Framed(u) \subseteq 1 .. a + b
  BY <1>3 DEF Framed
<1>8. (\A i \in 1 .. a : i \in Framed(u) <=> i \in Framed(s))
      /\ (\A i \in 1 .. b : a + i \in Framed(u) <=> i \in Framed(t))
  BY <1>3, <1>4, <1>5 DEF Framed
<1>9. FramedIds(u) = FramedIds(s) \cup FramedIds(t)
  <2>1. ASSUME NEW i \in Framed(u) PROVE u[i].payload.id \in FramedIds(s) \cup FramedIds(t)
    <3>1. CASE i \in 1 .. a
      BY <1>4, <1>8, <3>1 DEF FramedIds
    <3>2. CASE i \notin 1 .. a
      <4>1. PICK j \in 1 .. b : i = a + j
        BY <1>6, <1>7, <3>2
      <4>2. QED
        BY <1>5, <1>8, <4>1 DEF FramedIds
    <3>3. QED
      BY <3>1, <3>2
  <2>2. ASSUME NEW i \in Framed(s) PROVE s[i].payload.id \in FramedIds(u)
    BY <1>4, <1>7, <1>8 DEF FramedIds
  <2>3. ASSUME NEW i \in Framed(t) PROVE t[i].payload.id \in FramedIds(u)
    BY <1>5, <1>7, <1>8 DEF FramedIds
  <2>4. QED
    BY <2>1, <2>2, <2>3 DEF FramedIds
<1>10. ASSUME FramedOnce(s), FramedOnce(t), FramedIds(s) \cap FramedIds(t) = {}
       PROVE  FramedOnce(u)
  <2>1. SUFFICES ASSUME NEW i \in Framed(u), NEW j \in Framed(u), u[i].payload.id = u[j].payload.id
                 PROVE  i = j
    BY DEF FramedOnce
  <2>2. \A k \in Framed(s), l \in Framed(t) : s[k].payload.id # t[l].payload.id
    BY <1>10 DEF FramedIds
  <2>3. i \in 1 .. a + b /\ j \in 1 .. a + b
    BY <1>7
  <2>4. CASE i \in 1 .. a /\ j \in 1 .. a
    BY <1>4, <1>8, <1>10, <2>1, <2>4 DEF FramedOnce
  <2>5. CASE i \in 1 .. a /\ j \notin 1 .. a
    <3>1. PICK l \in 1 .. b : j = a + l
      BY <1>6, <2>3, <2>5
    <3>2. i \in Framed(s) /\ l \in Framed(t) /\ u[i] = s[i] /\ u[j] = t[l]
      BY <1>4, <1>5, <1>8, <2>5, <3>1
    <3>3. QED
      BY <2>1, <2>2, <3>2
  <2>6. CASE i \notin 1 .. a /\ j \in 1 .. a
    <3>1. PICK k \in 1 .. b : i = a + k
      BY <1>6, <2>3, <2>6
    <3>2. j \in Framed(s) /\ k \in Framed(t) /\ u[j] = s[j] /\ u[i] = t[k]
      BY <1>4, <1>5, <1>8, <2>6, <3>1
    <3>3. QED
      BY <2>1, <2>2, <3>2
  <2>7. CASE i \notin 1 .. a /\ j \notin 1 .. a
    <3>1. PICK k \in 1 .. b, l \in 1 .. b : i = a + k /\ j = a + l
      BY <1>6, <2>3, <2>7
    <3>2. k \in Framed(t) /\ l \in Framed(t) /\ u[i] = t[k] /\ u[j] = t[l]
      BY <1>5, <1>8, <3>1
    <3>3. QED
      BY <1>10, <2>1, <3>1, <3>2 DEF FramedOnce
  <2>8. QED
    BY <2>4, <2>5, <2>6, <2>7
<1>11. QED
  BY <1>2, <1>9, <1>10

\* What leaves a queue is no longer in it.
LEMMA TailIds ==
  ASSUME NEW S, NEW s \in Seq(S), s # <<>>, Once(s)
  PROVE  /\ Once(Tail(s)) /\ Ids(Tail(s)) \subseteq Ids(s)
         /\ Head(s).id \in Ids(s) /\ Head(s).id \notin Ids(Tail(s))
<1>1. PICK a \in Nat : a = Len(s) /\ a # 0
  BY LenProperties, EmptySeq
<1>2. PICK t : t = Tail(s)
  OBVIOUS
<1>3. DOMAIN s = 1 .. a /\ DOMAIN t = 1 .. a - 1 /\ Head(s) = s[1]
      /\ \A i \in 1 .. a - 1 : t[i] = s[i + 1]
  <2>1. t \in Seq(S) /\ Len(t) = a - 1 /\ \A i \in 1 .. Len(t) : t[i] = s[i + 1]
    BY <1>1, <1>2, HeadTailProperties
  <2>2. QED
    BY <1>1, <2>1, LenProperties
<1>4. \A i \in 1 .. a - 1 : i + 1 \in 1 .. a /\ i + 1 # 1
  BY <1>1
<1>5. 1 \in 1 .. a
  BY <1>1
<1>6. Once(t)
  <2>1. SUFFICES ASSUME NEW i \in 1 .. a - 1, NEW j \in 1 .. a - 1, t[i].id = t[j].id PROVE i = j
    BY <1>3 DEF Once
  <2>2. i + 1 = j + 1
    <3>1. s[i + 1].id = s[j + 1].id /\ i + 1 \in DOMAIN s /\ j + 1 \in DOMAIN s
      BY <1>3, <1>4, <2>1
    <3>2. QED
      BY <3>1 DEF Once
  <2>3. QED
    BY <2>2
<1>7. Ids(t) \subseteq Ids(s)
  BY <1>3, <1>4 DEF Ids
<1>8. Head(s).id \in Ids(s)
  BY <1>3, <1>5 DEF Ids
<1>9. Head(s).id \notin Ids(t)
  <2>1. SUFFICES ASSUME NEW i \in 1 .. a - 1, s[i + 1].id = s[1].id PROVE FALSE
    BY <1>3 DEF Ids
  <2>2. i + 1 \in DOMAIN s /\ 1 \in DOMAIN s /\ i + 1 # 1
    BY <1>3, <1>4, <1>5
  <2>3. QED
    BY <2>1, <2>2 DEF Once
<1>10. QED
  BY <1>2, <1>6, <1>7, <1>8, <1>9

LEMMA TailFrames ==
  ASSUME NEW S, NEW s \in Seq(S), s # <<>>, FramedOnce(s)
  PROVE  /\ FramedOnce(Tail(s)) /\ FramedIds(Tail(s)) \subseteq FramedIds(s)
         /\ Head(s).type = TYPE_IPv4 =>
              Head(s).payload.id \in FramedIds(s) /\ Head(s).payload.id \notin FramedIds(Tail(s))
<1>1. PICK a \in Nat : a = Len(s) /\ a # 0
  BY LenProperties, EmptySeq
<1>2. PICK t : t = Tail(s)
  OBVIOUS
<1>3. DOMAIN s = 1 .. a /\ DOMAIN t = 1 .. a - 1 /\ Head(s) = s[1]
      /\ \A i \in 1 .. a - 1 : t[i] = s[i + 1]
  <2>1. t \in Seq(S) /\ Len(t) = a - 1 /\ \A i \in 1 .. Len(t) : t[i] = s[i + 1]
    BY <1>1, <1>2, HeadTailProperties
  <2>2. QED
    BY <1>1, <2>1, LenProperties
<1>4. \A i \in 1 .. a - 1 : i + 1 \in 1 .. a /\ i + 1 # 1
  BY <1>1
<1>5. \A i \in Framed(t) : i \in 1 .. a - 1 /\ i + 1 \in Framed(s) /\ t[i] = s[i + 1]
  BY <1>3, <1>4 DEF Framed
<1>6. FramedOnce(t)
  <2>1. SUFFICES ASSUME NEW i \in Framed(t), NEW j \in Framed(t),
                        t[i].payload.id = t[j].payload.id
                 PROVE  i = j
    BY DEF FramedOnce
  <2>2. i + 1 = j + 1
    BY <1>5, <2>1 DEF FramedOnce
  <2>3. i \in Nat /\ j \in Nat
    BY <1>5
  <2>4. QED
    BY <2>2, <2>3
<1>7. FramedIds(t) \subseteq FramedIds(s)
  BY <1>5 DEF FramedIds
<1>8. ASSUME Head(s).type = TYPE_IPv4
      PROVE  Head(s).payload.id \in FramedIds(s) /\ Head(s).payload.id \notin FramedIds(t)
  <2>1. 1 \in Framed(s) /\ Head(s) = s[1]
    BY <1>1, <1>3, <1>8 DEF Framed
  <2>2. \A i \in Framed(t) : i + 1 # 1
    BY <1>4, <1>5
  <2>3. QED
    BY <1>5, <2>1, <2>2 DEF FramedIds, FramedOnce
<1>9. QED
  BY <1>2, <1>6, <1>7, <1>8

LEMMA OneFrame ==
  ASSUME NEW F, NEW f \in F
  PROVE  /\ <<f>> \in Seq(F) /\ FramedOnce(<<f>>)
         /\ FramedIds(<<f>>) = IF f.type = TYPE_IPv4 THEN {f.payload.id} ELSE {}
<1>1. PICK s : s = <<f>>
  OBVIOUS
<1>2. s \in Seq(F) /\ DOMAIN s = 1 .. 1 /\ s[1] = f
  BY <1>1
<1>3. \A i : i \in Framed(s) <=> i = 1 /\ f.type = TYPE_IPv4
  BY <1>2 DEF Framed
<1>4. FramedOnce(s)
  BY <1>3 DEF FramedOnce
<1>5. FramedIds(s) = IF f.type = TYPE_IPv4 THEN {f.payload.id} ELSE {}
  BY <1>2, <1>3 DEF FramedIds
<1>6. QED
  BY <1>1, <1>2, <1>4, <1>5

LEMMA AppendIds ==
  ASSUME NEW S, NEW s \in Seq(S), NEW d
  PROVE  /\ Ids(Append(s, d)) = Ids(s) \cup {d.id}
         /\ Once(s) /\ d.id \notin Ids(s) => Once(Append(s, d))
<1>1. PICK t : t = <<d>>
  OBVIOUS
<1>2. t \in Seq({d}) /\ DOMAIN t = 1 .. 1 /\ t[1] = d
  BY <1>1
<1>3. Ids(t) = {d.id} /\ Once(t)
  BY <1>2 DEF Ids, Once
<1>4. Append(s, d) = s \o t
  <2>1. s \in Seq(S \cup {d}) /\ d \in S \cup {d}
    BY SeqMonotonic
  <2>2. QED
    BY <1>1, <2>1, AppendIsConcat
<1>5. Ids(s \o t) = Ids(s) \cup Ids(t)
      /\ (Once(s) /\ Once(t) /\ Ids(s) \cap Ids(t) = {} => Once(s \o t))
  BY <1>2, JoinIds
<1>6. QED
  BY <1>3, <1>4, <1>5

(***************************************************************************)
(* The ids an interface holds, and what an operation that brings those in  *)
(* X into it must leave.                                                   *)
(***************************************************************************)
WaitingIds(cache) == UNION {Ids(cache[ip]) : ip \in DOMAIN cache}
WaitingOnce(cache) ==
  /\ \A ip \in DOMAIN cache : Once(cache[ip])
  /\ \A ip, other \in DOMAIN cache : ip # other => Ids(cache[ip]) \cap Ids(cache[other]) = {}

InterfaceIds(n) == FramedIds(n.send_queue) \cup WaitingIds(n.datagram_cache)
InterfaceOnce(n) ==
  /\ FramedOnce(n.send_queue) /\ WaitingOnce(n.datagram_cache)
  /\ FramedIds(n.send_queue) \cap WaitingIds(n.datagram_cache) = {}

QueuesCarry(n, m, X) ==
  /\ InterfaceIds(m) \subseteq InterfaceIds(n) \cup X
  /\ InterfaceOnce(n) /\ InterfaceIds(n) \cap X = {} => InterfaceOnce(m)

LEMMA QueueCarries ==
  ASSUME NEW F, NEW n, n.send_queue \in Seq(F), NEW frame,
         NEW m, m.datagram_cache = n.datagram_cache, m.send_queue = Append(n.send_queue, frame)
  PROVE  QueuesCarry(n, m, IF frame.type = TYPE_IPv4 THEN {frame.payload.id} ELSE {})
<1>1. PICK q, t, X : /\ q = n.send_queue /\ t = <<frame>>
                     /\ X = IF frame.type = TYPE_IPv4 THEN {frame.payload.id} ELSE {}
  OBVIOUS
<1>2. t \in Seq({frame}) /\ FramedOnce(t) /\ FramedIds(t) = X
  BY <1>1, OneFrame
<1>3. m.send_queue = q \o t
  <2>1. q \in Seq(F \cup {frame}) /\ frame \in F \cup {frame}
    BY <1>1, SeqMonotonic
  <2>2. QED
    BY <1>1, <2>1, AppendIsConcat
<1>4. FramedIds(q \o t) = FramedIds(q) \cup X
      /\ (FramedOnce(q) /\ FramedIds(q) \cap X = {} => FramedOnce(q \o t))
  <2>1. q \in Seq(F)
    BY <1>1
  <2>2. FramedIds(q \o t) = FramedIds(q) \cup FramedIds(t)
        /\ (FramedOnce(q) /\ FramedOnce(t) /\ FramedIds(q) \cap FramedIds(t) = {} =>
              FramedOnce(q \o t))
    BY <1>2, <2>1, JoinFrames
  <2>3. QED
    BY <1>2, <2>2
<1>5. InterfaceIds(m) \subseteq InterfaceIds(n) \cup X
  BY <1>1, <1>3, <1>4 DEF InterfaceIds
<1>6. ASSUME InterfaceOnce(n), InterfaceIds(n) \cap X = {} PROVE InterfaceOnce(m)
  BY <1>1, <1>3, <1>4, <1>6 DEF InterfaceOnce, InterfaceIds
<1>7. QED
  BY <1>1, <1>5, <1>6 DEF QueuesCarry

\* The datagrams that wait when d waits with them.
WaitsToo(cache, ip, d) ==
  Assigned(cache, ip, Append(IF ip \in DOMAIN cache THEN cache[ip] ELSE <<>>, d))

Queues(cache) == \A a \in DOMAIN cache : \E S : cache[a] \in Seq(S)

LEMMA WaitingCarries ==
  ASSUME NEW cache, Queues(cache), NEW ip, NEW d, NEW more, more = WaitsToo(cache, ip, d)
  PROVE  /\ WaitingIds(more) = WaitingIds(cache) \cup {d.id}
         /\ WaitingOnce(cache) /\ d.id \notin WaitingIds(cache) => WaitingOnce(more)
<1>1. PICK s : s = IF ip \in DOMAIN cache THEN cache[ip] ELSE <<>>
  OBVIOUS
<1>2. PICK S : s \in Seq(S)
  BY <1>1, EmptySeq DEF Queues
<1>3. DOMAIN more = DOMAIN cache \cup {ip} /\ more[ip] = Append(s, d)
      /\ \A a \in DOMAIN cache : a # ip => more[a] = cache[a]
  BY <1>1 DEF Assigned, WaitsToo
<1>4. Ids(more[ip]) = Ids(s) \cup {d.id} /\ (Once(s) /\ d.id \notin Ids(s) => Once(more[ip]))
  <2>1. /\ Ids(Append(s, d)) = Ids(s) \cup {d.id}
        /\ Once(s) /\ d.id \notin Ids(s) => Once(Append(s, d))
    BY <1>2, AppendIds
  <2>2. QED
    BY <1>3, <2>1
<1>5. ip \in DOMAIN cache => s = cache[ip]
  BY <1>1
<1>6. ip \notin DOMAIN cache => Ids(s) = {} /\ Once(s)
  BY <1>1 DEF Ids, Once
<1>7. WaitingIds(more) = WaitingIds(cache) \cup {d.id}
  <2>1. ASSUME NEW id \in WaitingIds(more) PROVE id \in WaitingIds(cache) \cup {d.id}
    <3>1. PICK a \in DOMAIN more : id \in Ids(more[a])
      BY <2>1 DEF WaitingIds
    <3>2. CASE a = ip
      BY <1>4, <1>5, <1>6, <3>1, <3>2 DEF WaitingIds
    <3>3. CASE a # ip
      BY <1>3, <3>1, <3>3 DEF WaitingIds
    <3>4. QED
      BY <3>2, <3>3
  <2>2. ASSUME NEW id \in WaitingIds(cache) PROVE id \in WaitingIds(more)
    <3>1. PICK a \in DOMAIN cache : id \in Ids(cache[a])
      BY <2>2 DEF WaitingIds
    <3>2. a \in DOMAIN more /\ id \in Ids(more[a])
      BY <1>3, <1>4, <1>5, <3>1
    <3>3. QED
      BY <3>2 DEF WaitingIds
  <2>3. d.id \in WaitingIds(more)
    BY <1>3, <1>4 DEF WaitingIds
  <2>4. QED
    BY <2>1, <2>2, <2>3
<1>8. ASSUME WaitingOnce(cache), d.id \notin WaitingIds(cache) PROVE WaitingOnce(more)
  <2>1. \A a \in DOMAIN cache : d.id \notin Ids(cache[a])
    BY <1>8 DEF WaitingIds
  <2>2. \A a, b \in DOMAIN cache : a # b => Ids(cache[a]) \cap Ids(cache[b]) = {}
    BY <1>8 DEF WaitingOnce
  <2>3. Once(more[ip])
    BY <1>4, <1>5, <1>6, <1>8, <2>1 DEF WaitingOnce
  <2>4. ASSUME NEW a \in DOMAIN more PROVE Once(more[a])
    BY <1>3, <1>8, <2>3 DEF WaitingOnce
  <2>5. ASSUME NEW a \in DOMAIN cache, a # ip PROVE Ids(more[ip]) \cap Ids(more[a]) = {}
    <3>1. Ids(s) \cap Ids(cache[a]) = {}
      BY <1>5, <1>6, <2>2, <2>5
    <3>2. QED
      BY <1>3, <1>4, <2>1, <2>5, <3>1
  <2>6. ASSUME NEW a \in DOMAIN more, NEW b \in DOMAIN more, a # b
        PROVE  Ids(more[a]) \cap Ids(more[b]) = {}
    <3>1. CASE a = ip
      BY <1>3, <2>5, <2>6, <3>1
    <3>2. CASE b = ip
      BY <1>3, <2>5, <2>6, <3>2
    <3>3. CASE a # ip /\ b # ip
      BY <1>3, <2>2, <2>6, <3>3
    <3>4. QED
      BY <3>1, <3>2, <3>3
  <2>7. QED
    BY <2>4, <2>6 DEF WaitingOnce
<1>9. QED
  BY <1>7, <1>8

LEMMA QueuedCarries ==
  ASSUME NEW n, NEW p, NEW c, NEW D, Sound(n, p, c, D), NEW frame
  PROVE  QueuesCarry(n, Queued(n, frame), IF frame.type = TYPE_IPv4 THEN {frame.payload.id} ELSE {})
<1>1. PICK m : m = Queued(n, frame)
  OBVIOUS
<1>2. m.datagram_cache = n.datagram_cache /\ m.send_queue = Append(n.send_queue, frame)
  <2>1. DOMAIN n = Fields
    BY DEF Sound
  <2>2. QED
    BY <1>1, <2>1 DEF Queued, Fields
<1>3. n.send_queue \in Seq(Frames(p, c, D))
  BY DEF Sound
<1>4. QueuesCarry(n, m, IF frame.type = TYPE_IPv4 THEN {frame.payload.id} ELSE {})
  BY <1>2, <1>3, QueueCarries
<1>5. QED
  BY <1>1, <1>4

LEMMA SendCarries ==
  ASSUME NEW n, NEW p \in Ports, NEW c \in Cards, NEW D, Sound(n, p, c, D),
         NEW hop \in UInt32, NEW dgram \in Bound(D, hop)
  PROVE  QueuesCarry(n, send_datagram(n, dgram, hop), {dgram.id})
<1>1. CASE Known(n, hop)
  <2>1. PICK dst : dst = ethernet_address_of(n, hop)
    OBVIOUS
  <2>2. PICK frame : /\ frame.type = TYPE_IPv4 /\ frame.payload = dgram
                     /\ push_datagram(n, dgram, dst) = Queued(n, frame)
    BY <1>1, <2>1, PushIsSound
  <2>3. QueuesCarry(n, Queued(n, frame), {dgram.id})
    BY <2>2, QueuedCarries
  <2>4. QED
    BY <1>1, <2>1, <2>2, <2>3 DEF send_datagram
<1>2. CASE ~Known(n, hop) /\ request_is_pending(n, hop)
  <2>1. QueuesCarry(n, n, {dgram.id})
    BY DEF QueuesCarry
  <2>2. QED
    BY <1>2, <2>1 DEF send_datagram
<1>3. CASE ~Known(n, hop) /\ ~request_is_pending(n, hop)
  <2>1. PICK frame : /\ IsRequest(frame)
                     /\ wait(push_arp_request(n, hop), dgram, hop) = Asked(n, hop, dgram, frame)
    BY <1>3, RequestFields
  <2>2. frame.type # TYPE_IPv4
    BY <2>1 DEF IsRequest, TYPE_ARP, TYPE_IPv4
  <2>3. PICK k : k = Queued(n, frame)
    OBVIOUS
  <2>4. QueuesCarry(n, k, {}) /\ k.datagram_cache = n.datagram_cache
    <3>1. QueuesCarry(n, k, {})
      BY <2>2, <2>3, QueuedCarries
    <3>2. DOMAIN n = Fields
      BY DEF Sound
    <3>3. QED
      BY <2>3, <3>1, <3>2 DEF Queued, Fields
  <2>5. PICK cache, more : cache = n.datagram_cache /\ more = WaitsToo(cache, hop, dgram)
    OBVIOUS
  <2>6. Queues(cache)
    BY <2>5 DEF Sound, CacheSound, Queues
  <2>7. /\ WaitingIds(more) = WaitingIds(cache) \cup {dgram.id}
        /\ WaitingOnce(cache) /\ dgram.id \notin WaitingIds(cache) => WaitingOnce(more)
    BY <2>5, <2>6, WaitingCarries
  <2>8. PICK m : m = Asked(n, hop, dgram, frame)
    OBVIOUS
  <2>9. m.send_queue = k.send_queue /\ m.datagram_cache = more
    BY <2>3, <2>5, <2>8 DEF Asked, WaitsToo
  <2>10. InterfaceIds(m) = InterfaceIds(k) \cup {dgram.id}
    BY <2>4, <2>5, <2>7, <2>9 DEF InterfaceIds
  <2>11. InterfaceOnce(k) /\ dgram.id \notin InterfaceIds(k) => InterfaceOnce(m)
    BY <2>4, <2>5, <2>7, <2>9 DEF InterfaceIds, InterfaceOnce
  <2>12. QueuesCarry(n, m, {dgram.id})
    BY <2>4, <2>10, <2>11 DEF QueuesCarry
  <2>13. QED
    BY <1>3, <2>1, <2>8, <2>12 DEF send_datagram
<1>4. QED
  BY <1>1, <1>2, <1>3

LEMMA LearnedCarries ==
  ASSUME NEW n, NEW p, NEW c, NEW D, Sound(n, p, c, D), NEW ip, NEW address
  PROVE  QueuesCarry(n, send_waiting(learn(n, ip, address), ip, address), {})
<1>1. PICK k : k = send_waiting(learn(n, ip, address), ip, address)
  OBVIOUS
<1>2. Learns(n, D, ip, address, k)
  BY <1>1, LearnedFields
<1>3. PICK frames \in Seq(Bound(D, ip)) : \E m :
        /\ frames = Waiting(n, ip) /\ k = Learned(n, ip, address, frames, m)
        /\ IsFunction(m) /\ DOMAIN m = DOMAIN n.datagram_cache \ {ip}
        /\ \A a \in DOMAIN m : m[a] = n.datagram_cache[a]
  BY <1>2 DEF Learns
<1>4. PICK m :
        /\ frames = Waiting(n, ip) /\ k = Learned(n, ip, address, frames, m)
        /\ IsFunction(m) /\ DOMAIN m = DOMAIN n.datagram_cache \ {ip}
        /\ \A a \in DOMAIN m : m[a] = n.datagram_cache[a]
  BY <1>3
<1>5. PICK q, cache : q = n.send_queue /\ cache = n.datagram_cache
  OBVIOUS
<1>6. PICK more :
        more = [i \in DOMAIN frames |-> [type |-> TYPE_IPv4, payload |-> frames[i],
                                         dst |-> address, src |-> n.ethernet_address_]]
  OBVIOUS
<1>7. k.send_queue = q \o more /\ k.datagram_cache = m
  BY <1>4, <1>5, <1>6 DEF Learned
<1>8. PICK S : more \in Seq(S)
  <2>1. PICK b \in Nat : DOMAIN frames = 1 .. b
    BY LenProperties
  <2>2. PICK S : S = {more[i] : i \in 1 .. b}
    OBVIOUS
  <2>3. more \in [1 .. b -> S]
    BY <1>6, <2>1, <2>2
  <2>4. more \in Seq(S)
    BY <2>3, SeqDef
  <2>5. QED
    BY <2>4
<1>9. Framed(more) = DOMAIN frames /\ \A i \in DOMAIN frames : more[i].payload = frames[i]
  BY <1>6 DEF Framed
<1>10. FramedIds(more) = Ids(frames) /\ (Once(frames) => FramedOnce(more))
  BY <1>9 DEF FramedIds, Ids, Once, FramedOnce
<1>11. /\ FramedIds(q \o more) = FramedIds(q) \cup FramedIds(more)
       /\ FramedOnce(q) /\ FramedOnce(more) /\ FramedIds(q) \cap FramedIds(more) = {} =>
            FramedOnce(q \o more)
  <2>1. q \in Seq(Frames(p, c, D))
    BY <1>5 DEF Sound
  <2>2. QED
    BY <1>8, <2>1, JoinFrames
<1>12. ip \in DOMAIN cache => frames = cache[ip]
  BY <1>4, <1>5 DEF Waiting
<1>13. ip \notin DOMAIN cache => Ids(frames) = {} /\ Once(frames)
  BY <1>4, <1>5 DEF Waiting, Ids, Once
<1>14. DOMAIN m = DOMAIN cache \ {ip} /\ \A a \in DOMAIN m : m[a] = cache[a]
  BY <1>4, <1>5
<1>15. WaitingIds(cache) = WaitingIds(m) \cup Ids(frames)
  <2>1. ASSUME NEW id \in WaitingIds(cache) PROVE id \in WaitingIds(m) \cup Ids(frames)
    <3>1. PICK a \in DOMAIN cache : id \in Ids(cache[a])
      BY <2>1 DEF WaitingIds
    <3>2. CASE a = ip
      BY <1>12, <3>1, <3>2
    <3>3. CASE a # ip
      BY <1>14, <3>1, <3>3 DEF WaitingIds
    <3>4. QED
      BY <3>2, <3>3
  <2>2. WaitingIds(m) \subseteq WaitingIds(cache)
    BY <1>14 DEF WaitingIds
  <2>3. Ids(frames) \subseteq WaitingIds(cache)
    BY <1>12, <1>13 DEF WaitingIds
  <2>4. QED
    BY <2>1, <2>2, <2>3
<1>16. ASSUME WaitingOnce(cache)
       PROVE  WaitingOnce(m) /\ Once(frames) /\ WaitingIds(m) \cap Ids(frames) = {}
  <2>1. WaitingOnce(m)
    BY <1>14, <1>16 DEF WaitingOnce
  <2>2. Once(frames)
    BY <1>12, <1>13, <1>16 DEF WaitingOnce
  <2>3. WaitingIds(m) \cap Ids(frames) = {}
    <3>1. SUFFICES ASSUME NEW id \in Ids(frames), NEW a \in DOMAIN m, id \in Ids(m[a]) PROVE FALSE
      BY DEF WaitingIds
    <3>2. ip \in DOMAIN cache /\ frames = cache[ip] /\ a # ip /\ a \in DOMAIN cache
          /\ m[a] = cache[a]
      BY <1>12, <1>13, <1>14, <3>1
    <3>3. QED
      BY <1>16, <3>1, <3>2 DEF WaitingOnce
  <2>4. QED
    BY <2>1, <2>2, <2>3
<1>17. InterfaceIds(k) = InterfaceIds(n)
  BY <1>5, <1>7, <1>10, <1>11, <1>15 DEF InterfaceIds
<1>18. ASSUME InterfaceOnce(n) PROVE InterfaceOnce(k)
  <2>1. FramedOnce(q) /\ WaitingOnce(cache) /\ FramedIds(q) \cap WaitingIds(cache) = {}
    BY <1>5, <1>18 DEF InterfaceOnce
  <2>2. FramedOnce(q \o more)
    BY <1>10, <1>11, <1>15, <1>16, <2>1
  <2>3. FramedIds(q \o more) \cap WaitingIds(m) = {}
    BY <1>10, <1>11, <1>15, <1>16, <2>1
  <2>4. QED
    BY <1>7, <1>16, <2>1, <2>2, <2>3 DEF InterfaceOnce
<1>19. QED
  BY <1>1, <1>17, <1>18 DEF QueuesCarry

LEMMA HeardCarries ==
  ASSUME NEW c \in Cards, NEW D, NEW p \in Ports, NEW q \in Ports, p # q,
         NEW frame \in Frames(p, c, D), NEW n, Sound(n, q, c, D)
  PROVE  QueuesCarry(n, recv_frame(n, frame), {})
<1>1. CASE ~(is_addressed(n, frame) /\ frame.type = TYPE_ARP)
  BY <1>1 DEF recv_frame, QueuesCarry
<1>2. CASE is_addressed(n, frame) /\ frame.type = TYPE_ARP
  <2>1. PICK message : message = frame.payload
    OBVIOUS
  <2>2. PICK ip, address : ip = message.sender_ip_address
                           /\ address = message.sender_ethernet_address
    OBVIOUS
  <2>3. frame.dst \in {EthernetAddress(q, c[q]), ETHERNET_BROADCAST}
    BY <1>2 DEF is_addressed, Sound
  <2>4. /\ ip \in IPAddresses \ {IP[q]} /\ address \in Owned(c, ip)
        /\ message.opcode = OPCODE_REQUEST => message.target_ip_address # ip
    BY <1>2, <2>1, <2>2, <2>3, Heard
  <2>5. PICK k : k = send_waiting(learn(n, ip, address), ip, address)
    OBVIOUS
  <2>6. Sound(k, q, c, D) /\ Known(k, ip) /\ QueuesCarry(n, k, {})
    BY <2>4, <2>5, LearnedIsSound, LearnedCarries
  <2>7. recv_frame(n, frame) = answer(k, message)
    BY <1>2, <2>1, <2>2, <2>5 DEF recv_frame, handle_arp
  <2>8. \/ answer(k, message) = k
        \/ \E f : f.type = TYPE_ARP /\ answer(k, message) = Queued(k, f)
    BY <2>2, <2>4, <2>6, AnswerIsSound
  <2>9. QueuesCarry(k, answer(k, message), {})
    <3>1. CASE answer(k, message) = k
      BY <3>1 DEF QueuesCarry
    <3>2. CASE \E f : f.type = TYPE_ARP /\ answer(k, message) = Queued(k, f)
      <4>1. PICK f : f.type = TYPE_ARP /\ answer(k, message) = Queued(k, f)
        BY <3>2
      <4>2. f.type # TYPE_IPv4
        BY <4>1 DEF TYPE_ARP, TYPE_IPv4
      <4>3. QueuesCarry(k, Queued(k, f), {})
        BY <2>6, <4>2, QueuedCarries
      <4>4. QED
        BY <4>1, <4>3
    <3>3. QED
      BY <2>8, <3>1, <3>2
  <2>10. QED
    BY <2>6, <2>7, <2>9 DEF QueuesCarry
<1>3. QED
  BY <1>1, <1>2

(***************************************************************************)
(* The ids a port holds, and what its operations do with them.             *)
(***************************************************************************)
PortIds(a) == InterfaceIds(a.interface) \cup Ids(a.datagrams_in_)
PortOnce(a) ==
  /\ InterfaceOnce(a.interface) /\ Once(a.datagrams_in_)
  /\ InterfaceIds(a.interface) \cap Ids(a.datagrams_in_) = {}

\* b is a with at most the ids in X brought in.
PortCarries(a, b, X) ==
  /\ PortIds(b) \subseteq PortIds(a) \cup X
  /\ PortOnce(a) /\ PortIds(a) \cap X = {} => PortOnce(b)

LEMMA InterfaceCarries ==
  ASSUME NEW a, NEW b, NEW X, QueuesCarry(a.interface, b.interface, X),
         b.datagrams_in_ = a.datagrams_in_
  PROVE  PortCarries(a, b, X)
<1>1. PICK n, m, I : n = a.interface /\ m = b.interface /\ I = Ids(a.datagrams_in_)
  OBVIOUS
<1>2. /\ InterfaceIds(m) \subseteq InterfaceIds(n) \cup X
      /\ InterfaceOnce(n) /\ InterfaceIds(n) \cap X = {} => InterfaceOnce(m)
  BY <1>1 DEF QueuesCarry
<1>3. PortIds(b) \subseteq PortIds(a) \cup X
  BY <1>1, <1>2 DEF PortIds
<1>4. ASSUME PortOnce(a), PortIds(a) \cap X = {} PROVE PortOnce(b)
  <2>1. InterfaceOnce(n) /\ Once(a.datagrams_in_) /\ InterfaceIds(n) \cap I = {}
    BY <1>1, <1>4 DEF PortOnce
  <2>2. InterfaceIds(n) \cap X = {} /\ I \cap X = {}
    BY <1>1, <1>4 DEF PortIds
  <2>3. InterfaceOnce(m) /\ InterfaceIds(m) \cap I = {}
    BY <1>2, <2>1, <2>2
  <2>4. QED
    BY <1>1, <2>1, <2>3 DEF PortOnce
<1>5. QED
  BY <1>3, <1>4 DEF PortCarries

LEMMA OneToSeq ==
  ASSUME NEW d
  PROVE  SetToSeq({d}) = <<d>>
<1>1. PICK S : S = {d}
  OBVIOUS
<1>2. Cardinality(S) = 1
  BY <1>1, FS_Singleton
<1>3. PICK f : f = [i \in 1 .. 1 |-> d]
  OBVIOUS
<1>4. f \in [1 .. 1 -> S] /\ IsInjective(f)
  BY <1>1, <1>3 DEF IsInjective
<1>5. SetToSeq(S) \in [1 .. 1 -> S]
  BY <1>2, <1>4 DEF SetToSeq
<1>6. PICK s : s = SetToSeq(S)
  OBVIOUS
<1>7. s \in [1 .. 1 -> {d}]
  BY <1>1, <1>5, <1>6
<1>8. s = <<d>>
  BY <1>7
<1>9. QED
  BY <1>1, <1>6, <1>8

\* A datagram that the frame brings is taken by the port it is for.
Brought(p, c, frame) ==
  IF frame.dst = EthernetAddress(p, c[p]) /\ frame.type = TYPE_IPv4 THEN {frame.payload.id} ELSE {}

LEMMA HearingCarries ==
  ASSUME NEW c \in Cards, NEW D, NEW p \in Ports, NEW q \in Ports, p # q,
         NEW frame \in Frames(p, c, D), NEW a, PortSound(a, q, c, D)
  PROVE  PortCarries(a, async_recv_frame(a, frame), Brought(q, c, frame))
<1>1. PICK n, in : n = a.interface /\ in = a.datagrams_in_
  OBVIOUS
<1>2. Sound(n, q, c, D) /\ in \in Seq(Bound(D, IP[q]))
  BY <1>1 DEF PortSound
<1>3. QueuesCarry(n, recv_frame(n, frame), {})
  BY <1>2, HeardCarries
<1>4. PICK S : S = received_datagram(n, frame)
  OBVIOUS
<1>5. PICK b : b = async_recv_frame(a, frame)
  OBVIOUS
<1>6. b = [interface |-> recv_frame(n, frame), datagrams_in_ |-> in \o SetToSeq(S)]
  BY <1>1, <1>4, <1>5 DEF async_recv_frame
<1>7. CASE S = {}
  <2>1. SetToSeq(S) \in Seq({})
    BY <1>7, FewToSeq
  <2>2. SetToSeq(S) = <<>>
    <3>1. PICK s : s = SetToSeq(S)
      OBVIOUS
    <3>2. s \in Seq({}) => s = <<>>
      <4>1. SUFFICES ASSUME s \in Seq({}) PROVE Len(s) = 0
        BY EmptySeq
      <4>2. Len(s) \in Nat /\ \A i \in 1 .. Len(s) : s[i] \in {}
        BY <4>1, LenProperties, ElementOfSeq
      <4>3. Len(s) # 0 => 1 \in 1 .. Len(s)
        BY <4>2
      <4>4. QED
        BY <4>2, <4>3
    <3>3. QED
      BY <2>1, <3>1, <3>2
  <2>3. b.datagrams_in_ = in /\ b.interface = recv_frame(n, frame)
    BY <1>2, <1>6, <2>2, ConcatEmptySeq
  <2>4. PortCarries(a, b, {})
    BY <1>1, <1>3, <2>3, InterfaceCarries
  <2>5. QED
    BY <1>5, <2>4 DEF PortCarries
<1>8. CASE S # {}
  <2>1. is_addressed(n, frame) /\ frame.type = TYPE_IPv4 /\ S = {frame.payload}
    BY <1>4, <1>8 DEF received_datagram
  <2>2. PICK ip \in IPAddresses : frame.dst \in Owned(c, ip)
    BY <2>1, FrameCases DEF TYPE_IPv4, TYPE_ARP
  <2>3. frame.dst = EthernetAddress(q, c[q])
    BY <1>2, <2>1, <2>2, OwnedProperties DEF is_addressed, Sound
  <2>4. Brought(q, c, frame) = {frame.payload.id}
    BY <2>1, <2>3 DEF Brought
  <2>5. SetToSeq(S) = <<frame.payload>>
    BY <2>1, OneToSeq
  <2>6. PICK id, I : id = frame.payload.id /\ I = Ids(in)
    OBVIOUS
  <2>7. in \o <<frame.payload>> = Append(in, frame.payload)
    <3>1. PICK T, d : T = Bound(D, IP[q]) \cup {d} /\ d = frame.payload
      OBVIOUS
    <3>2. in \in Seq(T) /\ d \in T
      BY <1>2, <3>1, SeqMonotonic
    <3>3. QED
      BY <3>1, <3>2, AppendIsConcat
  <2>8. Ids(Append(in, frame.payload)) = I \cup {id}
        /\ (Once(in) /\ id \notin I => Once(Append(in, frame.payload)))
    BY <1>2, <2>6, AppendIds
  <2>9. PICK m, more : m = recv_frame(n, frame) /\ more = Append(in, frame.payload)
    OBVIOUS
  <2>10. b.interface = m /\ b.datagrams_in_ = more
    BY <1>6, <2>5, <2>7, <2>9
  <2>11. /\ InterfaceIds(m) \subseteq InterfaceIds(n)
         /\ InterfaceOnce(n) => InterfaceOnce(m)
    BY <1>3, <2>9 DEF QueuesCarry
  <2>12. PortIds(b) \subseteq PortIds(a) \cup {id}
    BY <1>1, <2>6, <2>8, <2>9, <2>10, <2>11 DEF PortIds
  <2>13. ASSUME PortOnce(a), id \notin PortIds(a) PROVE PortOnce(b)
    <3>1. InterfaceOnce(n) /\ Once(in) /\ InterfaceIds(n) \cap I = {}
      BY <1>1, <2>6, <2>13 DEF PortOnce
    <3>2. id \notin InterfaceIds(n) /\ id \notin I
      BY <1>1, <2>6, <2>13 DEF PortIds
    <3>3. InterfaceOnce(m) /\ Once(more) /\ InterfaceIds(m) \cap Ids(more) = {}
      BY <2>8, <2>9, <2>11, <3>1, <3>2
    <3>4. QED
      BY <2>10, <3>3 DEF PortOnce
  <2>14. QED
    BY <1>5, <2>4, <2>6, <2>12, <2>13 DEF PortCarries
<1>9. QED
  BY <1>7, <1>8

LEMMA TransmittingLeaves ==
  ASSUME NEW p, NEW c, NEW D, NEW a, PortSound(a, p, c, D), a.interface.send_queue # <<>>,
         NEW b, b.datagrams_in_ = a.datagrams_in_, b.interface = frame_sent(a.interface),
         NEW frame, frame = frame_to_send(a.interface), PortOnce(a)
  PROVE  /\ PortCarries(a, b, {})
         /\ frame.type = TYPE_IPv4 => frame.payload.id \in PortIds(a) \ PortIds(b)
<1>1. PICK n, m : n = a.interface /\ m = b.interface
  OBVIOUS
<1>2. PICK q, t, cache, I : /\ q = n.send_queue /\ t = Tail(q) /\ cache = n.datagram_cache
                            /\ I = Ids(a.datagrams_in_)
  OBVIOUS
<1>3. m.send_queue = t /\ m.datagram_cache = cache /\ frame = Head(q)
  <2>1. DOMAIN n = Fields
    BY <1>1 DEF PortSound, Sound
  <2>2. QED
    BY <1>1, <1>2, <2>1 DEF frame_sent, frame_to_send, Fields
<1>4. q \in Seq(Frames(p, c, D)) /\ q # <<>>
  BY <1>1, <1>2 DEF PortSound, Sound
<1>5. /\ FramedOnce(q) /\ WaitingOnce(cache) /\ FramedIds(q) \cap WaitingIds(cache) = {}
      /\ Once(a.datagrams_in_) /\ InterfaceIds(n) \cap I = {}
  BY <1>1, <1>2 DEF PortOnce, InterfaceOnce
<1>6. /\ FramedOnce(t) /\ FramedIds(t) \subseteq FramedIds(q)
      /\ frame.type = TYPE_IPv4 =>
           frame.payload.id \in FramedIds(q) /\ frame.payload.id \notin FramedIds(t)
  BY <1>2, <1>3, <1>4, <1>5, TailFrames
<1>7. InterfaceIds(n) = FramedIds(q) \cup WaitingIds(cache)
      /\ InterfaceIds(m) = FramedIds(t) \cup WaitingIds(cache)
  BY <1>2, <1>3 DEF InterfaceIds
<1>8. PortIds(a) = InterfaceIds(n) \cup I /\ PortIds(b) = InterfaceIds(m) \cup I
  BY <1>1, <1>2 DEF PortIds
<1>9. InterfaceOnce(m)
  BY <1>3, <1>5, <1>6 DEF InterfaceOnce
<1>10. PortOnce(b)
  BY <1>1, <1>2, <1>5, <1>6, <1>7, <1>9 DEF PortOnce
<1>11. PortCarries(a, b, {})
  BY <1>6, <1>7, <1>8, <1>10 DEF PortCarries
<1>12. ASSUME frame.type = TYPE_IPv4 PROVE frame.payload.id \in PortIds(a) \ PortIds(b)
  BY <1>5, <1>6, <1>7, <1>8, <1>12
<1>13. QED
  BY <1>11, <1>12

LEMMA TakingLeaves ==
  ASSUME NEW p, NEW c, NEW D, NEW a, PortSound(a, p, c, D), a.datagrams_in_ # <<>>,
         NEW b, b = taken(a), NEW d, d = datagram_received(a), PortOnce(a)
  PROVE  PortCarries(a, b, {}) /\ d.id \in PortIds(a) \ PortIds(b) /\ d \in Bound(D, IP[p])
<1>1. PICK n, in, t : n = a.interface /\ in = a.datagrams_in_ /\ t = Tail(in)
  OBVIOUS
<1>2. in \in Seq(Bound(D, IP[p])) /\ in # <<>> /\ DOMAIN a = {"interface", "datagrams_in_"}
  BY <1>1 DEF PortSound
<1>3. b.interface = n /\ b.datagrams_in_ = t /\ d = Head(in)
  BY <1>1, <1>2 DEF taken, datagram_received
<1>4. InterfaceOnce(n) /\ Once(in) /\ InterfaceIds(n) \cap Ids(in) = {}
  BY <1>1 DEF PortOnce
<1>5. Once(t) /\ Ids(t) \subseteq Ids(in) /\ d.id \in Ids(in) /\ d.id \notin Ids(t)
  BY <1>1, <1>2, <1>3, <1>4, TailIds
<1>6. PortIds(a) = InterfaceIds(n) \cup Ids(in) /\ PortIds(b) = InterfaceIds(n) \cup Ids(t)
  BY <1>1, <1>3 DEF PortIds
<1>7. PortOnce(b)
  BY <1>3, <1>4, <1>5 DEF PortOnce
<1>8. PortCarries(a, b, {})
  BY <1>5, <1>6, <1>7 DEF PortCarries
<1>9. d \in Bound(D, IP[p])
  BY <1>2, <1>3, HeadTailProperties
<1>10. QED
  BY <1>4, <1>5, <1>6, <1>8, <1>9

LEMMA TickingCarries ==
  ASSUME NEW p, NEW c, NEW D, NEW a, PortSound(a, p, c, D), NEW ms \in Nat,
         NEW b, b = [a EXCEPT !.interface = NetworkInterface_tick(@, ms)]
  PROVE  PortCarries(a, b, {})
<1>1. PICK n, m : n = a.interface /\ m = NetworkInterface_tick(n, ms)
  OBVIOUS
<1>2. DOMAIN a = {"interface", "datagrams_in_"} /\ Sound(n, p, c, D)
  BY <1>1 DEF PortSound
<1>3. b.interface = m /\ b.datagrams_in_ = a.datagrams_in_
  BY <1>1, <1>2
<1>4. m.send_queue = n.send_queue /\ m.datagram_cache = n.datagram_cache
  <2>1. NetworkInterface_tick(n, ms) = Ticked(n, n.timer + ms, n.arp_timer + ms)
    BY <1>2, TickFields
  <2>2. QED
    BY <1>1, <2>1 DEF Ticked
<1>5. InterfaceIds(m) = InterfaceIds(n) /\ (InterfaceOnce(n) => InterfaceOnce(m))
  BY <1>4 DEF InterfaceIds, InterfaceOnce
<1>6. QueuesCarry(a.interface, b.interface, {})
  BY <1>1, <1>3, <1>5 DEF QueuesCarry
<1>7. QED
  BY <1>3, <1>6, InterfaceCarries

LEMMA NothingHeld ==
  ASSUME NEW p, NEW k, NEW a, a = Attached(p, k)
  PROVE  PortOnce(a) /\ PortIds(a) = {}
<1>1. PICK n : n = a.interface
  OBVIOUS
<1>2. n.send_queue = <<>> /\ DOMAIN n.datagram_cache = {} /\ a.datagrams_in_ = <<>>
  BY <1>1 DEF Attached, AsyncNetworkInterface, NetworkInterface
<1>3. PICK e : e = <<>> /\ DOMAIN e = {}
  OBVIOUS
<1>4. FramedIds(e) = {} /\ FramedOnce(e) /\ Ids(e) = {} /\ Once(e)
  BY <1>3 DEF FramedIds, Framed, FramedOnce, Ids, Once
<1>5. WaitingIds(n.datagram_cache) = {} /\ WaitingOnce(n.datagram_cache)
  BY <1>2 DEF WaitingIds, WaitingOnce
<1>6. InterfaceIds(n) = {} /\ InterfaceOnce(n)
  BY <1>2, <1>3, <1>4, <1>5 DEF InterfaceIds, InterfaceOnce
<1>7. QED
  BY <1>1, <1>2, <1>3, <1>4, <1>6 DEF PortIds, PortOnce

(***************************************************************************)
(* Routing: the inboxes in a row hold what the inboxes held, and each send *)
(* brings another datagram into one of the interfaces.                     *)
(***************************************************************************)
LEMMA FlattenOnce ==
  ASSUME NEW D, NEW n \in Nat, NEW seqs \in [1 .. n -> Seq(D)],
         \A i \in 1 .. n : Once(seqs[i]),
         \A i, j \in 1 .. n : i # j => Ids(seqs[i]) \cap Ids(seqs[j]) = {}
  PROVE  /\ Once(FlattenSeq(seqs))
         /\ Ids(FlattenSeq(seqs)) \subseteq UNION {Ids(seqs[i]) : i \in 1 .. n}
<1>1. Len(seqs) = n /\ seqs \in Seq(Seq(D))
  <2>1. [1 .. n -> Seq(D)] \in {[1 .. m -> Seq(D)] : m \in Nat}
    OBVIOUS
  <2>2. seqs \in Seq(Seq(D))
    BY <2>1, SeqDef
  <2>3. QED
    BY <2>2, LenProperties
<1>2. CASE n = 0
  <2>1. FlattenSeq(seqs) = seqs
    BY <1>1, <1>2 DEF FlattenSeq
  <2>2. DOMAIN seqs = {}
    BY <1>2
  <2>3. QED
    BY <2>1, <2>2 DEF Once, Ids
<1>3. CASE n # 0
  <2>1. PICK flatten : flatten = CHOOSE f : Concatenated(f, n, seqs)
    OBVIOUS
  <2>2. Concatenated(flatten, n, seqs)
    BY <2>1, ConcatenatedExists
  <2>3. FlattenSeq(seqs) = flatten[n]
    BY <1>1, <1>3, <2>1 DEF FlattenSeq, Concatenated
  <2> DEFINE Upto(k) == UNION {Ids(seqs[i]) : i \in 1 .. k}
             Good(s, k) == s \in Seq(D) /\ Once(s) /\ Ids(s) \subseteq Upto(k)
             T == {i \in 1 .. n : ~Good(flatten[i], i)}
  <2>4. T = {}
    <3>1. SUFFICES ASSUME T # {} PROVE FALSE
      OBVIOUS
    <3>2. PICK k \in T : \A j \in T : k <= j
      <4>1. T \in SUBSET Nat
        OBVIOUS
      <4> HIDE DEF T
      <4>2. QED
        BY <3>1, <4>1, MinProperties
    <3>3. k \in 1 .. n /\ ~Good(flatten[k], k)
      OBVIOUS
    <3>4. flatten[k] = IF k = 1 THEN seqs[k] ELSE flatten[k - 1] \o seqs[k]
      BY <2>2, <3>3 DEF Concatenated
    <3>5. seqs[k] \in Seq(D) /\ Once(seqs[k])
      BY <3>3
    <3>6. Ids(seqs[k]) \subseteq Upto(k)
      BY <3>3
    <3>7. CASE k = 1
      BY <3>3, <3>4, <3>5, <3>6, <3>7
    <3>8. CASE k # 1
      <4>1. k - 1 \in 1 .. n /\ ~(k <= k - 1) /\ 1 .. k - 1 \subseteq 1 .. k
            /\ \A i \in 1 .. k - 1 : i \in 1 .. n /\ i # k
        BY <3>3, <3>8
      <4>2. Good(flatten[k - 1], k - 1)
        BY <3>2, <4>1
      <4>3. PICK s, t : s = flatten[k - 1] /\ t = seqs[k]
        OBVIOUS
      <4>4. s \in Seq(D) /\ Once(s) /\ Ids(s) \subseteq Upto(k - 1) /\ t \in Seq(D) /\ Once(t)
        BY <3>5, <4>2, <4>3
      <4>5. Upto(k - 1) \subseteq Upto(k)
        BY <4>1
      <4>6. Upto(k - 1) \cap Ids(t) = {}
        BY <3>3, <4>1, <4>3
      <4> HIDE DEF Upto
      <4>7. /\ Ids(s \o t) = Ids(s) \cup Ids(t)
            /\ Once(s) /\ Once(t) /\ Ids(s) \cap Ids(t) = {} => Once(s \o t)
        BY <4>4, JoinIds
      <4>8. s \o t \in Seq(D)
        BY <4>4, ConcatProperties
      <4>9. Good(s \o t, k)
        BY <3>6, <4>3, <4>4, <4>5, <4>6, <4>7, <4>8
      <4>10. QED
        BY <3>3, <3>4, <3>8, <4>3, <4>9
    <3>9. QED
      BY <3>7, <3>8
  <2>5. n \in 1 .. n
    BY <1>3
  <2>6. Good(flatten[n], n)
    BY <2>4, <2>5
  <2>7. QED
    BY <2>3, <2>6
<1>4. QED
  BY <1>2, <1>3

\* The interfaces of x hold different datagrams, with ids in S.
RouterOnce(x, r, S) ==
  /\ \A i \in DOMAIN Interfaces[r] : PortOnce(x.interfaces_[i]) /\ PortIds(x.interfaces_[i]) \subseteq S
  /\ \A i, j \in DOMAIN Interfaces[r] :
       i # j => PortIds(x.interfaces_[i]) \cap PortIds(x.interfaces_[j]) = {}

LEMMA RouteDatagramOnce ==
  ASSUME Inv, NEW r \in Routers, NEW x, RouterFollows(x, r), NEW dgram \in CopiesOf(sent), NEW last,
         NEW S, RouterOnce(x, r, S), dgram.id \notin S
  PROVE  RouterOnce(route_datagram(x, dgram, last), r, S \cup {dgram.id})
<1>1. PICK key, id : key = last[dgram.dst] /\ id = dgram.id
  OBVIOUS
<1>2. x.route_table_ = table[r]
  BY DEF RouterFollows
<1>3. CASE dgram.ttl \in {0, 1} \/ dgram.dst \notin DOMAIN last
  <2>1. route_datagram(x, dgram, last) = x
    BY <1>3 DEF route_datagram
  <2>2. QED
    BY <2>1 DEF RouterOnce
<1>4. CASE dgram.ttl \notin {0, 1} /\ dgram.dst \in DOMAIN last
  <2>1. PICK hop : hop = next_hop_of(table[r], key, dgram)
    OBVIOUS
  <2>2. hop \in UInt32 /\ (hop \in NextHops \/ hop = dgram.dst)
    BY <2>1, CopiesProperties, Hops DEF next_hop_of, Inv, Tables
  <2>3. PICK less \in Bound(sent, hop) : less = [dgram EXCEPT !.ttl = @ - 1] /\ less.id = id
    BY <1>1, <1>4, <2>2, CopiesProperties
  <2>4. PICK k : k = table[r].entries[key]
    OBVIOUS
  <2>5. PICK y : y = route_datagram(x, dgram, last)
    OBVIOUS
  <2>6. y = [x EXCEPT !.interfaces_[k].interface = send_datagram(@, less, hop)]
    BY <1>1, <1>2, <1>4, <2>1, <2>3, <2>4, <2>5 DEF route_datagram
  <2>7. DOMAIN x = {"interfaces_", "route_table_"} /\ DOMAIN x.interfaces_ = DOMAIN Interfaces[r]
    BY DEF RouterFollows
  <2>8. /\ \A i \in DOMAIN Interfaces[r] : i # k => y.interfaces_[i] = x.interfaces_[i]
        /\ k \in DOMAIN Interfaces[r] =>
             y.interfaces_[k] = [x.interfaces_[k] EXCEPT !.interface = send_datagram(@, less, hop)]
    BY <2>6, <2>7
  <2>9. ASSUME k \in DOMAIN Interfaces[r]
        PROVE  PortCarries(x.interfaces_[k], y.interfaces_[k], {id})
    <3>1. PICK a, b, p : a = x.interfaces_[k] /\ b = y.interfaces_[k] /\ p = Interfaces[r][k]
      OBVIOUS
    <3>2. PortSound(a, p, card, sent) /\ p \in Ports
      BY <2>9, <3>1, RouterPorts DEF RouterFollows, PortFollows
    <3>3. b = [a EXCEPT !.interface = send_datagram(@, less, hop)]
      BY <2>8, <2>9, <3>1
    <3>4. /\ b.datagrams_in_ = a.datagrams_in_ /\ b.interface = send_datagram(a.interface, less, hop)
          /\ Sound(a.interface, p, card, sent)
      BY <3>2, <3>3 DEF PortSound
    <3>5. QueuesCarry(a.interface, send_datagram(a.interface, less, hop), {id})
      BY <2>2, <2>3, <3>2, <3>4, Present, SendCarries
    <3>6. QED
      BY <3>1, <3>4, <3>5, InterfaceCarries
  <2>10. ASSUME NEW i \in DOMAIN Interfaces[r]
         PROVE  /\ PortOnce(y.interfaces_[i])
                /\ PortIds(y.interfaces_[i]) \subseteq PortIds(x.interfaces_[i]) \cup (IF i = k THEN {id} ELSE {})
    <3>1. PortOnce(x.interfaces_[i]) /\ id \notin PortIds(x.interfaces_[i])
      BY <1>1 DEF RouterOnce
    <3>2. CASE i # k
      BY <2>8, <3>1, <3>2
    <3>3. CASE i = k
      BY <2>9, <3>1, <3>3 DEF PortCarries
    <3>4. QED
      BY <3>2, <3>3
  <2>11. \A i \in DOMAIN Interfaces[r] : PortIds(y.interfaces_[i]) \subseteq S \cup {id}
    BY <2>10 DEF RouterOnce
  <2>12. ASSUME NEW i \in DOMAIN Interfaces[r], NEW j \in DOMAIN Interfaces[r], i # j
         PROVE  PortIds(y.interfaces_[i]) \cap PortIds(y.interfaces_[j]) = {}
    <3>1. /\ PortIds(x.interfaces_[i]) \cap PortIds(x.interfaces_[j]) = {}
          /\ id \notin PortIds(x.interfaces_[i]) /\ id \notin PortIds(x.interfaces_[j])
      BY <1>1, <2>12 DEF RouterOnce
    <3>2. ~(i = k /\ j = k)
      BY <2>12
    <3>3. QED
      BY <2>10, <3>1, <3>2
  <2>13. RouterOnce(y, r, S \cup {id})
    BY <2>10, <2>11, <2>12 DEF RouterOnce
  <2>14. QED
    BY <1>1, <2>5, <2>13
<1>5. QED
  BY <1>3, <1>4

LEMMA FoldOnce ==
  ASSUME Inv, NEW r \in Routers, NEW base, RouterFollows(base, r),
         NEW dgrams \in Seq(CopiesOf(sent)), NEW last, Once(dgrams),
         NEW S, RouterOnce(base, r, S), S \cap Ids(dgrams) = {}
  PROVE  RouterOnce(RoutedInTurn(base, dgrams, last), r, S \cup Ids(dgrams))
<1>1. PICK n \in Nat : n = Len(dgrams)
  BY LenProperties
<1>2. DOMAIN dgrams = 1 .. n /\ \A i \in 1 .. n : dgrams[i] \in CopiesOf(sent)
  BY <1>1, LenProperties, ElementOfSeq
<1>3. PICK iter : iter = CHOOSE f : Folded(f, n, base, dgrams, last)
  OBVIOUS
<1>4. Folded(iter, n, base, dgrams, last)
  BY <1>3, FoldedExists
<1>5. RoutedInTurn(base, dgrams, last) = iter[1 .. n]
  BY <1>2, <1>3 DEF RoutedInTurn, FoldLeft, MapThenFoldSet, Folded
<1> DEFINE IdsOf(s) == {dgrams[i].id : i \in s}
           Good(x, s) == RouterFollows(x, r) /\ RouterOnce(x, r, S \cup IdsOf(s))
           T == {k \in Nat : k <= n /\ \E s \in SUBSET (1 .. k) : ~Good(iter[s], s)}
<1>6. T = {}
  <2>1. SUFFICES ASSUME T # {} PROVE FALSE
    OBVIOUS
  <2>2. PICK k \in T : \A j \in T : k <= j
    <3>1. T \in SUBSET Nat
      OBVIOUS
    <3> HIDE DEF T
    <3>2. QED
      BY <2>1, <3>1, MinProperties
  <2>3. PICK s \in SUBSET (1 .. k) : ~Good(iter[s], s)
    OBVIOUS
  <2>4. k \in Nat /\ k <= n /\ s \in SUBSET (1 .. n)
    BY <2>2
  <2>5. iter[s] = IF s = {} THEN base ELSE route_datagram(iter[s \ {Max(s)}], dgrams[Max(s)], last)
    BY <1>4, <2>4 DEF Folded
  <2>6. s # {}
    <3>1. SUFFICES ASSUME s = {} PROVE Good(base, s)
      BY <2>3, <2>5
    <3>2. S \cup IdsOf(s) = S
      BY <3>1
    <3>3. QED
      BY <3>2
  <2>7. PICK m \in s : m = Max(s) /\ m \in 1 .. k /\ \A i \in s : i <= m
    BY <2>4, <2>6, MaxOfSome
  <2>8. PICK u : u = s \ {m}
    OBVIOUS
  <2>9. u \in SUBSET (1 .. m - 1) /\ m - 1 \in Nat /\ m - 1 <= n /\ ~(k <= m - 1)
    <3>1. m \in Nat /\ m >= 1 /\ m <= k
      BY <2>4, <2>7
    <3>2. \A i \in u : i \in Nat /\ i >= 1 /\ i <= m /\ i # m
      BY <2>4, <2>7, <2>8
    <3>3. u \in SUBSET (1 .. m - 1)
      BY <3>1, <3>2
    <3>4. QED
      BY <2>4, <3>1, <3>3
  <2>10. m - 1 \notin T
    BY <2>2, <2>9
  <2>11. Good(iter[u], u)
    BY <2>9, <2>10
  <2>12. dgrams[m] \in CopiesOf(sent) /\ m \in 1 .. n
    BY <1>2, <2>4, <2>7
  <2>13. dgrams[m].id \notin S \cup IdsOf(u)
    <3>1. dgrams[m].id \in Ids(dgrams)
      BY <1>2, <2>12 DEF Ids
    <3>2. ASSUME NEW i \in u PROVE dgrams[i].id # dgrams[m].id
      <4>1. i \in DOMAIN dgrams /\ m \in DOMAIN dgrams /\ i # m
        BY <1>2, <2>4, <2>8, <2>12
      <4>2. QED
        BY <4>1 DEF Once
    <3>3. QED
      BY <3>1, <3>2
  <2>14. PICK X, Y : X = S \cup IdsOf(u) /\ Y = S \cup IdsOf(s)
    OBVIOUS
  <2>15. Y = X \cup {dgrams[m].id}
    BY <2>7, <2>8, <2>14
  <2>16. RouterFollows(iter[u], r) /\ RouterOnce(iter[u], r, X) /\ dgrams[m].id \notin X
    BY <2>11, <2>13, <2>14
  <2>17. PICK y : y = route_datagram(iter[u], dgrams[m], last)
    OBVIOUS
  <2>18. RouterFollows(y, r) /\ RouterOnce(y, r, X \cup {dgrams[m].id})
    BY <2>12, <2>16, <2>17, RouteDatagramFollows, RouteDatagramOnce
  <2>19. iter[s] = y
    BY <2>5, <2>6, <2>7, <2>8, <2>17
  <2>20. QED
    BY <2>3, <2>14, <2>15, <2>18, <2>19
<1>7. Good(iter[1 .. n], 1 .. n)
  <2>1. n \notin T
    BY <1>6
  <2>2. 1 .. n \in SUBSET (1 .. n) /\ n <= n
    OBVIOUS
  <2> HIDE DEF Good
  <2>3. QED
    BY <2>1, <2>2
<1>8. IdsOf(1 .. n) = Ids(dgrams)
  BY <1>2 DEF Ids
<1>9. QED
  BY <1>5, <1>7, <1>8

Apartly(r) ==
  /\ \A i \in DOMAIN Interfaces[r] : PortOnce(port[Interfaces[r][i]])
  /\ \A i, j \in DOMAIN Interfaces[r] :
       i # j => PortIds(port[Interfaces[r][i]]) \cap PortIds(port[Interfaces[r][j]]) = {}

LEMMA RouteOnce ==
  ASSUME Inv, NEW r \in Routers, NEW last, Apartly(r)
  PROVE  RouterOnce(route(RouterOf(r), last), r,
                    UNION {PortIds(port[Interfaces[r][i]]) : i \in DOMAIN Interfaces[r]})
<1>1. PICK x : x = RouterOf(r)
  OBVIOUS
<1>2. PICK n, ports, inboxes, dgrams, emptied :
        /\ Unfolded(r, n, ports, inboxes, dgrams, emptied)
        /\ inboxes \in [1 .. n -> Seq(CopiesOf(sent))] /\ dgrams \in Seq(CopiesOf(sent))
        /\ route(x, last) = RoutedInTurn(emptied, dgrams, last) /\ RouterFollows(emptied, r)
  BY <1>1, RouteUnfolds
<1>3. n \in Nat /\ ports = Interfaces[r] /\ DOMAIN ports = 1 .. n
  BY <1>2 DEF Unfolded
<1>4. /\ inboxes = [i \in 1 .. n |-> port[ports[i]].datagrams_in_]
      /\ dgrams = FlattenSeq(inboxes)
      /\ emptied = [interfaces_ |-> [i \in 1 .. n |-> [port[ports[i]] EXCEPT !.datagrams_in_ = <<>>]],
                    route_table_ |-> table[r]]
  BY <1>2 DEF Unfolded
<1> DEFINE Old(i) == port[ports[i]]
           Kept(i) == InterfaceIds(Old(i).interface)
           S == UNION {Kept(i) : i \in 1 .. n}
<1>5. ASSUME NEW i \in 1 .. n
      PROVE  /\ PortOnce(emptied.interfaces_[i])
             /\ PortIds(emptied.interfaces_[i]) = Kept(i)
             /\ PortIds(Old(i)) = Kept(i) \cup Ids(inboxes[i])
             /\ Kept(i) \cap Ids(inboxes[i]) = {} /\ Once(inboxes[i])
  <2>1. PICK a, b : a = Old(i) /\ b = emptied.interfaces_[i]
    OBVIOUS
  <2>2. DOMAIN a = {"interface", "datagrams_in_"} /\ b = [a EXCEPT !.datagrams_in_ = <<>>]
    <3>1. PortSound(a, ports[i], card, sent)
      BY <1>3, <2>1, RouterPorts, Present
    <3>2. QED
      BY <1>4, <2>1, <3>1 DEF PortSound
  <2>3. b.interface = a.interface /\ b.datagrams_in_ = <<>>
    BY <2>2
  <2>4. PICK e : e = <<>> /\ DOMAIN e = {}
    OBVIOUS
  <2>5. Ids(e) = {} /\ Once(e)
    BY <2>4 DEF Ids, Once
  <2>6. PortOnce(a) /\ inboxes[i] = a.datagrams_in_
    BY <1>3, <1>4, <2>1 DEF Apartly
  <2>7. PortOnce(b) /\ PortIds(b) = InterfaceIds(a.interface)
    BY <2>3, <2>4, <2>5, <2>6 DEF PortOnce, PortIds
  <2>8. QED
    BY <2>1, <2>6, <2>7 DEF PortOnce, PortIds
<1>6. \A i, j \in 1 .. n : i # j => PortIds(Old(i)) \cap PortIds(Old(j)) = {}
  BY <1>3 DEF Apartly
<1> HIDE DEF Old, Kept
<1>7. Once(dgrams) /\ Ids(dgrams) \subseteq UNION {Ids(inboxes[i]) : i \in 1 .. n}
  <2>1. \A i \in 1 .. n : Once(inboxes[i])
    BY <1>5
  <2>2. \A i, j \in 1 .. n : i # j => Ids(inboxes[i]) \cap Ids(inboxes[j]) = {}
    BY <1>5, <1>6
  <2>3. PICK D : D = CopiesOf(sent) /\ inboxes \in [1 .. n -> Seq(D)]
    BY <1>2
  <2>4. /\ Once(FlattenSeq(inboxes))
        /\ Ids(FlattenSeq(inboxes)) \subseteq UNION {Ids(inboxes[i]) : i \in 1 .. n}
    BY <1>3, <2>1, <2>2, <2>3, FlattenOnce
  <2>5. QED
    BY <1>4, <2>4
<1>8. S \cap Ids(dgrams) = {}
  <2>1. ASSUME NEW i \in 1 .. n, NEW j \in 1 .. n PROVE Kept(i) \cap Ids(inboxes[j]) = {}
    <3>1. CASE i = j
      BY <1>5, <3>1
    <3>2. CASE i # j
      BY <1>5, <1>6, <3>2
    <3>3. QED
      BY <3>1, <3>2
  <2>2. QED
    BY <1>7, <2>1
<1>9. RouterOnce(emptied, r, S)
  <2>1. \A i \in 1 .. n : /\ PortOnce(emptied.interfaces_[i])
                          /\ PortIds(emptied.interfaces_[i]) \subseteq S
    BY <1>5
  <2>2. \A i, j \in 1 .. n :
          i # j => PortIds(emptied.interfaces_[i]) \cap PortIds(emptied.interfaces_[j]) = {}
    BY <1>5, <1>6
  <2>3. QED
    BY <1>3, <2>1, <2>2 DEF RouterOnce
<1>10. PICK U : U = UNION {PortIds(port[Interfaces[r][i]]) : i \in DOMAIN Interfaces[r]}
  OBVIOUS
<1>11. S \cup Ids(dgrams) \subseteq U
  <2>1. \A i \in 1 .. n : PortIds(Old(i)) \subseteq U
    BY <1>3, <1>10 DEF Old
  <2>2. \A i \in 1 .. n : Kept(i) \subseteq U /\ Ids(inboxes[i]) \subseteq U
    BY <1>5, <2>1
  <2>3. QED
    BY <1>7, <2>2
<1> HIDE DEF S
<1>12. RouterOnce(route(x, last), r, S \cup Ids(dgrams))
  BY <1>2, <1>7, <1>8, <1>9, FoldOnce
<1>13. RouterOnce(route(x, last), r, U)
  BY <1>11, <1>12 DEF RouterOnce
<1>14. QED
  BY <1>1, <1>10, <1>13

(***************************************************************************)
(* No id is held at two places, by the ports P or in what the hosts took,  *)
(* R; and all are ids of what was sent.                                    *)
(***************************************************************************)
Separate(P, R) ==
  /\ \A p \in Ports : PortOnce(P[p])
  /\ \A p, q \in Ports : p # q => PortIds(P[p]) \cap PortIds(P[q]) = {}
  /\ \A h \in Hosts : Once(R[h])
  /\ \A g, h \in Hosts : g # h => Ids(R[g]) \cap Ids(R[h]) = {}
  /\ \A p \in Ports, h \in Hosts : PortIds(P[p]) \cap Ids(R[h]) = {}

SentIds(D) == {d.id : d \in D}

FromSent(P, R, D) ==
  /\ IsFunction(R) /\ DOMAIN R = Hosts
  /\ \A h \in Hosts : R[h] \in Seq(Bound(D, IP[h])) /\ Ids(R[h]) \subseteq SentIds(D)
  /\ \A p \in Ports : PortIds(P[p]) \subseteq SentIds(D)

OnceInv == Separate(port, received) /\ FromSent(port, received, sent)

\* The ids in X come to the port to, and stay nowhere else.
Comes(P, Q, R, X, to) ==
  /\ \A p \in Ports : PortCarries(P[p], Q[p], IF p = to THEN X ELSE {})
  /\ \A p \in Ports : X \cap PortIds(IF p = to THEN P[p] ELSE Q[p]) = {}
  /\ \A h \in Hosts : X \cap Ids(R[h]) = {}

LEMMA PortsMove ==
  ASSUME NEW P, NEW R, Separate(P, R), NEW Q, NEW X, NEW to, Comes(P, Q, R, X, to)
  PROVE  Separate(Q, R)
<1>1. ASSUME NEW p \in Ports
      PROVE  PortOnce(Q[p]) /\ PortIds(Q[p]) \subseteq PortIds(P[p]) \cup (IF p = to THEN X ELSE {})
  <2>1. PortCarries(P[p], Q[p], IF p = to THEN X ELSE {})
    BY DEF Comes
  <2>2. CASE p = to
    <3>1. X \cap PortIds(P[p]) = {} /\ PortOnce(P[p])
      BY <2>2 DEF Comes, Separate
    <3>2. QED
      BY <2>1, <2>2, <3>1 DEF PortCarries
  <2>3. CASE p # to
    BY <2>1, <2>3 DEF PortCarries, Separate
  <2>4. QED
    BY <2>2, <2>3
<1>2. ASSUME NEW p \in Ports, NEW q \in Ports, p # q
      PROVE  PortIds(Q[p]) \cap PortIds(Q[q]) = {}
  <2>1. PortIds(P[p]) \cap PortIds(P[q]) = {}
    BY <1>2 DEF Separate
  <2>2. CASE p = to
    <3>1. X \cap PortIds(Q[q]) = {}
      BY <1>2, <2>2 DEF Comes
    <3>2. QED
      BY <1>1, <1>2, <2>1, <2>2, <3>1
  <2>3. CASE q = to
    <3>1. X \cap PortIds(Q[p]) = {}
      BY <1>2, <2>3 DEF Comes
    <3>2. QED
      BY <1>1, <1>2, <2>1, <2>3, <3>1
  <2>4. CASE p # to /\ q # to
    BY <1>1, <2>1, <2>4
  <2>5. QED
    BY <2>2, <2>3, <2>4
<1>3. ASSUME NEW p \in Ports, NEW h \in Hosts PROVE PortIds(Q[p]) \cap Ids(R[h]) = {}
  <2>1. PortIds(P[p]) \cap Ids(R[h]) = {} /\ X \cap Ids(R[h]) = {}
    BY DEF Separate, Comes
  <2>2. QED
    BY <1>1, <2>1
<1>4. QED
  BY <1>1, <1>2, <1>3 DEF Separate

LEMMA SentIdsGrow ==
  ASSUME NEW P, NEW R, NEW C, FromSent(P, R, C), NEW D, C \subseteq D, NEW Q,
         \A p \in Ports : PortIds(Q[p]) \subseteq PortIds(P[p]) \cup SentIds(D)
  PROVE  FromSent(Q, R, D)
<1>1. SentIds(C) \subseteq SentIds(D)
  BY DEF SentIds
<1>2. ASSUME NEW h \in Hosts
      PROVE  R[h] \in Seq(Bound(D, IP[h])) /\ Ids(R[h]) \subseteq SentIds(D)
  <2>1. Bound(C, IP[h]) \subseteq Bound(D, IP[h])
    BY BoundGrows
  <2>2. QED
    BY <1>1, <2>1, SeqMonotonic DEF FromSent
<1>3. \A p \in Ports : PortIds(Q[p]) \subseteq SentIds(D)
  BY <1>1 DEF FromSent
<1>4. QED
  BY <1>2, <1>3 DEF FromSent

LEMMA InitOnce == Init => OnceInv
<1> SUFFICES ASSUME Init PROVE OnceInv
  OBVIOUS
<1>1. ASSUME NEW p \in Ports PROVE PortOnce(port[p]) /\ PortIds(port[p]) = {}
  <2>1. port[p] = Attached(p, 1)
    BY DEF Init
  <2>2. QED
    BY <2>1, NothingHeld
<1>2. PICK e : e = <<>> /\ DOMAIN e = {}
  OBVIOUS
<1>3. Ids(e) = {} /\ Once(e)
  BY <1>2 DEF Ids, Once
<1>4. \A h \in Hosts : received[h] = e
  BY <1>2 DEF Init
<1>5. Separate(port, received)
  BY <1>1, <1>3, <1>4 DEF Separate
<1>6. FromSent(port, received, sent)
  <2>1. \A h \in Hosts : received[h] \in Seq(Bound(sent, IP[h]))
    BY <1>2, <1>4, EmptySeq
  <2>2. IsFunction(received) /\ DOMAIN received = Hosts
    BY DEF Init, IsFunction
  <2>3. QED
    BY <1>1, <1>3, <1>4, <2>1, <2>2 DEF FromSent
<1>7. QED
  BY <1>5, <1>6 DEF OnceInv

\* A datagram leaves with its frame, and comes to the one port that has the
\* address it is sent to.
LEMMA TransmitOnce ==
  ASSUME Inv, OnceInv, NEW p \in Ports, Transmit(p)
  PROVE  OnceInv'
<1>1. PICK heard \in SUBSET Neighbours(p) :
        port' = [q \in Ports |->
                   IF q = p THEN [port[p] EXCEPT !.interface = frame_sent(@)]
                   ELSE IF q \in heard
                   THEN async_recv_frame(port[q], frame_to_send(port[p].interface))
                   ELSE port[q]]
  BY DEF Transmit
<1>2. port[p].interface.send_queue # <<>> /\ UNCHANGED <<sent, received>>
  BY DEF Transmit
<1>3. PICK a, b, frame : /\ a = port[p] /\ b = [a EXCEPT !.interface = frame_sent(@)]
                         /\ frame = frame_to_send(a.interface)
  OBVIOUS
<1>4. PortSound(a, p, card, sent) /\ a.interface.send_queue # <<>> /\ PortOnce(a) /\ card \in Cards
  BY <1>2, <1>3, Present DEF OnceInv, Separate
<1>5. DOMAIN b = DOMAIN a /\ b.datagrams_in_ = a.datagrams_in_ /\ b.interface = frame_sent(a.interface)
  BY <1>3, <1>4 DEF PortSound
<1>6. frame \in Frames(p, card, sent)
  <2>1. frame_to_send(a.interface) \in Frames(p, card, sent)
    BY <1>4, <1>5, PortTransmits
  <2>2. QED
    BY <1>3, <2>1
<1>7. /\ PortCarries(a, b, {})
      /\ frame.type = TYPE_IPv4 => frame.payload.id \in PortIds(a) \ PortIds(b)
  <2>1. frame = frame_to_send(a.interface)
    BY <1>3
  <2>2. QED
    BY <1>4, <1>5, <2>1, TransmittingLeaves
<1>8. PICK X : X = IF frame.type = TYPE_IPv4 THEN {frame.payload.id} ELSE {}
  OBVIOUS
<1>9. X \subseteq PortIds(a) /\ X \cap PortIds(b) = {}
  BY <1>7, <1>8
<1>10. PICK to : \A q \in Ports : Brought(q, card, frame) \subseteq IF q = to THEN X ELSE {}
  <2>1. CASE \E q \in Ports : frame.dst = EthernetAddress(q, card[q])
    <3>1. PICK t \in Ports : frame.dst = EthernetAddress(t, card[t])
      BY <2>1
    <3>2. \A q \in Ports : frame.dst = EthernetAddress(q, card[q]) => q = t
      BY <3>1 DEF EthernetAddress
    <3>3. \A q \in Ports : Brought(q, card, frame) \subseteq IF q = t THEN X ELSE {}
      BY <1>8, <3>2 DEF Brought
    <3>4. QED
      BY <3>3
  <2>2. CASE ~ \E q \in Ports : frame.dst = EthernetAddress(q, card[q])
    BY <2>2 DEF Brought
  <2>3. QED
    BY <2>1, <2>2
<1>11. ASSUME NEW q \in Ports
       PROVE  /\ PortCarries(port[q], port'[q], IF q = to /\ q # p THEN X ELSE {})
              /\ q # p => X \cap PortIds(port[q]) = {}
              /\ q = p => port'[q] = b /\ port[q] = a
  <2>1. CASE q = p
    <3>1. port'[q] = b /\ port[q] = a
      BY <1>1, <1>3, <2>1
    <3>2. QED
      BY <1>7, <2>1, <3>1
  <2>2. CASE q # p
    <3>1. X \cap PortIds(port[q]) = {}
      <4>1. PortIds(port[p]) \cap PortIds(port[q]) = {}
        BY <2>2 DEF OnceInv, Separate
      <4>2. QED
        BY <1>3, <1>9, <4>1
    <3>2. CASE q \in heard
      <4>1. port'[q] = async_recv_frame(port[q], frame)
        BY <1>1, <1>3, <2>2, <3>2
      <4>2. PortSound(port[q], q, card, sent)
        BY Present
      <4>3. PortCarries(port[q], port'[q], Brought(q, card, frame))
        BY <1>4, <1>6, <2>2, <4>1, <4>2, HearingCarries
      <4>4. Brought(q, card, frame) \subseteq IF q = to THEN X ELSE {}
        BY <1>10
      <4>5. QED
        BY <2>2, <3>1, <4>3, <4>4 DEF PortCarries
    <3>3. CASE q \notin heard
      <4>1. port'[q] = port[q]
        BY <1>1, <2>2, <3>3
      <4>2. QED
        BY <2>2, <3>1, <4>1 DEF PortCarries
    <3>4. QED
      BY <3>2, <3>3
  <2>3. QED
    BY <2>1, <2>2
<1>12. ASSUME NEW h \in Hosts PROVE X \cap Ids(received[h]) = {}
  <2>1. PortIds(port[p]) \cap Ids(received[h]) = {}
    BY DEF OnceInv, Separate
  <2>2. QED
    BY <1>3, <1>9, <2>1
<1>13. Separate(port', received)
  <2>1. CASE to # p
    <3>1. \A q \in Ports : PortCarries(port[q], port'[q], IF q = to THEN X ELSE {})
      BY <1>11, <2>1
    <3>2. \A q \in Ports : q = to => X \cap PortIds(port[q]) = {}
      BY <1>11, <2>1
    <3>3. ASSUME NEW q \in Ports, q # to PROVE X \cap PortIds(port'[q]) = {}
      <4>1. CASE q = p
        BY <1>9, <1>11, <4>1
      <4>2. CASE q # p
        BY <1>11, <3>3, <4>2 DEF PortCarries
      <4>3. QED
        BY <4>1, <4>2
    <3>4. \A q \in Ports : q # to => X \cap PortIds(port'[q]) = {}
      BY <3>3
    <3>5. PICK Q : Q = port'
      OBVIOUS
    <3>6. Separate(port, received)
      BY DEF OnceInv
    <3>7. Comes(port, Q, received, X, to)
      BY <1>12, <3>1, <3>2, <3>4, <3>5 DEF Comes
    <3>8. Separate(Q, received)
      BY <3>6, <3>7, PortsMove
    <3>9. QED
      BY <3>5, <3>8
  <2>2. CASE to = p
    <3>1. PICK none : none = {}
      OBVIOUS
    <3>2. \A q \in Ports : PortCarries(port[q], port'[q], IF q = to THEN none ELSE {})
      BY <1>11, <2>2, <3>1
    <3>3. Comes(port, port', received, none, to) /\ Separate(port, received)
      BY <3>1, <3>2 DEF Comes, OnceInv
    <3>4. QED
      BY <3>3, PortsMove
  <2>3. QED
    BY <2>1, <2>2
<1>14. FromSent(port', received, sent)
  <2>1. X \subseteq SentIds(sent)
    BY <1>3, <1>9 DEF OnceInv, FromSent
  <2>2. \A q \in Ports : PortIds(port'[q]) \subseteq PortIds(port[q]) \cup SentIds(sent)
    BY <1>11, <2>1 DEF PortCarries
  <2>3. QED
    BY <2>2, SentIdsGrow DEF OnceInv
<1>15. QED
  BY <1>2, <1>13, <1>14 DEF OnceInv

LEMMA PortsKeep ==
  ASSUME NEW P, NEW R, NEW D, Separate(P, R), FromSent(P, R, D), NEW Q,
         \A p \in Ports : PortCarries(P[p], Q[p], {})
  PROVE  Separate(Q, R) /\ FromSent(Q, R, D)
<1>1. PICK none, to : none = {} /\ to = {}
  OBVIOUS
<1>2. Comes(P, Q, R, none, to)
  BY <1>1 DEF Comes
<1>3. FromSent(Q, R, D)
  BY SentIdsGrow DEF PortCarries
<1>4. QED
  BY <1>2, <1>3, PortsMove

LEMMA SendOnce ==
  ASSUME Inv, OnceInv, NEW h \in Hosts, Send(h)
  PROVE  OnceInv'
<1>1. PICK d \in Datagrams \ sent :
        /\ sent' = sent \cup {d}
        /\ port' = [port EXCEPT ![h].interface = send_datagram(@, d, Gateway[h])]
  BY DEF Send
<1>2. UNCHANGED received
  BY DEF Send
<1>3. h \in Ports /\ Gateway[h] \in UInt32 /\ Gateway[h] \in NextHops
  BY Constants, DatagramAssumption, Hops
<1>4. PICK D, X : D = sent' /\ X = {d.id}
  OBVIOUS
<1>5. sent \subseteq D /\ X \subseteq SentIds(D) /\ X \cap SentIds(sent) = {}
  <2>1. d.id \notin SentIds(sent)
    <3>1. SUFFICES ASSUME NEW e \in sent, d.id = e.id PROVE FALSE
      BY DEF SentIds
    <3>2. sent \subseteq Datagrams
      BY DEF Inv
    <3>3. d = e
      BY <1>1, <3>1, <3>2, DatagramAssumption
    <3>4. QED
      BY <1>1, <3>3
  <2>2. QED
    BY <1>1, <1>4, <2>1 DEF SentIds
<1>6. d \in Bound(D, Gateway[h])
  <2>1. d \in [id : {d.id}, src : UInt32, dst : UInt32, ttl : Nat]
    BY <1>1, DatagramAssumption
  <2>2. d.ttl \in 0 .. d.ttl /\ d = [d EXCEPT !.ttl = d.ttl]
    BY <2>1
  <2>3. d \in {[d EXCEPT !.ttl = ttl] : ttl \in 0 .. d.ttl}
    BY <2>2
  <2>4. d \in CopiesOf(D)
    BY <1>1, <1>4, <2>3 DEF CopiesOf
  <2>5. QED
    BY <1>3, <2>4 DEF Bound
<1>7. PICK a, b : a = port[h] /\ b = port'[h]
  OBVIOUS
<1>8. PortSound(a, h, card, D) /\ card \in Cards
  <2>1. PortSound(a, h, card, sent) /\ card \in Cards /\ \A q \in Ports : card[q] <= card[q]
    BY <1>3, <1>7, Present DEF Cards
  <2>2. QED
    BY <1>5, <2>1, SoundGrows
<1>9. PortCarries(a, b, X)
  <2>1. b = [a EXCEPT !.interface = send_datagram(@, d, Gateway[h])]
    BY <1>1, <1>3, <1>7 DEF Inv
  <2>2. /\ b.datagrams_in_ = a.datagrams_in_ /\ b.interface = send_datagram(a.interface, d, Gateway[h])
        /\ Sound(a.interface, h, card, D)
    BY <1>8, <2>1 DEF PortSound
  <2>3. QueuesCarry(a.interface, b.interface, X)
    BY <1>3, <1>4, <1>6, <1>8, <2>2, SendCarries
  <2>4. QED
    BY <2>2, <2>3, InterfaceCarries
<1>10. \A p \in Ports : p # h => port'[p] = port[p]
  BY <1>1 DEF Inv
<1>11. \A p \in Ports : PortCarries(port[p], port'[p], IF p = h THEN X ELSE {})
  BY <1>7, <1>9, <1>10 DEF PortCarries
<1>12. \A p \in Ports : X \cap PortIds(port[p]) = {}
  BY <1>5 DEF OnceInv, FromSent
<1>13. \A g \in Hosts : X \cap Ids(received[g]) = {}
  BY <1>5 DEF OnceInv, FromSent
<1>14. Comes(port, port', received, X, h)
  BY <1>10, <1>11, <1>12, <1>13 DEF Comes
<1>15. Separate(port', received)
  BY <1>14, PortsMove DEF OnceInv
<1>16. FromSent(port', received, D)
  <2>1. \A p \in Ports : PortIds(port'[p]) \subseteq PortIds(port[p]) \cup SentIds(D)
    BY <1>5, <1>11 DEF PortCarries
  <2>2. FromSent(port, received, sent)
    BY DEF OnceInv
  <2>3. QED
    BY <1>5, <2>1, <2>2, SentIdsGrow
<1>17. QED
  BY <1>2, <1>4, <1>15, <1>16 DEF OnceInv

\* The ports of the router hold what they held, and nothing twice.
LEMMA RoutingOnce ==
  ASSUME Inv, OnceInv, NEW r \in Routers, Route(r)
  PROVE  OnceInv'
<1>1. PICK last :
        port' = [p \in Ports |->
                   IF \E i \in DOMAIN Interfaces[r] : Interfaces[r][i] = p
                   THEN route(RouterOf(r), last).interfaces_[CHOOSE i \in DOMAIN Interfaces[r] :
                                                               Interfaces[r][i] = p]
                   ELSE port[p]]
  BY DEF Route
<1>2. UNCHANGED <<sent, received>>
  BY DEF Route
<1>3. PICK x, S : /\ x = route(RouterOf(r), last)
                  /\ S = UNION {PortIds(port[Interfaces[r][i]]) : i \in DOMAIN Interfaces[r]}
  OBVIOUS
<1>4. \A i, j \in DOMAIN Interfaces[r] : Interfaces[r][i] = Interfaces[r][j] => i = j
  BY TopologyAssumption DEF IsInjective
<1>5. Apartly(r)
  BY <1>4, RouterPorts DEF Apartly, OnceInv, Separate
<1>6. RouterOnce(x, r, S)
  BY <1>3, <1>5, RouteOnce
<1> DEFINE Mine(p) == \E i \in DOMAIN Interfaces[r] : Interfaces[r][i] = p
<1>7. ASSUME NEW p \in Ports, Mine(p)
      PROVE  \E i \in DOMAIN Interfaces[r] : Interfaces[r][i] = p /\ port'[p] = x.interfaces_[i]
  <2>1. PICK i : i = CHOOSE j \in DOMAIN Interfaces[r] : Interfaces[r][j] = p
    OBVIOUS
  <2>2. i \in DOMAIN Interfaces[r] /\ Interfaces[r][i] = p
    BY <1>7, <2>1
  <2>3. port'[p] = x.interfaces_[i]
    BY <1>1, <1>3, <1>7, <2>1
  <2>4. QED
    BY <2>2, <2>3
<1>8. \A p \in Ports : ~Mine(p) => port'[p] = port[p]
  BY <1>1
<1>9. \A p \in Ports : Mine(p) => PortOnce(port'[p]) /\ PortIds(port'[p]) \subseteq S
  BY <1>6, <1>7 DEF RouterOnce
<1>10. ASSUME NEW p \in Ports, ~Mine(p) PROVE S \cap PortIds(port[p]) = {}
  <2>1. ASSUME NEW i \in DOMAIN Interfaces[r]
        PROVE  PortIds(port[Interfaces[r][i]]) \cap PortIds(port[p]) = {}
    <3>1. Interfaces[r][i] \in Ports /\ Interfaces[r][i] # p
      BY <1>10, RouterPorts
    <3>2. QED
      BY <3>1 DEF OnceInv, Separate
  <2>2. QED
    BY <1>3, <2>1
<1>11. ASSUME NEW h \in Hosts PROVE S \cap Ids(received[h]) = {}
  <2>1. ASSUME NEW i \in DOMAIN Interfaces[r]
        PROVE  PortIds(port[Interfaces[r][i]]) \cap Ids(received[h]) = {}
    <3>1. Interfaces[r][i] \in Ports
      BY RouterPorts
    <3>2. QED
      BY <3>1 DEF OnceInv, Separate
  <2>2. QED
    BY <1>3, <2>1
<1>12. ASSUME NEW p \in Ports, NEW q \in Ports, Mine(p), Mine(q), p # q
       PROVE  PortIds(port'[p]) \cap PortIds(port'[q]) = {}
  <2>1. PICK i \in DOMAIN Interfaces[r] : Interfaces[r][i] = p /\ port'[p] = x.interfaces_[i]
    BY <1>7, <1>12
  <2>2. PICK j \in DOMAIN Interfaces[r] : Interfaces[r][j] = q /\ port'[q] = x.interfaces_[j]
    BY <1>7, <1>12
  <2>3. i # j
    BY <1>12, <2>1, <2>2
  <2>4. QED
    BY <1>6, <2>1, <2>2, <2>3 DEF RouterOnce
<1> HIDE DEF Mine
<1>13. ASSUME NEW p \in Ports, NEW q \in Ports, p # q
       PROVE  PortIds(port'[p]) \cap PortIds(port'[q]) = {}
  <2>1. CASE Mine(p) /\ Mine(q)
    BY <1>12, <1>13, <2>1
  <2>2. CASE Mine(p) /\ ~Mine(q)
    <3>1. PortIds(port'[p]) \subseteq S /\ port'[q] = port[q] /\ S \cap PortIds(port[q]) = {}
      BY <1>8, <1>9, <1>10, <2>2
    <3>2. QED
      BY <3>1
  <2>3. CASE ~Mine(p) /\ Mine(q)
    <3>1. PortIds(port'[q]) \subseteq S /\ port'[p] = port[p] /\ S \cap PortIds(port[p]) = {}
      BY <1>8, <1>9, <1>10, <2>3
    <3>2. QED
      BY <3>1
  <2>4. CASE ~Mine(p) /\ ~Mine(q)
    <3>1. port'[p] = port[p] /\ port'[q] = port[q]
      BY <1>8, <2>4
    <3>2. QED
      BY <1>13, <3>1 DEF OnceInv, Separate
  <2>5. QED
    BY <2>1, <2>2, <2>3, <2>4
<1>14. ASSUME NEW p \in Ports, NEW h \in Hosts PROVE PortIds(port'[p]) \cap Ids(received[h]) = {}
  <2>1. CASE Mine(p)
    BY <1>9, <1>11, <2>1
  <2>2. CASE ~Mine(p)
    <3>1. port'[p] = port[p]
      BY <1>8, <2>2
    <3>2. QED
      BY <3>1 DEF OnceInv, Separate
  <2>3. QED
    BY <2>1, <2>2
<1>15. ASSUME NEW p \in Ports PROVE PortOnce(port'[p]) /\ PortIds(port'[p]) \subseteq SentIds(sent)
  <2>1. CASE Mine(p)
    <3>1. S \subseteq SentIds(sent)
      BY <1>3, RouterPorts DEF OnceInv, FromSent
    <3>2. QED
      BY <1>9, <2>1, <3>1
  <2>2. CASE ~Mine(p)
    <3>1. port'[p] = port[p]
      BY <1>8, <2>2
    <3>2. QED
      BY <3>1 DEF OnceInv, Separate, FromSent
  <2>3. QED
    BY <2>1, <2>2
<1>16. Separate(port', received)
  BY <1>13, <1>14, <1>15 DEF OnceInv, Separate
<1>17. FromSent(port', received, sent)
  BY <1>15 DEF OnceInv, FromSent
<1>18. QED
  BY <1>2, <1>16, <1>17 DEF OnceInv

\* A datagram leaves the queue of its port for what the program has.
LEMMA ReceiveOnce ==
  ASSUME Inv, OnceInv, NEW h \in Hosts, Receive(h)
  PROVE  OnceInv'
<1>1. PICK a, b, d : a = port[h] /\ b = taken(a) /\ d = datagram_received(a)
  OBVIOUS
<1>2. /\ a.datagrams_in_ # <<>> /\ port' = [port EXCEPT ![h] = b]
      /\ received' = [received EXCEPT ![h] = Append(@, d)] /\ UNCHANGED sent
  BY <1>1 DEF Receive
<1>3. h \in Ports
  BY Constants
<1>4. PortCarries(a, b, {}) /\ d.id \in PortIds(a) \ PortIds(b) /\ d \in Bound(sent, IP[h])
  <2>1. PortSound(a, h, card, sent) /\ PortOnce(a)
    BY <1>1, <1>3, Present DEF OnceInv, Separate
  <2>2. QED
    BY <1>1, <1>2, <2>1, TakingLeaves
<1>5. PICK P, Q, R, S : P = port /\ Q = port' /\ R = received /\ S = received'
  OBVIOUS
<1>6. Separate(P, R) /\ FromSent(P, R, sent)
  BY <1>5 DEF OnceInv
<1>7. \A p \in Ports : Q[p] = IF p = h THEN b ELSE P[p]
  BY <1>2, <1>5 DEF Inv
<1>8. \A p \in Ports : PortCarries(P[p], Q[p], {})
  BY <1>1, <1>4, <1>5, <1>7 DEF PortCarries
<1>9. Separate(Q, R) /\ FromSent(Q, R, sent)
  BY <1>6, <1>8, PortsKeep
<1>10. IsFunction(S) /\ DOMAIN S = Hosts /\ \A g \in Hosts : S[g] = IF g = h THEN Append(R[h], d) ELSE R[g]
  BY <1>2, <1>5, <1>6 DEF FromSent, IsFunction
<1>11. \A g \in Hosts : d.id \notin Ids(R[g])
  BY <1>1, <1>3, <1>4, <1>5, <1>6 DEF Separate
<1>12. \A p \in Ports : d.id \notin PortIds(Q[p])
  <2>1. SUFFICES ASSUME NEW p \in Ports PROVE d.id \notin PortIds(Q[p])
    OBVIOUS
  <2>2. CASE p = h
    BY <1>4, <1>7, <2>2
  <2>3. CASE p # h
    <3>1. PortIds(P[h]) \cap PortIds(P[p]) = {}
      BY <1>3, <1>6, <2>3 DEF Separate
    <3>2. QED
      BY <1>1, <1>4, <1>5, <1>7, <2>3, <3>1
  <2>4. QED
    BY <2>2, <2>3
<1>13. R[h] \in Seq(Bound(sent, IP[h])) /\ Once(R[h]) /\ Ids(R[h]) \subseteq SentIds(sent)
  BY <1>6 DEF Separate, FromSent
<1>14. Once(Append(R[h], d)) /\ Ids(Append(R[h], d)) = Ids(R[h]) \cup {d.id}
  <2>1. /\ Ids(Append(R[h], d)) = Ids(R[h]) \cup {d.id}
        /\ Once(R[h]) /\ d.id \notin Ids(R[h]) => Once(Append(R[h], d))
    BY <1>13, AppendIds
  <2>2. QED
    BY <1>11, <1>13, <2>1
<1>15. Append(R[h], d) \in Seq(Bound(sent, IP[h]))
  BY <1>4, <1>13, AppendProperties
<1>16. d.id \in SentIds(sent)
  BY <1>1, <1>3, <1>4, <1>5, <1>6 DEF FromSent
<1>17. \A g \in Hosts : Ids(S[g]) = Ids(R[g]) \cup (IF g = h THEN {d.id} ELSE {})
  BY <1>10, <1>14
<1>18. Separate(Q, S)
  <2>1. \A g \in Hosts : Once(S[g])
    BY <1>9, <1>10, <1>14 DEF Separate
  <2>2. \A f, g \in Hosts : f # g => Ids(S[f]) \cap Ids(S[g]) = {}
    BY <1>9, <1>11, <1>17 DEF Separate
  <2>3. \A p \in Ports, g \in Hosts : PortIds(Q[p]) \cap Ids(S[g]) = {}
    BY <1>9, <1>12, <1>17 DEF Separate
  <2>4. QED
    BY <1>9, <2>1, <2>2, <2>3 DEF Separate
<1>19. FromSent(Q, S, sent)
  <2>1. \A g \in Hosts : S[g] \in Seq(Bound(sent, IP[g])) /\ Ids(S[g]) \subseteq SentIds(sent)
    BY <1>9, <1>10, <1>15, <1>16, <1>17 DEF FromSent
  <2>2. QED
    BY <1>9, <1>10, <2>1 DEF FromSent
<1>20. QED
  BY <1>2, <1>5, <1>18, <1>19 DEF OnceInv

LEMMA TickOnce ==
  ASSUME Inv, OnceInv, Tick
  PROVE  OnceInv'
<1>1. PICK ms \in Steps :
        port' = [p \in Ports |-> [port[p] EXCEPT !.interface = NetworkInterface_tick(@, ms)]]
  BY DEF Tick
<1>2. UNCHANGED <<sent, received>>
  BY DEF Tick
<1>3. ms \in Nat
  BY TimeAssumption
<1>4. ASSUME NEW p \in Ports PROVE PortCarries(port[p], port'[p], {})
  <2>1. PortSound(port[p], p, card, sent)
    BY Present
  <2>2. port'[p] = [port[p] EXCEPT !.interface = NetworkInterface_tick(@, ms)]
    BY <1>1
  <2>3. QED
    BY <1>3, <2>1, <2>2, TickingCarries
<1>5. Separate(port', received) /\ FromSent(port', received, sent)
  BY <1>4, PortsKeep DEF OnceInv
<1>6. QED
  BY <1>2, <1>5 DEF OnceInv

LEMMA RestartOnce ==
  ASSUME Inv, OnceInv, NEW h \in Restarting, Restart(h)
  PROVE  OnceInv'
<1>1. port' = [port EXCEPT ![h] = Attached(h, card[h] + 1)] /\ UNCHANGED <<sent, received>>
  BY DEF Restart
<1>2. ASSUME NEW p \in Ports PROVE PortCarries(port[p], port'[p], {})
  <2>1. CASE p = h
    <3>1. port'[p] = Attached(h, card[h] + 1)
      BY <1>1, <2>1 DEF Inv
    <3>2. PortOnce(port'[p]) /\ PortIds(port'[p]) = {}
      BY <3>1, NothingHeld
    <3>3. QED
      BY <3>2 DEF PortCarries
  <2>2. CASE p # h
    <3>1. port'[p] = port[p]
      BY <1>1, <2>2 DEF Inv
    <3>2. QED
      BY <3>1 DEF PortCarries
  <2>3. QED
    BY <2>1, <2>2
<1>3. Separate(port', received) /\ FromSent(port', received, sent)
  BY <1>2, PortsKeep DEF OnceInv
<1>4. QED
  BY <1>1, <1>3 DEF OnceInv

LEMMA NextOnce == Inv /\ OnceInv /\ [Next]_vars => OnceInv'
<1> SUFFICES ASSUME Inv, OnceInv, [Next]_vars PROVE OnceInv'
  OBVIOUS
<1>1. ASSUME UNCHANGED <<port, sent, received>> PROVE OnceInv'
  BY <1>1 DEF OnceInv
<1>2. CASE UNCHANGED vars
  BY <1>1, <1>2 DEF vars
<1>3. ASSUME NEW r \in Routers, AddRoute(r) PROVE OnceInv'
  BY <1>1, <1>3 DEF AddRoute
<1>4. QED
  BY <1>2, <1>3, SendOnce, ReceiveOnce, RestartOnce, TransmitOnce, RoutingOnce, TickOnce DEF Next

\* The places of Held are the three that PortIds counts.
LEMMA HeldOnce ==
  ASSUME NEW p \in Ports, NEW a, a = port[p]
  PROVE  /\ \A i \in DOMAIN Held(p) : Held(p)[i].id \in PortIds(a)
         /\ PortOnce(a) => \A i, j \in DOMAIN Held(p) : Held(p)[i].id = Held(p)[j].id => i = j
<1>1. PICK n, q, in, cache : /\ n = a.interface /\ q = n.send_queue /\ in = a.datagrams_in_
                             /\ cache = n.datagram_cache
  OBVIOUS
<1>2. PICK places :
        places = ({"frame"} \X {0} \X Framed(q)) \cup ({"inbox"} \X {0} \X DOMAIN in)
                   \cup UNION {{"waiting"} \X {ip} \X DOMAIN cache[ip] : ip \in DOMAIN cache}
  OBVIOUS
<1>3. PICK held :
        held = [at \in places |-> CASE at[1] = "frame"   -> q[at[3]].payload
                                    [] at[1] = "inbox"   -> in[at[3]]
                                    [] at[1] = "waiting" -> cache[at[2]][at[3]]]
  OBVIOUS
<1>4. Held(p) = held
  BY <1>1, <1>2, <1>3 DEF Held, Framed
<1>5. PortIds(a) = FramedIds(q) \cup WaitingIds(cache) \cup Ids(in)
  BY <1>1 DEF PortIds, InterfaceIds
<1>6. ASSUME NEW at \in places
      PROVE  \/ \E i \in Framed(q) : at = <<"frame", 0, i>> /\ held[at].id = q[i].payload.id
                                     /\ held[at].id \in FramedIds(q)
             \/ \E i \in DOMAIN in : at = <<"inbox", 0, i>> /\ held[at].id = in[i].id
                                     /\ held[at].id \in Ids(in)
             \/ \E ip \in DOMAIN cache : \E i \in DOMAIN cache[ip] :
                  /\ at = <<"waiting", ip, i>> /\ held[at].id = cache[ip][i].id
                  /\ held[at].id \in Ids(cache[ip]) /\ held[at].id \in WaitingIds(cache)
  <2>1. CASE at \in {"frame"} \X {0} \X Framed(q)
    <3>1. PICK i \in Framed(q) : at = <<"frame", 0, i>>
      BY <2>1
    <3>2. held[at] = q[i].payload
      BY <1>3, <3>1
    <3>3. QED
      BY <3>1, <3>2 DEF FramedIds
  <2>2. CASE at \in {"inbox"} \X {0} \X DOMAIN in
    <3>1. PICK i \in DOMAIN in : at = <<"inbox", 0, i>>
      BY <2>2
    <3>2. held[at] = in[i]
      BY <1>3, <3>1
    <3>3. QED
      BY <3>1, <3>2 DEF Ids
  <2>3. CASE \E ip \in DOMAIN cache : at \in {"waiting"} \X {ip} \X DOMAIN cache[ip]
    <3>1. PICK ip \in DOMAIN cache : at \in {"waiting"} \X {ip} \X DOMAIN cache[ip]
      BY <2>3
    <3>2. PICK i \in DOMAIN cache[ip] : at = <<"waiting", ip, i>>
      BY <3>1
    <3>3. held[at] = cache[ip][i]
      BY <1>3, <3>2
    <3>4. held[at].id \in Ids(cache[ip])
      BY <3>2, <3>3 DEF Ids
    <3>5. QED
      BY <3>2, <3>3, <3>4 DEF WaitingIds
  <2>4. QED
    BY <1>2, <2>1, <2>2, <2>3
<1>7. \A at \in places : held[at].id \in PortIds(a)
  BY <1>5, <1>6
<1>8. ASSUME PortOnce(a), NEW at \in places, NEW bt \in places, held[at].id = held[bt].id
      PROVE  at = bt
  <2>1. /\ FramedOnce(q) /\ Once(in) /\ WaitingOnce(cache)
        /\ FramedIds(q) \cap WaitingIds(cache) = {}
        /\ FramedIds(q) \cap Ids(in) = {} /\ WaitingIds(cache) \cap Ids(in) = {}
    BY <1>1, <1>8 DEF PortOnce, InterfaceOnce, InterfaceIds
  <2>2. CASE held[at].id \in FramedIds(q)
    <3>1. PICK i \in Framed(q) : at = <<"frame", 0, i>> /\ held[at].id = q[i].payload.id
      BY <1>6, <2>1, <2>2
    <3>2. PICK j \in Framed(q) : bt = <<"frame", 0, j>> /\ held[bt].id = q[j].payload.id
      BY <1>6, <1>8, <2>1, <2>2
    <3>3. i = j
      BY <1>8, <2>1, <3>1, <3>2 DEF FramedOnce
    <3>4. QED
      BY <3>1, <3>2, <3>3
  <2>3. CASE held[at].id \in Ids(in)
    <3>1. PICK i \in DOMAIN in : at = <<"inbox", 0, i>> /\ held[at].id = in[i].id
      BY <1>6, <2>1, <2>3
    <3>2. PICK j \in DOMAIN in : bt = <<"inbox", 0, j>> /\ held[bt].id = in[j].id
      BY <1>6, <1>8, <2>1, <2>3
    <3>3. i = j
      BY <1>8, <2>1, <3>1, <3>2 DEF Once
    <3>4. QED
      BY <3>1, <3>2, <3>3
  <2>4. CASE held[at].id \in WaitingIds(cache)
    <3>1. PICK ip, i : /\ ip \in DOMAIN cache /\ i \in DOMAIN cache[ip]
                       /\ at = <<"waiting", ip, i>> /\ held[at].id = cache[ip][i].id
                       /\ held[at].id \in Ids(cache[ip])
      BY <1>6, <2>1, <2>4
    <3>2. PICK other, j : /\ other \in DOMAIN cache /\ j \in DOMAIN cache[other]
                          /\ bt = <<"waiting", other, j>> /\ held[bt].id = cache[other][j].id
                          /\ held[bt].id \in Ids(cache[other])
      BY <1>6, <1>8, <2>1, <2>4
    <3>3. ip = other
      BY <1>8, <2>1, <3>1, <3>2 DEF WaitingOnce
    <3>4. i = j
      <4>1. /\ Once(cache[ip]) /\ cache[ip][i].id = cache[ip][j].id
            /\ i \in DOMAIN cache[ip] /\ j \in DOMAIN cache[ip]
        BY <1>8, <2>1, <3>1, <3>2, <3>3 DEF WaitingOnce
      <4>2. QED
        BY <4>1 DEF Once
    <3>5. QED
      BY <3>1, <3>2, <3>3, <3>4
  <2>5. QED
    BY <1>6, <2>2, <2>3, <2>4
<1>9. DOMAIN held = places
  BY <1>3
<1>10. QED
  BY <1>4, <1>7, <1>8, <1>9

(***************************************************************************)
(* The theorems.                                                           *)
(***************************************************************************)
\* The maps of an interface, its frames and the datagrams it holds have the
\* types of the class, whatever it hears (network_interface.cc:72-98,118-134).
THEOREM TypeCorrect == Safety => []TypeOK
<1>1. Inv => TypeOK
  <2> SUFFICES ASSUME Inv, NEW p \in Ports, NEW n, n = port[p].interface
      PROVE  /\ n.ethernet_address_ = EthernetAddress(p, card[p]) /\ n.ip_address_ = IP[p]
             /\ n.timer \in 0 .. now /\ n.arp_timer \in 0 .. ARP_REQUEST_TIMEOUT_MS - 1
             /\ DOMAIN n.address_map \subseteq IPAddresses
             /\ DOMAIN n.arp_request_expire_timers \subseteq UInt32
             /\ \A i \in DOMAIN n.send_queue :
                  n.send_queue[i].type = TYPE_IPv4 => n.send_queue[i].payload \in Copies
             /\ port[p].datagrams_in_ \in Seq(Copies)
             /\ n.datagram_cache \in [DOMAIN n.datagram_cache -> Seq(Copies)]
    BY DEF TypeOK
  <2>1. /\ PortSound(port[p], p, card, sent) /\ Sound(n, p, card, sent)
        /\ Paced(n, asked[p], now) /\ now \in Nat
    BY Present
  <2>2. \A ip : Bound(sent, ip) \subseteq Copies
    BY DEF Bound, CopiesOf, Copies
  <2>3. n.timer \in 0 .. now
    BY <2>1 DEF Sound, Paced
  <2>4. \A i \in DOMAIN n.send_queue :
          n.send_queue[i].type = TYPE_IPv4 => n.send_queue[i].payload \in Copies
    <3>1. SUFFICES ASSUME NEW i \in DOMAIN n.send_queue, n.send_queue[i].type = TYPE_IPv4
                   PROVE  n.send_queue[i].payload \in Copies
      OBVIOUS
    <3>2. PICK q : q = n.send_queue
      OBVIOUS
    <3>3. q \in Seq(Frames(p, card, sent))
      BY <2>1, <3>2 DEF Sound
    <3>4. q[i] \in Frames(p, card, sent)
      BY <3>2, <3>3, ElementOfSeq, LenProperties
    <3>5. QED
      BY <2>2, <3>1, <3>2, <3>4, FrameCases DEF TYPE_IPv4, TYPE_ARP
  <2>5. n.datagram_cache \in [DOMAIN n.datagram_cache -> Seq(Copies)]
    <3>1. \A ip \in DOMAIN n.datagram_cache : n.datagram_cache[ip] \in Seq(Copies)
      BY <2>2, <2>1, SeqMonotonic DEF Sound, CacheSound
    <3>2. QED
      BY <2>1, <3>1 DEF Sound, CacheSound, IsFunction
  <2>6. DOMAIN n.address_map \subseteq IPAddresses
    BY <2>1 DEF Sound, MapSound
  <2>7. DOMAIN n.arp_request_expire_timers \subseteq UInt32
    BY <2>1 DEF Sound, TimersSound
  <2>8. port[p].datagrams_in_ \in Seq(Copies)
    BY <2>2, <2>1, SeqMonotonic DEF PortSound
  <2>9. QED
    BY <2>1, <2>3, <2>4, <2>5, <2>6, <2>7, <2>8 DEF Sound
<1>2. QED
  BY InitInv, NextInv, <1>1, PTL DEF Safety

\* However messages are lost and hosts restarted, an interface knows only
\* addresses their owners have or had, and its own is never overwritten by what
\* it hears (network_interface.cc:72-98, at line 83).
THEOREM OwnersCorrect == Safety => []OwnersOnly
<1>1. Inv => OwnersOnly
  <2> SUFFICES ASSUME Inv, NEW p \in Ports, NEW map, map = port[p].interface.address_map
      PROVE  /\ \A ip \in DOMAIN map : map[ip].ethernet_address \in AddressesOf(ip)
             /\ IP[p] \in DOMAIN map
             /\ map[IP[p]].ethernet_address = EthernetAddress(p, card[p])
    BY DEF OwnersOnly
  <2>1. MapSound(map, p, card)
    BY Present DEF Sound
  <2>2. \A ip : AddressesOf(ip) = Owned(card, ip)
    BY DEF AddressesOf, Owned
  <2>3. QED
    BY <2>1, <2>2 DEF MapSound, AddressCache
<1>2. QED
  BY InitInv, NextInv, <1>1, PTL DEF Safety

\* A datagram waits only for an address that is unknown and was asked for: it
\* is sent by whatever makes the address known (network_interface.cc:83-94,122-133).
THEOREM WaitingCorrect == Safety => []WaitingIsUnknown
<1>1. Inv => WaitingIsUnknown
  <2> SUFFICES ASSUME Inv, NEW p \in Ports, NEW n, n = port[p].interface,
                      NEW ip \in DOMAIN n.datagram_cache
      PROVE  ~Known(n, ip) /\ n.datagram_cache[ip] # <<>> /\ asked[p][ip] >= 0
    BY DEF WaitingIsUnknown
  <2>1. Sound(n, p, card, sent) /\ Paced(n, asked[p], now)
    BY Present
  <2>2. QED
    BY <2>1 DEF Sound, CacheSound, Paced, Known
<1>2. QED
  BY InitInv, NextInv, <1>1, PTL DEF Safety

\* Between two requests of an interface for the same address at least
\* ARP_REQUEST_TIMEOUT_MS pass, whatever comes and however the ticks fall
\* (network_interface.cc:125-126,163-192).
THEOREM RequestsCorrect == Safety => RequestsApart
<1>1. Inv /\ [Next]_vars =>
        [\A p \in Ports : \A ip \in Asks(p) : now - asked[p][ip] >= ARP_REQUEST_TIMEOUT_MS]_vars
  BY NextStep DEF Apart
<1>2. QED
  BY InitInv, NextInv, <1>1, PTL DEF Safety, RequestsApart

\* However frames are lost and hosts restarted, no datagram is duplicated: what
\* waits is sent once, when the address is learned, and is then no longer kept
\* (network_interface.cc:83-94), route empties the queues it forwards
\* (router.cc:94-106), and a host that is no next hop takes only what is for it.
THEOREM DeliveredCorrect == Safety => []DeliveredOnce
<1>1. Inv /\ OnceInv => DeliveredOnce
  <2> SUFFICES ASSUME Inv, OnceInv PROVE DeliveredOnce
    OBVIOUS
  <2>1. Separate(port, received) /\ FromSent(port, received, sent)
    BY DEF OnceInv
  <2>2. ASSUME NEW p \in Ports, NEW q \in Ports, NEW i \in DOMAIN Held(p), NEW j \in DOMAIN Held(q),
               Held(p)[i].id = Held(q)[j].id
        PROVE  p = q /\ i = j
    <3>1. Held(p)[i].id \in PortIds(port[p]) /\ Held(q)[j].id \in PortIds(port[q])
      BY HeldOnce
    <3>2. p = q
      BY <2>1, <2>2, <3>1 DEF Separate
    <3>3. PortOnce(port[p])
      BY <2>1 DEF Separate
    <3>4. QED
      BY <2>2, <3>2, <3>3, HeldOnce
  <2>3. ASSUME NEW h \in Hosts, NEW i \in DOMAIN received[h]
        PROVE  /\ \A p \in Ports : \A j \in DOMAIN Held(p) : received[h][i].id # Held(p)[j].id
               /\ \A g \in Hosts : \A j \in DOMAIN received[g] :
                    received[h][i].id = received[g][j].id => h = g /\ i = j
               /\ IP[h] \notin NextHops =>
                    /\ received[h][i].dst = IP[h]
                    /\ \E d \in sent : d.id = received[h][i].id /\ received[h][i].ttl < d.ttl
    <3>1. received[h][i].id \in Ids(received[h])
      BY DEF Ids
    <3>2. ASSUME NEW p \in Ports, NEW j \in DOMAIN Held(p) PROVE received[h][i].id # Held(p)[j].id
      <4>1. Held(p)[j].id \in PortIds(port[p])
        BY HeldOnce
      <4>2. QED
        BY <2>1, <3>1, <4>1 DEF Separate
    <3>3. ASSUME NEW g \in Hosts, NEW j \in DOMAIN received[g], received[h][i].id = received[g][j].id
          PROVE  h = g /\ i = j
      <4>1. received[g][j].id \in Ids(received[g])
        BY DEF Ids
      <4>2. h = g
        BY <2>1, <3>1, <3>3, <4>1 DEF Separate
      <4>3. Once(received[h]) /\ j \in DOMAIN received[h] /\ received[h][i].id = received[h][j].id
        BY <2>1, <3>3, <4>2 DEF Separate
      <4>4. QED
        BY <4>2, <4>3 DEF Once
    <3>4. received[h][i] \in Bound(sent, IP[h])
      <4>1. PICK s, B : s = received[h] /\ B = Bound(sent, IP[h])
        OBVIOUS
      <4>2. s \in Seq(B)
        BY <2>1, <4>1 DEF FromSent
      <4>3. s[i] \in B
        BY <4>1, <4>2, ElementOfSeq, LenProperties
      <4>4. QED
        BY <4>1, <4>3
    <3>5. IP[h] \notin NextHops => received[h][i].dst = IP[h] /\ Crossed(received[h][i], sent)
      BY <3>4 DEF Bound
    <3>6. QED
      BY <3>2, <3>3, <3>5 DEF Crossed
  <2>4. QED
    BY <2>2, <2>3 DEF DeliveredOnce
<1>2. QED
  BY InitInv, NextInv, InitOnce, NextOnce, <1>1, PTL DEF Safety

=============================================================================
