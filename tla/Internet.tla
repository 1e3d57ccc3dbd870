------------------------------ MODULE Internet ------------------------------
(***************************************************************************)
(* Hosts and Routers joined by Ethernets, each host with an                *)
(* AsyncNetworkInterface, as tests/router.cc joins them.                   *)
(*                                                                         *)
(* A port is a host, or one interface of a router.  A step is a call that  *)
(* the owner of a port makes.  A frame that leaves its queue is heard at   *)
(* once by the other ports of its Ethernet, or by some or none of them.  A *)
(* host may be restarted with another Ethernet address, all its state      *)
(* gone.  All the ports are told the time together.                        *)
(***************************************************************************)
EXTENDS Router, FiniteSets

CONSTANTS Hosts, Routers,
          Interfaces,     \* of each router: the sequence of its ports
          Ethernet,       \* the Ethernet each port is on
          IP,             \* the IP address of each port
          Gateway,        \* the next hop of all that a host sends
          Routes,         \* of each router: the calls of add_route, in order
          Datagrams,      \* what the hosts send, each once
          Restarting,     \* the hosts that may be restarted
          Steps,          \* the times that may pass between two ticks
          MaxTime,        \* bound: the clock
          MaxFaults       \* bound: restarts, and ports that miss a frame

VARIABLES port,      \* the AsyncNetworkInterface of each port
          table,     \* the RouteTable of each router
          added,     \* how many routes each router has been given
          card,      \* which of its Ethernet addresses each port has
          sent,      \* the datagrams the programs sent
          refused,   \* those of them that the host's own interface dropped
          received,  \* what each host took from its interface, in order
          asked,     \* when each port last asked for each IP address
          now, faults

vars == <<port, table, added, card, sent, refused, received, asked, now, faults>>

Ports == DOMAIN Ethernet
Neighbours(p) == {q \in Ports \ {p} : Ethernet[q] = Ethernet[p]}

EthernetAddress(p, k) == <<p, k>>
Attached(p, k) == AsyncNetworkInterface(NetworkInterface(EthernetAddress(p, k), IP[p]))

ASSUME TopologyAssumption ==
  /\ Hosts \subseteq Ports /\ Restarting \subseteq Hosts /\ IP \in [Ports -> UInt32]
  /\ \A p, q \in Ports : IP[p] = IP[q] => p = q
  /\ \A r \in Routers : Interfaces[r] \in Seq(Ports \ Hosts) /\ IsInjective(Interfaces[r])
  /\ ETHERNET_BROADCAST \notin Ports \X Nat

ASSUME TimeAssumption ==
  /\ MaxTime \in Nat /\ Steps \subseteq Nat
  /\ MaxTime + ADDRESS_CACHE_TIMEOUT_MS < UINT64_MAX

ASSUME DatagramAssumption ==
  /\ \A h \in Hosts : Gateway[h] \in UInt32
  /\ \A r \in Routers :
       Routes[r] \in Seq([route_prefix : UInt32, prefix_length : Nat, next_hop : SUBSET UInt32,
                          interface_num : DOMAIN Interfaces[r]])
  /\ \A d \in Datagrams : d \in [id : {d.id}, src : UInt32, dst : UInt32, ttl : Nat]
  /\ \A d, e \in Datagrams : d.id = e.id => d = e

\* Where datagrams for others are sent, by a host or along a route.
NextHops ==
  {Gateway[h] : h \in Hosts}
    \cup UNION {UNION {Routes[r][i].next_hop : i \in DOMAIN Routes[r]} : r \in Routers}

RouterOf(r) ==
  Router([i \in DOMAIN Interfaces[r] |-> port[Interfaces[r][i]]], table[r])

Init ==
  /\ port = [p \in Ports |-> Attached(p, 1)]
  /\ table = [r \in Routers |-> RouteTable]
  /\ added = [r \in Routers |-> 0]
  /\ card = [p \in Ports |-> 1]
  /\ sent = {} /\ refused = {}
  /\ received = [h \in Hosts |-> <<>>]
  /\ asked = [p \in Ports |-> [ip \in UInt32 |-> -ARP_REQUEST_TIMEOUT_MS]]
  /\ now = 0 /\ faults = 0

(***************************************************************************)
(* What a step asks for: the requests in p's queue that were not there.    *)
(***************************************************************************)
Requested(frames) ==
  {frames[i].payload.target_ip_address :
     i \in {j \in DOMAIN frames : frames[j].type = TYPE_ARP
                                    /\ frames[j].payload.opcode = OPCODE_REQUEST}}

Asks(p) ==
  LET before == port[p].interface.send_queue  after == port'[p].interface.send_queue
  IN  Requested(SubSeq(after, Len(before) + 1, Len(after)))

Asking ==
  asked' = [p \in Ports |-> [ip \in UInt32 |-> IF ip \in Asks(p) THEN now ELSE asked[p][ip]]]

(***************************************************************************)
(* The steps.                                                              *)
(***************************************************************************)
\* The program of a host sends a datagram, once the routers are configured.
Send(h) ==
  /\ \A r \in Routers : added[r] = Len(Routes[r])
  /\ \E d \in Datagrams \ sent :
       /\ d.src = IP[h]
       /\ sent' = sent \cup {d}
       /\ port' = [port EXCEPT ![h].interface = send_datagram(@, d, Gateway[h])]
       /\ refused' = IF port' = port THEN refused \cup {d} ELSE refused
  /\ Asking
  /\ UNCHANGED <<table, added, card, received, now, faults>>

\* A frame leaves the queue of p, and heard are the ports that hear it.
Transmit(p) ==
  /\ port[p].interface.send_queue # <<>>
  /\ \E heard \in SUBSET Neighbours(p) :
       /\ faults' = faults + Cardinality(Neighbours(p) \ heard)
       /\ faults' <= MaxFaults
       /\ port' = [q \in Ports |->
                     IF q = p THEN [port[p] EXCEPT !.interface = frame_sent(@)]
                     ELSE IF q \in heard
                     THEN async_recv_frame(port[q], frame_to_send(port[p].interface))
                     ELSE port[q]]
  /\ UNCHANGED <<table, added, card, sent, refused, received, asked, now>>

\* The owner of a router calls route().
Route(r) ==
  /\ \E i \in DOMAIN Interfaces[r] : port[Interfaces[r][i]].datagrams_in_ # <<>>
  /\ \E last \in Listings(table[r], {d.dst : d \in sent}) :
       \E result \in {route(RouterOf(r), last)} :
         port' = [p \in Ports |->
                    IF \E i \in DOMAIN Interfaces[r] : Interfaces[r][i] = p
                    THEN result.interfaces_[CHOOSE i \in DOMAIN Interfaces[r] :
                                              Interfaces[r][i] = p]
                    ELSE port[p]]
  /\ Asking
  /\ UNCHANGED <<table, added, card, sent, refused, received, now, faults>>

\* The owner of a router gives it another route.
AddRoute(r) ==
  /\ added[r] < Len(Routes[r])
  /\ LET call == Routes[r][added[r] + 1]
     IN  table' = [table EXCEPT ![r] =
                     add_route(RouterOf(r), call.route_prefix, call.prefix_length,
                               call.next_hop, call.interface_num).route_table_]
  /\ added' = [added EXCEPT ![r] = @ + 1]
  /\ UNCHANGED <<port, card, sent, refused, received, asked, now, faults>>

\* The program of a host takes a datagram.
Receive(h) ==
  /\ port[h].datagrams_in_ # <<>>
  /\ received' = [received EXCEPT ![h] = Append(@, datagram_received(port[h]))]
  /\ port' = [port EXCEPT ![h] = taken(@)]
  /\ UNCHANGED <<table, added, card, sent, refused, asked, now, faults>>

Tick ==
  /\ \E ms \in Steps :
       /\ now' = now + ms
       /\ port' = [p \in Ports |->
                     [port[p] EXCEPT !.interface = NetworkInterface_tick(@, ms)]]
  /\ now' <= MaxTime
  /\ UNCHANGED <<table, added, card, sent, refused, received, asked, faults>>

Restart(h) ==
  /\ faults < MaxFaults
  /\ card' = [card EXCEPT ![h] = @ + 1]
  /\ port' = [port EXCEPT ![h] = Attached(h, card[h] + 1)]
  /\ asked' = [asked EXCEPT ![h] = [ip \in UInt32 |-> -ARP_REQUEST_TIMEOUT_MS]]
  /\ faults' = faults + 1
  /\ UNCHANGED <<table, added, sent, refused, received, now>>

Next ==
  \/ \E h \in Hosts : Send(h) \/ Receive(h)
  \/ \E h \in Restarting : Restart(h)
  \/ \E p \in Ports : Transmit(p)
  \/ \E r \in Routers : Route(r) \/ AddRoute(r)
  \/ Tick

Safety == Init /\ [][Next]_vars

\* The owners keep emptying the queues; nothing makes the programs send, the
\* routes change, time pass or frames be heard.
Spec ==
  /\ Safety
  /\ \A p \in Ports : WF_vars(Transmit(p))
  /\ \A r \in Routers : WF_vars(Route(r))
  /\ \A h \in Hosts : WF_vars(Receive(h))

(***************************************************************************)
(* Invariants.                                                             *)
(***************************************************************************)
\* The places where p holds a copy of a datagram, and the copy in each: frames,
\* the router's or the host's queue, and the queues that wait for an address.
Held(p) ==
  LET n == port[p].interface
      framed == {i \in DOMAIN n.send_queue : n.send_queue[i].type = TYPE_IPv4}
      places == ({"frame"} \X {0} \X framed) \cup ({"inbox"} \X {0} \X DOMAIN port[p].datagrams_in_)
                  \cup UNION {{"waiting"} \X {ip} \X DOMAIN n.datagram_cache[ip] :
                                ip \in DOMAIN n.datagram_cache}
  IN  [at \in places |->
         CASE at[1] = "frame"   -> n.send_queue[at[3]].payload
           [] at[1] = "inbox"   -> port[p].datagrams_in_[at[3]]
           [] at[1] = "waiting" -> n.datagram_cache[at[2]][at[3]]]

\* The Ethernet addresses the owner of an IP address has or had.
AddressesOf(ip) ==
  UNION {{EthernetAddress(p, k) : k \in 1 .. card[p]} : p \in {q \in Ports : IP[q] = ip}}

IPAddresses == {IP[p] : p \in Ports}

\* What datagrams become on their way.
Copies == UNION {{[d EXCEPT !.ttl = ttl] : ttl \in 0 .. d.ttl} : d \in sent}

\* The maps of each port have the types of the class, and every datagram is one
\* that was sent, with what is left of its time to live.
TypeOK ==
  \A p \in Ports :
    LET n == port[p].interface
    IN  /\ n.ethernet_address_ = EthernetAddress(p, card[p]) /\ n.ip_address_ = IP[p]
        /\ n.timer \in 0 .. now /\ n.arp_timer \in 0 .. ARP_REQUEST_TIMEOUT_MS - 1
        /\ DOMAIN n.address_map \subseteq IPAddresses
        /\ DOMAIN n.arp_request_expire_timers \subseteq UInt32
        /\ \A i \in DOMAIN n.send_queue :
             n.send_queue[i].type = TYPE_IPv4 => n.send_queue[i].payload \in Copies
        /\ port[p].datagrams_in_ \in Seq(Copies)
        /\ n.datagram_cache \in [DOMAIN n.datagram_cache -> Seq(Copies)]

\* A datagram waits only for an address that is not known and that was asked
\* for: no order of requests, replies, the requests of others and expiring
\* entries leaves one behind.
WaitingIsUnknown ==
  \A p \in Ports :
    LET n == port[p].interface
    IN  \A ip \in DOMAIN n.datagram_cache :
          /\ ~Known(n, ip)
          /\ n.datagram_cache[ip] # <<>>
          /\ asked[p][ip] >= 0

\* Whoever answers, the owner or a port that heard of it, an address that is
\* learned is one its owner has or had; and a port's own is always its present
\* one, that of nobody's memory.
OwnersOnly ==
  \A p \in Ports :
    LET map == port[p].interface.address_map
    IN  /\ \A ip \in DOMAIN map : map[ip].ethernet_address \in AddressesOf(ip)
        /\ IP[p] \in DOMAIN map
        /\ map[IP[p]].ethernet_address = EthernetAddress(p, card[p])

\* No datagram is duplicated, and a host that is no next hop of others receives
\* only what is for it and has crossed a router.
DeliveredOnce ==
  /\ \A p, q \in Ports : \A i \in DOMAIN Held(p), j \in DOMAIN Held(q) :
       Held(p)[i].id = Held(q)[j].id => p = q /\ i = j
  /\ \A h \in Hosts : \A i \in DOMAIN received[h] :
       /\ \A p \in Ports : \A j \in DOMAIN Held(p) : received[h][i].id # Held(p)[j].id
       /\ \A g \in Hosts : \A j \in DOMAIN received[g] :
            received[h][i].id = received[g][j].id => h = g /\ i = j
       /\ IP[h] \notin NextHops =>
            /\ received[h][i].dst = IP[h]
            /\ \E d \in sent : d.id = received[h][i].id /\ received[h][i].ttl < d.ttl

(***************************************************************************)
(* Action and liveness properties.                                         *)
(***************************************************************************)
\* Requests for the same address are at least ARP_REQUEST_TIMEOUT_MS apart:
\* "pending mappings last five seconds" (tests/net_interface.cc:162).
RequestsApart ==
  [][\A p \in Ports : \A ip \in Asks(p) : now - asked[p][ip] >= ARP_REQUEST_TIMEOUT_MS]_vars

Arrived(d) == \E h \in Hosts : \E i \in DOMAIN received[h] : received[h][i].id = d.id

ToHosts == {d \in sent : d.ttl > 1 /\ \E h \in Hosts : IP[h] = d.dst}

\* Everything comes to rest, a datagram that routers send in a circle too; and
\* when no frame was missed and no host restarted, no datagram waits for ever,
\* and all that the interfaces of the hosts took have arrived.
Settles ==
  <>[](/\ \A p \in Ports : port[p].interface.send_queue = <<>> /\ port[p].datagrams_in_ = <<>>
       /\ faults = 0 => /\ \A p \in Ports : DOMAIN Held(p) = {}
                        /\ \A d \in ToHosts \ refused : Arrived(d))

(***************************************************************************)
(* What the code does not do.                                              *)
(***************************************************************************)
\* "datagram cache waiting for ARP reply. ip_address(numeric) ->
\* queue<InternetDatagram>" (network_interface.hh:71): while nothing is missed,
\* a datagram to a host waits, travels, or has arrived.  The code drops what is
\* sent to an address already asked for: run internet_second_datagram.
NothingDropped ==
  faults = 0 =>
    \A d \in ToHosts :
      Arrived(d) \/ \E p \in Ports : \E i \in DOMAIN Held(p) : Held(p)[i].id = d.id

=============================================================================
