-------------------------- MODULE NetworkInterface --------------------------
(***************************************************************************)
(* The class NetworkInterface (src/src/network_interface.hh,               *)
(* network_interface.cc): sends datagrams in Ethernet frames to the        *)
(* Ethernet address of their next hop, which it asks for with ARP.         *)
(*                                                                         *)
(* An object is a record, a method an operator, a std::unordered_map the   *)
(* function on the set of its keys, an IP address its number.  A frame on  *)
(* the wire is well formed: the checks of the parsers are left out.        *)
(***************************************************************************)
EXTENDS Words, Sequences, Functions

CONSTANTS ETHERNET_BROADCAST,
          NoAddress,                 \* EthernetAddress {}, what a request asks for
          ADDRESS_CACHE_TIMEOUT_MS,
          ARP_REQUEST_TIMEOUT_MS

ASSUME TimeoutAssumption ==
  ADDRESS_CACHE_TIMEOUT_MS \in Nat \ {0} /\ ARP_REQUEST_TIMEOUT_MS \in Nat \ {0}

TYPE_IPv4 == "IPv4"
TYPE_ARP == "ARP"
OPCODE_REQUEST == "request"
OPCODE_REPLY == "reply"

\* map[key] = value
Assigned(map, key, value) ==
  [k \in DOMAIN map \cup {key} |-> IF k = key THEN value ELSE map[k]]

AddressCache(address, time_ms) ==
  [ethernet_address |-> address, expire_time_ms |-> time_ms]

NetworkInterface(ethernet_address, ip_address) ==
  [ethernet_address_          |-> ethernet_address,
   ip_address_                |-> ip_address,
   timer                      |-> 0,
   arp_timer                  |-> 0,
   address_map                |->
     [ip \in {ip_address} |-> AddressCache(ethernet_address, UINT64_MAX)],
   arp_request_expire_timers  |-> [ip \in {} |-> 0],
   datagram_cache             |-> [ip \in {} |-> <<>>],
   send_queue                 |-> <<>>]

create_ethernet_frame(n, type, payload, dst) ==
  [type |-> type, payload |-> payload, dst |-> dst, src |-> n.ethernet_address_]

push_datagram(n, dgram, dst) ==
  [n EXCEPT !.send_queue = Append(@, create_ethernet_frame(n, TYPE_IPv4, dgram, dst))]

(***************************************************************************)
(* ARP messages: each of the two Ethernet addresses is the one the map has *)
(* for its IP address, if any.                                             *)
(***************************************************************************)
Known(n, ip) == ip \in DOMAIN n.address_map

ethernet_address_of(n, ip) ==
  IF Known(n, ip) THEN n.address_map[ip].ethernet_address ELSE NoAddress

push_arp(n, opcode, sender_ip, target_ip, dst) ==
  LET message == [opcode                  |-> opcode,
                  sender_ip_address       |-> sender_ip,
                  sender_ethernet_address |-> ethernet_address_of(n, sender_ip),
                  target_ip_address       |-> target_ip,
                  target_ethernet_address |-> ethernet_address_of(n, target_ip)]
  IN  [n EXCEPT !.send_queue = Append(@, create_ethernet_frame(n, TYPE_ARP, message, dst))]

push_arp_request(n, ip) ==
  [push_arp(n, OPCODE_REQUEST, n.ip_address_, ip, ETHERNET_BROADCAST)
     EXCEPT !.arp_request_expire_timers = Assigned(@, ip, n.timer + ARP_REQUEST_TIMEOUT_MS)]

\* Fault: the sender and the target of the reply are those of the request.
ReplySwapped(n, sender_ip, target_ip) ==
  push_arp(n, OPCODE_REPLY, target_ip, sender_ip, ethernet_address_of(n, target_ip))

push_arp_reply(n, sender_ip, target_ip) ==
  push_arp(n, OPCODE_REPLY, sender_ip, target_ip, ethernet_address_of(n, target_ip))

(***************************************************************************)
(* handle_arp: whatever the message, the address of its sender is learned, *)
(* the datagrams that wait for it are sent, and a request for any address  *)
(* in the map is answered.                                                 *)
(***************************************************************************)
learn(n, ip, address) ==
  [n EXCEPT !.address_map =
     Assigned(@, ip, AddressCache(address, n.timer + ADDRESS_CACHE_TIMEOUT_MS))]

\* Fault: what was sent keeps waiting.
KeepWaiting(n, ip, address) ==
  IF ip \notin DOMAIN n.datagram_cache THEN n
  ELSE [n EXCEPT !.send_queue =
                    @ \o [i \in DOMAIN n.datagram_cache[ip] |->
                            create_ethernet_frame(n, TYPE_IPv4, n.datagram_cache[ip][i], address)]]

send_waiting(n, ip, address) ==
  IF ip \notin DOMAIN n.datagram_cache THEN n
  ELSE [n EXCEPT !.send_queue =
                    @ \o [i \in DOMAIN n.datagram_cache[ip] |->
                            create_ethernet_frame(n, TYPE_IPv4, n.datagram_cache[ip][i], address)],
                 !.datagram_cache = Restrict(@, DOMAIN @ \ {ip})]

answer(n, message) ==
  IF message.opcode = OPCODE_REQUEST /\ Known(n, message.target_ip_address)
  THEN push_arp_reply(n, message.target_ip_address, message.sender_ip_address) ELSE n

\* Fault: only a reply sends what waits.
HandleByOpcode(n, message) ==
  LET ip == message.sender_ip_address
      address == message.sender_ethernet_address
      known == learn(n, ip, address)
  IN  IF message.opcode = OPCODE_REPLY THEN send_waiting(known, ip, address)
      ELSE answer(known, message)

handle_arp(n, message) ==
  LET ip == message.sender_ip_address
      address == message.sender_ethernet_address
  IN  answer(send_waiting(learn(n, ip, address), ip, address), message)

(***************************************************************************)
(* The public methods.                                                     *)
(***************************************************************************)
\* A request for ip was sent and may still be answered.
request_is_pending(n, ip) ==
  ip \in DOMAIN n.arp_request_expire_timers /\ n.timer <= n.arp_request_expire_timers[ip]

wait(n, dgram, ip) ==
  [n EXCEPT !.datagram_cache =
     Assigned(@, ip, Append(IF ip \in DOMAIN @ THEN @[ip] ELSE <<>>, dgram))]

\* A datagram that comes while the request for its next hop is pending is
\* dropped.
send_datagram(n, dgram, next_hop) ==
  IF Known(n, next_hop) THEN push_datagram(n, dgram, ethernet_address_of(n, next_hop))
  ELSE IF request_is_pending(n, next_hop) THEN n
  ELSE wait(push_arp_request(n, next_hop), dgram, next_hop)

\* The frame is for this interface.
is_addressed(n, frame) == frame.dst \in {n.ethernet_address_, ETHERNET_BROADCAST}

\* The optional<InternetDatagram> that recv_frame returns, {} or {dgram}.
received_datagram(n, frame) ==
  IF is_addressed(n, frame) /\ frame.type = TYPE_IPv4 THEN {frame.payload} ELSE {}

recv_frame(n, frame) ==
  IF is_addressed(n, frame) /\ frame.type = TYPE_ARP THEN handle_arp(n, frame.payload) ELSE n

expire_addresses(n) ==
  [n EXCEPT !.address_map =
     Restrict(@, {ip \in DOMAIN @ : n.timer < @[ip].expire_time_ms})]

\* Fault: the interval never starts again.
ExpireEachTick(n) ==
  IF n.arp_timer < ARP_REQUEST_TIMEOUT_MS THEN n
  ELSE [n EXCEPT !.arp_request_expire_timers = Restrict(@, {ip \in DOMAIN @ : n.timer < @[ip]})]

\* Fault: the requests that are not expired are erased too.
ExpireAllRequests(n) ==
  IF n.arp_timer < ARP_REQUEST_TIMEOUT_MS THEN n
  ELSE [n EXCEPT !.arp_timer = 0, !.arp_request_expire_timers = [ip \in {} |-> 0]]

\* Only every ARP_REQUEST_TIMEOUT_MS or later.
expire_requests(n) ==
  IF n.arp_timer < ARP_REQUEST_TIMEOUT_MS THEN n
  ELSE [n EXCEPT !.arp_timer = 0,
                 !.arp_request_expire_timers =
                    Restrict(@, {ip \in DOMAIN @ : n.timer < @[ip]})]

NetworkInterface_tick(n, ms) ==
  expire_requests(expire_addresses([n EXCEPT !.timer = @ + ms, !.arp_timer = @ + ms]))

\* maybe_send: the frame, and the object it leaves.
frame_to_send(n) == Head(n.send_queue)
frame_sent(n) == [n EXCEPT !.send_queue = Tail(@)]
=============================================================================
