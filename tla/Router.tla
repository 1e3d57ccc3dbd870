------------------------------- MODULE Router -------------------------------
(***************************************************************************)
(* The class Router with its RouteTable, and AsyncNetworkInterface         *)
(* (src/src/router.hh, router.cc).                                         *)
(*                                                                         *)
(* The 64-bit key of the table is the pair of the prefix and its length it *)
(* is composed of; Modulus is 2^32 for addresses of 32 bits.  An           *)
(* optional<Address> is the set of its values; interface numbers start at  *)
(* 1, as sequences do.                                                     *)
(***************************************************************************)
EXTENDS NetworkInterface, SequencesExt

(***************************************************************************)
(* AsyncNetworkInterface: a NetworkInterface that keeps the datagrams it   *)
(* receives.                                                               *)
(***************************************************************************)
AsyncNetworkInterface(interface) == [interface |-> interface, datagrams_in_ |-> <<>>]

async_recv_frame(a, frame) ==
  [interface |-> recv_frame(a.interface, frame),
   datagrams_in_ |-> a.datagrams_in_ \o SetToSeq(received_datagram(a.interface, frame))]

\* maybe_receive: the datagram, and the object it leaves.
datagram_received(a) == Head(a.datagrams_in_)
taken(a) == [a EXCEPT !.datagrams_in_ = Tail(@)]

(***************************************************************************)
(* RouteTable.                                                             *)
(***************************************************************************)
RouteTable == [entries |-> [k \in {} |-> 0], next_hops |-> [k \in {} |-> 0]]

Key(route_prefix, prefix_length) ==
  [route_prefix |-> route_prefix, prefix_length |-> prefix_length]

\* The addresses agree in the prefix_length bits of the mask.
match(ipv4_address, key) ==
  LET unmasked == Modulus \div 2 ^ key.prefix_length
  IN  key.route_prefix \div unmasked = ipv4_address \div unmasked

insert(table, key, num, next_hop) ==
  [entries   |-> Assigned(table.entries, key, num),
   next_hops |-> IF next_hop = {} THEN table.next_hops
                 ELSE Assigned(table.next_hops, key, CHOOSE ip \in next_hop : TRUE)]

\* Fault: any entry that matches will do.
Matching(table, ipv4_address) == {k \in DOMAIN table.entries : match(ipv4_address, k)}

\* The entries of which look_up takes the one that the unordered_map lists last.
Longest(table, ipv4_address) ==
  {k \in DOMAIN table.entries :
     match(ipv4_address, k) /\ \A j \in DOMAIN table.entries :
                                match(ipv4_address, j) => j.prefix_length <= k.prefix_length}

\* What look_up may find for each address: the unordered_map lists its entries
\* in an order of its own, and each call of route may see another one.
Listings(table, addresses) ==
  LET routed == {ip \in addresses : Longest(table, ip) # {}}
  IN  {last \in [routed -> DOMAIN table.entries] :
         \A ip \in routed : last[ip] \in Longest(table, ip)}

(***************************************************************************)
(* Router.                                                                 *)
(***************************************************************************)
Router(interfaces, table) == [interfaces_ |-> interfaces, route_table_ |-> table]

next_hop_of(table, key, dgram) ==
  IF key \in DOMAIN table.next_hops THEN table.next_hops[key] ELSE dgram.dst

\* last is the listing of the table.
route_datagram(router, dgram, last) ==
  LET table == router.route_table_
      key == last[dgram.dst]
  IN  IF dgram.ttl \in {0, 1} \/ dgram.dst \notin DOMAIN last THEN router
      ELSE [router EXCEPT !.interfaces_[table.entries[key]].interface =
              send_datagram(@, [dgram EXCEPT !.ttl = @ - 1], next_hop_of(table, key, dgram))]

\* Every interface in turn is emptied; what is sent comes into none of them.
route(router, last) ==
  LET inboxes == [i \in DOMAIN router.interfaces_ |-> router.interfaces_[i].datagrams_in_]
      emptied == [router EXCEPT !.interfaces_ =
                    [i \in DOMAIN @ |-> [@[i] EXCEPT !.datagrams_in_ = <<>>]]]
  IN  FoldLeft(LAMBDA r, dgram : route_datagram(r, dgram, last), emptied, FlattenSeq(inboxes))

add_route(router, route_prefix, prefix_length, next_hop, interface_num) ==
  [router EXCEPT !.route_table_ =
     insert(@, Key(route_prefix, prefix_length), interface_num, next_hop)]
=============================================================================
