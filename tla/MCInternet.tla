----------------------------- MODULE MCInternet -----------------------------
(* Host a and router r on one Ethernet, r, router s and host b on another.  r *)
(* sends to s what is for neither Ethernet, and s sends everything back.      *)
(* Addresses have three bits: 0 and 1 are on the left, 4 to 7 on the right.   *)
EXTENDS Internet

MCEthernet == [p \in {"a", "r1", "r2", "s", "b"} |-> IF p \in {"a", "r1"} THEN "left" ELSE "right"]
MCIP == [p \in DOMAIN MCEthernet |->
           CASE p = "r1" -> 0 [] p = "a" -> 1 [] p = "r2" -> 4 [] p = "b" -> 5 [] p = "s" -> 6]
MCInterfaces == [r \in {"r", "s"} |-> IF r = "r" THEN <<"r1", "r2">> ELSE <<"s">>]
MCGateway == [h \in {"a", "b"} |-> IF h = "a" THEN 0 ELSE 4]

Call(prefix, length, hop, num) ==
  [route_prefix |-> prefix, prefix_length |-> length, next_hop |-> hop, interface_num |-> num]

MCRoutes ==
  [r \in {"r", "s"} |->
     IF r = "r" THEN <<Call(0, 0, {6}, 2), Call(0, 2, {}, 1), Call(4, 1, {}, 2)>>
     ELSE <<Call(0, 0, {4}, 1)>>]

Datagram(id, src, dst, ttl) == [id |-> id, src |-> src, dst |-> dst, ttl |-> ttl]

\* To b, and to an address nobody has.
MCDatagrams == {Datagram(1, 1, 5, 2), Datagram(2, 1, 3, 3)}
\* Two to b.
TwoToOne == {Datagram(1, 1, 5, 2), Datagram(2, 1, 5, 2)}
MCSteps == {2}
=============================================================================
