# TLA+ models of minnow

minnow is a TCP/IP stack in C++: a reliable byte stream built from a bounded
buffer, a reassembler, a TCP sender and receiver, an event-driven socket, and
below them an Ethernet network interface and an IP router. This directory holds
TLA+ modules that model it, TLC configurations that check them on small
instances, and theorems about them that TLAPS has checked. `PROJECT.json` is the
index: components, runs, mutants, the source lines of each definition, findings,
hazards and theorems.

How to run: `tlc -workers 2 -config MCReassembler.cfg MCReassembler`,
`tlapm ByteStream_proofs.tla`.

## 1. Inventory

| component (source) | state | operations | interacts with |
|---|---|---|---|
| Wrap32 (`src/wrapping_integers`) | a 32-bit value | `wrap`, `unwrap` | sender and receiver convert sequence numbers with it |
| ByteStream (`src/byte_stream`) | buffer, capacity, bytes pushed and popped, closed, error | `push`, `close`, `peek`, `pop`, `is_finished`, the helper `read` | two per TCPPeer: the program and the sender share the outbound one, the reassembler and the program the inbound one |
| Reassembler (`src/reassembler`) | blocks by index, bytes pending, the stream's end | `insert` | called by TCPReceiver, writes to the inbound stream |
| TCPSender (`src/tcp_sender`) | outstanding messages, send queue, timer, timeout, left edge and size of the window | `push`, `maybe_send`, `send_empty_message`, `receive`, `tick` | reads the outbound stream; owned by TCPPeer |
| TCPReceiver (`src/tcp_receiver`) | zero point, SYN and FIN received | `receive`, `send` | calls the Reassembler; owned by TCPPeer |
| TCPPeer (`util/tcp_peer.hh`) | all of the above, `need_send_` | `push`, `tick`, `receive`, `maybe_send`, `active` | driven by TCPMinnowSocket |
| TCPMinnowSocket (`util/tcp_minnow_socket`) | the peer, outgoing segments, the socket pair to the program, flags | `connect`, `listen_and_accept`, `wait_until_closed`, four event-loop rules, two threads | EventLoop, datagram adapter, the program |
| EventLoop (`util/eventloop`) | rules with interest, callback, cancel | `add_rule`, `wait_next_event` | TCPMinnowSocket, the applications |
| FileDescriptor (`util/file_descriptor`, `util/socket`) | eof, closed, counts of reads and writes, shared by all duplicates | `read`, `write`, `close`, `shutdown` | the kernel's streams; the event loop asks for the flags and counts |
| bidirectional_stream_copy (`apps/bidirectional_stream_copy`) | two ByteStreams, two flags | four event-loop rules | stdin, stdout, the owner's end of a socket |
| Parser, Serializer, InternetChecksum (`util/parser.hh`, `util/checksum.hh`) | a list of buffers and an offset; an error flag | `integer`, `remove_prefix`, `all_remaining`; `integer`, `buffer`, `output`; `add`, `value` | the headers |
| headers (`util/*_header`, `ethernet_frame.hh`, `ipv4_datagram.hh`, `arp_message`, `tcp_segment`) | the fields | `parse`, `serialize`, `compute_checksum` | the adapters, NetworkInterface |
| datagram adapters (`util/tcp_over_ip`, `tuntap_adapter`, `lossy_fd_adapter.hh`, `fd_adapter.hh`; `NetworkInterfaceAdapter` of `apps/endtoend.cc`) | the addresses and ports of the connection, the listening flag, a NetworkInterface | `read`, `write`, `tick` | TCPMinnowSocket above, a TUN or TAP device below |
| NetworkInterface (`src/network_interface`) | ARP map, pending requests, waiting datagrams, frames to send, timers | `send_datagram`, `recv_frame`, `tick`, `maybe_send` | Router, TCP over Ethernet adapter |
| Router (`src/router`) | route table (two maps), interfaces with inbound queues | `add_route`, `route` | NetworkInterface |
| other system wrappers and applications | | | see section 7 |

What is hard here, and what makes each part correct:

* **Wrap32**: block boundaries and both ends of the 64-bit range. `unwrap`
  returns the *closest* number; an end that follows another never loses track.
* **ByteStream**: any mixture of call sizes. Read, then buffered, is what was
  accepted; the end comes last.
* **Reassembler**: any order, overlap and repetition, at the edge of a full
  stream. Only the bytes of the source, each once; what fits is kept; the pending
  counter is exact; the stream closes exactly at its end.
* **TCPSender**: late, partial, repeated and impossible acknowledgments, windows
  that shrink to zero, timeouts between queueing and sending. The outstanding
  messages tile the numbers in flight; the window is respected, FIN included; the
  timer runs exactly while needed; the timeout backs off and resets.
* **TCPReceiver, TCPPeer, the socket**: loss, duplication, reordering of SYN,
  data, FIN and acknowledgments in both directions; timeouts that come too early.
  Both programs read exactly the other's bytes, all of them, and the end; a peer
  that finishes leaves nothing behind.
* **EventLoop and the two threads of a socket**: what poll reported is used after the
  other thread has run; rules whose interests depend on each other's callbacks; partial
  writes; each direction ending on its own; resets, a reader of stdout that leaves, and a
  copy that throws at any moment. No byte is lost or made up, no loop spins, throws or
  ends too early, the program ends.
* **Adapters and headers**: fields that end inside a buffer, checksums whose carries
  carry, a changed byte, a second client. What is read is what the peer wrote.
* **NetworkInterface**: ARP requests, replies, expiry and waiting datagrams in
  any order. **Router**: longest prefix, directly attached networks, TTL, routes
  that replace others.

`PROJECT.json`, "hazards", lists each of these at its source line.

## 2. How the models are built

**A class is a module of operators.** An object is a record with the fields of
the class, and a method `C::m` is an operator that takes the object and returns
what the method leaves behind (`Writer_push(s, data)`), so that the same
definition serves the component alone and every composition it is part of. These
modules have no variables: `Slices`, `Words`, `Wrap32`, `ByteStream`,
`Reassembler`, `TCPSender`, `TCPReceiver`, `TCPPeer`, `NetworkInterface`, `Router`, `Kernel`, `FileDescriptor`, `EventLoop`,
`TCPMinnowSocket`, `BidirectionalStreamCopy`, `Parser`, `Headers`, `TCPOverIP`.

**A specification module owns the variables** and has one action per call, made
by an environment that is as free as the component's users allow:
`Wrap32Spec`, `ByteStreamSpec`, `ReassemblerSpec`, `TCPSenderSpec`,
`TCPConnection`, `Internet`, `MinnowProgram`, `Datagrams`. Its properties are stated there. An `MC` module gives the
constants values for TLC. Modules that end in `Lemmas` or `_proofs` hold what is proved (section 4);
no other module uses them.

**A program with threads** (`MinnowProgram`) has one state record `sys`, with the objects
of both threads, the kernel's streams and the other end of the connection; the callbacks
are operators on it (`push_bytes(s)`), their interests predicates (`wants_bytes(s)`).
`EventLoop` takes interest, callback and cancel as operator constants and is instantiated
with them.

**The abstract specification** is `ReliableStream`: the bytes of `Source` arrive
once each and in order, the end with the last of them or later, and all of it
eventually. `ByteStreamSpec`, `ReassemblerSpec` and `TCPConnection` (in each
direction) implement it.

**Loops in closed form.** The loops of the Reassembler and the sender are stated
as what they compute (the set of keys the loop gets through, the messages a push
makes), because tlapm cannot be used with recursive operators and because this
form is what one can reason about. `ReassemblerLoops` and `TCPSenderLoops` have
the loops themselves, one iteration a step; the invariant `LoopsAgree` of the
runs `reassembler` and `sender` compares the two on every reachable object and
every input.

**Data.** A byte is an opaque value. Each test stream has distinct bytes, so
that a byte in the wrong place is always noticed. `Modulus` and `Modulus64` stand
for 2^32 and 2^64: the initial sequence numbers are chosen so that the 32-bit
values wrap inside every run.

**Faults.** An operator preceded by a comment "Fault:" is a plausible mistake in
the definition after it; no module uses it. `PROJECT.json`, "mutants", says which
property notices which fault.

| module | models | state | actions |
|---|---|---|---|
| `Wrap32Spec` | two ends, one following the other's numbers | zero point, number sent, checkpoint | Send, Receive |
| `ByteStreamSpec` | a stream between two programs | the stream, what was read, end seen | Write, Close, Read, Finish |
| `ReassemblerSpec` | a reassembler behind a network | the Reassembler, its stream, what was read, end seen | Insert (any stretch), Read, Finish |
| `TCPSenderSpec` | a sender against any peer | sender, outbound stream, highest number sent | Write, Close, Push, MaybeSend, Receive, Tick |
| `TCPConnection` | two peers over a network that loses and reorders | both TCPPeers, the segments on their way, what was read | Connect, Write, Receive, Tick, Read, Lose |
| `Internet` | hosts and routers on Ethernets | the interface of each port, the route tables, what was sent and received, the clock | Send, Transmit, Route, AddRoute, Receive, Tick, Restart |
| `MinnowProgram` | `tcp_ipv4` and `endtoend` with one socket: both threads, the socket pair, stdin, stdout | `sys` (kernel, descriptors, socket, copy, outside), the rules and poll results of each loop, where each thread is | ThreadPoll, ThreadServe, Connected, ThreadEnd; Start, OwnerPoll, OwnerServe, WaitUntilClosed, Join, Throw; Feed, ScreenRead, ScreenLeaves, RemoteSend, RemoteReset |
| `Datagrams` | adapters of hosts on one Ethernet, down to the bytes of frames | the adapters, the frames on the wire, what was written and read | Write, Transmit, DropRead, DropWrite, Corrupt, Tick |

In `MinnowProgram` a call of `wait_next_event` is two steps. The first (ThreadPoll,
OwnerPoll) prunes the rules, asks their interest and polls; the second (ThreadServe,
OwnerServe) uses what poll reported, when the other thread and everything outside may have
moved on. A step of the TCP thread ends with the `tick` and `collect_segments` of
`_tcp_loop`. `connect` and `listen_and_accept` run the same loop in the owner's thread, before
the other is started (`Waiting`, `Connected`). The kernel is not code of the repository:
`Kernel` says what socketpair, poll, shutdown and pipes do, from their manual pages, and the
other end of the connection is any TCP that sends in order. Its segments are never
lost here and time does not pass: that is what `TCPConnection` and `TCPSenderSpec` are about.

In `Datagrams` segments are turned into bytes and back by the code's own serialize
and parse, on real field widths. The TCP above the adapter is a list of segments to write;
`NetworkInterface` below it is the module of `Internet`, given frames whose payload `frame_parsed`
has parsed. The lists of fields (`IPv4Layout`, `TCPLayout`, ...) stand for a run of calls of
`integer`, and both directions go through the same list as they do in the code.

In `TCPConnection` a step is one callback of the event loop with the
`collect_segments` that follows it. The actions are the rules of
`_initialize_TCP`: Receive is rule 1, Write rule 2, Read rule 3; rule 4, which
moves segments from `outgoing_segments_` to the network, is part of the wire,
where a segment may stay as long as it likes. Guards are the rules' interests.

`Internet` has the classes NetworkInterface, AsyncNetworkInterface and Router
unchanged, joined as tests/router.cc joins them. The state of all objects is `port`
(the interface of each host, and of each router, which `RouterOf` puts together) and `table`.
Every step is one call: Send is `send_datagram` by a host, Transmit `maybe_send` with the
`recv_frame` of each port that hears the frame, Route `route()`, Receive
`maybe_receive`, Tick `tick` on all. A frame that stays in a queue while others move is a
slow one, so that requests, replies and datagrams of different ports come in every order; frames of one
port stay in order, as on an Ethernet. A frame may be missed by any of the ports that should hear
it, and a host may come back with another Ethernet address.
`unordered_map` lists its entries in an order that nothing fixes: `Listings` has all.

## 3. Runs

| run | question | result |
|---|---|---|
| `wrap32` | is `unwrap` the closest, and never off by a block? | holds |
| `byte_stream` | is a ByteStream a reliable stream? | holds |
| `reassembler` | is a Reassembler behind any network a reliable stream, exact in its counter, complete in what it keeps? | holds |
| `reassembler_capacity` | does it discard what lies beyond the capacity (reassembler.hh:36-37)? | **violated** |
| `sender` | tiling, window, left edge, timer, back-off, for the socket's calling discipline | holds |
| `connection` | with loss, duplication and reordering, does everything arrive, through a window of one? | holds |
| `connection_both_ways` | data both ways, two segments in flight each way | holds |
| `connection_last_ack` | does a socket that reached EOF and closed always finish (tcp_minnow_socket.hh:69-72)? | **violated** by one loss |
| `internet` | do ARP and routing deliver each datagram at most once, forget none, know only their neighbours' addresses, keep requests apart and come to rest? | holds |
| `internet_second_datagram` | do datagrams that wait for an ARP reply queue (network_interface.hh:71)? | **violated** by a second one |
| `program` | does a program with a socket carry every byte both ways and end, whatever its threads, a reset, or a failing stdout do, and does no loop spin or throw? | holds |
| `datagrams` | does an adapter read exactly what its peer wrote, through bytes, checksums, a changed byte, ARP, a second client? | holds |

**The violations.**
`reassembler_capacity`: line 52 of reassembler.cc overwrites the cut at the end of
the capacity whenever a block is stored below the end of the data. Byte 1 arrives,
then bytes 2 to 7, capacity 4: seven bytes are stored. `Integrity`,
`PendingExact` and `Reliable` hold nevertheless: `Writer::push` drops what does
not fit, the peer sends it again.
`connection_last_ack`: there is no TIME-WAIT. The end that receives the last FIN
acknowledges it and is no longer active; if that acknowledgment is lost the other
end retransmits FIN for ever. Without a loss the property holds on the same
instance.
`internet_second_datagram`: `send_datagram` caches a datagram only together with the
request it causes. Of two datagrams sent before the reply the second is dropped.

**Bounds.**

* `wrap32`: 3-bit values in a 5-bit space, four blocks: the first, the last and
  two between. Every zero point. Proved for all widths as well.
* `byte_stream`: source a little longer than the capacity of four, so that
  writers are refused and the buffer turns over. Proved for all sizes as well.
* `reassembler`: 8 bytes, capacity 5. Three blocks can be pending at once behind a gap
  (bytes 1, 3, 5, say), with bytes beyond the capacity; a new stretch can start
  and end before, in, or after each of them. All 45 stretches in all orders; the
  number of insertions is not bounded. Proved for all sizes as well, `Reliable` and
  `LoopsAgree` excepted.
* `sender`: 5 bytes, messages of at most 2 (so that a message can be
  acknowledged in part), windows 0 to 4 (`MaxWindow`), initial timeout 2 ticks,
  at most 2 consecutive retransmissions (`MaxTimeouts`).
  The number of acknowledgments is not bounded. Proved for all sizes as well, `LoopsAgree` excepted.
* `connection`: two bytes, one-byte messages, receive capacity 1, at most one
  loss (`MaxLosses`), and a timeout may come while one segment is still on the way
  (`Early`), which is how duplicates arise. With no bound on `Early` the number
  of copies on the way is not bounded either.
* `connection_both_ways`: one byte each way and capacity 2, so that a byte and FIN are in
  flight together, and the streams of both ends open and close against each
  other.
* `internet`: addresses of three bits, prefixes of length 0 to 2. Five ports, so that the
  right Ethernet has three, one of which hears what the others say to each other.
  One datagram crosses one router; the other, to an address nobody has, is sent from r
  to s and back until its time to live, 3, ends. The clock goes to 6 (`MaxTime`) in steps
  of 2; requests last 3 and addresses 4, so that a request expires between two
  sweeps and an address learned early is forgotten while frames are on the way. At most
  one fault (`MaxFaults`), a port that misses a frame or a restart of b.
  No host's address is a next hop, so that `DeliveredOnce` says all it can of each of them.
  Proved for every topology and any number of faults as well, `Settles` excepted. The run `internet_second_datagram` has no time and no faults.
* `program`: one byte from stdin, two from the other end; the four streams hold two bytes
  and each kernel buffer one (`PipeCapacity`), so that a write of two bytes is partial, a
  full pipe is met in both directions, and the window is smaller than what is to come. At
  most one of: a reset, a reader of stdout that leaves, a copy that throws
  (`Disturbances`), at any moment. The program connects or listens.
* `datagrams`: two clients with the same port, one server; two segments from one
  client, one each from the other and the server; at most one fault (`MaxFaults`): a dropped read,
  a dropped write, a byte of an IPv4 frame that is one more than it was, or time enough for an
  ARP request to be repeated. A payload is chosen so that the sum of the words carries
  twice, and a sequence number so that its halves do. `SplitsAgree` cuts each frame in three
  ways: one buffer, the adapter's own, and one that splits fields. ARP messages are not
  changed: nothing in them could tell (section 6).
* Sequence numbers: `Modulus` is more than twice the length of what is sent, as
  2^32 is more than twice any window: old duplicates that outlive the sequence
  space are outside the model, as they are outside the protocol (TCP's maximum
  segment lifetime).

**Deadlock** is checked except in the `connection`, `internet`, `program` and `datagrams` runs. In the former both
peers finish and everything stops; there `Reliable` says that they do not stop early. In
the latter the programs have sent all they had and the clock has reached its bound;
`Settles` says what the state is then. The program ends (`Terminates`), or is ended by
a signal; in `datagrams` everything was written and heard.

**Fairness.** `ByteStreamSpec`: each program keeps calling. `ReassemblerSpec`:
the peer keeps sending the byte that is wanted, alone, and FIN alone (the least
that retransmission gives); no stretch of several bytes need ever come.
`TCPConnection`: each rule whose interest holds is run, which is what
`poll(2)` in `wait_next_event` gives; the timer of a peer expires *at the latest when
nothing is on the way* (a real timer expires anyway); nothing is assumed of
losses but their bound. `Internet`: the owner of an interface empties its queue, a
router calls `route()` while it holds datagrams, a host takes what arrived, which is
the loop of `simulate` in tests/router.cc; nothing is assumed of Send, AddRoute, Tick or
Restart, nor of frames being heard. `MinnowProgram`: each thread takes a step while it can, which is
what the scheduler and `poll(2)` give (`PollReturns` is when poll does); the other end answers and sends what it has;
stdin is fed and closed and stdout read. Nobody has to leave, reset or throw.
Weak fairness is written out in three modules as
`[]<>~Guard \/ []<><<Action>>_vars`, with the guard that enables the action:
TLC evaluates that without enumerating the action for ENABLED.

**Abstraction of time in `TCPConnection`.** `rt_timeout` is 0, so that a running
timer has always expired and Tick is a timeout at any moment the bound allows.
The doubling of the timeout and the counter of retransmissions are therefore not
seen there (the counter, which nothing in the stack reads, is reset after each
step); they are what the run `sender` checks with real values
(`BackoffExact`).

## 4. Proofs

A theorem about a specification is in a module of its own, `X_proofs` for `XSpec` or `X`, with the
inductive invariant it needs. What is true of the operators alone is in `DataLemmas` (numbers, slices, the
byte stream, the reassembler and a whole `insert`) and in `TCPSenderLemmas` (what a sender and its
stream keep in each call), which the proofs of the components and of the connection share.

| theorem | states |
|---|---|
| `Wrap32_proofs!UnwrapCorrect` | `Spec => []UnwrapIsClosest` |
| `Wrap32_proofs!TrackingCorrect` | `Spec => NeverLosesTrack` |
| `ByteStream_proofs!TypeCorrect` | `Safety => []TypeOK` |
| `ByteStream_proofs!AccountingCorrect` | `Safety => []Accounting` |
| `ByteStream_proofs!EndCorrect` | `Safety => []EndIsLast` |
| `ByteStream_proofs!ByteStreamIsReliable` | `Safety => RS!Safety` |
| `Reassembler_proofs!TypeCorrect` | `Safety => []TypeOK` |
| `Reassembler_proofs!IntegrityCorrect` | `Safety => []Integrity` |
| `Reassembler_proofs!BlocksCorrect` | `Safety => []BlocksOK` |
| `Reassembler_proofs!PendingCorrect` | `Safety => []PendingExact` |
| `Reassembler_proofs!ClosesCorrect` | `Safety => []ClosesAtEnd` |
| `Reassembler_proofs!StoresCorrect` | `Safety => []StoresWhatFits` |
| `Reassembler_proofs!KeepsCorrect` | `Safety => KeepsInWindow`, of every step |
| `Reassembler_proofs!ReassemblerIsReliable` | `Safety => RS!Safety` |
| `TCPSender_proofs!TypeCorrect` | `Spec => []TypeOK` |
| `TCPSender_proofs!OutstandingCorrect` | `Spec => []OutstandingOK` |
| `TCPSender_proofs!NothingLostCorrect` | `Spec => []NothingLost` |
| `TCPSender_proofs!TimerCorrect` | `Spec => []TimerRuns` |
| `TCPSender_proofs!BackoffCorrect` | `Spec => []BackoffExact` |
| `TCPSender_proofs!WindowCorrect` | `Spec => WithinWindow`, of every step |
| `TCPSender_proofs!LeftEdgeCorrect` | `Spec => LeftEdgeOK`, of every step |
| `TCPConnection_proofs!NothingForgottenCorrect` | `Safety => []NothingForgotten` |
| `TCPConnection_proofs!FinishedCorrect` | `Safety => []FinishedIsDone` |
| `TCPConnection_proofs!ConnectionIsReliable` | `Safety => ReliableSafety`, the safety of `ReliableStream` in each direction |
| `Internet_proofs!TypeCorrect` | `Safety => []TypeOK` |
| `Internet_proofs!OwnersCorrect` | `Safety => []OwnersOnly` |
| `Internet_proofs!WaitingCorrect` | `Safety => []WaitingIsUnknown` |
| `Internet_proofs!RequestsCorrect` | `Safety => RequestsApart`, of every step |
| `Internet_proofs!DeliveredCorrect` | `Safety => []DeliveredOnce` |

They hold for every value of the constants under the named assumptions:
`ModulusAssumption` (the wide modulus is a proper multiple of the narrow one, as
2^64 is of 2^32), `SourceAssumption` (a sequence of bytes; for the sender, also more than twice
as short as the sequence space, as any window is, and for the connection the same of both sources), `CapacityAssumption`
(a positive capacity), `LengthAssumption` (the stream of a reassembler is shorter than
`UINT64_MAX`, the mark of an end not known yet), `PayloadAssumption` and `SenderAssumption`
(positive sizes and timeouts), `WindowAssumption` (the largest window is a natural number). Of an internet, `TopologyAssumption` (no two ports have the same IP
address, the ports of routers are no hosts, no router has a port twice, and no card has the broadcast address),
`TimeAssumption` (no mapping learned before the clock stops would expire at `UINT64_MAX`
or later: a count of milliseconds in 64 bits gets nowhere near, and the
entry a port has for itself expires then), `DatagramAssumption` (next hops
and destinations are 32-bit addresses, every route leads out of an interface there is, and no two
datagrams have the same id), and, of `NetworkInterface`, positive timeouts.

*Wrap32.* Absolute numbers that wrap to the same value differ by multiples of the
modulus. The first candidate lies in the checkpoint's block; the number that wraps
to the value and is closest lies in that block or in the next one on the
checkpoint's other side. The cases where that neighbour leaves the 64-bit range are
separate: there its wrapped value is farther than the first candidate.
Tracking adds that two numbers with the same value that are both closer than half
the modulus to the checkpoint are equal; its invariant is that the number on its
way is always that close.

*ByteStream.* `Accounting` is inductive together with the types: `push` appends the
slice of the source that begins at `bytes_pushed_`, `read` takes the one that begins
at `bytes_popped_`, and slices that meet join (`DataLemmas`). `EndIsLast` needs
it to show that the reader who sees the end has read the whole source, which is the
step of the refinement that is not immediate.

*Reassembler.* The properties are inductive only together: that every block is a slice of the
source (`Integrity`) needs that blocks do not overlap (`BlocksOK`), and both need the
stream's own accounting, which comes from `DataLemmas`. In the middle of
`insert` less is true than between two calls: after the substring is stored and before the
stored bytes are written, a block may begin at the next byte itself. So the lemmas about
`_insert_to_buffer` have a weaker statement of `BlocksOK`, and the loop that writes restores the
stronger one. What is stored, as a set of indices, is what was stored and the part of the
substring that was kept (`StoresWhatFits`, `KeepsInWindow`).
The counter is the number of stored indices. The model adds up the lengths of the
blocks with a fold over a set, whose order nothing fixes; the lemmas show that on disjoint
blocks it is the cardinality of their union, whatever the order, by a least counterexample among the
sizes of the set.

*TCPSender.* The outstanding messages tile the numbers from the left edge to what was taken
from the stream, SYN and FIN included (`OutstandingOK`); it is kept by an acknowledgment because
the messages below it are a prefix of them in order. Each message in the send queue is one
of these or of their predecessors, so that nothing was sent that the tiling does
not cover. An acknowledgment that the peer may send lies close enough to the numbers in
flight for `unwrap` to undo `wrap`; here `SourceAssumption` and the theorems of `Wrap32` are used.
Given the tiling, `NothingLost` follows from what `push` takes from the stream, and
`WithinWindow` from where it stops. The timer runs exactly while something is outstanding, with the exception
of a message that is queued and not yet sent; `TimerRuns` and `BackoffExact` are inductive with
that exception named. `BackoffExact` cites `FS_SUBSET` of the library, whose proof uses
`2^(n+1) = 2^n + 2^n`, which the library states and does not prove with these provers.

*TCPConnection.* The invariant (`Inv`) has three parts. `Endpoint`: a sender has what `TCPSender_proofs` shows of one
(`Sends`: the tiling, the numbers it may use, its timer), and a receiver what `Reassembler_proofs` shows (`Hears`),
with the *other* end's sender in the place of the source: what is stored is a slice of what that sender took
from its stream, and what is assembled and acknowledged is no more than the numbers it used; the left edge
of a sender is in turn no more than what its peer acknowledges. `InFlight`: a segment on the wire is a stretch of its
sender's source, below the numbers it has used, and carries an acknowledgment no greater than the one its sender would
give now. Both bounds only grow, so that a segment that was sound when it was sent is sound when it arrives, however late,
and in whatever order and however often; this is what makes the invariant inductive under loss, duplication and
reordering. It is also where `wrap` and `unwrap` of two ends meet: the numbers on the wire lie within
half the sequence space of what the one who unwraps them has counted, by the assumption on the sources. `HasRead`: what the
program at one end has read is what the other one's has written, from the beginning. `ReliableSafety` follows from it
for each step.
`NothingForgotten` needs that between callbacks no segment is left in a queue and that the sender that was acknowledged has pushed all
it could (`Rests`, `Exhausted`): `collect_segments` calls `maybe_send` until nothing is left, and as it is a fold over
a set in the model, it is first shown to be a sequence of calls (a least counterexample again). `FinishedIsDone` follows
from that and from the left edges: a sender with nothing in flight that has pushed all it could, and
whose stream has ended, was acknowledged up to its FIN, so that the peer has assembled all of it.

*Internet.* `OwnersOnly` alone is not inductive: what a port learns depends on the frames that others
have queued. The invariant says what each frame may claim. The address that an ARP message
gives for its sender is one its owner has or had; a request is about its sender's own address and never asks for
that one; a reply about one IP address goes to a card of the owner of another. So nothing that
a port hears is about itself, and its entry for itself, which is where its own requests and replies
come from, is never overwritten; nor does it expire, by `TimeAssumption`. Answers
from memory are covered: what is remembered was true once.
`WaitingIsUnknown` is kept by learning, which sends all that waits for what is learned, and needs that
expiring an address does not concern what waits for it: nothing waits for a known one.
`RequestsApart` needs the timers of an interface compared with the times at which it asked, which
is `Paced`: for each address, the last request is at least the timeout ago, or its timer
is still there and has exactly as long to run. The sweep of `tick` removes a timer only
when it has run out, and the guard in `send_datagram` asks for more than that. Restarts keep it as
the interface that forgets its timers is one that `asked` starts anew for.
Two operators of this module are recursive functions of the library, the fold in which a router takes its
interfaces in turn and the `FlattenSeq` of what they hold: what they give is shown for the
first k interfaces, with a least counterexample in the place of induction.
`DeliveredOnce` has an invariant of its own, `OnceInv`, on top of that one. Its first part (`Separate`) gives each copy
a place: a frame in a queue, a datagram that waits for an address, one in the inbox of a host or router, one that
a host took. Copies at different places have different ids. Each operation of an interface is
shown to hold afterwards only what it held, each at one place, and at most the one datagram
that was brought in (`QueuesCarry`). When a frame is heard, it leaves the queue of the
one who sent it in the same step, and only the one port whose card it is addressed to takes it: no two cards have
the same address, now or after a restart. When a router routes, the fold empties its inboxes into its interfaces one
datagram at a time, and what is still to be routed is kept apart from what was. The second part (`FromSent`)
says that every id is of a datagram that was sent, and so not of one that will be.
What can be on its way to an address is in the first invariant (`Bound`): to one that is no next hop, only
what is for exactly it, from a router that attaches it directly and has decremented the time to live.
A host that is a next hop, of another host or of a route, may be handed what is for somebody else,
and does take it: `recv_frame` looks at the Ethernet address only. So that part of the property is about the other hosts (`NextHops`).

Only model-checked: liveness (`Reliable` in three runs, `Settles`, `Terminates`), which no
installed prover can do under fairness; `LoopsAgree`, as the loops are recursive operators;
`MinnowProgram` (`Integrity`, `NoFault`, `DoneIsComplete`; section 5); and `Datagrams`
(`ReadIsWritten`, `ReadsWhole`, `SplitsAgree`), whose parsers and checksums are folds over bytes: what
they compute for every frame would be an induction over data.

## 5. Plan

What is left to prove is `Integrity` of `MinnowProgram`: that what is in each pipe and stream follows what was
read from the one before, by the lemmas of `DataLemmas`, with the invariant of `TCPConnection_proofs`
for the end that runs in the thread. `DoneIsComplete` and `NoFault` need in addition
what each thread may assume of the other's callbacks, at every point of its loop.

All the modules of the first plan are written. `Parser`, `Headers`, `TCPOverIP` and the
event loop are checked by their runs only.

## 6. Source facts worth knowing

* The stack never sends a window update on its own: a program that reads does not make
  its peer send. Progress after a zero window depends on the sender's probe.
* `MAX_RETX_ATTEMPTS` (`tcp_config.hh:17`) is read nowhere.
* `TCPSender::m_timer_` and `TCPReceiver::m_fin_rcvd` are written and never read.
* `Reassembler::_insert_to_buffer` reads `end()->first` when nothing is stored
  (`reassembler.cc:62`); the loop that follows cannot run on what it finds, and the model has
  the outcome that is left.

* `NetworkInterface` answers ARP requests for every address in its map, not only its
  own, and learns from such answers: an old address may outlive its owner's restart, and
  each answer gives it another 30 seconds. `OwnersOnly` says what can be said.
* A request is not repeated by time alone: when it is lost, its datagram waits until another one
  is sent to the same next hop. Waiting datagrams do not expire.
* A datagram sent to an address whose ARP mapping is old is lost without notice.
* `Router::route_datagram` drops a datagram without a route, or at the end of its time to
  live, and tells nobody (there is no ICMP).
* An old acknowledgment's window is taken as that of the newest (`tcp_sender.cc:173`; the window is
  to be counted "starting from the ackno", `tcp_receiver_message.hh:15-16`): the sender may send
  beyond what its peer has room for. What is beyond is dropped and sent again.
* `RouteTable::insert` never erases a next hop (`router.cc:21`): a prefix that had one and is added
  again as directly attached keeps it, against the comment at lines 78-79. Of two
  prefixes that differ only behind the mask, the order of an `unordered_map` chooses (`router.cc:35`).
* The destructor of a socket sends no RST (`tcp_minnow_socket.hh:80,126` say it does): it stops the
  thread, and the other end is left to itself.
* After a reset the inbound bytes that are buffered are still written to the owner, and then
  the owner reads an end of the stream like any other: a stream cut short cannot be told from a whole one.
  When the owner has gone by then, that write ends the program with SIGPIPE (`NoFault` allows it
  after a reset, and when the reader of stdout has left).
* `Writer::push` takes bytes on a closed stream. Rule 2's cancel callback closes the outbound
  stream without `push`; the FIN goes out with the `collect_segments` of the tick.
* `wait_until_closed` on a socket that has not reached EOF may wait for ever, as its comment says:
  the copy ends so when the reader of stdout leaves.
* A rule that is not interested, on a descriptor that is hung up, makes `poll` return at once, each
  time, until the rule is dropped (`eventloop.cc:203`). Only the first ready rule is served in
  a call (`eventloop.cc:224`): those behind it wait.
* A read that would block leaves its buffer full of zeros (`file_descriptor.cc:90-94`). The
  rules read only what poll reported, and nobody else reads the same end, so that it never comes to that.
* `IPv4Datagram::parse` takes all that remains for the payload, whatever the length in the header
  (`ipv4_datagram.hh:19`): on a link that pads short frames, the padding becomes data of the
  segment if it is zero, as the checksum does not see it; and zeros cut off at the end
  are not noticed either. TUN and TAP devices do not pad.
* An IPv4 header with options, or with its reserved flag set, never passes the
  checksum: it is computed from the fields that were kept.
* ARP messages have no checksum. One that has the interface's own IP address as its sender's
  overwrites the interface's entry for itself.
* `TCPSender::tick` reads `begin()` of its map when the timer expires with nothing outstanding.
  That would need a stale retransmission in the queue; `collect_segments` leaves none (`TimerRuns`).

## 7. Not modelled

* Of EventLoop: rules without a descriptor, `RuleHandle::cancel` and `recover`, which nothing in
  the repository uses.
* The data race on the counters of the owner's descriptor (`tcp_minnow_socket.cc:296`): the
  counts are exact in `MinnowProgram`.
* A reset by this end: nothing in the stack makes its streams fail.
* Loss and time in `MinnowProgram`, and threads in `TCPConnection`: the first leaves
  the network out, the second the threads. Both use `TCPPeer` and `collect_segments` unchanged.
* `endtoend`'s network thread, its debugging output and the UDP socket: what it runs, a Router with two
  interfaces, is in `Internet`.
* Sockets of the operating system and the programs that use only them (webget, tcp_native,
  iptest), addresses, the TUN device, random numbers: arguments for system calls. Command lines and logging.
