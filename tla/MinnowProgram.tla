--------------------------- MODULE MinnowProgram ---------------------------
(***************************************************************************)
(* The programs tcp_ipv4 and endtoend (src/apps): connect or listen with a *)
(* TCPMinnowSocket, run bidirectional_stream_copy on it, and wait until it *)
(* is closed.  Two threads work on the two ends of a socket pair: the      *)
(* owner runs the event loop of the copy, the TCP thread the one of the    *)
(* socket, and each of them may be overtaken by the other between what     *)
(* poll reports and what it does about it.                                 *)
(*                                                                         *)
(* Around them: a feeder writes OwnerSource to stdin and leaves, a screen  *)
(* reads stdout and may leave early, and the remote program sends          *)
(* RemoteSource, or resets the connection.                                 *)
(***************************************************************************)
EXTENDS BidirectionalStreamCopy

CONSTANTS OwnerSource, RemoteSource,   \* the bytes each side has to send
          Capacity,       \* of the four streams (send, receive, and the copy's two)
          Disturbances    \* bound: what may happen, at most one of it

ASSUME ProgramAssumption ==
  /\ OwnerSource \in Seq(Nat \ {0}) /\ RemoteSource \in Seq(Nat \ {0})
  /\ 2 * (Len(OwnerSource) + 3) < Modulus /\ 2 * (Len(RemoteSource) + 3) < Modulus
  /\ OwnerISN \in UInt32 /\ RemoteISN \in UInt32
  /\ Capacity \in Nat \ {0}
  /\ Disturbances \subseteq {"reset", "leave", "throw"}

VARIABLES sys,    \* the state of the program, of the kernel and of what is outside
          loop,   \* of each thread: its rules and what poll reported
          at      \* where each thread is

vars == <<sys, loop, at>>

Config == [rt_timeout |-> 1, fixed_isn |-> OwnerISN,
           send_capacity |-> Capacity, recv_capacity |-> Capacity]

Init ==
  /\ sys = [kernel  |-> NewKernel,
            fd      |-> [e \in Ends \cup {"datagrams"} |-> FDWrapper],
            fault   |-> "none",
            socket  |-> TCPMinnowSocket(Config),
            copy    |-> bidirectional_stream_copy(Capacity),
            outside |-> [arrived |-> <<>>, remote |-> Remote, fed |-> 0,
                         delivered |-> <<>>, eof |-> FALSE, left |-> FALSE]]
  /\ loop = [thread |-> [rules |-> <<"receive", "push", "deliver", "send">>,
                         polled |-> [gone |-> {}, ready |-> {}]],
             owner  |-> [rules |-> <<"stdin", "to socket", "from socket", "stdout">>,
                         polled |-> [gone |-> {}, ready |-> {}]]]
  /\ at = [thread |-> "start", owner |-> "start"]

(***************************************************************************)
(* The rules of the two event loops.                                       *)
(***************************************************************************)
EndOf(r) ==
  CASE r \in {"receive", "send"} -> "datagrams"
    [] r \in {"push", "deliver"} -> "thread"
    [] r = "stdin" -> "stdin"
    [] r \in {"to socket", "from socket"} -> "owner"
    [] r = "stdout" -> "stdout"

RuleIn(r) == r \in {"receive", "push", "stdin", "from socket"}

RuleFd(r, s) == s.fd[EndOf(r)]

RuleEvents(r, s) ==
  IF EndOf(r) # "datagrams" THEN poll_events(s.kernel, EndOf(r))
  ELSE {"OUT"} \cup (IF s.outside.arrived # <<>> THEN {"IN"} ELSE {})

RuleInterest(r, s) ==
  CASE r = "receive" -> wants_segment(s)
    [] r = "push" -> wants_bytes(s)
    [] r = "deliver" -> has_bytes(s)
    [] r = "send" -> has_segments(s)
    [] r = "stdin" -> wants_stdin(s)
    [] r = "to socket" -> has_outbound(s)
    [] r = "from socket" -> wants_socket(s)
    [] r = "stdout" -> has_inbound(s)

RuleCallback(r, s) ==
  CASE r = "receive" -> receive_segment(s)
    [] r = "push" -> push_bytes(s)
    [] r = "deliver" -> deliver_bytes(s)
    [] r = "send" -> send_segments(s)
    [] r = "stdin" -> read_stdin(s)
    [] r = "to socket" -> write_socket(s)
    [] r = "from socket" -> read_socket(s)
    [] r = "stdout" -> write_stdout(s)

RuleCancel(r, s) ==
  CASE r = "push" -> close_outbound(s)
    [] r \in {"stdin", "to socket"} -> close_copy_outbound(s)
    [] r \in {"from socket", "stdout"} -> close_copy_inbound(s)
    [] OTHER -> s

Thrown(s) == IF s.fault = "none" THEN faulty(s, "throw") ELSE s

EventLoop == INSTANCE EventLoop
  WITH In <- RuleIn, fd <- RuleFd, revents <- RuleEvents, interest <- RuleInterest,
       callback <- RuleCallback, cancel <- RuleCancel, uncounted <- uncounted,
       busy_wait <- Thrown

Running == sys.fault = "none"

outside == sys.outside
undisturbed == ~outside.remote.reset /\ ~outside.left /\ ~sys.socket._abort
MayHappen(disturbance) == disturbance \in Disturbances /\ undisturbed

(***************************************************************************)
(* The TCP thread (or the owner, in connect and listen_and_accept):        *)
(* _tcp_loop.  An event loop with nothing to poll ends.  The tick of an    *)
(* iteration without events is part of its poll.                           *)
(***************************************************************************)
Waiting ==
  CASE at.owner = "connect" -> connecting(sys)
    [] at.owner = "accept" -> accepting(sys)
    [] OTHER -> TRUE

LeaveLoop ==
  at' = IF at.owner \in {"connect", "accept"} THEN [at EXCEPT !.owner = "copy"]
        ELSE [at EXCEPT !.thread = "end"]

ThreadPoll ==
  /\ Running /\ at.thread = "loop" /\ Waiting
  /\ \E set \in {EventLoop!set_up(loop.thread.rules, sys)} :
       \E polled \in {EventLoop!poll(set, set.state)} :
         /\ loop' = [loop EXCEPT !.thread.rules = set.rules,
                       !.thread.polled = IF set.interested = {} THEN @ ELSE polled]
         /\ IF set.interested = {} THEN sys' = set.state /\ LeaveLoop
            ELSE IF polled = EventLoop!no_events
            THEN /\ sys' = IF sys.socket._abort THEN set.state ELSE ticked(set.state)
                 /\ IF sys.socket._abort THEN LeaveLoop ELSE UNCHANGED at
            ELSE sys' = set.state /\ at' = [at EXCEPT !.thread = "serve"]

ThreadServe ==
  /\ Running /\ at.thread = "serve"
  /\ \E result \in {EventLoop!serve(loop.thread.rules, loop.thread.polled, sys)} :
       /\ loop' = [loop EXCEPT !.thread = [rules |-> result.rules, polled |-> EventLoop!no_events]]
       /\ IF result.state.fault # "none" \/ sys.socket._abort THEN sys' = result.state
          ELSE sys' = ticked(result.state)
  /\ at' = [at EXCEPT !.thread = IF sys.socket._abort THEN "end" ELSE "loop"]

\* connect or listen_and_accept returns, and the thread starts.
Connected ==
  /\ Running /\ at.thread = "loop" /\ ~Waiting
  /\ at' = [at EXCEPT !.owner = "copy"]
  /\ UNCHANGED <<sys, loop>>

\* The rest of _tcp_main.
ThreadEnd ==
  /\ Running /\ at.thread = "end"
  /\ sys' = uncounted(shut_down(sys))
  /\ at' = [at EXCEPT !.thread = "done"]
  /\ UNCHANGED loop

(***************************************************************************)
(* The owner.                                                              *)
(***************************************************************************)
Start ==
  /\ at.owner = "start"
  /\ \/ at' = [owner |-> "connect", thread |-> "loop"] /\ sys' = connect(sys)
     \/ at' = [owner |-> "accept", thread |-> "loop"] /\ UNCHANGED sys
  /\ UNCHANGED loop

\* The copy waits in poll for as long as it takes.
OwnerPoll ==
  /\ Running /\ at.owner = "copy"
  /\ \E set \in {EventLoop!set_up(loop.owner.rules, sys)} :
       \E polled \in {EventLoop!poll(set, set.state)} :
         /\ loop' = [loop EXCEPT !.owner.rules = set.rules,
                       !.owner.polled = IF set.interested = {} THEN @ ELSE polled]
         /\ sys' = set.state
         /\ at' = [at EXCEPT !.owner = IF set.interested = {} THEN "close"
                                       ELSE IF polled = EventLoop!no_events THEN @
                                       ELSE "serve"]

OwnerServe ==
  /\ Running /\ at.owner = "serve"
  /\ \E result \in {EventLoop!serve(loop.owner.rules, loop.owner.polled, sys)} :
       /\ loop' = [loop EXCEPT !.owner = [rules |-> result.rules, polled |-> EventLoop!no_events]]
       /\ sys' = result.state
  /\ at' = [at EXCEPT !.owner = "copy"]

\* wait_until_closed: shut the socket, and wait.
WaitUntilClosed ==
  /\ Running /\ at.owner = "close"
  /\ sys' = uncounted(shut_down(sys))
  /\ at' = [at EXCEPT !.owner = "wait"]
  /\ UNCHANGED loop

Join ==
  /\ Running /\ at.thread = "done"
  /\ \/ at.owner = "wait" /\ at' = [at EXCEPT !.owner = "done"]
     \/ at.owner = "abort" /\ at' = [at EXCEPT !.owner = "aborted"]
  /\ UNCHANGED <<sys, loop>>

\* A read or a write of stdin or stdout fails: the copy throws, and the socket
\* is destroyed (tcp_minnow_socket.cc:206-218).
Throw ==
  /\ MayHappen("throw") /\ Running /\ at.owner = "serve"
  /\ sys' = abort(sys)
  /\ at' = [at EXCEPT !.owner = "abort"]
  /\ UNCHANGED loop

(***************************************************************************)
(* Outside.                                                                *)
(***************************************************************************)
FeederCan == ~sys.kernel["stdin"].rcv /\ room(sys.kernel, "feeder") > 0

Feed ==
  /\ FeederCan
  /\ sys' = IF sys.outside.fed < Len(OwnerSource)
            THEN [sys EXCEPT !.kernel = put(@, "feeder", <<OwnerSource[sys.outside.fed + 1]>>),
                             !.outside.fed = @ + 1]
            ELSE [sys EXCEPT !.kernel = shut(@, "feeder", {"WR"})]
  /\ UNCHANGED <<loop, at>>

ScreenCan ==
  LET screen == sys.kernel["screen"]
  IN  ~sys.outside.left /\ (screen.queue # <<>> \/ (screen.rcv /\ ~sys.outside.eof))

ScreenRead ==
  LET screen == sys.kernel["screen"]
  IN  /\ ScreenCan
      /\ sys' = [sys EXCEPT !.kernel = take(@, "screen", Len(screen.queue)),
                            !.outside.delivered = Joined(@, screen.queue),
                            !.outside.eof = screen.rcv]
      /\ UNCHANGED <<loop, at>>

ScreenLeaves ==
  /\ MayHappen("leave") /\ ~outside.eof
  /\ sys' = [sys EXCEPT !.kernel["stdout"].snd = TRUE, !.kernel["screen"].queue = <<>>,
                        !.outside.left = TRUE]
  /\ UNCHANGED <<loop, at>>

\* The remote program's sequence numbers from k on, up to end.
RemoteMessage(k, end) ==
  TCPSenderMessage(Wrap32_wrap(k, RemoteISN), k = 0 /\ end > 0,
                   Slice(RemoteSource, Most(k - 1, 0), Least(end - 1, Len(RemoteSource))),
                   end = Len(RemoteSource) + 2 /\ k < end)

RemoteAnswer(remote) ==
  [ackno |-> IF remote.got = 0 THEN {} ELSE {Wrap32_wrap(remote.got, OwnerISN)},
   window_size |-> Capacity]

\* It takes part once one side has sent its SYN, while the adapter's file has
\* room and the connection stands.
RemoteReady ==
  /\ sys.outside.arrived = <<>> /\ ~sys.outside.remote.reset
  /\ at.owner # "start"
  /\ at.owner = "connect" => sys.outside.remote.got > 0

\* All that was not acknowledged, as far as the window (or one number) goes, or
\* nothing but an acknowledgment.
RemoteSend ==
  LET remote == sys.outside.remote
      right  == IF remote.patient THEN remote.acked ELSE Most(remote.limit, remote.acked + 1)
  IN  /\ RemoteReady
      /\ \E end \in {remote.acked, Least(right, Len(RemoteSource) + 2)} :
           /\ end > remote.acked \/ remote.told < remote.got
           /\ sys' = [sys EXCEPT
                 !.outside.arrived = <<TCPSegment(RemoteMessage(remote.acked, end),
                                                  RemoteAnswer(remote), FALSE)>>,
                 !.outside.remote.told = remote.got,
                 !.outside.remote.patient = @ \/ end > remote.acked]
      /\ UNCHANGED <<loop, at>>

RemoteReset ==
  LET remote == sys.outside.remote
  IN  /\ MayHappen("reset") /\ RemoteReady /\ remote.got > 0
      /\ sys' = [sys EXCEPT
            !.outside.arrived = <<TCPSegment(RemoteMessage(remote.acked, remote.acked),
                                             RemoteAnswer(remote), TRUE)>>,
            !.outside.remote.reset = TRUE]
      /\ UNCHANGED <<loop, at>>

ThreadStep == ThreadPoll \/ ThreadServe \/ Connected \/ ThreadEnd
OwnerStep == Start \/ OwnerPoll \/ OwnerServe \/ WaitUntilClosed \/ Join

Next ==
  \/ ThreadStep \/ OwnerStep \/ Throw
  \/ Feed \/ ScreenRead \/ ScreenLeaves \/ RemoteSend \/ RemoteReset

(***************************************************************************)
(* Both threads go on while they can, and so does what is outside: stdin   *)
(* is written and closed, stdout is read, the remote program answers and   *)
(* sends all it has.  Nobody has to leave, to reset or to throw.           *)
(*                                                                         *)
(* This is the weak fairness of the actions, written out with guards that  *)
(* imply that a step is enabled and is no stutter: TLC finds ENABLED of    *)
(* such large actions slowly.  The feeder and the screen have finitely     *)
(* many steps to take, so that being fair to them is to let them finish.   *)
(***************************************************************************)
PollReturns(thread) ==
  LET rules == Range(loop[thread].rules)
      interested == {r \in rules : RuleInterest(r, sys)}
  IN  \/ interested = {}
      \/ \E r \in rules : EventLoop!finished(r, sys) \/ EventLoop!defunct(r, interested, sys)
      \/ \E r \in interested : EventLoop!poll_ready(r, interested, sys)

ThreadCan ==
  /\ Running
  /\ \/ at.thread \in {"serve", "end"}
     \/ at.thread = "loop" /\ (PollReturns("thread") \/ sys.socket._abort \/ ~Waiting)

OwnerCan ==
  /\ Running
  /\ \/ at.owner \in {"start", "serve", "close"}
     \/ at.owner \in {"wait", "abort"} /\ at.thread = "done"
     \/ at.owner = "copy" /\ PollReturns("owner")

RemoteCan ==
  LET remote == sys.outside.remote
  IN  /\ RemoteReady
      /\ remote.told < remote.got \/ (~remote.patient /\ remote.acked < Len(RemoteSource) + 2)

Steps(thread) == at'[thread] # at[thread] \/ loop'[thread] # loop[thread]
Sends == sys'.outside.arrived # sys.outside.arrived /\ sys'.outside.arrived # <<>>

Fairness ==
  /\ ([]<>~ThreadCan) \/ []<><<Steps("thread")>>_vars
  /\ ([]<>~OwnerCan) \/ []<><<Steps("owner")>>_vars
  /\ ([]<>~RemoteCan) \/ []<><<Sends>>_vars
  /\ []<>~FeederCan /\ []<>~ScreenCan

Spec == Init /\ [][Next]_vars /\ Fairness

(***************************************************************************)
(* Properties.                                                             *)
(***************************************************************************)

\* What leaves the program on each side is what entered it on the other, from
\* the first byte on; the remote program sees the end of the stream only after
\* the last byte, and the screen too unless the connection was reset.
Integrity ==
  /\ IsPrefix(outside.remote.received, OwnerSource)
  /\ outside.remote.eof => outside.remote.received = OwnerSource
  /\ IsPrefix(outside.delivered, RemoteSource)
  /\ outside.eof => outside.delivered = RemoteSource \/ outside.remote.reset

\* No event loop finds itself in a busy wait, no write is told that nothing was
\* written, and only a reset or a reader of stdout that left can make a thread
\* write where nobody reads.
NoFault ==
  /\ sys.fault # "throw"
  /\ sys.fault = "sigpipe" => outside.remote.reset \/ outside.left

\* A program that ends undisturbed has carried everything both ways.
DoneIsComplete ==
  at.owner = "done" /\ undisturbed =>
    /\ outside.remote.received = OwnerSource /\ outside.remote.eof
    /\ outside.delivered \o sys.kernel["screen"].queue = RemoteSource
    /\ sys.kernel["screen"].rcv

\* The program ends, unless the reader of stdout leaves: then the copy may end
\* before the socket has reached its end, and wait_until_closed "may wait
\* forever" (tcp_minnow_socket.hh:69-72).
Terminates == <>(at.owner \in {"done", "aborted"} \/ sys.fault # "none" \/ outside.left)
=============================================================================
