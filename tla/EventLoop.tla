----------------------------- MODULE EventLoop -----------------------------
(***************************************************************************)
(* The class EventLoop (src/util/eventloop.hh, eventloop.cc): a list of    *)
(* rules, each on a file descriptor and for one direction.  A call of      *)
(* wait_next_event is two steps, because what poll reports may be stale    *)
(* when it is used: another thread runs in between.  The first prunes the  *)
(* rules, asks the others whether they are interested and polls; the       *)
(* second drops the rules whose descriptor is defunct and serves one.      *)
(*                                                                         *)
(* A rule is a name; what a program gives to add_rule with it are the      *)
(* constants below, operators on the program's state.  No rule of the      *)
(* repository has a recover callback: the default, which does not recover, *)
(* stands for it.  Rules without a descriptor and RuleHandle::cancel are   *)
(* left out: no program uses them.                                         *)
(***************************************************************************)
EXTENDS Naturals, Sequences, SequencesExt

CONSTANTS In(_),            \* the rule's direction is Direction::In
          fd(_, _),         \* the FDWrapper of the rule's descriptor
          revents(_, _),    \* what poll reports of it
          interest(_, _), callback(_, _), cancel(_, _),
          uncounted(_),     \* the state with the counters of its descriptors at 0
          busy_wait(_)      \* the state in which wait_next_event has thrown

(***************************************************************************)
(* First step.  The rules are visited in the order they were added, and    *)
(* what one's cancel callback does is seen by those behind it.             *)
(***************************************************************************)
\* Fault: what ends a direction is taken to end both.
FinishedBothWays(r, s) == fd(r, s).closed_ \/ fd(r, s).eof_

finished(r, s) == fd(r, s).closed_ \/ (In(r) /\ fd(r, s).eof_)

visit(seen, r) ==
  IF finished(r, seen.state) THEN [seen EXCEPT !.state = cancel(r, @)]
  ELSE [seen EXCEPT !.rules = Append(@, r),
                    !.interested = IF interest(r, seen.state) THEN @ \cup {r} ELSE @]

set_up(rules, s) == FoldLeft(visit, [rules |-> <<>>, interested |-> {}, state |-> s], rules)

poll_ready(r, interested, s) ==
  r \in interested /\ (IF In(r) THEN "IN" ELSE "OUT") \in revents(r, s)

poll_hup(r, s) == "HUP" \in revents(r, s)
poll_error(r, s) == "ERR" \in revents(r, s)

\* A hangup alone, or any hangup for a rule that writes.
defunct(r, interested, s) ==
  \/ poll_error(r, s)
  \/ poll_hup(r, s) /\ (~In(r) \/ (r \in interested /\ ~poll_ready(r, interested, s)))

\* What poll returns for these rules: those to drop and those to serve.
poll(set, s) ==
  LET gone == {r \in Range(set.rules) : defunct(r, set.interested, s)}
  IN  [gone  |-> gone,
       ready |-> {r \in Range(set.rules) \ gone : poll_ready(r, set.interested, s)}]

no_events == [gone |-> {}, ready |-> {}]

(***************************************************************************)
(* Second step.  The first ready rule is served, and no rule behind it is  *)
(* looked at.                                                              *)
(***************************************************************************)
served(rules, polled) ==
  {i \in DOMAIN rules : /\ rules[i] \in polled.ready
                        /\ \A j \in 1 .. i - 1 : rules[j] \notin polled.ready}

dropped(rules, polled) ==
  SelectSeq(rules, LAMBDA r : /\ r \in polled.gone
                              /\ \A i \in served(rules, polled) : r \in Range(SubSeq(rules, 1, i)))

service_count(r, s) == IF In(r) THEN fd(r, s).read_count_ ELSE fd(r, s).write_count_

serve_rule(r, s) ==
  LET after == callback(r, uncounted(s))
  IN  IF service_count(r, after) = 0 /\ ~fd(r, after).closed_ /\ interest(r, after)
      THEN busy_wait(after) ELSE uncounted(after)

serve(rules, polled, s) ==
  LET canceled == FoldLeft(LAMBDA state, r : cancel(r, state), s, dropped(rules, polled))
  IN  [rules |-> SelectSeq(rules, LAMBDA r : r \notin Range(dropped(rules, polled))),
       state |-> IF served(rules, polled) = {} THEN canceled
                 ELSE serve_rule(rules[CHOOSE i \in served(rules, polled) : TRUE], canceled)]
=============================================================================
