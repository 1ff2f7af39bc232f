------------------------------ MODULE QueueDemos ------------------------------
(***************************************************************************)
(* Two demos of the lock-free queues of Boost, whose push and pop are single *)
(* steps here.                                                               *)
(*                                                                           *)
(* lockfree (exam/boost_lockfree_queue.cpp): producers draw numbers from an  *)
(* atomic counter and push them until push succeeds; consumers pop until the *)
(* flag done is set and then drain once more; main sets done between joining *)
(* the producers and joining the consumers.                                  *)
(*                                                                           *)
(* spsc (exam/boost_queue.cpp): one thread pushes 1..Items into a queue of   *)
(* as many places and ignores whether push succeeded; another pops until it  *)
(* finds the queue empty; after both are joined main pops what is left.      *)
(***************************************************************************)
EXTENDS Integers, Sequences, FiniteSets

CONSTANTS Producers, Consumers, iterations, Items    \* see ProgramBounds

VARIABLE s    \* lockfree: queue, the two counts, done, per producer ppc, value
              \* and todo (rounds left), per consumer cpc, mpc of main; history:
              \* popped.  spsc: q, i (of produce), cpc, mpc, sum

Starts ==
  { [program |-> "lockfree", queue |-> <<>>, producer_count |-> 0, consumer_count |-> 0,
     done |-> FALSE, popped |-> {}, mpc |-> "joinProducers",
     ppc |-> [p \in Producers |-> "count"], value |-> [p \in Producers |-> 0],
     todo |-> [p \in Producers |-> iterations], cpc |-> [c \in Consumers |-> "test"]],
    [program |-> "spsc", q |-> <<>>, i |-> 1, cpc |-> "pop", mpc |-> "join", sum |-> 0] }

Increment(n) == n + 1

(* value = ++producer_count *)
Count(p) ==
  /\ s.ppc[p] = "count" /\ s.todo[p] > 0
  /\ s' = [s EXCEPT !.producer_count = Increment(@), !.value[p] = Increment(s.producer_count),
                    !.ppc[p] = "push"]

(* push may fail for want of memory; the loop tries again.                   *)
PushFails(p) == s.ppc[p] = "push" /\ UNCHANGED s

Push(p) ==
  /\ s.ppc[p] = "push"
  /\ s' = [s EXCEPT !.queue = Append(@, s.value[p]), !.todo[p] = @ - 1, !.ppc[p] = "count"]

(* The consumer leaves as soon as it sees the flag.                          *)
OnDone_Leaves == "exited"
OnDone == "drain"

(* The outer loop: while (!done).                                            *)
TestDone(c) ==
  /\ s.cpc[c] = "test"
  /\ s' = [s EXCEPT !.cpc[c] = IF s.done THEN OnDone ELSE "pop"]

Pop(c) ==
  /\ s.cpc[c] \in {"pop", "drain"} /\ s.queue # <<>>
  /\ s' = [s EXCEPT !.queue = Tail(@), !.popped = @ \cup {Head(s.queue)},
                    !.cpc[c] = IF @ = "pop" THEN "popped" ELSE "drained"]

(* ++consumer_count *)
CountPopped(c) ==
  /\ s.cpc[c] \in {"popped", "drained"}
  /\ s' = [s EXCEPT !.consumer_count = Increment(@),
                    !.cpc[c] = IF @ = "popped" THEN "pop" ELSE "drain"]

(* The consumers that have popped a number and not yet counted it.           *)
Uncounted == {c \in Consumers : s.cpc[c] \in {"popped", "drained"}}

(* The drain loop goes back to the outer loop.                               *)
OnEmpty_TestsAgain(pc) == "test"
OnEmpty(pc) == IF pc = "pop" THEN "test" ELSE "exited"

PopFails(c) ==
  /\ s.cpc[c] \in {"pop", "drain"} /\ s.queue = <<>>
  /\ s' = [s EXCEPT !.cpc[c] = OnEmpty(@)]

SetDone ==
  /\ s.mpc = "joinProducers" /\ \A p \in Producers : s.todo[p] = 0
  /\ s' = [s EXCEPT !.done = TRUE, !.mpc = "joinConsumers"]

JoinConsumers ==
  /\ s.mpc = "joinConsumers" /\ \A c \in Consumers : s.cpc[c] = "exited"
  /\ s' = [s EXCEPT !.mpc = "end"]

Produce(p) == s.program = "lockfree" /\ (Count(p) \/ Push(p))
Consume(c) == s.program = "lockfree" /\ (TestDone(c) \/ Pop(c) \/ CountPopped(c) \/ PopFails(c))
Main == s.program = "lockfree" /\ (SetDone \/ JoinConsumers)

-------------------------------------------------------------------------------
Places == Items

produce ==
  /\ s.program = "spsc" /\ s.i <= Items
  /\ s' = [s EXCEPT !.i = @ + 1, !.q = IF Len(@) < Places THEN Append(@, s.i) ELSE @]

PopOne == s.q # <<>> /\ s' = [s EXCEPT !.sum = @ + Head(s.q), !.q = Tail(@)]

consume ==
  /\ s.program = "spsc" /\ s.cpc = "pop"
  /\ PopOne \/ (s.q = <<>> /\ s' = [s EXCEPT !.cpc = "ended"])

Joined == s.i > Items /\ s.cpc = "ended"

MainJoins == s.mpc = "join" /\ Joined /\ s' = [s EXCEPT !.mpc = "consume"]
MainConsumes ==
  /\ s.mpc = "consume"
  /\ PopOne \/ (s.q = <<>> /\ s' = [s EXCEPT !.mpc = "end"])

boost_queue_demo == s.program = "spsc" /\ (MainJoins \/ MainConsumes)

-------------------------------------------------------------------------------
Running == s.program \in {"lockfree", "spsc"}

Ended == Running /\ s.mpc = "end" /\ UNCHANGED s

Next ==
  \/ \E p \in Producers : Produce(p) \/ (s.program = "lockfree" /\ PushFails(p))
  \/ \E c \in Consumers : Consume(c)
  \/ Main \/ produce \/ consume \/ boost_queue_demo \/ Ended

(* Every thread gets its turn, and push does not fail for ever.              *)
Fairness ==
  /\ \A p \in Producers : WF_s(Produce(p))
  /\ \A c \in Consumers : WF_s(Consume(c))
  /\ WF_s(Main) /\ WF_s(produce) /\ WF_s(consume) /\ WF_s(boost_queue_demo)
-------------------------------------------------------------------------------
(* No number is drawn, queued or popped twice, although several threads      *)
(* increment the counter and push in an order of their own; every one that   *)
(* was popped is counted, or its consumer is about to.                       *)
ValuesDistinct ==
  s.program = "lockfree" =>
    /\ Cardinality(s.popped) = s.consumer_count + Cardinality(Uncounted)
    /\ \A i, j \in DOMAIN s.queue : s.queue[i] = s.queue[j] => i = j
    /\ \A i \in DOMAIN s.queue : s.queue[i] \notin s.popped
    /\ \A p \in Producers : s.ppc[p] = "push" =>
         s.value[p] \notin s.popped /\ \A i \in DOMAIN s.queue : s.queue[i] # s.value[p]

(* What the demo prints: when both groups are joined, as many values were    *)
(* consumed as produced, and every single one of them.                       *)
AllConsumed ==
  s.program = "lockfree" /\ s.mpc = "end" =>
    /\ s.consumer_count = s.producer_count
    /\ s.popped = 1..(iterations * Cardinality(Producers))

(* Of the numbers pushed so far the newest are queued, in order, and all     *)
(* older ones are in the sum, whichever thread popped them.                  *)
SumAndQueue ==
  s.program = "spsc" =>
    LET popped == s.i - 1 - Len(s.q)
    IN  /\ 2 * s.sum = popped * (popped + 1)
        /\ \A k \in DOMAIN s.q : s.q[k] = popped + k

(* The printed sum is that of all numbers, wherever the consumer stopped.    *)
SumIsComplete ==
  s.program = "spsc" /\ s.mpc = "end" => 2 * s.sum = Items * (Items + 1)

(* Both demos get to print: no consumer spins for ever once done is set.     *)
DemoEnds == Running => s.mpc = "end"
===============================================================================
