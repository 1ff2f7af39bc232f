---------------------------- MODULE BlockingQueue -----------------------------
(***************************************************************************)
(* blocking_queue.h: a std::queue of at most m_capacity items under one     *)
(* mutex.  enqueue and dequeue wait with wait_for and a predicate and give  *)
(* up with -1 when the predicate is still false at the timeout; they never  *)
(* overwrite.  Items are numbered in the order in which they are pushed.    *)
(***************************************************************************)
EXTENDS Integers, Sequences, FiniteSets, CondVar

CONSTANTS Producers, Consumers,
          Capacity,   \* m_capacity
          Calls       \* how many calls each thread makes

ASSUME QueueAssumption ==
  /\ Capacity \in Nat
  /\ Calls \in [Producers \cup Consumers -> Nat]
  /\ Producers \cap Consumers = {} /\ IsFiniteSet(Producers) /\ IsFiniteSet(Consumers)

VARIABLES queue,    \* m_queue
          pc,       \* thread: out of a call, waiting, awake, timedout, notify
          calls,    \* thread: calls still to be started
          entered,  \* history: number of items pushed so far
          taken     \* history: items handed to consumers, in order

vars == <<queue, pc, calls, entered, taken>>

Threads == Producers \cup Consumers

Init ==
  /\ queue = <<>> /\ entered = 0 /\ taken = <<>>
  /\ pc = [t \in Threads |-> "out"]
  /\ calls = Calls

(* The predicates of the two waits.                                         *)
Ready(t) == IF t \in Producers THEN Len(queue) < Capacity ELSE queue # <<>>

(* A thread takes the mutex on entry, or inside wait_for: when it wakes it  *)
(* tests the predicate again, and so it does once more when its time is up. *)
Locks(t) ==
  \/ pc[t] = "out" /\ calls[t] > 0 /\ calls' = [calls EXCEPT ![t] = @ - 1]
  \/ pc[t] \in {"awake", "timedout"} /\ UNCHANGED calls

Wait(t) ==
  /\ Locks(t) /\ pc[t] # "timedout" /\ ~Ready(t)
  /\ pc' = [pc EXCEPT ![t] = "waiting"]
  /\ UNCHANGED <<queue, entered, taken>>

(* The wait starts over when its time is up.                                *)
GiveUp_WaitsAgain(t) ==
  /\ Locks(t) /\ pc[t] = "timedout" /\ ~Ready(t)
  /\ pc' = [pc EXCEPT ![t] = "waiting"]
  /\ UNCHANGED <<queue, entered, taken>>

(* enqueue or dequeue returns -1.                                           *)
GiveUp(t) ==
  /\ Locks(t) /\ pc[t] = "timedout" /\ ~Ready(t)
  /\ pc' = [pc EXCEPT ![t] = "out"]
  /\ UNCHANGED <<queue, entered, taken>>

Push(p) ==
  /\ Locks(p) /\ Ready(p)
  /\ queue' = Append(queue, entered + 1) /\ entered' = entered + 1
  /\ pc' = [pc EXCEPT ![p] = "notify"]
  /\ UNCHANGED taken

(* The item is read but not popped; the newest item is popped.              *)
Pop_Peeks(c) ==
  /\ Locks(c) /\ Ready(c)
  /\ taken' = Append(taken, Head(queue)) /\ queue' = queue
  /\ pc' = [pc EXCEPT ![c] = "notify"]
  /\ UNCHANGED entered

Pop_Newest(c) ==
  /\ Locks(c) /\ Ready(c)
  /\ taken' = Append(taken, queue[Len(queue)])
  /\ queue' = SubSeq(queue, 1, Len(queue) - 1)
  /\ pc' = [pc EXCEPT ![c] = "notify"]
  /\ UNCHANGED entered

Pop(c) ==
  /\ Locks(c) /\ Ready(c)
  /\ taken' = Append(taken, Head(queue)) /\ queue' = Tail(queue)
  /\ pc' = [pc EXCEPT ![c] = "notify"]
  /\ UNCHANGED entered

(* Only the push into an empty queue notifies.                              *)
Notify_OnlyFirst(t) ==
  /\ pc[t] = "notify"
  /\ IF t \in Producers /\ Len(queue) > 1
     THEN pc' = [pc EXCEPT ![t] = "out"]
     ELSE pc' \in NotifyOne([pc EXCEPT ![t] = "out"],
                             IF t \in Producers THEN Consumers ELSE Producers)
  /\ UNCHANGED <<queue, calls, entered, taken>>

(* notify_one after the unlock, on the other side's condition variable.     *)
Notify(t) ==
  /\ pc[t] = "notify"
  /\ pc' \in NotifyOne([pc EXCEPT ![t] = "out"],
                       IF t \in Producers THEN Consumers ELSE Producers)
  /\ UNCHANGED <<queue, calls, entered, taken>>

Timeout(t) ==
  /\ pc[t] = "waiting"
  /\ pc' = [pc EXCEPT ![t] = "timedout"]
  /\ UNCHANGED <<queue, calls, entered, taken>>

SpuriousWakeup(t) ==
  /\ pc[t] = "waiting"
  /\ pc' = [pc EXCEPT ![t] = "awake"]
  /\ UNCHANGED <<queue, calls, entered, taken>>

Step(t) ==
  \/ Wait(t) \/ GiveUp(t) \/ Notify(t) \/ Timeout(t)
  \/ t \in Producers /\ Push(t)
  \/ t \in Consumers /\ Pop(t)

Done == \A t \in Threads : pc[t] = "out" /\ calls[t] = 0

Next ==
  \/ \E t \in Threads : Step(t) \/ SpuriousWakeup(t)
  \/ Done /\ UNCHANGED vars

SafeSpec == Init /\ [][Next]_vars

Spec == SafeSpec /\ \A t \in Threads : WF_vars(Step(t)) /\ SF_vars(Timeout(t))
-------------------------------------------------------------------------------
TypeOK ==
  /\ queue \in Seq(Nat) /\ Len(queue) <= Capacity
  /\ pc \in [Threads -> {"out", "waiting", "awake", "timedout", "notify"}]
  /\ calls \in [Threads -> Nat]
  /\ entered \in Nat /\ taken \in Seq(Nat)

(* Every pushed item is delivered once and in order: what consumers got,     *)
(* followed by what is queued, is what producers pushed.                     *)
NothingLost == taken \o queue = [i \in 1..entered |-> i]

(* While a consumer sleeps every queued item has a notification on its way   *)
(* or a woken consumer; while a producer sleeps so has every free place.     *)
EnoughWakeups ==
  /\ Covered(pc, Len(queue), Producers, Consumers)
  /\ Covered(pc, Capacity - Len(queue), Consumers, Producers)

(* Every call returns, 0 or -1.                                              *)
CallsReturn == <>[]Done

(* The blocking queue implements the bounded queue that never loses an item. *)
Fifo == INSTANCE BoundedFifo WITH contents <- queue

ImplementsFifo == Fifo!Spec
===============================================================================
