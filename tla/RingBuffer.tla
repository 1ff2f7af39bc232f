------------------------------ MODULE RingBuffer ------------------------------
(***************************************************************************)
(* ring_buffer.h: a circular buffer of m_capacity slots under one mutex,    *)
(* with the condition variables m_not_full (producers wait on it) and       *)
(* m_not_empty (consumers).  Both waits are wait_for with a predicate: a    *)
(* woken thread tests the predicate again, a thread whose time is up goes   *)
(* on whatever the predicate says.  A producer that finds the buffer full   *)
(* after its timeout overwrites the oldest item.  Items are numbered in the *)
(* order in which they are stored.                                          *)
(***************************************************************************)
EXTENDS Integers, Sequences, FiniteSets, CondVar

CONSTANTS Producers, Consumers,
          Capacity,   \* m_capacity
          Calls       \* how many calls each thread makes

ASSUME RingAssumption ==
  /\ Capacity \in Nat \ {0}
  /\ Calls \in [Producers \cup Consumers -> Nat]
  /\ Producers \cap Consumers = {} /\ IsFiniteSet(Producers) /\ IsFiniteSet(Consumers)

VARIABLES buffer, size, head, tail,  \* m_buffer, m_size, m_head, m_tail
          pc,       \* thread: out of a call, waiting, awake, timedout, notify
          calls,    \* thread: calls still to be started
          entered,  \* history: number of items stored so far
          taken     \* history: items handed to consumers, in order

data == <<buffer, size, head, tail, entered, taken>>
vars == <<data, pc, calls>>

Threads == Producers \cup Consumers
Slots == 0..(Capacity - 1)
Empty == 0   \* the value-initialised content of a slot

Init ==
  /\ buffer = [i \in Slots |-> Empty]
  /\ size = 0 /\ head = 0 /\ tail = 0
  /\ pc = [t \in Threads |-> "out"]
  /\ calls = Calls
  /\ entered = 0 /\ taken = <<>>

is_full == size = Capacity
is_empty == size = 0

(* get_buffer: the stored items from the oldest to the newest.              *)
get_buffer == [i \in 1..size |-> buffer[(head + i - 1) % Capacity]]

InRange_HalfOpen(x, lo, hi) == lo <= x /\ x < hi

InRange(x, lo, hi) == lo <= x /\ x <= hi

(* find: the result after each turn of the loop, and after the last.         *)
find(lo, hi) ==
  LET result[i \in 0..size] ==
        IF i = 0 THEN <<>>
        ELSE IF InRange(get_buffer[i], lo, hi) THEN Append(result[i - 1], get_buffer[i])
                                               ELSE result[i - 1]
  IN  result[size]

-------------------------------------------------------------------------------
(* A thread takes the mutex on entry or when it wakes inside wait_for.      *)
Enters(t) ==
  \/ pc[t] = "out" /\ calls[t] > 0 /\ calls' = [calls EXCEPT ![t] = @ - 1]
  \/ pc[t] = "awake" /\ UNCHANGED calls

(* wait_for goes to sleep because its predicate is false.                   *)
PutWait(p) ==
  /\ Enters(p) /\ is_full
  /\ pc' = [pc EXCEPT ![p] = "waiting"]
  /\ UNCHANGED data

(* A slip in enqueue: the head stays when the oldest item is overwritten.    *)
Store_KeepsHead ==
  /\ head' = head /\ size' = IF is_full THEN size ELSE size + 1
  /\ buffer' = [buffer EXCEPT ![tail] = entered + 1]
  /\ tail' = (tail + 1) % Capacity
  /\ entered' = entered + 1
  /\ UNCHANGED taken

(* The rest of enqueue under the mutex.                                     *)
Store ==
  /\ IF is_full THEN head' = (head + 1) % Capacity /\ size' = size
                ELSE head' = head /\ size' = size + 1
  /\ buffer' = [buffer EXCEPT ![tail] = entered + 1]
  /\ tail' = (tail + 1) % Capacity
  /\ entered' = entered + 1
  /\ UNCHANGED taken

Put(p) ==
  /\ \/ Enters(p) /\ ~is_full
     \/ pc[p] = "timedout" /\ UNCHANGED calls
  /\ Store
  /\ pc' = [pc EXCEPT ![p] = "notify"]

PutNotify_OnlyFirst(p) ==
  /\ pc[p] = "notify"
  /\ IF size = 1 THEN pc' \in NotifyOne([pc EXCEPT ![p] = "out"], Consumers)
                 ELSE pc' = [pc EXCEPT ![p] = "out"]
  /\ UNCHANGED <<data, calls>>

PutNotify(p) ==
  /\ pc[p] = "notify"
  /\ pc' \in NotifyOne([pc EXCEPT ![p] = "out"], Consumers)
  /\ UNCHANGED <<data, calls>>

GetWait(c) ==
  /\ Enters(c) /\ is_empty
  /\ pc' = [pc EXCEPT ![c] = "waiting"]
  /\ UNCHANGED data

(* A slip in dequeue: the size stays.                                        *)
Fetch_KeepsSize ==
  /\ taken' = Append(taken, buffer[head])
  /\ head' = (head + 1) % Capacity
  /\ UNCHANGED <<buffer, size, tail, entered>>

(* The rest of dequeue under the mutex when there is an item.               *)
Fetch ==
  /\ taken' = Append(taken, buffer[head])
  /\ head' = (head + 1) % Capacity
  /\ size' = size - 1
  /\ UNCHANGED <<buffer, tail, entered>>

Get(c) ==
  /\ \/ Enters(c)
     \/ pc[c] = "timedout" /\ UNCHANGED calls
  /\ ~is_empty /\ Fetch
  /\ pc' = [pc EXCEPT ![c] = "notify"]

(* dequeue returns -1.                                                      *)
GetFails(c) ==
  /\ pc[c] = "timedout" /\ is_empty
  /\ pc' = [pc EXCEPT ![c] = "out"]
  /\ UNCHANGED <<data, calls>>

GetNotify(c) ==
  /\ pc[c] = "notify"
  /\ pc' \in NotifyOne([pc EXCEPT ![c] = "out"], Producers)
  /\ UNCHANGED <<data, calls>>

(* The wait starts over when its time is up.                                *)
Timeout_WaitsAgain(t) ==
  /\ pc[t] = "waiting"
  /\ pc' = [pc EXCEPT ![t] = "awake"]
  /\ UNCHANGED <<data, calls>>

(* A waiting thread's time is up; or it wakes without a notification.       *)
Timeout(t) ==
  /\ pc[t] = "waiting"
  /\ pc' = [pc EXCEPT ![t] = "timedout"]
  /\ UNCHANGED <<data, calls>>

SpuriousWakeup(t) ==
  /\ pc[t] = "waiting"
  /\ pc' = [pc EXCEPT ![t] = "awake"]
  /\ UNCHANGED <<data, calls>>

Enqueue(p) == PutWait(p) \/ Put(p) \/ PutNotify(p) \/ Timeout(p)
Dequeue(c) == GetWait(c) \/ Get(c) \/ GetFails(c) \/ GetNotify(c) \/ Timeout(c)

Done == \A t \in Threads : pc[t] = "out" /\ calls[t] = 0

Next ==
  \/ \E p \in Producers : Enqueue(p) \/ SpuriousWakeup(p)
  \/ \E c \in Consumers : Dequeue(c) \/ SpuriousWakeup(c)
  \/ Done /\ UNCHANGED vars

SafeSpec == Init /\ [][Next]_vars

Spec ==
  /\ SafeSpec
  /\ \A p \in Producers : WF_vars(Enqueue(p)) /\ SF_vars(Timeout(p))
  /\ \A c \in Consumers : WF_vars(Dequeue(c)) /\ SF_vars(Timeout(c))
-------------------------------------------------------------------------------
TypeOK ==
  /\ buffer \in [Slots -> Nat]
  /\ size \in 0..Capacity /\ head \in Slots /\ tail \in Slots
  /\ pc \in [Threads -> {"out", "waiting", "awake", "timedout", "notify"}]
  /\ calls \in [Threads -> Nat]
  /\ entered \in Nat /\ taken \in Seq(Nat)

(* The indices agree with the size, and the buffer holds exactly the newest  *)
(* size items, oldest at m_head: wrapping round and overwriting never        *)
(* exposes a stale slot.                                                     *)
HoldsNewest ==
  /\ tail = (head + size) % Capacity
  /\ size <= entered
  /\ \A i \in 1..size : buffer[(head + i - 1) % Capacity] = entered - size + i

(* Consumers together receive items in the order they were stored, none      *)
(* twice, and none that is still in the buffer.                              *)
TakenInOrder ==
  /\ \A i \in 1..Len(taken) : taken[i] \in 1..(entered - size)
  /\ \A i, j \in 1..Len(taken) : i < j => taken[i] < taken[j]

(* find(min, max) returns every stored item of the range, in order, and      *)
(* nothing that was taken or overwritten.                                    *)
FindIsExact ==
  \A lo \in 1..entered : \A hi \in lo..entered :
    LET from == IF lo > entered - size THEN lo ELSE entered - size + 1
    IN  find(lo, hi) = [i \in 1..(IF hi < from THEN 0 ELSE hi - from + 1) |-> from + i - 1]

(* One notify_one per stored item is enough: while a consumer sleeps, every  *)
(* item in the buffer has a notification on its way or a woken consumer; and *)
(* while a producer sleeps, so has every free slot.                          *)
EnoughWakeups ==
  /\ Covered(pc, size, Producers, Consumers)
  /\ Covered(pc, Capacity - size, Consumers, Producers)

(* Every call of enqueue and dequeue returns.                                *)
CallsReturn == <>[]Done

(* The circular buffer implements the lossy bounded queue.                   *)
Fifo == INSTANCE BoundedFifo WITH contents <- get_buffer

ImplementsFifo == Fifo!LossySpec
===============================================================================
