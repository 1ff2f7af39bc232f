--------------------------- MODULE RingBufferProofs ---------------------------
(***************************************************************************)
(* For every capacity and any number of producers and consumers: the        *)
(* circular buffer holds exactly the newest items, hands them out in order  *)
(* and once, and implements the lossy bounded queue.                        *)
(***************************************************************************)
EXTENDS RingBuffer, FiniteSetTheorems, SequenceTheorems, TLAPS

(* The modulo of an index that is at most one turn ahead.                    *)
LEMMA ModLemma ==
  ASSUME NEW c \in Nat \ {0}, NEW x \in 0..(2 * c - 1)
  PROVE  x % c = IF x < c THEN x ELSE x - c
<1>1. CASE x < c BY <1>1
<1>2. CASE x >= c BY <1>2
<1>. QED BY <1>1, <1>2

(* The place of the i-th item after m_head.                                  *)
At(h, i) == (h + i) % Capacity

LEMMA AtLemma ==
  ASSUME NEW h \in Slots, NEW i \in 0..Capacity
  PROVE  /\ At(h, i) = IF h + i < Capacity THEN h + i ELSE h + i - Capacity
         /\ At(h, i) \in Slots
<1>1. h + i \in 0..(2 * Capacity - 1) BY RingAssumption DEF Slots
<1>2. (h + i) % Capacity = IF h + i < Capacity THEN h + i ELSE h + i - Capacity
  <2>. DEFINE x == h + i
  <2>1. Capacity \in Nat \ {0} /\ x \in 0..(2 * Capacity - 1) BY <1>1, RingAssumption
  <2>. HIDE DEF x
  <2>2. x % Capacity = IF x < Capacity THEN x ELSE x - Capacity BY <2>1, ModLemma, Zenon
  <2>. QED BY <1>1, <2>1, <2>2, RingAssumption DEF x, Slots
<1>. QED BY <1>1, <1>2, RingAssumption DEF At, Slots

(* Advancing m_head by one shifts every place by one.                        *)
LEMMA AtShift ==
  ASSUME NEW h \in Slots, NEW i \in 0..(Capacity - 1)
  PROVE  At(At(h, 1), i) = At(h, i + 1)
<1>1. 1 \in 0..Capacity /\ i \in 0..Capacity /\ i + 1 \in 0..Capacity BY RingAssumption
<1>. DEFINE g == At(h, 1)
<1>2. g \in Slots /\ g = IF h + 1 < Capacity THEN h + 1 ELSE h + 1 - Capacity
  BY <1>1, AtLemma
<1>3. At(g, i) = IF g + i < Capacity THEN g + i ELSE g + i - Capacity
  BY <1>1, <1>2, AtLemma
<1>4. At(h, i + 1) = IF h + (i + 1) < Capacity THEN h + (i + 1) ELSE h + (i + 1) - Capacity
  BY <1>1, AtLemma
<1>. HIDE DEF g
<1>5. At(g, i) = At(h, i + 1) BY <1>2, <1>3, <1>4, RingAssumption DEF Slots
<1>. QED BY <1>5 DEF g

(* Different offsets of one turn are different places.                       *)
LEMMA AtInjective ==
  ASSUME NEW h \in Slots, NEW i \in 0..(Capacity - 1), NEW j \in 0..(Capacity - 1), i # j
  PROVE  At(h, i) # At(h, j)
<1>1. i \in 0..Capacity /\ j \in 0..Capacity BY RingAssumption
<1>2. At(h, i) = IF h + i < Capacity THEN h + i ELSE h + i - Capacity BY <1>1, AtLemma
<1>3. At(h, j) = IF h + j < Capacity THEN h + j ELSE h + j - Capacity BY <1>1, AtLemma
<1>. QED BY <1>2, <1>3, RingAssumption DEF Slots

(* A full turn comes back to the same place.                                 *)
LEMMA AtTurn == ASSUME NEW h \in Slots PROVE At(h, 0) = h /\ At(h, Capacity) = h
BY AtLemma, RingAssumption DEF Slots

-------------------------------------------------------------------------------
(* HoldsNewest and TakenInOrder, with the places written as At.              *)
Newest(b, n, h, e) == \A i \in 0..(n - 1) : b[At(h, i)] = e - n + i + 1

LEMMA HoldsNewestForm ==
  ASSUME TypeOK
  PROVE  HoldsNewest <=> /\ tail = At(head, size) /\ size <= entered
                         /\ Newest(buffer, size, head, entered)
<1>1. size \in Nat /\ head \in Int /\ entered \in Int BY RingAssumption DEF TypeOK, Slots
<1>2. ASSUME \A i \in 1..size : buffer[(head + i - 1) % Capacity] = entered - size + i
      PROVE  Newest(buffer, size, head, entered)
  <2>. SUFFICES ASSUME NEW i \in 0..(size - 1) PROVE buffer[At(head, i)] = entered - size + i + 1
    BY DEF Newest
  <2>1. i + 1 \in 1..size /\ head + (i + 1) - 1 = head + i BY <1>1
  <2>2. buffer[(head + (i + 1) - 1) % Capacity] = entered - size + (i + 1) BY <1>2, <2>1
  <2>. QED BY <1>1, <2>1, <2>2 DEF At
<1>3. ASSUME Newest(buffer, size, head, entered), NEW i \in 1..size
      PROVE  buffer[(head + i - 1) % Capacity] = entered - size + i
  <2>1. i - 1 \in 0..(size - 1) /\ head + (i - 1) = head + i - 1 BY <1>1
  <2>2. buffer[At(head, i - 1)] = entered - size + (i - 1) + 1 BY <1>3, <2>1 DEF Newest
  <2>. QED BY <1>1, <2>1, <2>2 DEF At
<1>. QED BY <1>2, <1>3 DEF HoldsNewest, At

IndInv == TypeOK /\ HoldsNewest /\ TakenInOrder

LEMMA InitInd == Init => IndInv
<1>. SUFFICES ASSUME Init PROVE IndInv OBVIOUS
<1>1. <<>> \in Seq(Nat) OBVIOUS
<1>2. TypeOK BY <1>1, RingAssumption DEF Init, TypeOK, Slots, Empty, Threads
<1>3. HoldsNewest
  <2>1. 0 \in Slots BY RingAssumption DEF Slots
  <2>2. At(0, 0) = 0 BY <2>1, AtTurn
  <2>. QED BY <2>2 DEF Init, HoldsNewest, At
<1>4. TakenInOrder BY DEF Init, TakenInOrder
<1>. QED BY <1>2, <1>3, <1>4 DEF IndInv

(* enqueue's critical section keeps the buffer part of the invariant, on a   *)
(* buffer with room and on a full one.                                       *)
LEMMA StoreInd ==
  ASSUME IndInv, Store
  PROVE  /\ buffer' \in [Slots -> Nat] /\ size' \in 0..Capacity /\ head' \in Slots /\ tail' \in Slots
         /\ entered' \in Nat /\ entered' - size' >= entered - size
         /\ tail' = At(head', size') /\ size' <= entered'
         /\ Newest(buffer', size', head', entered')
<1>. USE RingAssumption
<1>1. /\ buffer \in [Slots -> Nat] /\ size \in 0..Capacity /\ head \in Slots /\ tail \in Slots
      /\ entered \in Nat /\ tail = At(head, size) /\ size <= entered
      /\ Newest(buffer, size, head, entered)
  BY HoldsNewestForm DEF IndInv, TypeOK
<1>2. /\ buffer' = [buffer EXCEPT ![tail] = entered + 1] /\ entered' = entered + 1
      /\ tail' = At(tail, 1) /\ taken' = taken
  BY DEF Store, At
<1>3. tail' \in Slots /\ buffer' \in [Slots -> Nat] /\ entered' \in Nat
  BY <1>1, <1>2, AtLemma
<1>4. CASE ~is_full
  <2>1. head' = head /\ size' = size + 1 /\ size \in 0..(Capacity - 1)
    BY <1>1, <1>4 DEF Store, is_full
  <2>2. tail' = At(head', size')
    <3>1. size \in 0..Capacity /\ size + 1 \in 0..Capacity /\ 1 \in 0..Capacity BY <2>1
    <3>2. tail = IF head + size < Capacity THEN head + size ELSE head + size - Capacity
      BY <1>1, <3>1, AtLemma
    <3>3. At(tail, 1) = IF tail + 1 < Capacity THEN tail + 1 ELSE tail + 1 - Capacity
      BY <1>1, <3>1, AtLemma
    <3>4. At(head, size + 1) = IF head + (size + 1) < Capacity THEN head + (size + 1)
                                                           ELSE head + (size + 1) - Capacity
      BY <1>1, <3>1, AtLemma
    <3>5. At(tail, 1) = At(head, size + 1) BY <1>1, <2>1, <3>2, <3>3, <3>4 DEF Slots
    <3>. QED BY <1>2, <2>1, <3>5
  <2>3. ASSUME NEW i \in 0..(size' - 1) PROVE buffer'[At(head', i)] = entered' - size' + i + 1
    <3>1. i \in 0..(Capacity - 1) /\ At(head, i) \in Slots BY <1>1, <2>1, AtLemma
    <3>2. CASE i = size BY <1>1, <1>2, <2>1, <3>1, <3>2
    <3>3. CASE i # size
      <4>1. i \in 0..(size - 1) BY <2>1, <3>3
      <4>2. At(head, i) # tail BY <1>1, <2>1, <3>1, <3>3, AtInjective
      <4>3. buffer[At(head, i)] = entered - size + i + 1 BY <1>1, <4>1 DEF Newest
      <4>. QED BY <1>1, <1>2, <2>1, <3>1, <4>2, <4>3
    <3>. QED BY <3>2, <3>3
  <2>4. Newest(buffer', size', head', entered') BY <2>3 DEF Newest
  <2>. QED BY <1>1, <1>2, <1>3, <2>1, <2>2, <2>4
<1>5. CASE is_full
  <2>1. head' = At(head, 1) /\ size' = size /\ size = Capacity /\ tail = head
    BY <1>1, <1>5, AtTurn DEF Store, is_full, At
  <2>2. head' \in Slots /\ tail' = At(head', size')
    BY <1>1, <1>2, <1>3, <2>1, AtTurn
  <2>3. ASSUME NEW i \in 0..(size' - 1) PROVE buffer'[At(head', i)] = entered' - size' + i + 1
    <3>1. i \in 0..(Capacity - 1) /\ At(head', i) = At(head, i + 1)
      BY <1>1, <2>1, AtShift
    <3>2. CASE i = Capacity - 1
      BY <1>1, <1>2, <2>1, <3>1, <3>2, AtTurn
    <3>3. CASE i # Capacity - 1
      <4>1. i + 1 \in 0..(size - 1) /\ i + 1 \in 0..(Capacity - 1) /\ 0 \in 0..(Capacity - 1)
        BY <2>1, <3>1, <3>3
      <4>2. At(head, i + 1) # tail BY <1>1, <2>1, <4>1, AtInjective, AtTurn
      <4>3. buffer[At(head, i + 1)] = entered - size + (i + 1) + 1 BY <1>1, <4>1 DEF Newest
      <4>4. At(head, i + 1) \in Slots BY <1>1, <4>1, AtLemma
      <4>. QED BY <1>1, <1>2, <2>1, <3>1, <4>2, <4>3, <4>4
    <3>. QED BY <3>2, <3>3
  <2>4. Newest(buffer', size', head', entered') BY <2>3 DEF Newest
  <2>. QED BY <1>1, <1>2, <1>3, <2>1, <2>2, <2>4
<1>. QED BY <1>4, <1>5

(* dequeue's critical section likewise; the item it hands out is the oldest. *)
LEMMA FetchInd ==
  ASSUME IndInv, Fetch, ~is_empty
  PROVE  /\ size' \in 0..Capacity /\ head' \in Slots /\ size' = size - 1
         /\ tail' = At(head', size') /\ size' <= entered'
         /\ Newest(buffer', size', head', entered')
         /\ buffer[head] = entered - size + 1
<1>. USE RingAssumption
<1>1. /\ buffer \in [Slots -> Nat] /\ size \in 0..Capacity /\ head \in Slots /\ tail \in Slots
      /\ entered \in Nat /\ tail = At(head, size) /\ size <= entered
      /\ Newest(buffer, size, head, entered)
  BY HoldsNewestForm DEF IndInv, TypeOK
<1>2. /\ head' = At(head, 1) /\ size' = size - 1 /\ size \in 1..Capacity
      /\ UNCHANGED <<buffer, tail, entered>>
  BY <1>1 DEF Fetch, At, is_empty
<1>3. head' \in Slots BY <1>1, <1>2, AtLemma
<1>4. \A i \in 0..(size - 1) : At(head', i) = At(head, i + 1) BY <1>1, <1>2, AtShift
<1>5. tail' = At(head', size') BY <1>1, <1>2, <1>4
<1>6. ASSUME NEW i \in 0..(size' - 1) PROVE buffer'[At(head', i)] = entered' - size' + i + 1
  <2>1. i + 1 \in 0..(size - 1) /\ i \in 0..(size - 1) BY <1>1, <1>2
  <2>2. buffer[At(head, i + 1)] = entered - size + (i + 1) + 1 BY <1>1, <2>1 DEF Newest
  <2>. QED BY <1>1, <1>2, <1>4, <2>1, <2>2
<1>7. buffer[head] = entered - size + 1
  <2>1. 0 \in 0..(size - 1) BY <1>2
  <2>2. buffer[At(head, 0)] = entered - size + 0 + 1 BY <1>1, <2>1 DEF Newest
  <2>. QED BY <1>1, <2>2, AtTurn
<1>. QED BY <1>1, <1>2, <1>3, <1>5, <1>6, <1>7 DEF Newest

(* The steps that touch only program counters.                               *)
LEMMA PcLemma ==
  ASSUME TypeOK, NEW qc \in [Threads -> {"out", "waiting", "awake", "timedout", "notify"}],
         NEW S \in SUBSET Threads, NEW rc \in NotifyOne(qc, S)
  PROVE  rc \in [Threads -> {"out", "waiting", "awake", "timedout", "notify"}]
BY DEF NotifyOne, Waiting

LEMMA ControlTypes ==
  ASSUME TypeOK, Next
  PROVE  /\ pc' \in [Threads -> {"out", "waiting", "awake", "timedout", "notify"}]
         /\ calls' \in [Threads -> Nat]
<1>. USE DEF TypeOK
<1>1. ASSUME NEW t \in Threads, Enters(t) PROVE calls' \in [Threads -> Nat]
  <2>1. calls \in [Threads -> Nat] OBVIOUS
  <2>2. CASE calls[t] > 0 /\ calls' = [calls EXCEPT ![t] = @ - 1]
    <3>1. calls[t] - 1 \in Nat BY <2>1, <2>2
    <3>. QED BY <2>1, <2>2, <3>1
  <2>. QED BY <1>1, <2>1, <2>2 DEF Enters
<1>2. ASSUME NEW t \in Threads, NEW S \in SUBSET Threads,
             pc' \in NotifyOne([pc EXCEPT ![t] = "out"], S)
      PROVE  pc' \in [Threads -> {"out", "waiting", "awake", "timedout", "notify"}]
  <2>1. [pc EXCEPT ![t] = "out"] \in [Threads -> {"out", "waiting", "awake", "timedout", "notify"}]
    OBVIOUS
  <2>. QED BY <1>2, <2>1, PcLemma, Zenon
<1>3. ASSUME NEW p \in Producers, Enqueue(p) \/ SpuriousWakeup(p)
      PROVE  /\ pc' \in [Threads -> {"out", "waiting", "awake", "timedout", "notify"}]
             /\ calls' \in [Threads -> Nat]
  <2>. p \in Threads /\ Consumers \in SUBSET Threads BY DEF Threads
  <2>1. CASE PutNotify(p) BY <1>2, <2>1, Zenon DEF PutNotify
  <2>2. CASE PutWait(p) BY <1>1, <2>2 DEF PutWait
  <2>3. CASE Put(p) BY <1>1, <2>3 DEF Put
  <2>4. CASE Timeout(p) \/ SpuriousWakeup(p) BY <2>4 DEF Timeout, SpuriousWakeup
  <2>. QED BY <1>3, <2>1, <2>2, <2>3, <2>4 DEF Enqueue
<1>4. ASSUME NEW c \in Consumers, Dequeue(c) \/ SpuriousWakeup(c)
      PROVE  /\ pc' \in [Threads -> {"out", "waiting", "awake", "timedout", "notify"}]
             /\ calls' \in [Threads -> Nat]
  <2>. c \in Threads /\ Producers \in SUBSET Threads BY DEF Threads
  <2>1. CASE GetNotify(c) BY <1>2, <2>1, Zenon DEF GetNotify
  <2>2. CASE GetWait(c) BY <1>1, <2>2 DEF GetWait
  <2>3. CASE Get(c) BY <1>1, <2>3 DEF Get
  <2>4. CASE Timeout(c) \/ SpuriousWakeup(c) \/ GetFails(c)
    BY <2>4, Zenon DEF Timeout, SpuriousWakeup, GetFails
  <2>. QED BY <1>4, <2>1, <2>2, <2>3, <2>4 DEF Dequeue
<1>. QED BY <1>3, <1>4 DEF Next, vars

(* Every step stores, fetches from a non-empty buffer, or leaves the data.   *)
LEMMA DataSteps ==
  [Next]_vars => Store \/ (Fetch /\ ~is_empty) \/ UNCHANGED data
BY Zenon DEF Next, vars, Enqueue, Dequeue, PutWait, Put, PutNotify, GetWait, Get, GetFails,
       GetNotify, Timeout, SpuriousWakeup

LEMMA NextInd == IndInv /\ [Next]_vars => IndInv'
<1>. SUFFICES ASSUME IndInv, [Next]_vars PROVE IndInv' OBVIOUS
<1>. USE RingAssumption
<1>0. /\ pc' \in [Threads -> {"out", "waiting", "awake", "timedout", "notify"}]
      /\ calls' \in [Threads -> Nat]
  BY ControlTypes DEF IndInv, TypeOK, vars
<1>1. CASE Store
  <2>1. taken' = taken BY <1>1 DEF Store
  <2>2. TypeOK' BY <1>0, <1>1, <2>1, StoreInd DEF IndInv, TypeOK
  <2>3. HoldsNewest'
    <3>1. TypeOK' => (HoldsNewest <=> /\ tail = At(head, size) /\ size <= entered
                                      /\ Newest(buffer, size, head, entered))'
      BY HoldsNewestForm, PTL
    <3>. QED BY <1>1, <2>2, <3>1, StoreInd DEF Newest, At
  <2>4. TakenInOrder'
    <3>1. entered - size \in Int /\ entered' - size' \in Int /\ entered' - size' >= entered - size
      BY <1>1, StoreInd DEF IndInv, TypeOK
    <3>2. \A x \in 1..(entered - size) : x \in 1..(entered' - size') BY <3>1
    <3>. QED BY <2>1, <3>2 DEF IndInv, TakenInOrder
  <2>. QED BY <2>2, <2>3, <2>4 DEF IndInv
<1>2. CASE Fetch /\ ~is_empty
  <2>0. /\ taken \in Seq(Nat) /\ size \in 0..Capacity /\ entered \in Nat /\ size <= entered
        /\ taken' = Append(taken, buffer[head]) /\ buffer[head] = entered - size + 1
        /\ UNCHANGED <<buffer, tail, entered>> /\ size' = size - 1 /\ size > 0
    BY <1>2, FetchInd DEF IndInv, TypeOK, HoldsNewest, Fetch, is_empty
  <2>1. buffer[head] \in Nat /\ taken' \in Seq(Nat) BY <2>0
  <2>2. TypeOK' BY <1>0, <1>2, <2>0, <2>1, FetchInd DEF IndInv, TypeOK
  <2>3. HoldsNewest'
    <3>1. TypeOK' => (HoldsNewest <=> /\ tail = At(head, size) /\ size <= entered
                                      /\ Newest(buffer, size, head, entered))'
      BY HoldsNewestForm, PTL
    <3>. QED BY <1>2, <2>2, <3>1, FetchInd DEF Newest, At
  <2>4. TakenInOrder'
    <3>1. /\ \A i \in 1..Len(taken) : taken[i] \in 1..(entered - size)
          /\ \A i, j \in 1..Len(taken) : i < j => taken[i] < taken[j]
      BY DEF IndInv, TakenInOrder
    <3>2. /\ Len(taken') = Len(taken) + 1 /\ taken'[Len(taken) + 1] = entered - size + 1
          /\ \A i \in 1..Len(taken) : taken'[i] = taken[i]
          /\ Len(taken) \in Nat
      BY <2>0, <2>1
    <3>3. \A i \in 1..Len(taken') : taken'[i] \in 1..(entered' - size')
      BY <2>0, <3>1, <3>2
    <3>4. ASSUME NEW i \in 1..Len(taken'), NEW j \in 1..Len(taken'), i < j
          PROVE  taken'[i] < taken'[j]
      <4>1. i \in 1..Len(taken) /\ (j \in 1..Len(taken) \/ j = Len(taken) + 1) BY <3>2, <3>4
      <4>2. CASE j \in 1..Len(taken) BY <3>1, <3>2, <3>4, <4>1, <4>2
      <4>3. CASE j = Len(taken) + 1 BY <2>0, <3>1, <3>2, <4>1, <4>3
      <4>. QED BY <4>1, <4>2, <4>3
    <3>. QED BY <3>3, <3>4 DEF TakenInOrder
  <2>. QED BY <2>2, <2>3, <2>4 DEF IndInv
<1>3. CASE UNCHANGED data
  BY <1>0, <1>3 DEF data, IndInv, TypeOK, HoldsNewest, TakenInOrder
<1>. QED BY <1>1, <1>2, <1>3, DataSteps

THEOREM Invariance == SafeSpec => []IndInv
BY InitInd, NextInd, PTL DEF SafeSpec

(* Type correctness: in particular m_head and m_tail stay inside m_buffer.   *)
THEOREM TypeCorrect == SafeSpec => []TypeOK
BY Invariance, PTL DEF IndInv

(* The buffer always holds exactly the newest items, whatever the order of   *)
(* enqueue, dequeue, timeouts and overwrites.                                *)
THEOREM BufferHoldsNewest == SafeSpec => []HoldsNewest
BY Invariance, PTL DEF IndInv

(* No item is handed out twice or before an older one.                       *)
THEOREM DeliveredInOrder == SafeSpec => []TakenInOrder
BY Invariance, PTL DEF IndInv

-------------------------------------------------------------------------------
(* A set of numbers that is not empty has a least element: what induction    *)
(* over the turns of find's loop rests on.                                   *)
LEMMA LeastNumber ==
  ASSUME NEW T \in SUBSET Nat, T # {} PROVE \E n \in T : \A m \in T : n <= m
<1>. DEFINE R == OpToRel(<, Nat)
<1>1. IsWellFoundedOn(R, Nat) BY NatLessThanWellFounded
<1>2. \A x, y \in Nat : x < y => <<x, y>> \in R BY DEF OpToRel
<1>3. PICK n \in T : \A m \in T : ~(<<m, n>> \in R)
  <2>. HIDE DEF R
  <2>. QED BY <1>1, WFMin, Zenon
<1>4. \A m \in T : ~(m < n) BY <1>2, <1>3
<1>. QED BY <1>4

(* The items from a to b, and what one more turn of find adds to them.       *)
Items(a, b) == [j \in 1..(IF b < a THEN 0 ELSE b - a + 1) |-> a + j - 1]

LEMMA ItemsAppend ==
  ASSUME NEW a \in Int, NEW b \in Int, a <= b
  PROVE  Append(Items(a, b - 1), b) = Items(a, b)
<1>. DEFINE n == b - a
<1>1. n \in Nat /\ b = a + n OBVIOUS
<1>2. Items(a, b - 1) = [j \in 1..n |-> a + j - 1] BY DEF Items
<1>3. Items(a, b) = [j \in 1..(n + 1) |-> a + j - 1] BY DEF Items
<1>. HIDE DEF n
<1>4. [j \in 1..n |-> a + j - 1] \in Seq(Int) BY <1>1
<1>5. Append([j \in 1..n |-> a + j - 1], b) = [j \in 1..(n + 1) |-> a + j - 1] BY <1>1, <1>4
<1>. QED BY <1>2, <1>3, <1>5

(* f holds the result of find after each turn of its loop.                   *)
Results(f, lo, hi) ==
  f = [i \in 0..size |->
         IF i = 0 THEN <<>>
         ELSE IF InRange(get_buffer[i], lo, hi) THEN Append(f[i - 1], get_buffer[i])
                                                ELSE f[i - 1]]

LEMMA ResultsTurn ==
  ASSUME NEW f, NEW lo, NEW hi, Results(f, lo, hi), size \in Nat
  PROVE  /\ f[0] = <<>>
         /\ \A i \in 1..size : f[i] = IF InRange(get_buffer[i], lo, hi)
                                     THEN Append(f[i - 1], get_buffer[i]) ELSE f[i - 1]
<1>. DEFINE turn(i) == IF InRange(get_buffer[i], lo, hi)
                       THEN Append(f[i - 1], get_buffer[i]) ELSE f[i - 1]
            h == [i \in 0..size |-> IF i = 0 THEN <<>> ELSE turn(i)]
<1>1. f = h BY DEF Results
<1>. HIDE DEF turn
<1>2. h[0] = <<>> /\ \A i \in 1..size : h[i] = turn(i) OBVIOUS
<1>. HIDE DEF h
<1>3. f[0] = <<>> /\ \A i \in 1..size : f[i] = turn(i) BY <1>1, <1>2, Zenon
<1>. QED BY <1>3 DEF turn

(* What find returns when the buffer holds the newest items.                 *)
LEMMA FindLemma ==
  ASSUME TypeOK, HoldsNewest, NEW lo \in 1..entered, NEW hi \in lo..entered
  PROVE  find(lo, hi) = Items(IF lo > entered - size THEN lo ELSE entered - size + 1, hi)
<1>. DEFINE o == entered - size
            from == IF lo > o THEN lo ELSE o + 1
            upto(i) == IF o + i < hi THEN o + i ELSE hi
            g == [i \in 0..size |-> Items(from, upto(i))]
<1>1. /\ size \in Nat /\ entered \in Nat /\ o \in Nat /\ o + size = entered
      /\ lo \in Int /\ hi \in Int /\ lo <= hi /\ hi <= entered
  BY RingAssumption DEF TypeOK, HoldsNewest
<1>2. \A i \in 1..size : get_buffer[i] = o + i BY DEF HoldsNewest, get_buffer
<1>. HIDE DEF o
<1>3. from \in Int /\ lo <= from /\ o < from /\ (lo > o => from = lo) /\ (lo <= o => from = o + 1)
  BY <1>1
<1>4. \A i \in 0..size : /\ upto(i) \in Int /\ (o + i <= hi => upto(i) = o + i)
                          /\ (o + i >= hi => upto(i) = hi)
  BY <1>1
<1>5. upto(size) = hi BY <1>1
<1>. HIDE DEF from, upto
<1>6. Items(from, upto(0)) = <<>>
  <2>1. upto(0) < from BY <1>1, <1>3, <1>4
  <2>. QED BY <2>1 DEF Items
<1>7. ASSUME NEW i \in 1..size
      PROVE  Items(from, upto(i)) = IF InRange(get_buffer[i], lo, hi)
                                    THEN Append(Items(from, upto(i - 1)), get_buffer[i])
                                    ELSE Items(from, upto(i - 1))
  <2>1. get_buffer[i] = o + i /\ i - 1 \in 0..size /\ i \in 0..size BY <1>1, <1>2
  <2>2. CASE lo <= o + i /\ o + i <= hi
    <3>1. upto(i) = o + i /\ upto(i - 1) = (o + i) - 1 /\ from <= o + i
      BY <1>1, <1>3, <1>4, <2>1, <2>2
    <3>2. o + i \in Int /\ from \in Int /\ from <= o + i BY <1>1, <1>3, <3>1
    <3>3. Append(Items(from, (o + i) - 1), o + i) = Items(from, o + i) BY <3>2, ItemsAppend, Zenon
    <3>. QED BY <2>1, <2>2, <3>1, <3>3 DEF InRange
  <2>3. CASE o + i < lo
    <3>1. upto(i) < from /\ upto(i - 1) < from BY <1>1, <1>3, <1>4, <2>1, <2>3
    <3>2. Items(from, upto(i)) = Items(from, upto(i - 1)) BY <3>1 DEF Items
    <3>. QED BY <1>1, <2>1, <2>3, <3>2 DEF InRange
  <2>4. CASE o + i > hi
    <3>1. upto(i) = hi /\ upto(i - 1) = hi BY <1>1, <1>4, <2>1, <2>4
    <3>. QED BY <1>1, <2>1, <2>4, <3>1 DEF InRange
  <2>. QED BY <1>1, <2>2, <2>3, <2>4
<1>8. Results(g, lo, hi)
  <2>. DEFINE h == [i \in 0..size |->
                     IF i = 0 THEN <<>>
                     ELSE IF InRange(get_buffer[i], lo, hi) THEN Append(g[i - 1], get_buffer[i])
                                                            ELSE g[i - 1]]
  <2>1. ASSUME NEW i \in 0..size PROVE g[i] = h[i]
    <3>1. CASE i = 0 BY <1>6, <3>1
    <3>2. CASE i # 0
      <4>1. i \in 1..size /\ i - 1 \in 0..size BY <1>1, <3>2
      <4>2. g[i - 1] = Items(from, upto(i - 1)) /\ g[i] = Items(from, upto(i)) BY <4>1
      <4>. QED BY <1>7, <3>2, <4>1, <4>2
    <3>. QED BY <3>1, <3>2
  <2>2. g = h BY <2>1
  <2>. QED BY <2>2 DEF Results
<1>. DEFINE f == CHOOSE r : Results(r, lo, hi)
<1>9. find(lo, hi) = f[size] BY DEF find, Results
<1>10. Results(f, lo, hi) BY <1>8
<1>. HIDE DEF f
<1>11. f[size] = g[size]
  <2>. DEFINE T == {i \in 0..size : f[i] # g[i]}
  <2>. SUFFICES ASSUME T # {} PROVE FALSE BY <1>1
  <2>1. PICK n \in T : \A m \in T : n <= m
    <3>1. T \in SUBSET Nat BY <1>1
    <3>. HIDE DEF T
    <3>. QED BY <3>1, LeastNumber
  <2>2. n # 0
    <3>1. f[0] = <<>> /\ g[0] = <<>> BY <1>1, <1>8, <1>10, ResultsTurn
    <3>. QED BY <2>1, <3>1
  <2>3. n \in 1..size /\ n - 1 \in 0..size /\ n - 1 \notin T BY <1>1, <2>1, <2>2
  <2>4. f[n - 1] = g[n - 1] BY <2>3
  <2>. HIDE DEF g
  <2>5. f[n] = g[n]
    <3>1. f[n] = IF InRange(get_buffer[n], lo, hi) THEN Append(f[n - 1], get_buffer[n]) ELSE f[n - 1]
      BY <1>1, <1>10, <2>3, ResultsTurn
    <3>2. g[n] = IF InRange(get_buffer[n], lo, hi) THEN Append(g[n - 1], get_buffer[n]) ELSE g[n - 1]
      BY <1>1, <1>8, <2>3, ResultsTurn
    <3>. QED BY <2>4, <3>1, <3>2
  <2>. QED BY <2>1, <2>5
<1>12. g[size] = Items(from, hi) BY <1>1, <1>5
<1>. QED BY <1>9, <1>11, <1>12 DEF from, o

(* find(min, max) returns every stored item of the range, in order, and      *)
(* nothing that was taken or overwritten, for every capacity.                *)
THEOREM FindsExactly == SafeSpec => []FindIsExact
<1>1. IndInv => FindIsExact BY FindLemma DEF IndInv, FindIsExact, Items
<1>. QED BY <1>1, Invariance, PTL

-------------------------------------------------------------------------------
(* The contents of the abstract queue, written without the circular indices. *)
Run(n, e) == [i \in 1..n |-> e - n + i]

LEMMA ContentsLemma == IndInv => get_buffer = Run(size, entered)
BY DEF IndInv, HoldsNewest, get_buffer, Run

LEMMA RunLemma ==
  ASSUME NEW n \in Nat, NEW e \in Nat
  PROVE  /\ Run(n, e) \in Seq(Int) /\ Len(Run(n, e)) = n
         /\ Append(Run(n, e), e + 1) = Run(n + 1, e + 1)
         /\ n > 0 => /\ Head(Run(n, e)) = e - n + 1 /\ Run(n, e) # <<>>
                     /\ Tail(Run(n, e)) = Run(n - 1, e)
<1>1. \A m, f \in Nat : /\ Run(m, f) \in Seq(Int) /\ Len(Run(m, f)) = m
                        /\ DOMAIN Run(m, f) = 1..m
                        /\ \A i \in 1..m : Run(m, f)[i] = f - m + i
  BY DEF Run
<1>2. Append(Run(n, e), e + 1) = Run(n + 1, e + 1)
  <2>1. Run(n, e) \in Seq(Int) /\ Len(Run(n, e)) = n /\ e + 1 \in Nat /\ n + 1 \in Nat BY <1>1
  <2>2. /\ Append(Run(n, e), e + 1) \in Seq(Int) /\ Len(Append(Run(n, e), e + 1)) = n + 1
        /\ \A i \in 1..n : Append(Run(n, e), e + 1)[i] = Run(n, e)[i]
        /\ Append(Run(n, e), e + 1)[n + 1] = e + 1
    BY <2>1, AppendProperties
  <2>3. Run(n + 1, e + 1) \in Seq(Int) /\ Len(Run(n + 1, e + 1)) = n + 1 BY <1>1, <2>1
  <2>4. ASSUME NEW i \in 1..(n + 1) PROVE Append(Run(n, e), e + 1)[i] = Run(n + 1, e + 1)[i]
    <3>1. Run(n + 1, e + 1)[i] = (e + 1) - (n + 1) + i BY <1>1, <2>1
    <3>2. CASE i \in 1..n BY <1>1, <2>2, <3>1, <3>2
    <3>3. CASE i = n + 1 BY <2>2, <3>1, <3>3
    <3>4. i \in 1..n \/ i = n + 1 OBVIOUS
    <3>. QED BY <3>2, <3>3, <3>4, Zenon
  <2>. QED BY <2>2, <2>3, <2>4, SeqEqual
<1>3. ASSUME n > 0
      PROVE  /\ Head(Run(n, e)) = e - n + 1 /\ Run(n, e) # <<>>
             /\ Tail(Run(n, e)) = Run(n - 1, e)
  <2>1. Run(n, e) \in Seq(Int) /\ Len(Run(n, e)) = n /\ Run(n, e)[1] = e - n + 1 /\ n - 1 \in Nat
    BY <1>1, <1>3
  <2>2. Run(n, e) # <<>> BY <1>3, <2>1
  <2>3. /\ Tail(Run(n, e)) \in Seq(Int) /\ Len(Tail(Run(n, e))) = n - 1
        /\ \A i \in 1..(n - 1) : Tail(Run(n, e))[i] = Run(n, e)[i + 1]
        /\ Head(Run(n, e)) = Run(n, e)[1]
    BY <2>1, <2>2, HeadTailProperties
  <2>4. Run(n - 1, e) \in Seq(Int) /\ Len(Run(n - 1, e)) = n - 1 BY <1>1, <2>1, Zenon
  <2>5. ASSUME NEW i \in 1..(n - 1) PROVE Tail(Run(n, e))[i] = Run(n - 1, e)[i]
    <3>1. Run(n - 1, e)[i] = e - (n - 1) + i BY <1>1, <2>1
    <3>2. Run(n, e)[i + 1] = e - n + (i + 1) BY <1>1, <1>3
    <3>. QED BY <2>3, <3>1, <3>2
  <2>. QED BY <2>1, <2>2, <2>3, <2>4, <2>5, SeqEqual, Zenon
<1>. QED BY <1>1, <1>2, <1>3, Zenon

LEMMA StepRefines ==
  IndInv /\ IndInv' /\ [Next]_vars => [Fifo!Put \/ Fifo!Displace \/ Fifo!Get]_(Fifo!vars)
<1>. SUFFICES ASSUME IndInv, IndInv', [Next]_vars
              PROVE  [Fifo!Put \/ Fifo!Displace \/ Fifo!Get]_(Fifo!vars)
  OBVIOUS
<1>. USE RingAssumption
<1>0. /\ get_buffer = Run(size, entered) /\ get_buffer' = Run(size', entered')
      /\ size \in 0..Capacity /\ entered \in Nat
  <2>1. IndInv' => (get_buffer = Run(size, entered))' BY ContentsLemma, PTL
  <2>. QED BY <2>1, ContentsLemma DEF IndInv, TypeOK, Run
<1>n. size \in Nat /\ entered \in Nat BY <1>0
<1>1. CASE Store /\ ~is_full
  <2>1. /\ size' = size + 1 /\ size < Capacity /\ entered' = entered + 1 /\ taken' = taken
    BY <1>0, <1>1 DEF Store, is_full
  <2>2. Len(get_buffer) = size /\ get_buffer' = Append(get_buffer, entered + 1)
    <3>1. Len(Run(size, entered)) = size /\ Append(Run(size, entered), entered + 1) = Run(size + 1, entered + 1)
      BY <1>n, RunLemma, Zenon
    <3>2. get_buffer' = Run(size + 1, entered + 1) BY <1>0, <2>1, Zenon
    <3>. QED BY <1>0, <3>1, <3>2, Zenon
  <2>. QED BY <2>1, <2>2 DEF Fifo!Put
<1>2. CASE Store /\ is_full
  <2>1. /\ size' = size /\ size = Capacity /\ entered' = entered + 1 /\ taken' = taken
    BY <1>0, <1>2 DEF Store, is_full
  <2>2. /\ Len(get_buffer) = Capacity /\ Tail(get_buffer) = Run(size - 1, entered)
    <3>1. size > 0 BY <2>1
    <3>2. Len(Run(size, entered)) = size /\ Tail(Run(size, entered)) = Run(size - 1, entered)
      BY <1>n, <3>1, RunLemma, Zenon
    <3>. QED BY <1>0, <2>1, <3>2, Zenon
  <2>3. size - 1 \in Nat BY <2>1
  <2>4. Append(Run(size - 1, entered), entered + 1) = Run((size - 1) + 1, entered + 1)
    BY <1>0, <2>3, RunLemma, Zenon
  <2>5. (size - 1) + 1 = size' BY <2>1
  <2>. QED BY <1>0, <2>1, <2>2, <2>4, <2>5 DEF Fifo!Displace
<1>3. CASE Fetch /\ ~is_empty
  <2>1. /\ size' = size - 1 /\ size > 0 /\ entered' = entered
        /\ taken' = Append(taken, entered - size + 1)
    BY <1>0, <1>3, FetchInd DEF Fetch, is_empty
  <2>2. /\ get_buffer # <<>> /\ Head(get_buffer) = entered - size + 1
        /\ get_buffer' = Tail(get_buffer)
    <3>1. /\ Run(size, entered) # <<>> /\ Head(Run(size, entered)) = entered - size + 1
          /\ Tail(Run(size, entered)) = Run(size - 1, entered)
      BY <1>n, <2>1, RunLemma, Zenon
    <3>2. get_buffer' = Run(size - 1, entered) BY <1>0, <2>1, Zenon
    <3>. QED BY <1>0, <3>1, <3>2, Zenon
  <2>. QED BY <2>1, <2>2 DEF Fifo!Get
<1>4. CASE UNCHANGED data
  BY <1>0, <1>4 DEF data, Fifo!vars
<1>. QED BY <1>1, <1>2, <1>3, <1>4, DataSteps

(* The circular buffer with its timeouts implements the lossy bounded queue. *)
THEOREM Implements == SafeSpec => ImplementsFifo
<1>1. Init => Fifo!Init BY DEF Init, Fifo!Init, get_buffer
<1>. QED BY <1>1, StepRefines, Invariance, PTL DEF SafeSpec, ImplementsFifo, Fifo!LossySpec

-------------------------------------------------------------------------------
(* What a step of a thread does to the notifications does not depend on the  *)
(* queue behind the condition variables.                                     *)
Queue == INSTANCE BlockingQueueProofs WITH queue <- get_buffer

LEMMA SameNumber ==
  /\ \A S : Queue!IsFiniteSet(S) <=> IsFiniteSet(S)
  /\ \A f, S, a : Queue!Number(f, S, a) = Number(f, S, a)
  /\ \A f, S : Queue!Waiting(f, S) = Waiting(f, S)
<1>1. \A S : Queue!Cardinality(S) = Cardinality(S) BY DEF Cardinality, Queue!Cardinality
<1>2. \A S : Queue!IsFiniteSet(S) <=> IsFiniteSet(S) BY DEF IsFiniteSet, Queue!IsFiniteSet
<1>. QED BY <1>1, <1>2 DEF Number, Waiting, Queue!Number, Queue!Waiting

LEMMA SameCovered ==
  /\ \A f, n, N, S : Queue!Covered(f, n, N, S) <=> Covered(f, n, N, S)
  /\ \A f, S : Queue!NotifyOne(f, S) = NotifyOne(f, S)
BY SameNumber DEF Covered, NotifyOne, Queue!Covered, Queue!NotifyOne

LEMMA QueueAssumed ==
  /\ Capacity \in Nat
  /\ Calls \in [Producers \cup Consumers -> Nat]
  /\ Producers \cap Consumers = {} /\ Queue!IsFiniteSet(Producers) /\ Queue!IsFiniteSet(Consumers)
BY RingAssumption, SameNumber

LEMMA ThreadSteps ==
  ASSUME NEW T, NEW P, NEW f \in [T -> P], NEW A \in SUBSET T, NEW B \in SUBSET T,
         IsFiniteSet(A), IsFiniteSet(B), A \cap B = {},
         NEW a \in Int, NEW b \in Int, Covered(f, a, B, A), Covered(f, b, A, B),
         NEW a2 \in Int, NEW b2 \in Int, NEW t \in A, NEW v,
         Queue!Accounts(f[t], v, a, a2, b, b2), NEW g, g = [f EXCEPT ![t] = v]
  PROVE  Covered(g, a2, B, A) /\ Covered(g, b2, A, B)
BY Queue!ThreadSteps, QueueAssumed, SameNumber, SameCovered

LEMMA ThreadNotifies ==
  ASSUME NEW T, NEW P, "out" \in P, NEW f \in [T -> P], NEW A \in SUBSET T, NEW B \in SUBSET T,
         IsFiniteSet(A), IsFiniteSet(B), A \cap B = {},
         NEW a \in Int, NEW b \in Int, Covered(f, a, B, A), Covered(f, b, A, B),
         NEW t \in A, f[t] = "notify", NEW h \in NotifyOne([f EXCEPT ![t] = "out"], B)
  PROVE  Covered(h, a, B, A) /\ Covered(h, b, A, B)
BY Queue!ThreadNotifies, QueueAssumed, SameNumber, SameCovered

(* EnoughWakeups is inductive on the states of the right type.               *)
LEMMA NextWakeups == TypeOK /\ EnoughWakeups /\ [Next]_vars => EnoughWakeups'
<1>. SUFFICES ASSUME TypeOK, EnoughWakeups, [Next]_vars PROVE EnoughWakeups' OBVIOUS
<1>. DEFINE Places == {"out", "waiting", "awake", "timedout", "notify"}
<1>0. /\ size \in Int /\ Capacity \in Int /\ size >= 0 /\ size <= Capacity
      /\ pc \in [Threads -> Places] /\ "out" \in Places
      /\ Producers \in SUBSET Threads /\ Consumers \in SUBSET Threads
      /\ IsFiniteSet(Producers) /\ IsFiniteSet(Consumers)
      /\ Producers \cap Consumers = {} /\ Consumers \cap Producers = {}
  BY RingAssumption DEF TypeOK, Threads
<1>k. PICK k \in Int : k = Capacity - size BY <1>0
<1>c. Covered(pc, size, Producers, Consumers) /\ Covered(pc, k, Consumers, Producers)
  BY <1>k DEF EnoughWakeups
<1>. HIDE DEF Places
<1>1. SUFFICES Covered(pc', size', Producers, Consumers) /\ Covered(pc', Capacity - size', Consumers, Producers)
  BY DEF EnoughWakeups
<1>2. ASSUME NEW p \in Producers, NEW v, pc' = [pc EXCEPT ![p] = v], NEW n2 \in Int, NEW k2 \in Int,
             size' = n2, k2 = Capacity - n2, Queue!Accounts(pc[p], v, k, k2, size, n2)
      PROVE  Covered(pc', size', Producers, Consumers) /\ Covered(pc', Capacity - size', Consumers, Producers)
  <2>1. Covered(pc', n2, Producers, Consumers) /\ Covered(pc', k2, Consumers, Producers)
    BY <1>0, <1>c, <1>2, ThreadSteps
  <2>. QED BY <1>2, <2>1
<1>3. ASSUME NEW c \in Consumers, NEW v, pc' = [pc EXCEPT ![c] = v], NEW n2 \in Int, NEW k2 \in Int,
             size' = n2, k2 = Capacity - n2, Queue!Accounts(pc[c], v, size, n2, k, k2)
      PROVE  Covered(pc', size', Producers, Consumers) /\ Covered(pc', Capacity - size', Consumers, Producers)
  <2>1. Covered(pc', n2, Producers, Consumers) /\ Covered(pc', k2, Consumers, Producers)
    BY <1>0, <1>c, <1>3, ThreadSteps
  <2>. QED BY <1>3, <2>1
<1>4. ASSUME NEW p \in Producers, Enqueue(p) \/ SpuriousWakeup(p)
      PROVE  Covered(pc', size', Producers, Consumers) /\ Covered(pc', Capacity - size', Consumers, Producers)
  <2>1. CASE PutNotify(p)
    <3>1. pc[p] = "notify" /\ pc' \in NotifyOne([pc EXCEPT ![p] = "out"], Consumers) /\ size' = size
      BY <2>1 DEF PutNotify, data
    <3>2. Covered(pc', size, Producers, Consumers) /\ Covered(pc', k, Consumers, Producers)
      BY <1>0, <1>c, <3>1, ThreadNotifies
    <3>. QED BY <1>k, <3>1, <3>2
  <2>2. CASE PutWait(p)
    <3>1. pc' = [pc EXCEPT ![p] = "waiting"] /\ pc[p] # "notify" /\ size' = size /\ size = Capacity
      BY <2>2 DEF PutWait, Enters, is_full, data
    <3>2. Queue!Accounts(pc[p], "waiting", k, k, size, size) BY <1>0, <1>k, <3>1 DEF Queue!Accounts
    <3>. QED BY <1>0, <1>k, <1>2, <3>1, <3>2
  <2>3. CASE Put(p)
    <3>1. PICK n2 \in Int, k2 \in Int :
            n2 = (IF size = Capacity THEN size ELSE size + 1) /\ k2 = Capacity - n2
      BY <1>0
    <3>2. pc' = [pc EXCEPT ![p] = "notify"] /\ size' = n2 BY <2>3, <3>1 DEF Put, Store, is_full
    <3>3. pc[p] # "notify" /\ (pc[p] = "awake" => size # Capacity) BY <2>3 DEF Put, Enters, is_full
    <3>4. Queue!Accounts(pc[p], "notify", k, k2, size, n2) BY <1>0, <1>k, <3>1, <3>3 DEF Queue!Accounts
    <3>. QED BY <1>2, <3>1, <3>2, <3>4
  <2>4. CASE Timeout(p) \/ SpuriousWakeup(p)
    <3>1. PICK v \in {"timedout", "awake"} : pc' = [pc EXCEPT ![p] = v]
      BY <2>4 DEF Timeout, SpuriousWakeup
    <3>2. pc[p] = "waiting" /\ size' = size BY <2>4 DEF Timeout, SpuriousWakeup, data
    <3>3. Queue!Accounts(pc[p], v, k, k, size, size) BY <1>0, <1>k, <3>1, <3>2 DEF Queue!Accounts
    <3>. QED BY <1>0, <1>k, <1>2, <3>1, <3>2, <3>3
  <2>. QED BY <1>4, <2>1, <2>2, <2>3, <2>4 DEF Enqueue
<1>5. ASSUME NEW c \in Consumers, Dequeue(c) \/ SpuriousWakeup(c)
      PROVE  Covered(pc', size', Producers, Consumers) /\ Covered(pc', Capacity - size', Consumers, Producers)
  <2>1. CASE GetNotify(c)
    <3>1. pc[c] = "notify" /\ pc' \in NotifyOne([pc EXCEPT ![c] = "out"], Producers) /\ size' = size
      BY <2>1 DEF GetNotify, data
    <3>2. Covered(pc', size, Producers, Consumers) /\ Covered(pc', k, Consumers, Producers)
      BY <1>0, <1>c, <3>1, ThreadNotifies
    <3>. QED BY <1>k, <3>1, <3>2
  <2>2. CASE GetWait(c)
    <3>1. pc' = [pc EXCEPT ![c] = "waiting"] /\ pc[c] # "notify" /\ size' = size /\ size = 0
      BY <2>2 DEF GetWait, Enters, is_empty, data
    <3>2. Queue!Accounts(pc[c], "waiting", size, size, k, k) BY <1>0, <1>k, <3>1 DEF Queue!Accounts
    <3>. QED BY <1>0, <1>k, <1>3, <3>1, <3>2
  <2>3. CASE Get(c)
    <3>1. PICK n2 \in Int, k2 \in Int : n2 = size - 1 /\ k2 = Capacity - n2 BY <1>0
    <3>2. pc' = [pc EXCEPT ![c] = "notify"] /\ size' = n2 BY <2>3, <3>1 DEF Get, Fetch
    <3>3. pc[c] # "notify" BY <2>3 DEF Get, Enters
    <3>4. Queue!Accounts(pc[c], "notify", size, n2, k, k2) BY <1>0, <1>k, <3>1, <3>3 DEF Queue!Accounts
    <3>. QED BY <1>3, <3>1, <3>2, <3>4
  <2>4. CASE Timeout(c) \/ SpuriousWakeup(c) \/ GetFails(c)
    <3>1. PICK v \in {"timedout", "awake", "out"} : pc' = [pc EXCEPT ![c] = v]
      BY <2>4 DEF Timeout, SpuriousWakeup, GetFails
    <3>2. pc[c] \in {"waiting", "timedout"} /\ size' = size
      BY <2>4 DEF Timeout, SpuriousWakeup, GetFails, data
    <3>3. Queue!Accounts(pc[c], v, size, size, k, k) BY <1>0, <1>k, <3>1, <3>2 DEF Queue!Accounts
    <3>. QED BY <1>0, <1>k, <1>3, <3>1, <3>2, <3>3
  <2>. QED BY <1>5, <2>1, <2>2, <2>3, <2>4 DEF Dequeue
<1>6. CASE UNCHANGED vars
  <2>1. pc' = pc /\ size' = size BY <1>6 DEF vars, data
  <2>. QED BY <1>c, <1>k, <2>1
<1>. QED BY <1>4, <1>5, <1>6 DEF Next

(* One notify_one per enqueue and per dequeue is enough: no stored item and  *)
(* no free slot is left without a notification while a thread sleeps that    *)
(* could use it, whatever times out, overwrites or wakes by itself.          *)
THEOREM WakeupsSuffice == SafeSpec => []EnoughWakeups
<1>1. Init => EnoughWakeups BY DEF Init, EnoughWakeups, Covered, Waiting, Threads
<1>. QED BY <1>1, NextWakeups, TypeCorrect, PTL DEF SafeSpec
===============================================================================
