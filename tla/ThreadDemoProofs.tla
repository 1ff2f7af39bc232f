--------------------------- MODULE ThreadDemoProofs ----------------------------
(***************************************************************************)
(* The inductive invariants of the demos whose threads share memory: the two *)
(* queues of Boost and the counters of APR.                                  *)
(***************************************************************************)
EXTENDS Demos, Sequences, TLAPS

(***************************************************************************)
(* The queue of one producer and one consumer never overflows, since it has  *)
(* a place for every number.                                                 *)
(***************************************************************************)
SpscTypes ==
  s \in [program : {"spsc"}, q : Seq(Nat), i : 1..(Items + 1), cpc : {"pop", "ended"},
         mpc : {"join", "consume", "end"}, sum : Nat]

SpscInv ==
  /\ SpscTypes /\ Queues!SumAndQueue
  /\ Len(s.q) < s.i
  /\ s.mpc # "join" => Queues!Joined
  /\ s.mpc = "end" => s.q = <<>>

LEMMA SpscInit ==
  ASSUME s = [program |-> "spsc", q |-> <<>>, i |-> 1, cpc |-> "pop", mpc |-> "join", sum |-> 0]
  PROVE  SpscInv
<1>1. SpscTypes BY DemoAssumption DEF SpscTypes
<1>. QED BY <1>1 DEF SpscInv, Queues!SumAndQueue

(* Both the consumer and main take the oldest number.                        *)
LEMMA SpscPop == ASSUME SpscInv, Queues!PopOne PROVE SpscInv'
<1>1. s.q \in Seq(Nat) /\ s.q # <<>> /\ s.i \in Nat /\ s.sum \in Nat /\ Len(s.q) \in Nat
      /\ Len(s.q) < s.i
  BY DEF SpscInv, SpscTypes, Queues!PopOne
<1>n. PICK i \in Nat, n \in Nat, m \in Nat : i = s.i /\ n = Len(s.q) /\ m = s.sum BY <1>1
<1>p. PICK p \in Nat : p = i - 1 - n
  <2>1. n < i BY <1>1, <1>n
  <2>. QED BY <2>1
<1>2. s.program = "spsc" /\ 2 * m = p * (p + 1) /\ \A k \in DOMAIN s.q : s.q[k] = p + k
  BY <1>n, <1>p DEF SpscInv, SpscTypes, Queues!SumAndQueue
<1>3. Head(s.q) = p + 1 BY <1>1, <1>2
<1>4. Tail(s.q) \in Seq(Nat) /\ Len(Tail(s.q)) = n - 1
      /\ \A k \in DOMAIN Tail(s.q) : k \in Nat /\ k + 1 \in DOMAIN s.q /\ Tail(s.q)[k] = s.q[k + 1]
  BY <1>1, <1>n
<1>5. s' = [s EXCEPT !.sum = m + (p + 1), !.q = Tail(s.q)] BY <1>3, <1>n, Zenon DEF Queues!PopOne
<1>6. SpscTypes'
  <2>1. m + (p + 1) \in Nat OBVIOUS
  <2>. QED BY <1>4, <1>5, <2>1, Zenon DEF SpscInv, SpscTypes
<1>7. /\ s'.program = s.program /\ s'.i = i /\ s'.cpc = s.cpc /\ s'.mpc = s.mpc
      /\ s'.sum = m + (p + 1) /\ s'.q = Tail(s.q)
  BY <1>5, <1>n DEF SpscInv, SpscTypes
<1>8. Queues!SumAndQueue'
  <2>1. s'.i - 1 - Len(s'.q) = p + 1
    <3>1. i - 1 - (n - 1) = p + 1 BY <1>p
    <3>. QED BY <1>4, <1>7, <3>1, Zenon
  <2>2. 2 * (m + (p + 1)) = (p + 1) * ((p + 1) + 1) BY <1>2
  <2>3. \A k \in DOMAIN Tail(s.q) : Tail(s.q)[k] = (p + 1) + k
    <3>1. \A k \in Nat : p + (k + 1) = (p + 1) + k OBVIOUS
    <3>. QED BY <1>2, <1>4, <3>1, Zenon
  <2>. QED BY <1>7, <2>1, <2>2, <2>3, Zenon DEF Queues!SumAndQueue
<1>. QED BY <1>1, <1>4, <1>6, <1>7, <1>8, <1>n DEF SpscInv, Queues!Joined

LEMMA SpscProduce == ASSUME SpscInv, Queues!produce PROVE SpscInv'
<1>1. s.q \in Seq(Nat) /\ s.i \in Nat /\ Len(s.q) \in Nat
      /\ Len(s.q) < s.i /\ s.i <= Items /\ Items \in Nat
  BY DemoAssumption DEF SpscInv, SpscTypes, Queues!produce
<1>n. PICK i \in Nat, n \in Nat : i = s.i /\ n = Len(s.q) BY <1>1
<1>p. PICK p \in Nat : p = i - 1 - n
  <2>1. n < i BY <1>1, <1>n
  <2>. QED BY <2>1
<1>2. s.program = "spsc" /\ 2 * s.sum = p * (p + 1) /\ \A k \in DOMAIN s.q : s.q[k] = p + k
  BY <1>n, <1>p DEF SpscInv, SpscTypes, Queues!SumAndQueue
<1>. DEFINE q == Append(s.q, i)
<1>3. s' = [s EXCEPT !.i = i + 1, !.q = q]
  <2>1. Len(s.q) < Queues!Places BY <1>1 DEF Queues!Places
  <2>. QED BY <1>n, <2>1 DEF Queues!produce
<1>4. q \in Seq(Nat) /\ Len(q) = n + 1
      /\ \A k \in DOMAIN q : (k \in DOMAIN s.q /\ q[k] = s.q[k]) \/ (k = n + 1 /\ q[k] = i)
  BY <1>1, <1>n
<1>5. i + 1 \in 1..(Items + 1) BY <1>1, <1>n
<1>6. SpscTypes' BY <1>3, <1>4, <1>5, Zenon DEF SpscInv, SpscTypes
<1>7. /\ s'.program = s.program /\ s'.i = i + 1 /\ s'.cpc = s.cpc /\ s'.mpc = s.mpc
      /\ s'.sum = s.sum /\ s'.q = q
  BY <1>3 DEF SpscInv, SpscTypes
<1>. HIDE DEF q
<1>8. Queues!SumAndQueue'
  <2>1. s'.i - 1 - Len(s'.q) = p
    <3>1. (i + 1) - 1 - (n + 1) = p BY <1>p
    <3>. QED BY <1>4, <1>7, <3>1, Zenon
  <2>2. i = p + (n + 1) BY <1>p
  <2>3. \A k \in DOMAIN q : q[k] = p + k BY <1>2, <1>4, <2>2, Zenon
  <2>. QED BY <1>2, <1>7, <2>1, <2>3 DEF Queues!SumAndQueue
<1>9. s.mpc = "join" BY <1>1 DEF SpscInv, Queues!Joined
<1>. QED BY <1>4, <1>6, <1>7, <1>8, <1>9, <1>n DEF SpscInv, Queues!Joined

LEMMA SpscNext == ASSUME SpscInv, Queues!Next PROVE SpscInv'
<1>0. s.program = "spsc" BY DEF SpscInv, SpscTypes
<1>1. CASE Queues!consume
  <2>1. CASE s' = [s EXCEPT !.cpc = "ended"]
    <3>1. SpscTypes' BY <2>1 DEF SpscInv, SpscTypes
    <3>. QED BY <2>1, <3>1 DEF SpscInv, SpscTypes, Queues!SumAndQueue, Queues!Joined
  <2>. QED BY <1>1, <2>1, SpscPop DEF Queues!consume
<1>2. CASE Queues!boost_queue_demo
  <2>1. CASE Queues!MainJoins
    <3>1. Queues!Joined /\ s' = [s EXCEPT !.mpc = "consume"] BY <2>1 DEF Queues!MainJoins
    <3>2. SpscTypes' BY <3>1 DEF SpscInv, SpscTypes
    <3>. QED BY <3>1, <3>2 DEF SpscInv, SpscTypes, Queues!SumAndQueue, Queues!Joined
  <2>2. CASE s.mpc = "consume" /\ s.q = <<>> /\ s' = [s EXCEPT !.mpc = "end"]
    <3>1. SpscTypes' BY <2>2 DEF SpscInv, SpscTypes
    <3>. QED BY <2>2, <3>1 DEF SpscInv, SpscTypes, Queues!SumAndQueue, Queues!Joined
  <2>. QED BY <1>2, <2>1, <2>2, SpscPop DEF Queues!boost_queue_demo, Queues!MainConsumes
<1>3. CASE s' = s BY <1>3 DEF SpscInv, SpscTypes, Queues!SumAndQueue, Queues!Joined
<1>. QED BY <1>0, <1>1, <1>2, <1>3, SpscProduce
         DEF Queues!Next, Queues!Produce, Queues!Consume, Queues!Main, Queues!Ended

LEMMA SpscImplies == SpscInv => Queues!SumAndQueue /\ Queues!SumIsComplete
<1>. SUFFICES ASSUME SpscInv, s.mpc = "end" PROVE 2 * s.sum = Items * (Items + 1)
  BY DEF SpscInv, Queues!SumIsComplete
<1>1. s.q = <<>> /\ Len(s.q) = 0 /\ s.i = Items + 1 /\ s.program = "spsc"
  BY DemoAssumption DEF SpscInv, SpscTypes, Queues!Joined
<1>2. s.i - 1 - Len(s.q) = Items BY <1>1, DemoAssumption
<1>. QED BY <1>1, <1>2 DEF SpscInv, Queues!SumAndQueue

(* The facts about finite sets the next two demos need.  They hold, by the   *)
(* lemma SetFactsHold of DemoProofs; the library is brought in there, since  *)
(* every definition in sight makes each proof slower.                        *)
SetFacts ==
  /\ IsFiniteSet({}) /\ Cardinality({}) = 0
  /\ \A x : Cardinality({x}) = 1
  /\ \A S, x : IsFiniteSet(S) /\ x \notin S =>
       IsFiniteSet(S \cup {x}) /\ Cardinality(S \cup {x}) = Cardinality(S) + 1
  /\ \A S, x : IsFiniteSet(S) /\ x \in S =>
       IsFiniteSet(S \ {x}) /\ Cardinality(S) = Cardinality(S \ {x}) + 1
  /\ \A m \in Nat : IsFiniteSet(1..m) /\ Cardinality(1..m) = m
  /\ \A S : IsFiniteSet(S) => Cardinality(S) \in Nat
  /\ \A S, T : IsFiniteSet(S) /\ IsFiniteSet(T) =>
       Cardinality(S \X T) = Cardinality(S) * Cardinality(T)

LEMMA SameCardinality ==
  /\ \A S : Apr!Cardinality(S) = Cardinality(S)
  /\ \A S : Queues!Cardinality(S) = Cardinality(S)
<1>1. \A S : Apr!Cardinality(S) = Cardinality(S) BY DEF Apr!Cardinality, Cardinality
<1>2. \A S : Queues!Cardinality(S) = Cardinality(S) BY DEF Queues!Cardinality, Cardinality
<1>. QED BY <1>1, <1>2

(***************************************************************************)
(* The two counters.  A thread between lock and unlock holds the mutex, so   *)
(* that what it loaded is still the counter when it stores.                  *)
(***************************************************************************)
AtWork == {"load", "store", "unlock"}

CounterTypes ==
  s \in [program : {"counter"}, demo : {"mutex", "atomic"}, counter : Nat, mutex : SUBSET {t1, t2},
         mpc : {"create1", "create2", "join1", "join2", "report", "unwound", "ended"},
         verdict : {"none", "ok", "mismatch", "error"}, touched : BOOLEAN,
         wpc : [{t1, t2} -> AtWork \cup {"none", "loop", "exited", "lost"}],
         reg : [{t1, t2} -> Nat], left : [{t1, t2} -> 0..Rounds]]

(* How many increments a thread at w has stored and not counted in left.     *)
Gain(w) == IF w = "unlock" THEN 1 ELSE 0
Ahead(t) == Gain(s.wpc[t])

Counted == ~s.touched => s.counter + s.left[t1] + s.left[t2] = 2 * Rounds + Ahead(t1) + Ahead(t2)

Exclusive ==
  \A t \in {t1, t2} :
    /\ s.wpc[t] \in AtWork => s.mutex = {t} /\ s.left[t] > 0 /\ s.demo = "mutex"
    /\ s.wpc[t] = "store" => s.reg[t] = s.counter
    /\ s.wpc[t] = "exited" => s.left[t] = 0
    /\ s.wpc[t] = "lost" => s.touched

Order ==
  /\ s.mpc = "create1" => s.wpc[t1] = "none"
  /\ s.mpc = "create2" \/ s.wpc[t1] = "none" => s.wpc[t2] = "none"
  /\ s.mpc \in {"create2", "join1"} => s.wpc[t1] # "none"
  /\ s.mpc \in {"join2", "report"} => s.wpc[t1] = "exited"
  /\ s.mpc = "report" => s.wpc[t2] = "exited"
  /\ s.mpc \in {"unwound", "ended"} <=> s.verdict # "none"
  /\ s.touched => s.mpc \in {"unwound", "ended"}

CounterInv == CounterTypes /\ Counted /\ Exclusive /\ Order /\ Apr!SharedOutlivesThreads

LEMMA CounterInit == s \in Apr!CounterStarts => CounterInv
<1>. SUFFICES ASSUME s \in Apr!CounterStarts PROVE CounterInv OBVIOUS
<1>1. PICK d \in {"mutex", "atomic"} :
        s = [program |-> "counter", demo |-> d, counter |-> 0, mutex |-> {}, mpc |-> "create1",
             verdict |-> "none", touched |-> FALSE, wpc |-> [t \in {t1, t2} |-> "none"],
             reg |-> [t \in {t1, t2} |-> 0], left |-> [t \in {t1, t2} |-> Rounds]]
  BY DEF Apr!CounterStarts, Apr!Threads
<1>2. Rounds \in Nat /\ Rounds \in 0..Rounds /\ 0 + Rounds + Rounds = 2 * Rounds + 0 + 0
  BY DemoAssumption
<1>3. CounterTypes BY <1>1, <1>2 DEF CounterTypes
<1>4. Counted BY <1>1, <1>2 DEF Counted, Ahead, Gain
<1>5. Exclusive /\ Order /\ Apr!SharedOutlivesThreads
  BY <1>1 DEF Exclusive, Order, AtWork, Apr!SharedOutlivesThreads
<1>. QED BY <1>3, <1>4, <1>5 DEF CounterInv

LEMMA CounterMainInd == ASSUME CounterInv, Apr!CounterMain PROVE CounterInv'
<1>. USE DEF CounterInv
<1>1. ASSUME NEW t \in {t1, t2}, NEW from, NEW to, Apr!Create(t, from, to),
             \/ t = t1 /\ from = "create1" /\ to = "create2"
             \/ t = t2 /\ from = "create2" /\ to = "join1"
      PROVE  CounterInv'
  <2>1. s.mpc = from /\ s' = [s EXCEPT !.mpc = to, !.wpc[t] = "loop"] BY <1>1 DEF Apr!Create
  <2>2. CounterTypes' BY <1>1, <2>1, Zenon DEF CounterTypes
  <2>3. /\ s'.mpc = to /\ s'.verdict = s.verdict /\ s'.touched = s.touched /\ s'.mutex = s.mutex
        /\ s'.counter = s.counter /\ s'.reg = s.reg /\ s'.left = s.left /\ s'.demo = s.demo
        /\ s'.wpc[t] = "loop" /\ \A u \in {t1, t2} : u # t => s'.wpc[u] = s.wpc[u]
    BY <2>1 DEF CounterTypes
  <2>4. s.wpc[t] = "none" BY <1>1, <2>1 DEF Order
  <2>5. Counted' BY <2>3, <2>4 DEF Counted, Ahead, Gain
  <2>6. Exclusive' BY <2>3, <2>4 DEF Exclusive, AtWork
  <2>7. Order' BY <1>1, <2>1, <2>3, DemoAssumption DEF Order
  <2>8. Apr!SharedOutlivesThreads' BY <1>1, <2>1, <2>3 DEF Order, Apr!SharedOutlivesThreads
  <2>. QED BY <2>2, <2>5, <2>6, <2>7, <2>8
<1>2. ASSUME NEW to \in {"join2", "report", "ended"}, s' = [s EXCEPT !.mpc = to],
             \/ s.mpc = "join1" /\ s.wpc[t1] = "exited" /\ to = "join2"
             \/ s.mpc = "join2" /\ s.wpc[t2] = "exited" /\ to = "report"
             \/ s.mpc = "unwound" /\ to = "ended"
      PROVE  CounterInv'
  <2>1. CounterTypes' BY <1>2 DEF CounterTypes
  <2>2. /\ s'.mpc = to /\ s'.verdict = s.verdict /\ s'.touched = s.touched /\ s'.mutex = s.mutex
        /\ s'.counter = s.counter /\ s'.reg = s.reg /\ s'.left = s.left /\ s'.demo = s.demo
        /\ s'.wpc = s.wpc
    BY <1>2 DEF CounterTypes
  <2>3. Order' BY <1>2, <2>2 DEF Order
  <2>4. Counted' BY <2>2 DEF Counted, Ahead, Gain
  <2>. QED BY <2>1, <2>2, <2>3, <2>4 DEF Exclusive, Apr!SharedOutlivesThreads, Apr!Threads
<1>3. ASSUME NEW v \in {"ok", "mismatch", "error"}, s' = [s EXCEPT !.mpc = "unwound", !.verdict = v],
             s.mpc \notin {"unwound", "ended"},
             v # "error" => s.mpc = "report" /\ v = IF s.counter = 2 * Rounds THEN "ok" ELSE "mismatch"
      PROVE  CounterInv'
  <2>1. CounterTypes' BY <1>3, Zenon DEF CounterTypes
  <2>2. /\ s'.mpc = "unwound" /\ s'.verdict = v /\ s'.touched = s.touched /\ s'.mutex = s.mutex
        /\ s'.counter = s.counter /\ s'.reg = s.reg /\ s'.left = s.left /\ s'.demo = s.demo
        /\ s'.wpc = s.wpc
    BY <1>3 DEF CounterTypes
  <2>3. ~s.touched BY <1>3 DEF Order
  <2>4. ASSUME v # "error" PROVE v = "ok" /\ s.wpc[t1] = "exited" /\ s.wpc[t2] = "exited"
    <3>1. s.wpc[t1] = "exited" /\ s.wpc[t2] = "exited" BY <1>3, <2>4 DEF Order
    <3>2. s.left[t1] = 0 /\ s.left[t2] = 0 BY <3>1 DEF Exclusive
    <3>3. s.counter + 0 + 0 = 2 * Rounds + 0 + 0 BY <2>3, <3>1, <3>2 DEF Counted, Ahead, Gain
    <3>4. s.counter \in Nat /\ Rounds \in Nat BY DemoAssumption DEF CounterTypes
    <3>5. s.counter = 2 * Rounds BY <3>3, <3>4
    <3>. QED BY <1>3, <2>4, <3>1, <3>5
  <2>5. Order' BY <1>3, <2>2, <2>3 DEF Order
  <2>6. Apr!SharedOutlivesThreads' BY <2>2, <2>3, <2>4 DEF Apr!SharedOutlivesThreads, Apr!Threads
  <2>7. Counted' BY <2>2 DEF Counted, Ahead, Gain
  <2>. QED BY <2>1, <2>2, <2>5, <2>6, <2>7 DEF Exclusive
<1>4. CASE Apr!Create(t1, "create1", "create2") \/ Apr!Create(t2, "create2", "join1") BY <1>1, <1>4
<1>5. CASE Apr!Join(t1, "join1", "join2") \/ Apr!Join(t2, "join2", "report") \/ Apr!Return
  BY <1>2, <1>5 DEF Apr!Join, Apr!Joinable, Apr!Return
<1>6. CASE Apr!Report \/ Apr!Throw BY <1>3, <1>6, Zenon DEF Apr!Report, Apr!Throw
<1>. QED BY <1>4, <1>5, <1>6 DEF Apr!CounterMain

(* A step of thread t that leaves the counter at c, the mutex at x, and the  *)
(* thread at w with r loaded and k rounds to go.                             *)
Moves(t, c, x, w, r, k) ==
  /\ CounterTypes'
  /\ s'.mpc = s.mpc /\ s'.verdict = s.verdict /\ s'.touched = s.touched /\ s'.demo = s.demo
  /\ s'.counter = c /\ s'.mutex = x /\ s'.wpc[t] = w /\ s'.reg[t] = r /\ s'.left[t] = k
  /\ \A u \in {t1, t2} \ {t} : s'.wpc[u] = s.wpc[u] /\ s'.reg[u] = s.reg[u] /\ s'.left[u] = s.left[u]

(* What such a step must respect when the other thread is u.                 *)
Respects(t, u, c, x, w, r, k) ==
  /\ c \in Nat /\ r \in Nat /\ k \in Nat /\ w \in AtWork \cup {"loop", "exited"}
  /\ s.wpc[t] \in AtWork \cup {"loop"}
  /\ s.wpc[u] \in AtWork => x = s.mutex /\ c = s.counter
  /\ w \in AtWork => x = {t} /\ k > 0 /\ s.demo = "mutex"
  /\ w = "store" => r = c
  /\ w = "exited" => k = 0
  /\ c + k + Gain(s.wpc[t]) = s.counter + s.left[t] + Gain(w)

LEMMA CounterMoves ==
  ASSUME CounterInv, s.mpc \notin {"unwound", "ended"},
         NEW t \in {t1, t2}, NEW u \in {t1, t2}, u # t, NEW c, NEW x, NEW w, NEW r, NEW k,
         Moves(t, c, x, w, r, k), Respects(t, u, c, x, w, r, k)
  PROVE  CounterInv'
<1>. USE DEF CounterInv
<1>0. /\ c \in Nat /\ r \in Nat /\ k \in Nat /\ w \in AtWork \cup {"loop", "exited"}
      /\ s.wpc[t] \in AtWork \cup {"loop"}
      /\ s.wpc[u] \in AtWork => x = s.mutex /\ c = s.counter
      /\ w \in AtWork => x = {t} /\ k > 0 /\ s.demo = "mutex"
      /\ w = "store" => r = c
      /\ w = "exited" => k = 0
      /\ c + k + Gain(s.wpc[t]) = s.counter + s.left[t] + Gain(w)
  BY DEF Respects
<1>1. PICK n \in Nat, l \in Nat, m \in Nat : n = s.counter /\ l = s.left[t] /\ m = s.left[u]
  BY DEF CounterTypes
<1>2. /\ s'.wpc[u] = s.wpc[u] /\ s'.reg[u] = s.reg[u] /\ s'.left[u] = m BY <1>1 DEF Moves
<1>3. ~s.touched /\ s.verdict = "none" BY DEF Order
<1>4. (t = t1 /\ u = t2) \/ (t = t2 /\ u = t1) OBVIOUS
<1>5. Counted'
  <2>1. PICK a \in Nat, b \in Nat, d \in Nat : a = Ahead(t) /\ b = Ahead(u) /\ d = Gain(w)
    BY DEF Ahead, Gain
  <2>2. Ahead(t)' = d /\ Ahead(u)' = b BY <1>2, <2>1 DEF Ahead, Moves
  <2>3. c + k + a = n + l + d BY <1>0, <1>1, <2>1 DEF Ahead
  <2>4. Rounds \in Nat BY DemoAssumption
  <2>5. CASE t = t1 /\ u = t2
    <3>1. n + l + m = 2 * Rounds + a + b BY <1>1, <1>3, <2>1, <2>5 DEF Counted
    <3>2. c + k + m = 2 * Rounds + d + b BY <1>0, <2>3, <2>4, <3>1
    <3>. QED BY <1>2, <2>2, <2>5, <3>2 DEF Counted, Moves
  <2>6. CASE t = t2 /\ u = t1
    <3>1. n + m + l = 2 * Rounds + b + a BY <1>1, <1>3, <2>1, <2>6 DEF Counted
    <3>2. c + m + k = 2 * Rounds + b + d BY <1>0, <2>3, <2>4, <3>1
    <3>. QED BY <1>2, <2>2, <2>6, <3>2 DEF Counted, Moves
  <2>. QED BY <1>4, <2>5, <2>6
<1>6. Exclusive'
  <2>1. /\ s'.wpc[t] \in AtWork => s'.mutex = {t} /\ s'.left[t] > 0 /\ s'.demo = "mutex"
        /\ s'.wpc[t] = "store" => s'.reg[t] = s'.counter
        /\ s'.wpc[t] = "exited" => s'.left[t] = 0
        /\ s'.wpc[t] # "lost"
    BY <1>0 DEF AtWork, Moves
  <2>2. /\ s'.wpc[u] \in AtWork => s'.mutex = {u} /\ s'.left[u] > 0 /\ s'.demo = "mutex"
        /\ s'.wpc[u] = "store" => s'.reg[u] = s'.counter
        /\ s'.wpc[u] = "exited" => s'.left[u] = 0
        /\ s'.wpc[u] = "lost" => s'.touched
    BY <1>0, <1>1, <1>2 DEF Exclusive, AtWork, Moves
  <2>. QED BY <1>4, <2>1, <2>2, Zenon DEF Exclusive
<1>7. Order'
  <2>1. s.wpc[t] \notin {"none", "exited"} /\ w # "none" BY <1>0 DEF AtWork
  <2>2. s'.wpc[t] = w /\ s'.mpc = s.mpc /\ s'.verdict = s.verdict /\ s'.touched = s.touched
    BY DEF Moves
  <2>. QED BY <1>2, <1>3, <1>4, <2>1, <2>2, Zenon DEF Order
<1>8. Apr!SharedOutlivesThreads' BY <1>3 DEF Apr!SharedOutlivesThreads, Moves
<1>. QED BY <1>5, <1>6, <1>7, <1>8 DEF Moves

LEMMA CounterWorkerInd ==
  ASSUME CounterInv, NEW t \in {t1, t2}, Apr!Worker(t) PROVE CounterInv'
<1>. USE DEF CounterInv
<1>0. PICK u \in {t1, t2} : u # t /\ {t1, t2} = {t, u} BY DemoAssumption
<1>n. PICK n \in Nat, l \in Nat : n = s.counter /\ l = s.left[t] /\ l <= Rounds /\ Rounds \in Nat
  BY DemoAssumption DEF CounterTypes
<1>1. CASE Apr!Stray(t)
  <2>1. s' = [s EXCEPT !.wpc[t] = "lost", !.touched = TRUE] /\ s.mpc = "unwound"
        /\ s.wpc[t] \notin {"none", "exited", "lost"}
    BY <1>1 DEF Apr!Stray
  <2>2. CounterTypes' BY <2>1, Zenon DEF CounterTypes
  <2>3. /\ s'.mpc = s.mpc /\ s'.verdict = s.verdict /\ s'.touched /\ s'.mutex = s.mutex
        /\ s'.counter = s.counter /\ s'.reg = s.reg /\ s'.left = s.left /\ s'.demo = s.demo
        /\ s'.wpc[t] = "lost" /\ s'.wpc[u] = s.wpc[u]
    BY <1>0, <2>1 DEF CounterTypes
  <2>4. s.verdict = "error" /\ s.wpc[t1] # "none"
    <3>1. s.verdict \in {"ok", "mismatch", "error"} BY <2>1 DEF Order, CounterTypes
    <3>. QED BY <1>0, <2>1, <3>1 DEF Order, Apr!SharedOutlivesThreads, Apr!Threads
  <2>5. Counted' BY <2>3 DEF Counted
  <2>6. Exclusive' BY <1>0, <2>3 DEF Exclusive, AtWork
  <2>7. Order' BY <1>0, <2>1, <2>3 DEF Order
  <2>8. Apr!SharedOutlivesThreads' BY <1>0, <2>1, <2>3, <2>4 DEF Apr!SharedOutlivesThreads
  <2>. QED BY <2>2, <2>5, <2>6, <2>7, <2>8
<1>. SUFFICES ASSUME s.mpc \notin {"unwound", "ended"},
                     \/ Apr!Lock(t) \/ Apr!Load(t) \/ Apr!Store(t) \/ Apr!Unlock(t)
                     \/ Apr!bump(t) \/ Apr!Exit(t)
              PROVE  CounterInv'
  BY <1>1 DEF Apr!Worker
<1>2. s.reg[t] \in Nat /\ n + 1 \in Nat BY DEF CounterTypes
<1>3. ASSUME s.wpc[t] \in AtWork
      PROVE  s.wpc[u] \notin AtWork /\ s.mutex = {t} /\ l > 0 /\ s.demo = "mutex"
  BY <1>0, <1>3, <1>n DEF Exclusive
<1>4. Gain("loop") = 0 /\ Gain("load") = 0 /\ Gain("store") = 0 /\ Gain("unlock") = 1 /\ Gain("exited") = 0
  BY DEF Gain
<1>5. CASE Apr!Lock(t)
  <2>1. s.wpc[t] = "loop" /\ l > 0 /\ s.demo = "mutex" /\ s.mutex = {}
    BY <1>5, <1>n DEF Apr!Lock, Apr!Free
  <2>2. s' = [s EXCEPT !.mutex = {t}, !.wpc[t] = "load"] BY <1>5 DEF Apr!Lock
  <2>3. CounterTypes' BY <2>2, Zenon DEF CounterTypes, AtWork
  <2>4. Moves(t, n, {t}, "load", s.reg[t], l) BY <1>n, <2>2, <2>3 DEF CounterTypes, Moves
  <2>5. s.wpc[u] \notin AtWork BY <2>1 DEF Exclusive
  <2>9. n + l + Gain(s.wpc[t]) = s.counter + s.left[t] + Gain("load")
    BY <1>4, <1>n, <2>1
  <2>10. Respects(t, u, n, {t}, "load", s.reg[t], l)
    BY <1>2, <1>n, <2>1, <2>4, <2>5, <2>9 DEF Respects, AtWork
  <2>. HIDE DEF CounterInv
  <2>. QED BY <1>0, <2>4, <2>10, CounterMoves
<1>6. CASE Apr!Load(t)
  <2>1. s.wpc[t] = "load" /\ s' = [s EXCEPT !.reg[t] = s.counter, !.wpc[t] = "store"]
    BY <1>6 DEF Apr!Load
  <2>2. CounterTypes' BY <2>1, Zenon DEF CounterTypes, AtWork
  <2>3. Moves(t, n, s.mutex, "store", n, l) BY <1>n, <2>1, <2>2 DEF CounterTypes, Moves
  <2>9. n + l + Gain(s.wpc[t]) = s.counter + s.left[t] + Gain("store")
    BY <1>4, <1>n, <2>1
  <2>10. Respects(t, u, n, s.mutex, "store", n, l)
    BY <1>3, <1>n, <2>1, <2>3, <2>9 DEF Respects, AtWork
  <2>. HIDE DEF CounterInv
  <2>. QED BY <1>0, <2>3, <2>10, CounterMoves
<1>7. CASE Apr!Store(t)
  <2>1. s.wpc[t] = "store" /\ s.reg[t] = n /\ s' = [s EXCEPT !.counter = s.reg[t] + 1, !.wpc[t] = "unlock"]
    BY <1>7, <1>n DEF Apr!Store, Exclusive
  <2>2. CounterTypes'
    <3>1. s' = [s EXCEPT !.counter = n + 1, !.wpc[t] = "unlock"] BY <2>1
    <3>. QED BY <1>2, <3>1, Zenon DEF CounterTypes, AtWork
  <2>3. Moves(t, n + 1, s.mutex, "unlock", n, l) BY <1>n, <2>1, <2>2 DEF CounterTypes, Moves
  <2>4. (n + 1) + l + 0 = n + l + 1 OBVIOUS
  <2>9. (n + 1) + l + Gain(s.wpc[t]) = s.counter + s.left[t] + Gain("unlock")
    BY <1>4, <1>n, <2>1, <2>3, <2>4
  <2>10. Respects(t, u, n + 1, s.mutex, "unlock", n, l)
    BY <1>2, <1>3, <1>n, <2>1, <2>3, <2>4, <2>9 DEF Respects, AtWork
  <2>. HIDE DEF CounterInv
  <2>. QED BY <1>0, <2>3, <2>10, CounterMoves
<1>8. CASE Apr!Unlock(t)
  <2>1. s.wpc[t] = "unlock" /\ s' = [s EXCEPT !.mutex = {}, !.wpc[t] = "loop", !.left[t] = @ - 1]
    BY <1>8 DEF Apr!Unlock
  <2>2. s.wpc[u] \notin AtWork /\ l > 0 BY <1>3, <2>1 DEF AtWork
  <2>3. l - 1 \in 0..Rounds /\ l - 1 \in Nat /\ n + (l - 1) + 1 = n + l + 0 BY <1>n, <2>2
  <2>4. s' = [s EXCEPT !.mutex = {}, !.wpc[t] = "loop", !.left[t] = l - 1]
    BY <1>n, <2>1 DEF CounterTypes
  <2>5. CounterTypes' BY <2>3, <2>4, Zenon DEF CounterTypes, AtWork
  <2>6. Moves(t, n, {}, "loop", s.reg[t], l - 1) BY <1>n, <2>4, <2>5 DEF CounterTypes, Moves
  <2>9. n + (l - 1) + Gain(s.wpc[t]) = s.counter + s.left[t] + Gain("loop")
    BY <1>4, <1>n, <2>1, <2>3
  <2>10. Respects(t, u, n, {}, "loop", s.reg[t], l - 1)
    BY <1>2, <1>n, <2>1, <2>2, <2>3, <2>6, <2>9 DEF Respects, AtWork
  <2>. HIDE DEF CounterInv
  <2>. QED BY <1>0, <2>6, <2>10, CounterMoves
<1>9. CASE Apr!bump(t)
  <2>1. s.wpc[t] = "loop" /\ l > 0 /\ s.demo = "atomic" BY <1>9, <1>n DEF Apr!bump
  <2>2. s.wpc[u] \notin AtWork BY <2>1 DEF Exclusive
  <2>3. l - 1 \in 0..Rounds /\ l - 1 \in Nat /\ (n + 1) + (l - 1) + 0 = n + l + 0 BY <1>n, <2>1
  <2>4. s' = [s EXCEPT !.counter = n + 1, !.left[t] = l - 1]
    BY <1>9, <1>n DEF Apr!bump, CounterTypes
  <2>5. CounterTypes' BY <1>2, <2>3, <2>4, Zenon DEF CounterTypes
  <2>6. Moves(t, n + 1, s.mutex, "loop", s.reg[t], l - 1)
    BY <2>1, <2>4, <2>5 DEF CounterTypes, Moves
  <2>9. (n + 1) + (l - 1) + Gain(s.wpc[t]) = s.counter + s.left[t] + Gain("loop")
    BY <1>4, <1>n, <2>1, <2>3
  <2>10. Respects(t, u, n + 1, s.mutex, "loop", s.reg[t], l - 1)
    BY <1>2, <1>n, <2>1, <2>2, <2>3, <2>6, <2>9 DEF Respects, AtWork
  <2>. HIDE DEF CounterInv
  <2>. QED BY <1>0, <2>6, <2>10, CounterMoves
<1>10. CASE Apr!Exit(t)
  <2>1. s.wpc[t] = "loop" /\ l = 0 /\ s' = [s EXCEPT !.wpc[t] = "exited"]
    BY <1>10, <1>n DEF Apr!Exit
  <2>2. CounterTypes' BY <2>1 DEF CounterTypes
  <2>3. Moves(t, n, s.mutex, "exited", s.reg[t], l)
    BY <1>n, <2>1, <2>2, Zenon DEF CounterTypes, Moves
  <2>9. n + l + Gain(s.wpc[t]) = s.counter + s.left[t] + Gain("exited")
    BY <1>4, <1>n, <2>1
  <2>10. Respects(t, u, n, s.mutex, "exited", s.reg[t], l)
    BY <1>2, <1>n, <2>1, <2>3, <2>9 DEF Respects, AtWork
  <2>. HIDE DEF CounterInv
  <2>. QED BY <1>0, <2>3, <2>10, CounterMoves
<1>. QED BY <1>5, <1>6, <1>7, <1>8, <1>9, <1>10

LEMMA CounterNext == ASSUME CounterInv, Apr!CounterNext PROVE CounterInv'
<1>1. CASE s' = s
  BY <1>1 DEF CounterInv, CounterTypes, Counted, Ahead, Gain, Exclusive, Order,
              Apr!SharedOutlivesThreads
<1>. QED
  BY <1>1, CounterMainInd, CounterWorkerInd DEF Apr!CounterNext, Apr!CounterEnded, Apr!Threads

LEMMA CounterImplies ==
  ASSUME SetFacts PROVE CounterInv => Apr!NoLostIncrement /\ Apr!SharedOutlivesThreads
<1>. SUFFICES ASSUME CounterInv, ~s.touched PROVE Apr!NoLostIncrement
  BY DEF CounterInv, Apr!NoLostIncrement
<1>. DEFINE U == {t \in {t1, t2} : s.wpc[t] = "unlock"}
<1>1. ~(s.wpc[t1] = "unlock" /\ s.wpc[t2] = "unlock")
  BY DemoAssumption DEF CounterInv, Exclusive, AtWork
<1>2. \/ U = {} /\ Ahead(t1) = 0 /\ Ahead(t2) = 0
      \/ U = {t1} /\ Ahead(t1) = 1 /\ Ahead(t2) = 0
      \/ U = {t2} /\ Ahead(t1) = 0 /\ Ahead(t2) = 1
  BY <1>1 DEF Ahead, Gain
<1>. HIDE DEF U
<1>3. Cardinality(U) = Ahead(t1) + Ahead(t2)
  <2>1. Cardinality({}) = 0 /\ Cardinality({t1}) = 1 /\ Cardinality({t2}) = 1
    BY Zenon DEF SetFacts
  <2>2. 0 + 0 = 0 /\ 1 + 0 = 1 /\ 0 + 1 = 1 OBVIOUS
  <2>. QED BY <1>2, <2>1, <2>2, Zenon
<1>4. 2 * Rounds + Ahead(t1) + Ahead(t2) = 2 * Rounds + Cardinality(U)
  <2>1. PICK a \in Nat, b \in Nat : a = Ahead(t1) /\ b = Ahead(t2) BY DEF Ahead, Gain
  <2>2. 2 * Rounds + a + b = 2 * Rounds + (a + b) BY DemoAssumption
  <2>. QED BY <1>3, <2>1, <2>2
<1>. QED BY <1>4, SameCardinality DEF CounterInv, Counted, Apr!NoLostIncrement, Apr!Threads, U

(***************************************************************************)
(* The lock-free queue.  Every number drawn so far is in one place: with its *)
(* producer, in the queue, or popped.                                        *)
(***************************************************************************)
LockTypes ==
  s \in [program : {"lockfree"}, queue : Seq(Nat), producer_count : Nat, consumer_count : Nat,
         done : BOOLEAN, popped : SUBSET Nat, mpc : {"joinProducers", "joinConsumers", "end"},
         ppc : [Producers -> {"count", "push"}], value : [Producers -> Nat],
         todo : [Producers -> 0..iterations],
         cpc : [Consumers -> {"test", "pop", "popped", "drain", "drained", "exited"}]]

Pushes(p, v) == s.ppc[p] = "push" /\ s.value[p] = v

Apart ==
  /\ \A i, j \in DOMAIN s.queue : s.queue[i] = s.queue[j] => i = j
  /\ \A i \in DOMAIN s.queue : s.queue[i] \notin s.popped
  /\ \A p \in Producers : s.ppc[p] = "push" =>
       s.value[p] \notin s.popped /\ \A i \in DOMAIN s.queue : s.queue[i] # s.value[p]
  /\ \A p, r \in Producers : s.ppc[p] = "push" /\ s.ppc[r] = "push" /\ s.value[p] = s.value[r] => p = r

InRangeSoFar ==
  /\ \A v \in s.popped : v \in 1..s.producer_count
  /\ \A i \in DOMAIN s.queue : s.queue[i] \in 1..s.producer_count
  /\ \A p \in Producers : s.ppc[p] = "push" => s.value[p] \in 1..s.producer_count

NoneLost ==
  \A v \in 1..s.producer_count :
    \/ v \in s.popped
    \/ \E i \in DOMAIN s.queue : s.queue[i] = v
    \/ \E p \in Producers : Pushes(p, v)

(* The draws a producer has made, its current one included.                  *)
Drawn(p) == iterations - s.todo[p] + IF s.ppc[p] = "push" THEN 1 ELSE 0
Draws == {d \in Producers \X (1..iterations) : d[2] <= Drawn(d[1])}

Tallies ==
  /\ IsFiniteSet(s.popped) /\ IsFiniteSet(Queues!Uncounted)
  /\ Cardinality(s.popped) = s.consumer_count + Cardinality(Queues!Uncounted)
  /\ IsFiniteSet(Draws) /\ Cardinality(Draws) = s.producer_count

Phases ==
  /\ \A p \in Producers : s.ppc[p] = "push" => s.todo[p] > 0
  /\ s.done <=> s.mpc # "joinProducers"
  /\ s.done => \A p \in Producers : s.todo[p] = 0
  /\ \A c \in Consumers : /\ s.cpc[c] \in {"drain", "drained", "exited"} => s.done
                          /\ s.cpc[c] = "exited" => s.queue = <<>>
                          /\ s.mpc = "end" => s.cpc[c] = "exited"

LockInv == LockTypes /\ Apart /\ InRangeSoFar /\ NoneLost /\ Tallies /\ Phases

LEMMA LockInit ==
  ASSUME SetFacts,
         s = [program |-> "lockfree", queue |-> <<>>, producer_count |-> 0, consumer_count |-> 0,
                done |-> FALSE, popped |-> {}, mpc |-> "joinProducers",
                ppc |-> [p \in Producers |-> "count"], value |-> [p \in Producers |-> 0],
                todo |-> [p \in Producers |-> iterations], cpc |-> [c \in Consumers |-> "test"]]
  PROVE  LockInv
<1>1. iterations \in Nat /\ iterations \in 0..iterations /\ <<>> \in Seq(Nat) /\ DOMAIN <<>> = {}
  BY DemoAssumption
<1>2. LockTypes BY <1>1 DEF LockTypes
<1>3. Apart /\ InRangeSoFar /\ NoneLost BY <1>1 DEF Apart, InRangeSoFar, NoneLost
<1>4. Draws = {}
  <2>. SUFFICES ASSUME NEW d \in Producers \X (1..iterations), d[2] <= Drawn(d[1]) PROVE FALSE
    BY DEF Draws
  <2>1. d[1] \in Producers /\ d[2] \in 1..iterations OBVIOUS
  <2>2. Drawn(d[1]) = iterations - iterations + 0 BY <2>1 DEF Drawn
  <2>. QED BY <1>1, <2>1, <2>2
<1>5. Tallies
  <2>1. Queues!Uncounted = {} BY DEF Queues!Uncounted
  <2>2. s.popped = {} /\ s.consumer_count = 0 /\ s.producer_count = 0 /\ 0 + 0 = 0 OBVIOUS
  <2>. QED BY <1>4, <2>1, <2>2, Zenon DEF Tallies, SetFacts
<1>6. Phases BY DEF Phases
<1>. QED BY <1>2, <1>3, <1>5, <1>6 DEF LockInv

(* A step that touches neither numbers nor counts.                           *)
SameData ==
  /\ s'.queue = s.queue /\ s'.popped = s.popped /\ s'.producer_count = s.producer_count
  /\ s'.consumer_count = s.consumer_count /\ s'.ppc = s.ppc /\ s'.value = s.value /\ s'.todo = s.todo
  /\ Queues!Uncounted' = Queues!Uncounted

LEMMA LockSame ==
  ASSUME LockInv, SameData PROVE Apart' /\ InRangeSoFar' /\ NoneLost' /\ Tallies'
<1>1. Draws' = Draws BY DEF SameData, Draws, Drawn
<1>2. Tallies' BY <1>1 DEF LockInv, Tallies, SameData
<1>3. Apart' /\ InRangeSoFar' BY DEF LockInv, SameData, Apart, InRangeSoFar
<1>4. NoneLost' BY DEF LockInv, SameData, NoneLost, Pushes
<1>. QED BY <1>2, <1>3, <1>4

LEMMA LockControl ==
  ASSUME LockInv,
         \/ \E c \in Consumers : Queues!TestDone(c) \/ Queues!PopFails(c)
         \/ Queues!SetDone \/ Queues!JoinConsumers
  PROVE  LockInv'
<1>. USE DEF LockInv
<1>1. ASSUME NEW c \in Consumers, Queues!TestDone(c) PROVE LockInv'
  <2>1. s' = [s EXCEPT !.cpc[c] = IF s.done THEN "drain" ELSE "pop"] /\ s.cpc[c] = "test"
    BY <1>1 DEF Queues!TestDone, Queues!OnDone
  <2>2. SameData /\ s'.done = s.done /\ s'.mpc = s.mpc
    BY <2>1 DEF LockTypes, SameData, Queues!Uncounted
  <2>3. s'.cpc = [s.cpc EXCEPT ![c] = IF s.done THEN "drain" ELSE "pop"] BY <2>1 DEF LockTypes
  <2>4. LockTypes' BY <2>1, Zenon DEF LockTypes
  <2>5. Phases' BY <2>1, <2>2, <2>3 DEF LockTypes, Phases, SameData
  <2>. QED BY <2>2, <2>4, <2>5, LockSame
<1>2. ASSUME NEW c \in Consumers, Queues!PopFails(c) PROVE LockInv'
  <2>. DEFINE n == IF s.cpc[c] = "pop" THEN "test" ELSE "exited"
  <2>1. s' = [s EXCEPT !.cpc[c] = n] /\ s.cpc[c] \in {"pop", "drain"} /\ s.queue = <<>>
    BY <1>2 DEF Queues!PopFails, Queues!OnEmpty, LockTypes
  <2>2. SameData /\ s'.done = s.done /\ s'.mpc = s.mpc
    BY <2>1 DEF LockTypes, SameData, Queues!Uncounted
  <2>3. s'.cpc = [s.cpc EXCEPT ![c] = n] BY <2>1 DEF LockTypes
  <2>4. LockTypes' BY <2>1, Zenon DEF LockTypes
  <2>5. Phases' BY <2>1, <2>2, <2>3 DEF LockTypes, Phases, SameData
  <2>. QED BY <2>2, <2>4, <2>5, LockSame
<1>3. CASE Queues!SetDone
  <2>1. s' = [s EXCEPT !.done = TRUE, !.mpc = "joinConsumers"] /\ s.mpc = "joinProducers"
    BY <1>3 DEF Queues!SetDone
  <2>2. SameData /\ s'.done = TRUE /\ s'.mpc = "joinConsumers" /\ s'.cpc = s.cpc
    BY <2>1 DEF LockTypes, SameData, Queues!Uncounted
  <2>3. LockTypes' BY <2>1, Zenon DEF LockTypes
  <2>4. Phases' BY <1>3, <2>1, <2>2 DEF Queues!SetDone, LockTypes, Phases, SameData
  <2>. QED BY <2>2, <2>3, <2>4, LockSame
<1>4. CASE Queues!JoinConsumers
  <2>1. s' = [s EXCEPT !.mpc = "end"] /\ s.mpc = "joinConsumers" BY <1>4 DEF Queues!JoinConsumers
  <2>2. SameData /\ s'.done = s.done /\ s'.mpc = "end" /\ s'.cpc = s.cpc
    BY <2>1 DEF LockTypes, SameData, Queues!Uncounted
  <2>3. LockTypes' BY <2>1, Zenon DEF LockTypes
  <2>4. Phases' BY <1>4, <2>1, <2>2 DEF Queues!JoinConsumers, LockTypes, Phases, SameData
  <2>. QED BY <2>2, <2>3, <2>4, LockSame
<1>. QED BY <1>1, <1>2, <1>3, <1>4

LEMMA LockCount ==
  ASSUME SetFacts, LockInv, NEW p \in Producers, Queues!Count(p) PROVE LockInv'
<1>. USE DEF LockInv
<1>. PICK n \in Nat, k \in 0..iterations : n = s.producer_count /\ k = s.todo[p] BY DEF LockTypes
<1>1. /\ s' = [s EXCEPT !.producer_count = n + 1, !.value[p] = n + 1, !.ppc[p] = "push"]
      /\ s.ppc[p] = "count" /\ k > 0
  BY DEF Queues!Count, Queues!Increment, LockTypes
<1>2. /\ s'.queue = s.queue /\ s'.popped = s.popped /\ s'.todo = s.todo /\ s'.cpc = s.cpc
      /\ s'.done = s.done /\ s'.mpc = s.mpc /\ s'.consumer_count = s.consumer_count
      /\ s'.producer_count = n + 1
      /\ s'.value = [s.value EXCEPT ![p] = n + 1] /\ s'.ppc = [s.ppc EXCEPT ![p] = "push"]
  BY <1>1 DEF LockTypes
<1>3. LockTypes'
  <2>1. n + 1 \in Nat OBVIOUS
  <2>. QED BY <1>1, <2>1, Zenon DEF LockTypes
<1>4. /\ \A r \in Producers : r # p => s'.ppc[r] = s.ppc[r] /\ s'.value[r] = s.value[r]
      /\ s'.ppc[p] = "push" /\ s'.value[p] = n + 1
  BY <1>2 DEF LockTypes
<1>5. n + 1 \notin 1..n /\ \A v \in 1..n : v # n + 1 /\ v \in 1..(n + 1) OBVIOUS
<1>6. Apart' BY <1>2, <1>4, <1>5 DEF Apart, InRangeSoFar
<1>7. InRangeSoFar'
  <2>1. n + 1 \in 1..(n + 1) OBVIOUS
  <2>. QED BY <1>2, <1>4, <1>5, <2>1 DEF InRangeSoFar
<1>8. NoneLost'
  <2>. SUFFICES ASSUME NEW v \in 1..(n + 1)
       PROVE \/ v \in s.popped
             \/ \E i \in DOMAIN s.queue : s.queue[i] = v
             \/ \E r \in Producers : s'.ppc[r] = "push" /\ s'.value[r] = v
    BY <1>2 DEF NoneLost, Pushes
  <2>1. CASE v = n + 1 BY <2>1, <1>4
  <2>2. CASE v # n + 1
    <3>1. v \in 1..n BY <2>2
    <3>2. \A r \in Producers : Pushes(r, v) => r # p BY <1>1 DEF Pushes
    <3>. QED BY <3>1, <3>2, <1>4 DEF NoneLost, Pushes
  <2>. QED BY <2>1, <2>2
<1>9. Tallies'
  <2>. DEFINE d == <<p, iterations - k + 1>>
  <2>. iterations \in Nat BY DemoAssumption
  <2>1. iterations - k + 1 \in 1..iterations BY <1>1
  <2>2. Drawn(p) = iterations - k /\ Drawn(p)' = iterations - k + 1 BY <1>1, <1>2, <1>4 DEF Drawn
  <2>3. \A r \in Producers : r # p => Drawn(r)' = Drawn(r) BY <1>2, <1>4 DEF Drawn
  <2>4. Draws' = Draws \cup {d}
    <3>. SUFFICES ASSUME NEW r \in Producers, NEW m \in 1..iterations
         PROVE m <= Drawn(r)' <=> m <= Drawn(r) \/ (r = p /\ m = iterations - k + 1)
      BY <2>1 DEF Draws
    <3>1. CASE r = p BY <3>1, <2>2
    <3>2. CASE r # p BY <3>2, <2>3
    <3>. QED BY <3>1, <3>2
  <2>5. d \notin Draws
    <3>1. ~(iterations - k + 1 <= iterations - k) OBVIOUS
    <3>. QED BY <2>2, <3>1 DEF Draws
  <2>. HIDE DEF d
  <2>6. IsFiniteSet(Draws \cup {d}) /\ Cardinality(Draws \cup {d}) = n + 1
    BY <2>5 DEF Tallies, SetFacts
  <2>7. Queues!Uncounted' = Queues!Uncounted BY <1>2 DEF Queues!Uncounted
  <2>. QED BY <1>2, <2>4, <2>6, <2>7 DEF Tallies
<1>10. Phases'
  <2>1. s'.todo[p] > 0 BY <1>1, <1>2
  <2>. QED BY <1>2, <1>4, <2>1 DEF Phases
<1>. QED BY <1>3, <1>6, <1>7, <1>8, <1>9, <1>10

LEMMA LockPush ==
  ASSUME LockInv, NEW p \in Producers, Queues!Push(p) PROVE LockInv'
<1>. USE DEF LockInv
<1>. PICK n \in Nat, k \in 0..iterations, l \in Nat, x \in Nat :
       n = s.producer_count /\ k = s.todo[p] /\ l = Len(s.queue) /\ x = s.value[p]
  BY DEF LockTypes
<1>1. /\ s' = [s EXCEPT !.queue = Append(s.queue, x), !.todo[p] = k - 1, !.ppc[p] = "count"]
      /\ s.ppc[p] = "push"
  BY DEF Queues!Push, LockTypes
<1>2. /\ s'.queue = Append(s.queue, x) /\ s'.popped = s.popped /\ s'.cpc = s.cpc
      /\ s'.done = s.done /\ s'.mpc = s.mpc /\ s'.consumer_count = s.consumer_count
      /\ s'.producer_count = n /\ s'.value = s.value
      /\ s'.todo = [s.todo EXCEPT ![p] = k - 1] /\ s'.ppc = [s.ppc EXCEPT ![p] = "count"]
  BY <1>1 DEF LockTypes
<1>3. k > 0 /\ k - 1 \in 0..iterations BY <1>1, DemoAssumption DEF Phases
<1>4. LockTypes'
  <2>1. Append(s.queue, x) \in Seq(Nat) BY DEF LockTypes
  <2>. QED BY <1>1, <1>3, <2>1, Zenon DEF LockTypes
<1>5. /\ \A r \in Producers : r # p => s'.ppc[r] = s.ppc[r] /\ s'.todo[r] = s.todo[r]
      /\ s'.ppc[p] = "count" /\ s'.todo[p] = k - 1
  BY <1>2 DEF LockTypes
<1>6. /\ DOMAIN s.queue = 1..l /\ DOMAIN s'.queue = 1..(l + 1) /\ s'.queue[l + 1] = x
      /\ \A i \in 1..l : s'.queue[i] = s.queue[i]
  BY <1>2 DEF LockTypes
<1>7. \A i \in 1..(l + 1) : i \in 1..l \/ i = l + 1 OBVIOUS
<1>8. l + 1 \in 1..(l + 1) /\ \A i \in 1..l : i \in 1..(l + 1) OBVIOUS
<1>9. x \notin s.popped /\ x \in 1..n /\ \A i \in 1..l : s.queue[i] # x
  BY <1>1, <1>6 DEF Apart, InRangeSoFar
<1>10. \A r \in Producers : s.ppc[r] = "push" /\ r # p => s.value[r] # x BY <1>1 DEF Apart
<1>11. Apart'
  <2>1. \A i, j \in 1..(l + 1) : s'.queue[i] = s'.queue[j] => i = j
    BY <1>6, <1>7, <1>9 DEF Apart
  <2>2. \A i \in 1..(l + 1) : s'.queue[i] \notin s.popped BY <1>6, <1>7, <1>9, Zenon DEF Apart
  <2>3. ASSUME NEW r \in Producers, s'.ppc[r] = "push"
        PROVE s.value[r] \notin s.popped /\ \A i \in 1..(l + 1) : s'.queue[i] # s.value[r]
    <3>1. r # p /\ s.ppc[r] = "push" BY <2>3, <1>5
    <3>2. s.value[r] \notin s.popped /\ \A i \in 1..l : s.queue[i] # s.value[r]
      BY <3>1, <1>6 DEF Apart
    <3>3. s.value[r] # x BY <3>1, <1>10
    <3>. QED BY <3>2, <3>3, <1>6, <1>7
  <2>4. \A r, t \in Producers : s'.ppc[r] = "push" /\ s'.ppc[t] = "push" /\ s.value[r] = s.value[t] => r = t
    BY <1>5 DEF Apart
  <2>. QED BY <1>2, <1>6, <2>1, <2>2, <2>3, <2>4 DEF Apart
<1>12. InRangeSoFar'
  <2>1. \A i \in 1..(l + 1) : s'.queue[i] \in 1..n BY <1>6, <1>7, <1>9, Zenon DEF InRangeSoFar
  <2>. QED BY <1>2, <1>5, <1>6, <2>1 DEF InRangeSoFar
<1>13. NoneLost'
  <2>. SUFFICES ASSUME NEW v \in 1..n
       PROVE \/ v \in s'.popped
             \/ \E i \in DOMAIN s'.queue : s'.queue[i] = v
             \/ \E r \in Producers : Pushes(r, v)'
    BY <1>2 DEF NoneLost
  <2>0. s'.popped = s.popped BY <1>2
  <2>1. CASE v = x BY <2>1, <1>6, <1>8
  <2>2. CASE v # x
    <3>1. \A r \in Producers : Pushes(r, v) => Pushes(r, v)' BY <2>2, <1>2, <1>5 DEF Pushes
    <3>. QED BY <3>1, <2>0, <1>6, <1>8 DEF NoneLost
  <2>. QED BY <2>1, <2>2
<1>14. Tallies'
  <2>. iterations \in Nat BY DemoAssumption
  <2>1. Drawn(p)' = Drawn(p)
    <3>1. Drawn(p) = iterations - k + 1 /\ Drawn(p)' = iterations - (k - 1) + 0
      BY <1>1, <1>5 DEF Drawn
    <3>. QED BY <3>1
  <2>2. \A r \in Producers : r # p => Drawn(r)' = Drawn(r) BY <1>5 DEF Drawn
  <2>3. Draws' = Draws BY <2>1, <2>2 DEF Draws
  <2>4. Queues!Uncounted' = Queues!Uncounted BY <1>2 DEF Queues!Uncounted
  <2>. QED BY <1>2, <2>3, <2>4 DEF Tallies
<1>15. Phases'
  <2>1. ~s.done BY <1>3 DEF Phases
  <2>2. \A c \in Consumers : s.cpc[c] \notin {"drain", "drained", "exited"} BY <2>1 DEF Phases
  <2>3. s.mpc = "joinProducers" BY <2>1 DEF Phases
  <2>. QED BY <1>2, <1>5, <2>1, <2>2, <2>3, Zenon DEF Phases
<1>. QED BY <1>4, <1>11, <1>12, <1>13, <1>14, <1>15

LEMMA LockPop ==
  ASSUME SetFacts, LockInv, NEW c \in Consumers, Queues!Pop(c) PROVE LockInv'
<1>. USE DEF LockInv
<1>. PICK n \in Nat, k \in Nat, l \in Nat, h \in Nat :
       n = s.producer_count /\ k = s.consumer_count /\ l + 1 = Len(s.queue) /\ h = s.queue[1]
  <2>1. s.queue \in Seq(Nat) /\ s.queue # <<>> BY DEF LockTypes, Queues!Pop
  <2>2. PICK m \in Nat : m = Len(s.queue) BY <2>1
  <2>3. m # 0 /\ m - 1 \in Nat /\ m - 1 + 1 = m /\ s.queue[1] \in Nat BY <2>1, <2>2
  <2>4. s.producer_count \in Nat /\ s.consumer_count \in Nat BY DEF LockTypes
  <2>. HIDE DEF LockInv
  <2>. QED BY <2>2, <2>3, <2>4, Zenon
<1>. DEFINE pc == IF s.cpc[c] = "pop" THEN "popped" ELSE "drained"
<1>1. /\ s' = [s EXCEPT !.queue = Tail(s.queue), !.popped = s.popped \cup {h}, !.cpc[c] = pc]
      /\ s.cpc[c] \in {"pop", "drain"}
  BY DEF Queues!Pop, LockTypes
<1>0. s'.queue = Tail(s.queue) BY <1>1 DEF LockTypes
<1>2. /\ s'.popped = s.popped \cup {h} /\ s'.cpc = [s.cpc EXCEPT ![c] = pc]
      /\ s'.done = s.done /\ s'.mpc = s.mpc /\ s'.consumer_count = k
      /\ s'.producer_count = n /\ s'.value = s.value /\ s'.todo = s.todo /\ s'.ppc = s.ppc
  BY <1>1 DEF LockTypes
<1>3. s.queue \in Seq(Nat) /\ s.queue # <<>> BY DEF LockTypes, Queues!Pop
<1>4. LockTypes'
  <2>1. Tail(s.queue) \in Seq(Nat) /\ s.popped \cup {h} \in SUBSET Nat BY <1>3 DEF LockTypes
  <2>2. pc \in {"test", "pop", "popped", "drain", "drained", "exited"} OBVIOUS
  <2>. QED BY <1>1, <2>1, <2>2, Zenon DEF LockTypes
<1>5. /\ DOMAIN s.queue = 1..(l + 1) /\ DOMAIN s'.queue = 1..l
      /\ \A i \in 1..l : s'.queue[i] = s.queue[i + 1]
  <2>1. Len(Tail(s.queue)) = l /\ \A i \in 1..l : Tail(s.queue)[i] = s.queue[i + 1] BY <1>3
  <2>. QED BY <1>0, <1>3, <2>1
<1>6. /\ 1 \in 1..(l + 1) /\ \A i \in 1..l : i + 1 \in 1..(l + 1) /\ i + 1 # 1
      /\ \A i, j \in 1..l : i + 1 = j + 1 => i = j
      /\ \A i \in 1..(l + 1) : i = 1 \/ \E j \in 1..l : i = j + 1
  <2>1. ASSUME NEW i \in 1..(l + 1), i # 1 PROVE \E j \in 1..l : i = j + 1
    <3>1. i - 1 \in 1..l /\ i = i - 1 + 1 BY <2>1
    <3>. QED BY <3>1
  <2>. QED BY <2>1
<1>7. h \notin s.popped /\ h \in 1..n /\ \A i \in 1..l : s'.queue[i] # h
  BY <1>5, <1>6, Zenon DEF Apart, InRangeSoFar
<1>8. \A r \in Producers : s.ppc[r] = "push" => s.value[r] # h BY <1>5, <1>6 DEF Apart
<1>9. Apart'
  <2>1. ASSUME NEW i \in 1..l, NEW j \in 1..l, s'.queue[i] = s'.queue[j] PROVE i = j
    <3>1. /\ s.queue[i + 1] = s.queue[j + 1]
          /\ i + 1 \in DOMAIN s.queue /\ j + 1 \in DOMAIN s.queue
      BY <2>1, <1>5, <1>6
    <3>2. i + 1 = j + 1 BY <3>1 DEF Apart
    <3>. QED BY <3>2, <1>6
  <2>2. ASSUME NEW i \in 1..l PROVE s'.queue[i] \notin s'.popped
    <3>1. s'.queue[i] = s.queue[i + 1] /\ i + 1 \in DOMAIN s.queue BY <1>5, <1>6
    <3>2. s.queue[i + 1] \notin s.popped BY <3>1 DEF Apart
    <3>. QED BY <1>2, <1>7, <3>1, <3>2
  <2>3. ASSUME NEW r \in Producers, s.ppc[r] = "push"
        PROVE s.value[r] \notin s'.popped /\ \A i \in 1..l : s'.queue[i] # s.value[r]
    <3>1. s.value[r] \notin s.popped /\ \A i \in 1..(l + 1) : s.queue[i] # s.value[r]
      BY <2>3, <1>5, Zenon DEF Apart
    <3>. QED BY <3>1, <2>3, <1>2, <1>5, <1>6, <1>8
  <2>4. DOMAIN s'.queue = 1..l BY <1>5
  <2>5. s'.value = s.value /\ s'.ppc = s.ppc BY <1>2
  <2>6. \A p, r \in Producers : s.ppc[p] = "push" /\ s.ppc[r] = "push" /\ s.value[p] = s.value[r] => p = r
    BY DEF Apart
  <2>. HIDE DEF LockInv
  <2>. QED BY <2>1, <2>2, <2>3, <2>4, <2>5, <2>6 DEF Apart
<1>10. InRangeSoFar'
  <2>1. \A v \in s'.popped : v \in 1..n BY <1>2, <1>7 DEF InRangeSoFar
  <2>2. ASSUME NEW i \in 1..l PROVE s'.queue[i] \in 1..n
    <3>1. s'.queue[i] = s.queue[i + 1] /\ i + 1 \in DOMAIN s.queue BY <1>5, <1>6
    <3>. QED BY <3>1 DEF InRangeSoFar
  <2>3. DOMAIN s'.queue = 1..l BY <1>5
  <2>. QED BY <1>2, <2>1, <2>2, <2>3 DEF InRangeSoFar
<1>11. NoneLost'
  <2>. SUFFICES ASSUME NEW v \in 1..n
       PROVE \/ v \in s'.popped
             \/ \E i \in DOMAIN s'.queue : s'.queue[i] = v
             \/ \E r \in Producers : Pushes(r, v)'
    BY <1>2 DEF NoneLost
  <2>0. \A r \in Producers : Pushes(r, v)' <=> Pushes(r, v) BY <1>2 DEF Pushes
  <2>1. ASSUME NEW i \in 1..(l + 1), s.queue[i] = v, v # h PROVE \E j \in 1..l : s'.queue[j] = v
    <3>1. i # 1 BY <2>1
    <3>2. PICK j \in 1..l : i = j + 1 BY <3>1, <1>6
    <3>. QED BY <2>1, <3>2, <1>5, Zenon
  <2>2. CASE v \in s.popped \/ v = h BY <1>2, <2>2
  <2>3. CASE v # h /\ \E i \in DOMAIN s.queue : s.queue[i] = v BY <2>1, <2>3, <1>5, Zenon
  <2>4. CASE \E r \in Producers : Pushes(r, v) BY <2>0, <2>4
  <2>. QED BY <2>2, <2>3, <2>4 DEF NoneLost
<1>12. Tallies'
  <2>1. Draws' = Draws BY <1>2 DEF Draws, Drawn
  <2>2. Queues!Uncounted' = Queues!Uncounted \cup {c} /\ c \notin Queues!Uncounted
    BY <1>1, <1>2 DEF LockTypes, Queues!Uncounted
  <2>3. /\ IsFiniteSet(s.popped) /\ IsFiniteSet(Queues!Uncounted) /\ h \notin s.popped
        /\ Cardinality(s.popped) = k + Cardinality(Queues!Uncounted)
    BY <1>7 DEF Tallies
  <2>4. PICK u \in Nat : u = Cardinality(Queues!Uncounted) BY <2>3 DEF SetFacts
  <2>5. /\ IsFiniteSet(s.popped \cup {h}) /\ Cardinality(s.popped \cup {h}) = k + u + 1
        /\ IsFiniteSet(Queues!Uncounted') /\ Cardinality(Queues!Uncounted') = u + 1
    <3>. HIDE DEF LockInv
    <3>1. /\ IsFiniteSet(s.popped \cup {h})
          /\ Cardinality(s.popped \cup {h}) = Cardinality(s.popped) + 1
      BY <2>3, Zenon DEF SetFacts
    <3>2. /\ IsFiniteSet(Queues!Uncounted \cup {c})
          /\ Cardinality(Queues!Uncounted \cup {c}) = Cardinality(Queues!Uncounted) + 1
      BY <2>2, <2>3, Zenon DEF SetFacts
    <3>. QED BY <2>2, <2>3, <2>4, <3>1, <3>2
  <2>6. k + u + 1 = k + (u + 1) OBVIOUS
  <2>7. IsFiniteSet(Draws') /\ Cardinality(Draws') = s'.producer_count BY <1>2, <2>1 DEF Tallies
  <2>. HIDE DEF LockInv
  <2>. QED BY <1>2, <2>5, <2>6, <2>7 DEF Tallies
<1>13. Phases'
  <2>1. \A q \in Consumers : s.cpc[q] # "exited" BY <1>3 DEF Phases
  <2>2. \A q \in Consumers : s'.cpc[q] = IF q = c THEN pc ELSE s.cpc[q] BY <1>2 DEF LockTypes
  <2>. QED BY <1>1, <1>2, <2>1, <2>2 DEF Phases
<1>. QED BY <1>4, <1>9, <1>10, <1>11, <1>12, <1>13

LEMMA LockCountPopped ==
  ASSUME SetFacts, LockInv, NEW c \in Consumers, Queues!CountPopped(c) PROVE LockInv'
<1>. USE DEF LockInv
<1>. PICK k \in Nat : k = s.consumer_count BY DEF LockTypes
<1>. DEFINE pc == IF s.cpc[c] = "popped" THEN "pop" ELSE "drain"
<1>1. /\ s' = [s EXCEPT !.consumer_count = k + 1, !.cpc[c] = pc]
      /\ s.cpc[c] \in {"popped", "drained"}
  BY DEF Queues!CountPopped, Queues!Increment, LockTypes
<1>2. /\ s'.queue = s.queue /\ s'.popped = s.popped /\ s'.producer_count = s.producer_count
      /\ s'.ppc = s.ppc /\ s'.value = s.value /\ s'.todo = s.todo
      /\ s'.done = s.done /\ s'.mpc = s.mpc /\ s'.consumer_count = k + 1
      /\ s'.cpc = [s.cpc EXCEPT ![c] = pc]
  BY <1>1 DEF LockTypes
<1>3. LockTypes'
  <2>1. k + 1 \in Nat /\ pc \in {"test", "pop", "popped", "drain", "drained", "exited"} OBVIOUS
  <2>. QED BY <1>1, <2>1, Zenon DEF LockTypes
<1>4. Apart' /\ InRangeSoFar' BY <1>2 DEF Apart, InRangeSoFar
<1>5. NoneLost' BY <1>2 DEF NoneLost, Pushes
<1>6. Tallies'
  <2>1. Draws' = Draws BY <1>2 DEF Draws, Drawn
  <2>2. Queues!Uncounted' = Queues!Uncounted \ {c} /\ c \in Queues!Uncounted
    BY <1>1, <1>2 DEF LockTypes, Queues!Uncounted
  <2>3. /\ IsFiniteSet(Queues!Uncounted')
        /\ Cardinality(Queues!Uncounted) = Cardinality(Queues!Uncounted') + 1
    BY <2>2 DEF Tallies, SetFacts
  <2>4. PICK u \in Nat : u = Cardinality(Queues!Uncounted') BY <2>3 DEF SetFacts
  <2>5. Cardinality(s.popped) = k + (u + 1) /\ k + (u + 1) = k + 1 + u BY <2>3, <2>4 DEF Tallies
  <2>. QED BY <1>2, <2>1, <2>3, <2>4, <2>5 DEF Tallies
<1>7. Phases'
  <2>1. \A q \in Consumers : s'.cpc[q] = IF q = c THEN pc ELSE s.cpc[q] BY <1>2 DEF LockTypes
  <2>. QED BY <1>1, <1>2, <2>1 DEF Phases
<1>. QED BY <1>3, <1>4, <1>5, <1>6, <1>7

LEMMA LockNext == ASSUME SetFacts, LockInv, Queues!Next PROVE LockInv'
<1>1. s.program = "lockfree" BY DEF LockInv, LockTypes
<1>2. ASSUME UNCHANGED s PROVE LockInv'
  <2>1. SameData BY <1>2 DEF SameData, Queues!Uncounted
  <2>2. LockTypes' /\ Phases' BY <1>2 DEF LockInv, LockTypes, Phases
  <2>. QED BY <2>1, <2>2, LockSame DEF LockInv
<1>. QED
  BY <1>1, <1>2, LockControl, LockCount, LockPush, LockPop, LockCountPopped
  DEF Queues!Next, Queues!Produce, Queues!Consume, Queues!Main, Queues!PushFails, Queues!Ended,
      Queues!produce, Queues!consume, Queues!boost_queue_demo

LEMMA LockImplies ==
  ASSUME SetFacts PROVE LockInv => Queues!ValuesDistinct /\ Queues!AllConsumed
<1>. SUFFICES ASSUME LockInv PROVE Queues!ValuesDistinct /\ Queues!AllConsumed OBVIOUS
<1>. USE DEF LockInv
<1>1. Queues!ValuesDistinct BY SameCardinality DEF Queues!ValuesDistinct, Apart, Tallies
<1>2. ASSUME s.mpc = "end"
      PROVE  /\ s.consumer_count = s.producer_count
             /\ s.popped = 1..(iterations * Queues!Cardinality(Producers))
  <2>1. s.queue = <<>>
    <3>1. PICK c : c \in Consumers BY DemoAssumption
    <3>. QED BY <1>2, <3>1 DEF Phases
  <2>2. \A p \in Producers : s.todo[p] = 0 /\ s.ppc[p] = "count"
    <3>1. s.done BY <1>2 DEF Phases
    <3>2. \A p \in Producers : s.todo[p] = 0 BY <3>1 DEF Phases
    <3>3. ~(0 > 0) OBVIOUS
    <3>. QED BY <3>2, <3>3 DEF Phases, LockTypes
  <2>3. s.popped = 1..s.producer_count
    <3>1. DOMAIN s.queue = {} BY <2>1
    <3>2. \A p \in Producers : s.ppc[p] # "push" BY <2>2
    <3>. QED BY <3>1, <3>2, Zenon DEF InRangeSoFar, NoneLost, Pushes
  <2>4. Draws = Producers \X (1..iterations)
    <3>1. \A p \in Producers : Drawn(p) = iterations - 0 + 0 BY <2>2 DEF Drawn
    <3>2. \A p \in Producers : \A m \in 1..iterations : m <= Drawn(p) BY <3>1, DemoAssumption
    <3>. QED BY <3>2 DEF Draws
  <2>5. \A m \in Nat : Cardinality(1..m) = m /\ IsFiniteSet(1..m) BY DEF SetFacts
  <2>6. s.consumer_count = s.producer_count
    <3>1. Queues!Uncounted = {} BY <1>2 DEF Phases, Queues!Uncounted
    <3>2. Cardinality(Queues!Uncounted) = 0 BY <3>1 DEF SetFacts
    <3>. QED BY <2>3, <2>5, <3>2 DEF Tallies, LockTypes
  <2>7. s.producer_count = Cardinality(Producers) * iterations
    <3>1. iterations \in Nat /\ IsFiniteSet(Producers) BY DemoAssumption
    <3>2. IsFiniteSet(1..iterations) /\ Cardinality(1..iterations) = iterations BY <2>5, <3>1
    <3>3. Cardinality(Producers \X (1..iterations))
            = Cardinality(Producers) * Cardinality(1..iterations)
      BY <3>1, <3>2 DEF SetFacts
    <3>. QED BY <2>4, <3>2, <3>3 DEF Tallies
  <2>8. Cardinality(Producers) \in Nat BY DemoAssumption DEF SetFacts
  <2>9. s.producer_count = iterations * Cardinality(Producers) BY <2>7, <2>8, DemoAssumption
  <2>. QED BY <2>3, <2>6, <2>9, SameCardinality
<1>. QED BY <1>1, <1>2 DEF Queues!AllConsumed
===============================================================================
