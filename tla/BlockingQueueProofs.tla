-------------------------- MODULE BlockingQueueProofs -------------------------
(***************************************************************************)
(* For every capacity and any number of threads: the blocking queue loses,  *)
(* duplicates and reorders nothing, leaves no thread asleep that could go    *)
(* on, and implements the bounded queue.                                     *)
(***************************************************************************)
EXTENDS BlockingQueue, FiniteSetTheorems, SequenceTheorems, TLAPS

(* First when a step of a thread keeps the sleepers on a condition variable  *)
(* covered by notifications; S are the threads that may sleep, N those that  *)
(* notify them.                                                              *)
LEMMA NumberType ==
  ASSUME NEW f, NEW S, IsFiniteSet(S), NEW a PROVE Number(f, S, a) \in Nat
<1>1. {t \in S : f[t] = a} \in SUBSET S OBVIOUS
<1>2. IsFiniteSet({t \in S : f[t] = a}) BY <1>1, FS_Subset, Zenon
<1>. QED BY <1>2, FS_CardinalityType DEF Number

(* Of the threads A only t, if any, goes to another place, v.                *)
Moves(f, g, A, t, v) == \A u \in A : g[u] = IF u = t THEN v ELSE f[u]

LEMMA NumberMove ==
  ASSUME NEW f, NEW g, NEW S, IsFiniteSet(S), NEW t, NEW v, NEW a, Moves(f, g, S, t, v)
  PROVE  /\ t \in S /\ v = a /\ f[t] # a => Number(g, S, a) = Number(f, S, a) + 1
         /\ t \in S /\ v # a /\ f[t] = a => Number(g, S, a) = Number(f, S, a) - 1
         /\ t \notin S \/ (v = a <=> f[t] = a) => Number(g, S, a) = Number(f, S, a)
<1>. DEFINE A == {u \in S : f[u] = a}
            B == {u \in S : g[u] = a}
<1>1. IsFiniteSet(A) /\ Cardinality(A) \in Nat
  <2>1. A \in SUBSET S OBVIOUS
  <2>2. IsFiniteSet(A) BY <2>1, FS_Subset, Zenon
  <2>. QED BY <2>2, FS_CardinalityType
<1>2. ASSUME t \in S /\ v = a /\ f[t] # a PROVE Cardinality(B) = Cardinality(A) + 1
  <2>1. B = A \cup {t} /\ t \notin A BY <1>2 DEF Moves
  <2>2. Cardinality(A \cup {t}) = IF t \in A THEN Cardinality(A) ELSE Cardinality(A) + 1
    BY <1>1, FS_AddElement, Zenon
  <2>. QED BY <2>1, <2>2, Zenon
<1>3. ASSUME t \in S /\ v # a /\ f[t] = a PROVE Cardinality(B) = Cardinality(A) - 1
  <2>1. B = A \ {t} /\ t \in A BY <1>3 DEF Moves
  <2>2. Cardinality(A \ {t}) = IF t \in A THEN Cardinality(A) - 1 ELSE Cardinality(A)
    BY <1>1, FS_RemoveElement, Zenon
  <2>. QED BY <2>1, <2>2, Zenon
<1>4. ASSUME t \notin S \/ (v = a <=> f[t] = a) PROVE B = A BY <1>4 DEF Moves
<1>. QED BY <1>2, <1>3, <1>4, Zenon DEF Number

(* A thread that may sleep takes a step.  It may go to sleep only when there *)
(* is nothing to go on with, and a woken one must take one of the n things.  *)
LEMMA SleeperMoves ==
  ASSUME NEW f, NEW g, NEW N, NEW S, IsFiniteSet(N), IsFiniteSet(S), N \cap S = {},
         NEW n \in Int, NEW m \in Int, Covered(f, n, N, S),
         NEW t \in S, NEW v, Moves(f, g, N, t, v), Moves(f, g, S, t, v),
         m <= 0 \/ (v # "waiting" /\ m <= n /\ (f[t] = "awake" => m <= n - 1))
  PROVE  Covered(g, m, N, S)
<1>1. /\ Number(f, N, "notify") \in Nat /\ Number(f, S, "awake") \in Nat
      /\ Number(g, N, "notify") \in Nat /\ Number(g, S, "awake") \in Nat
  BY NumberType
<1>2. Number(g, N, "notify") = Number(f, N, "notify")
  <2>1. t \notin N OBVIOUS
  <2>. QED BY <2>1, NumberMove
<1>3. /\ f[t] # "awake" => \/ Number(g, S, "awake") = Number(f, S, "awake")
                          \/ Number(g, S, "awake") = Number(f, S, "awake") + 1
      /\ f[t] = "awake" => \/ Number(g, S, "awake") = Number(f, S, "awake")
                          \/ Number(g, S, "awake") = Number(f, S, "awake") - 1
  BY NumberMove
<1>4. CASE m <= 0 BY <1>1, <1>4 DEF Covered
<1>5. CASE v # "waiting" /\ m <= n /\ (f[t] = "awake" => m <= n - 1)
  <2>1. Waiting(g, S) \subseteq Waiting(f, S) BY <1>5 DEF Waiting, Moves
  <2>2. SUFFICES ASSUME Waiting(g, S) # {}
                 PROVE  m <= Number(g, N, "notify") + Number(g, S, "awake")
    BY DEF Covered
  <2>3. n <= Number(f, N, "notify") + Number(f, S, "awake") BY <2>1, <2>2 DEF Covered
  <2>. QED BY <1>1, <1>2, <1>3, <1>5, <2>3
<1>. QED BY <1>4, <1>5

(* A thread of the other side takes a step other than a notification: when   *)
(* it provides one thing more it is about to notify.                         *)
LEMMA NotifierMoves ==
  ASSUME NEW f, NEW g, NEW N, NEW S, IsFiniteSet(N), IsFiniteSet(S), N \cap S = {},
         NEW n \in Int, NEW m \in Int, Covered(f, n, N, S),
         NEW t \in N, NEW v, Moves(f, g, N, t, v), Moves(f, g, S, t, v), f[t] # "notify",
         m <= n \/ (v = "notify" /\ m <= n + 1)
  PROVE  Covered(g, m, N, S)
<1>0. t \notin S OBVIOUS
<1>1. /\ Number(f, N, "notify") \in Nat /\ Number(f, S, "awake") \in Nat
      /\ Number(g, N, "notify") \in Nat /\ Number(g, S, "awake") \in Nat
  BY NumberType
<1>2. /\ v = "notify" => Number(g, N, "notify") = Number(f, N, "notify") + 1
      /\ v # "notify" => Number(g, N, "notify") = Number(f, N, "notify")
  BY NumberMove
<1>3. Number(g, S, "awake") = Number(f, S, "awake") BY <1>0, NumberMove
<1>4. Waiting(g, S) = Waiting(f, S) BY <1>0 DEF Waiting, Moves
<1>5. SUFFICES ASSUME Waiting(g, S) # {}
               PROVE  m <= Number(g, N, "notify") + Number(g, S, "awake")
  BY DEF Covered
<1>6. n <= Number(f, N, "notify") + Number(f, S, "awake") BY <1>4, <1>5 DEF Covered
<1>. QED BY <1>1, <1>2, <1>3, <1>6

(* notify_one and the return of the call: a sleeper wakes, or there is none. *)
LEMMA NotificationArrives ==
  ASSUME NEW f, NEW T, NEW P, NEW g \in [T -> P], NEW N \in SUBSET T, NEW S \in SUBSET T,
         IsFiniteSet(N), IsFiniteSet(S), N \cap S = {}, NEW n \in Int, Covered(f, n, N, S),
         NEW t \in N, Moves(f, g, N, t, "out"), Moves(f, g, S, t, "out"), f[t] = "notify",
         NEW h \in NotifyOne(g, S)
  PROVE  Covered(h, n, N, S)
<1>0. t \notin S OBVIOUS
<1>1. /\ Number(f, N, "notify") \in Nat /\ Number(f, S, "awake") \in Nat
      /\ Number(g, N, "notify") \in Nat /\ Number(g, S, "awake") \in Nat
      /\ Number(h, N, "notify") \in Nat /\ Number(h, S, "awake") \in Nat
  BY NumberType
<1>2. Number(g, N, "notify") = Number(f, N, "notify") - 1
  <2>1. "out" # "notify" OBVIOUS
  <2>. QED BY <2>1, NumberMove
<1>3. Number(g, S, "awake") = Number(f, S, "awake") BY <1>0, NumberMove
<1>4. Waiting(g, S) = Waiting(f, S) BY <1>0 DEF Waiting, Moves
<1>5. CASE Waiting(g, S) = {}
  <2>1. h = g BY <1>5 DEF NotifyOne
  <2>. QED BY <1>5, <2>1 DEF Covered
<1>6. CASE Waiting(g, S) # {}
  <2>1. PICK u \in Waiting(g, S) : h = [g EXCEPT ![u] = "awake"] BY <1>6 DEF NotifyOne
  <2>2. u \in S /\ u \in T /\ u \notin N /\ g[u] = "waiting" BY <2>1 DEF Waiting
  <2>3. Moves(g, h, N, u, "awake") /\ Moves(g, h, S, u, "awake") BY <2>1, <2>2 DEF Moves
  <2>4. Number(h, N, "notify") = Number(g, N, "notify") BY <2>2, <2>3, NumberMove
  <2>5. g[u] # "awake" BY <2>2
  <2>6. Number(h, S, "awake") = Number(g, S, "awake") + 1 BY <2>2, <2>3, <2>5, NumberMove
  <2>7. n <= Number(f, N, "notify") + Number(f, S, "awake") BY <1>4, <1>6 DEF Covered
  <2>. QED BY <1>1, <1>2, <1>3, <2>4, <2>6, <2>7 DEF Covered
<1>. QED BY <1>5, <1>6

(* What a thread that goes from u to v may do to the things that let its own *)
(* side go on, a, and to those of the other side, b, without notifying yet.  *)
Accounts(u, v, a, a2, b, b2) ==
  /\ u # "notify"
  /\ a2 <= 0 \/ (v # "waiting" /\ a2 <= a /\ (u = "awake" => a2 <= a - 1))
  /\ b2 <= b \/ (v = "notify" /\ b2 <= b + 1)

(* The two sides together: A and B sleep on condition variables of their own *)
(* and notify each other; a things let A go on, b things let B go on.        *)
LEMMA ThreadSteps ==
  ASSUME NEW T, NEW P, NEW f \in [T -> P], NEW A \in SUBSET T, NEW B \in SUBSET T,
         IsFiniteSet(A), IsFiniteSet(B), A \cap B = {},
         NEW a \in Int, NEW b \in Int, Covered(f, a, B, A), Covered(f, b, A, B),
         NEW a2 \in Int, NEW b2 \in Int, NEW t \in A, NEW v,
         Accounts(f[t], v, a, a2, b, b2), NEW g, g = [f EXCEPT ![t] = v]
  PROVE  Covered(g, a2, B, A) /\ Covered(g, b2, A, B)
<1>1. Moves(f, g, A, t, v) /\ Moves(f, g, B, t, v) BY DEF Moves
<1>2. B \cap A = {} OBVIOUS
<1>3. Covered(g, a2, B, A) BY <1>1, <1>2, SleeperMoves DEF Accounts
<1>4. Covered(g, b2, A, B) BY <1>1, NotifierMoves DEF Accounts
<1>. QED BY <1>3, <1>4

LEMMA ThreadNotifies ==
  ASSUME NEW T, NEW P, "out" \in P, NEW f \in [T -> P], NEW A \in SUBSET T, NEW B \in SUBSET T,
         IsFiniteSet(A), IsFiniteSet(B), A \cap B = {},
         NEW a \in Int, NEW b \in Int, Covered(f, a, B, A), Covered(f, b, A, B),
         NEW t \in A, f[t] = "notify", NEW h \in NotifyOne([f EXCEPT ![t] = "out"], B)
  PROVE  Covered(h, a, B, A) /\ Covered(h, b, A, B)
<1>0. PICK g : g = [f EXCEPT ![t] = "out"] OBVIOUS
<1>1. g \in [T -> P] /\ Moves(f, g, A, t, "out") /\ Moves(f, g, B, t, "out") /\ h \in NotifyOne(g, B)
  BY <1>0 DEF Moves
<1>2. B \cap A = {} OBVIOUS
<1>3. Covered(h, b, A, B) BY <1>1, NotificationArrives
<1>4. Covered(g, a, B, A)
  <2>1. a <= a /\ "out" # "waiting" /\ f[t] # "awake" OBVIOUS
  <2>. QED BY <1>1, <1>2, <2>1, SleeperMoves
<1>5. CASE Waiting(g, B) = {}
  <2>1. h = g BY <1>1, <1>5 DEF NotifyOne
  <2>. QED BY <1>3, <1>4, <2>1
<1>6. CASE Waiting(g, B) # {}
  <2>1. PICK u \in Waiting(g, B) : h = [g EXCEPT ![u] = "awake"] BY <1>1, <1>6 DEF NotifyOne
  <2>2. u \in B /\ g[u] # "notify" BY <2>1 DEF Waiting
  <2>3. Moves(g, h, B, u, "awake") /\ Moves(g, h, A, u, "awake") BY <1>1, <2>1, <2>2 DEF Moves
  <2>4. a <= a OBVIOUS
  <2>5. Covered(h, a, B, A) BY <1>2, <1>4, <2>2, <2>3, <2>4, NotifierMoves
  <2>. QED BY <1>3, <2>5
<1>. QED BY <1>5, <1>6
-------------------------------------------------------------------------------
IndInv == TypeOK /\ NothingLost

PCs == {"out", "waiting", "awake", "timedout", "notify"}

(* The numbers of the items pushed so far.                                   *)
Items(n) == [i \in 1..n |-> i]

LEMMA ItemsLemma ==
  ASSUME NEW n \in Nat
  PROVE  Items(n) \in Seq(Nat) /\ Append(Items(n), n + 1) = Items(n + 1)
<1>1. Items(n) \in Seq(Nat) /\ Len(Items(n)) = n /\ Items(n + 1) \in Seq(Nat) /\ Len(Items(n + 1)) = n + 1
  BY DEF Items
<1>2. /\ Append(Items(n), n + 1) \in Seq(Nat) /\ Len(Append(Items(n), n + 1)) = n + 1
      /\ \A i \in 1..n : Append(Items(n), n + 1)[i] = Items(n)[i]
      /\ Append(Items(n), n + 1)[n + 1] = n + 1
  BY <1>1, AppendProperties
<1>3. ASSUME NEW i \in 1..(n + 1) PROVE Append(Items(n), n + 1)[i] = Items(n + 1)[i]
  <2>1. i \in 1..n \/ i = n + 1 OBVIOUS
  <2>2. Items(n + 1)[i] = i BY DEF Items
  <2>3. CASE i \in 1..n BY <1>2, <2>2, <2>3 DEF Items
  <2>4. CASE i = n + 1 BY <1>2, <2>2, <2>4
  <2>. QED BY <2>1, <2>3, <2>4, Zenon
<1>. QED BY <1>1, <1>2, <1>3, SeqEqual

LEMMA ConcatAppend ==
  ASSUME NEW s \in Seq(Nat), NEW t \in Seq(Nat), NEW x \in Nat
  PROVE  s \o Append(t, x) = Append(s \o t, x)
  OBVIOUS

LEMMA MoveHead ==
  ASSUME NEW s \in Seq(Nat), NEW t \in Seq(Nat), t # <<>>
  PROVE  Append(s, Head(t)) \o Tail(t) = s \o t
  OBVIOUS

(* What a step does to the data: a push, a pop, or nothing.                  *)
Pushes == /\ Len(queue) < Capacity
          /\ queue' = Append(queue, entered + 1) /\ entered' = entered + 1 /\ UNCHANGED taken
Pops == /\ queue # <<>>
        /\ taken' = Append(taken, Head(queue)) /\ queue' = Tail(queue) /\ UNCHANGED entered

LEMMA DataSteps == [Next]_vars => Pushes \/ Pops \/ UNCHANGED <<queue, entered, taken>>
<1>1. ASSUME NEW t \in Threads, Step(t) \/ SpuriousWakeup(t)
      PROVE  Pushes \/ Pops \/ UNCHANGED <<queue, entered, taken>>
  <2>1. CASE t \in Producers /\ Push(t) BY <2>1 DEF Push, Ready, Pushes
  <2>2. CASE t \in Consumers /\ Pop(t) BY <2>2, QueueAssumption DEF Pop, Ready, Pops
  <2>3. CASE Wait(t) \/ GiveUp(t) \/ Notify(t) \/ Timeout(t) \/ SpuriousWakeup(t)
    BY <2>3 DEF Wait, GiveUp, Notify, Timeout, SpuriousWakeup
  <2>. QED BY <1>1, <2>1, <2>2, <2>3 DEF Step
<1>. QED BY <1>1 DEF Next, vars

LEMMA ControlTypes ==
  ASSUME TypeOK, [Next]_vars PROVE pc' \in [Threads -> PCs] /\ calls' \in [Threads -> Nat]
<1>. USE DEF PCs
<1>0. pc \in [Threads -> PCs] /\ calls \in [Threads -> Nat] BY DEF TypeOK
<1>1. ASSUME NEW t \in Threads, Locks(t) PROVE calls' \in [Threads -> Nat]
  <2>1. CASE calls[t] > 0 /\ calls' = [calls EXCEPT ![t] = @ - 1]
    <3>1. calls[t] - 1 \in Nat BY <1>0, <2>1
    <3>. QED BY <1>0, <2>1, <3>1
  <2>. QED BY <1>0, <1>1, <2>1 DEF Locks
<1>2. ASSUME NEW t \in Threads, Step(t) \/ SpuriousWakeup(t)
      PROVE  pc' \in [Threads -> PCs] /\ calls' \in [Threads -> Nat]
  <2>1. CASE Notify(t)
    <3>1. \A qc \in [Threads -> PCs] : \A S \in SUBSET Threads :
             NotifyOne(qc, S) \subseteq [Threads -> PCs]
      BY DEF NotifyOne, Waiting
    <3>2. [pc EXCEPT ![t] = "out"] \in [Threads -> PCs] BY <1>0
    <3>3. Producers \in SUBSET Threads /\ Consumers \in SUBSET Threads BY DEF Threads
    <3>. QED BY <1>0, <2>1, <3>1, <3>2, <3>3, Zenon DEF Notify
  <2>2. CASE Wait(t) \/ GiveUp(t) \/ Push(t) \/ Pop(t)
    BY <1>0, <1>1, <2>2 DEF Wait, GiveUp, Push, Pop
  <2>3. CASE Timeout(t) \/ SpuriousWakeup(t) BY <1>0, <2>3 DEF Timeout, SpuriousWakeup
  <2>. QED BY <1>2, <2>1, <2>2, <2>3 DEF Step
<1>. QED BY <1>0, <1>2 DEF Next, vars

LEMMA NextInd == IndInv /\ [Next]_vars => IndInv'
<1>. SUFFICES ASSUME IndInv, [Next]_vars PROVE IndInv' OBVIOUS
<1>0. /\ queue \in Seq(Nat) /\ Len(queue) <= Capacity /\ entered \in Nat /\ taken \in Seq(Nat)
      /\ taken \o queue = Items(entered) /\ Capacity \in Nat
  BY QueueAssumption DEF IndInv, TypeOK, NothingLost, Items
<1>1. pc' \in [Threads -> PCs] /\ calls' \in [Threads -> Nat] BY ControlTypes DEF IndInv
<1>2. CASE Pushes
  <2>1. taken \o Append(queue, entered + 1) = Append(taken \o queue, entered + 1)
    BY <1>0, ConcatAppend
  <2>a. Append(Items(entered), entered + 1) = Items(entered + 1) BY <1>0, ItemsLemma, Zenon
  <2>2. taken' \o queue' = Items(entered') BY <1>0, <1>2, <2>1, <2>a, Zenon DEF Pushes
  <2>3. queue' \in Seq(Nat) /\ Len(queue') <= Capacity /\ entered' \in Nat /\ taken' \in Seq(Nat)
    BY <1>0, <1>2 DEF Pushes
  <2>. QED BY <1>1, <2>2, <2>3 DEF IndInv, TypeOK, NothingLost, Items, PCs
<1>3. CASE Pops
  <2>0. queue # <<>> /\ Head(queue) \in Nat BY <1>0, <1>3 DEF Pops
  <2>1. Append(taken, Head(queue)) \o Tail(queue) = taken \o queue
    BY <1>0, <2>0, MoveHead, Zenon
  <2>2. taken' \o queue' = Items(entered') BY <1>0, <1>3, <2>1 DEF Pops
  <2>3. queue' \in Seq(Nat) /\ Len(queue') <= Capacity /\ entered' \in Nat /\ taken' \in Seq(Nat)
    BY <1>0, <1>3, <2>0 DEF Pops
  <2>. QED BY <1>1, <2>2, <2>3 DEF IndInv, TypeOK, NothingLost, Items, PCs
<1>4. CASE UNCHANGED <<queue, entered, taken>>
  BY <1>0, <1>1, <1>4 DEF IndInv, TypeOK, NothingLost, Items, PCs
<1>. QED BY <1>2, <1>3, <1>4, DataSteps

LEMMA InitInd == Init => IndInv
<1>. SUFFICES ASSUME Init PROVE IndInv OBVIOUS
<1>1. <<>> \in Seq(Nat) /\ Len(<<>>) = 0 OBVIOUS
<1>2. TypeOK BY <1>1, QueueAssumption DEF Init, TypeOK, Threads
<1>3. NothingLost BY DEF Init, NothingLost
<1>. QED BY <1>2, <1>3 DEF IndInv

(* Type correctness; in particular m_queue never exceeds m_capacity.         *)
THEOREM TypeCorrect == SafeSpec => []TypeOK
BY InitInd, NextInd, PTL DEF SafeSpec, IndInv

(* enqueue and dequeue deliver every pushed item once and in order, however  *)
(* timeouts and notifications race.                                          *)
THEOREM ExactlyOnceInOrder == SafeSpec => []NothingLost
BY InitInd, NextInd, PTL DEF SafeSpec, IndInv

(* The blocking queue implements the bounded queue that never loses an item. *)
THEOREM Implements == SafeSpec => ImplementsFifo
<1>1. Init => Fifo!Init BY DEF Init, Fifo!Init
<1>2. [Next]_vars => [Fifo!Put \/ Fifo!Get]_(Fifo!vars)
  BY DataSteps DEF Pushes, Pops, Fifo!Put, Fifo!Get, Fifo!vars
<1>. QED BY <1>1, <1>2, PTL DEF SafeSpec, ImplementsFifo, Fifo!Spec

-------------------------------------------------------------------------------
(* EnoughWakeups is inductive on the states of the right type.               *)
LEMMA NextWakeups == TypeOK /\ EnoughWakeups /\ [Next]_vars => EnoughWakeups'
<1>. SUFFICES ASSUME TypeOK, EnoughWakeups, [Next]_vars PROVE EnoughWakeups' OBVIOUS
<1>. DEFINE n == Len(queue)
            k == Capacity - Len(queue)
<1>0. /\ queue \in Seq(Nat) /\ n \in Int /\ k \in Int /\ pc \in [Threads -> PCs] /\ "out" \in PCs
      /\ Producers \in SUBSET Threads /\ Consumers \in SUBSET Threads
      /\ IsFiniteSet(Producers) /\ IsFiniteSet(Consumers)
      /\ Producers \cap Consumers = {} /\ Consumers \cap Producers = {}
      /\ Covered(pc, n, Producers, Consumers) /\ Covered(pc, k, Consumers, Producers)
  BY QueueAssumption DEF TypeOK, EnoughWakeups, PCs, Threads
<1>1. SUFFICES Covered(pc', n', Producers, Consumers) /\ Covered(pc', k', Consumers, Producers)
  BY DEF EnoughWakeups
<1>2. ASSUME NEW t \in Threads, Notify(t)
      PROVE  Covered(pc', n', Producers, Consumers) /\ Covered(pc', k', Consumers, Producers)
  <2>0. n' = n /\ k' = k /\ pc[t] = "notify" BY <1>2 DEF Notify
  <2>1. CASE t \in Producers
    <3>1. pc' \in NotifyOne([pc EXCEPT ![t] = "out"], Consumers) BY <1>2, <2>1 DEF Notify
    <3>. HIDE DEF n, k
    <3>2. Covered(pc', k, Consumers, Producers) /\ Covered(pc', n, Producers, Consumers)
      BY <1>0, <2>0, <2>1, <3>1, ThreadNotifies
    <3>. QED BY <2>0, <3>2
  <2>2. CASE t \in Consumers
    <3>1. pc' \in NotifyOne([pc EXCEPT ![t] = "out"], Producers)
      BY <1>0, <1>2, <2>2 DEF Notify
    <3>. HIDE DEF n, k
    <3>2. Covered(pc', n, Producers, Consumers) /\ Covered(pc', k, Consumers, Producers)
      BY <1>0, <2>0, <2>2, <3>1, ThreadNotifies
    <3>. QED BY <2>0, <3>2
  <2>. QED BY <2>1, <2>2 DEF Threads
<1>3. ASSUME NEW t \in Threads, NEW v, pc' = [pc EXCEPT ![t] = v], NEW n2 \in Int, NEW k2 \in Int,
             \/ t \in Producers /\ Accounts(pc[t], v, k, k2, n, n2)
             \/ t \in Consumers /\ Accounts(pc[t], v, n, n2, k, k2)
      PROVE  Covered(pc', n2, Producers, Consumers) /\ Covered(pc', k2, Consumers, Producers)
  <2>. HIDE DEF n, k
  <2>1. CASE t \in Producers /\ Accounts(pc[t], v, k, k2, n, n2) BY <1>0, <1>3, <2>1, ThreadSteps
  <2>2. CASE t \in Consumers /\ Accounts(pc[t], v, n, n2, k, k2) BY <1>0, <1>3, <2>2, ThreadSteps
  <2>. QED BY <1>3, <2>1, <2>2
<1>4. ASSUME NEW t \in Threads, Step(t) \/ SpuriousWakeup(t)
      PROVE  Covered(pc', n', Producers, Consumers) /\ Covered(pc', k', Consumers, Producers)
  <2>0. Capacity \in Nat BY QueueAssumption
  <2>1. CASE Notify(t) BY <1>2, <2>1
  <2>2. CASE Wait(t)
    <3>1. ~Ready(t) /\ pc' = [pc EXCEPT ![t] = "waiting"] /\ queue' = queue /\ pc[t] # "notify"
      BY <2>2 DEF Wait, Locks
    <3>2. n' = n /\ k' = k BY <3>1
    <3>3. /\ t \in Producers => k <= 0
          /\ t \in Consumers => n <= 0
      BY <1>0, <2>0, <3>1 DEF Ready
    <3>. HIDE DEF n, k
    <3>8. \/ t \in Producers /\ Accounts(pc[t], "waiting", k, k, n, n)
          \/ t \in Consumers /\ Accounts(pc[t], "waiting", n, n, k, k)
      BY <1>0, <3>1, <3>3 DEF Accounts, Threads
    <3>9. Covered(pc', n, Producers, Consumers) /\ Covered(pc', k, Consumers, Producers)
      BY <1>0, <1>3, <3>1, <3>8
    <3>. QED BY <3>2, <3>9
  <2>3. CASE GiveUp(t) \/ Timeout(t) \/ SpuriousWakeup(t)
    <3>1. PICK v \in {"out", "timedout", "awake"} : pc' = [pc EXCEPT ![t] = v]
      BY <2>3 DEF GiveUp, Timeout, SpuriousWakeup
    <3>2. pc[t] \in {"waiting", "timedout"} /\ queue' = queue
      BY <2>3 DEF GiveUp, Timeout, SpuriousWakeup
    <3>3. n' = n /\ k' = k BY <3>2
    <3>. HIDE DEF n, k
    <3>8. \/ t \in Producers /\ Accounts(pc[t], v, k, k, n, n)
          \/ t \in Consumers /\ Accounts(pc[t], v, n, n, k, k)
      BY <1>0, <3>1, <3>2 DEF Accounts, Threads
    <3>9. Covered(pc', n, Producers, Consumers) /\ Covered(pc', k, Consumers, Producers)
      BY <1>0, <1>3, <3>1, <3>8
    <3>. QED BY <3>3, <3>9
  <2>4. CASE t \in Producers /\ Push(t)
    <3>1. pc' = [pc EXCEPT ![t] = "notify"] /\ pc[t] # "notify" BY <2>4 DEF Push, Locks
    <3>2. entered + 1 \in Nat /\ queue' = Append(queue, entered + 1) BY <2>4 DEF TypeOK, Push
    <3>3. Len(queue') = Len(queue) + 1 BY <1>0, <3>2
    <3>4. n' = n + 1 /\ k' = k - 1 BY <1>0, <2>0, <3>3
    <3>. HIDE DEF n, k
    <3>7. PICK n2 \in Int, k2 \in Int : n2 = n + 1 /\ k2 = k - 1 BY <1>0
    <3>8. Accounts(pc[t], "notify", k, k2, n, n2) BY <1>0, <3>1, <3>7 DEF Accounts
    <3>9. Covered(pc', n2, Producers, Consumers) /\ Covered(pc', k2, Consumers, Producers)
      BY <1>0, <1>3, <2>4, <3>1, <3>8
    <3>. QED BY <3>4, <3>7, <3>9
  <2>5. CASE t \in Consumers /\ Pop(t)
    <3>1. pc' = [pc EXCEPT ![t] = "notify"] /\ pc[t] # "notify" BY <2>5 DEF Pop, Locks
    <3>2. queue # <<>> /\ queue' = Tail(queue) BY <1>0, <2>5 DEF Pop, Ready
    <3>3. Len(queue') = Len(queue) - 1 BY <1>0, <3>2
    <3>4. n' = n - 1 /\ k' = k + 1 BY <1>0, <2>0, <3>3
    <3>. HIDE DEF n, k
    <3>7. PICK n2 \in Int, k2 \in Int : n2 = n - 1 /\ k2 = k + 1 BY <1>0
    <3>8. Accounts(pc[t], "notify", n, n2, k, k2) BY <1>0, <3>1, <3>7 DEF Accounts
    <3>9. Covered(pc', n2, Producers, Consumers) /\ Covered(pc', k2, Consumers, Producers)
      BY <1>0, <1>3, <2>5, <3>1, <3>8
    <3>. QED BY <3>4, <3>7, <3>9
  <2>. QED BY <1>4, <2>1, <2>2, <2>3, <2>4, <2>5 DEF Step
<1>5. CASE UNCHANGED vars BY <1>0, <1>5 DEF vars
<1>. QED BY <1>4, <1>5 DEF Next

(* One notify_one per enqueue and per dequeue is enough: no item and no free *)
(* place is left without a notification while a thread sleeps that could use *)
(* it, whatever times out or wakes by itself.                                *)
THEOREM WakeupsSuffice == SafeSpec => []EnoughWakeups
<1>1. Init => EnoughWakeups BY DEF Init, EnoughWakeups, Covered, Waiting, Threads
<1>. QED BY <1>1, NextWakeups, TypeCorrect, PTL DEF SafeSpec
===============================================================================
