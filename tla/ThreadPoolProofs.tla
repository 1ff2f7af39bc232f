--------------------------- MODULE ThreadPoolProofs ---------------------------
(***************************************************************************)
(* For every number of workers and tasks: no task is lost, run twice or     *)
(* started out of order, no wakeup is lost, the destructor drains the       *)
(* queue, and the pool implements the safety part of Executor.              *)
(***************************************************************************)
EXTENDS ThreadPool, SequenceTheorems, TLAPS

(* What the safety properties need in addition to be inductive: the flag is  *)
(* set exactly while the destructor runs, workers leave only then and only   *)
(* from an empty queue, and only a busy worker holds a task.                 *)
Phases ==
  /\ stopflag <=> opc \in {"stopping", "joining", "gone"}
  /\ opc = "get" => want \in Tasks
  /\ \A w \in Workers : wpc[w] = "exited" => stopflag /\ tasksque = <<>>
  /\ opc = "gone" => \A w \in Workers : wpc[w] = "exited"
  /\ \A w \in Workers : wtask[w] # NoTask => wpc[w] \in {"running", "notify"}

IndInv == TypeOK /\ Phases /\ OnePlace /\ NoLostWakeup

(* notify_one only moves waiting threads to awake.                            *)
LEMMA NotifyOneLemma ==
  ASSUME NEW pc \in [Workers -> {"awake", "waiting", "running", "notify", "exited"}],
         NEW qc \in NotifyOne(pc, Workers)
  PROVE  /\ qc \in [Workers -> {"awake", "waiting", "running", "notify", "exited"}]
         /\ \A w \in Workers : qc[w] # pc[w] => pc[w] = "waiting" /\ qc[w] = "awake"
         /\ Waiting(pc, Workers) # {} => \E w \in Workers : qc[w] = "awake"
BY DEF NotifyOne, Waiting

(* Dropping the oldest task leaves the rest of the queue, one place up.      *)
LEMMA TailLemma ==
  ASSUME NEW s \in Seq(Tasks), s # <<>>
  PROVE  /\ Head(s) \in Tasks /\ Head(s) = s[1] /\ 1 \in DOMAIN s
         /\ Tail(s) \in Seq(Tasks)
         /\ \A i \in DOMAIN Tail(s) : i + 1 \in DOMAIN s /\ Tail(s)[i] = s[i + 1]
         /\ \A i \in DOMAIN s : i = 1 \/ (i - 1 \in DOMAIN Tail(s) /\ Tail(s)[i - 1] = s[i])
         /\ DOMAIN s \subseteq Nat /\ DOMAIN Tail(s) \subseteq Nat
  OBVIOUS

(* The queue after a push: its old places and one more.                      *)
LEMMA AppendLemma ==
  ASSUME NEW s \in Seq(Tasks), NEW t \in Tasks
  PROVE  /\ Append(s, t) \in Seq(Tasks) /\ Append(s, t) # <<>>
         /\ DOMAIN Append(s, t) = DOMAIN s \cup {Len(s) + 1}
         /\ Len(s) + 1 \notin DOMAIN s
         /\ Append(s, t)[Len(s) + 1] = t
         /\ \A i \in DOMAIN s : Append(s, t)[i] = s[i]
  OBVIOUS

LEMMA InitInd == Init => IndInv
<1>. SUFFICES ASSUME Init PROVE IndInv OBVIOUS
<1>0. <<>> \in Seq(Tasks) OBVIOUS
<1>1. TypeOK BY <1>0, Zenon DEF Init, TypeOK
<1>2. Phases BY DEF Init, Phases
<1>3. OnePlace BY DEF Init, OnePlace
<1>4. NoLostWakeup BY DEF Init, NoLostWakeup
<1>. QED BY <1>1, <1>2, <1>3, <1>4 DEF IndInv

(* A push of a new task keeps the queue part of the invariant, whoever does  *)
(* it.                                                                       *)
LEMMA EnqueueLemma ==
  ASSUME IndInv, NEW t \in Tasks, Enqueue(t)
  PROVE  /\ tasksque' \in Seq(Tasks) /\ tasksque' # <<>> /\ accepted' \in Seq(Tasks)
         /\ status' \in [Tasks -> {"new", "queued", "running", "ready", "taken", "refused"}]
         /\ \A u \in Tasks : status'[u] = IF u = t THEN "queued" ELSE status[u]
         /\ status[t] = "new"
         /\ \A u \in Tasks : status'[u] = "queued" <=>
                \E i \in DOMAIN tasksque' : tasksque'[i] = u
         /\ \A i, j \in DOMAIN tasksque' : tasksque'[i] = tasksque'[j] => i = j
<1>. tasksque \in Seq(Tasks) /\ accepted \in Seq(Tasks) BY DEF IndInv, TypeOK
<1>1. /\ tasksque' = Append(tasksque, t) /\ status[t] = "new" /\ accepted' = Append(accepted, t)
      /\ status' = [status EXCEPT ![t] = "queued"]
  BY DEF Enqueue
<1>2. ~ \E i \in DOMAIN tasksque : tasksque[i] = t
  BY <1>1 DEF IndInv, OnePlace
<1>3. /\ status' \in [Tasks -> {"new", "queued", "running", "ready", "taken", "refused"}]
      /\ \A u \in Tasks : status'[u] = IF u = t THEN "queued" ELSE status[u]
  BY <1>1 DEF IndInv, TypeOK
<1>4. \A u \in Tasks : status'[u] = "queued" <=> \E i \in DOMAIN tasksque' : tasksque'[i] = u
  BY <1>1, <1>3, AppendLemma DEF IndInv, OnePlace
<1>5. \A i, j \in DOMAIN tasksque' : tasksque'[i] = tasksque'[j] => i = j
  BY <1>1, <1>2, AppendLemma DEF IndInv, OnePlace
<1>. QED BY <1>1, <1>3, <1>4, <1>5, AppendLemma

-------------------------------------------------------------------------------
(* One lemma per step of the owner, then one per step of a worker: each      *)
(* keeps the invariant.                                                      *)
LEMMA OwnerSubmitInd ==
  ASSUME IndInv, NEW t \in Tasks, OwnerSubmit(t) PROVE IndInv'
<1>. USE DEF IndInv
<1>0. Enqueue(t) BY DEF OwnerSubmit
<1>1. TypeOK' BY <1>0, EnqueueLemma DEF OwnerSubmit, TypeOK
<1>2. Phases' BY <1>0, EnqueueLemma DEF OwnerSubmit, Phases, Enqueue
<1>3. OnePlace' BY <1>0, EnqueueLemma DEF OwnerSubmit, OnePlace, TypeOK
<1>4. NoLostWakeup' BY DEF OwnerSubmit, NoLostWakeup
<1>. QED BY <1>1, <1>2, <1>3, <1>4

LEMMA OwnerNotifyInd ==
  ASSUME IndInv, OwnerNotify PROVE IndInv'
<1>. USE DEF IndInv
<1>0. /\ wpc' \in [Workers -> {"awake", "waiting", "running", "notify", "exited"}]
      /\ \A w \in Workers : wpc'[w] # wpc[w] => wpc[w] = "waiting" /\ wpc'[w] = "awake"
      /\ Waiting(wpc, Workers) # {} => \E w \in Workers : wpc'[w] = "awake"
  <2>1. wpc' \in NotifyOne(wpc, Workers) BY DEF OwnerNotify
  <2>2. wpc \in [Workers -> {"awake", "waiting", "running", "notify", "exited"}] BY DEF TypeOK
  <2>. QED BY <2>1, <2>2, NotifyOneLemma, Zenon
<1>1. TypeOK' BY <1>0 DEF OwnerNotify, TypeOK
<1>2. Phases' BY <1>0 DEF OwnerNotify, Phases
<1>3. OnePlace' BY <1>0 DEF OwnerNotify, OnePlace
<1>4. NoLostWakeup'
  <2>1. CASE Waiting(wpc, Workers) # {} BY <1>0, <2>1 DEF OwnerNotify, NoLostWakeup
  <2>2. CASE Waiting(wpc, Workers) = {}
    <3>1. \A w \in Workers : wpc'[w] = wpc[w] BY <1>0, <2>2 DEF Waiting
    <3>2. \A w \in Workers : wpc[w] \in {"awake", "running", "notify"} \/ tasksque = <<>>
      BY <2>2 DEF Waiting, Phases, TypeOK
    <3>. QED BY <3>1, <3>2, PoolAssumption DEF OwnerNotify, NoLostWakeup
  <2>. QED BY <2>1, <2>2
<1>. QED BY <1>1, <1>2, <1>3, <1>4

LEMMA OwnerGetInd ==
  ASSUME IndInv, NEW t \in Tasks, OwnerGet(t) PROVE IndInv'
<1>. USE DEF IndInv
<1>1. TypeOK' BY DEF OwnerGet, TypeOK
<1>2. Phases' BY DEF OwnerGet, Phases
<1>3. OnePlace' BY DEF OwnerGet, OnePlace
<1>4. NoLostWakeup' BY DEF OwnerGet, NoLostWakeup
<1>. QED BY <1>1, <1>2, <1>3, <1>4

LEMMA OwnerGotInd ==
  ASSUME IndInv, OwnerGot PROVE IndInv'
<1>. USE DEF IndInv
<1>1. TypeOK' BY Zenon DEF OwnerGot, TypeOK
<1>2. Phases' BY DEF OwnerGot, Phases
<1>3. OnePlace' BY DEF OwnerGot, OnePlace, TypeOK, Phases
<1>4. NoLostWakeup' BY DEF OwnerGot, NoLostWakeup
<1>. QED BY <1>1, <1>2, <1>3, <1>4

LEMMA OwnerStopInd ==
  ASSUME IndInv, OwnerStop PROVE IndInv'
<1>. USE DEF IndInv
<1>1. TypeOK' BY DEF OwnerStop, TypeOK
<1>2. Phases' BY DEF OwnerStop, Phases
<1>3. OnePlace' BY DEF OwnerStop, OnePlace
<1>4. NoLostWakeup' BY DEF OwnerStop, NoLostWakeup
<1>. QED BY <1>1, <1>2, <1>3, <1>4

LEMMA OwnerNotifyAllInd ==
  ASSUME IndInv, OwnerNotifyAll PROVE IndInv'
<1>. USE DEF IndInv
<1>0. /\ wpc' \in [Workers -> {"awake", "waiting", "running", "notify", "exited"}]
      /\ \A w \in Workers : wpc'[w] = IF wpc[w] = "waiting" THEN "awake" ELSE wpc[w]
  BY DEF OwnerNotifyAll, NotifyAll, TypeOK, Waiting
<1>1. TypeOK' BY <1>0 DEF OwnerNotifyAll, TypeOK
<1>2. Phases' BY <1>0 DEF OwnerNotifyAll, Phases
<1>3. OnePlace' BY <1>0 DEF OwnerNotifyAll, OnePlace
<1>4. NoLostWakeup'
  <2>1. Waiting(wpc', Workers) = {} BY <1>0 DEF Waiting
  <2>2. \A w \in Workers : wpc'[w] \in {"awake", "running", "notify"} \/ tasksque = <<>>
    BY <1>0 DEF Phases, TypeOK
  <2>. QED BY <2>1, <2>2, PoolAssumption DEF OwnerNotifyAll, NoLostWakeup
<1>. QED BY <1>1, <1>2, <1>3, <1>4

LEMMA OwnerJoinedInd ==
  ASSUME IndInv, OwnerJoined PROVE IndInv'
<1>. USE DEF IndInv
<1>1. TypeOK' BY DEF OwnerJoined, TypeOK
<1>2. Phases' BY DEF OwnerJoined, Phases
<1>3. OnePlace' BY DEF OwnerJoined, OnePlace
<1>4. NoLostWakeup' BY DEF OwnerJoined, NoLostWakeup
<1>. QED BY <1>1, <1>2, <1>3, <1>4

(* Steps that change nothing but one worker's program counter.               *)
LEMMA WorkerPcInd ==
  ASSUME IndInv, NEW w \in Workers,
         WorkerWait(w) \/ SpuriousWakeup(w) \/ WorkerExit(w)
  PROVE IndInv'
<1>. USE DEF IndInv, WorkerWait, SpuriousWakeup, WorkerExit
<1>1. TypeOK' BY Zenon DEF TypeOK
<1>2. Phases' BY DEF Phases, TypeOK
<1>3. OnePlace' BY DEF OnePlace, TypeOK
<1>4. NoLostWakeup' BY DEF NoLostWakeup, Phases, TypeOK, Waiting
<1>. QED BY <1>1, <1>2, <1>3, <1>4

LEMMA WorkerTakeInd ==
  ASSUME IndInv, NEW w \in Workers, WorkerTake(w) PROVE IndInv'
<1>. USE DEF IndInv
<1>. DEFINE h == Head(tasksque)
<1>0. /\ tasksque \in Seq(Tasks) /\ tasksque # <<>> /\ started \in Seq(Tasks)
      /\ wpc[w] = "awake" /\ wpc' = [wpc EXCEPT ![w] = "running"]
      /\ wtask' = [wtask EXCEPT ![w] = h] /\ tasksque' = Tail(tasksque)
      /\ status' = [status EXCEPT ![h] = "running"]
      /\ started' = Append(started, h)
      /\ UNCHANGED <<stopflag, opc, want, accepted>>
  BY DEF WorkerTake, TypeOK
<1>a. h \in Tasks /\ status[h] = "queued" /\ h = tasksque[1] /\ 1 \in DOMAIN tasksque
  BY <1>0, TailLemma DEF OnePlace
<1>1. TypeOK' BY <1>0, <1>a, TailLemma, AppendLemma DEF TypeOK
<1>2. Phases' BY <1>0 DEF Phases, TypeOK
<1>3. OnePlace'
  <2>1. \A i, j \in DOMAIN tasksque' : tasksque'[i] = tasksque'[j] => i = j
    BY <1>0, TailLemma DEF OnePlace
  <2>2. \A t \in Tasks : status'[t] = "queued" <=> \E i \in DOMAIN tasksque' : tasksque'[i] = t
    <3>. SUFFICES ASSUME NEW t \in Tasks
                  PROVE  status'[t] = "queued" <=> \E i \in DOMAIN tasksque' : tasksque'[i] = t
      OBVIOUS
    <3>1. CASE t = h
      <4>1. status'[t] # "queued" BY <1>0, <1>a, <3>1 DEF TypeOK
      <4>2. ASSUME NEW i \in DOMAIN tasksque', tasksque'[i] = t PROVE FALSE
        BY <1>0, <1>a, <3>1, <4>2, TailLemma DEF OnePlace
      <4>. QED BY <4>1, <4>2
    <3>2. CASE t # h
      <4>1. status'[t] = status[t] BY <1>0, <1>a, <3>2 DEF TypeOK
      <4>2. ASSUME NEW i \in DOMAIN tasksque, tasksque[i] = t
            PROVE  \E j \in DOMAIN tasksque' : tasksque'[j] = t
        <5>1. i - 1 \in DOMAIN tasksque' /\ tasksque'[i - 1] = t
          BY <1>0, <1>a, <3>2, <4>2, TailLemma
        <5>. QED BY <5>1
      <4>3. ASSUME NEW i \in DOMAIN tasksque', tasksque'[i] = t
            PROVE  \E j \in DOMAIN tasksque : tasksque[j] = t
        <5>1. i + 1 \in DOMAIN tasksque /\ tasksque[i + 1] = t
          BY <1>0, <4>3, TailLemma
        <5>. QED BY <5>1
      <4>. QED BY <4>1, <4>2, <4>3 DEF OnePlace
    <3>. QED BY <3>1, <3>2
  <2>3. \A v \in Workers : wpc'[v] \in {"running", "notify"} =>
           wtask'[v] \in Tasks /\ status'[wtask'[v]] = "running"
    BY <1>0, <1>a DEF OnePlace, TypeOK
  <2>4. \A t \in Tasks : status'[t] = "running" =>
           \E v \in Workers : wpc'[v] \in {"running", "notify"} /\ wtask'[v] = t
    BY <1>0, <1>a DEF OnePlace, TypeOK
  <2>5. \A u, v \in Workers : wtask'[u] = wtask'[v] /\ wtask'[u] # NoTask => u = v
    <3>1. \A v \in Workers : wtask[v] # h
      BY <1>a, PoolAssumption DEF OnePlace, Phases
    <3>. QED BY <1>0, <3>1 DEF OnePlace, TypeOK
  <2>. QED BY <2>1, <2>2, <2>3, <2>4, <2>5 DEF OnePlace
<1>4. NoLostWakeup' BY <1>0 DEF NoLostWakeup, TypeOK, Waiting
<1>. QED BY <1>1, <1>2, <1>3, <1>4

LEMMA WorkerSubmitInd ==
  ASSUME IndInv, NEW w \in Workers, NEW c \in Tasks, WorkerSubmit(w, c) PROVE IndInv'
<1>. USE DEF IndInv
<1>0. Enqueue(c) BY DEF WorkerSubmit
<1>1. TypeOK' BY <1>0, EnqueueLemma DEF WorkerSubmit, TypeOK
<1>2. Phases' BY <1>0, EnqueueLemma DEF WorkerSubmit, Phases, Enqueue, TypeOK
<1>3. OnePlace' BY <1>0, EnqueueLemma DEF WorkerSubmit, OnePlace, TypeOK
<1>4. NoLostWakeup' BY DEF WorkerSubmit, NoLostWakeup, TypeOK, Waiting
<1>. QED BY <1>1, <1>2, <1>3, <1>4

LEMMA WorkerNotifyInd ==
  ASSUME IndInv, NEW w \in Workers, WorkerNotify(w) PROVE IndInv'
<1>. USE DEF IndInv
<1>. DEFINE pc == [wpc EXCEPT ![w] = "running"]
<1>0. /\ wpc' \in [Workers -> {"awake", "waiting", "running", "notify", "exited"}]
      /\ \A v \in Workers : wpc'[v] # pc[v] => pc[v] = "waiting" /\ wpc'[v] = "awake"
  <2>1. wpc' \in NotifyOne(pc, Workers) BY DEF WorkerNotify
  <2>2. pc \in [Workers -> {"awake", "waiting", "running", "notify", "exited"}] BY DEF TypeOK
  <2>. HIDE DEF pc
  <2>. QED BY <2>1, <2>2, NotifyOneLemma, Zenon
<1>a. /\ wpc[w] = "notify" /\ wpc'[w] = "running"
      /\ \A v \in Workers : v # w /\ wpc'[v] # wpc[v] => wpc[v] = "waiting" /\ wpc'[v] = "awake"
      /\ UNCHANGED <<tasksque, stopflag, wtask, opc, want, status, accepted, started>>
  BY <1>0 DEF WorkerNotify, TypeOK
<1>1. TypeOK' BY <1>0, <1>a DEF TypeOK
<1>2. Phases' BY <1>a DEF Phases
<1>3. OnePlace' BY <1>a DEF OnePlace
<1>4. NoLostWakeup' BY <1>a DEF NoLostWakeup, Waiting
<1>. QED BY <1>1, <1>2, <1>3, <1>4

(* A worker whose task ends, normally or by the exception of addWorkFunc.    *)
LEMMA WorkerEndInd ==
  ASSUME IndInv, NEW w \in Workers,
         WorkerFinish(w) \/ \E c \in Tasks : WorkerRefused(w, c)
  PROVE IndInv'
<1>. USE DEF IndInv
<1>0. /\ wpc[w] = "running" /\ wpc' = [wpc EXCEPT ![w] = "awake"]
      /\ wtask' = [wtask EXCEPT ![w] = NoTask]
      /\ UNCHANGED <<tasksque, stopflag, opc, want, accepted, started>>
  BY DEF WorkerFinish, WorkerRefused
<1>a. wtask[w] \in Tasks /\ status[wtask[w]] = "running" BY <1>0 DEF OnePlace
<1>b. /\ status' \in [Tasks -> {"new", "queued", "running", "ready", "taken", "refused"}]
      /\ status'[wtask[w]] = "ready"
      /\ \A t \in Tasks \ {wtask[w]} :
            status'[t] = status[t] \/ (status[t] = "new" /\ status'[t] = "refused")
  BY <1>0, <1>a, Zenon DEF WorkerFinish, WorkerRefused, TypeOK
<1>1. TypeOK' BY <1>0, <1>b DEF TypeOK
<1>2. Phases' BY <1>0 DEF Phases, TypeOK
<1>3. OnePlace'
  <2>1. \A t \in Tasks : status'[t] = "queued" <=> status[t] = "queued" BY <1>a, <1>b
  <2>2. \A t \in Tasks : status'[t] = "running" <=> (status[t] = "running" /\ t # wtask[w])
    BY <1>a, <1>b
  <2>3. \A v \in Workers : wpc'[v] \in {"running", "notify"} =>
           v # w /\ wtask'[v] \in Tasks /\ status'[wtask'[v]] = "running"
    BY <1>0, <1>a, <2>2, PoolAssumption DEF OnePlace, TypeOK
  <2>4. \A t \in Tasks : status'[t] = "running" =>
           \E v \in Workers : wpc'[v] \in {"running", "notify"} /\ wtask'[v] = t
    BY <1>0, <2>2 DEF OnePlace, TypeOK
  <2>5. \A u, v \in Workers : wtask'[u] = wtask'[v] /\ wtask'[u] # NoTask => u = v
    BY <1>0 DEF OnePlace, TypeOK
  <2>. QED BY <1>0, <2>1, <2>3, <2>4, <2>5 DEF OnePlace
<1>4. NoLostWakeup' BY <1>0 DEF NoLostWakeup, TypeOK, Waiting
<1>. QED BY <1>1, <1>2, <1>3, <1>4

LEMMA NextInd == IndInv /\ [Next]_vars => IndInv'
<1>. SUFFICES ASSUME IndInv, [Next]_vars PROVE IndInv' OBVIOUS
<1>1. CASE OwnerCall
  BY <1>1, OwnerSubmitInd, OwnerGetInd, OwnerStopInd DEF OwnerCall, Roots
<1>2. CASE OwnerReturn
  BY <1>2, OwnerNotifyInd, OwnerGotInd, OwnerNotifyAllInd, OwnerJoinedInd DEF OwnerReturn
<1>3. ASSUME NEW w \in Workers, WorkerStep(w) \/ SpuriousWakeup(w) PROVE IndInv'
  BY <1>3, WorkerPcInd, WorkerTakeInd, WorkerSubmitInd, WorkerNotifyInd, WorkerEndInd
  DEF WorkerStep
<1>4. CASE UNCHANGED vars
  BY <1>4 DEF vars, IndInv, TypeOK, Phases, OnePlace, NoLostWakeup, Waiting
<1>. QED BY <1>1, <1>2, <1>3, <1>4 DEF Next, Terminated

THEOREM Invariance == SafeSpec => []IndInv
BY InitInd, NextInd, PTL DEF SafeSpec

(* Type correctness of the pool.                                             *)
THEOREM TypeCorrect == SafeSpec => []TypeOK
BY Invariance, PTL DEF IndInv

(* Every accepted task is in the queue once, or held by one worker, or done: *)
(* the pop under the mutex neither loses nor duplicates it.                  *)
THEOREM TasksInOnePlace == SafeSpec => []OnePlace
BY Invariance, PTL DEF IndInv

(* notify_one after the unlock in addWorkFunc and notify_all after it in the *)
(* destructor are enough: no queued task is left with everybody asleep.      *)
THEOREM WakeupsNotLost == SafeSpec => []NoLostWakeup
BY Invariance, PTL DEF IndInv

(* When the destructor returns, every task addWorkFunc accepted has run.     *)
THEOREM DestructorDrains == SafeSpec => []DrainedWhenGone
<1>1. IndInv => DrainedWhenGone
  <2>. SUFFICES ASSUME IndInv, opc = "gone" PROVE /\ tasksque = <<>>
                  /\ \A t \in Tasks : status[t] \notin {"queued", "running"}
    BY DEF DrainedWhenGone
  <2>1. \A w \in Workers : wpc[w] = "exited" BY DEF IndInv, Phases
  <2>2. tasksque = <<>> BY <2>1, PoolAssumption DEF IndInv, Phases
  <2>3. \A t \in Tasks : status[t] # "running" BY <2>1 DEF IndInv, OnePlace
  <2>4. \A t \in Tasks : status[t] # "queued" BY <2>2 DEF IndInv, OnePlace
  <2>. QED BY <2>2, <2>3, <2>4
<1>. QED BY Invariance, <1>1, PTL

(* addWorkFunc queues nothing once the destructor has set the flag.          *)
THEOREM StopCloses == SafeSpec => NoAcceptAfterStop
<1>1. [Next]_vars => [stopflag => accepted' = accepted]_vars
  BY Zenon DEF Next, OwnerCall, OwnerReturn, WorkerStep, Terminated, OwnerSubmit, OwnerNotify,
         OwnerGet, OwnerGot, OwnerStop, OwnerNotifyAll, OwnerJoined, WorkerWait,
         SpuriousWakeup, WorkerExit, WorkerTake, WorkerSubmit, WorkerNotify,
         WorkerRefused, WorkerFinish, Enqueue, vars
<1>. QED BY <1>1, PTL DEF SafeSpec, NoAcceptAfterStop

-------------------------------------------------------------------------------
(* Tasks are started first in, first out: what was accepted is what was      *)
(* started followed by what still waits in m_tasksque.                       *)
THEOREM FirstInFirstOut == SafeSpec => []StartedInOrder
<1>1. Init => StartedInOrder BY DEF Init, StartedInOrder
<1>2. ASSUME IndInv, StartedInOrder, [Next]_vars PROVE StartedInOrder'
  <2>. tasksque \in Seq(Tasks) /\ started \in Seq(Tasks) BY <1>2 DEF IndInv, TypeOK
  <2>1. ASSUME NEW t \in Tasks, Enqueue(t), started' = started PROVE StartedInOrder'
    <3>1. Append(started \o tasksque, t) = started \o Append(tasksque, t)
      OBVIOUS
    <3>. QED BY <1>2, <2>1, <3>1 DEF Enqueue, StartedInOrder
  <2>2. ASSUME NEW w \in Workers, WorkerTake(w) PROVE StartedInOrder'
    <3>. tasksque # <<>> BY <2>2 DEF WorkerTake
    <3>1. Append(started, Head(tasksque)) \o Tail(tasksque) = started \o tasksque
      OBVIOUS
    <3>. QED BY <1>2, <2>2, <3>1 DEF WorkerTake, StartedInOrder
  <2>3. CASE UNCHANGED <<accepted, started, tasksque>> BY <1>2, <2>3 DEF StartedInOrder
  <2>4. \/ UNCHANGED <<accepted, started, tasksque>>
        \/ \E t \in Tasks : Enqueue(t) /\ started' = started
        \/ \E w \in Workers : WorkerTake(w)
    BY <1>2, Zenon DEF Next, OwnerCall, OwnerReturn, WorkerStep, Terminated, OwnerSubmit, OwnerNotify,
         OwnerGet, OwnerGot, OwnerStop, OwnerNotifyAll, OwnerJoined, WorkerWait, Roots,
         SpuriousWakeup, WorkerExit, WorkerSubmit, WorkerNotify,
         WorkerRefused, WorkerFinish, vars
  <2>. QED BY <2>1, <2>2, <2>3, <2>4
<1>. QED BY <1>1, <1>2, Invariance, PTL DEF SafeSpec

-------------------------------------------------------------------------------
(* Every step of the pool is a step of the executor or leaves it alone.      *)
LEMMA StepRefines == IndInv /\ [Next]_vars => [Abstract!Next]_(Abstract!vars)
<1>. SUFFICES ASSUME IndInv, [Next]_vars PROVE [Abstract!Next]_(Abstract!vars) OBVIOUS
<1>. USE DEF IndInv, Abstract!vars
<1>a. ASSUME NEW t \in Tasks, Enqueue(t), stopflag' = stopflag, opc # "gone", opc' # "gone"
      PROVE  Abstract!Accept(t)
  BY <1>a DEF Enqueue, Abstract!Accept
<1>b. opc # "gone" \/ \A w \in Workers : wpc[w] = "exited" BY DEF Phases
<1>1. ASSUME NEW t \in Tasks, OwnerSubmit(t) PROVE Abstract!Accept(t)
  BY <1>1, <1>a DEF OwnerSubmit
<1>2. ASSUME NEW w \in Workers, NEW c \in Tasks, WorkerSubmit(w, c) PROVE Abstract!Accept(c)
  BY <1>2, <1>a, <1>b DEF WorkerSubmit
<1>3. ASSUME OwnerGot PROVE Abstract!Collect(want) /\ want \in Tasks
  BY <1>3 DEF OwnerGot, Phases, Abstract!Collect
<1>4. ASSUME OwnerStop PROVE Abstract!Close
  BY <1>4 DEF OwnerStop, Phases, Abstract!Close
<1>5. ASSUME OwnerJoined PROVE Abstract!Closed
  <2>1. \A w \in Workers : wpc[w] = "exited" BY <1>5 DEF OwnerJoined
  <2>2. tasksque = <<>> /\ stopflag BY <2>1, PoolAssumption DEF Phases
  <2>3. \A t \in Tasks : status[t] # "running" BY <2>1 DEF OnePlace
  <2>. QED BY <1>5, <2>2, <2>3 DEF OwnerJoined, Abstract!Closed
<1>6. ASSUME NEW w \in Workers, WorkerTake(w) PROVE Abstract!Start
  BY <1>6 DEF WorkerTake, Abstract!Start
<1>7. ASSUME NEW w \in Workers, WorkerFinish(w) PROVE wtask[w] \in Tasks /\ Abstract!Complete(wtask[w])
  BY <1>7 DEF WorkerFinish, OnePlace, Abstract!Complete
<1>8. ASSUME NEW w \in Workers, NEW c \in Tasks, WorkerRefused(w, c)
      PROVE  wtask[w] \in Tasks /\ Abstract!Refuse(c, wtask[w])
  BY <1>8, <1>b DEF WorkerRefused, OnePlace, Abstract!Refuse
<1>9. ASSUME \/ OwnerNotify \/ OwnerNotifyAll \/ (\E t \in Roots : OwnerGet(t))
             \/ (\E w \in Workers : \/ WorkerWait(w) \/ SpuriousWakeup(w)
                                    \/ WorkerExit(w) \/ WorkerNotify(w))
             \/ Terminated \/ UNCHANGED vars
      PROVE  UNCHANGED Abstract!vars
  <2>1. UNCHANGED <<status, tasksque, stopflag>> /\ (opc' = opc \/ (opc # "gone" /\ opc' # "gone"))
    BY <1>9, Zenon DEF OwnerNotify, OwnerNotifyAll, OwnerGet, WorkerWait, SpuriousWakeup,
                WorkerExit, WorkerNotify, Terminated, vars
  <2>. QED BY <2>1
<1>. QED
  BY <1>1, <1>2, <1>3, <1>4, <1>5, <1>6, <1>7, <1>8, <1>9
  DEF Next, OwnerCall, OwnerReturn, WorkerStep, Roots, Abstract!Next

(* The pool implements the safety part of the executor: the workers, the     *)
(* mutex and the condition variable of kata15_thread_pool.cpp add nothing to *)
(* and lose nothing from what an executor promises.                          *)
THEOREM Implements == SafeSpec => Abstract!SafeSpec
<1>1. Init => Abstract!Init BY DEF Init, Abstract!Init
<1>. QED BY <1>1, StepRefines, Invariance, PTL DEF SafeSpec, Abstract!SafeSpec

===============================================================================
