------------------------------ MODULE ThreadPool ------------------------------
(***************************************************************************)
(* kata15_thread_pool.cpp: a pool of workers over one queue of tasks,       *)
(* guarded by m_tasksque_mutex and the condition variable m_condition.      *)
(* Every critical section is one action.  The notify calls come after the   *)
(* unlock, so each is an action of its own.  The owner thread submits       *)
(* tasks, collects futures and destroys the pool; a task that runs on a     *)
(* worker may submit its Children before it returns.                        *)
(***************************************************************************)
EXTENDS Naturals, Sequences, CondVar

CONSTANTS Workers,   \* m_workerTDvec
          Tasks,     \* everything anybody may pass to addWorkFunc
          Children,  \* the tasks a task submits while it runs
          NoTask

ASSUME PoolAssumption ==
  /\ Workers # {}
  /\ Children \in [Tasks -> SUBSET Tasks]
  /\ NoTask \notin Tasks

VARIABLES tasksque,  \* m_tasksque
          stopflag,  \* m_stopflag
          wpc,       \* worker: awake, waiting, running, notify, exited
          wtask,     \* the local variable task of a worker
          opc,       \* owner: work, notify, get, stopping, joining, gone
          want,      \* the task whose future the owner is blocked on
          status,    \* per task: new, queued, running, ready, taken, refused
          accepted,  \* history: tasks in the order addWorkFunc queued them
          started    \* history: tasks in the order workers took them

vars == <<tasksque, stopflag, wpc, wtask, opc, want, status, accepted, started>>

Roots == {t \in Tasks : \A p \in Tasks : t \notin Children[p]}

Init ==
  /\ tasksque = <<>> /\ stopflag = FALSE
  /\ wpc = [w \in Workers |-> "awake"]
  /\ wtask = [w \in Workers |-> NoTask]
  /\ opc = "work" /\ want = NoTask
  /\ status = [t \in Tasks |-> "new"]
  /\ accepted = <<>> /\ started = <<>>

-------------------------------------------------------------------------------
(* The critical section of addWorkFunc when the pool is not stopped.        *)
Enqueue(t) ==
  /\ ~stopflag /\ status[t] = "new"
  /\ tasksque' = Append(tasksque, t)
  /\ status' = [status EXCEPT ![t] = "queued"]
  /\ accepted' = Append(accepted, t)

OwnerSubmit(t) ==
  /\ opc = "work" /\ Enqueue(t)
  /\ opc' = "notify"
  /\ UNCHANGED <<stopflag, wpc, wtask, want, started>>

OwnerNotify ==
  /\ opc = "notify"
  /\ opc' = "work"
  /\ wpc' \in NotifyOne(wpc, Workers)
  /\ UNCHANGED <<tasksque, stopflag, wtask, want, status, accepted, started>>

(* future::get blocks until the packaged task has stored its result.        *)
OwnerGet(t) ==
  /\ opc = "work" /\ status[t] \in {"queued", "running", "ready"}
  /\ opc' = "get" /\ want' = t
  /\ UNCHANGED <<tasksque, stopflag, wpc, wtask, status, accepted, started>>

OwnerGot ==
  /\ opc = "get" /\ status[want] = "ready"
  /\ status' = [status EXCEPT ![want] = "taken"]
  /\ opc' = "work" /\ want' = NoTask
  /\ UNCHANGED <<tasksque, stopflag, wpc, wtask, accepted, started>>

(* The three parts of ~ThreadPool: set the flag under the mutex, notify all *)
(* after the unlock, join every worker.                                     *)
OwnerStop ==
  /\ opc = "work"
  /\ opc' = "stopping" /\ stopflag' = TRUE
  /\ UNCHANGED <<tasksque, wpc, wtask, want, status, accepted, started>>

OwnerNotifyAll_OnlyOne ==
  /\ opc = "stopping"
  /\ opc' = "joining" /\ wpc' \in NotifyOne(wpc, Workers)
  /\ UNCHANGED <<tasksque, stopflag, wtask, want, status, accepted, started>>

OwnerNotifyAll ==
  /\ opc = "stopping"
  /\ opc' = "joining" /\ wpc' = NotifyAll(wpc, Workers)
  /\ UNCHANGED <<tasksque, stopflag, wtask, want, status, accepted, started>>

OwnerJoined_First ==
  /\ opc = "joining" /\ \E w \in Workers : wpc[w] = "exited"
  /\ opc' = "gone"
  /\ UNCHANGED <<tasksque, stopflag, wpc, wtask, want, status, accepted, started>>

OwnerJoined ==
  /\ opc = "joining" /\ \A w \in Workers : wpc[w] = "exited"
  /\ opc' = "gone"
  /\ UNCHANGED <<tasksque, stopflag, wpc, wtask, want, status, accepted, started>>

-------------------------------------------------------------------------------
WorkerWait_NoPredicate(w) ==
  /\ wpc[w] = "awake"
  /\ wpc' = [wpc EXCEPT ![w] = "waiting"]
  /\ UNCHANGED <<tasksque, stopflag, wtask, opc, want, status, accepted, started>>

(* The wait of the worker loop: its predicate is false.                     *)
WorkerWait(w) ==
  /\ wpc[w] = "awake" /\ ~stopflag /\ tasksque = <<>>
  /\ wpc' = [wpc EXCEPT ![w] = "waiting"]
  /\ UNCHANGED <<tasksque, stopflag, wtask, opc, want, status, accepted, started>>

(* A condition variable may wake a thread nobody notified.                  *)
SpuriousWakeup(w) ==
  /\ wpc[w] = "waiting"
  /\ wpc' = [wpc EXCEPT ![w] = "awake"]
  /\ UNCHANGED <<tasksque, stopflag, wtask, opc, want, status, accepted, started>>

WorkerExit(w) ==
  /\ wpc[w] = "awake" /\ stopflag /\ tasksque = <<>>
  /\ wpc' = [wpc EXCEPT ![w] = "exited"]
  /\ UNCHANGED <<tasksque, stopflag, wtask, opc, want, status, accepted, started>>

WorkerTake_NoPop(w) ==
  /\ wpc[w] = "awake" /\ tasksque # <<>>
  /\ wpc' = [wpc EXCEPT ![w] = "running"]
  /\ wtask' = [wtask EXCEPT ![w] = Head(tasksque)]
  /\ status' = [status EXCEPT ![Head(tasksque)] = "running"]
  /\ started' = Append(started, Head(tasksque))
  /\ UNCHANGED <<tasksque, stopflag, opc, want, accepted>>

WorkerTake(w) ==
  /\ wpc[w] = "awake" /\ tasksque # <<>>
  /\ wpc' = [wpc EXCEPT ![w] = "running"]
  /\ wtask' = [wtask EXCEPT ![w] = Head(tasksque)]
  /\ tasksque' = Tail(tasksque)
  /\ status' = [status EXCEPT ![Head(tasksque)] = "running"]
  /\ started' = Append(started, Head(tasksque))
  /\ UNCHANGED <<stopflag, opc, want, accepted>>

(* The running task calls addWorkFunc.                                      *)
WorkerSubmit(w, c) ==
  /\ wpc[w] = "running" /\ c \in Children[wtask[w]] /\ Enqueue(c)
  /\ wpc' = [wpc EXCEPT ![w] = "notify"]
  /\ UNCHANGED <<stopflag, wtask, opc, want, started>>

WorkerNotify(w) ==
  /\ wpc[w] = "notify"
  /\ wpc' \in NotifyOne([wpc EXCEPT ![w] = "running"], Workers)
  /\ UNCHANGED <<tasksque, stopflag, wtask, opc, want, status, accepted, started>>

(* addWorkFunc throws out of the running task; its packaged_task stores the *)
(* exception as the result and the worker goes on.                          *)
WorkerRefused(w, c) ==
  /\ wpc[w] = "running" /\ c \in Children[wtask[w]]
  /\ stopflag /\ status[c] = "new"
  /\ status' = [status EXCEPT ![c] = "refused", ![wtask[w]] = "ready"]
  /\ wpc' = [wpc EXCEPT ![w] = "awake"]
  /\ wtask' = [wtask EXCEPT ![w] = NoTask]
  /\ UNCHANGED <<tasksque, stopflag, opc, want, accepted, started>>

WorkerFinish(w) ==
  /\ wpc[w] = "running" /\ \A c \in Children[wtask[w]] : status[c] # "new"
  /\ status' = [status EXCEPT ![wtask[w]] = "ready"]
  /\ wpc' = [wpc EXCEPT ![w] = "awake"]
  /\ wtask' = [wtask EXCEPT ![w] = NoTask]
  /\ UNCHANGED <<tasksque, stopflag, opc, want, accepted, started>>

WorkerStep(w) ==
  \/ WorkerWait(w) \/ WorkerExit(w) \/ WorkerTake(w)
  \/ WorkerNotify(w) \/ WorkerFinish(w)
  \/ \E c \in Tasks : WorkerSubmit(w, c) \/ WorkerRefused(w, c)

(* What the owner does next is its own choice, except that it finishes the  *)
(* call it is in.                                                           *)
OwnerCall ==
  \/ \E t \in Roots : OwnerSubmit(t) \/ OwnerGet(t)
  \/ OwnerStop

OwnerReturn == OwnerNotify \/ OwnerGot \/ OwnerNotifyAll \/ OwnerJoined

Terminated == opc = "gone" /\ UNCHANGED vars

Next ==
  \/ OwnerCall \/ OwnerReturn
  \/ \E w \in Workers : WorkerStep(w) \/ SpuriousWakeup(w)
  \/ Terminated

Fairness == WF_vars(OwnerReturn) /\ \A w \in Workers : WF_vars(WorkerStep(w))

SafeSpec == Init /\ [][Next]_vars

Spec == SafeSpec /\ Fairness
-------------------------------------------------------------------------------
TypeOK ==
  /\ tasksque \in Seq(Tasks)
  /\ stopflag \in BOOLEAN
  /\ wpc \in [Workers -> {"awake", "waiting", "running", "notify", "exited"}]
  /\ wtask \in [Workers -> Tasks \cup {NoTask}]
  /\ opc \in {"work", "notify", "get", "stopping", "joining", "gone"}
  /\ want \in Tasks \cup {NoTask}
  /\ status \in [Tasks -> {"new", "queued", "running", "ready", "taken", "refused"}]
  /\ accepted \in Seq(Tasks) /\ started \in Seq(Tasks)

(* Every task is in one place: it is queued exactly when it is in the queue, *)
(* at one position, and running exactly when one worker holds it.  So no     *)
(* task is dropped between pop and run, and none is run by two workers.      *)
OnePlace ==
  /\ \A t \in Tasks : status[t] = "queued" <=> \E i \in DOMAIN tasksque : tasksque[i] = t
  /\ \A i, j \in DOMAIN tasksque : tasksque[i] = tasksque[j] => i = j
  /\ \A w \in Workers : wpc[w] \in {"running", "notify"} => 
        wtask[w] \in Tasks /\ status[wtask[w]] = "running"
  /\ \A t \in Tasks : status[t] = "running" => 
        \E w \in Workers : wpc[w] \in {"running", "notify"} /\ wtask[w] = t
  /\ \A v, w \in Workers : wtask[v] = wtask[w] /\ wtask[v] # NoTask => v = w

(* No wakeup is lost.  A queued task has somebody who will see it: a worker  *)
(* that is awake, or the owner about to notify; and once the destructor      *)
(* joins, no worker sleeps.                                                  *)
NoLostWakeup ==
  /\ tasksque # <<>> =>
       \/ opc = "notify"
       \/ \E w \in Workers : wpc[w] \in {"awake", "running", "notify"}
  /\ opc \in {"joining", "gone"} => Waiting(wpc, Workers) = {}

(* Tasks are started in the order in which addWorkFunc accepted them.        *)
StartedInOrder == accepted = started \o tasksque

(* The destructor returns only when every accepted task has run: stopping    *)
(* drains the queue, it does not drop it.                                    *)
DrainedWhenGone ==
  opc = "gone" => /\ tasksque = <<>>
                  /\ \A t \in Tasks : status[t] \notin {"queued", "running"}

(* Once the stop flag is set nothing more is accepted.                       *)
NoAcceptAfterStop == [][stopflag => accepted' = accepted]_vars

(* A blocked get returns and the destructor returns.                         *)
OwnerNeverStuck == opc \in {"get", "stopping"} ~> opc \in {"work", "gone"}

(* The pool implements the executor.                                         *)
Abstract == INSTANCE Executor WITH
  pending <- tasksque,
  phase <- IF opc = "gone" THEN "closed" ELSE IF stopflag THEN "closing" ELSE "open"

ImplementsExecutor == Abstract!Spec
===============================================================================
