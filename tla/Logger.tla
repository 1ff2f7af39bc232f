-------------------------------- MODULE Logger --------------------------------
(***************************************************************************)
(* kata04_logger.cpp: log() appends to m_queue under m_mutex and notifies;  *)
(* one worker moves the queue to a local one and writes it to a file without *)
(* the mutex.  The worker waits WITHOUT a predicate, stop() only sets an     *)
(* atomic flag, and the destructor joins the worker while it holds the       *)
(* mutex.  Messages are numbered in the order in which log() appends them.   *)
(***************************************************************************)
EXTENDS Naturals, Sequences, Functions

CONSTANTS Writers,       \* the threads running write_log_demo
          Messages,      \* how many messages each of them logs
          OpenOutcomes   \* whether kata.log can be opened: a subset of BOOLEAN

ASSUME LoggerAssumption ==
  /\ Messages \in [Writers -> Nat]
  /\ OpenOutcomes \in SUBSET BOOLEAN

VARIABLES queue,    \* m_queue
          local,    \* local_queue of processLogs
          stopped,  \* m_stopped
          wpc,      \* worker: open, lock, waiting, awake, writing, exited
          opc,      \* owner: run, stopped, joined, join (holds m_mutex), gone
          unlogged, \* per writer: messages still to log
          logged,   \* history: number of messages appended to m_queue
          written   \* the file

loggerVars == <<queue, local, stopped, wpc, opc, unlogged, logged, written>>

LoggerInit ==
  /\ queue = <<>> /\ local = <<>> /\ written = <<>>
  /\ stopped = FALSE /\ wpc = "open" /\ opc = "run"
  /\ unlogged = Messages /\ logged = 0

(* The destructor unlocks before it joins.                                   *)
MutexFree_InJoin == TRUE

(* Only the destructor keeps m_mutex across steps: it joins under the lock.  *)
MutexFree == opc # "join"

(* The condition variable has one waiter, the worker.                        *)
Notified == IF wpc = "waiting" THEN "awake" ELSE wpc

Log(c) ==
  /\ MutexFree /\ unlogged[c] > 0
  /\ queue' = Append(queue, logged + 1) /\ logged' = logged + 1
  /\ unlogged' = [unlogged EXCEPT ![c] = @ - 1]
  /\ wpc' = Notified
  /\ UNCHANGED <<local, stopped, opc, written>>

WorkerOpen ==
  /\ wpc = "open"
  /\ \E ok \in OpenOutcomes : wpc' = IF ok THEN "lock" ELSE "exited"
  /\ UNCHANGED <<queue, local, stopped, opc, unlogged, logged, written>>

(* The worker waits although messages may be queued already.                 *)
WorkerWait ==
  /\ wpc = "lock" /\ MutexFree /\ ~stopped
  /\ wpc' = "waiting"
  /\ UNCHANGED <<queue, local, stopped, opc, unlogged, logged, written>>

(* The worker leaves as soon as it sees the flag.                            *)
WorkerExit_NoDrain ==
  /\ wpc = "lock" /\ MutexFree /\ stopped
  /\ wpc' = "exited"
  /\ UNCHANGED <<queue, local, stopped, opc, unlogged, logged, written>>

(* A worker that sees the flag writes what is queued, with the mutex held.   *)
WorkerExit ==
  /\ wpc = "lock" /\ MutexFree /\ stopped
  /\ written' = written \o queue /\ queue' = <<>>
  /\ wpc' = "exited"
  /\ UNCHANGED <<local, stopped, opc, unlogged, logged>>

SpuriousWakeup ==
  /\ wpc = "waiting"
  /\ wpc' = "awake"
  /\ UNCHANGED <<queue, local, stopped, opc, unlogged, logged, written>>

(* The queue is copied, not swapped.                                         *)
WorkerSwap_Copies ==
  /\ wpc = "awake" /\ MutexFree
  /\ local' = queue
  /\ wpc' = "writing"
  /\ UNCHANGED <<queue, stopped, opc, unlogged, logged, written>>

WorkerSwap ==
  /\ wpc = "awake" /\ MutexFree
  /\ local' = queue /\ queue' = <<>>
  /\ wpc' = "writing"
  /\ UNCHANGED <<stopped, opc, unlogged, logged, written>>

WorkerWrite ==
  /\ wpc = "writing" /\ local # <<>>
  /\ written' = Append(written, Head(local)) /\ local' = Tail(local)
  /\ UNCHANGED <<queue, stopped, wpc, opc, unlogged, logged>>

WorkerWritten ==
  /\ wpc = "writing" /\ local = <<>>
  /\ wpc' = "lock"
  /\ UNCHANGED <<queue, local, stopped, opc, unlogged, logged, written>>

(* stop(): the flag is set, nobody is notified.                              *)
OwnerStop ==
  /\ opc = "run"
  /\ stopped' = TRUE /\ opc' = "stopped"
  /\ UNCHANGED <<queue, local, wpc, unlogged, logged, written>>

OwnerJoinsClients ==
  /\ opc = "stopped" /\ \A c \in Writers : unlogged[c] = 0
  /\ opc' = "joined"
  /\ UNCHANGED <<queue, local, stopped, wpc, unlogged, logged, written>>

(* ~Logger up to the join: stop() again, lock, notify_all.                   *)
OwnerDestroys ==
  /\ opc = "joined" /\ MutexFree
  /\ stopped' = TRUE /\ wpc' = Notified /\ opc' = "join"
  /\ UNCHANGED <<queue, local, unlogged, logged, written>>

OwnerJoinsWorker ==
  /\ opc = "join" /\ wpc = "exited"
  /\ opc' = "gone"
  /\ UNCHANGED <<queue, local, stopped, wpc, unlogged, logged, written>>

Worker ==
  \/ WorkerOpen \/ WorkerWait \/ WorkerExit
  \/ WorkerSwap \/ WorkerWrite \/ WorkerWritten

Owner == OwnerStop \/ OwnerJoinsClients \/ OwnerDestroys \/ OwnerJoinsWorker

LoggerNext == Worker \/ SpuriousWakeup \/ Owner \/ \E c \in Writers : Log(c)

LoggerSafeSpec == LoggerInit /\ [][LoggerNext]_loggerVars

(* When to stop is the owner's choice; otherwise every thread keeps running, *)
(* and m_mutex is granted to a thread that asks for it again and again.      *)
LoggerSpec ==
  /\ LoggerSafeSpec /\ SF_loggerVars(Worker)
  /\ WF_loggerVars(OwnerJoinsClients) /\ WF_loggerVars(OwnerDestroys)
  /\ WF_loggerVars(OwnerJoinsWorker)
  /\ \A c \in Writers : SF_loggerVars(Log(c))
-------------------------------------------------------------------------------
LoggerTypeOK ==
  /\ queue \in Seq(Nat) /\ local \in Seq(Nat) /\ written \in Seq(Nat)
  /\ stopped \in BOOLEAN /\ logged \in Nat
  /\ wpc \in {"open", "lock", "waiting", "awake", "writing", "exited"}
  /\ opc \in {"run", "stopped", "joined", "join", "gone"}
  /\ unlogged \in [Writers -> Nat]
  /\ local # <<>> => wpc = "writing"

(* The file, what the worker holds and m_queue together are the messages in  *)
(* the order in which log() accepted them: none is lost, doubled or passed   *)
(* by a later one, although the worker writes without the mutex.             *)
WrittenInOrder == written \o local \o queue = [i \in 1..logged |-> i]

(* A log() that finds the worker asleep gets its message to the file, and so *)
(* does every one made before the worker takes the mutex and sees the flag   *)
(* of stop(), since it drains the queue then; unless the destructor takes    *)
(* the mutex before the worker does, which is then still in its loop.        *)
WokenIsWritten ==
  \A n \in 1..SumFunction(Messages) :
    (wpc = "awake" \/ (wpc = "lock" /\ stopped)) /\ logged >= n
      ~> Len(written) >= n \/ (opc = "join" /\ wpc # "exited")

(* The destructor keeps m_mutex while it joins, and the worker cannot leave  *)
(* its loop without it: a worker that is still in the loop when the          *)
(* destructor has the mutex is never joined.                                 *)
JoinUnderLockIsFinal ==
  [](opc = "join" /\ wpc \notin {"open", "exited"} => [](opc = "join"))

(* What condition_variable.md prescribes for every wait, the condition is    *)
(* tested first: the worker never sleeps on a queue that holds messages.     *)
SleepsOnlyWhenEmpty == wpc = "waiting" => queue = <<>>
===============================================================================
