------------------------------- MODULE Executor -------------------------------
(***************************************************************************)
(* What a thread pool promises, with no worker, mutex or condition          *)
(* variable in sight: accepted tasks are started in the order they were     *)
(* accepted, each runs once and leaves a result, nothing is accepted once   *)
(* the pool is closing, and the pool is closed only when it is drained.     *)
(***************************************************************************)
EXTENDS Naturals, Sequences

CONSTANT Tasks

VARIABLES status,   \* where every task is in its life
          pending,  \* accepted tasks not started yet, oldest first
          phase     \* of the executor: open, closing, closed

vars == <<status, pending, phase>>

Init ==
  /\ status = [t \in Tasks |-> "new"]
  /\ pending = <<>>
  /\ phase = "open"

Accept(t) ==
  /\ phase = "open" /\ status[t] = "new"
  /\ status' = [status EXCEPT ![t] = "queued"]
  /\ pending' = Append(pending, t)
  /\ UNCHANGED phase

(* A running task that submits to a closing executor fails: its own result  *)
(* is the exception, and the submitted task never existed.                  *)
Refuse(t, parent) ==
  /\ phase = "closing" /\ status[t] = "new" /\ status[parent] = "running"
  /\ status' = [status EXCEPT ![t] = "refused", ![parent] = "ready"]
  /\ UNCHANGED <<pending, phase>>

Start ==
  /\ pending # <<>>
  /\ status' = [status EXCEPT ![Head(pending)] = "running"]
  /\ pending' = Tail(pending)
  /\ UNCHANGED phase

Complete(t) ==
  /\ status[t] = "running"
  /\ status' = [status EXCEPT ![t] = "ready"]
  /\ UNCHANGED <<pending, phase>>

Collect(t) ==
  /\ phase = "open" /\ status[t] = "ready"
  /\ status' = [status EXCEPT ![t] = "taken"]
  /\ UNCHANGED <<pending, phase>>

Close ==
  /\ phase = "open"
  /\ phase' = "closing"
  /\ UNCHANGED <<status, pending>>

Closed ==
  /\ phase = "closing" /\ pending = <<>>
  /\ \A t \in Tasks : status[t] # "running"
  /\ phase' = "closed"
  /\ UNCHANGED <<status, pending>>

Next ==
  \/ \E t \in Tasks : Accept(t) \/ Complete(t) \/ Collect(t)
  \/ \E t, parent \in Tasks : Refuse(t, parent)
  \/ Start \/ Close \/ Closed

(* A task taken off the queue is run, and a closing executor closes.        *)
Liveness ==
  /\ WF_vars(Start) /\ WF_vars(Closed)
  /\ \A t \in Tasks : WF_vars(Complete(t) \/ \E c \in Tasks : Refuse(c, t))

SafeSpec == Init /\ [][Next]_vars

Spec == SafeSpec /\ Liveness
===============================================================================
