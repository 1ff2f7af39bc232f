------------------------------- MODULE CondVar --------------------------------
(* std::condition_variable as the code uses it: pc maps every thread to its  *)
(* program counter, and S is the set of threads that wait on this condition  *)
(* variable when their counter says "waiting".                               *)
EXTENDS Naturals, FiniteSets

Waiting(pc, S) == {t \in S : pc[t] = "waiting"}

(* notify_one: any one of the waiting threads wakes, or nobody does.         *)
NotifyOne(pc, S) ==
  IF Waiting(pc, S) = {} THEN {pc}
                         ELSE {[pc EXCEPT ![t] = "awake"] : t \in Waiting(pc, S)}

NotifyAll(pc, S) ==
  [t \in DOMAIN pc |-> IF t \in Waiting(pc, S) THEN "awake" ELSE pc[t]]

Number(pc, S, at) == Cardinality({t \in S : pc[t] = at})

(* While a thread of S sleeps, each of the n things it could go on with has  *)
(* a notification on its way from a thread of N, or a woken thread of S.     *)
Covered(pc, n, N, S) ==
  Waiting(pc, S) # {} => n <= Number(pc, N, "notify") + Number(pc, S, "awake")
===============================================================================
