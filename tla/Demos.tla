-------------------------------- MODULE Demos ---------------------------------
(***************************************************************************)
(* The buckets and the demos with several threads or processes.  A behaviour *)
(* starts one of the programs and stays with it; they share nothing.         *)
(***************************************************************************)
EXTENDS ProgramBounds

VARIABLE s    \* the state of the program that runs; s.program is its name

Bucket == INSTANCE Buckets
Queues == INSTANCE QueueDemos
Apr    == INSTANCE AprDemos
Forks  == INSTANCE ForkServer

DemoInit ==
  \/ s \in Bucket!Starts \/ s \in Queues!Starts
  \/ s \in Apr!CounterStarts \/ s \in Apr!EchoStarts \/ s \in Forks!Starts

DemoNext == Bucket!Next \/ Queues!Next \/ Apr!CounterNext \/ Apr!EchoNext \/ Forks!Next

DemoSpec == DemoInit /\ [][DemoNext]_s
-------------------------------------------------------------------------------
(* In whatever interval a token bucket grants no more than its capacity and  *)
(* what the rate gives for that interval, and, since it starts empty, over   *)
(* its life no more than the rate; a leaky bucket never grants more than its *)
(* first filling.  All this although every refill and leak is rounded, for   *)
(* the token bucket even when the product of time and rate overflows, for    *)
(* the leaky one as long as it does not.                                     *)
BucketBounds ==
  Bucket!Running =>
    Bucket!TokensInRange /\ Bucket!BurstBound /\ Bucket!LongRunBound /\ Bucket!Accounting

(* What the demos with two or more threads print is complete: the lock-free  *)
(* queue demo pops every number once, also when a consumer tests done just   *)
(* before it is set; the sum of the other queue demo is complete wherever    *)
(* its consumer stopped; the APR counters lose no increment, are printed     *)
(* after both threads and, unless a call failed, outlive them; the APR echo  *)
(* is a prefix of the message however TCP cuts it, and ok is printed only if *)
(* some of it came back; the forking server forgets no dead child though     *)
(* signals may become one, and leaves a client without an answer only if     *)
(* fork failed.                                                              *)
DemosComplete ==
  /\ Queues!Running => /\ Queues!ValuesDistinct /\ Queues!AllConsumed
                       /\ Queues!SumAndQueue /\ Queues!SumIsComplete
  /\ Apr!Counting => Apr!NoLostIncrement /\ Apr!SharedOutlivesThreads
  /\ Apr!Echoing => Apr!EchoIsPrefix /\ Apr!OkMeansEcho
  /\ Forks!Running => Forks!ZombiesNoticed /\ Forks!EndMeansNoChild

===============================================================================
