--------------------------- MODULE MCBlockingQueue ----------------------------
(* Two producers and two consumers over two places, with more calls to       *)
(* dequeue than to enqueue.                                                  *)
EXTENDS BlockingQueue, TLC

CONSTANTS p1, p2, c1, c2

MCCalls == p1 :> 2 @@ p2 :> 2 @@ c1 :> 3 @@ c2 :> 2
===============================================================================
