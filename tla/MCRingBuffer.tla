----------------------------- MODULE MCRingBuffer -----------------------------
(* Two producers and two consumers over two slots, with more calls to        *)
(* enqueue than to dequeue.                                                  *)
EXTENDS RingBuffer, TLC

CONSTANTS p1, p2, c1, c2

MCCalls == p1 :> 3 @@ p2 :> 3 @@ c1 :> 2 @@ c2 :> 1
===============================================================================
