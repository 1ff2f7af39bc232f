------------------------------- MODULE MCLogger -------------------------------
(* Two writers that log two and one messages.                                *)
EXTENDS Logger, TLC

CONSTANTS c1, c2

MCMessages == c1 :> 2 @@ c2 :> 1
===============================================================================
