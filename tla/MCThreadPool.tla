----------------------------- MODULE MCThreadPool -----------------------------
(* Two workers; a root task that submits two children, and a second root    *)
(* with none.                                                               *)
EXTENDS ThreadPool, TLC

CONSTANTS w1, w2, a, b, c, d

MCWorkers == {w1, w2}
MCTasks == {a, b, c, d}
MCChildren == (a :> {c, d}) @@ (b :> {}) @@ (c :> {}) @@ (d :> {})
===============================================================================
