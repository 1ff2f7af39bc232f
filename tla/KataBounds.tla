------------------------------ MODULE KataBounds ------------------------------
(***************************************************************************)
(* The bounds of the katas' inputs.  Every kata module describes its         *)
(* functions as steps on a frame s, a record with the arguments and local    *)
(* variables of the running call: Calls is the set of frames a call starts   *)
(* with, Next is a step (one turn of a loop unless the module says           *)
(* otherwise) and Done says that the call has returned.  KataRunner puts the *)
(* katas together.                                                           *)
(***************************************************************************)
EXTENDS Integers

CONSTANTS Values, MaxLen,            \* elements and length of an array
          INT_MIN, INT_MAX,          \* stand below and above all Values
          Distinct,                  \* find_median gets no value twice
          MaxNodes,                  \* nodes of a list
          V, MaxEdges,               \* vertices and edges of a graph
          MaxInserts, MaxArray,      \* insertions into a tree; array of createTree
          Coins, MaxCoins, MaxAmount,
          Weights, Worths, MaxItems,
          MaxNumber,                 \* primes, Fibonacci numbers
          MaxPick,                   \* numbers to choose from
          Capacity, MaxPuts,         \* of an array container; items put into it
          Chars, MaxText             \* characters and length of a string

ASSUME ValuesAssumption == Values \subseteq Int /\ MaxLen \in Nat
===============================================================================
