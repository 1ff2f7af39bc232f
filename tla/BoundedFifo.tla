----------------------------- MODULE BoundedFifo ------------------------------
(***************************************************************************)
(* What a bounded queue of items promises.  Items are numbered in the order *)
(* in which they enter.  Spec never loses an item; LossySpec lets a full    *)
(* queue displace its oldest item to admit a new one.                       *)
(***************************************************************************)
EXTENDS Naturals, Sequences

CONSTANT Capacity

VARIABLES contents,  \* the items in the queue, oldest first
          entered,   \* how many items have entered so far
          taken      \* the items taken out, in the order they left

vars == <<contents, entered, taken>>

Init == contents = <<>> /\ entered = 0 /\ taken = <<>>

Put ==
  /\ Len(contents) < Capacity
  /\ contents' = Append(contents, entered + 1)
  /\ entered' = entered + 1
  /\ UNCHANGED taken

Displace ==
  /\ Len(contents) = Capacity
  /\ contents' = Append(Tail(contents), entered + 1)
  /\ entered' = entered + 1
  /\ UNCHANGED taken

Get ==
  /\ contents # <<>>
  /\ taken' = Append(taken, Head(contents))
  /\ contents' = Tail(contents)
  /\ UNCHANGED entered

Spec == Init /\ [][Put \/ Get]_vars

LossySpec == Init /\ [][Put \/ Displace \/ Get]_vars
===============================================================================
