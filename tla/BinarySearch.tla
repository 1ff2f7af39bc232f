----------------------------- MODULE BinarySearch -----------------------------
(***************************************************************************)
(* binary_search of kata_helper.cpp on a sorted array, indexed from 0, that  *)
(* may hold duplicates.                                                      *)
(***************************************************************************)
EXTENDS Integers

CONSTANTS Values, MaxLen    \* elements and length of an array

VARIABLE s

SortedArrays(n) == {a \in [0..(n - 1) -> Values] : \A i, j \in 0..(n - 1) : i < j => a[i] <= a[j]}

Calls ==
  UNION {{[n |-> n, arr |-> a, target |-> t, left |-> 0, right |-> n - 1,
           pc |-> "loop", result |-> -1] : a \in SortedArrays(n), t \in Values} : n \in 0..MaxLen}

Init == s \in Calls

Mid(left, right) == left + (right - left) \div 2

(* What is left to search when arr[mid] is too small; when it is too large.  *)
Above(mid) == mid + 1

Below(mid) == mid - 1

binary_search ==
  /\ s.pc = "loop"
  /\ LET mid == Mid(s.left, s.right) IN
     \/ s.left > s.right /\ s' = [s EXCEPT !.pc = "done"]
     \/ /\ s.left <= s.right /\ s.arr[mid] = s.target
        /\ s' = [s EXCEPT !.pc = "done", !.result = mid]
     \/ s.left <= s.right /\ s.arr[mid] < s.target /\ s' = [s EXCEPT !.left = Above(mid)]
     \/ s.left <= s.right /\ s.arr[mid] > s.target /\ s' = [s EXCEPT !.right = Below(mid)]

Next == binary_search

Done == s.pc = "done"

SafeSpec == Init /\ [][Next]_s
-------------------------------------------------------------------------------
(* The indices stay in or next to the array: mid is always inside it.        *)
TypeOK ==
  /\ s \in [n : 0..MaxLen, arr : UNION {SortedArrays(n) : n \in 0..MaxLen}, target : Values,
            left : 0..MaxLen, right : -1..MaxLen, pc : {"loop", "done"}, result : -1..MaxLen]
  /\ s.arr \in SortedArrays(s.n)
  /\ s.left <= s.right + 1 /\ s.right < s.n /\ s.result < s.n

(* Every occurrence of the target is still between left and right.           *)
Bracketed ==
  \A i \in 0..(s.n - 1) : s.arr[i] = s.target => s.left <= i /\ i <= s.right

(* The index returned holds the target; -1 is returned only for a target     *)
(* that is nowhere in the array.                                             *)
ResultRight ==
  s.pc = "done" => \/ s.result \in 0..(s.n - 1) /\ s.arr[s.result] = s.target
                   \/ s.result = -1 /\ \A i \in 0..(s.n - 1) : s.arr[i] # s.target

(* Each turn that does not return at least halves what is left to search.    *)
HalvesStep == s'.pc = "loop" => 2 * (s'.right - s'.left + 1) <= s.right - s.left + 1

Halves == [][HalvesStep]_s
===============================================================================
