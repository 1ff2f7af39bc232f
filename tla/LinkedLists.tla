----------------------------- MODULE LinkedLists ------------------------------
(***************************************************************************)
(* The singly linked list katas: reverseList, reverseListRecursive and       *)
(* reverseBetween (kata11), has_cycle, detect_cycle, find_middle_point and   *)
(* find_last_n_point (kata108) and isPalindrome (kata109).  The list is      *)
(* 1 -> 2 -> ... -> N, its last node followed by tail: Null, or for the two  *)
(* cycle functions any node.                                                 *)
(***************************************************************************)
EXTENDS KataBounds, Sequences

VARIABLE s   \* fn, N, tail, val, m, k: the call
             \* next: the heap, node -> node
             \* prev, slow, fast, i: the local variables; pc: the loop; result

Null == 0
Dummy == MaxNodes + 1

Head1(n) == IF n = 0 THEN Null ELSE 1

(* The list that build_list makes; the function's first loop has its name.   *)
Frame(fn, n, tail, val, m, k) ==
  [fn |-> fn, N |-> n, tail |-> tail, val |-> val, m |-> m, k |-> k,
   next |-> [p \in 1..Dummy |-> CASE p = Dummy -> Head1(n) [] p < n -> p + 1 [] OTHER -> tail],
   prev |-> IF fn = "between" THEN Dummy ELSE Null, slow |-> Head1(n), fast |-> Head1(n),
   i |-> 1, pc |-> fn, result |-> Null]

Calls ==
  UNION {
    {Frame(fn, n, Null, <<>>, 0, 0) : fn \in {"reverse", "recursive", "middle"}}
    \cup {Frame("between", n, Null, <<>>, p[1], p[2]) : p \in {q \in (1..n) \X (1..n) : q[1] <= q[2]}}
    \cup {Frame(fn, n, t, <<>>, 0, 0) : fn \in {"has_cycle", "detect_cycle"}, t \in 0..n}
    \cup {Frame("lastn", n, Null, <<>>, 0, k) : k \in 0..(MaxNodes + 1)}
    \cup {Frame("palindrome", n, Null, v, 0, 0) : v \in [1..n -> {1, 2}]} : n \in 0..MaxNodes}

head == Head1(s.N)

Return(r) == s' = [s EXCEPT !.result = r, !.pc = "done"]

-------------------------------------------------------------------------------
(* temp: what follows p, read before p is turned round.                      *)
After(p) == s.next[p]

reverseList ==
  /\ s.pc = "reverse"
  /\ \/ /\ s.slow # Null
        /\ s' = [s EXCEPT !.next[s.slow] = s.prev, !.prev = s.slow, !.slow = After(s.slow)]
     \/ s.slow = Null /\ Return(s.prev)

RECURSIVE Recursive(_, _)
Recursive(heap, h) ==
  IF h = Null \/ heap[h] = Null THEN [heap |-> heap, head |-> h]
  ELSE LET r == Recursive(heap, heap[h])
       IN  [r EXCEPT !.heap = [[@ EXCEPT ![r.heap[h]] = h] EXCEPT ![h] = Null]]

reverseListRecursive ==
  /\ s.pc = "recursive"
  /\ LET r == Recursive(s.next, head)
     IN  s' = [s EXCEPT !.next = r.heap, !.result = r.head, !.pc = "done"]

(* prev goes to the node before the m-th; then start (slow) and then (fast). *)
reverseBetween ==
  /\ s.pc = "between"
  /\ \/ (head = Null \/ s.m = s.k) /\ Return(head)
     \/ /\ head # Null /\ s.m # s.k /\ s.i < s.m
        /\ s' = [s EXCEPT !.prev = s.next[s.prev], !.i = s.i + 1]
     \/ /\ head # Null /\ s.m # s.k /\ s.i = s.m
        /\ s' = [s EXCEPT !.slow = s.next[s.prev], !.fast = s.next[s.next[s.prev]],
                          !.i = 0, !.pc = "splice"]

Splices_Short == s.k - s.m - 1

Splices == s.k - s.m

Splice ==
  /\ s.pc = "splice"
  /\ \/ /\ s.i < Splices /\ s.fast # Null
        /\ s' = [s EXCEPT !.next = [@ EXCEPT ![s.slow] = s.next[s.fast],
                                             ![s.fast] = s.next[s.prev], ![s.prev] = s.fast],
                          !.fast = s.next[s.fast], !.i = s.i + 1]
     \/ s.i >= Splices /\ Return(s.next[Dummy])

-------------------------------------------------------------------------------
AtEnd == s.fast # Null => s.next[s.fast] = Null

Chased == [s EXCEPT !.fast = s.next[s.next[s.fast]], !.slow = s.next[s.slow]]

(* TRUE is 1.                                                                *)
has_cycle ==
  /\ s.pc = "has_cycle"
  /\ \/ AtEnd /\ Return(0)
     \/ ~AtEnd /\ s' = IF Chased.fast = Chased.slow
                       THEN [Chased EXCEPT !.result = 1, !.pc = "done"] ELSE Chased

Restart_BehindHead == s.next[head]

Restart == head

(* When the pointers meet the loop is left and fast starts again at head.    *)
detect_cycle ==
  /\ s.pc = "detect_cycle"
  /\ \/ AtEnd /\ Return(Null)
     \/ ~AtEnd /\ s' = IF Chased.fast = Chased.slow
                       THEN [Chased EXCEPT !.fast = Restart, !.pc = "meet"] ELSE Chased

Meet ==
  /\ s.pc = "meet"
  /\ \/ s.fast # s.slow /\ s' = [s EXCEPT !.fast = s.next[s.fast], !.slow = s.next[s.slow]]
     \/ s.fast = s.slow /\ Return(s.fast)

find_middle_point ==
  s.pc = "middle" /\ (IF AtEnd THEN Return(s.slow) ELSE s' = Chased)

(* i counts the moves of fast alone: n of them, if there are so many nodes.  *)
Ahead == s.i <= s.k

find_last_n_point ==
  /\ s.pc = "lastn"
  /\ \/ /\ s.fast # Null
        /\ s' = IF Ahead THEN [s EXCEPT !.fast = s.next[s.fast], !.i = s.i + 1]
                ELSE [s EXCEPT !.fast = s.next[s.fast], !.slow = s.next[s.slow]]
     \/ s.fast = Null /\ Return(s.slow)

(* The middle node of a list of odd length belongs to neither half.          *)
SecondHalf == IF s.fast = Null THEN s.slow ELSE s.next[s.slow]

(* The first half is reversed while fast looks for the end.                  *)
isPalindrome ==
  /\ s.pc = "palindrome"
  /\ \/ ~AtEnd /\ s' = [Chased EXCEPT !.next[s.slow] = s.prev, !.prev = s.slow]
     \/ AtEnd /\ s' = [s EXCEPT !.slow = SecondHalf, !.pc = "compare"]

Compare ==
  /\ s.pc = "compare"
  /\ \/ s.slow = Null /\ Return(1)
     \/ s.slow # Null /\ s.prev # Null /\ s.val[s.slow] # s.val[s.prev] /\ Return(0)
     \/ /\ s.slow # Null /\ s.prev # Null /\ s.val[s.slow] = s.val[s.prev]
        /\ s' = [s EXCEPT !.prev = s.next[s.prev], !.slow = s.next[s.slow]]

Next ==
  \/ reverseList \/ reverseListRecursive \/ reverseBetween \/ Splice
  \/ has_cycle \/ detect_cycle \/ Meet \/ find_middle_point \/ find_last_n_point
  \/ isPalindrome \/ Compare

Done == s.pc = "done"
-------------------------------------------------------------------------------
(* The nodes from p on, at most n of them.                                   *)
RECURSIVE Chain(_, _)
Chain(p, n) == IF p = Null \/ n = 0 THEN <<>> ELSE <<p>> \o Chain(s.next[p], n - 1)

From(p) == Chain(p, s.N + 1)
Up(a, b) == [j \in 1..(b - a + 1) |-> a + j - 1]
Down(a, b) == [j \in 1..(a - b + 1) |-> a - j + 1]

(* Both reversals return all nodes in the opposite order; reverseBetween     *)
(* turns the m-th to the n-th node round and leaves the others where they    *)
(* are, also when m is the first node or n the last.                         *)
ReverseRight ==
  Done => /\ s.fn \in {"reverse", "recursive"} => From(s.result) = Down(s.N, 1)
          /\ s.fn = "between" =>
               From(s.result) = Up(1, s.m - 1) \o Down(s.k, s.m) \o Up(s.k + 1, s.N)

(* At every moment every node hangs on one of the pointers held: between two *)
(* turns of reverseList the list is in two parts, while reverseBetween       *)
(* splices it is in one.                                                     *)
NoNodeLost ==
  /\ s.pc = "reverse" =>
       LET done == IF s.slow = Null THEN s.N ELSE s.slow - 1
       IN  From(s.prev) = Down(done, 1) /\ From(s.slow) = Up(done + 1, s.N)
  /\ s.pc = "splice" =>
       From(s.next[Dummy]) = Up(1, s.m - 1) \o Down(s.m + s.i, s.m) \o Up(s.m + s.i + 1, s.N)

(* has_cycle tells whether there is a cycle; detect_cycle returns the node   *)
(* where it begins, however long the way to it and the cycle are.            *)
CycleRight ==
  Done => /\ s.fn = "has_cycle" => s.result = IF s.tail = Null THEN 0 ELSE 1
          /\ s.fn = "detect_cycle" => s.result = s.tail

(* The middle node (the second of two), and the n-th node from the end or    *)
(* the first when there are fewer.                                           *)
PointsRight ==
  Done => /\ s.fn = "middle" => s.result = IF s.N = 0 THEN Null ELSE s.N \div 2 + 1
          /\ s.fn = "lastn" =>
               s.result = CASE s.k = 0 -> Null [] s.k >= s.N -> head [] OTHER -> s.N - s.k + 1

(* isPalindrome tells whether the values read the same from both ends.       *)
PalindromeRight ==
  Done /\ s.fn = "palindrome" =>
    (s.result = 1 <=> \A j \in 1..s.N : s.val[j] = s.val[s.N + 1 - j])
===============================================================================
