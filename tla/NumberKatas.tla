----------------------------- MODULE NumberKatas -------------------------------
(***************************************************************************)
(* is_prime and sieveOfEratosthenes (kata10), twoSum and twoSumInSortedArr   *)
(* (kata101), addTwoNumbers (kata102) and find_min_max (kata103).  Arrays    *)
(* are indexed from 0, lists of digits are sequences.                        *)
(***************************************************************************)
EXTENDS KataBounds, Sequences, SequencesExt, FiniteSetsExt

VARIABLE s   \* fn, a, b, n: the call; i, j: loop variables or indices
             \* aux: sieve, map of twoSum, or digits so far; carry; pc, result

Frame(fn, a, b, n, i, j, aux) ==
  [fn |-> fn, a |-> a, b |-> b, n |-> n, i |-> i, j |-> j, aux |-> aux, carry |-> 0,
   pc |-> "loop", result |-> <<>>]

Arrays == UNION {[0..(n - 1) -> Values] : n \in 0..(MaxLen - 1)}
Length(f) == Cardinality(DOMAIN f)
Nondecreasing(f) == \A x, y \in DOMAIN f : x < y => f[x] <= f[y]
Digits == UNION {[1..n -> {0, 4, 9}] : n \in 0..(MaxLen - 2)}

Calls ==
  {Frame("prime", <<>>, <<>>, n, 2, 0, <<>>) : n \in 0..MaxNumber}
  \cup {Frame("sieve", <<>>, <<>>, n, 2, 0, [k \in 0..n |-> k > 1]) : n \in 1..MaxNumber}
  \cup {Frame("twoSum", a, <<>>, n, 0, 0, <<>>) : a \in Arrays, n \in 2..6}
  \cup {Frame("sorted", a, <<>>, n, 0, Length(a) - 1, <<>>) :
          a \in {f \in Arrays : Nondecreasing(f)}, n \in 2..6}
  \cup {Frame("add", a, b, 0, 1, 0, <<>>) : a \in Digits, b \in Digits}
  \cup {Frame("minmax", a, <<>>, 0, 0, Length(a) - 1, <<>>) : a \in {f \in Arrays : f # <<>>}}

Running(fn) == s.pc = "loop" /\ s.fn = fn
Return(r) == s' = [s EXCEPT !.pc = "done", !.result = r]

-------------------------------------------------------------------------------
Square(k) == k * k <= s.n

is_prime ==
  /\ Running("prime")
  /\ \/ (s.n <= 1 \/ (Square(s.i) /\ s.n % s.i = 0)) /\ Return(FALSE)
     \/ s.n > 1 /\ Square(s.i) /\ s.n % s.i # 0 /\ s' = [s EXCEPT !.i = s.i + 1]
     \/ s.n > 1 /\ ~Square(s.i) /\ Return(TRUE)

(* What the inner loop strikes out.                                          *)
Struck(p) == {k \in 0..s.n : k >= p * p /\ k % p = 0}

(* A turn of the outer loop; when it is over the primes from m (here any) on *)
(* are collected.                                                            *)
sieveOfEratosthenes ==
  /\ Running("sieve")
  /\ \/ /\ s.i * s.i <= s.n
        /\ s' = [s EXCEPT !.i = s.i + 1,
                          !.aux = IF s.aux[s.i] THEN [k \in 0..s.n |-> @[k] /\ k \notin Struck(s.i)]
                                  ELSE @]
     \/ /\ s.i * s.i > s.n
        /\ \E m \in 0..s.n : s' = [s EXCEPT !.pc = "done", !.j = m, !.result =
             SelectSeq([k \in 1..s.n |-> k], LAMBDA k : k >= Max({m, 2}) /\ s.aux[k])]

-------------------------------------------------------------------------------
(* num_idx_map when nums[i] is looked up: the numbers before it.             *)
num_idx_map == {k \in DOMAIN s.a : k < s.i}

(* The map keeps the last index of a number.                                 *)
twoSum ==
  /\ Running("twoSum")
  /\ LET known == {k \in num_idx_map : s.a[k] = s.n - s.a[s.i]} IN
     \/ s.i >= Length(s.a) /\ Return(<<-1, -1>>)
     \/ s.i < Length(s.a) /\ known # {} /\ Return(<<Max(known), s.i>>)
     \/ s.i < Length(s.a) /\ known = {} /\ s' = [s EXCEPT !.i = s.i + 1]

Moved == IF s.a[s.i] + s.a[s.j] < s.n THEN [s EXCEPT !.i = s.i + 1] ELSE [s EXCEPT !.j = s.j - 1]

twoSumInSortedArr ==
  /\ Running("sorted")
  /\ \/ s.i >= s.j /\ Return(<<>>)
     \/ s.i < s.j /\ s.a[s.i] + s.a[s.j] = s.n /\ Return(<<s.i, s.j>>)
     \/ s.i < s.j /\ s.a[s.i] + s.a[s.j] # s.n /\ s' = Moved

Goes == s.i <= Len(s.a) \/ s.i <= Len(s.b) \/ s.carry > 0

Digit(l) == IF s.i <= Len(l) THEN l[s.i] ELSE 0

addTwoNumbers ==
  /\ Running("add")
  /\ LET sum == Digit(s.a) + Digit(s.b) + s.carry IN
     \/ Goes /\ s' = [s EXCEPT !.aux = Append(@, sum % 10), !.carry = sum \div 10, !.i = s.i + 1]
     \/ ~Goes /\ Return(s.aux)

Larger(x, y) == IF x > y THEN x ELSE y

RECURSIVE MinMax(_, _)
MinMax(left, right) ==
  IF left = right THEN <<s.a[left], s.a[left]>>
  ELSE IF left + 1 = right
       THEN IF s.a[left] < s.a[right] THEN <<s.a[left], s.a[right]>> ELSE <<s.a[right], s.a[left]>>
  ELSE LET mid == (left + right) \div 2
           l == MinMax(left, mid)
           r == MinMax(mid + 1, right)
       IN  <<IF l[1] < r[1] THEN l[1] ELSE r[1], Larger(l[2], r[2])>>

find_min_max == Running("minmax") /\ Return(MinMax(s.i, s.j))

Next == is_prime \/ sieveOfEratosthenes \/ twoSum \/ twoSumInSortedArr \/ addTwoNumbers \/ find_min_max

Done == s.pc = "done"
-------------------------------------------------------------------------------
Prime(k) == k > 1 /\ \A d \in 2..(k - 1) : k % d # 0

(* is_prime answers for squares of primes as well, and the sieve collects    *)
(* the primes of its range in order; while it works it has struck out the    *)
(* multiples of the primes it has passed and nothing else.                   *)
PrimesRight ==
  /\ Done /\ s.fn = "prime" => s.result = Prime(s.n)
  /\ s.fn = "sieve" =>
       /\ \A k \in 2..s.n : s.aux[k] = \A d \in 2..(s.i - 1) : d < k => k % d # 0
       /\ Done => /\ ToSet(s.result) = {k \in s.j..s.n : Prime(k)}
                  /\ \A x, y \in DOMAIN s.result : x < y => s.result[x] < s.result[y]

Pairs == {p \in (DOMAIN s.a) \X (DOMAIN s.a) : p[1] < p[2] /\ s.a[p[1]] + s.a[p[2]] = s.n}

(* Both ways of finding two numbers with a given sum return places i < j of  *)
(* such numbers if there are any; the two pointers never pass all of them.   *)
SumFound ==
  /\ Done /\ s.fn = "twoSum" => s.result \in Pairs \/ (Pairs = {} /\ s.result = <<-1, -1>>)
  /\ s.fn = "sorted" =>
       /\ Pairs # {} => \E p \in Pairs : s.i <= p[1] /\ p[2] <= s.j
       /\ Done => s.result \in Pairs \/ (Pairs = {} /\ s.result = <<>>)

Value(l) == FoldLeft(LAMBDA x, k : x + l[k] * 10 ^ (k - 1), 0, [k \in DOMAIN l |-> k])

(* The digits so far and the carry are the sum of the digits read; in the    *)
(* end nothing is lost of the sum.                                           *)
SumRight ==
  s.fn = "add" =>
    LET Read(l) == SubSeq(l, 1, IF s.i - 1 < Len(l) THEN s.i - 1 ELSE Len(l))
    IN  /\ Value(s.aux) + s.carry * 10 ^ (s.i - 1) = Value(Read(s.a)) + Value(Read(s.b))
        /\ Done => Value(s.result) = Value(s.a) + Value(s.b)

(* find_min_max finds the least and the greatest element.                    *)
MinMaxRight ==
  Done /\ s.fn = "minmax" =>
    LET all == {s.a[k] : k \in DOMAIN s.a} IN s.result = <<Min(all), Max(all)>>
===============================================================================
