------------------------------ MODULE DemoProofs ------------------------------
(***************************************************************************)
(* What the buckets and the demos with several threads or processes do, for  *)
(* every capacity and rate, number of threads, rounds and clients, and       *)
(* length of a message; and that binary_search is right for arrays of every  *)
(* length.                                                                   *)
(***************************************************************************)
EXTENDS ThreadDemoProofs

CONSTANTS Values, MaxLen    \* of the arrays that binary_search gets

Search == INSTANCE BinarySearch

(***************************************************************************)
(* binary_search.  The inductive invariant is that the array is sorted, the  *)
(* indices are in place and every occurrence of the target is bracketed.     *)
(***************************************************************************)
SearchInputs == Values \subseteq Int /\ MaxLen \in Nat

(* Until the search returns, the result to be is -1.                         *)
Unset == s.pc = "loop" => s.result = -1

SearchInv == Search!TypeOK /\ Search!Bracketed /\ Search!ResultRight /\ Unset

LEMMA SearchInit == ASSUME SearchInputs PROVE Search!Init => SearchInv
<1> SUFFICES ASSUME NEW n \in 0..MaxLen, NEW a \in Search!SortedArrays(n), NEW t \in Values,
                    s = [n |-> n, arr |-> a, target |-> t, left |-> 0, right |-> n - 1,
                         pc |-> "loop", result |-> -1]
             PROVE  SearchInv
  BY DEF Search!Init, Search!Calls
<1> USE DEF SearchInputs
<1>1. Search!TypeOK
  BY DEF Search!TypeOK
<1>2. Search!Bracketed
  BY DEF Search!Bracketed
<1> QED
  BY <1>1, <1>2 DEF SearchInv, Search!ResultRight, Unset

(* The middle of a non-empty range lies in it (line 387).                    *)
LEMMA MidBetween ==
  ASSUME NEW l \in Int, NEW r \in Int, l <= r
  PROVE  /\ Search!Mid(l, r) \in Int /\ l <= Search!Mid(l, r) /\ Search!Mid(l, r) <= r
         /\ 2 * (Search!Mid(l, r) - l) <= r - l
         /\ 2 * (r - Search!Mid(l, r)) <= r - l + 1
  BY DEF Search!Mid

(* A field of s can be changed on its own.                                   *)
LEMMA TypeFacts ==
  ASSUME SearchInputs, Search!TypeOK
  PROVE  /\ s.n \in Int /\ s.left \in Int /\ s.right \in Int /\ s.target \in Int
         /\ 0 <= s.left /\ s.right < s.n /\ s.left <= s.right + 1
         /\ \A i \in 0..(s.n - 1) : s.arr[i] \in Int
         /\ \A i, j \in 0..(s.n - 1) : i < j => s.arr[i] <= s.arr[j]
<1>1. /\ s.n \in Int /\ s.left \in Int /\ s.right \in Int /\ s.target \in Int
      /\ 0 <= s.left /\ s.right < s.n /\ s.left <= s.right + 1
  BY DEF SearchInputs, Search!TypeOK
<1>2. s.arr \in Search!SortedArrays(s.n)
  BY DEF Search!TypeOK
<1> QED
  BY <1>1, <1>2, Zenon DEF SearchInputs, Search!SortedArrays

LEMMA SearchNext == ASSUME SearchInputs PROVE SearchInv /\ [Search!Next]_s => SearchInv'
<1> SUFFICES ASSUME SearchInv, [Search!Next]_s PROVE SearchInv'
  OBVIOUS
<1> USE DEF SearchInputs, SearchInv
<1> DEFINE m == Search!Mid(s.left, s.right)
<1>t. /\ s.n \in Int /\ s.left \in Int /\ s.right \in Int /\ s.target \in Int
      /\ 0 <= s.left /\ s.right < s.n /\ s.left <= s.right + 1
      /\ \A i \in 0..(s.n - 1) : s.arr[i] \in Int
      /\ \A i, j \in 0..(s.n - 1) : i < j => s.arr[i] <= s.arr[j]
  BY TypeFacts
<1>m. ASSUME s.left <= s.right
      PROVE  m \in Int /\ s.left <= m /\ m <= s.right /\ m \in 0..(s.n - 1)
  <2>1. m \in Int /\ s.left <= m /\ m <= s.right
    BY <1>t, <1>m, MidBetween, Zenon
  <2> QED
    BY <1>t, <2>1
<1> HIDE DEF m
<1>1. CASE s.left > s.right /\ s.pc = "loop" /\ s' = [s EXCEPT !.pc = "done"]
  <2>1. \A i \in 0..(s.n - 1) : s.arr[i] # s.target
    BY <1>1, <1>t DEF Search!Bracketed
  <2>2. Search!TypeOK'
    BY <1>1 DEF Search!TypeOK
  <2>3. /\ s'.arr = s.arr /\ s'.target = s.target /\ s'.n = s.n /\ s'.result = -1
        /\ s'.left = s.left /\ s'.right = s.right /\ s'.pc = "done"
    BY <1>1 DEF Search!TypeOK, Unset
  <2> QED
    BY <2>1, <2>2, <2>3 DEF Search!Bracketed, Search!ResultRight, Unset
<1>2. CASE /\ s.left <= s.right /\ s.pc = "loop" /\ s.arr[m] = s.target
           /\ s' = [s EXCEPT !.pc = "done", !.result = m]
  <2>1. m \in Int /\ m \in 0..(s.n - 1)
    BY <1>2, <1>m
  <2>2. Search!TypeOK'
    <3>1. m \in -1..MaxLen /\ m < s.n
      BY <2>1, <1>t DEF Search!TypeOK
    <3> QED
      BY <1>2, <3>1, Zenon DEF Search!TypeOK
  <2>3. /\ s'.arr = s.arr /\ s'.target = s.target /\ s'.n = s.n /\ s'.result = m
        /\ s'.left = s.left /\ s'.right = s.right /\ s'.pc = "done"
    BY <1>2 DEF Search!TypeOK
  <2> QED
    BY <1>2, <2>1, <2>2, <2>3 DEF Search!Bracketed, Search!ResultRight, Unset
<1>3. CASE /\ s.left <= s.right /\ s.pc = "loop" /\ s.arr[m] < s.target
           /\ s' = [s EXCEPT !.left = m + 1]
  <2>1. m \in Int /\ s.left <= m /\ m <= s.right /\ m \in 0..(s.n - 1)
    BY <1>3, <1>m
  <2>2. Search!TypeOK'
    BY <1>3, <2>1, <1>t DEF Search!TypeOK
  <2>3. /\ s'.arr = s.arr /\ s'.target = s.target /\ s'.n = s.n /\ s'.result = s.result
        /\ s'.left = m + 1 /\ s'.right = s.right /\ s'.pc = s.pc
    BY <1>3 DEF Search!TypeOK
  <2>4. ASSUME NEW i \in 0..(s.n - 1), s.arr[i] = s.target PROVE m < i
    BY <1>3, <1>t, <2>1, <2>4
  <2>5. Search!Bracketed'
    BY <2>1, <2>3, <2>4 DEF Search!Bracketed
  <2> QED
    BY <1>3, <2>2, <2>3, <2>5 DEF Search!ResultRight, Unset
<1>4. CASE /\ s.left <= s.right /\ s.pc = "loop" /\ s.arr[m] > s.target
           /\ s' = [s EXCEPT !.right = m - 1]
  <2>1. m \in Int /\ s.left <= m /\ m <= s.right /\ m \in 0..(s.n - 1)
    BY <1>4, <1>m
  <2>2. Search!TypeOK'
    BY <1>4, <2>1, <1>t DEF Search!TypeOK
  <2>3. /\ s'.arr = s.arr /\ s'.target = s.target /\ s'.n = s.n /\ s'.result = s.result
        /\ s'.left = s.left /\ s'.right = m - 1 /\ s'.pc = s.pc
    BY <1>4 DEF Search!TypeOK
  <2>4. ASSUME NEW i \in 0..(s.n - 1), s.arr[i] = s.target PROVE i < m
    BY <1>4, <1>t, <2>1, <2>4
  <2>5. Search!Bracketed'
    BY <2>1, <2>3, <2>4 DEF Search!Bracketed
  <2> QED
    BY <1>4, <2>2, <2>3, <2>5 DEF Search!ResultRight, Unset
<1>5. CASE UNCHANGED s
  BY <1>5 DEF Search!TypeOK, Search!Bracketed, Search!ResultRight, Unset
<1> QED

    BY <1>1, <1>2, <1>3, <1>4, <1>5 DEF Search!Next, Search!binary_search, Search!Above,
                                        Search!Below, m

LEMMA SearchInvariant == ASSUME SearchInputs PROVE Search!SafeSpec => []SearchInv
  BY SearchInit, SearchNext, PTL DEF Search!SafeSpec

(* binary_search returns an index of the target, or -1 when there is none,   *)
(* for every sorted array and every target.                                  *)
THEOREM SearchCorrect == ASSUME SearchInputs PROVE Search!SafeSpec => []Search!ResultRight
<1>1. SearchInv => Search!ResultRight
  BY DEF SearchInv
<1> QED
  BY <1>1, SearchInvariant, PTL

(* mid never leaves the array (the type invariant).                          *)
THEOREM SearchTypeCorrect == ASSUME SearchInputs PROVE Search!SafeSpec => []Search!TypeOK
<1>1. SearchInv => Search!TypeOK
  BY DEF SearchInv
<1> QED
  BY <1>1, SearchInvariant, PTL

(* Every turn of the loop that goes on at least halves the range, so that    *)
(* the number of turns is logarithmic in the length of the array.            *)
THEOREM SearchHalves == ASSUME SearchInputs PROVE Search!SafeSpec => Search!Halves
<1>1. ASSUME SearchInv, Search!Next PROVE Search!HalvesStep
  <2> DEFINE m == Search!Mid(s.left, s.right)
  <2>t. Search!TypeOK /\ s.left \in Int /\ s.right \in Int
    BY <1>1, TypeFacts DEF SearchInv
  <2>m. ASSUME s.left <= s.right
        PROVE  m \in Int /\ 2 * (m - s.left) <= s.right - s.left
                         /\ 2 * (s.right - m) <= s.right - s.left + 1
    BY <2>m, <2>t, MidBetween, Zenon
  <2> HIDE DEF m
  <2>1. CASE s.left <= s.right /\ s' = [s EXCEPT !.left = m + 1]
    <3>1. s'.left = m + 1 /\ s'.right = s.right
      BY <2>1, <2>t DEF Search!TypeOK
    <3> QED
      BY <2>1, <2>t, <2>m, <3>1 DEF Search!HalvesStep
  <2>2. CASE s.left <= s.right /\ s' = [s EXCEPT !.right = m - 1]
    <3>1. s'.left = s.left /\ s'.right = m - 1
      BY <2>2, <2>t DEF Search!TypeOK
    <3> QED
      BY <2>2, <2>t, <2>m, <3>1 DEF Search!HalvesStep
  <2>3. CASE \/ s' = [s EXCEPT !.pc = "done"]
             \/ s' = [s EXCEPT !.pc = "done", !.result = m]
    BY <2>3, <2>t, Zenon DEF Search!TypeOK, Search!HalvesStep
  <2> QED
    BY <1>1, <2>1, <2>2, <2>3 DEF Search!Next, Search!binary_search, Search!Above, Search!Below, m
<1>2. SearchInv /\ [Search!Next]_s => [Search!HalvesStep]_s
  BY <1>1
<1> QED
  BY <1>2, SearchInvariant, PTL DEF Search!SafeSpec, Search!Halves
-------------------------------------------------------------------------------
(***************************************************************************)
(* The buckets.  Their bounds rest on one fact: the amount computed for a    *)
(* gap, rounded and wrapped, is never more than the rate times that gap.     *)
(***************************************************************************)
LEMMA MinMaxOfTwo ==
  ASSUME NEW a \in Int, NEW b \in Int
  PROVE  /\ Bucket!Min({a, b}) = IF a <= b THEN a ELSE b
         /\ Bucket!Max({a, b}) = IF a >= b THEN a ELSE b
<1>1. Bucket!Min({a, b}) \in {a, b} /\ \A x \in {a, b} : Bucket!Min({a, b}) <= x
  <2>1. \E x \in {a, b} : \A y \in {a, b} : x <= y OBVIOUS
  <2>. QED BY <2>1 DEF Bucket!Min
<1>2. Bucket!Max({a, b}) \in {a, b} /\ \A x \in {a, b} : Bucket!Max({a, b}) >= x
  <2>1. \E x \in {a, b} : \A y \in {a, b} : x >= y OBVIOUS
  <2>. QED BY <2>1 DEF Bucket!Max
<1>. QED BY <1>1, <1>2

LEMMA WrapIsCongruent ==
  ASSUME NEW x \in Int
  PROVE  \E j \in Int : Bucket!Wrap(x) = x - j * (2 * Half) /\ Bucket!Wrap(x) \in -Half..(Half - 1)
<1>. DEFINE d == 2 * Half
            j == (x + Half) \div d
<1>1. Half \in Nat /\ Half > 0 /\ d \in Nat /\ d > 0 BY BucketAssumption
<1>2. j \in Int /\ x + Half = d * j + ((x + Half) % d) /\ (x + Half) % d \in 0..(d - 1)
  <2>. HIDE DEF d
  <2>. QED BY <1>1
<1>3. Bucket!Wrap(x) = ((x + Half) % d) - Half BY DEF Bucket!Wrap
<1>4. d * j = j * (2 * Half) BY <1>1, <1>2
<1>. QED BY <1>1, <1>2, <1>3, <1>4

(* Wrapping the product of the wrapped time and the rate gives no more than  *)
(* the product itself.                                                       *)
LEMMA WrapNeverMore ==
  ASSUME NEW g \in Nat
  PROVE  /\ Bucket!Wrap(Bucket!Wrap(g) * Rate) \in Int /\ Bucket!Wrap(Bucket!Wrap(g) * Rate) <= g * Rate
         /\ g * Rate < Half => Bucket!Wrap(Bucket!Wrap(g) * Rate) = g * Rate
<1>0. Rate \in Nat /\ Half \in Nat /\ Half > 0 /\ g * Rate \in Nat BY BucketAssumption
<1>1. PICK k \in Int : Bucket!Wrap(g) = g - k * (2 * Half) BY WrapIsCongruent
<1>. DEFINE p == Bucket!Wrap(g) * Rate
<1>2. p \in Int /\ p = g * Rate - (k * Rate) * (2 * Half) BY <1>0, <1>1
<1>3. PICK j \in Int : Bucket!Wrap(p) = p - j * (2 * Half) /\ Bucket!Wrap(p) \in -Half..(Half - 1)
  BY <1>2, WrapIsCongruent
<1>. DEFINE q == k * Rate + j
            G == g * Rate
            w == Bucket!Wrap(p)
<1>4. q \in Int /\ w = G - q * (2 * Half) BY <1>0, <1>2, <1>3
<1>5. w \in Int /\ w <= Half - 1 /\ w >= -Half /\ G \in Nat BY <1>0, <1>3
<1>. HIDE DEF q, G, w
<1>6. q >= 0
  <2>1. q <= -1 => q * (2 * Half) <= -(2 * Half) BY <1>0, <1>4
  <2>. QED BY <1>0, <1>4, <1>5, <2>1
<1>7. w <= G BY <1>0, <1>4, <1>5, <1>6
<1>8. G < Half => w = G
  <2>1. q >= 1 => q * (2 * Half) >= 2 * Half BY <1>0, <1>4
  <2>. QED BY <1>0, <1>4, <1>5, <1>6, <2>1
<1>. QED BY <1>5, <1>7, <1>8 DEF G, w

LEMMA QuotBounds ==
  ASSUME NEW a \in Int
  PROVE  /\ Bucket!Quot(a, Second) \in Int /\ Second * Bucket!Quot(a, Second) <= IF a >= 0 THEN a ELSE 0
         /\ a >= 0 => Bucket!Quot(a, Second) >= 0
<1>0. Second \in Nat /\ Second > 0 BY BucketAssumption
<1>1. \A x \in Nat : x \div Second \in Nat /\ Second * (x \div Second) <= x BY <1>0
<1>2. CASE a >= 0 BY <1>0, <1>1, <1>2 DEF Bucket!Quot
<1>3. CASE a < 0
  <2>1. (-a) \div Second \in Nat BY <1>1, <1>3
  <2>2. Bucket!Quot(a, Second) = -((-a) \div Second) BY <1>3 DEF Bucket!Quot
  <2>3. \A x \in Nat : -x \in Int /\ Second * (-x) <= 0 BY <1>0
  <2>. QED BY <1>3, <2>1, <2>2, <2>3
<1>. QED BY <1>2, <1>3

BucketTypes ==
  /\ s \in [program : {"token", "leaky"}, now : Nat, tokens : Int, last : Nat, granted : Nat,
            from : Nat, before : Nat, overlong : BOOLEAN]
  /\ s.last <= s.now /\ s.from <= s.now /\ s.before <= s.granted

(* What a refill or a leak may add or take for the time since the last       *)
(* request.                                                                  *)
LEMMA AmountBound ==
  ASSUME BucketTypes
  PROVE  /\ Bucket!amount \in Int /\ Second * Bucket!amount <= Rate * (s.now - s.last)
         /\ (s.now - s.last) * Rate < Half => Bucket!amount >= 0
<1>. DEFINE g == s.now - s.last
            p == Bucket!Wrap(Bucket!Wrap(g) * Rate)
<1>1. g \in Nat /\ Rate \in Nat BY BucketAssumption DEF BucketTypes
<1>2. p \in Int /\ p <= g * Rate /\ (g * Rate < Half => p = g * Rate) BY <1>1, WrapNeverMore
<1>3. /\ Bucket!Quot(p, Second) \in Int /\ Second * Bucket!Quot(p, Second) <= IF p >= 0 THEN p ELSE 0
      /\ p >= 0 => Bucket!Quot(p, Second) >= 0
  BY <1>2, QuotBounds
<1>4. Bucket!amount = Bucket!Quot(p, Second) BY DEF Bucket!amount, Bucket!elapsed_ms
<1>5. g * Rate = Rate * g /\ g * Rate \in Nat BY <1>1
<1>6. Second * Bucket!Quot(p, Second) \in Int BY <1>3, BucketAssumption
<1>. QED BY <1>2, <1>3, <1>4, <1>5, <1>6

(* Besides the bounds themselves: what a token bucket granted since an       *)
(* observer started is bounded together with what it still holds.            *)
TokenInv ==
  s.program = "token" =>
    /\ s.tokens <= Capacity
    /\ Second * (s.granted + s.tokens) <= Rate * s.last
    /\ IF s.last >= s.from
       THEN /\ Second * (s.granted - s.before + s.tokens) <= Second * Capacity + Rate * (s.last - s.from)
            /\ Second * (s.granted - s.before) <= Second * Capacity + Rate * (s.last - s.from)
       ELSE s.granted = s.before

LeakyInv ==
  s.program = "leaky" =>
    /\ s.tokens >= 0
    /\ ~s.overlong => s.granted + s.tokens <= Capacity
    /\ Second * (s.granted + s.tokens) >= Second * Capacity - Rate * s.last

InRange == ~s.overlong => s.tokens \in 0..Capacity

BucketInv == BucketTypes /\ TokenInv /\ LeakyInv /\ InRange

LEMMA BucketInit == s \in Bucket!Starts => BucketInv
<1>. SUFFICES ASSUME s \in Bucket!Starts PROVE BucketInv OBVIOUS
<1>0. Capacity \in Nat /\ Rate \in Nat /\ Second \in Nat /\ Rate * 0 = 0 /\ Second * 0 = 0
      /\ Second * Capacity \in Nat
  BY BucketAssumption
<1>1. CASE s = Bucket!Bucket("token", 0)
  BY <1>0, <1>1 DEF BucketInv, BucketTypes, TokenInv, LeakyInv, InRange, Bucket!Bucket
<1>2. CASE s = Bucket!Bucket("leaky", Capacity)
  BY <1>0, <1>2 DEF BucketInv, BucketTypes, TokenInv, LeakyInv, InRange, Bucket!Bucket
<1>. QED BY <1>1, <1>2 DEF Bucket!Starts

LEMMA BucketRequest ==
  ASSUME BucketInv, NEW n \in Requests, Bucket!request(n) PROVE BucketInv'
<1>. DEFINE taken == IF n <= Bucket!Level THEN n ELSE 0
            gap == s.now - s.last
<1>0. /\ Capacity \in Nat /\ Rate \in Nat /\ Second \in Nat /\ Second > 0 /\ Half \in Nat
      /\ n \in Nat /\ gap \in Nat /\ gap * Rate \in Nat
  BY BucketAssumption DEF BucketInv, BucketTypes
<1>1. /\ Bucket!amount \in Int /\ Second * Bucket!amount <= Rate * gap /\ (gap * Rate < Half => Bucket!amount >= 0)
  BY AmountBound DEF BucketInv
<1>2. /\ s.tokens \in Int /\ s.granted \in Nat /\ s.last \in Nat /\ s.now \in Nat
      /\ s.from \in Nat /\ s.before \in Nat /\ s.program \in {"token", "leaky"}
      /\ s.overlong \in BOOLEAN /\ s.from <= s.now /\ s.before <= s.granted
  BY DEF BucketInv, BucketTypes
<1>3. Bucket!Refilled = IF Capacity <= s.tokens + Bucket!amount THEN Capacity ELSE s.tokens + Bucket!amount
  BY <1>0, <1>1, <1>2, MinMaxOfTwo DEF Bucket!Refilled
<1>4. Bucket!Leaked = IF 0 >= s.tokens - Bucket!amount THEN 0 ELSE s.tokens - Bucket!amount
  <2>1. s.tokens - Bucket!amount \in Int BY <1>1, <1>2
  <2>2. \A b \in Int : Bucket!Max({0, b}) = IF 0 >= b THEN 0 ELSE b BY MinMaxOfTwo, 0 \in Int
  <2>. QED BY <2>1, <2>2, Zenon DEF Bucket!Leaked
<1>5. Bucket!Level \in Int /\ taken \in Nat /\ (taken > 0 => taken <= Bucket!Level)
  BY <1>0, <1>1, <1>2, <1>3, <1>4 DEF Bucket!Level
<1>6. /\ s'.program = s.program /\ s'.now = s.now /\ s'.last = s.now
      /\ s'.tokens = Bucket!Level - taken /\ s'.granted = s.granted + taken
      /\ s'.from = s.from /\ s'.before = s.before
      /\ s'.overlong = (s.overlong \/ gap * Rate >= Half)
  BY DEF BucketInv, BucketTypes, Bucket!request, Bucket!Since
<1>7. BucketTypes'
  <2>1. s' \in [program : {"token", "leaky"}, now : Nat, tokens : Int, last : Nat, granted : Nat,
                from : Nat, before : Nat, overlong : BOOLEAN]
    <3>1. s' = [s EXCEPT !.last = s.now, !.tokens = Bucket!Level - taken, !.granted = s.granted + taken,
                         !.overlong = s.overlong \/ gap * Rate >= Half]
      BY DEF Bucket!request, Bucket!Since
    <3>2. Bucket!Level - taken \in Int /\ s.granted + taken \in Nat BY <1>2, <1>5
    <3>3. (s.overlong \/ gap * Rate >= Half) \in BOOLEAN OBVIOUS
    <3>. QED BY <1>2, <3>1, <3>2, <3>3, Zenon DEF BucketInv, BucketTypes
  <2>. QED BY <1>2, <1>5, <1>6, <2>1 DEF BucketTypes
<1>8. TokenInv'
  <2>. SUFFICES ASSUME s.program = "token" PROVE TokenInv' BY <1>6 DEF TokenInv
  <2>1. Bucket!Level <= Capacity /\ Bucket!Level <= s.tokens + Bucket!amount
    BY <1>0, <1>1, <1>2, <1>3 DEF Bucket!Level
  <2>2. Second * Bucket!Level <= Second * s.tokens + Rate * gap BY <1>0, <1>1, <1>2, <1>5, <2>1
  <2>3. s'.tokens <= Capacity BY <1>5, <1>6, <2>1, <1>0
  <2>4. Second * (s'.granted + s'.tokens) <= Rate * s'.last
    <3>1. s'.granted + s'.tokens = s.granted + Bucket!Level BY <1>2, <1>5, <1>6
    <3>2. Second * (s.granted + s.tokens) <= Rate * s.last BY DEF BucketInv, TokenInv
    <3>. QED BY <1>0, <1>2, <1>5, <1>6, <2>2, <3>1, <3>2
  <2>5. /\ Second * (s'.granted - s'.before + s'.tokens) <= Second * Capacity + Rate * (s'.last - s'.from)
        /\ Second * (s'.granted - s'.before) <= Second * Capacity + Rate * (s'.last - s'.from)
    <3>. DEFINE held == s.granted - s.before + Bucket!Level
                room == Second * Capacity + Rate * (s.now - s.from)
    <3>1. s'.granted - s'.before + s'.tokens = held BY <1>2, <1>5, <1>6
    <3>2. Second * held <= room
      <4>1. CASE s.last >= s.from
        <5>1. Second * (s.granted - s.before + s.tokens) <= Second * Capacity + Rate * (s.last - s.from)
          BY <4>1 DEF BucketInv, TokenInv
        <5>. QED BY <1>0, <1>2, <1>5, <2>2, <5>1
      <4>2. CASE ~(s.last >= s.from)
        <5>1. s.granted = s.before BY <4>2 DEF BucketInv, TokenInv
        <5>2. Second * Bucket!Level <= Second * Capacity /\ Rate * (s.now - s.from) >= 0
          BY <1>0, <1>2, <1>5, <2>1
        <5>. QED BY <1>0, <1>2, <1>5, <5>1, <5>2
      <4>. QED BY <4>1, <4>2
    <3>3. Second * (s'.granted - s'.before) <= room
      <4>1. CASE taken > 0
        <5>1. s'.granted - s'.before <= held BY <1>2, <1>5, <1>6, <4>1
        <5>2. Second * (s'.granted - s'.before) <= Second * held BY <1>0, <1>2, <1>5, <1>6, <5>1
        <5>. QED BY <1>0, <1>2, <1>5, <1>6, <3>2, <5>2
      <4>2. CASE taken = 0
        <5>1. Rate * (s.now - s.from) >= 0 /\ Second * Capacity >= 0 BY <1>0, <1>2
        <5>2. CASE s.last >= s.from
          <6>1. Second * (s.granted - s.before) <= Second * Capacity + Rate * (s.last - s.from)
            BY <5>2 DEF BucketInv, TokenInv
          <6>2. Rate * (s.last - s.from) <= Rate * (s.now - s.from) BY <1>0, <1>2
          <6>. QED BY <1>0, <1>2, <1>6, <4>2, <6>1, <6>2
        <5>3. CASE ~(s.last >= s.from)
          BY <1>0, <1>2, <1>6, <4>2, <5>1, <5>3 DEF BucketInv, TokenInv
        <5>. QED BY <5>2, <5>3
      <4>. QED BY <1>5, <4>1, <4>2
    <3>. QED BY <1>6, <3>1, <3>2, <3>3
  <2>. QED BY <1>2, <1>6, <2>3, <2>4, <2>5 DEF TokenInv
<1>9. LeakyInv'
  <2>. SUFFICES ASSUME s.program = "leaky" PROVE LeakyInv' BY <1>6 DEF LeakyInv
  <2>1. Bucket!Level >= 0 /\ Bucket!Level >= s.tokens - Bucket!amount
    BY <1>0, <1>1, <1>2, <1>4 DEF Bucket!Level
  <2>2. s'.tokens >= 0 BY <1>0, <1>5, <1>6, <2>1
  <2>3. s'.granted + s'.tokens = s.granted + Bucket!Level BY <1>2, <1>5, <1>6
  <2>4. ASSUME ~s'.overlong PROVE s'.granted + s'.tokens <= Capacity
    <3>1. ~s.overlong /\ gap * Rate < Half
      <4>1. ~s.overlong /\ ~(gap * Rate >= Half) BY <1>6, <2>4, Zenon
      <4>. QED BY <1>0, <4>1
    <3>2. Bucket!Level <= s.tokens
      BY <1>0, <1>1, <1>2, <1>4, <3>1 DEF Bucket!Level, BucketInv, LeakyInv
    <3>. QED BY <1>0, <1>2, <1>5, <2>3, <3>1, <3>2 DEF BucketInv, LeakyInv
  <2>5. Second * (s'.granted + s'.tokens) >= Second * Capacity - Rate * s'.last
    <3>1. Second * (s.granted + s.tokens) >= Second * Capacity - Rate * s.last
      BY DEF BucketInv, LeakyInv
    <3>2. Second * Bucket!Level >= Second * s.tokens - Rate * gap BY <1>0, <1>1, <1>2, <1>5, <2>1
    <3>. QED BY <1>0, <1>2, <1>5, <1>6, <2>3, <3>1, <3>2
  <2>. QED BY <1>6, <2>2, <2>4, <2>5 DEF LeakyInv
<1>10. InRange'
  <2>. SUFFICES ASSUME ~s'.overlong PROVE s'.tokens \in 0..Capacity BY DEF InRange
  <2>1. ~s.overlong /\ gap * Rate < Half
    <3>1. ~s.overlong /\ ~(gap * Rate >= Half) BY <1>6, Zenon
    <3>. QED BY <1>0, <3>1
  <2>2. s.tokens \in 0..Capacity /\ Bucket!amount >= 0 BY <1>1, <2>1 DEF BucketInv, InRange
  <2>3. Bucket!Level \in 0..Capacity BY <1>0, <1>1, <1>2, <1>3, <1>4, <2>2 DEF Bucket!Level
  <2>. QED BY <1>0, <1>5, <1>6, <2>3
<1>. QED BY <1>7, <1>8, <1>9, <1>10 DEF BucketInv

LEMMA BucketNext == BucketInv /\ [Bucket!Next]_s => BucketInv'
<1>. SUFFICES ASSUME BucketInv, [Bucket!Next]_s PROVE BucketInv' OBVIOUS
<1>0. /\ Capacity \in Nat /\ Rate \in Nat /\ Second \in Nat /\ Rate * 0 = 0 /\ Second * 0 = 0
      /\ Second * Capacity \in Nat
  BY BucketAssumption
<1>1. CASE Bucket!Tick
  <2>1. /\ s'.program = s.program /\ s'.now = s.now + 1 /\ s'.last = s.last
        /\ s'.tokens = s.tokens /\ s'.granted = s.granted /\ s'.from = s.from
        /\ s'.before = s.before /\ s'.overlong = s.overlong
    BY <1>1 DEF Bucket!Tick, BucketInv, BucketTypes
  <2>2. BucketTypes' BY <1>1 DEF Bucket!Tick, BucketInv, BucketTypes
  <2>. QED BY <2>1, <2>2 DEF BucketInv, TokenInv, LeakyInv, InRange
<1>2. CASE Bucket!Observe
  <2>1. /\ s'.program = s.program /\ s'.now = s.now /\ s'.last = s.last
        /\ s'.tokens = s.tokens /\ s'.granted = s.granted /\ s'.from = s.now
        /\ s'.before = s.granted /\ s'.overlong = s.overlong
    BY <1>2 DEF Bucket!Observe, BucketInv, BucketTypes
  <2>2. BucketTypes'
    <3>1. s' = [s EXCEPT !.from = s.now, !.before = s.granted] BY <1>2 DEF Bucket!Observe
    <3>2. s' \in [program : {"token", "leaky"}, now : Nat, tokens : Int, last : Nat, granted : Nat,
                  from : Nat, before : Nat, overlong : BOOLEAN]
      BY <3>1, Zenon DEF BucketInv, BucketTypes
    <3>. QED BY <2>1, <3>2 DEF BucketInv, BucketTypes
  <2>3. TokenInv'
    <3>. SUFFICES ASSUME s.program = "token" PROVE TokenInv' BY <2>1 DEF TokenInv
    <3>1. CASE s.last >= s.now
      <4>1. s.last = s.now /\ s.last - s.now = 0 BY <3>1 DEF BucketInv, BucketTypes
      <4>2. s.granted - s.granted = 0 /\ s.tokens \in Int /\ s.tokens <= Capacity
        BY DEF BucketInv, BucketTypes, TokenInv
      <4>3. Second * s.tokens <= Second * Capacity BY <1>0, <4>2
      <4>4. /\ Second * (0 + s.tokens) <= Second * Capacity + Rate * 0
            /\ Second * 0 <= Second * Capacity + Rate * 0
        BY <1>0, <4>2, <4>3
      <4>. QED BY <2>1, <4>1, <4>2, <4>4 DEF BucketInv, TokenInv
    <3>2. CASE ~(s.last >= s.now) BY <2>1, <3>2 DEF BucketInv, TokenInv
    <3>. QED BY <3>1, <3>2
  <2>. QED BY <2>1, <2>2, <2>3 DEF BucketInv, LeakyInv, InRange
<1>3. CASE UNCHANGED s BY <1>3 DEF BucketInv, BucketTypes, TokenInv, LeakyInv, InRange
<1>. QED BY <1>1, <1>2, <1>3, BucketRequest DEF Bucket!Next

LEMMA BucketImplies ==
  BucketInv => /\ Bucket!TokensInRange /\ Bucket!BurstBound
               /\ Bucket!LongRunBound /\ Bucket!Accounting
<1>. SUFFICES ASSUME BucketInv
     PROVE  /\ Bucket!TokensInRange /\ Bucket!BurstBound
            /\ Bucket!LongRunBound /\ Bucket!Accounting
  OBVIOUS
<1>1. Bucket!TokensInRange /\ Bucket!LongRunBound /\ Bucket!Accounting
  BY DEF BucketInv, InRange, TokenInv, LeakyInv, Bucket!TokensInRange, Bucket!LongRunBound,
         Bucket!Accounting
<1>2. ASSUME s.program = "token"
      PROVE  Second * (s.granted - s.before) <= Second * Capacity + Rate * (s.now - s.from)
  <2>0. /\ Capacity \in Nat /\ Rate \in Nat /\ Second \in Nat /\ s.now \in Nat /\ s.from \in Nat
        /\ s.last \in Nat /\ s.granted \in Nat /\ s.before \in Nat /\ s.last <= s.now /\ s.from <= s.now
    BY BucketAssumption DEF BucketInv, BucketTypes
  <2>1. CASE s.last >= s.from
    <3>1. Second * (s.granted - s.before) <= Second * Capacity + Rate * (s.last - s.from)
      BY <1>2, <2>1 DEF BucketInv, TokenInv
    <3>2. Rate * (s.last - s.from) <= Rate * (s.now - s.from) BY <2>0
    <3>. QED BY <2>0, <3>1, <3>2
  <2>2. CASE ~(s.last >= s.from)
    <3>1. s.granted = s.before BY <1>2, <2>2 DEF BucketInv, TokenInv
    <3>. QED BY <2>0, <3>1
  <2>. QED BY <2>1, <2>2
<1>. QED BY <1>1, <1>2 DEF Bucket!BurstBound

(***************************************************************************)
(* The forking server.  A connection is fresh until the parent has forked    *)
(* for it.  A client connects once, so it is queued or served once.          *)
(***************************************************************************)
Fresh(c) == s.child[c] = "none" /\ ~s.closed[c]

ForkTypes ==
  s \in [program : {"fork"}, pc : {"setup", "accept", "fork", "close", "exit"},
         fd : Clients \cup {"none"}, backlog : Seq(Clients), handler : BOOLEAN, pending : BOOLEAN,
         child : [Clients -> {"none", "born", "sent", "zombie", "reaped"}],
         closed : [Clients -> BOOLEAN], sent : [Clients -> BOOLEAN],
         client : [Clients -> {"start", "connected", "text", "end", "failed"}]]

Served ==
  /\ s.pc \in {"fork", "close"} => s.fd \in Clients /\ s.client[s.fd] # "start"
  /\ s.pc = "fork" => Fresh(s.fd)

Waiting ==
  \A i \in DOMAIN s.backlog :
    LET c == s.backlog[i]
    IN  /\ s.client[c] # "start" /\ Fresh(c)
        /\ s.pc \in {"fork", "close"} => c # s.fd
        /\ \A j \in DOMAIN s.backlog : s.backlog[j] = c => i = j

Told ==
  \A c \in Clients :
    /\ s.client[c] = "start" => Fresh(c)
    /\ s.client[c] = "end" => s.closed[c] /\ s.child[c] = "none"
    /\ s.client[c] = "connected" /\ ~s.sent[c] => s.child[c] \in {"none", "born"}

ForkInv == ForkTypes /\ Forks!ZombiesNoticed /\ Served /\ Waiting /\ Told

LEMMA ForkInit == s \in Forks!Starts => ForkInv
<1>. SUFFICES ASSUME s \in Forks!Starts PROVE ForkInv OBVIOUS
<1>1. ForkTypes
  <2>1. s = [program |-> "fork", pc |-> "setup", fd |-> "none", backlog |-> <<>>, handler |-> FALSE,
             pending |-> FALSE, child |-> [c \in Clients |-> "none"],
             closed |-> [c \in Clients |-> FALSE], sent |-> [c \in Clients |-> FALSE],
             client |-> [c \in Clients |-> "start"]]
    BY DEF Forks!Starts
  <2>2. <<>> \in Seq(Clients) OBVIOUS
  <2>. QED BY <2>1, <2>2 DEF ForkTypes
<1>2. Forks!ZombiesNoticed /\ Served /\ Waiting /\ Told
  BY DEF Forks!Starts, Forks!ZombiesNoticed, Served, Waiting, Told, Fresh
<1>. QED BY <1>1, <1>2 DEF ForkInv

LEMMA ForkNext == ASSUME ForkInv, Forks!Next PROVE ForkInv'
<1>. USE DEF ForkInv
<1>0. \A i \in DOMAIN s.backlog : s.backlog[i] \in Clients BY DEF ForkTypes
<1>1. CASE Forks!SetUp
  <2>1. PICK pc \in {"accept", "exit"} : s' = [s EXCEPT !.pc = pc] BY <1>1 DEF Forks!SetUp
  <2>2. ForkTypes' BY <2>1 DEF ForkTypes
  <2>3. /\ s'.pc = pc /\ s'.backlog = s.backlog /\ s'.handler = s.handler /\ s'.pending = s.pending
        /\ s'.child = s.child /\ s'.closed = s.closed /\ s'.sent = s.sent /\ s'.client = s.client
    BY <2>1 DEF ForkTypes
  <2>. QED BY <2>2, <2>3 DEF Forks!ZombiesNoticed, Served, Waiting, Told, Fresh
<1>2. CASE Forks!Accept
  <2>. DEFINE c == Head(s.backlog)
  <2>1. s.backlog \in Seq(Clients) /\ s.backlog # <<>> /\ c \in Clients /\ Tail(s.backlog) \in Seq(Clients)
    BY <1>2 DEF Forks!Accept, ForkTypes
  <2>2. s' = [s EXCEPT !.pc = "fork", !.fd = c, !.backlog = Tail(@)] /\ s.pc = "accept"
    BY <1>2 DEF Forks!Accept, Forks!At
  <2>3. ForkTypes' BY <2>1, <2>2, Zenon DEF ForkTypes
  <2>4. /\ s'.pc = "fork" /\ s'.fd = c /\ s'.backlog = Tail(s.backlog) /\ s'.handler = s.handler
        /\ s'.pending = s.pending /\ s'.child = s.child /\ s'.closed = s.closed
        /\ s'.sent = s.sent /\ s'.client = s.client
    BY <2>2 DEF ForkTypes
  <2>5. c = s.backlog[1] /\ 1 \in DOMAIN s.backlog BY <2>1
  <2>6. \A i \in DOMAIN Tail(s.backlog) :
          i + 1 \in DOMAIN s.backlog /\ i + 1 # 1 /\ Tail(s.backlog)[i] = s.backlog[i + 1]
    BY <2>1
  <2>7. Served' BY <2>1, <2>4, <2>5 DEF Served, Waiting, Fresh
  <2>8. Waiting'
    <3>. SUFFICES ASSUME NEW i \in DOMAIN Tail(s.backlog)
                  PROVE  LET d == s.backlog[i + 1]
                         IN  /\ s.client[d] # "start" /\ Fresh(d) /\ d # c
                             /\ \A j \in DOMAIN Tail(s.backlog) : s.backlog[j + 1] = d => i = j
      BY <2>4, <2>6 DEF Waiting, Fresh
    <3>1. i + 1 \in DOMAIN s.backlog /\ i \in Int BY <2>1, <2>6
    <3>2. \A j \in DOMAIN Tail(s.backlog) : j \in Int BY <2>1
    <3>. QED BY <2>5, <2>6, <3>1, <3>2 DEF Waiting
  <2>. QED BY <2>3, <2>4, <2>7, <2>8 DEF Forks!ZombiesNoticed, Told, Fresh
<1>3. CASE Forks!Fork
  <2>1. PICK state \in {"born", "none"} : s' = [s EXCEPT !.pc = "close", !.child[s.fd] = state]
    BY <1>3, Zenon DEF Forks!Fork
  <2>2. s.pc = "fork" /\ s.fd \in Clients BY <1>3 DEF Forks!Fork, Forks!At, Served
  <2>3. ForkTypes' BY <2>1, <2>2, Zenon DEF ForkTypes
  <2>4. /\ s'.pc = "close" /\ s'.fd = s.fd /\ s'.backlog = s.backlog /\ s'.handler = s.handler
        /\ s'.pending = s.pending /\ s'.closed = s.closed /\ s'.sent = s.sent /\ s'.client = s.client
        /\ s'.child[s.fd] = state /\ \A c \in Clients : c # s.fd => s'.child[c] = s.child[c]
    BY <2>1, <2>2 DEF ForkTypes
  <2>5. Served' BY <2>2, <2>4 DEF Served
  <2>6. Waiting' BY <1>0, <2>2, <2>4 DEF Waiting, Fresh
  <2>7. Told' BY <2>2, <2>4 DEF Told, Served, Fresh
  <2>. QED BY <2>2, <2>3, <2>4, <2>5, <2>6, <2>7 DEF Forks!ZombiesNoticed
<1>4. CASE Forks!CloseNew
  <2>1. s' = [s EXCEPT !.pc = "accept", !.fd = "none", !.closed[s.fd] = TRUE]
    BY <1>4 DEF Forks!CloseNew
  <2>2. s.pc = "close" /\ s.fd \in Clients /\ s.client[s.fd] # "start"
    BY <1>4 DEF Forks!CloseNew, Forks!At, Served
  <2>3. ForkTypes' BY <2>1, <2>2, Zenon DEF ForkTypes
  <2>4. /\ s'.pc = "accept" /\ s'.backlog = s.backlog /\ s'.handler = s.handler
        /\ s'.pending = s.pending /\ s'.child = s.child /\ s'.sent = s.sent /\ s'.client = s.client
        /\ s'.closed[s.fd] = TRUE /\ \A c \in Clients : c # s.fd => s'.closed[c] = s.closed[c]
    BY <2>1, <2>2 DEF ForkTypes
  <2>5. Waiting' BY <1>0, <2>2, <2>4 DEF Waiting, Fresh
  <2>6. Told' BY <2>2, <2>4 DEF Told, Fresh
  <2>. QED BY <2>3, <2>4, <2>5, <2>6 DEF Forks!ZombiesNoticed, Served
<1>5. CASE Forks!Deliver
  <2>1. s' = [s EXCEPT !.handler = TRUE, !.pending = FALSE] BY <1>5 DEF Forks!Deliver
  <2>2. ForkTypes' BY <2>1, Zenon DEF ForkTypes
  <2>. QED BY <2>1, <2>2 DEF ForkTypes, Forks!ZombiesNoticed, Served, Waiting, Told, Fresh
<1>6. CASE Forks!sigchld_handler
  <2>1. ASSUME NEW c \in Clients, s.child[c] = "zombie", s' = [s EXCEPT !.child[c] = "reaped"], s.handler
        PROVE  ForkInv'
    <3>1. ForkTypes' BY <2>1, Zenon DEF ForkTypes
    <3>2. /\ s'.pc = s.pc /\ s'.fd = s.fd /\ s'.backlog = s.backlog /\ s'.handler = s.handler
          /\ s'.closed = s.closed /\ s'.sent = s.sent /\ s'.client = s.client
          /\ s'.child[c] = "reaped" /\ \A d \in Clients : d # c => s'.child[d] = s.child[d]
      BY <2>1, Zenon DEF ForkTypes
    <3>3. Served' BY <2>1, <3>2 DEF Served, Fresh
    <3>4. Waiting' BY <1>0, <2>1, <3>2 DEF Waiting, Fresh
    <3>5. Told' BY <2>1, <3>2 DEF Told, Fresh
    <3>. QED BY <2>1, <3>1, <3>2, <3>3, <3>4, <3>5 DEF Forks!ZombiesNoticed
  <2>2. ASSUME \A c \in Clients : s.child[c] \in {"none", "reaped"}, s' = [s EXCEPT !.handler = FALSE]
        PROVE  ForkInv'
    <3>1. ForkTypes' BY <2>2, Zenon DEF ForkTypes
    <3>2. /\ s'.pc = s.pc /\ s'.fd = s.fd /\ s'.backlog = s.backlog /\ s'.handler = FALSE
          /\ s'.pending = s.pending /\ s'.child = s.child /\ s'.sent = s.sent
          /\ s'.closed = s.closed /\ s'.client = s.client
      BY <2>2 DEF ForkTypes
    <3>3. Forks!ZombiesNoticed' BY <2>2, <3>2 DEF Forks!ZombiesNoticed
    <3>4. Served' /\ Waiting' /\ Told' BY <3>2 DEF Served, Waiting, Told, Fresh
    <3>. QED BY <3>1, <3>3, <3>4
  <2>. QED BY <1>6, <2>1, <2>2 DEF Forks!sigchld_handler
<1>7. ASSUME NEW c \in Clients, Forks!Send(c) PROVE ForkInv'
  <2>1. s.child[c] = "born" /\ s' = [s EXCEPT !.child[c] = "sent", !.sent[c] = s.client[c] = "connected"]
    BY <1>7 DEF Forks!Send
  <2>2. ForkTypes'
    <3>1. (s.client[c] = "connected") \in BOOLEAN OBVIOUS
    <3>. QED BY <2>1, <3>1, Zenon DEF ForkTypes
  <2>3. /\ s'.pc = s.pc /\ s'.fd = s.fd /\ s'.backlog = s.backlog /\ s'.handler = s.handler
        /\ s'.pending = s.pending /\ s'.closed = s.closed /\ s'.client = s.client
        /\ s'.child[c] = "sent" /\ s'.sent[c] = (s.client[c] = "connected")
        /\ \A d \in Clients : d # c => s'.child[d] = s.child[d] /\ s'.sent[d] = s.sent[d]
    BY <2>1 DEF ForkTypes
  <2>4. Served' BY <2>1, <2>3 DEF Served, Fresh
  <2>5. Waiting' BY <1>0, <2>1, <2>3 DEF Waiting, Fresh
  <2>6. Told'
    <3>. SUFFICES ASSUME NEW d \in Clients
         PROVE  /\ s'.client[d] = "start" => Fresh(d)'
                /\ s'.client[d] = "end" => s'.closed[d] /\ s'.child[d] = "none"
                /\ s'.client[d] = "connected" /\ ~s'.sent[d] => s'.child[d] \in {"none", "born"}
      BY DEF Told
    <3>1. CASE d = c
      <4>1. s.client[c] \notin {"start", "end"} BY <2>1 DEF Told, Fresh
      <4>2. s'.client[c] = s.client[c] /\ (s.client[c] = "connected" => s'.sent[c])
        BY <2>1, <2>3, Zenon
      <4>. QED BY <3>1, <4>1, <4>2
    <3>2. CASE d # c BY <2>3, <3>2 DEF Told, Fresh
    <3>. QED BY <3>1, <3>2
  <2>. QED BY <2>1, <2>2, <2>3, <2>4, <2>5, <2>6 DEF Forks!ZombiesNoticed
<1>8. ASSUME NEW c \in Clients, Forks!Exit(c) PROVE ForkInv'
  <2>1. s.child[c] = "sent" /\ s' = [s EXCEPT !.child[c] = "zombie", !.pending = TRUE]
    BY <1>8 DEF Forks!Exit
  <2>2. ForkTypes' BY <2>1, Zenon DEF ForkTypes
  <2>3. /\ s'.pc = s.pc /\ s'.fd = s.fd /\ s'.backlog = s.backlog /\ s'.pending
        /\ s'.sent = s.sent /\ s'.closed = s.closed /\ s'.client = s.client
        /\ s'.child[c] = "zombie" /\ \A d \in Clients : d # c => s'.child[d] = s.child[d]
    BY <2>1 DEF ForkTypes
  <2>4. Served' BY <2>1, <2>3 DEF Served, Fresh
  <2>5. Waiting' BY <1>0, <2>1, <2>3 DEF Waiting, Fresh
  <2>6. Told' BY <2>1, <2>3 DEF Told, Fresh
  <2>. QED BY <2>2, <2>3, <2>4, <2>5, <2>6 DEF Forks!ZombiesNoticed
<1>9. ASSUME NEW c \in Clients, Forks!Connect(c) PROVE ForkInv'
  <2>1. s.client[c] = "start" /\ s' = [s EXCEPT !.client[c] = "connected", !.backlog = Append(@, c)]
    BY <1>9 DEF Forks!Connect
  <2>2. s.backlog \in Seq(Clients) /\ Append(s.backlog, c) \in Seq(Clients) BY DEF ForkTypes
  <2>3. ForkTypes' BY <2>1, <2>2, Zenon DEF ForkTypes
  <2>4. /\ s'.pc = s.pc /\ s'.fd = s.fd /\ s'.backlog = Append(s.backlog, c) /\ s'.handler = s.handler
        /\ s'.pending = s.pending /\ s'.child = s.child /\ s'.sent = s.sent /\ s'.closed = s.closed
        /\ s'.client[c] = "connected" /\ \A d \in Clients : d # c => s'.client[d] = s.client[d]
    BY <2>1 DEF ForkTypes
  <2>5. Fresh(c) BY <2>1 DEF Told
  <2>6. Served' BY <2>1, <2>4 DEF Served, Fresh
  <2>7. Waiting'
    <3>. DEFINE b == Append(s.backlog, c)
    <3>0. \A i \in DOMAIN b : (i \in DOMAIN s.backlog /\ b[i] = s.backlog[i])
                             \/ (i = Len(s.backlog) + 1 /\ b[i] = c)
      BY <2>2
    <3>1. \A i \in DOMAIN b : (i \in DOMAIN s.backlog /\ b[i] = s.backlog[i] /\ b[i] # c)
                             \/ (i = Len(s.backlog) + 1 /\ b[i] = c)
      BY <2>1, <3>0 DEF Waiting
    <3>. HIDE DEF b
    <3>2. \A i \in DOMAIN b : s'.client[b[i]] # "start" /\ s'.child[b[i]] = "none" /\ ~s'.closed[b[i]]
      BY <1>0, <2>4, <2>5, <3>1 DEF Waiting, Fresh
    <3>3. \A i \in DOMAIN b : s.pc \in {"fork", "close"} => b[i] # s.fd
      BY <2>1, <3>1 DEF Waiting, Served
    <3>4. \A i, j \in DOMAIN b : b[i] = b[j] => i = j BY <3>1 DEF Waiting
    <3>. QED BY <2>4, <3>2, <3>3, <3>4 DEF Waiting, Fresh, b
  <2>8. Told' BY <2>1, <2>4, <2>5 DEF Told, Fresh
  <2>. QED BY <2>3, <2>4, <2>6, <2>7, <2>8 DEF Forks!ZombiesNoticed
<1>10. ASSUME NEW c \in Clients, Forks!ClientFails(c) \/ Forks!Recv(c) PROVE ForkInv'
  <2>1. PICK k \in {"failed", "text", "end"} :
          /\ s' = [s EXCEPT !.client[c] = k]
          /\ k = "end" => s.client[c] = "connected" /\ ~s.sent[c] /\ Forks!AtEnd(c)
    BY <1>10 DEF Forks!ClientFails, Forks!Recv
  <2>2. ForkTypes' BY <2>1, Zenon DEF ForkTypes
  <2>3. /\ s'.pc = s.pc /\ s'.fd = s.fd /\ s'.backlog = s.backlog /\ s'.handler = s.handler
        /\ s'.pending = s.pending /\ s'.child = s.child /\ s'.sent = s.sent /\ s'.closed = s.closed
        /\ s'.client[c] = k /\ \A d \in Clients : d # c => s'.client[d] = s.client[d]
    BY <2>1 DEF ForkTypes
  <2>4. Served' BY <2>1, <2>3 DEF Served, Fresh
  <2>5. Waiting' BY <1>0, <2>1, <2>3 DEF Waiting, Fresh
  <2>6. Told' BY <2>1, <2>3 DEF Told, Fresh, Forks!AtEnd
  <2>. QED BY <2>2, <2>3, <2>4, <2>5, <2>6 DEF Forks!ZombiesNoticed
<1>11. CASE Forks!Ended
  <2>1. s' = s BY <1>11 DEF Forks!Ended
  <2>. QED BY <2>1 DEF ForkTypes, Forks!ZombiesNoticed, Served, Waiting, Told, Fresh
<1>. QED BY <1>1, <1>2, <1>3, <1>4, <1>5, <1>6, <1>7, <1>8, <1>9, <1>10, <1>11
       DEF Forks!Next, Forks!Parent, Forks!Child

LEMMA ForkImplies == ForkInv => Forks!ZombiesNoticed /\ Forks!EndMeansNoChild
BY DEF ForkInv, Told, Forks!EndMeansNoChild

(***************************************************************************)
(* The echo.  What the client has and what is still on the way to it are     *)
(* together a part of what main received, which is a part of the message.    *)
(***************************************************************************)
LEMMA SameSeq ==
  ASSUME NEW a \in Seq(Nat), NEW b \in Seq(Nat), Len(a) = Len(b), \A i \in 1..Len(b) : a[i] = b[i]
  PROVE  a = b
OBVIOUS

LEMMA PartSplits ==
  ASSUME NEW b \in Seq(Nat), NEW p \in Apr!Parts(b)
  PROVE  /\ p \in Seq(Nat) /\ p # <<>>
         /\ Apr!After(b, p) \in Seq(Nat) /\ p \o Apr!After(b, p) = b
<1>1. PICK k \in 1..Len(b) : p = SubSeq(b, 1, k) BY DEF Apr!Parts
<1>2. p \in Seq(Nat) /\ Len(p) = k /\ \A i \in 1..k : p[i] = b[i] BY <1>1
<1>. DEFINE a == SubSeq(b, k + 1, Len(b))
<1>3. Apr!After(b, p) = a BY <1>2 DEF Apr!After
<1>4. a \in Seq(Nat) /\ Len(a) = Len(b) - k /\ \A i \in 1..(Len(b) - k) : a[i] = b[i + k] BY <1>1
<1>. HIDE DEF a
<1>5. p \o a \in Seq(Nat) /\ Len(p \o a) = Len(b) BY <1>1, <1>2, <1>4
<1>6. ASSUME NEW i \in 1..Len(b) PROVE (p \o a)[i] = b[i]
  <2>1. CASE i <= k BY <1>1, <1>2, <1>4, <2>1
  <2>2. CASE ~(i <= k)
    <3>0. i > k BY <2>2
    <3>1. (p \o a)[i] = a[i - k] BY <1>1, <1>2, <1>4, <3>0
    <3>2. i - k \in 1..(Len(b) - k) /\ (i - k) + k = i BY <1>1, <3>0
    <3>. QED BY <1>4, <3>1, <3>2
  <2>. QED BY <2>1, <2>2, Zenon
<1>7. p \o a = b
  <2>. DEFINE c == p \o a
  <2>1. c \in Seq(Nat) /\ Len(c) = Len(b) /\ \A i \in 1..Len(b) : c[i] = b[i] BY <1>5, <1>6
  <2>. HIDE DEF c
  <2>2. c = b BY <2>1, SameSeq
  <2>. QED BY <2>2 DEF c
<1>8. p # <<>>
  <2>1. k >= 1 /\ Len(<<>>) = 0 BY <1>1
  <2>. QED BY <1>2, <2>1
<1>. QED BY <1>2, <1>3, <1>4, <1>7, <1>8

LEMMA PartOfPart ==
  ASSUME NEW b \in Seq(Nat), NEW p \in Apr!Parts(b), NEW r \in Apr!Parts(p)
  PROVE  r \in Apr!Parts(b)
<1>1. PICK k \in 1..Len(b) : p = SubSeq(b, 1, k) BY DEF Apr!Parts
<1>2. PICK l \in 1..Len(p) : r = SubSeq(p, 1, l) BY DEF Apr!Parts
<1>3. p \in Seq(Nat) /\ Len(p) = k /\ \A i \in 1..k : p[i] = b[i] BY <1>1
<1>4. r \in Seq(Nat) /\ Len(r) = l /\ \A i \in 1..l : r[i] = p[i] BY <1>2, <1>3
<1>5. l \in 1..Len(b) /\ l <= k BY <1>1, <1>2, <1>3
<1>. DEFINE q == SubSeq(b, 1, l)
<1>6. q \in Seq(Nat) /\ Len(q) = l /\ \A i \in 1..l : q[i] = b[i] BY <1>5
<1>. HIDE DEF q
<1>7. r = q BY <1>1, <1>3, <1>4, <1>5, <1>6
<1>. QED BY <1>5, <1>7 DEF q, Apr!Parts

LEMMA PartsOfNothing == Apr!Parts(<<>>) = {}
BY DEF Apr!Parts

LEMMA PingIsSeq == Apr!ping \in Seq(Nat)
<1>1. \A n \in Nat : [i \in 1..n |-> i] \in Seq(Nat) OBVIOUS
<1>. QED BY <1>1, DemoAssumption DEF Apr!ping

EchoTypes ==
  s \in [program : {"echo"}, mpc : {"accept", "recv", "send", "close", "join", "ok", "failed"},
         buf : Seq(Nat), cpc : {"start", "send", "recv", "close", "exited"},
         rv : {"success", "error"}, echo : Seq(Nat), link : {"none", "pending", "open"},
         up : Seq(Nat), down : Seq(Nat), closed : BOOLEAN]

Sent ==
  /\ s.mpc \in {"accept", "recv"} => s.buf = <<>> /\ s.up \in Apr!Parts(Apr!ping) \cup {<<>>}
  /\ s.cpc \in {"start", "send"} => s.up = <<>>
  /\ s.buf \in Apr!Parts(Apr!ping) \cup {<<>>}

Echoed ==
  /\ s.echo \in Apr!Parts(s.buf) \cup {<<>>}
  /\ s.echo \o s.down \in Apr!Parts(s.buf) \cup {<<>>}
  /\ s.mpc \in {"accept", "recv", "send"} => s.down = <<>> /\ s.echo = <<>>
  /\ s.cpc \in {"start", "send", "recv"} => s.echo = <<>>

Checked ==
  /\ s.cpc \in {"close", "exited"} /\ s.rv = "success" => s.echo \in Apr!Parts(s.buf)
  /\ s.mpc = "ok" => s.cpc = "exited" /\ s.rv = "success"

EchoInv == EchoTypes /\ Sent /\ Echoed /\ Checked

LEMMA EchoInit == s \in Apr!EchoStarts => EchoInv
<1>. SUFFICES ASSUME s \in Apr!EchoStarts PROVE EchoInv OBVIOUS
<1>1. s = [program |-> "echo", mpc |-> "accept", buf |-> <<>>, cpc |-> "start", rv |-> "success",
           echo |-> <<>>, link |-> "none", up |-> <<>>, down |-> <<>>, closed |-> FALSE]
  BY DEF Apr!EchoStarts
<1>2. <<>> \in Seq(Nat) /\ <<>> \o <<>> = <<>> OBVIOUS
<1>3. EchoTypes BY <1>1, <1>2 DEF EchoTypes
<1>. QED BY <1>1, <1>2, <1>3 DEF EchoInv, Sent, Echoed, Checked

(* The steps that move no bytes.                                             *)
LEMMA EchoControl ==
  ASSUME EchoInv,
         \/ Apr!Connect \/ Apr!ConnectFails \/ Apr!ClientSendFails \/ Apr!ClientRecvFails
         \/ Apr!ClientClose \/ Apr!Accept \/ Apr!AcceptFails \/ Apr!ServerRecvFails
         \/ Apr!ServerSendFails \/ Apr!EchoJoin
  PROVE  EchoInv'
<1>. USE DEF EchoInv
<1>1. CASE Apr!Connect
  <2>1. s' = [s EXCEPT !.cpc = "send", !.link = "pending"] /\ s.cpc = "start"
    BY <1>1 DEF Apr!Connect
  <2>2. EchoTypes' BY <2>1, Zenon DEF EchoTypes
  <2>. QED BY <2>1, <2>2 DEF EchoTypes, Sent, Echoed, Checked
<1>2. CASE Apr!ConnectFails \/ Apr!ClientSendFails \/ Apr!ClientRecvFails
  <2>1. PICK pc \in {"close", "exited"} : s' = [s EXCEPT !.cpc = pc, !.rv = "error"]
    BY <1>2 DEF Apr!ConnectFails, Apr!ClientSendFails, Apr!ClientRecvFails, Apr!OnNoBytes
  <2>2. EchoTypes' BY <2>1, Zenon DEF EchoTypes
  <2>3. s.mpc # "ok" BY <1>2 DEF Checked, Apr!ConnectFails, Apr!ClientSendFails, Apr!ClientRecvFails
  <2>. QED BY <2>1, <2>2, <2>3 DEF EchoTypes, Sent, Echoed, Checked
<1>3. CASE Apr!ClientClose
  <2>1. s' = [s EXCEPT !.cpc = "exited", !.closed = TRUE] /\ s.cpc = "close"
    BY <1>3 DEF Apr!ClientClose
  <2>2. EchoTypes' BY <2>1, Zenon DEF EchoTypes
  <2>. QED BY <2>1, <2>2 DEF EchoTypes, Sent, Echoed, Checked
<1>4. CASE Apr!Accept
  <2>1. s' = [s EXCEPT !.link = "open", !.mpc = "recv"] /\ s.mpc = "accept" BY <1>4 DEF Apr!Accept
  <2>2. EchoTypes' BY <2>1, Zenon DEF EchoTypes
  <2>. QED BY <2>1, <2>2 DEF EchoTypes, Sent, Echoed, Checked
<1>5. CASE Apr!AcceptFails \/ Apr!ServerRecvFails \/ Apr!ServerSendFails
  <2>1. s' = [s EXCEPT !.mpc = "failed"]
    BY <1>5 DEF Apr!AcceptFails, Apr!ServerRecvFails, Apr!ServerSendFails
  <2>2. EchoTypes' BY <2>1, Zenon DEF EchoTypes
  <2>. QED BY <2>1, <2>2 DEF EchoTypes, Sent, Echoed, Checked
<1>6. CASE Apr!EchoJoin
  <2>1. s' = [s EXCEPT !.mpc = Apr!Verdict] /\ s.cpc = "exited" BY <1>6 DEF Apr!EchoJoin
  <2>2. Apr!Verdict \in {"ok", "failed"} /\ (Apr!Verdict = "ok" => s.rv = "success")
    BY DEF Apr!Verdict
  <2>3. EchoTypes' BY <2>1, <2>2, Zenon DEF EchoTypes
  <2>. QED BY <2>1, <2>2, <2>3 DEF EchoTypes, Sent, Echoed, Checked
<1>. QED BY <1>1, <1>2, <1>3, <1>4, <1>5, <1>6

(* The steps that move bytes.                                                *)
LEMMA EchoBytes ==
  ASSUME EchoInv,
         \/ Apr!ClientSend \/ Apr!ClientRecv \/ Apr!ServerRecv \/ Apr!ServerSend \/ Apr!ServerClose
  PROVE  EchoInv'
<1>. USE DEF EchoInv
<1>0. /\ s.up \in Seq(Nat) /\ s.buf \in Seq(Nat) /\ s.down \in Seq(Nat) /\ s.echo \in Seq(Nat)
      /\ \A b \in Seq(Nat) : <<>> \o b = b /\ b \o <<>> = b
  BY DEF EchoTypes
<1>1. CASE Apr!ClientSend
  <2>1. PICK part \in Apr!Parts(Apr!ping) : s' = [s EXCEPT !.up = @ \o part, !.cpc = "recv"]
    BY <1>1, Zenon DEF Apr!ClientSend
  <2>2. part \in Seq(Nat) BY PartSplits, PingIsSeq
  <2>3. s.up \o part = part /\ s.cpc = "send" BY <1>0, <1>1, <2>2, Zenon DEF Sent, Apr!ClientSend
  <2>4. s' = [s EXCEPT !.up = part, !.cpc = "recv"] BY <2>1, <2>3
  <2>5. EchoTypes' BY <2>2, <2>4, Zenon DEF EchoTypes
  <2>. QED BY <2>3, <2>4, <2>5 DEF EchoTypes, Sent, Echoed, Checked
<1>2. CASE Apr!ClientRecv
  <2>1. PICK part \in Apr!Parts(s.down) :
          s' = [s EXCEPT !.echo = part, !.down = Apr!After(s.down, part), !.cpc = "close"]
    BY <1>2, Zenon DEF Apr!ClientRecv
  <2>2. /\ part \in Seq(Nat) /\ part # <<>> /\ Apr!After(s.down, part) \in Seq(Nat)
        /\ part \o Apr!After(s.down, part) = s.down
    BY <1>0, PartSplits, Zenon
  <2>3. EchoTypes' BY <2>1, <2>2, Zenon DEF EchoTypes
  <2>4. s.cpc = "recv" /\ s.echo = <<>> /\ s.down # <<>>
    BY <1>2, <2>1, PartsOfNothing, Zenon DEF Apr!ClientRecv, Echoed
  <2>5. s.down \in Apr!Parts(s.buf) BY <1>0, <2>4 DEF Echoed
  <2>6. part \in Apr!Parts(s.buf) BY <1>0, <2>5, PartOfPart
  <2>7. /\ s'.mpc = s.mpc /\ s'.buf = s.buf /\ s'.cpc = "close" /\ s'.echo = part /\ s'.up = s.up
        /\ s'.down = Apr!After(s.down, part) /\ s'.rv = s.rv
    BY <2>1 DEF EchoTypes
  <2>. QED BY <2>2, <2>3, <2>4, <2>5, <2>6, <2>7, Zenon DEF Sent, Echoed, Checked
<1>3. CASE Apr!ServerRecv
  <2>1. PICK part \in Apr!Parts(s.up) :
          s' = [s EXCEPT !.buf = part, !.up = Apr!After(s.up, part), !.mpc = "send"]
    BY <1>3, Zenon DEF Apr!ServerRecv
  <2>2. /\ part \in Seq(Nat) /\ Apr!After(s.up, part) \in Seq(Nat) BY <1>0, PartSplits
  <2>3. EchoTypes' BY <2>1, <2>2, Zenon DEF EchoTypes
  <2>4. s.mpc = "recv" /\ s.up # <<>> BY <1>3, <2>1, PartsOfNothing, Zenon DEF Apr!ServerRecv
  <2>5. s.up \in Apr!Parts(Apr!ping) /\ s.cpc \notin {"start", "send"} BY <2>4 DEF Sent
  <2>6. part \in Apr!Parts(Apr!ping) BY <2>5, PartOfPart, PingIsSeq
  <2>7. s.down = <<>> /\ s.echo = <<>> /\ s.buf = <<>> /\ <<>> \o <<>> = <<>>
    BY <1>0, <2>4 DEF Echoed, Sent
  <2>8. ~(s.cpc \in {"close", "exited"} /\ s.rv = "success")
    BY <2>7, PartsOfNothing DEF Checked
  <2>9. /\ s'.mpc = "send" /\ s'.buf = part /\ s'.cpc = s.cpc /\ s'.echo = s.echo
        /\ s'.down = s.down /\ s'.rv = s.rv
    BY <2>1 DEF EchoTypes
  <2>. QED BY <2>3, <2>5, <2>6, <2>7, <2>8, <2>9 DEF Sent, Echoed, Checked
<1>4. CASE Apr!ServerSend
  <2>1. PICK part \in Apr!Parts(s.buf) : s' = [s EXCEPT !.down = @ \o part, !.mpc = "close"]
    BY <1>4, Zenon DEF Apr!ServerSend, Apr!ToSend
  <2>2. part \in Seq(Nat) BY <1>0, PartSplits
  <2>3. s.mpc = "send" /\ s.down = <<>> /\ s.echo = <<>> BY <1>4, Zenon DEF Apr!ServerSend, Echoed
  <2>4. s' = [s EXCEPT !.down = part, !.mpc = "close"] BY <1>0, <2>1, <2>2, <2>3
  <2>5. EchoTypes' BY <2>2, <2>4, Zenon DEF EchoTypes
  <2>6. /\ s'.mpc = "close" /\ s'.buf = s.buf /\ s'.cpc = s.cpc /\ s'.echo = s.echo
        /\ s'.down = part /\ s'.rv = s.rv /\ s'.up = s.up
    BY <2>4 DEF EchoTypes
  <2>7. s'.echo \o s'.down = part BY <1>0, <2>2, <2>3, <2>6
  <2>. QED BY <2>3, <2>5, <2>6, <2>7 DEF Sent, Echoed, Checked
<1>5. CASE Apr!ServerClose
  <2>1. PICK kept \in {s.down, <<>>} : s' = [s EXCEPT !.down = kept, !.mpc = "join"]
    BY <1>5, Zenon DEF Apr!ServerClose
  <2>2. EchoTypes'
    <3>1. <<>> \in Seq(Nat) OBVIOUS
    <3>2. kept \in Seq(Nat) BY <1>0, <3>1, Zenon
    <3>. QED BY <2>1, <3>2, Zenon DEF EchoTypes
  <2>3. /\ s'.mpc = "join" /\ s'.buf = s.buf /\ s'.cpc = s.cpc /\ s'.echo = s.echo
        /\ s'.down = kept /\ s'.rv = s.rv /\ s'.up = s.up
    BY <2>1 DEF EchoTypes
  <2>4. s'.echo \o s'.down \in {s.echo \o s.down, s.echo} BY <1>0, <2>3, Zenon
  <2>5. s.mpc = "close" BY <1>5, Zenon DEF Apr!ServerClose
  <2>. QED BY <2>2, <2>3, <2>4, <2>5, Zenon DEF Sent, Echoed, Checked
<1>. QED BY <1>1, <1>2, <1>3, <1>4, <1>5

LEMMA EchoNext == ASSUME EchoInv, Apr!EchoNext PROVE EchoInv'
<1>1. CASE s' = s BY <1>1 DEF EchoInv, EchoTypes, Sent, Echoed, Checked
<1>. QED BY <1>1, EchoControl, EchoBytes DEF Apr!EchoNext, Apr!EchoMain, Apr!Client, Apr!EchoEnded

LEMMA EchoImplies == EchoInv => Apr!EchoIsPrefix /\ Apr!OkMeansEcho
<1>. SUFFICES ASSUME EchoInv PROVE Apr!EchoIsPrefix /\ Apr!OkMeansEcho OBVIOUS
<1>1. \A b \in Apr!Parts(s.buf) : b \in Apr!Parts(Apr!ping)
  BY PartOfPart, PartsOfNothing, PingIsSeq DEF EchoInv, Sent
<1>. QED BY <1>1 DEF EchoInv, Sent, Echoed, Checked, Apr!EchoIsPrefix, Apr!OkMeansEcho

(***************************************************************************)
(* All of them.  Each invariant fixes s.program, so that a behaviour stays   *)
(* with the program it started.                                              *)
(***************************************************************************)
QueueInv == LockInv \/ SpscInv
DemoInv == BucketInv \/ QueueInv \/ CounterInv \/ EchoInv \/ ForkInv

LEMMA Names ==
  /\ BucketInv => s.program \in {"token", "leaky"}
  /\ LockInv => s.program = "lockfree"
  /\ SpscInv => s.program = "spsc"
  /\ CounterInv => s.program = "counter"
  /\ EchoInv => s.program = "echo"
  /\ ForkInv => s.program = "fork"
BY DEF BucketInv, BucketTypes, LockInv, LockTypes, SpscInv, SpscTypes, CounterInv, CounterTypes,
       EchoInv, EchoTypes, ForkInv, ForkTypes

LEMMA Steps ==
  /\ Bucket!Next => s.program \in {"token", "leaky"}
  /\ Queues!Next => s.program \in {"lockfree", "spsc"}
  /\ Apr!CounterNext => s.program = "counter"
  /\ Apr!EchoNext => s.program = "echo"
  /\ Forks!Next => s.program = "fork"
<1>1. Bucket!Next => s.program \in {"token", "leaky"} BY DEF Bucket!Next, Bucket!Running
<1>2. Queues!Next => s.program \in {"lockfree", "spsc"}
  BY DEF Queues!Next, Queues!Produce, Queues!Consume, Queues!Main, Queues!produce, Queues!consume,
         Queues!boost_queue_demo, Queues!Ended, Queues!Running
<1>3. Apr!CounterNext => s.program = "counter" BY DEF Apr!CounterNext, Apr!Counting
<1>4. Apr!EchoNext => s.program = "echo"
  BY DEF Apr!EchoNext, Apr!EchoMain, Apr!Client, Apr!EchoEnded, Apr!Echoing
<1>5. Forks!Next => s.program = "fork"
  <2>1. Forks!Parent \/ Forks!Ended => Forks!Running
    BY Zenon DEF Forks!Parent, Forks!Ended, Forks!SetUp, Forks!Accept, Forks!Fork, Forks!CloseNew,
                 Forks!Deliver, Forks!sigchld_handler, Forks!At
  <2>2. \A c \in Clients : Forks!Child(c) => Forks!Running
    BY Zenon DEF Forks!Child, Forks!Send, Forks!Exit
  <2>3. \A c \in Clients :
          Forks!Connect(c) \/ Forks!ClientFails(c) \/ Forks!Recv(c) => Forks!Running
    BY Zenon DEF Forks!Connect, Forks!ClientFails, Forks!Recv
  <2>. QED BY <2>1, <2>2, <2>3, Zenon DEF Forks!Next, Forks!Running
<1>. QED BY <1>1, <1>2, <1>3, <1>4, <1>5

LEMMA DemoInitInv == ASSUME SetFacts PROVE DemoInit => DemoInv
<1>. SUFFICES ASSUME s \in Queues!Starts PROVE QueueInv
  BY BucketInit, CounterInit, EchoInit, ForkInit DEF DemoInit, DemoInv
<1>. QED BY LockInit, SpscInit, Zenon DEF Queues!Starts, QueueInv

LEMMA DemoNextInv == ASSUME SetFacts PROVE DemoInv /\ [DemoNext]_s => DemoInv'
<1>. SUFFICES ASSUME DemoInv, [DemoNext]_s PROVE DemoInv' OBVIOUS
<1>1. CASE s' = s
  <2>1. BucketInv => BucketInv' BY <1>1, BucketNext
  <2>2. LockInv => LockInv' BY <1>1, LockSame, Zenon DEF LockInv, SameData, LockTypes, Phases, Queues!Uncounted
  <2>3. SpscInv => SpscInv' BY <1>1 DEF SpscInv, SpscTypes, Queues!SumAndQueue, Queues!Joined
  <2>4. CounterInv => CounterInv'
    BY <1>1 DEF CounterInv, CounterTypes, Counted, Ahead, Gain, Exclusive, Order,
                Apr!SharedOutlivesThreads
  <2>5. EchoInv => EchoInv' BY <1>1 DEF EchoInv, EchoTypes, Sent, Echoed, Checked
  <2>6. ForkInv => ForkInv'
    BY <1>1, Zenon DEF ForkInv, ForkTypes, Forks!ZombiesNoticed, Served, Waiting, Told, Fresh
  <2>. QED BY <2>1, <2>2, <2>3, <2>4, <2>5, <2>6 DEF DemoInv, QueueInv
<1>2. CASE Bucket!Next
  <2>1. BucketInv BY <1>2, Names, Steps DEF DemoInv, QueueInv
  <2>. QED BY <1>2, <2>1, BucketNext DEF DemoInv
<1>3. CASE Queues!Next
  <2>1. QueueInv BY <1>3, Names, Steps DEF DemoInv
  <2>. QED BY <1>3, <2>1, LockNext, SpscNext DEF DemoInv, QueueInv
<1>4. CASE Apr!CounterNext
  <2>1. CounterInv BY <1>4, Names, Steps DEF DemoInv, QueueInv
  <2>. QED BY <1>4, <2>1, CounterNext DEF DemoInv
<1>5. CASE Apr!EchoNext
  <2>1. EchoInv BY <1>5, Names, Steps DEF DemoInv, QueueInv
  <2>. QED BY <1>5, <2>1, EchoNext DEF DemoInv
<1>6. CASE Forks!Next
  <2>1. ForkInv BY <1>6, Names, Steps DEF DemoInv, QueueInv
  <2>. QED BY <1>6, <2>1, ForkNext DEF DemoInv
<1>. QED BY <1>1, <1>2, <1>3, <1>4, <1>5, <1>6 DEF DemoNext

LEMMA DemoImplies == ASSUME SetFacts PROVE DemoInv => BucketBounds /\ DemosComplete
<1>1. CASE BucketInv
  BY <1>1, Names, BucketImplies
  DEF BucketBounds, DemosComplete, Queues!Running, Apr!Counting, Apr!Echoing, Forks!Running
<1>2. CASE QueueInv
  <2>1. s.program \in {"lockfree", "spsc"} BY <1>2, Names DEF QueueInv
  <2>2. /\ Queues!ValuesDistinct /\ Queues!AllConsumed
        /\ Queues!SumAndQueue /\ Queues!SumIsComplete
    BY <1>2, Names, LockImplies, SpscImplies
    DEF QueueInv, Queues!ValuesDistinct, Queues!AllConsumed, Queues!SumAndQueue,
        Queues!SumIsComplete
  <2>. QED BY <2>1, <2>2 DEF BucketBounds, DemosComplete, Bucket!Running, Apr!Counting,
                             Apr!Echoing, Forks!Running
<1>3. CASE CounterInv
  BY <1>3, Names, CounterImplies
  DEF BucketBounds, DemosComplete, Bucket!Running, Queues!Running, Apr!Echoing, Forks!Running
<1>4. CASE EchoInv
  BY <1>4, Names, EchoImplies
  DEF BucketBounds, DemosComplete, Bucket!Running, Queues!Running, Apr!Counting, Forks!Running
<1>5. CASE ForkInv
  BY <1>5, Names, ForkImplies
  DEF BucketBounds, DemosComplete, Bucket!Running, Queues!Running, Apr!Counting, Apr!Echoing
<1>. QED BY <1>1, <1>2, <1>3, <1>4, <1>5 DEF DemoInv

INSTANCE FiniteSetTheorems

LEMMA SetFactsHold == SetFacts
<1>1. IsFiniteSet({}) /\ Cardinality({}) = 0 BY FS_EmptySet
<1>2. \A x : Cardinality({x}) = 1 BY FS_Singleton, Zenon
<1>3. \A S, x : IsFiniteSet(S) /\ x \notin S =>
        IsFiniteSet(S \cup {x}) /\ Cardinality(S \cup {x}) = Cardinality(S) + 1
  BY FS_AddElement
<1>7. ASSUME NEW S, NEW x, IsFiniteSet(S), x \in S
      PROVE  IsFiniteSet(S \ {x}) /\ Cardinality(S) = Cardinality(S \ {x}) + 1
  <2>1. IsFiniteSet(S \ {x}) /\ Cardinality(S \ {x}) = Cardinality(S) - 1
    BY <1>7, FS_RemoveElement
  <2>2. Cardinality(S) \in Nat BY <1>7, FS_CardinalityType
  <2>. QED BY <2>1, <2>2
<1>4. ASSUME NEW m \in Nat PROVE IsFiniteSet(1..m) /\ Cardinality(1..m) = m
  <2>1. IsFiniteSet(1..m) /\ Cardinality(1..m) = IF 1 > m THEN 0 ELSE m - 1 + 1 BY FS_Interval
  <2>. QED BY <2>1
<1>5. \A S : IsFiniteSet(S) => Cardinality(S) \in Nat BY FS_CardinalityType
<1>6. \A S, T : IsFiniteSet(S) /\ IsFiniteSet(T) =>
        Cardinality(S \X T) = Cardinality(S) * Cardinality(T)
  BY FS_Product
<1>. QED BY <1>1, <1>2, <1>3, <1>4, <1>5, <1>6, <1>7, Zenon DEF SetFacts

(* In whatever interval a token bucket grants no more than its capacity and  *)
(* what the rate gives for it, over its life no more than the rate; a leaky  *)
(* bucket grants no more than its first filling.                             *)
THEOREM BucketsBounded == DemoSpec => []BucketBounds
BY SetFactsHold, DemoInitInv, DemoNextInv, DemoImplies, PTL DEF DemoSpec

(* What the demos with several threads or processes print is complete, and   *)
(* the forking server forgets no child, however many threads, rounds, items  *)
(* and clients there are.                                                    *)
THEOREM DemosPrintAll == DemoSpec => []DemosComplete
BY SetFactsHold, DemoInitInv, DemoNextInv, DemoImplies, PTL DEF DemoSpec
===============================================================================
