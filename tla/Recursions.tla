------------------------------ MODULE Recursions -------------------------------
(***************************************************************************)
(* The katas that replace or spell out a recursion.  coinChange (kata05),    *)
(* knapsack (kata16) and the Fibonacci functions (kata02): a step is one     *)
(* turn of an inner loop, so that the invariants can speak of the            *)
(* half-filled table; fib3 and fib4 run side by side.  subsets (kata06) and  *)
(* permute (kata07) with their recursive backtrace: the numbers are 1, 2,    *)
(* ..., n, as both choose numbers by their place (permute compares them, and *)
(* is given distinct ones); calls is the stack of active calls of backtrace, *)
(* each with its loop variable.                                              *)
(***************************************************************************)
EXTENDS KataBounds, Sequences, SequencesExt, FiniteSets, FiniteSetsExt

VARIABLE s   \* a table: fn, a, b, bound: the call; dp, i, j: table and loop variables
             \* prev, curr: fib4; pc, result
             \* backtrace: fn, n: the call; calls, track, res

Lists(S, n) == UNION {[1..m -> S] : m \in 0..n}

Frame(fn, a, b, bound, dp, i) ==
  [fn |-> fn, a |-> a, b |-> b, bound |-> bound, dp |-> dp, i |-> i, j |-> 1,
   prev |-> 1, curr |-> 1, pc |-> "loop", result |-> -1]

(* dp(amount + 1, amount + 1) with dp[0] = 0.                                *)
CallsCoin ==
  {Frame("coin", a, <<>>, m, [x \in 0..m |-> IF x = 0 THEN 0 ELSE m + 1], 1) :
     a \in Lists(Coins, MaxCoins), m \in 0..MaxAmount}

CallsKnapsack ==
  UNION {{Frame("knapsack", a, b, W, [r \in 0..Len(a) |-> [c \in 0..W |-> 0]], 1) :
            b \in [DOMAIN a -> Worths], W \in 0..MaxAmount} : a \in Lists(Weights, MaxItems)}

(* dp[1] = dp[2] = 1; the calls with N < 3 return at once.                   *)
CallsFib ==
  {Frame("fib", <<>>, <<>>, n, [x \in 0..n |-> IF x \in {1, 2} THEN 1 ELSE 0], 3) :
     n \in 3..MaxNumber}

TableCalls == CallsCoin \cup CallsKnapsack \cup CallsFib

NextRow == s' = [s EXCEPT !.i = s.i + 1, !.j = 1]

Return(r) == s' = [s EXCEPT !.pc = "done", !.result = r]

-------------------------------------------------------------------------------
Usable(coin) == s.i - coin >= 0

coinChange ==
  /\ s.pc = "loop" /\ s.fn = "coin"
  /\ \/ /\ s.i <= s.bound /\ s.j <= Len(s.a)
        /\ s' = [s EXCEPT !.j = s.j + 1,
                          !.dp[s.i] = IF Usable(s.a[s.j])
                                      THEN Min({@, s.dp[s.i - s.a[s.j]] + 1}) ELSE @]
     \/ s.i <= s.bound /\ s.j > Len(s.a) /\ NextRow
     \/ s.i > s.bound /\ Return(IF s.dp[s.bound] > s.bound THEN -1 ELSE s.dp[s.bound])

RowBefore_Same == s.i

(* The row an item is added to: the one without it.                          *)
RowBefore == s.i - 1

knapsack ==
  /\ s.pc = "loop" /\ s.fn = "knapsack"
  /\ \/ /\ s.i <= Len(s.a) /\ s.j <= s.bound
        /\ s' = [s EXCEPT !.j = s.j + 1, !.dp[s.i][s.j] =
             IF s.a[s.i] <= s.j
             THEN Max({s.dp[s.i - 1][s.j], s.dp[RowBefore][s.j - s.a[s.i]] + s.b[s.i]})
             ELSE s.dp[s.i - 1][s.j]]
     \/ s.i <= Len(s.a) /\ s.j > s.bound /\ NextRow
     \/ s.i > Len(s.a) /\ Return(s.dp[Len(s.a)][s.bound])

NewPrev == s.curr

fib ==
  /\ s.pc = "loop" /\ s.fn = "fib"
  /\ \/ /\ s.i <= s.bound
        /\ s' = [s EXCEPT !.i = s.i + 1, !.dp[s.i] = s.dp[s.i - 1] + s.dp[s.i - 2],
                          !.prev = NewPrev, !.curr = s.prev + s.curr]
     \/ s.i > s.bound /\ Return(s.curr)

fib1[n \in 0..MaxNumber] ==
  CASE n = 0 -> 0 [] n \in {1, 2} -> 1 [] OTHER -> fib1[n - 1] + fib1[n - 2]

(* fib2's helper: memo[n] is 0 until it is known.                            *)
RECURSIVE helper(_, _)
helper(memo, n) ==
  IF n \in {1, 2} THEN [memo |-> memo, val |-> 1]
  ELSE IF memo[n] # 0 THEN [memo |-> memo, val |-> memo[n]]
  ELSE LET x == helper(memo, n - 1)
           y == helper(x.memo, n - 2)
       IN  [memo |-> [y.memo EXCEPT ![n] = x.val + y.val], val |-> x.val + y.val]

fib2(n) == helper([x \in 0..n |-> 0], n).val

TableNext == coinChange \/ knapsack \/ fib

TableDone == s.pc = "done"
-------------------------------------------------------------------------------
(* Amounts that exactly n coins make.                                        *)
Made[n \in 0..s.bound] ==
  IF n = 0 THEN {0} ELSE {x + s.a[c] : x \in Made[n - 1], c \in DOMAIN s.a} \cap 0..s.bound

Fewest(x) == LET ns == {n \in 0..s.bound : x \in Made[n]}
             IN  IF ns = {} THEN s.bound + 1 ELSE Min(ns)

(* Every finished entry of coinChange's table is the least number of coins   *)
(* for its amount, "impossible" only if no coins make it; the last entry, or *)
(* -1, is returned.                                                          *)
CoinTable ==
  s.fn = "coin" =>
    /\ \A x \in 0..s.bound : x < s.i => s.dp[x] = Fewest(x)
    /\ TableDone => s.result = IF Fewest(s.bound) > s.bound THEN -1 ELSE Fewest(s.bound)

SumOver(f, S) == FoldSet(LAMBDA x, acc : f[x] + acc, 0, S)
Best(r, c) == Max({SumOver(s.b, S) : S \in {T \in SUBSET (1..r) : SumOver(s.a, T) <= c}})

(* "dp[i][j] is the greatest value of the first i items at capacity j": every *)
(* finished entry of the table is (no item has weight 0, which column 0 of   *)
(* the table would miss), and the last one is returned.                      *)
KnapsackTable ==
  s.fn = "knapsack" =>
    /\ \A r \in 0..Len(s.a), c \in 0..s.bound :
         r < s.i \/ (r = s.i /\ c < s.j) => s.dp[r][c] = Best(r, c)
    /\ TableDone => s.result = Best(Len(s.a), s.bound)

(* The four Fibonacci functions agree.                                       *)
FibsAgree ==
  s.fn = "fib" /\ TableDone => {s.result, s.dp[s.bound], fib2(s.bound)} = {fib1[s.bound]}
-------------------------------------------------------------------------------
(* subsets lists the empty track on entry; an empty vector returns at once.  *)
PickCalls ==
  {[fn |-> fn, n |-> n, calls |-> IF n = 0 THEN <<>> ELSE <<1>>, track |-> <<>>,
    res |-> IF fn = "subsets" /\ n > 0 THEN <<<<>>>> ELSE <<>>] :
     fn \in {"subsets", "permute"}, n \in 0..MaxPick}

Current == Last(s.calls)

(* Where the loop of the next call of kata06's backtrace starts.             *)
Start == Current + 1

(* A complete permutation is stored and its call returns at once.              *)
Select ==
  LET chosen == Append(s.track, Current)
      full == Len(chosen) = s.n
  IN  /\ s.calls # <<>> /\ Current <= s.n
      /\ s.fn = "permute" => Current \notin ToSet(s.track)
      /\ s' = [s EXCEPT !.track = chosen,
                        !.calls = Append(@, IF s.fn = "subsets" THEN Start
                                            ELSE IF full THEN s.n + 1 ELSE 1),
                        !.res = IF s.fn = "subsets" \/ full THEN Append(@, chosen) ELSE @]

Skip ==
  /\ s.calls # <<>> /\ Current <= s.n /\ s.fn = "permute" /\ Current \in ToSet(s.track)
  /\ s' = [s EXCEPT !.calls[Len(s.calls)] = Current + 1]

Undone == Front(s.track)

(* A call returns and its caller goes on with the next number.               *)
Back ==
  /\ s.calls # <<>> /\ Current > s.n
  /\ LET k == Len(s.calls) - 1
     IN  s' = IF k = 0 THEN [s EXCEPT !.calls = <<>>]
              ELSE [s EXCEPT !.track = Undone, !.calls = [Front(@) EXCEPT ![k] = @ + 1]]

PickNext == Select \/ Skip \/ Back

PickDone == s.calls = <<>>
-------------------------------------------------------------------------------
(* track holds exactly the choices of the calls that are still active.       *)
TrackMatches ==
  IF PickDone THEN s.track = <<>>
  ELSE s.track = [k \in 1..(Len(s.calls) - 1) |-> s.calls[k]]

Precedes(x, y) ==
  \/ Len(x) < Len(y) /\ x = SubSeq(y, 1, Len(x))
  \/ \E k \in DOMAIN x \cap DOMAIN y : x[k] < y[k] /\ \A j \in 1..(k - 1) : x[j] = y[j]

(* Every subset of a non-empty vector, and every permutation, is listed      *)
(* once, in lexicographic order.                                             *)
ListedOnce ==
  PickDone /\ s.n > 0 =>
    /\ \A a, b \in DOMAIN s.res : a < b => Precedes(s.res[a], s.res[b])
    /\ s.fn = "subsets" => {ToSet(t) : t \in ToSet(s.res)} = SUBSET (1..s.n)
    /\ s.fn = "permute" => {t \in [1..s.n -> 1..s.n] : IsInjective(t)} = ToSet(s.res)
===============================================================================
