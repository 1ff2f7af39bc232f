------------------------------- MODULE Buckets --------------------------------
(***************************************************************************)
(* algorithm/token_bucket.cpp and leaky_bucket.cpp.  request first refills   *)
(* (token) or drains (leaky) the bucket for the time since the last request, *)
(* rounded down to whole tokens, and then takes the requested tokens or      *)
(* refuses.  A token bucket starts empty, a leaky one full, and nothing ever *)
(* fills a leaky bucket again.  A tick of the clock is one unit of           *)
(* elapsed_ms.  A bucket left alone for long enough overflows the product of *)
(* time and rate; tokens_ itself is not wrapped, since it would take a       *)
(* thousand such gaps in a row to bring it to the end of int.                *)
(***************************************************************************)
EXTENDS Integers, FiniteSetsExt

CONSTANTS Capacity, Rate, Second, Half, Requests, MaxGap, MaxTime    \* see ProgramBounds

VARIABLE s    \* now, tokens (tokens_), last (last_refill_, last_leak_);
              \* history: granted in all; from, before: where and with what
              \* an observer started to measure; overlong: a product overflowed

Bucket(kind, filling) ==
  [program |-> kind, now |-> 0, tokens |-> filling, last |-> 0,
   granted |-> 0, from |-> 0, before |-> 0, overlong |-> FALSE]

Starts == {Bucket("token", 0), Bucket("leaky", Capacity)}

Running == s.program \in {"token", "leaky"}

(* int arithmetic: two's complement, division truncates toward zero.         *)
Wrap(x) == ((x + Half) % (2 * Half)) - Half
Quot(a, b) == IF a >= 0 THEN a \div b ELSE -((-a) \div b)

elapsed_ms == Wrap(s.now - s.last)

amount == Quot(Wrap(elapsed_ms * Rate), Second)

Refilled == Min({Capacity, s.tokens + amount})

Leaked == Max({0, s.tokens - amount})

Level == IF s.program = "token" THEN Refilled ELSE Leaked

(* The time of the last request is not moved.                                *)
Since_Kept == s.last
Since == s.now

request(n) ==
  LET taken == IF n <= Level THEN n ELSE 0
  IN  s' = [s EXCEPT !.last = Since, !.tokens = Level - taken, !.granted = @ + taken,
                     !.overlong = @ \/ (s.now - s.last) * Rate >= Half]

Tick ==
  /\ s.now < MaxTime /\ s.now - s.last < MaxGap
  /\ s' = [s EXCEPT !.now = @ + 1]

Observe == s.program = "token" /\ s' = [s EXCEPT !.from = s.now, !.before = s.granted]

Next == Running /\ (Tick \/ Observe \/ \E n \in Requests : request(n))
-------------------------------------------------------------------------------
(* The tokens of a bucket stay between nothing and its capacity, as long as  *)
(* no product of time and rate overflows.  Even then a token bucket does not *)
(* rise above its capacity, nor a leaky one fall below nothing.              *)
TokensInRange ==
  /\ ~s.overlong => s.tokens \in 0..Capacity
  /\ s.program = "token" => s.tokens <= Capacity
  /\ s.program = "leaky" => s.tokens >= 0

(* In whatever interval, a token bucket grants no more than its capacity and *)
(* what the rate gives for that interval.  No overflow makes it grant more.  *)
BurstBound ==
  s.program = "token" =>
    Second * (s.granted - s.before) <= Second * Capacity + Rate * (s.now - s.from)

(* A token bucket starts empty, so over its life it grants no more than the  *)
(* rate, however the roundings fall and whatever overflows.                  *)
LongRunBound == s.program = "token" => Second * (s.granted + s.tokens) <= Rate * s.last

(* Every token of a leaky bucket is accounted for: granted and left are at   *)
(* most the initial filling, unless a product overflowed, and fall short of  *)
(* it by no more than the leak rate allows for the time passed.              *)
Accounting ==
  s.program = "leaky" =>
    /\ ~s.overlong => s.granted + s.tokens <= Capacity
    /\ Second * (s.granted + s.tokens) >= Second * Capacity - Rate * s.last
===============================================================================
