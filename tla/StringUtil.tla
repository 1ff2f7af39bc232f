------------------------------ MODULE StringUtil -------------------------------
(***************************************************************************)
(* util/string_util.cpp and the string functions of util/TinyUtil.cpp.  A    *)
(* string is a sequence of the few characters its function tells apart.  The *)
(* two searches for a neighbour and tokenize take a step per turn of their   *)
(* loop, the other functions one step.                                       *)
(***************************************************************************)
EXTENDS ProgramBounds, SequencesExt

VARIABLE s    \* fn, str, a, b: the call and its strings; nums, value: the
              \* numbers of a search; i: the next place; oss, quoted:
              \* tokenize's buffer and flag; out: tokens, or a string
              \* returned; ret: a number returned; pc: running or done

Call(fn, str, a, b) ==
  [program |-> "strings", fn |-> fn, str |-> str, a |-> a, b |-> b,
   nums |-> <<>>, value |-> 0, i |-> 1, oss |-> <<>>, quoted |-> FALSE, out |-> <<>>,
   ret |-> 0, pc |-> "running"]

Strings(S, n) == UNION {[1..m -> S] : m \in 0..n}

(* The searches are made for numbers in ascending order; an empty list makes *)
(* them throw and is left out, as is an empty key of ReplaceValueAsKey.      *)
Sorted(nums) == \A k \in 2..Len(nums) : nums[k - 1] <= nums[k]

Starts ==
  {Call("trim_prefix_suffix", t, p, q) : t \in Strings({"a", "b"}, MaxString),
                                         p, q \in Strings({"a", "b"}, 2)}
  \cup {Call("trim", t, <<>>, <<>>) : t \in Strings({"x", "space", "tab"}, MaxString)}
  \cup {Call("ReplaceValueAsKey", t, key, <<"mask">>) :
          t \in Strings({"k", "v", "sep"}, MaxString),
          key \in Strings({"k", "v", "sep"}, 2) \ {<<>>}}
  \cup {Call("tokenize", t, <<>>, <<>>) : t \in Strings({"quote", "space", "comma", "x"}, MaxString)}
  \cup {Call("get_option", t, <<"-o">>, <<>>) : t \in Strings({"-o", "v", "w"}, MaxString)}
  \cup {[Call(fn, <<>>, <<>>, <<>>) EXCEPT !.nums = nums, !.value = v] :
          fn \in {"find_closed_smaller_value", "find_closed_bigger_value"},
          nums \in {n \in Strings(0..4, MaxString) : n # <<>> /\ Sorted(n)}, v \in 0..4}

Running == s.program = "strings"
InCall(fn) == s.fn = fn /\ s.pc = "running"
Return(out, ret) == s' = [s EXCEPT !.pc = "done", !.out = out, !.ret = ret]

From(str, k) == SubSeq(str, k, Len(str))

-------------------------------------------------------------------------------
startswith(str, prefix) ==
  Len(str) >= Len(prefix) /\ SubSeq(str, 1, Len(prefix)) = prefix

endswith(str, suffix) ==
  Len(str) >= Len(suffix) /\ From(str, Len(str) - Len(suffix) + 1) = suffix

(* substr(pos, count) with an unsigned count: one that is below zero has     *)
(* become huge and reaches to the end.                                       *)
Substr(str, pos, count) ==
  SubSeq(str, pos + 1, IF count < 0 THEN Len(str) ELSE Min({pos + count, Len(str)}))

trim_prefix_suffix ==
  LET keep == Len(s.str) - Len(s.a) - Len(s.b) IN
  /\ InCall("trim_prefix_suffix")
  /\ Return(IF startswith(s.str, s.a) /\ endswith(s.str, s.b)
            THEN Substr(s.str, Len(s.a), keep) ELSE s.str, 0)

(* find_first_not_of and find_last_not_of, and what the three functions keep *)
(* of a string; the trims of both files and trim_space agree.                *)
Kept == {k \in DOMAIN s.str : s.str[k] \notin {"space", "tab"}}
ltrim(str) == IF Kept = {} THEN <<>> ELSE Substr(str, Min(Kept) - 1, Len(str) - Min(Kept) + 2)
rtrim(str) == IF Kept = {} THEN <<>> ELSE Substr(str, 0, Max(Kept))
trimmed(str) ==
  IF Kept = {} THEN <<>> ELSE Substr(str, Min(Kept) - 1, Max(Kept) - Min(Kept) + 1)

trim ==
  /\ InCall("trim")
  /\ Return(<<trimmed(s.str), ltrim(s.str), rtrim(s.str)>>, 0)

(* str.find(sub, from): the first place from there on, or 0 for npos.        *)
Find(str, sub, from) ==
  LET at == {k \in from..(Len(str) - Len(sub) + 1) : SubSeq(str, k, k + Len(sub) - 1) = sub}
  IN  IF at = {} THEN 0 ELSE Min(at)

(* The separator is searched from the beginning of the key.                  *)
ReplaceValueAsKey ==
  LET nBegin == Find(s.str, s.a, 1)
      nEnd == Find(s.str, <<"sep">>, nBegin)
      head == SubSeq(s.str, 1, nBegin - 1) \o s.a \o s.b
  IN  /\ InCall("ReplaceValueAsKey")
      /\ \/ nBegin = 0 /\ Return(s.str, 0)
         \/ nBegin > 0 /\ Return(head \o (IF nEnd = 0 THEN <<>> ELSE From(s.str, nEnd)), 1)

(* The loop goes on behind an option that is the last argument.              *)
get_option ==
  LET at == {k \in 1..(Len(s.str) - 1) : s.str[k] = s.a[1]} IN
  /\ InCall("get_option")
  /\ Return(IF at = {} THEN <<>> ELSE <<s.str[Min(at) + 1]>>,
            IF \E k \in DOMAIN s.str : s.str[k] = s.a[1] THEN 1 ELSE 0)

-------------------------------------------------------------------------------
Delimiters == {"space", "comma"}

Token(oss) ==
  LET kept == {k \in DOMAIN oss : oss[k] \notin Delimiters}
  IN  IF kept = {} THEN <<>> ELSE SubSeq(oss, Min(kept), Max(kept))

(* Every delimiter outside quotation marks ends a token, also one that       *)
(* follows a delimiter; the characters of the quotation stay in the token.   *)
tokenize ==
  /\ InCall("tokenize")
  /\ \/ /\ s.i <= Len(s.str)
        /\ LET c == s.str[s.i]
               oss == Append(s.oss, c)
               ends == c \in Delimiters /\ ~s.quoted
           IN  s' = [s EXCEPT !.i = @ + 1, !.quoted = IF c = "quote" THEN ~@ ELSE @,
                              !.oss = IF ends THEN <<>> ELSE oss,
                              !.out = IF ends THEN Append(@, Token(oss)) ELSE @]
     \/ /\ s.i > Len(s.str)
        /\ LET tokens == IF s.oss = <<>> THEN s.out ELSE Append(s.out, Token(s.oss))
           IN  Return(tokens, Len(tokens))

(* s.i is i + 1.  The first number is tested before the loop: it has no      *)
(* neighbour below it, so a smaller value gives -1, as i - 1 does.           *)
find_closed_smaller_value ==
  LET diff == s.value - s.nums[s.i] IN
  /\ InCall("find_closed_smaller_value")
  /\ \/ s.i > Len(s.nums) /\ Return(<<>>, s.i - 1)
     \/ s.i <= Len(s.nums) /\ diff > 0 /\ s' = [s EXCEPT !.i = @ + 1]
     \/ s.i <= Len(s.nums) /\ diff = 0 /\ Return(<<>>, s.i - 1)
     \/ s.i <= Len(s.nums) /\ diff < 0 /\ Return(<<>>, s.i - 2)

(* The same from the back: s.i - 1 numbers are behind i.                     *)
Back == Len(s.nums) - s.i

find_closed_bigger_value ==
  LET diff == s.nums[Back + 1] - s.value IN
  /\ InCall("find_closed_bigger_value")
  /\ \/ Back < 0 /\ Return(<<>>, Back)
     \/ Back >= 0 /\ diff > 0 /\ s' = [s EXCEPT !.i = @ + 1]
     \/ Back >= 0 /\ diff = 0 /\ Return(<<>>, Back)
     \/ Back >= 0 /\ diff < 0 /\ Return(<<>>, IF s.i = 1 THEN -1 ELSE Back + 1)

Progress ==
  Running /\ (trim_prefix_suffix \/ trim \/ ReplaceValueAsKey \/ get_option \/ tokenize
               \/ find_closed_smaller_value \/ find_closed_bigger_value)

Ended == Running /\ s.pc = "done" /\ UNCHANGED s

Next == Progress \/ Ended

(* The functions run on one thread and wait for nothing.                     *)
Fairness == WF_s(Progress)
-------------------------------------------------------------------------------
Returned(fn) == s.fn = fn /\ s.pc = "done"
Blank(str) == Range(str) \subseteq {"space", "tab"}

(* trim_prefix_suffix takes both ends off, or nothing; where they overlap    *)
(* only the prefix.  The trims take off all blanks at their ends and no      *)
(* other, and leave nothing of a string of blanks.                           *)
TrimsRight ==
  /\ Returned("trim_prefix_suffix") =>
       LET both == startswith(s.str, s.a) /\ endswith(s.str, s.b)
           overlap == Len(s.a) + Len(s.b) > Len(s.str)
       IN  /\ both /\ ~overlap => s.str = s.a \o s.out \o s.b
           /\ both /\ overlap => s.str = s.a \o s.out
           /\ ~both => s.out = s.str
  /\ Returned("trim") =>
       \E k \in 0..Len(s.str), m \in 0..Len(s.str) :
         LET left == SubSeq(s.str, 1, k)
             right == From(s.str, m + 1)
             middle == SubSeq(s.str, k + 1, m)
         IN  /\ Blank(left) /\ Blank(right)
             /\ IF middle = <<>> THEN Blank(s.str) /\ s.out = <<<<>>, <<>>, <<>>>>
                ELSE /\ ~Blank(<<Head(middle)>>) /\ ~Blank(<<Last(middle)>>)
                     /\ s.out = <<middle, middle \o right, left \o middle>>

(* After ReplaceValueAsKey no character is left of the value behind the      *)
(* first key, up to the separator or the end, and all else is as it was,     *)
(* provided that the key holds no separator.                                 *)
ValueMasked ==
  Returned("ReplaceValueAsKey") /\ "sep" \notin Range(s.a) =>
    \/ s.ret = 0 /\ s.out = s.str /\ ~\E x \in DOMAIN s.str : startswith(From(s.str, x), s.a)
    \/ /\ s.ret = 1
       /\ \E x \in DOMAIN s.str, y \in 0..Len(s.str) :
            LET value == SubSeq(s.str, x + Len(s.a), y) IN
            /\ startswith(From(s.str, x), s.a) /\ x + Len(s.a) <= y + 1
            /\ \A w \in 1..(x - 1) : ~startswith(From(s.str, w), s.a)
            /\ "sep" \notin Range(value) /\ (y < Len(s.str) => s.str[y + 1] = "sep")
            /\ s.out = SubSeq(s.str, 1, x - 1) \o s.a \o s.b \o From(s.str, y + 1)

Separates(k) ==
  s.str[k] \in Delimiters /\ Cardinality({x \in 1..k : s.str[x] = "quote"}) % 2 = 0

(* When every quotation mark is closed, the tokens in order are the string   *)
(* without its separators: no character is lost and none in quotation marks  *)
(* cut off.  The count is one for every separator and one for what follows   *)
(* the last.                                                                 *)
TokensKeepAll ==
  Returned("tokenize") /\ ~s.quoted =>
    LET places == [k \in DOMAIN s.str |-> k]
        text == SelectSeq(places, LAMBDA k : ~Separates(k))
        tail == s.str # <<>> /\ ~Separates(Len(s.str))
    IN  /\ FlattenSeq(s.out) = [n \in DOMAIN text |-> s.str[text[n]]]
        /\ s.ret = Len(s.str) - Len(text) + (IF tail THEN 1 ELSE 0)

(* find_closed_smaller_value gives the last place with the largest number up *)
(* to the value (the first, if it is the value), -1 if there is none, and    *)
(* the size of the list, which is no place, if all numbers are smaller.      *)
(* find_closed_bigger_value mirrors it, but gives -1 in both extreme cases.  *)
NeighbourRight ==
  LET nums == s.nums
      v == s.value
      n == Len(nums)
      at == s.ret + 1
  IN  /\ Returned("find_closed_smaller_value") =>
           /\ (v < nums[1]) = (s.ret = -1) /\ (v > nums[n]) = (s.ret = n)
           /\ at \in 1..n =>
                /\ nums[at] <= v /\ \A k \in 1..n : nums[k] <= v => nums[k] <= nums[at]
                /\ (at > 1 /\ nums[at] = v) => nums[at - 1] < v
      /\ Returned("find_closed_bigger_value") =>
           /\ (v > nums[n] \/ v < nums[1]) = (s.ret = -1)
           /\ at \in 1..n =>
                /\ nums[at] >= v /\ \A k \in 1..n : nums[k] >= v => nums[k] >= nums[at]
                /\ (at < n /\ nums[at] = v) => nums[at + 1] > v

(* get_option finds no value only if has_option does not find the option,    *)
(* or if it is given once, as the last argument.                             *)
OptionFound ==
  Returned("get_option") /\ s.out = <<>> /\ s.ret = 1 =>
    Last(s.str) = "-o" /\ \A k \in 1..(Len(s.str) - 1) : s.str[k] # "-o"
===============================================================================
