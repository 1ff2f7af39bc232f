------------------------------ MODULE TextKatas --------------------------------
(***************************************************************************)
(* The katas on strings: fix_spell_error (kata105), lengthOfLongestSubstring *)
(* (kata107), validPalindrome (kata109) and tokenize with trim (kata14).  A  *)
(* string is a sequence of Chars; tokenize tells a quote, two delimiters and *)
(* another character apart.  A step is a turn of a loop.                     *)
(***************************************************************************)
EXTENDS KataBounds, Sequences, SequencesExt, FiniteSetsExt

VARIABLE s   \* fn, str: the call; i: the next character
             \* j: left end of kata107's window, right end of kata109's
             \* out: fixed_string or tokens; maxlen: longest length so far
             \* oss: tokenize's buffer; same, second: counters of kata105
             \* quoted, delimiter: flags of tokenize; pc, result

Frame(fn, str, j) ==
  [fn |-> fn, str |-> str, i |-> 1, j |-> j, out |-> <<>>, oss |-> <<>>, maxlen |-> 0,
   same |-> 0, second |-> 0, quoted |-> FALSE, delimiter |-> FALSE, pc |-> "loop", result |-> <<>>]

Texts(S, n) == UNION {[1..m -> S] : m \in 0..n}

Calls ==
  {Frame("spell", t, 0) : t \in Texts(Chars, MaxText)}
  \cup {Frame("longest", t, 1) : t \in Texts(Chars, MaxText - 1)}
  \cup {Frame("palindrome", t, Len(t)) : t \in Texts({1, 2}, MaxText)}
  \cup {Frame("tokenize", t, 0) : t \in Texts({"quote", "space", "comma", "x"}, MaxText - 2)}

Running(fn) == s.pc = "loop" /\ s.fn = fn
Return(r) == s' = [s EXCEPT !.pc = "done", !.result = r]
c == s.str[s.i]

-------------------------------------------------------------------------------
(* A third equal letter in a row, or a pair behind a pair, is not appended.  *)
Dropped(same) == same >= 3 \/ (same = 2 /\ s.second >= 1)

fix_spell_error ==
  /\ Running("spell")
  /\ LET repeats == s.i > 1 /\ c = s.str[s.i - 1]
         same == IF repeats THEN s.same + 1 ELSE 1
     IN  \/ /\ s.i <= Len(s.str)
            /\ s' = [s EXCEPT !.i = s.i + 1, !.same = same,
                              !.second = CASE ~repeats /\ s.same >= 2 -> 1
                                           [] repeats /\ same < 3 /\ @ >= 1 -> @ + 1
                                           [] OTHER -> @,
                              !.out = IF Dropped(same) THEN @ ELSE Append(@, c)]
         \/ s.i > Len(s.str) /\ Return(s.out)

(* The while loop moves the left end behind the other occurrence of str[to]. *)
WindowFrom(str, from, to) ==
  Max({from} \cup {k + 1 : k \in {x \in from..(to - 1) : str[x] = str[to]}})

lengthOfLongestSubstring ==
  /\ Running("longest")
  /\ \/ /\ s.i <= Len(s.str)
        /\ LET left == WindowFrom(s.str, s.j, s.i)
           IN  s' = [s EXCEPT !.i = s.i + 1, !.j = left, !.maxlen = Max({@, s.i - left + 1})]
     \/ s.i > Len(s.str) /\ Return(s.maxlen)

isPalindrome(left, right) ==
  \A k \in 0..(right - left) : s.str[left + k] = s.str[right - k]

SkipOne == isPalindrome(s.i + 1, s.j) \/ isPalindrome(s.i, s.j - 1)

validPalindrome ==
  /\ Running("palindrome")
  /\ \/ s.i >= s.j /\ Return(TRUE)
     \/ s.i < s.j /\ c # s.str[s.j] /\ Return(SkipOne)
     \/ s.i < s.j /\ c = s.str[s.j] /\ s' = [s EXCEPT !.i = s.i + 1, !.j = s.j - 1]

-------------------------------------------------------------------------------
Delimiters == {"space", "comma"}

trim(str) ==
  LET kept == {k \in DOMAIN str : str[k] \notin Delimiters}
  IN  IF kept = {} THEN <<>> ELSE SubSeq(str, Min(kept), Max(kept))

(* A delimiter outside quotation marks that follows none ends a token.       *)
Ends(quoted) == ~s.delimiter /\ ~quoted

tokenize ==
  /\ Running("tokenize")
  /\ \/ /\ s.i <= Len(s.str)
        /\ LET oss == Append(s.oss, c)
               quoted == IF c = "quote" THEN ~s.quoted ELSE s.quoted
               ends == c \in Delimiters /\ Ends(quoted)
           IN  s' = [s EXCEPT !.i = s.i + 1, !.quoted = quoted, !.delimiter = c \in Delimiters,
                              !.oss = IF ends THEN <<>> ELSE oss,
                              !.out = IF ends THEN Append(@, trim(oss)) ELSE @]
     \/ /\ s.i > Len(s.str)
        /\ Return(IF s.oss = <<>> THEN s.out ELSE Append(s.out, trim(s.oss)))

Next == fix_spell_error \/ lengthOfLongestSubstring \/ validPalindrome \/ tokenize

Done == s.pc = "done"
-------------------------------------------------------------------------------
(* The rules of kata105 from left to right: a letter is left out that would  *)
(* be the third in a row, or the second of a pair right behind a pair.       *)
Kept(out, x) ==
  LET n == Len(out) IN
  IF \/ n >= 2 /\ out[n] = x /\ out[n - 1] = x
     \/ n >= 3 /\ out[n] = x /\ out[n - 1] = out[n - 2]
  THEN out ELSE Append(out, x)
Repaired(str) == FoldLeft(Kept, <<>>, str)

(* Where a letter begins that stands more than once in a row.                *)
Doubled(str) ==
  {k \in 1..(Len(str) - 1) : str[k] = str[k + 1] /\ (k > 1 => str[k - 1] # str[k])}

(* What fix_spell_error has appended holds no letter three times in a row    *)
(* and no two pairs in a row, and it is what the rules make of the letters   *)
(* read, if one letter is doubled or a second one right behind it.  A        *)
(* doubled letter farther on is shortened too, since second_same_char_count  *)
(* is never reset: for the AABBCC of rule 3 nothing more is claimed.         *)
SpellFixed ==
  s.fn = "spell" =>
    LET read == SubSeq(s.str, 1, s.i - 1)
        doubled == Doubled(read)
        oneError == /\ Cardinality(doubled) <= 2
                    /\ \A x, y \in doubled : \A k \in x..(y - 2) : read[k] = read[k + 1]
    IN  /\ oneError => s.out = Repaired(read)
        /\ \A k \in 3..Len(s.out) :
             /\ ~(s.out[k] = s.out[k - 1] /\ s.out[k - 1] = s.out[k - 2])
             /\ k > 3 => ~(s.out[k] = s.out[k - 1] /\ s.out[k - 2] = s.out[k - 3])

Unrepeated(from, to) == \A x, y \in from..to : x # y => s.str[x] # s.str[y]

(* The window holds no character twice and could not begin earlier; the      *)
(* length returned is that of the longest such substring.                    *)
LongestRight ==
  s.fn = "longest" =>
    /\ Unrepeated(s.j, s.i - 1) /\ (s.j > 1 => ~Unrepeated(s.j - 1, s.i - 1))
    /\ Done => s.result = Max({0} \cup {to - from + 1 : <<from, to>> \in
         {p \in (DOMAIN s.str) \X (DOMAIN s.str) : p[1] <= p[2] /\ Unrepeated(p[1], p[2])}})

(* validPalindrome tells whether the string is a palindrome when at most one *)
(* character is left out, wherever that is.                                  *)
AlmostPalindrome ==
  Done /\ s.fn = "palindrome" =>
    s.result = \E t \in {s.str} \cup {RemoveAt(s.str, k) : k \in DOMAIN s.str} : t = Reverse(t)

(* The characters that separate tokens.                                      *)
Separates(k) ==
  s.str[k] \in Delimiters /\ Cardinality({x \in 1..k : s.str[x] = "quote"}) % 2 = 0

(* When every quotation mark is closed, the tokens that are not empty are    *)
(* the longest parts between separators, in order and with all that is in    *)
(* quotation marks; an empty token comes only first or last.                 *)
TokensRight ==
  Done /\ s.fn = "tokenize" /\ ~s.quoted =>
    LET first(k) == ~Separates(k) /\ (k > 1 => Separates(k - 1))
        end(k) == Max({x \in k..Len(s.str) : \A y \in k..x : ~Separates(y)})
        parts == SelectSeq([k \in DOMAIN s.str |-> k], first)
    IN  /\ SelectSeq(s.result, LAMBDA t : t # <<>>) =
             [n \in DOMAIN parts |-> SubSeq(s.str, parts[n], end(parts[n]))]
        /\ \A k \in 2..(Len(s.result) - 1) : s.result[k] # <<>>
===============================================================================
