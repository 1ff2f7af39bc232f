--------------------------- MODULE TinyServerProofs ----------------------------
(***************************************************************************)
(* For any descriptors, any size of the line buffer and clients that send    *)
(* and go as they like: what run() holds and visits, and what a client gets  *)
(* back.                                                                     *)
(***************************************************************************)
EXTENDS TinyServer, SequenceTheorems, WellFoundedInduction, TLAPS

SafeSpec == Init /\ [][Next]_vars

Chars == {"a", "n", "nl"}

(* A set of numbers that is not empty has a least element: what induction    *)
(* over the bytes of a piece of input rests on.                              *)
LEMMA LeastNumber ==
  ASSUME NEW T \in SUBSET Nat, T # {} PROVE \E n \in T : \A m \in T : n <= m
<1>. DEFINE R == OpToRel(<, Nat)
<1>1. IsWellFoundedOn(R, Nat) BY NatLessThanWellFounded
<1>2. \A x, y \in Nat : x < y => <<x, y>> \in R BY DEF OpToRel
<1>3. PICK n \in T : \A m \in T : ~(<<m, n>> \in R)
  <2>. HIDE DEF R
  <2>. QED BY <1>1, WFMin, Zenon
<1>4. \A m \in T : ~(m < n) BY <1>2, <1>3
<1>. QED BY <1>4

(* f holds the states of the loop up to the i-th byte of w.                  *)
Loops(f, s, w, n) == f = [i \in 0..n |-> IF i = 0 THEN s ELSE Store(f[i - 1], w[i])]

LEMMA LoopExtends ==
  ASSUME NEW s, NEW w, NEW n \in Nat, NEW f, Loops(f, s, w, n)
  PROVE  \E g : Loops(g, s, w, n + 1)
<1>. DEFINE new == Store(f[n], w[n + 1])
            g == [i \in 0..(n + 1) |-> IF i = n + 1 THEN new ELSE f[i]]
            h == [i \in 0..(n + 1) |-> IF i = 0 THEN s ELSE Store(g[i - 1], w[i])]
<1>. HIDE DEF new
<1>1. ASSUME NEW i \in 0..(n + 1) PROVE g[i] = h[i]
  <2>1. CASE i = 0
    <3>1. f[0] = s BY DEF Loops
    <3>. QED BY <2>1, <3>1
  <2>2. CASE i \in 1..n
    <3>1. f[i] = Store(f[i - 1], w[i]) BY <2>2 DEF Loops
    <3>2. g[i] = f[i] /\ g[i - 1] = f[i - 1] BY <2>2
    <3>3. h[i] = Store(g[i - 1], w[i]) BY <2>2
    <3>. QED BY <3>1, <3>2, <3>3
  <2>3. CASE i = n + 1
    <3>1. g[n + 1] = new /\ g[n] = f[n] OBVIOUS
    <3>2. h[n + 1] = Store(g[n], w[n + 1]) OBVIOUS
    <3>. QED BY <2>3, <3>1, <3>2 DEF new
  <2>. QED BY <2>1, <2>2, <2>3
<1>2. g = h BY <1>1
<1>3. Loops(g, s, w, n + 1) BY <1>2 DEF Loops
<1>. QED BY <1>3

(* The recursion of Stored is well defined: every state of the loop comes    *)
(* from the one before it.                                                   *)
LEMMA StoredIsLoop ==
  ASSUME NEW s, NEW w \in Seq(Chars)
  PROVE  /\ Stored(s, w)[0] = s
         /\ \A i \in 1..Len(w) : Stored(s, w)[i] = Store(Stored(s, w)[i - 1], w[i])
<1>. DEFINE T == {n \in Nat : ~\E f : Loops(f, s, w, n)}
<1>1. T = {}
  <2>. SUFFICES ASSUME T # {} PROVE FALSE OBVIOUS
  <2>1. PICK n \in T : \A m \in T : n <= m BY LeastNumber
  <2>2. n # 0
    <3>1. Loops([i \in 0..0 |-> s], s, w, 0) BY DEF Loops
    <3>. QED BY <3>1, <2>1
  <2>3. n - 1 \in Nat /\ n - 1 \notin T BY <2>1, <2>2
  <2>4. PICK f : Loops(f, s, w, n - 1) BY <2>3
  <2>5. \E g : Loops(g, s, w, (n - 1) + 1) BY <2>3, <2>4, LoopExtends
  <2>6. (n - 1) + 1 = n BY <2>3
  <2>. QED BY <2>1, <2>5, <2>6
<1>2. \E f : Loops(f, s, w, Len(w))
  <2>1. Len(w) \in Nat BY LenProperties
  <2>. QED BY <1>1, <2>1
<1>3. Stored(s, w) = CHOOSE f : Loops(f, s, w, Len(w)) BY DEF Stored, Loops
<1>4. Loops(Stored(s, w), s, w, Len(w)) BY <1>2, <1>3
<1>. QED BY <1>4 DEF Loops
-------------------------------------------------------------------------------
(* The counters of an fd_state, and when there is something to write: after  *)
(* do_write a buffer that was written to its end is empty.                   *)
Counters(s) ==
  /\ s.n_written <= s.write_upto /\ s.write_upto <= Len(s.buffer)
  /\ Len(s.buffer) <= MAX_LINE
  /\ s.writing <=> s.n_written < s.write_upto
  /\ s.n_written < Len(s.buffer) \/ s.buffer = <<>>

(* What was sent, o, and what a buffer b still holds behind the n bytes      *)
(* written of it are the rot13 of g, the bytes received.                     *)
Answers(b, n, o, g) ==
  /\ Len(g) = Len(o) + Len(b) - n
  /\ \A j \in 1..Len(o) : o[j] = rot13_char(g[j])
  /\ \A j \in 1..Len(b) : j > n => b[j] = rot13_char(g[Len(o) - n + j])

(* What is to be written of b, up to u, ends with an end of line, and        *)
(* nothing behind it does; so did what was written before.                   *)
Lines(b, wr, u, o) ==
  /\ \A j \in 1..Len(b) : j > u => b[j] # "nl"
  /\ wr => b[u] = "nl"
  /\ ~wr => o = <<>> \/ o[Len(o)] = "nl"

Faithful(s, o, g) == Answers(s.buffer, s.n_written, o, g) /\ Lines(s.buffer, s.writing, s.write_upto, o)

(* The fd_state with given members.                                          *)
Fd(b, wr, n, u) == [buffer |-> b, writing |-> wr, n_written |-> n, write_upto |-> u]

LEMMA FdType ==
  ASSUME NEW b \in Seq(Chars), NEW wr \in BOOLEAN, NEW n \in Nat, NEW u \in Nat
  PROVE  /\ Fd(b, wr, n, u) \in FdState
         /\ Fd(b, wr, n, u).buffer = b /\ Fd(b, wr, n, u).writing = wr
         /\ Fd(b, wr, n, u).n_written = n /\ Fd(b, wr, n, u).write_upto = u
BY DEF Fd, FdState, Chars

LEMMA FdRight ==
  ASSUME NEW b \in Seq(Chars), NEW wr \in BOOLEAN, NEW n \in Nat, NEW u \in Nat,
         n <= u, u <= Len(b), Len(b) <= MAX_LINE, wr <=> n < u, n < Len(b) \/ b = <<>>
  PROVE  /\ Fd(b, wr, n, u) \in FdState /\ Counters(Fd(b, wr, n, u))
         /\ \A o, g : Answers(b, n, o, g) /\ Lines(b, wr, u, o) => Faithful(Fd(b, wr, n, u), o, g)
<1>1. /\ Fd(b, wr, n, u).buffer = b /\ Fd(b, wr, n, u).writing = wr
      /\ Fd(b, wr, n, u).n_written = n /\ Fd(b, wr, n, u).write_upto = u
  BY DEF Fd
<1>2. Counters(Fd(b, wr, n, u)) BY <1>1 DEF Counters
<1>3. \A o, g : Answers(b, n, o, g) /\ Lines(b, wr, u, o) => Faithful(Fd(b, wr, n, u), o, g)
  BY <1>1 DEF Faithful
<1>. QED BY <1>2, <1>3, FdType

LEMMA Rot13Type ==
  ASSUME NEW c \in Chars PROVE rot13_char(c) \in Chars /\ (rot13_char(c) = "nl" <=> c = "nl")
BY DEF rot13_char, Chars

(* One turn of the loop in do_read keeps the counters right, full buffer or  *)
(* not.                                                                      *)
LEMMA StoreCounters ==
  ASSUME NEW s \in FdState, Counters(s), NEW c \in Chars
  PROVE  /\ Store(s, c) \in FdState /\ Counters(Store(s, c))
         /\ s.writing => Store(s, c).writing
<1>. DEFINE b == IF Len(s.buffer) < MAX_LINE THEN Append(s.buffer, rot13_char(c)) ELSE s.buffer
<1>1. /\ s.buffer \in Seq(Chars) /\ Len(s.buffer) \in Nat /\ s.writing \in BOOLEAN
      /\ s.n_written \in Nat /\ s.write_upto \in Nat /\ MAX_LINE \in Nat /\ MAX_LINE > 0
  BY ServerAssumption DEF FdState, Chars
<1>2. /\ b \in Seq(Chars) /\ Len(b) \in Nat /\ Len(b) <= MAX_LINE /\ Len(b) >= Len(s.buffer)
      /\ Len(b) <= Len(s.buffer) + 1 /\ s.n_written < Len(b)
  <2>1. CASE Len(s.buffer) < MAX_LINE
    <3>1. /\ Append(s.buffer, rot13_char(c)) \in Seq(Chars)
          /\ Len(Append(s.buffer, rot13_char(c))) = Len(s.buffer) + 1
      BY <1>1, Rot13Type, AppendProperties
    <3>. QED BY <1>1, <2>1, <3>1 DEF Counters
  <2>2. CASE ~(Len(s.buffer) < MAX_LINE)
    <3>1. Len(s.buffer) = MAX_LINE /\ s.buffer # <<>> BY <1>1, <2>2 DEF Counters
    <3>. QED BY <1>1, <2>2, <3>1 DEF Counters
  <2>. QED BY <2>1, <2>2
<1>. DEFINE wr == IF c = "nl" THEN TRUE ELSE s.writing
            u == IF c = "nl" THEN Len(b) ELSE s.write_upto
<1>3. Store(s, c) = Fd(b, wr, s.n_written, u) BY DEF Store, FdState, Fd
<1>4. wr \in BOOLEAN BY <1>1, Zenon
<1>5. u \in Nat /\ s.n_written <= u /\ u <= Len(b) BY <1>1, <1>2 DEF Counters
<1>6. wr <=> s.n_written < u BY <1>1, <1>2 DEF Counters
<1>8. s.writing => wr BY Zenon
<1>. HIDE DEF b, wr, u
<1>7. /\ Store(s, c) \in FdState
      /\ Store(s, c).buffer = b /\ Store(s, c).writing = wr
      /\ Store(s, c).n_written = s.n_written /\ Store(s, c).write_upto = u
  <2>1. PICK n \in Nat : n = s.n_written BY <1>1
  <2>2. /\ Fd(b, wr, n, u) \in FdState
        /\ Fd(b, wr, n, u).buffer = b /\ Fd(b, wr, n, u).writing = wr
        /\ Fd(b, wr, n, u).n_written = n /\ Fd(b, wr, n, u).write_upto = u
    <3>1. b \in Seq(Chars) /\ u \in Nat BY <1>2, <1>5
    <3>. QED BY <1>4, <3>1, FdType
  <2>. QED BY <1>3, <2>1, <2>2, Zenon
<1>9. Counters(Store(s, c)) BY <1>1, <1>2, <1>5, <1>6, <1>7 DEF Counters
<1>. QED BY <1>7, <1>8, <1>9, Zenon

(* While there is room it also keeps the answer right.                       *)
LEMMA StoreFaithful ==
  ASSUME NEW s \in FdState, Counters(s), Len(s.buffer) < MAX_LINE, NEW c \in Chars,
         NEW o \in Seq(Chars), NEW g \in Seq(Chars), Faithful(s, o, g)
  PROVE  /\ Faithful(Store(s, c), o, Append(g, c))
         /\ Len(Store(s, c).buffer) = Len(s.buffer) + 1
<1>1. PICK a \in Seq(Chars), n \in Nat, u \in Nat, w \in BOOLEAN :
        a = s.buffer /\ n = s.n_written /\ u = s.write_upto /\ w = s.writing
  BY DEF FdState, Chars
<1>2. /\ n <= u /\ u <= Len(a) /\ Len(a) < MAX_LINE /\ (w <=> n < u)
      /\ Answers(a, n, o, g) /\ Lines(a, w, u, o)
  BY <1>1 DEF Counters, Faithful
<1>3. Len(a) \in Nat /\ Len(o) \in Nat /\ Len(g) \in Nat BY LenProperties
<1>4. PICK r \in Chars : r = rot13_char(c) BY Rot13Type
<1>5. r = "nl" <=> c = "nl" BY <1>4, Rot13Type
<1>6. PICK b \in Seq(Chars), h \in Seq(Chars) : b = Append(a, r) /\ h = Append(g, c)
  BY AppendProperties
<1>7. /\ Len(b) = Len(a) + 1 /\ b[Len(a) + 1] = r
      /\ \A j \in 1..Len(a) : b[j] = a[j]
  BY <1>3, <1>6, AppendProperties
<1>8. /\ Len(h) = Len(g) + 1 /\ h[Len(g) + 1] = c
      /\ \A j \in 1..Len(g) : h[j] = g[j]
  BY <1>3, <1>6, AppendProperties
<1>9. s = Fd(a, w, n, u) BY <1>1 DEF FdState, Fd
<1>10. /\ c = "nl" => Store(s, c) = Fd(b, TRUE, n, Len(b))
       /\ c # "nl" => Store(s, c) = Fd(b, w, n, u)
  <2>1. CASE c = "nl" BY <1>2, <1>4, <1>6, <1>9, <2>1 DEF Store, Fd
  <2>2. CASE c # "nl" BY <1>2, <1>4, <1>6, <1>9, <2>2 DEF Store, Fd
  <2>. QED BY <2>1, <2>2
<1>11. Len(g) = Len(o) + Len(a) - n BY <1>2 DEF Answers
<1>12. \A j \in 1..Len(o) : o[j] = rot13_char(h[j])
  <2>1. ASSUME NEW j \in 1..Len(o) PROVE o[j] = rot13_char(h[j])
    <3>1. j \in 1..Len(g) BY <1>2, <1>3, <1>11
    <3>2. o[j] = rot13_char(g[j]) BY <1>2 DEF Answers
    <3>. QED BY <1>8, <3>1, <3>2
  <2>. QED BY <2>1
<1>13. \A j \in 1..Len(b) : j > n => b[j] = rot13_char(h[Len(o) - n + j])
  <2>1. ASSUME NEW j \in 1..Len(a), j > n PROVE b[j] = rot13_char(h[Len(o) - n + j])
    <3>1. Len(o) - n + j \in 1..Len(g) BY <1>2, <1>3, <1>11, <2>1
    <3>2. a[j] = rot13_char(g[Len(o) - n + j]) BY <1>2, <2>1, Zenon DEF Answers
    <3>. QED BY <1>7, <1>8, <2>1, <3>1, <3>2
  <2>2. b[Len(a) + 1] = rot13_char(h[Len(o) - n + (Len(a) + 1)])
    <3>1. Len(o) - n + (Len(a) + 1) = Len(g) + 1 BY <1>2, <1>3, <1>11
    <3>. QED BY <1>4, <1>7, <1>8, <3>1
  <2>3. \A j \in 1..Len(b) : j \in 1..Len(a) \/ j = Len(a) + 1 BY <1>3, <1>7
  <2>. QED BY <2>1, <2>2, <2>3
<1>14. Answers(b, n, o, h) BY <1>3, <1>7, <1>8, <1>11, <1>12, <1>13 DEF Answers
<1>15. CASE c = "nl"
  <2>1. PICK v \in BOOLEAN, m \in Nat : v = TRUE /\ m = Len(b) BY LenProperties
  <2>2. Lines(b, v, m, o) BY <1>3, <1>5, <1>7, <1>15, <2>1 DEF Lines
  <2>3. Store(s, c) = Fd(b, v, n, m) BY <1>10, <1>15, <2>1
  <2>4. /\ Store(s, c).buffer = b /\ Store(s, c).writing = v
        /\ Store(s, c).n_written = n /\ Store(s, c).write_upto = m
    <3>1. /\ Fd(b, v, n, m).buffer = b /\ Fd(b, v, n, m).writing = v
          /\ Fd(b, v, n, m).n_written = n /\ Fd(b, v, n, m).write_upto = m
      BY DEF Fd
    <3>. QED BY <2>3, <3>1
  <2>. QED BY <1>1, <1>6, <1>7, <1>14, <2>2, <2>4 DEF Faithful
<1>16. CASE c # "nl"
  <2>1. ASSUME NEW j \in 1..Len(b), j > u PROVE b[j] # "nl"
    <3>1. CASE j \in 1..Len(a) BY <1>2, <1>7, <2>1, <3>1 DEF Lines
    <3>2. CASE j = Len(a) + 1 BY <1>5, <1>7, <1>16, <3>2
    <3>. QED BY <1>3, <1>7, <3>1, <3>2
  <2>2. w => u \in 1..Len(a) BY <1>2, <1>3
  <2>3. w => b[u] = "nl" BY <1>2, <1>7, <2>2 DEF Lines
  <2>4. ~w => o = <<>> \/ o[Len(o)] = "nl" BY <1>2 DEF Lines
  <2>5. Lines(b, w, u, o) BY <2>1, <2>3, <2>4 DEF Lines
  <2>6. Store(s, c) = Fd(b, w, n, u) BY <1>10, <1>16
  <2>7. /\ Store(s, c).buffer = b /\ Store(s, c).writing = w
        /\ Store(s, c).n_written = n /\ Store(s, c).write_upto = u
    <3>1. /\ Fd(b, w, n, u).buffer = b /\ Fd(b, w, n, u).writing = w
          /\ Fd(b, w, n, u).n_written = n /\ Fd(b, w, n, u).write_upto = u
      BY DEF Fd
    <3>. QED BY <2>6, <3>1
  <2>. QED BY <1>1, <1>6, <1>7, <1>14, <2>5, <2>7 DEF Faithful
<1>. QED BY <1>15, <1>16

(* The loop in do_read: by induction on the bytes it has taken.              *)
LEMMA ReadCounters ==
  ASSUME NEW s \in FdState, Counters(s), NEW w \in Seq(Chars)
  PROVE  \A i \in 0..Len(w) : /\ Stored(s, w)[i] \in FdState /\ Counters(Stored(s, w)[i])
                              /\ s.writing => Stored(s, w)[i].writing
<1>. DEFINE a(i) == Stored(s, w)[i]
            P(i) == a(i) \in FdState /\ Counters(a(i)) /\ (s.writing => a(i).writing)
            T == {i \in 0..Len(w) : ~P(i)}
<1>1. Len(w) \in Nat BY LenProperties
<1>2. a(0) = s /\ \A i \in 1..Len(w) : a(i) = Store(a(i - 1), w[i]) BY StoredIsLoop
<1>. HIDE DEF a
<1>3. T = {}
  <2>. SUFFICES ASSUME T # {} PROVE FALSE OBVIOUS
  <2>1. T \in SUBSET Nat BY <1>1
  <2>2. PICK n \in T : \A m \in T : n <= m BY <2>1, LeastNumber
  <2>3. n # 0 BY <1>1, <1>2, <2>2
  <2>4. n \in 1..Len(w) /\ n - 1 \in 0..Len(w) /\ n - 1 \notin T BY <1>1, <2>2, <2>3
  <2>5. P(n - 1) BY <2>4
  <2>6. w[n] \in Chars BY <2>4, ElementOfSeq
  <2>7. /\ Store(a(n - 1), w[n]) \in FdState /\ Counters(Store(a(n - 1), w[n]))
        /\ a(n - 1).writing => Store(a(n - 1), w[n]).writing
    BY <2>5, <2>6, StoreCounters
  <2>. QED BY <1>2, <2>2, <2>4, <2>5, <2>7
<1>. QED BY <1>3 DEF a

(* g and the first i bytes of w.                                             *)
Taken(g, w, i) == [j \in 1..(Len(g) + i) |-> IF j <= Len(g) THEN g[j] ELSE w[j - Len(g)]]

LEMMA TakenGrows ==
  ASSUME NEW g \in Seq(Chars), NEW w \in Seq(Chars)
  PROVE  /\ Taken(g, w, 0) = g /\ Taken(g, w, Len(w)) = g \o w
         /\ \A i \in 0..Len(w) : Taken(g, w, i) \in Seq(Chars)
         /\ \A i \in 1..Len(w) : Taken(g, w, i) = Append(Taken(g, w, i - 1), w[i])
<1>1. Len(g) \in Nat /\ Len(w) \in Nat BY LenProperties
<1>2. (\A j \in 1..Len(g) : g[j] \in Chars) /\ (\A j \in 1..Len(w) : w[j] \in Chars) BY ElementOfSeq
<1>3. ASSUME NEW i \in 0..Len(w) PROVE Taken(g, w, i) \in Seq(Chars) /\ Len(Taken(g, w, i)) = Len(g) + i
  <2>1. \A j \in 1..(Len(g) + i) : (IF j <= Len(g) THEN g[j] ELSE w[j - Len(g)]) \in Chars
    BY <1>1, <1>2
  <2>2. Len(g) + i \in Nat BY <1>1
  <2>. QED BY <2>1, <2>2 DEF Taken
<1>4. Taken(g, w, 0) = g
  <2>1. Taken(g, w, 0) \in Seq(Chars) /\ Len(Taken(g, w, 0)) = Len(g) BY <1>1, <1>3
  <2>2. \A j \in 1..Len(g) : Taken(g, w, 0)[j] = g[j] BY <1>1 DEF Taken
  <2>. QED BY <2>1, <2>2, SeqEqual
<1>5. Taken(g, w, Len(w)) = g \o w
  <2>1. Taken(g, w, Len(w)) \in Seq(Chars) /\ Len(Taken(g, w, Len(w))) = Len(g) + Len(w) BY <1>1, <1>3
  <2>2. /\ g \o w \in Seq(Chars) /\ Len(g \o w) = Len(g) + Len(w)
        /\ \A j \in 1..(Len(g) + Len(w)) : (g \o w)[j] = IF j <= Len(g) THEN g[j] ELSE w[j - Len(g)]
    BY ConcatProperties
  <2>3. \A j \in 1..(Len(g) + Len(w)) : Taken(g, w, Len(w))[j] = (g \o w)[j] BY <2>2 DEF Taken
  <2>. QED BY <2>1, <2>2, <2>3, SeqEqual
<1>6. ASSUME NEW i \in 1..Len(w) PROVE Taken(g, w, i) = Append(Taken(g, w, i - 1), w[i])
  <2>1. i - 1 \in 0..Len(w) /\ i \in 0..Len(w) BY <1>1
  <2>2. PICK p \in Seq(Chars), q \in Seq(Chars) : p = Taken(g, w, i - 1) /\ q = Taken(g, w, i)
    BY <1>3, <2>1
  <2>3. Len(p) = Len(g) + (i - 1) /\ Len(q) = Len(g) + i BY <1>3, <2>1, <2>2
  <2>4. PICK r \in Seq(Chars) : r = Append(p, w[i]) BY <1>2, AppendProperties
  <2>5. Len(r) = Len(p) + 1 /\ r[Len(p) + 1] = w[i] /\ \A j \in 1..Len(p) : r[j] = p[j]
    BY <1>2, <2>4, AppendProperties
  <2>6. ASSUME NEW j \in 1..Len(q) PROVE q[j] = r[j]
    <3>1. CASE j \in 1..Len(p)
      <4>1. p[j] = IF j <= Len(g) THEN g[j] ELSE w[j - Len(g)] BY <1>1, <2>2, <2>3, <3>1 DEF Taken
      <4>2. q[j] = IF j <= Len(g) THEN g[j] ELSE w[j - Len(g)] BY <1>1, <2>2, <2>3 DEF Taken
      <4>. QED BY <2>5, <3>1, <4>1, <4>2
    <3>2. CASE j = Len(g) + i
      <4>1. q[j] = w[j - Len(g)] BY <1>1, <2>2, <3>2 DEF Taken
      <4>2. j - Len(g) = i /\ j = Len(p) + 1 BY <1>1, <2>3, <3>2
      <4>. QED BY <2>5, <4>1, <4>2
    <3>. QED BY <1>1, <2>3, <3>1, <3>2
  <2>7. Len(q) = Len(r) BY <1>1, <2>3, <2>5
  <2>8. q = r BY <2>6, <2>7, SeqEqual
  <2>. QED BY <2>2, <2>4, <2>8
<1>. QED BY <1>3, <1>4, <1>5, <1>6

LEMMA ReadFaithful ==
  ASSUME NEW s \in FdState, Counters(s), NEW w \in Seq(Chars), Len(s.buffer) + Len(w) <= MAX_LINE,
         NEW o \in Seq(Chars), NEW g \in Seq(Chars), Faithful(s, o, g)
  PROVE  Faithful(Stored(s, w)[Len(w)], o, g \o w)
<1>. DEFINE a(i) == Stored(s, w)[i]
            P(i) == Faithful(a(i), o, Taken(g, w, i)) /\ Len(a(i).buffer) = Len(s.buffer) + i
            T == {i \in 0..Len(w) : ~P(i)}
<1>1. /\ Len(w) \in Nat /\ Len(s.buffer) \in Nat /\ MAX_LINE \in Nat
  BY LenProperties, ServerAssumption DEF FdState
<1>2. a(0) = s /\ \A i \in 1..Len(w) : a(i) = Store(a(i - 1), w[i]) BY StoredIsLoop
<1>3. \A i \in 0..Len(w) : a(i) \in FdState /\ Counters(a(i)) BY ReadCounters
<1>. HIDE DEF a
<1>4. T = {}
  <2>. SUFFICES ASSUME T # {} PROVE FALSE OBVIOUS
  <2>1. T \in SUBSET Nat BY <1>1
  <2>2. PICK n \in T : \A m \in T : n <= m BY <2>1, LeastNumber
  <2>3. n # 0 BY <1>1, <1>2, <2>2, TakenGrows
  <2>4. n \in 1..Len(w) /\ n - 1 \in 0..Len(w) /\ n - 1 \notin T BY <1>1, <2>2, <2>3
  <2>5. PICK q \in FdState, h \in Seq(Chars) : q = a(n - 1) /\ h = Taken(g, w, n - 1)
    BY <1>3, <2>4, TakenGrows
  <2>6. Counters(q) /\ Faithful(q, o, h) /\ Len(q.buffer) = Len(s.buffer) + (n - 1)
    BY <1>3, <2>4, <2>5
  <2>7. w[n] \in Chars BY <2>4, ElementOfSeq
  <2>8. Len(q.buffer) < MAX_LINE BY <1>1, <2>4, <2>6
  <2>9. /\ Faithful(Store(q, w[n]), o, Append(h, w[n]))
        /\ Len(Store(q, w[n]).buffer) = Len(q.buffer) + 1
    BY <2>6, <2>7, <2>8, StoreFaithful
  <2>10. a(n) = Store(q, w[n]) /\ Taken(g, w, n) = Append(h, w[n]) BY <1>2, <2>4, <2>5, TakenGrows
  <2>11. Len(a(n).buffer) = Len(s.buffer) + n BY <1>1, <2>4, <2>6, <2>9, <2>10
  <2>. QED BY <2>2, <2>9, <2>10, <2>11
<1>5. P(Len(w))
  <2>1. Len(w) \in 0..Len(w) /\ Len(w) \notin T BY <1>1, <1>4
  <2>. HIDE DEF P
  <2>. QED BY <2>1, Zenon
<1>. QED BY <1>5, TakenGrows DEF a
-------------------------------------------------------------------------------
(* do_write, whatever part of the line send takes.                           *)
LEMMA SentRight ==
  ASSUME NEW s \in FdState, Counters(s), s.writing, NEW k \in 0..(s.write_upto - s.n_written)
  PROVE  /\ Sent(s, k) \in FdState /\ Counters(Sent(s, k))
         /\ SubSeq(s.buffer, s.n_written + 1, s.n_written + k) \in Seq(Chars)
         /\ \A o \in Seq(Chars), g \in Seq(Chars) : Faithful(s, o, g) =>
              Faithful(Sent(s, k), o \o SubSeq(s.buffer, s.n_written + 1, s.n_written + k), g)
<1>1. PICK b \in Seq(Chars), n \in Nat, u \in Nat : b = s.buffer /\ n = s.n_written /\ u = s.write_upto
  BY DEF FdState, Chars
<1>2. Len(b) \in Nat /\ n < u /\ u <= Len(b) /\ Len(b) <= MAX_LINE /\ k \in 0..(u - n)
  BY <1>1, LenProperties DEF Counters
<1>3. PICK m \in Nat : m = n + k BY <1>2
<1>4. m >= n /\ m <= u BY <1>2, <1>3
<1>5. s = Fd(b, TRUE, n, u) BY <1>1 DEF FdState, Fd
<1>6. PICK p \in Seq(Chars) : p = SubSeq(b, n + 1, m)
  <2>1. \A j \in (n + 1)..m : j \in 1..Len(b) BY <1>2, <1>4
  <2>2. \A j \in (n + 1)..m : b[j] \in Chars BY <2>1, ElementOfSeq
  <2>3. n + 1 \in Int /\ m \in Int OBVIOUS
  <2>4. SubSeq(b, n + 1, m) \in Seq(Chars) BY <2>2, <2>3, SubSeqProperties
  <2>. QED BY <2>4
<1>7. Len(p) = k /\ \A j \in 1..k : p[j] = b[n + j]
  <2>1. n + 1 \in 1..(Len(b) + 1) /\ m \in (n + 1) - 1..Len(b) BY <1>2, <1>3, <1>4
  <2>2. Len(p) = IF n + 1 <= m THEN m - (n + 1) + 1 ELSE 0 BY <1>6, <2>1, SubSeqProperties
  <2>3. \A j \in 1..m - (n + 1) + 1 : p[j] = b[n + 1 + j - 1] BY <1>6, <2>1, SubSeqProperties
  <2>4. (IF n + 1 <= m THEN m - (n + 1) + 1 ELSE 0) = k BY <1>2, <1>3
  <2>5. \A j \in 1..k : j \in 1..m - (n + 1) + 1 /\ n + 1 + j - 1 = n + j BY <1>2, <1>3
  <2>. QED BY <2>2, <2>3, <2>4, <2>5
<1>8. k \in Nat /\ m = n + k BY <1>2, <1>3
<1>9. /\ m < u => Sent(s, k) = Fd(b, TRUE, m, u)
      /\ m = Len(b) => Sent(s, k) = Fd(<<>>, FALSE, 0, 0)
      /\ ~(m < u) /\ m # Len(b) => Sent(s, k) = Fd(b, FALSE, m, u)
  <2>1. CASE m < u
    <3>1. m # Len(b) BY <1>2, <2>1
    <3>2. Sent(s, k) = [s EXCEPT !.n_written = m] BY <1>1, <1>3, <2>1, <3>1 DEF Sent
    <3>3. Sent(s, k) = Fd(b, TRUE, m, u) BY <1>5, <3>2 DEF Fd
    <3>. QED BY <2>1, <3>1, <3>3, Zenon
  <2>2. CASE m = Len(b) BY <1>2, <1>3, <1>5, <2>2 DEF Sent, Fd, alloc_fd_state
  <2>3. CASE ~(m < u) /\ m # Len(b) BY <1>2, <1>3, <1>5, <2>3 DEF Sent, Fd
  <2>. QED BY <1>2, <2>1, <2>2, <2>3
(* The answer grows by p.                                                    *)
<1>10. ASSUME NEW o \in Seq(Chars), NEW g \in Seq(Chars), Answers(b, n, o, g), Lines(b, TRUE, u, o)
       PROVE  /\ Answers(b, m, o \o p, g)
              /\ k > 0 => Len(o \o p) \in Nat \ {0} /\ (o \o p)[Len(o \o p)] = b[m]
              /\ o \o p \in Seq(Chars) /\ Len(o \o p) = Len(o) + k
  <2>1. PICK q \in Seq(Chars) : q = o \o p BY ConcatProperties
  <2>2. /\ Len(q) = Len(o) + k
        /\ \A j \in 1..(Len(o) + k) : q[j] = IF j <= Len(o) THEN o[j] ELSE p[j - Len(o)]
    BY <1>7, <2>1, ConcatProperties
  <2>3. Len(o) \in Nat /\ Len(g) \in Nat BY LenProperties
  <2>4. Len(g) = Len(o) + Len(b) - n BY <1>10 DEF Answers
  <2>5. Len(g) = Len(q) + Len(b) - m BY <1>2, <1>8, <2>2, <2>3, <2>4
  <2>6. ASSUME NEW j \in 1..Len(q) PROVE q[j] = rot13_char(g[j])
    <3>1. CASE j \in 1..Len(o)
      <4>1. o[j] = rot13_char(g[j]) BY <1>10, <3>1, Zenon DEF Answers
      <4>2. q[j] = o[j] BY <2>2, <2>3, <3>1
      <4>. QED BY <4>1, <4>2
    <3>2. CASE j > Len(o)
      <4>. DEFINE i == j - Len(o)
      <4>1. i \in 1..k BY <1>8, <2>2, <2>3, <3>2
      <4>2. n + i \in 1..Len(b) /\ n + i > n /\ Len(o) - n + (n + i) = j
        BY <1>2, <1>4, <1>8, <2>3, <4>1
      <4>3. b[n + i] = rot13_char(g[Len(o) - n + (n + i)]) BY <1>10, <4>2, Zenon DEF Answers
      <4>4. q[j] = b[n + i] BY <1>7, <2>2, <2>3, <3>2, <4>1
      <4>. QED BY <4>2, <4>3, <4>4
    <3>. QED BY <2>2, <2>3, <3>1, <3>2
  <2>7. ASSUME NEW j \in 1..Len(b), j > m PROVE b[j] = rot13_char(g[Len(q) - m + j])
    <3>1. j > n /\ Len(q) - m + j = Len(o) - n + j BY <1>2, <1>4, <1>8, <2>2, <2>3, <2>7
    <3>2. b[j] = rot13_char(g[Len(o) - n + j]) BY <1>10, <3>1, Zenon DEF Answers
    <3>. QED BY <3>1, <3>2
  <2>8. Answers(b, m, q, g) BY <2>5, <2>6, <2>7 DEF Answers
  <2>9. ASSUME k > 0 PROVE Len(q) \in Nat \ {0} /\ q[Len(q)] = b[m]
    <3>1. Len(q) \in Nat \ {0} /\ Len(q) \in 1..(Len(o) + k) /\ Len(q) > Len(o) /\ Len(q) - Len(o) = k
      BY <1>8, <2>2, <2>3, <2>9
    <3>2. q[Len(q)] = p[k] BY <2>2, <2>3, <3>1
    <3>. QED BY <1>7, <1>8, <2>9, <3>1, <3>2
  <2>. QED BY <2>1, <2>2, <2>8, <2>9
<1>11. ASSUME NEW o \in Seq(Chars), NEW g \in Seq(Chars), Faithful(s, o, g)
       PROVE  Answers(b, n, o, g) /\ Lines(b, TRUE, u, o) /\ b[u] = "nl"
                /\ \A j \in 1..Len(b) : j > u => b[j] # "nl"
  BY <1>1, <1>11 DEF Faithful, Lines
<1>. DEFINE Goal(t) == /\ t \in FdState /\ Counters(t)
                       /\ \A o \in Seq(Chars), g \in Seq(Chars) :
                            Faithful(s, o, g) => Faithful(t, o \o p, g)
<1>12. CASE m < u
  <2>1. PICK v \in BOOLEAN : v = TRUE OBVIOUS
  <2>2. /\ Fd(b, v, m, u) \in FdState /\ Counters(Fd(b, v, m, u))
        /\ \A o, g : Answers(b, m, o, g) /\ Lines(b, v, u, o) => Faithful(Fd(b, v, m, u), o, g)
    <3>1. /\ m <= u /\ u <= Len(b) /\ Len(b) <= MAX_LINE /\ (v <=> m < u)
          /\ m < Len(b) \/ b = <<>>
      BY <1>2, <1>12, <2>1
    <3>. QED BY <3>1, FdRight, Zenon
  <2>3. ASSUME NEW o \in Seq(Chars), NEW g \in Seq(Chars), Faithful(s, o, g)
        PROVE  Answers(b, m, o \o p, g) /\ Lines(b, v, u, o \o p)
    BY <1>10, <1>11, <2>1, <2>3 DEF Lines
  <2>4. Goal(Fd(b, v, m, u)) BY <2>2, <2>3
  <2>. QED BY <1>1, <1>3, <1>6, <1>9, <1>12, <2>1, <2>4
<1>13. CASE m = Len(b)
  <2>1. PICK v \in BOOLEAN, e \in Seq(Chars), z \in Nat : v = FALSE /\ e = <<>> /\ z = 0
    BY EmptySeq
  <2>2. Len(e) = 0 BY <2>1
  <2>3. /\ Fd(e, v, z, z) \in FdState /\ Counters(Fd(e, v, z, z))
        /\ \A o, g : Answers(e, z, o, g) /\ Lines(e, v, z, o) => Faithful(Fd(e, v, z, z), o, g)
    <3>1. /\ z <= z /\ z <= Len(e) /\ Len(e) <= MAX_LINE /\ (v <=> z < z)
          /\ z < Len(e) \/ e = <<>>
      BY <2>1, <2>2, ServerAssumption
    <3>. QED BY <3>1, FdRight, Zenon
  <2>4. m = u /\ k > 0 BY <1>2, <1>4, <1>8, <1>13
  <2>5. ASSUME NEW o \in Seq(Chars), NEW g \in Seq(Chars), Faithful(s, o, g)
        PROVE  Answers(e, z, o \o p, g) /\ Lines(e, v, z, o \o p)
    <3>1. Answers(b, m, o \o p, g) /\ (o \o p)[Len(o \o p)] = "nl"
      BY <1>10, <1>11, <2>4, <2>5
    <3>2. Len(o \o p) \in Nat BY <1>8, <1>10, <1>11, <2>5, LenProperties
    <3>3. Answers(e, z, o \o p, g) BY <1>2, <1>13, <2>1, <2>2, <3>1, <3>2 DEF Answers
    <3>4. Lines(e, v, z, o \o p) BY <2>1, <2>2, <3>1 DEF Lines
    <3>. QED BY <3>3, <3>4
  <2>6. Goal(Fd(e, v, z, z)) BY <2>3, <2>5
  <2>. QED BY <1>1, <1>3, <1>6, <1>9, <1>13, <2>1, <2>6
<1>14. CASE ~(m < u) /\ m # Len(b)
  <2>1. PICK v \in BOOLEAN : v = FALSE OBVIOUS
  <2>2. m = u /\ k > 0 /\ m < Len(b) BY <1>2, <1>4, <1>8, <1>14
  <2>3. /\ Fd(b, v, m, u) \in FdState /\ Counters(Fd(b, v, m, u))
        /\ \A o, g : Answers(b, m, o, g) /\ Lines(b, v, u, o) => Faithful(Fd(b, v, m, u), o, g)
    <3>1. /\ m <= u /\ u <= Len(b) /\ Len(b) <= MAX_LINE /\ (v <=> m < u)
          /\ m < Len(b) \/ b = <<>>
      BY <1>2, <2>1, <2>2
    <3>. QED BY <3>1, FdRight, Zenon
  <2>4. ASSUME NEW o \in Seq(Chars), NEW g \in Seq(Chars), Faithful(s, o, g)
        PROVE  Answers(b, m, o \o p, g) /\ Lines(b, v, u, o \o p)
    BY <1>10, <1>11, <2>1, <2>2, <2>4 DEF Lines
  <2>5. Goal(Fd(b, v, m, u)) BY <2>3, <2>4
  <2>. QED BY <1>1, <1>3, <1>6, <1>9, <1>14, <2>1, <2>5
<1>. QED BY <1>12, <1>13, <1>14
-------------------------------------------------------------------------------
(* The inductive invariant.  To the states of the three theorems below it    *)
(* adds what an fd_state holds of the connection it belongs to, and that     *)
(* writeset names only states with something to write.                       *)
Connection(fd) ==
  /\ state[fd] # Null => /\ Counters(state[fd])
                         /\ ~dropped[fd] => Faithful(state[fd], out[fd], got[fd])
  /\ state[fd] = Null => out[fd] = <<>> /\ got[fd] = <<>>

Prefix(o, g) == Len(o) <= Len(g) /\ \A j \in 1..Len(o) : o[j] = rot13_char(g[j])

Typed ==
  /\ state \in [Slots -> FdState \cup {Null}]
  /\ link \in [Fds -> {"free", "up", "eof", "reset"}]
  /\ in \in [Slots -> Seq(Chars)] /\ out \in [Slots -> Seq(Chars)] /\ got \in [Slots -> Seq(Chars)]
  /\ dropped \in [Slots -> BOOLEAN]
  /\ readset \subseteq Slots /\ writeset \subseteq Slots

Attached ==
  /\ \A fd \in Slots : state[fd] = Null <=> link[fd] = "free"
  /\ \A fd \in readset \cup writeset : state[fd] # Null
  /\ \A fd \in writeset : state[fd].writing
  /\ \A fd \in Fds : fd > FD_SETSIZE => link[fd] = "free"

Exact == \A fd \in Slots : Connection(fd) /\ (~dropped[fd] => Prefix(out[fd], got[fd]))

IndInv == Typed /\ Attached /\ Exact

(* A slot is an open descriptor below FD_SETSIZE.                            *)
LEMMA SlotIs == \A fd \in Slots : fd \in Fds /\ fd \in Nat /\ ~(fd > FD_SETSIZE) /\ fd # FD_SETSIZE
BY ServerAssumption DEF Slots

LEMMA FaithfulIsPrefix ==
  ASSUME NEW s \in FdState, Counters(s), NEW o \in Seq(Chars), NEW g \in Seq(Chars), Faithful(s, o, g)
  PROVE  Prefix(o, g)
<1>1. PICK b \in Seq(Chars), n \in Nat : b = s.buffer /\ n = s.n_written BY DEF FdState, Chars
<1>2. Len(b) \in Nat /\ Len(o) \in Nat /\ Len(g) \in Nat BY LenProperties
<1>3. n <= Len(b) BY <1>1, <1>2 DEF Counters, FdState
<1>4. Answers(b, n, o, g) BY <1>1 DEF Faithful
<1>5. Len(g) = Len(o) + Len(b) - n BY <1>4 DEF Answers
<1>6. Len(o) <= Len(g) BY <1>2, <1>3, <1>5
<1>. QED BY <1>4, <1>6 DEF Prefix, Answers

LEMMA AllocRight == alloc_fd_state \in FdState /\ Counters(alloc_fd_state) /\ Faithful(alloc_fd_state, <<>>, <<>>)
<1>1. PICK v \in BOOLEAN, e \in Seq(Chars), z \in Nat : v = FALSE /\ e = <<>> /\ z = 0 BY EmptySeq
<1>2. Len(e) = 0 BY <1>1
<1>3. alloc_fd_state = Fd(e, v, z, z) BY <1>1 DEF alloc_fd_state, Fd
<1>4. /\ z <= z /\ z <= Len(e) /\ Len(e) <= MAX_LINE /\ (v <=> z < z)
      /\ z < Len(e) \/ e = <<>>
  BY <1>1, <1>2, ServerAssumption
<1>5. /\ Fd(e, v, z, z) \in FdState /\ Counters(Fd(e, v, z, z))
      /\ \A o, g : Answers(e, z, o, g) /\ Lines(e, v, z, o) => Faithful(Fd(e, v, z, z), o, g)
  BY <1>4, FdRight, Zenon
<1>6. Answers(e, z, <<>>, <<>>) /\ Lines(e, v, z, <<>>) BY <1>1, <1>2 DEF Answers, Lines
<1>. QED BY <1>3, <1>5, <1>6

(* The lowest descriptor that is free.                                       *)
LEMMA FreeFdIsFree ==
  ASSUME \E fd \in Fds : link[fd] = "free" PROVE FreeFd \in Fds /\ link[FreeFd] = "free"
<1>. DEFINE T == {fd \in Fds : link[fd] = "free"}
<1>1. T \in SUBSET Nat /\ T # {} BY ServerAssumption
<1>2. PICK f \in T : \A g \in T : f <= g BY <1>1, LeastNumber
<1>3. \E fd \in Fds : link[fd] = "free" /\ \A g \in Fds : link[g] = "free" => fd <= g BY <1>2
<1>. QED BY <1>3 DEF FreeFd

(* A visit: what do_read and do_write leave of the state, and what the       *)
(* client has got by then.                                                   *)
LEMMA ServeRight ==
  ASSUME IndInv, NEW fd \in Slots, NEW k, Serve(fd, k)
  PROVE  \E new \in FdState, p \in Seq(Chars) :
           /\ Counters(new) /\ state' = [state EXCEPT ![fd] = new]
           /\ out' = [out EXCEPT ![fd] = @ \o p]
           /\ got[fd] \o Received(fd) \in Seq(Chars)
           /\ ~dropped'[fd] => ~dropped[fd] /\ Faithful(new, out[fd] \o p, got[fd] \o Received(fd))
<1>. DEFINE t == IF fd \in readset THEN do_read(fd) ELSE state[fd]
            w == Received(fd)
<1>1. fd \in readset \cup writeset BY DEF Serve, Visiting
<1>2. PICK s \in FdState : s = state[fd] BY <1>1 DEF IndInv, Typed, Attached
<1>3. PICK o \in Seq(Chars), g \in Seq(Chars) : o = out[fd] /\ g = got[fd] BY DEF IndInv, Typed
<1>4. w \in Seq(Chars) /\ g \o w \in Seq(Chars)
  <2>1. w \in Seq(Chars) BY EmptySeq DEF IndInv, Typed, Received
  <2>. QED BY <2>1, ConcatProperties
<1>5. Counters(s) /\ (~dropped[fd] => Faithful(s, o, g))
  BY <1>1, <1>2, <1>3 DEF IndInv, Attached, Exact, Connection
<1>6. ~dropped'[fd] => ~dropped[fd] /\ Len(s.buffer) + Len(w) <= MAX_LINE
  <2>1. dropped'[fd] = (dropped[fd] \/ Len(s.buffer) + Len(w) > MAX_LINE)
    BY <1>2 DEF Serve, IndInv, Typed
  <2>2. Len(s.buffer) + Len(w) > MAX_LINE \/ Len(s.buffer) + Len(w) <= MAX_LINE
    <3>1. Len(s.buffer) + Len(w) \in Nat /\ MAX_LINE \in Nat
      BY <1>4, LenProperties, ServerAssumption DEF FdState
    <3>. QED BY <3>1
  <2>. QED BY <2>1, <2>2, Zenon
<1>7. /\ t \in FdState /\ Counters(t) /\ (s.writing => t.writing)
      /\ ~dropped'[fd] => Faithful(t, o, g \o w)
  <2>1. CASE fd \in readset
    <3>1. w = in[fd] /\ t = Stored(s, w)[Len(w)] BY <1>2, <2>1 DEF Received, do_read
    <3>2. Len(w) \in 0..Len(w) BY <1>4, LenProperties
    <3>3. /\ Stored(s, w)[Len(w)] \in FdState /\ Counters(Stored(s, w)[Len(w)])
          /\ s.writing => Stored(s, w)[Len(w)].writing
      BY <1>4, <1>5, <3>2, ReadCounters
    <3>4. ~dropped'[fd] => Faithful(Stored(s, w)[Len(w)], o, g \o w)
      BY <1>4, <1>5, <1>6, ReadFaithful
    <3>. QED BY <3>1, <3>3, <3>4
  <2>2. CASE fd \notin readset
    <3>1. t = s /\ w = <<>> BY <1>2, <2>2 DEF Received
    <3>2. g \o w = g BY <3>1, ConcatEmptySeq
    <3>. QED BY <1>5, <1>6, <3>1, <3>2
  <2>. QED BY <2>1, <2>2
<1>8. /\ k \in 0..(IF fd \in writeset THEN t.write_upto - t.n_written ELSE 0)
      /\ state' = [state EXCEPT ![fd] = IF fd \in writeset THEN Sent(t, k) ELSE t]
      /\ out' = [out EXCEPT ![fd] = @ \o SubSeq(t.buffer, t.n_written + 1, t.n_written + k)]
  BY DEF Serve
<1>9. PICK r \in FdState : r = t BY <1>7
<1>. HIDE DEF t, w
<1>10. CASE fd \in writeset
  <2>1. r.writing BY <1>2, <1>7, <1>9, <1>10 DEF IndInv, Attached
  <2>. DEFINE p == SubSeq(r.buffer, r.n_written + 1, r.n_written + k)
  <2>2. k \in 0..(r.write_upto - r.n_written) BY <1>8, <1>9, <1>10
  <2>3. /\ Sent(r, k) \in FdState /\ Counters(Sent(r, k)) /\ p \in Seq(Chars)
        /\ Faithful(r, o, g \o w) => Faithful(Sent(r, k), o \o p, g \o w)
    BY <1>4, <1>7, <1>9, <2>1, <2>2, SentRight
  <2>4. state' = [state EXCEPT ![fd] = Sent(r, k)] /\ out' = [out EXCEPT ![fd] = @ \o p]
    BY <1>8, <1>9, <1>10
  <2>. HIDE DEF p
  <2>5. ~dropped'[fd] => ~dropped[fd] /\ Faithful(Sent(r, k), o \o p, g \o w)
    BY <1>6, <1>7, <1>9, <2>3
  <2>. QED BY <1>3, <1>4, <2>3, <2>4, <2>5 DEF w
<1>11. CASE fd \notin writeset
  <2>1. k = 0 BY <1>8, <1>11
  <2>2. PICK n \in Nat : n = r.n_written BY DEF FdState
  <2>3. SubSeq(r.buffer, n + 1, n + 0) = <<>>
    <3>1. n + 1 \in Int /\ n + 0 \in Int /\ n + 0 < n + 1 OBVIOUS
    <3>. QED BY <3>1, SubSeqEmpty
  <2>4. state' = [state EXCEPT ![fd] = r] /\ out' = [out EXCEPT ![fd] = @ \o <<>>]
    BY <1>8, <1>9, <1>11, <2>1, <2>2, <2>3
  <2>5. o \o <<>> = o /\ <<>> \in Seq(Chars) BY ConcatEmptySeq, EmptySeq
  <2>6. ~dropped'[fd] => ~dropped[fd] /\ Faithful(r, o \o <<>>, g \o w)
    BY <1>6, <1>7, <1>9, <2>5
  <2>. QED BY <1>3, <1>4, <1>7, <1>9, <2>4, <2>5, <2>6 DEF w
<1>. QED BY <1>10, <1>11
-------------------------------------------------------------------------------
LEMMA InitInd == Init => IndInv
<1>. SUFFICES ASSUME Init PROVE IndInv OBVIOUS
<1>1. Typed BY EmptySeq DEF Init, Typed
<1>2. Attached BY SlotIs DEF Init, Attached
<1>3. ASSUME NEW fd \in Slots PROVE Connection(fd) /\ Prefix(out[fd], got[fd])
  <2>1. out[fd] = <<>> /\ got[fd] = <<>> /\ state[fd] = Null BY DEF Init
  <2>. QED BY <2>1 DEF Connection, Prefix
<1>. QED BY <1>1, <1>2, <1>3 DEF IndInv, Exact

(* Steps that leave the connections alone keep what is exact about them.     *)
LEMMA ExactKept ==
  ASSUME Exact, state' = state, out' = out, got' = got, dropped' = dropped PROVE Exact'
BY DEF Exact, Connection

LEMMA ConnectInd ==
  ASSUME IndInv, Connect PROVE IndInv'
<1>1. Exact' BY ExactKept DEF IndInv, Connect, history
<1>. QED BY <1>1 DEF IndInv, Typed, Attached, Connect, loop, history

LEMMA SendInd ==
  ASSUME IndInv, NEW fd \in Slots, NEW c \in Bytes, Send(fd, c) PROVE IndInv'
<1>1. Exact' BY ExactKept DEF IndInv, Send, history
<1>2. Attached' BY DEF IndInv, Attached, Send, loop
<1>3. c \in Chars /\ in[fd] \in Seq(Chars) BY ServerAssumption DEF Chars, IndInv, Typed
<1>4. Append(in[fd], c) \in Seq(Chars) BY <1>3, AppendProperties
<1>5. Typed' BY <1>4 DEF IndInv, Typed, Send, loop, history
<1>. QED BY <1>1, <1>2, <1>5 DEF IndInv

LEMMA HangupInd ==
  ASSUME IndInv, NEW fd \in Slots, NEW how \in {"eof", "reset"}, Hangup(fd, how) PROVE IndInv'
<1>1. Exact' BY ExactKept DEF IndInv, Hangup, history
<1>2. Attached'
  <2>1. /\ state' = state /\ readset' = readset /\ writeset' = writeset
        /\ link' = [link EXCEPT ![fd] = how] /\ link[fd] = "up"
    BY DEF Hangup, loop
  <2>. QED BY <2>1, SlotIs DEF IndInv, Typed, Attached
<1>3. Typed' BY EmptySeq, SlotIs DEF IndInv, Typed, Hangup, loop, history
<1>. QED BY <1>1, <1>2, <1>3 DEF IndInv

LEMMA SelectInd ==
  ASSUME IndInv, NEW ws \in SUBSET Slots, Select(ws) PROVE IndInv'
<1>1. Exact' BY ExactKept DEF IndInv, Select, history
<1>2. Typed' BY DEF IndInv, Typed, Select, history, Readable
<1>3. Attached' BY DEF IndInv, Attached, Select, Readable, Writing
<1>. QED BY <1>1, <1>2, <1>3 DEF IndInv

LEMMA AcceptInd ==
  ASSUME IndInv, Accept PROVE IndInv'
<1>. DEFINE fd == FreeFd
<1>1. fd \in Fds /\ link[fd] = "free" BY FreeFdIsFree DEF Accept
<1>2. fd \in Slots BY <1>1 DEF Accept, Slots
<1>3. /\ state' = [state EXCEPT ![fd] = alloc_fd_state]
      /\ link' = [link EXCEPT ![fd] = "up"]
      /\ UNCHANGED <<in, out, got, dropped, readset, writeset>>
  BY DEF Accept, history
<1>. HIDE DEF fd
<1>4. alloc_fd_state \in FdState /\ alloc_fd_state # Null BY AllocRight, ServerAssumption
<1>5. Typed' BY <1>1, <1>2, <1>3, <1>4 DEF IndInv, Typed
<1>6. state[fd] = Null BY <1>1, <1>2 DEF IndInv, Attached
<1>7. Attached'
  <2>1. fd \notin readset \cup writeset BY <1>6 DEF IndInv, Attached
  <2>. QED BY <1>1, <1>2, <1>3, <1>4, <2>1, SlotIs DEF IndInv, Typed, Attached
<1>8. ASSUME NEW f \in Slots PROVE (Connection(f) /\ (~dropped[f] => Prefix(out[f], got[f])))'
  <2>1. CASE f = fd
    <3>1. state'[f] = alloc_fd_state BY <1>3, <2>1 DEF IndInv, Typed
    <3>2. out'[f] = <<>> /\ got'[f] = <<>> BY <1>2, <1>3, <1>6, <2>1 DEF IndInv, Exact, Connection
    <3>. QED BY <1>4, <3>1, <3>2, AllocRight DEF Connection, Prefix
  <2>2. CASE f # fd
    <3>1. /\ state'[f] = state[f] /\ out'[f] = out[f] /\ got'[f] = got[f]
          /\ dropped'[f] = dropped[f]
      BY <1>3, <2>2 DEF IndInv, Typed
    <3>. QED BY <3>1 DEF IndInv, Exact, Connection
  <2>. QED BY <2>1, <2>2
<1>. QED BY <1>5, <1>7, <1>8 DEF IndInv, Exact

(* The connection that gets no slot disturbs no other.                       *)
LEMMA PastEndInd ==
  ASSUME IndInv, AcceptPastEnd PROVE IndInv'
<1>1. FreeFd \in Fds /\ FreeFd \notin Slots /\ ~(FreeFd > FD_SETSIZE)
  BY FreeFdIsFree, ServerAssumption DEF AcceptPastEnd, Slots
<1>2. /\ link' = [link EXCEPT ![FreeFd] = "up"]
      /\ UNCHANGED <<state, in, out, got, dropped, readset, writeset>>
  BY DEF AcceptPastEnd, history
<1>3. Exact' BY <1>2, ExactKept DEF IndInv
<1>4. Attached' BY <1>1, <1>2, SlotIs DEF IndInv, Typed, Attached
<1>5. Typed' BY <1>1, <1>2 DEF IndInv, Typed
<1>. QED BY <1>3, <1>4, <1>5 DEF IndInv

LEMMA ServeInd ==
  ASSUME IndInv, NEW fd \in Slots, NEW k, Serve(fd, k) PROVE IndInv'
<1>1. PICK new \in FdState, p \in Seq(Chars) :
        /\ Counters(new) /\ state' = [state EXCEPT ![fd] = new]
        /\ out' = [out EXCEPT ![fd] = @ \o p]
        /\ got[fd] \o Received(fd) \in Seq(Chars)
        /\ ~dropped'[fd] => ~dropped[fd] /\ Faithful(new, out[fd] \o p, got[fd] \o Received(fd))
  BY ServeRight
<1>2. /\ readset' = readset \ {fd} /\ writeset' = writeset \ {fd} /\ link' = link
      /\ got' = [got EXCEPT ![fd] = @ \o Received(fd)]
      /\ in' = IF fd \in readset THEN [in EXCEPT ![fd] = <<>>] ELSE in
      /\ fd \in readset \cup writeset
  BY DEF Serve, Visiting
<1>3. dropped' = [dropped EXCEPT ![fd] = @ \/ Len(state[fd].buffer) + Len(Received(fd)) > MAX_LINE]
  BY DEF Serve
<1>4. out[fd] \o p \in Seq(Chars) BY ConcatProperties DEF IndInv, Typed
<1>5. new # Null BY ServerAssumption
<1>6. Typed'
  <2>1. dropped' \in [Slots -> BOOLEAN] BY <1>3, Zenon DEF IndInv, Typed
  <2>. QED BY <1>1, <1>2, <1>4, <2>1, EmptySeq DEF IndInv, Typed
<1>7. Attached' BY <1>1, <1>2, <1>5 DEF IndInv, Typed, Attached
<1>8. ASSUME NEW f \in Slots PROVE (Connection(f) /\ (~dropped[f] => Prefix(out[f], got[f])))'
  <2>1. CASE f = fd
    <3>1. state'[f] = new /\ out'[f] = out[fd] \o p /\ got'[f] = got[fd] \o Received(fd)
      BY <1>1, <1>2, <2>1 DEF IndInv, Typed
    <3>2. ~dropped'[f] => Prefix(out'[f], got'[f])
      BY <1>1, <1>4, <2>1, <3>1, FaithfulIsPrefix
    <3>. QED BY <1>1, <1>5, <2>1, <3>1, <3>2 DEF Connection
  <2>2. CASE f # fd
    <3>1. /\ state'[f] = state[f] /\ out'[f] = out[f] /\ got'[f] = got[f]
          /\ dropped'[f] = dropped[f]
      BY <1>1, <1>2, <1>3, <2>2 DEF IndInv, Typed
    <3>. QED BY <3>1 DEF IndInv, Exact, Connection
  <2>. QED BY <2>1, <2>2
<1>. QED BY <1>6, <1>7, <1>8 DEF IndInv, Exact

LEMMA DropInd ==
  ASSUME IndInv, NEW fd \in Slots, Drop(fd) PROVE IndInv'
<1>1. /\ state' = [state EXCEPT ![fd] = Null] /\ link' = [link EXCEPT ![fd] = "free"]
      /\ in' = [in EXCEPT ![fd] = <<>>] /\ out' = [out EXCEPT ![fd] = <<>>]
      /\ got' = [got EXCEPT ![fd] = <<>>] /\ dropped' = [dropped EXCEPT ![fd] = FALSE]
      /\ readset' = readset \ {fd} /\ writeset' = writeset \ {fd}
  BY DEF Drop, Closed, Visiting
<1>2. Typed' BY <1>1, EmptySeq, SlotIs DEF IndInv, Typed
<1>3. Attached' BY <1>1, SlotIs DEF IndInv, Typed, Attached
<1>4. ASSUME NEW f \in Slots PROVE (Connection(f) /\ (~dropped[f] => Prefix(out[f], got[f])))'
  <2>1. CASE f = fd
    <3>1. state'[f] = Null /\ out'[f] = <<>> /\ got'[f] = <<>> BY <1>1, <2>1 DEF IndInv, Typed
    <3>. QED BY <3>1 DEF Connection, Prefix
  <2>2. CASE f # fd
    <3>1. /\ state'[f] = state[f] /\ out'[f] = out[f] /\ got'[f] = got[f]
          /\ dropped'[f] = dropped[f]
      BY <1>1, <2>2 DEF IndInv, Typed
    <3>. QED BY <3>1 DEF IndInv, Exact, Connection
  <2>. QED BY <2>1, <2>2
<1>. QED BY <1>2, <1>3, <1>4 DEF IndInv, Exact

LEMMA StepInd == IndInv /\ [Next]_vars => IndInv'
<1>. SUFFICES ASSUME IndInv, [Next]_vars PROVE IndInv' OBVIOUS
<1>1. CASE Clients BY <1>1, ConnectInd, SendInd, HangupInd DEF Clients
<1>2. CASE \E ws \in SUBSET Slots : Select(ws) BY <1>2, SelectInd
<1>3. CASE Accept BY <1>3, AcceptInd
<1>4. CASE AcceptPastEnd BY <1>4, PastEndInd
<1>5. CASE Refuse \/ AcceptFails \/ NoAccept \/ NextRound \/ UNCHANGED vars
  <2>1. UNCHANGED <<state, link, in, out, got, dropped, readset, writeset>>
    BY <1>5 DEF Refuse, AcceptFails, NoAccept, NextRound, vars, history
  <2>2. Exact' BY <2>1, ExactKept DEF IndInv
  <2>. QED BY <2>1, <2>2 DEF IndInv, Typed, Attached
<1>6. CASE \E fd \in Slots : Drop(fd) BY <1>6, DropInd
<1>7. CASE \E fd \in Slots : \E k \in 0..MAX_LINE : Serve(fd, k) BY <1>7, ServeInd
<1>. QED BY <1>1, <1>2, <1>3, <1>4, <1>5, <1>6, <1>7, Zenon DEF Next, Round
-------------------------------------------------------------------------------
LEMMA Inductive == SafeSpec => []IndInv
<1>1. Init => IndInv BY InitInd
<1>2. IndInv /\ [Next]_vars => IndInv' BY StepInd
<1>. QED BY <1>1, <1>2, PTL DEF SafeSpec

(* However clients come, send, close and reset, run() holds a state for      *)
(* every open connection below FD_SETSIZE and for no other descriptor,       *)
(* visits only those, keeps none above FD_SETSIZE, and the counters of       *)
(* do_read and do_write stay inside the buffer.                              *)
THEOREM VisitsOpenConnections == SafeSpec => []StatesMatch
<1>1. IndInv => StatesMatch
  <2>. SUFFICES ASSUME IndInv PROVE StatesMatch OBVIOUS
  <2>1. ASSUME NEW fd \in Slots, state[fd] # Null PROVE Counters(state[fd])
    BY <2>1 DEF IndInv, Exact, Connection
  <2>2. \A fd \in readset \cup writeset : fd \in Slots BY DEF IndInv, Typed
  <2>. QED BY <2>1, <2>2 DEF IndInv, Attached, StatesMatch, Counters
<1>. QED BY <1>1, Inductive, PTL

LEMMA PrefixIsPrefix ==
  ASSUME NEW o \in Seq(Chars), NEW g \in Seq(Chars), Prefix(o, g) PROVE IsPrefix(o, Rot13(g))
<1>1. Len(o) \in Nat /\ Len(g) \in Nat /\ Len(o) <= Len(g) BY LenProperties DEF Prefix
<1>2. DOMAIN g = 1..Len(g) /\ \A j \in 1..Len(g) : g[j] \in Chars BY LenProperties, ElementOfSeq
<1>3. PICK h \in Seq(Chars) : h = Rot13(g) /\ Len(h) = Len(g)
  <2>1. \A j \in 1..Len(g) : (IF g[j] = "a" THEN "n" ELSE IF g[j] = "n" THEN "a" ELSE g[j]) \in Chars
    BY <1>2 DEF Chars
  <2>2. Rot13(g) = [j \in 1..Len(g) |-> IF g[j] = "a" THEN "n" ELSE IF g[j] = "n" THEN "a" ELSE g[j]]
    BY <1>2 DEF Rot13
  <2>3. Rot13(g) \in Seq(Chars) /\ Len(Rot13(g)) = Len(g) BY <1>1, <2>1, <2>2
  <2>. QED BY <2>3
<1>4. \A j \in 1..Len(g) : h[j] = rot13_char(g[j]) BY <1>2, <1>3 DEF Rot13, rot13_char, Chars
<1>5. ASSUME NEW j \in 1..Len(o) PROVE o[j] = h[j]
  <2>1. j \in 1..Len(g) BY <1>1
  <2>. QED BY <1>4, <2>1 DEF Prefix
<1>6. \A j \in 1..Len(o) : o[j] \in Chars /\ h[j] \in Chars
  <2>1. \A j \in 1..Len(o) : j \in 1..Len(h) BY <1>1, <1>3
  <2>. QED BY <2>1, ElementOfSeq
<1>7. 1 \in Int /\ Len(o) \in Int BY <1>1
<1>8. PICK p \in Seq(Chars), q \in Seq(Chars) : p = SubSeq(o, 1, Len(o)) /\ q = SubSeq(h, 1, Len(o))
  BY <1>6, <1>7, SubSeqProperties
<1>9. Len(p) = Len(o) /\ Len(q) = Len(o)
  <2>1. /\ Len(p) = IF 1 <= Len(o) THEN Len(o) - 1 + 1 ELSE 0
        /\ Len(q) = IF 1 <= Len(o) THEN Len(o) - 1 + 1 ELSE 0
    BY <1>6, <1>7, <1>8, SubSeqProperties
  <2>. QED BY <1>1, <2>1
<1>10. ASSUME NEW j \in 1..Len(o) PROVE p[j] = q[j]
  <2>1. j \in 1..Len(o) - 1 + 1 /\ 1 + j - 1 = j BY <1>1
  <2>2. p[j] = o[1 + j - 1] /\ q[j] = h[1 + j - 1] BY <1>6, <1>7, <1>8, <2>1, SubSeqProperties
  <2>. QED BY <1>5, <2>1, <2>2
<1>11. p = q BY <1>9, <1>10, SeqEqual
<1>. QED BY <1>1, <1>3, <1>8, <1>11 DEF IsPrefix

(* However the network cuts the sends of do_write, a client whose buffer has *)
(* not overflowed gets the rot13 of its own bytes in order, none twice.      *)
THEOREM AnswersInOrder == SafeSpec => []AnswerIsPrefix
<1>1. IndInv => AnswerIsPrefix
  <2>. SUFFICES ASSUME IndInv, NEW fd \in Slots, ~dropped[fd] PROVE IsPrefix(out[fd], Rot13(got[fd]))
    BY DEF AnswerIsPrefix
  <2>1. out[fd] \in Seq(Chars) /\ got[fd] \in Seq(Chars) BY DEF IndInv, Typed
  <2>2. Prefix(out[fd], got[fd]) BY DEF IndInv, Exact
  <2>. QED BY <2>1, <2>2, PrefixIsPrefix
<1>. QED BY <1>1, Inductive, PTL

(* When do_write has cleared writing the client has the answer up to the     *)
(* last end of line it sent, and nothing of the line behind it.              *)
THEOREM WholeLinesAnswered == SafeSpec => []QuietIsAnswered
<1>1. IndInv => QuietIsAnswered
  <2>. SUFFICES ASSUME IndInv, NEW fd \in Slots, state[fd] # Null, ~state[fd].writing, ~dropped[fd]
                PROVE  \/ out[fd] = <<>> /\ \A j \in DOMAIN got[fd] : got[fd][j] # "nl"
                       \/ out[fd] # <<>> /\ Last(out[fd]) = "nl"
                          /\ \A j \in Len(out[fd]) + 1..Len(got[fd]) : got[fd][j] # "nl"
    BY DEF QuietIsAnswered
  <2>1. PICK s \in FdState : s = state[fd] BY DEF IndInv, Typed
  <2>2. PICK o \in Seq(Chars), g \in Seq(Chars) : o = out[fd] /\ g = got[fd] BY DEF IndInv, Typed
  <2>3. PICK b \in Seq(Chars), n \in Nat, u \in Nat : b = s.buffer /\ n = s.n_written /\ u = s.write_upto
    BY DEF FdState, Chars
  <2>4. Counters(s) /\ Faithful(s, o, g) BY <2>1, <2>2 DEF IndInv, Exact, Connection
  <2>5. n = u /\ n <= Len(b) BY <2>1, <2>3, <2>4 DEF Counters, FdState
  <2>6. Answers(b, n, o, g) BY <2>3, <2>4 DEF Faithful
  <2>7. (\A j \in 1..Len(b) : j > u => b[j] # "nl") /\ (o = <<>> \/ o[Len(o)] = "nl")
    BY <2>1, <2>3, <2>4 DEF Faithful, Lines
  <2>8. /\ Len(o) \in Nat /\ Len(g) \in Nat /\ Len(b) \in Nat
        /\ DOMAIN g = 1..Len(g) /\ \A j \in 1..Len(g) : g[j] \in Chars
    BY LenProperties, ElementOfSeq
  <2>9. Len(g) = Len(o) + Len(b) - n BY <2>6 DEF Answers
  <2>10. ASSUME NEW j \in Len(o) + 1..Len(g) PROVE g[j] # "nl"
    <3>. DEFINE i == j - Len(o) + n
    <3>1. i \in 1..Len(b) /\ i > n /\ Len(o) - n + i = j /\ j \in 1..Len(g) BY <2>5, <2>8, <2>9
    <3>. HIDE DEF i
    <3>2. b[i] = rot13_char(g[j]) BY <2>6, <3>1 DEF Answers
    <3>3. b[i] # "nl" BY <2>5, <2>7, <3>1
    <3>. QED BY <2>8, <3>1, <3>2, <3>3, Rot13Type
  <2>11. o = <<>> => Len(o) + 1..Len(g) = DOMAIN g BY <2>8
  <2>. QED BY <2>2, <2>7, <2>10, <2>11 DEF Last
<1>. QED BY <1>1, Inductive, PTL
===============================================================================
