-------------------------------- MODULE Sorting --------------------------------
(***************************************************************************)
(* merge_sort, quick_sort and insert_sort of kata_helper.cpp.  An array is a *)
(* function from 0..n-1 to integers.  The recursion is a stack of what is    *)
(* still to be done, the next thing first; a step is a call of a sort or of  *)
(* merge, or a turn of partition's or insert_sort's loop.                    *)
(*                                                                           *)
(* kata104: findMedianSortedArrays, a binary search for the cut of two       *)
(* sorted arrays, and find_median, which partitions an array until the       *)
(* middle element is in place.  A median is kept doubled.                    *)
(***************************************************************************)
EXTENDS KataBounds, FiniteSets, FiniteSetsExt, SequencesExt

VARIABLE s   \* a sort: input, arr; by: which sort runs; todo: the stack
             \* a median: fn, arr1, arr2: the call; arr: find_median's array as it is now
             \* low, high: the outer loop; l, h, key: low, high, key of partition
             \* pc, median

Length(a) == Cardinality(DOMAIN a)
Upto(i, j) == [k \in 1..(j - i + 1) |-> i + k - 1]

Task(call, left, mid, right, at) ==
  [call |-> call, left |-> left, mid |-> mid, right |-> right, at |-> at]
Range1(left, right) == Task("sort", left, left, right, left)

SortCalls ==
  UNION {{[input |-> a, arr |-> a, by |-> name, todo |-> <<Range1(0, n - 1)>>] :
            a \in [0..(n - 1) -> {1, 2, 3}], name \in {"merge", "quick", "insert"}} :
         n \in 0..MaxLen}

Then(array, tasks) == s' = [s EXCEPT !.arr = array, !.todo = tasks \o Tail(@)]

-------------------------------------------------------------------------------
(* The three loops of merge: the i-th of leftArr or the j-th of rightArr.    *)
merge(a, left, mid, right) ==
  FoldLeft(LAMBDA f, k :
      IF f.j > right \/ (f.i <= mid /\ a[f.i] <= a[f.j])
      THEN [f EXCEPT !.arr[k] = a[f.i], !.i = f.i + 1]
      ELSE [f EXCEPT !.arr[k] = a[f.j], !.j = f.j + 1],
    [arr |-> a, i |-> left, j |-> mid + 1], Upto(left, right)).arr

merge_sort ==
  /\ s.by = "merge" /\ s.todo # <<>>
  /\ LET t == Head(s.todo)
         mid == t.left + (t.right - t.left) \div 2
     IN  \/ t.call = "merge" /\ Then(merge(s.arr, t.left, t.mid, t.right), <<>>)
         \/ t.call = "sort" /\ t.left >= t.right /\ Then(s.arr, <<>>)
         \/ /\ t.call = "sort" /\ t.left < t.right
            /\ Then(s.arr, <<Range1(t.left, mid), Range1(mid + 1, t.right),
                             Task("merge", t.left, mid, t.right, t.left)>>)

-------------------------------------------------------------------------------
Swap(a, i, j) == [a EXCEPT ![i] = a[j], ![j] = a[i]]

(* Where the part behind the pivot begins: pi + 1, where pi is i + 1.        *)
RightPart(t) == t.mid + 2

(* One turn of partition's loop; when it is over the pivot goes to its place. *)
(* mid is its i and at its j.                                                *)
partition(t) ==
  \/ /\ t.at < t.right /\ s.arr[t.at] <= s.arr[t.right]
     /\ Then(Swap(s.arr, t.mid + 1, t.at), <<[t EXCEPT !.mid = t.mid + 1, !.at = t.at + 1]>>)
  \/ /\ t.at < t.right /\ s.arr[t.at] > s.arr[t.right]
     /\ Then(s.arr, <<[t EXCEPT !.at = t.at + 1]>>)
  \/ /\ t.at = t.right
     /\ Then(Swap(s.arr, t.mid + 1, t.right),
             <<Range1(t.left, t.mid), Range1(RightPart(t), t.right)>>)

quick_sort ==
  /\ s.by = "quick" /\ s.todo # <<>>
  /\ LET t == Head(s.todo) IN
     \/ t.call = "partition" /\ partition(t)
     \/ t.call = "sort" /\ t.left >= t.right /\ Then(s.arr, <<>>)
     \/ /\ t.call = "sort" /\ t.left < t.right
        /\ Then(s.arr, <<Task("partition", t.left, t.left - 1, t.right, t.left)>>)

-------------------------------------------------------------------------------
(* One turn of insert_sort: the while loop stops behind the last element     *)
(* that is not greater than the key.                                         *)
Insert(a, i) ==
  LET notGreater == {j \in 0..(i - 1) : a[j] <= a[i]}
      at == IF notGreater = {} THEN 0 ELSE Max(notGreater) + 1
  IN  [k \in DOMAIN a |-> IF k = at THEN a[i]
                          ELSE IF k \in (at + 1)..i THEN a[k - 1] ELSE a[k]]

(* The left end of the range is i - 1.                                       *)
insert_sort ==
  /\ s.by = "insert" /\ s.todo # <<>>
  /\ LET t == Head(s.todo)
     IN  \/ t.left >= t.right /\ Then(s.arr, <<>>)
         \/ t.left < t.right /\ Then(Insert(s.arr, t.left + 1), <<Range1(t.left + 1, t.right)>>)

SortNext == merge_sort \/ quick_sort \/ insert_sort

SortDone == s.todo = <<>>
-------------------------------------------------------------------------------
Indices == DOMAIN s.input
Ordered(S) == \A i, j \in S : i < j => s.arr[i] <= s.arr[j]
Within(S) == \E k \in DOMAIN s.todo : S \subseteq s.todo[k].left..s.todo[k].right

SameElements(f, g) ==
  \A v \in Range(f) \cup Range(g) : Cardinality({x \in DOMAIN f : f[x] = v}) =
                                   Cardinality({x \in DOMAIN g : g[x] = v})

(* Each sort returns its elements, each as often as it was given, in order.  *)
OutputSorted == SortDone => Ordered(Indices) /\ SameElements(s.arr, s.input)

(* At every step: two places that are not in one range quick_sort has still  *)
(* to sort are in order for good, and partition has put what is not greater  *)
(* than the pivot before what is; both halves are sorted when merge is       *)
(* called; insert_sort has sorted what it has passed.                        *)
PartsInOrder ==
  /\ s.by = "quick" => \A i, j \in Indices : i < j /\ ~Within({i, j}) => s.arr[i] <= s.arr[j]
  /\ s.todo # <<>> =>
       LET t == Head(s.todo) IN
       /\ t.call = "merge" => Ordered(t.left..t.mid) /\ Ordered((t.mid + 1)..t.right)
       /\ t.call = "partition" => /\ \A i \in t.left..t.mid : s.arr[i] <= s.arr[t.right]
                                  /\ \A i \in (t.mid + 1)..(t.at - 1) : s.arr[i] > s.arr[t.right]
       /\ s.by = "insert" => Ordered(0..t.left \cap Indices)
-------------------------------------------------------------------------------
Arrays(n) == [0..(n - 1) -> Values]
SortedArray(f) == \A x, y \in DOMAIN f : x < y => f[x] <= f[y]
Pairwise(f) == \A x, y \in DOMAIN f : x # y => f[x] # f[y]

Frame(fn, a, b, high, pc) ==
  [fn |-> fn, arr1 |-> a, arr2 |-> b, arr |-> a, low |-> 0, high |-> high,
   l |-> 0, h |-> 0, key |-> 0, pc |-> pc, median |-> 0]

(* The recursive call with swapped arguments makes arr1 the shorter array.   *)
CallsTwo ==
  LET Sorted == {f \in UNION {Arrays(n) : n \in 0..(MaxLen - 2)} : SortedArray(f)} IN
  {Frame("two", a, b, Length(a), "search") : <<a, b>> \in
     {p \in Sorted \X Sorted : Length(p[1]) <= Length(p[2]) /\ Length(p[2]) > 0}}

CallsOne ==
  {Frame("one", a, a, Length(a) - 1, "outer") : a \in
     {f \in UNION {Arrays(n) : n \in 1..MaxLen} : Distinct => Pairwise(f)}}

MedianCalls == CallsTwo \cup CallsOne

n1 == Length(s.arr1)
n2 == Length(s.arr2)

Return(twice) == s' = [s EXCEPT !.median = twice, !.pc = "done"]

-------------------------------------------------------------------------------
partition1 == (s.low + s.high) \div 2
partition2 == (n1 + n2 + 1) \div 2 - partition1
maxLeft1 == IF partition1 = 0 THEN INT_MIN ELSE s.arr1[partition1 - 1]
minRight1 == IF partition1 = n1 THEN INT_MAX ELSE s.arr1[partition1]
maxLeft2 == IF partition2 = 0 THEN INT_MIN ELSE s.arr2[partition2 - 1]
minRight2 == IF partition2 = n2 THEN INT_MAX ELSE s.arr2[partition2]

Lower(p) == p - 1

OddMedian_Right == 2 * Min({minRight1, minRight2})

OddMedian == 2 * Max({maxLeft1, maxLeft2})

findMedianSortedArrays ==
  /\ s.pc = "search" /\ s.low <= s.high
  /\ \/ /\ maxLeft1 <= minRight2 /\ maxLeft2 <= minRight1
        /\ Return(IF (n1 + n2) % 2 = 0
                  THEN Max({maxLeft1, maxLeft2}) + Min({minRight1, minRight2}) ELSE OddMedian)
     \/ maxLeft1 > minRight2 /\ s' = [s EXCEPT !.high = Lower(partition1)]
     \/ /\ maxLeft1 <= minRight2 /\ maxLeft2 > minRight1
        /\ s' = [s EXCEPT !.low = partition1 + 1]

-------------------------------------------------------------------------------
Partition ==
  /\ s.pc = "outer"
  /\ s' = [s EXCEPT !.l = s.low, !.h = s.high, !.key = s.arr[s.low], !.pc = "partition"]

(* high goes down to an element not above the key, which is copied to low;   *)
(* low goes up to one not below it, which is copied to high.                 *)
Copied(one, down, up) == [one EXCEPT ![down] = one[up]]

PartitionTurn ==
  /\ s.pc = "partition" /\ s.l < s.h
  /\ LET down == Max({x \in s.l..s.h : x = s.l \/ s.arr[x] <= s.key})
         one  == [s.arr EXCEPT ![s.l] = s.arr[down]]
         up   == Min({x \in s.l..down : x = down \/ one[x] >= s.key})
     IN  s' = [s EXCEPT !.h = down, !.l = up, !.arr = Copied(one, down, up)]

mid == (n1 - 1) \div 2

(* partition stores the key and returns l as *pos; find_median looks at it.  *)
PartitionEnd ==
  /\ s.pc = "partition" /\ s.l >= s.h
  /\ s' = [s EXCEPT !.arr[s.l] = s.key,
                    !.low = IF s.l < mid THEN s.l + 1 ELSE s.low,
                    !.high = IF s.l > mid THEN s.l - 1 ELSE s.high,
                    !.pc = IF s.l = mid THEN "found" ELSE "outer"]

Found ==
  /\ s.pc = "found"
  /\ Return(IF n1 % 2 = 0 THEN s.arr[mid] + s.arr[mid + 1] ELSE 2 * s.arr[mid])

MedianNext == findMedianSortedArrays \/ Partition \/ PartitionTurn \/ PartitionEnd \/ Found

MedianDone == s.pc = "done"
-------------------------------------------------------------------------------
(* What stands at place k when all elements are in order.                    *)
Rank(fs, k) ==
  LET Count(P(_)) == Cardinality({x \in DOMAIN fs : P(fs[x])})
  IN  CHOOSE v \in Values : /\ Count(LAMBDA y : y < v) <= k
                            /\ Count(LAMBDA y : y <= v) > k
Both == [x \in 0..(n1 + n2 - 1) |-> IF x < n1 THEN s.arr1[x] ELSE s.arr2[x - n1]]
TwiceMedian(fs) == Rank(fs, (Length(fs) - 1) \div 2) + Rank(fs, Length(fs) \div 2)

(* The cut is looked for inside both arrays: the code reads neither before   *)
(* the beginning nor behind the end of one, and never throws for sorted      *)
(* arrays.                                                                   *)
CutInside ==
  s.pc = "search" => s.low <= s.high /\ partition1 \in 0..n1 /\ partition2 \in 0..n2

(* findMedianSortedArrays returns the median of the elements of both, and    *)
(* find_median that of an array of odd length.  For an even length it adds   *)
(* to the lower middle element the one partition left behind it, which need  *)
(* not be the next in order: the result is the mean of the lower middle      *)
(* element and a greater one, never below the median, and the median itself  *)
(* when the element behind is the least of the right part.                   *)
MedianRight ==
  MedianDone =>
    /\ s.fn = "two" => s.median = TwiceMedian(Both)
    /\ s.fn = "one" /\ n1 % 2 = 1 => s.median = TwiceMedian(s.arr1)
    /\ s.fn = "one" /\ n1 % 2 = 0 =>
         LET lower == Rank(s.arr1, mid)
             right == {s.arr[x] : x \in (mid + 1)..(n1 - 1)}
         IN  /\ s.median - lower \in right
             /\ s.median >= TwiceMedian(s.arr1)
             /\ s.arr[mid + 1] = Min(right) => s.median = TwiceMedian(s.arr1)

(* When partition ends, the key separates what is not greater from what is   *)
(* not smaller, and the array still holds its elements: the hole left by the *)
(* key has moved along.                                                      *)
PartitionRight ==
  s.pc \in {"outer", "found"} =>
    /\ SameElements(s.arr, s.arr1)
    /\ \A x, y \in DOMAIN s.arr : x < s.low /\ s.low <= y => s.arr[x] <= s.arr[y]
    /\ \A x, y \in DOMAIN s.arr : x <= s.high /\ s.high < y => s.arr[x] <= s.arr[y]
    /\ s.pc = "found" => \A x \in s.low..s.high : /\ x < mid => s.arr[x] <= s.arr[mid]
                                                  /\ x > mid => s.arr[x] >= s.arr[mid]
===============================================================================
