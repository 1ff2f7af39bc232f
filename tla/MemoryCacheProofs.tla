--------------------------- MODULE MemoryCacheProofs ---------------------------
(***************************************************************************)
(* For any size of the cache, any clock and any number of restarts: what the *)
(* searches answer and which lines get into the file.                        *)
(***************************************************************************)
EXTENDS MemoryCache, SequenceTheorems, WellFoundedInduction, TLAPS

Lines == [time : Keys, value : Strings]

Typed ==
  /\ now \in 0..MaxTime /\ file \in Seq(Lines) /\ phase \in {"loading", "running"}
  /\ DOMAIN cache \subseteq Keys
  /\ \A k \in DOMAIN cache : cache[k] \in Strings

(* The two maps against their histories.                                     *)
Reversed == \A v \in DOMAIN reverse : v \in DOMAIN lastKey /\ reverse[v] = lastKey[v]

Entry(k) == k \in DOMAIN lastValue /\ cache[k] = lastValue[k]

Stored == \A k \in DOMAIN cache : cache[k] = Empty \/ Entry(k)

(* writeToCSV stands at an entry unless an eviction has erased it, and the   *)
(* insert that holds the mutex is about to assign a node that is there.      *)
Walk ==
  /\ iter \in DOMAIN cache \cup {Idle, Dangling}
  /\ phase = "loading" => iter = Idle /\ inserting = <<>>

IndInv == Typed /\ Reversed /\ Stored /\ Walk
-------------------------------------------------------------------------------
(* A set of numbers that is not empty has a least element.                   *)
LEMMA LeastNumber ==
  ASSUME NEW T \in SUBSET Nat, T # {} PROVE \E n \in T : \A m \in T : n <= m
<1>. DEFINE R == OpToRel(<, Nat)
<1>1. IsWellFoundedOn(R, Nat) BY NatLessThanWellFounded
<1>2. \A x, y \in Nat : x < y => <<x, y>> \in R BY DEF OpToRel
<1>3. PICK n \in T : \A m \in T : ~(<<m, n>> \in R)
  <2>. HIDE DEF R
  <2>. QED BY <1>1, WFMin, Zenon
<1>4. \A m \in T : ~(m < n) BY <1>2, <1>3
<1>. QED BY <1>4

LEMMA MinIn ==
  ASSUME NEW T \in SUBSET Nat, T # {} PROVE Min(T) \in T
<1>1. PICK n \in T : \A m \in T : n <= m BY LeastNumber
<1>. QED BY <1>1 DEF Min

LEMMA MaxIn ==
  ASSUME NEW n \in Nat, NEW T \in SUBSET (1..n), T # {} PROVE Max(T) \in T
<1>. DEFINE D == {j \in Nat : n - j \in T}
<1>1. PICK t \in T : TRUE OBVIOUS
<1>2. n - t \in D BY <1>1
<1>3. PICK j \in D : \A m \in D : j <= m BY <1>2, LeastNumber
<1>4. ASSUME NEW y \in T PROVE n - j >= y
  <2>1. n - y \in D OBVIOUS
  <2>2. j <= n - y BY <1>3, <2>1
  <2>3. j \in Nat /\ y \in Nat OBVIOUS
  <2>. HIDE DEF D
  <2>. QED BY <2>2, <2>3
<1>. QED BY <1>3, <1>4 DEF Max

(* The iteration of writeToCSV goes to an entry or to the end.               *)
LEMMA FromIn ==
  ASSUME IndInv, NEW k \in Nat PROVE From(k) \in DOMAIN cache \cup {Idle}
<1>. DEFINE T == {x \in DOMAIN cache : x >= k} \cup {Idle}
<1>1. T \in SUBSET Nat /\ T # {}
  BY CacheAssumption DEF IndInv, Typed, Keys, Idle
<1>2. Min(T) \in T BY <1>1, MinIn
<1>. QED BY <1>2 DEF From

(* A line of the file holds a second of the clock, moved or not.             *)
LEMMA LineType ==
  ASSUME NEW k \in Keys, NEW v \in Strings PROVE Line(k, v) \in Lines
<1>1. timeToString(k) \in Keys BY CacheAssumption DEF timeToString, Keys
<1>. QED BY <1>1 DEF Line, Lines

LEMMA FileType ==
  ASSUME NEW f \in Seq(Lines), NEW l \in Lines
  PROVE  Append(f, l) \in Seq(Lines) /\ Last(Append(f, l)) = l
BY AppendProperties DEF Last

(* cache[k] changes nothing but that k may get an empty string.              *)
LEMMA SubscriptIs ==
  ASSUME NEW m, NEW k
  PROVE  /\ DOMAIN Subscript(m, k) = DOMAIN m \cup {k}
         /\ \A x \in DOMAIN Subscript(m, k) :
              \/ Subscript(m, k)[x] = Empty
              \/ x \in DOMAIN m /\ Subscript(m, k)[x] = m[x]
<1>1. CASE k \in DOMAIN m BY <1>1 DEF Subscript
<1>2. CASE k \notin DOMAIN m BY <1>2 DEF Subscript, With
<1>. QED BY <1>1, <1>2

(* What the eviction leaves: entries of before and one empty string, and     *)
(* values of before; all but the oldest entry are still there.               *)
LEMMA EvictedIs ==
  ASSUME IndInv, NEW m \in Evicted
  PROVE  /\ DOMAIN m.cache \subseteq Keys
         /\ \A x \in DOMAIN m.cache : \/ m.cache[x] = Empty
                                      \/ x \in DOMAIN cache /\ m.cache[x] = cache[x]
         /\ \A v \in DOMAIN m.reverse : v \in DOMAIN reverse /\ m.reverse[v] = reverse[v]
         /\ \A x \in DOMAIN cache : x \in DOMAIN m.cache \/ (Full /\ x = Min(DOMAIN cache))
<1>1. CASE ~Full
  <2>1. m = [cache |-> cache, reverse |-> reverse] BY <1>1 DEF Evicted
  <2>. QED BY <2>1, <1>1 DEF IndInv, Typed
<1>2. CASE Full
  <2>1. PICK k \in Keys : m = Evict(k) BY <1>2 DEF Evicted
  <2>. DEFINE c == Without(cache, Min(DOMAIN cache))
              d == Subscript(c, k)
  <2>2. m.cache = d /\ m.reverse = Without(reverse, d[k]) BY <2>1 DEF Evict
  <2>3. /\ DOMAIN c = DOMAIN cache \ {Min(DOMAIN cache)}
        /\ \A x \in DOMAIN c : c[x] = cache[x]
    BY DEF Without, Restrict
  <2>4. /\ DOMAIN d = DOMAIN c \cup {k}
        /\ \A x \in DOMAIN d : d[x] = Empty \/ (x \in DOMAIN c /\ d[x] = c[x])
    <3>. HIDE DEF c
    <3>. QED BY SubscriptIs
  <2>5. \A v \in DOMAIN m.reverse : v \in DOMAIN reverse /\ m.reverse[v] = reverse[v]
    <3>. HIDE DEF d
    <3>. QED BY <2>2 DEF Without, Restrict
  <2>. HIDE DEF c, d
  <2>. QED BY <2>2, <2>3, <2>4, <2>5, <1>2 DEF IndInv, Typed
<1>. QED BY <1>1, <1>2
-------------------------------------------------------------------------------
LEMMA InitInd == Init => IndInv
<1>. SUFFICES ASSUME Init PROVE IndInv OBVIOUS
<1>1. DOMAIN cache = {} /\ DOMAIN reverse = {} BY DEF Init, NoEntries
<1>2. file \in Seq(Lines) BY DEF Init
<1>3. Typed
  <2>1. now \in 0..MaxTime BY CacheAssumption DEF Init
  <2>. QED BY <1>1, <1>2, <2>1 DEF Init, Typed
<1>4. Reversed /\ Stored /\ Walk BY <1>1 DEF Init, Reversed, Stored, Walk
<1>. QED BY <1>3, <1>4 DEF IndInv

LEMMA InsertInd ==
  ASSUME IndInv, NEW v \in Values, insert(v) PROVE IndInv'
<1>1. PICK m \in Evicted : cache' = Subscript(m.cache, now) /\ reverse' = m.reverse
  BY DEF insert
<1>2. UNCHANGED <<now, file, phase, lastKey, lastValue>> BY DEF insert
<1>3. now \in Keys BY CacheAssumption DEF IndInv, Typed, Keys
<1>4. /\ DOMAIN m.cache \subseteq Keys
      /\ \A x \in DOMAIN m.cache : m.cache[x] = Empty \/ (x \in DOMAIN cache /\ m.cache[x] = cache[x])
      /\ \A x \in DOMAIN m.reverse : x \in DOMAIN reverse /\ m.reverse[x] = reverse[x]
      /\ \A x \in DOMAIN cache : x \in DOMAIN m.cache \/ (Full /\ x = Min(DOMAIN cache))
  BY EvictedIs
<1>5. /\ DOMAIN cache' = DOMAIN m.cache \cup {now}
      /\ \A x \in DOMAIN cache' : cache'[x] = Empty \/ (x \in DOMAIN m.cache /\ cache'[x] = m.cache[x])
  BY <1>1, SubscriptIs
<1>6. \A x \in DOMAIN cache' : cache'[x] = Empty \/ (x \in DOMAIN cache /\ cache'[x] = cache[x])
  BY <1>4, <1>5
<1>7. Typed'
  <2>1. DOMAIN cache' \subseteq Keys BY <1>3, <1>4, <1>5
  <2>2. \A k \in DOMAIN cache' : cache'[k] \in Strings BY <1>6 DEF IndInv, Typed, Strings
  <2>. QED BY <1>2, <2>1, <2>2 DEF IndInv, Typed
<1>8. Reversed' BY <1>1, <1>2, <1>4 DEF IndInv, Reversed
<1>9. Stored' BY <1>2, <1>6 DEF IndInv, Stored, Entry
<1>10. Walk'
  <2>1. phase' = "running" BY DEF insert
  <2>2. iter' = IF Full /\ iter = Min(DOMAIN cache) THEN Dangling ELSE iter BY DEF insert
  <2>3. iter \in DOMAIN cache \cup {Idle, Dangling} BY DEF IndInv, Walk
  <2>4. iter' \in DOMAIN cache' \cup {Idle, Dangling} BY <1>4, <1>5, <2>2, <2>3
  <2>. QED BY <2>1, <2>4 DEF Walk
<1>. QED BY <1>7, <1>8, <1>9, <1>10 DEF IndInv

LEMMA AssignInd ==
  ASSUME IndInv, NEW k \in Keys, NEW v \in Values, phase = "running", Assign(k, v)
  PROVE  IndInv'
<1>1. UNCHANGED <<now, iter, phase>> BY DEF Assign
<1>2. file' \in Seq(Lines)
  <2>1. PICK t \in Keys : file' \in {file, Append(file, Line(t, v))}
    BY DEF Assign, appendCsv, Printed
  <2>2. Line(t, v) \in Lines BY LineType DEF Strings
  <2>3. file \in Seq(Lines) BY DEF IndInv, Typed
  <2>. QED BY <2>1, <2>2, <2>3, FileType
<1>3. /\ DOMAIN cache' = DOMAIN cache \cup {k} /\ cache'[k] = v
      /\ \A x \in DOMAIN cache : x # k => cache'[x] = cache[x]
  BY DEF Assign, With
<1>4. /\ DOMAIN reverse' = DOMAIN reverse \cup {v} /\ reverse'[v] = k
      /\ \A x \in DOMAIN reverse : x # v => reverse'[x] = reverse[x]
  BY DEF Assign, With
<1>5. /\ DOMAIN lastKey' = DOMAIN lastKey \cup {v} /\ lastKey'[v] = k
      /\ \A x \in DOMAIN lastKey : x # v => lastKey'[x] = lastKey[x]
  BY DEF Assign, With
<1>6. /\ DOMAIN lastValue' = DOMAIN lastValue \cup {k} /\ lastValue'[k] = v
      /\ \A x \in DOMAIN lastValue : x # k => lastValue'[x] = lastValue[x]
  BY DEF Assign, With
<1>7. Typed'
  <2>1. \A x \in DOMAIN cache' : cache'[x] \in Strings
    BY <1>3 DEF IndInv, Typed, Strings
  <2>2. DOMAIN cache' \subseteq Keys BY <1>3 DEF IndInv, Typed
  <2>. QED BY <1>1, <1>2, <2>1, <2>2 DEF IndInv, Typed
<1>8. Reversed' BY <1>4, <1>5 DEF IndInv, Reversed
<1>9. Stored' BY <1>3, <1>6 DEF IndInv, Stored, Entry
<1>10. Walk' BY <1>1, <1>3 DEF IndInv, Walk
<1>. QED BY <1>7, <1>8, <1>9, <1>10 DEF IndInv

(* Wherever a race takes it, writeToCSV goes on at an entry, at the end or,  *)
(* from an erased node, at another erased node.                              *)
LEMMA StepsIn ==
  ASSUME IndInv, NEW k \in Nat
  PROVE  Steps(k) \subseteq DOMAIN cache \cup {Idle, Dangling}
<1>1. From(k) \in DOMAIN cache \cup {Idle} BY FromIn
<1>. QED BY <1>1 DEF Steps

(* The line WriteLine appends has the type of a line.                        *)
LEMMA WrittenIs ==
  ASSUME IndInv, WriteLine
  PROVE  \E t \in Keys, v \in Strings :
           /\ file' = Append(file, Line(t, v)) /\ Line(t, v) \in Lines
           /\ ~Racing /\ iter # Dangling =>
                iter \in DOMAIN cache /\ t = iter /\ v = cache[iter]
<1>1. PICK t \in IF iter = Dangling THEN Keys ELSE Printed(iter), v \in Read :
        file' = Append(file, Line(t, v))
  BY DEF WriteLine
<1>2. iter # Dangling => iter \in DOMAIN cache /\ iter \in Keys /\ cache[iter] \in Strings
  BY DEF IndInv, Walk, WriteLine, Typed
<1>3. t \in Keys /\ v \in Strings BY <1>1, <1>2 DEF Printed, Read
<1>4. Line(t, v) \in Lines BY <1>3, LineType
<1>5. ~Racing /\ iter # Dangling => t = iter /\ v = cache[iter]
  BY <1>1 DEF Printed, Read, Racing, WriteLine
<1>. QED BY <1>1, <1>2, <1>3, <1>4, <1>5

LEMMA WriteLineInd ==
  ASSUME IndInv, WriteLine PROVE IndInv'
<1>1. file \in Seq(Lines) /\ UNCHANGED <<now, cache, reverse, phase, lastKey, lastValue>>
  BY DEF IndInv, Typed, WriteLine
<1>2. file' \in Seq(Lines) BY <1>1, WrittenIs, FileType
<1>3. iter' \in DOMAIN cache \cup {Idle, Dangling}
  <2>1. iter \in Nat BY CacheAssumption DEF IndInv, Walk, Typed, Keys, Idle, Dangling
  <2>2. iter' \in Steps(iter + 1) BY DEF WriteLine
  <2>. QED BY <2>1, <2>2, StepsIn
<1>4. Typed' BY <1>1, <1>2 DEF IndInv, Typed
<1>5. Reversed' BY <1>1 DEF IndInv, Reversed
<1>6. Stored' BY <1>1 DEF IndInv, Stored, Entry
<1>7. Walk' BY <1>1, <1>3 DEF Walk, WriteLine
<1>. QED BY <1>4, <1>5, <1>6, <1>7 DEF IndInv

LEMMA LoadInd ==
  ASSUME IndInv, loadFromCSV PROVE IndInv'
<1>1. cache' = LoadedCache /\ lastValue' = LoadedCache /\ reverse' = lastKey'
  BY DEF loadFromCSV
<1>2. file \in Seq(Lines) /\ DOMAIN file = 1..Len(file) /\ Len(file) \in Nat
  BY LenProperties DEF IndInv, Typed
<1>3. \A i \in Loaded : i \in 1..Len(file) /\ file[i] \in Lines
  BY <1>2, ElementOfSeq DEF Loaded
<1>4. \A i \in Loaded : file[i].time \in Keys /\ file[i].value \in Strings
  BY <1>3 DEF Lines
<1>5. DOMAIN LoadedCache \subseteq Keys BY <1>4 DEF LoadedCache
<1>6. ASSUME NEW k \in DOMAIN LoadedCache PROVE LoadedCache[k] \in Strings
  <2>. DEFINE T == {i \in Loaded : file[i].time = k}
  <2>1. T \in SUBSET (1..Len(file)) /\ T # {} BY <1>3 DEF LoadedCache
  <2>2. Max(T) \in T BY <1>2, <2>1, MaxIn
  <2>3. LoadedCache[k] = file[Max(T)].value BY DEF LoadedCache
  <2>. QED BY <1>4, <2>2, <2>3
<1>7. Typed' BY <1>1, <1>5, <1>6 DEF IndInv, Typed, loadFromCSV
<1>8. Reversed' BY <1>1 DEF Reversed
<1>9. Stored' BY <1>1 DEF Stored, Entry
<1>10. Walk' BY DEF IndInv, Walk, loadFromCSV
<1>. QED BY <1>7, <1>8, <1>9, <1>10 DEF IndInv

LEMMA RestInd ==
  ASSUME IndInv, writeToCSV \/ LoadFails \/ Tick \/ Restart \/ UNCHANGED vars PROVE IndInv'
<1>1. CASE writeToCSV
  <2>1. iter' \in DOMAIN cache \cup {Idle, Dangling} BY <1>1, StepsIn DEF writeToCSV
  <2>. QED BY <1>1, <2>1 DEF writeToCSV, IndInv, Typed, Reversed, Stored, Walk, Entry
<1>2. CASE LoadFails
  BY <1>2 DEF LoadFails, IndInv, Typed, Reversed, Stored, Walk, Entry
<1>3. CASE Tick
  <2>1. now' \in 0..MaxTime BY <1>3, CacheAssumption DEF Tick, IndInv, Typed
  <2>. QED BY <1>3, <2>1 DEF Tick, IndInv, Typed, Reversed, Stored, Walk, Entry
<1>4. CASE Restart
  <2>1. DOMAIN cache' = {} /\ DOMAIN reverse' = {} BY <1>4 DEF Restart, NoEntries
  <2>. QED BY <1>4, <2>1 DEF Restart, IndInv, Typed, Reversed, Stored, Walk
<1>5. CASE UNCHANGED vars
  BY <1>5 DEF vars, IndInv, Typed, Reversed, Stored, Walk, Entry
<1>. QED BY <1>1, <1>2, <1>3, <1>4, <1>5

(* The maps follow their histories, and writeToCSV stays within the map      *)
(* unless an eviction erases the node at which it stands.                    *)
LEMMA Inductive == Spec => []IndInv
<1>1. IndInv /\ [Next]_vars => IndInv'
  <2>. SUFFICES ASSUME IndInv, [Next]_vars PROVE IndInv' OBVIOUS
  <2>1. ASSUME NEW v \in Values, NEW k \in Keys, Assign(k, v) PROVE IndInv'
    <3>1. phase = "running" BY <2>1 DEF Assign, IndInv, Walk, Typed
    <3>. QED BY <2>1, <3>1, AssignInd
  <2>. QED BY <2>1, InsertInd, WriteLineInd, LoadInd, RestInd DEF Next
<1>. QED BY <1>1, InitInd, PTL DEF Spec
-------------------------------------------------------------------------------
(* searchByValue never answers with a second other than the one at which the *)
(* value was last inserted or loaded, and searchByKey and searchByTimeRange  *)
(* never with a value other than the last one stored at that second, for any *)
(* maxSize and clock, through evictions and restarts.                        *)
THEOREM SearchesAnswerLatest == Spec => []AnswersAreLatest
<1>1. ASSUME IndInv PROVE AnswersAreLatest
  <2>1. ASSUME NEW v \in Values, searchByValue(v) # -1
        PROVE  v \in DOMAIN lastKey /\ searchByValue(v) = lastKey[v]
    BY <1>1, <2>1 DEF IndInv, Reversed, searchByValue
  <2>2. ASSUME NEW k \in DOMAIN cache, searchByKey(k) \in Values
        PROVE  k \in DOMAIN lastValue /\ searchByKey(k) = lastValue[k]
    BY <1>1, <2>2, CacheAssumption DEF IndInv, Stored, Entry, searchByKey
  <2>3. ASSUME NEW b \in Keys, NEW e \in Keys, NEW r \in searchByTimeRange(b, e)
        PROVE  r.value = searchByKey(r.key)
    <3>1. PICK k \in DOMAIN cache : r = [key |-> k, value |-> cache[k]]
      BY <2>3 DEF searchByTimeRange
    <3>. QED BY <3>1 DEF searchByKey
  <2>. QED BY <2>1, <2>2, <2>3 DEF AnswersAreLatest
<1>. QED BY <1>1, Inductive, PTL

(* The unlocked iteration of writeToCSV, and insert, append only lines of    *)
(* entries stored since the program started or empty ones, but for lines     *)
(* written while both are under way or from an erased node.                  *)
THEOREM WritesEntries == Spec => LinesAreEntries
<1>. DEFINE Stores == \/ \E k \in DOMAIN lastValue' : Last(file') = Line(k, lastValue'[k])
                      \/ \E k \in DOMAIN cache' : cache'[k] = Empty /\ Last(file') = Line(k, Empty)
            Good == file' # file /\ ~Racing /\ iter # Dangling => Stores
<1>1. ASSUME IndInv, [Next]_vars PROVE [Good]_vars
  <2>. SUFFICES ASSUME file' # file, ~Racing, iter # Dangling PROVE Stores
    OBVIOUS
  <2>1. file \in Seq(Lines) BY <1>1 DEF IndInv, Typed
  <2>2. CASE \E v \in Values, k \in Keys : Assign(k, v)
    <3>1. PICK v \in Values, k \in Keys : Assign(k, v) BY <2>2
    <3>2. file' = Append(file, Line(k, v)) BY <3>1 DEF Assign, appendCsv, Printed
    <3>3. Line(k, v) \in Lines BY LineType DEF Strings
    <3>4. k \in DOMAIN lastValue' /\ lastValue'[k] = v BY <3>1 DEF Assign, With
    <3>. QED BY <2>1, <3>2, <3>3, <3>4, FileType
  <2>3. CASE WriteLine
    <3>1. lastValue' = lastValue /\ cache' = cache BY <2>3 DEF WriteLine
    <3>2. /\ iter \in DOMAIN cache /\ file' = Append(file, Line(iter, cache[iter]))
          /\ Line(iter, cache[iter]) \in Lines
      BY <1>1, <2>3, WrittenIs
    <3>3. Last(file') = Line(iter, cache[iter]) BY <2>1, <3>2, FileType
    <3>4. CASE cache[iter] = Empty BY <3>1, <3>2, <3>3, <3>4
    <3>5. CASE Entry(iter) BY <3>1, <3>3, <3>5 DEF Entry
    <3>. QED BY <1>1, <3>2, <3>4, <3>5 DEF IndInv, Stored
  <2>4. CASE \/ \E v \in Values : insert(v)
             \/ writeToCSV \/ loadFromCSV \/ LoadFails \/ Tick \/ Restart \/ UNCHANGED vars
    BY <2>4 DEF insert, writeToCSV, loadFromCSV, LoadFails, Tick, Restart, vars
  <2>. QED BY <1>1, <2>2, <2>3, <2>4 DEF Next
<1>. QED BY <1>1, Inductive, PTL DEF Spec, LinesAreEntries
===============================================================================
