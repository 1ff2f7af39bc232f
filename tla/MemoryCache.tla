----------------------------- MODULE MemoryCache ------------------------------
(***************************************************************************)
(* kata08_memory_cache.cpp: values stored under the second of their         *)
(* insertion, a reverse map from values to seconds, and a CSV file that      *)
(* insert and writeToCSV append to and that is loaded when the program       *)
(* starts.  Every method but writeToCSV holds the mutex; the lock of         *)
(* writeToCSV is commented out, so its iteration also meets an insert that   *)
(* has made its node and not yet assigned it, or that is relinking the tree. *)
(* What such a race reads is a free choice: any value of the node that is    *)
(* being assigned or was erased, any node of the tree as the next one, and,  *)
(* as localtime shares one buffer, any second.                               *)
(***************************************************************************)
EXTENDS Integers, SequencesExt

CONSTANTS Values,    \* non-empty strings passed to insert
          Empty,     \* the empty string that cache[k] creates
          MaxSize,   \* maxSize
          Summer,    \* the seconds at which daylight saving time is in force
          Hour,      \* by how much it moves the clock
          MaxTime,   \* bound: the clock stops there
          MaxLines   \* bound on the lines of the file

ASSUME CacheAssumption ==
  /\ MaxSize \in Nat \ {0} /\ MaxTime \in Nat /\ Hour \in Nat
  /\ Summer \subseteq 0..MaxTime
  /\ Empty \notin Values

VARIABLES now,       \* std::time(nullptr)
          cache,     \* key -> value
          reverse,   \* reverseCache, value -> key
          file,      \* the lines of cache_data.csv
          iter,      \* the key at which writeToCSV stands, Idle or Dangling
          inserting, \* <<key, value>> of the insert that holds the mutex, or <<>>
          phase,     \* loading, running
          lastKey,   \* history: value -> key under which it was last stored
          lastValue  \* history: key -> value last stored under it

vars == <<now, cache, reverse, file, iter, inserting, phase, lastKey, lastValue>>

Keys == 0..(MaxTime + Hour)
Idle == MaxTime + Hour + 1
Dangling == MaxTime + Hour + 2
NoEntries == [x \in {} |-> x]
Strings == Values \cup {Empty}

Init ==
  /\ now = 0 /\ file = <<>> /\ iter = Idle /\ inserting = <<>> /\ phase = "loading"
  /\ cache = NoEntries /\ reverse = NoEntries
  /\ lastKey = NoEntries /\ lastValue = NoEntries

(* m[k] = v *)
With(m, k, v) == [x \in DOMAIN m \cup {k} |-> IF x = k THEN v ELSE m[x]]
Without(m, k) == Restrict(m, DOMAIN m \ {k})

(* timeToString prints local time; get_time and mktime, with tm_isdst zero,  *)
(* read it back as standard time.                                            *)
timeToString(k) == IF k \in Summer THEN k + Hour ELSE k

Line(k, v) == [time |-> timeToString(k), value |-> v]

(* cache[k]: a key that is not there gets an empty string.                   *)
Subscript(m, k) == IF k \in DOMAIN m THEN m ELSE With(m, k, Empty)

(* The two maps after the eviction in insert: the oldest node is erased, and *)
(* cache[oldestKey] with the dangling reference looks up any key k.          *)
Evict(k) ==
  LET d == Subscript(Without(cache, Min(DOMAIN cache)), k)
  IN  [cache |-> d, reverse |-> Without(reverse, d[k])]

Full == Cardinality(DOMAIN cache) >= MaxSize

Evicted == IF Full THEN {Evict(k) : k \in Keys}
                   ELSE {[cache |-> cache, reverse |-> reverse]}

(* insert up to the point where cache[key] has made the node; the eviction   *)
(* may erase the node at which writeToCSV stands.                            *)
insert(v) ==
  /\ phase = "running" /\ inserting = <<>>
  /\ \E m \in Evicted : cache' = Subscript(m.cache, now) /\ reverse' = m.reverse
  /\ iter' = IF Full /\ iter = Min(DOMAIN cache) THEN Dangling ELSE iter
  /\ inserting' = <<now, v>>
  /\ UNCHANGED <<now, file, phase, lastKey, lastValue>>

(* insert and writeToCSV are both under way.                                 *)
Racing == inserting # <<>> /\ iter # Idle

(* The seconds that localtime and put_time may print for k.                  *)
Printed(k) == IF Racing THEN Keys ELSE {k}

(* appendCsv reads the clock again.                                          *)
appendCsv_ReadsClock(k, v) ==
  file' \in {file} \cup {Append(file, Line(t, v)) : t \in Printed(now)}

(* appendCsv: the file may fail to open, and the line is then dropped.       *)
appendCsv(k, v) == file' \in {file} \cup {Append(file, Line(t, v)) : t \in Printed(k)}

(* The reverse map keeps the first second of a value (map::insert).          *)
Assign_KeepsFirst(k, v) ==
  /\ inserting = <<k, v>> /\ inserting' = <<>> /\ Len(file) < MaxLines
  /\ cache' = With(cache, k, v)
  /\ reverse' = IF v \in DOMAIN reverse THEN reverse ELSE With(reverse, v, k)
  /\ appendCsv(k, v)
  /\ lastKey' = With(lastKey, v, k) /\ lastValue' = With(lastValue, k, v)
  /\ UNCHANGED <<now, iter, phase>>

(* The rest of insert: both assignments, appendCsv and the unlock.           *)
Assign(k, v) ==
  /\ inserting = <<k, v>> /\ inserting' = <<>> /\ Len(file) < MaxLines
  /\ cache' = With(cache, k, v) /\ reverse' = With(reverse, v, k)
  /\ appendCsv(k, v)
  /\ lastKey' = With(lastKey, v, k) /\ lastValue' = With(lastValue, k, v)
  /\ UNCHANGED <<now, iter, phase>>

(* Where the iteration may stand next: at the least key from k on, anywhere  *)
(* in a tree that an insert is relinking, or, when it comes from a node that *)
(* was erased, also at another such node.                                    *)
From(k) == Min({x \in DOMAIN cache : x >= k} \cup {Idle})
Steps(k) == CASE iter = Dangling -> DOMAIN cache \cup {Idle, Dangling}
              [] inserting # <<>> -> DOMAIN cache \cup {Idle}
              [] OTHER -> {From(k)}

(* What is read at the node where writeToCSV stands.                         *)
Read == IF iter = Dangling \/ (inserting # <<>> /\ inserting[1] = iter)
        THEN Strings ELSE {cache[iter]}

writeToCSV ==
  /\ phase = "running" /\ iter = Idle
  /\ iter' \in Steps(0)
  /\ UNCHANGED <<now, cache, reverse, file, inserting, phase, lastKey, lastValue>>

WriteLine ==
  /\ phase = "running" /\ iter # Idle /\ Len(file) < MaxLines
  /\ \E t \in IF iter = Dangling THEN Keys ELSE Printed(iter), v \in Read :
       file' = Append(file, Line(t, v))
  /\ iter' \in Steps(iter + 1)
  /\ UNCHANGED <<now, cache, reverse, inserting, phase, lastKey, lastValue>>

(* loadFromCSV: a line without a value is skipped, a later line overwrites   *)
(* an earlier one, and maxSize is not looked at.                             *)
Loaded == {i \in DOMAIN file : file[i].value # Empty}

LoadedCache ==
  [k \in {file[i].time : i \in Loaded} |-> file[Max({i \in Loaded : file[i].time = k})].value]
LoadedReverse ==
  [v \in {file[i].value : i \in Loaded} |-> file[Max({i \in Loaded : file[i].value = v})].time]

loadFromCSV ==
  /\ phase = "loading" /\ phase' = "running"
  /\ cache' = LoadedCache /\ reverse' = LoadedReverse
  /\ lastKey' = LoadedReverse /\ lastValue' = LoadedCache
  /\ UNCHANGED <<now, file, iter, inserting>>

LoadFails ==
  /\ phase = "loading" /\ phase' = "running"
  /\ UNCHANGED <<now, cache, reverse, file, iter, inserting, lastKey, lastValue>>

Tick ==
  /\ now < MaxTime
  /\ now' = now + 1
  /\ UNCHANGED <<cache, reverse, file, iter, inserting, phase, lastKey, lastValue>>

(* The program ends, at any point, and is started again.                     *)
Restart ==
  /\ phase = "running" /\ phase' = "loading"
  /\ cache' = NoEntries /\ reverse' = NoEntries
  /\ iter' = Idle /\ inserting' = <<>>
  /\ lastKey' = NoEntries /\ lastValue' = NoEntries
  /\ UNCHANGED <<now, file>>

searchByKey(k) == IF k \in DOMAIN cache THEN cache[k] ELSE "Key not found"
searchByValue(v) == IF v \in DOMAIN reverse THEN reverse[v] ELSE -1
searchByTimeRange(b, e) == {[key |-> k, value |-> cache[k]] : k \in DOMAIN cache \cap b..e}

Next ==
  \/ \E v \in Values : insert(v) \/ \E k \in Keys : Assign(k, v)
  \/ writeToCSV \/ WriteLine \/ loadFromCSV \/ LoadFails \/ Tick \/ Restart

Spec == Init /\ [][Next]_vars
-------------------------------------------------------------------------------
(* A search that gets the mutex never answers with a second other than the   *)
(* one at which the value was last inserted or loaded (searchByValue), nor   *)
(* with a value other than the last one stored at that second or the empty   *)
(* one that an eviction leaves (searchByKey, searchByTimeRange), whatever    *)
(* evictions, insertions within one second and races with writeToCSV         *)
(* happened since the program started.                                       *)
AnswersAreLatest == inserting = <<>> =>
  /\ \A v \in Values : searchByValue(v) # -1 =>
        v \in DOMAIN lastKey /\ searchByValue(v) = lastKey[v]
  /\ \A k \in DOMAIN cache : searchByKey(k) \in Values =>
        k \in DOMAIN lastValue /\ searchByKey(k) = lastValue[k]
  /\ \A b, e \in Keys : \A r \in searchByTimeRange(b, e) :
        r.value = searchByKey(r.key)

(* writeToCSV without the mutex does harm only in the act: a line is that of *)
(* an entry stored since the program started, or holds the empty string of   *)
(* an eviction, unless it is written while an insert is under way as well or *)
(* from a node that an eviction has erased.  A walk that met an insert goes  *)
(* on at an entry.                                                           *)
LinesAreEntries ==
  [][file' # file /\ ~Racing /\ iter # Dangling =>
       \/ \E k \in DOMAIN lastValue' : Last(file') = Line(k, lastValue'[k])
       \/ \E k \in DOMAIN cache' : cache'[k] = Empty /\ Last(file') = Line(k, Empty)]_vars

(* Comment in insert: "Remove the oldest entry from both the key-value and   *)
(* value-key maps".                                                          *)
OldestIsRemoved ==
  [][\A v \in Values : insert(v) /\ Full =>
       Min(DOMAIN cache) \notin DOMAIN cache' \ {now}]_vars
===============================================================================
