----------------------------- MODULE ExamClasses ------------------------------
(***************************************************************************)
(* Two classes of example/exam as a program uses them.  Command              *)
(* (tiny_command.cpp) owns an array through a raw pointer and has written    *)
(* out copies and moves; heap is the allocated arrays.  WordBank             *)
(* (WordBank.cpp, WordBankDemo.cpp) counts the words of a file and ranks     *)
(* them.                                                                     *)
(***************************************************************************)
EXTENDS ProgramBounds, Sequences, FiniteSetsExt

VARIABLE s    \* "command": objects (slot to its members), heap (arrays, by address),
              \* history: value (the data each object was given), copied (the
              \* objects whose data went through the copy constructor), lost
              \* (arrays of objects that were destroyed);
              \* "wordbank": m_mapWords, m_wordCount, m_vecWords, pc, text (what
              \* was read: history), printed

Slots == 1..3
Addresses == 1..MaxBlocks
NullPtr == 0
Unset == 0
Keys == {"k"}
Array == {<< >>, <<7, 8>>}

Blank == [m_parameters |-> [k \in Keys |-> Unset], m_length |-> 0, m_data |-> NullPtr]

CommandStarts ==
  {[program |-> "command", objects |-> << >>, heap |-> << >>, value |-> << >>, copied |-> {},
    lost |-> {}]}

BankStarts ==
  {[program |-> "wordbank", pc |-> "read", m_mapWords |-> << >>, m_wordCount |-> 0,
    m_vecWords |-> << >>, text |-> << >>, printed |-> 0]}

Without(f, x) == [y \in DOMAIN f \ {x} |-> f[y]]
With(f, x, v) == [y \in DOMAIN f \cup {x} |-> IF y = x THEN v ELSE f[y]]
-------------------------------------------------------------------------------
Commands == s.program = "command"
Live == DOMAIN s.objects
Vacant(o) == o \in Slots \ Live

(* delete[] of a null pointer does nothing.                                  *)
Deleted(p) == Without(s.heap, p)
New == Min(Addresses \ DOMAIN s.heap)
HasRoom == DOMAIN s.heap # Addresses

Construct(o) ==
  Vacant(o) /\ s' = [s EXCEPT !.objects = With(@, o, Blank), !.value = With(@, o, << >>)]

(* History: what o is given is what p was given, copied if that was.         *)
From(o, p) == IF p \in s.copied THEN s.copied \cup {o} ELSE s.copied \ {o}

(* m_length is still 0 when it says how much to copy.                        *)
CopyConstruct(o, p) ==
  /\ Vacant(o) /\ p \in Live
  /\ LET copy == [Blank EXCEPT !.m_parameters = s.objects[p].m_parameters]
     IN  s' = [s EXCEPT !.objects = With(@, o, copy), !.value = With(@, o, s.value[p]),
                        !.copied = @ \cup {o}]

(* insert keeps the value of a key that is there.                            *)
Merged(own, other) == [k \in Keys |-> IF own[k] # Unset THEN own[k] ELSE other[k]]

Content(p) == IF p = NullPtr THEN << >> ELSE s.heap[p]

Assign(o, p) ==
  /\ o \in Live /\ p \in Live /\ o # p /\ HasRoom
  /\ LET mine == s.objects[o]
         its  == s.objects[p]
     IN  s' = [s EXCEPT
                 !.objects[o] = [m_parameters |-> Merged(mine.m_parameters, its.m_parameters),
                                 m_length |-> its.m_length, m_data |-> New],
                 !.heap = With(Deleted(mine.m_data), New,
                               SubSeq(Content(its.m_data), 1, its.m_length)),
                 !.value[o] = s.value[p], !.copied = From(o, p)]

(* The source keeps its pointer.                                             *)
Released_Not(c) == [c EXCEPT !.m_parameters = Blank.m_parameters]
Released(c) == Blank

MoveConstruct(o, p) ==
  /\ Vacant(o) /\ p \in Live
  /\ s' = [s EXCEPT !.objects = With([@ EXCEPT ![p] = Released(s.objects[p])], o, s.objects[p]),
                    !.value = With([@ EXCEPT ![p] = << >>], o, s.value[p]),
                    !.copied = From(o, p) \ {p}]

MoveAssign(o, p) ==
  /\ o \in Live /\ p \in Live /\ o # p
  /\ s' = [s EXCEPT !.objects[o] = s.objects[p], !.objects[p] = Released(s.objects[p]),
                    !.heap = Deleted(s.objects[o].m_data),
                    !.value[o] = s.value[p], !.value[p] = << >>,
                    !.copied = From(o, p) \ {p}]

(* The destructor does not free the array.                                   *)
Destroy(o) ==
  /\ o \in Live
  /\ s' = [s EXCEPT !.objects = Without(@, o), !.value = Without(@, o),
                    !.copied = @ \ {o}, !.lost = @ \cup ({s.objects[o].m_data} \ {NullPtr})]

setParameter(o, k, v) == o \in Live /\ s' = [s EXCEPT !.objects[o].m_parameters[k] = v]

setData(o, d) ==
  /\ o \in Live /\ HasRoom
  /\ s' = [s EXCEPT !.objects[o].m_length = Len(d), !.objects[o].m_data = New,
                    !.heap = With(Deleted(s.objects[o].m_data), New, d), !.value[o] = d,
                    !.copied = @ \ {o}]

UseCommand ==
  \E o \in Slots :
    \/ Construct(o) \/ Destroy(o)
    \/ \E k \in Keys, v \in {1} : setParameter(o, k, v)
    \/ \E d \in Array : setData(o, d)
    \/ \E p \in Slots : \/ CopyConstruct(o, p) \/ Assign(o, p)
                        \/ MoveConstruct(o, p) \/ MoveAssign(o, p)
-------------------------------------------------------------------------------
Banks == s.program = "wordbank"

Word == {<<"a">>, <<"A">>, <<"B", "-">>, <<"b">>, <<"c">>, <<"-">>}

isalpha(ch) == ch # "-"
tolower(ch) == CASE ch = "A" -> "a" [] ch = "B" -> "b" [] OTHER -> ch

convertString(w) == LET letters == SelectSeq(w, isalpha)
                    IN  [i \in DOMAIN letters |-> tolower(letters[i])]

getWordCount(w) ==
  IF convertString(w) \in DOMAIN s.m_mapWords THEN s.m_mapWords[convertString(w)] ELSE 0

(* addWord or increaseWordCount.                                             *)
Counted(w) ==
  LET str == convertString(w)
  IN  IF str = << >> THEN s.m_mapWords ELSE With(s.m_mapWords, str, getWordCount(w) + 1)

Read(w) ==
  /\ s.pc = "read" /\ Len(s.text) < MaxWords
  /\ s' = [s EXCEPT !.m_wordCount = @ + 1, !.m_mapWords = Counted(w), !.text = Append(@, w)]

comparePair(a, b) == a[2] > b[2]

Pairs == {<<str, s.m_mapWords[str]>> : str \in DOMAIN s.m_mapWords}

(* sort may leave words of the same count in any order.                      *)
sortWords ==
  /\ s.pc = "read"
  /\ \E vec \in Bijection(1..Cardinality(Pairs), Pairs) :
       /\ \A i, j \in DOMAIN vec : i < j => ~comparePair(vec[j], vec[i])
       /\ s' = [s EXCEPT !.m_vecWords = vec, !.pc = "sorted"]

getWordRank(w) ==
  LET count == getWordCount(w)
  IN  IF count = 0 THEN 0
      ELSE 1 + Cardinality({str \in DOMAIN s.m_mapWords : s.m_mapWords[str] > count})

(* One line is printed before n is looked at.                                *)
printTop(n) ==
  /\ s.pc = "sorted"
  /\ s' = [s EXCEPT !.printed = Min({Len(s.m_vecWords), Max({n, 1})}), !.pc = "done"]

UseWordBank == sortWords \/ (\E w \in Word : Read(w)) \/ \E n \in 0..MaxWords : printTop(n)

Ended == Banks /\ s.pc = "done" /\ UNCHANGED s

Next == (Commands /\ UseCommand) \/ (Banks /\ UseWordBank) \/ Ended
-------------------------------------------------------------------------------
(* Every array has one owner: the pointer of a live Command is null or leads *)
(* to an array of m_length bytes that no other has, so that no array is      *)
(* freed twice or used after it was freed, and only the destructor may leave *)
(* an array without an owner.  The array holds the data that was set,        *)
(* assigned or moved into the object, whatever happened to where it came     *)
(* from; nothing is claimed of data the copy constructor should have copied. *)
OneOwner ==
  LET Pointers == {o \in Live : s.objects[o].m_data # NullPtr}
      Owned == {s.objects[o].m_data : o \in Pointers}
  IN  /\ \A o, p \in Pointers : s.objects[o].m_data = s.objects[p].m_data => o = p
      /\ Owned \subseteq DOMAIN s.heap /\ DOMAIN s.heap \subseteq Owned \cup s.lost
      /\ \A o \in Live : s.objects[o].m_length = Len(Content(s.objects[o].m_data))
      /\ \A o \in Live \ s.copied : Content(s.objects[o].m_data) = s.value[o]

(* The counts are those of the text, with letters compared without case and  *)
(* all other characters left out; a word that has no letter only counts in   *)
(* the total.                                                                *)
CountsRight ==
  /\ \A str \in {convertString(w) : w \in Word} \ {<< >>} :
       getWordCount(str) = Cardinality({i \in DOMAIN s.text : convertString(s.text[i]) = str})
  /\ s.m_wordCount = Len(s.text)

(* The rank counts over the map, the list is sorted on its own: at the place *)
(* of its rank is a word with the same count, and there is none before it.   *)
RankIsPlace ==
  s.pc # "read" => \A w \in Word : getWordRank(w) > 0 =>
    /\ s.m_vecWords[getWordRank(w)][2] = getWordCount(w)
    /\ \A i \in 1..(getWordRank(w) - 1) : s.m_vecWords[i][2] > getWordCount(w)
===============================================================================
