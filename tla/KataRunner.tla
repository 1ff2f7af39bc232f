------------------------------ MODULE KataRunner ------------------------------
(***************************************************************************)
(* kata_runner.cpp: katas are registered under a number, and main offers a   *)
(* menu again and again.  A kata that runs is one of the modules below, on   *)
(* the frame s; the runner's own state is which one that is.  The properties *)
(* of the katas are those of their modules while that kata runs.             *)
(***************************************************************************)
EXTENDS KataBounds, Sequences, SequencesExt

VARIABLES kata,   \* the kata that runs, or "menu", or "end"
          s       \* its frame

vars == <<kata, s>>

Idle == <<>>

Search     == INSTANCE BinarySearch
Helpers    == INSTANCE HelperClasses
Sorts      == INSTANCE Sorting
Lists      == INSTANCE LinkedLists
Trees      == INSTANCE BinaryTrees
Recursive  == INSTANCE Recursions
Numbers    == INSTANCE NumberKatas
Text       == INSTANCE TextKatas

(* m_commands: number -> name.                                               *)
register_kata(commands, name) == Append(commands, name)

m_commands ==
  FoldLeft(register_kata, <<>>,
    <<"search", "containers", "sorts", "graph", "lists", "trees", "tables", "median", "picks",
      "numbers", "text", "message">>)

find_kata(nChoice) == IF nChoice \in DOMAIN m_commands THEN m_commands[nChoice] ELSE "nullptr"

(* func_ptr is called with one of its possible arguments.                    *)
CallsOf(name) ==
  CASE name = "search"  -> Search!Calls        [] name = "containers" -> Helpers!ContainerCalls
    [] name = "sorts"   -> Sorts!SortCalls     [] name = "graph"      -> Helpers!GraphCalls
    [] name = "lists"   -> Lists!Calls         [] name = "trees"      -> Trees!Calls
    [] name = "tables"  -> Recursive!TableCalls [] name = "median"    -> Sorts!MedianCalls
    [] name = "picks"   -> Recursive!PickCalls [] name = "numbers"    -> Numbers!Calls
    [] name = "text"    -> Text!Calls          [] name = "message"    -> Helpers!MessageCalls

Init == kata = "menu" /\ s = Idle

(* The body of main's loop up to the call: a number that is not in the menu   *)
(* is refused, and one that is not positive ends the loop after that.        *)
Choose(nChoice) ==
  LET name == find_kata(nChoice) IN
  /\ kata = "menu"
  /\ \/ name # "nullptr" /\ kata' = name /\ s' \in CallsOf(name)
     \/ name = "nullptr" /\ kata' = (IF nChoice > 0 THEN "menu" ELSE "end") /\ s' = Idle

Run ==
  /\ UNCHANGED kata
  /\ \/ kata = "search" /\ Search!Next
     \/ kata = "containers" /\ Helpers!ContainerNext
     \/ kata = "sorts" /\ Sorts!SortNext
     \/ kata = "graph" /\ Helpers!GraphNext
     \/ kata = "lists" /\ Lists!Next
     \/ kata = "trees" /\ Trees!Next
     \/ kata = "tables" /\ Recursive!TableNext
     \/ kata = "median" /\ Sorts!MedianNext
     \/ kata = "picks" /\ Recursive!PickNext
     \/ kata = "numbers" /\ Numbers!Next
     \/ kata = "text" /\ Text!Next
     \/ kata = "message" /\ Helpers!MessageNext

Returned ==
  \/ kata = "search" /\ Search!Done
  \/ kata = "containers" /\ Helpers!ContainerDone
  \/ kata = "sorts" /\ Sorts!SortDone
  \/ kata = "graph" /\ Helpers!GraphDone
  \/ kata = "lists" /\ Lists!Done
  \/ kata = "trees" /\ Trees!Done
  \/ kata = "tables" /\ Recursive!TableDone
  \/ kata = "median" /\ Sorts!MedianDone
  \/ kata = "picks" /\ Recursive!PickDone
  \/ kata = "numbers" /\ Numbers!Done
  \/ kata = "text" /\ Text!Done
  \/ kata = "message" /\ Helpers!MessageDone

Return == Returned /\ kata' = "menu" /\ s' = Idle

End == kata = "end" /\ UNCHANGED vars

Next == (\E nChoice \in 0..(Len(m_commands) + 1) : Choose(nChoice)) \/ Run \/ Return \/ End

(* main runs on one thread and calls nothing that waits, but for the user.   *)
Spec == Init /\ [][Next]_vars /\ WF_vars(Run) /\ WF_vars(Return)
-------------------------------------------------------------------------------
(* Over any calls, the arrays and nodes of a container describe what was put *)
(* in and not taken out: Queue over any number of wraps, Stack, BinaryTree   *)
(* and createTree's tree; their answers are those of a plain sequence; every *)
(* buffer of a NetworkMessage has one owner, and a message holds what was    *)
(* last put, copied or moved into it.                                        *)
StructuresAgree ==
  /\ kata = "containers" => Helpers!QueueAgrees /\ Helpers!StackAgrees
                             /\ Helpers!AnswersRight
  /\ kata = "trees" => Trees!InsertSorts /\ Trees!ArrayRight
  /\ kata = "message" => Helpers!OwnedOnce /\ Helpers!HoldsItsValue

(* In the middle of a loop or of a recursion: binary_search has left behind  *)
(* no place of the target and stays inside the array; a sort is done with    *)
(* parts in their final order; no node is out of reach while a list is       *)
(* reversed; every filled cell of coinChange and knapsack is an optimum; the *)
(* cuts of findMedianSortedArrays are inside their arrays; the one track     *)
(* that all calls of backtrace share is the choices of the open calls.       *)
LoopsHold ==
  /\ kata = "search" => Search!TypeOK /\ Search!Bracketed
  /\ kata = "sorts" => Sorts!PartsInOrder
  /\ kata = "lists" => Lists!NoNodeLost
  /\ kata = "tables" => Recursive!CoinTable /\ Recursive!KnapsackTable
  /\ kata = "median" => Sorts!CutInside
  /\ kata = "picks" => Recursive!TrackMatches

(* What is visited on graphs, lists and trees: DFS and BFS print every       *)
(* vertex that can be reached once, in their order, though DFS pushes a      *)
(* vertex once for every edge to it; the list functions reverse the nodes    *)
(* they should, find a cycle and its start exactly if there is one, the      *)
(* middle and the n-th last node, and palindromes; levels come in order, and *)
(* every root-to-leaf path once although all calls share one path.           *)
WalksRight ==
  /\ kata = "graph" => Helpers!WalkComplete /\ Helpers!NearestFirst /\ Helpers!DeepestFirst
  /\ kata = "lists" => Lists!ReverseRight /\ Lists!CycleRight /\ Lists!PointsRight
                        /\ Lists!PalindromeRight
  /\ kata = "trees" => Trees!DepthsAgree /\ Trees!PathsRight /\ Trees!LevelsRight

(* What a function returns is what a definition without its algorithm says:  *)
(* the place of the target, a sorted permutation, the median, the subsets    *)
(* and permutations each once, primes, sums, extremes, and the four kinds of *)
(* text.  Two are claimed only in part, as the code does less than its       *)
(* comments: find_median of an even length (MedianRight) and fix_spell_error *)
(* of more than one error (SpellFixed).                                      *)
ResultsRight ==
  /\ kata = "search" => Search!ResultRight
  /\ kata = "sorts" => Sorts!OutputSorted
  /\ kata = "tables" => Recursive!FibsAgree
  /\ kata = "median" => Sorts!MedianRight /\ Sorts!PartitionRight
  /\ kata = "picks" => Recursive!ListedOnce
  /\ kata = "numbers" => Numbers!PrimesRight /\ Numbers!SumFound /\ Numbers!SumRight
                          /\ Numbers!MinMaxRight
  /\ kata = "text" => Text!SpellFixed /\ Text!LongestRight /\ Text!AlmostPalindrome
                       /\ Text!TokensRight

(* Every kata comes back to the menu: no loop goes on for ever, no null      *)
(* pointer is followed and no index leaves an array.                         *)
KataReturns == kata \notin {"menu", "end"} ~> kata = "menu"
===============================================================================
