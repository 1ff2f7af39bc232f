----------------------------- MODULE HelperClasses -----------------------------
(***************************************************************************)
(* Classes of the katas: Queue, Stack and Graph of kata_helper.cpp, and      *)
(* NetworkMessage of kata01.  Queue and Stack are a circular queue and a     *)
(* stack in arrays of fixed capacity; items are numbered in the order they   *)
(* go in.  Removing from, or looking at, an empty container answers 0; a     *)
(* bool is 0 or 1.  A step is one call; the caller may stop after any of     *)
(* them.  Edges are added to the adjacency lists of a Graph, then DFS (with  *)
(* an explicit stack that may hold a vertex twice) or BFS walks from a       *)
(* vertex, one turn of a loop per step.                                      *)
(***************************************************************************)
EXTENDS KataBounds, Sequences, FiniteSetsExt, SequencesExt

VARIABLE s   \* containers: arr, front, back, size: Queue; sarr, top: Stack
             \* entered, taken: how many items went through the queue
             \* model: history, what the stack should hold
             \* op, answer: the last call and what it returned
             \* graph: adj; edges: how many were added; walk: none, dfs, bfs or over
             \* by, start: which walk, from where; visited
             \* list: its stack or queue; out: the vertices written, in order
             \* message: obj: name -> object; heap: the blocks allocated
             \* value: history, what each name should hold (0: nothing)
             \* left: how many statements may follow before the last destructors

Slots == 0..(Capacity - 1)

ContainerCalls ==
  {[arr |-> [i \in Slots |-> 0], front |-> 0, back |-> Capacity - 1, size |-> 0,
    entered |-> 0, taken |-> 0,
    sarr |-> [i \in Slots |-> 0], top |-> -1, model |-> <<>>, op |-> "none", answer |-> 0]}

Answers(frame, name, a) == s' = [frame EXCEPT !.op = name, !.answer = a]

StoreAt == (s.back + 1) % Capacity

enqueue ==
  /\ s.entered < MaxPuts
  /\ IF s.size = Capacity THEN Answers(s, "enqueue", 0)
     ELSE Answers([s EXCEPT !.back = (s.back + 1) % Capacity, !.arr[StoreAt] = s.entered + 1,
                            !.size = s.size + 1, !.entered = s.entered + 1], "enqueue", 1)

AfterFront == (s.front + 1) % Capacity

dequeue ==
  IF s.size = 0 THEN Answers(s, "dequeue", 0)
  ELSE Answers([s EXCEPT !.front = AfterFront, !.size = s.size - 1, !.taken = s.taken + 1],
               "dequeue", s.arr[s.front])

peekFront == Answers(s, "peekFront", IF s.size = 0 THEN 0 ELSE s.arr[s.front])

peekBack == Answers(s, "peekBack", IF s.size = 0 THEN 0 ELSE s.arr[s.back])

push ==
  IF s.top = Capacity - 1 THEN Answers(s, "push", 0)
  ELSE \E x \in 1..2 :
         Answers([s EXCEPT !.top = s.top + 1, !.sarr[s.top + 1] = x,
                           !.model = Append(s.model, x)], "push", 1)

pop ==
  IF s.top = -1 THEN Answers(s, "pop", 0)
  ELSE Answers([s EXCEPT !.top = s.top - 1, !.model = Front(s.model)], "pop", s.sarr[s.top])

peek == Answers(s, "peek", IF s.top = -1 THEN 0 ELSE s.sarr[s.top])

ContainerNext == enqueue \/ dequeue \/ peekFront \/ peekBack \/ push \/ pop \/ peek

ContainerDone == TRUE
-------------------------------------------------------------------------------
(* front, back and size agree and the items between them are the ones that   *)
(* entered last, after any number of turns round the array.                  *)
QueueAgrees ==
  /\ s.front \in Slots /\ s.back \in Slots /\ s.size \in 0..Capacity
  /\ s.size = s.entered - s.taken
  /\ (s.front + s.size) % Capacity = (s.back + 1) % Capacity
  /\ \A i \in 1..s.size : s.arr[(s.front + i - 1) % Capacity] = s.taken + i

(* Items leave in the order they entered, both ends show what they should,   *)
(* and 0 is answered only by an empty (for enqueue: a full) queue.           *)
AnswersRight ==
  /\ s.op = "dequeue" => s.answer = s.taken \/ (s.answer = 0 /\ s.size = 0)
  /\ s.op = "peekFront" => s.answer = IF s.size = 0 THEN 0 ELSE s.taken + 1
  /\ s.op = "peekBack" => s.answer = IF s.size = 0 THEN 0 ELSE s.entered
  /\ s.op = "enqueue" => s.answer = 1 \/ s.size = Capacity

(* The stack holds what was pushed and not popped, the youngest on top.      *)
StackAgrees ==
  /\ s.top + 1 = Len(s.model) /\ \A i \in 0..s.top : s.sarr[i] = s.model[i + 1]
  /\ s.op = "peek" /\ s.top >= 0 => s.answer = Last(s.model)
-------------------------------------------------------------------------------
Vertices == 0..(V - 1)

GraphCalls ==
  {[adj |-> [v \in Vertices |-> <<>>], edges |-> 0, walk |-> "none", by |-> "none",
    start |-> 0, visited |-> {}, list |-> <<>>, out |-> <<>>]}

(* A loop at v enters its own list twice.                                    *)
addEdge(v, w) ==
  /\ s.walk = "none" /\ s.edges < MaxEdges
  /\ LET one == [s.adj EXCEPT ![v] = Append(@, w)]
     IN  s' = [s EXCEPT !.edges = s.edges + 1, !.adj = [one EXCEPT ![w] = Append(@, v)]]

DFS(v) ==
  /\ s.walk = "none"
  /\ s' = [s EXCEPT !.walk = "dfs", !.by = "dfs", !.start = v, !.list = <<v>>]

(* The neighbours go on top of what is below the vertex that was popped.     *)
Pushed(rest, fresh) == rest \o fresh

Written(v) == IF v \in s.visited THEN s.out ELSE Append(s.out, v)

DFSTurn ==
  /\ s.walk = "dfs" /\ s.list # <<>>
  /\ LET v == Last(s.list)
         seen == s.visited \cup {v}
         fresh == SelectSeq(s.adj[v], LAMBDA w : w \notin seen)
     IN  s' = [s EXCEPT !.out = Written(v), !.visited = seen, !.list = Pushed(Front(s.list), fresh)]

(* A vertex is marked before it is queued.                                   *)
BFS(v) ==
  /\ s.walk = "none"
  /\ s' = [s EXCEPT !.walk = "bfs", !.by = "bfs", !.start = v, !.list = <<v>>, !.visited = {v}]

(* The neighbours that are marked while adj[v] is read, each once.           *)
Fresh(v) == FoldLeft(LAMBDA f, w : IF w \in s.visited \cup ToSet(f) THEN f ELSE Append(f, w),
                     <<>>, s.adj[v])

Queued(rest, fresh) == rest \o fresh

BFSTurn ==
  /\ s.walk = "bfs" /\ s.list # <<>>
  /\ LET v == Head(s.list)
     IN  s' = [s EXCEPT !.out = Append(s.out, v), !.visited = s.visited \cup ToSet(Fresh(v)),
                        !.list = Queued(Tail(s.list), Fresh(v))]

WalkReturn == s.walk \in {"dfs", "bfs"} /\ s.list = <<>> /\ s' = [s EXCEPT !.walk = "over"]

GraphNext ==
  \/ \E v, w \in Vertices : addEdge(v, w)
  \/ \E v \in Vertices : DFS(v) \/ BFS(v)
  \/ DFSTurn \/ BFSTurn \/ WalkReturn

GraphDone == s.walk = "over"
-------------------------------------------------------------------------------
(* Vertices at most k edges away from the start.                             *)
Ball[k \in 0..V] == IF k = 0 THEN {s.start}
                    ELSE LET b == Ball[k - 1] IN b \cup UNION {ToSet(s.adj[v]) : v \in b}

Distance(v) == CHOOSE k \in 0..V : v \in Ball[k] /\ \A j \in 0..(k - 1) : v \notin Ball[j]

(* No vertex is written twice, although the stack may hold it twice.  When a *)
(* walk returns it has written what can be reached, and nothing else.        *)
WalkComplete == IsInjective(s.out) /\ (GraphDone => ToSet(s.out) = Ball[V])

(* BFS writes the vertices in the order of their distance.                   *)
NearestFirst ==
  GraphDone /\ s.by = "bfs" =>
    \A i, j \in DOMAIN s.out : i < j => Distance(s.out[i]) <= Distance(s.out[j])

(* DFS goes on from the last written vertex that still has a neighbour to    *)
(* write.                                                                    *)
DeepestFirst ==
  GraphDone /\ s.by = "dfs" => \A j \in 2..Len(s.out) :
    LET open == {i \in 1..(j - 1) : ToSet(s.adj[s.out[i]]) \ ToSet(SubSeq(s.out, 1, j - 1)) # {}}
    IN  open # {} /\ s.out[j] \in ToSet(s.adj[s.out[Max(open)]])
-------------------------------------------------------------------------------
(***************************************************************************)
(* NetworkMessage of kata01: a class that owns a raw buffer beside a vector, *)
(* with its copying and moving.  A buffer is a block of the heap; a vector   *)
(* is what it holds.  A step is a statement of a program that uses the class *)
(* on the two names of Messages.  Not included: messages built from uint8_t* *)
(* (their m_buffer is never set) and copying from a message that was moved   *)
(* from (its m_buffer is null), neither of which the kata does.              *)
(***************************************************************************)
Messages == {"msg1", "msg2"}
Blocks == 1..4
Null == 0
Nothing == [alive |-> FALSE, m_buffer |-> Null, m_data |-> 0]

MessageCalls == {[obj |-> [m \in Messages |-> Nothing], heap |-> {},
           value |-> [m \in Messages |-> 0],
           left |-> MaxPuts]}

FreshBlock == Min(Blocks \ s.heap)

(* What deleting a pointer leaves of the heap.                               *)
Freed(heap, block) == heap \ {block}

Construct(m, x) ==
  /\ s.left > 0 /\ ~s.obj[m].alive
  /\ s' = [s EXCEPT !.obj[m] = [alive |-> TRUE, m_buffer |-> FreshBlock, m_data |-> x],
                    !.heap = @ \cup {FreshBlock}, !.value[m] = x, !.left = @ - 1]

MovedFrom_Keeps(from) == from

(* What a message is after it was moved from: std::exchange and swap.        *)
MovedFrom(from) == [from EXCEPT !.m_buffer = Null, !.m_data = 0]

MoveConstruct(m, from) ==
  /\ s.left > 0 /\ ~s.obj[m].alive /\ s.obj[from].alive
  /\ s' = [s EXCEPT !.obj[m] = s.obj[from], !.obj[from] = MovedFrom(@),
                    !.value[m] = s.value[from], !.value[from] = 0, !.left = @ - 1]

(* The two swaps of the move assignment.                                     *)
MoveAssign(m, from) ==
  /\ s.left > 0 /\ s.obj[m].alive /\ s.obj[from].alive
  /\ s' = [s EXCEPT !.obj[m] = s.obj[from], !.obj[from] = s.obj[m],
                    !.value[m] = s.value[from], !.value[from] = s.value[m], !.left = @ - 1]

(* The copy constructor copies the vector after the buffer.                  *)
Copied(m, from) == s.obj[from].m_data

(* The copy assignment makes a copy in a block of its own, swaps with it and *)
(* destroys it.  The copy of a message that was moved from, a string_view of *)
(* a null pointer, is left out.                                              *)
CopyAssign(m, from) ==
  /\ s.left > 0 /\ s.obj[m].alive /\ s.obj[from].alive /\ s.obj[from].m_buffer # Null
  /\ s' = [s EXCEPT !.obj[m].m_buffer = FreshBlock, !.obj[m].m_data = Copied(m, from),
                    !.heap = Freed(@ \cup {FreshBlock}, s.obj[m].m_buffer),
                    !.value[m] = s.value[from], !.left = @ - 1]

Destroy(m) ==
  /\ s.obj[m].alive
  /\ s' = [s EXCEPT !.obj[m] = Nothing, !.heap = Freed(@, s.obj[m].m_buffer), !.value[m] = 0]

MessageNext ==
  \E m, from \in Messages :
    \/ \E x \in {1, 2} : Construct(m, x)
    \/ MoveConstruct(m, from) \/ MoveAssign(m, from) \/ CopyAssign(m, from) \/ Destroy(m)

MessageDone == \A m \in Messages : ~s.obj[m].alive
-------------------------------------------------------------------------------
(* Whatever is moved, destroyed and, while it has its buffer, copied, in     *)
(* whatever order: every block has one owner that will free it, and no       *)
(* message points to a block that is gone.                                   *)
OwnedOnce ==
  LET owners(b) == {m \in Messages : s.obj[m].alive /\ s.obj[m].m_buffer = b}
  IN  /\ \A b \in s.heap : Cardinality(owners(b)) = 1
      /\ \A m \in Messages : s.obj[m].m_buffer \in s.heap \cup {Null}

(* A message holds what was last put, copied or moved into it.               *)
HoldsItsValue == \A m \in Messages : s.obj[m].m_data = s.value[m]
===============================================================================
