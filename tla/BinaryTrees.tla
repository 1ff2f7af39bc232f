------------------------------ MODULE BinaryTrees ------------------------------
(***************************************************************************)
(* The binary tree code: BinaryTree::insert, its traversals and print_tree   *)
(* (kata_helper.cpp), createTree and getRootToLeafPaths (kata12) and the two *)
(* minDepth functions (kata17).  A tree is Nil or a node with two subtrees;  *)
(* id numbers the nodes in the order of their creation.  A step is one       *)
(* insert; the caller may stop after any of them.                            *)
(***************************************************************************)
EXTENDS KataBounds, FiniteSets, FiniteSetsExt, SequencesExt

VARIABLE s   \* tree; by, from: how it was made, and from which values

Nil == [val |-> -1]
Node(x, l, r, id) == [val |-> x, left |-> l, right |-> r, id |-> id]

-------------------------------------------------------------------------------
GoesLeft(x, y) == x < y

(* The while loop of insert goes down to the place of the new node.          *)
RECURSIVE Insert(_, _)
Insert(t, n) ==
  IF t = Nil THEN n
  ELSE IF GoesLeft(n.val, t.val) THEN [t EXCEPT !.left = Insert(@, n)]
                                 ELSE [t EXCEPT !.right = Insert(@, n)]

LeftOf(index) == 2 * index + 1

(* values is indexed from 0 in the code; -1 stands for a missing node.       *)
RECURSIVE createTree(_, _)
createTree(values, index) ==
  IF index >= Len(values) \/ values[index + 1] = -1 THEN Nil
  ELSE Node(values[index + 1], createTree(values, LeftOf(index)),
                               createTree(values, 2 * index + 2), index)

RECURSIVE inorderTraversal(_)
inorderTraversal(t) ==
  IF t = Nil THEN <<>>
  ELSE inorderTraversal(t.left) \o <<t>> \o inorderTraversal(t.right)

RECURSIVE preorderTraversal(_)
preorderTraversal(t) ==
  IF t = Nil THEN <<>>
  ELSE <<t>> \o preorderTraversal(t.left) \o preorderTraversal(t.right)

RECURSIVE postorderTraversal(_)
postorderTraversal(t) ==
  IF t = Nil THEN <<>>
  ELSE postorderTraversal(t.left) \o postorderTraversal(t.right) \o <<t>>

Children(t) == SelectSeq(<<t.left, t.right>>, LAMBDA c : c # Nil)

IsLeaf(t) == t.left = Nil /\ t.right = Nil

Queued(rest, children) == rest \o children

(* print_tree, LEVEL_ORDER: q is the queue.                                  *)
RECURSIVE LevelOrder(_)
LevelOrder(q) == IF q = <<>> THEN <<>>
                 ELSE <<Head(q)>> \o LevelOrder(Queued(Tail(q), Children(Head(q))))

(* The depths that count for a node with these two below it.                 *)
Depths(t, l, r) == IF t.left = Nil THEN {r} ELSE IF t.right = Nil THEN {l} ELSE {l, r}

RECURSIVE minDepthDfs(_)
minDepthDfs(t) ==
  IF t = Nil THEN 0 ELSE Min(Depths(t, minDepthDfs(t.left), minDepthDfs(t.right))) + 1

(* One turn of the while loop is one level; a leaf in it ends the search.    *)
RECURSIVE Levels(_, _)
Levels(level, depth) ==
  IF level = <<>> \/ \E n \in ToSet(level) : IsLeaf(n) THEN depth
  ELSE Levels(FlattenSeq([j \in DOMAIN level |-> Children(level[j])]), depth + 1)

minDepthBfs(t) == IF t = Nil THEN 0 ELSE Levels(<<t>>, 1)

(* path when the left subtree is done: what was pushed has been popped.      *)
Popped(path, t) == path

RECURSIVE dfs(_, _)
dfs(t, path) ==
  IF t = Nil THEN <<>>
  ELSE LET here == Append(path, t)
       IN  (IF IsLeaf(t) THEN <<here>> ELSE <<>>)
           \o dfs(t.left, here) \o dfs(t.right, Popped(here, t))

getRootToLeafPaths(t) == dfs(t, <<>>)

-------------------------------------------------------------------------------
Calls ==
  {[tree |-> Nil, by |-> "insert", from |-> <<>>]} \cup
  {[tree |-> createTree(a, 0), by |-> "array", from |-> a] :
     a \in UNION {[1..n -> {-1, 1}] : n \in 0..MaxArray}}

insert(x) ==
  /\ s.by = "insert" /\ Len(s.from) < MaxInserts
  /\ s' = [s EXCEPT !.tree = Insert(s.tree, Node(x, Nil, Nil, Len(s.from))),
                    !.from = Append(@, x)]

Next == \E x \in {1, 2, 3} : insert(x)

Done == TRUE
-------------------------------------------------------------------------------
Nodes == ToSet(preorderTraversal(s.tree))

(* In-order traversal of a tree that was built with insert sorts what was    *)
(* inserted; equal values keep the order of their insertion.                 *)
InsertSorts ==
  s.by = "insert" =>
    LET t == inorderTraversal(s.tree) IN
    /\ Len(t) = Len(s.from)
    /\ \A i, j \in DOMAIN t : i < j =>
         t[i].val < t[j].val \/ (t[i].val = t[j].val /\ t[i].id < t[j].id)

(* createTree keeps the element at index i exactly if neither it nor an      *)
(* element above it, at (i-1)/2 and so on, is missing.                       *)
Present[i \in 0..MaxArray] ==
  /\ i < Len(s.from) /\ s.from[i + 1] # -1
  /\ i > 0 => Present[(i - 1) \div 2]
ArrayRight ==
  s.by = "array" => {n.id : n \in Nodes} = {i \in 0..MaxArray : Present[i]}

(* The two ways of computing the least depth of a leaf agree with it.        *)
DepthsAgree ==
  LET paths == getRootToLeafPaths(s.tree)
      least == IF paths = <<>> THEN 0 ELSE Min({Len(paths[j]) : j \in DOMAIN paths})
  IN  minDepthDfs(s.tree) = least /\ minDepthBfs(s.tree) = least

(* The paths lead from the root along children to every leaf, once each and  *)
(* from left to right.                                                       *)
PathsRight ==
  LET paths == getRootToLeafPaths(s.tree) IN
  /\ [j \in DOMAIN paths |-> Last(paths[j])] = SelectSeq(inorderTraversal(s.tree), IsLeaf)
  /\ \A j \in DOMAIN paths :
       /\ paths[j][1] = s.tree
       /\ \A d \in 2..Len(paths[j]) : paths[j][d] \in ToSet(Children(paths[j][d - 1]))

(* Level order lists every node once, a parent before its children and the   *)
(* children of an earlier parent first; the other orders list the same       *)
(* nodes.                                                                    *)
LevelsRight ==
  LET q == LevelOrder(IF s.tree = Nil THEN <<>> ELSE <<s.tree>>)
      at(n) == CHOOSE j \in DOMAIN q : q[j] = n
  IN  /\ IsInjective(q) /\ ToSet(q) = Nodes
      /\ ToSet(postorderTraversal(s.tree)) = Nodes
      /\ \A p \in Nodes : \A c \in ToSet(Children(p)) : at(p) < at(c)
      /\ \A p, r \in Nodes : at(p) < at(r) =>
           \A c \in ToSet(Children(p)), d \in ToSet(Children(r)) : at(c) < at(d)
===============================================================================
