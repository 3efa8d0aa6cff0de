------------------------------ MODULE LocHeap -------------------------------
(***************************************************************************)
(* The heap of gps/utils/LocHeap.cpp, on which the timers are kept: a      *)
(* binary tree whose nodes never move.  push, pop and remove swap the data *)
(* along a path instead; each node counts the nodes of its subtree.        *)
(***************************************************************************)
EXTENDS Integers

CONSTANTS
    Elements,    \* the objects that may be in the heap
    Ranks,       \* the ranks they may have
    Nil          \* the NULL pointer

ASSUME HeapAssumption == Nil \notin Elements /\ Ranks \subseteq Int

VARIABLES
    mTree,       \* the tree: Empty, or a node with its subtrees
    rank,        \* the rank of each element, which does not change
    last         \* the last call, its argument and its result

vars == <<mTree, rank, last>>

Empty == [mSize |-> 0]
Node(data, size, left, right) ==
    [mData |-> data, mSize |-> size, mLeft |-> left, mRight |-> right]

outRanks(x, y) == rank[x] > rank[y]

\* The new data goes down into the smaller subtree, and takes the place of
\* each it outranks on its way.
RECURSIVE pushNode(_, _)
pushNode(t, x) ==
    LET high == IF outRanks(x, t.mData) THEN x ELSE t.mData
        low  == IF outRanks(x, t.mData) THEN t.mData ELSE x
        leaf == Node(low, 1, Empty, Empty)
    IN  CASE t.mLeft = Empty ->
               Node(high, t.mSize + 1, leaf, t.mRight)
          [] t.mLeft # Empty /\ t.mRight = Empty ->
               Node(high, t.mSize + 1, t.mLeft, leaf)
          [] OTHER ->
               IF t.mLeft.mSize <= t.mRight.mSize
               THEN Node(high, t.mSize + 1, pushNode(t.mLeft, low), t.mRight)
               ELSE Node(high, t.mSize + 1, t.mLeft, pushNode(t.mRight, low))

\* A faulty variant of popNode: the left data moves up whatever its rank.
RECURSIVE popLeftFirst(_)
popLeftFirst(t) ==
    CASE t.mLeft # Empty ->
           Node(t.mLeft.mData, t.mSize - 1, popLeftFirst(t.mLeft), t.mRight)
      [] t.mLeft = Empty /\ t.mRight # Empty ->
           Node(t.mRight.mData, t.mSize - 1, t.mLeft, popLeftFirst(t.mRight))
      [] OTHER -> Empty

\* The higher ranking child's data moves up, down to a leaf, which goes.
TakesLeft(t) ==
    t.mLeft # Empty /\ (t.mRight = Empty \/ outRanks(t.mLeft.mData, t.mRight.mData))

RECURSIVE popNode(_)
popNode(t) ==
    CASE TakesLeft(t) ->
           Node(t.mLeft.mData, t.mSize - 1, popNode(t.mLeft), t.mRight)
      [] ~TakesLeft(t) /\ t.mRight # Empty ->
           Node(t.mRight.mData, t.mSize - 1, t.mLeft, popNode(t.mRight))
      [] OTHER -> Empty

\* A faulty variant of MayHold: a subtree with a top of the same rank is left out.
MayHoldLower(t, x) == t # Empty /\ outRanks(t.mData, x)

\* Nothing below a node outranks it, so the search goes no further than here.
MayHold(t, x) == t # Empty /\ ~outRanks(x, t.mData)

\* The search is by address; sizes change only where something was found.
RECURSIVE removeNode(_, _)
removeNode(t, x) ==
    LET left  == IF t.mLeft = Empty THEN Empty ELSE removeNode(t.mLeft, x)
        right == IF t.mRight = Empty THEN Empty ELSE removeNode(t.mRight, x)
    IN  CASE t.mData = x -> popNode(t)
          [] t.mData # x /\ ~MayHold(t, x) -> t
          [] OTHER ->
               CASE left # t.mLeft -> Node(t.mData, t.mSize - 1, left, t.mRight)
                 [] left = t.mLeft /\ right # t.mRight ->
                      Node(t.mData, t.mSize - 1, t.mLeft, right)
                 [] OTHER -> t

-----------------------------------------------------------------------------

\* the nodes of a tree, each with what hangs from it
RECURSIVE Nodes(_)
Nodes(t) == IF t = Empty THEN {} ELSE {t} \cup Nodes(t.mLeft) \cup Nodes(t.mRight)

Data(t) == {n.mData : n \in Nodes(t)}

peek == IF mTree = Empty THEN Nil ELSE mTree.mData

\* An object is pushed once, before it is popped or removed again.
push(x) ==
    /\ x \notin Data(mTree)
    /\ mTree' = IF mTree = Empty THEN Node(x, 1, Empty, Empty) ELSE pushNode(mTree, x)
    /\ last' = <<"push", x, Nil>>
    /\ UNCHANGED rank

pop ==
    /\ mTree' = IF mTree = Empty THEN Empty ELSE popNode(mTree)
    /\ last' = <<"pop", Nil, peek>>
    /\ UNCHANGED rank

remove(x) ==
    /\ mTree' = IF mTree = Empty THEN Empty ELSE removeNode(mTree, x)
    /\ last' = <<"remove", x, IF mTree' # mTree THEN x ELSE Nil>>
    /\ UNCHANGED rank

Init == mTree = Empty /\ last = <<"new", Nil, Nil>> /\ rank \in [Elements -> Ranks]

Next == pop \/ \E x \in Elements : push(x) \/ remove(x)

Spec == Init /\ [][Next]_vars

-----------------------------------------------------------------------------

\* What checkTree() of the unit test asks of every node: no child outranks it,
\* and its size is that of the subtrees and one, after any calls.
checkTree ==
    \A n \in Nodes(mTree) :
        /\ n.mSize = n.mLeft.mSize + n.mRight.mSize + 1
        /\ \A sub \in {n.mLeft, n.mRight} \ {Empty} : ~outRanks(sub.mData, n.mData)

\* To its users the tree is the ranked heap LocHeap.h promises: peek and pop give
\* an element that none outranks, remove finds what is there, equal ranks included.
Promised == INSTANCE RankedHeap WITH contents <- Data(mTree), top <- peek
IsRankedHeap == Promised!Spec
=============================================================================
