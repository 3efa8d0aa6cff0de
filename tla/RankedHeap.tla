----------------------------- MODULE RankedHeap -----------------------------
(***************************************************************************)
(* What the heap of gps/utils promises its users (LocHeap.h): a set of     *)
(* ranked elements one of which, the top, no other outranks.  An element   *)
(* of the same rank as the top does not replace it; of several elements    *)
(* that rank highest, the heap does not say which one comes to the top.    *)
(***************************************************************************)
EXTENDS Integers

CONSTANTS
    Elements,    \* the objects that may be in a heap
    Nil          \* the NULL pointer

VARIABLES
    rank,        \* the rank of each element
    contents,    \* the elements in the heap
    top,         \* what peek() returns
    last         \* the last call, its argument and its result

heapVars == <<rank, contents, top, last>>

OutRanks(x, y) == rank[x] > rank[y]

\* What may be on top of a heap that holds the elements S.
Tops(S) == IF S = {} THEN {Nil} ELSE {x \in S : \A y \in S : ~OutRanks(y, x)}

PutIn(x) ==
    /\ contents' = contents \cup {x}
    /\ top' = IF top = Nil \/ OutRanks(x, top) THEN x ELSE top

TakeOut(x) ==
    /\ contents' = contents \ {x}
    /\ IF x = top THEN top' \in Tops(contents') ELSE top' = top

Push(x) == x \notin contents /\ PutIn(x) /\ last' = <<"push", x, Nil>>

Pop == TakeOut(top) /\ last' = <<"pop", Nil, top>>

\* Only an element of the heap is found; remove tells by its result.
Remove(x) ==
    \/ x \in contents /\ TakeOut(x) /\ last' = <<"remove", x, x>>
    \/ x \notin contents /\ UNCHANGED <<contents, top>> /\ last' = <<"remove", x, Nil>>

Init ==
    /\ contents = {} /\ top = Nil /\ last = <<"new", Nil, Nil>>
    /\ rank \in [Elements -> Int]

Next ==
    /\ UNCHANGED rank
    /\ Pop \/ \E x \in Elements : Push(x) \/ Remove(x)

Spec == Init /\ [][Next]_heapVars
=============================================================================
