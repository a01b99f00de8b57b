------------------------------ MODULE FreeList ------------------------------
(***************************************************************************)
(* The list of free indexes (zgdbServer/zgdb/index/list/freelist.c).  The  *)
(* doubly linked list is a sequence of nodes, head first.  A node names an *)
(* index and the capacity of the dead block the index still owns; 0 stands *)
(* for an index that never owned a block (a "new" index).  The two         *)
(* counters are kept apart from the nodes, as the code keeps them.         *)
(***************************************************************************)
EXTENDS Naturals, Sequences, SequencesExt

Node == [indexOrder : Nat, blockSize : Nat]

FreeIndexesList ==
    [nodes : Seq(Node), indexesCount : Nat, newIndexesCount : Nat]

\* The list holds node n.
Offers(list, n) == \E k \in 1 .. Len(list.nodes) : list.nodes[k] = n

EmptyList == [nodes |-> <<>>, indexesCount |-> 0, newIndexesCount |-> 0]

-----------------------------------------------------------------------------
(* insertNode: to the front of the list, to its end, or before the first   *)
(* node after the head whose block is at least as large.                   *)

GoesFirst(nodes, new) ==
    \/ nodes = <<>>
    \/ new.blockSize < Head(nodes).blockSize
    \/ new.blockSize = 0

\* Mutant: the end of the list is not looked at.
GoesLastUnlooked(nodes, new) == new.blockSize >= Head(nodes).blockSize

GoesLast(nodes, new) == new.blockSize >= Last(nodes).blockSize

FirstNotSmaller(nodes, size) ==
    CHOOSE p \in 2 .. Len(nodes) :
        /\ nodes[p].blockSize >= size
        /\ \A q \in 2 .. p - 1 : nodes[q].blockSize < size

InsertPosition(nodes, new) ==
    IF GoesFirst(nodes, new) THEN 1
    ELSE IF GoesLast(nodes, new) THEN Len(nodes) + 1
    ELSE FirstNotSmaller(nodes, new.blockSize)

InsertNode(nodes, new) == InsertAt(nodes, InsertPosition(nodes, new), new)

InsertNewIndex(list, order) ==
    [nodes           |-> InsertNode(list.nodes,
                             [indexOrder |-> order, blockSize |-> 0]),
     indexesCount    |-> list.indexesCount + 1,
     newIndexesCount |-> list.newIndexesCount + 1]

InsertDeadIndex(list, order, size) ==
    [nodes           |-> InsertNode(list.nodes,
                             [indexOrder |-> order, blockSize |-> size]),
     indexesCount    |-> list.indexesCount + 1,
     newIndexesCount |-> list.newIndexesCount]

(* The loops of init and expandIndexes, which insert the new indexes first *)
(* .. first + n - 1 one after the other: each goes to the front.           *)
InsertNewIndexes(list, first, n) ==
    [nodes           |-> [i \in 1 .. n |-> [indexOrder |-> first + n - i,
                                            blockSize  |-> 0]] \o list.nodes,
     indexesCount    |-> list.indexesCount + n,
     newIndexesCount |-> list.newIndexesCount + n]

-----------------------------------------------------------------------------
(* findRelevantIndex: the largest dead block if it is large enough, else a *)
(* new index, else nothing (NULL).                                         *)

IsSingle(list, newCount) ==
    list.indexesCount = 1 /\ list.newIndexesCount = newCount

TakesLast(list, reqSize) ==
    /\ ~ IsSingle(list, 1)
    /\ list.nodes # <<>>
    /\ Last(list.nodes).blockSize >= reqSize

\* Mutant: a list of one node is taken for one without new indexes.
TakesFirstOfMany(list, reqSize) ==
    /\ list.indexesCount > 1
    /\ ~ TakesLast(list, reqSize)
    /\ Head(list.nodes).blockSize = 0

TakesFirst(list, reqSize) ==
    \/ IsSingle(list, 1)
    \/ /\ ~ IsSingle(list, 0)
       /\ list.nodes # <<>>
       /\ ~ TakesLast(list, reqSize)
       /\ Head(list.nodes).blockSize = 0

HasRelevantIndex(list, reqSize) ==
    TakesLast(list, reqSize) \/ TakesFirst(list, reqSize)

RelevantIndex(list, reqSize) ==
    IF TakesLast(list, reqSize) THEN Last(list.nodes) ELSE Head(list.nodes)

\* Mutants: the wrong end is unlinked.
WithoutFirst(list, reqSize) ==
    [list EXCEPT !.nodes = Tail(@), !.indexesCount = @ - 1]

WithoutLast(list, reqSize) ==
    [nodes           |-> Front(list.nodes),
     indexesCount    |-> list.indexesCount - 1,
     newIndexesCount |-> list.newIndexesCount - 1]

WithoutRelevantIndex(list, reqSize) ==
    IF TakesLast(list, reqSize)
    THEN [nodes           |-> Front(list.nodes),
          indexesCount    |-> list.indexesCount - 1,
          newIndexesCount |-> list.newIndexesCount]
    ELSE [nodes           |-> Tail(list.nodes),
          indexesCount    |-> list.indexesCount - 1,
          newIndexesCount |-> list.newIndexesCount - 1]

-----------------------------------------------------------------------------
(* What the code relies on when it looks at the two ends only: the nodes   *)
(* are sorted by block size, no index occurs twice, and the counters say   *)
(* how many nodes there are and how many of them, at the front, are new.   *)

Sorted(nodes) ==
    \A i, j \in 1 .. Len(nodes) :
        i <= j => nodes[i].blockSize <= nodes[j].blockSize

NoDuplicates(nodes) ==
    \A i, j \in 1 .. Len(nodes) :
        nodes[i].indexOrder = nodes[j].indexOrder => i = j

Counted(list) ==
    /\ list.indexesCount = Len(list.nodes)
    /\ list.newIndexesCount <= list.indexesCount
    /\ \A i \in 1 .. Len(list.nodes) :
          list.nodes[i].blockSize = 0 <=> i <= list.newIndexesCount

WellFormedList(list) ==
    Sorted(list.nodes) /\ NoDuplicates(list.nodes) /\ Counted(list)
=============================================================================
