-------------------------- MODULE ZgdbSpaceProofs ---------------------------
(***************************************************************************)
(* The free list and the index table.  First what the operations on the    *)
(* list preserve and return, for lists of any length (freelist.c); then    *)
(* what taking an index, freeing an index, expanding the table, changing a *)
(* link and a restart do to the invariants about space (SpaceInv).         *)
(***************************************************************************)
EXTENDS ZgdbStoreInv, SequenceTheorems, FiniteSetTheorems, TLAPS

-----------------------------------------------------------------------------
(* Sequences and intervals.                                                *)

\* A set of positions that contains every smaller position is an interval.
LEMMA PrefixOfInterval ==
    ASSUME NEW n \in Nat, NEW S \in SUBSET (1 .. n),
           \A i \in S : \A j \in 1 .. i : j \in S
    PROVE  \E c \in 0 .. n : S = 1 .. c
<1> DEFINE c == Cardinality(S)
<1>1. IsFiniteSet(1 .. n) /\ Cardinality(1 .. n) = n
  BY FS_Interval
<1>2. IsFiniteSet(S) /\ c <= n
  BY <1>1, FS_Subset
<1>3. c \in Nat
  BY <1>2, FS_CardinalityType
<1>4. S \subseteq 1 .. c
  <2> SUFFICES ASSUME NEW i \in S PROVE i <= c
    BY <1>3
  <2>1. IsFiniteSet(1 .. i) /\ Cardinality(1 .. i) = i
    BY FS_Interval
  <2>2. 1 .. i \in SUBSET S
    OBVIOUS
  <2> QED BY <1>2, <2>1, <2>2, FS_Subset
<1>5. IsFiniteSet(1 .. c) /\ Cardinality(1 .. c) = c
  BY <1>3, FS_Interval
<1>6. S = 1 .. c
  BY <1>4, <1>5, FS_Subset
<1> QED BY <1>2, <1>3, <1>6

\* InsertAt puts e at position p and moves what is behind it.
LEMMA InsertAtProperties ==
    ASSUME NEW S, NEW s \in Seq(S), NEW e \in S, NEW p \in 1 .. Len(s) + 1
    PROVE  /\ InsertAt(s, p, e) \in Seq(S)
           /\ Len(InsertAt(s, p, e)) = Len(s) + 1
           /\ \A i \in 1 .. Len(s) + 1 :
                 InsertAt(s, p, e)[i] = IF i < p THEN s[i]
                                        ELSE IF i = p THEN e ELSE s[i - 1]
<1> DEFINE before == SubSeq(s, 1, p - 1)
           after == SubSeq(s, p, Len(s))
<1>1. /\ before \in Seq(S)
      /\ Len(before) = p - 1
      /\ \A i \in 1 .. p - 1 : before[i] = s[i]
  <2>1. \A i \in 1 .. p - 1 : s[i] \in S
    BY ElementOfSeq
  <2> QED BY <2>1, SubSeqProperties
<1>2. /\ after \in Seq(S)
      /\ Len(after) = Len(s) - p + 1
      /\ \A i \in 1 .. Len(s) - p + 1 : after[i] = s[p + i - 1]
  <2>1. \A i \in p .. Len(s) : s[i] \in S
    BY ElementOfSeq
  <2> QED BY <2>1, SubSeqProperties
<1>3. <<e>> \in Seq(S) /\ Len(<<e>>) = 1 /\ <<e>>[1] = e
  OBVIOUS
<1> DEFINE upTo == before \o <<e>>
<1> HIDE DEF before, after
<1>4. /\ upTo \in Seq(S)
      /\ Len(upTo) = p
      /\ \A i \in 1 .. p : upTo[i] = IF i < p THEN s[i] ELSE e
  BY <1>1, <1>3, ConcatProperties
<1> HIDE DEF upTo
<1>5. /\ upTo \o after \in Seq(S)
      /\ Len(upTo \o after) = Len(s) + 1
      /\ \A i \in 1 .. Len(s) + 1 :
            (upTo \o after)[i] = IF i <= p THEN upTo[i] ELSE after[i - p]
  <2>1. Len(upTo) + Len(after) = Len(s) + 1
    BY <1>2, <1>4
  <2>2. /\ upTo \o after \in Seq(S)
        /\ Len(upTo \o after) = Len(upTo) + Len(after)
        /\ \A i \in 1 .. Len(upTo) + Len(after) :
              (upTo \o after)[i] = IF i <= Len(upTo) THEN upTo[i]
                                   ELSE after[i - Len(upTo)]
    <3>1. upTo \in Seq(S) /\ after \in Seq(S)
      BY <1>2, <1>4
    <3> QED BY ONLY <3>1, ConcatProperties
  <2>3. Len(upTo) = p
    BY <1>4
  <2> QED BY ONLY <2>1, <2>2, <2>3
<1>6. InsertAt(s, p, e) = upTo \o after
  BY DEF InsertAt, upTo, before, after
<1> QED BY <1>2, <1>4, <1>5, <1>6

\* Front drops the last element.
LEMMA FrontProperties ==
    ASSUME NEW S, NEW s \in Seq(S), s # <<>>
    PROVE  /\ Len(s) \in 1 .. Len(s)
           /\ Front(s) \in Seq(S)
           /\ Len(Front(s)) = Len(s) - 1
           /\ \A i \in 1 .. Len(s) - 1 : Front(s)[i] = s[i]
<1> DEFINE n == Len(s) - 1
<1>1. Len(s) \in Nat \ {0} /\ n \in Nat
  BY EmptySeq
<1>2. \A i \in 1 .. n : s[i] \in S
  BY <1>1, ElementOfSeq
<1>3. Front(s) = SubSeq(s, 1, n)
  BY DEF Front
<1>4. Len(s) \in 1 .. Len(s) /\ n = Len(s) - 1
  BY <1>1
<1> HIDE DEF n
<1>5. /\ SubSeq(s, 1, n) \in Seq(S)
      /\ Len(SubSeq(s, 1, n)) = IF 1 <= n THEN n - 1 + 1 ELSE 0
      /\ \A i \in 1 .. n - 1 + 1 : SubSeq(s, 1, n)[i] = s[1 + i - 1]
  BY <1>1, <1>2, SubSeqProperties
<1>6. n - 1 + 1 = n /\ \A i \in 1 .. n : 1 + i - 1 = i
  BY <1>1
<1> QED BY <1>1, <1>3, <1>4, <1>5, <1>6

-----------------------------------------------------------------------------
(* insertNode.                                                             *)

\* In a sorted list the search of insertNode stops at a position before
\* which every block is smaller and behind which none is.
LEMMA InsertPositionProperties ==
    ASSUME NEW s \in Seq(Node), NEW e \in Node, Sorted(s)
    PROVE  /\ InsertPosition(s, e) \in 1 .. Len(s) + 1
           /\ \A i \in 1 .. Len(s) :
                 /\ i < InsertPosition(s, e) =>
                       s[i].blockSize <= e.blockSize
                 /\ i >= InsertPosition(s, e) =>
                       s[i].blockSize >= e.blockSize
           /\ e.blockSize = 0 => InsertPosition(s, e) = 1
<1> DEFINE size == e.blockSize
<1>1. /\ size \in Nat
      /\ \A i \in 1 .. Len(s) : s[i].blockSize \in Nat
      /\ \A i, j \in 1 .. Len(s) :
            i <= j => s[i].blockSize <= s[j].blockSize
  <2>1. \A i \in 1 .. Len(s) : s[i] \in Node
    BY ElementOfSeq
  <2> QED BY <2>1 DEF Node, Sorted
<1>2. CASE GoesFirst(s, e)
  <2>1. CASE s = <<>>
    BY <1>2, <2>1 DEF InsertPosition
  <2>2. CASE s # <<>>
    <3>1. Head(s) = s[1] /\ 1 \in 1 .. Len(s)
      BY <2>2
    <3> QED BY <1>1, <1>2, <3>1 DEF InsertPosition, GoesFirst
  <2> QED BY <2>1, <2>2
<1>3. CASE ~ GoesFirst(s, e) /\ GoesLast(s, e)
  <2>1. s # <<>> /\ size # 0
    BY <1>3 DEF GoesFirst
  <2>2. Len(s) \in 1 .. Len(s) /\ Last(s) = s[Len(s)]
    BY <2>1 DEF Last
  <2>3. InsertPosition(s, e) = Len(s) + 1
    BY <1>3 DEF InsertPosition
  <2>4. \A i \in 1 .. Len(s) : s[i].blockSize <= size
    <3>1. s[Len(s)].blockSize <= size
      BY <1>3, <2>2 DEF GoesLast
    <3>2. \A i \in 1 .. Len(s) : s[i].blockSize <= s[Len(s)].blockSize
      BY <1>1, <2>2
    <3> QED BY <1>1, <2>2, <3>1, <3>2
  <2> QED BY <2>1, <2>2, <2>3, <2>4
<1>4. CASE ~ GoesFirst(s, e) /\ ~ GoesLast(s, e)
  <2>1. s # <<>> /\ size # 0
    BY <1>4 DEF GoesFirst
  <2>2. Len(s) \in 1 .. Len(s) /\ Last(s) = s[Len(s)] /\ Head(s) = s[1]
        /\ 1 \in 1 .. Len(s)
    BY <2>1 DEF Last
  <2>3. s[1].blockSize <= size /\ s[Len(s)].blockSize > size
    BY <1>1, <1>4, <2>2 DEF GoesFirst, GoesLast
  <2> DEFINE Smaller == {i \in 1 .. Len(s) :
                            i = 1 \/ s[i].blockSize < size}
  <2>4. PICK c \in 0 .. Len(s) : Smaller = 1 .. c
    <3>1. \A i \in Smaller : \A j \in 1 .. i : j \in Smaller
      BY <1>1
    <3>2. Smaller \in SUBSET (1 .. Len(s)) /\ Len(s) \in Nat
      OBVIOUS
    <3> HIDE DEF Smaller
    <3> QED BY <3>1, <3>2, PrefixOfInterval
  <2>5. 1 <= c /\ c < Len(s)
    <3>1. 1 \in Smaller
      BY <2>2
    <3>2. Len(s) \notin Smaller
      BY <1>1, <2>2, <2>3
    <3> HIDE DEF Smaller
    <3> QED BY <2>2, <2>4, <3>1, <3>2
  <2> DEFINE First(p) == /\ s[p].blockSize >= size
                         /\ \A q \in 2 .. p - 1 : s[q].blockSize < size
  <2>6. c + 1 \in 2 .. Len(s) /\ First(c + 1)
    <3>1. c + 1 \in 1 .. Len(s) /\ c + 1 \notin Smaller
      BY <2>4, <2>5
    <3>2. \A q \in 2 .. c : s[q].blockSize < size
      BY <2>4, <2>5
    <3> QED BY <1>1, <2>5, <3>1, <3>2
  <2> DEFINE p == FirstNotSmaller(s, size)
  <2>7. p \in 2 .. Len(s) /\ First(p)
    BY <2>6 DEF FirstNotSmaller
  <2>8. InsertPosition(s, e) = p
    BY <1>4 DEF InsertPosition
  <2> HIDE DEF p
  <2>9. \A i \in 1 .. Len(s) : i < p => s[i].blockSize <= size
    BY <1>1, <2>3, <2>7
  <2>10. \A i \in 1 .. Len(s) : i >= p => s[i].blockSize >= size
    <3>1. \A i \in 1 .. Len(s) : i >= p => s[p].blockSize <= s[i].blockSize
      BY <1>1, <2>7
    <3> QED BY <1>1, <2>7, <3>1
  <2> QED BY <2>1, <2>7, <2>8, <2>9, <2>10
<1> QED BY <1>2, <1>3, <1>4

\* insertNode keeps a sorted list sorted and only adds the new node.
LEMMA InsertNodeProperties ==
    ASSUME NEW s \in Seq(Node), NEW e \in Node, Sorted(s)
    PROVE  LET p == InsertPosition(s, e)
               t == InsertNode(s, e)
           IN /\ p \in 1 .. Len(s) + 1
              /\ t \in Seq(Node)
              /\ Len(t) = Len(s) + 1
              /\ \A i \in 1 .. Len(s) + 1 :
                    t[i] = IF i < p THEN s[i]
                           ELSE IF i = p THEN e ELSE s[i - 1]
              /\ Sorted(t)
              /\ e.blockSize = 0 => p = 1
<1> DEFINE p == InsertPosition(s, e)
           t == InsertNode(s, e)
           n == Len(s)
<1>1. /\ p \in 1 .. n + 1
      /\ \A i \in 1 .. n : /\ i < p => s[i].blockSize <= e.blockSize
                           /\ i >= p => s[i].blockSize >= e.blockSize
      /\ e.blockSize = 0 => p = 1
  BY InsertPositionProperties
<1>2. t = InsertAt(s, p, e)
  BY DEF InsertNode
<1> HIDE DEF p, t
<1>3. /\ t \in Seq(Node)
      /\ Len(t) = n + 1
      /\ \A i \in 1 .. n + 1 :
            t[i] = IF i < p THEN s[i] ELSE IF i = p THEN e ELSE s[i - 1]
  <2>1. /\ InsertAt(s, p, e) \in Seq(Node)
        /\ Len(InsertAt(s, p, e)) = Len(s) + 1
        /\ \A i \in 1 .. Len(s) + 1 :
              InsertAt(s, p, e)[i] = IF i < p THEN s[i]
                                     ELSE IF i = p THEN e ELSE s[i - 1]
    BY <1>1, InsertAtProperties
  <2> QED BY <1>2, <2>1
<1>4. Sorted(t)
  <2>1. /\ e.blockSize \in Nat
        /\ \A i \in 1 .. n : s[i].blockSize \in Nat
        /\ \A i, j \in 1 .. n : i <= j => s[i].blockSize <= s[j].blockSize
    <3>1. \A i \in 1 .. n : s[i] \in Node
      BY ElementOfSeq
    <3> QED BY <3>1 DEF Node, Sorted
  <2> SUFFICES ASSUME NEW i \in 1 .. n + 1, NEW j \in 1 .. n + 1, i <= j
               PROVE  t[i].blockSize <= t[j].blockSize
    BY <1>3 DEF Sorted
  <2>2. CASE j < p
    BY <1>1, <1>3, <2>1, <2>2
  <2>3. CASE j = p
    BY <1>1, <1>3, <2>1, <2>3
  <2>4. CASE j > p
    <3>1. t[j] = s[j - 1] /\ j - 1 \in 1 .. n /\ j - 1 >= p
      BY <1>1, <1>3, <2>4
    <3>2. CASE i < p
      BY <1>1, <1>3, <2>1, <3>1, <3>2
    <3>3. CASE i = p
      BY <1>1, <1>3, <2>1, <3>1, <3>3
    <3>4. CASE i > p
      <4>1. t[i] = s[i - 1] /\ i - 1 \in 1 .. n
        BY <1>1, <1>3, <3>4
      <4> QED BY <2>1, <3>1, <4>1
    <3> QED BY <1>1, <3>2, <3>3, <3>4
  <2> QED BY <1>1, <2>2, <2>3, <2>4
<1> QED BY <1>1, <1>3, <1>4 DEF p, t

\* No node of the list has the given index.
Fresh(list, order) ==
    \A k \in 1 .. Len(list.nodes) : list.nodes[k].indexOrder # order

\* The contents of a list after an insertion.
LEMMA InsertNodeOffers ==
    ASSUME NEW s \in Seq(Node), NEW e \in Node, Sorted(s), NoDuplicates(s),
           \A k \in 1 .. Len(s) : s[k].indexOrder # e.indexOrder
    PROVE  /\ NoDuplicates(InsertNode(s, e))
           /\ \A n : (\E k \in 1 .. Len(s) + 1 : InsertNode(s, e)[k] = n)
                     <=> n = e \/ \E k \in 1 .. Len(s) : s[k] = n
<1> DEFINE p == InsertPosition(s, e)
           t == InsertNode(s, e)
<1>1. /\ p \in 1 .. Len(s) + 1
      /\ Len(t) = Len(s) + 1
      /\ \A i \in 1 .. Len(s) + 1 :
            t[i] = IF i < p THEN s[i] ELSE IF i = p THEN e ELSE s[i - 1]
  BY InsertNodeProperties
<1> HIDE DEF p, t
<1> DEFINE old(i) == IF i < p THEN i ELSE i - 1
<1>2. \A i \in 1 .. Len(s) + 1 :
         i # p => old(i) \in 1 .. Len(s) /\ t[i] = s[old(i)]
  BY <1>1
<1>3. \A i, j \in 1 .. Len(s) + 1 :
         i # p /\ j # p /\ old(i) = old(j) => i = j
  BY <1>1
<1>4. t[p] = e
  BY <1>1
<1>5. \A k \in 1 .. Len(s) :
         \E i \in 1 .. Len(s) + 1 : i # p /\ old(i) = k
  <2> SUFFICES ASSUME NEW k \in 1 .. Len(s)
               PROVE  \E i \in 1 .. Len(s) + 1 : i # p /\ old(i) = k
    OBVIOUS
  <2>1. CASE k < p
    <3>1. k \in 1 .. Len(s) + 1 /\ k # p /\ old(k) = k
      BY <1>1, <2>1
    <3> QED BY <3>1
  <2>2. CASE k >= p
    <3>1. k + 1 \in 1 .. Len(s) + 1 /\ k + 1 # p /\ old(k + 1) = k
      BY <1>1, <2>2
    <3> QED BY <3>1
  <2> QED BY <1>1, <2>1, <2>2
<1> HIDE DEF old
<1>6. NoDuplicates(t)
  BY <1>1, <1>2, <1>3, <1>4 DEF NoDuplicates
<1>7. \A n : (\E k \in 1 .. Len(s) + 1 : t[k] = n)
             <=> n = e \/ \E k \in 1 .. Len(s) : s[k] = n
  BY <1>1, <1>2, <1>4, <1>5
<1> QED BY <1>6, <1>7 DEF t

\* insertDeadIndex keeps the list well formed and adds one node.
LEMMA InsertDeadIndexProperties ==
    ASSUME NEW list \in FreeIndexesList, WellFormedList(list),
           NEW order \in Nat, NEW size \in Nat \ {0}, Fresh(list, order)
    PROVE  LET res == InsertDeadIndex(list, order, size) IN
           /\ res \in FreeIndexesList
           /\ WellFormedList(res)
           /\ \A n : Offers(res, n) <=>
                        \/ Offers(list, n)
                        \/ n = [indexOrder |-> order, blockSize |-> size]
           /\ res.newIndexesCount = list.newIndexesCount
<1> DEFINE e == [indexOrder |-> order, blockSize |-> size]
           s == list.nodes
           p == InsertPosition(s, e)
           t == InsertNode(s, e)
           res == InsertDeadIndex(list, order, size)
<1>1. /\ s \in Seq(Node)
      /\ list.indexesCount \in Nat
      /\ list.newIndexesCount \in Nat
      /\ e \in Node
      /\ e.blockSize = size
      /\ e.indexOrder = order
  BY DEF FreeIndexesList, Node
<1>2. Sorted(s) /\ NoDuplicates(s) /\ Counted(list)
  BY DEF WellFormedList
<1>3. res = [nodes |-> t, indexesCount |-> list.indexesCount + 1,
             newIndexesCount |-> list.newIndexesCount]
  BY DEF InsertDeadIndex
<1> HIDE DEF res, s, e, t, p
<1>4. /\ p \in 1 .. Len(s) + 1
      /\ t \in Seq(Node)
      /\ Len(t) = Len(s) + 1
      /\ \A i \in 1 .. Len(s) + 1 :
            t[i] = IF i < p THEN s[i] ELSE IF i = p THEN e ELSE s[i - 1]
      /\ Sorted(t)
  BY <1>1, <1>2, InsertNodeProperties DEF p, t
<1>5. NoDuplicates(t)
      /\ \A n : (\E k \in 1 .. Len(s) + 1 : t[k] = n)
                <=> n = e \/ \E k \in 1 .. Len(s) : s[k] = n
  BY <1>1, <1>2, InsertNodeOffers DEF Fresh, t, s
<1>6. Counted(res)
  <2>1. /\ list.indexesCount = Len(s)
        /\ list.newIndexesCount <= Len(s)
        /\ \A i \in 1 .. Len(s) :
              s[i].blockSize = 0 <=> i <= list.newIndexesCount
    BY <1>1, <1>2 DEF Counted, s
  <2>2. /\ \A i \in 1 .. Len(s) : s[i].blockSize \in Nat
        /\ \A i, j \in 1 .. Len(t) :
              i <= j => t[i].blockSize <= t[j].blockSize
        /\ \A i \in 1 .. Len(t) : t[i].blockSize \in Nat
    <3>1. \A i \in 1 .. Len(s) : s[i] \in Node
      BY <1>1, ElementOfSeq
    <3>2. \A i \in 1 .. Len(t) : t[i] \in Node
      BY <1>4, ElementOfSeq
    <3> QED BY <1>4, <3>1, <3>2 DEF Sorted, Node
  <2>3. p > list.newIndexesCount
    \* Otherwise a new index would lie behind a dead one.
    <3> SUFFICES ASSUME p <= list.newIndexesCount PROVE FALSE
      BY <1>1, <1>4
    <3>1. p \in 1 .. Len(s) /\ s[p].blockSize = 0
      BY <1>1, <1>4, <2>1
    <3>2. t[p + 1] = s[p] /\ t[p] = e /\ p + 1 \in 1 .. Len(t)
      BY <1>4, <3>1
    <3>3. t[p].blockSize <= t[p + 1].blockSize
      BY <1>4, <2>2, <3>1, <3>2
    <3> QED BY <1>1, <3>1, <3>2, <3>3
  <2>4. \A i \in 1 .. Len(t) :
           t[i].blockSize = 0 <=> i <= list.newIndexesCount
    <3> SUFFICES ASSUME NEW i \in 1 .. Len(t)
                 PROVE  t[i].blockSize = 0 <=> i <= list.newIndexesCount
      OBVIOUS
    <3>1. CASE i < p
      BY <1>4, <2>1, <3>1
    <3>2. CASE i = p
      BY <1>1, <1>4, <2>3, <3>2
    <3>3. CASE i > p
      <4>1. i - 1 \in 1 .. Len(s) /\ t[i] = s[i - 1]
        BY <1>4, <3>3
      <4> QED BY <1>1, <1>4, <2>1, <2>3, <3>3, <4>1
    <3> QED BY <1>4, <3>1, <3>2, <3>3
  <2>5. Len(t) = Len(s) + 1 /\ list.newIndexesCount <= Len(s) + 1
    BY <1>1, <1>4, <2>1
  <2> QED BY <1>1, <1>3, <2>1, <2>4, <2>5 DEF Counted
<1>7. res \in FreeIndexesList /\ WellFormedList(res)
  BY <1>1, <1>3, <1>4, <1>5, <1>6 DEF FreeIndexesList, WellFormedList
<1>8. \A n : Offers(res, n) <=> Offers(list, n) \/ n = e
  BY <1>3, <1>4, <1>5 DEF Offers, s
<1> QED BY <1>3, <1>7, <1>8 DEF res, e

-----------------------------------------------------------------------------
(* New indexes.                                                            *)

\* insertNewIndex keeps the list well formed and adds one node.
LEMMA InsertNewIndexProperties ==
    ASSUME NEW list \in FreeIndexesList, WellFormedList(list),
           NEW order \in Nat, Fresh(list, order)
    PROVE  LET res == InsertNewIndex(list, order) IN
           /\ res \in FreeIndexesList
           /\ WellFormedList(res)
           /\ \A n : Offers(res, n) <=>
                        \/ Offers(list, n)
                        \/ n = [indexOrder |-> order, blockSize |-> 0]
           /\ res.newIndexesCount = list.newIndexesCount + 1
<1> DEFINE e == [indexOrder |-> order, blockSize |-> 0]
           s == list.nodes
           t == InsertNode(s, e)
           res == InsertNewIndex(list, order)
<1>1. /\ s \in Seq(Node)
      /\ list.indexesCount \in Nat
      /\ list.newIndexesCount \in Nat
      /\ e \in Node
      /\ e.blockSize = 0
      /\ e.indexOrder = order
  BY DEF FreeIndexesList, Node
<1>2. Sorted(s) /\ NoDuplicates(s) /\ Counted(list)
  BY DEF WellFormedList
<1>3. res = [nodes |-> t, indexesCount |-> list.indexesCount + 1,
             newIndexesCount |-> list.newIndexesCount + 1]
  BY DEF InsertNewIndex
<1> HIDE DEF res, s, e, t
<1>4. /\ t \in Seq(Node)
      /\ Len(t) = Len(s) + 1
      /\ \A i \in 1 .. Len(s) + 1 : t[i] = IF i = 1 THEN e ELSE s[i - 1]
      /\ Sorted(t)
  <2> DEFINE p == InsertPosition(s, e)
  <2> HIDE DEF p
  <2>1. /\ e.blockSize = 0 => p = 1
        /\ t \in Seq(Node)
        /\ Len(t) = Len(s) + 1
        /\ \A i \in 1 .. Len(s) + 1 :
              t[i] = IF i < p THEN s[i] ELSE IF i = p THEN e ELSE s[i - 1]
        /\ Sorted(t)
    BY <1>1, <1>2, InsertNodeProperties DEF p, t
  <2> QED BY <1>1, <2>1
<1>5. NoDuplicates(t)
      /\ \A n : (\E k \in 1 .. Len(s) + 1 : t[k] = n)
                <=> n = e \/ \E k \in 1 .. Len(s) : s[k] = n
  BY <1>1, <1>2, InsertNodeOffers DEF Fresh, t, s
<1>6. Counted(res)
  <2>1. /\ list.indexesCount = Len(s)
        /\ list.newIndexesCount <= Len(s)
        /\ \A i \in 1 .. Len(s) :
              s[i].blockSize = 0 <=> i <= list.newIndexesCount
    BY <1>1, <1>2 DEF Counted, s
  <2>2. \A i \in 1 .. Len(t) :
           t[i].blockSize = 0 <=> i <= list.newIndexesCount + 1
    <3> SUFFICES ASSUME NEW i \in 1 .. Len(t)
                 PROVE  t[i].blockSize = 0 <=> i <= list.newIndexesCount + 1
      OBVIOUS
    <3>1. CASE i = 1
      BY <1>1, <1>4, <3>1
    <3>2. CASE i > 1
      <4>1. i - 1 \in 1 .. Len(s) /\ t[i] = s[i - 1]
        BY <1>4, <3>2
      <4> QED BY <1>1, <2>1, <3>2, <4>1
    <3> QED BY <1>4, <3>1, <3>2
  <2> QED BY <1>1, <1>3, <1>4, <2>1, <2>2 DEF Counted
<1>7. res \in FreeIndexesList /\ WellFormedList(res)
  BY <1>1, <1>3, <1>4, <1>5, <1>6 DEF FreeIndexesList, WellFormedList
<1>8. \A n : Offers(res, n) <=> Offers(list, n) \/ n = e
  BY <1>3, <1>4, <1>5 DEF Offers, s
<1> QED BY <1>3, <1>7, <1>8 DEF res, e

\* insertNewIndexes keeps the list well formed and adds the n indexes from
\* first on, if the list held smaller ones only.
LEMMA InsertNewIndexesProperties ==
    ASSUME NEW list \in FreeIndexesList, WellFormedList(list),
           NEW first \in Nat, NEW n \in Nat,
           \A k \in 1 .. Len(list.nodes) : list.nodes[k].indexOrder < first
    PROVE  LET res == InsertNewIndexes(list, first, n) IN
           /\ res \in FreeIndexesList
           /\ WellFormedList(res)
           /\ \A node : Offers(res, node) <=>
                 \/ Offers(list, node)
                 \/ \E order \in first .. first + n - 1 :
                       node = [indexOrder |-> order, blockSize |-> 0]
           /\ res.newIndexesCount = list.newIndexesCount + n
<1> DEFINE s == list.nodes
           new == [i \in 1 .. n |-> [indexOrder |-> first + n - i,
                                     blockSize  |-> 0]]
           t == new \o s
           res == InsertNewIndexes(list, first, n)
<1>1. /\ s \in Seq(Node)
      /\ Len(s) \in Nat
      /\ list.indexesCount \in Nat
      /\ list.newIndexesCount \in Nat
  BY DEF FreeIndexesList
<1>2. Sorted(s) /\ NoDuplicates(s) /\ Counted(list)
  BY DEF WellFormedList
<1>3. res = [nodes |-> t, indexesCount |-> list.indexesCount + n,
             newIndexesCount |-> list.newIndexesCount + n]
  BY DEF InsertNewIndexes
<1>4. /\ new \in Seq(Node)
      /\ Len(new) = n
      /\ \A i \in 1 .. n : /\ new[i].indexOrder = first + n - i
                           /\ new[i].blockSize = 0
                           /\ new[i] = [indexOrder |-> first + n - i,
                                        blockSize |-> 0]
  <2>1. \A i \in 1 .. n :
           [indexOrder |-> first + n - i, blockSize |-> 0] \in Node
    BY DEF Node
  <2>2. new \in Seq(Node)
    BY <2>1, IsASeq
  <2>3. Len(new) = n
    BY <2>2, LenProperties
  <2> QED BY <2>2, <2>3
<1> HIDE DEF res, s, new
<1>5. /\ t \in Seq(Node)
      /\ Len(t) = n + Len(s)
      /\ \A i \in 1 .. n + Len(s) :
            t[i] = IF i <= n THEN new[i] ELSE s[i - n]
  BY <1>1, <1>4, ConcatProperties
<1> HIDE DEF t
<1>6. \A i \in 1 .. Len(s) :
         /\ s[i].blockSize \in Nat
         /\ s[i].indexOrder \in Nat
         /\ s[i].indexOrder < first
  <2>1. \A i \in 1 .. Len(s) : s[i] \in Node
    BY <1>1, ElementOfSeq
  <2> QED BY <2>1 DEF Node, s
<1>7. Sorted(t)
  <2> SUFFICES ASSUME NEW i \in 1 .. Len(t), NEW j \in 1 .. Len(t), i <= j
               PROVE  t[i].blockSize <= t[j].blockSize
    BY DEF Sorted
  <2>1. CASE i <= n
    <3>1. t[i].blockSize = 0
      BY <1>1, <1>4, <1>5, <2>1
    <3>2. t[j].blockSize \in Nat
      <4>1. t[j] \in Node
        BY <1>5, ElementOfSeq
      <4> QED BY <4>1 DEF Node
    <3> QED BY <3>1, <3>2
  <2>2. CASE i > n
    <3>1. /\ i - n \in 1 .. Len(s) /\ t[i] = s[i - n]
          /\ j - n \in 1 .. Len(s) /\ t[j] = s[j - n]
      BY <1>1, <1>5, <2>2
    <3> QED BY <1>2, <3>1 DEF Sorted
  <2> QED BY <2>1, <2>2
<1>8. NoDuplicates(t)
  <2> SUFFICES ASSUME NEW i \in 1 .. Len(t), NEW j \in 1 .. Len(t),
                      t[i].indexOrder = t[j].indexOrder
               PROVE  i = j
    BY DEF NoDuplicates
  <2>1. \A k \in 1 .. Len(t) :
           IF k <= n
           THEN t[k].indexOrder = first + n - k
           ELSE /\ k - n \in 1 .. Len(s)
                /\ t[k].indexOrder = s[k - n].indexOrder
                /\ s[k - n].indexOrder < first
                /\ s[k - n].indexOrder \in Nat
    BY <1>1, <1>4, <1>5, <1>6
  <2>2. CASE i <= n /\ j <= n
    BY <2>1, <2>2
  <2>3. CASE i > n /\ j > n
    <3>1. /\ i - n \in 1 .. Len(s)
          /\ j - n \in 1 .. Len(s)
          /\ s[i - n].indexOrder = s[j - n].indexOrder
      BY <2>1, <2>3
    <3>2. i - n = j - n
      BY <1>2, <3>1 DEF NoDuplicates
    <3> QED BY <3>2
  <2>4. CASE i <= n /\ j > n
    <3>1. t[i].indexOrder = first + n - i /\ i \in Nat
      BY <2>1, <2>4
    <3>2. t[j].indexOrder \in Nat /\ t[j].indexOrder < first
      BY <2>1, <2>4
    <3> QED BY <2>4, <3>1, <3>2
  <2>5. CASE i > n /\ j <= n
    <3>1. t[j].indexOrder = first + n - j /\ j \in Nat
      BY <2>1, <2>5
    <3>2. t[i].indexOrder \in Nat /\ t[i].indexOrder < first
      BY <2>1, <2>5
    <3> QED BY <2>5, <3>1, <3>2
  <2> QED BY <2>2, <2>3, <2>4, <2>5
<1>9. Counted(res)
  <2>1. /\ list.indexesCount = Len(s)
        /\ list.newIndexesCount <= Len(s)
        /\ \A i \in 1 .. Len(s) :
              s[i].blockSize = 0 <=> i <= list.newIndexesCount
    BY <1>1, <1>2 DEF Counted, s
  <2>2. \A i \in 1 .. Len(t) :
           t[i].blockSize = 0 <=> i <= list.newIndexesCount + n
    <3> SUFFICES ASSUME NEW i \in 1 .. Len(t)
                 PROVE  t[i].blockSize = 0 <=> i <= list.newIndexesCount + n
      OBVIOUS
    <3>1. CASE i <= n
      BY <1>1, <1>4, <1>5, <3>1
    <3>2. CASE i > n
      <4>1. i - n \in 1 .. Len(s) /\ t[i] = s[i - n]
        BY <1>1, <1>5, <3>2
      <4> QED BY <1>1, <2>1, <4>1
    <3> QED BY <3>1, <3>2
  <2>3. /\ list.indexesCount + n = Len(t)
        /\ list.newIndexesCount + n <= Len(t)
    BY <1>1, <1>5, <2>1
  <2> QED BY <1>3, <2>2, <2>3 DEF Counted
<1>10. res \in FreeIndexesList /\ WellFormedList(res)
  BY <1>1, <1>3, <1>5, <1>7, <1>8, <1>9 DEF FreeIndexesList, WellFormedList
<1>11. ASSUME NEW node
       PROVE  Offers(res, node) <=>
                 \/ Offers(list, node)
                 \/ \E order \in first .. first + n - 1 :
                       node = [indexOrder |-> order, blockSize |-> 0]
  <2>1. ASSUME NEW k \in 1 .. Len(t), t[k] = node
        PROVE  \/ Offers(list, node)
               \/ \E order \in first .. first + n - 1 :
                     node = [indexOrder |-> order, blockSize |-> 0]
    <3>1. CASE k <= n
      <4>1. /\ first + n - k \in first .. first + n - 1
            /\ node = [indexOrder |-> first + n - k, blockSize |-> 0]
        BY <1>1, <1>4, <1>5, <2>1, <3>1
      <4> QED BY <4>1
    <3>2. CASE k > n
      <4>1. k - n \in 1 .. Len(s) /\ node = s[k - n]
        BY <1>1, <1>5, <2>1, <3>2
      <4> QED BY <4>1 DEF Offers, s
    <3> QED BY <3>1, <3>2
  <2>2. ASSUME NEW k \in 1 .. Len(s), s[k] = node
        PROVE  \E l \in 1 .. Len(t) : t[l] = node
    <3>1. k + n \in 1 .. Len(t) /\ t[k + n] = node
      BY <1>1, <1>5, <2>2
    <3> QED BY <3>1
  <2>3. ASSUME NEW order \in first .. first + n - 1,
               node = [indexOrder |-> order, blockSize |-> 0]
        PROVE  \E l \in 1 .. Len(t) : t[l] = node
    <3>1. first + n - order \in 1 .. n /\ first + n - order \in 1 .. Len(t)
      BY <1>1, <1>5
    <3>2. t[first + n - order] = new[first + n - order]
      BY <1>1, <1>5, <3>1
    <3>3. new[first + n - order] =
             [indexOrder |-> first + n - (first + n - order),
              blockSize |-> 0]
      BY <1>4, <3>1
    <3>4. first + n - (first + n - order) = order
      OBVIOUS
    <3> QED BY <2>3, <3>1, <3>2, <3>3, <3>4
  <2> QED BY <1>3, <2>1, <2>2, <2>3 DEF Offers, s
<1> QED BY <1>3, <1>10, <1>11 DEF res

-----------------------------------------------------------------------------
(* findRelevantIndex.                                                      *)

\* While a new index is left, findRelevantIndex finds an index.
LEMMA NewIndexIsRelevant ==
    ASSUME NEW list \in FreeIndexesList, WellFormedList(list),
           NEW reqSize, list.newIndexesCount > 0
    PROVE  HasRelevantIndex(list, reqSize)
<1> DEFINE s == list.nodes
<1>1. /\ s \in Seq(Node)
      /\ list.indexesCount \in Nat
      /\ list.newIndexesCount \in Nat
  BY DEF FreeIndexesList
<1>2. /\ list.indexesCount = Len(s)
      /\ list.newIndexesCount <= Len(s)
      /\ \A i \in 1 .. Len(s) :
            s[i].blockSize = 0 <=> i <= list.newIndexesCount
  BY DEF WellFormedList, Counted
<1>3. s # <<>> /\ 1 \in 1 .. Len(s) /\ Head(s) = s[1]
  BY <1>1, <1>2
<1>4. Head(s).blockSize = 0
  BY <1>1, <1>2, <1>3
<1>5. ~ IsSingle(list, 0)
  BY DEF IsSingle
<1> QED BY <1>3, <1>4, <1>5 DEF HasRelevantIndex, TakesFirst

\* If none is found although an index is free, no new index is left.
COROLLARY NothingRelevantMeansNoneNew ==
    ASSUME NEW list \in FreeIndexesList, WellFormedList(list),
           NEW reqSize, ~ HasRelevantIndex(list, reqSize)
    PROVE  list.newIndexesCount = 0
BY NewIndexIsRelevant DEF FreeIndexesList

\* findRelevantIndex takes one node out of the list; the node is a new index
\* or a dead block that is large enough.
LEMMA RelevantIndexProperties ==
    ASSUME NEW list \in FreeIndexesList, WellFormedList(list),
           NEW reqSize \in Nat \ {0}, HasRelevantIndex(list, reqSize)
    PROVE  LET taken == RelevantIndex(list, reqSize)
               res == WithoutRelevantIndex(list, reqSize)
           IN /\ taken \in Node
              /\ Offers(list, taken)
              /\ taken.blockSize = 0 \/ taken.blockSize >= reqSize
              /\ res \in FreeIndexesList
              /\ WellFormedList(res)
              /\ \A n : Offers(res, n) <=> Offers(list, n) /\ n # taken
              /\ res.newIndexesCount + 1 >= list.newIndexesCount
<1> DEFINE s == list.nodes
           taken == RelevantIndex(list, reqSize)
           res == WithoutRelevantIndex(list, reqSize)
<1>1. /\ s \in Seq(Node)
      /\ Len(s) \in Nat
      /\ list.indexesCount \in Nat
      /\ list.newIndexesCount \in Nat
  BY DEF FreeIndexesList
<1>2. /\ list.indexesCount = Len(s)
      /\ list.newIndexesCount <= Len(s)
      /\ \A i \in 1 .. Len(s) :
            s[i].blockSize = 0 <=> i <= list.newIndexesCount
  BY DEF WellFormedList, Counted
<1>3. /\ \A i, j \in 1 .. Len(s) : i <= j => s[i].blockSize <= s[j].blockSize
      /\ \A i, j \in 1 .. Len(s) : s[i].indexOrder = s[j].indexOrder => i = j
  BY DEF WellFormedList, Sorted, NoDuplicates
<1>4. \A i \in 1 .. Len(s) : s[i] \in Node
  BY <1>1, ElementOfSeq
<1>5. CASE TakesLast(list, reqSize)
  <2>1. /\ s # <<>>
        /\ Len(s) \in 1 .. Len(s)
        /\ taken = s[Len(s)]
        /\ taken.blockSize >= reqSize
    BY <1>1, <1>5 DEF TakesLast, Last, RelevantIndex
  <2> DEFINE t == Front(s)
  <2>2. res = [nodes |-> t, indexesCount |-> list.indexesCount - 1,
               newIndexesCount |-> list.newIndexesCount]
    BY <1>5 DEF WithoutRelevantIndex
  <2>3. /\ t \in Seq(Node)
        /\ Len(t) = Len(s) - 1
        /\ \A i \in 1 .. Len(s) - 1 : t[i] = s[i]
    BY <1>1, <2>1, FrontProperties
  <2> HIDE DEF t, res, taken, s
  <2>4. list.newIndexesCount <= Len(s) - 1
    <3>1. s[Len(s)].blockSize # 0
      BY <1>4, <2>1 DEF Node
    <3> QED BY <1>1, <1>2, <2>1, <3>1
  <2>5. Sorted(t) /\ NoDuplicates(t)
    BY SMTT(30), <1>1, <1>3, <2>3 DEF Sorted, NoDuplicates
  <2>6. Counted(res)
    BY <1>1, <1>2, <2>1, <2>2, <2>3, <2>4 DEF Counted
  <2>7. res \in FreeIndexesList /\ WellFormedList(res)
    BY <1>1, <1>2, <2>1, <2>2, <2>3, <2>5, <2>6
       DEF FreeIndexesList, WellFormedList
  <2>8. \A n : Offers(res, n) <=> Offers(list, n) /\ n # taken
    <3>1. ASSUME NEW n, NEW i \in 1 .. Len(s) - 1, t[i] = n
          PROVE  n # taken /\ \E k \in 1 .. Len(s) : s[k] = n
      <4>1. i \in 1 .. Len(s) /\ s[i] = n /\ i # Len(s)
        BY <1>1, <2>3, <3>1
      <4> QED BY <1>3, <2>1, <4>1
    <3>2. ASSUME NEW n, NEW k \in 1 .. Len(s), s[k] = n, n # taken
          PROVE  \E i \in 1 .. Len(s) - 1 : t[i] = n
      <4>1. k \in 1 .. Len(s) - 1
        BY <1>1, <2>1, <3>2
      <4> QED BY <2>3, <3>2, <4>1
    <3> QED BY <2>2, <2>3, <3>1, <3>2 DEF Offers, s
  <2>9. Offers(list, taken)
    BY <2>1 DEF Offers, s
  <2>10. res.newIndexesCount + 1 >= list.newIndexesCount
    BY <1>1, <2>2
  <2> QED BY <1>4, <2>1, <2>7, <2>8, <2>9, <2>10 DEF res, taken
<1>6. CASE ~ TakesLast(list, reqSize)
  <2>1. TakesFirst(list, reqSize)
    BY <1>6 DEF HasRelevantIndex
  <2>2. s # <<>> /\ 1 \in 1 .. Len(s) /\ Head(s) = s[1]
    BY <1>1, <1>2, <2>1 DEF TakesFirst, IsSingle
  <2>3. taken = s[1] /\ s[1].blockSize = 0
    <3>1. CASE IsSingle(list, 1)
      BY <1>2, <1>6, <2>2, <3>1 DEF IsSingle, RelevantIndex
    <3>2. CASE ~ IsSingle(list, 1)
      BY <1>6, <2>1, <2>2, <3>2 DEF TakesFirst, RelevantIndex
    <3> QED BY <3>1, <3>2
  <2> DEFINE t == Tail(s)
  <2>4. res = [nodes |-> t, indexesCount |-> list.indexesCount - 1,
               newIndexesCount |-> list.newIndexesCount - 1]
    BY <1>6 DEF WithoutRelevantIndex
  <2>5. /\ t \in Seq(Node)
        /\ Len(t) = Len(s) - 1
        /\ \A i \in 1 .. Len(t) : t[i] = s[i + 1]
    BY <1>1, <2>2, HeadTailProperties
  <2> HIDE DEF t, res, taken, s
  <2>6. list.newIndexesCount >= 1
    BY <1>1, <1>2, <2>2, <2>3
  <2>7. Sorted(t) /\ NoDuplicates(t)
    <3>1. \A i \in 1 .. Len(t) : i + 1 \in 1 .. Len(s)
      BY <1>1, <2>5
    <3>2. Sorted(t)
      BY <1>1, <1>3, <2>5, <3>1 DEF Sorted
    <3>3. \A i, j \in 1 .. Len(t) : t[i].indexOrder = t[j].indexOrder
                                        => i + 1 = j + 1
      BY <1>3, <2>5, <3>1
    <3> QED BY <3>2, <3>3 DEF NoDuplicates
  <2>8. Counted(res)
    <3>1. \A i \in 1 .. Len(t) :
             t[i].blockSize = 0 <=> i <= list.newIndexesCount - 1
      <4>1. \A i \in 1 .. Len(t) : i + 1 \in 1 .. Len(s)
        BY <1>1, <2>5
      <4> QED BY <1>1, <1>2, <2>5, <4>1
    <3> QED BY <1>1, <1>2, <2>2, <2>4, <2>5, <3>1 DEF Counted
  <2>9. res \in FreeIndexesList /\ WellFormedList(res)
    <3>1. list.indexesCount - 1 \in Nat /\ list.newIndexesCount - 1 \in Nat
      BY <1>1, <1>2, <2>6
    <3> QED BY <2>4, <2>5, <2>7, <2>8, <3>1
        DEF FreeIndexesList, WellFormedList
  <2>10. \A n : Offers(res, n) <=> Offers(list, n) /\ n # taken
    <3>1. ASSUME NEW n, NEW i \in 1 .. Len(t), t[i] = n
          PROVE  n # taken /\ \E k \in 1 .. Len(s) : s[k] = n
      <4>1. i + 1 \in 1 .. Len(s) /\ s[i + 1] = n /\ i + 1 # 1
        BY <1>1, <2>5, <3>1
      <4> QED BY <1>3, <2>2, <2>3, <4>1
    <3>2. ASSUME NEW n, NEW k \in 1 .. Len(s), s[k] = n, n # taken
          PROVE  \E i \in 1 .. Len(t) : t[i] = n
      <4>1. k - 1 \in 1 .. Len(t) /\ (k - 1) + 1 = k
        BY <1>1, <2>3, <2>5, <3>2
      <4> QED BY <2>5, <3>2, <4>1
    <3> QED BY <2>4, <3>1, <3>2 DEF Offers, s
  <2>11. Offers(list, taken)
    BY <2>2, <2>3 DEF Offers, s
  <2>12. res.newIndexesCount + 1 >= list.newIndexesCount
    BY <1>1, <2>4
  <2> QED BY <1>4, <2>2, <2>3, <2>9, <2>10, <2>11, <2>12 DEF res, taken
<1> QED BY <1>5, <1>6

-----------------------------------------------------------------------------
(* The invariants about space.                                             *)

\* A request finds nothing of the list in the file.
LEMMA NothingUnread ==
    ASSUME TypeOK, pc \notin {"closed", "load"}
    PROVE  Unread = {} /\ UnreadNodes = {}
<1>1. Len(savedList) \in Nat
  BY DEF TypeOK
<1> QED BY <1>1 DEF Unread, UnreadFrom, UnreadNodes

\* The list in memory is the set of nodes it offers.
LEMMA ListedIsOffered == \A n : n \in ListedNodes <=> Offers(freeList, n)
BY DEF ListedNodes, Offers

\* attachIndexToBlock, with the index findRelevantIndex chose.
LEMMA AttachKeepsSpaceInv ==
    ASSUME TypeOK, SpaceInv, pc \notin {"closed", "load"},
           NEW reqSize \in Nat \ {0}, HasRelevantIndex(freeList, reqSize),
           NEW newCapacity \in Nat \ {0}, NEW header \in Block,
           header.capacity = CapacityFor(reqSize, newCapacity),
           Attach(reqSize, header), UNCHANGED <<indexCount, savedList>>,
           pc' \notin {"closed", "load"}
    PROVE  LET t == Taken(reqSize).indexOrder IN
           /\ t \in Indexes
           /\ flag[t] # "ALIVE"
           /\ flag' = [flag EXCEPT ![t] = "ALIVE"]
           /\ block' = [block EXCEPT ![t] = header]
           /\ flag' \in [Indexes -> Flags]
           /\ block' \in [Indexes -> Block]
           /\ freeList' \in FreeIndexesList
           /\ freeList'.newIndexesCount + 1 >= freeList.newIndexesCount
           /\ flag[t] # "NEW" => header.capacity = block[t].capacity
           /\ SpaceInv'
<1> DEFINE taken == Taken(reqSize)
           t == taken.indexOrder
<1>1. /\ freeList \in FreeIndexesList
      /\ WellFormedList(freeList)
      /\ flag \in [Indexes -> Flags]
      /\ block \in [Indexes -> Block]
      /\ indexCount \in Nat
  BY DEF TypeOK, SpaceInv, FreeListWellFormed
<1>2. /\ taken \in Node
      /\ Offers(freeList, taken)
      /\ freeList' \in FreeIndexesList
      /\ WellFormedList(freeList')
      /\ \A n : Offers(freeList', n) <=> Offers(freeList, n) /\ n # taken
      /\ freeList'.newIndexesCount + 1 >= freeList.newIndexesCount
  <2>1. freeList' = WithoutRelevantIndex(freeList, reqSize)
    BY DEF Attach
  <2> QED BY <1>1, <2>1, RelevantIndexProperties DEF Taken
<1>3. /\ flag' = [flag EXCEPT ![t] = "ALIVE"]
      /\ block' = [block EXCEPT ![t] = header]
  BY DEF Attach
<1>4. header.capacity = IF taken.blockSize = 0 THEN newCapacity
                        ELSE taken.blockSize
  BY DEF CapacityFor
<1> HIDE DEF taken
<1>5. Indexes' = Indexes
  BY DEF Indexes
<1>6. /\ t \in Indexes
      /\ flag[t] # "ALIVE"
      /\ taken = FreeNodeOf(t)
  BY <1>2, ListedIsOffered DEF SpaceInv, FreeIndexesAreUnused
<1>7. flag' \in [Indexes -> Flags] /\ block' \in [Indexes -> Block]
  BY <1>1, <1>3 DEF Flags
<1>8. flag[t] # "NEW" => header.capacity = block[t].capacity
  BY <1>4, <1>6 DEF FreeNodeOf, SpaceInv, BlocksHaveRoom
<1>9. UnreadNodes = {} /\ UnreadNodes' = {} /\ Unread' = {}
  <2>1. UnreadNodes = {}
    BY NothingUnread
  <2>2. Len(savedList') \in Nat /\ savedList' = savedList
    BY DEF TypeOK
  <2>3. Unread' = {}
    BY <2>2 DEF Unread, UnreadFrom
  <2> QED BY <2>1, <2>3 DEF UnreadNodes
<1>10. \A n : n \in ListedNodes' <=> n \in ListedNodes /\ n # taken
  <2>1. \A n : n \in ListedNodes' <=> Offers(freeList', n)
    BY DEF ListedNodes, Offers
  <2> QED BY <1>2, <2>1, ListedIsOffered
<1>11. \A i \in Indexes : i # t => /\ flag'[i] = flag[i]
                                   /\ block'[i] = block[i]
                                   /\ FreeNodeOf(i)' = FreeNodeOf(i)
  BY <1>1, <1>3 DEF FreeNodeOf
<1>12. FreeIndexesAreUnused'
  <2> SUFFICES ASSUME NEW n \in ListedNodes'
               PROVE  /\ n.indexOrder \in Indexes
                      /\ flag'[n.indexOrder] # "ALIVE"
                      /\ n = FreeNodeOf(n.indexOrder)'
    BY <1>5, <1>9 DEF FreeIndexesAreUnused
  <2>1. /\ n \in ListedNodes
        /\ n # taken
    BY <1>10
  <2>2. /\ n.indexOrder \in Indexes
        /\ flag[n.indexOrder] # "ALIVE"
        /\ n = FreeNodeOf(n.indexOrder)
    BY <2>1 DEF SpaceInv, FreeIndexesAreUnused
  <2>3. n.indexOrder # t
    BY <1>6, <2>1, <2>2
  <2> QED BY <1>11, <2>2, <2>3
<1>13. NoIndexLost'
  <2> SUFFICES ASSUME NEW i \in Indexes, flag'[i] # "ALIVE"
               PROVE  FreeNodeOf(i)' \in ListedNodes'
    BY <1>5 DEF NoIndexLost
  <2>1. i # t
    BY <1>1, <1>3
  <2>2. FreeNodeOf(i) \in ListedNodes
    BY <1>9, <1>11, <2>1 DEF SpaceInv, NoIndexLost
  <2>3. FreeNodeOf(i).indexOrder = i /\ taken.indexOrder = t
    BY DEF FreeNodeOf
  <2> QED BY <1>10, <1>11, <2>1, <2>2, <2>3
<1>14. SavedListIsDisjoint'
  BY <1>9 DEF SavedListIsDisjoint
<1>15. BlocksHaveRoom'
  <2> SUFFICES ASSUME NEW i \in Indexes, flag'[i] # "NEW"
               PROVE  block'[i].capacity > 0
    BY <1>5 DEF BlocksHaveRoom
  <2>1. CASE i = t
    BY <1>1, <1>2, <1>3, <1>4, <1>6, <2>1 DEF Node
  <2>2. CASE i # t
    BY <1>11, <2>2 DEF SpaceInv, BlocksHaveRoom
  <2> QED BY <2>1, <2>2
<1> QED BY <1>2, <1>3, <1>6, <1>7, <1>8, <1>12, <1>13, <1>14, <1>15
        DEF SpaceInv, FreeListWellFormed, taken

\* killIndex and insertDeadIndex, for an index that is alive.
LEMMA FreeKeepsSpaceInv ==
    ASSUME TypeOK, SpaceInv, pc \notin {"closed", "load"},
           NEW i \in Indexes, flag[i] = "ALIVE", Free(i, block[i].capacity),
           UNCHANGED <<indexCount, block, savedList>>,
           pc' \notin {"closed", "load"}
    PROVE  /\ flag' = [flag EXCEPT ![i] = "DEAD"]
           /\ flag' \in [Indexes -> Flags]
           /\ freeList' \in FreeIndexesList
           /\ SpaceInv'
<1> DEFINE size == block[i].capacity
           dead == [indexOrder |-> i, blockSize |-> size]
<1>1. /\ freeList \in FreeIndexesList
      /\ WellFormedList(freeList)
      /\ flag \in [Indexes -> Flags]
      /\ block \in [Indexes -> Block]
      /\ indexCount \in Nat
      /\ block' = block
      /\ Indexes' = Indexes
  BY DEF TypeOK, SpaceInv, FreeListWellFormed, Indexes
<1>2. i \in Nat /\ size \in Nat \ {0}
  <2>1. block[i].capacity > 0
    BY DEF SpaceInv, BlocksHaveRoom
  <2>2. block[i].capacity \in Nat
    BY <1>1 DEF Block
  <2> QED BY <1>1, <2>1, <2>2 DEF Indexes
<1>3. flag' = [flag EXCEPT ![i] = "DEAD"]
  BY DEF Free
<1>4. flag' \in [Indexes -> Flags]
  BY <1>1, <1>3 DEF Flags
<1>5. Fresh(freeList, i)
  <2> SUFFICES ASSUME NEW k \in 1 .. Len(freeList.nodes),
                      freeList.nodes[k].indexOrder = i
               PROVE  FALSE
    BY DEF Fresh
  <2>1. freeList.nodes[k] \in ListedNodes
    BY DEF ListedNodes
  <2> QED BY <2>1 DEF SpaceInv, FreeIndexesAreUnused
<1>6. /\ freeList' \in FreeIndexesList
      /\ WellFormedList(freeList')
      /\ \A n : Offers(freeList', n) <=> Offers(freeList, n) \/ n = dead
  <2>1. freeList' = InsertDeadIndex(freeList, i, size)
    BY DEF Free
  <2> QED BY <1>1, <1>2, <1>5, <2>1, InsertDeadIndexProperties
<1>7. UnreadNodes = {} /\ UnreadNodes' = {} /\ Unread' = {}
  <2>1. UnreadNodes = {}
    BY NothingUnread
  <2>2. Len(savedList') \in Nat /\ savedList' = savedList
    BY DEF TypeOK
  <2>3. Unread' = {}
    BY <2>2 DEF Unread, UnreadFrom
  <2> QED BY <2>1, <2>3 DEF UnreadNodes
<1>8. \A n : n \in ListedNodes' <=> n \in ListedNodes \/ n = dead
  <2>1. \A n : n \in ListedNodes' <=> Offers(freeList', n)
    BY DEF ListedNodes, Offers
  <2> QED BY <1>6, <2>1, ListedIsOffered
<1>9. \A j \in Indexes : j # i => /\ flag'[j] = flag[j]
                                  /\ FreeNodeOf(j)' = FreeNodeOf(j)
  BY <1>1, <1>3 DEF FreeNodeOf
<1>10. flag'[i] = "DEAD" /\ FreeNodeOf(i)' = dead
  BY <1>1, <1>3 DEF FreeNodeOf
<1>11. FreeIndexesAreUnused'
  <2> SUFFICES ASSUME NEW n \in ListedNodes'
               PROVE  /\ n.indexOrder \in Indexes
                      /\ flag'[n.indexOrder] # "ALIVE"
                      /\ n = FreeNodeOf(n.indexOrder)'
    BY <1>1, <1>7 DEF FreeIndexesAreUnused
  <2>1. CASE n = dead
    BY <1>10, <2>1
  <2>2. CASE n \in ListedNodes
    <3>1. /\ n.indexOrder \in Indexes
          /\ flag[n.indexOrder] # "ALIVE"
          /\ n = FreeNodeOf(n.indexOrder)
      BY <2>2 DEF SpaceInv, FreeIndexesAreUnused
    <3> QED BY <1>9, <3>1
  <2> QED BY <1>8, <2>1, <2>2
<1>12. NoIndexLost'
  <2> SUFFICES ASSUME NEW j \in Indexes, flag'[j] # "ALIVE"
               PROVE  FreeNodeOf(j)' \in ListedNodes'
    BY <1>1 DEF NoIndexLost
  <2>1. CASE j = i
    BY <1>8, <1>10, <2>1
  <2>2. CASE j # i
    BY <1>7, <1>8, <1>9, <2>2 DEF SpaceInv, NoIndexLost
  <2> QED BY <2>1, <2>2
<1>13. SavedListIsDisjoint'
  BY <1>7 DEF SavedListIsDisjoint
<1>14. BlocksHaveRoom'
  BY <1>1, <1>9 DEF SpaceInv, BlocksHaveRoom
<1> QED BY <1>3, <1>4, <1>6, <1>11, <1>12, <1>13, <1>14
        DEF SpaceInv, FreeListWellFormed

\* A header is written back with other links.
LEMMA LinkKeepsSpaceInv ==
    ASSUME TypeOK, SpaceInv, pc \notin {"closed", "load"},
           UNCHANGED <<indexCount, flag, freeList, savedList>>,
           \A i \in Indexes : block'[i].capacity = block[i].capacity,
           pc' \notin {"closed", "load"}
    PROVE  SpaceInv'
<1>1. Indexes' = Indexes /\ ListedNodes' = ListedNodes
  BY DEF Indexes, ListedNodes
<1>2. UnreadNodes = {} /\ UnreadNodes' = {} /\ Unread' = {}
  <2>1. UnreadNodes = {}
    BY NothingUnread
  <2>2. Len(savedList') \in Nat /\ savedList' = savedList
    BY DEF TypeOK
  <2>3. Unread' = {}
    BY <2>2 DEF Unread, UnreadFrom
  <2> QED BY <2>1, <2>3 DEF UnreadNodes
<1>3. \A i \in Indexes : FreeNodeOf(i)' = FreeNodeOf(i)
  BY DEF FreeNodeOf
<1>4. FreeListWellFormed'
  BY DEF SpaceInv, FreeListWellFormed
<1>5. FreeIndexesAreUnused' /\ NoIndexLost'
  BY <1>1, <1>2, <1>3 DEF SpaceInv, FreeIndexesAreUnused, NoIndexLost
<1>6. SavedListIsDisjoint'
  BY <1>2 DEF SavedListIsDisjoint
<1>7. BlocksHaveRoom'
  BY <1>1 DEF SpaceInv, BlocksHaveRoom
<1> QED BY <1>4, <1>5, <1>6, <1>7 DEF SpaceInv

\* expandIndexes.
LEMMA ExpandKeepsSpaceInv ==
    ASSUME TypeOK, SpaceInv, NEW n \in ExpandCounts, ExpandIndexes(n)
    PROVE  /\ indexCount' \in Nat \ {0}
           /\ Indexes \subseteq Indexes'
           /\ flag' \in [Indexes' -> Flags]
           /\ block' \in [Indexes' -> Block]
           /\ \A i \in Indexes : flag'[i] = flag[i] /\ block'[i] = block[i]
           /\ \A i \in Indexes' \ Indexes : flag'[i] = "NEW"
           /\ freeList' \in FreeIndexesList
           /\ freeList'.newIndexesCount >= 2
           /\ SpaceInv'
<1>1. /\ freeList \in FreeIndexesList
      /\ WellFormedList(freeList)
      /\ flag \in [Indexes -> Flags]
      /\ block \in [Indexes -> Block]
      /\ indexCount \in Nat \ {0}
      /\ n \in Nat
      /\ n >= 2
      /\ pc = "expand"
      /\ pc' \in {"toast", "document"}
  BY ConstantsAssumption
     DEF TypeOK, SpaceInv, FreeListWellFormed, ExpandIndexes, Goto,
         AllocationStep
<1>2. /\ indexCount' = indexCount + n
      /\ Indexes' = 0 .. indexCount + n - 1
      /\ Indexes = 0 .. indexCount - 1
      /\ flag' = [i \in 0 .. indexCount + n - 1 |->
                     IF i < indexCount THEN flag[i] ELSE "NEW"]
      /\ block' = [i \in 0 .. indexCount + n - 1 |->
                     IF i < indexCount THEN block[i] ELSE NoBlock]
      /\ freeList' = InsertNewIndexes(freeList, indexCount, n)
      /\ savedList' = savedList
  <2>1. indexCount' = indexCount + n
    BY DEF ExpandIndexes, ExpandedCount
  <2>2. Indexes' = 0 .. indexCount + n - 1 /\ Indexes = 0 .. indexCount - 1
    BY <1>1, <2>1 DEF Indexes
  <2> QED BY <2>1, <2>2 DEF ExpandIndexes
<1>3. /\ Indexes \subseteq Indexes'
      /\ \A i \in Indexes' : i \in Indexes <=> i < indexCount
      /\ \A i \in Indexes' \ Indexes : i \in indexCount .. indexCount + n - 1
      /\ indexCount' \in Nat \ {0}
  BY <1>1, <1>2
<1>4. NoBlock \in Block
  BY DEF NoBlock, Block, BlockTypes
<1>5. flag' \in [Indexes' -> Flags] /\ block' \in [Indexes' -> Block]
  BY <1>1, <1>2, <1>3, <1>4 DEF Flags
<1>6. /\ \A i \in Indexes : flag'[i] = flag[i] /\ block'[i] = block[i]
      /\ \A i \in Indexes' \ Indexes : flag'[i] = "NEW"
  BY <1>1, <1>2, <1>3
<1>7. \A node \in ListedNodes : node.indexOrder \in Indexes
  BY DEF SpaceInv, FreeIndexesAreUnused
<1>8. \A k \in 1 .. Len(freeList.nodes) :
         freeList.nodes[k].indexOrder < indexCount
  <2> SUFFICES ASSUME NEW k \in 1 .. Len(freeList.nodes)
               PROVE  freeList.nodes[k].indexOrder < indexCount
    OBVIOUS
  <2>1. freeList.nodes[k] \in ListedNodes
    BY DEF ListedNodes
  <2> QED BY <1>1, <1>2, <1>7, <2>1
<1> DEFINE new(order) == [indexOrder |-> order, blockSize |-> 0]
           expanded == InsertNewIndexes(freeList, indexCount, n)
<1>9. /\ freeList' \in FreeIndexesList
      /\ WellFormedList(freeList')
      /\ \A node : Offers(freeList', node) <=>
            \/ Offers(freeList, node)
            \/ \E order \in indexCount .. indexCount + n - 1 :
                  node = new(order)
      /\ freeList'.newIndexesCount = freeList.newIndexesCount + n
  <2>1. /\ expanded \in FreeIndexesList
        /\ WellFormedList(expanded)
        /\ \A node : Offers(expanded, node) <=>
              \/ Offers(freeList, node)
              \/ \E order \in indexCount .. indexCount + n - 1 :
                    node = [indexOrder |-> order, blockSize |-> 0]
        /\ expanded.newIndexesCount = freeList.newIndexesCount + n
    BY <1>1, <1>8, InsertNewIndexesProperties
  <2> QED BY <1>2, <2>1
<1>10. freeList'.newIndexesCount >= 2
  BY <1>1, <1>9 DEF FreeIndexesList
<1>11. \A node : node \in ListedNodes' <=>
            \/ node \in ListedNodes
            \/ \E order \in indexCount .. indexCount + n - 1 :
                  node = new(order)
  <2>1. \A node : node \in ListedNodes' <=> Offers(freeList', node)
    BY DEF ListedNodes, Offers
  <2> QED BY <1>9, <2>1, ListedIsOffered
<1>12. UnreadNodes = {} /\ UnreadNodes' = {} /\ Unread' = {}
  <2>1. UnreadNodes = {}
    BY <1>1, NothingUnread
  <2>2. Len(savedList') \in Nat
    BY <1>2 DEF TypeOK
  <2>3. Unread' = {}
    BY <1>1, <2>2 DEF Unread, UnreadFrom
  <2> QED BY <2>1, <2>3 DEF UnreadNodes
<1>13. /\ \A i \in Indexes : FreeNodeOf(i)' = FreeNodeOf(i)
       /\ \A i \in Indexes' \ Indexes : FreeNodeOf(i)' = new(i)
  BY <1>6 DEF FreeNodeOf
<1>14. FreeIndexesAreUnused'
  <2> SUFFICES ASSUME NEW node \in ListedNodes'
               PROVE  /\ node.indexOrder \in Indexes'
                      /\ flag'[node.indexOrder] # "ALIVE"
                      /\ node = FreeNodeOf(node.indexOrder)'
    BY <1>12 DEF FreeIndexesAreUnused
  <2>1. CASE node \in ListedNodes
    <3>1. /\ node.indexOrder \in Indexes
          /\ flag[node.indexOrder] # "ALIVE"
          /\ node = FreeNodeOf(node.indexOrder)
      BY <2>1 DEF SpaceInv, FreeIndexesAreUnused
    <3> QED BY <1>3, <1>6, <1>13, <3>1
  <2>2. ASSUME NEW order \in indexCount .. indexCount + n - 1,
               node = new(order)
        PROVE  /\ node.indexOrder \in Indexes'
               /\ flag'[node.indexOrder] # "ALIVE"
               /\ node = FreeNodeOf(node.indexOrder)'
    <3>1. node.indexOrder = order /\ order \in Indexes' \ Indexes
      BY <1>1, <1>2, <2>2
    <3> QED BY <1>6, <1>13, <2>2, <3>1
  <2> QED BY <1>11, <2>1, <2>2
<1>15. NoIndexLost'
  <2> SUFFICES ASSUME NEW i \in Indexes', flag'[i] # "ALIVE"
               PROVE  FreeNodeOf(i)' \in ListedNodes'
    BY DEF NoIndexLost
  <2>1. CASE i \in Indexes
    BY <1>6, <1>11, <1>12, <1>13, <2>1 DEF SpaceInv, NoIndexLost
  <2>2. CASE i \notin Indexes
    BY <1>3, <1>11, <1>13, <2>2
  <2> QED BY <2>1, <2>2
<1>16. SavedListIsDisjoint'
  BY <1>1, <1>12 DEF SavedListIsDisjoint
<1>17. BlocksHaveRoom'
  BY <1>6 DEF SpaceInv, BlocksHaveRoom
<1> QED BY <1>3, <1>5, <1>6, <1>9, <1>10, <1>14, <1>15, <1>16, <1>17
        DEF SpaceInv, FreeListWellFormed

\* finish(): the list goes to the file.
LEMMA FinishKeepsSpaceInv ==
    ASSUME TypeOK, SpaceInv, Finish
    PROVE  /\ SpaceInv'
           /\ savedList' \in Seq(Node)
           /\ freeList' \in FreeIndexesList
<1>1. /\ freeList \in FreeIndexesList
      /\ freeList.nodes \in Seq(Node)
      /\ Len(freeList.nodes) \in Nat
      /\ WellFormedList(freeList)
      /\ pc = "idle"
      /\ pc' = "closed"
      /\ savedList' = freeList.nodes
      /\ freeList' = EmptyList
      /\ UNCHANGED <<indexCount, flag, block>>
  BY DEF TypeOK, SpaceInv, FreeListWellFormed, Finish, Goto, FreeIndexesList
<1>2. /\ EmptyList \in FreeIndexesList
      /\ WellFormedList(EmptyList)
      /\ Len(EmptyList.nodes) = 0
  BY DEF EmptyList, FreeIndexesList, WellFormedList, Sorted, NoDuplicates,
         Counted
<1>3. /\ Unread' = 1 .. Len(freeList.nodes)
      /\ ListedNodes' = {}
      /\ UnreadNodes' = ListedNodes
  BY <1>1, <1>2 DEF Unread, UnreadFrom, UnreadNodes, ListedNodes
<1>4. UnreadNodes = {}
  BY <1>1, NothingUnread
<1>5. \A i : FreeNodeOf(i)' = FreeNodeOf(i)
  BY <1>1 DEF FreeNodeOf
<1>6. Indexes' = Indexes
  BY <1>1 DEF Indexes
<1>7. FreeIndexesAreUnused' /\ NoIndexLost'
  BY <1>1, <1>3, <1>4, <1>5, <1>6
     DEF SpaceInv, FreeIndexesAreUnused, NoIndexLost
<1>8. SavedListIsDisjoint'
  BY <1>1, <1>3 DEF SavedListIsDisjoint, WellFormedList, NoDuplicates
<1>9. BlocksHaveRoom'
  BY <1>1, <1>6 DEF SpaceInv, BlocksHaveRoom
<1> QED BY <1>1, <1>2, <1>7, <1>8, <1>9 DEF SpaceInv, FreeListWellFormed

\* init() on an existing file: the list is in the file, nothing is read yet.
LEMMA OpenKeepsSpaceInv ==
    ASSUME TypeOK, SpaceInv, Open
    PROVE  /\ SpaceInv'
           /\ savedList' \in Seq(Node)
<1>1. /\ savedList \in Seq(Node)
      /\ Len(savedList) \in Nat
      /\ pc = "closed"
      /\ freeList' = freeList
      /\ UNCHANGED <<indexCount, flag, block>>
  BY DEF TypeOK, Open
<1>2. /\ FreeListWellFormed'
      /\ ListedNodes' = ListedNodes
      /\ Indexes' = Indexes
      /\ \A i : FreeNodeOf(i)' = FreeNodeOf(i)
  BY <1>1
     DEF SpaceInv, FreeListWellFormed, ListedNodes, Indexes, FreeNodeOf
<1>3. /\ Unread = 1 .. Len(savedList)
      /\ freeList = EmptyList
      /\ ListedNodes = {}
  <2>1. freeList = EmptyList
    BY <1>1 DEF SpaceInv, SavedListIsDisjoint
  <2>2. Len(EmptyList.nodes) = 0
    BY DEF EmptyList
  <2> QED BY <1>1, <2>1, <2>2 DEF Unread, UnreadFrom, ListedNodes
<1>4. CASE Len(savedList) >= 1
  <2>1. /\ pc' = "load"
        /\ call'.temp = 1
        /\ savedList' = savedList
    BY <1>1, <1>4 DEF Open, Load, Goto, NoCall
  <2>2. Unread' = Unread /\ UnreadNodes' = UnreadNodes
    BY <1>3, <2>1 DEF Unread, UnreadFrom, UnreadNodes
  <2>3. FreeIndexesAreUnused' /\ NoIndexLost'
    BY <1>1, <1>2, <2>2 DEF SpaceInv, FreeIndexesAreUnused, NoIndexLost
  <2>4. SavedListIsDisjoint'
    BY <1>1, <1>2, <1>3, <1>4, <2>1, <2>2 DEF SpaceInv, SavedListIsDisjoint
  <2> QED BY <1>1, <1>2, <2>1, <2>3, <2>4 DEF SpaceInv, BlocksHaveRoom
<1>5. CASE ~ (Len(savedList) >= 1)
  <2>1. /\ pc' = "idle"
        /\ savedList' = <<>>
    BY <1>1, <1>5 DEF Open, Load, Goto
  <2>2. /\ UnreadNodes = {}
        /\ Unread' = {}
        /\ UnreadNodes' = {}
    BY <1>1, <1>3, <1>5, <2>1 DEF Unread, UnreadFrom, UnreadNodes
  <2>3. FreeIndexesAreUnused' /\ NoIndexLost'
    BY <1>1, <1>2, <2>2 DEF SpaceInv, FreeIndexesAreUnused, NoIndexLost
  <2>4. SavedListIsDisjoint'
    BY <2>1, <2>2 DEF SavedListIsDisjoint
  <2> QED BY <1>1, <1>2, <2>1, <2>3, <2>4 DEF SpaceInv, BlocksHaveRoom
<1> QED BY <1>4, <1>5

\* readFreeList: one node goes from the saved list to the list in memory.
LEMMA LoadNodeKeepsSpaceInv ==
    ASSUME TypeOK, SpaceInv, LoadNode
    PROVE  /\ SpaceInv'
           /\ savedList' \in Seq(Node)
           /\ freeList' \in FreeIndexesList
<1> DEFINE temp == call.temp
           node == savedList[temp]
<1>1. /\ savedList \in Seq(Node)
      /\ Len(savedList) \in Nat
      /\ freeList \in FreeIndexesList
      /\ WellFormedList(freeList)
      /\ pc = "load"
      /\ temp \in 1 .. Len(savedList)
      /\ UNCHANGED <<indexCount, flag, block>>
      /\ block \in [Indexes -> Block]
  BY DEF TypeOK, SpaceInv, FreeListWellFormed, SavedListIsDisjoint, LoadNode
<1>2. /\ Unread = temp .. Len(savedList)
      /\ node \in UnreadNodes
      /\ node \in Node
  BY <1>1, ElementOfSeq DEF Unread, UnreadFrom, UnreadNodes
<1>3. /\ node.indexOrder \in Indexes
      /\ flag[node.indexOrder] # "ALIVE"
      /\ node = FreeNodeOf(node.indexOrder)
  BY <1>2 DEF SpaceInv, FreeIndexesAreUnused
<1>4. Fresh(freeList, node.indexOrder)
  <2> SUFFICES ASSUME NEW k \in 1 .. Len(freeList.nodes)
               PROVE  freeList.nodes[k].indexOrder # node.indexOrder
    BY DEF Fresh
  <2>1. freeList.nodes[k] \in ListedNodes /\ temp \in Unread
    BY <1>1, <1>2 DEF ListedNodes
  <2> QED BY <2>1 DEF SpaceInv, SavedListIsDisjoint
<1>5. /\ freeList' \in FreeIndexesList
      /\ WellFormedList(freeList')
      /\ \A n : Offers(freeList', n) <=> Offers(freeList, n) \/ n = node
  <2>1. /\ node.indexOrder \in Nat
        /\ node.blockSize \in Nat
        /\ node = [indexOrder |-> node.indexOrder,
                   blockSize |-> node.blockSize]
    BY <1>2 DEF Node
  <2>2. CASE node.blockSize = 0
    <3>1. freeList' = InsertNewIndex(freeList, node.indexOrder)
      BY <2>2 DEF LoadNode
    <3> QED BY <1>1, <1>4, <2>1, <2>2, <3>1, InsertNewIndexProperties
  <2>3. CASE node.blockSize # 0
    <3>1. freeList' = InsertDeadIndex(freeList, node.indexOrder,
                                      node.blockSize)
      BY <2>3 DEF LoadNode
    <3>2. node.blockSize \in Nat \ {0}
      BY <2>1, <2>3
    <3> QED BY <1>1, <1>4, <2>1, <3>1, <3>2, InsertDeadIndexProperties
  <2> QED BY <2>2, <2>3
<1> HIDE DEF temp, node
<1>6. \A n : n \in ListedNodes' <=> n \in ListedNodes \/ n = node
  <2>1. \A n : n \in ListedNodes' <=> Offers(freeList', n)
    BY DEF ListedNodes, Offers
  <2> QED BY <1>5, <2>1, ListedIsOffered
<1>7. /\ Indexes' = Indexes
      /\ \A i : FreeNodeOf(i)' = FreeNodeOf(i)
  BY <1>1 DEF Indexes, FreeNodeOf
<1>8. /\ Unread' = temp + 1 .. Len(savedList)
      /\ \A k \in Unread' : savedList'[k] = savedList[k]
      /\ pc' \in {"load", "idle"}
      /\ pc' = "load" => call'.temp \in 1 .. Len(savedList')
      /\ savedList' \in Seq(Node)
  <2>1. CASE temp + 1 <= Len(savedList)
    <3>1. /\ pc' = "load"
          /\ call'.temp = temp + 1
          /\ savedList' = savedList
      BY <2>1 DEF LoadNode, Load, Goto, NoCall, temp
    <3> QED BY <1>1, <2>1, <3>1 DEF Unread, UnreadFrom
  <2>2. CASE ~ (temp + 1 <= Len(savedList))
    <3>1. pc' = "idle" /\ savedList' = <<>>
      BY <2>2 DEF LoadNode, Load, Goto, temp
    <3>2. Unread' = {}
      BY <3>1 DEF Unread, UnreadFrom
    <3> QED BY <1>1, <2>2, <3>1, <3>2
  <2> QED BY <2>1, <2>2
<1>9. \A n : n \in UnreadNodes <=> n \in UnreadNodes' \/ n = node
  <2>1. \A n : n \in UnreadNodes' <=>
                  \E k \in temp + 1 .. Len(savedList) : savedList[k] = n
    BY <1>8 DEF UnreadNodes
  <2>2. \A n : n \in UnreadNodes <=>
                  \E k \in temp .. Len(savedList) : savedList[k] = n
    BY <1>2 DEF UnreadNodes
  <2>3. \A k \in temp .. Len(savedList) :
           k = temp \/ k \in temp + 1 .. Len(savedList)
    BY <1>1
  <2>4. /\ temp \in temp .. Len(savedList)
        /\ temp + 1 .. Len(savedList) \subseteq temp .. Len(savedList)
    BY <1>1
  <2> QED BY <2>1, <2>2, <2>3, <2>4 DEF node
<1>10. FreeIndexesAreUnused' /\ NoIndexLost'
  BY <1>1, <1>3, <1>6, <1>7, <1>9
     DEF SpaceInv, FreeIndexesAreUnused, NoIndexLost
<1>11. SavedListIsDisjoint'
  <2>1. Unread' \subseteq Unread /\ temp \in Unread /\ temp \notin Unread'
    BY <1>1, <1>2, <1>8
  <2>2. \A k, l \in Unread : savedList[k].indexOrder = savedList[l].indexOrder
                                => k = l
    BY DEF SpaceInv, SavedListIsDisjoint
  <2>3. \A n \in ListedNodes, k \in Unread :
           n.indexOrder # savedList[k].indexOrder
    BY DEF SpaceInv, SavedListIsDisjoint
  <2>4. \A n \in ListedNodes', k \in Unread' :
           n.indexOrder # savedList'[k].indexOrder
    BY <1>6, <1>8, <2>1, <2>2, <2>3 DEF node
  <2> QED BY <1>8, <2>1, <2>2, <2>4 DEF SavedListIsDisjoint
<1>12. BlocksHaveRoom'
  BY <1>1, <1>7 DEF SpaceInv, BlocksHaveRoom
<1> QED BY <1>5, <1>8, <1>10, <1>11, <1>12 DEF SpaceInv, FreeListWellFormed
=============================================================================
