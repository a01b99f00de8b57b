-------------------------- MODULE ZgdbCrashProofs --------------------------
(***************************************************************************)
(* Whatever moment the server dies at and whatever list the next session   *)
(* restores, an index offered as new has never had a block.                *)
(***************************************************************************)
EXTENDS ZgdbCrash, ZgdbSpaceProofs

-----------------------------------------------------------------------------
(* Lists of known nodes.                                                   *)

LEMMA EmptyIsKnown ==
    ASSUME NEW I, NEW U
    PROVE  <<>> \in KnownNodes(I, U) /\ EmptyList \in KnownLists(I, U)
<1>1. <<>> \in Seq(Node) /\ Len(<<>>) = 0
  OBVIOUS
<1>2. <<>> \in KnownNodes(I, U)
  BY <1>1 DEF KnownNodes
<1> QED
  BY <1>1, <1>2 DEF KnownLists, EmptyList, Sorted

\* insertNode adds a node that is dead, or new and not in the list.
LEMMA InsertNodeIsKnown ==
    ASSUME NEW I, NEW U, NEW s \in KnownNodes(I, U), Sorted(s),
           NEW e \in Node, e.indexOrder \in I,
           e.blockSize = 0 <=> e.indexOrder \notin U,
           e.blockSize = 0 => \A k \in 1 .. Len(s) : s[k] # e
    PROVE  /\ InsertNode(s, e) \in KnownNodes(I, U)
           /\ Sorted(InsertNode(s, e))
           /\ Len(InsertNode(s, e)) = Len(s) + 1
           /\ \A k \in 1 .. Len(s) + 1 :
                 InsertNode(s, e)[k] = e
                 \/ \E j \in 1 .. Len(s) : InsertNode(s, e)[k] = s[j]
<1> DEFINE p == InsertPosition(s, e)
           t == InsertNode(s, e)
<1>1. s \in Seq(Node) /\ Len(s) \in Nat
  BY DEF KnownNodes
<1>2. /\ p \in 1 .. Len(s) + 1
      /\ t \in Seq(Node)
      /\ Len(t) = Len(s) + 1
      /\ Sorted(t)
      /\ \A i \in 1 .. Len(s) + 1 :
            t[i] = IF i < p THEN s[i] ELSE IF i = p THEN e ELSE s[i - 1]
  BY <1>1, InsertNodeProperties
<1> HIDE DEF p, t
<1> DEFINE old(i) == IF i < p THEN i ELSE i - 1
<1>3. \A i \in 1 .. Len(s) + 1 :
         i # p => old(i) \in 1 .. Len(s) /\ t[i] = s[old(i)]
  BY <1>1, <1>2
<1>4. \A i, j \in 1 .. Len(s) + 1 :
         i # p /\ j # p /\ old(i) = old(j) => i = j
  BY <1>1, <1>2
<1>5. t[p] = e
  BY <1>1, <1>2
<1> HIDE DEF old
<1>6. \A k \in 1 .. Len(s) :
         /\ s[k].indexOrder \in I
         /\ s[k].blockSize = 0 <=> s[k].indexOrder \notin U
         /\ s[k].blockSize = 0 => \A m \in 1 .. Len(s) : s[m] = s[k] => m = k
  BY DEF KnownNodes
<1>7. ASSUME NEW k \in 1 .. Len(t)
      PROVE  /\ t[k].indexOrder \in I
             /\ t[k].blockSize = 0 <=> t[k].indexOrder \notin U
             /\ t[k].blockSize = 0 => \A m \in 1 .. Len(t) : t[m] = t[k] => m = k
  <2>1. CASE k = p
    BY <1>2, <1>3, <1>5, <2>1
  <2>2. CASE k # p
    <3>1. old(k) \in 1 .. Len(s) /\ t[k] = s[old(k)]
      BY <1>2, <1>3, <2>2
    <3>2. ASSUME t[k].blockSize = 0, NEW m \in 1 .. Len(t), t[m] = t[k]
          PROVE  m = k
      <4>1. m # p
        BY <1>5, <3>1, <3>2
      <4>2. old(m) \in 1 .. Len(s) /\ t[m] = s[old(m)]
        BY <1>2, <1>3, <4>1
      <4>3. old(m) = old(k)
        BY <1>6, <3>1, <3>2, <4>2
      <4> QED
        BY <1>2, <1>4, <2>2, <4>1, <4>3
    <3> QED
      BY <1>6, <3>1, <3>2
  <2> QED
    BY <2>1, <2>2
<1>8. t \in KnownNodes(I, U)
  BY <1>2, <1>7 DEF KnownNodes
<1>9. \A k \in 1 .. Len(s) + 1 : t[k] = e \/ \E j \in 1 .. Len(s) : t[k] = s[j]
  BY <1>3, <1>5
<1> QED
  BY <1>2, <1>8, <1>9 DEF t

LEMMA InsertDeadIsKnown ==
    ASSUME NEW I \in SUBSET Nat, NEW U \in SUBSET I,
           NEW list \in KnownLists(I, U), NEW i \in U, NEW size \in Nat \ {0}
    PROVE  /\ InsertDeadIndex(list, i, size) \in KnownLists(I, U)
           /\ \A n : Offers(InsertDeadIndex(list, i, size), n) =>
                 Offers(list, n) \/ n.blockSize # 0
<1> DEFINE e == [indexOrder |-> i, blockSize |-> size]
<1>1. /\ list.nodes \in KnownNodes(I, U) /\ Sorted(list.nodes)
      /\ list.indexesCount = Len(list.nodes) /\ list.indexesCount \in Nat
      /\ list.newIndexesCount \in Int
  BY DEF KnownLists
<1>2. e \in Node /\ e.indexOrder = i /\ e.blockSize = size
  BY DEF Node
<1> HIDE DEF e
<1>3. /\ InsertNode(list.nodes, e) \in KnownNodes(I, U)
      /\ Sorted(InsertNode(list.nodes, e))
      /\ Len(InsertNode(list.nodes, e)) = Len(list.nodes) + 1
      /\ \A k \in 1 .. Len(list.nodes) + 1 :
            InsertNode(list.nodes, e)[k] = e
            \/ \E j \in 1 .. Len(list.nodes) :
                  InsertNode(list.nodes, e)[k] = list.nodes[j]
  <2>1. /\ e.indexOrder \in I
        /\ e.blockSize = 0 <=> e.indexOrder \notin U
        /\ e.blockSize = 0 => \A k \in 1 .. Len(list.nodes) : list.nodes[k] # e
    BY <1>2
  <2> QED
    BY ONLY SMTT(30), <1>1, <1>2, <2>1, InsertNodeIsKnown
<1>4. InsertDeadIndex(list, i, size) =
         [nodes |-> InsertNode(list.nodes, e), indexesCount |-> list.indexesCount + 1,
          newIndexesCount |-> list.newIndexesCount]
  BY DEF InsertDeadIndex, e
<1>5. InsertDeadIndex(list, i, size) \in KnownLists(I, U)
  BY <1>1, <1>3, <1>4 DEF KnownLists
<1>6. \A n : Offers(InsertDeadIndex(list, i, size), n) => Offers(list, n) \/ n = e
  BY <1>3, <1>4 DEF Offers
<1> QED
  BY <1>2, <1>5, <1>6

LEMMA InsertNewIsKnown ==
    ASSUME NEW I \in SUBSET Nat, NEW U \in SUBSET I,
           NEW list \in KnownLists(I, U), NEW i \in I \ U,
           ~ Offers(list, [indexOrder |-> i, blockSize |-> 0])
    PROVE  /\ InsertNewIndex(list, i) \in KnownLists(I, U)
           /\ \A n : Offers(InsertNewIndex(list, i), n) =>
                 Offers(list, n) \/ n = [indexOrder |-> i, blockSize |-> 0]
<1> DEFINE e == [indexOrder |-> i, blockSize |-> 0]
<1>1. /\ list.nodes \in KnownNodes(I, U) /\ Sorted(list.nodes)
      /\ list.indexesCount = Len(list.nodes) /\ list.indexesCount \in Nat
      /\ list.newIndexesCount \in Int
  BY DEF KnownLists
<1>2. e \in Node /\ e.indexOrder = i /\ e.blockSize = 0
  BY DEF Node
<1>3. \A k \in 1 .. Len(list.nodes) : list.nodes[k] # e
  BY DEF Offers
<1> HIDE DEF e
<1>4. /\ InsertNode(list.nodes, e) \in KnownNodes(I, U)
      /\ Sorted(InsertNode(list.nodes, e))
      /\ Len(InsertNode(list.nodes, e)) = Len(list.nodes) + 1
      /\ \A k \in 1 .. Len(list.nodes) + 1 :
            InsertNode(list.nodes, e)[k] = e
            \/ \E j \in 1 .. Len(list.nodes) :
                  InsertNode(list.nodes, e)[k] = list.nodes[j]
  BY <1>1, <1>2, <1>3, InsertNodeIsKnown
<1>5. InsertNewIndex(list, i) =
         [nodes |-> InsertNode(list.nodes, e), indexesCount |-> list.indexesCount + 1,
          newIndexesCount |-> list.newIndexesCount + 1]
  BY DEF InsertNewIndex, e
<1>6. InsertNewIndex(list, i) \in KnownLists(I, U)
  BY <1>1, <1>4, <1>5 DEF KnownLists
<1>7. \A n : Offers(InsertNewIndex(list, i), n) => Offers(list, n) \/ n = e
  BY <1>4, <1>5 DEF Offers
<1> QED
  BY <1>6, <1>7 DEF e

\* An expansion lists indexes that were not there before.
LEMMA InsertNewIndexesIsKnown ==
    ASSUME NEW c \in Nat, NEW n \in Nat, NEW U \in SUBSET (0 .. c - 1),
           NEW list \in KnownLists(0 .. c - 1, U)
    PROVE  InsertNewIndexes(list, c, n) \in KnownLists(0 .. c + n - 1, U)
<1> DEFINE s == list.nodes
           new == [i \in 1 .. n |-> [indexOrder |-> c + n - i, blockSize |-> 0]]
           t == new \o s
           res == InsertNewIndexes(list, c, n)
<1>1. /\ s \in Seq(Node) /\ Len(s) \in Nat /\ Sorted(s)
      /\ list.indexesCount = Len(s)
      /\ list.newIndexesCount \in Int
      /\ \A k \in 1 .. Len(s) :
            /\ s[k].indexOrder \in 0 .. c - 1
            /\ s[k].blockSize = 0 <=> s[k].indexOrder \notin U
            /\ s[k].blockSize = 0 => \A m \in 1 .. Len(s) : s[m] = s[k] => m = k
  BY DEF KnownLists, KnownNodes
<1>2. res = [nodes |-> t, indexesCount |-> list.indexesCount + n,
             newIndexesCount |-> list.newIndexesCount + n]
  BY DEF InsertNewIndexes
<1>3. /\ new \in Seq(Node)
      /\ Len(new) = n
      /\ \A i \in 1 .. n : new[i].indexOrder = c + n - i /\ new[i].blockSize = 0
  <2>1. \A i \in 1 .. n : [indexOrder |-> c + n - i, blockSize |-> 0] \in Node
    BY DEF Node
  <2>2. new \in Seq(Node)
    BY <2>1, IsASeq
  <2>3. Len(new) = n
    BY <2>2, LenProperties
  <2> QED
    BY <2>2, <2>3
<1> HIDE DEF res, s, new
<1>4. /\ t \in Seq(Node)
      /\ Len(t) = n + Len(s)
      /\ \A i \in 1 .. n + Len(s) : t[i] = IF i <= n THEN new[i] ELSE s[i - n]
  <2>1. new \in Seq(Node) /\ s \in Seq(Node) /\ Len(new) = n
    BY <1>1, <1>3
  <2> QED
    BY ONLY <2>1, ConcatProperties
<1> HIDE DEF t
<1>5. \A i \in 1 .. n + Len(s) : i > n => i - n \in 1 .. Len(s)
  BY <1>1
<1>6. ASSUME NEW k \in 1 .. Len(t)
      PROVE  /\ t[k].indexOrder \in 0 .. c + n - 1
             /\ t[k].blockSize = 0 <=> t[k].indexOrder \notin U
             /\ t[k].blockSize = 0 => \A m \in 1 .. Len(t) : t[m] = t[k] => m = k
  <2>1. CASE k <= n
    <3>1. k \in 1 .. n /\ t[k] = new[k]
      BY <1>4, <2>1
    <3>2. t[k].indexOrder = c + n - k /\ t[k].blockSize = 0
      BY <1>3, <3>1
    <3>3. t[k].indexOrder \in 0 .. c + n - 1 /\ t[k].indexOrder >= c
      BY <3>1, <3>2
    <3>4. t[k].indexOrder \notin U
      BY <3>3
    <3>5. ASSUME NEW m \in 1 .. Len(t), t[m] = t[k]
          PROVE  m = k
      <4>1. CASE m <= n
        <5>1. m \in 1 .. n /\ t[m].indexOrder = c + n - m
          BY <1>3, <1>4, <4>1
        <5> QED
          BY <3>1, <3>2, <3>5, <5>1
      <4>2. CASE m > n
        <5>1. t[m].indexOrder \in 0 .. c - 1
          BY <1>1, <1>4, <1>5, <4>2
        <5> QED
          BY <3>3, <3>5, <5>1
      <4> QED
        BY <4>1, <4>2
    <3> QED
      BY <3>2, <3>3, <3>4, <3>5
  <2>2. CASE k > n
    <3>1. k - n \in 1 .. Len(s) /\ t[k] = s[k - n]
      BY <1>4, <1>5, <2>2
    <3>2. /\ t[k].indexOrder \in 0 .. c - 1
          /\ t[k].blockSize = 0 <=> t[k].indexOrder \notin U
      BY <1>1, <3>1
    <3>3. ASSUME t[k].blockSize = 0, NEW m \in 1 .. Len(t), t[m] = t[k]
          PROVE  m = k
      <4>1. CASE m <= n
        <5>1. m \in 1 .. n /\ t[m].indexOrder = c + n - m
          BY <1>3, <1>4, <4>1
        <5> QED
          BY <3>2, <3>3, <5>1
      <4>2. CASE m > n
        <5>1. m - n \in 1 .. Len(s) /\ t[m] = s[m - n]
          BY <1>4, <1>5, <4>2
        <5>2. m - n = k - n
          BY <1>1, <3>1, <3>3, <5>1
        <5> QED
          BY <5>2
      <4> QED
        BY <4>1, <4>2
    <3> QED
      BY <3>2, <3>3
  <2> QED
    BY <2>1, <2>2
<1>7. t \in KnownNodes(0 .. c + n - 1, U)
  BY <1>4, <1>6 DEF KnownNodes
<1>8. Sorted(t)
  <2> SUFFICES ASSUME NEW i \in 1 .. Len(t), NEW j \in 1 .. Len(t), i <= j
               PROVE  t[i].blockSize <= t[j].blockSize
    BY DEF Sorted
  <2>1. \A k \in 1 .. Len(t) : t[k].blockSize \in Nat
    <3>1. \A k \in 1 .. Len(t) : t[k] \in Node
      BY <1>4, ElementOfSeq
    <3> QED
      BY <3>1 DEF Node
  <2>2. CASE i <= n
    <3>1. t[i].blockSize = 0
      BY <1>3, <1>4, <2>2
    <3> QED
      BY <2>1, <3>1
  <2>3. CASE i > n
    <3>1. /\ i - n \in 1 .. Len(s) /\ j - n \in 1 .. Len(s)
          /\ t[i] = s[i - n] /\ t[j] = s[j - n] /\ i - n <= j - n
      BY <1>1, <1>4, <2>3
    <3> QED
      BY <1>1, <3>1 DEF Sorted
  <2> QED
    BY <2>2, <2>3
<1> QED
  BY <1>1, <1>2, <1>4, <1>7, <1>8 DEF KnownLists, res

\* findRelevantIndex takes one node out of the list; its index has a block
\* from then on.
LEMMA TakenIsKnown ==
    ASSUME NEW I, NEW U, NEW list \in KnownLists(I, U),
           NEW reqSize \in Nat \ {0}, HasRelevantIndex(list, reqSize)
    PROVE  LET taken == RelevantIndex(list, reqSize) IN
           /\ taken \in Node /\ taken.indexOrder \in I
           /\ WithoutRelevantIndex(list, reqSize)
                 \in KnownLists(I, U \cup {taken.indexOrder})
<1> DEFINE s == list.nodes
           taken == RelevantIndex(list, reqSize)
           res == WithoutRelevantIndex(list, reqSize)
<1>1. /\ s \in Seq(Node) /\ Len(s) \in Nat
      /\ list.indexesCount = Len(s) /\ list.newIndexesCount \in Int
      /\ Sorted(s)
  BY DEF KnownLists, KnownNodes
<1>2. \A k \in 1 .. Len(s) :
         /\ s[k].indexOrder \in I
         /\ s[k].blockSize = 0 <=> s[k].indexOrder \notin U
         /\ s[k].blockSize = 0 => \A m \in 1 .. Len(s) : s[m] = s[k] => m = k
  BY DEF KnownLists, KnownNodes
<1>3. \A k \in 1 .. Len(s) : s[k] \in Node
  BY <1>1, ElementOfSeq
<1>4. s # <<>>
  <2>1. CASE IsSingle(list, 1)
    <3>1. Len(s) = 1
      BY <1>1, <2>1 DEF IsSingle
    <3>2. s = <<>> => Len(s) = 0
      OBVIOUS
    <3> QED
      BY <3>1, <3>2
  <2>2. CASE ~ IsSingle(list, 1)
    BY <2>2 DEF HasRelevantIndex, TakesLast, TakesFirst
  <2> QED
    BY <2>1, <2>2
<1>5. /\ res.indexesCount = Len(s) - 1 /\ res.indexesCount \in Nat
      /\ res.newIndexesCount \in Int
      /\ res = [nodes |-> res.nodes, indexesCount |-> res.indexesCount,
                newIndexesCount |-> res.newIndexesCount]
  <2>1. Len(s) - 1 \in Nat
    BY <1>1, <1>4
  <2>2. CASE TakesLast(list, reqSize)
    BY <1>1, <2>1, <2>2 DEF WithoutRelevantIndex
  <2>3. CASE ~ TakesLast(list, reqSize)
    BY <1>1, <2>1, <2>3 DEF WithoutRelevantIndex
  <2> QED
    BY <2>2, <2>3
<1>6. \E q \in 1 .. Len(s) :
         /\ taken = s[q]
         /\ res.nodes \in Seq(Node) /\ Len(res.nodes) = Len(s) - 1
         /\ \A k \in 1 .. Len(s) - 1 :
               res.nodes[k] = s[IF k < q THEN k ELSE k + 1]
  <2>1. CASE TakesLast(list, reqSize)
    <3>1. taken = s[Len(s)] /\ res.nodes = Front(s)
      BY <2>1 DEF RelevantIndex, WithoutRelevantIndex, Last
    <3>2. /\ Len(s) \in 1 .. Len(s)
          /\ Front(s) \in Seq(Node) /\ Len(Front(s)) = Len(s) - 1
          /\ \A k \in 1 .. Len(s) - 1 : Front(s)[k] = s[k]
      BY <1>1, <1>4, FrontProperties
    <3>3. \A k \in 1 .. Len(s) - 1 : k < Len(s)
      BY <1>1
    <3> QED
      BY <3>1, <3>2, <3>3
  <2>2. CASE ~ TakesLast(list, reqSize)
    <3>1. taken = Head(s) /\ res.nodes = Tail(s)
      BY <2>2 DEF RelevantIndex, WithoutRelevantIndex
    <3>2. /\ 1 \in 1 .. Len(s) /\ Head(s) = s[1]
          /\ Tail(s) \in Seq(Node) /\ Len(Tail(s)) = Len(s) - 1
          /\ \A k \in 1 .. Len(s) - 1 : Tail(s)[k] = s[k + 1] /\ ~ (k < 1)
      BY <1>1, <1>4
    <3> QED
      BY <3>1, <3>2
  <2> QED
    BY <2>1, <2>2
<1>7. PICK q \in 1 .. Len(s) :
         /\ taken = s[q]
         /\ res.nodes \in Seq(Node) /\ Len(res.nodes) = Len(s) - 1
         /\ \A k \in 1 .. Len(s) - 1 :
               res.nodes[k] = s[IF k < q THEN k ELSE k + 1]
  BY <1>6
<1> DEFINE t == res.nodes
           old(k) == IF k < q THEN k ELSE k + 1
<1>8. \A k \in 1 .. Len(t) :
         /\ old(k) \in 1 .. Len(s) /\ old(k) # q
         /\ t[k] = s[old(k)]
  BY <1>1, <1>7
<1>9. \A k, m \in 1 .. Len(t) :
          /\ old(m) = old(k) => m = k
          /\ m <= k => old(m) <= old(k)
  BY <1>1, <1>7
<1> HIDE DEF s, taken, res, t, old
<1>10. ASSUME NEW k \in 1 .. Len(t)
      PROVE  /\ t[k].indexOrder \in I
             /\ t[k].blockSize = 0
                   <=> t[k].indexOrder \notin U \cup {taken.indexOrder}
             /\ t[k].blockSize = 0 => \A m \in 1 .. Len(t) : t[m] = t[k] => m = k
  <2>1. /\ old(k) \in 1 .. Len(s) /\ t[k] = s[old(k)] /\ old(k) # q
        /\ t[k] \in Node /\ taken \in Node
    BY <1>3, <1>7, <1>8
  <2>2. ASSUME t[k].blockSize = 0
        PROVE  t[k].indexOrder # taken.indexOrder
    <3>1. SUFFICES ASSUME t[k].indexOrder = taken.indexOrder
                   PROVE  FALSE
      OBVIOUS
    <3>2. taken.blockSize = 0
      BY <1>2, <1>7, <2>1, <2>2, <3>1
    <3>3. t[k] = taken
      BY <2>1, <2>2, <3>1, <3>2 DEF Node
    <3> QED
      BY <1>2, <1>7, <2>1, <2>2, <3>3
  <2>3. ASSUME t[k].blockSize # 0
        PROVE  t[k].indexOrder \in U
    BY <1>2, <2>1, <2>3
  <2>4. ASSUME t[k].blockSize = 0, NEW m \in 1 .. Len(t), t[m] = t[k]
        PROVE  m = k
    <3>1. old(m) \in 1 .. Len(s) /\ t[m] = s[old(m)]
      BY <1>8
    <3>2. old(m) = old(k)
      BY <1>2, <2>1, <2>4, <3>1
    <3> QED
      BY <1>9, <3>2
  <2> QED
    BY <1>2, <2>1, <2>2, <2>3, <2>4
<1>11. t \in KnownNodes(I, U \cup {taken.indexOrder})
  BY <1>7, <1>10 DEF KnownNodes, t
<1>12. Sorted(t)
  <2> SUFFICES ASSUME NEW i \in 1 .. Len(t), NEW j \in 1 .. Len(t), i <= j
               PROVE  t[i].blockSize <= t[j].blockSize
    BY DEF Sorted
  <2>1. /\ old(i) \in 1 .. Len(s) /\ old(j) \in 1 .. Len(s) /\ old(i) <= old(j)
        /\ t[i] = s[old(i)] /\ t[j] = s[old(j)]
    BY <1>8, <1>9
  <2> QED
    BY <1>1, <2>1 DEF Sorted
<1>13. taken \in Node /\ taken.indexOrder \in I
  BY <1>2, <1>3, <1>7
<1>14. res.indexesCount = Len(t)
  BY <1>5, <1>7 DEF t
<1>15. res \in KnownLists(I, U \cup {taken.indexOrder})
  BY <1>5, <1>11, <1>12, <1>14 DEF KnownLists, t
<1> QED
  BY <1>13, <1>15 DEF taken, res
-----------------------------------------------------------------------------
(* What the indexes, the blocks and the call name.                         *)

LEMMA SeqOfMore ==
    ASSUME NEW S, NEW T, S \subseteq T, NEW s \in Seq(S)
    PROVE  s \in Seq(T)
<1>1. Len(s) \in Nat /\ s \in [1 .. Len(s) -> S]
  BY LenProperties
<1>2. s \in [1 .. Len(s) -> T]
  BY <1>1
<1> QED
  BY <1>1, <1>2, IsASeq

LEMMA UsedIsNat == Indexes \subseteq Nat /\ Used \subseteq Indexes
    BY DEF Indexes, Used

\* An index in use stays so, whatever else its flag becomes.
LEMMA SameUsed ==
    ASSUME TableIsTyped, UNCHANGED indexCount, flag' \in [Indexes -> Flags],
           \A i \in Indexes : flag'[i] = "NEW" <=> flag[i] = "NEW"
    PROVE  Indexes' = Indexes /\ Used' = Used /\ TableIsTyped'
<1>1. Indexes' = Indexes
  BY DEF Indexes
<1>2. Used' = Used
  BY <1>1 DEF Used
<1> QED
  BY <1>1, <1>2 DEF TableIsTyped

LEMMA SameFlags ==
    ASSUME TableIsTyped, UNCHANGED <<indexCount, flag>>
    PROVE  Indexes' = Indexes /\ Used' = Used /\ TableIsTyped'
    BY SameUsed DEF TableIsTyped

\* A header keeps naming indexes in use when one of its links is set.
LEMMA HeaderWithLink ==
    ASSUME NEW U \in SUBSET Nat, NEW h \in BlocksOver(U), NEW i \in U
    PROVE  /\ [h EXCEPT !.indexSon = i] \in BlocksOver(U)
           /\ [h EXCEPT !.indexBrother = i] \in BlocksOver(U)
           /\ [h EXCEPT !.nextToastIndex = i] \in BlocksOver(U)
    BY DEF BlocksOver, Block

LEMMA HeaderFacts ==
    ASSUME NEW U \in SUBSET Nat, NEW h \in BlocksOver(U)
    PROVE  /\ h \in Block /\ h.capacity \in Nat \ {0}
           /\ h.indexSon \in U /\ h.indexBrother \in U
           /\ h.firstToastIndex \in U /\ h.nextToastIndex \in U
    BY DEF BlocksOver, Block

LEMMA NewHeaders ==
    ASSUME NEW U \in SUBSET Nat, 0 \in U, NEW capacity \in Nat \ {0},
           NEW i \in U, NEW j \in U
    PROVE  /\ ToastBlock(capacity) \in BlocksOver(U)
           /\ DocumentBlock(capacity, i, j) \in BlocksOver(U)
    BY DEF ToastBlock, DocumentBlock, NoBlock, BlocksOver, Block, BlockTypes

LEMMA MoreHeaders ==
    ASSUME NEW U, NEW V, U \subseteq V
    PROVE  BlocksOver(U) \subseteq BlocksOver(V)
    BY DEF BlocksOver

\* A step that writes one header.
LEMMA OneHeaderWritten ==
    ASSUME BlocksNameUsed(block), Indexes' = Indexes, Used' = Used,
           NEW i \in Indexes, NEW h \in BlocksOver(Used),
           block' = [block EXCEPT ![i] = h]
    PROVE  BlocksNameUsed(block)'
    BY DEF BlocksNameUsed, BlocksOver

LEMMA BlocksUnchanged ==
    ASSUME BlocksNameUsed(block), Indexes' = Indexes, Used' = Used, UNCHANGED block
    PROVE  BlocksNameUsed(block)'
    BY DEF BlocksNameUsed

\* What a search finds is in use.
LEMMA ReachableIsUsed ==
    ASSUME MemoryInv
    PROVE  Reachable \subseteq Used
<1>1. \A x \in Used : {block[x].indexSon, block[x].indexBrother} \ {0} \subseteq Used
  <2>1. \A x \in Used : block[x] \in BlocksOver(Used)
    BY DEF MemoryInv, BlocksNameUsed
  <2> QED
    BY <2>1, HeaderFacts, UsedIsNat
<1>2. 0 \in Used /\ Used \in SUBSET Indexes
  BY UsedIsNat DEF MemoryInv, TableIsTyped
<1> QED
  BY <1>1, <1>2 DEF Reachable

LEMMA ChildIsUsed ==
    ASSUME MemoryInv, NEW p \in Used
    PROVE  Children(p) \subseteq Used
<1>1. \A x \in Used : block[x].indexSon \in Used /\ block[x].indexBrother \in Used
  <2>1. \A x \in Used : block[x] \in BlocksOver(Used)
    BY DEF MemoryInv, BlocksNameUsed
  <2> QED
    BY <2>1, HeaderFacts, UsedIsNat
<1>2. Used \in SUBSET Indexes
  BY UsedIsNat
<1> QED
  BY <1>1, <1>2 DEF Children, BrothersFrom

\* Outside of finish() and init() only the list in memory counts.
LEMMA ListsInSession ==
    ASSUME ListsAreKnown, UNCHANGED savedList, pc \notin {"closed", "load"},
           pc' \notin {"closed", "load"}, freeList' \in KnownLists(Indexes', Used')
    PROVE  ListsAreKnown' /\ UnreadIsNotListed'
<1>1. savedList' = <<>>
  BY DEF ListsAreKnown
<1>2. savedList' \in KnownNodes(Indexes', Used')
  BY <1>1, EmptyIsKnown
<1> QED
  BY <1>1, <1>2 DEF ListsAreKnown, UnreadIsNotListed

\* findRelevantIndex and attachIndexToBlock.
LEMMA AttachKeeps ==
    ASSUME MemoryInv, NEW reqSize \in Nat \ {0},
           HasRelevantIndex(freeList, reqSize),
           NEW header \in BlocksOver(Used), Attach(reqSize, header),
           UNCHANGED indexCount
    PROVE  LET i == Taken(reqSize).indexOrder IN
           /\ i \in Indexes /\ Indexes' = Indexes /\ Used' = Used \cup {i}
           /\ TableIsTyped' /\ BlocksNameUsed(block)'
           /\ freeList' \in KnownLists(Indexes', Used')
<1> DEFINE i == Taken(reqSize).indexOrder
<1>1. /\ freeList \in KnownLists(Indexes, Used)
      /\ flag \in [Indexes -> Flags]
  BY DEF MemoryInv, ListsAreKnown, TableIsTyped
<1>2. /\ i \in Indexes
      /\ WithoutRelevantIndex(freeList, reqSize)
            \in KnownLists(Indexes, Used \cup {i})
  BY <1>1, TakenIsKnown DEF Taken
<1>3. /\ freeList' = WithoutRelevantIndex(freeList, reqSize)
      /\ flag' = [flag EXCEPT ![i] = "ALIVE"]
      /\ block' = [block EXCEPT ![i] = header]
  BY DEF Attach
<1> HIDE DEF i
<1>4. Indexes' = Indexes
  BY DEF Indexes
<1>5. Used' = Used \cup {i}
  BY <1>1, <1>2, <1>3, <1>4 DEF Used
<1>6. TableIsTyped'
  BY <1>1, <1>2, <1>3, <1>4, <1>5 DEF MemoryInv, TableIsTyped, Flags
<1>7. BlocksNameUsed(block)'
  <2>1. /\ block \in [Indexes -> Block]
        /\ \A j \in Used : block[j] \in BlocksOver(Used)
    BY DEF MemoryInv, BlocksNameUsed
  <2>2. BlocksOver(Used) \subseteq BlocksOver(Used') /\ header \in Block
    BY <1>5, MoreHeaders DEF BlocksOver
  <2>3. block' \in [Indexes -> Block]
    BY <1>2, <1>3, <2>1, <2>2
  <2>4. \A j \in Used' : block'[j] \in BlocksOver(Used')
    BY <1>2, <1>3, <1>5, <2>1, <2>2, UsedIsNat
  <2> QED
    BY <1>4, <2>3, <2>4 DEF BlocksNameUsed
<1> QED
  BY <1>2, <1>3, <1>4, <1>5, <1>6, <1>7 DEF i

\* killIndex and insertDeadIndex.
LEMMA FreeKeeps ==
    ASSUME MemoryInv, NEW i \in Used, NEW size \in Nat \ {0}, Free(i, size),
           UNCHANGED indexCount
    PROVE  /\ Indexes' = Indexes /\ Used' = Used /\ TableIsTyped'
           /\ freeList' \in KnownLists(Indexes', Used')
<1>1. /\ freeList \in KnownLists(Indexes, Used)
      /\ flag \in [Indexes -> Flags] /\ TableIsTyped
  BY DEF MemoryInv, ListsAreKnown, TableIsTyped
<1>2. flag' = [flag EXCEPT ![i] = IF @ = "ALIVE" THEN "DEAD" ELSE @]
  BY DEF Free
<1>3. /\ flag' \in [Indexes -> Flags]
      /\ \A j \in Indexes : flag'[j] = "NEW" <=> flag[j] = "NEW"
  BY <1>1, <1>2, UsedIsNat DEF Flags
<1>4. Indexes' = Indexes /\ Used' = Used /\ TableIsTyped'
  BY <1>1, <1>3, SameUsed
<1>5. freeList' \in KnownLists(Indexes, Used)
  BY <1>1, UsedIsNat, InsertDeadIsKnown DEF Free
<1> QED
  BY <1>4, <1>5
-----------------------------------------------------------------------------
(* The steps of a session.                                                 *)

LEMMA NoCallNamesUsed ==
    ASSUME TableIsTyped', stack' \in Seq(Used'), call' = NoCall,
           pc' \in {"idle", "closed", "load", "aborted", "linkToast"}
    PROVE  CallNamesUsed'
<1>1. NoCall \in Call
  BY DEF NoCall, Call, NoBlock, Block, BlockTypes
<1>2. 0 \in Used'
  BY DEF TableIsTyped
<1> QED
  BY <1>1, <1>2 DEF CallNamesUsed, NoCall

\* The facts of the invariant that most steps need.
LEMMA MemoryFacts ==
    ASSUME MemoryInv
    PROVE  /\ TableIsTyped /\ BlocksNameUsed(block) /\ CallNamesUsed
           /\ ListsAreKnown /\ UnreadIsNotListed
           /\ 0 \in Used /\ Used \subseteq Indexes /\ Used \subseteq Nat
           /\ freeList \in KnownLists(Indexes, Used)
           /\ stack \in Seq(Used) /\ call \in Call
           /\ \A i \in Used :
                 /\ block[i] \in Block /\ block[i].capacity \in Nat \ {0}
                 /\ block[i].indexSon \in Used /\ block[i].indexBrother \in Used
                 /\ block[i].firstToastIndex \in Used
                 /\ block[i].nextToastIndex \in Used
                 /\ block[i] \in BlocksOver(Used)
<1>1. \A i \in Used : block[i] \in BlocksOver(Used)
  BY DEF MemoryInv, BlocksNameUsed
<1>2. Used \subseteq Indexes /\ Used \in SUBSET Nat
  BY UsedIsNat
<1> QED
  BY <1>1, <1>2, HeaderFacts DEF MemoryInv, TableIsTyped, ListsAreKnown, CallNamesUsed

\* A step that leaves the table, the blocks and the lists alone.
LEMMA OnlyCallChanges ==
    ASSUME MemoryInv, UNCHANGED <<indexCount, flag, block, freeList, savedList>>,
           pc \notin {"closed", "load"}, pc' \notin {"closed", "load"},
           Indexes' = Indexes /\ Used' = Used => CallNamesUsed'
    PROVE  MemoryInv'
<1>1. Indexes' = Indexes /\ Used' = Used /\ TableIsTyped'
  BY SameFlags DEF MemoryInv
<1>2. BlocksNameUsed(block)'
  BY <1>1, BlocksUnchanged DEF MemoryInv
<1>3. ListsAreKnown' /\ UnreadIsNotListed'
  <2>1. freeList' \in KnownLists(Indexes', Used')
    BY <1>1, MemoryFacts
  <2> QED
    BY <2>1, ListsInSession, MemoryFacts
<1> QED
  BY <1>1, <1>2, <1>3 DEF MemoryInv

LEMMA StartCreateKeeps ==
    ASSUME MemoryInv, NEW p \in Reachable, NEW docSize \in DocumentSizes,
           NEW toastSize \in ToastSizes \cup {0}, StartCreate(p, docSize, toastSize)
    PROVE  MemoryInv'
<1>1. p \in Used /\ block[p] \in BlocksOver(Used) /\ block[p] \in Block
  BY ReachableIsUsed, MemoryFacts
<1>2. docSize \in Nat \ {0} /\ toastSize \in Nat
  BY ConstantsAssumption
<1>3. /\ pc = "idle"
      /\ pc' \in {"expand", "toast", "document"}
      /\ pc' = "toast" => toastSize # 0
      /\ call' = [NoCall EXCEPT !.parent = p, !.header = block[p],
                                !.docSize = docSize, !.toastSize = toastSize]
      /\ UNCHANGED <<indexCount, flag, block, freeList, savedList, stack>>
  BY DEF StartCreate, Goto, AllocationStep, file
<1>4. call' = [parent |-> p, target |-> 0, header |-> block[p], docSize |-> docSize,
               toastSize |-> toastSize, toastIndex |-> 0, temp |-> 0, tail |-> 0,
               prev |-> 0]
  BY <1>3 DEF NoCall
<1>5. call' \in Call
  BY <1>1, <1>2, <1>4, MemoryFacts DEF Call
<1>6. Used' = Used => CallNamesUsed'
  <2>1. /\ call'.header \in BlocksOver(Used) /\ call'.docSize # 0
        /\ pc' = "toast" => call'.toastSize # 0
        /\ {call'.parent, call'.target, call'.toastIndex, call'.temp,
            call'.tail, call'.prev} \subseteq Used
    <3>1. /\ call'.header = block[p] /\ call'.docSize = docSize
          /\ call'.toastSize = toastSize /\ call'.parent = p
          /\ call'.target = 0 /\ call'.toastIndex = 0 /\ call'.temp = 0
          /\ call'.tail = 0 /\ call'.prev = 0
      BY <1>4
    <3>2. 0 \in Used
      BY MemoryFacts
    <3> QED
      BY ONLY <1>1, <1>2, <1>3, <3>1, <3>2
  <2>2. stack' \in Seq(Used)
    BY <1>3, MemoryFacts
  <2> QED
    BY ONLY <1>3, <1>5, <2>1, <2>2 DEF CallNamesUsed
<1> QED
  BY <1>3, <1>6, OnlyCallChanges

LEMMA StartDeleteKeeps ==
    ASSUME MemoryInv, NEW p \in Reachable, NEW d \in Children(p), StartDelete(p, d)
    PROVE  MemoryInv'
<1>1. /\ p \in Used /\ d \in Used
      /\ block[d] \in BlocksOver(Used) /\ block[d] \in Block
      /\ block[p].indexSon \in Used
  BY ReachableIsUsed, ChildIsUsed, MemoryFacts
<1>2. /\ pc = "idle" /\ pc' \in {"unlink", "walk"}
      /\ call' = [parent |-> p, target |-> d, header |-> block[d], docSize |-> 0,
                  toastSize |-> 0, toastIndex |-> 0, temp |-> block[p].indexSon,
                  tail |-> p, prev |-> 0]
      /\ UNCHANGED <<indexCount, flag, block, freeList, savedList, stack>>
  BY DEF StartDelete, Goto, file, NoCall
<1>3. call' \in Call
  BY <1>1, <1>2, MemoryFacts DEF Call
<1>4. Used' = Used => CallNamesUsed'
  BY <1>1, <1>2, <1>3, MemoryFacts DEF CallNamesUsed
<1> QED
  BY <1>2, <1>4, OnlyCallChanges

LEMMA WalkSiblingsKeeps ==
    ASSUME MemoryInv, WalkSiblings
    PROVE  MemoryInv'
<1>1. pc = "walk" /\ call.temp \in Used /\ block[call.temp].indexBrother \in Used
  BY MemoryFacts DEF WalkSiblings, CallNamesUsed
<1>2. /\ pc' \in {"unlink", "walk"}
      /\ call' = [call EXCEPT !.prev = call.tail, !.tail = call.temp,
                              !.temp = block[call.temp].indexBrother]
      /\ UNCHANGED <<indexCount, flag, block, freeList, savedList, stack>>
  BY DEF WalkSiblings, Goto, file
<1>3. call' \in Call
  BY <1>1, <1>2, MemoryFacts DEF Call
<1>4. Used' = Used => CallNamesUsed'
  BY <1>1, <1>2, <1>3, MemoryFacts DEF CallNamesUsed, Call
<1> QED
  BY <1>1, <1>2, <1>4, OnlyCallChanges

LEMMA GrowTextAbortsKeeps ==
    ASSUME MemoryInv, NEW d \in Reachable, NEW extra, GrowTextAborts(d, extra)
    PROVE  MemoryInv'
<1>1. d \in Used
  BY ReachableIsUsed
<1>2. /\ pc = "idle" /\ pc' = "aborted"
      /\ call' = [parent |-> 0, target |-> d, header |-> NoBlock, docSize |-> 0,
                  toastSize |-> 0, toastIndex |-> 0, temp |-> 0, tail |-> 0,
                  prev |-> 0]
      /\ UNCHANGED <<indexCount, flag, block, freeList, savedList, stack>>
  BY DEF GrowTextAborts, Goto, file, NoCall
<1>3. call' \in Call
  BY <1>1, <1>2, MemoryFacts DEF Call, NoBlock, Block, BlockTypes
<1>4. Used' = Used => CallNamesUsed'
  BY <1>1, <1>2, <1>3, MemoryFacts DEF CallNamesUsed
<1> QED
  BY <1>2, <1>4, OnlyCallChanges

LEMMA ExpandIndexesKeeps ==
    ASSUME MemoryInv, NEW n \in ExpandCounts, ExpandIndexes(n)
    PROVE  MemoryInv'
<1>1. /\ indexCount \in Nat /\ n \in Nat
      /\ flag \in [Indexes -> Flags] /\ block \in [Indexes -> Block]
  BY ConstantsAssumption, MemoryFacts DEF TableIsTyped, BlocksNameUsed
<1>2. /\ indexCount' = indexCount + n
      /\ flag' = [i \in 0 .. indexCount + n - 1 |->
                     IF i < indexCount THEN flag[i] ELSE "NEW"]
      /\ block' = [i \in 0 .. indexCount + n - 1 |->
                     IF i < indexCount THEN block[i] ELSE NoBlock]
      /\ freeList' = InsertNewIndexes(freeList, indexCount, n)
      /\ pc = "expand" /\ pc' \in {"toast", "document"}
      /\ pc' = "toast" => call.toastSize # 0
      /\ call' = call /\ stack' = stack /\ savedList' = savedList
  BY DEF ExpandIndexes, ExpandedCount, Goto, AllocationStep
<1>3. Indexes' = 0 .. indexCount + n - 1 /\ Indexes = 0 .. indexCount - 1
  <2>1. Indexes' = 0 .. indexCount' - 1
    BY DEF Indexes
  <2>2. indexCount' = indexCount + n
    BY <1>2
  <2> QED
    BY <1>1, <2>1, <2>2 DEF Indexes
<1>4. \A i \in Indexes : i \in Indexes' /\ i < indexCount
  BY <1>1, <1>3
<1>5. \A i \in Indexes' : i < indexCount => i \in Indexes
  BY <1>1, <1>3
<1>6. Used' = Used
  BY <1>2, <1>3, <1>4, <1>5 DEF Used
<1>7. NoBlock \in Block
  BY DEF NoBlock, Block, BlockTypes
<1>8. TableIsTyped'
  <2>1. flag' \in [Indexes' -> Flags]
    BY <1>1, <1>2, <1>3, <1>5 DEF Flags
  <2> QED
    BY <1>1, <1>2, <1>6, <2>1, MemoryFacts DEF TableIsTyped
<1>9. BlocksNameUsed(block)'
  <2>1. block' \in [Indexes' -> Block]
    BY <1>1, <1>2, <1>3, <1>5, <1>7
  <2>2. \A i \in Used : block'[i] = block[i]
    BY <1>2, <1>3, <1>4, MemoryFacts
  <2> QED
    BY <1>6, <2>1, <2>2, MemoryFacts DEF BlocksNameUsed
<1>10. freeList' \in KnownLists(Indexes', Used')
  BY <1>1, <1>2, <1>3, <1>6, InsertNewIndexesIsKnown, MemoryFacts
<1>11. ListsAreKnown' /\ UnreadIsNotListed'
  BY <1>2, <1>10, ListsInSession, MemoryFacts
<1>12. CallNamesUsed'
  BY <1>2, <1>6, MemoryFacts DEF CallNamesUsed
<1> QED
  BY <1>8, <1>9, <1>11, <1>12 DEF MemoryInv

LEMMA CapacityIsPositive ==
    ASSUME MemoryInv, NEW reqSize \in Nat \ {0}, NEW newCapacity \in Nat \ {0},
           HasRelevantIndex(freeList, reqSize)
    PROVE  CapacityFor(reqSize, newCapacity) \in Nat \ {0}
<1>1. Taken(reqSize) \in Node
  BY MemoryFacts, TakenIsKnown DEF Taken
<1> QED
  BY <1>1 DEF CapacityFor, Node

\* A step that attaches a header and goes on with a call.
LEMMA AttachStep ==
    ASSUME MemoryInv, NEW reqSize \in Nat \ {0},
           HasRelevantIndex(freeList, reqSize),
           NEW header \in BlocksOver(Used), Attach(reqSize, header),
           UNCHANGED <<indexCount, savedList, stack>>,
           pc \notin {"closed", "load"}, pc' \notin {"closed", "load"}
    PROVE  /\ Used \subseteq Used' /\ Taken(reqSize).indexOrder \in Used'
           /\ Used' \subseteq Nat /\ stack' \in Seq(Used')
           /\ BlocksOver(Used) \subseteq BlocksOver(Used')
           /\ CallNamesUsed' => MemoryInv'
<1>1. /\ Taken(reqSize).indexOrder \in Indexes /\ Indexes' = Indexes
      /\ Used' = Used \cup {Taken(reqSize).indexOrder}
      /\ TableIsTyped' /\ BlocksNameUsed(block)'
      /\ freeList' \in KnownLists(Indexes', Used')
  BY AttachKeeps
<1>2. ListsAreKnown' /\ UnreadIsNotListed'
  BY <1>1, ListsInSession, MemoryFacts
<1>3. Used \subseteq Used' /\ Taken(reqSize).indexOrder \in Used' /\ Used' \subseteq Nat
  BY <1>1, UsedIsNat
<1>4. stack' \in Seq(Used')
  BY <1>3, MemoryFacts, SeqOfMore
<1>5. BlocksOver(Used) \subseteq BlocksOver(Used')
  BY <1>3, MoreHeaders
<1> QED
  BY <1>1, <1>2, <1>3, <1>4, <1>5 DEF MemoryInv

LEMMA CreateToastKeeps ==
    ASSUME MemoryInv, CreateToast
    PROVE  MemoryInv'
<1> DEFINE size == call.toastSize
           capacity == CapacityFor(size, size + TOAST_HEADER)
           i == Taken(size).indexOrder
<1>1. /\ pc = "toast" /\ HasRelevantIndex(freeList, size)
      /\ Attach(size, ToastBlock(capacity))
      /\ pc' = "document" /\ call' = [call EXCEPT !.toastIndex = i]
      /\ UNCHANGED <<indexCount, savedList, stack>>
  BY DEF CreateToast, Goto
<1>2. size \in Nat \ {0} /\ size + TOAST_HEADER \in Nat \ {0}
  BY <1>1, ConstantsAssumption, MemoryFacts DEF CallNamesUsed, Call
<1>3. capacity \in Nat \ {0}
  BY <1>1, <1>2, CapacityIsPositive
<1> HIDE DEF capacity, size, i
<1>4. ToastBlock(capacity) \in BlocksOver(Used)
  BY <1>3, NewHeaders, MemoryFacts
<1>5. /\ Used \subseteq Used' /\ i \in Used' /\ Used' \subseteq Nat
      /\ stack' \in Seq(Used') /\ BlocksOver(Used) \subseteq BlocksOver(Used')
      /\ CallNamesUsed' => MemoryInv'
  <2>1. size \in Nat \ {0} /\ pc' \notin {"closed", "load"} /\ pc \notin {"closed", "load"}
    BY <1>1, <1>2
  <2> QED
    BY <1>1, <1>4, <2>1, AttachStep DEF i
<1>6. CallNamesUsed'
  <2>1. call' \in Call
    BY <1>1, <1>5, MemoryFacts DEF Call
  <2>2. /\ call'.header = call.header /\ call'.docSize = call.docSize
        /\ call'.parent = call.parent /\ call'.target = call.target
        /\ call'.toastIndex = i /\ call'.temp = call.temp
        /\ call'.tail = call.tail /\ call'.prev = call.prev
    BY <1>1, MemoryFacts DEF Call
  <2>3. /\ call.header \in BlocksOver(Used) /\ call.docSize # 0
        /\ {call.parent, call.target, call.temp, call.tail, call.prev} \subseteq Used
    BY <1>1, MemoryFacts DEF CallNamesUsed
  <2> QED
    BY ONLY <1>1, <1>5, <2>1, <2>2, <2>3 DEF CallNamesUsed
<1> QED
  BY <1>5, <1>6

LEMMA CreateDocumentKeeps ==
    ASSUME MemoryInv, CreateDocument
    PROVE  MemoryInv'
<1> DEFINE size == call.docSize
           capacity == CapacityFor(size, size)
           header == DocumentBlock(capacity, call.header.indexSon, call.toastIndex)
           i == Taken(size).indexOrder
<1>1. /\ pc = "document" /\ HasRelevantIndex(freeList, size)
      /\ Attach(size, header)
      /\ pc' = "linkSon" /\ call' = [call EXCEPT !.target = i]
      /\ UNCHANGED <<indexCount, savedList, stack>>
  BY DEF CreateDocument, Goto
<1>2. /\ size \in Nat \ {0} /\ call.header \in BlocksOver(Used)
      /\ {call.parent, call.toastIndex, call.temp, call.tail, call.prev}
            \subseteq Used
  BY <1>1, MemoryFacts DEF CallNamesUsed, Call
<1>3. capacity \in Nat \ {0} /\ call.header.indexSon \in Used
  BY <1>1, <1>2, CapacityIsPositive, HeaderFacts, MemoryFacts
<1> HIDE DEF capacity, size, i
<1>4. header \in BlocksOver(Used)
  BY <1>2, <1>3, NewHeaders, MemoryFacts
<1> HIDE DEF header
<1>5. /\ Used \subseteq Used' /\ i \in Used' /\ Used' \subseteq Nat
      /\ stack' \in Seq(Used') /\ BlocksOver(Used) \subseteq BlocksOver(Used')
      /\ CallNamesUsed' => MemoryInv'
  <2>1. size \in Nat \ {0} /\ pc' \notin {"closed", "load"} /\ pc \notin {"closed", "load"}
    BY <1>1, <1>2
  <2> QED
    BY <1>1, <1>4, <2>1, AttachStep DEF i
<1>6. CallNamesUsed'
  <2>1. call' \in Call
    BY <1>1, <1>5, MemoryFacts DEF Call
  <2>2. /\ call'.header = call.header
        /\ call'.parent = call.parent /\ call'.target = i
        /\ call'.toastIndex = call.toastIndex /\ call'.temp = call.temp
        /\ call'.tail = call.tail /\ call'.prev = call.prev
    BY <1>1, MemoryFacts DEF Call
  <2> QED
    BY ONLY <1>1, <1>2, <1>5, <2>1, <2>2 DEF CallNamesUsed
<1> QED
  BY <1>5, <1>6

LEMMA GrowTextKeeps ==
    ASSUME MemoryInv, NEW d \in Reachable, NEW extra \in GrowSizes, GrowText(d, extra)
    PROVE  MemoryInv'
<1> DEFINE size == GrowSize(d, extra)
           capacity == CapacityFor(size, size)
           i == Taken(size).indexOrder
<1>1. /\ pc = "idle" /\ HasRelevantIndex(freeList, size)
      /\ Attach(size, ToastBlock(capacity)) /\ pc' = "linkToast"
      /\ call' = [parent |-> 0, target |-> block[d].firstToastIndex,
                  header |-> NoBlock, docSize |-> 0, toastSize |-> 0,
                  toastIndex |-> i, temp |-> 0, tail |-> 0, prev |-> 0]
      /\ UNCHANGED <<indexCount, savedList, stack>>
  BY DEF GrowText, Goto, NoCall
<1>2. block[d].firstToastIndex \in Used
  BY ReachableIsUsed, MemoryFacts
<1>3. size \in Nat \ {0}
  <2>1. block[block[d].firstToastIndex].capacity \in Nat \ {0} /\ extra \in Nat
    BY <1>2, ConstantsAssumption, MemoryFacts
  <2> QED
    BY <2>1 DEF GrowSize
<1>4. capacity \in Nat \ {0}
  BY <1>1, <1>3, CapacityIsPositive
<1> HIDE DEF capacity, size, i
<1>5. ToastBlock(capacity) \in BlocksOver(Used)
  BY <1>4, NewHeaders, MemoryFacts
<1>6. /\ Used \subseteq Used' /\ i \in Used' /\ Used' \subseteq Nat
      /\ stack' \in Seq(Used') /\ BlocksOver(Used) \subseteq BlocksOver(Used')
      /\ CallNamesUsed' => MemoryInv'
  <2>1. size \in Nat \ {0} /\ pc' \notin {"closed", "load"} /\ pc \notin {"closed", "load"}
    BY <1>1, <1>3
  <2> QED
    BY <1>1, <1>5, <2>1, AttachStep DEF i
<1>7. CallNamesUsed'
  <2>1. 0 \in Used' /\ block[d].firstToastIndex \in Used'
    BY <1>2, <1>6, MemoryFacts
  <2>2. call' \in Call
    BY <1>1, <1>6, <2>1 DEF Call, NoBlock, Block, BlockTypes
  <2> QED
    BY ONLY <1>1, <1>6, <2>1, <2>2 DEF CallNamesUsed
<1> QED
  BY <1>6, <1>7

\* A step that writes a header of an index in use.
LEMMA LinkStep ==
    ASSUME MemoryInv, NEW i \in Used, NEW h \in BlocksOver(Used),
           block' = [block EXCEPT ![i] = h],
           UNCHANGED <<indexCount, flag, savedList, freeList, stack>>,
           pc \notin {"closed", "load"}, pc' \notin {"closed", "load"}
    PROVE  /\ Used' = Used /\ TableIsTyped' /\ stack' \in Seq(Used')
           /\ CallNamesUsed' => MemoryInv'
<1>1. Indexes' = Indexes /\ Used' = Used /\ TableIsTyped'
  BY SameFlags, MemoryFacts
<1>2. BlocksNameUsed(block)'
  <2>1. i \in Indexes
    BY MemoryFacts
  <2> QED
    BY <1>1, <2>1, OneHeaderWritten, MemoryFacts
<1>3. ListsAreKnown' /\ UnreadIsNotListed'
  <2>1. freeList' \in KnownLists(Indexes', Used')
    BY <1>1, MemoryFacts
  <2> QED
    BY <2>1, ListsInSession, MemoryFacts
<1>4. stack' \in Seq(Used')
  BY <1>1, MemoryFacts
<1> QED
  BY <1>1, <1>2, <1>3, <1>4 DEF MemoryInv

LEMMA LinkSonKeeps ==
    ASSUME MemoryInv, LinkSon
    PROVE  MemoryInv'
<1>1. /\ pc = "linkSon" /\ pc' = "idle" /\ call' = NoCall
      /\ block' = [block EXCEPT ![call.parent] =
                      [call.header EXCEPT !.indexSon = call.target]]
      /\ UNCHANGED <<indexCount, flag, savedList, freeList, stack>>
  BY DEF LinkSon, Goto
<1>2. /\ call.parent \in Used /\ call.target \in Used
      /\ call.header \in BlocksOver(Used) /\ Used \in SUBSET Nat
  BY <1>1, MemoryFacts DEF CallNamesUsed
<1>3. [call.header EXCEPT !.indexSon = call.target] \in BlocksOver(Used)
  BY <1>2, HeaderWithLink
<1>4. TableIsTyped' /\ stack' \in Seq(Used') /\ (CallNamesUsed' => MemoryInv')
  BY <1>1, <1>2, <1>3, LinkStep
<1> QED
  BY <1>1, <1>4, NoCallNamesUsed

LEMMA UnlinkKeeps ==
    ASSUME MemoryInv, Unlink
    PROVE  MemoryInv'
<1> DEFINE brother == block[call.tail].indexBrother
<1>1. /\ pc = "unlink" /\ pc' = "del" /\ call' = call
      /\ block' = IF IsFirstSon
                  THEN [block EXCEPT ![call.parent].indexSon = brother]
                  ELSE [block EXCEPT ![call.prev].indexBrother = brother]
      /\ UNCHANGED <<indexCount, flag, savedList, freeList, stack>>
  BY DEF Unlink, Goto
<1>2. /\ {call.parent, call.target, call.toastIndex, call.temp, call.tail,
          call.prev} \subseteq Used
      /\ call.header \in BlocksOver(Used) /\ Used \in SUBSET Nat
  BY <1>1, MemoryFacts DEF CallNamesUsed
<1>3. /\ brother \in Used
      /\ block[call.parent] \in BlocksOver(Used)
      /\ block[call.prev] \in BlocksOver(Used)
  BY <1>2, MemoryFacts
<1> HIDE DEF brother
<1>4. \E i \in Used, h \in BlocksOver(Used) : block' = [block EXCEPT ![i] = h]
  <2>1. CASE IsFirstSon
    <3>1. block' = [block EXCEPT ![call.parent] =
                      [block[call.parent] EXCEPT !.indexSon = brother]]
      BY <1>1, <2>1
    <3>2. [block[call.parent] EXCEPT !.indexSon = brother] \in BlocksOver(Used)
      BY <1>2, <1>3, HeaderWithLink
    <3> QED
      BY <1>2, <3>1, <3>2
  <2>2. CASE ~ IsFirstSon
    <3>1. block' = [block EXCEPT ![call.prev] =
                      [block[call.prev] EXCEPT !.indexBrother = brother]]
      BY <1>1, <2>2
    <3>2. [block[call.prev] EXCEPT !.indexBrother = brother] \in BlocksOver(Used)
      BY <1>2, <1>3, HeaderWithLink
    <3> QED
      BY <1>2, <3>1, <3>2
  <2> QED
    BY <2>1, <2>2
<1>5. Used' = Used /\ stack' \in Seq(Used') /\ (CallNamesUsed' => MemoryInv')
  <2>1. pc \notin {"closed", "load"} /\ pc' \notin {"closed", "load"}
    BY <1>1
  <2>2. PICK i \in Used, h \in BlocksOver(Used) : block' = [block EXCEPT ![i] = h]
    BY <1>4
  <2> QED
    BY <1>1, <2>1, <2>2, LinkStep
<1>6. CallNamesUsed'
  BY <1>1, <1>2, <1>5, MemoryFacts DEF CallNamesUsed
<1> QED
  BY <1>5, <1>6

LEMMA LinkToastKeeps ==
    ASSUME MemoryInv, LinkToast
    PROVE  MemoryInv'
<1>1. /\ pc = "linkToast" /\ pc' = "idle" /\ call' = NoCall
      /\ block' = [block EXCEPT ![call.target] =
                      [block[call.target] EXCEPT !.nextToastIndex = call.toastIndex]]
      /\ UNCHANGED <<indexCount, flag, savedList, freeList, stack>>
  BY DEF LinkToast, Goto
<1>2. call.toastIndex \in Used /\ call.target \in Used /\ Used \in SUBSET Nat
  BY <1>1, MemoryFacts DEF CallNamesUsed
<1>3. [block[call.target] EXCEPT !.nextToastIndex = call.toastIndex] \in BlocksOver(Used)
  BY <1>2, HeaderWithLink, MemoryFacts
<1>4. TableIsTyped' /\ stack' \in Seq(Used') /\ (CallNamesUsed' => MemoryInv')
  BY <1>1, <1>2, <1>3, LinkStep
<1> QED
  BY <1>1, <1>4, NoCallNamesUsed

\* A step that frees an index.
LEMMA FreeStep ==
    ASSUME MemoryInv, NEW i \in Used, NEW size \in Nat \ {0}, Free(i, size),
           UNCHANGED <<indexCount, block, savedList>>,
           pc \notin {"closed", "load"}, pc' \notin {"closed", "load"}
    PROVE  Used' = Used /\ TableIsTyped' /\ (CallNamesUsed' => MemoryInv')
<1>1. /\ Indexes' = Indexes /\ Used' = Used /\ TableIsTyped'
      /\ freeList' \in KnownLists(Indexes', Used')
  BY FreeKeeps
<1>2. BlocksNameUsed(block)'
  BY <1>1, BlocksUnchanged, MemoryFacts
<1>3. ListsAreKnown' /\ UnreadIsNotListed'
  BY <1>1, ListsInSession, MemoryFacts
<1> QED
  BY <1>1, <1>2, <1>3 DEF MemoryInv

LEMMA AfterSubtreeNamesUsed ==
    ASSUME MemoryInv, pc \in {"del", "subtree"}, AfterSubtree(call),
           Used' = Used, TableIsTyped', stack' \in Seq(Used)
    PROVE  CallNamesUsed'
<1>1. /\ {call.parent, call.target, call.toastIndex, call.temp, call.tail,
          call.prev} \subseteq Used
      /\ call.header \in BlocksOver(Used) /\ Used \in SUBSET Nat
  BY MemoryFacts DEF CallNamesUsed
<1>2. call.header.firstToastIndex \in Used
  BY <1>1, HeaderFacts
<1>3. CASE call.header.firstToastIndex = 0
  <2>1. pc' = "idle" /\ call' = NoCall
    BY <1>3 DEF AfterSubtree, Goto
  <2> QED
    BY <2>1, NoCallNamesUsed
<1>4. CASE call.header.firstToastIndex # 0
  <2>1. pc' = "toasts" /\ call' = [call EXCEPT !.temp = call.header.firstToastIndex]
    BY <1>4 DEF AfterSubtree, Goto
  <2>2. call' \in Call
    BY <1>1, <1>2, <2>1, MemoryFacts DEF Call
  <2>3. /\ call'.header = call.header /\ call'.parent = call.parent
        /\ call'.target = call.target /\ call'.toastIndex = call.toastIndex
        /\ call'.temp = call.header.firstToastIndex
        /\ call'.tail = call.tail /\ call'.prev = call.prev
    BY <2>1, MemoryFacts DEF Call
  <2> QED
    BY <1>1, <1>2, <2>1, <2>2, <2>3 DEF CallNamesUsed
<1> QED
  BY <1>3, <1>4

LEMMA DeleteTargetKeeps ==
    ASSUME MemoryInv, DeleteTarget
    PROVE  MemoryInv'
<1>1. /\ pc = "del" /\ pc' \in {"subtree", "toasts", "idle"}
      /\ UNCHANGED <<indexCount, block, savedList, stack>>
  BY DEF DeleteTarget, AfterTarget, AfterSubtree, Goto
<1>2. /\ {call.parent, call.target, call.toastIndex, call.temp, call.tail,
          call.prev} \subseteq Used
      /\ call.header \in BlocksOver(Used) /\ Used \in SUBSET Nat
      /\ call.header.capacity \in Nat \ {0} /\ call.header.indexSon \in Used
  BY <1>1, HeaderFacts, MemoryFacts DEF CallNamesUsed
<1>3. Used' = Used /\ TableIsTyped' /\ (CallNamesUsed' => MemoryInv')
  <2>1. CASE call.target # 0
    <3>1. Free(call.target, call.header.capacity)
      BY <2>1 DEF DeleteTarget
    <3>2. pc \notin {"closed", "load"} /\ pc' \notin {"closed", "load"}
      BY <1>1
    <3> QED
      BY <1>1, <1>2, <3>1, <3>2, FreeStep
  <2>2. CASE call.target = 0
    <3>1. UNCHANGED <<flag, freeList>>
      BY <2>2 DEF DeleteTarget
    <3>2. pc \notin {"closed", "load"} /\ pc' \notin {"closed", "load"}
      BY <1>1
    <3>3. Used' = Used /\ TableIsTyped'
      BY <1>1, <3>1, SameFlags, MemoryFacts
    <3> QED
      BY <1>1, <3>1, <3>2, <3>3, OnlyCallChanges
  <2> QED
    BY <2>1, <2>2
<1>4. CallNamesUsed'
  <2>1. stack' \in Seq(Used)
    BY <1>1, MemoryFacts
  <2>2. CASE call.header.indexSon # 0
    <3>1. pc' = "subtree" /\ call' = [call EXCEPT !.temp = call.header.indexSon]
      BY <2>2 DEF DeleteTarget, AfterTarget, Goto
    <3>2. call' \in Call
      BY <1>2, <3>1, MemoryFacts DEF Call
    <3>3. /\ call'.header = call.header /\ call'.parent = call.parent
          /\ call'.target = call.target /\ call'.toastIndex = call.toastIndex
          /\ call'.temp = call.header.indexSon
          /\ call'.tail = call.tail /\ call'.prev = call.prev
      BY <3>1, MemoryFacts DEF Call
    <3> QED
      BY <1>2, <1>3, <2>1, <3>1, <3>2, <3>3 DEF CallNamesUsed
  <2>3. CASE call.header.indexSon = 0
    <3>1. AfterSubtree(call)
      BY <2>3 DEF DeleteTarget, AfterTarget
    <3> QED
      BY <1>1, <1>3, <2>1, <3>1, AfterSubtreeNamesUsed
  <2> QED
    BY <2>2, <2>3
<1> QED
  BY <1>3, <1>4

LEMMA DeleteDescendantKeeps ==
    ASSUME MemoryInv, DeleteDescendant
    PROVE  MemoryInv'
<1> DEFINE h == block[call.temp]
           next == NextDoc(h)
<1>1. /\ pc = "subtree" /\ Free(call.temp, h.capacity)
      /\ stack' = NextStack(h)
      /\ IF next # 0
         THEN Goto("subtree", [call EXCEPT !.temp = next])
         ELSE AfterSubtree(call)
      /\ UNCHANGED <<indexCount, block, savedList>>
  BY DEF DeleteDescendant
<1>2. /\ {call.parent, call.target, call.toastIndex, call.temp, call.tail,
          call.prev} \subseteq Used
      /\ call.header \in BlocksOver(Used) /\ Used \in SUBSET Nat
  BY <1>1, MemoryFacts DEF CallNamesUsed
<1>3. /\ h.capacity \in Nat \ {0} /\ h.indexSon \in Used
      /\ h.indexBrother \in Used
  BY <1>2, MemoryFacts
<1>4. stack # <<>> => Last(stack) \in Used /\ Front(stack) \in Seq(Used)
  <2>1. SUFFICES ASSUME stack # <<>>
                 PROVE  Last(stack) \in Used /\ Front(stack) \in Seq(Used)
    OBVIOUS
  <2>2. stack \in Seq(Used) /\ Len(stack) \in 1 .. Len(stack)
    BY <2>1, MemoryFacts
  <2>3. Last(stack) \in Used
    BY <2>2, ElementOfSeq DEF Last
  <2> QED
    BY <2>1, <2>2, <2>3, FrontProperties
<1> HIDE DEF h
<1>5. stack' \in Seq(Used)
  BY <1>1, <1>3, <1>4, MemoryFacts DEF NextStack
<1>6. next \in Used
  BY <1>3, <1>4, MemoryFacts DEF NextDoc
<1> HIDE DEF next
<1>7. Used' = Used /\ TableIsTyped' /\ (CallNamesUsed' => MemoryInv')
  <2>1. pc \notin {"closed", "load"} /\ pc' \notin {"closed", "load"}
    BY <1>1 DEF AfterSubtree, Goto
  <2> QED
    BY <1>1, <1>2, <1>3, <2>1, FreeStep
<1>8. CallNamesUsed'
  <2>1. CASE next # 0
    <3>1. pc' = "subtree" /\ call' = [call EXCEPT !.temp = next]
      BY <1>1, <2>1 DEF Goto
    <3>2. call' \in Call
      BY <1>2, <1>6, <3>1, MemoryFacts DEF Call
    <3>3. /\ call'.header = call.header /\ call'.parent = call.parent
          /\ call'.target = call.target /\ call'.toastIndex = call.toastIndex
          /\ call'.temp = next
          /\ call'.tail = call.tail /\ call'.prev = call.prev
      BY <3>1, MemoryFacts DEF Call
    <3> QED
      BY <1>2, <1>5, <1>6, <1>7, <3>1, <3>2, <3>3 DEF CallNamesUsed
  <2>2. CASE next = 0
    BY <1>1, <1>5, <1>7, <2>2, AfterSubtreeNamesUsed
  <2> QED
    BY <2>1, <2>2
<1> QED
  BY <1>7, <1>8

LEMMA DeleteToastKeeps ==
    ASSUME MemoryInv, DeleteToast
    PROVE  MemoryInv'
<1> DEFINE next == block[call.temp].nextToastIndex
<1>1. /\ pc = "toasts" /\ Free(call.temp, block[call.temp].capacity)
      /\ Goto(IF next # 0 THEN "toasts" ELSE "idle", [call EXCEPT !.temp = next])
      /\ UNCHANGED <<indexCount, block, savedList, stack>>
  BY DEF DeleteToast
<1>2. /\ {call.parent, call.target, call.toastIndex, call.temp, call.tail,
          call.prev} \subseteq Used
      /\ call.header \in BlocksOver(Used) /\ Used \in SUBSET Nat
  BY <1>1, MemoryFacts DEF CallNamesUsed
<1>3. block[call.temp].capacity \in Nat \ {0} /\ next \in Used
  BY <1>2, MemoryFacts
<1> HIDE DEF next
<1>4. Used' = Used /\ TableIsTyped' /\ (CallNamesUsed' => MemoryInv')
  <2>1. pc \notin {"closed", "load"} /\ pc' \notin {"closed", "load"}
    BY <1>1 DEF Goto
  <2> QED
    BY <1>1, <1>2, <1>3, <2>1, FreeStep
<1>5. stack' \in Seq(Used')
  BY <1>1, <1>4, MemoryFacts
<1>6. CallNamesUsed'
  <2>1. CASE next # 0
    <3>1. pc' = "toasts" /\ call' = [call EXCEPT !.temp = next]
      BY <1>1, <2>1 DEF Goto
    <3>2. call' \in Call
      BY <1>2, <1>3, <3>1, MemoryFacts DEF Call
    <3>3. /\ call'.header = call.header /\ call'.parent = call.parent
          /\ call'.target = call.target /\ call'.toastIndex = call.toastIndex
          /\ call'.temp = next
          /\ call'.tail = call.tail /\ call'.prev = call.prev
      BY <3>1, MemoryFacts DEF Call
    <3> QED
      BY <1>2, <1>3, <1>4, <1>5, <3>1, <3>2, <3>3 DEF CallNamesUsed
  <2>2. CASE next = 0
    <3>1. pc' = "idle" /\ call' = NoCall
      BY <1>1, <2>2 DEF Goto
    <3> QED
      BY <1>4, <1>5, <3>1, NoCallNamesUsed
  <2> QED
    BY <2>1, <2>2
<1> QED
  BY <1>4, <1>6
-----------------------------------------------------------------------------
(* The end of a session and the start of the next one.                     *)

LEMMA FinishKeeps ==
    ASSUME MemoryInv, Finish
    PROVE  MemoryInv'
<1>1. /\ pc' = "closed" /\ call' = NoCall
      /\ savedList' = freeList.nodes /\ freeList' = EmptyList
      /\ UNCHANGED <<indexCount, flag, block, stack>>
  BY DEF Finish, Goto
<1>2. Indexes' = Indexes /\ Used' = Used /\ TableIsTyped'
  BY <1>1, SameFlags, MemoryFacts
<1>3. BlocksNameUsed(block)'
  BY <1>1, <1>2, BlocksUnchanged, MemoryFacts
<1>4. CallNamesUsed'
  BY <1>1, <1>2, NoCallNamesUsed, MemoryFacts
<1>5. ListsAreKnown'
  <2>1. savedList' \in KnownNodes(Indexes', Used')
    BY <1>1, <1>2, MemoryFacts DEF KnownLists
  <2> QED
    BY <1>1, <2>1, EmptyIsKnown DEF ListsAreKnown
<1>6. UnreadIsNotListed'
  BY <1>1 DEF UnreadIsNotListed
<1> QED
  BY <1>2, <1>3, <1>4, <1>5, <1>6 DEF MemoryInv

\* Going on to a position of the saved list, or to the end of init().
LEMMA LoadKeeps ==
    ASSUME MemoryInv, pc \in {"closed", "load"}, NEW k \in Nat \ {0}, Load(k),
           UNCHANGED <<indexCount, flag, block, stack>>,
           freeList' \in KnownLists(Indexes, Used),
           \A j \in k .. Len(savedList) :
              savedList[j].blockSize = 0 => ~ Offers(freeList', savedList[j])
    PROVE  MemoryInv'
<1>1. Indexes' = Indexes /\ Used' = Used /\ TableIsTyped'
  BY SameFlags, MemoryFacts
<1>2. BlocksNameUsed(block)'
  BY <1>1, BlocksUnchanged, MemoryFacts
<1>3. stack' \in Seq(Used')
  BY <1>1, MemoryFacts
<1>4. savedList \in KnownNodes(Indexes, Used) /\ Len(savedList) \in Nat
  BY MemoryFacts DEF ListsAreKnown, KnownNodes
<1>5. CASE k <= Len(savedList)
  <2>1. /\ pc' = "load" /\ call' = [NoCall EXCEPT !.temp = k]
        /\ savedList' = savedList
    BY <1>5 DEF Load, Goto
  <2>2. call' = [parent |-> 0, target |-> 0, header |-> NoBlock, docSize |-> 0,
                 toastSize |-> 0, toastIndex |-> 0, temp |-> k, tail |-> 0,
                 prev |-> 0]
    BY <2>1 DEF NoCall
  <2>3. call' \in Call
    BY <2>2 DEF Call, NoBlock, Block, BlockTypes
  <2>4. CallNamesUsed'
    BY <1>3, <2>1, <2>3 DEF CallNamesUsed
  <2>5. ListsAreKnown'
    BY <1>1, <1>4, <2>1 DEF ListsAreKnown
  <2>6. UnreadIsNotListed'
    <3>1. call'.temp = k /\ k \in 1 .. Len(savedList)
      BY <1>4, <1>5, <2>2
    <3> QED
      BY <2>1, <3>1 DEF UnreadIsNotListed
  <2> QED
    BY <1>1, <1>2, <2>4, <2>5, <2>6 DEF MemoryInv
<1>6. CASE ~ (k <= Len(savedList))
  <2>1. pc' = "idle" /\ call' = NoCall /\ savedList' = <<>>
    BY <1>6 DEF Load, Goto
  <2>2. CallNamesUsed'
    BY <1>1, <1>3, <2>1, NoCallNamesUsed
  <2>3. ListsAreKnown' /\ UnreadIsNotListed'
    BY <1>1, <2>1, EmptyIsKnown DEF ListsAreKnown, UnreadIsNotListed
  <2> QED
    BY <1>1, <1>2, <2>2, <2>3 DEF MemoryInv
<1> QED
  BY <1>5, <1>6

LEMMA OpenKeeps ==
    ASSUME MemoryInv, Open
    PROVE  MemoryInv'
<1>1. /\ pc = "closed" /\ Load(1)
      /\ UNCHANGED <<indexCount, flag, block, stack, freeList>>
  BY DEF Open
<1>2. freeList' = EmptyList /\ freeList' \in KnownLists(Indexes, Used)
  BY <1>1, EmptyIsKnown, MemoryFacts DEF ListsAreKnown
<1>3. \A n : ~ Offers(freeList', n)
  <2>1. Len(EmptyList.nodes) = 0
    BY DEF EmptyList
  <2> QED
    BY <1>2, <2>1 DEF Offers
<1> QED
  BY <1>1, <1>2, <1>3, LoadKeeps

LEMMA LoadNodeKeeps ==
    ASSUME MemoryInv, LoadNode
    PROVE  MemoryInv'
<1> DEFINE k == call.temp
           node == savedList[k]
<1>1. /\ pc = "load" /\ Load(k + 1)
      /\ freeList' = IF node.blockSize = 0
                     THEN InsertNewIndex(freeList, node.indexOrder)
                     ELSE InsertDeadIndex(freeList, node.indexOrder, node.blockSize)
      /\ UNCHANGED <<indexCount, flag, block, stack>>
  BY DEF LoadNode
<1>2. /\ savedList \in KnownNodes(Indexes, Used) /\ savedList \in Seq(Node)
      /\ Len(savedList) \in Nat
      /\ k \in 1 .. Len(savedList)
      /\ \A j \in k .. Len(savedList) :
            savedList[j].blockSize = 0 => ~ Offers(freeList, savedList[j])
  BY <1>1, MemoryFacts DEF ListsAreKnown, UnreadIsNotListed, KnownNodes
<1>3. /\ node.indexOrder \in Indexes
      /\ node.blockSize = 0 <=> node.indexOrder \notin Used
      /\ node.blockSize = 0 =>
            \A m \in 1 .. Len(savedList) : savedList[m] = node => m = k
  BY <1>2 DEF KnownNodes
<1>4. node \in Node
  BY <1>2, ElementOfSeq
<1>5. /\ node.blockSize \in Nat
      /\ node = [indexOrder |-> node.indexOrder, blockSize |-> node.blockSize]
  BY <1>4 DEF Node
<1> HIDE DEF k, node
<1>6. /\ freeList' \in KnownLists(Indexes, Used)
      /\ \A n : Offers(freeList', n) =>
            Offers(freeList, n) \/ n = node \/ n.blockSize # 0
  <2>0. freeList \in KnownLists(Indexes, Used)
    BY MemoryFacts
  <2>1. Indexes \in SUBSET Nat /\ Used \in SUBSET Indexes
    BY UsedIsNat
  <2>2. CASE node.blockSize = 0
    <3>1. ~ Offers(freeList, node)
      BY <1>2, <2>2 DEF node
    <3>2. ~ Offers(freeList, [indexOrder |-> node.indexOrder, blockSize |-> 0])
      BY <1>5, <2>2, <3>1
    <3>3. freeList' = InsertNewIndex(freeList, node.indexOrder)
      BY <1>1, <2>2
    <3>4. node.indexOrder \in Indexes \ Used
      BY <1>3, <2>2
    <3>5. node = [indexOrder |-> node.indexOrder, blockSize |-> 0]
      BY <1>5, <2>2
    <3> QED
      BY ONLY <2>0, <2>1, <3>2, <3>3, <3>4, <3>5, InsertNewIsKnown
  <2>3. CASE node.blockSize # 0
    <3>1. freeList' = InsertDeadIndex(freeList, node.indexOrder, node.blockSize)
      BY <1>1, <2>3
    <3>2. node.indexOrder \in Used /\ node.blockSize \in Nat \ {0}
      BY <1>3, <1>5, <2>3
    <3> QED
      BY ONLY <2>0, <2>1, <3>1, <3>2, InsertDeadIsKnown
  <2> QED
    BY <2>2, <2>3
<1>7. ASSUME NEW j \in k + 1 .. Len(savedList), savedList[j].blockSize = 0
      PROVE  ~ Offers(freeList', savedList[j])
  <2>1. j \in k .. Len(savedList) /\ j \in 1 .. Len(savedList) /\ j # k
    BY <1>2
  <2>2. savedList[j] # node
    BY <1>3, <1>7, <2>1
  <2> QED
    BY <1>2, <1>6, <1>7, <2>1, <2>2
<1> QED
  BY <1>1, <1>2, <1>6, <1>7, LoadKeeps

\* Every step of the store, and every moment at which nothing happens.
LEMMA NextKeepsMemory ==
    ASSUME MemoryInv, Next
    PROVE  MemoryInv'
<1>1. ASSUME NEW p \in Reachable, NEW docSize \in DocumentSizes,
             NEW toastSize \in ToastSizes \cup {0},
             StartCreate(p, docSize, toastSize)
      PROVE  MemoryInv'
  BY <1>1, StartCreateKeeps
<1>2. ASSUME NEW p \in Reachable, NEW d \in Children(p), StartDelete(p, d)
      PROVE  MemoryInv'
  BY <1>2, StartDeleteKeeps
<1>3. ASSUME NEW d \in Reachable, NEW extra \in GrowSizes,
             GrowText(d, extra) \/ GrowTextAborts(d, extra)
      PROVE  MemoryInv'
  BY <1>3, GrowTextKeeps, GrowTextAbortsKeeps
<1>4. CASE Command
  BY <1>1, <1>2, <1>3, <1>4 DEF Command
<1>5. CASE Finish
  BY <1>5, FinishKeeps
<1>6. CASE Open
  BY <1>6, OpenKeeps
<1>7. ASSUME NEW n \in ExpandCounts, ExpandIndexes(n)
      PROVE  MemoryInv'
  BY <1>7, ExpandIndexesKeeps
<1>8. CASE Execute
  BY <1>7, <1>8, CreateToastKeeps, CreateDocumentKeeps, LinkSonKeeps,
     WalkSiblingsKeeps, UnlinkKeeps, DeleteTargetKeeps, DeleteDescendantKeeps,
     DeleteToastKeeps, LinkToastKeeps, LoadNodeKeeps DEF Execute
<1> QED
  BY <1>4, <1>5, <1>6, <1>8 DEF Next, Request

-----------------------------------------------------------------------------
(* What the file holds: nothing that memory has not named before.          *)

\* killIndex leaves the new indexes new and makes none.
LEMMA FreedFlags ==
    ASSUME flag \in [Indexes -> Flags], NEW i,
           NEW f, f = [flag EXCEPT ![i] = IF @ = "ALIVE" THEN "DEAD" ELSE @]
    PROVE  /\ f \in [Indexes -> Flags]
           /\ \A j \in Indexes : f[j] = "NEW" <=> flag[j] = "NEW"
    BY DEF Flags

\* What a step can do to the flags.
LEMMA FlagChanges ==
    ASSUME Next
    PROVE  \/ UNCHANGED flag
           \/ \E i : flag' = [flag EXCEPT ![i] = "ALIVE"]
           \/ \E i : flag' = [flag EXCEPT ![i] = IF @ = "ALIVE" THEN "DEAD" ELSE @]
           \/ \E n \in ExpandCounts : ExpandIndexes(n)
<1>1. CASE Command
  <2>1. ASSUME NEW p, NEW docSize, NEW toastSize, StartCreate(p, docSize, toastSize)
        PROVE  UNCHANGED flag
    BY <2>1 DEF StartCreate, file
  <2>2. ASSUME NEW p, NEW d, StartDelete(p, d)
        PROVE  UNCHANGED flag
    BY <2>2 DEF StartDelete, file
  <2>3. ASSUME NEW d, NEW extra, GrowText(d, extra)
        PROVE  \E i : flag' = [flag EXCEPT ![i] = "ALIVE"]
    BY <2>3 DEF GrowText, Attach
  <2>4. ASSUME NEW d, NEW extra, GrowTextAborts(d, extra)
        PROVE  UNCHANGED flag
    BY <2>4 DEF GrowTextAborts, file
  <2> QED
    BY <1>1, <2>1, <2>2, <2>3, <2>4 DEF Command
<1>2. CASE Finish \/ Open
  BY <1>2 DEF Finish, Open
<1>3. CASE CreateToast \/ CreateDocument
  BY <1>3 DEF CreateToast, CreateDocument, Attach
<1>4. CASE LinkSon \/ WalkSiblings \/ Unlink \/ LinkToast \/ LoadNode
  BY <1>4 DEF LinkSon, WalkSiblings, Unlink, LinkToast, LoadNode, file
<1>5. CASE DeleteTarget \/ DeleteDescendant \/ DeleteToast
  BY <1>5 DEF DeleteTarget, DeleteDescendant, DeleteToast, Free
<1> QED
  BY <1>1, <1>2, <1>3, <1>4, <1>5 DEF Next, Request, Execute

\* A step may give a new index a block, and takes no index's block away.
LEMMA FlagSteps ==
    ASSUME MemoryInv, Next, UNCHANGED indexCount
    PROVE  \A i \in Indexes :
              /\ flag[i] = "NEW" => flag'[i] \in {"NEW", "ALIVE"}
              /\ flag'[i] = "NEW" => flag[i] = "NEW"
<1>1. flag \in [Indexes -> Flags] /\ indexCount \in Nat
  BY MemoryFacts DEF TableIsTyped
<1>2. CASE UNCHANGED flag
  BY <1>2
<1>3. CASE \E i : flag' = [flag EXCEPT ![i] = "ALIVE"]
  <2>1. PICK i : flag' = [flag EXCEPT ![i] = "ALIVE"]
    BY <1>3
  <2>2. \A j \in Indexes : flag'[j] = IF j = i THEN "ALIVE" ELSE flag[j]
    BY <1>1, <2>1
  <2> QED
    BY <2>2
<1>4. CASE \E i : flag' = [flag EXCEPT ![i] = IF @ = "ALIVE" THEN "DEAD" ELSE @]
  BY <1>1, <1>4, FreedFlags
<1>5. CASE \E n \in ExpandCounts : ExpandIndexes(n)
  <2>1. PICK n \in ExpandCounts : ExpandIndexes(n)
    BY <1>5
  <2>2. indexCount' = indexCount + n /\ n \in Nat /\ n >= 2
    BY <2>1, ConstantsAssumption DEF ExpandIndexes, ExpandedCount
  <2> QED
    BY <1>1, <2>2
<1> QED
  BY <1>2, <1>3, <1>4, <1>5, FlagChanges

\* While the file does not grow no index gets its first block.
LEMMA UsedOfSameFile ==
    ASSUME MemoryInv, Next, ~ FileGrows
    PROVE  Indexes' = Indexes /\ Used' = Used
<1>1. UNCHANGED indexCount /\ \A i \in Indexes : ~ (flag[i] = "NEW" /\ flag'[i] = "ALIVE")
  BY DEF FileGrows
<1>2. Indexes' = Indexes
  BY <1>1 DEF Indexes
<1>3. \A i \in Indexes : flag'[i] = "NEW" <=> flag[i] = "NEW"
  BY <1>1, FlagSteps
<1> QED
  BY <1>2, <1>3 DEF Used

LEMMA NormalKeeps ==
    ASSUME CrashInv, Normal
    PROVE  CrashInv'
<1>1. MemoryInv /\ Next /\ Flush /\ TrackImage
  BY DEF CrashInv, Normal
<1>2. MemoryInv'
  BY <1>1, NextKeepsMemory
<1>3. BlocksNameUsed(disk.block)'
  <2>1. CASE BufferedLink
    <3>1. UNCHANGED <<indexCount, flag>>
      BY <2>1 DEF BufferedLink, LinkSon, Unlink
    <3>2. Indexes' = Indexes /\ Used' = Used
      BY <1>1, <3>1, SameFlags, MemoryFacts
    <3>3. disk'.block = block
      BY <1>1, <2>1 DEF Flush
    <3> QED
      BY <1>1, <3>2, <3>3, MemoryFacts DEF BlocksNameUsed
  <2>2. CASE ~ BufferedLink
    <3>1. disk'.block = block'
      BY <1>1, <2>2 DEF Flush
    <3> QED
      BY <1>2, <3>1 DEF MemoryInv, BlocksNameUsed
  <2> QED
    BY <2>1, <2>2
<1>4. image'.nodes \in KnownNodes(Indexes', Used')
  <2>1. CASE pc' = "closed"
    BY <1>1, <1>2, <2>1 DEF TrackImage, MemoryInv, ListsAreKnown
  <2>2. CASE pc' # "closed" /\ FileGrows
    BY <1>1, <2>2, EmptyIsKnown DEF TrackImage
  <2>3. CASE pc' # "closed" /\ ~ FileGrows
    <3>1. image' = image /\ Indexes' = Indexes /\ Used' = Used
      BY <1>1, <2>3, UsedOfSameFile DEF TrackImage
    <3> QED
      BY <3>1 DEF CrashInv, DiskInv
  <2> QED
    BY <2>1, <2>2, <2>3
<1> QED
  BY <1>2, <1>3, <1>4 DEF CrashInv, DiskInv

\* The next session finds what was flushed; a step that was cut off may have
\* killed an index in use.
LEMMA CrashKeeps ==
    ASSUME CrashInv, Crash
    PROVE  CrashInv'
<1>1. /\ flag' \in {flag, TornFlags} /\ block' = disk.block
      /\ savedList' = image.nodes /\ freeList' = EmptyList /\ stack' = <<>>
      /\ pc' = "closed" /\ call' = NoCall
      /\ UNCHANGED <<indexCount, disk, image>>
  BY DEF Crash, Goto
<1>2. /\ MemoryInv /\ BlocksNameUsed(disk.block)
      /\ image.nodes \in KnownNodes(Indexes, Used)
  BY DEF CrashInv, DiskInv
<1>3. flag \in [Indexes -> Flags]
  BY <1>2, MemoryFacts DEF TableIsTyped
<1>4. /\ flag' \in [Indexes -> Flags]
      /\ \A i \in Indexes : flag'[i] = "NEW" <=> flag[i] = "NEW"
  <2>1. CASE flag' = flag
    BY <1>3, <2>1
  <2>2. CASE flag' = TornFlags
    <3>1. \/ TornFlags = flag
          \/ \E i : TornFlags =
                       [flag EXCEPT ![i] = IF @ = "ALIVE" THEN "DEAD" ELSE @]
      BY DEF TornFlags
    <3> QED
      BY <1>3, <2>2, <3>1, FreedFlags
  <2> QED
    BY <1>1, <2>1, <2>2
<1>5. Indexes' = Indexes /\ Used' = Used /\ TableIsTyped'
  BY <1>1, <1>2, <1>4, SameUsed, MemoryFacts
<1>6. BlocksNameUsed(block)' /\ BlocksNameUsed(disk.block)'
  BY <1>1, <1>2, <1>5 DEF BlocksNameUsed
<1>7. CallNamesUsed'
  <2>1. stack' \in Seq(Used')
    BY <1>1
  <2> QED
    BY <1>1, <1>5, <2>1, NoCallNamesUsed
<1>8. savedList' \in KnownNodes(Indexes', Used')
      /\ image'.nodes \in KnownNodes(Indexes', Used')
  BY <1>1, <1>2, <1>5
<1>9. ListsAreKnown' /\ UnreadIsNotListed'
  BY <1>1, <1>8, EmptyIsKnown DEF ListsAreKnown, UnreadIsNotListed
<1> QED
  BY <1>5, <1>6, <1>7, <1>8, <1>9 DEF CrashInv, MemoryInv, DiskInv

LEMMA StutterKeeps ==
    ASSUME CrashInv, UNCHANGED crashVars
    PROVE  CrashInv'
<1>1. UNCHANGED <<indexCount, flag, block, savedList, freeList, pc, call, stack,
                  disk, image>>
  BY DEF crashVars, vars
<1>2. Indexes' = Indexes /\ Used' = Used
  BY <1>1 DEF Indexes, Used
<1>3. TableIsTyped' /\ BlocksNameUsed(block)' /\ BlocksNameUsed(disk.block)'
  BY <1>1, <1>2 DEF CrashInv, MemoryInv, DiskInv, TableIsTyped, BlocksNameUsed
<1>4. CallNamesUsed'
  BY <1>1, <1>2 DEF CrashInv, MemoryInv, CallNamesUsed
<1>5. ListsAreKnown' /\ UnreadIsNotListed'
  BY <1>1, <1>2 DEF CrashInv, MemoryInv, ListsAreKnown, UnreadIsNotListed
<1>6. image'.nodes \in KnownNodes(Indexes', Used')
  BY <1>1, <1>2 DEF CrashInv, DiskInv
<1> QED
  BY <1>3, <1>4, <1>5, <1>6 DEF CrashInv, MemoryInv, DiskInv

LEMMA InitKnows ==
    ASSUME CrashInit
    PROVE  CrashInv
<1> DEFINE n == INDEX_INITIAL_CAPACITY - 1
<1>1. /\ indexCount = INDEX_INITIAL_CAPACITY
      /\ flag = [i \in 0 .. INDEX_INITIAL_CAPACITY - 1 |->
                    IF i = 0 THEN "ALIVE" ELSE "NEW"]
      /\ block = [i \in 0 .. INDEX_INITIAL_CAPACITY - 1 |->
                    IF i = 0 THEN DocumentBlock(1, 0, 0) ELSE NoBlock]
      /\ savedList = <<>> /\ freeList = InsertNewIndexes(EmptyList, 1, n)
      /\ pc = "idle" /\ call = NoCall /\ stack = <<>>
      /\ disk = [block |-> block, nodes |-> nodes]
      /\ image = [intact |-> FALSE, nodes |-> <<>>]
  BY DEF CrashInit, Init
<1>2. n \in Nat /\ indexCount \in Nat /\ Indexes = 0 .. n /\ 0 \in Indexes
  BY <1>1, ConstantsAssumption DEF Indexes
<1>3. Used = {0}
  BY <1>1, <1>2 DEF Used, Indexes
<1>4. TableIsTyped
  BY <1>1, <1>2, <1>3 DEF TableIsTyped, Flags
<1>5. DocumentBlock(1, 0, 0) \in BlocksOver(Used)
  BY <1>3, NewHeaders
<1>6. BlocksNameUsed(block)
  <2>1. NoBlock \in Block /\ DocumentBlock(1, 0, 0) \in Block
    BY <1>5 DEF BlocksOver, NoBlock, Block, BlockTypes
  <2> QED
    BY <1>1, <1>2, <1>3, <1>5, <2>1 DEF BlocksNameUsed
<1>7. CallNamesUsed
  <2>1. NoCall \in Call
    BY DEF NoCall, Call, NoBlock, Block, BlockTypes
  <2>2. stack \in Seq(Used)
    BY <1>1
  <2> QED
    BY <1>1, <1>3, <2>1, <2>2 DEF CallNamesUsed, NoCall
<1>8. ListsAreKnown /\ UnreadIsNotListed
  <2>1. EmptyList \in KnownLists(0 .. 1 - 1, {0}) /\ {0} \in SUBSET (0 .. 1 - 1)
    BY EmptyIsKnown
  <2>2. freeList \in KnownLists(0 .. 1 + n - 1, {0})
    <3> HIDE DEF n
    <3>1. n \in Nat /\ 1 \in Nat
      BY <1>2
    <3> QED
      BY <1>1, <2>1, <3>1, InsertNewIndexesIsKnown
  <2>3. 1 + n - 1 = n
    BY <1>2
  <2>4. freeList \in KnownLists(Indexes, Used)
    BY <1>2, <1>3, <2>2, <2>3
  <2> QED
    BY <1>1, <2>4, EmptyIsKnown DEF ListsAreKnown, UnreadIsNotListed
<1>9. DiskInv
  <2>1. disk.block = block /\ image.nodes = <<>>
    BY <1>1
  <2> QED
    BY <1>6, <2>1, EmptyIsKnown DEF DiskInv
<1> QED
  BY <1>4, <1>6, <1>7, <1>8, <1>9 DEF CrashInv, MemoryInv

\* What memory, the flushed file and the saved list name has been attached to
\* a block once, and they list an index as new only while it has had none, and
\* once (attachIndexToBlock in zgdbindex.c, insertNode in freelist.c,
\* readFreeList in zgdbfile.c), whenever the server dies.
THEOREM CrashInvariant == CrashSpec => []CrashInv
<1>1. CrashInit => CrashInv
  BY InitKnows
<1>2. CrashInv /\ [CrashNext]_crashVars => CrashInv'
  BY NormalKeeps, CrashKeeps, StutterKeeps DEF CrashNext
<1> QED
  BY <1>1, <1>2, PTL DEF CrashSpec

\* Whatever list init() restores after a crash, an index that the list offers
\* as new (blockSize 0) never had a block, and it is offered once: new blocks
\* never overwrite a document (findRelevantIndex in freelist.c).
THEOREM NewIndexesAlwaysStayUnused == CrashSpec => []NewIndexesStayUnused
<1>1. CrashInv => NewIndexesStayUnused
  <2> SUFFICES ASSUME CrashInv, NEW k \in 1 .. Len(freeList.nodes),
                      freeList.nodes[k].blockSize = 0
               PROVE  /\ flag[freeList.nodes[k].indexOrder] = "NEW"
                      /\ \A m \in 1 .. Len(freeList.nodes) :
                            freeList.nodes[m] = freeList.nodes[k] => m = k
    BY DEF NewIndexesStayUnused
  <2>1. freeList.nodes \in KnownNodes(Indexes, Used)
    BY MemoryFacts DEF CrashInv, KnownLists
  <2>2. /\ freeList.nodes[k].indexOrder \in Indexes \ Used
        /\ \A m \in 1 .. Len(freeList.nodes) :
              freeList.nodes[m] = freeList.nodes[k] => m = k
    BY <2>1 DEF KnownNodes
  <2> QED
    BY <2>2 DEF Used
<1> QED
  BY <1>1, CrashInvariant, PTL
=============================================================================
