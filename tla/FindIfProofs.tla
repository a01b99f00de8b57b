---------------------------- MODULE FindIfProofs ----------------------------
(***************************************************************************)
(* Whatever the tree, the path and the predicates, every document a search *)
(* holds is in the tree and carries the index of its parent, and what the  *)
(* search finds is what the path reaches: for one step, every document of  *)
(* the name once.                                                          *)
(*                                                                         *)
(* The functions that say what a path reaches are recursive; they are      *)
(* first shown to exist, then used by their equations.                     *)
(***************************************************************************)
EXTENDS FindIfInv, FiniteSetTheorems, WellFoundedInduction, TLAPS

-----------------------------------------------------------------------------
(* Sequences, trees and the iterator.                                      *)

\* A sequence that is not empty has a last element, and elements before it.
LEMMA LastAndFront ==
    ASSUME NEW S, NEW s \in Seq(S), s # <<>>
    PROVE  Last(s) \in S /\ Front(s) \in Seq(S)
BY DEF Last, Front

\* An element of a sequence over a set is in the set.
LEMMA ElementIn ==
    ASSUME NEW S, NEW s \in Seq(S), NEW k \in 1 .. Len(s)
    PROVE  s[k] \in S
OBVIOUS

\* The links of a tree stay in it, and lead to sons and to documents of the
\* same parent.
LEMMA TreeLinks ==
    ASSUME NEW t, IsTree(t), NEW d \in DocumentsOf(t)
    PROVE  /\ t.parent[d] \in DocumentsOf(t)
           /\ t.son[d] \in DocumentsOf(t)
           /\ t.brother[d] \in DocumentsOf(t)
           /\ t.son[d] # 0 => t.parent[t.son[d]] = d
           /\ t.brother[d] # 0 => t.parent[t.brother[d]] = t.parent[d]
BY DEF IsTree

\* A son, a brother and the root know their parents.
LEMMA EntriesKnowParents ==
    ASSUME NEW t, IsTree(t), NEW e \in KnownEntries(t)
    PROVE  /\ e.order \in DocumentsOf(t)
           /\ t.son[e.order] # 0 => SonEntry(t, e) \in KnownEntries(t)
           /\ t.brother[e.order] # 0 => BrotherEntry(t, e) \in KnownEntries(t)
<1>1. /\ e.order \in DocumentsOf(t)
      /\ e.orderParent \in DocumentsOf(t)
      /\ e.depth \in Nat /\ e.depth + 1 \in Nat
      /\ e.orderParent = t.parent[e.order]
  BY DEF KnownEntries
<1>2. /\ t.son[e.order] \in DocumentsOf(t)
      /\ t.brother[e.order] \in DocumentsOf(t)
      /\ t.son[e.order] # 0 => t.parent[t.son[e.order]] = e.order
      /\ t.brother[e.order] # 0 =>
            t.parent[t.brother[e.order]] = t.parent[e.order]
  BY <1>1, TreeLinks
<1>3. ASSUME t.son[e.order] # 0
      PROVE  SonEntry(t, e) \in KnownEntries(t)
  BY <1>1, <1>2, <1>3 DEF SonEntry, EntryOf, KnownEntries
<1>4. ASSUME t.brother[e.order] # 0
      PROVE  BrotherEntry(t, e) \in KnownEntries(t)
  BY <1>1, <1>2, <1>4 DEF BrotherEntry, EntryOf, KnownEntries
<1> QED BY <1>1, <1>3, <1>4

\* A step of the iterator keeps what it knows.
LEMMA NextDocKnowsParents ==
    ASSUME NEW t, IsTree(t),
           NEW i \in [next : KnownEntries(t), stack : Seq(KnownEntries(t)),
                      stop : BOOLEAN]
    PROVE  AfterNextDoc(t, i) \in
              [next : KnownEntries(t), stack : Seq(KnownEntries(t)),
               stop : BOOLEAN]
<1> DEFINE K == KnownEntries(t)
           e == i.next
           brother == t.brother[e.order]
           son == t.son[e.order]
<1>1. e \in K /\ i.stack \in Seq(K)
  OBVIOUS
<1>2. /\ son # 0 => SonEntry(t, e) \in K
      /\ brother # 0 => BrotherEntry(t, e) \in K
  BY <1>1, EntriesKnowParents
<1>3. i.stack # <<>> => Last(i.stack) \in K /\ Front(i.stack) \in Seq(K)
  BY <1>1, LastAndFront
<1>4. son # 0 => Append(i.stack, SonEntry(t, e)) \in Seq(K)
  BY <1>1, <1>2
<1> HIDE DEF K
<1>5. CASE brother # 0 /\ son # 0
  BY <1>2, <1>4, <1>5 DEF AfterNextDoc, K
<1>6. CASE brother # 0 /\ son = 0
  BY <1>2, <1>6 DEF AfterNextDoc, K
<1>7. CASE brother = 0 /\ son # 0
  BY <1>2, <1>7 DEF AfterNextDoc, K
<1>8. CASE brother = 0 /\ son = 0 /\ i.stack # <<>>
  BY <1>3, <1>8 DEF AfterNextDoc, K
<1>9. CASE brother = 0 /\ son = 0 /\ i.stack = <<>>
  BY <1>9 DEF AfterNextDoc, K
<1> QED BY <1>5, <1>6, <1>7, <1>8, <1>9
-----------------------------------------------------------------------------
(* The inductive invariant, action by action.                              *)

\* What an action may assume of its inputs.
LEMMA InputFacts ==
    ASSUME InputsOK
    PROVE  /\ IsTree(tree)
           /\ Len(path) \in Nat \ {0}
           /\ 0 \in DocumentsOf(tree)
           /\ tree.parent[0] = 0
           /\ tree.brother[0] = 0
BY TreesAssumption, PathsAssumption DEF IsTree, InputsOK

\* A document of a tree, found with its parent's index.
LEMMA FoundIsKnown ==
    ASSUME NEW t, NEW d \in DocumentsOf(t), NEW p \in DocumentsOf(t),
           p = t.parent[d]
    PROVE  Found(d, p) \in KnownDocuments(t)
BY DEF Found, KnownDocuments

\* The first child of a document, if there is one.
LEMMA FirstSon ==
    ASSUME InputsOK, NEW d \in DocumentsOf(tree)
    PROVE  /\ tree.son[d] \in DocumentsOf(tree)
           /\ tree.son[d] # 0 => tree.parent[tree.son[d]] = d
BY InputFacts, TreeLinks

\* What holds no list and no iterator keeps what they know.
LEMMA SameListsKnowParents ==
    ASSUME ResultsKnowParents,
           UNCHANGED <<tree, contextList, tempContextList, iterator, ifResult,
                       pList>>
    PROVE  ResultsKnowParents'
BY DEF ResultsKnowParents, ContextsKnowParents,
         IteratorKnowsParents, FoundKnowParents

LEMMA InitIsIInv == Init => IInv
<1> SUFFICES ASSUME Init PROVE IInv
  OBVIOUS
<1>1. InputsOK
  BY DEF Init, InputsOK
<1>2. TypeOK
  BY <1>1, InputFacts DEF Init, TypeOK
<1>3. EntryOf(0, 0, 0) \in KnownEntries(tree)
  BY <1>1, InputFacts DEF EntryOf, KnownEntries
<1>4. ResultsKnowParents
  BY <1>3 DEF Init, CreateDocIterator, NoResult, ResultTypes,
            ResultsKnowParents, ContextsKnowParents,
         IteratorKnowsParents, FoundKnowParents
<1>5. JoinsChildren /\ NoContextYet
  BY DEF Init, JoinsChildren, NoContextYet
<1> QED BY <1>1, <1>2, <1>4, <1>5 DEF IInv

LEMMA StutteringKeepsIInv == IInv /\ UNCHANGED vars => IInv'
BY DEF vars, query, context, walk, joining, HeadDocument, IInv, InputsOK,
       TypeOK, JoinsChildren, NoContextYet, ResultsKnowParents,
         ContextsKnowParents,
         IteratorKnowsParents, FoundKnowParents

LEMMA FindRootKeepsIInv == IInv /\ FindRoot => IInv'
<1> SUFFICES ASSUME IInv, FindRoot PROVE IInv'
  OBVIOUS
<1>0. InputsOK /\ TypeOK /\ ResultsKnowParents /\ JoinsChildren /\ NoContextYet
  BY DEF IInv
<1>1. InputsOK'
  BY <1>0 DEF FindRoot, query, InputsOK
<1>2. TypeOK'
  BY <1>0 DEF FindRoot, query, context, walk, joining, TypeOK
<1>3. ResultsKnowParents'
  <2>1. Found(0, 0) \in KnownDocuments(tree)
    BY <1>0, InputFacts, FoundIsKnown
  <2>2. <<Found(0, 0)>> \in Seq(KnownDocuments(tree))
    BY <2>1
  <2>3. ifResult' \in [type : ResultTypes,
                       documentList : Seq(KnownDocuments(tree)),
                       elementList : Seq(KnownDocuments(tree))]
    <3> DEFINE one == <<Found(0, 0)>>
    <3>1. ifResult' = [type |-> "DOCUMENT", documentList |-> one,
                       elementList |-> <<>>]
      BY DEF FindRoot, NoResult
    <3>2. /\ one \in Seq(KnownDocuments(tree))
          /\ <<>> \in Seq(KnownDocuments(tree))
      BY <2>2
    <3> HIDE DEF one
    <3> QED BY <3>1, <3>2 DEF ResultTypes
  <2>4. UNCHANGED <<tree, contextList, tempContextList, iterator, pList>>
    BY DEF FindRoot, query, context, walk, joining
  <2> QED BY <1>0, <2>3, <2>4 DEF ResultsKnowParents, ContextsKnowParents,
         IteratorKnowsParents, FoundKnowParents
<1>4. JoinsChildren' /\ NoContextYet'
  BY <1>0 DEF FindRoot, query, context, walk, joining, JoinsChildren,
            NoContextYet
<1> QED BY <1>1, <1>2, <1>3, <1>4 DEF IInv

LEMMA FindRootSonsKeepsIInv == IInv /\ FindRootSons => IInv'
<1> SUFFICES ASSUME IInv, FindRootSons PROVE IInv'
  OBVIOUS
<1>0. InputsOK /\ TypeOK /\ ResultsKnowParents /\ JoinsChildren /\ NoContextYet
  BY DEF IInv
<1>a. /\ tree.son[0] \in DocumentsOf(tree)
      /\ tree.son[0] # 0 => tree.parent[tree.son[0]] = 0
  BY <1>0, InputFacts, FirstSon
<1>1. InputsOK'
  BY <1>0 DEF FindRootSons, query, InputsOK
<1>2. TypeOK'
  BY <1>0, <1>a DEF FindRootSons, query, context, walk, TypeOK
<1>3. ResultsKnowParents'
  <2>1. UNCHANGED <<tree, contextList, tempContextList, iterator, ifResult,
          pList>>
    BY DEF FindRootSons, query, context, walk
  <2> QED BY <1>0, <2>1, SameListsKnowParents
<1>4. JoinsChildren' /\ NoContextYet'
  BY <1>0, <1>a DEF FindRootSons, query, JoinsChildren, NoContextYet
<1> QED BY <1>1, <1>2, <1>3, <1>4 DEF IInv

LEMMA StartSearchKeepsIInv == IInv /\ StartSearch => IInv'
<1> SUFFICES ASSUME IInv, StartSearch PROVE IInv'
  OBVIOUS
<1>0. InputsOK /\ TypeOK /\ ResultsKnowParents /\ JoinsChildren /\ NoContextYet
  BY DEF IInv
<1>a. /\ tree.son[0] \in DocumentsOf(tree)
      /\ tree.son[0] # 0 => tree.parent[tree.son[0]] = 0
  BY <1>0, InputFacts, FirstSon
<1>b. tree.son[0] # 0 =>
        /\ <<Found(tree.son[0], 0)>> \in Seq(KnownDocuments(tree))
        /\ Len(<<Found(tree.son[0], 0)>>) = 1
  BY <1>0, <1>a, InputFacts, FoundIsKnown
<1>1. InputsOK'
  BY <1>0 DEF StartSearch, query, InputsOK
<1>2. TypeOK'
  <2>1. position' \in 1 .. Len(contextList') + 1
    BY <1>0, <1>b DEF StartSearch, TypeOK, NoContextYet
  <2> QED BY <1>0, <2>1 DEF StartSearch, query, joining, TypeOK
<1>3. ResultsKnowParents'
  BY <1>0, <1>b DEF StartSearch, query, joining, ResultsKnowParents,
                  ContextsKnowParents,
         IteratorKnowsParents, FoundKnowParents
<1>4. JoinsChildren' /\ NoContextYet'
  BY <1>0 DEF StartSearch, query, joining, JoinsChildren, NoContextYet
<1> QED BY <1>1, <1>2, <1>3, <1>4 DEF IInv

LEMMA EnterContextKeepsIInv == IInv /\ EnterContext => IInv'
<1> SUFFICES ASSUME IInv, EnterContext PROVE IInv'
  OBVIOUS
<1>0. InputsOK /\ TypeOK /\ ResultsKnowParents /\ JoinsChildren /\ NoContextYet
  BY DEF IInv
<1>a. contextList[position] \in KnownDocuments(tree)
  <2>1. position \in 1 .. Len(contextList)
    BY <1>0 DEF EnterContext, TypeOK
  <2>2. contextList \in Seq(KnownDocuments(tree))
    BY <1>0 DEF ResultsKnowParents, ContextsKnowParents
  <2> QED BY <2>1, <2>2, ElementIn
<1>1. InputsOK'
  BY <1>0 DEF EnterContext, query, InputsOK
<1>2. TypeOK'
  BY <1>0 DEF EnterContext, FirstNumber, query, context, joining, TypeOK
<1>3. ResultsKnowParents'
  <2> DEFINE tempRes == contextList[position]
  <2>1. EntryOf(tempRes.order, tempRes.indexParent, depth)
           \in KnownEntries(tree)
    BY <1>0, <1>a DEF EntryOf, KnownEntries, KnownDocuments, TypeOK
  <2>2. iterator' \in [next : KnownEntries(tree),
                       stack : Seq(KnownEntries(tree)), stop : BOOLEAN]
    BY <2>1 DEF EnterContext, CreateDocIterator
  <2> QED BY <1>0, <2>2
        DEF EnterContext, query, context, joining, ResultsKnowParents,
          ContextsKnowParents,
         IteratorKnowsParents, FoundKnowParents
<1>4. JoinsChildren' /\ NoContextYet'
  BY <1>0 DEF EnterContext, query, context, joining, JoinsChildren,
            NoContextYet
<1> QED BY <1>1, <1>2, <1>3, <1>4 DEF IInv

LEMMA VisitDocumentKeepsIInv == IInv /\ VisitDocument => IInv'
<1> SUFFICES ASSUME IInv, VisitDocument PROVE IInv'
  OBVIOUS
<1>0. InputsOK /\ TypeOK /\ ResultsKnowParents /\ JoinsChildren /\ NoContextYet
  BY DEF IInv
<1> DEFINE e == iterator.next
           found == Found(e.order, e.orderParent)
           son == tree.son[e.order]
<1>a. /\ iterator \in [next : KnownEntries(tree),
                       stack : Seq(KnownEntries(tree)), stop : BOOLEAN]
      /\ e \in KnownEntries(tree)
  BY <1>0 DEF ResultsKnowParents, IteratorKnowsParents
<1>b. /\ e.order \in DocumentsOf(tree)
      /\ e.orderParent \in DocumentsOf(tree)
      /\ e.orderParent = tree.parent[e.order]
      /\ e.depth \in Nat
  BY <1>a DEF KnownEntries
<1>c. found \in KnownDocuments(tree) /\ found.order = e.order
  BY <1>b, FoundIsKnown DEF Found
<1>d. son # 0 => Found(son, e.order) \in KnownDocuments(tree)
  BY <1>0, <1>b, FirstSon, FoundIsKnown
<1>e. /\ pc = "visit" /\ pc' = "visit"
      /\ tree' = tree /\ path' = path /\ step' = step
      /\ contextList' = contextList /\ position' = position
      /\ prevDepth' = prevDepth /\ depth' = e.depth
      /\ tempIndex' = tempIndex /\ pList' = pList
      /\ iterator' = AfterNextDoc(tree, iterator)
      /\ docNumber' \in {docNumber, docNumber + 1}
  BY DEF VisitDocument, query, joining
<1>f. /\ tempContextList' \in {tempContextList,
                               Append(tempContextList, Found(son, e.order))}
      /\ son = 0 => tempContextList' = tempContextList
      /\ ifResult' \in
            {ifResult,
             [ifResult EXCEPT !.type = "DOCUMENT",
                              !.documentList = Append(@, found)],
             [ifResult EXCEPT !.type = "ELEMENT",
                              !.elementList = Append(@, found)]}
  BY <1>c DEF VisitDocument, Select, SelectElement
<1>1. InputsOK'
  BY <1>0 DEF VisitDocument, query, InputsOK
<1>2. TypeOK'
  BY <1>0, <1>b, <1>e DEF TypeOK
<1>3. ResultsKnowParents'
  <2>1. tempContextList \in Seq(KnownDocuments(tree))
    BY <1>0 DEF ResultsKnowParents, ContextsKnowParents
  <2>2. tempContextList' \in Seq(KnownDocuments(tree))
    BY <1>d, <1>f, <2>1
  <2>3. ifResult \in [type : ResultTypes,
                      documentList : Seq(KnownDocuments(tree)),
                      elementList : Seq(KnownDocuments(tree))]
    BY <1>0 DEF ResultsKnowParents, FoundKnowParents
  <2>4. /\ Append(ifResult.documentList, found) \in Seq(KnownDocuments(tree))
        /\ Append(ifResult.elementList, found) \in Seq(KnownDocuments(tree))
    BY <1>c, <2>3
  <2>5. ifResult' \in [type : ResultTypes,
                       documentList : Seq(KnownDocuments(tree)),
                       elementList : Seq(KnownDocuments(tree))]
    BY <1>f, <2>3, <2>4 DEF ResultTypes
  <2>6. iterator' \in [next : KnownEntries(tree),
                       stack : Seq(KnownEntries(tree)), stop : BOOLEAN]
    BY <1>0, <1>a, <1>e, InputFacts, NextDocKnowsParents
  <2> QED BY <1>0, <1>e, <2>2, <2>5, <2>6
        DEF ResultsKnowParents, ContextsKnowParents,
         IteratorKnowsParents, FoundKnowParents
<1>4. JoinsChildren' /\ NoContextYet'
  BY <1>e DEF JoinsChildren, NoContextYet
<1> QED BY <1>1, <1>2, <1>3, <1>4 DEF IInv

LEMMA LeaveContextKeepsIInv == IInv /\ LeaveContext => IInv'
<1> SUFFICES ASSUME IInv, LeaveContext PROVE IInv'
  OBVIOUS
<1>0. InputsOK /\ TypeOK /\ ResultsKnowParents /\ JoinsChildren /\ NoContextYet
  BY DEF IInv
<1>1. InputsOK'
  BY <1>0 DEF LeaveContext, query, InputsOK
<1>2. TypeOK'
  BY <1>0 DEF LeaveContext, query, walk, joining, TypeOK
<1>3. ResultsKnowParents'
  BY <1>0 DEF LeaveContext, query, walk, joining, ResultsKnowParents,
            ContextsKnowParents,
         IteratorKnowsParents, FoundKnowParents
<1>4. JoinsChildren' /\ NoContextYet'
  BY <1>0 DEF LeaveContext, query, walk, joining, JoinsChildren, NoContextYet
<1> QED BY <1>1, <1>2, <1>3, <1>4 DEF IInv

LEMMA NextStepKeepsIInv == IInv /\ NextStep => IInv'
<1> SUFFICES ASSUME IInv, NextStep PROVE IInv'
  OBVIOUS
<1>0. InputsOK /\ TypeOK /\ ResultsKnowParents /\ JoinsChildren /\ NoContextYet
  BY DEF IInv
<1>a. step' \in 1 .. Len(path)
  BY <1>0, InputFacts DEF NextStep, IsLastStep, FollowingStep, TypeOK
<1>1. InputsOK'
  BY <1>0 DEF NextStep, query, InputsOK
<1>2. TypeOK'
  <2>1. position' \in 1 .. Len(contextList') + 1
    <3>1. Len(contextList') \in Nat
      BY <1>0 DEF NextStep, ResultsKnowParents, ContextsKnowParents
    <3> QED BY <3>1 DEF NextStep
  <2> QED BY <1>0, <1>a, <2>1 DEF NextStep, query, joining, TypeOK
<1>3. ResultsKnowParents'
  BY <1>0 DEF NextStep, query, joining, ResultsKnowParents,
            ContextsKnowParents,
         IteratorKnowsParents, FoundKnowParents
<1>4. JoinsChildren' /\ NoContextYet'
  BY <1>0 DEF NextStep, query, joining, JoinsChildren, NoContextYet
<1> QED BY <1>1, <1>2, <1>3, <1>4 DEF IInv

LEMMA AnswerResultKeepsIInv == IInv /\ AnswerResult => IInv'
<1> SUFFICES ASSUME IInv, AnswerResult PROVE IInv'
  OBVIOUS
<1>0. InputsOK /\ TypeOK /\ ResultsKnowParents /\ JoinsChildren /\ NoContextYet
  BY DEF IInv
<1>1. InputsOK'
  BY <1>0 DEF AnswerResult, query, InputsOK
<1>2. TypeOK'
  BY <1>0 DEF AnswerResult, query, context, walk, joining, TypeOK
<1>3. ResultsKnowParents'
  BY <1>0 DEF AnswerResult, query, context, walk, joining,
            ResultsKnowParents, ContextsKnowParents,
         IteratorKnowsParents, FoundKnowParents
<1>4. JoinsChildren' /\ NoContextYet'
  BY <1>0 DEF AnswerResult, query, context, walk, joining, JoinsChildren,
            NoContextYet
<1> QED BY <1>1, <1>2, <1>3, <1>4 DEF IInv

LEMMA ServeHeadKeepsIInv == IInv /\ ServeHead => IInv'
<1> SUFFICES ASSUME IInv, ServeHead PROVE IInv'
  OBVIOUS
<1>0. InputsOK /\ TypeOK /\ ResultsKnowParents /\ JoinsChildren /\ NoContextYet
  BY DEF IInv
<1>1. InputsOK'
  BY <1>0 DEF ServeHead, query, InputsOK
<1>2. TypeOK'
  BY <1>0 DEF ServeHead, query, context, walk, joining, TypeOK
<1>3. ResultsKnowParents'
  BY <1>0 DEF ServeHead, query, context, walk, joining, ResultsKnowParents,
            ContextsKnowParents,
         IteratorKnowsParents, FoundKnowParents
<1>4. JoinsChildren' /\ NoContextYet'
  BY <1>0 DEF ServeHead, query, context, walk, joining, JoinsChildren,
            NoContextYet
<1> QED BY <1>1, <1>2, <1>3, <1>4 DEF IInv

LEMMA AbortKeepsIInv == IInv /\ Abort => IInv'
<1> SUFFICES ASSUME IInv, Abort PROVE IInv'
  OBVIOUS
<1>0. InputsOK /\ TypeOK /\ ResultsKnowParents /\ JoinsChildren /\ NoContextYet
  BY DEF IInv
<1>1. InputsOK'
  BY <1>0 DEF Abort, query, InputsOK
<1>2. TypeOK'
  BY <1>0 DEF Abort, query, context, walk, joining, TypeOK
<1>3. ResultsKnowParents'
  BY <1>0 DEF Abort, query, context, walk, joining, ResultsKnowParents,
            ContextsKnowParents,
         IteratorKnowsParents, FoundKnowParents
<1>4. JoinsChildren' /\ NoContextYet'
  BY <1>0 DEF Abort, query, context, walk, joining, JoinsChildren, NoContextYet
<1> QED BY <1>1, <1>2, <1>3, <1>4 DEF IInv

LEMMA StartJoinKeepsIInv == IInv /\ StartJoin => IInv'
<1> SUFFICES ASSUME IInv, StartJoin PROVE IInv'
  OBVIOUS
<1>0. InputsOK /\ TypeOK /\ ResultsKnowParents /\ JoinsChildren /\ NoContextYet
  BY DEF IInv
<1>a. /\ ifResult.documentList # <<>>
      /\ HeadDocument \in KnownDocuments(tree)
  <2>1. /\ ifResult.documentList # <<>>
        /\ ifResult.documentList \in Seq(KnownDocuments(tree))
    BY <1>0 DEF StartJoin, HasHead, ResultsKnowParents, FoundKnowParents
  <2> QED BY <2>1 DEF HeadDocument
<1>b. /\ HeadDocument.order \in DocumentsOf(tree)
      /\ HeadDocument' = HeadDocument
  BY <1>a DEF KnownDocuments, StartJoin, HeadDocument
<1>c. /\ tempIndex' \in DocumentsOf(tree)
      /\ tempIndex' # 0 => tree.parent[tempIndex'] = HeadDocument.order
  BY <1>0, <1>b, FirstSon DEF StartJoin
<1>1. InputsOK'
  BY <1>0 DEF StartJoin, query, InputsOK
<1>2. TypeOK'
  BY <1>0, <1>c DEF StartJoin, query, context, TypeOK
<1>3. ResultsKnowParents'
  BY <1>0 DEF StartJoin, query, context, ResultsKnowParents,
            ContextsKnowParents,
         IteratorKnowsParents, FoundKnowParents
<1>4. JoinsChildren' /\ NoContextYet'
  BY <1>0, <1>a, <1>b, <1>c DEF StartJoin, query, JoinsChildren, NoContextYet
<1> QED BY <1>1, <1>2, <1>3, <1>4 DEF IInv

LEMMA JoinNextKeepsIInv == IInv /\ JoinNext => IInv'
<1> SUFFICES ASSUME IInv, JoinNext PROVE IInv'
  OBVIOUS
<1>0. InputsOK /\ TypeOK /\ ResultsKnowParents /\ JoinsChildren /\ NoContextYet
  BY DEF IInv
<1> DEFINE indexParent == IF pc = "join" THEN HeadDocument.order ELSE 0
<1>a. /\ tempIndex \in DocumentsOf(tree) /\ tempIndex # 0
      /\ tree.parent[tempIndex] = indexParent
  BY <1>0 DEF JoinNext, TypeOK, JoinsChildren
<1>b. /\ tree.parent[tempIndex] \in DocumentsOf(tree)
      /\ tree.brother[tempIndex] \in DocumentsOf(tree)
      /\ tree.brother[tempIndex] # 0 =>
            tree.parent[tree.brother[tempIndex]] = indexParent
  BY <1>0, <1>a, InputFacts, TreeLinks
<1>c. Found(tempIndex, indexParent) \in KnownDocuments(tree)
  BY <1>a, <1>b, FoundIsKnown
<1>d. /\ pc \in {"join", "rootSons"} /\ pc' = pc
      /\ tree' = tree /\ ifResult' = ifResult
      /\ tempIndex' = tree.brother[tempIndex]
      /\ docNumber' = docNumber + 1
      /\ pList' \in {pList, Append(pList, Found(tempIndex, indexParent))}
  BY DEF JoinNext, NumberAfter, query
<1>1. InputsOK'
  BY <1>0 DEF JoinNext, query, InputsOK
<1>2. TypeOK'
  BY <1>0, <1>b, <1>d DEF JoinNext, query, context, TypeOK
<1>3. ResultsKnowParents'
  <2>0. pList \in Seq(KnownDocuments(tree))
    BY <1>0 DEF ResultsKnowParents, FoundKnowParents
  <2>1. pList' \in Seq(KnownDocuments(tree))
    <3> HIDE DEF indexParent
    <3>1. Append(pList, Found(tempIndex, indexParent))
             \in Seq(KnownDocuments(tree))
      BY <1>c, <2>0
    <3> QED BY <1>d, <2>0, <3>1
  <2> QED BY <1>0, <2>1
        DEF JoinNext, query, context, ResultsKnowParents, ContextsKnowParents,
         IteratorKnowsParents, FoundKnowParents
<1>4. JoinsChildren' /\ NoContextYet'
  <2>1. HeadDocument' = HeadDocument
    BY <1>d DEF HeadDocument
  <2> QED BY <1>0, <1>b, <1>d, <2>1 DEF JoinsChildren, NoContextYet
<1> QED BY <1>1, <1>2, <1>3, <1>4 DEF IInv

LEMMA JoinEndsKeepsIInv == IInv /\ JoinEnds => IInv'
<1> SUFFICES ASSUME IInv, JoinEnds PROVE IInv'
  OBVIOUS
<1>0. InputsOK /\ TypeOK /\ ResultsKnowParents /\ JoinsChildren /\ NoContextYet
  BY DEF IInv
<1>1. InputsOK'
  BY <1>0 DEF JoinEnds, query, InputsOK
<1>2. TypeOK'
  BY <1>0 DEF JoinEnds, query, context, walk, TypeOK
<1>3. ResultsKnowParents'
  <2>1. /\ pList \in Seq(KnownDocuments(tree))
        /\ <<>> \in Seq(KnownDocuments(tree))
        /\ ifResult \in [type : ResultTypes,
                         documentList : Seq(KnownDocuments(tree)),
                         elementList : Seq(KnownDocuments(tree))]
    BY <1>0 DEF ResultsKnowParents, FoundKnowParents
  <2>2. /\ pList' \in Seq(KnownDocuments(tree))
        /\ ifResult' \in [type : ResultTypes,
                          documentList : Seq(KnownDocuments(tree)),
                          elementList : Seq(KnownDocuments(tree))]
    BY <2>1 DEF JoinEnds, NoResult, ResultTypes
  <2>3. UNCHANGED <<tree, contextList, tempContextList, iterator>>
    BY DEF JoinEnds, query, context, walk
  <2> QED BY <1>0, <2>2, <2>3 DEF ResultsKnowParents, ContextsKnowParents,
         IteratorKnowsParents, FoundKnowParents
<1>4. JoinsChildren' /\ NoContextYet'
  BY <1>0 DEF JoinEnds, query, context, walk, JoinsChildren, NoContextYet
<1> QED BY <1>1, <1>2, <1>3, <1>4 DEF IInv

LEMMA NextKeepsIInv == IInv /\ [Next]_vars => IInv'
BY FindRootKeepsIInv, FindRootSonsKeepsIInv, StartSearchKeepsIInv,
   EnterContextKeepsIInv, VisitDocumentKeepsIInv, LeaveContextKeepsIInv,
   NextStepKeepsIInv, AnswerResultKeepsIInv, ServeHeadKeepsIInv,
   StartJoinKeepsIInv, AbortKeepsIInv, JoinNextKeepsIInv,
   JoinEndsKeepsIInv,
   StutteringKeepsIInv DEF Next

-----------------------------------------------------------------------------
(* Recursive functions: over numbers and over the links of a tree.         *)

\* A set of numbers that is not empty has a least one.
LEMMA LeastNumber ==
    ASSUME NEW S \in SUBSET Nat, S # {}
    PROVE  \E i \in S : \A j \in S : i <= j
<1>1. PICK x \in S : \A y \in S : ~ (<<y, x>> \in OpToRel(<, Nat))
  BY NatLessThanWellFounded, WFMin
<1>2. \A y \in S : ~ (y < x)
  BY <1>1 DEF OpToRel
<1> QED BY <1>2

\* Induction over 0 .. n, for a set instead of a predicate.
LEMMA AllNumbers ==
    ASSUME NEW n \in Nat, NEW S, 0 \in S,
           \A k \in 1 .. n : k - 1 \in S => k \in S
    PROVE  0 .. n \subseteq S
<1> DEFINE out == (0 .. n) \ S
<1> SUFFICES ASSUME out # {} PROVE FALSE
  OBVIOUS
<1>1. PICK x \in out : \A y \in out : x <= y
  <2>1. out \in SUBSET Nat
    OBVIOUS
  <2> HIDE DEF out
  <2> QED BY <2>1, LeastNumber
<1>2. x \in 1 .. n /\ x - 1 \in 0 .. n /\ ~ (x <= x - 1)
  OBVIOUS
<1>3. x - 1 \in S
  BY <1>1, <1>2
<1> QED BY <1>2, <1>3

\* g takes from f every value, over the one before.
Recurses(n, S, b, f, g) ==
    /\ g \in [0 .. n -> S]
    /\ g[0] = b
    /\ \A k \in 1 .. n : g[k] = f[<<k, g[k - 1]>>]

\* A function on 0 .. n whose every value determines the next one exists.
LEMMA RecursionExists ==
    ASSUME NEW n \in Nat, NEW S, NEW b \in S, NEW f \in [(1 .. n) \X S -> S]
    PROVE  \E g : Recurses(n, S, b, f, g)
<1> DEFINE Upto(m, g) == /\ g \in [0 .. m -> S]
                         /\ g[0] = b
                         /\ \A k \in 1 .. m : g[k] = f[<<k, g[k - 1]>>]
           T == {m \in 0 .. n : \E g \in [0 .. m -> S] : Upto(m, g)}
<1>1. 0 \in T
  <2> DEFINE g == [k \in 0 .. 0 |-> b]
  <2>1. g \in [0 .. 0 -> S] /\ Upto(0, g)
    OBVIOUS
  <2> HIDE DEF g
  <2> QED BY <2>1
<1>2. ASSUME NEW k \in 1 .. n, k - 1 \in T PROVE k \in T
  <2>1. PICK g : Upto(k - 1, g)
    BY <1>2
  <2>2. g[k - 1] \in S /\ f[<<k, g[k - 1]>>] \in S
    BY <2>1
  <2> DEFINE h == [j \in 0 .. k |-> IF j = k THEN f[<<k, g[k - 1]>>] ELSE g[j]]
  <2>3. h \in [0 .. k -> S] /\ h[0] = b
    BY <2>1, <2>2
  <2>4. ASSUME NEW j \in 1 .. k PROVE h[j] = f[<<j, h[j - 1]>>]
    <3>1. CASE j = k
      <4>1. k \in 0 .. k /\ k - 1 \in 0 .. k /\ k - 1 # k
        OBVIOUS
      <4>2. h[k] = f[<<k, g[k - 1]>>] /\ h[k - 1] = g[k - 1]
        BY <4>1
      <4> HIDE DEF h
      <4> QED BY <3>1, <4>2
    <3>2. CASE j # k
      <4>1. j \in 1 .. k - 1 /\ j - 1 \in 0 .. k /\ j - 1 # k /\ j \in 0 .. k
        BY <3>2
      <4>2. h[j] = g[j] /\ h[j - 1] = g[j - 1]
        BY <3>2, <4>1
      <4> QED BY <2>1, <4>1, <4>2
    <3> QED BY <3>1, <3>2
  <2>5. Upto(k, h)
    <3> HIDE DEF h
    <3> QED BY <2>3, <2>4
  <2> HIDE DEF h
  <2> QED BY <2>3, <2>5
<1>3. n \in T
  <2> HIDE DEF T
  <2>1. 0 .. n \subseteq T
    BY <1>1, <1>2, AllNumbers
  <2> QED BY <2>1
<1> QED BY <1>3 DEF Recurses

\* What the first value is and every value hands on, all values are.
LEMMA RecursionIn ==
    ASSUME NEW n \in Nat, NEW S, NEW g, g[0] \in S,
           \A k \in 1 .. n : g[k - 1] \in S => g[k] \in S
    PROVE  \A k \in 0 .. n : g[k] \in S
<1> DEFINE T == {k \in 0 .. n : g[k] \in S}
<1>1. 0 \in T /\ \A k \in 1 .. n : k - 1 \in T => k \in T
  OBVIOUS
<1>2. 0 .. n \subseteq T
  <2> HIDE DEF T
  <2> QED BY <1>1, AllNumbers
<1> QED BY <1>2

\* Among documents below the root there is one that links to none of them.
LEMMA LastOfDocuments ==
    ASSUME NEW t, IsTree(t), NEW S \in SUBSET (DocumentsOf(t) \ {0}), S # {}
    PROVE  \E d \in S : /\ d \in DocumentsOf(t) /\ d # 0
                        /\ t.son[d] \in DocumentsOf(t) \ S
                        /\ t.brother[d] \in DocumentsOf(t) \ S
<1>1. PICK d \in S : {t.son[d], t.brother[d]} \cap S = {}
  BY DEF IsTree
<1>2. d \in DocumentsOf(t) /\ d # 0
  OBVIOUS
<1>3. t.son[d] \in DocumentsOf(t) /\ t.brother[d] \in DocumentsOf(t)
  BY <1>2 DEF IsTree
<1> QED BY <1>1, <1>2, <1>3

\* What holds at the end of all links and is handed back along them holds of
\* every document.
LEMMA AllDocuments ==
    ASSUME NEW t, IsTree(t), NEW S, 0 \in S,
           \A d \in DocumentsOf(t) \ {0} :
              t.son[d] \in S /\ t.brother[d] \in S => d \in S
    PROVE  DocumentsOf(t) \subseteq S
<1> DEFINE out == DocumentsOf(t) \ S
<1> SUFFICES ASSUME out # {} PROVE FALSE
  OBVIOUS
<1>1. out \in SUBSET (DocumentsOf(t) \ {0})
  OBVIOUS
<1>2. PICK d \in out : /\ d \in DocumentsOf(t) /\ d # 0
                       /\ t.son[d] \in DocumentsOf(t) \ out
                       /\ t.brother[d] \in DocumentsOf(t) \ out
  <2> HIDE DEF out
  <2> QED BY <1>1, LastOfDocuments
<1>3. t.son[d] \in S /\ t.brother[d] \in S
  BY <1>2
<1> QED BY <1>2, <1>3

\* g takes from f its values, over those behind the links.
FollowsLinks(t, V, b, f, g) ==
    /\ g \in [DocumentsOf(t) -> V]
    /\ g[0] = b
    /\ \A d \in DocumentsOf(t) \ {0} :
          g[d] = f[<<d, g[t.brother[d]], g[t.son[d]]>>]

\* A function on the documents that the values behind the links determine
\* exists: the least relation that follows the links has one value for each.
LEMMA TreeRecursionExists ==
    ASSUME NEW t, IsTree(t), NEW V, NEW b \in V,
           NEW f \in [DocumentsOf(t) \X V \X V -> V]
    PROVE  \E g : FollowsLinks(t, V, b, f, g)
<1> DEFINE D == DocumentsOf(t)
           Closed(R) ==
              /\ <<0, b>> \in R
              /\ \A d \in D \ {0}, x \in V, y \in V :
                    <<t.brother[d], x>> \in R /\ <<t.son[d], y>> \in R =>
                       <<d, f[<<d, x, y>>]>> \in R
           G == {p \in D \X V :
                     \A R \in SUBSET (D \X V) : Closed(R) => p \in R}
           One(d) == \E v \in V : /\ <<d, v>> \in G
                                  /\ \A w \in V : <<d, w>> \in G => w = v
           S == {d \in D : One(d)}
<1>0. /\ 0 \in D
      /\ \A d \in D : t.brother[d] \in D /\ t.son[d] \in D
  BY DEF IsTree
<1>1. \A d \in D, x \in V, y \in V : f[<<d, x, y>>] \in V
  OBVIOUS
<1>2. G \in SUBSET (D \X V)
  OBVIOUS
<1>3. <<0, b>> \in G
  BY <1>0
<1>4. ASSUME NEW d \in D \ {0}, NEW x \in V, NEW y \in V,
             <<t.brother[d], x>> \in G, <<t.son[d], y>> \in G
      PROVE  <<d, f[<<d, x, y>>]>> \in G
  <2>1. <<d, f[<<d, x, y>>]>> \in D \X V
    BY <1>1
  <2>2. ASSUME NEW R \in SUBSET (D \X V), Closed(R)
        PROVE  <<d, f[<<d, x, y>>]>> \in R
    <3>1. <<t.brother[d], x>> \in R /\ <<t.son[d], y>> \in R
      BY <1>4, <2>2
    <3> QED BY <2>2, <3>1
  <2> QED BY <2>1, <2>2
<1>5. ASSUME NEW R \in SUBSET (D \X V), Closed(R), NEW p \in G PROVE p \in R
  BY <1>5
<1> HIDE DEF G
<1>6. One(0)
  <2> DEFINE R == {p \in G : p[1] = 0 => p[2] = b}
  <2>1. R \in SUBSET (D \X V)
    BY <1>2
  <2>2. <<0, b>> \in R
    BY <1>3
  <2>3. ASSUME NEW d \in D \ {0}, NEW x \in V, NEW y \in V,
               <<t.brother[d], x>> \in R, <<t.son[d], y>> \in R
        PROVE  <<d, f[<<d, x, y>>]>> \in R
    <3>1. <<d, f[<<d, x, y>>]>> \in G
      BY <1>4, <2>3
    <3> QED BY <3>1
  <2>4. ASSUME NEW w \in V, <<0, w>> \in G PROVE w = b
    <3>1. Closed(R)
      BY <2>2, <2>3
    <3>2. <<0, w>> \in R
      <4> HIDE DEF R, Closed
      <4> QED BY <1>5, <2>1, <2>4, <3>1
    <3> QED BY <3>2
  <2> QED BY <1>3, <2>4
<1>7. ASSUME NEW d \in D \ {0}, One(t.son[d]), One(t.brother[d])
      PROVE  One(d)
  <2>1. PICK x \in V : /\ <<t.brother[d], x>> \in G
                       /\ \A w \in V : <<t.brother[d], w>> \in G => w = x
    BY <1>7
  <2>2. PICK y \in V : /\ <<t.son[d], y>> \in G
                       /\ \A w \in V : <<t.son[d], w>> \in G => w = y
    BY <1>7
  <2> DEFINE v == f[<<d, x, y>>]
             R == {p \in G : p[1] = d => p[2] = v}
  <2>3. v \in V /\ <<d, v>> \in G
    BY <1>1, <1>4, <2>1, <2>2
  <2>4. R \in SUBSET (D \X V)
    BY <1>2
  <2>5. <<0, b>> \in R
    BY <1>3
  <2>6. ASSUME NEW e \in D \ {0}, NEW x1 \in V, NEW y1 \in V,
               <<t.brother[e], x1>> \in R, <<t.son[e], y1>> \in R
        PROVE  <<e, f[<<e, x1, y1>>]>> \in R
    <3>1. <<t.brother[e], x1>> \in G /\ <<t.son[e], y1>> \in G
      BY <2>6
    <3>2. <<e, f[<<e, x1, y1>>]>> \in G
      BY <1>4, <3>1
    <3>3. e = d => x1 = x /\ y1 = y
      BY <2>1, <2>2, <3>1
    <3> QED BY <3>2, <3>3
  <2>7. ASSUME NEW w \in V, <<d, w>> \in G PROVE w = v
    <3>1. Closed(R)
      BY <2>5, <2>6
    <3>2. <<d, w>> \in R
      <4> HIDE DEF R, Closed
      <4> QED BY <1>5, <2>4, <2>7, <3>1
    <3> QED BY <3>2
  <2> QED BY <2>3, <2>7
<1> HIDE DEF One
<1>8. \A d \in D : One(d)
  <2>1. 0 \in S
    BY <1>0, <1>6
  <2>2. \A d \in D \ {0} : t.son[d] \in S /\ t.brother[d] \in S => d \in S
    BY <1>7
  <2>3. D \subseteq S
    <3> HIDE DEF S
    <3> QED BY <2>1, <2>2, AllDocuments
  <2> QED BY <2>3
<1> DEFINE g == [d \in D |-> CHOOSE v \in V : <<d, v>> \in G]
<1>9. ASSUME NEW d \in D
      PROVE  /\ g[d] \in V /\ <<d, g[d]>> \in G
             /\ \A w \in V : <<d, w>> \in G => w = g[d]
  BY <1>8 DEF One
<1>10. g \in [D -> V]
  BY <1>9
<1>11. g[0] = b
  BY <1>0, <1>3, <1>9
<1>12. ASSUME NEW d \in D \ {0}
       PROVE  g[d] = f[<<d, g[t.brother[d]], g[t.son[d]]>>]
  <2> HIDE DEF g
  <2>1. /\ g[t.brother[d]] \in V /\ <<t.brother[d], g[t.brother[d]]>> \in G
        /\ g[t.son[d]] \in V /\ <<t.son[d], g[t.son[d]]>> \in G
    BY <1>0, <1>9
  <2>2. <<d, f[<<d, g[t.brother[d]], g[t.son[d]]>>]>> \in G
    BY <1>4, <2>1
  <2>3. f[<<d, g[t.brother[d]], g[t.son[d]]>>] \in V
    BY <1>1, <2>1
  <2> QED BY <1>9, <2>2, <2>3
<1> HIDE DEF g
<1>13. FollowsLinks(t, V, b, f, g)
  BY <1>10, <1>11, <1>12 DEF FollowsLinks
<1> QED BY <1>13

-----------------------------------------------------------------------------
(* The subtrees of a tree.                                                 *)

\* The documents below the root.
Below(t) == DocumentsOf(t) \ {0}

IsVisits(t, f) ==
    f = [d \in DocumentsOf(t) |->
            IF d = 0 THEN <<>>
            ELSE <<d>> \o f[t.brother[d]] \o f[t.son[d]]]

\* The order of the visits exists, and is that of a document, of what is
\* behind it and of what is below it.
LEMMA VisitsAre ==
    ASSUME NEW t, IsTree(t)
    PROVE  /\ Visits(t)[0] = <<>>
           /\ \A d \in Below(t) :
                 /\ t.brother[d] \in DocumentsOf(t)
                 /\ t.son[d] \in DocumentsOf(t)
                 /\ Visits(t)[d] = <<d>> \o Visits(t)[t.brother[d]]
                                         \o Visits(t)[t.son[d]]
           /\ \A d \in DocumentsOf(t) : Visits(t)[d] \in Seq(Below(t))
<1> DEFINE D == DocumentsOf(t)
           V == Seq(Below(t))
           f == [p \in D \X V \X V |->
                    IF p[1] = 0 THEN <<>> ELSE <<p[1]>> \o p[2] \o p[3]]
<1>0. 0 \in D /\ \A d \in D : t.brother[d] \in D /\ t.son[d] \in D
  BY DEF IsTree
<1>1. ASSUME NEW d \in D, NEW x \in V, NEW y \in V
      PROVE  (IF d = 0 THEN <<>> ELSE <<d>> \o x \o y) \in V
  <2>1. d # 0 => d \in Below(t)
    BY DEF Below
  <2> QED BY <2>1
<1>2. <<>> \in V /\ f \in [D \X V \X V -> V]
  BY <1>1
<1>3. PICK g \in [D -> V] :
         /\ g[0] = <<>>
         /\ \A d \in D \ {0} : g[d] = f[<<d, g[t.brother[d]], g[t.son[d]]>>]
  <2>1. PICK e : e = <<>>
    OBVIOUS
  <2>2. e \in V
    BY <1>2, <2>1
  <2> HIDE DEF f, V
  <2>3. \E g : FollowsLinks(t, V, e, f, g)
    BY <1>2, <2>2, TreeRecursionExists
  <2> QED BY <2>1, <2>3 DEF FollowsLinks
<1>4. IsVisits(t, g)
  <2> DEFINE h == [d \in D |-> IF d = 0 THEN <<>>
                               ELSE <<d>> \o g[t.brother[d]] \o g[t.son[d]]]
  <2>1. ASSUME NEW d \in D PROVE g[d] = h[d]
    <3>1. CASE d = 0
      BY <1>0, <1>3, <3>1
    <3>2. CASE d # 0
      <4>1. g[t.brother[d]] \in V /\ g[t.son[d]] \in V
        BY <1>0, <1>3
      <4>2. f[<<d, g[t.brother[d]], g[t.son[d]]>>] =
               <<d>> \o g[t.brother[d]] \o g[t.son[d]]
        BY <3>2, <4>1
      <4>3. g[d] = f[<<d, g[t.brother[d]], g[t.son[d]]>>]
        BY <1>3, <3>2
      <4> HIDE DEF f
      <4> QED BY <3>2, <4>2, <4>3
    <3> QED BY <3>1, <3>2
  <2>2. DOMAIN h = D /\ DOMAIN g = D
    BY <1>3
  <2>3. g = h
    <3>1. g = [d \in D |-> g[d]]
      BY <1>3
    <3>2. h = [d \in D |-> h[d]]
      OBVIOUS
    <3> HIDE DEF h
    <3> QED BY <2>1, <3>1, <3>2
  <2> QED BY <2>3, Zenon DEF IsVisits
<1>5. Visits(t) = CHOOSE v : IsVisits(t, v)
  BY Zenon DEF Visits, IsVisits
<1>6. IsVisits(t, Visits(t))
  BY <1>4, <1>5, Zenon
<1>7. PICK v : v = Visits(t)
  OBVIOUS
<1>8. v = [d \in D |-> IF d = 0 THEN <<>>
                       ELSE <<d>> \o v[t.brother[d]] \o v[t.son[d]]]
  BY <1>6, <1>7 DEF IsVisits
<1>9. /\ v[0] = <<>>
      /\ \A d \in Below(t) : v[d] = <<d>> \o v[t.brother[d]] \o v[t.son[d]]
  BY <1>0, <1>8 DEF Below
<1>10. \A d \in D : v[d] \in V
  <2> DEFINE S == {d \in D : v[d] \in V}
  <2>1. 0 \in S
    BY <1>0, <1>2, <1>9
  <2>2. ASSUME NEW d \in D \ {0}, t.son[d] \in S, t.brother[d] \in S
        PROVE  d \in S
    <3>1. /\ v[t.son[d]] \in V /\ v[t.brother[d]] \in V
          /\ v[d] = <<d>> \o v[t.brother[d]] \o v[t.son[d]]
      BY <1>9, <2>2 DEF Below
    <3>2. <<d>> \o v[t.brother[d]] \o v[t.son[d]] \in V
      BY <3>1 DEF Below
    <3> QED BY <3>1, <3>2
  <2>3. D \subseteq S
    <3> HIDE DEF S
    <3> QED BY <2>1, <2>2, AllDocuments
  <2> QED BY <2>3
<1> QED BY <1>0, <1>7, <1>9, <1>10 DEF Below

IsBrothers(t, f) ==
    f = [d \in DocumentsOf(t) |->
            IF d = 0 THEN <<>> ELSE <<d>> \o f[t.brother[d]]]

\* So does the order of the brothers.
LEMMA BrothersAre ==
    ASSUME NEW t, IsTree(t)
    PROVE  /\ Brothers(t)[0] = <<>>
           /\ \A d \in Below(t) :
                 Brothers(t)[d] = <<d>> \o Brothers(t)[t.brother[d]]
           /\ \A d \in DocumentsOf(t) : Brothers(t)[d] \in Seq(Below(t))
<1> DEFINE D == DocumentsOf(t)
           V == Seq(Below(t))
           f == [p \in D \X V \X V |->
                    IF p[1] = 0 THEN <<>> ELSE <<p[1]>> \o p[2]]
<1>0. 0 \in D /\ \A d \in D : t.brother[d] \in D /\ t.son[d] \in D
  BY DEF IsTree
<1>1. ASSUME NEW d \in D, NEW x \in V
      PROVE  (IF d = 0 THEN <<>> ELSE <<d>> \o x) \in V
  <2>1. d # 0 => d \in Below(t)
    BY DEF Below
  <2> QED BY <2>1
<1>2. <<>> \in V /\ f \in [D \X V \X V -> V]
  BY <1>1
<1>3. PICK g \in [D -> V] :
         /\ g[0] = <<>>
         /\ \A d \in D \ {0} : g[d] = f[<<d, g[t.brother[d]], g[t.son[d]]>>]
  <2>1. PICK e : e = <<>>
    OBVIOUS
  <2>2. e \in V
    BY <1>2, <2>1
  <2> HIDE DEF f, V
  <2>3. \E g : FollowsLinks(t, V, e, f, g)
    BY <1>2, <2>2, TreeRecursionExists
  <2> QED BY <2>1, <2>3 DEF FollowsLinks
<1>4. IsBrothers(t, g)
  <2> DEFINE h == [d \in D |-> IF d = 0 THEN <<>>
        ELSE <<d>> \o g[t.brother[d]]]
  <2>1. ASSUME NEW d \in D PROVE g[d] = h[d]
    <3>1. CASE d = 0
      BY <1>0, <1>3, <3>1
    <3>2. CASE d # 0
      <4>1. g[t.brother[d]] \in V /\ g[t.son[d]] \in V
        BY <1>0, <1>3
      <4>2. f[<<d, g[t.brother[d]], g[t.son[d]]>>] = <<d>> \o g[t.brother[d]]
        BY <3>2, <4>1
      <4>3. g[d] = f[<<d, g[t.brother[d]], g[t.son[d]]>>]
        BY <1>3, <3>2
      <4> HIDE DEF f
      <4> QED BY <3>2, <4>2, <4>3
    <3> QED BY <3>1, <3>2
  <2>3. g = h
    <3>1. g = [d \in D |-> g[d]]
      BY <1>3
    <3>2. h = [d \in D |-> h[d]]
      OBVIOUS
    <3> HIDE DEF h
    <3> QED BY <2>1, <3>1, <3>2
  <2> QED BY <2>3, Zenon DEF IsBrothers
<1>5. Brothers(t) = CHOOSE v : IsBrothers(t, v)
  BY Zenon DEF Brothers, IsBrothers
<1>6. IsBrothers(t, Brothers(t))
  BY <1>4, <1>5, Zenon
<1>7. PICK v : v = Brothers(t)
  OBVIOUS
<1>8. v = [d \in D |-> IF d = 0 THEN <<>> ELSE <<d>> \o v[t.brother[d]]]
  BY <1>6, <1>7 DEF IsBrothers
<1>9. /\ v[0] = <<>>
      /\ \A d \in Below(t) : v[d] = <<d>> \o v[t.brother[d]]
  BY <1>0, <1>8 DEF Below
<1>10. \A d \in D : v[d] \in V
  <2> DEFINE S == {d \in D : v[d] \in V}
  <2>1. 0 \in S
    BY <1>0, <1>2, <1>9
  <2>2. ASSUME NEW d \in D \ {0}, t.son[d] \in S, t.brother[d] \in S
        PROVE  d \in S
    <3>1. v[t.brother[d]] \in V /\ v[d] = <<d>> \o v[t.brother[d]]
      BY <1>9, <2>2 DEF Below
    <3>2. <<d>> \o v[t.brother[d]] \in V
      BY <3>1 DEF Below
    <3> QED BY <3>1, <3>2
  <2>3. D \subseteq S
    <3> HIDE DEF S
    <3> QED BY <2>1, <2>2, AllDocuments
  <2> QED BY <2>3
<1> QED BY <1>7, <1>9, <1>10

\* A document's visits begin with it; those behind and below it follow.
VisitsSplit(t, d, v, b, s) ==
    /\ v \in Seq(Below(t)) /\ b \in Seq(Below(t)) /\ s \in Seq(Below(t))
    /\ Len(v) = 1 + Len(b) + Len(s)
    /\ v[1] = d
    /\ \A j \in 1 .. Len(b) : v[1 + j] = b[j]
    /\ \A j \in 1 .. Len(s) : v[1 + Len(b) + j] = s[j]
    /\ t.brother[d] = 0 => Len(b) = 0
    /\ t.son[d] = 0 => Len(s) = 0

LEMMA VisitsBehind ==
    ASSUME NEW t, IsTree(t), NEW d \in Below(t)
    PROVE  VisitsSplit(t, d, Visits(t)[d], Visits(t)[t.brother[d]],
                       Visits(t)[t.son[d]])
<1>1. PICK v, b, s : /\ v = Visits(t)[d]
                     /\ b = Visits(t)[t.brother[d]]
                     /\ s = Visits(t)[t.son[d]]
  OBVIOUS
<1>2. /\ d \in DocumentsOf(t)
      /\ t.brother[d] \in DocumentsOf(t) /\ t.son[d] \in DocumentsOf(t)
      /\ v = <<d>> \o b \o s
      /\ Visits(t)[0] = <<>>
  BY <1>1, VisitsAre DEF Below
<1>3. v \in Seq(Below(t)) /\ b \in Seq(Below(t)) /\ s \in Seq(Below(t))
  BY <1>1, <1>2, VisitsAre
<1>4. /\ t.brother[d] = 0 => Len(b) = 0
      /\ t.son[d] = 0 => Len(s) = 0
  BY <1>1, <1>2
<1>5. PICK c : c = <<d>> \o b
  OBVIOUS
<1>6. /\ c \in Seq(Below(t)) /\ Len(c) = 1 + Len(b) /\ c[1] = d
      /\ \A j \in 1 .. Len(b) : c[1 + j] = b[j]
  BY <1>3, <1>5
<1>7. v = c \o s
  BY <1>2, <1>5
<1>8. Len(v) = Len(c) + Len(s)
  <2>1. c \in Seq(Below(t)) /\ s \in Seq(Below(t))
    BY <1>3, <1>6
  <2> QED BY ONLY <1>7, <2>1
<1>9. \A j \in 1 .. Len(c) : v[j] = c[j]
  BY <1>3, <1>6, <1>7
<1>10. \A j \in 1 .. Len(s) : v[Len(c) + j] = s[j]
  BY <1>3, <1>6, <1>7
<1>11. Len(v) = 1 + Len(b) + Len(s)
  BY <1>3, <1>6, <1>8
<1>12. v[1] = d /\ \A j \in 1 .. Len(b) : v[1 + j] = b[j]
  BY <1>3, <1>6, <1>9
<1>13. \A j \in 1 .. Len(s) : v[1 + Len(b) + j] = s[j]
  BY <1>6, <1>10
<1>14. VisitsSplit(t, d, v, b, s)
  BY <1>3, <1>4, <1>11, <1>12, <1>13 DEF VisitsSplit
<1> QED BY <1>1, <1>14

\* So do its brothers.
BrothersSplit(t, d, v, b) ==
    /\ v \in Seq(Below(t)) /\ b \in Seq(Below(t))
    /\ Len(v) = 1 + Len(b)
    /\ v[1] = d
    /\ \A j \in 1 .. Len(b) : v[1 + j] = b[j]
    /\ IF t.brother[d] = 0 THEN Len(b) = 0 ELSE Len(b) >= 1

LEMMA BrothersBehind ==
    ASSUME NEW t, IsTree(t), NEW d \in Below(t)
    PROVE  BrothersSplit(t, d, Brothers(t)[d], Brothers(t)[t.brother[d]])
<1>0. PICK v, b : v = Brothers(t)[d] /\ b = Brothers(t)[t.brother[d]]
  OBVIOUS
<1>1. /\ d \in DocumentsOf(t) /\ t.brother[d] \in DocumentsOf(t)
      /\ v = <<d>> \o b
      /\ Brothers(t)[0] = <<>>
  <2>1. d \in DocumentsOf(t) /\ t.brother[d] \in DocumentsOf(t)
    BY DEF Below, IsTree
  <2> QED BY <1>0, <2>1, BrothersAre
<1>2. v \in Seq(Below(t)) /\ b \in Seq(Below(t))
  BY <1>0, <1>1, BrothersAre
<1>3. t.brother[d] = 0 => Len(b) = 0
  BY <1>0, <1>1
<1>4. t.brother[d] # 0 => Len(b) >= 1
  <2> SUFFICES ASSUME t.brother[d] # 0 PROVE Len(b) >= 1
    OBVIOUS
  <2>1. t.brother[d] \in Below(t)
    BY <1>1 DEF Below
  <2>2. PICK e, c : e = t.brother[d] /\ c = Brothers(t)[t.brother[e]]
    OBVIOUS
  <2>3. e \in Below(t) /\ b = <<e>> \o c
    BY <1>0, <2>1, <2>2, BrothersAre
  <2>4. c \in Seq(Below(t))
    BY <2>2, <2>3, BrothersAre DEF Below, IsTree
  <2> QED BY <2>3, <2>4
<1>5. /\ Len(v) = 1 + Len(b) /\ v[1] = d
      /\ \A j \in 1 .. Len(b) : v[1 + j] = b[j]
  BY <1>1, <1>2
<1>6. BrothersSplit(t, d, v, b)
  BY <1>2, <1>3, <1>4, <1>5 DEF BrothersSplit
<1> QED BY <1>0, <1>6

\* The brothers are no more than the visits.
LEMMA BrothersAreVisited ==
    ASSUME NEW t, IsTree(t), NEW d \in DocumentsOf(t)
    PROVE  /\ Len(Brothers(t)[d]) \in Nat /\ Len(Visits(t)[d]) \in Nat
           /\ Len(Brothers(t)[d]) <= Len(Visits(t)[d])
<1> DEFINE S == {e \in DocumentsOf(t) :
                    Len(Brothers(t)[e]) <= Len(Visits(t)[e])}
<1>0. \A e \in DocumentsOf(t) :
         Len(Brothers(t)[e]) \in Nat /\ Len(Visits(t)[e]) \in Nat
  <2> TAKE e \in DocumentsOf(t)
  <2>1. Brothers(t)[e] \in Seq(Below(t)) /\ Visits(t)[e] \in Seq(Below(t))
    BY BrothersAre, VisitsAre
  <2> QED BY <2>1
<1>1. 0 \in S
  <2>1. Visits(t)[0] = <<>> /\ Brothers(t)[0] = <<>>
    BY VisitsAre, BrothersAre
  <2>2. 0 \in DocumentsOf(t)
    BY DEF IsTree
  <2> QED BY <2>1, <2>2
<1>2. ASSUME NEW e \in DocumentsOf(t) \ {0}, t.son[e] \in S, t.brother[e] \in S
      PROVE  e \in S
  <2>1. PICK v, b, s : /\ v = Visits(t)[e] /\ b = Visits(t)[t.brother[e]]
                       /\ s = Visits(t)[t.son[e]]
    OBVIOUS
  <2>2. PICK w, c : w = Brothers(t)[e] /\ c = Brothers(t)[t.brother[e]]
    OBVIOUS
  <2>3. e \in Below(t)
    BY DEF Below
  <2>4. VisitsSplit(t, e, v, b, s)
    BY <2>1, <2>3, VisitsBehind
  <2>5. BrothersSplit(t, e, w, c)
    BY <2>2, <2>3, BrothersBehind
  <2>6. Len(c) <= Len(b)
    BY <1>2, <2>1, <2>2
  <2>7. Len(w) <= Len(v)
    BY <2>4, <2>5, <2>6 DEF VisitsSplit, BrothersSplit
  <2> QED BY <2>1, <2>2, <2>7
<1>3. DocumentsOf(t) \subseteq S
  <2> HIDE DEF S
  <2> QED BY <1>1, <1>2, AllDocuments
<1> QED BY <1>0, <1>3

-----------------------------------------------------------------------------
(* Lists: what is kept of them, what steps select.                         *)

IsKept(list, marks, kept) ==
    kept = [k \in 0 .. Len(list) |->
               IF k = 0 THEN <<>>
               ELSE IF k \in marks THEN Append(kept[k - 1], list[k])
               ELSE kept[k - 1]]

\* What is kept of a list grows by the places that are marked.
LEMMA KeptAre ==
    ASSUME NEW X, NEW list \in Seq(X), NEW marks
    PROVE  /\ Kept(list, marks)[0] = <<>>
           /\ \A k \in 1 .. Len(list) :
                 Kept(list, marks)[k] =
                    IF k \in marks
                       THEN Append(Kept(list, marks)[k - 1], list[k])
                    ELSE Kept(list, marks)[k - 1]
           /\ \A k \in 0 .. Len(list) : Kept(list, marks)[k] \in Seq(X)
<1> DEFINE n == Len(list)
           S == Seq(X)
           f == [p \in (1 .. n) \X S |->
                    IF p[1] \in marks THEN Append(p[2], list[p[1]]) ELSE p[2]]
<1>0. n \in Nat
  OBVIOUS
<1>1. \A k \in 1 .. n, x \in S :
         (IF k \in marks THEN Append(x, list[k]) ELSE x) \in S
  OBVIOUS
<1>2. f \in [(1 .. n) \X S -> S]
  BY <1>1
<1>3. \E g : Recurses(n, S, <<>>, f, g)
  <2>1. PICK e : e = <<>>
    OBVIOUS
  <2>2. e \in S
    BY <2>1
  <2> HIDE DEF f, S
  <2>3. \E g : Recurses(n, S, e, f, g)
    BY <1>0, <1>2, <2>2, RecursionExists
  <2> QED BY <2>1, <2>3
<1>4. PICK g : Recurses(n, S, <<>>, f, g)
  BY <1>3
<1>5. /\ g \in [0 .. n -> S]
      /\ g[0] = <<>>
      /\ \A k \in 1 .. n :
            g[k] = IF k \in marks THEN Append(g[k - 1], list[k]) ELSE g[k - 1]
  <2>1. /\ g \in [0 .. n -> S] /\ g[0] = <<>>
        /\ \A k \in 1 .. n : g[k] = f[<<k, g[k - 1]>>]
    BY <1>4 DEF Recurses
  <2>2. ASSUME NEW k \in 1 .. n
        PROVE  g[k] = IF k \in marks THEN Append(g[k - 1], list[k])
                      ELSE g[k - 1]
    <3>1. k - 1 \in 0 .. n
      OBVIOUS
    <3>2. g[k - 1] \in S /\ g[k] = f[<<k, g[k - 1]>>]
      BY <2>1, <3>1
    <3> QED BY <3>2
  <2> QED BY <2>1, <2>2
<1>6. IsKept(list, marks, g)
  <2> DEFINE h == [k \in 0 .. n |-> IF k = 0 THEN <<>>
                                    ELSE IF k \in marks
                                    THEN Append(g[k - 1], list[k])
                                    ELSE g[k - 1]]
  <2>1. ASSUME NEW k \in 0 .. n PROVE g[k] = h[k]
    <3>1. k = 0 \/ k \in 1 .. n
      OBVIOUS
    <3>2. CASE k = 0
      BY <1>0, <1>5, <3>2
    <3>3. CASE k \in 1 .. n
      <4>1. g[k] = IF k \in marks THEN Append(g[k - 1], list[k]) ELSE g[k - 1]
        BY <1>5, <3>3
      <4>2. k # 0
        BY <3>3
      <4> QED BY <4>1, <4>2
    <3> QED BY <3>1, <3>2, <3>3
  <2>2. g = [k \in 0 .. n |-> g[k]] /\ h = [k \in 0 .. n |-> h[k]]
    BY <1>5
  <2>3. g = h
    <3> HIDE DEF h
    <3> QED BY <2>1, <2>2
  <2> QED BY <2>3, Zenon DEF IsKept
<1>7. Kept(list, marks) = CHOOSE x : IsKept(list, marks, x)
  BY Zenon DEF Kept, IsKept
<1>8. IsKept(list, marks, Kept(list, marks))
  BY <1>6, <1>7, Zenon
<1>9. PICK v : v = Kept(list, marks)
  OBVIOUS
<1>10. v = [k \in 0 .. n |->
               IF k = 0 THEN <<>>
               ELSE IF k \in marks THEN Append(v[k - 1], list[k])
               ELSE v[k - 1]]
  BY <1>8, <1>9 DEF IsKept
<1>11. /\ v[0] = <<>>
       /\ \A k \in 1 .. n :
             v[k] = IF k \in marks THEN Append(v[k - 1], list[k]) ELSE v[k - 1]
  <2>1. 0 \in 0 .. n /\ \A k \in 1 .. n : k \in 0 .. n /\ k # 0
    BY <1>0
  <2> QED BY <1>10, <2>1
<1>12. \A k \in 0 .. n : v[k] \in S
  <2>1. v[0] \in S
    BY <1>11
  <2>2. \A k \in 1 .. n : v[k - 1] \in S => v[k] \in S
    BY <1>1, <1>11
  <2> HIDE DEF S, n
  <2> QED BY <1>0, <2>1, <2>2, RecursionIn
<1> QED BY <1>9, <1>11, <1>12

\* What is kept comes from the marked places.
LEMMA KeptIn ==
    ASSUME NEW X, NEW list \in Seq(X), NEW marks, NEW Y,
           \A k \in 1 .. Len(list) : k \in marks => list[k] \in Y
    PROVE  \A k \in 0 .. Len(list) : Kept(list, marks)[k] \in Seq(Y)
<1>1. PICK v, S, n : v = Kept(list, marks) /\ S = Seq(Y) /\ n = Len(list)
  OBVIOUS
<1>2. v[0] \in S
  BY <1>1, KeptAre
<1>3. ASSUME NEW k \in 1 .. n, v[k - 1] \in S PROVE v[k] \in S
  <2>1. v[k] = IF k \in marks THEN Append(v[k - 1], list[k]) ELSE v[k - 1]
    BY <1>1, KeptAre
  <2> QED BY <1>1, <1>3, <2>1
<1>4. n \in Nat
  BY <1>1
<1>5. \A k \in 0 .. n : v[k] \in S
  BY <1>2, <1>3, <1>4, RecursionIn
<1> QED BY <1>1, <1>5

\* Lists that agree so far are kept alike so far.
LEMMA KeptAlike ==
    ASSUME NEW X, NEW a \in Seq(X), NEW b \in Seq(X), NEW m1, NEW m2,
           NEW n \in Nat, n <= Len(a), n <= Len(b),
           \A k \in 1 .. n : a[k] = b[k] /\ (k \in m1 <=> k \in m2)
    PROVE  Kept(a, m1)[n] = Kept(b, m2)[n]
<1>1. PICK v, w : v = Kept(a, m1) /\ w = Kept(b, m2)
  OBVIOUS
<1> DEFINE S == {k \in 0 .. n : v[k] = w[k]}
<1>2. v[0] = <<>> /\ w[0] = <<>>
  BY <1>1, KeptAre
<1>3. 0 \in S
  BY <1>2
<1>4. ASSUME NEW k \in 1 .. n, k - 1 \in S PROVE k \in S
  <2>1. k \in 1 .. Len(a) /\ k \in 1 .. Len(b)
    OBVIOUS
  <2>2. v[k] = IF k \in m1 THEN Append(v[k - 1], a[k]) ELSE v[k - 1]
    BY <1>1, <2>1, KeptAre
  <2>3. w[k] = IF k \in m2 THEN Append(w[k - 1], b[k]) ELSE w[k - 1]
    BY <1>1, <2>1, KeptAre
  <2>4. v[k - 1] = w[k - 1] /\ a[k] = b[k] /\ (k \in m1 <=> k \in m2)
    BY <1>4
  <2> QED BY <2>2, <2>3, <2>4
<1>5. 0 .. n \subseteq S
  <2> HIDE DEF S
  <2> QED BY <1>3, <1>4, AllNumbers
<1> QED BY <1>1, <1>5

\* The first sons of a list are documents below the root.
LEMMA SonsOfAre ==
    ASSUME NEW t, IsTree(t), NEW l \in Seq(Below(t))
    PROVE  SonsOf(t, <<>>) = <<>> /\ SonsOf(t, l) \in Seq(Below(t))
<1> DEFINE D == DocumentsOf(t)
           Sons(x) == [k \in 1 .. Len(x) |-> t.son[x[k]]]
           Having(x) == {k \in 1 .. Len(x) : Sons(x)[k] # 0}
<1>1. \A e \in Below(t) : t.son[e] \in D
  BY DEF Below, IsTree
<1>2. ASSUME NEW x \in Seq(Below(t))
      PROVE Sons(x) \in Seq(D) /\ Len(Sons(x)) = Len(x)
  BY <1>1
<1>3. SonsOf(t, <<>>) = <<>>
  <2>1. PICK e : e = <<>>
    OBVIOUS
  <2>2. e \in Seq(Below(t)) /\ Len(e) = 0
    BY <2>1
  <2>3. SonsOf(t, e) = Kept(Sons(e), Having(e))[Len(e)]
    BY DEF SonsOf
  <2>4. Sons(e) \in Seq(D)
    BY <1>2, <2>2
  <2>5. Kept(Sons(e), Having(e))[0] = <<>>
    <3> HIDE DEF Sons, Having
    <3> QED BY <2>4, KeptAre
  <2> QED BY <2>1, <2>2, <2>3, <2>5
<1>4. PICK b, mb : b = Sons(l) /\ mb = Having(l)
  OBVIOUS
<1>5. b \in Seq(D) /\ Len(b) = Len(l)
  BY <1>2, <1>4
<1>6. SonsOf(t, l) = Kept(b, mb)[Len(l)]
  BY <1>4, <1>5 DEF SonsOf
<1>7. SonsOf(t, l) \in Seq(Below(t))
  <2>1. \A k \in 1 .. Len(b) : k \in mb => b[k] \in Below(t)
    BY <1>4, <1>5 DEF Below
  <2>2. Len(l) \in 0 .. Len(b)
    BY <1>5
  <2> QED BY <1>5, <1>6, <2>1, <2>2, KeptIn
<1> QED BY <1>3, <1>7

\* The first sons of a list with one document more.
LEMMA SonsOfMore ==
    ASSUME NEW t, IsTree(t), NEW l \in Seq(Below(t)), NEW d \in Below(t)
    PROVE  SonsOf(t, Append(l, d)) =
              IF t.son[d] # 0 THEN Append(SonsOf(t, l), t.son[d])
              ELSE SonsOf(t, l)
<1> DEFINE D == DocumentsOf(t)
           Sons(x) == [k \in 1 .. Len(x) |-> t.son[x[k]]]
           Having(x) == {k \in 1 .. Len(x) : Sons(x)[k] # 0}
<1>1. \A e \in Below(t) : t.son[e] \in D
  BY DEF Below, IsTree
<1>2. ASSUME NEW x \in Seq(Below(t))
      PROVE Sons(x) \in Seq(D) /\ Len(Sons(x)) = Len(x)
  BY <1>1
<1>3. PICK m : m = Append(l, d)
  OBVIOUS
<1>4. /\ m \in Seq(Below(t)) /\ Len(m) = Len(l) + 1 /\ m[Len(m)] = d
      /\ \A k \in 1 .. Len(l) : m[k] = l[k]
  BY <1>3
<1>5. PICK a, b, ma, mb : /\ a = Sons(m) /\ b = Sons(l)
                          /\ ma = Having(m) /\ mb = Having(l)
  OBVIOUS
<1>6. /\ a \in Seq(D) /\ b \in Seq(D) /\ Len(a) = Len(l) + 1 /\ Len(b) = Len(l)
  BY <1>2, <1>4, <1>5
<1>7. \A k \in 1 .. Len(l) : a[k] = b[k] /\ (k \in ma <=> k \in mb)
  BY <1>4, <1>5
<1>8. SonsOf(t, m) = Kept(a, ma)[Len(a)] /\ SonsOf(t, l) = Kept(b, mb)[Len(l)]
  BY <1>4, <1>5, <1>6 DEF SonsOf
<1>9. Kept(a, ma)[Len(l)] = Kept(b, mb)[Len(l)]
  <2>1. PICK n : n = Len(l)
    OBVIOUS
  <2>2. n \in Nat /\ n <= Len(a) /\ n <= Len(b)
    BY <1>6, <2>1
  <2>3. \A k \in 1 .. n : a[k] = b[k] /\ (k \in ma <=> k \in mb)
    BY <1>7, <2>1
  <2>4. Kept(a, ma)[n] = Kept(b, mb)[n]
    <3>1. a \in Seq(D) /\ b \in Seq(D)
      BY <1>6
    <3> HIDE DEF D
    <3> QED BY ONLY <2>2, <2>3, <3>1, KeptAlike
  <2> QED BY <2>1, <2>4
<1>10. a[Len(a)] = t.son[d] /\ (Len(a) \in ma <=> t.son[d] # 0)
  BY <1>4, <1>5, <1>6
<1>11. Kept(a, ma)[Len(a)] =
          IF Len(a) \in ma THEN Append(Kept(a, ma)[Len(a) - 1], a[Len(a)])
          ELSE Kept(a, ma)[Len(a) - 1]
  <2>1. Len(a) \in 1 .. Len(a)
    BY <1>6
  <2> QED BY <1>6, <2>1, KeptAre
<1>12. Len(a) - 1 = Len(l)
  BY <1>6
<1>13. SonsOf(t, m) = IF t.son[d] # 0 THEN Append(SonsOf(t, l), t.son[d])
                      ELSE SonsOf(t, l)
  BY <1>8, <1>9, <1>10, <1>11, <1>12
<1> QED BY <1>3, <1>13

-----------------------------------------------------------------------------
(* Predicates: what generalRes holds at the start makes no difference.     *)

IsGeneral(chain, document, number, garbage, general) ==
    general = [k \in 0 .. Len(chain) |->
                  IF k = 0 THEN garbage
                  ELSE IF chain[k].type = "BY_ELEMENT" THEN general[k - 1]
                  ELSE Combine(chain[k], general[k - 1],
                               PredicateHolds(chain[k], document, number))]

LEMMA CombineIsBoolean ==
    ASSUME NEW p, p.logOp \in {"NONE", "AND", "OR"},
           NEW x \in BOOLEAN, NEW r \in BOOLEAN
    PROVE  Combine(p, x, r) \in BOOLEAN
<1>1. CASE p.logOp = "NONE"
  <2>1. Combine(p, x, r) = r
    BY <1>1, SMT DEF Combine
  <2> QED BY <2>1, Zenon
<1>2. CASE p.logOp = "AND"
  <2>1. Combine(p, x, r) = (x /\ r)
    BY <1>2, SMT DEF Combine
  <2> QED BY <2>1, Zenon
<1>3. CASE p.logOp = "OR"
  <2>1. Combine(p, x, r) = (x \/ r)
    BY <1>3, SMT DEF Combine
  <2> QED BY <2>1, Zenon
<1> QED BY <1>1, <1>2, <1>3

LEMMA PredicateIsBoolean ==
    ASSUME NEW p, NEW document, NEW number
    PROVE  PredicateHolds(p, document, number) \in BOOLEAN
BY Zenon DEF PredicateHolds

LEMMA GeneralExists ==
    ASSUME NEW chain, IsChain(chain), NEW document, NEW number,
           NEW garbage \in BOOLEAN
    PROVE  \E general : IsGeneral(chain, document, number, garbage, general)
<1>1. PICK n, holds :
         /\ n = Len(chain)
         /\ holds = [k \in 1 .. n |->
                        PredicateHolds(chain[k], document, number)]
  OBVIOUS
<1>2. n \in Nat /\ holds \in [1 .. n -> BOOLEAN]
  <2>1. \A k \in 1 .. n :
          PredicateHolds(chain[k], document, number) \in BOOLEAN
    BY PredicateIsBoolean
  <2> QED BY <1>1, <2>1 DEF IsChain
<1> DEFINE After(k, x) == IF chain[k].type = "BY_ELEMENT" THEN x
                          ELSE Combine(chain[k], x, holds[k])
           f == [p \in (1 .. n) \X BOOLEAN |-> After(p[1], p[2])]
<1>3. ASSUME NEW k \in 1 .. n, NEW x \in BOOLEAN PROVE After(k, x) \in BOOLEAN
  <2>1. chain[k].logOp \in {"NONE", "AND", "OR"} /\ holds[k] \in BOOLEAN
    BY <1>1, <1>2 DEF IsChain
  <2>2. Combine(chain[k], x, holds[k]) \in BOOLEAN
    BY <2>1, CombineIsBoolean
  <2> QED BY <2>2
<1> HIDE DEF After
<1>4. f \in [(1 .. n) \X BOOLEAN -> BOOLEAN]
  BY <1>3
<1>5. PICK g : Recurses(n, BOOLEAN, garbage, f, g)
  <2> HIDE DEF f
  <2> QED BY <1>2, <1>4, RecursionExists
<1>6. /\ g \in [0 .. n -> BOOLEAN]
      /\ g[0] = garbage
      /\ \A k \in 1 .. n : g[k] = After(k, g[k - 1])
  <2>1. /\ g \in [0 .. n -> BOOLEAN] /\ g[0] = garbage
        /\ \A k \in 1 .. n : g[k] = f[<<k, g[k - 1]>>]
    BY <1>5 DEF Recurses
  <2>2. ASSUME NEW k \in 1 .. n PROVE g[k] = After(k, g[k - 1])
    <3>1. k - 1 \in 0 .. n
      BY <1>2
    <3>2. g[k - 1] \in BOOLEAN /\ g[k] = f[<<k, g[k - 1]>>]
      BY <2>1, <3>1
    <3>3. <<k, g[k - 1]>> \in (1 .. n) \X BOOLEAN
      BY <3>2
    <3> QED BY <3>2, <3>3
  <2> QED BY <2>1, <2>2
<1>7. ASSUME NEW k \in 0 .. n
      PROVE  g[k] = IF k = 0 THEN garbage
                    ELSE IF chain[k].type = "BY_ELEMENT" THEN g[k - 1]
                    ELSE Combine(chain[k], g[k - 1],
                                 PredicateHolds(chain[k], document, number))
  <2>1. CASE k = 0
    BY <1>6, <2>1
  <2>2. CASE k # 0
    <3>1. k \in 1 .. n
      BY <1>2, <2>2
    <3>2. g[k] = After(k, g[k - 1])
      BY <1>6, <3>1
    <3>3. holds[k] = PredicateHolds(chain[k], document, number)
      BY <1>1, <3>1
    <3> QED BY <2>2, <3>2, <3>3 DEF After
  <2> QED BY <2>1, <2>2
<1>8. g = [k \in 0 .. n |->
              IF k = 0 THEN garbage
              ELSE IF chain[k].type = "BY_ELEMENT" THEN g[k - 1]
              ELSE Combine(chain[k], g[k - 1],
                           PredicateHolds(chain[k], document, number))]
  <2>1. g = [k \in 0 .. n |-> g[k]]
    BY <1>6
  <2> QED BY ONLY <1>7, <2>1, Zenon
<1> QED BY <1>1, <1>8, Zenon DEF IsGeneral

\* The value a chain is calculated to.
LEMMA CalculatedIs ==
    ASSUME NEW chain, IsChain(chain), NEW document, NEW number,
           NEW garbage \in BOOLEAN
    PROVE  \E general :
              /\ IsGeneral(chain, document, number, garbage, general)
              /\ CalculatePredicate(chain, document, number, garbage) =
                    (chain = <<>> \/ general[Len(chain)])
<1> DEFINE general == CHOOSE g :
                         IsGeneral(chain, document, number, garbage, g)
<1>1. IsGeneral(chain, document, number, garbage, general)
  BY GeneralExists, Zenon
<1>2. CalculatePredicate(chain, document, number, garbage) =
         (chain = <<>> \/ general[Len(chain)])
  BY Zenon DEF CalculatePredicate, IsGeneral
<1> QED BY <1>1, <1>2, Zenon

LEMMA GarbageIsOverwritten ==
    ASSUME NEW chain, IsChain(chain), NEW document, NEW number,
           NEW garbage \in BOOLEAN
    PROVE  CalculatePredicate(chain, document, number, garbage) =
           CalculatePredicate(chain, document, number, FALSE)
<1>1. PICK g : /\ IsGeneral(chain, document, number, garbage, g)
               /\ CalculatePredicate(chain, document, number, garbage) =
                     (chain = <<>> \/ g[Len(chain)])
  BY CalculatedIs
<1>2. PICK h : /\ IsGeneral(chain, document, number, FALSE, h)
               /\ CalculatePredicate(chain, document, number, FALSE) =
                     (chain = <<>> \/ h[Len(chain)])
  BY CalculatedIs
<1>3. PICK n : n = Len(chain)
  OBVIOUS
<1>4. n \in Nat
  BY <1>3 DEF IsChain
<1>5. CASE chain = <<>>
  BY <1>1, <1>2, <1>5, Zenon
<1>6. CASE chain # <<>>
  <2> DEFINE S == {k \in 0 .. n : k = 0 \/ g[k] = h[k]}
             P(k) == PredicateHolds(chain[k], document, number)
  <2> HIDE DEF P
  <2>1. 0 \in S
    BY <1>4
  <2>2. ASSUME NEW k \in 1 .. n
        PROVE  /\ g[k] = IF chain[k].type = "BY_ELEMENT" THEN g[k - 1]
                         ELSE Combine(chain[k], g[k - 1], P(k))
               /\ h[k] = IF chain[k].type = "BY_ELEMENT" THEN h[k - 1]
                         ELSE Combine(chain[k], h[k - 1], P(k))
    <3>1. k \in 0 .. Len(chain) /\ k # 0
      BY <1>3, <1>4
    <3>2. g[k] = IF chain[k].type = "BY_ELEMENT" THEN g[k - 1]
                 ELSE Combine(chain[k], g[k - 1], P(k))
      <4>1. PICK E : E = [j \in 0 .. Len(chain) |->
                  IF j = 0 THEN garbage
                  ELSE IF chain[j].type = "BY_ELEMENT" THEN g[j - 1]
                  ELSE Combine(chain[j], g[j - 1],
                               PredicateHolds(chain[j], document, number))]
        OBVIOUS
      <4>2. g = E
        BY <1>1, <4>1, Zenon DEF IsGeneral
      <4>3. E[k] = IF chain[k].type = "BY_ELEMENT" THEN g[k - 1]
                   ELSE Combine(chain[k], g[k - 1], P(k))
        BY <3>1, <4>1 DEF P
      <4> QED BY <4>2, <4>3
    <3>3. h[k] = IF chain[k].type = "BY_ELEMENT" THEN h[k - 1]
                 ELSE Combine(chain[k], h[k - 1], P(k))
      <4>1. PICK E : E = [j \in 0 .. Len(chain) |->
                  IF j = 0 THEN FALSE
                  ELSE IF chain[j].type = "BY_ELEMENT" THEN h[j - 1]
                  ELSE Combine(chain[j], h[j - 1],
                               PredicateHolds(chain[j], document, number))]
        OBVIOUS
      <4>2. h = E
        BY <1>2, <4>1, Zenon DEF IsGeneral
      <4>3. E[k] = IF chain[k].type = "BY_ELEMENT" THEN h[k - 1]
                   ELSE Combine(chain[k], h[k - 1], P(k))
        BY <3>1, <4>1 DEF P
      <4> QED BY <4>2, <4>3
    <3> QED BY <3>2, <3>3
  <2>3. ASSUME NEW k \in 1 .. n, k - 1 \in S PROVE k \in S
    <3>1. CASE k = 1
      <4>1. chain[1].logOp = "NONE" /\ chain[1].type # "BY_ELEMENT"
        BY <1>6 DEF IsChain
      <4>2. Combine(chain[1], g[0], P(1)) = P(1)
        BY <4>1 DEF Combine
      <4>3. Combine(chain[1], h[0], P(1)) = P(1)
        BY <4>1 DEF Combine
      <4>4. /\ g[1] = Combine(chain[1], g[0], P(1))
            /\ h[1] = Combine(chain[1], h[0], P(1))
        BY <2>2, <3>1, <4>1
      <4> QED BY <3>1, <4>2, <4>3, <4>4
    <3>2. CASE k # 1
      <4>1. g[k - 1] = h[k - 1]
        BY <2>3, <3>2
      <4>2. g[k] = h[k]
        BY <2>2, <4>1
      <4> QED BY <4>2
    <3> QED BY <3>1, <3>2
  <2>4. 0 .. n \subseteq S
    <3> HIDE DEF S
    <3> QED BY <1>4, <2>1, <2>3, AllNumbers
  <2>5. n # 0
    BY <1>3, <1>6 DEF IsChain
  <2>6. g[Len(chain)] = h[Len(chain)]
    BY <1>3, <1>4, <2>4, <2>5
  <2> DEFINE Result(x) == chain = <<>> \/ x
  <2>7. CalculatePredicate(chain, document, number, garbage) =
           Result(g[Len(chain)])
    BY <1>1, Zenon
  <2>8. CalculatePredicate(chain, document, number, FALSE) =
           Result(h[Len(chain)])
    BY <1>2, Zenon
  <2> HIDE DEF Result
  <2> QED BY <2>6, <2>7, <2>8
<1> QED BY <1>5, <1>6

-----------------------------------------------------------------------------
(* Candidates, contexts and what they give.                                *)

\* An absolute step's candidates end with the document behind the brothers.
CandidatesSplit(t, s, d, c) ==
    LET all == Visits(t)[d]
        brothers == Len(Brothers(t)[d])
    IN  /\ all \in Seq(Below(t)) /\ c \in Seq(Below(t))
        /\ brothers \in Nat /\ brothers <= Len(all)
        /\ Len(c) <= Len(all)
        /\ Len(c) = IF s.pType = "ABSOLUTE" /\ brothers + 1 < Len(all)
                    THEN brothers + 1 ELSE Len(all)
        /\ \A k \in 1 .. Len(c) : c[k] = all[k]

LEMMA CandidatesAre ==
    ASSUME NEW t, IsTree(t), NEW s, NEW d \in DocumentsOf(t)
    PROVE  CandidatesSplit(t, s, d, Candidates(t, s, d))
<1>1. PICK all, n, c : /\ all = Visits(t)[d] /\ n = Len(Brothers(t)[d])
                       /\ c = Candidates(t, s, d)
  OBVIOUS
<1>2. all \in Seq(Below(t))
  BY <1>1, VisitsAre
<1>3. n \in Nat /\ n <= Len(all)
  BY <1>1, BrothersAreVisited
<1>4. c = IF s.pType = "ABSOLUTE" /\ n + 1 < Len(all)
          THEN SubSeq(all, 1, n + 1) ELSE all
  BY <1>1 DEF Candidates
<1>5. /\ c \in Seq(Below(t))
      /\ Len(c) <= Len(all)
      /\ Len(c) = IF s.pType = "ABSOLUTE" /\ n + 1 < Len(all)
                  THEN n + 1 ELSE Len(all)
      /\ \A k \in 1 .. Len(c) : c[k] = all[k]
  BY <1>2, <1>3, <1>4
<1> QED BY <1>1, <1>2, <1>3, <1>5 DEF CandidatesSplit

\* One candidate more is one document of the name more, or none.
LEMMA NumberGrows ==
    ASSUME NEW t, NEW s, NEW c, NEW k \in Nat
    PROVE  /\ NumberOf(t, s, c, 0) = 0
           /\ NumberOf(t, s, c, k) \in Nat
           /\ NumberOf(t, s, c, k + 1) =
                 IF Named(t, s, c[k + 1]) THEN NumberOf(t, s, c, k) + 1
                 ELSE NumberOf(t, s, c, k)
<1> DEFINE J(n) == {j \in 1 .. n : Named(t, s, c[j])}
<1>1. IsFiniteSet(J(k))
  <2>1. IsFiniteSet(1 .. k)
    BY FS_Interval
  <2> QED BY <2>1, FS_Subset
<1>2. k + 1 \notin J(k)
  OBVIOUS
<1>3. J(k + 1) = IF Named(t, s, c[k + 1]) THEN J(k) \cup {k + 1} ELSE J(k)
  OBVIOUS
<1>4. J(0) = {}
  OBVIOUS
<1>5. NumberOf(t, s, c, 0) = Cardinality(J(0))
  BY DEF NumberOf
<1>6. /\ NumberOf(t, s, c, k) = Cardinality(J(k))
      /\ NumberOf(t, s, c, k + 1) = Cardinality(J(k + 1))
  BY DEF NumberOf
<1> HIDE DEF J
<1>7. Cardinality(J(k)) \in Nat
  BY <1>1, FS_CardinalityType
<1>8. Cardinality(J(k) \cup {k + 1}) = Cardinality(J(k)) + 1
  BY <1>1, <1>2, FS_AddElement
<1>9. Cardinality(J(0)) = 0
  BY <1>4, FS_EmptySet
<1> QED BY <1>3, <1>5, <1>6, <1>7, <1>8, <1>9

LEMMA SelectedIsBelow ==
    ASSUME NEW t, IsTree(t), NEW s, NEW d \in DocumentsOf(t)
    PROVE  Selected(t, s, d) \in Seq(Below(t))
<1>1. PICK c, m : /\ c = Candidates(t, s, d)
                  /\ m = Marks(t, s, Candidates(t, s, d))
  OBVIOUS
<1>2. c \in Seq(Below(t))
  BY <1>1, CandidatesAre DEF CandidatesSplit
<1>3. Kept(c, m)[Len(c)] \in Seq(Below(t))
  <2>1. Len(c) \in 0 .. Len(c)
    BY <1>2
  <2> QED BY <1>2, <2>1, KeptAre
<1> QED BY <1>1, <1>3 DEF Selected

IsSelectedIn(t, s, contexts, selected) ==
    selected = [k \in 0 .. Len(contexts) |->
                   IF k = 0 THEN <<>>
                   ELSE selected[k - 1] \o Selected(t, s, contexts[k])]

\* What a step selects grows context by context.
LEMMA SelectedInAre ==
    ASSUME NEW t, IsTree(t), NEW s, NEW contexts \in Seq(Below(t))
    PROVE  /\ SelectedIn(t, s, contexts)[0] = <<>>
           /\ \A k \in 1 .. Len(contexts) :
                 SelectedIn(t, s, contexts)[k] =
                    SelectedIn(t, s, contexts)[k - 1]
                       \o Selected(t, s, contexts[k])
           /\ \A k \in 0 .. Len(contexts) :
                 SelectedIn(t, s, contexts)[k] \in Seq(Below(t))
<1>0. PICK n, S : n = Len(contexts) /\ S = Seq(Below(t))
  OBVIOUS
<1>1. n \in Nat
  BY <1>0
<1> DEFINE More(k) == Selected(t, s, contexts[k])
           f == [p \in (1 .. n) \X S |-> p[2] \o More(p[1])]
<1>2. ASSUME NEW k \in 1 .. n PROVE More(k) \in S
  <2>1. contexts[k] \in DocumentsOf(t)
    BY <1>0 DEF Below
  <2> QED BY <1>0, <2>1, SelectedIsBelow
<1> HIDE DEF More
<1>3. ASSUME NEW k \in 1 .. n, NEW x \in S PROVE x \o More(k) \in S
  BY <1>0, <1>2
<1>4. f \in [(1 .. n) \X S -> S]
  BY <1>3
<1>5. PICK g : Recurses(n, S, <<>>, f, g)
  <2>1. PICK e : e = <<>>
    OBVIOUS
  <2>2. e \in S
    BY <1>0, <2>1
  <2> HIDE DEF f
  <2>3. \E g : Recurses(n, S, e, f, g)
    BY <1>1, <1>4, <2>2, RecursionExists
  <2> QED BY <2>1, <2>3
<1>6. /\ g \in [0 .. n -> S]
      /\ g[0] = <<>>
      /\ \A k \in 1 .. n : g[k] = g[k - 1] \o More(k)
  <2>1. /\ g \in [0 .. n -> S] /\ g[0] = <<>>
        /\ \A k \in 1 .. n : g[k] = f[<<k, g[k - 1]>>]
    BY <1>5 DEF Recurses
  <2>2. ASSUME NEW k \in 1 .. n PROVE g[k] = g[k - 1] \o More(k)
    <3>1. k - 1 \in 0 .. n
      BY <1>1
    <3>2. g[k - 1] \in S /\ g[k] = f[<<k, g[k - 1]>>]
      BY <2>1, <3>1
    <3> QED BY <3>2
  <2> QED BY <2>1, <2>2
<1>7. IsSelectedIn(t, s, contexts, g)
  <2>1. ASSUME NEW k \in 0 .. n
        PROVE  g[k] = IF k = 0 THEN <<>>
                      ELSE g[k - 1] \o Selected(t, s, contexts[k])
    <3>1. CASE k = 0
      BY <1>6, <3>1
    <3>2. CASE k # 0
      <4>1. k \in 1 .. n
        BY <1>1, <3>2
      <4> QED BY <1>6, <3>2, <4>1 DEF More
    <3> QED BY <3>1, <3>2
  <2>2. g = [k \in 0 .. n |-> g[k]]
    BY <1>6
  <2>3. g = [k \in 0 .. n |-> IF k = 0 THEN <<>>
                              ELSE g[k - 1] \o Selected(t, s, contexts[k])]
    BY ONLY <2>1, <2>2, Zenon
  <2> QED BY <1>0, <2>3, Zenon DEF IsSelectedIn
<1>8. SelectedIn(t, s, contexts) = CHOOSE x : IsSelectedIn(t, s, contexts, x)
  BY Zenon DEF SelectedIn, IsSelectedIn
<1>9. IsSelectedIn(t, s, contexts, SelectedIn(t, s, contexts))
  BY <1>7, <1>8, Zenon
<1>10. PICK v : v = SelectedIn(t, s, contexts)
  OBVIOUS
<1>11. v = [k \in 0 .. n |-> IF k = 0 THEN <<>>
                             ELSE v[k - 1] \o Selected(t, s, contexts[k])]
  BY <1>0, <1>9, <1>10 DEF IsSelectedIn
<1>12. /\ v[0] = <<>>
       /\ \A k \in 1 .. n : v[k] = v[k - 1] \o More(k)
  <2>1. 0 \in 0 .. n /\ \A k \in 1 .. n : k \in 0 .. n /\ k # 0
    BY <1>1
  <2> QED BY <1>11, <2>1 DEF More
<1>13. \A k \in 0 .. n : v[k] \in S
  <2>1. v[0] \in S
    BY <1>0, <1>12
  <2>2. \A k \in 1 .. n : v[k - 1] \in S => v[k] \in S
    BY <1>3, <1>12
  <2> QED BY <1>1, <2>1, <2>2, RecursionIn
<1> QED BY <1>0, <1>10, <1>12, <1>13 DEF More

\* What a step leaves are documents below the root.
LEMMA ContextsBehindAreBelow ==
    ASSUME NEW t, IsTree(t), NEW s, NEW found \in Seq(Below(t))
    PROVE  /\ ContextsBehind(t, s, found) \in Seq(Below(t))
           /\ ContextsBehind(t, s, <<>>) = <<>>
BY SonsOfAre DEF ContextsBehind

\* What a step gives of all its contexts, and leaves for the next one.
FoundIn(t, s, contexts) == SelectedIn(t, s, contexts)[Len(contexts)]

LEMMA FoundIsBelow ==
    ASSUME NEW t, IsTree(t), NEW s, NEW contexts \in Seq(Below(t))
    PROVE  FoundIn(t, s, contexts) \in Seq(Below(t))
<1>1. Len(contexts) \in 0 .. Len(contexts)
  OBVIOUS
<1> QED BY <1>1, SelectedInAre DEF FoundIn

IsContexts(t, p, contexts) ==
    contexts = [i \in 0 .. Len(p) |->
                   IF i = 0 THEN <<t.son[0]>>
                   ELSE ContextsBehind(t, p[i],
                           SelectedIn(t, p[i], contexts[i - 1])
                              [Len(contexts[i - 1])])]

\* The contexts of a path grow step by step.
LEMMA ContextsAre ==
    ASSUME NEW t, IsTree(t), t.son[0] # 0, NEW p, Len(p) \in Nat
    PROVE  /\ Contexts(t, p)[0] = <<t.son[0]>>
           /\ \A i \in 1 .. Len(p) :
                 Contexts(t, p)[i] =
                    ContextsBehind(t, p[i],
                                   FoundIn(t, p[i], Contexts(t, p)[i - 1]))
           /\ \A i \in 0 .. Len(p) : Contexts(t, p)[i] \in Seq(Below(t))
<1>0. PICK n, S, b : n = Len(p) /\ S = Seq(Below(t)) /\ b = <<t.son[0]>>
  OBVIOUS
<1>1. n \in Nat /\ b \in S
  BY <1>0 DEF Below, IsTree
<1> DEFINE After(k, x) == ContextsBehind(t, p[k], FoundIn(t, p[k], x))
           f == [q \in (1 .. n) \X S |-> After(q[1], q[2])]
<1>2. ASSUME NEW k \in 1 .. n, NEW x \in S PROVE After(k, x) \in S
  BY <1>0, FoundIsBelow, ContextsBehindAreBelow
<1> HIDE DEF After
<1>4. f \in [(1 .. n) \X S -> S]
  BY <1>2
<1>5. PICK g : Recurses(n, S, b, f, g)
  <2> HIDE DEF f
  <2> QED BY <1>1, <1>4, RecursionExists
<1>6. /\ g \in [0 .. n -> S]
      /\ g[0] = b
      /\ \A k \in 1 .. n : g[k] = After(k, g[k - 1])
  <2>1. /\ g \in [0 .. n -> S] /\ g[0] = b
        /\ \A k \in 1 .. n : g[k] = f[<<k, g[k - 1]>>]
    BY <1>5 DEF Recurses
  <2>2. ASSUME NEW k \in 1 .. n PROVE g[k] = After(k, g[k - 1])
    <3>1. k - 1 \in 0 .. n
      BY <1>1
    <3>2. g[k - 1] \in S /\ g[k] = f[<<k, g[k - 1]>>]
      BY <2>1, <3>1
    <3> QED BY <3>2
  <2> QED BY <2>1, <2>2
<1>7. IsContexts(t, p, g)
  <2>1. ASSUME NEW i \in 0 .. n
        PROVE  g[i] = IF i = 0 THEN <<t.son[0]>>
                      ELSE ContextsBehind(t, p[i],
                              SelectedIn(t, p[i], g[i - 1])[Len(g[i - 1])])
    <3>1. CASE i = 0
      BY <1>0, <1>6, <3>1
    <3>2. CASE i # 0
      <4>1. i \in 1 .. n
        BY <1>1, <3>2
      <4>2. g[i] = After(i, g[i - 1])
        BY <1>6, <4>1
      <4> QED BY <3>2, <4>2 DEF After, FoundIn
    <3> QED BY <3>1, <3>2
  <2>2. g = [i \in 0 .. n |-> g[i]]
    BY <1>6
  <2>3. g = [i \in 0 .. n |->
                IF i = 0 THEN <<t.son[0]>>
                ELSE ContextsBehind(t, p[i],
                        SelectedIn(t, p[i], g[i - 1])[Len(g[i - 1])])]
    BY ONLY <2>1, <2>2, Zenon
  <2> QED BY <1>0, <2>3, Zenon DEF IsContexts
<1>8. Contexts(t, p) = CHOOSE x : IsContexts(t, p, x)
  BY Zenon DEF Contexts, IsContexts
<1>9. IsContexts(t, p, Contexts(t, p))
  BY <1>7, <1>8, Zenon
<1>10. PICK v : v = Contexts(t, p)
  OBVIOUS
<1>11. v = [i \in 0 .. n |->
               IF i = 0 THEN <<t.son[0]>>
               ELSE ContextsBehind(t, p[i],
                       SelectedIn(t, p[i], v[i - 1])[Len(v[i - 1])])]
  BY <1>0, <1>9, <1>10 DEF IsContexts
<1>12. /\ v[0] = b
       /\ \A k \in 1 .. n : v[k] = After(k, v[k - 1])
  <2>1. 0 \in 0 .. n /\ \A k \in 1 .. n : k \in 0 .. n /\ k # 0
    BY <1>1
  <2> QED BY <1>0, <1>11, <2>1 DEF After, FoundIn
<1>13. \A k \in 0 .. n : v[k] \in S
  <2>1. v[0] \in S
    BY <1>1, <1>12
  <2>2. \A k \in 1 .. n : v[k - 1] \in S => v[k] \in S
    BY <1>2, <1>12
  <2> QED BY <1>1, <2>1, <2>2, RecursionIn
<1> QED BY <1>0, <1>10, <1>12, <1>13 DEF After

-----------------------------------------------------------------------------
(* A step of the iterator: the rest of the visits and the brothers.        *)

Iterators(t) ==
    [next : KnownEntries(t), stack : Seq(KnownEntries(t)), stop : BOOLEAN]

\* What the iterator is after a step, case by case.
LEMMA AfterNextDocIs ==
    ASSUME NEW t, NEW i \in Iterators(t), ~ i.stop,
           NEW j, j = AfterNextDoc(t, i),
           NEW b, b = t.brother[i.next.order], NEW s, s = t.son[i.next.order]
    PROVE  /\ b # 0 => /\ j.next = BrotherEntry(t, i.next) /\ ~ j.stop
                       /\ j.stack = IF s # 0
                                    THEN Append(i.stack, SonEntry(t, i.next))
                                    ELSE i.stack
           /\ b = 0 /\ s # 0 => /\ j.next = SonEntry(t, i.next) /\ ~ j.stop
                                /\ j.stack = i.stack
           /\ b = 0 /\ s = 0 /\ i.stack # <<>> =>
                 /\ j.next = Last(i.stack) /\ ~ j.stop
                 /\ j.stack = Front(i.stack)
           /\ b = 0 /\ s = 0 /\ i.stack = <<>> =>
                 j.stop /\ j.stack = i.stack
<1>1. CASE b # 0 /\ s # 0
  <2>1. j = [i EXCEPT !.next = BrotherEntry(t, i.next),
                      !.stack = Append(@, SonEntry(t, i.next))]
    BY <1>1 DEF AfterNextDoc
  <2> QED BY <1>1, <2>1 DEF Iterators
<1>2. CASE b # 0 /\ s = 0
  <2>1. j = [i EXCEPT !.next = BrotherEntry(t, i.next)]
    BY <1>2 DEF AfterNextDoc
  <2> QED BY <1>2, <2>1 DEF Iterators
<1>3. CASE b = 0 /\ s # 0
  <2>1. j = [i EXCEPT !.next = SonEntry(t, i.next)]
    BY <1>3 DEF AfterNextDoc
  <2> QED BY <1>3, <2>1 DEF Iterators
<1>4. CASE b = 0 /\ s = 0 /\ i.stack # <<>>
  <2>1. j = [i EXCEPT !.next = Last(i.stack), !.stack = Front(i.stack)]
    BY <1>4 DEF AfterNextDoc
  <2> QED BY <1>4, <2>1 DEF Iterators
<1>5. CASE b = 0 /\ s = 0 /\ i.stack = <<>>
  <2>1. j = [i EXCEPT !.stop = TRUE]
    BY <1>5 DEF AfterNextDoc
  <2> QED BY <1>5, <2>1 DEF Iterators
<1> QED BY <1>1, <1>2, <1>3, <1>4, <1>5

\* The next document is the next of the visits, and what is left of them is
\* held again.
LEMMA RestShrinks ==
    ASSUME NEW t, IsTree(t), NEW i \in Iterators(t), ~ i.stop,
           NEW all \in Seq(Below(t)), NEW v \in Nat, HoldsRest(t, i, all, v)
    PROVE  /\ v < Len(all)
           /\ all[v + 1] = i.next.order
           /\ HoldsRest(t, AfterNextDoc(t, i), all, v + 1)
<1> DEFINE d == i.next.order
<1>1. PICK j : j = AfterNextDoc(t, i)
  OBVIOUS
<1>2. PICK n, stack : n = Len(i.stack) /\ stack = i.stack
  OBVIOUS
<1>3. stack \in Seq(KnownEntries(t)) /\ n \in Nat /\ n = Len(stack)
  BY <1>2 DEF Iterators
<1>4. d \in Below(t)
  BY DEF HoldsRest, Iterators, KnownEntries, Below
<1>5. PICK cut : CutsAre(t, i, all, v, cut)
  BY DEF HoldsRest
<1>6. PICK N, L : /\ N = Len(all)
                  /\ L = [e \in DocumentsOf(t) |-> Len(Visits(t)[e])]
  OBVIOUS
<1>7. N \in Nat /\ \A e \in DocumentsOf(t) :
        L[e] \in Nat /\ L[e] = Len(Visits(t)[e])
  BY <1>6, VisitsAre
<1>8. PICK x, y, z : /\ x = Visits(t)[d] /\ y = Visits(t)[t.brother[d]]
                     /\ z = Visits(t)[t.son[d]]
  OBVIOUS
<1>9. VisitsSplit(t, d, x, y, z)
  BY <1>4, <1>8, VisitsBehind
<1>10. Len(x) \in Nat /\ Len(y) \in Nat /\ Len(z) \in Nat
  BY <1>9 DEF VisitsSplit
<1>11. /\ cut \in [0 .. n -> 0 .. N]
       /\ cut[0] = N
       /\ cut[n] = v + Len(x)
       /\ IsPart(x, all, v)
       /\ \A k \in 1 .. n :
             /\ stack[k].order # 0
             /\ cut[k - 1] = cut[k] + Len(Visits(t)[stack[k].order])
             /\ IsPart(Visits(t)[stack[k].order], all, cut[k])
  BY <1>2, <1>5, <1>6, <1>8 DEF CutsAre
<1>12. v + Len(x) <= N /\ \A k \in 1 .. Len(x) : x[k] = all[v + k]
  BY <1>6, <1>11 DEF IsPart
<1>13. v < Len(all) /\ all[v + 1] = d
  <2>1. 1 \in 1 .. Len(x) /\ x[1] = d
    BY <1>9, <1>10 DEF VisitsSplit
  <2> QED BY <1>6, <1>7, <1>10, <1>12, <2>1
<1>14. IsPart(y, all, v + 1)
  <2>1. v + 1 + Len(y) <= N
    BY <1>7, <1>9, <1>10, <1>12 DEF VisitsSplit
  <2>2. ASSUME NEW k \in 1 .. Len(y) PROVE y[k] = all[v + 1 + k]
    <3>1. 1 + k \in 1 .. Len(x) /\ x[1 + k] = y[k]
      BY <1>9, <1>10 DEF VisitsSplit
    <3>2. x[1 + k] = all[v + (1 + k)]
      BY <1>12, <3>1
    <3>3. v + (1 + k) = v + 1 + k
      OBVIOUS
    <3> QED BY <3>1, <3>2, <3>3
  <2> QED BY <1>6, <2>1, <2>2 DEF IsPart
<1>15. IsPart(z, all, v + 1 + Len(y))
  <2>1. v + 1 + Len(y) + Len(z) <= N
    BY <1>7, <1>9, <1>10, <1>12 DEF VisitsSplit
  <2>2. ASSUME NEW k \in 1 .. Len(z) PROVE z[k] = all[v + 1 + Len(y) + k]
    <3>1. 1 + Len(y) + k \in 1 .. Len(x) /\ x[1 + Len(y) + k] = z[k]
      BY <1>9, <1>10 DEF VisitsSplit
    <3>2. x[1 + Len(y) + k] = all[v + (1 + Len(y) + k)]
      BY <1>12, <3>1
    <3>3. v + (1 + Len(y) + k) = v + 1 + Len(y) + k
      BY <1>10
    <3> QED BY <3>1, <3>2, <3>3
  <2> QED BY <1>6, <2>1, <2>2 DEF IsPart
<1>16. Len(x) = 1 + Len(y) + Len(z)
  BY <1>9 DEF VisitsSplit
<1>17. PICK b, s : b = t.brother[d] /\ s = t.son[d]
  OBVIOUS
<1>18. /\ b # 0 => /\ j.next.order = b /\ ~ j.stop
                   /\ j.stack = IF s # 0
                                THEN Append(stack, SonEntry(t, i.next))
                                ELSE stack
       /\ b = 0 /\ s # 0 => /\ j.next.order = s /\ ~ j.stop
                            /\ j.stack = stack
       /\ b = 0 /\ s = 0 /\ stack # <<>> =>
             /\ j.next = Last(stack) /\ ~ j.stop
             /\ j.stack = Front(stack)
       /\ b = 0 /\ s = 0 /\ stack = <<>> => j.stop
       /\ SonEntry(t, i.next).order = s
  <2>1. /\ BrotherEntry(t, i.next).order = b
        /\ SonEntry(t, i.next).order = s
    BY <1>17 DEF BrotherEntry, SonEntry, EntryOf
  <2> QED BY <1>1, <1>2, <1>17, <2>1, AfterNextDocIs
<1>19. v + 1 \in Nat /\ y = Visits(t)[b] /\ z = Visits(t)[s]
  BY <1>8, <1>17
<1>20. CASE b # 0 /\ s # 0
  <2> DEFINE c == [k \in 0 .. n + 1 |-> IF k = n + 1 THEN v + 1 + Len(y)
                                        ELSE cut[k]]
  <2>1. PICK new, e : /\ new = Append(stack, e) /\ e = SonEntry(t, i.next)
                      /\ new = j.stack
    BY <1>18, <1>20
  <2>2. /\ Len(new) = n + 1 /\ new[n + 1] = e
        /\ \A k \in 1 .. n : new[k] = stack[k]
    BY <1>3, <2>1
  <2>3. /\ c \in [0 .. n + 1 -> 0 .. N] /\ c[0] = N
        /\ c[n + 1] = v + 1 + Len(y) /\ c[n] = cut[n]
        /\ \A k \in 0 .. n : c[k] = cut[k]
    BY <1>3, <1>7, <1>10, <1>11, <1>12, <1>16
  <2> HIDE DEF c
  <2>4. ASSUME NEW k \in 1 .. n + 1
        PROVE  /\ new[k].order # 0
               /\ c[k - 1] = c[k] + Len(Visits(t)[new[k].order])
               /\ IsPart(Visits(t)[new[k].order], all, c[k])
    <3>1. CASE k = n + 1
      <4>1. new[k].order = s /\ k - 1 = n
        BY <1>3, <1>18, <2>1, <2>2, <3>1
      <4>2. c[n] = c[n + 1] + Len(z)
        BY <1>10, <1>11, <1>16, <2>3
      <4> QED BY <1>15, <1>19, <1>20, <2>3, <3>1, <4>1, <4>2
    <3>2. CASE k # n + 1
      <4>1. k \in 1 .. n /\ k - 1 \in 0 .. n /\ k \in 0 .. n
        BY <1>3, <3>2
      <4>2. new[k] = stack[k] /\ c[k] = cut[k] /\ c[k - 1] = cut[k - 1]
        BY <2>2, <2>3, <4>1
      <4> QED BY <1>11, <4>1, <4>2
    <3> QED BY <3>1, <3>2
  <2>5. CutsAre(t, j, all, v + 1, c)
    BY <1>6, <1>14, <1>18, <1>19, <1>20, <2>1, <2>2, <2>3, <2>4 DEF CutsAre
  <2>6. HoldsRest(t, j, all, v + 1)
    BY <1>6, <1>18, <1>20, <2>1, <2>2, <2>3, <2>5 DEF HoldsRest
  <2> QED BY <1>1, <1>13, <2>6
<1>21. CASE (b # 0 /\ s = 0) \/ (b = 0 /\ s # 0)
  <2>1. j.stack = stack /\ ~ j.stop /\ j.next.order # 0
    BY <1>18, <1>21
  <2>2. /\ IsPart(Visits(t)[j.next.order], all, v + 1)
        /\ cut[n] = v + 1 + Len(Visits(t)[j.next.order])
    <3>1. CASE b # 0 /\ s = 0
      <4>1. Len(z) = 0
        BY <1>9, <1>17, <3>1 DEF VisitsSplit
      <4>2. Visits(t)[j.next.order] = y
        BY <1>18, <1>19, <3>1
      <4>3. cut[n] = v + 1 + Len(y)
        BY <1>10, <1>11, <1>16, <4>1
      <4> QED BY <1>14, <4>2, <4>3
    <3>2. CASE b = 0 /\ s # 0
      <4>1. Len(y) = 0
        BY <1>9, <1>17, <3>2 DEF VisitsSplit
      <4>2. v + 1 + Len(y) = v + 1
        BY <4>1
      <4>3. Visits(t)[j.next.order] = z
        BY <1>18, <1>19, <3>2
      <4>4. cut[n] = v + 1 + Len(z)
        BY <1>10, <1>11, <1>16, <4>1
      <4>5. IsPart(z, all, v + 1)
        BY <1>15, <4>2
      <4> QED BY <4>3, <4>4, <4>5
    <3> QED BY <1>21, <3>1, <3>2
  <2>3. CutsAre(t, j, all, v + 1, cut)
    BY <1>3, <1>6, <1>11, <2>1, <2>2 DEF CutsAre
  <2>4. HoldsRest(t, j, all, v + 1)
    BY <1>3, <1>6, <1>11, <2>1, <2>3 DEF HoldsRest
  <2> QED BY <1>1, <1>13, <2>4
<1>22. CASE b = 0 /\ s = 0 /\ stack # <<>>
  <2> DEFINE c == [k \in 0 .. n - 1 |-> cut[k]]
  <2>1. PICK new, e : /\ new = Front(stack) /\ e = Last(stack)
                      /\ new = j.stack /\ e = j.next
    BY <1>18, <1>22
  <2>2. /\ n >= 1 /\ Len(new) = n - 1 /\ e = stack[n]
        /\ \A k \in 1 .. n - 1 : new[k] = stack[k]
    BY <1>3, <1>22, <2>1 DEF Front, Last
  <2>3. /\ c \in [0 .. n - 1 -> 0 .. N] /\ c[0] = N
        /\ \A k \in 0 .. n - 1 : c[k] = cut[k]
    BY <1>3, <1>11, <2>2
  <2> HIDE DEF c
  <2>4. cut[n] = v + 1
    <3>1. Len(y) = 0 /\ Len(z) = 0
      BY <1>9, <1>17, <1>22 DEF VisitsSplit
    <3> QED BY <1>11, <1>16, <3>1
  <2>5. /\ e.order # 0
        /\ c[n - 1] = v + 1 + Len(Visits(t)[e.order])
        /\ IsPart(Visits(t)[e.order], all, v + 1)
    <3>1. n \in 1 .. n /\ n - 1 \in 0 .. n - 1
      BY <1>3, <2>2
    <3>2. /\ stack[n].order # 0
          /\ cut[n - 1] = cut[n] + Len(Visits(t)[stack[n].order])
          /\ IsPart(Visits(t)[stack[n].order], all, cut[n])
      BY <1>11, <3>1
    <3> QED BY <2>2, <2>3, <2>4, <3>1, <3>2
  <2>6. ASSUME NEW k \in 1 .. n - 1
        PROVE  /\ new[k].order # 0
               /\ c[k - 1] = c[k] + Len(Visits(t)[new[k].order])
               /\ IsPart(Visits(t)[new[k].order], all, c[k])
    <3>1. k \in 1 .. n /\ k \in 0 .. n - 1 /\ k - 1 \in 0 .. n - 1
      BY <1>3
    <3>2. new[k] = stack[k] /\ c[k] = cut[k] /\ c[k - 1] = cut[k - 1]
      BY <2>2, <2>3, <3>1
    <3> QED BY <1>11, <3>1, <3>2
  <2>7. CutsAre(t, j, all, v + 1, c)
    BY <1>6, <2>1, <2>2, <2>3, <2>5, <2>6 DEF CutsAre
  <2>8. HoldsRest(t, j, all, v + 1)
    BY <1>6, <1>18, <1>22, <2>1, <2>2, <2>3, <2>5, <2>7 DEF HoldsRest
  <2> QED BY <1>1, <1>13, <2>8
<1>23. CASE b = 0 /\ s = 0 /\ stack = <<>>
  <2>1. n = 0 /\ j.stop
    BY <1>3, <1>18, <1>23
  <2>2. Len(y) = 0 /\ Len(z) = 0
    BY <1>9, <1>17, <1>23 DEF VisitsSplit
  <2>3. v + 1 = N
    BY <1>11, <1>16, <2>1, <2>2
  <2> QED BY <1>1, <1>6, <1>13, <2>1, <2>3 DEF HoldsRest
<1> QED BY <1>20, <1>21, <1>22, <1>23

\* A new iterator holds everything.
LEMMA RestAtStart ==
    ASSUME NEW t, IsTree(t), NEW d \in Below(t), NEW p, NEW depth0
    PROVE  HoldsRest(t, CreateDocIterator(d, p, depth0), Visits(t)[d], 0)
<1>1. PICK i, all, N : /\ i = CreateDocIterator(d, p, depth0)
                       /\ all = Visits(t)[d] /\ N = Len(all)
  OBVIOUS
<1>2. i.next.order = d /\ i.stack = <<>> /\ i.stop = FALSE /\ Len(i.stack) = 0
  BY <1>1 DEF CreateDocIterator, EntryOf
<1>3. all \in Seq(Below(t)) /\ N \in Nat
  <2>1. d \in DocumentsOf(t)
    BY DEF Below
  <2>2. all \in Seq(Below(t))
    BY <1>1, <2>1, VisitsAre
  <2> QED BY <1>1, <2>2
<1> DEFINE c == [k \in 0 .. 0 |-> N]
<1>4. c \in [0 .. 0 -> 0 .. N] /\ c[0] = N
  BY <1>3
<1> HIDE DEF c
<1>5. IsPart(all, all, 0)
  <2>1. \A k \in 1 .. Len(all) : 0 + k = k
    OBVIOUS
  <2> QED BY <1>1, <1>3, <2>1 DEF IsPart
<1>6. d # 0 /\ N = 0 + N
  BY <1>3 DEF Below
<1>7. CutsAre(t, i, all, 0, c)
  BY <1>1, <1>2, <1>4, <1>5, <1>6 DEF CutsAre
<1>8. HoldsRest(t, i, all, 0)
  BY <1>1, <1>2, <1>4, <1>6, <1>7 DEF HoldsRest
<1> QED BY <1>1, <1>8

\* The depth tells the brothers again.
LEMMA DepthTellsOn ==
    ASSUME NEW t, IsTree(t), NEW i \in Iterators(t), ~ i.stop,
           i.next.order # 0, NEW start \in Nat, NEW brothers \in Nat,
           NEW v \in Nat, DepthTells(t, i, start, brothers, v)
    PROVE  /\ i.next.depth = start <=> v + 1 <= brothers
           /\ DepthTells(t, AfterNextDoc(t, i), start, brothers, v + 1)
<1> DEFINE d == i.next.order
<1>1. PICK j : j = AfterNextDoc(t, i)
  OBVIOUS
<1>2. PICK stack, b, s : /\ stack = i.stack /\ b = t.brother[d]
                         /\ s = t.son[d]
  OBVIOUS
<1>3. /\ stack \in Seq(KnownEntries(t))
      /\ i.next.depth \in Nat
      /\ \A k \in 1 .. Len(stack) : stack[k].depth \in Nat
  <2>1. stack \in Seq(KnownEntries(t)) /\ i.next \in KnownEntries(t)
    BY <1>2 DEF Iterators
  <2>2. \A k \in 1 .. Len(stack) : stack[k] \in KnownEntries(t)
    BY <2>1
  <2> QED BY <2>1, <2>2 DEF KnownEntries
<1>4. d \in Below(t)
  BY DEF Iterators, KnownEntries, Below
<1>5. /\ \A k \in 1 .. Len(stack) : stack[k].depth > start
      /\ IF v < brothers
         THEN /\ i.next.depth = start
              /\ Len(Brothers(t)[d]) = brothers - v
         ELSE i.next.depth > start
  BY <1>2 DEF DepthTells
<1>6. i.next.depth = start <=> v + 1 <= brothers
  BY <1>3, <1>5
<1>7. PICK y, z : y = Len(Brothers(t)[d]) /\ z = Len(Brothers(t)[b])
  OBVIOUS
<1>8. z \in Nat /\ y = 1 + z /\ (IF b = 0 THEN z = 0 ELSE z >= 1)
  <2>1. PICK w, x : w = Brothers(t)[d] /\ x = Brothers(t)[b]
    OBVIOUS
  <2>2. BrothersSplit(t, d, w, x)
    BY <1>2, <1>4, <2>1, BrothersBehind
  <2> QED BY <1>2, <1>7, <2>1, <2>2 DEF BrothersSplit
<1>9. /\ b # 0 => /\ j.next.order = b /\ j.next.depth = i.next.depth
                  /\ j.stack = IF s # 0
                               THEN Append(stack, SonEntry(t, i.next))
                               ELSE stack
      /\ b = 0 /\ s # 0 => /\ j.next.depth = i.next.depth + 1
                           /\ j.stack = stack
      /\ b = 0 /\ s = 0 /\ stack # <<>> =>
            j.next = Last(stack) /\ j.stack = Front(stack)
      /\ b = 0 /\ s = 0 /\ stack = <<>> => j.stop /\ j.stack = stack
      /\ SonEntry(t, i.next).depth = i.next.depth + 1
  <2>1. /\ BrotherEntry(t, i.next).order = b
        /\ BrotherEntry(t, i.next).depth = i.next.depth
        /\ SonEntry(t, i.next).depth = i.next.depth + 1
    BY <1>2 DEF BrotherEntry, SonEntry, EntryOf
  <2> QED BY <1>1, <1>2, <2>1, AfterNextDocIs
<1>10. i.next.depth + 1 > start /\ (b = 0 => ~ (v + 1 < brothers))
  BY <1>3, <1>5, <1>7, <1>8
<1>11. CASE b # 0
  <2>1. \A k \in 1 .. Len(j.stack) : j.stack[k].depth > start
    <3>1. CASE s = 0
      BY <1>5, <1>9, <1>11, <3>1
    <3>2. CASE s # 0
      <4>1. PICK e, new : e = SonEntry(t, i.next) /\ new = Append(stack, e)
        OBVIOUS
      <4>2. e.depth > start /\ new = j.stack
        BY <1>9, <1>10, <1>11, <3>2, <4>1
      <4>3. /\ Len(new) = Len(stack) + 1 /\ new[Len(stack) + 1] = e
            /\ \A k \in 1 .. Len(stack) : new[k] = stack[k]
        BY <1>3, <4>1
      <4>4. ASSUME NEW k \in 1 .. Len(new) PROVE new[k].depth > start
        <5>1. k = Len(stack) + 1 \/ k \in 1 .. Len(stack)
          BY <1>3, <4>3
        <5> QED BY <1>5, <4>2, <4>3, <5>1
      <4> QED BY <4>2, <4>4
    <3> QED BY <3>1, <3>2
  <2>2. IF v + 1 < brothers
        THEN /\ j.next.depth = start
             /\ Len(Brothers(t)[j.next.order]) = brothers - (v + 1)
        ELSE j.next.depth > start
    <3>1. j.next.depth = i.next.depth /\ Len(Brothers(t)[j.next.order]) = z
      BY <1>7, <1>9, <1>11
    <3>2. CASE v < brothers
      BY <1>5, <1>7, <1>8, <1>11, <3>1, <3>2
    <3>3. CASE ~ (v < brothers)
      BY <1>5, <3>1, <3>3
    <3> QED BY <3>2, <3>3
  <2> QED BY <1>1, <1>6, <2>1, <2>2 DEF DepthTells
<1>12. CASE b = 0 /\ s # 0
  <2>1. \A k \in 1 .. Len(j.stack) : j.stack[k].depth > start
    BY <1>5, <1>9, <1>12
  <2>2. j.next.depth > start /\ ~ (v + 1 < brothers)
    BY <1>9, <1>10, <1>12
  <2> QED BY <1>1, <1>6, <2>1, <2>2 DEF DepthTells
<1>13. CASE b = 0 /\ s = 0 /\ stack # <<>>
  <2>1. PICK new, e, n :
          new = Front(stack) /\ e = Last(stack) /\ n = Len(stack)
    OBVIOUS
  <2>2. j.stack = new /\ j.next = e
    BY <1>9, <1>13, <2>1
  <2>3. /\ n \in Nat /\ n >= 1 /\ Len(new) = n - 1 /\ e = stack[n]
        /\ \A k \in 1 .. n - 1 : new[k] = stack[k]
    BY <1>3, <1>13, <2>1 DEF Front, Last
  <2>4. \A k \in 1 .. n : stack[k].depth > start
    BY <1>5, <2>1
  <2>5. e.depth > start /\ \A k \in 1 .. Len(new) : new[k].depth > start
    BY <2>3, <2>4
  <2>6. \A k \in 1 .. Len(j.stack) : j.stack[k].depth > start
    BY <2>2, <2>5
  <2>7. j.next.depth > start
    BY <2>2, <2>5
  <2> QED BY <1>1, <1>6, <1>10, <1>13, <2>6, <2>7 DEF DepthTells
<1>14. CASE b = 0 /\ s = 0 /\ stack = <<>>
  <2>1. \A k \in 1 .. Len(j.stack) : j.stack[k].depth > start
    BY <1>5, <1>9, <1>14
  <2> QED BY <1>1, <1>6, <1>9, <1>14, <2>1 DEF DepthTells
<1> QED BY <1>11, <1>12, <1>13, <1>14

-----------------------------------------------------------------------------
(* What is found, document by document.                                    *)

Results(t) ==
    [type : ResultTypes, documentList : Seq(KnownDocuments(t)),
     elementList : Seq(KnownDocuments(t))]

\* The indices of a list of documents.
LEMMA OrdersAre ==
    ASSUME NEW t, NEW list \in Seq(KnownDocuments(t))
    PROVE  /\ OrdersOf(list) \in Seq(DocumentsOf(t))
           /\ Len(OrdersOf(list)) = Len(list)
           /\ \A k \in 1 .. Len(list) : OrdersOf(list)[k] = list[k].order
           /\ \A f \in KnownDocuments(t) :
                 OrdersOf(Append(list, f)) = Append(OrdersOf(list), f.order)
<1>1. \A f \in KnownDocuments(t) : f.order \in DocumentsOf(t)
  BY DEF KnownDocuments
<1>2. \A k \in 1 .. Len(list) : list[k] \in KnownDocuments(t)
  OBVIOUS
<1>3. /\ OrdersOf(list) \in Seq(DocumentsOf(t))
      /\ Len(OrdersOf(list)) = Len(list)
      /\ \A k \in 1 .. Len(list) : OrdersOf(list)[k] = list[k].order
  BY <1>1, <1>2 DEF OrdersOf
<1>4. ASSUME NEW f \in KnownDocuments(t)
      PROVE  OrdersOf(Append(list, f)) = Append(OrdersOf(list), f.order)
  <2>1. PICK l, o, a, b : /\ l = Append(list, f) /\ o = OrdersOf(list)
                          /\ a = OrdersOf(l) /\ b = Append(o, f.order)
    OBVIOUS
  <2>2. /\ l \in Seq(KnownDocuments(t)) /\ Len(l) = Len(list) + 1
        /\ l[Len(list) + 1] = f
        /\ \A k \in 1 .. Len(list) : l[k] = list[k]
    BY <2>1
  <2>3. /\ b \in Seq(DocumentsOf(t)) /\ Len(b) = Len(list) + 1
        /\ b[Len(list) + 1] = f.order
        /\ \A k \in 1 .. Len(list) : b[k] = list[k].order
    BY <1>1, <1>3, <2>1
  <2>4. a = [k \in 1 .. Len(list) + 1 |-> l[k].order]
    BY <2>1, <2>2 DEF OrdersOf
  <2>5. \A k \in 1 .. Len(list) + 1 : l[k].order = b[k]
    BY <2>2, <2>3
  <2>6. b = [k \in 1 .. Len(list) + 1 |-> b[k]]
    BY <2>3
  <2>7. a = b
    BY ONLY <2>4, <2>5, <2>6
  <2> QED BY <2>1, <2>7
<1> QED BY <1>3, <1>4

LEMMA NoOrders == OrdersOf(<<>>) = <<>>
BY DEF OrdersOf

\* Nothing is found at first.
LEMMA NothingFound ==
    ASSUME NEW t, IsTree(t), NEW s, NEW isLast \in BOOLEAN
    PROVE  HoldsFound(t, s, isLast, <<>>, NoResult, <<>>)
<1>1. PICK e : e = <<>>
  OBVIOUS
<1>2. e \in Seq(Below(t)) /\ OrdersOf(e) = e
  BY <1>1, NoOrders
<1>3. ContextsBehind(t, s, e) = e
  BY <1>1, <1>2, ContextsBehindAreBelow
<1>4. /\ NoResult.type = "UNDEFINED" /\ NoResult.documentList = e
      /\ NoResult.elementList = e
  BY <1>1 DEF NoResult
<1> QED BY <1>1, <1>2, <1>3, <1>4 DEF HoldsFound

\* A document is selected.
LEMMA DocumentFound ==
    ASSUME NEW t, IsTree(t), NEW s, s.sType = "DOCUMENT",
           NEW isLast \in BOOLEAN,
           NEW c \in Seq(KnownDocuments(t)), NEW r \in Results(t),
           NEW found \in Seq(Below(t)), HoldsFound(t, s, isLast, c, r, found),
           NEW f \in KnownDocuments(t), f.order # 0,
           NEW c1, c1 = IF t.son[f.order] # 0
                        THEN Append(c, Found(t.son[f.order], f.order)) ELSE c,
           NEW r1, r1 = IF isLast
                        THEN [r EXCEPT !.type = "DOCUMENT",
                                       !.documentList = Append(@, f)]
                        ELSE r
    PROVE  HoldsFound(t, s, isLast, c1, r1, Append(found, f.order))
<1>1. PICK d, g, more : /\ d = f.order /\ g = Found(t.son[d], d)
                        /\ more = Append(found, d)
  OBVIOUS
<1>2. d \in Below(t)
  BY <1>1 DEF KnownDocuments, Below
<1>3. t.son[d] # 0 => g \in KnownDocuments(t) /\ g.order = t.son[d]
  BY <1>1, <1>2 DEF Found, KnownDocuments, IsTree, Below
<1>4. OrdersOf(c) = SonsOf(t, found)
  BY DEF HoldsFound, ContextsBehind
<1>5. OrdersOf(c1) = SonsOf(t, more)
  <2>1. SonsOf(t, more) = IF t.son[d] # 0
                          THEN Append(SonsOf(t, found), t.son[d])
                          ELSE SonsOf(t, found)
    BY <1>1, <1>2, SonsOfMore
  <2>2. CASE t.son[d] # 0
    <3>1. c1 = Append(c, g)
      BY <1>1, <2>2
    <3>2. OrdersOf(Append(c, g)) = Append(OrdersOf(c), g.order)
      BY <1>3, <2>2, OrdersAre
    <3> QED BY <1>3, <1>4, <2>1, <2>2, <3>1, <3>2
  <2>3. CASE t.son[d] = 0
    BY <1>1, <1>4, <2>1, <2>3
  <2> QED BY <2>2, <2>3
<1>6. more # <<>>
  BY <1>1, <1>2
<1>7. CASE isLast
  <2>1. /\ r1.type = "DOCUMENT" /\ r1.documentList = Append(r.documentList, f)
        /\ r1.elementList = r.elementList
    BY <1>7 DEF Results
  <2>2. OrdersOf(r.documentList) = found /\ OrdersOf(r.elementList) = <<>>
    BY <1>7 DEF HoldsFound
  <2>3. OrdersOf(Append(r.documentList, f)) =
          Append(OrdersOf(r.documentList), d)
    BY <1>1, OrdersAre DEF Results
  <2>4. OrdersOf(r1.documentList) = more
    BY <1>1, <2>1, <2>2, <2>3
  <2> QED BY <1>1, <1>5, <1>6, <1>7, <2>1, <2>2, <2>4
          DEF HoldsFound, ContextsBehind
<1>8. CASE ~ isLast
  <2>1. r1 = NoResult
    BY <1>8 DEF HoldsFound
  <2> QED BY <1>1, <1>5, <1>8, <2>1 DEF HoldsFound, ContextsBehind
<1> QED BY <1>7, <1>8

\* An element is.
LEMMA ElementFound ==
    ASSUME NEW t, IsTree(t), NEW s, s.sType # "DOCUMENT",
           NEW isLast \in BOOLEAN,
           NEW c \in Seq(KnownDocuments(t)), NEW r \in Results(t),
           NEW found \in Seq(Below(t)), HoldsFound(t, s, isLast, c, r, found),
           NEW f \in KnownDocuments(t), f.order # 0,
           NEW r1, r1 = IF isLast
                        THEN [r EXCEPT !.type = "ELEMENT",
                                       !.elementList = Append(@, f)]
                        ELSE r
    PROVE  HoldsFound(t, s, isLast, c, r1, Append(found, f.order))
<1>1. PICK d, more : d = f.order /\ more = Append(found, d)
  OBVIOUS
<1>2. d \in Below(t)
  BY <1>1 DEF KnownDocuments, Below
<1>5. OrdersOf(c) = <<>>
  BY DEF HoldsFound, ContextsBehind
<1>6. more # <<>>
  BY <1>1, <1>2
<1>7. CASE isLast
  <2>1. /\ r1.type = "ELEMENT" /\ r1.elementList = Append(r.elementList, f)
        /\ r1.documentList = r.documentList
    BY <1>7 DEF Results
  <2>2. OrdersOf(r.elementList) = found /\ OrdersOf(r.documentList) = <<>>
    BY <1>7 DEF HoldsFound
  <2>3. OrdersOf(Append(r.elementList, f)) = Append(OrdersOf(r.elementList), d)
    BY <1>1, OrdersAre DEF Results
  <2>4. OrdersOf(r1.elementList) = more
    BY <1>1, <2>1, <2>2, <2>3
  <2> QED BY <1>1, <1>5, <1>6, <1>7, <2>1, <2>2, <2>4
          DEF HoldsFound, ContextsBehind
<1>8. CASE ~ isLast
  <2>1. r1 = NoResult
    BY <1>8 DEF HoldsFound
  <2> QED BY <1>1, <1>5, <1>8, <2>1 DEF HoldsFound, ContextsBehind
<1> QED BY <1>7, <1>8

-----------------------------------------------------------------------------
(* The search, action by action.                                           *)

\* What has to be shown of the next state, by where it is.
LEMMA SearchInvThere ==
    /\ pc' = "serve" /\ FindsWhatStepsReach' => SearchInv'
    /\ pc' = "answered" /\ JoinReturnsChildren' => SearchInv'
    /\ pc' = "aborted" => SearchInv'
    /\ pc' = "context" /\ InSearch' /\ BetweenContexts' => SearchInv'
    /\ pc' = "visit" /\ InSearch' /\ InContext' => SearchInv'
    /\ pc' \in {"join", "rootSons"} /\ InJoin' => SearchInv'
BY DEF SearchInv, InSearch, BetweenContexts, InContext, InJoin, NothingYet,
       FindsWhatStepsReach, JoinReturnsChildren

LEMMA InitIsSearchInv == Init => SearchInv
BY DEF Init, SearchInv, InSearch, BetweenContexts, InContext, InJoin,
       NothingYet, FindsWhatStepsReach, JoinReturnsChildren

\* What a query reaches stays what it is.
LEMMA ReachedStays ==
    ASSUME UNCHANGED query
    PROVE  /\ Reached' = Reached
           /\ IsEmptyPath("ABSOLUTE")' = IsEmptyPath("ABSOLUTE")
           /\ IsEmptyPath("RELATIVE")' = IsEmptyPath("RELATIVE")
           /\ tree' = tree /\ path' = path /\ request' = request
           /\ joinPred' = joinPred
BY DEF query, Reached, IsEmptyPath

LEMMA StutteringKeepsSearchInv == SearchInv /\ UNCHANGED vars => SearchInv'
<1> SUFFICES ASSUME SearchInv, UNCHANGED vars PROVE SearchInv'
  OBVIOUS
<1>1. UNCHANGED <<tree, request, path, joinPred, pc, step, depth, prevDepth,
                  contextList, position, tempContextList, iterator, docNumber,
                  ifResult, tempIndex, pList>>
  BY DEF vars, query, context, walk, joining
<1>2. InSearch' /\ BetweenContexts' /\ NothingYet'
  BY <1>1 DEF SearchInv, InSearch, BetweenContexts, NothingYet, HasFound,
              FoundBefore, CurrentContexts, CurrentStep, IsLastStep,
              IsEmptyPath
<1>3. InContext'
  BY <1>1 DEF SearchInv, InContext, VisitInv, HasFound, FoundBefore,
              CurrentContexts, CurrentStep, IsLastStep, Current,
              CurrentCandidates
<1>4. InJoin' /\ FindsWhatStepsReach' /\ JoinReturnsChildren'
  BY <1>1 DEF SearchInv, InJoin, Reached, IsEmptyPath, Children, JoinMarks,
              HeadDocument, FindsWhatStepsReach, FoundOrders,
              JoinReturnsChildren
<1> QED BY <1>2, <1>3, <1>4 DEF SearchInv

\* The parts of the inductive invariant.
LEMMA IInvParts ==
    IInv => InputsOK /\ TypeOK /\ ResultsKnowParents /\ JoinsChildren
            /\ NoContextYet /\ IsTree(tree) /\ Len(path) \in Nat \ {0}
BY InputFacts DEF IInv

LEMMA FindRootKeepsSearchInv == IInv /\ SearchInv /\ FindRoot => SearchInv'
<1> SUFFICES ASSUME IInv, SearchInv, FindRoot PROVE SearchInv'
  OBVIOUS
<1>1. pc' = "serve" /\ Reached' = <<0>>
  <2>1. UNCHANGED query /\ IsEmptyPath("ABSOLUTE")
    BY DEF FindRoot
  <2>2. Reached = <<0>>
    BY <2>1 DEF Reached
  <2> QED BY <2>1, <2>2, ReachedStays DEF FindRoot
<1>2. ifResult'.type = "DOCUMENT" /\ ifResult'.documentList = <<Found(0, 0)>>
  BY DEF FindRoot, NoResult
<1>3. OrdersOf(<<Found(0, 0)>>) = <<0>>
  BY DEF OrdersOf, Found
<1>4. FoundOrders' = <<0>>
  BY <1>2, <1>3 DEF FoundOrders
<1> QED BY <1>1, <1>4, SearchInvThere DEF FindsWhatStepsReach

LEMMA FindRootSonsKeepsSearchInv ==
    IInv /\ SearchInv /\ FindRootSons => SearchInv'
<1> SUFFICES ASSUME IInv, SearchInv, FindRootSons PROVE SearchInv'
  OBVIOUS
<1>1. pc' = "rootSons" /\ UNCHANGED query /\ IsEmptyPath("RELATIVE")
      /\ tempIndex' = tree.son[0] /\ pc = "start" /\ pList' = pList
  BY DEF FindRootSons
<1>2. ~ IsEmptyPath("ABSOLUTE")
  BY <1>1 DEF IsEmptyPath
<1>3. PICK all : all = Brothers(tree)[tree.son[0]]
  OBVIOUS
<1>4. Reached' = all
  BY <1>1, <1>2, <1>3, ReachedStays DEF Reached
<1>5. all \in Seq(Below(tree)) /\ Len(all) \in Nat
  <2>1. IsTree(tree) /\ tree.son[0] \in DocumentsOf(tree)
    BY IInvParts DEF IsTree
  <2>2. all \in Seq(Below(tree))
    BY <1>3, <2>1, BrothersAre
  <2> QED BY <2>2
<1>6. IsRest(all, all, 0)
  <2>1. \A j \in 1 .. Len(all) : 0 + j = j
    OBVIOUS
  <2> QED BY <1>5, <2>1 DEF IsRest, IsPart
<1>7. pList' = <<>>
  BY <1>1 DEF SearchInv, NothingYet
<1>8. IsPart(OrdersOf(pList'), all, 0) /\ Len(pList') = 0
  BY <1>5, <1>7, NoOrders DEF IsPart
<1>9. (Brothers(tree)[tempIndex])' = all
  BY <1>1, <1>3, ReachedStays
<1>10. InJoin'
  BY <1>1, <1>2, <1>4, <1>5, <1>6, <1>8, <1>9, ReachedStays DEF InJoin
<1> QED BY <1>1, <1>10, SearchInvThere

LEMMA StartSearchKeepsSearchInv ==
    IInv /\ SearchInv /\ StartSearch => SearchInv'
<1> SUFFICES ASSUME IInv, SearchInv, StartSearch PROVE SearchInv'
  OBVIOUS
<1>1. /\ UNCHANGED query /\ pc = "start"
      /\ ~ IsEmptyPath("ABSOLUTE") /\ ~ IsEmptyPath("RELATIVE")
      /\ UNCHANGED <<step, position, tempContextList, ifResult>>
  BY DEF StartSearch
<1>2. /\ step = 1 /\ position = 1 /\ tempContextList = <<>>
      /\ ifResult = NoResult
  BY <1>1 DEF SearchInv, NothingYet
<1>3. CASE tree.son[0] = 0
  <2>1. pc' = "serve"
    BY <1>3 DEF StartSearch
  <2>2. Reached = <<>>
    BY <1>1, <1>3 DEF Reached
  <2>3. FoundOrders' = <<>>
    BY <1>1, <1>2, NoOrders DEF FoundOrders, NoResult
  <2> QED BY <1>1, <2>1, <2>2, <2>3, ReachedStays, SearchInvThere
          DEF FindsWhatStepsReach
<1>4. CASE tree.son[0] # 0
  <2>1. pc' = "context" /\ contextList' = <<Found(tree.son[0], 0)>>
    BY <1>4 DEF StartSearch
  <2>2. OrdersOf(contextList') = <<tree.son[0]>>
    BY <2>1 DEF OrdersOf, Found
  <2>3. CurrentContexts' = Contexts(tree, path)[0]
    BY <1>1, <1>2, ReachedStays DEF CurrentContexts
  <2>4. Contexts(tree, path)[0] = <<tree.son[0]>>
    BY <1>4, IInvParts, ContextsAre
  <2>5. InSearch'
    BY <1>1, <1>4, <2>2, <2>3, <2>4, ReachedStays DEF InSearch
  <2>6. PICK t, s, c, isLast : /\ t = tree /\ s = CurrentStep'
                               /\ c = CurrentContexts' /\ isLast = IsLastStep'
    OBVIOUS
  <2>7. isLast \in BOOLEAN /\ IsTree(t)
    BY <2>6, IInvParts DEF IsLastStep
  <2>8. FoundBefore' = SelectedIn(t, s, c)[0]
    BY <1>1, <1>2, <2>6, ReachedStays DEF FoundBefore
  <2>9. c \in Seq(Below(t))
    <3>1. 0 \in 0 .. Len(path)
      BY IInvParts
    <3> QED BY <1>4, <2>3, <2>6, <3>1, IInvParts, ContextsAre
  <2>10. FoundBefore' = <<>>
    BY <2>7, <2>8, <2>9, SelectedInAre
  <2>11. HoldsFound(t, s, isLast, <<>>, NoResult, <<>>)
    BY <2>7, NothingFound
  <2>12. HasFound(FoundBefore)'
    BY <1>1, <1>2, <2>6, <2>10, <2>11, ReachedStays DEF HasFound
  <2> QED BY <2>1, <2>5, <2>12, SearchInvThere DEF BetweenContexts
<1> QED BY <1>3, <1>4

\* The current step and its contexts, and what the contexts have given.
LEMMA SearchFacts ==
    ASSUME IInv, SearchInv, pc \in {"context", "visit"}
    PROVE  /\ IsTree(tree) /\ tree.son[0] # 0
           /\ step \in 1 .. Len(path) /\ Len(path) \in Nat
           /\ CurrentContexts = Contexts(tree, path)[step - 1]
           /\ CurrentContexts \in Seq(Below(tree))
           /\ OrdersOf(contextList) = CurrentContexts
           /\ Len(CurrentContexts) = Len(contextList)
           /\ position \in 1 .. Len(contextList) + 1
           /\ FoundBefore \in Seq(Below(tree))
           /\ IsChain(CurrentStep.pred)
           /\ IsLastStep \in BOOLEAN
<1>1. /\ IsTree(tree) /\ tree.son[0] # 0 /\ Len(path) \in Nat
      /\ step \in 1 .. Len(path)
      /\ position \in 1 .. Len(contextList) + 1
      /\ contextList \in Seq(KnownDocuments(tree))
      /\ OrdersOf(contextList) = CurrentContexts
  BY IInvParts DEF TypeOK, ResultsKnowParents, ContextsKnowParents, SearchInv,
                   InSearch
<1>2. CurrentContexts \in Seq(Below(tree))
  <2>1. step - 1 \in 0 .. Len(path)
    BY <1>1
  <2> QED BY <1>1, <2>1, ContextsAre DEF CurrentContexts
<1>3. Len(CurrentContexts) = Len(contextList)
  BY <1>1, OrdersAre
<1>4. FoundBefore \in Seq(Below(tree))
  <2>1. position - 1 \in 0 .. Len(CurrentContexts)
    BY <1>1, <1>2, <1>3
  <2> QED BY <1>1, <1>2, <2>1, SelectedInAre DEF FoundBefore
<1>5. IsChain(CurrentStep.pred)
  BY <1>1, IInvParts, PathsAssumption DEF InputsOK, CurrentStep
<1> QED BY <1>1, <1>2, <1>3, <1>4, <1>5 DEF CurrentContexts, IsLastStep

\* The current context.
LEMMA CurrentFacts ==
    ASSUME IInv, SearchInv, pc \in {"context", "visit"},
           position <= Len(contextList)
    PROVE  /\ position \in 1 .. Len(CurrentContexts)
           /\ Current = CurrentContexts[position]
           /\ Current \in Below(tree)
           /\ Current \in DocumentsOf(tree)
           /\ CandidatesSplit(tree, CurrentStep, Current, CurrentCandidates)
<1>1. /\ IsTree(tree) /\ CurrentContexts \in Seq(Below(tree))
      /\ OrdersOf(contextList) = CurrentContexts
      /\ Len(CurrentContexts) = Len(contextList)
      /\ position \in 1 .. Len(contextList) + 1
      /\ contextList \in Seq(KnownDocuments(tree))
  BY SearchFacts, IInvParts DEF ResultsKnowParents, ContextsKnowParents
<1>2. position \in 1 .. Len(contextList)
  BY <1>1
<1>3. Current = CurrentContexts[position]
  BY <1>1, <1>2, OrdersAre DEF Current
<1>4. Current \in Below(tree)
  BY <1>1, <1>2, <1>3
<1>5. Current \in DocumentsOf(tree)
  BY <1>4 DEF Below
<1>6. CandidatesSplit(tree, CurrentStep, Current, CurrentCandidates)
  BY <1>1, <1>5, CandidatesAre DEF CurrentCandidates
<1> QED BY <1>1, <1>2, <1>3, <1>4, <1>5, <1>6

LEMMA EnterContextKeepsSearchInv ==
    IInv /\ SearchInv /\ EnterContext => SearchInv'
<1> SUFFICES ASSUME IInv, SearchInv, EnterContext PROVE SearchInv'
  OBVIOUS
<1>1. /\ pc = "context" /\ pc' = "visit" /\ position <= Len(contextList)
      /\ iterator' = CreateDocIterator(Current,
                        contextList[position].indexParent, depth)
      /\ prevDepth' = depth /\ depth' = depth /\ docNumber' = 0
      /\ UNCHANGED query
      /\ UNCHANGED <<step, contextList, position, tempContextList, ifResult>>
  BY DEF EnterContext, context, Current, FirstNumber
<1>2. /\ IsTree(tree) /\ Current \in Below(tree)
      /\ CandidatesSplit(tree, CurrentStep, Current, CurrentCandidates)
      /\ FoundBefore \in Seq(Below(tree))
  BY <1>1, SearchFacts, CurrentFacts
<1>3. /\ Current' = Current /\ CurrentStep' = CurrentStep
      /\ CurrentContexts' = CurrentContexts /\ FoundBefore' = FoundBefore
      /\ CurrentCandidates' = CurrentCandidates /\ IsLastStep' = IsLastStep
      /\ tree' = tree
  BY <1>1, ReachedStays DEF Current, CurrentStep, CurrentContexts,
       FoundBefore, CurrentCandidates, IsLastStep
<1>4. InSearch'
  BY <1>1, <1>3, ReachedStays DEF SearchInv, InSearch
<1>5. PICK t, d, i, all, c, s, start :
         /\ t = tree /\ d = Current /\ i = iterator' /\ all = Visits(tree)[d]
         /\ c = CurrentCandidates /\ s = CurrentStep /\ start = depth
  OBVIOUS
<1>6. HoldsRest(t, i, all, 0)
  BY <1>1, <1>2, <1>5, RestAtStart
<1>7. PICK brothers : brothers = Len(Brothers(t)[d])
  OBVIOUS
<1>8. brothers \in Nat /\ brothers >= 1
  <2>1. PICK w, x : w = Brothers(t)[d] /\ x = Brothers(t)[t.brother[d]]
    OBVIOUS
  <2>2. BrothersSplit(t, d, w, x)
    BY <1>2, <1>5, <2>1, BrothersBehind
  <2> QED BY <1>7, <2>1, <2>2 DEF BrothersSplit
<1>9. DepthTells(t, i, start, brothers, 0)
  <2>1. /\ i.next.order = d /\ i.next.depth = start /\ Len(i.stack) = 0
    BY <1>1, <1>5 DEF CreateDocIterator, EntryOf
  <2> QED BY <1>7, <1>8, <2>1 DEF DepthTells
<1>10. NumberOf(t, s, c, 0) = 0
  BY NumberGrows
<1>11. FoundBefore \o Kept(c, Marks(t, s, c))[0] = FoundBefore
  <2>1. c \in Seq(Below(t))
    BY <1>2, <1>5 DEF CandidatesSplit
  <2>2. Kept(c, Marks(t, s, c))[0] = <<>>
    BY <2>1, KeptAre
  <2> QED BY <1>2, <2>2
<1>12. HasFound(FoundBefore)
  BY <1>1 DEF SearchInv, BetweenContexts
<1>13. VisitInv(0)'
  <2>1. HoldsRest(tree, iterator, Visits(tree)[Current], 0)'
    BY <1>3, <1>5, <1>6
  <2>2. DepthTells(tree, iterator, prevDepth, Len(Brothers(tree)[Current]), 0)'
    BY <1>1, <1>3, <1>5, <1>7, <1>9
  <2>3. (depth = prevDepth <=> 0 <= Len(Brothers(tree)[Current]))'
    BY <1>1, <1>3, <1>5, <1>7, <1>8
  <2>4. (docNumber = NumberOf(tree, CurrentStep, CurrentCandidates, 0))'
    BY <1>1, <1>3, <1>5, <1>10
  <2>5. HasFound(FoundBefore \o
          Kept(CurrentCandidates,
               Marks(tree, CurrentStep, CurrentCandidates))[0])'
    BY <1>1, <1>3, <1>5, <1>11, <1>12 DEF HasFound
  <2> QED BY <2>1, <2>2, <2>3, <2>4, <2>5 DEF VisitInv
<1>14. (0 \in 0 .. Len(CurrentCandidates))'
  BY <1>2, <1>3 DEF CandidatesSplit
<1>15. InContext'
  BY <1>13, <1>14 DEF InContext
<1> QED BY <1>1, <1>4, <1>15, SearchInvThere

\* The iteration goes on as long as there are candidates.
LEMMA GoesOnAre ==
    ASSUME IInv, SearchInv, pc = "visit",
           NEW v \in 0 .. Len(CurrentCandidates), VisitInv(v)
    PROVE  /\ IterationGoesOn => /\ ~ iterator.stop
                                 /\ v < Len(CurrentCandidates)
                                 /\ CurrentCandidates[v + 1] =
                                      iterator.next.order
           /\ ~ IterationGoesOn => v = Len(CurrentCandidates)
<1>1. PICK t, i, all, c, s, d : /\ t = tree /\ i = iterator
                                /\ all = Visits(tree)[Current]
                                /\ c = CurrentCandidates /\ s = CurrentStep
                                /\ d = Current
  OBVIOUS
<1>2. position <= Len(contextList)
  BY IInvParts DEF TypeOK
<1>3. IsTree(t) /\ CandidatesSplit(t, s, d, c)
  BY <1>1, <1>2, SearchFacts, CurrentFacts
<1>4. PICK brothers : brothers = Len(Brothers(t)[d])
  OBVIOUS
<1>5. /\ all \in Seq(Below(t)) /\ c \in Seq(Below(t))
      /\ brothers \in Nat /\ brothers <= Len(all) /\ Len(c) <= Len(all)
      /\ Len(c) = IF s.pType = "ABSOLUTE" /\ brothers + 1 < Len(all)
                  THEN brothers + 1 ELSE Len(all)
      /\ \A k \in 1 .. Len(c) : c[k] = all[k]
  BY <1>1, <1>3, <1>4 DEF CandidatesSplit
<1>6. /\ HoldsRest(t, i, all, v)
      /\ depth = prevDepth <=> v <= brothers
      /\ v \in Nat /\ v <= Len(c)
  BY <1>1, <1>4, <1>5 DEF VisitInv
<1>7. i \in Iterators(t)
  BY <1>1, IInvParts DEF ResultsKnowParents, IteratorKnowsParents, Iterators
<1>8. ASSUME IterationGoesOn
      PROVE  ~ i.stop /\ v < Len(c) /\ c[v + 1] = i.next.order
  <2>1. ~ i.stop /\ (s.pType = "ABSOLUTE" => depth = prevDepth)
    BY <1>1, <1>8 DEF IterationGoesOn, HasNextDoc
  <2>2. v < Len(all) /\ all[v + 1] = i.next.order
    BY <1>3, <1>5, <1>6, <1>7, <2>1, RestShrinks
  <2>3. v < Len(c)
    BY <1>5, <1>6, <2>1, <2>2
  <2>4. v + 1 \in 1 .. Len(c)
    BY <1>5, <1>6, <2>3
  <2> QED BY <1>5, <2>1, <2>2, <2>3, <2>4
<1>9. ASSUME ~ IterationGoesOn
      PROVE  v = Len(c)
  <2>1. CASE i.stop
    <3>1. v = Len(all)
      BY <1>6, <2>1 DEF HoldsRest
    <3> QED BY <1>5, <1>6, <3>1
  <2>2. CASE ~ i.stop
    <3>1. s.pType = "ABSOLUTE" /\ depth # prevDepth
      BY <1>1, <1>9, <2>2 DEF IterationGoesOn, HasNextDoc
    <3> QED BY <1>5, <1>6, <3>1
  <2> QED BY <2>1, <2>2
<1> QED BY <1>1, <1>8, <1>9

\* The predicates of a step decide what Marks says, whatever garbage is.
LEMMA MarkIs ==
    ASSUME NEW t, NEW s, NEW c, NEW k \in 1 .. Len(c)
    PROVE  k \in Marks(t, s, c) <=>
              /\ Named(t, s, c[k])
              /\ s.sType = "DOCUMENT" =>
                    CalculatePredicate(s.pred, DocumentAt(t, c[k]),
                                       NumberOf(t, s, c, k - 1), FALSE)
BY DEF Marks, Passes

LEMMA VisitDocumentKeepsSearchInv ==
    IInv /\ SearchInv /\ VisitDocument => SearchInv'
<1> SUFFICES ASSUME IInv, SearchInv, VisitDocument PROVE SearchInv'
  OBVIOUS
<1> DEFINE e == iterator.next
           found == Found(e.order, e.orderParent)
           son == tree.son[e.order]
<1>1. /\ pc = "visit" /\ pc' = "visit" /\ IterationGoesOn
      /\ iterator' = AfterNextDoc(tree, iterator)
      /\ depth' = e.depth
      /\ UNCHANGED query
      /\ UNCHANGED <<step, contextList, position, prevDepth>>
  BY DEF VisitDocument
<1>2. PICK v \in 0 .. Len(CurrentCandidates) : VisitInv(v)
  BY <1>1 DEF SearchInv, InContext
<1>3. position <= Len(contextList)
  BY <1>1, IInvParts DEF TypeOK
<1>4. /\ IsTree(tree) /\ Current \in DocumentsOf(tree)
      /\ CandidatesSplit(tree, CurrentStep, Current, CurrentCandidates)
      /\ FoundBefore \in Seq(Below(tree)) /\ IsChain(CurrentStep.pred)
      /\ IsLastStep \in BOOLEAN
  BY <1>1, <1>3, SearchFacts, CurrentFacts
<1>5. /\ ~ iterator.stop /\ v < Len(CurrentCandidates)
      /\ CurrentCandidates[v + 1] = e.order
  BY <1>1, <1>2, GoesOnAre
<1>6. /\ Current' = Current /\ CurrentStep' = CurrentStep
      /\ CurrentContexts' = CurrentContexts /\ FoundBefore' = FoundBefore
      /\ CurrentCandidates' = CurrentCandidates /\ IsLastStep' = IsLastStep
      /\ tree' = tree
  BY <1>1, ReachedStays DEF Current, CurrentStep, CurrentContexts,
       FoundBefore, CurrentCandidates, IsLastStep
<1>7. InSearch'
  BY <1>1, <1>6, ReachedStays DEF SearchInv, InSearch
<1>8. PICK t, i, all, c, s, m, isLast, before, brothers :
         /\ t = tree /\ i = iterator /\ all = Visits(tree)[Current]
         /\ c = CurrentCandidates /\ s = CurrentStep
         /\ m = Marks(tree, CurrentStep, CurrentCandidates)
         /\ isLast = IsLastStep /\ before = FoundBefore
         /\ brothers = Len(Brothers(tree)[Current])
  OBVIOUS
<1>9. /\ all \in Seq(Below(t)) /\ c \in Seq(Below(t)) /\ brothers \in Nat
      /\ v \in Nat /\ v + 1 \in 1 .. Len(c) /\ v + 1 \in 0 .. Len(c)
      /\ c[v + 1] = e.order
      /\ IsTree(t) /\ before \in Seq(Below(t)) /\ isLast \in BOOLEAN
      /\ IsChain(s.pred)
  BY <1>4, <1>5, <1>8 DEF CandidatesSplit
<1>10. i \in Iterators(t)
  BY <1>8, IInvParts DEF ResultsKnowParents, IteratorKnowsParents, Iterators
<1>11. /\ e.order \in Below(t) /\ e.order # 0
       /\ found \in KnownDocuments(t) /\ found.order = e.order
  <2>1. e.order \in Below(t)
    BY <1>9
  <2>2. /\ e.orderParent \in DocumentsOf(t) /\ e.order \in DocumentsOf(t)
        /\ e.orderParent = t.parent[e.order]
    BY <1>8, <1>10 DEF Iterators, KnownEntries
  <2> QED BY <2>1, <2>2 DEF Below, KnownDocuments, Found
<1>12. /\ HoldsRest(t, i, all, v)
       /\ DepthTells(t, i, prevDepth, brothers, v)
       /\ s.sType = "DOCUMENT" => docNumber = NumberOf(t, s, c, v)
       /\ HoldsFound(t, s, isLast, tempContextList, ifResult,
                     before \o Kept(c, m)[v])
  BY <1>2, <1>8 DEF VisitInv, HasFound
<1>13. prevDepth \in Nat
  BY IInvParts DEF TypeOK
<1>14. HoldsRest(t, iterator', all, v + 1)
  BY <1>1, <1>5, <1>8, <1>9, <1>10, <1>12, RestShrinks
<1>15. /\ i.next.depth = prevDepth <=> v + 1 <= brothers
       /\ DepthTells(t, iterator', prevDepth, brothers, v + 1)
  <2>1. ~ i.stop /\ i.next.order # 0
    BY <1>5, <1>8, <1>11
  <2>2. /\ i.next.depth = prevDepth <=> v + 1 <= brothers
        /\ DepthTells(t, AfterNextDoc(t, i), prevDepth, brothers, v + 1)
    BY <1>9, <1>10, <1>12, <1>13, <2>1, DepthTellsOn
  <2> QED BY <1>1, <1>8, <2>2
<1>16. DocumentAt(tree, e.order).name = t.name[e.order]
       /\ DocumentAt(tree, e.order).elements = t.elements[e.order]
  BY <1>8 DEF DocumentAt
<1>17. s.sType = "DOCUMENT" => docNumber' = NumberOf(t, s, c, v + 1)
  <2> SUFFICES ASSUME s.sType = "DOCUMENT"
               PROVE  docNumber' = NumberOf(t, s, c, v + 1)
    OBVIOUS
  <2>1. docNumber' = IF t.name[e.order] = s.stepName
                     THEN docNumber + 1 ELSE docNumber
    BY <1>8, <1>11, <1>16 DEF VisitDocument
  <2>2. Named(t, s, c[v + 1]) <=> t.name[e.order] = s.stepName
    BY <1>9 DEF Named
  <2>3. NumberOf(t, s, c, v + 1) = IF Named(t, s, c[v + 1])
                                   THEN NumberOf(t, s, c, v) + 1
                                   ELSE NumberOf(t, s, c, v)
    BY <1>9, NumberGrows
  <2> QED BY <1>12, <2>1, <2>2, <2>3
<1>18. PICK kept, more : kept = Kept(c, m)[v] /\ more = Kept(c, m)[v + 1]
  OBVIOUS
<1>19. /\ kept \in Seq(Below(t)) /\ before \o kept \in Seq(Below(t))
       /\ more = IF v + 1 \in m THEN Append(kept, e.order) ELSE kept
  <2>1. v \in 0 .. Len(c) /\ v + 1 - 1 = v
    BY <1>9
  <2>2. kept \in Seq(Below(t))
    BY <1>9, <1>18, <2>1, KeptAre
  <2>3. Kept(c, m)[v + 1] = IF v + 1 \in m
                            THEN Append(Kept(c, m)[v + 1 - 1], c[v + 1])
                            ELSE Kept(c, m)[v + 1 - 1]
    BY <1>9, KeptAre
  <2>4. before \o kept \in Seq(Below(t))
    BY <1>9, <2>2
  <2>5. c[v + 1] = e.order
    BY <1>9
  <2>6. more = IF v + 1 \in m THEN Append(kept, e.order) ELSE kept
    BY ONLY <1>18, <2>1, <2>3, <2>5
  <2> QED BY ONLY <2>2, <2>4, <2>6
<1>20. before \o more = IF v + 1 \in m THEN Append(before \o kept, e.order)
                        ELSE before \o kept
  <2>1. before \o Append(kept, e.order) = Append(before \o kept, e.order)
    BY <1>9, <1>11, <1>19
  <2> QED BY <1>19, <2>1
<1>21. v + 1 \in m <=>
          /\ Named(t, s, e.order)
          /\ s.sType = "DOCUMENT" =>
                CalculatePredicate(s.pred, DocumentAt(t, e.order),
                                   NumberOf(t, s, c, v), FALSE)
  <2>1. PICK k : k = v + 1
    OBVIOUS
  <2>2. k \in 1 .. Len(c) /\ k - 1 = v /\ c[k] = e.order
    BY <1>9, <2>1
  <2>3. k \in Marks(t, s, c) <=>
           /\ Named(t, s, c[k])
           /\ s.sType = "DOCUMENT" =>
                 CalculatePredicate(s.pred, DocumentAt(t, c[k]),
                                    NumberOf(t, s, c, k - 1), FALSE)
    BY <2>2, MarkIs
  <2> QED BY <1>8, <2>1, <2>2, <2>3
<1>22. /\ tempContextList \in Seq(KnownDocuments(t)) /\ ifResult \in Results(t)
  BY <1>8, IInvParts DEF ResultsKnowParents, ContextsKnowParents,
                         FoundKnowParents, Results
<1>23. HoldsFound(t, s, isLast, tempContextList', ifResult', before \o more)
  <2>1. CASE s.sType = "DOCUMENT" /\ v + 1 \in m
    <3>1. Select(found, son)
      <4>1. PICK garbage \in BOOLEAN :
               IF /\ DocumentAt(tree, e.order).name = CurrentStep.stepName
                  /\ CalculatePredicate(CurrentStep.pred,
                        DocumentAt(tree, e.order), docNumber, garbage)
               THEN Select(found, tree.son[found.order])
               ELSE UNCHANGED <<tempContextList, ifResult>>
        BY <1>8, <1>11, <2>1 DEF VisitDocument
      <4>2. CalculatePredicate(s.pred, DocumentAt(t, e.order),
                               docNumber, garbage)
        BY <1>9, <1>12, <1>21, <2>1, GarbageIsOverwritten
      <4>3. t.name[e.order] = s.stepName
        BY <1>21, <2>1 DEF Named
      <4> QED BY <1>8, <1>11, <1>16, <4>1, <4>2, <4>3
    <3>2. /\ tempContextList' = IF t.son[found.order] # 0
                                THEN Append(tempContextList,
                                        Found(t.son[found.order], found.order))
                                ELSE tempContextList
          /\ ifResult' = IF isLast
                         THEN [ifResult EXCEPT !.type = "DOCUMENT",
                                  !.documentList = Append(@, found)]
                         ELSE ifResult
      BY <1>8, <1>11, <3>1 DEF Select
    <3>3. HoldsFound(t, s, isLast, tempContextList, ifResult, before \o kept)
      BY <1>12, <1>18
    <3>4. PICK f, old, c0, r0, c1, r1 :
             /\ f = found /\ old = before \o kept
             /\ c0 = tempContextList /\ r0 = ifResult
             /\ c1 = tempContextList' /\ r1 = ifResult'
      OBVIOUS
    <3>5. HoldsFound(t, s, isLast, c1, r1, Append(old, f.order))
      <4>1. /\ old \in Seq(Below(t)) /\ HoldsFound(t, s, isLast, c0, r0, old)
            /\ f \in KnownDocuments(t) /\ f.order # 0
            /\ c0 \in Seq(KnownDocuments(t)) /\ r0 \in Results(t)
        BY <1>11, <1>19, <1>22, <3>3, <3>4
      <4>2. /\ c1 = IF t.son[f.order] # 0
                    THEN Append(c0, Found(t.son[f.order], f.order)) ELSE c0
            /\ r1 = IF isLast
                    THEN [r0 EXCEPT !.type = "DOCUMENT",
                                    !.documentList = Append(@, f)]
                    ELSE r0
        BY <3>2, <3>4
      <4>3. s.sType = "DOCUMENT" /\ IsTree(t) /\ isLast \in BOOLEAN
        BY <1>9, <2>1
      <4> QED BY ONLY <4>1, <4>2, <4>3, DocumentFound
    <3> QED BY <1>11, <1>20, <2>1, <3>4, <3>5
  <2>2. CASE s.sType = "DOCUMENT" /\ v + 1 \notin m
    <3>1. UNCHANGED <<tempContextList, ifResult>>
      <4>1. PICK garbage \in BOOLEAN :
               IF /\ DocumentAt(tree, e.order).name = CurrentStep.stepName
                  /\ CalculatePredicate(CurrentStep.pred,
                        DocumentAt(tree, e.order), docNumber, garbage)
               THEN Select(found, tree.son[found.order])
               ELSE UNCHANGED <<tempContextList, ifResult>>
        BY <1>8, <1>11, <2>2 DEF VisitDocument
      <4>2. CalculatePredicate(s.pred, DocumentAt(t, e.order),
                               docNumber, garbage)
            = CalculatePredicate(s.pred, DocumentAt(t, e.order),
                                 NumberOf(t, s, c, v), FALSE)
        BY <1>9, <1>12, <2>2, GarbageIsOverwritten
      <4>3. Named(t, s, e.order) <=> t.name[e.order] = s.stepName
        BY <2>2 DEF Named
      <4> QED BY <1>8, <1>11, <1>16, <1>21, <2>2, <4>1, <4>2, <4>3
    <3> QED BY <1>12, <1>18, <1>20, <2>2, <3>1
  <2>3. CASE s.sType # "DOCUMENT" /\ v + 1 \in m
    <3>1. SelectElement(found) /\ UNCHANGED tempContextList
      <4>1. s.stepName \in DOMAIN t.elements[e.order]
        BY <1>21, <2>3 DEF Named
      <4> QED BY <1>8, <1>11, <1>16, <2>3, <4>1 DEF VisitDocument
    <3>2. PICK f, old, c0, r0, r1 :
             /\ f = found /\ old = before \o kept
             /\ c0 = tempContextList /\ r0 = ifResult /\ r1 = ifResult'
      OBVIOUS
    <3>3. HoldsFound(t, s, isLast, c0, r1, Append(old, f.order))
      <4>1. /\ old \in Seq(Below(t)) /\ HoldsFound(t, s, isLast, c0, r0, old)
            /\ f \in KnownDocuments(t) /\ f.order # 0
            /\ c0 \in Seq(KnownDocuments(t)) /\ r0 \in Results(t)
        BY <1>11, <1>12, <1>18, <1>19, <1>22, <3>2
      <4>2. r1 = IF isLast
                 THEN [r0 EXCEPT !.type = "ELEMENT",
                                 !.elementList = Append(@, f)]
                 ELSE r0
        BY <1>8, <3>1, <3>2 DEF SelectElement
      <4>3. s.sType # "DOCUMENT" /\ IsTree(t) /\ isLast \in BOOLEAN
        BY <1>9, <2>3
      <4> QED BY ONLY <4>1, <4>2, <4>3, ElementFound
    <3> QED BY <1>11, <1>20, <2>3, <3>1, <3>2, <3>3
  <2>4. CASE s.sType # "DOCUMENT" /\ v + 1 \notin m
    <3>1. UNCHANGED <<tempContextList, ifResult>>
      <4>1. s.stepName \notin DOMAIN t.elements[e.order]
        BY <1>21, <2>4 DEF Named
      <4> QED BY <1>8, <1>11, <1>16, <2>4, <4>1 DEF VisitDocument
    <3> QED BY <1>12, <1>18, <1>20, <2>4, <3>1
  <2> QED BY <2>1, <2>2, <2>3, <2>4
<1>24. VisitInv(v + 1)'
  <2>1. HoldsRest(tree, iterator, Visits(tree)[Current], v + 1)'
    BY <1>6, <1>8, <1>14
  <2>2. DepthTells(tree, iterator, prevDepth, Len(Brothers(tree)[Current]),
                   v + 1)'
    BY <1>1, <1>6, <1>8, <1>15
  <2>3. (depth = prevDepth <=> v + 1 <= Len(Brothers(tree)[Current]))'
    BY <1>1, <1>6, <1>8, <1>15
  <2>4. (CurrentStep.sType = "DOCUMENT" =>
            docNumber = NumberOf(tree, CurrentStep, CurrentCandidates, v + 1))'
    BY <1>6, <1>8, <1>17
  <2>5. HasFound(FoundBefore \o
          Kept(CurrentCandidates,
               Marks(tree, CurrentStep, CurrentCandidates))[v + 1])'
    BY <1>6, <1>8, <1>18, <1>23 DEF HasFound
  <2> QED BY <2>1, <2>2, <2>3, <2>4, <2>5 DEF VisitInv
<1>25. (v + 1 \in 0 .. Len(CurrentCandidates))'
  BY <1>6, <1>8, <1>9
<1>26. InContext'
  BY <1>24, <1>25 DEF InContext
<1> QED BY <1>1, <1>7, <1>26, SearchInvThere

LEMMA LeaveContextKeepsSearchInv ==
    IInv /\ SearchInv /\ LeaveContext => SearchInv'
<1> SUFFICES ASSUME IInv, SearchInv, LeaveContext PROVE SearchInv'
  OBVIOUS
<1>1. /\ pc = "visit" /\ pc' = "context" /\ ~ IterationGoesOn
      /\ position' = position + 1 /\ UNCHANGED query
      /\ UNCHANGED <<step, contextList, tempContextList, ifResult>>
  BY DEF LeaveContext
<1>2. PICK v \in 0 .. Len(CurrentCandidates) : VisitInv(v)
  BY <1>1 DEF SearchInv, InContext
<1>3. v = Len(CurrentCandidates)
  BY <1>1, <1>2, GoesOnAre
<1>4. position <= Len(contextList)
  BY <1>1, IInvParts DEF TypeOK
<1>5. /\ IsTree(tree) /\ CurrentContexts \in Seq(Below(tree))
      /\ position \in 1 .. Len(CurrentContexts)
      /\ Current = CurrentContexts[position]
  BY <1>1, <1>4, SearchFacts, CurrentFacts
<1>6. /\ CurrentStep' = CurrentStep /\ CurrentContexts' = CurrentContexts
      /\ IsLastStep' = IsLastStep /\ tree' = tree
  BY <1>1, ReachedStays DEF CurrentStep, CurrentContexts, IsLastStep
<1>7. InSearch'
  BY <1>1, <1>6, ReachedStays DEF SearchInv, InSearch
<1>8. PICK t, s, contexts, k, selected :
         /\ t = tree /\ s = CurrentStep /\ contexts = CurrentContexts
         /\ k = position /\ selected = Selected(t, s, Current)
  OBVIOUS
<1>9. selected = Kept(CurrentCandidates, Marks(t, s, CurrentCandidates))[v]
  BY <1>3, <1>8 DEF Selected, CurrentCandidates
<1>10. HasFound(FoundBefore \o selected)
  BY <1>2, <1>8, <1>9 DEF VisitInv
<1>11. SelectedIn(t, s, contexts)[k] =
          SelectedIn(t, s, contexts)[k - 1] \o selected
  <2>1. k \in 1 .. Len(contexts) /\ IsTree(t) /\ contexts \in Seq(Below(t))
        /\ selected = Selected(t, s, contexts[k])
    BY <1>5, <1>8
  <2> QED BY <2>1, SelectedInAre
<1>12. FoundBefore' = FoundBefore \o selected
  <2>1. position' - 1 = k
    BY <1>1, <1>5, <1>8
  <2>2. FoundBefore' = SelectedIn(t, s, contexts)[k]
    BY <1>6, <1>8, <2>1 DEF FoundBefore
  <2>3. FoundBefore = SelectedIn(t, s, contexts)[k - 1]
    BY <1>8 DEF FoundBefore
  <2> QED BY <1>11, <2>2, <2>3
<1>13. HasFound(FoundBefore)'
  BY <1>1, <1>6, <1>10, <1>12 DEF HasFound
<1> QED BY <1>1, <1>7, <1>13, SearchInvThere DEF BetweenContexts

\* The last step's documents are those the path reaches.
LEMMA NextStepKeepsSearchInv == IInv /\ SearchInv /\ NextStep => SearchInv'
<1> SUFFICES ASSUME IInv, SearchInv, NextStep PROVE SearchInv'
  OBVIOUS
<1>1. /\ pc = "context" /\ position > Len(contextList)
      /\ contextList' = tempContextList /\ tempContextList' = <<>>
      /\ position' = 1 /\ UNCHANGED query /\ ifResult' = ifResult
  BY DEF NextStep
<1>2. /\ IsTree(tree) /\ tree.son[0] # 0
      /\ step \in 1 .. Len(path) /\ Len(path) \in Nat
      /\ CurrentContexts = Contexts(tree, path)[step - 1]
      /\ CurrentContexts \in Seq(Below(tree))
      /\ Len(CurrentContexts) = Len(contextList)
      /\ position \in 1 .. Len(contextList) + 1
  BY <1>1, SearchFacts
<1>3. ~ IsEmptyPath("ABSOLUTE") /\ ~ IsEmptyPath("RELATIVE")
  BY <1>1 DEF SearchInv, InSearch
<1>4. PICK found : found = FoundIn(tree, CurrentStep, CurrentContexts)
  OBVIOUS
<1>5. FoundBefore = found
  <2>1. position - 1 = Len(CurrentContexts)
    BY <1>1, <1>2
  <2> QED BY <1>4, <2>1 DEF FoundBefore, FoundIn
<1>6. HoldsFound(tree, CurrentStep, IsLastStep, tempContextList, ifResult,
        found)
  BY <1>1, <1>5 DEF SearchInv, BetweenContexts, HasFound
<1>7. CASE IsLastStep
  <2>1. pc' = "serve"
    BY <1>7 DEF NextStep
  <2>2. step = Len(path)
    BY <1>7 DEF IsLastStep
  <2>3. Reached = found
    <3>1. Reached = FoundBy(tree, path)
      BY <1>2, <1>3 DEF Reached
    <3>2. found = FoundIn(tree, path[Len(path)],
                          Contexts(tree, path)[Len(path) - 1])
      BY <1>2, <1>4, <2>2 DEF CurrentStep
    <3> QED BY <3>1, <3>2 DEF FoundBy, FoundIn
  <2>4. FoundOrders = found
    <3>1. /\ ifResult.type = IF found = <<>> THEN "UNDEFINED"
                             ELSE IF CurrentStep.sType = "DOCUMENT"
                             THEN "DOCUMENT" ELSE "ELEMENT"
          /\ OrdersOf(ifResult.documentList) =
                IF CurrentStep.sType = "DOCUMENT" THEN found ELSE <<>>
          /\ OrdersOf(ifResult.elementList) =
                IF CurrentStep.sType = "DOCUMENT" THEN <<>> ELSE found
      BY <1>6, <1>7 DEF HoldsFound
    <3> QED BY <3>1 DEF FoundOrders
  <2>5. FoundOrders' = FoundOrders
    BY <1>1 DEF FoundOrders
  <2> QED BY <1>1, <2>1, <2>3, <2>4, <2>5, ReachedStays, SearchInvThere
          DEF FindsWhatStepsReach
<1>8. CASE ~ IsLastStep
  <2>1. pc' = "context" /\ step' = step + 1
    BY <1>8 DEF NextStep, FollowingStep
  <2>2. step' - 1 = step
    BY <1>2, <2>1
  <2>3. CurrentContexts' = Contexts(tree, path)[step]
    BY <1>1, <2>2, ReachedStays DEF CurrentContexts
  <2>4. Contexts(tree, path)[step] = ContextsBehind(tree, CurrentStep, found)
    BY <1>2, <1>4, ContextsAre DEF CurrentStep
  <2>5. OrdersOf(tempContextList) = ContextsBehind(tree, CurrentStep, found)
        /\ ifResult = NoResult
    BY <1>6, <1>8 DEF HoldsFound
  <2>6. OrdersOf(contextList') = CurrentContexts'
    BY <1>1, <2>3, <2>4, <2>5
  <2>7. InSearch'
    BY <1>1, <1>2, <1>3, <2>6, ReachedStays DEF InSearch
  <2>8. PICK t, s, c, isLast : /\ t = tree /\ s = CurrentStep'
                               /\ c = CurrentContexts' /\ isLast = IsLastStep'
    OBVIOUS
  <2>9. IsTree(t) /\ isLast \in BOOLEAN
    BY <1>2, <2>8 DEF IsLastStep
  <2>10. c \in Seq(Below(t))
    <3>1. step \in 0 .. Len(path)
      BY <1>2
    <3> QED BY <1>2, <2>3, <2>8, <3>1, ContextsAre
  <2>11. FoundBefore' = SelectedIn(t, s, c)[0]
    BY <1>1, <2>8, ReachedStays DEF FoundBefore
  <2>12. FoundBefore' = <<>>
    BY <2>9, <2>10, <2>11, SelectedInAre
  <2>13. HoldsFound(t, s, isLast, <<>>, NoResult, <<>>)
    BY <2>9, NothingFound
  <2>14. HasFound(FoundBefore)'
    BY <1>1, <2>5, <2>8, <2>12, <2>13, ReachedStays DEF HasFound
  <2> QED BY <2>1, <2>7, <2>14, SearchInvThere DEF BetweenContexts
<1> QED BY <1>7, <1>8

LEMMA AnswerResultKeepsSearchInv ==
    IInv /\ SearchInv /\ AnswerResult => SearchInv'
<1> SUFFICES ASSUME IInv, SearchInv, AnswerResult PROVE SearchInv'
  OBVIOUS
<1>1. pc' = "answered" /\ request' # "join"
  BY DEF AnswerResult, ChecksResult, query
<1> QED BY <1>1, SearchInvThere DEF JoinReturnsChildren

LEMMA ServeHeadKeepsSearchInv ==
    IInv /\ SearchInv /\ ServeHead => SearchInv'
<1> SUFFICES ASSUME IInv, SearchInv, ServeHead PROVE SearchInv'
  OBVIOUS
<1>1. pc' = "answered" /\ request' # "join"
  BY DEF ServeHead, query
<1> QED BY <1>1, SearchInvThere DEF JoinReturnsChildren

LEMMA AbortKeepsSearchInv == IInv /\ SearchInv /\ Abort => SearchInv'
BY SearchInvThere DEF Abort

\* The children of the first document found.
LEMMA ChildrenAre ==
    ASSUME IInv, ifResult.documentList # <<>>
    PROVE  /\ HeadDocument.order \in DocumentsOf(tree)
           /\ tree.son[HeadDocument.order] \in DocumentsOf(tree)
           /\ Children \in Seq(Below(tree))
<1>1. HeadDocument \in KnownDocuments(tree)
  <2>1. ifResult.documentList \in Seq(KnownDocuments(tree))
    BY IInvParts DEF ResultsKnowParents, FoundKnowParents
  <2> QED BY <2>1 DEF HeadDocument
<1>2. HeadDocument.order \in DocumentsOf(tree)
  BY <1>1 DEF KnownDocuments
<1>3. tree.son[HeadDocument.order] \in DocumentsOf(tree) /\ IsTree(tree)
  BY <1>2, IInvParts DEF IsTree
<1>4. Children \in Seq(Below(tree))
  BY <1>3, BrothersAre DEF Children
<1> QED BY <1>2, <1>3, <1>4

\* The children stay what they are while they are looked at.
LEMMA ChildrenStay ==
    ASSUME UNCHANGED query, UNCHANGED ifResult
    PROVE  /\ HeadDocument' = HeadDocument
           /\ Children' = Children
           /\ JoinMarks' = JoinMarks
BY DEF query, HeadDocument, Children, JoinMarks

LEMMA StartJoinKeepsSearchInv ==
    IInv /\ SearchInv /\ StartJoin => SearchInv'
<1> SUFFICES ASSUME IInv, SearchInv, StartJoin PROVE SearchInv'
  OBVIOUS
<1>1. /\ pc' = "join" /\ UNCHANGED query /\ UNCHANGED ifResult
      /\ tempIndex' = tree.son[HeadDocument.order]
      /\ pList' = <<>> /\ docNumber' = 0
      /\ ifResult.documentList # <<>>
  BY DEF StartJoin, HasHead
<1>2. PICK all : all = Children
  OBVIOUS
<1>3. all \in Seq(Below(tree)) /\ Len(all) \in Nat
  <2>1. all \in Seq(Below(tree))
    BY <1>1, <1>2, ChildrenAre
  <2> QED BY <2>1
<1>4. IsRest(all, all, 0)
  <2>1. \A j \in 1 .. Len(all) : 0 + j = j
    OBVIOUS
  <2> QED BY <1>3, <2>1 DEF IsRest, IsPart
<1>5. (Brothers(tree)[tempIndex])' = all
  BY <1>1, <1>2, ReachedStays DEF Children
<1>6. Kept(all, JoinMarks)[0] = <<>>
  BY <1>3, KeptAre
<1>7. OrdersOf(pList') = Kept(Children', JoinMarks')[0]
  BY <1>1, <1>2, <1>6, ChildrenStay, NoOrders
<1>8. InJoin'
  BY <1>1, <1>2, <1>3, <1>4, <1>5, <1>7, ChildrenStay DEF InJoin
<1> QED BY <1>1, <1>8, SearchInvThere

\* One document less is left behind one more.
LEMMA RestBehind ==
    ASSUME NEW t, IsTree(t), NEW d \in Below(t), NEW list \in Seq(Below(t)),
           NEW k \in Nat, IsRest(Brothers(t)[d], list, k)
    PROVE  /\ k < Len(list) /\ list[k + 1] = d
           /\ IsRest(Brothers(t)[t.brother[d]], list, k + 1)
<1>1. PICK v, b : v = Brothers(t)[d] /\ b = Brothers(t)[t.brother[d]]
  OBVIOUS
<1>2. BrothersSplit(t, d, v, b)
  BY <1>1, BrothersBehind
<1>3. /\ Len(v) = Len(list) - k /\ k + Len(v) <= Len(list)
      /\ \A j \in 1 .. Len(v) : v[j] = list[k + j]
  BY <1>1 DEF IsRest, IsPart
<1>4. /\ v \in Seq(Below(t)) /\ b \in Seq(Below(t)) /\ Len(v) = 1 + Len(b)
      /\ v[1] = d /\ \A j \in 1 .. Len(b) : v[1 + j] = b[j]
  BY <1>2 DEF BrothersSplit
<1>5. Len(b) \in Nat /\ Len(list) \in Nat
  BY <1>4
<1>6. k < Len(list) /\ list[k + 1] = d
  <2>1. 1 \in 1 .. Len(v)
    BY <1>4, <1>5
  <2> QED BY <1>3, <1>4, <1>5, <2>1
<1>7. ASSUME NEW j \in 1 .. Len(b) PROVE b[j] = list[k + 1 + j]
  <2>1. 1 + j \in 1 .. Len(v) /\ k + (1 + j) = k + 1 + j
    BY <1>4, <1>5
  <2> QED BY <1>3, <1>4, <2>1
<1>8. Len(b) = Len(list) - (k + 1) /\ k + 1 + Len(b) <= Len(list)
  <2>1. PICK x, y, z : x = Len(v) /\ y = Len(b) /\ z = Len(list)
    OBVIOUS
  <2>2. y \in Nat /\ z \in Nat /\ x = 1 + y /\ x = z - k
    BY <1>3, <1>4, <1>5, <2>1
  <2>3. y = z - (k + 1) /\ k + 1 + y <= z
    BY ONLY k \in Nat, <2>2
  <2> QED BY <2>1, <2>3
<1> QED BY <1>1, <1>6, <1>7, <1>8 DEF IsRest, IsPart

\* Nothing is left at the end.
LEMMA NothingLeft ==
    ASSUME NEW t, IsTree(t), NEW list \in Seq(Below(t)), NEW k \in Nat,
           IsRest(Brothers(t)[0], list, k)
    PROVE  k = Len(list)
<1>1. Brothers(t)[0] = <<>>
  BY BrothersAre
<1>2. Len(<<>>) = Len(list) - k
  BY <1>1 DEF IsRest
<1> QED BY <1>2

LEMMA JoinNextKeepsSearchInv == IInv /\ SearchInv /\ JoinNext => SearchInv'
<1> SUFFICES ASSUME IInv, SearchInv, JoinNext PROVE SearchInv'
  OBVIOUS
<1> DEFINE indexParent == IF pc = "join" THEN HeadDocument.order ELSE 0
           chain == IF pc = "join" THEN joinPred ELSE <<>>
<1>1. /\ pc \in {"join", "rootSons"} /\ pc' = pc /\ tempIndex # 0
      /\ tempIndex' = tree.brother[tempIndex]
      /\ docNumber' = docNumber + 1
      /\ UNCHANGED query /\ UNCHANGED ifResult
  BY DEF JoinNext, NumberAfter
<1>2. PICK garbage \in BOOLEAN :
         pList' = IF CalculatePredicate(chain, DocumentAt(tree, tempIndex),
                                        docNumber, garbage)
                  THEN Append(pList, Found(tempIndex, indexParent)) ELSE pList
  BY DEF JoinNext
<1>3. /\ IsTree(tree)
      /\ tempIndex \in DocumentsOf(tree)
      /\ tempIndex \in Below(tree)
  BY <1>1, IInvParts DEF TypeOK, Below
<1>4. /\ pList \in Seq(KnownDocuments(tree))
      /\ Found(tempIndex, indexParent) \in KnownDocuments(tree)
      /\ Found(tempIndex, indexParent).order = tempIndex
  <2>1. tree.parent[tempIndex] = indexParent
    BY <1>1, IInvParts DEF JoinsChildren
  <2>2. indexParent \in DocumentsOf(tree)
    BY <1>3, <2>1 DEF IsTree
  <2> QED BY <1>3, <2>1, <2>2, IInvParts
          DEF ResultsKnowParents, FoundKnowParents, KnownDocuments, Found
<1>5. OrdersOf(Append(pList, Found(tempIndex, indexParent))) =
         Append(OrdersOf(pList), tempIndex)
  BY <1>4, OrdersAre
<1>6. PICK d, rest, next : /\ d = tempIndex /\ rest = Brothers(tree)[tempIndex]
                           /\ next = Brothers(tree)[tree.brother[tempIndex]]
  OBVIOUS
<1>7. (Brothers(tree)[tempIndex])' = next
  BY <1>1, <1>6, ReachedStays
<1>8. CASE pc = "rootSons"
  <2>1. /\ IsEmptyPath("RELATIVE") /\ ~ IsEmptyPath("ABSOLUTE")
        /\ \E k \in 0 .. Len(Reached) :
              /\ IsRest(rest, Reached, k)
              /\ Len(pList) = k /\ IsPart(OrdersOf(pList), Reached, 0)
    BY <1>6, <1>8 DEF SearchInv, InJoin
  <2>2. PICK all : all = Reached
    OBVIOUS
  <2>3. PICK k \in 0 .. Len(all) :
           /\ IsRest(rest, all, k)
           /\ Len(pList) = k /\ IsPart(OrdersOf(pList), all, 0)
    BY <2>1, <2>2
  <2>4. all \in Seq(Below(tree))
    <3>1. all = Brothers(tree)[tree.son[0]]
      BY <2>1, <2>2 DEF Reached
    <3>2. tree.son[0] \in DocumentsOf(tree)
      BY <1>3 DEF IsTree
    <3> QED BY <1>3, <3>1, <3>2, BrothersAre
  <2>5. k \in Nat /\ k < Len(all) /\ all[k + 1] = d /\ IsRest(next, all, k + 1)
    <3>1. k \in Nat
      BY <2>4
    <3> QED BY <1>3, <1>6, <2>3, <2>4, <3>1, RestBehind
  <2>6. pList' = Append(pList, Found(tempIndex, indexParent))
    <3>1. chain = <<>>
      BY <1>8
    <3>2. CalculatePredicate(<<>>, DocumentAt(tree, tempIndex), docNumber,
                             garbage)
      BY Zenon DEF CalculatePredicate
    <3> QED BY <1>2, <3>1, <3>2
  <2>7. PICK o, p : o = OrdersOf(pList) /\ p = Append(o, d)
    OBVIOUS
  <2>8. OrdersOf(pList') = p
    BY <1>5, <1>6, <2>6, <2>7
  <2>9. o \in Seq(DocumentsOf(tree)) /\ Len(o) = k
    BY <1>4, <2>3, <2>7, OrdersAre
  <2>10. \A j \in 1 .. k : o[j] = all[j]
    <3>1. \A j \in 1 .. k : o[j] = all[0 + j]
      BY <2>3, <2>7, <2>9 DEF IsPart
    <3> QED BY <3>1
  <2>11. IsPart(p, all, 0)
    <3>1. /\ Len(p) = k + 1 /\ p[k + 1] = d
          /\ \A j \in 1 .. k : p[j] = o[j]
      BY <1>3, <1>6, <2>7, <2>9
    <3>2. ASSUME NEW j \in 1 .. k + 1 PROVE p[j] = all[0 + j]
      BY <2>5, <2>10, <3>1
    <3>3. 0 + (k + 1) <= Len(all)
      BY <2>4, <2>5
    <3> QED BY <3>1, <3>2, <3>3 DEF IsPart
  <2>12. Len(pList') = k + 1
    BY <1>4, <2>3, <2>6
  <2>13. k + 1 \in 0 .. Len(all)
    BY <2>4, <2>5
  <2>14. pc' = "rootSons" /\ Reached' = all
    BY <1>1, <1>8, <2>2, ReachedStays
  <2>15. InJoin'
    BY <1>1, <1>7, <2>1, <2>5, <2>8, <2>11, <2>12, <2>13, <2>14, ReachedStays
       DEF InJoin
  <2> QED BY <1>1, <2>15, SearchInvThere
<1>9. CASE pc = "join"
  <2>1. PICK all, m : all = Children /\ m = JoinMarks
    OBVIOUS
  <2>2. PICK k \in 0 .. Len(all) :
           /\ IsRest(rest, all, k)
           /\ docNumber = k
           /\ OrdersOf(pList) = Kept(all, m)[k]
    BY <1>6, <1>9, <2>1 DEF SearchInv, InJoin
  <2>3. all \in Seq(Below(tree))
    BY <1>9, <2>1, IInvParts, ChildrenAre DEF JoinsChildren
  <2>4. k \in Nat /\ k < Len(all) /\ all[k + 1] = d /\ IsRest(next, all, k + 1)
    <3>1. k \in Nat
      BY <2>3
    <3> QED BY <1>3, <1>6, <2>2, <2>3, <3>1, RestBehind
  <2>5. IsChain(joinPred)
    <3>1. joinPred \in JoinPredicates \/ joinPred = <<>>
      BY IInvParts DEF InputsOK
    <3> QED BY <3>1, JoinPredicatesAssumption DEF IsChain
  <2>6. k + 1 \in m <=>
          CalculatePredicate(joinPred, DocumentAt(tree, d), k, FALSE)
    <3>1. k + 1 \in 1 .. Len(all) /\ k + 1 - 1 = k
      BY <2>3, <2>4
    <3>2. k + 1 \in m <=> Passes(tree, joinPred, all[k + 1], k + 1 - 1)
      BY <2>1, <3>1 DEF JoinMarks
    <3> QED BY <2>4, <3>1, <3>2 DEF Passes
  <2>7. CalculatePredicate(joinPred, DocumentAt(tree, d), k, garbage) =
        CalculatePredicate(joinPred, DocumentAt(tree, d), k, FALSE)
    BY <2>5, GarbageIsOverwritten
  <2>8. pList' = IF k + 1 \in m
          THEN Append(pList, Found(tempIndex, indexParent))
                 ELSE pList
    <3>1. chain = joinPred
      BY <1>9
    <3> HIDE DEF chain, indexParent
    <3> QED BY <1>2, <1>6, <2>2, <2>6, <2>7, <3>1
  <2>9. Kept(all, m)[k + 1] = IF k + 1 \in m THEN Append(Kept(all, m)[k], d)
                              ELSE Kept(all, m)[k]
    <3>1. k + 1 \in 1 .. Len(all) /\ k + 1 - 1 = k
      BY <2>3, <2>4
    <3>2. Kept(all, m)[k + 1] =
             IF k + 1 \in m THEN Append(Kept(all, m)[k + 1 - 1], all[k + 1])
             ELSE Kept(all, m)[k + 1 - 1]
      BY <2>3, <3>1, KeptAre
    <3> QED BY <2>4, <3>1, <3>2
  <2>10. OrdersOf(pList') = Kept(all, m)[k + 1]
    <3> HIDE DEF indexParent
    <3> QED BY <1>5, <1>6, <2>2, <2>8, <2>9
  <2>11. k + 1 \in 0 .. Len(all) /\ docNumber' = k + 1
    BY <1>1, <2>2, <2>3, <2>4
  <2>12. pc' = "join" /\ Children' = all /\ JoinMarks' = m
    BY <1>1, <1>9, <2>1, ChildrenStay
  <2>13. InJoin'
    BY <1>7, <2>4, <2>10, <2>11, <2>12 DEF InJoin
  <2> QED BY <1>1, <2>13, SearchInvThere
<1> QED BY <1>1, <1>8, <1>9

LEMMA JoinEndsKeepsSearchInv == IInv /\ SearchInv /\ JoinEnds => SearchInv'
<1> SUFFICES ASSUME IInv, SearchInv, JoinEnds PROVE SearchInv'
  OBVIOUS
<1>1. pc \in {"join", "rootSons"} /\ tempIndex = 0 /\ UNCHANGED query
  BY DEF JoinEnds
<1>2. IsTree(tree)
  BY IInvParts
<1>3. CASE pc = "rootSons"
  <2>1. pc' = "serve" /\ ifResult'.type = "DOCUMENT"
        /\ ifResult'.documentList = pList
    BY <1>3 DEF JoinEnds, NoResult
  <2>2. PICK all : all = Reached
    OBVIOUS
  <2>3. IsEmptyPath("RELATIVE") /\ ~ IsEmptyPath("ABSOLUTE")
    BY <1>3 DEF SearchInv, InJoin
  <2>4. PICK k \in 0 .. Len(all) :
           /\ IsRest(Brothers(tree)[0], all, k)
           /\ Len(pList) = k /\ IsPart(OrdersOf(pList), all, 0)
    BY <1>1, <1>3, <2>2 DEF SearchInv, InJoin
  <2>5. all \in Seq(Below(tree))
    <3>1. all = Brothers(tree)[tree.son[0]]
      BY <2>2, <2>3 DEF Reached
    <3>2. tree.son[0] \in DocumentsOf(tree)
      BY <1>2 DEF IsTree
    <3> QED BY <1>2, <3>1, <3>2, BrothersAre
  <2>6. k = Len(all)
    <3>1. k \in Nat
      BY <2>5
    <3> QED BY <1>2, <2>4, <2>5, <3>1, NothingLeft
  <2>7. PICK o : o = OrdersOf(pList)
    OBVIOUS
  <2>8. o \in Seq(DocumentsOf(tree)) /\ Len(o) = Len(all)
    BY <2>4, <2>6, <2>7, IInvParts, OrdersAre
       DEF ResultsKnowParents, FoundKnowParents
  <2>9. \A j \in 1 .. Len(all) : o[j] = all[j]
    <3>1. \A j \in 1 .. Len(all) : o[j] = all[0 + j]
      BY <2>4, <2>7, <2>8 DEF IsPart
    <3> QED BY <3>1
  <2>10. o = all
    <3>1. /\ o = [j \in 1 .. Len(all) |-> o[j]]
          /\ all = [j \in 1 .. Len(all) |-> all[j]]
      BY <2>5, <2>8
    <3> QED BY ONLY <2>9, <3>1
  <2>11. FoundOrders' = o
    BY <2>1, <2>7 DEF FoundOrders
  <2> QED BY <1>1, <2>1, <2>2, <2>10, <2>11, ReachedStays, SearchInvThere
          DEF FindsWhatStepsReach
<1>4. CASE pc = "join"
  <2>1. pc' = "answered" /\ UNCHANGED ifResult /\ pList' = pList
    BY <1>4 DEF JoinEnds
  <2>2. PICK all, m : all = Children /\ m = JoinMarks
    OBVIOUS
  <2>3. PICK k \in 0 .. Len(all) :
           /\ IsRest(Brothers(tree)[0], all, k)
           /\ OrdersOf(pList) = Kept(all, m)[k]
    BY <1>1, <1>4, <2>2 DEF SearchInv, InJoin
  <2>4. all \in Seq(Below(tree))
    BY <1>4, <2>2, IInvParts, ChildrenAre DEF JoinsChildren
  <2>5. k = Len(all)
    <3>1. k \in Nat
      BY <2>4
    <3> QED BY <1>2, <2>3, <2>4, <3>1, NothingLeft
  <2>6. OrdersOf(pList') = Kept(Children', JoinMarks')[Len(Children')]
    BY <1>1, <2>1, <2>2, <2>3, <2>5, ChildrenStay
  <2> QED BY <2>1, <2>6, SearchInvThere DEF JoinReturnsChildren
<1> QED BY <1>1, <1>3, <1>4

LEMMA NextKeepsSearchInv == IInv /\ SearchInv /\ [Next]_vars => SearchInv'
BY FindRootKeepsSearchInv, FindRootSonsKeepsSearchInv,
   StartSearchKeepsSearchInv, EnterContextKeepsSearchInv,
   VisitDocumentKeepsSearchInv, LeaveContextKeepsSearchInv,
   NextStepKeepsSearchInv, AnswerResultKeepsSearchInv,
   ServeHeadKeepsSearchInv, StartJoinKeepsSearchInv, AbortKeepsSearchInv,
   JoinNextKeepsSearchInv, JoinEndsKeepsSearchInv,
   StutteringKeepsSearchInv DEF Next

-----------------------------------------------------------------------------
(* The order of the visits lists every document below the root, once: no   *)
(* way leads back, and each document is linked to once.                    *)

\* The documents a document's visits or brothers list.
Visited(t, d) == ToSet(Visits(t)[d])
OnLevel(t, d) == ToSet(Brothers(t)[d])

\* They are the document, what is behind it and what is below it.
LEMMA VisitedAre ==
    ASSUME NEW t, IsTree(t)
    PROVE  /\ Visited(t, 0) = {}
           /\ \A d \in Below(t) :
                 Visited(t, d) = {d} \cup Visited(t, t.brother[d])
                                     \cup Visited(t, t.son[d])
           /\ \A d \in DocumentsOf(t) : Visited(t, d) \subseteq Below(t)
<1>1. Visited(t, 0) = {}
  <2>1. Visits(t)[0] = <<>>
    BY VisitsAre
  <2> QED BY <2>1 DEF Visited, ToSet
<1>2. ASSUME NEW d \in Below(t)
      PROVE  Visited(t, d) = {d} \cup Visited(t, t.brother[d])
                                 \cup Visited(t, t.son[d])
  <2>1. PICK v, b, s : /\ v = Visits(t)[d] /\ b = Visits(t)[t.brother[d]]
                       /\ s = Visits(t)[t.son[d]]
    OBVIOUS
  <2>2. VisitsSplit(t, d, v, b, s)
    BY <2>1, VisitsBehind
  <2>3. /\ v \in Seq(Below(t)) /\ b \in Seq(Below(t)) /\ s \in Seq(Below(t))
        /\ Len(v) = 1 + Len(b) + Len(s)
        /\ v[1] = d
        /\ \A j \in 1 .. Len(b) : v[1 + j] = b[j]
        /\ \A j \in 1 .. Len(s) : v[1 + Len(b) + j] = s[j]
    BY <2>2 DEF VisitsSplit
  <2>4. /\ Len(v) \in Nat /\ DOMAIN v = 1 .. Len(v)
        /\ Len(b) \in Nat /\ DOMAIN b = 1 .. Len(b)
        /\ Len(s) \in Nat /\ DOMAIN s = 1 .. Len(s)
    BY <2>3
  <2>5. ASSUME NEW k \in DOMAIN v
        PROVE  v[k] \in {d} \cup ToSet(b) \cup ToSet(s)
    <3>1. \/ k = 1
          \/ k - 1 \in 1 .. Len(b) /\ k = 1 + (k - 1)
          \/ /\ k - 1 - Len(b) \in 1 .. Len(s)
             /\ k = 1 + Len(b) + (k - 1 - Len(b))
      BY <2>3, <2>4
    <3> QED BY <2>3, <2>4, <3>1 DEF ToSet
  <2>6. /\ d \in ToSet(v)
        /\ \A k \in DOMAIN b : b[k] \in ToSet(v)
        /\ \A k \in DOMAIN s : s[k] \in ToSet(v)
    <3>1. 1 \in DOMAIN v
      BY <2>3, <2>4
    <3>2. \A k \in DOMAIN b : 1 + k \in DOMAIN v /\ v[1 + k] = b[k]
      BY <2>3, <2>4
    <3>3. \A k \in DOMAIN s :
             1 + Len(b) + k \in DOMAIN v /\ v[1 + Len(b) + k] = s[k]
      BY <2>3, <2>4
    <3> QED BY <2>3, <3>1, <3>2, <3>3 DEF ToSet
  <2>7. ToSet(v) = {d} \cup ToSet(b) \cup ToSet(s)
    BY <2>5, <2>6 DEF ToSet
  <2> QED BY <2>1, <2>7 DEF Visited
<1>3. ASSUME NEW d \in DocumentsOf(t) PROVE Visited(t, d) \subseteq Below(t)
  <2>1. PICK v : v = Visits(t)[d]
    OBVIOUS
  <2>2. v \in Seq(Below(t))
    BY <2>1, VisitsAre
  <2>3. ToSet(v) \subseteq Below(t)
    BY <2>2 DEF ToSet
  <2> QED BY <2>1, <2>3 DEF Visited
<1> QED BY <1>1, <1>2, <1>3

LEMMA OnLevelAre ==
    ASSUME NEW t, IsTree(t)
    PROVE  /\ OnLevel(t, 0) = {}
           /\ \A d \in Below(t) :
                 OnLevel(t, d) = {d} \cup OnLevel(t, t.brother[d])
           /\ \A d \in DocumentsOf(t) : OnLevel(t, d) \subseteq Below(t)
<1>1. OnLevel(t, 0) = {}
  <2>1. Brothers(t)[0] = <<>>
    BY BrothersAre
  <2> QED BY <2>1 DEF OnLevel, ToSet
<1>2. ASSUME NEW d \in Below(t)
      PROVE  OnLevel(t, d) = {d} \cup OnLevel(t, t.brother[d])
  <2>1. PICK v, b : v = Brothers(t)[d] /\ b = Brothers(t)[t.brother[d]]
    OBVIOUS
  <2>2. BrothersSplit(t, d, v, b)
    BY <2>1, BrothersBehind
  <2>3. /\ v \in Seq(Below(t)) /\ b \in Seq(Below(t))
        /\ Len(v) = 1 + Len(b)
        /\ v[1] = d
        /\ \A j \in 1 .. Len(b) : v[1 + j] = b[j]
    BY <2>2 DEF BrothersSplit
  <2>4. /\ Len(v) \in Nat /\ DOMAIN v = 1 .. Len(v)
        /\ Len(b) \in Nat /\ DOMAIN b = 1 .. Len(b)
    BY <2>3
  <2>5. ASSUME NEW k \in DOMAIN v PROVE v[k] \in {d} \cup ToSet(b)
    <3>1. k = 1 \/ (k - 1 \in 1 .. Len(b) /\ k = 1 + (k - 1))
      BY <2>3, <2>4
    <3> QED BY <2>3, <2>4, <3>1 DEF ToSet
  <2>6. d \in ToSet(v) /\ \A k \in DOMAIN b : b[k] \in ToSet(v)
    <3>1. 1 \in DOMAIN v
      BY <2>3, <2>4
    <3>2. \A k \in DOMAIN b : 1 + k \in DOMAIN v /\ v[1 + k] = b[k]
      BY <2>3, <2>4
    <3> QED BY <2>3, <3>1, <3>2 DEF ToSet
  <2>7. ToSet(v) = {d} \cup ToSet(b)
    BY <2>5, <2>6 DEF ToSet
  <2> QED BY <2>1, <2>7 DEF OnLevel
<1>3. ASSUME NEW d \in DocumentsOf(t) PROVE OnLevel(t, d) \subseteq Below(t)
  <2>1. PICK v : v = Brothers(t)[d]
    OBVIOUS
  <2>2. v \in Seq(Below(t))
    BY <2>1, BrothersAre
  <2>3. ToSet(v) \subseteq Below(t)
    BY <2>2 DEF ToSet
  <2> QED BY <2>1, <2>3 DEF OnLevel
<1> QED BY <1>1, <1>2, <1>3

\* What the root links to is in the tree, and what it links to, and so on:
\* a set of documents that is closed under the links is all of them.
LEMMA ReachedDocuments ==
    ASSUME NEW t, IsTree(t), NEW S, 0 \in S,
           \A d \in DocumentsOf(t) : d \in S =>
              t.son[d] \in S /\ t.brother[d] \in S
    PROVE  DocumentsOf(t) \subseteq S
<1>1. PICK T : T = DocumentsOf(t) \cap S
  OBVIOUS
<1>2. T \in SUBSET DocumentsOf(t) /\ 0 \in T
  BY <1>1 DEF IsTree
<1>3. \A d \in T : {t.son[d], t.brother[d]} \subseteq T
  BY <1>1 DEF IsTree
<1>4. T = DocumentsOf(t)
  BY <1>2, <1>3 DEF IsTree
<1> QED BY <1>1, <1>4

\* The links of a document below the root, and the visits along them.
LEMMA LinkFacts ==
    ASSUME NEW t, IsTree(t), NEW d \in Below(t)
    PROVE  /\ d \in DocumentsOf(t) /\ d # 0 /\ d \in Visited(t, d)
           /\ t.brother[d] \in DocumentsOf(t) /\ t.son[d] \in DocumentsOf(t)
           /\ t.brother[d] # 0 =>
                 t.brother[d] \in Below(t)
                 /\ t.parent[t.brother[d]] = t.parent[d]
           /\ t.son[d] # 0 => t.son[d] \in Below(t) /\ t.parent[t.son[d]] = d
<1>1. d \in DocumentsOf(t) /\ d # 0
  BY DEF Below
<1>2. d \in Visited(t, d)
  BY VisitedAre
<1>3. /\ t.brother[d] \in DocumentsOf(t) /\ t.son[d] \in DocumentsOf(t)
      /\ t.brother[d] # 0 => t.parent[t.brother[d]] = t.parent[d]
      /\ t.son[d] # 0 => t.parent[t.son[d]] = d
  BY <1>1 DEF IsTree
<1> QED BY <1>1, <1>2, <1>3 DEF Below

\* No way leads back.
LEMMA NoWayBack ==
    ASSUME NEW t, IsTree(t), NEW d \in Below(t)
    PROVE  d \notin Visited(t, t.brother[d]) /\ d \notin Visited(t, t.son[d])
<1> SUFFICES ASSUME \/ d \in Visited(t, t.brother[d])
                    \/ d \in Visited(t, t.son[d])
             PROVE  FALSE
  OBVIOUS
<1>1. PICK S : S = {e \in DocumentsOf(t) : d \in Visited(t, e)}
  OBVIOUS
<1>2. 0 \notin S
  BY <1>1, VisitedAre
<1>3. d \in S
  BY <1>1, LinkFacts
<1>4. S \in SUBSET (DocumentsOf(t) \ {0})
  BY <1>1, <1>2
<1>5. PICK e \in S : /\ e \in DocumentsOf(t) /\ e # 0
                     /\ t.son[e] \in DocumentsOf(t) \ S
                     /\ t.brother[e] \in DocumentsOf(t) \ S
  BY <1>3, <1>4, LastOfDocuments
<1>6. e \in Below(t) /\ d \in Visited(t, e)
  BY <1>1, <1>5 DEF Below
<1>7. d = e \/ d \in Visited(t, t.brother[e]) \/ d \in Visited(t, t.son[e])
  BY <1>6, VisitedAre
<1> QED BY <1>1, <1>5, <1>7

\* A document on the level of another one is visited from it.
LEMMA LevelIsVisited ==
    ASSUME NEW t, IsTree(t), NEW d \in DocumentsOf(t)
    PROVE  OnLevel(t, d) \subseteq Visited(t, d)
<1>1. PICK S : S = {e \in DocumentsOf(t) :
                       OnLevel(t, e) \subseteq Visited(t, e)}
  OBVIOUS
<1>2. 0 \in S
  BY <1>1, OnLevelAre DEF IsTree
<1>3. ASSUME NEW e \in DocumentsOf(t) \ {0}, t.son[e] \in S, t.brother[e] \in S
      PROVE  e \in S
  BY <1>1, <1>3, VisitedAre, OnLevelAre DEF Below
<1>4. DocumentsOf(t) \subseteq S
  BY <1>2, <1>3, AllDocuments
<1> QED BY <1>1, <1>4

\* A level goes on to its end, and so do the visits.
LEMMA LevelGoesOn ==
    ASSUME NEW t, IsTree(t), NEW d \in DocumentsOf(t),
           NEW e \in OnLevel(t, d), t.brother[e] # 0
    PROVE  t.brother[e] \in OnLevel(t, d)
<1>1. PICK S : S = {c \in DocumentsOf(t) :
                       e \in OnLevel(t, c) => t.brother[e] \in OnLevel(t, c)}
  OBVIOUS
<1>2. 0 \in S
  BY <1>1, OnLevelAre DEF IsTree
<1>3. ASSUME NEW c \in DocumentsOf(t) \ {0}, t.son[c] \in S, t.brother[c] \in S
      PROVE  c \in S
  <2>1. c \in Below(t)
    BY DEF Below
  <2>2. OnLevel(t, c) = {c} \cup OnLevel(t, t.brother[c])
    BY <2>1, OnLevelAre
  <2>3. CASE e = c
    <3>1. t.brother[c] \in Below(t)
      BY <2>1, <2>3, LinkFacts
    <3>2. t.brother[c] \in OnLevel(t, t.brother[c])
      BY <3>1, OnLevelAre
    <3> QED BY <1>1, <2>2, <2>3, <3>2
  <2>4. CASE e # c
    BY <1>1, <1>3, <2>2, <2>4
  <2> QED BY <2>3, <2>4
<1>4. DocumentsOf(t) \subseteq S
  BY <1>2, <1>3, AllDocuments
<1> QED BY <1>1, <1>4

LEMMA VisitsGoOn ==
    ASSUME NEW t, IsTree(t), NEW d \in DocumentsOf(t), NEW e \in Visited(t, d)
    PROVE  /\ t.brother[e] \in Visited(t, d) \cup {0}
           /\ t.son[e] \in Visited(t, d) \cup {0}
<1>1. PICK S : S = {c \in DocumentsOf(t) :
                       e \in Visited(t, c) =>
                          /\ t.brother[e] \in Visited(t, c) \cup {0}
                          /\ t.son[e] \in Visited(t, c) \cup {0}}
  OBVIOUS
<1>2. 0 \in S
  BY <1>1, VisitedAre DEF IsTree
<1>3. ASSUME NEW c \in DocumentsOf(t) \ {0}, t.son[c] \in S, t.brother[c] \in S
      PROVE  c \in S
  <2>1. c \in Below(t)
    BY DEF Below
  <2>2. Visited(t, c) = {c} \cup Visited(t, t.brother[c])
                            \cup Visited(t, t.son[c])
    BY <2>1, VisitedAre
  <2>3. /\ t.brother[c] \in Visited(t, t.brother[c]) \cup {0}
        /\ t.son[c] \in Visited(t, t.son[c]) \cup {0}
    BY <2>1, LinkFacts
  <2> QED BY <1>1, <1>3, <2>2, <2>3
<1>4. DocumentsOf(t) \subseteq S
  BY <1>2, <1>3, AllDocuments
<1> QED BY <1>1, <1>4

\* What is visited has been linked to by something that is visited, but for
\* the first.
LinksTo(t, z, x) == t.brother[z] = x \/ t.son[z] = x

LEMMA VisitedAreLinked ==
    ASSUME NEW t, IsTree(t), NEW d \in DocumentsOf(t),
           NEW x \in Visited(t, d), x # d
    PROVE  \E z \in Visited(t, d) : LinksTo(t, z, x)
<1>0. x \in Below(t)
  BY VisitedAre
<1>1. PICK S : S = {c \in DocumentsOf(t) :
                       x \in Visited(t, c) /\ x # c =>
                          \E z \in Visited(t, c) : LinksTo(t, z, x)}
  OBVIOUS
<1>2. 0 \in S
  BY <1>1, VisitedAre DEF IsTree
<1>3. ASSUME NEW c \in DocumentsOf(t) \ {0}, t.son[c] \in S, t.brother[c] \in S
      PROVE  c \in S
  <2>1. c \in Below(t) /\ c \in Visited(t, c)
    BY VisitedAre DEF Below
  <2>2. Visited(t, c) = {c} \cup Visited(t, t.brother[c])
                            \cup Visited(t, t.son[c])
    BY <2>1, VisitedAre
  <2>3. CASE LinksTo(t, c, x)
    BY <1>1, <2>1, <2>3
  <2>4. CASE ~ LinksTo(t, c, x)
    <3>1. x # t.brother[c] /\ x # t.son[c]
      BY <2>4 DEF LinksTo
    <3> QED BY <1>1, <1>3, <2>2, <3>1
  <2> QED BY <2>3, <2>4
<1>4. DocumentsOf(t) \subseteq S
  BY <1>2, <1>3, AllDocuments
<1> QED BY <1>1, <1>4

\* Of two documents on a level, one is on the level from the other.
LEMMA LevelIsLine ==
    ASSUME NEW t, IsTree(t), NEW d \in DocumentsOf(t),
           NEW x \in OnLevel(t, d), NEW y \in OnLevel(t, d)
    PROVE  x \in OnLevel(t, y) \/ y \in OnLevel(t, x)
<1>1. PICK S : S = {c \in DocumentsOf(t) :
                       x \in OnLevel(t, c) /\ y \in OnLevel(t, c) =>
                          x \in OnLevel(t, y) \/ y \in OnLevel(t, x)}
  OBVIOUS
<1>2. 0 \in S
  BY <1>1, OnLevelAre DEF IsTree
<1>3. ASSUME NEW c \in DocumentsOf(t) \ {0}, t.son[c] \in S, t.brother[c] \in S
      PROVE  c \in S
  <2>1. OnLevel(t, c) = {c} \cup OnLevel(t, t.brother[c])
    BY OnLevelAre DEF Below
  <2> QED BY <1>1, <1>3, <2>1
<1>4. DocumentsOf(t) \subseteq S
  BY <1>2, <1>3, AllDocuments
<1> QED BY <1>1, <1>4

\* Every document is on the level of its parent's first son.
LEMMA OnLevelOfFirstSon ==
    ASSUME NEW t, IsTree(t), NEW d \in Below(t)
    PROVE  d \in OnLevel(t, t.son[t.parent[d]])
<1>1. PICK S : S = {e \in DocumentsOf(t) :
                       e # 0 => e \in OnLevel(t, t.son[t.parent[e]])}
  OBVIOUS
<1>2. 0 \in S
  BY <1>1 DEF IsTree
<1>3. ASSUME NEW p \in DocumentsOf(t) PROVE t.son[p] \in S
  <2>1. t.son[p] \in DocumentsOf(t)
    BY DEF IsTree
  <2>2. t.son[p] # 0 => t.parent[t.son[p]] = p
    BY DEF IsTree
  <2>3. t.son[p] # 0 => t.son[p] \in OnLevel(t, t.son[p])
    BY <2>1, OnLevelAre DEF Below
  <2> QED BY <1>1, <2>1, <2>2, <2>3
<1>4. ASSUME NEW e \in DocumentsOf(t), e \in S PROVE t.brother[e] \in S
  <2>1. CASE e = 0
    BY <1>2, <2>1 DEF IsTree
  <2>2. CASE e # 0
    <3> SUFFICES ASSUME t.brother[e] # 0 PROVE t.brother[e] \in S
      BY <1>2
    <3>1. /\ e \in Below(t) /\ t.brother[e] \in Below(t)
          /\ t.brother[e] \in DocumentsOf(t)
          /\ t.parent[t.brother[e]] = t.parent[e]
      BY <2>2, LinkFacts DEF Below
    <3>2. PICK f : f = t.son[t.parent[e]]
      OBVIOUS
    <3>3. f \in DocumentsOf(t) /\ e \in OnLevel(t, f)
      BY <1>1, <1>4, <2>2, <3>2 DEF IsTree
    <3>4. t.brother[e] \in OnLevel(t, f)
      BY <3>1, <3>3, LevelGoesOn
    <3> QED BY <1>1, <3>1, <3>2, <3>4
  <2> QED BY <2>1, <2>2
<1>5. DocumentsOf(t) \subseteq S
  BY <1>2, <1>3, <1>4, ReachedDocuments
<1> QED BY <1>1, <1>5 DEF Below

\* A document is linked to once, by its brother or by its parent.
LEMMA OneLink ==
    ASSUME NEW t, IsTree(t), NEW y \in Below(t),
           NEW a \in Below(t), LinksTo(t, a, y),
           NEW b \in Below(t), LinksTo(t, b, y)
    PROVE  a = b /\ ~ (t.brother[a] = y /\ t.son[a] = y)
<1>0. y # 0 /\ y \in DocumentsOf(t)
  BY DEF Below
<1>1. ASSUME NEW c \in Below(t), NEW e \in Below(t),
             t.son[c] = y, t.brother[e] = y
      PROVE  FALSE
  <2>1. t.parent[y] = c /\ t.parent[y] = t.parent[e]
    BY <1>0, <1>1, LinkFacts
  <2>2. e \in OnLevel(t, y)
    BY <1>1, <2>1, OnLevelOfFirstSon
  <2>3. e \in Visited(t, t.brother[e])
    BY <1>0, <1>1, <2>2, LevelIsVisited
  <2> QED BY <2>3, NoWayBack
<1>2. ASSUME NEW c \in Below(t), NEW e \in Below(t),
             t.brother[c] = y, t.brother[e] = y, c \in OnLevel(t, e)
      PROVE  c = e
  <2> SUFFICES ASSUME c # e PROVE FALSE
    OBVIOUS
  <2>1. c \in OnLevel(t, t.brother[e])
    BY <1>2, OnLevelAre
  <2>2. c \in Visited(t, t.brother[c])
    BY <1>0, <1>2, <2>1, LevelIsVisited
  <2> QED BY <2>2, NoWayBack
<1>3. CASE t.son[a] = y /\ t.son[b] = y
  <2>1. t.parent[y] = a /\ t.parent[y] = b
    BY <1>0, <1>3, LinkFacts
  <2> QED BY <1>1, <1>3, <2>1
<1>4. CASE t.brother[a] = y /\ t.brother[b] = y
  <2>1. PICK f : f = t.son[t.parent[y]]
    OBVIOUS
  <2>2. f \in DocumentsOf(t)
    BY <1>0, <2>1 DEF IsTree
  <2>3. t.parent[y] = t.parent[a] /\ t.parent[y] = t.parent[b]
    BY <1>0, <1>4, LinkFacts
  <2>4. a \in OnLevel(t, f) /\ b \in OnLevel(t, f)
    BY <2>1, <2>3, OnLevelOfFirstSon
  <2>5. a \in OnLevel(t, b) \/ b \in OnLevel(t, a)
    BY <2>2, <2>4, LevelIsLine
  <2>6. a = b
    BY <1>2, <1>4, <2>5
  <2> QED BY <1>1, <1>4, <2>6
<1> QED BY <1>1, <1>3, <1>4 DEF LinksTo

\* Nothing is both behind a document and below it: else all that links to it
\* would be, and the root would not reach it.
LEMMA BehindIsNotBelow ==
    ASSUME NEW t, IsTree(t), NEW d \in Below(t)
    PROVE  Visited(t, t.brother[d]) \cap Visited(t, t.son[d]) = {}
<1>1. PICK b, s : b = t.brother[d] /\ s = t.son[d]
  OBVIOUS
<1>2. PICK S : S = Visited(t, b) \cap Visited(t, s)
  OBVIOUS
<1>3. b \in DocumentsOf(t) /\ s \in DocumentsOf(t)
  BY <1>1, LinkFacts
<1>4. S \subseteq Below(t)
  BY <1>2, <1>3, VisitedAre
<1>5. /\ LinksTo(t, d, b) /\ LinksTo(t, d, s)
      /\ d \notin Visited(t, b) /\ d \notin Visited(t, s)
  BY <1>1, NoWayBack DEF LinksTo
<1>6. ASSUME NEW x \in S PROVE \E z \in S : LinksTo(t, z, x)
  <2>1. x \in Below(t) /\ x \in Visited(t, b) /\ x \in Visited(t, s)
    BY <1>2, <1>4
  <2>2. CASE x = b
    <3>1. x # s
      BY <1>1, <1>5, <2>1, <2>2, OneLink
    <3>2. PICK z \in Visited(t, s) : LinksTo(t, z, x)
      BY <1>3, <2>1, <3>1, VisitedAreLinked
    <3>3. z \in Below(t)
      BY <1>3, VisitedAre
    <3>4. z = d
      BY <1>5, <2>1, <2>2, <3>2, <3>3, OneLink
    <3> QED BY <1>5, <3>4
  <2>3. CASE x = s
    <3>1. x # b
      BY <1>1, <1>5, <2>1, <2>3, OneLink
    <3>2. PICK z \in Visited(t, b) : LinksTo(t, z, x)
      BY <1>3, <2>1, <3>1, VisitedAreLinked
    <3>3. z \in Below(t)
      BY <1>3, VisitedAre
    <3>4. z = d
      BY <1>5, <2>1, <2>3, <3>2, <3>3, OneLink
    <3> QED BY <1>5, <3>4
  <2>4. CASE x # b /\ x # s
    <3>1. PICK y \in Visited(t, b) : LinksTo(t, y, x)
      BY <1>3, <2>1, <2>4, VisitedAreLinked
    <3>2. PICK z \in Visited(t, s) : LinksTo(t, z, x)
      BY <1>3, <2>1, <2>4, VisitedAreLinked
    <3>3. y \in Below(t) /\ z \in Below(t)
      BY <1>3, VisitedAre
    <3>4. y = z
      BY <2>1, <3>1, <3>2, <3>3, OneLink
    <3> QED BY <1>2, <3>1, <3>4
  <2> QED BY <2>2, <2>3, <2>4
<1>7. PICK C : C = DocumentsOf(t) \ S
  OBVIOUS
<1>8. 0 \in C
  BY <1>4, <1>7 DEF Below, IsTree
<1>9. ASSUME NEW e \in DocumentsOf(t), e \in C, NEW x \in S, LinksTo(t, e, x)
      PROVE  FALSE
  <2>1. PICK z \in S : LinksTo(t, z, x)
    BY <1>6
  <2>2. x \in Below(t) /\ z \in Below(t) /\ z # e
    BY <1>4, <1>7, <1>9
  <2>3. CASE e # 0
    BY <1>9, <2>1, <2>2, <2>3, OneLink DEF Below
  <2>4. CASE e = 0
    <3>1. x # 0 /\ z # 0 /\ z \in DocumentsOf(t)
      BY <2>2 DEF Below
    <3>2. x = t.son[0] /\ t.parent[x] = 0
      BY <1>9, <2>4, <3>1 DEF LinksTo, IsTree
    <3>3. t.son[z] # x
      BY <2>2, <3>1, <3>2, LinkFacts
    <3>4. t.brother[z] = x /\ t.parent[z] = 0
      BY <2>1, <2>2, <3>1, <3>2, <3>3, LinkFacts DEF LinksTo
    <3>5. z \in OnLevel(t, x)
      BY <2>2, <3>2, <3>4, OnLevelOfFirstSon
    <3>6. z \in Visited(t, t.brother[z])
      BY <2>2, <3>4, <3>5, LevelIsVisited DEF Below
    <3> QED BY <2>2, <3>6, NoWayBack
  <2> QED BY <2>3, <2>4
<1>10. ASSUME NEW e \in DocumentsOf(t), e \in C
       PROVE  t.son[e] \in C /\ t.brother[e] \in C
  <2>1. t.son[e] \in DocumentsOf(t) /\ t.brother[e] \in DocumentsOf(t)
    BY DEF IsTree
  <2>2. t.son[e] \notin S /\ t.brother[e] \notin S
    BY <1>9, <1>10 DEF LinksTo
  <2> QED BY <1>7, <2>1, <2>2
<1>11. DocumentsOf(t) \subseteq C
  BY <1>8, <1>10, ReachedDocuments
<1>12. S = {}
  BY <1>4, <1>7, <1>11 DEF Below
<1> QED BY <1>1, <1>2, <1>12

\* A subtree is visited without visiting any document twice.
LEMMA VisitsRepeatNothing ==
    ASSUME NEW t, IsTree(t), NEW d \in DocumentsOf(t)
    PROVE  IsInjective(Visits(t)[d])
<1>1. PICK S : S = {e \in DocumentsOf(t) : IsInjective(Visits(t)[e])}
  OBVIOUS
<1>2. 0 \in S
  <2>1. Visits(t)[0] = <<>>
    BY VisitsAre
  <2> QED BY <1>1, <2>1 DEF IsTree, IsInjective
<1>3. ASSUME NEW e \in DocumentsOf(t) \ {0}, t.son[e] \in S, t.brother[e] \in S
      PROVE  e \in S
  <2>1. PICK v, b, s : /\ v = Visits(t)[e] /\ b = Visits(t)[t.brother[e]]
                       /\ s = Visits(t)[t.son[e]]
    OBVIOUS
  <2>2. e \in Below(t)
    BY DEF Below
  <2>3. VisitsSplit(t, e, v, b, s)
    BY <2>1, <2>2, VisitsBehind
  <2>4. /\ v \in Seq(Below(t)) /\ b \in Seq(Below(t)) /\ s \in Seq(Below(t))
        /\ Len(v) = 1 + Len(b) + Len(s)
        /\ v[1] = e
        /\ \A j \in 1 .. Len(b) : v[1 + j] = b[j]
        /\ \A j \in 1 .. Len(s) : v[1 + Len(b) + j] = s[j]
    BY <2>3 DEF VisitsSplit
  <2>5. /\ Len(v) \in Nat /\ DOMAIN v = 1 .. Len(v)
        /\ Len(b) \in Nat /\ DOMAIN b = 1 .. Len(b)
        /\ Len(s) \in Nat /\ DOMAIN s = 1 .. Len(s)
    BY <2>4
  <2>6. /\ \A j \in 1 .. Len(b) : b[j] # e
        /\ \A j \in 1 .. Len(s) : s[j] # e
        /\ \A j \in 1 .. Len(b), k \in 1 .. Len(s) : b[j] # s[k]
    <3>1. e \notin ToSet(b) /\ e \notin ToSet(s)
      BY <2>1, <2>2, NoWayBack DEF Visited
    <3>2. ToSet(b) \cap ToSet(s) = {}
      BY <2>1, <2>2, BehindIsNotBelow DEF Visited
    <3>3. /\ \A j \in 1 .. Len(b) : b[j] \in ToSet(b)
          /\ \A j \in 1 .. Len(s) : s[j] \in ToSet(s)
      BY <2>5 DEF ToSet
    <3> QED BY <3>1, <3>2, <3>3
  <2>7. /\ \A i, j \in 1 .. Len(b) : b[i] = b[j] => i = j
        /\ \A i, j \in 1 .. Len(s) : s[i] = s[j] => i = j
    BY <1>1, <1>3, <2>1, <2>5 DEF IsInjective
  <2>8. ASSUME NEW i \in 1 .. Len(v), NEW j \in 1 .. Len(v), v[i] = v[j], i < j
        PROVE  FALSE
    <3>1. CASE i = 1 /\ j \in 2 .. 1 + Len(b)
      <4>1. j - 1 \in 1 .. Len(b) /\ j = 1 + (j - 1)
        BY <2>5, <3>1
      <4>2. v[i] = e /\ v[j] = b[j - 1]
        BY <2>4, <3>1, <4>1
      <4> QED BY <2>6, <2>8, <4>1, <4>2
    <3>2. CASE i = 1 /\ j > 1 + Len(b)
      <4>1. /\ j - 1 - Len(b) \in 1 .. Len(s)
            /\ j = 1 + Len(b) + (j - 1 - Len(b))
        BY <2>4, <2>5, <3>2
      <4>2. v[i] = e /\ v[j] = s[j - 1 - Len(b)]
        BY <2>4, <3>2, <4>1
      <4> QED BY <2>6, <2>8, <4>1, <4>2
    <3>3. CASE i > 1 /\ j <= 1 + Len(b)
      <4>1. /\ i - 1 \in 1 .. Len(b) /\ i = 1 + (i - 1)
            /\ j - 1 \in 1 .. Len(b) /\ j = 1 + (j - 1)
        BY <2>5, <2>8, <3>3
      <4>2. b[i - 1] = b[j - 1]
        BY <2>4, <2>8, <4>1
      <4> QED BY <2>7, <2>8, <4>1, <4>2
    <3>4. CASE i > 1 /\ i <= 1 + Len(b) /\ j > 1 + Len(b)
      <4>1. /\ i - 1 \in 1 .. Len(b) /\ i = 1 + (i - 1)
            /\ j - 1 - Len(b) \in 1 .. Len(s)
            /\ j = 1 + Len(b) + (j - 1 - Len(b))
        BY <2>4, <2>5, <3>4
      <4>2. b[i - 1] = s[j - 1 - Len(b)]
        BY <2>4, <2>8, <4>1
      <4> QED BY <2>6, <4>1, <4>2
    <3>5. CASE i > 1 + Len(b)
      <4>1. /\ i - 1 - Len(b) \in 1 .. Len(s)
            /\ i = 1 + Len(b) + (i - 1 - Len(b))
            /\ j - 1 - Len(b) \in 1 .. Len(s)
            /\ j = 1 + Len(b) + (j - 1 - Len(b))
        BY <2>4, <2>5, <2>8, <3>5
      <4>2. s[i - 1 - Len(b)] = s[j - 1 - Len(b)]
        BY <2>4, <2>8, <4>1
      <4> QED BY <2>7, <2>8, <4>1, <4>2
    <3> QED BY <2>4, <2>5, <2>8, <3>1, <3>2, <3>3, <3>4, <3>5
  <2>9. IsInjective(v)
    <3>1. ASSUME NEW i \in DOMAIN v, NEW j \in DOMAIN v, v[i] = v[j]
          PROVE  i = j
      BY <2>5, <2>8, <3>1
    <3> QED BY <3>1 DEF IsInjective
  <2> QED BY <1>1, <2>1, <2>9
<1>4. DocumentsOf(t) \subseteq S
  BY <1>2, <1>3, AllDocuments
<1> QED BY <1>1, <1>4

\* Nor does a level.
LEMMA BrothersRepeatNothing ==
    ASSUME NEW t, IsTree(t), NEW d \in DocumentsOf(t)
    PROVE  IsInjective(Brothers(t)[d])
<1>1. PICK S : S = {e \in DocumentsOf(t) : IsInjective(Brothers(t)[e])}
  OBVIOUS
<1>2. 0 \in S
  <2>1. Brothers(t)[0] = <<>>
    BY BrothersAre
  <2> QED BY <1>1, <2>1 DEF IsTree, IsInjective
<1>3. ASSUME NEW e \in DocumentsOf(t) \ {0}, t.son[e] \in S, t.brother[e] \in S
      PROVE  e \in S
  <2>1. PICK v, b : v = Brothers(t)[e] /\ b = Brothers(t)[t.brother[e]]
    OBVIOUS
  <2>2. e \in Below(t) /\ t.brother[e] \in DocumentsOf(t)
    BY DEF Below, IsTree
  <2>3. BrothersSplit(t, e, v, b)
    BY <2>1, <2>2, BrothersBehind
  <2>4. /\ v \in Seq(Below(t)) /\ b \in Seq(Below(t))
        /\ Len(v) = 1 + Len(b)
        /\ v[1] = e
        /\ \A j \in 1 .. Len(b) : v[1 + j] = b[j]
    BY <2>3 DEF BrothersSplit
  <2>5. /\ Len(v) \in Nat /\ DOMAIN v = 1 .. Len(v)
        /\ Len(b) \in Nat /\ DOMAIN b = 1 .. Len(b)
    BY <2>4
  <2>6. \A j \in 1 .. Len(b) : b[j] # e
    <3>1. e \notin ToSet(b)
      BY <2>1, <2>2, NoWayBack, LevelIsVisited DEF OnLevel
    <3>2. \A j \in 1 .. Len(b) : b[j] \in ToSet(b)
      BY <2>5 DEF ToSet
    <3> QED BY <3>1, <3>2
  <2>7. \A i, j \in 1 .. Len(b) : b[i] = b[j] => i = j
    BY <1>1, <1>3, <2>1, <2>5 DEF IsInjective
  <2>8. ASSUME NEW i \in DOMAIN v, NEW j \in DOMAIN v, v[i] = v[j]
        PROVE  i = j
    <3>1. /\ i = 1 \/ (i - 1 \in 1 .. Len(b) /\ v[i] = b[i - 1])
          /\ j = 1 \/ (j - 1 \in 1 .. Len(b) /\ v[j] = b[j - 1])
      <4>1. /\ i = 1 \/ (i - 1 \in 1 .. Len(b) /\ i = 1 + (i - 1))
            /\ j = 1 \/ (j - 1 \in 1 .. Len(b) /\ j = 1 + (j - 1))
        BY <2>4, <2>5
      <4> QED BY <2>4, <4>1
    <3>2. i \in Nat /\ j \in Nat
      BY <2>5
    <3>3. (i - 1 \in 1 .. Len(b) /\ j - 1 \in 1 .. Len(b)
             /\ b[i - 1] = b[j - 1]) => i - 1 = j - 1
      BY <2>7
    <3> QED BY <2>4, <2>6, <2>8, <3>1, <3>2, <3>3
  <2>9. IsInjective(v)
    BY <2>8 DEF IsInjective
  <2> QED BY <1>1, <2>1, <2>9
<1>4. DocumentsOf(t) \subseteq S
  BY <1>2, <1>3, AllDocuments
<1> QED BY <1>1, <1>4

\* What is kept of a list without repetitions are the marked elements, each
\* once.
LEMMA KeptOnce ==
    ASSUME NEW X, NEW list \in Seq(X), NEW marks, IsInjective(list)
    PROVE  LET kept == Kept(list, marks)[Len(list)] IN
           /\ IsInjective(kept)
           /\ ToSet(kept) = {list[k] : k \in (1 .. Len(list)) \cap marks}
<1>1. PICK n, v : n = Len(list) /\ v = Kept(list, marks)
  OBVIOUS
<1>2. n \in Nat /\ DOMAIN list = 1 .. n
  BY <1>1
<1> DEFINE Marked(k) == {list[j] : j \in (1 .. k) \cap marks}
<1>3. PICK S : S = {k \in 0 .. n :
                       IsInjective(v[k]) /\ ToSet(v[k]) = Marked(k)}
  OBVIOUS
<1>4. 0 \in S
  <2>1. v[0] = <<>>
    BY <1>1, KeptAre
  <2>2. Marked(0) = {}
    OBVIOUS
  <2> HIDE DEF Marked
  <2> QED BY <1>2, <1>3, <2>1, <2>2 DEF IsInjective, ToSet
<1>5. ASSUME NEW k \in 1 .. n, k - 1 \in S PROVE k \in S
  <2>1. PICK w : w = v[k - 1]
    OBVIOUS
  <2>2. v[k] = IF k \in marks THEN Append(w, list[k]) ELSE w
    BY <1>1, <2>1, KeptAre
  <2>3. w \in Seq(X)
    <3>1. k - 1 \in 0 .. n
      BY <1>2
    <3> QED BY <1>1, <2>1, <3>1, KeptAre
  <2>4. IsInjective(w) /\ ToSet(w) = Marked(k - 1)
    BY <1>3, <1>5, <2>1
  <2>5. Marked(k) = Marked(k - 1) \cup (IF k \in marks THEN {list[k]} ELSE {})
    <3>1. (1 .. k) = (1 .. k - 1) \cup {k}
      BY <1>2
    <3>2. (1 .. k) \cap marks =
             ((1 .. k - 1) \cap marks)
                \cup (IF k \in marks THEN {k} ELSE {})
      BY <3>1
    <3> QED BY <3>2
  <2>6. list[k] \notin Marked(k - 1) /\ k \in 0 .. n
    BY <1>2 DEF IsInjective
  <2> HIDE DEF Marked
  <2>7. CASE k \notin marks
    BY <1>3, <2>1, <2>2, <2>4, <2>5, <2>6, <2>7
  <2>8. CASE k \in marks
    <3>1. PICK x : x = Append(w, list[k])
      OBVIOUS
    <3>2. /\ Len(w) \in Nat /\ DOMAIN w = 1 .. Len(w)
          /\ DOMAIN x = 1 .. Len(w) + 1
          /\ x[Len(w) + 1] = list[k]
          /\ \A j \in 1 .. Len(w) : x[j] = w[j]
      BY <1>1, <2>3, <3>1
    <3>3. \A j \in 1 .. Len(w) : w[j] \in ToSet(w)
      BY <3>2 DEF ToSet
    <3>4. \A j \in DOMAIN x : j \in 1 .. Len(w) \/ j = Len(w) + 1
      BY <3>2
    <3>5. \A i, j \in 1 .. Len(w) : w[i] = w[j] => i = j
      BY <2>4, <3>2 DEF IsInjective
    <3>6. ASSUME NEW i \in DOMAIN x, NEW j \in DOMAIN x, x[i] = x[j]
          PROVE  i = j
      BY <2>4, <2>6, <3>2, <3>3, <3>4, <3>5, <3>6
    <3>7. ToSet(x) = ToSet(w) \cup {list[k]}
      <4>1. ASSUME NEW j \in DOMAIN x PROVE x[j] \in ToSet(w) \cup {list[k]}
        BY <3>2, <3>3, <3>4
      <4>2. list[k] \in ToSet(x) /\ \A j \in DOMAIN w : w[j] \in ToSet(x)
        <5>1. Len(w) + 1 \in DOMAIN x /\ \A j \in DOMAIN w : j \in DOMAIN x
          BY <3>2
        <5> QED BY <3>2, <5>1 DEF ToSet
      <4> QED BY <4>1, <4>2 DEF ToSet
    <3>8. v[k] = x
      BY <2>2, <2>8, <3>1
    <3>9. IsInjective(x)
      BY <3>6 DEF IsInjective
    <3> QED BY <1>3, <2>4, <2>5, <2>6, <2>8, <3>7, <3>8, <3>9
  <2> QED BY <2>7, <2>8
<1>6. 0 .. n \subseteq S
  BY <1>2, <1>4, <1>5, AllNumbers
<1>7. n \in S
  BY <1>2, <1>6
<1> QED BY <1>1, <1>3, <1>7

\* The order of the visits from the first son of the root lists every document
\* below the root once.
THEOREM EveryDocumentIsVisitedOnce ==
    ASSUME NEW t, IsTree(t)
    PROVE  /\ IsInjective(Visits(t)[t.son[0]])
           /\ ToSet(Visits(t)[t.son[0]]) = DocumentsOf(t) \ {0}
<1>1. t.son[0] \in DocumentsOf(t) /\ t.brother[0] = 0
  BY DEF IsTree
<1>2. PICK R : R = Visited(t, t.son[0])
  OBVIOUS
<1>3. R \subseteq Below(t)
  BY <1>1, <1>2, VisitedAre
<1>4. t.son[0] \in R \cup {0}
  BY <1>1, <1>2, VisitedAre DEF Below
<1>5. ASSUME NEW d \in DocumentsOf(t), d \in R \cup {0}
      PROVE  t.son[d] \in R \cup {0} /\ t.brother[d] \in R \cup {0}
  BY <1>1, <1>2, <1>4, <1>5, VisitsGoOn
<1>6. DocumentsOf(t) \subseteq R \cup {0}
  BY <1>5, ReachedDocuments
<1>7. R = DocumentsOf(t) \ {0}
  BY <1>3, <1>6 DEF Below
<1> QED BY <1>1, <1>2, <1>7, VisitsRepeatNothing DEF Visited

\* The brothers of a document's first son are its children, each once.
THEOREM EveryChildIsABrotherOnce ==
    ASSUME NEW t, IsTree(t), NEW p \in DocumentsOf(t)
    PROVE  /\ IsInjective(Brothers(t)[t.son[p]])
           /\ ToSet(Brothers(t)[t.son[p]]) =
                 {d \in DocumentsOf(t) \ {0} : t.parent[d] = p}
<1>1. t.son[p] \in DocumentsOf(t)
  BY DEF IsTree
<1>2. PICK L : L = OnLevel(t, t.son[p])
  OBVIOUS
<1>3. \A d \in Below(t) : t.parent[d] = p => d \in L
  BY <1>2, OnLevelOfFirstSon
<1>4. ASSUME NEW e \in DocumentsOf(t)
      PROVE  e = 0 \/ \A d \in OnLevel(t, e) : t.parent[d] = t.parent[e]
  <2>1. PICK S : S = {c \in DocumentsOf(t) :
                         \/ c = 0
                         \/ \A d \in OnLevel(t, c) : t.parent[d] = t.parent[c]}
    OBVIOUS
  <2>2. 0 \in S
    BY <2>1 DEF IsTree
  <2>3. ASSUME NEW c \in DocumentsOf(t) \ {0},
               t.son[c] \in S, t.brother[c] \in S
        PROVE  c \in S
    <3>1. c \in Below(t)
      BY DEF Below
    <3>2. OnLevel(t, c) = {c} \cup OnLevel(t, t.brother[c])
      BY <3>1, OnLevelAre
    <3>3. t.brother[c] = 0 => OnLevel(t, t.brother[c]) = {}
      BY OnLevelAre
    <3>4. t.brother[c] # 0 => t.parent[t.brother[c]] = t.parent[c]
      BY <3>1, LinkFacts
    <3> QED BY <2>1, <2>3, <3>2, <3>3, <3>4
  <2>4. DocumentsOf(t) \subseteq S
    BY <2>2, <2>3, AllDocuments
  <2> QED BY <2>1, <2>4
<1>5. \A d \in L : d \in Below(t) /\ t.parent[d] = p
  <2>1. CASE t.son[p] = 0
    BY <1>2, <2>1, OnLevelAre
  <2>2. CASE t.son[p] # 0
    <3>1. t.parent[t.son[p]] = p
      BY <2>2 DEF IsTree
    <3> QED BY <1>1, <1>2, <1>4, <2>2, <3>1, OnLevelAre
  <2> QED BY <2>1, <2>2
<1>6. L = {d \in DocumentsOf(t) \ {0} : t.parent[d] = p}
  BY <1>3, <1>5 DEF Below
<1> QED BY <1>1, <1>2, <1>6, BrothersRepeatNothing DEF OnLevel

\* A step selects no candidate twice; a relative one without predicates selects
\* all that have the name.
LEMMA SelectedOnce ==
    ASSUME NEW t, IsTree(t), NEW s, NEW d \in DocumentsOf(t)
    PROVE  /\ IsInjective(Selected(t, s, d))
           /\ s.pType = "RELATIVE" /\ s.pred = <<>> =>
                 ToSet(Selected(t, s, d)) =
                    {e \in ToSet(Visits(t)[d]) : Named(t, s, e)}
<1>1. PICK all, c, m, x : /\ all = Visits(t)[d]
                          /\ c = Candidates(t, s, d)
                          /\ m = Marks(t, s, Candidates(t, s, d))
                          /\ x = Selected(t, s, d)
  OBVIOUS
<1>2. /\ all \in Seq(Below(t)) /\ c \in Seq(Below(t))
      /\ Len(c) <= Len(all)
      /\ s.pType = "RELATIVE" => Len(c) = Len(all)
      /\ \A k \in 1 .. Len(c) : c[k] = all[k]
  BY <1>1, CandidatesAre DEF CandidatesSplit
<1>3. /\ Len(all) \in Nat /\ DOMAIN all = 1 .. Len(all)
      /\ Len(c) \in Nat /\ DOMAIN c = 1 .. Len(c)
  BY <1>2
<1>4. IsInjective(all)
  BY <1>1, VisitsRepeatNothing
<1>5. IsInjective(c)
  <2>1. ASSUME NEW k \in DOMAIN c PROVE k \in DOMAIN all /\ c[k] = all[k]
    <3>1. PICK n, a : n = Len(c) /\ a = Len(all)
      OBVIOUS
    <3>2. n \in Nat /\ a \in Nat /\ n <= a /\ k \in 1 .. n
      BY <1>2, <1>3, <3>1
    <3>3. k \in 1 .. a
      BY <3>2
    <3> QED BY <1>2, <1>3, <3>1, <3>2, <3>3
  <2> QED BY <1>4, <2>1 DEF IsInjective
<1>6. x = Kept(c, m)[Len(c)]
  BY <1>1 DEF Selected
<1>7. /\ IsInjective(x)
      /\ ToSet(x) = {c[k] : k \in (1 .. Len(c)) \cap m}
  BY <1>2, <1>5, <1>6, KeptOnce
<1>8. ASSUME s.pType = "RELATIVE", s.pred = <<>>
      PROVE  ToSet(x) = {e \in ToSet(all) : Named(t, s, e)}
  <2>1. \A e, number : Passes(t, s.pred, e, number)
    BY <1>8 DEF Passes, CalculatePredicate
  <2>2. \A k \in 1 .. Len(c) : k \in m <=> Named(t, s, c[k])
    BY <1>1, <2>1 DEF Marks
  <2>3. ToSet(all) = {c[k] : k \in 1 .. Len(c)}
    BY <1>2, <1>3, <1>8 DEF ToSet
  <2> QED BY <1>7, <2>2, <2>3
<1> QED BY <1>1, <1>7, <1>8

\* A path of one step finds no document twice; a relative one without
\* predicates misses none, wherever it is in the tree.
FindsEveryDocument ==
    pc = "serve" /\ Len(path) = 1 =>
        /\ IsInjective(FoundOrders)
        /\ path[1].pType = "RELATIVE" /\ path[1].pred = <<>>
           /\ ~ IsEmptyPath("RELATIVE") =>
              ToSet(FoundOrders) =
                 {d \in DocumentsOf(tree) \ {0} : Named(tree, path[1], d)}

LEMMA FindsReachedOnce ==
    IInv /\ FindsWhatStepsReach => FindsEveryDocument
<1> SUFFICES ASSUME IInv, FindsWhatStepsReach, pc = "serve", Len(path) = 1
             PROVE  /\ IsInjective(FoundOrders)
                    /\ path[1].pType = "RELATIVE" /\ path[1].pred = <<>>
                       /\ ~ IsEmptyPath("RELATIVE") =>
                          ToSet(FoundOrders) =
                             {d \in DocumentsOf(tree) \ {0} :
                                 Named(tree, path[1], d)}
  BY DEF FindsEveryDocument
<1>0. IsTree(tree) /\ 0 \in DocumentsOf(tree)
  BY TreesAssumption DEF IInv, InputsOK, IsTree
<1>1. PICK o, first : o = FoundOrders /\ first = tree.son[0]
  OBVIOUS
<1>2. o = Reached /\ first \in DocumentsOf(tree)
  BY <1>0, <1>1 DEF FindsWhatStepsReach, IsTree
<1>3. CASE IsEmptyPath("ABSOLUTE")
  <2>1. o = <<0>>
    BY <1>2, <1>3 DEF Reached
  <2>2. path[1].pType = "ABSOLUTE"
    BY <1>3 DEF IsEmptyPath
  <2>3. IsInjective(o)
    BY <2>1 DEF IsInjective
  <2> QED BY <1>1, <2>2, <2>3
<1>4. CASE ~ IsEmptyPath("ABSOLUTE") /\ IsEmptyPath("RELATIVE")
  <2>1. o = Brothers(tree)[first]
    BY <1>1, <1>2, <1>4 DEF Reached
  <2> QED BY <1>0, <1>1, <1>2, <1>4, <2>1, BrothersRepeatNothing
<1>5. CASE /\ ~ IsEmptyPath("ABSOLUTE") /\ ~ IsEmptyPath("RELATIVE")
           /\ first = 0
  <2>1. o = <<>>
    BY <1>1, <1>2, <1>5 DEF Reached
  <2>2. IsInjective(o) /\ ToSet(o) = {}
    BY <2>1 DEF IsInjective, ToSet
  <2>3. DocumentsOf(tree) \ {0} = {}
    <3>1. ToSet(Visits(tree)[first]) = {}
      BY <1>0, <1>5, VisitedAre DEF Visited
    <3> QED BY <1>0, <1>1, <3>1, EveryDocumentIsVisitedOnce
  <2> QED BY <1>1, <2>2, <2>3
<1>6. CASE /\ ~ IsEmptyPath("ABSOLUTE") /\ ~ IsEmptyPath("RELATIVE")
           /\ first # 0
  <2>1. PICK contexts : contexts = <<first>>
    OBVIOUS
  <2>2. contexts \in Seq(Below(tree)) /\ Len(contexts) = 1
        /\ contexts[1] = first
    BY <1>2, <1>6, <2>1 DEF Below
  <2>3. Contexts(tree, path)[0] = contexts
    BY <1>0, <1>1, <1>6, <2>1, ContextsAre
  <2>4. o = SelectedIn(tree, path[1], contexts)[1]
    <3>1. o = FoundBy(tree, path)
      BY <1>1, <1>2, <1>6 DEF Reached
    <3>2. PICK n : n = Len(path)
      OBVIOUS
    <3>3. n = 1 /\ n - 1 = 0
      BY <3>2
    <3>4. FoundBy(tree, path) =
             SelectedIn(tree, path[n], contexts)[Len(contexts)]
      BY <2>3, <3>2, <3>3 DEF FoundBy
    <3> QED BY <2>2, <3>1, <3>3, <3>4
  <2>5. PICK x : x = Selected(tree, path[1], first)
    OBVIOUS
  <2>6. x \in Seq(Below(tree))
    BY <1>0, <1>2, <2>5, SelectedIsBelow
  <2>7. o = <<>> \o x
    <3>1. PICK g : g = SelectedIn(tree, path[1], contexts)
      OBVIOUS
    <3>2. /\ g[0] = <<>>
          /\ \A k \in 1 .. Len(contexts) :
                g[k] = g[k - 1] \o Selected(tree, path[1], contexts[k])
      BY <1>0, <2>2, <3>1, SelectedInAre
    <3>3. 1 \in 1 .. Len(contexts) /\ 1 - 1 = 0
      BY <2>2
    <3>4. g[1] = g[1 - 1] \o Selected(tree, path[1], contexts[1])
      BY <3>2, <3>3
    <3> QED BY <2>2, <2>4, <2>5, <3>1, <3>2, <3>3, <3>4
  <2>8. o = x
    BY <2>6, <2>7
  <2>9. /\ IsInjective(x)
        /\ path[1].pType = "RELATIVE" /\ path[1].pred = <<>> =>
              ToSet(x) = {e \in ToSet(Visits(tree)[first]) :
                             Named(tree, path[1], e)}
    BY <1>0, <1>2, <2>5, SelectedOnce
  <2>10. ToSet(Visits(tree)[first]) = DocumentsOf(tree) \ {0}
    BY <1>0, <1>1, EveryDocumentIsVisitedOnce
  <2> QED BY <1>1, <2>8, <2>9, <2>10
<1> QED BY <1>3, <1>4, <1>5, <1>6

-----------------------------------------------------------------------------
\* The invariant above holds of every search.
THEOREM InductiveInvariant == Spec => []IInv
<1>1. Init => IInv
  BY InitIsIInv
<1>2. IInv /\ [Next]_vars => IInv'
  BY NextKeepsIInv
<1> QED BY <1>1, <1>2, PTL DEF Spec

\* Every variable of findIf0 and join keeps its type, and the current step
\* and context exist.
THEOREM SearchTypeCorrect == Spec => []TypeOK
<1>1. IInv => TypeOK
  BY DEF IInv
<1> QED BY <1>1, InductiveInvariant, PTL

\* Whatever findIf0 and join hold or return carries the index of its parent,
\* which deleteDocument and parent rely on.
THEOREM ResultsAlwaysKnowParents == Spec => []ResultsKnowParents
<1>1. IInv => ResultsKnowParents
  BY DEF IInv
<1> QED BY <1>1, InductiveInvariant, PTL

\* Between any two steps of findIf0 and join, the iterator and its stack hold
\* exactly the documents that are still to be visited, the depth tells the
\* brothers from what is below them, and what has been found is what the
\* contexts and candidates so far give.
THEOREM SearchHoldsTheRest == Spec => []SearchInv
<1>1. Init => SearchInv
  BY InitIsSearchInv
<1>2. IInv /\ SearchInv /\ [Next]_vars => SearchInv'
  BY NextKeepsSearchInv
<1> QED BY <1>1, <1>2, InductiveInvariant, PTL DEF Spec

\* findIf0 finds the documents its path reaches, each as often and in the
\* order in which it is reached, for any tree, path and predicates.
THEOREM SearchFindsWhatIsReached == Spec => []FindsWhatStepsReach
<1>1. SearchInv => FindsWhatStepsReach
  BY DEF SearchInv
<1> QED BY <1>1, SearchHoldsTheRest, PTL

\* join answers with the children that pass the predicates, in their order,
\* numbered among all the children.
THEOREM JoinFindsChildren == Spec => []JoinReturnsChildren
<1>1. SearchInv => JoinReturnsChildren
  BY DEF SearchInv
<1> QED BY <1>1, SearchHoldsTheRest, PTL

\* A path of one step finds no document twice, and a relative one without
\* predicates finds every document of its name in the whole tree.
THEOREM SearchFindsEveryDocument == Spec => []FindsEveryDocument
<1>1. IInv /\ FindsWhatStepsReach => FindsEveryDocument
  BY FindsReachedOnce
<1> QED BY <1>1, InductiveInvariant, SearchFindsWhatIsReached, PTL

\* JOIN answers with no child twice and, without predicates, with every child
\* of the first document found.
JoinReturnsEveryChild ==
    pc = "answered" /\ request = "join" =>
        /\ IsInjective(OrdersOf(pList))
        /\ joinPred = <<>> =>
              ToSet(OrdersOf(pList)) =
                 {d \in DocumentsOf(tree) \ {0} :
                     tree.parent[d] = HeadDocument.order}

\* A JOIN that has been answered has found a document.
JoinHasHead ==
    pc = "answered" /\ request = "join" => ifResult.documentList # <<>>

LEMMA NextKeepsJoinHead == IInv /\ JoinHasHead /\ [Next]_vars => JoinHasHead'
<1> SUFFICES ASSUME IInv, JoinHasHead, [Next]_vars PROVE JoinHasHead'
  OBVIOUS
<1>1. CASE UNCHANGED vars
  BY <1>1 DEF JoinHasHead, vars, query
<1>2. CASE FindRoot \/ FindRootSons \/ StartSearch
  BY <1>2 DEF FindRoot, FindRootSons, StartSearch, JoinHasHead
<1>3. CASE EnterContext \/ VisitDocument \/ LeaveContext \/ NextStep
  BY <1>3 DEF EnterContext, VisitDocument, LeaveContext, NextStep, JoinHasHead
<1>4. CASE AnswerResult \/ ServeHead \/ StartJoin \/ Abort \/ JoinNext
  BY <1>4 DEF AnswerResult, ServeHead, StartJoin, Abort, JoinNext,
              JoinHasHead, ChecksResult, query
<1>5. CASE JoinEnds
  BY <1>5 DEF JoinEnds, JoinHasHead, IInv, JoinsChildren, query
<1> QED BY <1>1, <1>2, <1>3, <1>4, <1>5 DEF Next

LEMMA JoinReturnsChildrenOnce ==
    IInv /\ JoinHasHead /\ JoinReturnsChildren => JoinReturnsEveryChild
<1> SUFFICES ASSUME IInv, JoinHasHead, JoinReturnsChildren,
                    pc = "answered", request = "join"
             PROVE  /\ IsInjective(OrdersOf(pList))
                    /\ joinPred = <<>> =>
                          ToSet(OrdersOf(pList)) =
                             {d \in DocumentsOf(tree) \ {0} :
                                 tree.parent[d] = HeadDocument.order}
  BY DEF JoinReturnsEveryChild
<1>1. PICK all, m, o, head : /\ all = Children /\ m = JoinMarks
                             /\ o = OrdersOf(pList)
                             /\ head = HeadDocument.order
  OBVIOUS
<1>2. o = Kept(all, m)[Len(all)]
  BY <1>1 DEF JoinReturnsChildren
<1>3. ifResult.documentList # <<>> /\ IsTree(tree)
  BY IInvParts DEF JoinHasHead
<1>4. head \in DocumentsOf(tree) /\ all \in Seq(Below(tree))
  BY <1>1, <1>3, ChildrenAre
<1>5. /\ IsInjective(all)
      /\ ToSet(all) = {d \in DocumentsOf(tree) \ {0} : tree.parent[d] = head}
  BY <1>1, <1>3, <1>4, EveryChildIsABrotherOnce DEF Children
<1>6. /\ IsInjective(o)
      /\ ToSet(o) = {all[k] : k \in (1 .. Len(all)) \cap m}
  BY <1>2, <1>4, <1>5, KeptOnce
<1>7. ASSUME joinPred = <<>> PROVE ToSet(o) = ToSet(all)
  <2>1. \A d, number : Passes(tree, joinPred, d, number)
    BY <1>7 DEF Passes, CalculatePredicate
  <2>2. \A k \in 1 .. Len(all) : k \in m
    BY <1>1, <2>1 DEF JoinMarks
  <2>3. ToSet(all) = {all[k] : k \in 1 .. Len(all)}
    BY <1>4 DEF ToSet
  <2> QED BY <1>6, <2>2, <2>3
<1> QED BY <1>1, <1>5, <1>6, <1>7

\* JOIN gives each child once, and all of them if there is nothing to choose
\* by: the walk along the brothers neither stops early nor leaves the level.
THEOREM JoinFindsEveryChild == Spec => []JoinReturnsEveryChild
<1>1. Init => JoinHasHead
  BY DEF Init, JoinHasHead
<1>2. IInv /\ JoinHasHead /\ [Next]_vars => JoinHasHead'
  BY NextKeepsJoinHead
<1>3. IInv /\ JoinHasHead /\ JoinReturnsChildren => JoinReturnsEveryChild
  BY JoinReturnsChildrenOnce
<1> QED BY <1>1, <1>2, <1>3, InductiveInvariant, JoinFindsChildren, PTL
        DEF Spec
=============================================================================
