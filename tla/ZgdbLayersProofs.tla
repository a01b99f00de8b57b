-------------------------- MODULE ZgdbLayersProofs --------------------------
(***************************************************************************)
(* The storage core between its neighbours.  Above it, the documents form  *)
(* one tree: between requests the live documents are those the links lead  *)
(* to from the root, and what the links lead to is, step by step, the      *)
(* abstract tree of DocTree.  Below it, the layout of the blocks in the    *)
(* file implements the core, and as long as no moved block has lost its    *)
(* spare bytes the blocks tile the file: for every size of the header, of  *)
(* an index and of the blocks.                                             *)
(***************************************************************************)
EXTENDS ZgdbStoreProofs, ZgdbTree, BlockLayout

-----------------------------------------------------------------------------
(* Least closed sets: the members of I that every set contains which holds *)
(* seed and, with every member x, next[x].                                 *)

Closure(I, seed, next) ==
    {d \in I : \A S \in SUBSET I :
        (seed \subseteq S /\ \A x \in S : next[x] \subseteq S) => d \in S}

IsClosed(C, seed, next) ==
    seed \subseteq C /\ \A x \in C : next[x] \subseteq C

\* C is the closure of seed, whatever set it was taken in.
IsLeast(C, seed, next) ==
    /\ IsClosed(C, seed, next)
    /\ \A S \in SUBSET C : IsClosed(S, seed, next) => S = C

\* The closure exists where some set L is closed.
LEMMA ClosureIsLeast ==
    ASSUME NEW I, NEW seed, NEW next,
           NEW L \in SUBSET I, IsClosed(L, seed, next)
    PROVE  /\ IsLeast(Closure(I, seed, next), seed, next)
           /\ Closure(I, seed, next) \subseteq L
<1> DEFINE C == Closure(I, seed, next)
<1>1. C \subseteq I /\ C \subseteq L
  BY DEF Closure, IsClosed
<1>2. ASSUME NEW S \in SUBSET I, IsClosed(S, seed, next) PROVE C \subseteq S
  BY <1>2 DEF Closure, IsClosed
<1>3. ASSUME NEW d \in I,
             \A S \in SUBSET I : IsClosed(S, seed, next) => d \in S
      PROVE  d \in C
  BY <1>3 DEF Closure, IsClosed
<1> HIDE DEF C
<1>4. seed \subseteq C
  <2> SUFFICES ASSUME NEW d \in seed PROVE d \in C
    OBVIOUS
  <2>1. d \in I
    BY DEF IsClosed
  <2>2. \A S \in SUBSET I : IsClosed(S, seed, next) => d \in S
    BY DEF IsClosed
  <2> QED BY <1>3, <2>1, <2>2
<1>5. ASSUME NEW x \in C, NEW y \in next[x] PROVE y \in C
  <2>1. y \in I
    BY <1>1 DEF IsClosed
  <2>2. ASSUME NEW S \in SUBSET I, IsClosed(S, seed, next) PROVE y \in S
    <3>1. x \in S
      BY <1>2, <2>2
    <3> QED BY <2>2, <3>1 DEF IsClosed
  <2> QED BY <1>3, <2>1, <2>2
<1>6. ASSUME NEW S \in SUBSET C, IsClosed(S, seed, next) PROVE S = C
  BY <1>1, <1>2, <1>6
<1>7. IsLeast(C, seed, next)
  BY <1>4, <1>5, <1>6 DEF IsLeast, IsClosed
<1> QED BY <1>1, <1>7 DEF C

\* A set that is closed as far as it meets the closure contains the closure.
LEMMA LeastIsWithin ==
    ASSUME NEW C, NEW seed, NEW next, IsLeast(C, seed, next),
           NEW S, seed \subseteq S, \A x \in S \cap C : next[x] \subseteq S
    PROVE  C \subseteq S
<1>1. IsClosed(S \cap C, seed, next)
  BY DEF IsLeast, IsClosed
<1>2. S \cap C \in SUBSET C
  OBVIOUS
<1>3. S \cap C = C
  BY <1>1, <1>2 DEF IsLeast
<1> QED BY <1>3

\* Two closures of the same are the same.
LEMMA LeastIsUnique ==
    ASSUME NEW C, NEW D, NEW seed, NEW next, NEW other,
           IsLeast(C, seed, next), IsLeast(D, seed, other),
           \A x \in C \cap D : next[x] = other[x]
    PROVE  C = D
<1>1. /\ seed \subseteq C
      /\ seed \subseteq D
      /\ \A x \in C : next[x] \subseteq C
      /\ \A x \in D : other[x] \subseteq D
  BY DEF IsLeast, IsClosed
<1>2. C \subseteq D
  BY <1>1, LeastIsWithin
<1>3. D \subseteq C
  BY <1>1, LeastIsWithin
<1> QED BY <1>2, <1>3

\* Only the closure counts for what it is the closure of.
LEMMA LeastUnchanged ==
    ASSUME NEW C, NEW seed, NEW next, NEW other, IsLeast(C, seed, next),
           \A x \in C : next[x] = other[x]
    PROVE  IsLeast(C, seed, other)
BY DEF IsLeast, IsClosed

\* Each member is in the seed or follows another member.
LEMMA LeastInversion ==
    ASSUME NEW C, NEW seed, NEW next, IsLeast(C, seed, next),
           NEW y \in C, y \notin seed
    PROVE  \E x \in C : y \in next[x]
<1> SUFFICES ASSUME \A x \in C : y \notin next[x] PROVE FALSE
  OBVIOUS
<1>1. IsClosed(C \ {y}, seed, next)
  BY DEF IsLeast, IsClosed
<1>2. C \ {y} \in SUBSET C
  OBVIOUS
<1> QED BY <1>1, <1>2 DEF IsLeast

-----------------------------------------------------------------------------
(* The steps that leave the documents and their links alone.               *)

DocumentSteps == {"document", "linkSon", "unlink", "del", "subtree"}

\* What such a step leaves as it was; the table may grow.
Quiet ==
    /\ Indexes \subseteq Indexes'
    /\ LiveDocuments' = LiveDocuments
    /\ \A d \in LiveDocuments : Son(d)' = Son(d) /\ Brother(d)' = Brother(d)
    /\ UNCHANGED <<nodes, stack>>
    /\ pc' \notin {"linkSon", "del", "subtree"}

\* createNewToast takes an index that no document owns.
LEMMA AttachToastIsQuiet ==
    ASSUME IInv, pc \notin {"closed", "load"}, NEW room \in Nat \ {0},
           HasRelevantIndex(freeList, room), NEW newCapacity \in Nat \ {0},
           Attach(room, ToastBlock(CapacityFor(room, newCapacity))),
           UNCHANGED <<indexCount, nodes, savedList, stack>>,
           pc' \in {"document", "linkToast"}
    PROVE  Quiet
<1> DEFINE header == ToastBlock(CapacityFor(room, newCapacity))
           t == Taken(room).indexOrder
<1>1. TypeOK /\ SpaceInv
  BY DEF IInv
<1>2. /\ header \in Block
      /\ header.capacity = CapacityFor(room, newCapacity)
      /\ header.blockType = "TOAST"
  <2>1. Taken(room) \in Node
    BY <1>1, RelevantIndexProperties
       DEF Taken, TypeOK, SpaceInv, FreeListWellFormed
  <2>2. CapacityFor(room, newCapacity) \in Nat
    BY <2>1 DEF CapacityFor, Node
  <2> QED BY <2>2 DEF ToastBlock, NoBlock, Block, BlockTypes
<1> HIDE DEF header
<1>3. /\ t \in Indexes
      /\ flag[t] # "ALIVE"
      /\ flag' = [flag EXCEPT ![t] = "ALIVE"]
      /\ block' = [block EXCEPT ![t] = header]
  BY <1>1, <1>2, AttachKeepsSpaceInv DEF header
<1> HIDE DEF t
<1>4. /\ LiveDocuments' = LiveDocuments
      /\ t \notin LiveDocuments
      /\ LiveDocuments \subseteq Indexes
      /\ \A i \in Indexes : i # t => block'[i] = block[i]
  BY <1>1, <1>2, <1>3, LiveAfterAttach
<1>5. Indexes' = Indexes
  BY DEF Indexes
<1> QED BY <1>4, <1>5 DEF Quiet, Son, Brother

\* deleteDocument kills a toast.
LEMMA DeleteToastIsQuiet ==
    ASSUME IInv, DeleteToast
    PROVE  Quiet
<1>1. /\ pc = "toasts"
      /\ Free(call.temp, block[call.temp].capacity)
      /\ pc' \in {"toasts", "idle"}
      /\ UNCHANGED <<indexCount, block, nodes, savedList, stack>>
  BY DEF DeleteToast, Goto
<1>2. TypeOK /\ ToastFacts /\ RequestInv
  BY IInvUnfolded
<1>3. call.temp \in LiveToasts
  BY <1>1, <1>2 DEF RequestInv, DeleteKeepsTrack, ToastFacts, HeldToast
<1>4. /\ call.temp \in Indexes
      /\ flag[call.temp] = "ALIVE"
      /\ call.temp \notin LiveDocuments
  BY <1>3 DEF LiveToasts, LiveDocuments
<1>5. flag' = [flag EXCEPT ![call.temp] = "DEAD"]
  BY <1>1, <1>2, <1>4 DEF Free, TypeOK
<1>6. LiveDocuments' = LiveDocuments \ {call.temp}
  <2> DEFINE toast == call.temp
  <2>1. toast \in Indexes /\ flag' = [flag EXCEPT ![toast] = "DEAD"]
    BY <1>4, <1>5
  <2> HIDE DEF toast
  <2>2. LiveDocuments' = LiveDocuments \ {toast}
    BY <1>1, <1>2, <2>1, LiveAfterFree
  <2> QED BY <2>2 DEF toast
<1> QED BY <1>1, <1>4, <1>6 DEF Quiet, Indexes, Son, Brother

LEMMA OtherStepsAreQuiet ==
    ASSUME IInv, [Next]_vars, pc \notin DocumentSteps
    PROVE  Quiet
<1> USE DEF DocumentSteps
<1>1. TypeOK /\ SpaceInv /\ TreeFacts /\ ToastFacts /\ RequestInv
  BY IInvUnfolded
\* Steps that write neither the table nor a block.
<1>2. ASSUME UNCHANGED <<indexCount, flag, block, nodes, stack>>,
             pc' \notin {"linkSon", "del", "subtree"}
      PROVE  Quiet
  BY <1>2 DEF Quiet, LiveDocuments, Indexes, Son, Brother
<1>3. ASSUME NEW p, NEW docSize, NEW toastSize,
             StartCreate(p, docSize, toastSize)
      PROVE  Quiet
  BY <1>2, <1>3 DEF StartCreate, Goto, AllocationStep, file
<1>4. ASSUME NEW p, NEW d, StartDelete(p, d) PROVE Quiet
  BY <1>2, <1>4 DEF StartDelete, Goto, file
<1>5. ASSUME NEW d \in Reachable, NEW extra \in GrowSizes,
             block[d].firstToastIndex # 0, GrowText(d, extra)
      PROVE  Quiet
  <2> DEFINE room == GrowSize(d, extra)
  <2>1. /\ pc = "idle"
        /\ pc' = "linkToast"
        /\ HasRelevantIndex(freeList, room)
        /\ Attach(room, ToastBlock(CapacityFor(room, room)))
        /\ UNCHANGED <<indexCount, nodes, savedList, stack>>
    BY <1>5 DEF GrowText, Goto
  <2>2. room \in Nat \ {0}
    <3>1. d \in LiveDocuments
      BY <1>1, <2>1, ReachableIsLive
    <3>2. block[d].firstToastIndex \in LiveToasts
      BY <1>1, <1>5, <3>1 DEF ToastFacts, First
    <3>3. block[block[d].firstToastIndex].capacity \in Nat
      BY <1>1, <3>2 DEF TypeOK, LiveToasts, Block
    <3> QED BY <3>3, ConstantsAssumption DEF GrowSize
  <2> HIDE DEF room
  <2> QED BY <2>1, <2>2, AttachToastIsQuiet
<1>6. ASSUME NEW d, NEW extra, GrowTextAborts(d, extra) PROVE Quiet
  BY <1>2, <1>6 DEF GrowTextAborts, Goto, file
<1>7. CASE Finish
  BY <1>2, <1>7 DEF Finish, Goto
<1>8. CASE Open
  BY <1>2, <1>8 DEF Open, Load, Goto
<1>9. ASSUME NEW n \in ExpandCounts, ExpandIndexes(n) PROVE Quiet
  <2>1. /\ Indexes \subseteq Indexes'
        /\ \A i \in Indexes : flag'[i] = flag[i] /\ block'[i] = block[i]
        /\ \A i \in Indexes' \ Indexes : flag'[i] = "NEW"
    BY <1>1, <1>9, ExpandKeepsSpaceInv
  <2>2. /\ UNCHANGED <<nodes, stack>>
        /\ pc' \in {"toast", "document"}
    BY <1>9 DEF ExpandIndexes, Goto, AllocationStep
  <2>3. LiveDocuments' = LiveDocuments /\ LiveDocuments \subseteq Indexes
    BY <2>1 DEF LiveDocuments
  <2> QED BY <2>1, <2>2, <2>3 DEF Quiet, Son, Brother
<1>10. CASE CreateToast
  <2> DEFINE room == call.toastSize
  <2>1. /\ pc = "toast"
        /\ pc' = "document"
        /\ HasRelevantIndex(freeList, room)
        /\ Attach(room, ToastBlock(CapacityFor(room, room + TOAST_HEADER)))
        /\ UNCHANGED <<indexCount, nodes, savedList, stack>>
    BY <1>10 DEF CreateToast, Goto
  <2>2. room \in Nat \ {0} /\ room + TOAST_HEADER \in Nat \ {0}
    BY <1>1, <2>1, ConstantsAssumption
       DEF TypeOK, Call, RequestInv, CreateKeepsTrack
  <2> HIDE DEF room
  <2> QED BY <2>1, <2>2, AttachToastIsQuiet
<1>11. CASE WalkSiblings
  BY <1>2, <1>11 DEF WalkSiblings, Goto, file
<1>12. CASE DeleteToast
  BY <1>12, DeleteToastIsQuiet
<1>13. CASE LinkToast
  <2>1. /\ pc' = "idle"
        /\ block' = [block EXCEPT ![call.target].nextToastIndex =
                        call.toastIndex]
        /\ UNCHANGED <<indexCount, flag, nodes, stack>>
    BY <1>13 DEF LinkToast, Goto
  <2>2. \A i \in Indexes : /\ block'[i].blockType = block[i].blockType
                           /\ block'[i].indexSon = block[i].indexSon
                           /\ block'[i].indexBrother = block[i].indexBrother
    BY <1>1, <2>1 DEF TypeOK, Block
  <2>3. LiveDocuments' = LiveDocuments
    BY <2>1, <2>2, LiveAfterLink
  <2>4. LiveDocuments \subseteq Indexes /\ Indexes' = Indexes
    BY <2>1 DEF LiveDocuments, Indexes
  <2> QED BY <2>1, <2>2, <2>3, <2>4 DEF Quiet, Son, Brother
<1>14. CASE LoadNode
  BY <1>2, <1>14 DEF LoadNode, Load, Goto
<1>15. CASE UNCHANGED vars
  BY <1>2, <1>15 DEF vars
<1>16. ~ (CreateDocument \/ LinkSon \/ Unlink \/ DeleteTarget
             \/ DeleteDescendant)
  BY DEF CreateDocument, LinkSon, Unlink, DeleteTarget, DeleteDescendant
<1> QED BY <1>3, <1>4, <1>5, <1>6, <1>7, <1>8, <1>9, <1>10, <1>11, <1>12,
           <1>13, <1>14, <1>15, <1>16
        DEF Next, Request, Command, Execute

-----------------------------------------------------------------------------
(* No live document is cut off.                                            *)

LinksOf(d) == {Son(d), Brother(d)} \ {0}

\* Where no link is stale, the links of live documents lead to live ones.
LEMMA LiveIsClosed ==
    ASSUME TreeFacts, pc \notin {"linkSon", "del"}
    PROVE  /\ 0 \in LiveDocuments
           /\ LiveDocuments \subseteq Indexes
           /\ \A d \in LiveDocuments : LinksOf(d) \subseteq LiveDocuments \ {0}
           /\ \A d \in LiveDocuments : LinkedFrom(d) = LinksOf(d)
BY DEF TreeFacts, RootIsAlive, LinksNameLinkable, SonHolders, BrotherHolders,
       StaleSons, StaleBrothers, Linkable, LinksOf, LinkedFrom, Son, Brother,
       LiveDocuments

LEMMA LiveIsFinite ==
    ASSUME TypeOK
    PROVE  IsFiniteSet(LiveDocuments)
<1>1. IsFiniteSet(Indexes)
  BY FS_Interval DEF TypeOK, Indexes
<1> QED BY <1>1, FS_Subset DEF LiveDocuments

\* The walk over the sons of a parent starts at a son the search has found,
\* and writes nothing.
LEMMA WalkFollowsSearch ==
    ASSUME IInv, TargetIsChild, [Next]_vars, pc' \in {"walk", "unlink"}
    PROVE  TargetIsChild'
<1>1. ASSUME UNCHANGED <<indexCount, block>>,
             call'.parent \in Reachable,
             call'.target \in Children(call'.parent)
      PROVE  TargetIsChild'
  BY <1>1 DEF TargetIsChild, Reachable, Children, BrothersFrom, Indexes
<1>2. call \in Call
  BY DEF IInv, TypeOK
<1>3. ASSUME NEW p \in Reachable, NEW d \in Children(p), StartDelete(p, d)
      PROVE  TargetIsChild'
  <2>1. call'.parent = p /\ call'.target = d
    BY <1>3 DEF StartDelete, Goto, NoCall
  <2> QED BY <1>1, <1>3, <2>1 DEF StartDelete, file
<1>4. CASE WalkSiblings
  <2>1. call'.parent = call.parent /\ call'.target = call.target
    BY <1>2, <1>4 DEF WalkSiblings, Goto, Call
  <2> QED BY <1>1, <1>4, <2>1 DEF WalkSiblings, file, TargetIsChild
<1>5. CASE UNCHANGED vars
  BY <1>1, <1>5 DEF vars, TargetIsChild
<1>6. CASE CreateToast \/ CreateDocument \/ LinkSon \/ Unlink \/ DeleteTarget
           \/ DeleteDescendant \/ DeleteToast \/ LinkToast \/ LoadNode
  BY <1>6 DEF CreateToast, CreateDocument, LinkSon, Unlink, DeleteTarget,
              DeleteDescendant, DeleteToast, LinkToast, LoadNode, Load, Goto,
              AfterTarget, AfterSubtree
<1>7. CASE Finish \/ Open
  BY <1>7 DEF Finish, Open, Load, Goto
<1>8. ASSUME NEW p, NEW docSize, NEW toastSize,
             StartCreate(p, docSize, toastSize)
      PROVE  FALSE
  BY <1>8 DEF StartCreate, Goto, AllocationStep
<1>9. ASSUME NEW d, NEW extra, GrowText(d, extra) \/ GrowTextAborts(d, extra)
      PROVE  FALSE
  BY <1>9 DEF GrowText, GrowTextAborts, Goto
<1>10. ASSUME NEW n, ExpandIndexes(n) PROVE FALSE
  BY <1>10 DEF ExpandIndexes, Goto, AllocationStep
<1> QED BY <1>3, <1>4, <1>5, <1>6, <1>7, <1>8, <1>9, <1>10
        DEF Next, Request, Command, Execute

LEMMA QuietStepsKeepWhole ==
    ASSUME IInv, WholeInv, [Next]_vars, pc \notin DocumentSteps
    PROVE  WholeInv'
<1>1. TreeFacts /\ TypeOK
  BY IInvUnfolded
<1>2. Quiet
  BY OtherStepsAreQuiet
<1>3. pc \notin {"linkSon", "del", "subtree"}
  BY DEF DocumentSteps
<1>4. StackHoldsDocuments'
  BY <1>2, <1>3 DEF WholeInv, StackHoldsDocuments, Quiet
<1>5. CountsDocuments'
  BY <1>2 DEF WholeInv, CountsDocuments, Quiet
<1>6. NoDocumentCutOff'
  <2> SUFFICES ASSUME NEW S \in SUBSET Indexes',
                      0 \in S,
                      \A d \in S \cap LiveDocuments' : LinkedFrom(d)' \subseteq S
               PROVE  LiveDocuments' \subseteq S
    BY DEF NoDocumentCutOff
  <2> DEFINE T == S \cap LiveDocuments
  <2>1. T \in SUBSET Indexes /\ {0} \cup Doomed \subseteq T
    BY <1>1, <1>3, LiveIsClosed DEF Doomed
  <2>2. ASSUME NEW d \in T PROVE LinkedFrom(d) \subseteq T
    <3>1. LinkedFrom(d) = LinksOf(d) /\ LinksOf(d) \subseteq LiveDocuments
      BY <1>1, <1>3, LiveIsClosed
    <3>2. LinkedFrom(d)' = LinksOf(d)
      BY <1>2 DEF Quiet, LinkedFrom, LinksOf, Son, Brother, StaleBrothers
    <3> QED BY <1>2, <3>1, <3>2 DEF Quiet
  <2> HIDE DEF T
  <2>3. LiveDocuments \subseteq T
    BY <1>3, <2>1, <2>2 DEF WholeInv, NoDocumentCutOff
  <2> QED BY <1>2, <2>3 DEF Quiet, T
<1>7. NewDocumentComesFirst'
  BY <1>2 DEF Quiet, NewDocumentComesFirst
<1>8. TargetIsChild'
  BY WalkFollowsSearch DEF WholeInv, TargetIsChild
<1> QED BY <1>4, <1>5, <1>6, <1>7, <1>8 DEF WholeInv

\* createDocument writes the new document's header to an index that no
\* document owns.
LEMMA CreateDocumentTakesUnused ==
    ASSUME IInv, CreateDocument
    PROVE  /\ pc = "document"
           /\ pc' = "linkSon"
           /\ nodes' = nodes + 1
           /\ UNCHANGED <<indexCount, savedList, stack>>
           /\ call.parent \in LiveDocuments
           /\ call'.parent = call.parent
           /\ \E t \in Indexes \ LiveDocuments :
                 /\ call'.target = t
                 /\ LiveDocuments' = LiveDocuments \cup {t}
                 /\ block'[t].indexSon = 0
                 /\ block'[t].indexBrother = block[call.parent].indexSon
                 /\ \A i \in Indexes : i # t => block'[i] = block[i]
<1> DEFINE room == call.docSize
           header == DocumentBlock(CapacityFor(room, room),
                                   call.header.indexSon, call.toastIndex)
           t == Taken(room).indexOrder
           parent == call.parent
<1>1. /\ pc = "document"
      /\ pc' = "linkSon"
      /\ call' = [call EXCEPT !.target = t]
      /\ HasRelevantIndex(freeList, room)
      /\ Attach(room, header)
      /\ nodes' = nodes + 1
      /\ UNCHANGED <<indexCount, savedList, stack>>
  BY DEF CreateDocument, Goto
<1>2. TypeOK /\ SpaceInv /\ TreeFacts /\ RequestInv
  BY IInvUnfolded
<1>3. /\ room \in Nat \ {0}
      /\ parent \in LiveDocuments
      /\ call.header = block[parent]
      /\ call.header \in Block
      /\ call.toastIndex \in Nat
      /\ call \in Call
  BY <1>1, <1>2 DEF TypeOK, Call, RequestInv, CreateKeepsTrack
<1>4. /\ header \in Block
      /\ header.capacity = CapacityFor(room, room)
      /\ header.blockType = "DOCUMENT"
      /\ header.indexSon = 0
      /\ header.indexBrother = block[parent].indexSon
  <2>1. Taken(room) \in Node
    BY <1>1, <1>2, <1>3, RelevantIndexProperties
       DEF Taken, TypeOK, SpaceInv, FreeListWellFormed
  <2>2. CapacityFor(room, room) \in Nat
    BY <1>3, <2>1 DEF CapacityFor, Node
  <2> QED BY <1>3, <2>2 DEF DocumentBlock, NoBlock, Block, BlockTypes
<1> HIDE DEF room, header
<1>5. /\ t \in Indexes
      /\ flag[t] # "ALIVE"
      /\ flag' = [flag EXCEPT ![t] = "ALIVE"]
      /\ block' = [block EXCEPT ![t] = header]
  BY <1>1, <1>2, <1>3, <1>4, AttachKeepsSpaceInv
<1>6. call'.target = t /\ call'.parent = parent
  BY <1>1, <1>3 DEF Call
<1> HIDE DEF t
<1>7. /\ LiveDocuments' = LiveDocuments \cup {t}
      /\ t \notin LiveDocuments
      /\ block'[t] = header
      /\ \A i \in Indexes : i # t => block'[i] = block[i]
      /\ LiveDocuments \subseteq Indexes
      /\ Indexes' = Indexes
  BY <1>1, <1>2, <1>4, <1>5, LiveAfterAttach DEF Indexes
<1> QED BY <1>1, <1>3, <1>4, <1>5, <1>6, <1>7 DEF parent

\* createDocument writes the new document: no link leads to it yet.
LEMMA CreateDocumentKeepsWhole ==
    ASSUME IInv, WholeInv, CreateDocument
    PROVE  WholeInv'
<1>1. /\ pc = "document"
      /\ pc' = "linkSon"
      /\ nodes' = nodes + 1
      /\ UNCHANGED <<indexCount, stack>>
      /\ call.parent \in LiveDocuments
      /\ call'.parent = call.parent
  BY CreateDocumentTakesUnused
<1>2. TypeOK /\ TreeFacts
  BY IInvUnfolded
<1>3. PICK parent \in LiveDocuments : parent = call.parent
  BY <1>1
<1>4. PICK t \in Indexes \ LiveDocuments :
         /\ call'.target = t
         /\ LiveDocuments' = LiveDocuments \cup {t}
         /\ block'[t].indexSon = 0
         /\ block'[t].indexBrother = block[parent].indexSon
         /\ \A i \in Indexes : i # t => block'[i] = block[i]
  BY <1>3, CreateDocumentTakesUnused
<1>5. LiveDocuments \subseteq Indexes /\ Indexes' = Indexes
  BY <1>1 DEF LiveDocuments, Indexes
<1>6. StackHoldsDocuments'
  BY <1>1 DEF WholeInv, StackHoldsDocuments
<1>7. CountsDocuments'
  BY <1>1, <1>2, <1>4, <1>5, LiveIsFinite, FS_AddElement
     DEF WholeInv, CountsDocuments
<1>8. NoDocumentCutOff'
  <2> SUFFICES ASSUME NEW S \in SUBSET Indexes, 0 \in S,
                      \A d \in S \cap LiveDocuments' : LinkedFrom(d)' \subseteq S
               PROVE  LiveDocuments \subseteq S
    BY <1>1, <1>4, <1>5 DEF NoDocumentCutOff
  <2> DEFINE T == S \ {t}
  <2>1. T \in SUBSET Indexes /\ {0} \cup Doomed \subseteq T
    BY <1>1, <1>2, <1>4, <1>5, LiveIsClosed DEF Doomed
  <2>2. ASSUME NEW d \in T \cap LiveDocuments PROVE LinkedFrom(d) \subseteq T
    <3>1. LinkedFrom(d) = LinksOf(d) /\ t \notin LinksOf(d)
      BY <1>1, <1>2, <1>4, <1>5, LiveIsClosed
    <3>2. LinkedFrom(d)' = LinksOf(d)
      BY <1>1, <1>4, <1>5 DEF LinkedFrom, LinksOf, Son, Brother, StaleBrothers
    <3> QED BY <1>4, <1>5, <3>1, <3>2
  <2> HIDE DEF T
  <2>3. LiveDocuments \subseteq T
    BY <1>1, <2>1, <2>2 DEF WholeInv, NoDocumentCutOff
  <2> QED BY <2>3 DEF T
<1>9. NewDocumentComesFirst'
  <2>1. block'[parent] = block[parent] /\ parent # t
    BY <1>3, <1>4, <1>5
  <2> QED BY <1>1, <1>3, <1>4, <2>1 DEF NewDocumentComesFirst
<1>10. TargetIsChild'
  BY <1>1 DEF TargetIsChild
<1> QED BY <1>6, <1>7, <1>8, <1>9, <1>10 DEF WholeInv

\* createDocument rewrites the parent's header: what could be reached by the
\* old son link is reached by the new document's brother link.
LEMMA LinkSonKeepsWhole ==
    ASSUME IInv, WholeInv, LinkSon
    PROVE  WholeInv'
<1> DEFINE parent == call.parent
           target == call.target
<1>1. /\ pc = "linkSon"
      /\ pc' = "idle"
      /\ block' = [block EXCEPT ![parent] =
                      [call.header EXCEPT !.indexSon = target]]
      /\ UNCHANGED <<indexCount, flag, nodes, stack>>
  BY DEF LinkSon, Goto
<1>2. TypeOK /\ TreeFacts /\ RequestInv
  BY IInvUnfolded
<1>3. /\ parent \in LiveDocuments
      /\ target \in LiveDocuments \ {0, parent}
      /\ call.header = block[parent]
      /\ block \in [Indexes -> Block]
      /\ LiveDocuments \subseteq Indexes
      /\ 0 \in LiveDocuments
      /\ Indexes' = Indexes
  BY <1>1, <1>2 DEF TypeOK, RequestInv, CreateKeepsTrack, LiveDocuments,
                    TreeFacts, RootIsAlive, Indexes
<1>4. /\ Son(target) = 0
      /\ Brother(target) = Son(parent)
  BY <1>1 DEF WholeInv, NewDocumentComesFirst, Son, Brother
<1>5. \A d \in LiveDocuments : target \notin LinksOf(d)
  <2>1. \A d \in LiveDocuments : Brother(d) # target
    BY <1>1, <1>3, <1>2 DEF TreeFacts, LinksNameLinkable, BrotherHolders,
                       StaleBrothers, Linkable, Unlinked
  <2>2. \A d \in LiveDocuments \ {parent} : Son(d) # target
    BY <1>1, <1>3, <1>2 DEF TreeFacts, LinksNameLinkable, SonHolders,
                       StaleSons, Linkable, Unlinked
  <2> QED BY <1>3, <1>4, <2>1, <2>2 DEF LinksOf
<1> HIDE DEF parent, target
<1>6. /\ \A d \in LiveDocuments \ {parent} : block'[d] = block[d]
      /\ block'[parent].indexSon = target
      /\ block'[parent].indexBrother = block[parent].indexBrother
      /\ block'[parent].blockType = block[parent].blockType
  BY <1>1, <1>3 DEF Block
<1>7. LiveDocuments' = LiveDocuments
  <2>1. \A i \in Indexes : block'[i].blockType = block[i].blockType
    BY <1>1, <1>3, <1>6
  <2> QED BY <1>1, <2>1, LiveAfterLink
<1>8. StackHoldsDocuments'
  BY <1>1 DEF WholeInv, StackHoldsDocuments
<1>9. CountsDocuments'
  BY <1>1, <1>7 DEF WholeInv, CountsDocuments
<1>10. NoDocumentCutOff'
  <2> SUFFICES ASSUME NEW S \in SUBSET Indexes, 0 \in S,
                      \A d \in S \cap LiveDocuments : LinkedFrom(d)' \subseteq S
               PROVE  LiveDocuments \subseteq S
    BY <1>1, <1>3, <1>7 DEF NoDocumentCutOff
  <2> DEFINE T == S \ {target}
  <2>1. T \in SUBSET Indexes /\ {0} \cup Doomed \subseteq T
    BY <1>1, <1>3 DEF Doomed
  <2>2. /\ \A d \in LiveDocuments : LinkedFrom(d) = LinksOf(d)
        /\ \A d \in LiveDocuments \ {parent} : LinkedFrom(d)' = LinksOf(d)
        /\ \A d : d = parent =>
              LinkedFrom(d)' = {target, Brother(d)} \ {0}
    BY <1>1, <1>3, <1>6
       DEF LinkedFrom, LinksOf, Son, Brother, StaleBrothers
  <2>3. ASSUME NEW d \in T \cap LiveDocuments PROVE LinkedFrom(d) \subseteq T
    <3>1. CASE d # parent
      BY <1>5, <2>2, <3>1
    <3>2. CASE d = parent
      <4>1. target \in S /\ {Brother(parent)} \ {0} \subseteq S
        BY <1>3, <2>2, <3>2
      <4>2. {Brother(target)} \ {0} \subseteq S
        BY <1>3, <2>2, <4>1 DEF LinksOf
      <4> QED BY <1>3, <1>4, <1>5, <2>2, <3>2, <4>1, <4>2 DEF LinksOf
    <3> QED BY <3>1, <3>2
  <2>4. target = call.target
    BY DEF target
  <2> HIDE DEF T
  <2>5. LiveDocuments \subseteq T \cup {target}
    BY <1>1, <2>1, <2>3, <2>4 DEF WholeInv, NoDocumentCutOff
  <2>6. parent \in S
    BY <1>3, <2>5 DEF T
  <2>7. target \in S
    <3>1. \E d \in S \cap LiveDocuments : d = parent
      BY <1>3, <2>6
    <3> QED BY <1>3, <2>2, <3>1
  <2> QED BY <2>5, <2>7 DEF T
<1>11. NewDocumentComesFirst' /\ TargetIsChild'
  BY <1>1 DEF NewDocumentComesFirst, TargetIsChild
<1> QED BY <1>8, <1>9, <1>10, <1>11 DEF WholeInv

\* What a deletion's Unlink does to the links: the one that named the target
\* names the target's brother instead.
LEMMA UnlinkMovesOneLink ==
    ASSUME IInv, Unlink
    PROVE  /\ pc = "unlink"
           /\ pc' = "del"
           /\ call'.target = call.target
           /\ call.target \in LiveDocuments \ {0}
           /\ \E holder \in LiveDocuments \ {call.target} :
                 /\ \/ /\ Son(holder) = call.target
                       /\ block'[holder].indexSon = Brother(call.target)
                       /\ block'[holder].indexBrother = Brother(holder)
                    \/ /\ Brother(holder) = call.target
                       /\ block'[holder].indexBrother = Brother(call.target)
                       /\ block'[holder].indexSon = Son(holder)
                 /\ \A d \in Indexes \ {holder} : block'[d] = block[d]
           /\ LiveDocuments' = LiveDocuments
           /\ UNCHANGED <<indexCount, nodes, stack>>
<1> DEFINE parent == call.parent
           prev == call.prev
           target == call.target
           brother == block[target].indexBrother
           holder == IF block[parent].indexSon = target THEN parent ELSE prev
<1>1. TypeOK /\ TreeFacts /\ RequestInv
  BY IInvUnfolded
<1>2. /\ pc = "unlink"
      /\ pc' = "del"
      /\ call' = call
      /\ call.tail = target
      /\ UNCHANGED <<indexCount, flag, nodes, stack>>
  BY <1>1 DEF Unlink, Goto, RequestInv, DeleteKeepsTrack
<1>3. block' = IF block[parent].indexSon = target
               THEN [block EXCEPT ![parent].indexSon = brother]
               ELSE [block EXCEPT ![prev].indexBrother = brother]
  BY <1>2 DEF Unlink, IsFirstSon
<1>4. /\ target \in LiveDocuments \ {0, parent}
      /\ parent \in LiveDocuments
      /\ \/ block[parent].indexSon = target
         \/ /\ prev \in LiveDocuments \ {target}
            /\ block[prev].indexBrother = target
  BY <1>1, <1>2 DEF RequestInv, DeleteKeepsTrack
<1>5. /\ block \in [Indexes -> Block]
      /\ LiveDocuments \subseteq Indexes
  BY <1>1 DEF TypeOK, LiveDocuments
<1> HIDE DEF parent, prev, target, brother
<1>6. /\ holder \in LiveDocuments \ {target}
      /\ \/ /\ block[holder].indexSon = target
            /\ block'[holder].indexSon = brother
            /\ block'[holder].indexBrother = block[holder].indexBrother
         \/ /\ block[holder].indexBrother = target
            /\ block'[holder].indexBrother = brother
            /\ block'[holder].indexSon = block[holder].indexSon
      /\ block'[holder].blockType = block[holder].blockType
      /\ \A i \in Indexes : i # holder => block'[i] = block[i]
  <2>1. CASE block[parent].indexSon = target
    BY <1>3, <1>4, <1>5, <2>1 DEF Block
  <2>2. CASE block[parent].indexSon # target
    BY <1>3, <1>4, <1>5, <2>2 DEF Block
  <2> QED BY <2>1, <2>2
<1> HIDE DEF holder
<1>7. LiveDocuments' = LiveDocuments
  <2>1. \A i \in Indexes : block'[i].blockType = block[i].blockType
    BY <1>6
  <2> QED BY <1>2, <2>1, LiveAfterLink
<1> QED BY <1>2, <1>4, <1>6, <1>7 DEF Son, Brother, target, brother

\* deleteDocument unlinks the target: its brothers can still be reached from
\* the link that named it, and itself it is doomed.
LEMMA UnlinkKeepsWhole ==
    ASSUME IInv, WholeInv, Unlink
    PROVE  WholeInv'
<1>1. /\ pc = "unlink"
      /\ pc' = "del"
      /\ call'.target = call.target
      /\ call.target \in LiveDocuments \ {0}
      /\ LiveDocuments' = LiveDocuments
      /\ UNCHANGED <<indexCount, nodes, stack>>
  BY UnlinkMovesOneLink
<1>2. PICK target \in LiveDocuments \ {0} : target = call.target
  BY <1>1
<1>3. PICK holder \in LiveDocuments \ {target} :
         /\ \/ /\ Son(holder) = target
               /\ block'[holder].indexSon = Brother(target)
               /\ block'[holder].indexBrother = Brother(holder)
            \/ /\ Brother(holder) = target
               /\ block'[holder].indexBrother = Brother(target)
               /\ block'[holder].indexSon = Son(holder)
         /\ \A d \in Indexes \ {holder} : block'[d] = block[d]
  BY <1>2, UnlinkMovesOneLink
<1>4. TreeFacts
  BY IInvUnfolded
<1>5. /\ 0 \in LiveDocuments
      /\ LiveDocuments \subseteq Indexes
      /\ Indexes' = Indexes
      /\ \A d \in LiveDocuments : LinkedFrom(d) = LinksOf(d)
  BY <1>1, <1>4, LiveIsClosed DEF Indexes
\* The target is named by this one link.
<1>6. \A d \in LiveDocuments \ {holder} : target \notin LinksOf(d)
  BY <1>1, <1>2, <1>3, <1>4
     DEF TreeFacts, LinksDiffer, SonHolders, BrotherHolders, StaleSons,
         StaleBrothers, LinksOf
<1>7. \A d \in LiveDocuments \ {holder, target} : LinkedFrom(d)' = LinksOf(d)
  BY <1>1, <1>2, <1>3, <1>5
     DEF LinkedFrom, LinksOf, Son, Brother, StaleBrothers
<1>8. LinkedFrom(target)' = {Son(target)} \ {0}
  BY <1>1, <1>2, <1>3, <1>5
     DEF LinkedFrom, Son, Brother, StaleBrothers
<1>9. /\ LinksOf(holder) \subseteq LinkedFrom(holder)' \cup {target}
      /\ {Brother(target)} \ {0} \subseteq LinkedFrom(holder)'
  <2>1. LinkedFrom(holder)' =
           {block'[holder].indexSon, block'[holder].indexBrother} \ {0}
    BY <1>1, <1>2, <1>3 DEF LinkedFrom, StaleBrothers
  <2> QED BY <1>2, <1>3, <2>1 DEF LinksOf, Son, Brother
<1>10. StackHoldsDocuments'
  BY <1>1 DEF WholeInv, StackHoldsDocuments
<1>11. CountsDocuments'
  BY <1>1 DEF WholeInv, CountsDocuments
<1>12. NoDocumentCutOff'
  <2> SUFFICES ASSUME NEW S \in SUBSET Indexes, 0 \in S, target \in S,
                      \A d \in S \cap LiveDocuments : LinkedFrom(d)' \subseteq S
               PROVE  LiveDocuments \subseteq S
    BY <1>1, <1>2, <1>5 DEF NoDocumentCutOff, Doomed
  <2>1. Doomed = {}
    BY <1>1 DEF Doomed
  <2>2. ASSUME NEW T \in SUBSET Indexes, 0 \in T,
               \A d \in T \cap LiveDocuments : LinksOf(d) \subseteq T
        PROVE  LiveDocuments \subseteq T
    BY <1>1, <1>5, <2>1, <2>2 DEF WholeInv, NoDocumentCutOff
  <2>3. holder \in S
    <3> SUFFICES ASSUME holder \notin S PROVE FALSE
      OBVIOUS
    <3> DEFINE T == S \ {target}
    <3>1. T \in SUBSET Indexes /\ 0 \in T
      BY <1>2
    <3>2. ASSUME NEW d \in T \cap LiveDocuments PROVE LinksOf(d) \subseteq T
      BY <1>6, <1>7
    <3> HIDE DEF T
    <3>3. LiveDocuments \subseteq T
      BY <2>2, <3>1, <3>2
    <3> QED BY <1>2, <3>3 DEF T
  <2>4. ASSUME NEW d \in S \cap LiveDocuments PROVE LinksOf(d) \subseteq S
    <3>1. CASE d \notin {holder, target}
      BY <1>7, <3>1
    <3>2. CASE d = holder
      <4>1. LinkedFrom(holder)' \subseteq S
        BY <2>3, <1>3
      <4> QED BY <1>9, <3>2, <4>1
    <3>3. CASE d = target
      <4>1. LinkedFrom(holder)' \subseteq S /\ LinkedFrom(target)' \subseteq S
        BY <1>2, <1>3, <2>3
      <4> QED BY <1>8, <1>9, <3>3, <4>1 DEF LinksOf
    <3> QED BY <3>1, <3>2, <3>3
  <2> QED BY <2>2, <2>4
<1>13. NewDocumentComesFirst' /\ TargetIsChild'
  BY <1>1 DEF NewDocumentComesFirst, TargetIsChild
<1> QED BY <1>10, <1>11, <1>12, <1>13 DEF WholeInv

\* What del() does: one document dies and is no longer counted.
LEMMA DeadDocumentIsCounted ==
    ASSUME TypeOK, CountsDocuments, NEW d \in LiveDocuments,
           LiveDocuments' = LiveDocuments \ {d}, nodes' = nodes - 1
    PROVE  CountsDocuments'
BY LiveIsFinite, FS_RemoveElement, FS_CardinalityType DEF CountsDocuments

\* deleteDocument kills the target: its sons are doomed now.
LEMMA DeleteTargetKeepsWhole ==
    ASSUME IInv, WholeInv, DeleteTarget
    PROVE  WholeInv'
<1>1. TypeOK /\ TreeFacts /\ RequestInv
  BY IInvUnfolded
<1>2. /\ pc = "del"
      /\ call.target \in LiveDocuments \ {0}
      /\ call.header.indexSon = block[call.target].indexSon
      /\ nodes' = nodes - 1
      /\ UNCHANGED <<indexCount, block, stack>>
  BY <1>1 DEF DeleteTarget, RequestInv, DeleteKeepsTrack
<1>3. PICK target \in LiveDocuments \ {0} : target = call.target
  BY <1>2
<1>4. /\ pc' \in {"subtree", "toasts", "idle"}
      /\ Son(target) # 0 => pc' = "subtree" /\ call'.temp = Son(target)
  BY <1>1, <1>2, <1>3
     DEF DeleteTarget, AfterTarget, AfterSubtree, Goto, Son, TypeOK, Call
<1>5. LiveDocuments' = LiveDocuments \ {target}
  <2>1. target \in Indexes /\ flag[target] = "ALIVE"
    BY DEF LiveDocuments
  <2>2. flag' = [flag EXCEPT ![target] = "DEAD"]
    BY <1>1, <1>2, <1>3, <2>1 DEF DeleteTarget, Free, TypeOK
  <2> QED BY <1>1, <1>2, <2>1, <2>2, LiveAfterFree
<1>6. StackHoldsDocuments'
  BY <1>2 DEF WholeInv, StackHoldsDocuments
<1>7. CountsDocuments'
  BY <1>1, <1>2, <1>5, DeadDocumentIsCounted DEF WholeInv
<1>8. NoDocumentCutOff'
  <2> SUFFICES ASSUME NEW S \in SUBSET Indexes, 0 \in S, Doomed' \subseteq S,
                      \A d \in S \cap LiveDocuments' : LinkedFrom(d)' \subseteq S
               PROVE  LiveDocuments' \subseteq S
    BY <1>2, <1>4 DEF NoDocumentCutOff, Indexes
  <2> DEFINE T == S \cup {target}
  <2>1. T \in SUBSET Indexes /\ {0} \cup Doomed \subseteq T
    BY <1>2, <1>3 DEF Doomed, LiveDocuments
  <2>2. ASSUME NEW d \in T \cap LiveDocuments PROVE LinkedFrom(d) \subseteq T
    <3>1. CASE d = target
      <4>1. LinkedFrom(d) = {Son(d)} \ {0}
        BY <1>2, <1>3, <3>1 DEF LinkedFrom, StaleBrothers, Son
      <4>2. Son(target) # 0 => Son(target) \in S
        BY <1>4 DEF Doomed
      <4> QED BY <3>1, <4>1, <4>2
    <3>2. CASE d # target
      <4>1. LinkedFrom(d) = LinkedFrom(d)'
        BY <1>2, <1>3, <1>4, <3>2 DEF LinkedFrom, StaleBrothers
      <4>2. d \in S \cap LiveDocuments'
        BY <1>5, <3>2
      <4> QED BY <4>1, <4>2
    <3> QED BY <3>1, <3>2
  <2> HIDE DEF T
  <2>3. LiveDocuments \subseteq T
    BY <1>2, <2>1, <2>2 DEF WholeInv, NoDocumentCutOff
  <2> QED BY <1>5, <2>3 DEF T
<1>9. NewDocumentComesFirst' /\ TargetIsChild'
  BY <1>4 DEF NewDocumentComesFirst, TargetIsChild
<1> QED BY <1>6, <1>7, <1>8, <1>9 DEF WholeInv

\* The iterator keeps track of every document it has still to visit.
LEMMA IteratorDropsNothing ==
    ASSUME TypeOK, StackHoldsDocuments, NEW doc \in Indexes,
           stack' = NextStack(block[doc])
    PROVE  /\ LinksOf(doc) \cup {stack[k] : k \in 1 .. Len(stack)}
                 \subseteq {NextDoc(block[doc])}
                              \cup {stack'[k] : k \in 1 .. Len(stack')}
           /\ \A k \in 1 .. Len(stack') : stack'[k] # 0
           /\ NextDoc(block[doc]) = 0 =>
                 /\ stack' = <<>>
                 /\ LinksOf(doc) = {}
                 /\ stack = <<>>
<1>1. /\ stack \in Seq(Nat)
      /\ Son(doc) \in Nat
      /\ \A k \in 1 .. Len(stack) : stack[k] # 0
  BY DEF TypeOK, Block, Son, StackHoldsDocuments
<1>2. CASE Brother(doc) # 0 /\ Son(doc) # 0
  <2>1. /\ NextDoc(block[doc]) = Brother(doc)
        /\ stack' = Append(stack, Son(doc))
    BY <1>2 DEF NextDoc, NextStack, Son, Brother
  <2>2. /\ Len(stack') = Len(stack) + 1
        /\ \A k \in 1 .. Len(stack) : stack'[k] = stack[k]
        /\ stack'[Len(stack) + 1] = Son(doc)
        /\ Len(stack) \in Nat
    BY <1>1, <2>1, AppendProperties
  <2>3. \A k \in 1 .. Len(stack) : k \in 1 .. Len(stack')
    BY <2>2
  <2>4. Len(stack) + 1 \in 1 .. Len(stack')
    BY <2>2
  <2>5. \A k \in 1 .. Len(stack') : k \in 1 .. Len(stack) \/ k = Len(stack) + 1
    BY <2>2
  <2> QED BY <1>1, <1>2, <2>1, <2>2, <2>3, <2>4, <2>5 DEF LinksOf
<1>3. CASE (Brother(doc) # 0) # (Son(doc) # 0)
  <2>1. /\ NextDoc(block[doc]) \in {Brother(doc), Son(doc)} \ {0}
        /\ LinksOf(doc) = {NextDoc(block[doc])}
        /\ stack' = stack
    BY <1>3 DEF NextDoc, NextStack, Son, Brother, LinksOf
  <2> QED BY <1>1, <2>1
<1>4. CASE Brother(doc) = 0 /\ Son(doc) = 0 /\ stack # <<>>
  <2>1. /\ NextDoc(block[doc]) = stack[Len(stack)]
        /\ stack' = Front(stack)
        /\ LinksOf(doc) = {}
    BY <1>4 DEF NextDoc, NextStack, Son, Brother, Last, LinksOf
  <2>2. /\ Len(stack) \in 1 .. Len(stack)
        /\ Len(stack') = Len(stack) - 1
        /\ \A k \in 1 .. Len(stack) - 1 : stack'[k] = stack[k]
    BY <1>1, <1>4, <2>1, FrontProperties
  <2>3. stack[Len(stack)] # 0
    BY <1>1, <2>2
  <2>4. Len(stack) \in Nat
    BY <1>1
  <2>5. \A k \in 1 .. Len(stack) : k \in 1 .. Len(stack') \/ k = Len(stack)
    BY <2>2, <2>4
  <2>6. \A k \in 1 .. Len(stack') : k \in 1 .. Len(stack)
    BY <2>2, <2>4
  <2> QED BY <1>1, <2>1, <2>2, <2>3, <2>5, <2>6
<1>5. CASE Brother(doc) = 0 /\ Son(doc) = 0 /\ stack = <<>>
  BY <1>5 DEF NextDoc, NextStack, Son, Brother, LinksOf
<1> QED BY <1>2, <1>3, <1>4, <1>5

\* forEachDocument kills the document it visits: what its links name is
\* visited next or stacked.
LEMMA DeleteDescendantKeepsWhole ==
    ASSUME IInv, WholeInv, DeleteDescendant
    PROVE  WholeInv'
<1>1. TypeOK /\ TreeFacts
  BY IInvUnfolded
<1>2. /\ pc = "subtree"
      /\ call.temp \in LiveDocuments \ {0}
      /\ nodes' = nodes - 1
      /\ stack' = NextStack(block[call.temp])
      /\ UNCHANGED <<indexCount, block>>
  BY <1>1, IInvUnfolded
     DEF DeleteDescendant, RequestInv, DeleteKeepsTrack, TreeFacts,
         LinksNameLinkable, Visiting, Linkable
<1>3. PICK doc \in LiveDocuments \ {0} : doc = call.temp
  BY <1>2
<1>4. /\ pc' \in {"subtree", "toasts", "idle"}
      /\ pc' = "subtree" <=> NextDoc(block[doc]) # 0
      /\ pc' = "subtree" => call'.temp = NextDoc(block[doc])
  BY <1>1, <1>3
     DEF DeleteDescendant, AfterSubtree, Goto, TypeOK, Call
<1>5. LiveDocuments' = LiveDocuments \ {doc} /\ doc \in Indexes
  <2>1. doc \in Indexes /\ flag[doc] = "ALIVE"
    BY DEF LiveDocuments
  <2>2. flag' = [flag EXCEPT ![doc] = "DEAD"]
    BY <1>1, <1>3, <2>1 DEF DeleteDescendant, Free, TypeOK
  <2> QED BY <1>1, <1>2, <2>1, <2>2, LiveAfterFree
<1>6. /\ LinksOf(doc) \cup {stack[k] : k \in 1 .. Len(stack)}
            \subseteq {NextDoc(block[doc])}
                         \cup {stack'[k] : k \in 1 .. Len(stack')}
      /\ \A k \in 1 .. Len(stack') : stack'[k] # 0
      /\ NextDoc(block[doc]) = 0 =>
            /\ stack' = <<>>
            /\ LinksOf(doc) = {}
            /\ stack = <<>>
  BY <1>1, <1>2, <1>3, <1>5, IteratorDropsNothing DEF WholeInv
<1>7. StackHoldsDocuments'
  BY <1>4, <1>6 DEF StackHoldsDocuments
<1>8. CountsDocuments'
  BY <1>1, <1>2, <1>5, DeadDocumentIsCounted DEF WholeInv
<1>9. NoDocumentCutOff'
  <2> SUFFICES ASSUME NEW S \in SUBSET Indexes, 0 \in S, Doomed' \subseteq S,
                      \A d \in S \cap LiveDocuments' : LinkedFrom(d)' \subseteq S
               PROVE  LiveDocuments' \subseteq S
    BY <1>2, <1>4 DEF NoDocumentCutOff, Indexes
  <2> DEFINE T == S \cup {doc}
  <2>1. LinksOf(doc) \cup {stack[k] : k \in 1 .. Len(stack)} \subseteq S
    <3>1. CASE pc' = "subtree"
      BY <1>4, <1>6, <3>1 DEF Doomed
    <3>2. CASE pc' # "subtree"
      BY <1>4, <1>6, <3>2
    <3> QED BY <3>1, <3>2
  <2>2. T \in SUBSET Indexes /\ {0} \cup Doomed \subseteq T
    BY <1>2, <1>3, <1>5, <2>1 DEF Doomed
  <2>3. ASSUME NEW d \in T \cap LiveDocuments PROVE LinkedFrom(d) \subseteq T
    <3>1. CASE d = doc
      BY <1>1, <1>2, <2>1, <3>1, LiveIsClosed
    <3>2. CASE d # doc
      <4>1. LinkedFrom(d) = LinkedFrom(d)'
        BY <1>2, <1>4 DEF LinkedFrom, StaleBrothers
      <4>2. d \in S \cap LiveDocuments'
        BY <1>5, <3>2
      <4> QED BY <4>1, <4>2
    <3> QED BY <3>1, <3>2
  <2> HIDE DEF T
  <2>4. LiveDocuments \subseteq T
    BY <1>2, <2>2, <2>3 DEF WholeInv, NoDocumentCutOff
  <2> QED BY <1>5, <2>4 DEF T
<1>10. NewDocumentComesFirst' /\ TargetIsChild'
  BY <1>4 DEF NewDocumentComesFirst, TargetIsChild
<1> QED BY <1>7, <1>8, <1>9, <1>10 DEF WholeInv

LEMMA InitIsWhole == Init => WholeInv
<1> SUFFICES ASSUME Init PROVE WholeInv
  OBVIOUS
<1>1. /\ pc = "idle"
      /\ stack = <<>>
      /\ nodes = 1
      /\ \A i \in Indexes : flag[i] = "ALIVE" <=> i = 0
      /\ block[0].blockType = "DOCUMENT"
      /\ 0 \in Indexes
  BY ConstantsAssumption DEF Init, Indexes, DocumentBlock, NoBlock
<1>2. LiveDocuments = {0}
  BY <1>1 DEF LiveDocuments
<1>3. StackHoldsDocuments
  BY <1>1 DEF StackHoldsDocuments
<1>4. CountsDocuments
  BY <1>1, <1>2, FS_Singleton DEF CountsDocuments
<1>5. NoDocumentCutOff
  BY <1>2 DEF NoDocumentCutOff
<1>6. NewDocumentComesFirst /\ TargetIsChild
  BY <1>1 DEF NewDocumentComesFirst, TargetIsChild
<1> QED BY <1>3, <1>4, <1>5, <1>6 DEF WholeInv

LEMMA NextKeepsWhole == IInv /\ WholeInv /\ [Next]_vars => WholeInv'
<1> SUFFICES ASSUME IInv, WholeInv, [Next]_vars PROVE WholeInv'
  OBVIOUS
<1>1. CASE pc \notin DocumentSteps
  BY <1>1, QuietStepsKeepWhole
<1>2. CASE UNCHANGED vars
  BY <1>2
     DEF vars, WholeInv, StackHoldsDocuments, CountsDocuments,
         NoDocumentCutOff, NewDocumentComesFirst, TargetIsChild, Doomed,
         LinkedFrom, StaleBrothers, LiveDocuments, Reachable, Children,
         BrothersFrom, Indexes
<1>3. CASE pc \in DocumentSteps /\ Next
  <2>1. CreateDocument \/ LinkSon \/ Unlink \/ DeleteTarget \/ DeleteDescendant
    BY <1>3
       DEF DocumentSteps, Next, Request, Command, Execute, StartCreate,
           StartDelete, GrowText, GrowTextAborts, Finish, Open, ExpandIndexes,
           CreateToast, WalkSiblings, DeleteToast, LinkToast, LoadNode
  <2> QED BY <2>1, CreateDocumentKeepsWhole, LinkSonKeepsWhole,
             UnlinkKeepsWhole, DeleteTargetKeepsWhole,
             DeleteDescendantKeepsWhole
<1> QED BY <1>1, <1>2, <1>3

\* Beside what IInv says of the single links, the links of all live documents
\* lead from the root to every one of them, at every step of ADD and DELETE.
THEOREM WholeInvariant == Spec => []WholeInv
BY InitIsWhole, NextKeepsWhole, InductiveInvariant, PTL DEF Spec

\* What a search finds between requests is what is alive.
LEMMA ReachableAreLive ==
    ASSUME TreeFacts, NoDocumentCutOff,
           pc \notin {"linkSon", "del", "subtree"}
    PROVE  Reachable = LiveDocuments
<1>1. /\ LiveDocuments \in SUBSET Indexes
      /\ 0 \in LiveDocuments
      /\ \A d \in LiveDocuments : LinksOf(d) \subseteq LiveDocuments
      /\ \A d \in LiveDocuments : LinkedFrom(d) = LinksOf(d)
  BY LiveIsClosed
<1>2. Reachable \subseteq LiveDocuments
  BY <1>1 DEF Reachable, LinksOf, Son, Brother
<1>3. ASSUME NEW S \in SUBSET Indexes, 0 \in S,
             \A d \in S : LinksOf(d) \subseteq S
      PROVE  LiveDocuments \subseteq S
  BY <1>1, <1>3 DEF NoDocumentCutOff, Doomed
<1>4. LiveDocuments \subseteq Reachable
  BY <1>1, <1>3 DEF Reachable, LinksOf, Son, Brother
<1> QED BY <1>2, <1>4

\* Between requests the living documents form one tree and header.nodes
\* counts them: no ADD or DELETE leaves a document alive that no search finds.
THEOREM TreeStaysWhole == Spec => []TreeIsWhole
<1>1. IInv /\ WholeInv => TreeIsWhole
  BY IInvUnfolded, ReachableAreLive
     DEF TreeIsWhole, WholeInv, CountsDocuments
<1> QED BY <1>1, InductiveInvariant, WholeInvariant, PTL

-----------------------------------------------------------------------------
(* Trees as sons and brothers.  s and b are the links of a set R of        *)
(* documents, to the first son and to the next brother; 0 is no link.      *)

\* The list of brothers that begins with f.
ListFrom(R, b, f) == Closure(R, {f} \ {0}, [x \in R |-> {b[x]} \ {0}])

Leads(R, s, b) == [x \in R |-> {s[x], b[x]} \ {0}]

\* The links lead to all of R from 0, and no two lead to the same document.
IsTree(R, s, b) ==
    /\ IsLeast(R, {0}, Leads(R, s, b))
    /\ \A x, y \in R : /\ s[x] = s[y] /\ s[x] # 0 => x = y
                       /\ b[x] = b[y] /\ b[x] # 0 => x = y
                       /\ s[x] # 0 => s[x] # b[y]

\* A closure is the same in every closed set around it.
LEMMA ClosureWithin ==
    ASSUME NEW I, NEW R \in SUBSET I, NEW seed, NEW next, NEW other,
           IsClosed(R, seed, next), \A x \in R : next[x] = other[x]
    PROVE  Closure(I, seed, next) = Closure(R, seed, other)
<1>1. IsClosed(R, seed, other)
  BY DEF IsClosed
<1>2. /\ IsLeast(Closure(I, seed, next), seed, next)
      /\ Closure(I, seed, next) \subseteq R
  BY ClosureIsLeast
<1>3. IsLeast(Closure(R, seed, other), seed, other)
  BY <1>1, ClosureIsLeast
<1> QED BY <1>2, <1>3, LeastIsUnique

LEMMA ListProperties ==
    ASSUME NEW R, NEW b, \A x \in R : {b[x]} \ {0} \subseteq R,
           NEW f \in R \cup {0}
    PROVE  /\ ListFrom(R, b, f) \subseteq R \ {0}
           /\ f # 0 => f \in ListFrom(R, b, f)
           /\ \A x \in ListFrom(R, b, f) :
                 b[x] # 0 => b[x] \in ListFrom(R, b, f)
           /\ \A x \in ListFrom(R, b, f) :
                 \/ x = f
                 \/ \E y \in ListFrom(R, b, f) : b[y] = x
<1> DEFINE seed == {f} \ {0}
           next == [x \in R |-> {b[x]} \ {0}]
           C == ListFrom(R, b, f)
<1>1. IsClosed(R, seed, next)
  BY DEF IsClosed
<1>2. C = Closure(R, seed, next)
  BY DEF ListFrom
<1>3. IsLeast(C, seed, next) /\ C \subseteq R
  <2> HIDE DEF C, seed, next
  <2>1. R \in SUBSET R
    OBVIOUS
  <2> QED BY <1>1, <1>2, <2>1, ClosureIsLeast
<1> HIDE DEF C
<1>4. /\ f # 0 => f \in C
      /\ \A x \in C : b[x] # 0 => b[x] \in C
  BY <1>3 DEF IsLeast, IsClosed
<1>5. ASSUME NEW x \in C, x # f PROVE x # 0 /\ \E y \in C : b[y] = x
  <2>1. x \notin seed
    BY <1>5
  <2>2. PICK y \in C : x \in next[y]
    BY <1>3, <2>1, LeastInversion
  <2> QED BY <1>3, <2>2
<1>6. 0 \notin C
  <2> SUFFICES ASSUME 0 \in C, f = 0 PROVE FALSE
    BY <1>5
  <2>1. {} \subseteq C /\ IsClosed({}, seed, next)
    BY DEF IsClosed
  <2> QED BY <1>3, <2>1 DEF IsLeast
<1> QED BY <1>3, <1>4, <1>5, <1>6 DEF C

\* A set that holds f and the brothers of its members holds f's list.
LEMMA ListIsWithin ==
    ASSUME NEW R, NEW b, \A x \in R : {b[x]} \ {0} \subseteq R,
           NEW f \in R \cup {0}, NEW S, f # 0 => f \in S,
           \A x \in S \cap ListFrom(R, b, f) : b[x] # 0 => b[x] \in S
    PROVE  ListFrom(R, b, f) \subseteq S
<1> DEFINE seed == {f} \ {0}
           next == [x \in R |-> {b[x]} \ {0}]
           C == ListFrom(R, b, f)
<1>1. IsClosed(R, seed, next)
  BY DEF IsClosed
<1>2. C = Closure(R, seed, next)
  BY DEF ListFrom
<1>3. IsLeast(C, seed, next) /\ C \subseteq R
  <2> HIDE DEF C, seed, next
  <2>1. R \in SUBSET R
    OBVIOUS
  <2> QED BY <1>1, <1>2, <2>1, ClosureIsLeast
<1>4. seed \subseteq S /\ \A x \in S \cap C : next[x] \subseteq S
  BY <1>3
<1> HIDE DEF C, seed, next
<1>5. C \subseteq S
  BY <1>3, <1>4, LeastIsWithin
<1> QED BY <1>5 DEF C

LEMMA ListStep ==
    ASSUME NEW R, NEW b, \A x \in R : {b[x]} \ {0} \subseteq R,
           NEW f \in R \ {0}
    PROVE  ListFrom(R, b, f) = {f} \cup ListFrom(R, b, b[f])
<1>1. b[f] \in R \cup {0}
  OBVIOUS
<1>2. ListFrom(R, b, f) \subseteq {f} \cup ListFrom(R, b, b[f])
  <2> DEFINE S == {f} \cup ListFrom(R, b, b[f])
  <2>1. \A x \in S : b[x] # 0 => b[x] \in S
    BY <1>1, ListProperties
  <2>2. f \in S /\ f \in R \cup {0}
    OBVIOUS
  <2> HIDE DEF S
  <2>3. ListFrom(R, b, f) \subseteq S
    BY <2>1, <2>2, ListIsWithin
  <2> QED BY <2>3 DEF S
<1>3. ListFrom(R, b, b[f]) \subseteq ListFrom(R, b, f)
  BY <1>1, ListIsWithin, ListProperties
<1> QED BY <1>2, <1>3, ListProperties

LEMMA TreeIsClosed ==
    ASSUME NEW R, NEW s, NEW b, IsTree(R, s, b)
    PROVE  /\ 0 \in R
           /\ \A x \in R : {s[x]} \ {0} \subseteq R /\ {b[x]} \ {0} \subseteq R
           /\ \A x \in R : s[x] \in R \cup {0} /\ b[x] \in R \cup {0}
<1>1. 0 \in R /\ \A x \in R : Leads(R, s, b)[x] \subseteq R
  BY DEF IsTree, IsLeast, IsClosed
<1> QED BY <1>1 DEF Leads

\* No document is in the lists of sons of two documents.
LEMMA OneParent ==
    ASSUME NEW R, NEW s, NEW b, IsTree(R, s, b), NEW x \in R, NEW z \in R,
           NEW y \in ListFrom(R, b, s[x]), y \in ListFrom(R, b, s[z])
    PROVE  x = z
<1> SUFFICES ASSUME x # z PROVE FALSE
  OBVIOUS
<1> DEFINE C == ListFrom(R, b, s[x])
           D == ListFrom(R, b, s[z])
<1>1. /\ \A v \in R : {b[v]} \ {0} \subseteq R
      /\ s[x] \in R \cup {0}
      /\ s[z] \in R \cup {0}
  BY TreeIsClosed
<1>2. /\ C \subseteq R
      /\ D \subseteq R \ {0}
      /\ s[x] # 0 => s[x] \in C
      /\ \A v \in D : v = s[z] \/ \E w \in D : b[w] = v
  BY ZenonT(40), <1>1, ListProperties
<1> HIDE DEF C, D
<1>3. s[x] # 0 => s[x] \notin D
  BY <1>2 DEF IsTree
<1>4. ASSUME NEW v \in C \ D, b[v] # 0 PROVE b[v] \notin D
  <2> SUFFICES ASSUME b[v] \in D PROVE FALSE
    OBVIOUS
  <2>1. CASE b[v] = s[z]
    BY <1>2, <1>4, <2>1 DEF IsTree
  <2>2. CASE \E w \in D : b[w] = b[v]
    BY <1>2, <1>4, <2>2 DEF IsTree
  <2> QED BY <1>2, <2>1, <2>2
<1>5. C \subseteq R \ D
  <2> DEFINE S == R \ D
  <2>1. s[x] # 0 => s[x] \in S
    BY <1>1, <1>3
  <2>2. \A v \in S \cap C : b[v] # 0 => b[v] \in S
    BY <1>1, <1>4
  <2> HIDE DEF S
  <2>3. C \subseteq S
    BY <1>1, <2>1, <2>2, ListIsWithin DEF C
  <2> QED BY <2>3 DEF S
<1> QED BY <1>5 DEF C, D

\* Whose next brother is a son of x is one itself.
LEMMA BrotherOfSon ==
    ASSUME NEW R, NEW s, NEW b, IsTree(R, s, b), NEW x \in R, NEW y \in R,
           b[y] \in ListFrom(R, b, s[x])
    PROVE  y \in ListFrom(R, b, s[x])
<1> DEFINE C == ListFrom(R, b, s[x])
<1>1. /\ \A v \in R : {b[v]} \ {0} \subseteq R
      /\ s[x] \in R \cup {0}
  BY TreeIsClosed
<1>2. /\ C \subseteq R \ {0}
      /\ \A v \in C : v = s[x] \/ \E w \in C : b[w] = v
  BY <1>1, ListProperties
<1> HIDE DEF C
<1>3. b[y] \in C
  BY DEF C
<1>4. b[y] # s[x]
  BY <1>2, <1>3 DEF IsTree
<1>5. PICK w \in C : b[w] = b[y]
  BY <1>2, <1>3, <1>4
<1>6. w = y
  BY <1>2, <1>3, <1>5 DEF IsTree
<1> QED BY <1>5, <1>6 DEF C

\* No ring of sons lies beside the tree.
LEMMA NoRing ==
    ASSUME NEW R, NEW s, NEW b, IsTree(R, s, b), NEW D \in SUBSET R,
           \A x \in D : ListFrom(R, b, s[x]) \subseteq D,
           \A y \in D : \E x \in D : y \in ListFrom(R, b, s[x])
    PROVE  D = {}
<1> DEFINE sons(x) == ListFrom(R, b, s[x])
<1>1. /\ 0 \in R
      /\ \A v \in R : {s[v]} \ {0} \subseteq R /\ {b[v]} \ {0} \subseteq R
      /\ \A x \in R : s[x] \in R \cup {0}
  BY TreeIsClosed
<1>2. \A x \in R : sons(x) \subseteq R \ {0} /\ (s[x] # 0 => s[x] \in sons(x))
  BY <1>1, ListProperties
<1>3. \A x, z \in R : \A y \in sons(x) : y \in sons(z) => x = z
  BY OneParent
<1>4. \A x, y \in R : b[y] \in sons(x) => y \in sons(x)
  BY BrotherOfSon
<1>5. \A x \in D : sons(x) \subseteq D
  OBVIOUS
<1>6. \A y \in D : \E x \in D : y \in sons(x)
  OBVIOUS
<1> HIDE DEF sons
<1>7. 0 \notin D
  BY <1>2, <1>6
<1>8. ASSUME NEW x \in R \ D, s[x] # 0 PROVE s[x] \notin D
  BY <1>2, <1>3, <1>6, <1>8
<1>9. ASSUME NEW x \in R \ D, b[x] # 0 PROVE b[x] \notin D
  BY <1>4, <1>5, <1>6, <1>9
<1>10. IsClosed(R \ D, {0}, Leads(R, s, b))
  BY <1>1, <1>7, <1>8, <1>9 DEF IsClosed, Leads
<1>11. R \ D = R
  BY <1>10 DEF IsTree, IsLeast
<1> QED BY <1>11

\* s2 and b2 are the links once the one from h to d leads to d's brother.
Relinked(R, s, b, d, h, s2, b2) ==
    /\ \A x \in R \ {h} : s2[x] = s[x] /\ b2[x] = b[x]
    /\ \/ s[h] = d /\ s2[h] = b[d] /\ b2[h] = b[h]
       \/ b[h] = d /\ b2[h] = b[d] /\ s2[h] = s[h]

LEMMA RelinkedStaysWithin ==
    ASSUME NEW R, NEW s, NEW b, IsTree(R, s, b), NEW d \in R \ {0},
           NEW h \in R \ {d}, NEW s2, NEW b2, Relinked(R, s, b, d, h, s2, b2)
    PROVE  /\ \A x \in R : {b2[x]} \ {0} \subseteq R
           /\ \A x \in R : s2[x] \in R \cup {0} /\ b2[x] \in R \cup {0}
           /\ b[d] # d
           /\ \A x \in R \ {h} : s[x] # d /\ b[x] # d
           /\ \A x \in R : s2[x] # d /\ b2[x] # d
<1>1. /\ \A x \in R : {b[x]} \ {0} \subseteq R
      /\ \A x \in R : s[x] \in R \cup {0} /\ b[x] \in R \cup {0}
  BY TreeIsClosed
<1>2. \A x \in R \ {h} : s[x] # d /\ b[x] # d
  BY DEF IsTree, Relinked
<1>3. \A x \in R \ {h} : s2[x] = s[x] /\ b2[x] = b[x]
  BY DEF Relinked
<1>4. /\ s2[h] \in R \cup {0} /\ b2[h] \in R \cup {0}
      /\ s2[h] # d /\ b2[h] # d
  BY <1>1, <1>2 DEF IsTree, Relinked
<1> QED BY <1>1, <1>2, <1>3, <1>4

\* A list of brothers loses d and nothing else.
LEMMA RelinkedList ==
    ASSUME NEW R, NEW s, NEW b, IsTree(R, s, b), NEW d \in R \ {0},
           NEW h \in R \ {d}, NEW s2, NEW b2, Relinked(R, s, b, d, h, s2, b2),
           NEW f \in (R \cup {0}) \ {d}
    PROVE  ListFrom(R, b2, f) = ListFrom(R, b, f) \ {d}
<1> DEFINE X == ListFrom(R, b, f)
           Y == ListFrom(R, b2, f)
<1>1. /\ \A x \in R : {b[x]} \ {0} \subseteq R
      /\ \A x \in R : {b2[x]} \ {0} \subseteq R
  BY TreeIsClosed, RelinkedStaysWithin
<1>2. /\ X \subseteq R \ {0}
      /\ f # 0 => f \in X
      /\ \A x \in X : b[x] # 0 => b[x] \in X
      /\ \A x \in X : x = f \/ \E y \in X : b[y] = x
  BY <1>1, ListProperties
<1>3. /\ Y \subseteq R \ {0}
      /\ f # 0 => f \in Y
      /\ \A x \in Y : b2[x] # 0 => b2[x] \in Y
  BY <1>1, ListProperties
<1>4. /\ \A x \in R \ {h} : b2[x] = b[x] /\ b[x] # d
      /\ b[d] # d
  BY RelinkedStaysWithin DEF Relinked
<1>5. ASSUME NEW S, f # 0 => f \in S, \A x \in S \cap X : b[x] # 0 => b[x] \in S
      PROVE  X \subseteq S
  BY <1>1, <1>5, ListIsWithin
<1>6. ASSUME NEW S, f # 0 => f \in S,
             \A x \in S \cap Y : b2[x] # 0 => b2[x] \in S
      PROVE  Y \subseteq S
  BY <1>1, <1>6, ListIsWithin
<1> HIDE DEF X, Y
<1>7. CASE s[h] = d /\ b2[h] = b[h]
  <2>1. \A x \in R : b2[x] = b[x]
    BY <1>4, <1>7
  <2>2. X \subseteq Y
    BY <1>3, <1>5, <2>1
  <2>3. Y \subseteq X
    BY <1>2, <1>6, <2>1
  <2>4. d \notin X
    BY <1>2, <1>7 DEF IsTree
  <2> QED BY <2>2, <2>3, <2>4 DEF X, Y
<1>8. CASE b[h] = d /\ b2[h] = b[d]
  <2>1. Y \subseteq X \ {d}
    <3> DEFINE S == X \ {d}
    <3>1. f # 0 => f \in S
      BY <1>2
    <3>2. ASSUME NEW x \in S, b2[x] # 0 PROVE b2[x] \in S
      BY <1>2, <1>4, <1>8, <3>2
    <3> HIDE DEF S
    <3>3. Y \subseteq S
      BY <1>6, <3>1, <3>2
    <3> QED BY <3>3 DEF S
  <2>2. CASE h \in Y
    <3> DEFINE S == Y \cup {d}
    <3>1. f # 0 => f \in S
      BY <1>3
    <3>2. ASSUME NEW x \in S, b[x] # 0 PROVE b[x] \in S
      BY <1>3, <1>4, <1>8, <2>2, <3>2
    <3> HIDE DEF S
    <3>3. X \subseteq S
      BY <1>5, <3>1, <3>2
    <3> QED BY <2>1, <3>3 DEF S, X, Y
  <2>3. CASE h \notin Y
    <3>1. \A x \in Y : b[x] # 0 => b[x] \in Y
      BY <1>3, <1>4, <2>3
    <3>2. X \subseteq Y
      BY <1>3, <1>5, <3>1
    <3> QED BY <2>1, <3>2 DEF X, Y
  <2> QED BY <2>2, <2>3
<1> QED BY <1>7, <1>8 DEF Relinked

\* What an unlinking makes of the sons and the elders of a document.
LEMMA RelinkedSonsAndElders ==
    ASSUME NEW R, NEW s, NEW b, IsTree(R, s, b), NEW d \in R \ {0},
           NEW h \in R \ {d}, NEW s2, NEW b2, Relinked(R, s, b, d, h, s2, b2),
           NEW x \in R \ {d}
    PROVE  /\ ListFrom(R, b2, s2[x]) = ListFrom(R, b, s[x]) \ {d}
           /\ ListFrom(R, b2, b2[x]) = ListFrom(R, b, b[x]) \ {d}
<1>1. \A f \in (R \cup {0}) \ {d} :
         ListFrom(R, b2, f) = ListFrom(R, b, f) \ {d}
  BY RelinkedList
<1>2. /\ s2[x] \in (R \cup {0}) \ {d}
      /\ b2[x] \in (R \cup {0}) \ {d}
      /\ b[d] \in (R \cup {0}) \ {d}
  BY RelinkedStaysWithin, TreeIsClosed
<1>3. ListFrom(R, b, d) = {d} \cup ListFrom(R, b, b[d])
  BY TreeIsClosed, ListStep
<1>4. s2[x] = s[x] \/ (s[x] = d /\ s2[x] = b[d])
  BY DEF Relinked
<1>5. b2[x] = b[x] \/ (b[x] = d /\ b2[x] = b[d])
  BY DEF Relinked
<1>6. ListFrom(R, b2, s2[x]) = ListFrom(R, b, s[x]) \ {d}
  BY <1>1, <1>2, <1>3, <1>4
<1>7. ListFrom(R, b2, b2[x]) = ListFrom(R, b, b[x]) \ {d}
  BY <1>1, <1>2, <1>3, <1>5
<1> QED BY <1>6, <1>7

SubtreeOf(R, s, b, d) ==
    Closure(R, {d}, [x \in R |-> ListFrom(R, b, s[x])])

\* The subtree of a son of p contains the sons of its members, and neither p
\* nor the root.
LEMMA SubtreeProperties ==
    ASSUME NEW R, NEW s, NEW b, IsTree(R, s, b), NEW p \in R,
           NEW d \in ListFrom(R, b, s[p])
    PROVE  /\ SubtreeOf(R, s, b, d) \subseteq R \ {0, p}
           /\ d \in SubtreeOf(R, s, b, d)
           /\ \A x \in SubtreeOf(R, s, b, d) :
                 ListFrom(R, b, s[x]) \subseteq SubtreeOf(R, s, b, d)
           /\ \A y \in SubtreeOf(R, s, b, d) :
                 \/ y = d
                 \/ \E x \in SubtreeOf(R, s, b, d) : y \in ListFrom(R, b, s[x])
<1> DEFINE sons == [x \in R |-> ListFrom(R, b, s[x])]
           D == SubtreeOf(R, s, b, d)
<1>1. \A x \in R : ListFrom(R, b, s[x]) \subseteq R \ {0}
  BY TreeIsClosed, ListProperties
<1>2. d \in R \ {0} /\ IsClosed(R, {d}, sons)
  BY <1>1 DEF IsClosed
<1>3. D = Closure(R, {d}, sons)
  BY DEF SubtreeOf
<1>4. IsLeast(D, {d}, sons) /\ D \subseteq R
  <2> HIDE DEF D, sons
  <2>1. R \in SUBSET R
    OBVIOUS
  <2> QED BY <1>2, <1>3, <2>1, ClosureIsLeast
<1> HIDE DEF D
<1>5. d \in D /\ \A x \in D : ListFrom(R, b, s[x]) \subseteq D
  BY <1>4 DEF IsLeast, IsClosed
<1>6. ASSUME NEW y \in D, y # d PROVE \E x \in D : y \in ListFrom(R, b, s[x])
  <2>1. PICK x \in D : y \in sons[x]
    BY <1>4, <1>6, LeastInversion
  <2> QED BY <1>4, <2>1
<1>7. 0 \notin D
  BY <1>1, <1>2, <1>4, <1>6
<1>8. p \notin D
  <2> SUFFICES ASSUME p \in D PROVE FALSE
    OBVIOUS
  <2>1. \A y \in D : \E x \in D : y \in ListFrom(R, b, s[x])
    BY <1>6
  <2>2. D = {}
    BY <1>4, <1>5, <2>1, NoRing
  <2> QED BY <2>2
<1> QED BY <1>4, <1>5, <1>6, <1>7, <1>8 DEF D

\* What the links lead to once d is unlinked: all but d's subtree.
LEMMA RelinkedTree ==
    ASSUME NEW R, NEW s, NEW b, IsTree(R, s, b), NEW p \in R,
           NEW d \in ListFrom(R, b, s[p]),
           NEW h \in R \ {d}, NEW s2, NEW b2, Relinked(R, s, b, d, h, s2, b2)
    PROVE  IsLeast(R \ SubtreeOf(R, s, b, d), {0}, Leads(R, s2, b2))
<1> DEFINE sons(x) == ListFrom(R, b, s[x])
           D == SubtreeOf(R, s, b, d)
           Q == R \ D
<1>1. /\ D \subseteq R \ {0, p}
      /\ d \in D
      /\ \A x \in D : sons(x) \subseteq D
      /\ \A y \in D : y = d \/ \E x \in D : y \in sons(x)
  BY SubtreeProperties
<1>2. /\ 0 \in R
      /\ \A x \in R : s[x] \in R \cup {0} /\ b[x] \in R \cup {0}
      /\ \A x \in R : {b[x]} \ {0} \subseteq R
  BY TreeIsClosed
<1>3. \A x \in R : /\ sons(x) \subseteq R \ {0}
                   /\ s[x] # 0 => s[x] \in sons(x)
                   /\ \A y \in sons(x) : b[y] # 0 => b[y] \in sons(x)
  BY ZenonT(40), <1>2, ListProperties
<1>4. \A x, z \in R : \A y \in sons(x) : y \in sons(z) => x = z
  BY OneParent
<1>5. \A x, y \in R : b[y] \in sons(x) => y \in sons(x)
  BY BrotherOfSon
<1>6. d \in sons(p) /\ d \in R \ {0}
  BY <1>3
<1>7. /\ \A x \in R : s2[x] \in R \cup {0} /\ b2[x] \in R \cup {0}
      /\ b[d] # d
      /\ \A x \in R \ {h} : s[x] # d /\ b[x] # d
      /\ \A x \in R : s2[x] # d /\ b2[x] # d
  BY <1>6, RelinkedStaysWithin
<1>8. /\ \A x \in R \ {h} : s2[x] = s[x] /\ b2[x] = b[x]
      /\ \/ s[h] = d /\ s2[h] = b[d] /\ b2[h] = b[h]
         \/ b[h] = d /\ b2[h] = b[d] /\ s2[h] = s[h]
  BY DEF Relinked
<1> HIDE DEF sons, D
\* The brother of d is a son of p as well and not in d's subtree.
<1>9. b[d] \notin D
  <2> SUFFICES ASSUME b[d] \in D PROVE FALSE
    OBVIOUS
  <2>1. b[d] \in sons(p)
    BY <1>1, <1>3, <1>6
  <2>2. PICK z \in D : b[d] \in sons(z)
    BY <1>1, <1>7
  <2>3. z = p
    BY <1>1, <1>4, <2>1, <2>2
  <2> QED BY <1>1, <2>3
<1>10. h \notin D
  <2> SUFFICES ASSUME h \in D PROVE FALSE
    OBVIOUS
  <2>1. CASE s[h] = d
    <3>1. d \in sons(h)
      BY <1>3, <1>6, <2>1
    <3> QED BY <1>1, <1>4, <1>6, <3>1
  <2>2. CASE b[h] = d
    <3>1. h \in sons(p)
      BY <1>5, <1>6, <2>2
    <3>2. PICK z \in D : h \in sons(z)
      BY <1>1
    <3> QED BY <1>1, <1>4, <3>1, <3>2
  <2> QED BY <1>8, <2>1, <2>2
<1>11. ASSUME NEW x \in Q, s2[x] # 0 PROVE s2[x] \in Q
  <2> SUFFICES ASSUME s2[x] \in D PROVE FALSE
    BY <1>7, <1>11
  <2>1. s2[x] = s[x]
    BY <1>8, <1>9
  <2>2. PICK z \in D : s[x] \in sons(z)
    BY <1>1, <1>7, <2>1
  <2>3. s[x] \in sons(x)
    BY <1>3, <1>11, <2>1
  <2> QED BY <1>1, <1>4, <2>2, <2>3
<1>12. ASSUME NEW x \in Q, b2[x] # 0 PROVE b2[x] \in Q
  <2> SUFFICES ASSUME b2[x] \in D PROVE FALSE
    BY <1>7, <1>12
  <2>1. b2[x] = b[x]
    BY <1>8, <1>9
  <2>2. PICK z \in D : b[x] \in sons(z)
    BY <1>1, <1>7, <2>1
  <2>3. x \in sons(z)
    BY <1>1, <1>5, <2>2
  <2> QED BY <1>1, <2>3
<1>13. IsClosed(Q, {0}, Leads(R, s2, b2))
  BY <1>1, <1>2, <1>11, <1>12 DEF IsClosed, Leads
<1>14. ASSUME NEW S \in SUBSET Q, IsClosed(S, {0}, Leads(R, s2, b2))
       PROVE  S = Q
  <2>1. /\ 0 \in S
        /\ \A x \in S : s2[x] # 0 => s2[x] \in S
        /\ \A x \in S : b2[x] # 0 => b2[x] \in S
    BY <1>14 DEF IsClosed, Leads
  <2>2. ASSUME NEW T \in SUBSET R, 0 \in T,
               \A x \in T : s[x] # 0 => s[x] \in T,
               \A x \in T : b[x] # 0 => b[x] \in T
        PROVE  T = R
    <3>1. IsClosed(T, {0}, Leads(R, s, b))
      BY <2>2 DEF IsClosed, Leads
    <3> QED BY <3>1 DEF IsTree, IsLeast
  <2>3. h \in S
    <3> SUFFICES ASSUME h \notin S PROVE FALSE
      OBVIOUS
    <3>1. /\ \A x \in S : s[x] # 0 => s[x] \in S
          /\ \A x \in S : b[x] # 0 => b[x] \in S
      BY <1>8, <2>1
    <3>2. S = R
      BY <2>1, <2>2, <3>1
    <3> QED BY <3>2
  <2> DEFINE T == S \cup D
  <2>4. T \in SUBSET R /\ 0 \in T
    BY <1>1, <2>1
  <2>5. ASSUME NEW x \in T, s[x] # 0 PROVE s[x] \in T
    <3>1. CASE x \in D
      BY <1>1, <1>3, <2>5, <3>1
    <3>2. CASE x \notin D
      BY <1>1, <1>8, <2>1, <2>5, <3>2
    <3> QED BY <3>1, <3>2
  <2>6. b[d] # 0 => b[d] \in S
    BY <1>8, <2>1, <2>3
  <2>7. ASSUME NEW x \in T, b[x] # 0 PROVE b[x] \in T
    <3>1. CASE x = d
      BY <2>6, <2>7, <3>1
    <3>2. CASE x \in D \ {d}
      <4>1. PICK z \in D : x \in sons(z)
        BY <1>1, <3>2
      <4> QED BY <1>1, <1>3, <2>7, <4>1
    <3>3. CASE x \notin D
      BY <1>1, <1>8, <2>1, <2>7, <3>3
    <3> QED BY <3>1, <3>2, <3>3
  <2> HIDE DEF T
  <2>8. T = R
    BY <2>2, <2>4, <2>5, <2>7
  <2> QED BY <2>8 DEF T
<1> QED BY <1>13, <1>14 DEF IsLeast, D

\* s2 and b2 are the links once p's first son is the new document t.
Attached(R, s, b, p, t, s2, b2) ==
    /\ \A x \in R \ {p} : s2[x] = s[x]
    /\ \A x \in R : b2[x] = b[x]
    /\ s2[p] = t
    /\ s2[t] = 0
    /\ b2[t] = s[p]

\* The new document is reached, and every other list is what it was.
LEMMA AttachedTree ==
    ASSUME NEW R, NEW s, NEW b, IsLeast(R, {0}, Leads(R, s, b)),
           NEW p \in R, NEW t, t \notin R, NEW s2, NEW b2,
           Attached(R, s, b, p, t, s2, b2), NEW Q, Q = R \cup {t}
    PROVE  /\ IsLeast(Q, {0}, Leads(Q, s2, b2))
           /\ \A f \in R \cup {0} : ListFrom(Q, b2, f) = ListFrom(R, b, f)
           /\ ListFrom(Q, b2, t) = {t} \cup ListFrom(R, b, s[p])
<1>1. /\ 0 \in R
      /\ t # 0
      /\ \A x \in R : s[x] \in R \cup {0} /\ b[x] \in R \cup {0}
  BY DEF IsLeast, IsClosed, Leads
<1>2. /\ \A x \in R \ {p} : s2[x] = s[x]
      /\ \A x \in R : b2[x] = b[x]
      /\ s2[p] = t
      /\ s2[t] = 0
      /\ b2[t] = s[p]
  BY DEF Attached
<1>3. \A x \in Q : s2[x] \in Q \cup {0} /\ b2[x] \in Q \cup {0}
  BY <1>1, <1>2
<1>4. IsClosed(Q, {0}, Leads(Q, s2, b2))
  BY <1>1, <1>3 DEF IsClosed, Leads
<1>5. ASSUME NEW S \in SUBSET Q, IsClosed(S, {0}, Leads(Q, s2, b2))
      PROVE  S = Q
  <2>1. /\ 0 \in S
        /\ \A x \in S : s2[x] # 0 => s2[x] \in S
        /\ \A x \in S : b2[x] # 0 => b2[x] \in S
    BY <1>5 DEF IsClosed, Leads
  <2> DEFINE T == S \ {t}
  <2>2. ASSUME NEW x \in T, b[x] # 0 PROVE b[x] \in T
    BY <1>1, <1>2, <2>1, <2>2
  <2>3. ASSUME NEW x \in T, s[x] # 0 PROVE s[x] \in T
    <3>1. CASE x # p
      BY <1>1, <1>2, <2>1, <2>3, <3>1
    <3>2. CASE x = p
      <4>1. t \in S
        BY <1>1, <1>2, <2>1, <3>2
      <4> QED BY <1>1, <1>2, <2>1, <2>3, <3>2, <4>1
    <3> QED BY <3>1, <3>2
  <2>4. T \in SUBSET R /\ 0 \in T
    BY <1>1, <2>1
  <2>5. IsClosed(T, {0}, Leads(R, s, b))
    BY <2>2, <2>3, <2>4 DEF IsClosed, Leads
  <2>6. T = R
    BY <2>4, <2>5 DEF IsLeast
  <2>7. t \in S
    BY <1>1, <1>2, <2>1, <2>6
  <2> QED BY <2>6, <2>7
<1>6. IsLeast(Q, {0}, Leads(Q, s2, b2))
  BY <1>4, <1>5 DEF IsLeast
<1>7. ASSUME NEW f \in R \cup {0}
      PROVE  ListFrom(Q, b2, f) = ListFrom(R, b, f)
  <2> DEFINE next  == [x \in Q |-> {b2[x]} \ {0}]
             other == [x \in R |-> {b[x]} \ {0}]
             seed  == {f} \ {0}
  <2>1. R \in SUBSET Q
    OBVIOUS
  <2>2. \A x \in R : next[x] = other[x] /\ next[x] \subseteq R
    BY <1>1, <1>2
  <2>3. IsClosed(R, seed, next)
    BY <2>2 DEF IsClosed
  <2> HIDE DEF next, other, seed
  <2>4. Closure(Q, seed, next) = Closure(R, seed, other)
    BY <2>1, <2>2, <2>3, ClosureWithin
  <2> QED BY <2>4 DEF ListFrom, next, other, seed
<1>8. ListFrom(Q, b2, t) = {t} \cup ListFrom(Q, b2, b2[t])
  <2>1. \A x \in Q : {b2[x]} \ {0} \subseteq Q
    BY <1>3
  <2>2. t \in Q \ {0}
    BY <1>1
  <2> QED BY <2>1, <2>2, ListStep
<1>9. ListFrom(Q, b2, t) = {t} \cup ListFrom(R, b, s[p])
  BY <1>1, <1>2, <1>7, <1>8
<1> QED BY <1>6, <1>7, <1>9

-----------------------------------------------------------------------------
(* What the abstract tree sees of the store.                               *)

SeenSons == [d \in Reachable |-> Children(d)]
SeenElders == [d \in Reachable |-> Elders(d)]

\* The sons and the elders of the documents of a tree.
SonLists(R, s, b) == [x \in R |-> ListFrom(R, b, s[x])]
ElderLists(R, s, b) == [x \in R |-> ListFrom(R, b, b[x])]

\* next and along are the links as the search and the walk follow them.
Follows(R, s, b, next, along) ==
    \A x \in R : /\ next[x] = {s[x], b[x]} \ {0}
                 /\ along[x] = {b[x]} \ {0}

\* They lead to R and to the lists of brothers in R.
Finds(I, R, s, b, next, along) ==
    /\ Closure(I, {0}, next) = R
    /\ \A f \in R \cup {0} : Closure(I, {f} \ {0}, along) = ListFrom(R, b, f)
    /\ \A x \in R : s[x] \in R \cup {0} /\ b[x] \in R \cup {0}

\* A search in a table I around a tree finds the tree.
LEMMA SearchFindsTree ==
    ASSUME NEW I, NEW R \in SUBSET I, NEW s, NEW b,
           IsLeast(R, {0}, Leads(R, s, b)), NEW next, NEW along,
           Follows(R, s, b, next, along)
    PROVE  Finds(I, R, s, b, next, along)
<1> DEFINE other == Leads(R, s, b)
<1>1. /\ 0 \in R
      /\ \A x \in R : s[x] \in R \cup {0} /\ b[x] \in R \cup {0}
  BY DEF IsLeast, IsClosed, Leads
<1>2. \A x \in R : next[x] = other[x] /\ next[x] \subseteq R
  BY <1>1 DEF Leads, Follows
<1>3. IsClosed(R, {0}, next)
  BY <1>1, <1>2 DEF IsClosed
<1>4. Closure(I, {0}, next) = R
  <2> HIDE DEF other
  <2>1. Closure(I, {0}, next) = Closure(R, {0}, other)
    BY <1>2, <1>3, ClosureWithin
  <2>2. R \in SUBSET R
    OBVIOUS
  <2>3. IsClosed(R, {0}, other)
    BY DEF IsLeast, other
  <2>4. IsLeast(Closure(R, {0}, other), {0}, other)
    BY <2>2, <2>3, ClosureIsLeast
  <2>5. IsLeast(R, {0}, other)
    BY DEF other
  <2>6. Closure(R, {0}, other) = R
    BY <2>4, <2>5, LeastIsUnique
  <2> QED BY <2>1, <2>6
<1>5. ASSUME NEW f \in R \cup {0}
      PROVE  Closure(I, {f} \ {0}, along) = ListFrom(R, b, f)
  <2> DEFINE within == [x \in R |-> {b[x]} \ {0}]
             seed  == {f} \ {0}
  <2>1. \A x \in R : along[x] = within[x] /\ along[x] \subseteq R
    BY <1>1 DEF Follows
  <2>2. IsClosed(R, seed, along)
    BY <2>1 DEF IsClosed
  <2> HIDE DEF within, seed
  <2>3. Closure(I, seed, along) = Closure(R, seed, within)
    BY <2>1, <2>2, ClosureWithin
  <2> QED BY <2>3 DEF ListFrom, within, seed
<1> QED BY <1>1, <1>4, <1>5 DEF Finds

\* What the store's links lead to, when R is what they lead to from the root.
LEMMA TreeSeen ==
    ASSUME NEW R \in SUBSET Indexes, NEW s, NEW b,
           IsLeast(R, {0}, Leads(R, s, b)),
           \A x \in R : Son(x) = s[x] /\ Brother(x) = b[x]
    PROVE  /\ Reachable = R
           /\ SeenSons = SonLists(R, s, b)
           /\ SeenElders = ElderLists(R, s, b)
<1> DEFINE I == Indexes
           next == [x \in I |->
                      {block[x].indexSon, block[x].indexBrother} \ {0}]
           along == [x \in I |-> {block[x].indexBrother} \ {0}]
<1>1. \A x \in I :
         /\ next[x] = {block[x].indexSon, block[x].indexBrother} \ {0}
         /\ along[x] = {block[x].indexBrother} \ {0}
  OBVIOUS
<1>2. I = Indexes
  OBVIOUS
<1> HIDE DEF I, next, along
<1>3. Follows(R, s, b, next, along)
  BY <1>1, <1>2 DEF Son, Brother, Follows
<1>4. \A S \in SUBSET I :
         (\A x \in S :
             {block[x].indexSon, block[x].indexBrother} \ {0} \subseteq S)
            <=> (\A x \in S : next[x] \subseteq S)
  BY <1>1
<1>5. \A S \in SUBSET I :
         (\A x \in S : {block[x].indexBrother} \ {0} \subseteq S)
            <=> (\A x \in S : along[x] \subseteq S)
  BY <1>1
<1>6. Reachable = Closure(I, {0}, next)
  BY <1>2, <1>4 DEF Reachable, Closure
<1>7. \A f : BrothersFrom(f) = Closure(I, {f} \ {0}, along)
  BY <1>2, <1>5 DEF BrothersFrom, Closure
<1>8. R \in SUBSET I
  BY <1>2
<1>9. Finds(I, R, s, b, next, along)
  BY <1>3, <1>8, SearchFindsTree
<1>10. \A x \in R : /\ Children(x) = ListFrom(R, b, s[x])
                    /\ Elders(x) = ListFrom(R, b, b[x])
  BY <1>7, <1>9 DEF Finds, Children, Elders, Son, Brother
<1>11. Reachable = R
  BY <1>6, <1>9 DEF Finds
<1> QED BY <1>10, <1>11 DEF SeenSons, SeenElders, SonLists, ElderLists

\* The same of the next state.
LEMMA TreeSeenNext ==
    ASSUME NEW R \in SUBSET Indexes', NEW s, NEW b,
           IsLeast(R, {0}, Leads(R, s, b)),
           \A x \in R : Son(x)' = s[x] /\ Brother(x)' = b[x]
    PROVE  /\ Reachable' = R
           /\ SeenSons' = SonLists(R, s, b)
           /\ SeenElders' = ElderLists(R, s, b)
<1> DEFINE I == Indexes'
           next == [x \in I |->
                      {block'[x].indexSon, block'[x].indexBrother} \ {0}]
           along == [x \in I |-> {block'[x].indexBrother} \ {0}]
<1>1. \A x \in I :
         /\ next[x] = {block'[x].indexSon, block'[x].indexBrother} \ {0}
         /\ along[x] = {block'[x].indexBrother} \ {0}
  OBVIOUS
<1>2. I = Indexes'
  OBVIOUS
<1> HIDE DEF I, next, along
<1>3. Follows(R, s, b, next, along)
  BY <1>1, <1>2 DEF Son, Brother, Follows
<1>4. \A S \in SUBSET I :
         (\A x \in S :
             {block'[x].indexSon, block'[x].indexBrother} \ {0} \subseteq S)
            <=> (\A x \in S : next[x] \subseteq S)
  BY <1>1
<1>5. \A S \in SUBSET I :
         (\A x \in S : {block'[x].indexBrother} \ {0} \subseteq S)
            <=> (\A x \in S : along[x] \subseteq S)
  BY <1>1
<1>6. Reachable' = Closure(I, {0}, next)
  BY <1>2, <1>4 DEF Reachable, Closure
<1>7. \A f : BrothersFrom(f)' = Closure(I, {f} \ {0}, along)
  BY <1>2, <1>5 DEF BrothersFrom, Closure
<1>8. R \in SUBSET I
  BY <1>2
<1>9. Finds(I, R, s, b, next, along)
  BY <1>3, <1>8, SearchFindsTree
<1>10. \A x \in R : /\ Children(x)' = ListFrom(R, b, s[x])
                    /\ Elders(x)' = ListFrom(R, b, b[x])
  BY ZenonT(40), <1>7, <1>9 DEF Finds, Children, Elders, Son, Brother, BrothersFrom
<1>11. Reachable' = R
  BY <1>6, <1>9 DEF Finds
<1> QED BY <1>10, <1>11 DEF SeenSons, SeenElders, SonLists, ElderLists

\* A step that leaves the links in a closed set L of documents as they are
\* leaves the tree as it is.
LEMMA TreeUnmoved ==
    ASSUME NEW L \in SUBSET Indexes, L \subseteq Indexes', 0 \in L,
           \A d \in L : LinksOf(d) \subseteq L,
           \A d \in L : Son(d)' = Son(d) /\ Brother(d)' = Brother(d)
    PROVE  UNCHANGED <<SeenSons, SeenElders>>
<1>1. PICK s : s = [x \in L |-> Son(x)]
  OBVIOUS
<1>2. PICK b : b = [x \in L |-> Brother(x)]
  OBVIOUS
<1>3. PICK R : R = Closure(L, {0}, Leads(L, s, b))
  OBVIOUS
<1>4. \A x \in L : Son(x) = s[x] /\ Brother(x) = b[x]
  BY <1>1, <1>2
<1>5. \A x \in L : Son(x)' = s[x] /\ Brother(x)' = b[x]
  BY <1>4
<1>6. IsClosed(L, {0}, Leads(L, s, b))
  <2>1. \A x \in L : Leads(L, s, b)[x] = LinksOf(x)
    BY <1>4 DEF Leads, LinksOf
  <2> QED BY <2>1 DEF IsClosed
<1>7. L \in SUBSET L
  OBVIOUS
<1>8. IsLeast(R, {0}, Leads(L, s, b)) /\ R \subseteq L
  BY <1>3, <1>6, <1>7, ClosureIsLeast
<1>9. \A x \in R : Leads(L, s, b)[x] = Leads(R, s, b)[x]
  BY <1>8 DEF Leads
<1>10. IsLeast(R, {0}, Leads(R, s, b))
  BY <1>8, <1>9, LeastUnchanged
<1>11. /\ R \in SUBSET Indexes
       /\ R \in SUBSET Indexes'
       /\ \A x \in R : Son(x) = s[x] /\ Brother(x) = b[x]
       /\ \A x \in R : Son(x)' = s[x] /\ Brother(x)' = b[x]
  BY <1>4, <1>5, <1>8
<1>12. SeenSons = SonLists(R, s, b) /\ SeenElders = ElderLists(R, s, b)
  BY <1>10, <1>11, TreeSeen
<1>13. SeenSons' = SonLists(R, s, b) /\ SeenElders' = ElderLists(R, s, b)
  BY <1>10, <1>11, TreeSeenNext
<1> QED BY <1>12, <1>13

\* Every step but LinkSon and Unlink is invisible.
LEMMA OtherStepsAreInvisible ==
    ASSUME IInv, [Next]_vars, pc \notin {"linkSon", "unlink"}
    PROVE  UNCHANGED <<SeenSons, SeenElders>>
<1>1. TypeOK /\ SpaceInv /\ TreeFacts /\ RequestInv
  BY IInvUnfolded
<1>2. CASE pc \notin DocumentSteps
  <2>1. Quiet
    BY <1>2, OtherStepsAreQuiet
  <2>2. /\ 0 \in LiveDocuments
        /\ LiveDocuments \subseteq Indexes
        /\ \A d \in LiveDocuments : LinksOf(d) \subseteq LiveDocuments
    BY <1>1, <1>2, LiveIsClosed DEF DocumentSteps
  <2>3. PICK L : L = LiveDocuments
    OBVIOUS
  <2> QED BY <2>1, <2>2, <2>3, TreeUnmoved DEF Quiet
<1>3. CASE pc = "document"
  <2>1. CASE CreateDocument
    <3>1. UNCHANGED indexCount
      BY <2>1 DEF CreateDocument
    <3>2. \A d \in LiveDocuments : block'[d] = block[d]
      <4>1. PICK t \in Indexes \ LiveDocuments :
               \A i \in Indexes : i # t => block'[i] = block[i]
        BY <2>1, CreateDocumentTakesUnused
      <4> QED BY <4>1 DEF LiveDocuments
    <3>3. /\ 0 \in LiveDocuments
          /\ LiveDocuments \subseteq Indexes
          /\ \A d \in LiveDocuments : LinksOf(d) \subseteq LiveDocuments
      BY <1>1, <1>3, LiveIsClosed
    <3>4. PICK L : L = LiveDocuments
      OBVIOUS
    <3>5. /\ L \in SUBSET Indexes
          /\ L \subseteq Indexes'
          /\ \A d \in L : Son(d)' = Son(d) /\ Brother(d)' = Brother(d)
      BY <3>1, <3>2, <3>3, <3>4 DEF Indexes, Son, Brother
    <3> QED BY <3>3, <3>4, <3>5, TreeUnmoved
  <2>2. CASE UNCHANGED vars
    BY <2>2 DEF vars, SeenSons, SeenElders, Reachable, Children, Elders,
                BrothersFrom, Indexes
  <2> QED BY <1>3, <2>1, <2>2
          DEF Next, Request, Command, Execute, StartCreate, StartDelete,
              GrowText, GrowTextAborts, Finish, Open, ExpandIndexes,
              CreateToast, LinkSon, WalkSiblings, Unlink, DeleteTarget,
              DeleteDescendant, DeleteToast, LinkToast, LoadNode
<1>4. CASE pc \in {"del", "subtree"}
  <2>1. UNCHANGED <<indexCount, block>>
    BY <1>4
       DEF vars, Next, Request, Command, Execute, StartCreate, StartDelete,
           GrowText, GrowTextAborts, Finish, Open, ExpandIndexes,
           CreateToast, CreateDocument, LinkSon, WalkSiblings, Unlink,
           DeleteTarget, DeleteDescendant, DeleteToast, LinkToast, LoadNode
  <2> QED BY <2>1 DEF SeenSons, SeenElders, Reachable, Children, Elders,
                      BrothersFrom, Indexes
<1> QED BY <1>2, <1>3, <1>4 DEF DocumentSteps

-----------------------------------------------------------------------------
(* The two steps the abstract tree takes.                                  *)

\* DocTree's Add, as it changes the sons sn and the elders el.
SonsWith(sn, Q, p, t) ==
    [x \in Q |-> IF x = t THEN {} ELSE IF x = p THEN sn[p] \cup {t} ELSE sn[x]]

EldersWith(sn, el, Q, p, t) == [x \in Q |-> IF x = t THEN sn[p] ELSE el[x]]

\* DocTree's Remove likewise.
ListsWithout(lists, Q, d) == [x \in Q |-> lists[x] \ {d}]

LEMMA AttachedLists ==
    ASSUME NEW R, NEW s, NEW b, IsLeast(R, {0}, Leads(R, s, b)),
           NEW p \in R, NEW t, t \notin R, NEW s2, NEW b2,
           Attached(R, s, b, p, t, s2, b2), NEW Q, Q = R \cup {t}
    PROVE  /\ SonLists(Q, s2, b2) = SonsWith(SonLists(R, s, b), Q, p, t)
           /\ ElderLists(Q, s2, b2) =
                 EldersWith(SonLists(R, s, b), ElderLists(R, s, b), Q, p, t)
<1>1. /\ IsLeast(Q, {0}, Leads(Q, s2, b2))
      /\ \A f \in R \cup {0} : ListFrom(Q, b2, f) = ListFrom(R, b, f)
      /\ ListFrom(Q, b2, t) = {t} \cup ListFrom(R, b, s[p])
  BY AttachedTree, SMTT(30)
<1>2. /\ \A x \in R \ {p} : s2[x] = s[x]
      /\ \A x \in R : b2[x] = b[x]
      /\ s2[p] = t
      /\ s2[t] = 0
      /\ b2[t] = s[p]
  BY DEF Attached
<1>3. /\ 0 \in R
      /\ \A x \in R : s[x] \in R \cup {0} /\ b[x] \in R \cup {0}
  BY DEF IsLeast, IsClosed, Leads
<1>4. ListFrom(R, b, 0) = {}
  BY DEF ListFrom, Closure
<1>5. ASSUME NEW x \in R \ {p}
      PROVE  ListFrom(Q, b2, s2[x]) = ListFrom(R, b, s[x])
  BY <1>1, <1>2, <1>3
<1>6. ListFrom(Q, b2, s2[p]) = ListFrom(R, b, s[p]) \cup {t}
  BY <1>1, <1>2
<1>7. ListFrom(Q, b2, s2[t]) = {}
  BY <1>1, <1>2, <1>3, <1>4
<1>8. ASSUME NEW x \in R
      PROVE  ListFrom(Q, b2, b2[x]) = ListFrom(R, b, b[x])
  BY <1>1, <1>2, <1>3
<1>9. ListFrom(Q, b2, b2[t]) = ListFrom(R, b, s[p])
  BY <1>1, <1>2, <1>3
<1>10. SonLists(Q, s2, b2) = SonsWith(SonLists(R, s, b), Q, p, t)
  BY <1>5, <1>6, <1>7 DEF SonLists, SonsWith
<1>11. ElderLists(Q, s2, b2) =
          EldersWith(SonLists(R, s, b), ElderLists(R, s, b), Q, p, t)
  BY <1>8, <1>9 DEF SonLists, ElderLists, EldersWith
<1> QED BY <1>10, <1>11

LEMMA RelinkedLists ==
    ASSUME NEW R, NEW s, NEW b, IsTree(R, s, b), NEW p \in R,
           NEW d \in ListFrom(R, b, s[p]),
           NEW h \in R \ {d}, NEW s2, NEW b2, Relinked(R, s, b, d, h, s2, b2),
           NEW Q, Q = R \ SubtreeOf(R, s, b, d)
    PROVE  /\ SonLists(Q, s2, b2) = ListsWithout(SonLists(R, s, b), Q, d)
           /\ ElderLists(Q, s2, b2) = ListsWithout(ElderLists(R, s, b), Q, d)
<1>1. /\ SubtreeOf(R, s, b, d) \subseteq R \ {0, p}
      /\ d \in SubtreeOf(R, s, b, d)
  BY SubtreeProperties
<1>2. d \in R \ {0} /\ Q \in SUBSET R /\ d \notin Q
  BY <1>1
<1>3. IsLeast(Q, {0}, Leads(Q, s2, b2))
  <2>1. IsLeast(Q, {0}, Leads(R, s2, b2))
    BY RelinkedTree
  <2>2. \A x \in Q : Leads(R, s2, b2)[x] = Leads(Q, s2, b2)[x]
    BY <1>2 DEF Leads
  <2> QED BY <2>1, <2>2, LeastUnchanged
<1>4. \A x \in Q : s2[x] \in Q \cup {0} /\ b2[x] \in Q \cup {0}
  BY <1>3 DEF IsLeast, IsClosed, Leads
<1>5. ASSUME NEW f \in Q \cup {0}
      PROVE  ListFrom(Q, b2, f) = ListFrom(R, b2, f)
  <2> DEFINE next  == [x \in R |-> {b2[x]} \ {0}]
             other == [x \in Q |-> {b2[x]} \ {0}]
             seed  == {f} \ {0}
  <2>1. \A x \in Q : next[x] = other[x] /\ next[x] \subseteq Q
    BY <1>2, <1>4
  <2>2. IsClosed(Q, seed, next)
    BY <2>1 DEF IsClosed
  <2> HIDE DEF next, other, seed
  <2>3. Closure(R, seed, next) = Closure(Q, seed, other)
    BY <1>2, <2>1, <2>2, ClosureWithin
  <2> QED BY <2>3 DEF ListFrom, next, other, seed
<1>6. ASSUME NEW x \in Q
      PROVE  /\ ListFrom(Q, b2, s2[x]) = ListFrom(R, b, s[x]) \ {d}
             /\ ListFrom(Q, b2, b2[x]) = ListFrom(R, b, b[x]) \ {d}
  <2>1. /\ ListFrom(R, b2, s2[x]) = ListFrom(R, b, s[x]) \ {d}
        /\ ListFrom(R, b2, b2[x]) = ListFrom(R, b, b[x]) \ {d}
    BY <1>2, RelinkedSonsAndElders
  <2> QED BY <1>4, <1>5, <2>1
<1> QED BY <1>2, <1>6 DEF SonLists, ElderLists, ListsWithout

\* Where nothing is doomed and no link is stale, the links lead from the root
\* to all documents that are linked.
LEMMA LinkedIsLeast ==
    ASSUME NoDocumentCutOff, Doomed = {},
           NEW L \in SUBSET LiveDocuments, 0 \in L,
           \A d \in L : /\ LinksOf(d) \subseteq L
                        /\ LinkedFrom(d) = LinksOf(d)
                        /\ ~ (pc = "linkSon" /\ d = call.target),
           NEW s, NEW b, \A x \in L : s[x] = Son(x) /\ b[x] = Brother(x)
    PROVE  IsLeast(L, {0}, Leads(L, s, b))
<1>1. \A x \in L : Leads(L, s, b)[x] = LinksOf(x)
  BY DEF Leads, LinksOf
<1>2. IsClosed(L, {0}, Leads(L, s, b))
  BY <1>1 DEF IsClosed
<1>3. ASSUME NEW S \in SUBSET L, IsClosed(S, {0}, Leads(L, s, b))
      PROVE  S = L
  <2>1. 0 \in S /\ \A d \in S : LinkedFrom(d) \subseteq S
    BY <1>1, <1>3 DEF IsClosed
  <2>2. S \in SUBSET Indexes
    BY DEF LiveDocuments
  <2>3. \A d \in LiveDocuments :
           d \in S \/ (pc = "linkSon" /\ d = call.target)
    BY <2>1, <2>2 DEF NoDocumentCutOff
  <2> QED BY <2>3
<1> QED BY <1>2, <1>3 DEF IsLeast

\* createDocument links the new document: the parent has one son more.
LEMMA LinkSonAdds ==
    ASSUME IInv, WholeInv, LinkSon
    PROVE  Tree!Next
<1>1. /\ pc = "linkSon"
      /\ block' = [block EXCEPT ![call.parent] =
                      [call.header EXCEPT !.indexSon = call.target]]
      /\ UNCHANGED indexCount
  BY DEF LinkSon
<1>2. TypeOK /\ TreeFacts /\ RequestInv
  BY IInvUnfolded
<1>3. /\ call.parent \in LiveDocuments
      /\ call.target \in LiveDocuments \ {0, call.parent}
      /\ call.header = block[call.parent]
      /\ block \in [Indexes -> Block]
      /\ LiveDocuments \subseteq Indexes
      /\ 0 \in LiveDocuments
      /\ Indexes' = Indexes
  BY <1>1, <1>2 DEF TypeOK, RequestInv, CreateKeepsTrack, LiveDocuments,
                    TreeFacts, RootIsAlive, Indexes
<1>4. PICK p \in LiveDocuments : p = call.parent
  BY <1>3
<1>5. PICK t \in LiveDocuments \ {0, p} : t = call.target
  BY <1>3, <1>4
<1>6. PICK R : R = LiveDocuments \ {t}
  OBVIOUS
<1>7. PICK Q : Q = R \cup {t}
  OBVIOUS
<1>8. PICK s : s = [x \in Q |-> Son(x)]
  OBVIOUS
<1>9. PICK b : b = [x \in Q |-> Brother(x)]
  OBVIOUS
<1>10. PICK s2 : s2 = [x \in Q |-> block'[x].indexSon]
  OBVIOUS
<1>11. PICK b2 : b2 = [x \in Q |-> block'[x].indexBrother]
  OBVIOUS
<1>12. /\ Son(t) = 0
       /\ Brother(t) = Son(p)
  BY <1>1, <1>4, <1>5 DEF WholeInv, NewDocumentComesFirst, Son, Brother
<1>13. \A d \in R : LinksOf(d) \subseteq R
  <2>1. \A d \in LiveDocuments :
           Brother(d) # 0 => Brother(d) \in LiveDocuments \ {t}
    BY <1>1, <1>2, <1>5 DEF TreeFacts, LinksNameLinkable, BrotherHolders,
                            StaleBrothers, Linkable, Unlinked
  <2>2. \A d \in LiveDocuments \ {p} :
           Son(d) # 0 => Son(d) \in LiveDocuments \ {t}
    BY <1>1, <1>2, <1>4, <1>5 DEF TreeFacts, LinksNameLinkable, SonHolders,
                                  StaleSons, Linkable, Unlinked
  <2>3. Son(p) # 0 => Son(p) \in LiveDocuments \ {t}
    BY <1>12, <2>1
  <2> QED BY <1>6, <2>1, <2>2, <2>3 DEF LinksOf
<1>14. \A d \in R : LinkedFrom(d) = LinksOf(d)
  BY <1>1 DEF LinkedFrom, LinksOf, Son, Brother, StaleBrothers
<1>15. \A x \in R : s[x] = Son(x) /\ b[x] = Brother(x)
  BY <1>7, <1>8, <1>9
<1>16. IsLeast(R, {0}, Leads(R, s, b))
  <2>1. /\ NoDocumentCutOff
        /\ Doomed = {}
        /\ R \in SUBSET LiveDocuments
        /\ 0 \in R
        /\ \A d \in R : ~ (pc = "linkSon" /\ d = call.target)
    BY <1>1, <1>3, <1>5, <1>6 DEF WholeInv, Doomed
  <2> QED BY <1>13, <1>14, <1>15, <2>1, LinkedIsLeast
<1>17. Attached(R, s, b, p, t, s2, b2)
  <2>1. /\ \A x \in R \ {p} : block'[x] = block[x]
        /\ block'[t] = block[t]
        /\ block'[p].indexSon = t
        /\ block'[p].indexBrother = Brother(p)
    BY <1>1, <1>3, <1>4, <1>5, <1>6 DEF Block, Brother
  <2> QED BY <1>4, <1>5, <1>6, <1>7, <1>8, <1>9, <1>10, <1>11, <1>12, <2>1
          DEF Attached, Son, Brother
<1>18. p \in R /\ t \notin R
  BY <1>4, <1>5, <1>6
<1>19. /\ Reachable = R
       /\ SeenSons = SonLists(R, s, b)
       /\ SeenElders = ElderLists(R, s, b)
  <2>1. R \in SUBSET Indexes /\ \A x \in R : Son(x) = s[x] /\ Brother(x) = b[x]
    BY <1>3, <1>6, <1>15
  <2> QED BY <1>16, <2>1, TreeSeen
<1>20. /\ Reachable' = Q
       /\ SeenSons' = SonLists(Q, s2, b2)
       /\ SeenElders' = ElderLists(Q, s2, b2)
  <2>1. /\ Q \in SUBSET Indexes'
        /\ \A x \in Q : Son(x)' = s2[x] /\ Brother(x)' = b2[x]
    BY <1>3, <1>5, <1>6, <1>7, <1>10, <1>11 DEF Son, Brother
  <2>2. IsLeast(Q, {0}, Leads(Q, s2, b2))
    BY <1>7, <1>16, <1>17, <1>18, AttachedTree
  <2> QED BY <2>1, <2>2, TreeSeenNext
<1>21. /\ SeenSons' = SonsWith(SeenSons, Q, p, t)
       /\ SeenElders' = EldersWith(SeenSons, SeenElders, Q, p, t)
  <2>1. /\ SonLists(Q, s2, b2) = SonsWith(SonLists(R, s, b), Q, p, t)
        /\ ElderLists(Q, s2, b2) =
              EldersWith(SonLists(R, s, b), ElderLists(R, s, b), Q, p, t)
    BY <1>7, <1>16, <1>17, <1>18, AttachedLists
  <2> QED BY <1>19, <1>20, <2>1
<1>22. /\ DOMAIN SeenSons = R
       /\ DOMAIN SeenSons' = Q
  BY <1>19, <1>20 DEF SonLists
<1>23. Tree!Add(p, t)
  BY <1>7, <1>18, <1>21, <1>22
     DEF Tree!Add, Tree!documents, SeenSons, SeenElders, SonsWith, EldersWith
<1>24. t \in Tree!documents' \ Tree!documents /\ p \in Tree!documents
  BY <1>7, <1>18, <1>22 DEF Tree!documents, SeenSons
<1> QED BY <1>23, <1>24 DEF Tree!Next

\* deleteDocument unlinks the target: its subtree is gone at once.
LEMMA UnlinkRemoves ==
    ASSUME IInv, WholeInv, Unlink
    PROVE  Tree!Next
<1>1. /\ pc = "unlink"
      /\ UNCHANGED indexCount
  BY DEF Unlink
<1>2. TypeOK /\ TreeFacts /\ RequestInv
  BY IInvUnfolded
<1>3. /\ 0 \in LiveDocuments
      /\ LiveDocuments \subseteq Indexes
      /\ \A d \in LiveDocuments : LinksOf(d) \subseteq LiveDocuments
      /\ \A d \in LiveDocuments : LinkedFrom(d) = LinksOf(d)
      /\ Indexes' = Indexes
  BY <1>1, <1>2, LiveIsClosed DEF Indexes
<1>4. PICK R : R = LiveDocuments
  OBVIOUS
<1>5. PICK d : d = call.target
  OBVIOUS
<1>6. PICK p : p = call.parent
  OBVIOUS
<1>7. PICK s : s = [x \in R |-> Son(x)]
  OBVIOUS
<1>8. PICK b : b = [x \in R |-> Brother(x)]
  OBVIOUS
<1>9. PICK s2 : s2 = [x \in R |-> block'[x].indexSon]
  OBVIOUS
<1>10. PICK b2 : b2 = [x \in R |-> block'[x].indexBrother]
  OBVIOUS
<1>11. \A x \in R : s[x] = Son(x) /\ b[x] = Brother(x)
  BY <1>7, <1>8
<1>12. IsLeast(R, {0}, Leads(R, s, b))
  <2>1. /\ NoDocumentCutOff
        /\ Doomed = {}
        /\ R \in SUBSET LiveDocuments
        /\ 0 \in R
        /\ \A x \in R : /\ LinksOf(x) \subseteq R
                        /\ LinkedFrom(x) = LinksOf(x)
                        /\ ~ (pc = "linkSon" /\ x = call.target)
    BY <1>1, <1>3, <1>4 DEF WholeInv, Doomed
  <2> QED BY <1>11, <2>1, LinkedIsLeast
<1>13. IsTree(R, s, b)
  <2>1. \A x, y \in R : /\ Son(x) = Son(y) /\ Son(x) # 0 => x = y
                        /\ Brother(x) = Brother(y) /\ Brother(x) # 0 => x = y
                        /\ Son(x) # 0 => Son(x) # Brother(y)
    BY <1>1, <1>2, <1>4
       DEF TreeFacts, LinksDiffer, SonHolders, BrotherHolders, StaleSons,
           StaleBrothers
  <2> QED BY <1>11, <1>12, <2>1 DEF IsTree
<1>14. /\ Reachable = R
       /\ SeenSons = SonLists(R, s, b)
       /\ SeenElders = ElderLists(R, s, b)
  <2>1. R \in SUBSET Indexes /\ \A x \in R : Son(x) = s[x] /\ Brother(x) = b[x]
    BY <1>3, <1>4, <1>11
  <2> QED BY <1>12, <2>1, TreeSeen
<1>15. p \in R /\ d \in SeenSons[p] /\ d \in ListFrom(R, b, s[p])
  <2>1. p \in Reachable /\ d \in Children(p)
    BY <1>1, <1>5, <1>6 DEF WholeInv, TargetIsChild
  <2> QED BY <1>14, <2>1 DEF SeenSons, SonLists
<1>16. PICK h \in R \ {d} : Relinked(R, s, b, d, h, s2, b2)
  <2>1. PICK h \in R \ {d} :
           /\ \/ /\ Son(h) = d
                 /\ block'[h].indexSon = Brother(d)
                 /\ block'[h].indexBrother = Brother(h)
              \/ /\ Brother(h) = d
                 /\ block'[h].indexBrother = Brother(d)
                 /\ block'[h].indexSon = Son(h)
           /\ \A x \in Indexes \ {h} : block'[x] = block[x]
    BY <1>4, <1>5, UnlinkMovesOneLink
  <2>2. d \in R
    BY <1>4, <1>5, UnlinkMovesOneLink
  <2>3. \A x \in R \ {h} : block'[x] = block[x]
    BY <1>3, <1>4, <2>1
  <2>4. Relinked(R, s, b, d, h, s2, b2)
    BY <1>9, <1>10, <1>11, <2>1, <2>2, <2>3 DEF Relinked, Son, Brother
  <2> QED BY <2>4
<1>17. PICK Q : Q = R \ SubtreeOf(R, s, b, d)
  OBVIOUS
<1>18. IsLeast(Q, {0}, Leads(Q, s2, b2)) /\ Q \subseteq R
  <2>1. IsLeast(Q, {0}, Leads(R, s2, b2))
    BY <1>13, <1>15, <1>16, <1>17, RelinkedTree
  <2>2. Q \subseteq R
    BY <1>17
  <2>3. \A x \in Q : Leads(R, s2, b2)[x] = Leads(Q, s2, b2)[x]
    BY <2>2 DEF Leads
  <2> QED BY <2>1, <2>2, <2>3, LeastUnchanged
<1>19. /\ Reachable' = Q
       /\ SeenSons' = SonLists(Q, s2, b2)
       /\ SeenElders' = ElderLists(Q, s2, b2)
  <2>1. /\ Q \in SUBSET Indexes'
        /\ \A x \in Q : Son(x)' = s2[x] /\ Brother(x)' = b2[x]
    BY <1>3, <1>4, <1>9, <1>10, <1>18 DEF Son, Brother
  <2> QED BY <1>18, <2>1, TreeSeenNext
<1>20. /\ SeenSons' = ListsWithout(SeenSons, Q, d)
       /\ SeenElders' = ListsWithout(SeenElders, Q, d)
  <2>1. /\ SonLists(Q, s2, b2) = ListsWithout(SonLists(R, s, b), Q, d)
        /\ ElderLists(Q, s2, b2) = ListsWithout(ElderLists(R, s, b), Q, d)
    BY <1>13, <1>15, <1>16, <1>17, RelinkedLists
  <2> QED BY <1>14, <1>19, <2>1
<1>21. DOMAIN SeenSons = R
  BY <1>14 DEF SonLists
<1>22. Tree!Subtree(d) = SubtreeOf(R, s, b, d)
  <2>1. SeenSons = [x \in R |-> ListFrom(R, b, s[x])]
    BY <1>14 DEF SonLists
  <2>2. SubtreeOf(R, s, b, d) = Closure(R, {d}, SeenSons)
    BY <2>1 DEF SubtreeOf
  <2> QED BY <1>21, <2>2 DEF Tree!Subtree, Tree!documents, Closure, SeenSons
<1>23. Tree!Remove(p, d)
  BY <1>15, <1>17, <1>20, <1>21, <1>22
     DEF Tree!Remove, Tree!documents, SeenSons, SeenElders, ListsWithout
<1>24. p \in Tree!documents
  BY <1>15, <1>21 DEF Tree!documents, SeenSons
<1>25. DOMAIN SeenSons' = Q
  BY <1>19 DEF SonLists
<1>26. d \in R /\ d \notin Q
  BY <1>13, <1>15, <1>17, SubtreeProperties
<1>27. d \in Tree!documents \ Tree!documents'
  BY <1>21, <1>25, <1>26 DEF Tree!documents, SeenSons
<1> QED BY <1>23, <1>24, <1>27 DEF Tree!Next

\* A fresh file has the root and nothing else.
LEMMA InitIsATree == Init => Tree!Init
<1> SUFFICES ASSUME Init PROVE Tree!Init
  OBVIOUS
<1>1. PICK s : s = [x \in {0} |-> 0]
  OBVIOUS
<1>2. /\ 0 \in Indexes
      /\ block[0].indexSon = 0
      /\ block[0].indexBrother = 0
  BY ConstantsAssumption DEF Init, Indexes, DocumentBlock, NoBlock
<1>3. IsLeast({0}, {0}, Leads({0}, s, s))
  BY <1>1 DEF IsLeast, IsClosed, Leads
<1>4. {0} \in SUBSET Indexes
  BY <1>2
<1>5. \A x \in {0} : Son(x) = s[x] /\ Brother(x) = s[x]
  BY <1>1, <1>2 DEF Son, Brother
<1>6. /\ SeenSons = SonLists({0}, s, s)
      /\ SeenElders = ElderLists({0}, s, s)
  BY <1>3, <1>4, <1>5, TreeSeen
<1>7. ListFrom({0}, s, 0) = {}
  BY DEF ListFrom, Closure
<1>8. SonLists({0}, s, s) = [x \in {0} |-> {}]
  BY <1>1, <1>7 DEF SonLists
<1>9. ElderLists({0}, s, s) = [x \in {0} |-> {}]
  BY <1>1, <1>7 DEF ElderLists
<1> QED BY <1>6, <1>8, <1>9 DEF Tree!Init, SeenSons, SeenElders

\* Every step of the core is a step of the tree or leaves it alone.
LEMMA StepsFollowTheTree ==
    IInv /\ WholeInv /\ [Next]_vars => [Tree!Next]_(Tree!tree)
<1> SUFFICES ASSUME IInv, WholeInv, [Next]_vars
             PROVE  [Tree!Next]_(Tree!tree)
  OBVIOUS
<1>1. CASE pc \notin {"linkSon", "unlink"}
  <2>1. UNCHANGED <<SeenSons, SeenElders>>
    BY <1>1, OtherStepsAreInvisible
  <2> QED BY <2>1 DEF Tree!tree, SeenSons, SeenElders
<1>2. CASE LinkSon
  BY <1>2, LinkSonAdds
<1>3. CASE Unlink
  BY <1>3, UnlinkRemoves
<1>4. CASE UNCHANGED vars
  BY <1>4 DEF vars, Tree!tree, Reachable, Children, Elders, BrothersFrom,
              Indexes
<1> QED BY <1>1, <1>2, <1>3, <1>4
        DEF Next, Request, Command, Execute, StartCreate, StartDelete,
            GrowText, GrowTextAborts, Finish, Open, ExpandIndexes,
            CreateToast, CreateDocument, WalkSiblings, DeleteTarget,
            DeleteDescendant, DeleteToast, LinkToast, LoadNode

\* The storage core (createDocument, deleteDocument, updateElement and the
\* sessions of init and finish) implements the document tree: what its links
\* lead to changes by whole documents and whole subtrees only.
THEOREM StoreImplementsTree == Spec => ImplementsTree
<1>1. Init => Tree!Init
  BY InitIsATree
<1>2. IInv /\ WholeInv /\ [Next]_vars => [Tree!Next]_(Tree!tree)
  BY StepsFollowTheTree
<1> QED BY <1>1, <1>2, InductiveInvariant, WholeInvariant, PTL
        DEF Spec, ImplementsTree, Tree!Spec

-----------------------------------------------------------------------------
(* The layout of the file. *)

LEMMA ProductIsNat == \A a, b \in Nat : a * b \in Nat
OBVIOUS

LEMMA DivMod ==
    ASSUME NEW a \in Nat, NEW b \in Nat \ {0}
    PROVE  /\ a \div b \in Nat
           /\ a % b \in 0 .. b - 1
           /\ a = (a \div b) * b + (a % b)
<1>1. a \div b \in Int /\ a % b \in 0 .. b - 1 /\ a = (a \div b) * b + (a % b)
  OBVIOUS
<1>2. a \div b >= 0
  BY <1>1
<1> QED BY <1>1, <1>2

\* A new block at the end of the file.
LEMMA TilesAppended ==
    ASSUME NEW owners, NEW place, NEW capacity, NEW first \in Nat, NEW end \in Nat,
           NEW place2, NEW capacity2, NEW t,
           \A i \in owners : place[i] \in Nat /\ capacity[i] \in Nat,
           first <= end,
           Tiles(owners, place, capacity, first, end),
           t \notin owners, place2[t] = end, capacity2[t] \in Nat,
           \A i \in owners : place2[i] = place[i] /\ capacity2[i] = capacity[i]
    PROVE  Tiles(owners \cup {t}, place2, capacity2, first, end + capacity2[t])
<1>1. \A i \in owners \cup {t} :
         first <= place2[i] /\ place2[i] + capacity2[i] <= end + capacity2[t]
  BY DEF Tiles
<1>2. \A i, j \in owners \cup {t} :
         i # j => \/ place2[i] + capacity2[i] <= place2[j]
                  \/ place2[j] + capacity2[j] <= place2[i]
  BY DEF Tiles
<1>3. ASSUME NEW b \in first .. end + capacity2[t] - 1
      PROVE  \E i \in owners \cup {t} :
                place2[i] <= b /\ b < place2[i] + capacity2[i]
  <2>1. CASE b < end
    <3>1. PICK i \in owners : place[i] <= b /\ b < place[i] + capacity[i]
      BY <2>1 DEF Tiles
    <3> QED BY <3>1
  <2>2. CASE b >= end
    BY <2>2
  <2> QED BY <2>1, <2>2
<1> QED BY <1>1, <1>2, <1>3 DEF Tiles

\* The first block, copied to the end of the file.
LEMMA TilesMoved ==
    ASSUME NEW owners, NEW place, NEW capacity, NEW first \in Nat, NEW end \in Nat,
           NEW place2, NEW t \in owners,
           \A i \in owners : place[i] \in Nat /\ capacity[i] \in Nat \ {0},
           Tiles(owners, place, capacity, first, end),
           place[t] = first, place2[t] = end,
           \A i \in owners : i # t => place2[i] = place[i]
    PROVE  Tiles(owners, place2, capacity, first + capacity[t], end + capacity[t])
<1>1. \A i \in owners : i # t => first + capacity[t] <= place[i]
  BY DEF Tiles
<1>2. end >= first + capacity[t]
  BY DEF Tiles
<1>3. \A i \in owners :
         /\ first + capacity[t] <= place2[i]
         /\ place2[i] + capacity[i] <= end + capacity[t]
  BY <1>1, <1>2 DEF Tiles
<1>4. \A i, j \in owners :
         i # j => \/ place2[i] + capacity[i] <= place2[j]
                  \/ place2[j] + capacity[j] <= place2[i]
  BY DEF Tiles
<1>5. ASSUME NEW b \in first + capacity[t] .. end + capacity[t] - 1
      PROVE  \E i \in owners : place2[i] <= b /\ b < place2[i] + capacity[i]
  <2>1. CASE b < end
    <3>1. PICK i \in owners : place[i] <= b /\ b < place[i] + capacity[i]
      BY <2>1 DEF Tiles
    <3>2. i # t
      BY <3>1
    <3> QED BY <3>1, <3>2
  <2>2. CASE b >= end
    BY <2>2
  <2> QED BY <2>1, <2>2
<1> QED BY <1>3, <1>4, <1>5 DEF Tiles

\* Tiles depends on the places and capacities of the owners only.
LEMMA TilesUnchanged ==
    ASSUME NEW owners, NEW place, NEW capacity, NEW first, NEW end,
           NEW place2, NEW capacity2,
           Tiles(owners, place, capacity, first, end),
           \A i \in owners : place2[i] = place[i] /\ capacity2[i] = capacity[i]
    PROVE  Tiles(owners, place2, capacity2, first, end)
BY DEF Tiles

-----------------------------------------------------------------------------
\* A step of the core attaches one index at most, and none becomes new.
LEMMA OneIndexAtMost ==
    ASSUME IInv, Next, pc # "expand"
    PROVE  /\ indexCount' = indexCount
           /\ \E t : \A i \in Indexes :
                 /\ i # t => flag'[i] = flag[i]
                 /\ \/ flag'[i] = flag[i]
                    \/ flag'[i] = "ALIVE"
                    \/ flag'[i] = "DEAD" /\ flag[i] = "ALIVE"
<1>1. flag \in [Indexes -> Flags]
  BY DEF IInv, TypeOK
<1> DEFINE OneChanged ==
              \E t : \A i \in Indexes :
                 /\ i # t => flag'[i] = flag[i]
                 /\ \/ flag'[i] = flag[i]
                    \/ flag'[i] = "ALIVE"
                    \/ flag'[i] = "DEAD" /\ flag[i] = "ALIVE"
<1>2. ASSUME UNCHANGED flag PROVE OneChanged
  BY <1>2
<1>3. ASSUME NEW reqSize, NEW header, Attach(reqSize, header)
      PROVE  OneChanged
  BY <1>1, <1>3 DEF Attach
<1>4. ASSUME NEW x, NEW freed, Free(x, freed)
      PROVE  OneChanged
  BY <1>1, <1>4 DEF Free
<1> HIDE DEF OneChanged
<1>5. ASSUME NEW n \in ExpandCounts, ExpandIndexes(n) PROVE FALSE
  BY <1>5 DEF ExpandIndexes
<1>6. indexCount' = indexCount
  BY <1>5 DEF Next, Request, Command, Execute, StartCreate, StartDelete, GrowText,
     GrowTextAborts, Finish, Open, CreateToast, CreateDocument, LinkSon,
     WalkSiblings, Unlink, DeleteTarget, DeleteDescendant, DeleteToast,
     LinkToast, LoadNode, file
<1>7. ASSUME \/ CreateToast \/ CreateDocument
             \/ \E d \in Reachable, extra \in GrowSizes : GrowText(d, extra)
      PROVE  OneChanged
  <2>1. PICK reqSize, header : Attach(reqSize, header)
    BY ONLY <1>7 DEF CreateToast, CreateDocument, GrowText
  <2> QED BY ONLY <2>1, <1>3
<1>8. ASSUME DeleteTarget \/ DeleteDescendant \/ DeleteToast
      PROVE  UNCHANGED flag \/ \E x, freed : Free(x, freed)
  BY ONLY <1>8 DEF DeleteTarget, DeleteDescendant, DeleteToast
<1>9. ASSUME Finish \/ Open \/ LinkSon \/ WalkSiblings \/ Unlink \/ LinkToast
             \/ LoadNode
      PROVE  UNCHANGED flag
  BY ONLY <1>9 DEF Finish, Open, LinkSon, WalkSiblings, Unlink, LinkToast,
     LoadNode, file
<1>10. ASSUME NEW p, NEW d, NEW docSize, NEW toastSize, NEW extra,
              \/ StartCreate(p, docSize, toastSize) \/ StartDelete(p, d)
              \/ GrowTextAborts(d, extra)
       PROVE  UNCHANGED flag
  BY ONLY <1>10 DEF StartCreate, StartDelete, GrowTextAborts, file
<1>11. OneChanged
  BY ONLY <1>2, <1>4, <1>5, <1>7, <1>8, <1>9, <1>10, Next
  DEF Next, Request, Command, Execute
<1> QED BY <1>6, <1>11 DEF OneChanged

-----------------------------------------------------------------------------
LEMMA LayoutInitIsLayoutInv == LayoutInit => LayoutInv
<1> SUFFICES ASSUME LayoutInit PROVE LayoutInv
  OBVIOUS
<1> USE ConstantsAssumption, LayoutAssumption
<1> DEFINE count == INDEX_INITIAL_CAPACITY
           start == HEADER_SIZE + count * INDEX_SIZE
<1>1. IInv /\ TypeOK
  BY InitIsIInv DEF LayoutInit, IInv
<1>2. /\ indexCount = count /\ Indexes = 0 .. count - 1
      /\ pc = "idle"
      /\ flag = [i \in Indexes |-> IF i = 0 THEN "ALIVE" ELSE "NEW"]
      /\ block[0].capacity = 1
  BY DEF LayoutInit, Init, Indexes, DocumentBlock, NoBlock
<1>3. start \in Nat /\ fileSize = start + 1 /\ TableEnd = start
  BY <1>2 DEF LayoutInit, TableEnd
<1>4. /\ offset = [i \in Indexes |-> IF i = 0 THEN start ELSE 0]
      /\ size = [i \in Indexes |-> IF i = 0 THEN 1 ELSE 0]
      /\ betweenSpace = 0 /\ nextBlock = 0 /\ freeSize = 0
      /\ cleared = {} /\ tight = TRUE
  BY <1>2, <1>3 DEF LayoutInit
<1> HIDE DEF start
<1>5. LayoutTypeOK
  BY <1>3, <1>4 DEF LayoutTypeOK
<1>6. Owners = {0} /\ 0 \in Indexes
  BY <1>2 DEF Owners
<1>7. Capacities[0] = 1 /\ offset[0] = start /\ BlocksFrom = start
  BY <1>2, <1>3, <1>4, <1>6 DEF Capacities, BlocksFrom
<1>8. Tiles({0}, offset, Capacities, start, start + 1)
  BY <1>3, <1>7 DEF Tiles
<1> QED
  BY <1>1, <1>2, <1>3, <1>5, <1>6, <1>7, <1>8
  DEF LayoutInv, WalkKeepsTrack, BlocksTileTheFile

\* Any step but the expansion.
LEMMA StepKeepsLayoutInv ==
    ASSUME LayoutInv, Step
    PROVE  LayoutInv'
<1> USE ConstantsAssumption, LayoutAssumption
<1>1. /\ IInv /\ TypeOK /\ SpaceInv /\ LayoutTypeOK
      /\ pc # "expand" /\ Next /\ Place
  BY DEF LayoutInv, IInv, Step
<1>2. IInv' /\ TypeOK' /\ CapacitiesKept
  BY <1>1, NextKeepsIInv, NextKeepsBlocks DEF IInv
<1>3. /\ indexCount' = indexCount /\ Indexes' = Indexes
      /\ indexCount \in Nat /\ TableEnd' = TableEnd /\ TableEnd \in Nat
  BY SMTT(30), <1>1, OneIndexAtMost DEF Indexes, TypeOK, TableEnd
<1>4. PICK t : \A i \in Indexes :
                 /\ i # t => flag'[i] = flag[i]
                 /\ \/ flag'[i] = flag[i]
                    \/ flag'[i] = "ALIVE"
                    \/ flag'[i] = "DEAD" /\ flag[i] = "ALIVE"
  BY <1>1, OneIndexAtMost
<1>5. /\ Placed \subseteq Indexes /\ Appended \subseteq {t} \cap Indexes
      /\ Owners' = Owners \cup Appended
      /\ Appended \cap Owners = {} /\ Owners \subseteq Indexes
  BY <1>3, <1>4 DEF Placed, Appended, Owners
<1>6. \A i \in Indexes : block'[i].capacity \in Nat /\ block[i].capacity \in Nat
  BY <1>1, <1>2, <1>3 DEF TypeOK, Block
<1>7. \/ Appended = {} /\ fileSize' = fileSize
      \/ Appended = {t} /\ fileSize' = fileSize + block'[t].capacity
  <2>1. CASE Appended = {}
    BY <1>1, <2>1 DEF Place, Grown
  <2>2. CASE Appended = {t}
    <3>1. Grown = {fileSize + block'[t].capacity}
      BY <2>2 DEF Grown
    <3> QED BY <1>1, <2>2, <3>1 DEF Place
  <2> QED BY <1>5, <2>1, <2>2
<1>8. fileSize' \in Nat /\ fileSize \in Nat
  BY <1>1, <1>5, <1>6, <1>7 DEF LayoutTypeOK
<1>9. LayoutTypeOK'
  <2>1. offset' \in [Indexes -> Nat]
    BY <1>1 DEF Place, LayoutTypeOK
  <2>2. size' \in [Indexes -> Nat]
    <3>1. call.docSize \in Nat
      BY <1>1 DEF TypeOK, Call
    <3>2. \A i \in Indexes : SizeOf(i) \in Nat
      BY <1>6, <3>1 DEF SizeOf
    <3> QED BY <1>1, <3>2 DEF Place, LayoutTypeOK
  <2>3. cleared' \in SUBSET Indexes
    BY <1>1, <1>5 DEF Place, LayoutTypeOK, Behind
  <2>4. nextBlock' \in Nat /\ freeSize' \in Nat
    BY <1>1, <1>3 DEF Step, LayoutTypeOK
  <2> QED BY <1>1, <1>3, <1>8, <2>1, <2>2, <2>3, <2>4 DEF Place, LayoutTypeOK
<1>10. /\ BlocksFrom' = TableEnd + betweenSpace
       /\ BlocksFrom = TableEnd + betweenSpace
       /\ betweenSpace \in Nat
       /\ WalkKeepsTrack'
  BY <1>1, <1>3 DEF Step, BlocksFrom, WalkKeepsTrack, Place, LayoutTypeOK
<1>11. BlocksTileTheFile'
  <2> SUFFICES ASSUME tight'
               PROVE  Tiles(Owners', offset', Capacities', BlocksFrom', fileSize')
    BY DEF BlocksTileTheFile
  <2>1. Tiles(Owners, offset, Capacities, BlocksFrom, fileSize)
    BY <1>1 DEF Place, LayoutInv, BlocksTileTheFile
  <2>2. \A i \in Owners : /\ offset'[i] = offset[i]
                          /\ Capacities'[i] = Capacities[i]
    BY <1>1, <1>2, <1>3, <1>5
    DEF Place, Capacities, CapacitiesKept, Owners, Appended
  <2>3. CASE Appended = {}
    BY ONLY <1>5, <1>7, <1>8, <1>10, <2>1, <2>2, <2>3, TilesUnchanged
  <2>4. CASE Appended = {t} /\ fileSize' = fileSize + block'[t].capacity
    <3>1. t \in Indexes /\ t \notin Owners
      BY ONLY <1>5, <2>4
    <3>2. offset'[t] = fileSize /\ Capacities'[t] = block'[t].capacity
      BY <1>1, <1>3, <2>4, <3>1 DEF Place, Capacities
    <3>3. \A i \in Owners : offset[i] \in Nat /\ Capacities[i] \in Nat
      BY <1>1, <1>5, <1>6 DEF LayoutTypeOK, Capacities
    <3>4. BlocksFrom \in Nat /\ BlocksFrom <= fileSize
      <4>1. 0 \in Owners
        BY <1>1 DEF IInv, TreeInv, RootIsAlive, LiveDocuments, Owners
      <4> QED BY <1>3, <1>8, <1>10, <2>1, <3>3, <4>1 DEF Tiles
    <3>5. Capacities'[t] \in Nat
      BY <1>6, <3>1, <3>2
    <3>6. Tiles(Owners \cup {t}, offset', Capacities', BlocksFrom,
                fileSize + Capacities'[t])
      BY <1>8, <2>1, <2>2, <3>1, <3>2, <3>3, <3>4, <3>5, TilesAppended
    <3> QED BY ONLY <1>5, <1>10, <2>4, <3>2, <3>6
  <2> QED BY <1>7, <2>3, <2>4
<1> QED BY <1>2, <1>9, <1>10, <1>11 DEF LayoutInv

\* A block moves behind the others.
LEMMA MoveBlockKeepsLayoutInv ==
    ASSUME LayoutInv, MoveBlock
    PROVE  LayoutInv'
<1> USE LayoutAssumption
<1>1. /\ IInv /\ TypeOK /\ SpaceInv /\ LayoutTypeOK /\ pc = "expand"
      /\ UNCHANGED vars /\ UNCHANGED <<size, betweenSpace, cleared>>
  BY DEF LayoutInv, IInv, MoveBlock
<1>2. PICK i \in Owners \ cleared :
         /\ offset[i] = nextBlock
         /\ offset' = [offset EXCEPT ![i] = fileSize]
         /\ fileSize' = fileSize + size[i]
         /\ nextBlock' = nextBlock + size[i]
         /\ freeSize' = freeSize + size[i]
         /\ tight' = (tight /\ size[i] = block[i].capacity)
  BY DEF MoveBlock, OffsetUpdated
<1>3. /\ pc' = pc /\ indexCount' = indexCount /\ flag' = flag /\ block' = block
  BY <1>1 DEF vars
<1>4. /\ Indexes' = Indexes /\ Owners' = Owners /\ TableEnd' = TableEnd
      /\ Capacities' = Capacities /\ Owners \subseteq Indexes
  BY <1>3 DEF Indexes, Owners, TableEnd, Capacities
<1>5. i \in Indexes /\ size[i] \in Nat /\ fileSize \in Nat /\ nextBlock \in Nat
      /\ freeSize \in Nat /\ TableEnd \in Nat
  <2>1. i \in Indexes /\ size[i] \in Nat /\ fileSize \in Nat /\ nextBlock \in Nat
        /\ freeSize \in Nat /\ indexCount \in Nat
    BY <1>1, <1>2, <1>4 DEF LayoutTypeOK, TypeOK
  <2>2. TableEnd \in Nat
    BY ONLY <2>1, LayoutAssumption, ProductIsNat
    DEF TableEnd, LayoutAssumption
  <2> QED BY <2>1, <2>2
<1>6. LayoutTypeOK'
  <2>1. offset' \in [Indexes -> Nat]
    BY <1>1, <1>2, <1>5 DEF LayoutTypeOK
  <2> QED BY <1>1, <1>2, <1>4, <1>5, <2>1 DEF LayoutTypeOK
<1>7. WalkKeepsTrack'
  BY <1>1, <1>2, <1>3, <1>4, <1>5 DEF LayoutInv, WalkKeepsTrack
<1>8. BlocksTileTheFile'
  <2> SUFFICES ASSUME tight'
               PROVE  Tiles(Owners', offset', Capacities', BlocksFrom', fileSize')
    BY DEF BlocksTileTheFile
  <2>1. tight /\ size[i] = Capacities[i]
    BY <1>2, <1>5 DEF Capacities
  <2>2. BlocksFrom = nextBlock /\ BlocksFrom' = nextBlock + Capacities[i]
    BY <1>1, <1>2, <1>3, <2>1 DEF BlocksFrom
  <2>3. Tiles(Owners, offset, Capacities, nextBlock, fileSize)
    BY <2>1, <2>2 DEF LayoutInv, BlocksTileTheFile
  <2>4. \A j \in Owners : offset[j] \in Nat /\ Capacities[j] \in Nat \ {0}
    BY <1>1, <1>4
    DEF LayoutTypeOK, TypeOK, Block, Capacities, SpaceInv, BlocksHaveRoom, Owners
  <2>5. /\ \A j \in Owners : j # i => offset'[j] = offset[j]
        /\ offset'[i] = fileSize
    BY <1>1, <1>2, <1>4, <1>5 DEF LayoutTypeOK
  <2>6. Tiles(Owners, offset', Capacities, nextBlock + Capacities[i],
              fileSize + Capacities[i])
    BY <1>2, <1>5, <2>3, <2>4, <2>5, TilesMoved
  <2> QED BY <1>2, <1>4, <2>1, <2>2, <2>6
<1> QED BY <1>1, <1>6, <1>7, <1>8, StutteringKeepsIInv DEF LayoutInv

\* The loop stays where it is.
LEMMA MoveNothingKeepsLayoutInv ==
    ASSUME LayoutInv, MoveNothing
    PROVE  LayoutInv'
<1> USE ConstantsAssumption, LayoutAssumption
<1>1. /\ IInv /\ TypeOK /\ SpaceInv /\ LayoutTypeOK /\ pc = "expand"
      /\ UNCHANGED vars
      /\ UNCHANGED <<size, fileSize, betweenSpace, walk, cleared>>
      /\ offset' = [offset EXCEPT ![0] = fileSize]
      /\ tight' = FALSE
  BY DEF LayoutInv, IInv, MoveNothing, OffsetUpdated
<1>2. /\ pc' = pc /\ indexCount' = indexCount
      /\ Indexes' = Indexes /\ TableEnd' = TableEnd
  BY <1>1 DEF vars, Indexes, TableEnd
<1>3. LayoutTypeOK' /\ WalkKeepsTrack' /\ BlocksTileTheFile'
  BY <1>1, <1>2
  DEF LayoutInv, LayoutTypeOK, WalkKeepsTrack, BlocksTileTheFile, walk
<1> QED BY <1>1, <1>3, StutteringKeepsIInv DEF LayoutInv

\* The room between the table and the first block is divided into indexes,
\* and what is left stays between the two.
LEMMA EndExpandKeepsLayoutInv ==
    ASSUME LayoutInv, EndExpand
    PROVE  LayoutInv'
<1> USE LayoutAssumption
<1> DEFINE n == NewIndexes
<1>1. /\ IInv /\ TypeOK /\ LayoutTypeOK
      /\ n \in ExpandCounts /\ ExpandIndexes(n)
      /\ betweenSpace' = RoomLeft
      /\ UNCHANGED <<fileSize, cleared, tight>>
      /\ nextBlock' = 0 /\ freeSize' = 0
  BY DEF LayoutInv, IInv, EndExpand
<1>2. /\ pc = "expand" /\ pc' # "expand"
      /\ indexCount' = indexCount + n
      /\ flag' = [i \in 0 .. indexCount + n - 1 |->
                     IF i < indexCount THEN flag[i] ELSE "NEW"]
      /\ block' = [i \in 0 .. indexCount + n - 1 |->
                     IF i < indexCount THEN block[i] ELSE NoBlock]
  BY <1>1 DEF ExpandIndexes, ExpandedCount, Goto, AllocationStep
<1>3. /\ freeSize \in Nat /\ n \in Nat /\ RoomLeft \in 0 .. INDEX_SIZE - 1
      /\ freeSize = n * INDEX_SIZE + RoomLeft
      /\ indexCount \in Nat /\ nextBlock \in Nat
  <2>1. freeSize \in Nat /\ indexCount \in Nat /\ nextBlock \in Nat
    BY <1>1 DEF LayoutTypeOK, TypeOK
  <2> QED BY <2>1, DivMod DEF NewIndexes, RoomLeft
<1> HIDE DEF n
<1>4. /\ Indexes = 0 .. indexCount - 1
      /\ Indexes' = 0 .. indexCount + n - 1
      /\ Indexes \subseteq Indexes'
      /\ \A i \in Indexes' : i < indexCount <=> i \in Indexes
  BY <1>2, <1>3 DEF Indexes
<1>5. TableEnd' + betweenSpace' = nextBlock
  <2>1. nextBlock = HEADER_SIZE + indexCount * INDEX_SIZE + freeSize
    BY <1>2 DEF LayoutInv, WalkKeepsTrack, TableEnd
  <2>2. TableEnd' = HEADER_SIZE + (indexCount + n) * INDEX_SIZE
    BY <1>2 DEF TableEnd
  <2>3. (indexCount + n) * INDEX_SIZE = indexCount * INDEX_SIZE + n * INDEX_SIZE
    BY <1>3
  <2>4. indexCount * INDEX_SIZE \in Nat /\ n * INDEX_SIZE \in Nat
    BY <1>3
  <2> QED BY <1>1, <1>3, <2>1, <2>2, <2>3, <2>4
<1>6. /\ Owners' = Owners /\ Owners \subseteq Indexes
      /\ \A i \in Owners : Capacities'[i] = Capacities[i]
  BY <1>2, <1>4 DEF Owners, Capacities
<1>7. /\ offset' = [i \in Indexes' |-> IF i < indexCount THEN offset[i] ELSE 0]
      /\ size' = [i \in Indexes' |-> IF i < indexCount THEN size[i] ELSE 0]
  BY DEF EndExpand, Indexes
<1>8. LayoutTypeOK'
  <2>1. offset' \in [Indexes' -> Nat] /\ size' \in [Indexes' -> Nat]
    BY <1>1, <1>4, <1>7 DEF LayoutTypeOK
  <2> QED BY <1>1, <1>3, <1>4, <2>1 DEF LayoutTypeOK
<1>9. BlocksFrom = nextBlock /\ BlocksFrom' = nextBlock
  BY <1>2, <1>5 DEF BlocksFrom
<1>10. BlocksTileTheFile'
  <2> SUFFICES ASSUME tight'
               PROVE  Tiles(Owners', offset', Capacities', BlocksFrom', fileSize')
    BY DEF BlocksTileTheFile
  <2>1. Tiles(Owners, offset, Capacities, nextBlock, fileSize)
    BY <1>1, <1>9 DEF LayoutInv, BlocksTileTheFile
  <2>2. \A i \in Owners : offset'[i] = offset[i]
    BY <1>4, <1>6, <1>7
  <2>3. Tiles(Owners, offset', Capacities', nextBlock, fileSize)
    BY <1>6, <2>1, <2>2, TilesUnchanged
  <2> QED BY <1>1, <1>6, <1>9, <2>3
<1>11. WalkKeepsTrack'
  BY <1>2 DEF WalkKeepsTrack
<1>12. IInv'
  BY <1>1, ExpandIndexesKeepsIInv
<1> QED BY <1>8, <1>10, <1>11, <1>12 DEF LayoutInv

LEMMA LayoutStutteringKeepsLayoutInv ==
    LayoutInv /\ UNCHANGED layoutVars => LayoutInv'
<1> SUFFICES ASSUME LayoutInv, UNCHANGED layoutVars PROVE LayoutInv'
  OBVIOUS
<1>1. IInv /\ UNCHANGED vars /\ UNCHANGED layout
  BY DEF LayoutInv, layoutVars
<1>2. IInv'
  BY <1>1, StutteringKeepsIInv
<1>3. /\ pc' = pc /\ indexCount' = indexCount /\ flag' = flag /\ block' = block
  BY <1>1 DEF vars
<1>4. /\ Indexes' = Indexes /\ TableEnd' = TableEnd
      /\ Owners' = Owners /\ Capacities' = Capacities
  BY <1>3 DEF Indexes, TableEnd, Owners, Capacities
<1>5. /\ offset' = offset /\ size' = size /\ fileSize' = fileSize
      /\ betweenSpace' = betweenSpace /\ nextBlock' = nextBlock
      /\ freeSize' = freeSize /\ cleared' = cleared /\ tight' = tight
  BY <1>1 DEF layout, walk
<1>6. BlocksFrom' = BlocksFrom
  BY <1>3, <1>4, <1>5 DEF BlocksFrom
<1>7. LayoutTypeOK' /\ WalkKeepsTrack'
  BY <1>3, <1>4, <1>5 DEF LayoutInv, LayoutTypeOK, WalkKeepsTrack
<1>8. BlocksTileTheFile'
  BY <1>4, <1>5, <1>6, TilesUnchanged DEF LayoutInv, BlocksTileTheFile
<1> QED BY <1>2, <1>7, <1>8 DEF LayoutInv

LEMMA NextKeepsLayoutInv == LayoutInv /\ [LayoutNext]_layoutVars => LayoutInv'
BY StepKeepsLayoutInv, MoveBlockKeepsLayoutInv, MoveNothingKeepsLayoutInv,
   EndExpandKeepsLayoutInv, LayoutStutteringKeepsLayoutInv
DEF LayoutNext, Expand

\* The invariant of the layout is inductive, whatever the sizes.
THEOREM LayoutInvariant == LayoutSpec => []LayoutInv
BY LayoutInitIsLayoutInv, NextKeepsLayoutInv, PTL DEF LayoutSpec

\* Offsets and sizes cover the table, and no room of a whole index is wasted.
THEOREM LayoutTypeCorrect == LayoutSpec => []LayoutTypeOK
<1>1. LayoutInv => LayoutTypeOK
  BY DEF LayoutInv
<1> QED BY <1>1, LayoutInvariant, PTL

\* Allocations, reuses, moves and expansions leave neither a gap between two
\* blocks nor an overlap, as long as no moved block loses its spare bytes.
THEOREM FileStaysTiled == LayoutSpec => []BlocksTileTheFile
<1>1. LayoutInv => BlocksTileTheFile
  BY DEF LayoutInv
<1> QED BY <1>1, LayoutInvariant, PTL

\* Moving the blocks is invisible to the core: every behaviour of the layout
\* is one of the core, whose theorems hold of it.
THEOREM LayoutImplementsStore == LayoutSpec => Spec
<1>1. LayoutInit => Init
  BY DEF LayoutInit
<1>2. ASSUME [LayoutNext]_layoutVars PROVE [Next]_vars
  <2>1. ASSUME Step PROVE Next
    BY <2>1 DEF Step
  <2>2. ASSUME MoveBlock \/ MoveNothing PROVE UNCHANGED vars
    BY <2>2 DEF MoveBlock, MoveNothing
  <2>3. ASSUME EndExpand PROVE Next
    BY <2>3 DEF EndExpand, Next, Execute
  <2>4. ASSUME UNCHANGED layoutVars PROVE UNCHANGED vars
    BY <2>4 DEF layoutVars
  <2> QED BY <1>2, <2>1, <2>2, <2>3, <2>4 DEF LayoutNext, Expand
<1> QED BY <1>1, <1>2, PTL DEF LayoutSpec, Spec

=============================================================================
