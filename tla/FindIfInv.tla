------------------------------ MODULE FindIfInv ------------------------------
(***************************************************************************)
(* What a search promises while it runs and when it ends, for any tree and *)
(* any path, and the inductive invariants: IInv for what is held on the    *)
(* way, SearchInv for what is found.                                       *)
(***************************************************************************)
EXTENDS FindIf, FiniteSets

\* A document as the lists hold it, and an entry of the iterator, that knows
\* its parent: the header stores no link to it, so it must be carried along.
KnownDocuments(t) ==
    {f \in [order : DocumentsOf(t), indexParent : DocumentsOf(t)] :
        f.indexParent = t.parent[f.order]}

KnownEntries(t) ==
    {e \in [order : DocumentsOf(t), orderParent : DocumentsOf(t),
            depth : Nat] :
        e.orderParent = t.parent[e.order]}

ResultTypes == {"UNDEFINED", "DOCUMENT", "ELEMENT"}

\* Every variable has its type; a step of the path and a context are current
\* when one is needed.
TypeOK ==
    /\ pc \in {"start", "context", "visit", "serve", "rootSons", "join",
               "answered", "aborted"}
    /\ step \in 1 .. Len(path)
    /\ depth \in Nat
    /\ prevDepth \in Nat
    /\ position \in 1 .. Len(contextList) + 1
    /\ pc = "visit" => position \in 1 .. Len(contextList)
    /\ docNumber \in Nat
    /\ tempIndex \in DocumentsOf(tree)

-----------------------------------------------------------------------------
(* deleteDocument and parent take a document and the index of its parent   *)
(* from the result, and trust them (zgdb.c:223, 717).                      *)

ContextsKnowParents ==
    /\ contextList \in Seq(KnownDocuments(tree))
    /\ tempContextList \in Seq(KnownDocuments(tree))

IteratorKnowsParents ==
    iterator \in [next : KnownEntries(tree), stack : Seq(KnownEntries(tree)),
                  stop : BOOLEAN]

FoundKnowParents ==
    /\ ifResult \in [type : ResultTypes,
                     documentList : Seq(KnownDocuments(tree)),
                     elementList : Seq(KnownDocuments(tree))]
    /\ pList \in Seq(KnownDocuments(tree))

\* Every document a search holds, whether as a context, as a document still
\* to be visited or as a result, carries the index of its parent.
ResultsKnowParents ==
    ContextsKnowParents /\ IteratorKnowsParents /\ FoundKnowParents

-----------------------------------------------------------------------------
(* What a path reaches, without stack, iterator or depth.  It is what the  *)
(* code makes of a path: zgdbfilter.h:11 denies the document that an       *)
(* absolute step examines behind the brothers (AbsoluteStepsGoOneLevel).   *)

\* A document, what comes behind it among its brothers, what is below it: the
\* subtree of the last brother comes before that of the first.
Visits(t) ==
    LET visits[d \in DocumentsOf(t)] ==
            IF d = 0 THEN <<>>
            ELSE <<d>> \o visits[t.brother[d]] \o visits[t.son[d]]
    IN  visits

\* A document and its brothers from it on.
Brothers(t) ==
    LET brothers[d \in DocumentsOf(t)] ==
            IF d = 0 THEN <<>> ELSE <<d>> \o brothers[t.brother[d]]
    IN  brothers

\* An absolute step sees the brothers and the one document behind them, which
\* it examines before it compares the depths (zgdb.c:580).
Candidates(t, s, d) ==
    LET all  == Visits(t)[d]
        seen == Len(Brothers(t)[d]) + 1
    IN  IF s.pType = "ABSOLUTE" /\ seen < Len(all) THEN SubSeq(all, 1, seen)
        ELSE all

\* The document has the step's name, or an element of that name.
Named(t, s, d) ==
    IF s.sType = "DOCUMENT" THEN t.name[d] = s.stepName
    ELSE s.stepName \in DOMAIN t.elements[d]

\* How many of the first k candidates have the name.
NumberOf(t, s, candidates, k) ==
    Cardinality({j \in 1 .. k : Named(t, s, candidates[j])})

Passes(t, chain, d, number) ==
    CalculatePredicate(chain, DocumentAt(t, d), number, FALSE)

\* The places of the candidates that a step selects; the predicates number
\* those of the name from 0.
Marks(t, s, candidates) ==
    {k \in 1 .. Len(candidates) :
        /\ Named(t, s, candidates[k])
        /\ s.sType = "DOCUMENT" =>
              Passes(t, s.pred, candidates[k],
                     NumberOf(t, s, candidates, k - 1))}

\* What is kept of the first k of a list if the places in marks are.
Kept(list, marks) ==
    LET kept[k \in 0 .. Len(list)] ==
            IF k = 0 THEN <<>>
            ELSE IF k \in marks THEN Append(kept[k - 1], list[k])
            ELSE kept[k - 1]
    IN  kept

Selected(t, s, d) ==
    LET candidates == Candidates(t, s, d)
    IN  Kept(candidates, Marks(t, s, candidates))[Len(candidates)]

\* What a step selects in the first k of its contexts.
SelectedIn(t, s, contexts) ==
    LET selected[k \in 0 .. Len(contexts)] ==
            IF k = 0 THEN <<>>
            ELSE selected[k - 1] \o Selected(t, s, contexts[k])
    IN  selected

\* The first sons of the documents in a list, of those that have one.
SonsOf(t, list) ==
    LET sons == [k \in 1 .. Len(list) |-> t.son[list[k]]]
    IN  Kept(sons, {k \in 1 .. Len(list) : sons[k] # 0})[Len(list)]

\* What a step leaves for the next one.
ContextsBehind(t, s, found) ==
    IF s.sType = "DOCUMENT" THEN SonsOf(t, found) ELSE <<>>

\* The contexts behind the first i steps of a path.
Contexts(t, p) ==
    LET contexts[i \in 0 .. Len(p)] ==
            IF i = 0 THEN <<t.son[0]>>
            ELSE ContextsBehind(t, p[i],
                    SelectedIn(t, p[i], contexts[i - 1])[Len(contexts[i - 1])])
    IN  contexts

FoundBy(t, p) ==
    LET contexts == Contexts(t, p)[Len(p) - 1]
    IN  SelectedIn(t, p[Len(p)], contexts)[Len(contexts)]

Reached ==
    IF IsEmptyPath("ABSOLUTE") THEN <<0>>
    ELSE IF IsEmptyPath("RELATIVE") THEN Brothers(tree)[tree.son[0]]
    ELSE IF tree.son[0] = 0 THEN <<>>
    ELSE FoundBy(tree, path)

OrdersOf(list) == [k \in 1 .. Len(list) |-> list[k].order]

FoundOrders ==
    IF ifResult.type = "ELEMENT" THEN OrdersOf(ifResult.elementList)
    ELSE OrdersOf(ifResult.documentList)

\* The search finds the documents its steps reach, every one as often and in
\* the order in which it is reached: contexts, iterators and numbers are
\* started afresh where they must be, and nothing is skipped.  An absolute
\* step reaches one document too many; for the rest Candidates is what
\* zgdbfilter.h:11-12 says of the two types of steps.
FindsWhatStepsReach == pc = "serve" => FoundOrders = Reached

\* How far a document is below the root.
LevelOf(t) ==
    LET level[d \in DocumentsOf(t)] ==
            IF d = 0 THEN 0 ELSE level[t.parent[d]] + 1
    IN  level

\* zgdbfilter.h:11: an absolute path checks "from context by only one depth
\* step", so a path of absolute steps finds documents as deep as it is long.
\* Violated: the depth is compared after the next document has been examined
\* (zgdb.c:580-599).
AbsoluteStepsGoOneLevel ==
    /\ pc = "serve"
    /\ ~ IsEmptyPath("ABSOLUTE")
    /\ \A i \in DOMAIN path : path[i].pType = "ABSOLUTE"
    => \A k \in DOMAIN FoundOrders :
          LevelOf(tree)[FoundOrders[k]] = Len(path)

\* The children of the first document found, and the places of those that a
\* JOIN keeps.
Children == Brothers(tree)[tree.son[HeadDocument.order]]

JoinMarks ==
    {k \in 1 .. Len(Children) : Passes(tree, joinPred, Children[k], k - 1)}

\* JOIN answers with the children of the first document found, in their
\* order, numbered among all the children whatever their names
\* (zgdbServer/README.md:51).
JoinReturnsChildren ==
    pc = "answered" /\ request = "join" =>
        OrdersOf(pList) = Kept(Children, JoinMarks)[Len(Children)]

\* A search ends, whatever the tree and the path.
SearchEnds == <>(pc \in {"answered", "aborted"})

-----------------------------------------------------------------------------
(* Strengthening.                                                          *)

\* The request and the file stay what they are.
InputsOK ==
    /\ tree \in Trees
    /\ request \in Requests
    /\ path \in Paths
    /\ joinPred \in JoinPredicates \cup {<<>>}

\* Children are collected below the document whose children they are.
JoinsChildren ==
    /\ pc = "join" =>
          /\ ifResult.documentList # <<>>
          /\ tempIndex # 0 => tree.parent[tempIndex] = HeadDocument.order
    /\ pc = "rootSons" /\ tempIndex # 0 => tree.parent[tempIndex] = 0

\* Before the search there is no context.
NoContextYet == pc = "start" => position = 1

IInv == InputsOK /\ TypeOK /\ ResultsKnowParents /\ JoinsChildren
        /\ NoContextYet

-----------------------------------------------------------------------------
(* What is found on the way there.                                         *)

\* part stands in list behind the first i.
IsPart(part, list, i) ==
    /\ i + Len(part) <= Len(list)
    /\ \A j \in 1 .. Len(part) : part[j] = list[i + j]

Current == contextList[position].order

CurrentContexts == Contexts(tree, path)[step - 1]

CurrentCandidates == Candidates(tree, CurrentStep, Current)

\* After v documents of all, the next one and the stack, from its top down,
\* hold what is left of them; stack entry k stands for those behind the first
\* cut[k].
CutsAre(t, i, all, v, cut) ==
    LET visits == Visits(t) IN
    /\ cut \in [0 .. Len(i.stack) -> 0 .. Len(all)]
    /\ cut[0] = Len(all)
    /\ cut[Len(i.stack)] = v + Len(visits[i.next.order])
    /\ IsPart(visits[i.next.order], all, v)
    /\ \A k \in 1 .. Len(i.stack) :
          /\ i.stack[k].order # 0
          /\ cut[k - 1] = cut[k] + Len(visits[i.stack[k].order])
          /\ IsPart(visits[i.stack[k].order], all, cut[k])

HoldsRest(t, i, all, v) ==
    IF i.stop THEN v = Len(all)
    ELSE /\ i.next.order # 0
         /\ \E cut \in [0 .. Len(i.stack) -> 0 .. Len(all)] :
               CutsAre(t, i, all, v, cut)

\* The depth tells the brothers, at the depth they were started with, from
\* what is below them.
DepthTells(t, i, start, brothers, v) ==
    /\ \A k \in 1 .. Len(i.stack) : i.stack[k].depth > start
    /\ ~ i.stop =>
          IF v < brothers
          THEN /\ i.next.depth = start
               /\ Len(Brothers(t)[i.next.order]) = brothers - v
          ELSE i.next.depth > start

\* What has been found in a step goes to the next step, and to the result if
\* the step is the last one.
HoldsFound(t, s, isLast, contexts, result, found) ==
    LET isDocuments == s.sType = "DOCUMENT" IN
    /\ OrdersOf(contexts) = ContextsBehind(t, s, found)
    /\ IF ~ isLast THEN result = NoResult
       ELSE /\ result.type = IF found = <<>> THEN "UNDEFINED"
                             ELSE IF isDocuments THEN "DOCUMENT"
                             ELSE "ELEMENT"
            /\ OrdersOf(result.documentList) =
                  IF isDocuments THEN found ELSE <<>>
            /\ OrdersOf(result.elementList) =
                  IF isDocuments THEN <<>> ELSE found

\* What the contexts before the current one have given.
FoundBefore == SelectedIn(tree, CurrentStep, CurrentContexts)[position - 1]

InSearch ==
    pc \in {"context", "visit"} =>
        /\ ~ IsEmptyPath("ABSOLUTE") /\ ~ IsEmptyPath("RELATIVE")
        /\ tree.son[0] # 0
        /\ OrdersOf(contextList) = CurrentContexts

HasFound(found) ==
    HoldsFound(tree, CurrentStep, IsLastStep, tempContextList, ifResult, found)

BetweenContexts == pc = "context" => HasFound(FoundBefore)

\* v candidates of the current context have been visited.
VisitInv(v) ==
    /\ HoldsRest(tree, iterator, Visits(tree)[Current], v)
    /\ DepthTells(tree, iterator, prevDepth, Len(Brothers(tree)[Current]), v)
    /\ depth = prevDepth <=> v <= Len(Brothers(tree)[Current])
    /\ CurrentStep.sType = "DOCUMENT" =>
          docNumber = NumberOf(tree, CurrentStep, CurrentCandidates, v)
    /\ HasFound(FoundBefore \o
          Kept(CurrentCandidates,
               Marks(tree, CurrentStep, CurrentCandidates))[v])

InContext ==
    pc = "visit" => \E v \in 0 .. Len(CurrentCandidates) : VisitInv(v)

\* rest is what is left of list behind the first k.
IsRest(rest, list, k) ==
    Len(rest) = Len(list) - k /\ IsPart(rest, list, k)

\* k children have been looked at, the next one is tempIndex.
InJoin ==
    LET rest == Brothers(tree)[tempIndex] IN
    /\ pc = "rootSons" =>
          /\ IsEmptyPath("RELATIVE") /\ ~ IsEmptyPath("ABSOLUTE")
          /\ \E k \in 0 .. Len(Reached) :
                /\ IsRest(rest, Reached, k)
                /\ Len(pList) = k /\ IsPart(OrdersOf(pList), Reached, 0)
    /\ pc = "join" =>
          \E k \in 0 .. Len(Children) :
                /\ IsRest(rest, Children, k)
                /\ docNumber = k
                /\ OrdersOf(pList) = Kept(Children, JoinMarks)[k]

NothingYet ==
    pc = "start" =>
        /\ step = 1 /\ position = 1
        /\ contextList = <<>> /\ tempContextList = <<>>
        /\ ifResult = NoResult /\ pList = <<>>

SearchInv ==
    /\ InSearch /\ BetweenContexts /\ InContext /\ InJoin /\ NothingYet
    /\ FindsWhatStepsReach /\ JoinReturnsChildren
=============================================================================
