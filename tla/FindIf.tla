------------------------------- MODULE FindIf -------------------------------
(***************************************************************************)
(* The read-only half of a request: findIf0 evaluates a path from the      *)
(* root, step by step, context by context, document by document; join and  *)
(* parent go on from the first document found.  Then the server does with  *)
(* the result what executeXxxFromXml does (zgdbXmlRequest.c).              *)
(*                                                                         *)
(* A context is the first son of a document an earlier step selected; an   *)
(* absolute step looks at its brothers, a relative one at everything below *)
(* them as well.                                                           *)
(***************************************************************************)
EXTENDS DocIterator, ZgdbFilter

CONSTANTS
    Trees,           \* the trees a search may find in the file
    Paths,           \* the paths a request may carry
    Requests,        \* the types of requests
    JoinPredicates   \* the chains of predicates a JOIN may carry

ASSUME TreesAssumption == \A t \in Trees : IsTree(t)

ASSUME PathsAssumption ==
    \A p \in Paths :
        /\ Len(p) \in Nat \ {0}
        /\ \A i \in 1 .. Len(p) : IsChain(p[i].pred)

ASSUME JoinPredicatesAssumption == \A c \in JoinPredicates : IsChain(c)

VARIABLES
    tree,            \* the documents in the file
    request,         \* the type of the request
    path,            \* its path
    joinPred,        \* the predicates of a JOIN
    pc,              \* what is done next
    step,            \* the number of the step, from 1
    depth,           \* depth, as nextDoc reported it last
    prevDepth,       \* depth when the iteration began
    contextList,     \* this step's contexts, each with its parent
    position,        \* which of them is the current one (tempRes)
    tempContextList, \* the next step's contexts
    iterator,        \* the iterator over the current context
    docNumber,       \* how many documents of the step's name it has passed
    ifResult,        \* the type of the result, documents and elements
    tempIndex,       \* the next child join looks at
    pList            \* the children join has found

query   == <<tree, request, path, joinPred>>
context == <<step, contextList, position, tempContextList>>
walk    == <<depth, prevDepth, iterator, docNumber>>
joining == <<tempIndex, pList>>
vars    == <<query, pc, context, walk, ifResult, joining>>

\* A document as the lists hold it: its index and its parent's.
Found(order, indexParent) == [order |-> order, indexParent |-> indexParent]

NoResult ==
    [type |-> "UNDEFINED", documentList |-> <<>>, elementList |-> <<>>]

DocumentAt(t, d) ==
    [name |-> t.name[d], elements |-> t.elements[d], id |-> t.id[d]]

CurrentStep == path[step]

-----------------------------------------------------------------------------
Init ==
    /\ tree \in Trees
    /\ request \in Requests
    /\ path \in Paths
    /\ joinPred \in IF request = "join" THEN JoinPredicates ELSE {<<>>}
    /\ pc = "start"
    /\ step = 1
    /\ depth = 0
    /\ prevDepth = 0
    /\ contextList = <<>>
    /\ position = 1
    /\ tempContextList = <<>>
    /\ iterator = CreateDocIterator(0, 0, 0)
    /\ docNumber = 0
    /\ ifResult = NoResult
    /\ tempIndex = 0
    /\ pList = <<>>

\* The path is "", absolute for the root itself, relative for its children.
IsEmptyPath(pType) ==
    /\ Len(path) = 1
    /\ path[1].sType = "DOCUMENT"
    /\ path[1].pType = pType
    /\ path[1].stepName = ""

FindRoot ==
    /\ pc = "start"
    /\ IsEmptyPath("ABSOLUTE")
    /\ ifResult' = [NoResult EXCEPT !.type = "DOCUMENT",
                                    !.documentList = <<Found(0, 0)>>]
    /\ pc' = "serve"
    /\ UNCHANGED <<query, context, walk, joining>>

\* join(file, root, NULL)
FindRootSons ==
    /\ pc = "start"
    /\ IsEmptyPath("RELATIVE")
    /\ tempIndex' = tree.son[0]
    /\ pc' = "rootSons"
    /\ UNCHANGED <<query, context, walk, ifResult, pList>>

\* The first context is the root's first son, if there is one.
StartSearch ==
    /\ pc = "start"
    /\ ~ IsEmptyPath("ABSOLUTE")
    /\ ~ IsEmptyPath("RELATIVE")
    /\ IF tree.son[0] = 0
       THEN pc' = "serve" /\ UNCHANGED <<depth, contextList>>
       ELSE /\ pc' = "context"
            /\ depth' = 1
            /\ contextList' = <<Found(tree.son[0], 0)>>
    /\ UNCHANGED <<query, step, position, tempContextList, prevDepth,
                   iterator, docNumber, ifResult, joining>>

-----------------------------------------------------------------------------
(* A step: for every context, an iteration.                                *)

\* Mutant: the documents of the step's name are numbered through.
ContinuedNumber == docNumber

FirstNumber == 0

EnterContext ==
    LET tempRes == contextList[position] IN
    /\ pc = "context"
    /\ position <= Len(contextList)
    /\ iterator' = CreateDocIterator(tempRes.order, tempRes.indexParent, depth)
    /\ prevDepth' = depth
    /\ docNumber' = FirstNumber
    /\ pc' = "visit"
    /\ UNCHANGED <<query, context, depth, ifResult, joining>>

\* An absolute step compares the depth of the document it has just examined.
IterationGoesOn ==
    /\ HasNextDoc(iterator)
    /\ CurrentStep.pType = "ABSOLUTE" => depth = prevDepth

\* Mutant: the number of the step does not grow.
SameStep == step

FollowingStep == step + 1

\* Mutant: the loop over the steps runs once more.
IsBehindLastStep == step > Len(path)

IsLastStep == step = Len(path)

\* The document is selected by a document step.
Select(found, son) ==
    /\ tempContextList' =
          IF son # 0 THEN Append(tempContextList, Found(son, found.order))
          ELSE tempContextList
    /\ ifResult' =
          IF IsLastStep
          THEN [ifResult EXCEPT !.type = "DOCUMENT",
                                !.documentList = Append(@, found)]
          ELSE ifResult

\* An element step on a document with that element.
SelectElement(found) ==
    ifResult' =
        IF IsLastStep
        THEN [ifResult EXCEPT !.type = "ELEMENT",
                              !.elementList = Append(@, found)]
        ELSE ifResult

VisitDocument ==
    LET found == Found(iterator.next.order, iterator.next.orderParent)
        temp == DocumentAt(tree, found.order)
    IN
    /\ pc = "visit"
    /\ IterationGoesOn
    /\ iterator' = AfterNextDoc(tree, iterator)
    /\ depth' = iterator.next.depth
    /\ IF CurrentStep.sType = "DOCUMENT"
       THEN /\ docNumber' = IF temp.name = CurrentStep.stepName
                            THEN docNumber + 1 ELSE docNumber
            /\ \E garbage \in BOOLEAN :
                  IF /\ temp.name = CurrentStep.stepName
                     /\ CalculatePredicate(CurrentStep.pred, temp, docNumber,
                                           garbage)
                  THEN Select(found, tree.son[found.order])
                  ELSE UNCHANGED <<tempContextList, ifResult>>
       ELSE /\ IF CurrentStep.stepName \in DOMAIN temp.elements
               THEN SelectElement(found) ELSE UNCHANGED ifResult
            /\ UNCHANGED <<docNumber, tempContextList>>
    /\ UNCHANGED <<query, pc, step, contextList, position, prevDepth, joining>>

LeaveContext ==
    /\ pc = "visit"
    /\ ~ IterationGoesOn
    /\ position' = position + 1
    /\ pc' = "context"
    /\ UNCHANGED <<query, step, contextList, tempContextList, walk, ifResult,
                   joining>>

NextStep ==
    /\ pc = "context"
    /\ position > Len(contextList)
    /\ contextList' = tempContextList
    /\ tempContextList' = <<>>
    /\ position' = 1
    /\ depth' = IF CurrentStep.pType = "RELATIVE" THEN 1 ELSE depth
    /\ IF IsLastStep THEN pc' = "serve" /\ UNCHANGED step
       ELSE pc' = "context" /\ step' = FollowingStep
    /\ UNCHANGED <<query, prevDepth, iterator, docNumber, ifResult, joining>>

-----------------------------------------------------------------------------
(* What the request does with the result.  The lists of a result that is   *)
(* not of their type are destroyed and have no head.                       *)

HasHead == ifResult.type = "DOCUMENT" /\ ifResult.documentList # <<>>

HeadDocument == Head(ifResult.documentList)

\* What a request looks at before it takes the head.
ChecksResult == request \in {"delete", "update", "find"}

\* FIND answers with whatever was found, DELETE and UPDATE that nothing was.
AnswerResult ==
    /\ pc = "serve"
    /\ ChecksResult
    /\ ifResult.type = "UNDEFINED" \/ request = "find"
    /\ pc' = "answered"
    /\ UNCHANGED <<query, context, walk, ifResult, joining>>

\* ADD, DELETE and UPDATE of the first document found; PARENT is answered
\* with the header at its indexParent.
ServeHead ==
    /\ pc = "serve"
    /\ request \in {"add", "delete", "update", "parent"}
    /\ HasHead
    /\ pc' = "answered"
    /\ UNCHANGED <<query, context, walk, ifResult, joining>>

StartJoin ==
    /\ pc = "serve"
    /\ request = "join"
    /\ HasHead
    /\ tempIndex' = tree.son[HeadDocument.order]
    /\ pList' = <<>>
    /\ docNumber' = 0
    /\ pc' = "join"
    /\ UNCHANGED <<query, context, depth, prevDepth, iterator, ifResult>>

\* documentList.head is NULL and is dereferenced.
Abort ==
    /\ pc = "serve"
    /\ request # "find"
    /\ ~ HasHead
    /\ ~ (ChecksResult /\ ifResult.type = "UNDEFINED")
    /\ pc' = "aborted"
    /\ UNCHANGED <<query, context, walk, ifResult, joining>>

\* Mutant: only the children that pass are numbered.
NumberIfKept(kept) == IF kept THEN docNumber + 1 ELSE docNumber

NumberAfter(kept) == docNumber + 1

\* One child of join; unlike findIf0 it numbers the children of any name.
JoinNext ==
    LET chain == IF pc = "join" THEN joinPred ELSE <<>>
        indexParent == IF pc = "join" THEN HeadDocument.order ELSE 0
    IN
    /\ pc \in {"join", "rootSons"}
    /\ tempIndex # 0
    /\ \E garbage \in BOOLEAN :
          LET kept == CalculatePredicate(chain, DocumentAt(tree, tempIndex),
                                         docNumber, garbage)
          IN  /\ pList' = IF kept
                          THEN Append(pList, Found(tempIndex, indexParent))
                          ELSE pList
              /\ docNumber' = NumberAfter(kept)
    /\ tempIndex' = tree.brother[tempIndex]
    /\ UNCHANGED <<query, pc, context, depth, prevDepth, iterator, ifResult>>

JoinEnds ==
    /\ pc \in {"join", "rootSons"}
    /\ tempIndex = 0
    /\ IF pc = "join"
       THEN pc' = "answered" /\ UNCHANGED <<ifResult, pList>>
       ELSE /\ pc' = "serve"
            /\ ifResult' = [NoResult EXCEPT !.type = "DOCUMENT",
                                            !.documentList = pList]
            /\ pList' = <<>>
    /\ UNCHANGED <<query, context, walk, tempIndex>>

-----------------------------------------------------------------------------
Next ==
    \/ FindRoot \/ FindRootSons \/ StartSearch
    \/ EnterContext \/ VisitDocument \/ LeaveContext \/ NextStep
    \/ AnswerResult \/ ServeHead \/ StartJoin \/ Abort
    \/ JoinNext \/ JoinEnds

Spec == Init /\ [][Next]_vars

\* The server is a single process that runs a search to its end.
FairSpec == Spec /\ WF_vars(Next)
=============================================================================
