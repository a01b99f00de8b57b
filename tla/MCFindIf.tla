------------------------------ MODULE MCFindIf ------------------------------
(***************************************************************************)
(* Model checking of the search: every tree of up to MaxDocuments          *)
(* documents below the root and some with one or two more, and paths of up *)
(* to MaxSteps steps.                                                      *)
(***************************************************************************)
EXTENDS FindIfInv, FiniteSetsExt

CONSTANTS MaxDocuments, MaxSteps, Names

-----------------------------------------------------------------------------
(* The trees.  A tree is given by the depths of its documents in preorder. *)

DepthSequences(n) ==
    {s \in [1 .. n -> 1 .. n] :
        /\ n > 0 => s[1] = 1
        /\ \A k \in 1 .. n - 1 : s[k + 1] <= s[k] + 1}

ParentIn(s, k) ==
    LET above == {j \in 1 .. k - 1 : s[j] < s[k]}
    IN  IF above = {} THEN 0 ELSE Max(above)

ChildrenIn(s, d) == {k \in DOMAIN s : ParentIn(s, k) = d}

LeastOr0(S) == IF S = {} THEN 0 ELSE Min(S)

\* The first document has no element, the others one of a type each.
ElementsOf(d) ==
    LET element == CASE d % 3 = 0 -> [type |-> "BOOLEAN", value |-> TRUE]
                     [] d % 3 = 1 -> [type |-> "TEXT", value |-> <<d>>]
                     [] d % 3 = 2 -> [type |-> "INT", value |-> d]
    IN  IF d = 1 THEN <<>> ELSE [key \in {"e"} |-> element]

TreeOf(s, names) ==
    LET parentOf(k) == IF k = 0 THEN 0 ELSE ParentIn(s, k)
        ds == {0} \cup DOMAIN s
    IN  [parent   |-> [d \in ds |-> parentOf(d)],
         son      |-> [d \in ds |-> LeastOr0(ChildrenIn(s, d))],
         brother  |-> [d \in ds |->
                         IF d = 0 THEN 0
                         ELSE LeastOr0({k \in ChildrenIn(s, parentOf(d)) :
                                          k > d})],
         name     |-> [d \in ds |-> IF d = 0 THEN "root" ELSE names[d]],
         elements |-> [d \in ds |-> ElementsOf(d)],
         id       |-> [d \in ds |-> <<"id", d>>]]

\* Documents that have a brother and a son: the search leaves the son on the
\* stack.
Branching(t) == {d \in DOMAIN t.son : t.son[d] # 0 /\ t.brother[d] # 0}

\* Trees of one document more have the same name everywhere: every document is
\* a match there and the context lists are longest.  Those of two more that
\* branch twice put two documents on the stack, or one after the other.
MCTrees ==
    LET plain(n, name) == {TreeOf(s, [k \in 1 .. n |-> name]) :
                             s \in DepthSequences(n)}
    IN  UNION {{TreeOf(s, names) : s \in DepthSequences(n),
                                   names \in [1 .. n -> Names]} :
                  n \in 0 .. MaxDocuments}
        \cup UNION {plain(MaxDocuments + 1, name) : name \in Names}
        \cup {t \in UNION {plain(MaxDocuments + 2, name) : name \in Names} :
                Cardinality(Branching(t)) = 2}

-----------------------------------------------------------------------------
(* The paths.                                                              *)

ByNumber(n, isInverted) ==
    [type |-> "BY_DOCUMENT_NUMBER", logOp |-> "NONE",
     isInverted |-> isInverted, index |-> n]

ByValue(logOp, operator, n) ==
    [type |-> "BY_ELEMENT_VALUE", logOp |-> logOp, isInverted |-> FALSE,
     key |-> "e", operator |-> operator,
     input |-> [text |-> <<n>>, isTrue |-> FALSE,
                numbers |-> [type \in {"INT", "DOUBLE"} |-> n]]]

Chains ==
    {<<>>, <<ByNumber(0, FALSE)>>, <<ByNumber(0, TRUE)>>,
     <<ByNumber(1, FALSE), ByValue("OR", "EQ_GREATER", 2)>>}

DocumentSteps ==
    [pType : {"ABSOLUTE", "RELATIVE"}, sType : {"DOCUMENT"},
     stepName : Names, pred : Chains]

ElementSteps ==
    [pType : {"ABSOLUTE", "RELATIVE"}, sType : {"ELEMENT"},
     stepName : {"e"}, pred : {<<>>}]

EmptyPaths ==
    {<<[pType |-> t, sType |-> "DOCUMENT", stepName |-> "", pred |-> <<>>]>> :
        t \in {"ABSOLUTE", "RELATIVE"}}

\* element_step is always last (zgdb.c:605).
MCPaths ==
    EmptyPaths \cup
    UNION {{Append(prefix, last) : prefix \in [1 .. n - 1 -> DocumentSteps],
                                   last \in DocumentSteps \cup ElementSteps} :
              n \in 1 .. MaxSteps}
=============================================================================
