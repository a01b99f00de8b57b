---------------------------- MODULE MCXmlRequest ----------------------------
(***************************************************************************)
(* Model checking of the requests: ADD with up to two elements of every    *)
(* type, numbers whole or not; chains of up to two predicates with every   *)
(* test and operator behind JOIN, shorter lists of tests on up to two      *)
(* steps, and JOIN with predicates both on itself and on its path.         *)
(***************************************************************************)
EXTENDS XmlRequestInv

CONSTANTS Names, Keys, Numbers

Elements ==
    {[key |-> key, value |-> value] :
        key \in Keys,
        value \in ({"INT", "DBL"} \X Numbers)
                  \cup ({"BOOL"} \X {"true", "yes"}) \cup {<<"STR", "v">>}}

Schemas == {<<e>> : e \in Elements} \cup (Elements \X Elements)

-----------------------------------------------------------------------------
(* Predicates.                                                             *)

ByNumber == [type |-> "BY_DOCUMENT_NUMBER", index |-> 0]

ByValue(operator) ==
    [type |-> "BY_ELEMENT_VALUE", key |-> "k", operator |-> operator,
     input |-> "v"]

ByElement(operator) ==
    [type |-> "BY_ELEMENT", key1 |-> "k", operator |-> operator, key2 |-> "l"]

AllTests ==
    {ByNumber, ByElement("EQUALS")}
    \cup {ByValue(operator) : operator \in DOMAIN compOperators}

Written(isInverted, test, connective) ==
    [not |-> isInverted, test |-> test, connective |-> connective]

ChainsOf(tests) ==
    {<<Written(i, t, "END")>> : i \in BOOLEAN, t \in tests}
    \cup
    {<<Written(i, s, c), Written(FALSE, t, "END")>> :
        i \in BOOLEAN, s \in tests, t \in tests, c \in {"AND", "OR"}}

FewTests == {ByNumber, ByElement("LESS")}

-----------------------------------------------------------------------------
(* Paths and texts.                                                        *)

Steps(predicates) ==
    {[pType |-> p, sType |-> "doc", stepName |-> n, pred |-> chain] :
        p \in {"abs", "rel"}, n \in Names, chain \in predicates}

ElementSteps ==
    {[pType |-> p, sType |-> "el", stepName |-> "k", pred |-> <<>>] :
        p \in {"abs", "rel"}}

PathsOf(S) == {<<s>> : s \in S} \cup (S \X S)

PlainPaths == PathsOf(Steps({<<>>}) \cup ElementSteps)

OneStep == {<<s>> : s \in Steps({<<>>})}

PredicatePaths ==
    PathsOf({s \in Steps(ChainsOf(FewTests) \cup {<<>>}) :
                s.pType = "abs" /\ s.stepName = "a"})

MCTexts ==
    {[Nothing EXCEPT !.type = "add", !.docName = n, !.schema = schema,
                     !.path = path] :
        n \in Names, schema \in Schemas, path \in OneStep}
    \cup
    {[Nothing EXCEPT !.type = t, !.path = path] :
        t \in {"delete", "find", "parent"},
        path \in PlainPaths \cup PredicatePaths}
    \cup
    {[Nothing EXCEPT !.type = "update", !.elName = "k", !.value = "v",
                     !.path = path] :
        path \in PlainPaths}
    \cup
    {[Nothing EXCEPT !.type = "join", !.pred = chain, !.path = path] :
        chain \in ChainsOf(AllTests) \cup {<<>>}, path \in OneStep}
    \cup
    {[Nothing EXCEPT !.type = "join", !.pred = chain, !.path = path] :
        chain \in ChainsOf(FewTests), path \in PredicatePaths}
=============================================================================
