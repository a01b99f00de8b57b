--------------------------- MODULE XmlRequestInv ----------------------------
(***************************************************************************)
(* What a request keeps on its way from the user's keyboard to the storage *)
(* core and back: what a text means is defined here from the text alone.   *)
(***************************************************************************)
EXTENDS XmlRequest

\* A predicate is linked to the one before it by the connective typed there.
MeaningOfChain(chain) ==
    [k \in DOMAIN chain |->
        [logOp |-> IF k = 1 THEN "NONE" ELSE chain[k - 1].connective,
         isInverted |-> chain[k].not,
         test |-> chain[k].test]]

MeaningOfPath(path) ==
    [k \in DOMAIN path |->
        [path[k] EXCEPT !.pred = MeaningOfChain(@)]]

MeaningOfValue(value) ==
    <<value[1], CASE value[1] = "INT" -> value[2] \div ONE
                  [] value[1] = "BOOL" -> value[2] = "true"
                  [] OTHER -> value[2]>>

MeaningOfSchema(schema) ==
    [k \in DOMAIN schema |->
        [schema[k] EXCEPT !.value = MeaningOfValue(@)]]

Fields(type, docName, schema, elName, value, pred, path) ==
    [type |-> type, docName |-> docName, schema |-> schema,
     elName |-> elName, value |-> value, pred |-> pred, path |-> path]

Meaning(t) ==
    Fields(t.type, t.docName, MeaningOfSchema(t.schema), t.elName, t.value,
           MeaningOfChain(t.pred), MeaningOfPath(t.path))

-----------------------------------------------------------------------------
(* Helpers of the properties.                                              *)

\* What is known to be lost: true, and what "%f" does not print.
ArrivedValue(value) ==
    <<value[1], CASE value[1] = "DBL" -> Rounded(value[2])
                  [] value[1] = "BOOL" -> FALSE
                  [] OTHER -> value[2]>>

ArrivedSchema(schema) ==
    [k \in DOMAIN schema |->
        [schema[k] EXCEPT !.value = ArrivedValue(MeaningOfValue(@))]]

Arrived(t) == [Meaning(t) EXCEPT !.schema = ArrivedSchema(t.schema)]

HasKeyTwice(schema) ==
    \E j, k \in DOMAIN schema : j # k /\ schema[j].key = schema[k].key

HasReservedKey(schema) == \E k \in DOMAIN schema : schema[k].key = "id"

FirstStepHasPredicates == text.path[1].pred # <<>>

DeletesRoot == text.type = "delete" /\ NamesRoot(text.path)

ComparesElements(chain) ==
    \E k \in DOMAIN chain : chain[k].test.type = "BY_ELEMENT"

-----------------------------------------------------------------------------
(* Properties.                                                             *)

\* Types of the parser's flags and of what the server hands out: the
\* connective remembered between two predicates is one (parser.y:118-125),
\* and an operation that was carried out has a status the answer knows
\* (zgdbXmlRequest.c:332-459).
TypeOK ==
    /\ isFirstPred \in BOOLEAN
    /\ symbolValue \in {"NONE", "AND", "OR"}
    /\ found \in Outcomes \cup {"none"}
    /\ served.type \in RequestTypes \cup {"none"}
    /\ status \in DOMAIN Info \cup {"none"}
    /\ pc \in {"command", "schema", "joinPredicates", "path", "predicates",
               "addStep", "send", "decode", "search", "destroyPath", "serve",
               "answer", "printed", "rejected", "aborted"}

\* The AST a request is sent from says what the user typed: every predicate
\* is on the chain it was typed in, behind its own connective, although the
\* connective of the next one has been read by then, and the chain of JOIN
\* and those of the steps share isFirstPred and symbolValue
\* (parser.y:118-122, 319-351).  The first of a chain, and no other, has NONE
\* (zgdbfilter.h:29): the server initialises a chain's result on NONE only.
\* A text is rejected only on account of a number of the other type, whatever
\* the parser has read before and behind it (parser.y:78-79).
ParsedAsWritten ==
    /\ pc = "send" => tree = Meaning(text)
    /\ pc = "rejected" =>
          \E k \in DOMAIN text.schema : ~ FitsSchema(text.schema[k].value)

\* An operation that is carried out is the one the user asked for: the same
\* documents' names, elements in their order, path and JOIN predicates reach
\* the core, with the losses of ArrivedValue; for requests whose first step
\* has no predicate and whose paths are therefore decoded without one.
RequestArrives ==
    served # Nothing /\ ~ FirstStepHasPredicates =>
        served = [Arrived(text) EXCEPT
                    !.path = [k \in DOMAIN @ |-> [@[k] EXCEPT !.pred = <<>>]]]

\* The server goes down, and ADD refuses, for these reasons only: a predicate
\* on a step (zgdbXmlRequest.c:150), a result without a document where one is
\* taken (219, 240, 264, 309, 329), two elements compared (96), or an UPDATE
\* that has found its document, whose text may need a toast when no index is
\* left for one (264, zgdb.c:773: AbortsOnlyWhenExhausted of ZgdbStoreInv); a
\* key used twice or reserved (zgdb.c:133).
FailuresHaveCauses ==
    /\ pc = "aborted" =>
        \/ FirstStepHasPredicates
        \/ text.type \in {"add", "join", "parent"} /\ found # "DOCUMENT"
        \/ text.type \in {"delete", "update"} /\ found \in {"EMPTY", "ELEMENT"}
        \/ text.type = "update" /\ found = "DOCUMENT"
        \/ ComparesElements(text.pred)
    /\ status = "OUT_OF_INDEX" =>
        HasKeyTwice(text.schema) \/ HasReservedKey(text.schema)

\* What the client prints tells what happened: a creation, a deletion or an
\* update is announced exactly if it was carried out, under the heading of
\* the request the user made.  The one exception is the DELETE of the root,
\* which is announced although the root is never deleted (zgdb.c:211).
AnswerTellsOutcome ==
    pc = "printed" =>
        /\ printed[1] = Headings[AnswerTypes[text.type]]
        /\ text.type \in {"add", "delete", "update"} =>
              (served # Nothing \/ DeletesRoot <=>
                 printed[2] \in {"CREATE OK", "DOCUMENT DELETED",
                                 "UPDATE OK"})

\* zgdbServer/README.md:57: selection by number or by conditions on elements
\* is supported in paths.  Violated: the search is given the address of a
\* variable that is gone (zgdbXmlRequest.c:146-152).
StepPredicatesArrive ==
    pc = "search" =>
        \A k \in DOMAIN decoded.path :
            decoded.path[k].pred = Meaning(text).path[k].pred

-----------------------------------------------------------------------------
(* The inductive invariant.  The parser: what it has read is in the tree,  *)
(* with the meaning it has in the whole text, and the rest is unread.      *)

Parsing ==
    {"command", "schema", "joinPredicates", "path", "predicates", "addStep"}

Serving ==
    {"decode", "search", "destroyPath", "serve", "answer", "printed",
     "aborted"}

Prefix(s, n) == [k \in 1 .. n |-> s[k]]

IsRest(rest, whole) ==
    /\ Len(rest) <= Len(whole)
    /\ \A k \in DOMAIN rest : rest[k] = whole[Len(whole) - Len(rest) + k]

Done(rest, whole) == Len(whole) - Len(rest)

\* The step being parsed, as written.
Step == text.path[Done(unread.path, text.path) + 1]

UnreadInv ==
    /\ IsRequest(text)
    /\ unread \in [type : RequestTypes, docName : STRING,
                   schema : Seq([key : STRING, value : SchemaValues]),
                   elName : STRING, value : STRING, pred : Seq(Predicates),
                   path : Seq([pType : {"abs", "rel"}, sType : {"doc", "el"},
                               stepName : STRING, pred : Seq(Predicates)])]
    /\ IsRest(unread.schema, text.schema)
    /\ IsRest(unread.pred, text.pred)
    /\ Len(unread.path) <= Len(text.path)
    /\ \A k \in DOMAIN unread.path :
          k > 1 \/ pc \notin {"predicates", "addStep"} =>
              unread.path[k] = text.path[Done(unread.path, text.path) + k]

\* What has been parsed before what is being parsed.
OrderInv ==
    /\ pc = "command" =>
          unread = text /\ tree = Nothing /\ isFirstPred
    /\ pc = "schema" <=>
          pc \notin {"command", "rejected"} /\ unread.schema # <<>>
    /\ pc = "joinPredicates" <=>
          pc \notin {"command", "schema", "rejected"} /\ unread.pred # <<>>
    /\ pc \in Parsing => unread.path # <<>>
    /\ pc \in {"send"} \cup Serving => unread.path = <<>>

\* The tree of the first i elements, j predicates and k steps of the text.
TreeOf(i, j, k) ==
    Fields(text.type, text.docName, Prefix(MeaningOfSchema(text.schema), i),
           text.elName, text.value, Prefix(MeaningOfChain(text.pred), j),
           Prefix(MeaningOfPath(text.path), k))

TreeInv ==
    pc \notin {"command", "rejected"} =>
        tree = TreeOf(Done(unread.schema, text.schema),
                      Done(unread.pred, text.pred),
                      Done(unread.path, text.path))

\* The parser stands in a chain of predicates, n of which it has read.
InChain(chain, n) ==
    /\ isFirstPred <=> n = 0
    /\ n # 0 => symbolValue = chain[n].connective

ChainInv ==
    /\ pc = "joinPredicates" =>
          InChain(text.pred, Done(unread.pred, text.pred))
    /\ pc = "predicates" =>
          LET rest == unread.path[1].pred IN
          /\ rest # <<>>
          /\ IsRest(rest, Step.pred)
          /\ InChain(Step.pred, Done(rest, Step.pred))
          /\ aStep = [Step EXCEPT !.pred = Prefix(MeaningOfChain(Step.pred),
                                                  Done(rest, Step.pred))]
    /\ pc = "addStep" =>
          aStep = [Step EXCEPT !.pred = MeaningOfChain(Step.pred)]

ParserInv == UnreadInv /\ OrderInv /\ TreeInv /\ ChainInv

-----------------------------------------------------------------------------
(* The server: each value it keeps follows from the tree that was sent,    *)
(* and from the outcome of the search.                                     *)

\* A predicate of the first step is taken for one of every step.
DecodedPath ==
    [k \in DOMAIN text.path |->
        [text.path[k] EXCEPT
            !.pred = IF FirstStepHasPredicates THEN Dangling ELSE <<>>]]

\* Elements are lost if, and only if, they must be.
SchemaInv ==
    IF HasKeyTwice(text.schema) \/ HasReservedKey(text.schema)
    THEN Len(decoded.schema) # Len(text.schema)
    ELSE decoded.schema = ArrivedSchema(text.schema)

DecodedInv ==
    IF pc \in Parsing \cup {"send", "decode", "rejected"}
    THEN decoded = Nothing
    ELSE \/ pc = "aborted" /\ decoded = Nothing
         \/ /\ decoded = Fields(text.type, text.docName, decoded.schema,
                                "", "", <<>>, DecodedPath)
            /\ SchemaInv

FoundInv ==
    /\ IF pc \in {"destroyPath", "serve", "answer", "printed"}
       THEN found \in Outcomes
       ELSE found \in Outcomes \cup {"none"}
    /\ NamesRoot(text.path) => found \in {"DOCUMENT", "none"}

\* The operation the user asked for, as far as it can be decoded.
Asked ==
    Fields(text.type, text.docName, decoded.schema, text.elName, text.value,
           MeaningOfChain(text.pred), DecodedPath)

\* What an operation gets, and what it returns.
IsOutcome(operation, result) ==
    \/ /\ operation = Nothing
       /\ \/ text.type = "add" /\ result = "OUT_OF_INDEX"
             /\ Len(decoded.schema) # Len(text.schema)
          \/ text.type = "delete" /\ ~ DeletesRoot
             /\ result = "UNDEFINED_RESULT"
          \/ DeletesRoot /\ result = "DOCUMENT_RESULT"
          \/ text.type = "update"
             /\ result \in {"DOCUMENT_NOT_FOUND", "ELEMENT_NOT_FOUND",
                            "TYPE_PARSE_ERROR", "INVALID_NAME"}
    \/ /\ operation = Asked
       /\ \/ text.type = "add" /\ result = "CREATE_OK"
             /\ Len(decoded.schema) = Len(text.schema)
          \/ text.type = "delete" /\ ~ DeletesRoot
             /\ result = "DOCUMENT_RESULT"
          \/ text.type = "update" /\ result = "UPDATE_OK"
          \/ text.type = "find"
             /\ result \in {"UNDEFINED_RESULT", "ELEMENT_RESULT",
                            "DOCUMENT_RESULT"}
          \/ text.type \in {"join", "parent"} /\ result = "RESULT_LIST"

ServedInv ==
    IF pc \in {"answer", "printed"} THEN IsOutcome(served, status)
    ELSE served = Nothing /\ status = "none"

PrintedInv ==
    pc = "printed" =>
        printed = <<Headings[AnswerTypes[text.type]], Info[status]>>

ServerInv ==
    /\ pc \in Serving => request = RequestXml
    /\ DecodedInv /\ FoundInv /\ ServedInv /\ PrintedInv

IInv == TypeOK /\ FailuresHaveCauses /\ ParserInv /\ ServerInv
=============================================================================
