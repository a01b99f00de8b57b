----------------------------- MODULE XmlRequest -----------------------------
(***************************************************************************)
(* The server's half of a request (zgdbServer/xml/zgdbXmlRequest.c): the   *)
(* XML the client has sent becomes an operation on the storage core, whose *)
(* outcome becomes an answer that the client prints.  The search itself is *)
(* the module FindIf, the operations are those of ZgdbStore; here a search *)
(* has one of four outcomes and an operation one of its statuses.          *)
(*                                                                         *)
(* The predicate of a path step is decoded into a variable of the block    *)
(* that decodes it, and the step keeps a pointer to it: after that the     *)
(* predicate is Dangling, and what a search makes of it is open.           *)
(***************************************************************************)
EXTENDS Zpath

VARIABLES
    request,  \* the XML received
    decoded,  \* the arguments of the operation, as decoded from it
    found,    \* the outcome of the search
    served,   \* the operation carried out, Nothing if none
    status,   \* what it returned
    printed   \* what the client prints: a heading and a line

server == <<request, decoded, found, served, status, printed>>
vars   == <<parser, pc, server>>

NoNode == Node("none", <<>>, <<>>)

Init ==
    /\ ZpathInit
    /\ request = NoNode
    /\ decoded = Nothing
    /\ found = "none"
    /\ served = Nothing
    /\ status = "none"
    /\ printed = <<"", "">>

\* The client sends; Wire models how the request arrives.
Send ==
    /\ pc = "send"
    /\ request' = RequestXml
    /\ pc' = "decode"
    /\ UNCHANGED <<parser, decoded, found, served, status, printed>>

-----------------------------------------------------------------------------
(* Decoding.                                                               *)

\* xmlGetProp
Prop(node, attribute) ==
    IF attribute \in DOMAIN node.attributes THEN node.attributes[attribute]
    ELSE "NULL"

\* xmlNodeGetContent of a node without grandchildren of interest.
Content(node) ==
    IF node.children # <<>> /\ node.children[1].name = "text"
    THEN node.children[1].attributes.content ELSE ""

\* The first of some siblings that findNodeByName's loop does not pass by.
Stop(nodes, nodeName) ==
    LET stops == {i \in DOMAIN nodes : \/ nodes[i].name = nodeName
                                       \/ nodes[i].children # <<>>}
    IN  IF stops = {} THEN NoNode
        ELSE nodes[CHOOSE i \in stops : \A j \in stops : i <= j]

\* Unless it has the name, the loop goes down to its children: intNode is
\* found among them, and if there is none, the loop goes on behind the first
\* child and never comes back.
Found(node, nodeName, intNode, further) ==
    IF node = NoNode \/ node.name = nodeName THEN node
    ELSE IF intNode # NoNode THEN intNode
    ELSE further

\* findNodeByName on siblings of the depth that a request has below them.
FindInLeaves(nodes, nodeName) == Stop(nodes, nodeName)

FindInParts(nodes, nodeName) ==
    LET node == Stop(nodes, nodeName) IN
    Found(node, nodeName, FindInLeaves(node.children, nodeName),
          FindInLeaves(Tail(node.children), nodeName))

FindInSteps(nodes, nodeName) ==
    LET node == Stop(nodes, nodeName) IN
    Found(node, nodeName, FindInParts(node.children, nodeName),
          FindInParts(Tail(node.children), nodeName))

FindInArguments(nodes, nodeName) ==
    LET node == Stop(nodes, nodeName) IN
    Found(node, nodeName, FindInSteps(node.children, nodeName),
          FindInSteps(Tail(node.children), nodeName))

FindNodeByName(nodes, nodeName) ==
    LET node == Stop(nodes, nodeName) IN
    Found(node, nodeName, FindInArguments(node.children, nodeName),
          FindInArguments(Tail(node.children), nodeName))

\* Mutant: the texts of LESS and EQ_LESS are mixed up.
CompOperatorSwapped(t) ==
    CASE t = "LE" -> "EQ_LESS" [] t = "EQ_LE" -> "LESS"
      [] OTHER -> CHOOSE o \in DOMAIN compOperators : compOperators[o] = t

\* getCompOperator
CompOperator(t) == CHOOSE o \in DOMAIN compOperators : compOperators[o] = t

DecodedTest(element) ==
    CASE Prop(element, "type") = "BY_DOCUMENT_NUMBER" ->
            [type |-> "BY_DOCUMENT_NUMBER", index |-> Prop(element, "index")]
      [] Prop(element, "type") = "BY_ELEMENT_VALUE" ->
            [type |-> "BY_ELEMENT_VALUE", key |-> Prop(element, "key"),
             operator |-> CompOperator(Prop(element, "compOperator")),
             input |-> Prop(element, "value")]
      [] Prop(element, "type") = "BY_ELEMENT" ->
            [type |-> "BY_ELEMENT", key1 |-> Prop(element, "key1"),
             operator |-> CompOperator(Prop(element, "compOperator")),
             key2 |-> Prop(element, "key2")]

DecodedPredicate(element) ==
    [logOp |-> Prop(element, "logOp"),
     isInverted |-> Prop(element, "inverted") = "1",
     test |-> DecodedTest(element)]

\* createPredicateFromXml
PredicateFromXml(node) ==
    [k \in 1 .. Prop(node, "size") |-> DecodedPredicate(node.children[k])]

\* It copies the keys of a BY_ELEMENT from NULL.
CopiesNull(chain) ==
    \E k \in DOMAIN chain :
        /\ chain[k].test.type = "BY_ELEMENT"
        /\ "NULL" \in {chain[k].test.key1, chain[k].test.key2}

Dangling == <<[logOp |-> "dangling"]>>

\* createPathFromXml: every step looks for the predicate from the path's
\* node, where the first step's is found.
StepPredicate(pathNode) ==
    FindNodeByName(<<pathNode>>, "predicate")

StepFromXml(pathNode, node) ==
    [pType |-> Prop(node, "pathType"), sType |-> Prop(node, "stepType"),
     stepName |-> Content(node),
     pred |-> IF Prop(StepPredicate(pathNode), "size") = 0 THEN <<>>
              ELSE Dangling]

PathFromXml(pathNode) ==
    [k \in DOMAIN pathNode.children |->
        StepFromXml(pathNode, pathNode.children[k])]

\* str2boolean knows "true" only; the other conversions lose nothing more.
ValueFromXml(node) ==
    LET value == Prop(node, "value") IN
    <<Prop(node, "type"),
      IF Prop(node, "type") = "BOOL" THEN value = "true" ELSE value>>

\* addXToSchema refuses the key "id" and a key twice; the refusal is ignored.
AddToSchema(schema, node) ==
    IF \/ Prop(node, "key") = "id"
       \/ \E k \in DOMAIN schema : schema[k].key = Prop(node, "key")
    THEN schema
    ELSE Append(schema, [key |-> Prop(node, "key"),
                         value |-> ValueFromXml(node)])

\* The schema after each of the nodes.
SchemaAfter(nodes) ==
    LET schema[k \in 0 .. Len(nodes)] ==
            IF k = 0 THEN <<>> ELSE AddToSchema(schema[k - 1], nodes[k])
    IN  schema

SchemaFromXml(node) == SchemaAfter(node.children)[Len(node.children)]

root == <<request>>

SchemaNode == FindNodeByName(root, "schema")

PathNode == request.children[Len(request.children)]

\* What executeXxxFromXml decodes before it searches.
DecodeRequest ==
    /\ pc = "decode"
    /\ IF CopiesNull(PredicateFromXml(StepPredicate(PathNode)))
       THEN pc' = "aborted" /\ UNCHANGED decoded
       ELSE /\ pc' = "search"
            /\ decoded' =
                  [Nothing EXCEPT
                      !.type = Prop(request, "type"),
                      !.docName = Content(FindNodeByName(root, "document")),
                      !.schema = SchemaFromXml(SchemaNode),
                      !.path = PathFromXml(PathNode)]
    /\ UNCHANGED <<parser, request, found, served, status, printed>>

-----------------------------------------------------------------------------
(* findIfFromRoot, destroyPath and the operation.                          *)

\* UNDEFINED_RESULT, a list of documents that may be empty, or elements.
Outcomes == {"UNDEFINED", "DOCUMENT", "EMPTY", "ELEMENT"}

HasDangling == \E k \in DOMAIN decoded.path : decoded.path[k].pred = Dangling

\* The path "" of one step: findIf0 returns the root, or joins its children,
\* without a look at the predicate.
IsEmptyPath(path) ==
    /\ Len(path) = 1
    /\ path[1].sType = "doc"
    /\ path[1].stepName = ""

NamesRoot(path) == IsEmptyPath(path) /\ path[1].pType = "abs"

OutcomesOf(path) ==
    IF NamesRoot(path) THEN {"DOCUMENT"}
    ELSE IF IsEmptyPath(path) THEN {"DOCUMENT", "EMPTY"}
    ELSE Outcomes

\* JOIN and PARENT do not destroy the path.
DestroysPath == decoded.type \notin {"join", "parent"}

Search ==
    /\ pc = "search"
    /\ found' \in OutcomesOf(decoded.path)
    /\ \/ pc' = IF DestroysPath THEN "destroyPath" ELSE "serve"
       \/ HasDangling /\ ~ IsEmptyPath(decoded.path) /\ pc' = "aborted"
    /\ UNCHANGED <<parser, request, decoded, served, status, printed>>

\* A dangling predicate is not on the heap: free aborts.
DestroyPath ==
    /\ pc = "destroyPath"
    /\ pc' = IF HasDangling THEN "aborted" ELSE "serve"
    /\ UNCHANGED <<parser, server>>

HasHead == found = "DOCUMENT"

Return(operation, result) ==
    /\ served' = operation
    /\ status' = result
    /\ pc' = "answer"
    /\ UNCHANGED <<parser, request, decoded, found, printed>>

\* createDocument refuses a schema that lacks elements.
ServeAdd ==
    /\ pc = "serve"
    /\ decoded.type = "add"
    /\ HasHead
    /\ IF Len(decoded.schema) = Prop(SchemaNode, "size")
       THEN Return(decoded, "CREATE_OK")
       ELSE Return(Nothing, "OUT_OF_INDEX")

\* Mutant: DELETE does not look at the type of the result.
ChecksUpdateOnly == decoded.type = "update"

ChecksResult == decoded.type \in {"delete", "update"}

NotFound ==
    /\ pc = "serve"
    /\ ChecksResult
    /\ found = "UNDEFINED"
    /\ Return(Nothing, IF decoded.type = "delete" THEN "UNDEFINED_RESULT"
                       ELSE "DOCUMENT_NOT_FOUND")

\* The root is not deleted (del looks at isRoot); its children are unlinked
\* and killed from a stale son, which ZgdbStore leaves out.  The status is
\* that of the search all the same.
ServeDelete ==
    /\ pc = "serve"
    /\ decoded.type = "delete"
    /\ HasHead
    /\ Return(IF NamesRoot(decoded.path) THEN Nothing ELSE decoded,
              "DOCUMENT_RESULT")

\* updateElement may refuse the element or the value.  A text that outgrows
\* its toast takes an index without looking whether there is one left
\* (createNewToast).
ServeUpdate ==
    LET element == request.children[1]
        arguments == [decoded EXCEPT !.elName = Prop(element, "name"),
                                     !.value = Prop(element, "newValue")]
    IN
    /\ pc = "serve"
    /\ decoded.type = "update"
    /\ HasHead
    /\ \/ Return(arguments, "UPDATE_OK")
       \/ \E refusal \in {"ELEMENT_NOT_FOUND", "TYPE_PARSE_ERROR",
                          "INVALID_NAME"} : Return(Nothing, refusal)
       \/ pc' = "aborted" /\ UNCHANGED <<parser, server>>

ServeFind ==
    /\ pc = "serve"
    /\ decoded.type = "find"
    /\ Return(decoded,
              CASE found = "UNDEFINED" -> "UNDEFINED_RESULT"
                [] found = "ELEMENT" -> "ELEMENT_RESULT"
                [] OTHER -> "DOCUMENT_RESULT")

JoinPredicate == PredicateFromXml(FindNodeByName(root, "predicate"))

ServeJoin ==
    /\ pc = "serve"
    /\ decoded.type = "join"
    /\ HasHead
    /\ ~ CopiesNull(JoinPredicate)
    /\ Return([decoded EXCEPT !.pred = JoinPredicate], "RESULT_LIST")

ServeParent ==
    /\ pc = "serve"
    /\ decoded.type = "parent"
    /\ HasHead
    /\ Return(decoded, "RESULT_LIST")

\* documentList.head is NULL, or a key of JOIN's predicate is.
ServeAborts ==
    /\ pc = "serve"
    /\ decoded.type # "find"
    /\ \/ ~ HasHead /\ ~ (ChecksResult /\ found = "UNDEFINED")
       \/ decoded.type = "join" /\ CopiesNull(JoinPredicate)
    /\ pc' = "aborted"
    /\ UNCHANGED <<parser, server>>

Serve ==
    \/ ServeAdd \/ NotFound \/ ServeDelete \/ ServeUpdate \/ ServeFind
    \/ ServeJoin \/ ServeParent \/ ServeAborts

-----------------------------------------------------------------------------
(* The answer, and printAnswer.                                            *)

AnswerTypes ==
    [add |-> "createStatus", delete |-> "deleteStatus",
     update |-> "updateStatus", find |-> "findStatus", join |-> "joinStatus",
     parent |-> "parentStatus"]

\* Mutant: a deletion is announced whatever was found.
InfoDeleted ==
    [CREATE_OK |-> "CREATE OK", OUT_OF_INDEX |-> "OUT OF INDEX",
     UNDEFINED_RESULT |-> IF decoded.type = "delete" THEN "DOCUMENT DELETED"
                          ELSE "UNDEFINED RESULT",
     DOCUMENT_RESULT |-> IF decoded.type = "delete" THEN "DOCUMENT DELETED"
                         ELSE "DOCUMENT",
     ELEMENT_RESULT |-> "ELEMENT", UPDATE_OK |-> "UPDATE OK",
     ELEMENT_NOT_FOUND |-> "ELEMENT NOT FOUND",
     TYPE_PARSE_ERROR |-> "TYPE PARSE ERROR", INVALID_NAME |-> "INVALID NAME",
     DOCUMENT_NOT_FOUND |-> "DOCUMENT NOT FOUND", RESULT_LIST |-> "DOCUMENT"]

\* The content of the answer's first child.
Info ==
    [CREATE_OK |-> "CREATE OK", OUT_OF_INDEX |-> "OUT OF INDEX",
     UNDEFINED_RESULT |-> IF decoded.type = "delete" THEN "DOCUMENT NOT FOUND"
                          ELSE "UNDEFINED RESULT",
     DOCUMENT_RESULT |-> IF decoded.type = "delete" THEN "DOCUMENT DELETED"
                         ELSE "DOCUMENT",
     ELEMENT_RESULT |-> "ELEMENT", UPDATE_OK |-> "UPDATE OK",
     ELEMENT_NOT_FOUND |-> "ELEMENT NOT FOUND",
     TYPE_PARSE_ERROR |-> "TYPE PARSE ERROR", INVALID_NAME |-> "INVALID NAME",
     DOCUMENT_NOT_FOUND |-> "DOCUMENT NOT FOUND", RESULT_LIST |-> "DOCUMENT"]

Headings ==
    [createStatus |-> "CREATE", deleteStatus |-> "DELETE",
     updateStatus |-> "UPDATE", findStatus |-> "FIND", joinStatus |-> "JOIN",
     parentStatus |-> "PARENT"]

Answer ==
    /\ pc = "answer"
    /\ printed' = <<Headings[AnswerTypes[decoded.type]], Info[status]>>
    /\ pc' = "printed"
    /\ UNCHANGED <<parser, request, decoded, found, served, status>>

Next ==
    \/ Parse /\ UNCHANGED server
    \/ Send \/ DecodeRequest \/ Search \/ DestroyPath \/ Serve \/ Answer

Spec == Init /\ [][Next]_vars
=============================================================================
