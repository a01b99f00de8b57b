------------------------------- MODULE Zpath --------------------------------
(***************************************************************************)
(* The client's half of a request: yyparse with the semantic actions of    *)
(* zpathClient/parser.y, which build the AST, and zpathXml.c, which turns  *)
(* it into XML.  A client parses one request and ends.                     *)
(*                                                                         *)
(* A text is what the user types, cut at the grammar's symbols: names,     *)
(* strings and numbers are values.  A predicate of a text carries the      *)
(* connective typed behind it, "END" when there is none; in the AST every  *)
(* predicate but the first carries the connective in front of it.  Numbers *)
(* are counted in parts of ONE.  The nodes of the AST are malloced and not *)
(* cleared: their links are NULL, as the memory of a process is that has   *)
(* freed nothing yet.                                                      *)
(***************************************************************************)
EXTENDS Integers, Sequences

CONSTANTS
    Texts,    \* the requests users may type
    ONE,      \* the number 1
    PRINTED   \* the least fraction that "%f" prints

compOperators ==
    [EQUALS |-> "EQ", NOT_EQUALS |-> "NEQ", GREATER |-> "GR", LESS |-> "LE",
     EQ_GREATER |-> "EQ_GR", EQ_LESS |-> "EQ_LE", CONTAINS |-> "contains"]

RequestTypes == {"add", "delete", "update", "find", "join", "parent"}

\* What the grammar derives: predicate, predicates or jpredicates, entry.
Tests ==
    [type : {"BY_DOCUMENT_NUMBER"}, index : Nat]
    \cup [type : {"BY_ELEMENT_VALUE"}, key : STRING,
          operator : DOMAIN compOperators, input : STRING]
    \cup [type : {"BY_ELEMENT"}, key1 : STRING,
          operator : DOMAIN compOperators, key2 : STRING]

Predicates ==
    [not : BOOLEAN, test : Tests, connective : {"AND", "OR", "END"}]

Chains ==
    {chain \in Seq(Predicates) :
        \A k \in DOMAIN chain :
            chain[k].connective = "END" <=> k = Len(chain)}

EntrySteps ==
    [pType : {"abs", "rel"}, sType : {"doc"}, stepName : STRING,
     pred : Chains]
    \cup [pType : {"abs", "rel"}, sType : {"el"}, stepName : STRING,
          pred : {<<>>}]

SchemaValues ==
    ({"INT", "DBL"} \X Nat) \cup ({"BOOL", "STR"} \X STRING)

\* zpath: a schema stands behind ADD only, and predicates behind JOIN.
IsRequest(t) ==
    /\ t \in [type : RequestTypes, docName : STRING,
              schema : Seq([key : STRING, value : SchemaValues]),
              elName : STRING, value : STRING, pred : Chains,
              path : Seq(EntrySteps) \ {<<>>}]
    /\ IF t.type = "add" THEN t.schema # <<>>
       ELSE t.schema = <<>> /\ t.docName = ""
    /\ t.type # "update" => t.elName = "" /\ t.value = ""
    /\ t.type # "join" => t.pred = <<>>

ASSUME ZpathAssumption ==
    /\ {ONE, PRINTED} \subseteq Nat \ {0}
    /\ \A t \in Texts : IsRequest(t)

VARIABLES
    text,         \* what the user has typed
    unread,       \* the part yyparse has not reduced yet
    tree,         \* the AST
    aStep,        \* the step being parsed
    isFirstPred,  \* its next predicate is its first
    symbolValue,  \* the connective read last
    pc            \* where client and server are

parser == <<text, unread, tree, aStep, isFirstPred, symbolValue>>

\* emptyTree; a text has the same fields.
Nothing ==
    [type |-> "none", docName |-> "", schema |-> <<>>, elName |-> "",
     value |-> "", pred |-> <<>>, path |-> <<>>]

EmptyStep ==
    [pType |-> "abs", sType |-> "doc", stepName |-> "", pred |-> <<>>]

ZpathInit ==
    /\ text \in Texts
    /\ unread = text
    /\ tree = Nothing
    /\ aStep = EmptyStep
    /\ isFirstPred = TRUE
    /\ symbolValue = "NONE"
    /\ pc = "command"

-----------------------------------------------------------------------------
(* The rules of the grammar, in the order they are reduced.                *)

ParseCommand ==
    /\ pc = "command"
    /\ tree' = [Nothing EXCEPT !.type = text.type, !.docName = text.docName,
                               !.elName = text.elName, !.value = text.value]
    /\ pc' = IF text.type = "add" THEN "schema"
             ELSE IF unread.pred # <<>> THEN "joinPredicates"
             ELSE "path"
    /\ UNCHANGED <<text, unread, aStep, isFirstPred, symbolValue>>

\* The lexer takes a number for a NUMBER if it is whole, however written.
IsNumber(n) == n % ONE = 0

FitsSchema(value) ==
    /\ value[1] = "INT" => IsNumber(value[2])
    /\ value[1] = "DBL" => ~ IsNumber(value[2])

\* addXSchema: a boolean is true when the string is "true".
AstValue(value) ==
    CASE value[1] = "INT" -> <<"INT", value[2] \div ONE>>
      [] value[1] = "BOOL" -> <<"BOOL", value[2] = "true">>
      [] OTHER -> value

ParseElement ==
    LET element == Head(unread.schema) IN
    /\ pc = "schema"
    /\ FitsSchema(element.value)
    /\ tree' = [tree EXCEPT !.schema =
                   Append(@, [element EXCEPT !.value = AstValue(@)])]
    /\ unread' = [unread EXCEPT !.schema = Tail(@)]
    /\ pc' = IF Len(unread.schema) = 1 THEN "path" ELSE "schema"
    /\ UNCHANGED <<text, aStep, isFirstPred, symbolValue>>

\* yyerror: the client closes the connection.
RejectNumber ==
    /\ pc = "schema"
    /\ ~ FitsSchema(Head(unread.schema).value)
    /\ pc' = "rejected"
    /\ UNCHANGED parser

\* fillXPredicate and addPredicate or addJPredicate, for p behind a chain.
Chained(p, connective) ==
    [logOp |-> connective, isInverted |-> p.not, test |-> p.test]

\* Mutant: the connective is remembered before the predicate is added.
AddPredicateLate(chain, p) ==
    IF isFirstPred THEN <<Chained(p, "NONE")>>
    ELSE Append(chain, Chained(p, p.connective))

AddPredicate(chain, p) ==
    IF isFirstPred THEN <<Chained(p, "NONE")>>
    ELSE Append(chain, Chained(p, symbolValue))

\* Mutant: it is read although there is none.
SymbolAlways(p) == p.connective

SymbolBehind(p) == IF p.connective # "END" THEN p.connective ELSE symbolValue

ParseJoinPredicate ==
    LET p == Head(unread.pred) IN
    /\ pc = "joinPredicates"
    /\ tree' = [tree EXCEPT !.pred = AddPredicate(@, p)]
    /\ unread' = [unread EXCEPT !.pred = Tail(@)]
    /\ isFirstPred' = FALSE
    /\ symbolValue' = SymbolBehind(p)
    /\ pc' = IF p.connective = "END" THEN "path" ELSE "joinPredicates"
    /\ UNCHANGED <<text, aStep>>

StartsFirstPred(s) == isFirstPred \/ s.sType = "doc"

ParseEntry ==
    LET s == Head(unread.path) IN
    /\ pc = "path"
    /\ aStep' = [s EXCEPT !.pred = <<>>]
    /\ isFirstPred' = StartsFirstPred(s)
    /\ pc' = IF s.pred # <<>> THEN "predicates" ELSE "addStep"
    /\ UNCHANGED <<text, unread, tree, symbolValue>>

ParsePredicate ==
    LET p == Head(unread.path[1].pred) IN
    /\ pc = "predicates"
    /\ aStep' = [aStep EXCEPT !.pred = AddPredicate(@, p)]
    /\ unread' = [unread EXCEPT !.path[1].pred = Tail(@)]
    /\ isFirstPred' = FALSE
    /\ symbolValue' = SymbolBehind(p)
    /\ pc' = IF p.connective = "END" THEN "addStep" ELSE "predicates"
    /\ UNCHANGED <<text, tree>>

AddStep ==
    /\ pc = "addStep"
    /\ tree' = [tree EXCEPT !.path = Append(@, aStep)]
    /\ unread' = [unread EXCEPT !.path = Tail(@)]
    /\ pc' = IF Len(unread.path) = 1 THEN "send" ELSE "path"
    /\ UNCHANGED <<text, aStep, isFirstPred, symbolValue>>

Parse ==
    \/ ParseCommand \/ ParseElement \/ RejectNumber \/ ParseJoinPredicate
    \/ ParseEntry \/ ParsePredicate \/ AddStep

-----------------------------------------------------------------------------
(* zpathToXml.  A node has attributes and children; the text of a step or  *)
(* of a document is a child of its own, none if it is empty.               *)

Node(name, attributes, children) ==
    [name |-> name, attributes |-> attributes, children |-> children]

TextNodes(content) ==
    IF content = "" THEN <<>>
    ELSE <<Node("text", [content |-> content], <<>>)>>

TestAttributes(test) ==
    CASE test.type = "BY_DOCUMENT_NUMBER" -> test
      [] test.type = "BY_ELEMENT_VALUE" ->
            [type |-> test.type, key |-> test.key, value |-> test.input,
             compOperator |-> compOperators[test.operator]]
      [] test.type = "BY_ELEMENT" ->
            [type |-> test.type, element1 |-> test.key1,
             element2 |-> test.key2,
             compOperator |-> compOperators[test.operator]]

ElementAttributes(p) ==
    LET test == TestAttributes(p.test) IN
    [a \in {"logOp", "inverted"} \cup DOMAIN test |->
        CASE a = "logOp" -> p.logOp
          [] a = "inverted" -> IF p.isInverted THEN "1" ELSE "0"
          [] OTHER -> test[a]]

PredicateElement(p) == Node("predicateElement", ElementAttributes(p), <<>>)

PredicateXml(chain) ==
    Node("predicate", [size |-> Len(chain)],
         [k \in 1 .. Len(chain) |-> PredicateElement(chain[k])])

StepXml(s) ==
    Node("step", [pathType |-> s.pType, stepType |-> s.sType],
         TextNodes(s.stepName) \o <<PredicateXml(s.pred)>>)

PathXml(path) ==
    Node("path", [size |-> Len(path)],
         [k \in 1 .. Len(path) |-> StepXml(path[k])])

Rounded(n) == ((n + PRINTED \div 2) \div PRINTED) * PRINTED

\* sprintf with "%d" and "%f".
ValueText(value) ==
    CASE value[1] = "DBL" -> Rounded(value[2])
      [] value[1] = "BOOL" -> IF value[2] THEN "1" ELSE "0"
      [] OTHER -> value[2]

SchemaElement(element) ==
    Node("schemaElement",
         [type |-> element.value[1], key |-> element.key,
          value |-> ValueText(element.value)],
         <<>>)

SchemaXml(schema) ==
    Node("schema", [size |-> Len(schema)],
         [k \in 1 .. Len(schema) |-> SchemaElement(schema[k])])

\* What stands before the path.
Arguments ==
    CASE tree.type = "add" ->
            <<Node("document", <<>>, TextNodes(tree.docName)),
              SchemaXml(tree.schema)>>
      [] tree.type = "update" ->
            <<Node("element", [name |-> tree.elName,
                               newValue |-> tree.value], <<>>)>>
      [] tree.type = "join" -> <<PredicateXml(tree.pred)>>
      [] OTHER -> <<>>

RequestXml ==
    Node("request", [type |-> tree.type],
         Arguments \o <<PathXml(tree.path)>>)
=============================================================================
