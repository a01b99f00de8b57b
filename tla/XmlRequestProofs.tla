-------------------------- MODULE XmlRequestProofs --------------------------
(***************************************************************************)
(* A request keeps its meaning from the user's keyboard to the storage     *)
(* core and back, whatever the user types: the inductive invariant IInv    *)
(* holds initially and every step of the client and of the server keeps    *)
(* it.                                                                     *)
(***************************************************************************)
EXTENDS XmlRequestInv, SequenceTheorems, WellFoundedInduction, TLAPS

-----------------------------------------------------------------------------
(* Sequences that are read from the front.                                 *)

LEMMA TailIsRest ==
    ASSUME NEW S, NEW rest \in Seq(S), NEW whole \in Seq(S),
           rest # <<>>, IsRest(rest, whole)
    PROVE  /\ Tail(rest) \in Seq(S)
           /\ IsRest(Tail(rest), whole)
           /\ Done(rest, whole) \in 0 .. Len(whole) - 1
           /\ Done(Tail(rest), whole) = Done(rest, whole) + 1
           /\ Head(rest) = whole[Done(rest, whole) + 1]
           /\ Head(rest) = rest[1]
           /\ Head(rest) \in S
<1>1. /\ Len(rest) \in Nat /\ Len(rest) >= 1 /\ Len(whole) \in Nat
      /\ Len(rest) <= Len(whole)
      /\ Tail(rest) \in Seq(S) /\ Len(Tail(rest)) = Len(rest) - 1
      /\ \A k \in 1 .. Len(Tail(rest)) : Tail(rest)[k] = rest[k + 1]
      /\ Head(rest) = rest[1] /\ rest[1] \in S
      /\ DOMAIN rest = 1 .. Len(rest)
      /\ DOMAIN Tail(rest) = 1 .. Len(Tail(rest))
  BY DEF IsRest
<1>2. \A k \in 1 .. Len(rest) : rest[k] = whole[Len(whole) - Len(rest) + k]
  BY <1>1 DEF IsRest
<1>3. \A k \in 1 .. Len(Tail(rest)) :
         Tail(rest)[k] = whole[Len(whole) - Len(Tail(rest)) + k]
  <2> TAKE k \in 1 .. Len(Tail(rest))
  <2>1. k + 1 \in 1 .. Len(rest)
    BY <1>1
  <2>2. Len(whole) - Len(rest) + (k + 1) = Len(whole) - Len(Tail(rest)) + k
    BY <1>1
  <2> QED BY <1>1, <1>2, <2>1, <2>2
<1>4. IsRest(Tail(rest), whole)
  BY <1>1, <1>3 DEF IsRest
<1>5. rest[1] = whole[Len(whole) - Len(rest) + 1]
  BY <1>1, <1>2
<1> QED BY <1>1, <1>4, <1>5 DEF Done

LEMMA LargerSeq ==
    ASSUME NEW S, NEW T, S \subseteq T, NEW s \in Seq(S)
    PROVE  s \in Seq(T)
OBVIOUS

LEMMA AllDone ==
    ASSUME NEW S, NEW rest \in Seq(S), NEW whole \in Seq(S)
    PROVE  Done(rest, whole) = Len(whole) <=> rest = <<>>
<1>1. Len(rest) \in Nat /\ Len(whole) \in Nat
  OBVIOUS
<1>2. Len(rest) = 0 <=> rest = <<>>
  OBVIOUS
<1> QED BY <1>1, <1>2 DEF Done

LEMMA RestOfNothing ==
    ASSUME NEW S, NEW rest \in Seq(S), NEW whole, whole = <<>>,
           IsRest(rest, whole)
    PROVE  rest = <<>>
<1>1. Len(rest) \in Nat /\ Len(rest) <= 0
  BY DEF IsRest
<1> QED BY <1>1

LEMMA EmptyIs ==
    ASSUME NEW S, NEW s \in Seq(S)
    PROVE  Len(s) = 0 <=> s = <<>>
OBVIOUS

LEMMA LastOfRest ==
    ASSUME NEW S, NEW rest \in Seq(S), rest # <<>>
    PROVE  Len(rest) = 1 <=> Tail(rest) = <<>>
<1>1. Tail(rest) \in Seq(S) /\ Len(Tail(rest)) = Len(rest) - 1
      /\ Len(rest) \in Nat \ {0}
  OBVIOUS
<1>2. Len(Tail(rest)) = 0 <=> Tail(rest) = <<>>
  BY <1>1, EmptyIs
<1> QED BY <1>1, <1>2

LEMMA PrefixGrows ==
    ASSUME NEW s, NEW n \in Nat
    PROVE  Append(Prefix(s, n), s[n + 1]) = Prefix(s, n + 1)
<1> DEFINE S == {s[k] : k \in 1 .. n + 1}
<1>1. Prefix(s, n) \in Seq(S) /\ Len(Prefix(s, n)) = n
  BY DEF Prefix
<1>2. Prefix(s, n + 1) \in Seq(S) /\ Len(Prefix(s, n + 1)) = n + 1
  BY DEF Prefix
<1>3. /\ Append(Prefix(s, n), s[n + 1]) \in Seq(S)
      /\ Len(Append(Prefix(s, n), s[n + 1])) = n + 1
  BY <1>1
<1>4. ASSUME NEW k \in 1 .. n + 1
      PROVE  Append(Prefix(s, n), s[n + 1])[k] = Prefix(s, n + 1)[k]
  <2>1. CASE k = n + 1
    BY <1>1, <2>1 DEF Prefix
  <2>2. CASE k # n + 1
    <3>1. k \in 1 .. n
      BY <2>2
    <3> QED BY <1>1, <3>1 DEF Prefix
  <2> QED BY <2>1, <2>2
<1> HIDE DEF S
<1> QED BY <1>2, <1>3, <1>4

LEMMA PrefixIsAll ==
    ASSUME NEW s, NEW n \in Nat, s = [k \in 1 .. n |-> s[k]]
    PROVE  Prefix(s, n) = s
BY DEF Prefix

-----------------------------------------------------------------------------
(* Chains of predicates.                                                   *)

LEMMA ChainMeans ==
    ASSUME NEW chain \in Chains
    PROVE  /\ chain \in Seq(Predicates)
           /\ DOMAIN chain = 1 .. Len(chain)
           /\ MeaningOfChain(chain) =
                 [k \in 1 .. Len(chain) |-> MeaningOfChain(chain)[k]]
           /\ \A k \in 1 .. Len(chain) :
                 MeaningOfChain(chain)[k] =
                    Chained(chain[k], IF k = 1 THEN "NONE"
                                      ELSE chain[k - 1].connective)
           /\ \A k \in 1 .. Len(chain) :
                 /\ chain[k] \in Predicates
                 /\ chain[k].connective = "END" <=> k = Len(chain)
<1>1. chain \in Seq(Predicates) /\ DOMAIN chain = 1 .. Len(chain)
  BY DEF Chains
<1>2. \A k \in 1 .. Len(chain) :
         /\ chain[k] \in Predicates
         /\ chain[k].connective = "END" <=> k = Len(chain)
  <2>1. \A k \in DOMAIN chain :
           chain[k].connective = "END" <=> k = Len(chain)
    BY Zenon DEF Chains
  <2>2. \A k \in 1 .. Len(chain) : chain[k] \in Predicates
    BY <1>1
  <2> QED BY <1>1, <2>1, <2>2, Zenon
<1>3. MeaningOfChain(chain) =
         [k \in 1 .. Len(chain) |->
            Chained(chain[k], IF k = 1 THEN "NONE"
                              ELSE chain[k - 1].connective)]
  BY <1>1, Zenon DEF MeaningOfChain, Chained
<1> QED BY <1>1, <1>2, <1>3

LEMMA AppendToNothing ==
    ASSUME NEW x
    PROVE  Append(<<>>, x) = <<x>>
OBVIOUS

LEMMA AddToPrefix ==
    ASSUME NEW M, NEW n \in Nat, NEW p, NEW connective,
           isFirstPred <=> n = 0, n # 0 => symbolValue = connective,
           M[n + 1] = Chained(p, IF n = 0 THEN "NONE" ELSE connective)
    PROVE  AddPredicate(Prefix(M, n), p) = Prefix(M, n + 1)
<1>1. Append(Prefix(M, n), M[n + 1]) = Prefix(M, n + 1)
  BY PrefixGrows
<1>2. CASE n = 0
  <2>1. Prefix(M, 0) = <<>>
    BY DEF Prefix
  <2>2. Append(<<>>, M[1]) = <<M[1]>>
    BY AppendToNothing
  <2>3. n + 1 = 1
    BY <1>2
  <2>4. Prefix(M, 1) = <<M[1]>> /\ M[1] = Chained(p, "NONE")
    BY <1>1, <1>2, <2>1, <2>2, <2>3, Zenon
  <2> QED BY <1>2, <2>3, <2>4, Zenon DEF AddPredicate
<1>3. CASE n # 0
  BY <1>1, <1>3, Zenon DEF AddPredicate
<1> QED BY <1>2, <1>3

\* The predicate in front of the rest of a chain is added with the connective
\* in front of it, and that behind it is remembered.
LEMMA NextPredicate ==
    ASSUME NEW chain \in Chains, NEW rest \in Seq(Predicates),
           rest # <<>>, IsRest(rest, chain),
           InChain(chain, Done(rest, chain))
    PROVE  /\ AddPredicate(Prefix(MeaningOfChain(chain), Done(rest, chain)),
                           Head(rest)) =
                 Prefix(MeaningOfChain(chain), Done(Tail(rest), chain))
           /\ Head(rest).connective = "END" <=> Tail(rest) = <<>>
           /\ Tail(rest) # <<>> =>
                 SymbolBehind(Head(rest)) =
                    chain[Done(Tail(rest), chain)].connective
           /\ SymbolBehind(Head(rest)) \in {"AND", "OR", symbolValue}
           /\ Done(Tail(rest), chain) # 0
<1> DEFINE M == MeaningOfChain(chain)
           n == Done(rest, chain)
           p == Head(rest)
<1>1. /\ n \in 0 .. Len(chain) - 1 /\ Done(Tail(rest), chain) = n + 1
      /\ p = chain[n + 1] /\ Tail(rest) \in Seq(Predicates)
      /\ chain \in Seq(Predicates)
  BY TailIsRest, ChainMeans
<1>2. /\ M[n + 1] = Chained(p, IF n = 0 THEN "NONE" ELSE chain[n].connective)
      /\ p \in Predicates
      /\ p.connective = "END" <=> n + 1 = Len(chain)
  BY <1>1, ChainMeans
<1>3. (isFirstPred <=> n = 0) /\ (n # 0 => symbolValue = chain[n].connective)
  BY DEF InChain
<1>5. AddPredicate(Prefix(M, n), p) = Prefix(M, n + 1)
  <2>1. n \in Nat
    BY <1>1
  <2> HIDE DEF M, n, p
  <2> QED BY <1>2, <1>3, <2>1, AddToPrefix
<1>6. n + 1 = Len(chain) <=> Tail(rest) = <<>>
  <2>1. Done(Tail(rest), chain) = Len(chain) <=> Tail(rest) = <<>>
    BY <1>1, AllDone
  <2> QED BY <1>1, <2>1
<1> QED BY <1>1, <1>2, <1>5, <1>6 DEF SymbolBehind, Predicates

-----------------------------------------------------------------------------
(* Texts, trees and operations, field by field.                            *)

LEMMA SetSchema ==
    ASSUME NEW ty, NEW dn, NEW sc, NEW en, NEW va, NEW pr, NEW pa, NEW x
    PROVE  [Fields(ty, dn, sc, en, va, pr, pa) EXCEPT !.schema = x] =
              Fields(ty, dn, x, en, va, pr, pa)
BY DEF Fields

LEMMA SetPred ==
    ASSUME NEW ty, NEW dn, NEW sc, NEW en, NEW va, NEW pr, NEW pa, NEW x
    PROVE  [Fields(ty, dn, sc, en, va, pr, pa) EXCEPT !.pred = x] =
              Fields(ty, dn, sc, en, va, x, pa)
BY DEF Fields

LEMMA SetPath ==
    ASSUME NEW ty, NEW dn, NEW sc, NEW en, NEW va, NEW pr, NEW pa, NEW x
    PROVE  [Fields(ty, dn, sc, en, va, pr, pa) EXCEPT !.path = x] =
              Fields(ty, dn, sc, en, va, pr, x)
BY DEF Fields

LEMMA FieldsAre ==
    ASSUME NEW ty, NEW dn, NEW sc, NEW en, NEW va, NEW pr, NEW pa,
           NEW t, t = Fields(ty, dn, sc, en, va, pr, pa)
    PROVE  /\ t.type = ty
           /\ t.docName = dn
           /\ t.schema = sc
           /\ t.elName = en
           /\ t.value = va
           /\ t.pred = pr
           /\ t.path = pa
BY DEF Fields

LEMMA NothingIs == Nothing = Fields("none", "", <<>>, "", "", <<>>, <<>>)
BY DEF Nothing, Fields

LEMMA NewTree ==
    ASSUME NEW ty, NEW dn, NEW en, NEW va
    PROVE  [Nothing EXCEPT !.type = ty, !.docName = dn, !.elName = en,
                           !.value = va] =
              Fields(ty, dn, <<>>, en, va, <<>>, <<>>)
<1>1. PICK t, e, q : t = "none" /\ e = "" /\ q = <<>>
  OBVIOUS
<1>2. PICK r : r = Nothing
  OBVIOUS
<1>3. r = Fields(t, e, q, e, e, q, q)
  BY <1>1, <1>2, NothingIs, Zenon
<1>4. [r EXCEPT !.type = ty] = Fields(ty, e, q, e, e, q, q)
  BY <1>3 DEF Fields
<1>5. [Fields(ty, e, q, e, e, q, q) EXCEPT !.docName = dn] =
         Fields(ty, dn, q, e, e, q, q)
  BY DEF Fields
<1>6. [Fields(ty, dn, q, e, e, q, q) EXCEPT !.elName = en] =
         Fields(ty, dn, q, en, e, q, q)
  BY DEF Fields
<1>7. [Fields(ty, dn, q, en, e, q, q) EXCEPT !.value = va] =
         Fields(ty, dn, q, en, va, q, q)
  BY DEF Fields
<1>8. [r EXCEPT !.type = ty, !.docName = dn, !.elName = en, !.value = va] =
         [[[[r EXCEPT !.type = ty] EXCEPT !.docName = dn]
             EXCEPT !.elName = en] EXCEPT !.value = va]
  OBVIOUS
<1>9. [r EXCEPT !.type = ty, !.docName = dn, !.elName = en, !.value = va] =
         Fields(ty, dn, q, en, va, q, q)
  BY <1>4, <1>5, <1>6, <1>7, <1>8
<1> QED BY <1>1, <1>2, <1>9, Zenon

-----------------------------------------------------------------------------
(* What the parser reads.                                                  *)

WrittenElements == [key : STRING, value : SchemaValues]

ReadSteps ==
    [pType : {"abs", "rel"}, sType : {"doc", "el"}, stepName : STRING,
     pred : Seq(Predicates)]

LEMMA TextFacts ==
    ASSUME IsRequest(text)
    PROVE  /\ text.type \in RequestTypes
           /\ text.schema \in Seq(WrittenElements)
           /\ text.pred \in Chains
           /\ text.path \in Seq(EntrySteps)
           /\ text.path # <<>>
           /\ text.type = "add" <=> text.schema # <<>>
           /\ text.type # "add" => text.docName = ""
           /\ text.type # "update" => text.elName = "" /\ text.value = ""
           /\ text.pred # <<>> => text.type = "join"
<1>1. /\ text.type \in RequestTypes
      /\ text.schema \in Seq(WrittenElements)
      /\ text.pred \in Chains
      /\ text.path \in Seq(EntrySteps) \ {<<>>}
  BY DEF IsRequest, WrittenElements
<1>2. /\ IF text.type = "add" THEN text.schema # <<>>
         ELSE text.schema = <<>> /\ text.docName = ""
      /\ text.type # "update" => text.elName = "" /\ text.value = ""
      /\ text.type # "join" => text.pred = <<>>
  BY Zenon DEF IsRequest
<1> QED BY <1>1, <1>2

LEMMA EntryFacts ==
    ASSUME NEW s \in EntrySteps
    PROVE  /\ s \in ReadSteps
           /\ s.pred \in Chains
           /\ s.pred # <<>> => s.sType = "doc"
<1>1. <<>> \in Chains
  BY DEF Chains
<1>2. \A c \in Chains : c \in Seq(Predicates)
  BY Zenon DEF Chains
<1> QED BY <1>1, <1>2 DEF EntrySteps, ReadSteps

LEMMA ValueFacts ==
    ASSUME NEW value \in SchemaValues
    PROVE  /\ value = <<value[1], value[2]>>
           /\ value[1] \in {"INT", "DBL", "BOOL", "STR"}
           /\ value[1] \in {"INT", "DBL"} => value[2] \in Nat
           /\ value[1] \in {"BOOL", "STR"} => value[2] \in STRING
BY DEF SchemaValues

LEMMA AstValueMeans ==
    ASSUME NEW value \in SchemaValues
    PROVE  AstValue(value) = MeaningOfValue(value)
<1>1. /\ value = <<value[1], value[2]>>
      /\ value[1] \in {"INT", "DBL", "BOOL", "STR"}
  BY ValueFacts
<1>2. CASE value[1] = "INT"
  BY <1>2 DEF AstValue, MeaningOfValue
<1>3. CASE value[1] = "BOOL"
  BY <1>3 DEF AstValue, MeaningOfValue
<1>4. CASE value[1] \in {"DBL", "STR"}
  BY <1>1, <1>4 DEF AstValue, MeaningOfValue
<1> QED BY <1>1, <1>2, <1>3, <1>4

LEMMA SchemaMeans ==
    ASSUME NEW schema \in Seq(WrittenElements)
    PROVE  /\ MeaningOfSchema(schema) =
                 [k \in 1 .. Len(schema) |-> MeaningOfSchema(schema)[k]]
           /\ \A k \in 1 .. Len(schema) :
                 MeaningOfSchema(schema)[k] =
                    [schema[k] EXCEPT !.value = AstValue(@)]
<1>1. DOMAIN schema = 1 .. Len(schema)
  OBVIOUS
<1>2. MeaningOfSchema(schema) =
         [k \in 1 .. Len(schema) |->
            [schema[k] EXCEPT !.value = MeaningOfValue(schema[k].value)]]
  BY <1>1, Zenon DEF MeaningOfSchema
<1>3. ASSUME NEW k \in 1 .. Len(schema)
      PROVE  AstValue(schema[k].value) = MeaningOfValue(schema[k].value)
  <2>1. schema[k] \in WrittenElements
    OBVIOUS
  <2>2. schema[k].value \in SchemaValues
    BY <2>1 DEF WrittenElements
  <2> QED BY <2>2, AstValueMeans
<1> QED BY <1>2, <1>3

LEMMA PathMeans ==
    ASSUME NEW path \in Seq(EntrySteps)
    PROVE  /\ MeaningOfPath(path) =
                 [k \in 1 .. Len(path) |-> MeaningOfPath(path)[k]]
           /\ \A k \in 1 .. Len(path) :
                 MeaningOfPath(path)[k] =
                    [path[k] EXCEPT !.pred = MeaningOfChain(path[k].pred)]
<1>1. DOMAIN path = 1 .. Len(path)
  OBVIOUS
<1>2. MeaningOfPath(path) =
         [k \in 1 .. Len(path) |->
            [path[k] EXCEPT !.pred = MeaningOfChain(path[k].pred)]]
  BY <1>1, Zenon DEF MeaningOfPath
<1> QED BY <1>2

LEMMA TreeOfAll ==
    ASSUME IsRequest(text)
    PROVE  TreeOf(Len(text.schema), Len(text.pred), Len(text.path)) =
              Meaning(text)
<1>1. /\ text.schema \in Seq(WrittenElements)
      /\ text.pred \in Chains /\ text.pred \in Seq(Predicates)
      /\ text.path \in Seq(EntrySteps)
  BY TextFacts, ChainMeans
<1>2. /\ Prefix(MeaningOfSchema(text.schema), Len(text.schema)) =
            MeaningOfSchema(text.schema)
      /\ Prefix(MeaningOfChain(text.pred), Len(text.pred)) =
            MeaningOfChain(text.pred)
      /\ Prefix(MeaningOfPath(text.path), Len(text.path)) =
            MeaningOfPath(text.path)
  BY <1>1, SchemaMeans, ChainMeans, PathMeans DEF Prefix
<1> QED BY <1>2, Zenon DEF TreeOf, Meaning

-----------------------------------------------------------------------------
(* The parser's steps.                                                     *)

ReadTexts ==
    [type : RequestTypes, docName : STRING, schema : Seq(WrittenElements),
     elName : STRING, value : STRING, pred : Seq(Predicates),
     path : Seq(ReadSteps)]

LEMMA UnreadFacts ==
    ASSUME ParserInv
    PROVE  /\ IsRequest(text)
           /\ unread \in ReadTexts
           /\ unread.schema \in Seq(WrittenElements)
           /\ unread.pred \in Seq(Predicates)
           /\ unread.path \in Seq(ReadSteps)
           /\ IsRest(unread.schema, text.schema)
           /\ IsRest(unread.pred, text.pred)
           /\ Len(unread.path) <= Len(text.path)
<1>1. unread \in ReadTexts
  BY Zenon DEF ParserInv, UnreadInv, ReadTexts, WrittenElements, ReadSteps
<1>2. /\ IsRequest(text)
      /\ IsRest(unread.schema, text.schema)
      /\ IsRest(unread.pred, text.pred)
      /\ Len(unread.path) <= Len(text.path)
  BY Zenon DEF ParserInv, UnreadInv
<1> QED BY <1>1, <1>2 DEF ReadTexts

LEMMA ItIsItsRest ==
    ASSUME NEW S, NEW s \in Seq(S)
    PROVE  IsRest(s, s) /\ Done(s, s) = 0
BY DEF IsRest, Done

LEMMA InitIsParsed ==
    ASSUME Init
    PROVE  ParserInv
<1>1. /\ IsRequest(text) /\ unread = text /\ tree = Nothing
      /\ isFirstPred = TRUE /\ pc = "command"
  BY ZpathAssumption DEF Init, ZpathInit
<1>2. /\ text.schema \in Seq(WrittenElements) /\ text.pred \in Seq(Predicates)
      /\ text.path \in Seq(EntrySteps) /\ text.path \in Seq(ReadSteps)
  <2>1. EntrySteps \subseteq ReadSteps
    BY EntryFacts
  <2> QED BY <1>1, <2>1, TextFacts, ChainMeans, LargerSeq
<1>3. text \in ReadTexts
  BY <1>1, <1>2 DEF IsRequest, ReadTexts
<1>4. UnreadInv
  <2>1. /\ Len(text.path) <= Len(text.path)
        /\ \A k \in DOMAIN text.path :
              text.path[k] = text.path[Done(text.path, text.path) + k]
    BY <1>2, ItIsItsRest
  <2>2. IsRest(text.schema, text.schema) /\ IsRest(text.pred, text.pred)
    BY <1>2, ItIsItsRest
  <2> QED BY <1>1, <1>3, <2>1, <2>2
          DEF UnreadInv, ReadTexts, WrittenElements, ReadSteps
<1>5. OrderInv
  BY <1>1, TextFacts DEF OrderInv, Serving
<1>6. TreeInv /\ ChainInv
  BY <1>1 DEF TreeInv, ChainInv
<1> QED BY <1>4, <1>5, <1>6 DEF ParserInv

LEMMA TreeOfNothing ==
    TreeOf(0, 0, 0) =
        Fields(text.type, text.docName, <<>>, text.elName, text.value, <<>>,
               <<>>)
<1>1. \A s : Prefix(s, 0) = <<>>
  BY DEF Prefix
<1> QED BY <1>1 DEF TreeOf

LEMMA ParseCommandParses ==
    ASSUME ParserInv, ParseCommand
    PROVE  ParserInv'
<1>1. /\ IsRequest(text) /\ unread = text /\ tree = Nothing /\ isFirstPred
      /\ pc = "command"
      /\ tree' = Fields(text.type, text.docName, <<>>, text.elName,
                        text.value, <<>>, <<>>)
      /\ UNCHANGED <<text, unread, aStep, isFirstPred, symbolValue>>
      /\ pc' = IF text.type = "add" THEN "schema"
               ELSE IF unread.pred # <<>> THEN "joinPredicates"
               ELSE "path"
  BY NewTree, UnreadFacts DEF ParseCommand, ParserInv, OrderInv
<1>2. /\ text.schema \in Seq(WrittenElements) /\ text.pred \in Seq(Predicates)
      /\ text.path \in Seq(EntrySteps) /\ text.path # <<>>
      /\ text.type = "add" <=> text.schema # <<>>
      /\ text.pred # <<>> => text.type = "join"
  BY <1>1, TextFacts, ChainMeans
<1>3. UnreadInv'
  BY <1>1 DEF ParserInv, UnreadInv, Done
<1>4. OrderInv'
  BY <1>1, <1>2 DEF OrderInv, Parsing, Serving
<1>5. TreeInv'
  BY <1>1, <1>2, ItIsItsRest, TreeOfNothing DEF TreeInv, TreeOf
<1>6. ChainInv'
  BY <1>1, <1>2, ItIsItsRest DEF ChainInv, InChain
<1> QED BY <1>3, <1>4, <1>5, <1>6 DEF ParserInv

LEMMA TailOfSchema ==
    ASSUME NEW u \in ReadTexts, NEW s \in Seq(WrittenElements)
    PROVE  LET v == [u EXCEPT !.schema = s] IN
           /\ v \in ReadTexts
           /\ v.schema = s /\ v.pred = u.pred /\ v.path = u.path
BY DEF ReadTexts

LEMMA TailOfPred ==
    ASSUME NEW u \in ReadTexts, NEW s \in Seq(Predicates)
    PROVE  LET v == [u EXCEPT !.pred = s] IN
           /\ v \in ReadTexts
           /\ v.pred = s /\ v.schema = u.schema /\ v.path = u.path
BY DEF ReadTexts

LEMMA TailOfPath ==
    ASSUME NEW u \in ReadTexts, NEW s \in Seq(ReadSteps)
    PROVE  LET v == [u EXCEPT !.path = s] IN
           /\ v \in ReadTexts
           /\ v.path = s /\ v.schema = u.schema /\ v.pred = u.pred
BY DEF ReadTexts

LEMMA ParseElementParses ==
    ASSUME ParserInv, ParseElement
    PROVE  ParserInv'
<1> DEFINE rest == unread.schema
           M == MeaningOfSchema(text.schema)
           e == Head(rest)
           i == Done(rest, text.schema)
           j == Done(unread.pred, text.pred)
           k == Done(unread.path, text.path)
<1>1. /\ pc = "schema" /\ rest # <<>>
      /\ tree' = [tree EXCEPT !.schema =
                     Append(@, [e EXCEPT !.value = AstValue(@)])]
      /\ unread' = [unread EXCEPT !.schema = Tail(@)]
      /\ pc' = IF Len(rest) = 1 THEN "path" ELSE "schema"
      /\ UNCHANGED <<text, aStep, isFirstPred, symbolValue>>
  BY DEF ParseElement, ParserInv, OrderInv
<1>2. /\ IsRequest(text) /\ unread \in ReadTexts
      /\ rest \in Seq(WrittenElements) /\ text.schema \in Seq(WrittenElements)
      /\ IsRest(rest, text.schema) /\ IsRest(unread.pred, text.pred)
      /\ Len(unread.path) <= Len(text.path)
  BY UnreadFacts, TextFacts
<1>3. /\ Tail(rest) \in Seq(WrittenElements)
      /\ IsRest(Tail(rest), text.schema)
      /\ i \in 0 .. Len(text.schema) - 1 /\ i \in Nat
      /\ Done(Tail(rest), text.schema) = i + 1
      /\ e = text.schema[i + 1] /\ i + 1 \in 1 .. Len(text.schema)
  BY <1>1, <1>2, TailIsRest
<1>4. /\ unread' \in ReadTexts /\ unread'.schema = Tail(rest)
      /\ unread'.pred = unread.pred /\ unread'.path = unread.path
  BY <1>1, <1>2, <1>3, TailOfSchema
<1>5. tree' = TreeOf(i + 1, j, k)
  <2>1. tree = TreeOf(i, j, k)
    BY <1>1 DEF ParserInv, TreeInv
  <2>2. M[i + 1] = [e EXCEPT !.value = AstValue(@)]
    BY <1>2, <1>3, SchemaMeans
  <2>3. Append(Prefix(M, i), M[i + 1]) = Prefix(M, i + 1)
    BY <1>3, PrefixGrows
  <2>4. PICK sc, pr, pa, x :
           /\ sc = Prefix(M, i)
           /\ pr = Prefix(MeaningOfChain(text.pred), j)
           /\ pa = Prefix(MeaningOfPath(text.path), k)
           /\ x = [e EXCEPT !.value = AstValue(@)]
    OBVIOUS
  <2>5. tree = Fields(text.type, text.docName, sc, text.elName, text.value,
                      pr, pa)
    BY <2>1, <2>4 DEF TreeOf
  <2>6. tree' = [tree EXCEPT !.schema = Append(@, x)]
    BY <1>1, <2>4
  <2>7. tree' = Fields(text.type, text.docName, Append(sc, x), text.elName,
                       text.value, pr, pa)
    BY <2>5, <2>6 DEF Fields
  <2>8. Append(sc, x) = Prefix(M, i + 1)
    BY <2>2, <2>3, <2>4
  <2> QED BY <2>4, <2>7, <2>8, Zenon DEF TreeOf
<1>6. UnreadInv'
  BY <1>1, <1>2, <1>3, <1>4
     DEF ParserInv, UnreadInv, ReadTexts, WrittenElements, ReadSteps, Done
<1>7. OrderInv'
  <2>1. Len(rest) = 1 <=> Tail(rest) = <<>>
    BY <1>1, <1>2, LastOfRest
  <2>2. /\ text.type = "add" /\ text.pred = <<>> /\ unread.pred = <<>>
        /\ text.path # <<>>
    <3>1. text.schema # <<>> /\ IsRequest(text)
      BY <1>1, <1>2, RestOfNothing
    <3>2. text.type = "add" /\ text.pred = <<>> /\ text.path # <<>>
      BY <3>1, TextFacts
    <3> QED BY <1>2, <3>2, RestOfNothing, UnreadFacts
  <2> QED BY <1>1, <1>4, <2>1, <2>2
          DEF ParserInv, OrderInv, Parsing, Serving
<1>8. TreeInv'
  BY <1>1, <1>3, <1>4, <1>5 DEF TreeInv, TreeOf
<1>9. ChainInv'
  BY <1>1 DEF ChainInv
<1> QED BY <1>6, <1>7, <1>8, <1>9 DEF ParserInv

LEMMA RejectNumberParses ==
    ASSUME ParserInv, RejectNumber
    PROVE  ParserInv'
<1>1. pc = "schema" /\ pc' = "rejected"
      /\ UNCHANGED <<text, unread, tree, aStep, isFirstPred, symbolValue>>
  BY DEF RejectNumber, parser
<1>2. UnreadInv'
  BY <1>1 DEF ParserInv, UnreadInv, Done
<1>3. OrderInv'
  BY <1>1 DEF OrderInv, Parsing, Serving
<1>4. TreeInv' /\ ChainInv'
  BY <1>1 DEF TreeInv, ChainInv
<1> QED BY <1>2, <1>3, <1>4 DEF ParserInv

LEMMA ParseJoinPredicateParses ==
    ASSUME ParserInv, ParseJoinPredicate
    PROVE  ParserInv'
<1> DEFINE rest == unread.pred
           M == MeaningOfChain(text.pred)
           p == Head(rest)
           i == Done(unread.schema, text.schema)
           j == Done(rest, text.pred)
           k == Done(unread.path, text.path)
<1>1. /\ pc = "joinPredicates" /\ rest # <<>>
      /\ unread.schema = <<>> /\ unread.path # <<>>
      /\ tree' = [tree EXCEPT !.pred = AddPredicate(@, p)]
      /\ unread' = [unread EXCEPT !.pred = Tail(@)]
      /\ isFirstPred' = FALSE
      /\ symbolValue' = SymbolBehind(p)
      /\ pc' = IF p.connective = "END" THEN "path" ELSE "joinPredicates"
      /\ UNCHANGED <<text, aStep>>
  BY DEF ParseJoinPredicate, ParserInv, OrderInv, Parsing
<1>2. /\ IsRequest(text) /\ unread \in ReadTexts
      /\ rest \in Seq(Predicates) /\ text.pred \in Chains
      /\ text.pred \in Seq(Predicates)
      /\ IsRest(unread.schema, text.schema) /\ IsRest(rest, text.pred)
      /\ Len(unread.path) <= Len(text.path)
  BY UnreadFacts, TextFacts, ChainMeans
<1>3. /\ Tail(rest) \in Seq(Predicates)
      /\ IsRest(Tail(rest), text.pred)
      /\ Done(Tail(rest), text.pred) = j + 1 /\ j \in Nat
  BY <1>1, <1>2, TailIsRest
<1>4. /\ unread' \in ReadTexts /\ unread'.pred = Tail(rest)
      /\ unread'.schema = unread.schema /\ unread'.path = unread.path
  BY <1>1, <1>2, <1>3, TailOfPred
<1>5. /\ AddPredicate(Prefix(M, j), p) = Prefix(M, j + 1)
      /\ p.connective = "END" <=> Tail(rest) = <<>>
      /\ Tail(rest) # <<>> => SymbolBehind(p) = text.pred[j + 1].connective
  <2>1. InChain(text.pred, j)
    BY <1>1 DEF ParserInv, ChainInv
  <2> QED BY <1>1, <1>2, <1>3, <2>1, NextPredicate
<1>6. tree' = TreeOf(i, j + 1, k)
  <2>1. tree = TreeOf(i, j, k)
    BY <1>1 DEF ParserInv, TreeInv
  <2>2. PICK sc, pr, pa :
           /\ sc = Prefix(MeaningOfSchema(text.schema), i)
           /\ pr = Prefix(M, j)
           /\ pa = Prefix(MeaningOfPath(text.path), k)
    OBVIOUS
  <2>3. PICK x : x = AddPredicate(pr, p)
    OBVIOUS
  <2>4. tree = Fields(text.type, text.docName, sc, text.elName, text.value,
                      pr, pa)
    BY <2>1, <2>2 DEF TreeOf
  <2>5. tree' = [tree EXCEPT !.pred = x]
    <3>1. tree.pred = pr
      BY <2>4 DEF Fields
    <3> QED BY <1>1, <2>3, <3>1
  <2>6. tree' = Fields(text.type, text.docName, sc, text.elName, text.value,
                       x, pa)
    BY <2>4, <2>5 DEF Fields
  <2> QED BY <1>5, <2>2, <2>3, <2>6, Zenon DEF TreeOf
<1>7. UnreadInv'
  BY <1>1, <1>2, <1>3, <1>4
     DEF ParserInv, UnreadInv, ReadTexts, WrittenElements, ReadSteps, Done
<1>8. OrderInv'
  BY <1>1, <1>4, <1>5 DEF OrderInv, Parsing, Serving
<1>9. TreeInv'
  BY <1>1, <1>3, <1>4, <1>6 DEF TreeInv, TreeOf
<1>10. ChainInv'
  BY <1>1, <1>3, <1>4, <1>5 DEF ChainInv, InChain
<1> QED BY <1>7, <1>8, <1>9, <1>10 DEF ParserInv

LEMMA StepFacts ==
    ASSUME ParserInv, pc \in {"path", "predicates", "addStep"}
    PROVE  LET k == Done(unread.path, text.path) IN
           /\ unread.path # <<>> /\ unread.path \in Seq(ReadSteps)
           /\ unread.schema = <<>> /\ unread.pred = <<>>
           /\ text.path \in Seq(EntrySteps)
           /\ k \in 0 .. Len(text.path) - 1
           /\ Step = text.path[k + 1]
           /\ Step \in EntrySteps
           /\ Step \in ReadSteps
           /\ Step.pred \in Chains
           /\ Step.pred # <<>> => Step.sType = "doc"
<1> DEFINE k == Done(unread.path, text.path)
<1>1. /\ unread.path # <<>> /\ unread.path \in Seq(ReadSteps)
      /\ unread.schema = <<>> /\ unread.pred = <<>>
      /\ text.path \in Seq(EntrySteps)
      /\ Len(unread.path) <= Len(text.path)
  BY UnreadFacts, TextFacts DEF ParserInv, OrderInv, Parsing
<1>2. k \in 0 .. Len(text.path) - 1
  <2>1. Len(unread.path) \in Nat /\ Len(text.path) \in Nat
    BY <1>1
  <2>2. Len(unread.path) # 0
    BY <1>1, EmptyIs
  <2>3. \A a, b \in Nat : a # 0 /\ a <= b => b - a \in 0 .. b - 1
    OBVIOUS
  <2> QED BY ONLY <1>1, <2>1, <2>2, <2>3, Zenon DEF Done
<1>3. Step = text.path[k + 1] /\ Step \in EntrySteps
  BY <1>1, <1>2 DEF Step
<1> QED BY <1>1, <1>2, <1>3, EntryFacts

LEMMA NothingMeansNothing == MeaningOfChain(<<>>) = <<>>
BY DEF MeaningOfChain

LEMMA ParseEntryParses ==
    ASSUME ParserInv, ParseEntry
    PROVE  ParserInv'
<1> DEFINE s == Head(unread.path)
<1>1. /\ pc = "path"
      /\ aStep' = [s EXCEPT !.pred = <<>>]
      /\ isFirstPred' = StartsFirstPred(s)
      /\ pc' = IF s.pred # <<>> THEN "predicates" ELSE "addStep"
      /\ UNCHANGED <<text, unread, tree, symbolValue>>
  BY DEF ParseEntry
<1>2. /\ unread.path # <<>> /\ unread.path \in Seq(ReadSteps)
      /\ unread.schema = <<>> /\ unread.pred = <<>>
      /\ text.path \in Seq(EntrySteps)
      /\ Step = text.path[Done(unread.path, text.path) + 1]
      /\ Step \in EntrySteps /\ Step \in ReadSteps
      /\ Step.pred \in Chains
      /\ Step.pred # <<>> => Step.sType = "doc"
  BY <1>1, StepFacts
<1>3. s = Step /\ s = unread.path[1]
  <2>1. s = unread.path[1] /\ 1 \in DOMAIN unread.path
    BY <1>2
  <2> QED BY <1>1, <1>2, <2>1 DEF ParserInv, UnreadInv
<1>4. UnreadInv'
  BY <1>1 DEF ParserInv, UnreadInv, Done
<1>5. OrderInv'
  BY <1>1, <1>2 DEF OrderInv, Parsing, Serving
<1>6. TreeInv'
  BY <1>1 DEF ParserInv, TreeInv, TreeOf
<1>7. Step' = Step
  BY <1>1 DEF Step
<1>8. ChainInv'
  <2>1. CASE s.pred # <<>>
    <3>1. s.pred \in Chains /\ s.pred \in Seq(Predicates)
      BY <1>2, <1>3, ChainMeans
    <3>2. IsRest(s.pred, s.pred) /\ Done(s.pred, s.pred) = 0
      BY <3>1, ItIsItsRest
    <3>3. Prefix(MeaningOfChain(s.pred), 0) = <<>>
      BY DEF Prefix
    <3>4. isFirstPred' = TRUE
      BY <1>1, <1>2, <1>3, <2>1 DEF StartsFirstPred
    <3>5. aStep' = [Step EXCEPT !.pred = Prefix(MeaningOfChain(Step.pred), 0)]
      BY <1>1, <1>3, <3>3
    <3> QED BY <1>1, <1>3, <1>7, <2>1, <3>2, <3>4, <3>5 DEF ChainInv, InChain
  <2>2. CASE s.pred = <<>>
    BY <1>1, <1>3, <1>7, <2>2, NothingMeansNothing DEF ChainInv
  <2> QED BY <2>1, <2>2
<1> QED BY <1>4, <1>5, <1>6, <1>8 DEF ParserInv

ReadInStep(u, c, v) == v = [u EXCEPT !.path[1].pred = c]

LEMMA TailOfStep ==
    ASSUME NEW u \in ReadTexts, u.path # <<>>, NEW c \in Seq(Predicates),
           NEW v, ReadInStep(u, c, v)
    PROVE  /\ v \in ReadTexts
           /\ v.path[1].pred = c
           /\ Len(v.path) = Len(u.path) /\ DOMAIN v.path = DOMAIN u.path
           /\ \A k \in DOMAIN v.path : k # 1 => v.path[k] = u.path[k]
           /\ v.schema = u.schema /\ v.pred = u.pred
<1>1. u.path \in Seq(ReadSteps) /\ 1 \in DOMAIN u.path
      /\ u.path[1] \in ReadSteps /\ DOMAIN u.path = 1 .. Len(u.path)
  BY DEF ReadTexts
<1>2. PICK s : s = [u.path[1] EXCEPT !.pred = c]
  OBVIOUS
<1>3. s \in ReadSteps /\ s.pred = c
  BY <1>1, <1>2 DEF ReadSteps
<1>4. PICK p : p = [u.path EXCEPT ![1] = s]
  OBVIOUS
<1>5. /\ p \in Seq(ReadSteps) /\ p[1] = s /\ Len(p) = Len(u.path)
      /\ DOMAIN p = DOMAIN u.path
      /\ \A k \in DOMAIN p : k # 1 => p[k] = u.path[k]
  BY <1>1, <1>3, <1>4
<1>6. v = [u EXCEPT !.path = p]
  BY <1>2, <1>4 DEF ReadInStep
<1>7. v \in ReadTexts /\ v.path = p /\ v.schema = u.schema /\ v.pred = u.pred
  BY <1>5, <1>6 DEF ReadTexts
<1> QED BY <1>3, <1>5, <1>6, <1>7

LEMMA ParsePredicateParses ==
    ASSUME ParserInv, ParsePredicate
    PROVE  ParserInv'
<1> DEFINE rest == unread.path[1].pred
           M == MeaningOfChain(Step.pred)
           p == Head(rest)
           n == Done(rest, Step.pred)
<1>1. /\ pc = "predicates"
      /\ aStep' = [aStep EXCEPT !.pred = AddPredicate(@, p)]
      /\ unread' = [unread EXCEPT !.path[1].pred = Tail(rest)]
      /\ isFirstPred' = FALSE
      /\ symbolValue' = SymbolBehind(p)
      /\ pc' = IF p.connective = "END" THEN "addStep" ELSE "predicates"
      /\ UNCHANGED <<text, tree>>
  BY DEF ParsePredicate
<1>2. /\ unread.path # <<>> /\ unread.path \in Seq(ReadSteps)
      /\ unread.schema = <<>> /\ unread.pred = <<>>
      /\ Step \in ReadSteps
      /\ Step.pred \in Chains /\ Step.pred \in Seq(Predicates)
      /\ unread \in ReadTexts
  BY <1>1, StepFacts, UnreadFacts, ChainMeans
<1>3. rest \in Seq(Predicates)
  <2>1. unread.path[1] \in ReadSteps
    BY <1>2
  <2> QED BY <2>1 DEF ReadSteps
<1>4. /\ rest # <<>> /\ IsRest(rest, Step.pred) /\ InChain(Step.pred, n)
      /\ aStep = [Step EXCEPT !.pred = Prefix(M, n)]
  BY <1>1, Zenon DEF ParserInv, ChainInv
<1>5. /\ Tail(rest) \in Seq(Predicates)
      /\ IsRest(Tail(rest), Step.pred)
      /\ Done(Tail(rest), Step.pred) = n + 1 /\ n \in Nat
  BY <1>2, <1>3, <1>4, TailIsRest
<1>6. /\ AddPredicate(Prefix(M, n), p) = Prefix(M, n + 1)
      /\ p.connective = "END" <=> Tail(rest) = <<>>
      /\ Tail(rest) # <<>> => SymbolBehind(p) = Step.pred[n + 1].connective
  BY <1>2, <1>3, <1>4, <1>5, NextPredicate
<1>7. /\ unread' \in ReadTexts
      /\ unread'.path[1].pred = Tail(rest)
      /\ Len(unread'.path) = Len(unread.path)
      /\ DOMAIN unread'.path = DOMAIN unread.path
      /\ \A k \in DOMAIN unread'.path :
            k # 1 => unread'.path[k] = unread.path[k]
      /\ unread'.schema = unread.schema /\ unread'.pred = unread.pred
  <2>1. PICK u, c, v : u = unread /\ c = Tail(rest) /\ v = unread'
    OBVIOUS
  <2>2. ReadInStep(u, c, v)
    BY <1>1, <2>1, Zenon DEF ReadInStep
  <2>3. u \in ReadTexts /\ u.path # <<>> /\ c \in Seq(Predicates)
    BY <1>2, <1>5, <2>1
  <2>4. /\ v \in ReadTexts
        /\ v.path[1].pred = c
        /\ Len(v.path) = Len(u.path) /\ DOMAIN v.path = DOMAIN u.path
        /\ \A k \in DOMAIN v.path : k # 1 => v.path[k] = u.path[k]
        /\ v.schema = u.schema /\ v.pred = u.pred
    BY <2>2, <2>3, TailOfStep
  <2> QED BY <2>1, <2>4
<1>8. /\ Done(unread.path, text.path)' = Done(unread.path, text.path)
      /\ Step' = Step
  BY <1>1, <1>7 DEF Step, Done
<1>9. aStep' = [Step EXCEPT !.pred = Prefix(M, n + 1)]
  <2>1. PICK x, y : x = Prefix(M, n) /\ y = Prefix(M, n + 1)
    OBVIOUS
  <2>2. aStep = [Step EXCEPT !.pred = x] /\ AddPredicate(x, p) = y
    BY <1>4, <1>6, <2>1
  <2>3. aStep.pred = x
    BY <1>2, <2>2 DEF ReadSteps
  <2>4. aStep' = [aStep EXCEPT !.pred = y]
    BY <1>1, <2>2, <2>3
  <2>5. aStep' = [Step EXCEPT !.pred = y]
    BY <1>2, <2>2, <2>4 DEF ReadSteps
  <2> QED BY <2>1, <2>5
<1>10. UnreadInv'
  <2>1. \A k \in DOMAIN unread'.path :
           k > 1 => unread'.path[k] =
                       text.path[Done(unread.path, text.path) + k]
    <3>1. \A k \in DOMAIN unread.path :
             k > 1 => unread.path[k] =
                         text.path[Done(unread.path, text.path) + k]
      BY DEF ParserInv, UnreadInv
    <3> QED BY ONLY <1>7, <3>1
  <2>2. text' = text /\ pc' \in {"predicates", "addStep"}
    BY <1>1
  <2>3. \A k \in DOMAIN unread'.path :
           k > 1 \/ pc' \notin {"predicates", "addStep"} =>
               unread'.path[k] =
                   text'.path[Done(unread.path, text.path)' + k]
    BY ONLY <1>8, <2>1, <2>2
  <2>4. IsRequest(text)'
    BY <2>2, UnreadFacts
  <2>5. /\ IsRest(unread.schema, text.schema)'
        /\ IsRest(unread.pred, text.pred)'
        /\ (Len(unread.path) <= Len(text.path))'
    BY <1>7, <2>2, UnreadFacts
  <2>6. (unread \in ReadTexts)'
    BY <1>7
  <2> QED BY <2>3, <2>4, <2>5, <2>6, Zenon
          DEF UnreadInv, ReadTexts, WrittenElements, ReadSteps
<1>11. OrderInv'
  <2>1. unread'.path # <<>>
    BY <1>2, <1>7, EmptyIs DEF ReadTexts
  <2> QED BY <1>1, <1>2, <1>7, <2>1 DEF OrderInv, Parsing, Serving
<1>12. TreeInv'
  BY <1>1, <1>7, <1>8 DEF ParserInv, TreeInv, TreeOf
<1>13. ChainInv'
  <2>1. CASE Tail(rest) = <<>>
    <3>1. n + 1 = Len(Step.pred)
      BY <1>2, <1>5, <2>1, AllDone
    <3>2. Prefix(M, n + 1) = M
      BY <1>2, <3>1, ChainMeans DEF Prefix
    <3> QED BY <1>1, <1>6, <1>8, <1>9, <2>1, <3>2 DEF ChainInv
  <2>2. CASE Tail(rest) # <<>>
    <3>1. pc' = "predicates"
      BY <1>1, <1>6, <2>2
    <3>2. PICK c, st : c = Tail(rest) /\ st = Step
      OBVIOUS
    <3>3. /\ c # <<>> /\ IsRest(c, st.pred) /\ Done(c, st.pred) # 0
          /\ Done(c, st.pred) = n + 1
      BY <1>5, <2>2, <3>2
    <3>4. isFirstPred' = FALSE /\ symbolValue' = st.pred[n + 1].connective
      BY <1>1, <1>6, <2>2, <3>2
    <3>5. InChain(st.pred, Done(c, st.pred))'
      BY <3>3, <3>4 DEF InChain
    <3>6. unread'.path[1].pred = c /\ Step' = st
      BY <1>7, <1>8, <3>2
    <3>7. aStep' = [st EXCEPT !.pred = Prefix(MeaningOfChain(st.pred),
                                              Done(c, st.pred))]
      BY <1>9, <3>2, <3>3
    <3> QED BY <3>1, <3>3, <3>5, <3>6, <3>7 DEF ChainInv
  <2> QED BY <2>1, <2>2
<1> QED BY <1>10, <1>11, <1>12, <1>13 DEF ParserInv

LEMMA AddStepParses ==
    ASSUME ParserInv, AddStep
    PROVE  ParserInv'
<1> DEFINE rest == unread.path
           M == MeaningOfPath(text.path)
           i == Done(unread.schema, text.schema)
           j == Done(unread.pred, text.pred)
           k == Done(rest, text.path)
<1>1. /\ pc = "addStep"
      /\ tree' = [tree EXCEPT !.path = Append(@, aStep)]
      /\ unread' = [unread EXCEPT !.path = Tail(@)]
      /\ pc' = IF Len(rest) = 1 THEN "send" ELSE "path"
      /\ UNCHANGED <<text, aStep, isFirstPred, symbolValue>>
  BY DEF AddStep
<1>2. /\ rest # <<>> /\ rest \in Seq(ReadSteps)
      /\ unread.schema = <<>> /\ unread.pred = <<>>
      /\ text.path \in Seq(EntrySteps)
      /\ k \in 0 .. Len(text.path) - 1
      /\ Step = text.path[k + 1]
      /\ unread \in ReadTexts
      /\ Len(rest) <= Len(text.path)
  BY <1>1, StepFacts, UnreadFacts
<1>3. /\ Tail(rest) \in Seq(ReadSteps)
      /\ Len(Tail(rest)) = Len(rest) - 1
      /\ Len(rest) = 1 <=> Tail(rest) = <<>>
      /\ \A m \in 1 .. Len(Tail(rest)) : Tail(rest)[m] = rest[m + 1]
      /\ Len(rest) \in Nat /\ Len(text.path) \in Nat
  BY <1>2, LastOfRest
<1>4. /\ unread' \in ReadTexts /\ unread'.path = Tail(rest)
      /\ unread'.schema = unread.schema /\ unread'.pred = unread.pred
  BY <1>1, <1>2, <1>3, TailOfPath
<1>5. Done(Tail(rest), text.path) = k + 1 /\ k \in Nat
      /\ k + 1 \in 1 .. Len(text.path)
  <2>1. \A a, b \in Nat : b - (a - 1) = (b - a) + 1
    OBVIOUS
  <2>2. Done(Tail(rest), text.path) = k + 1
    BY ONLY <1>3, <2>1, Zenon DEF Done
  <2> QED BY <1>2, <1>3, <2>2
<1>6. tree' = TreeOf(i, j, k + 1)
  <2>1. tree = TreeOf(i, j, k)
    BY <1>1 DEF ParserInv, TreeInv
  <2>2. aStep = M[k + 1]
    <3>1. aStep = [Step EXCEPT !.pred = MeaningOfChain(Step.pred)]
      BY <1>1, Zenon DEF ParserInv, ChainInv
    <3> QED BY <1>2, <1>5, <3>1, PathMeans
  <2>3. PICK sc, pr, pa, x :
           /\ sc = Prefix(MeaningOfSchema(text.schema), i)
           /\ pr = Prefix(MeaningOfChain(text.pred), j)
           /\ pa = Prefix(M, k)
           /\ x = Append(pa, aStep)
    OBVIOUS
  <2>4. tree = Fields(text.type, text.docName, sc, text.elName, text.value,
                      pr, pa)
    BY <2>1, <2>3 DEF TreeOf
  <2>5. tree' = [tree EXCEPT !.path = x]
    <3>1. tree.path = pa
      BY <2>4 DEF Fields
    <3> QED BY <1>1, <2>3, <3>1
  <2>6. tree' = Fields(text.type, text.docName, sc, text.elName, text.value,
                       pr, x)
    BY <2>4, <2>5 DEF Fields
  <2>7. x = Prefix(M, k + 1)
    BY <1>5, <2>2, <2>3, PrefixGrows
  <2> QED BY <2>3, <2>6, <2>7, Zenon DEF TreeOf
<1>7. UnreadInv'
  <2>1. \A m \in DOMAIN Tail(rest) :
           Tail(rest)[m] = text.path[(k + 1) + m]
    <3>1. \A m \in DOMAIN rest : m > 1 => rest[m] = text.path[k + m]
      BY DEF ParserInv, UnreadInv
    <3> TAKE m \in DOMAIN Tail(rest)
    <3>2. m \in 1 .. Len(Tail(rest)) /\ m + 1 \in DOMAIN rest /\ m + 1 > 1
      BY <1>2, <1>3
    <3>3. k + (m + 1) = (k + 1) + m
      BY <1>5, <3>2
    <3> QED BY <1>3, <3>1, <3>2, <3>3
  <2>2. Len(Tail(rest)) <= Len(text.path)
    BY <1>2, <1>3
  <2> QED BY <1>1, <1>4, <1>5, <2>1, <2>2
          DEF ParserInv, UnreadInv, ReadTexts, WrittenElements, ReadSteps,
              Done
<1>8. OrderInv'
  BY <1>1, <1>2, <1>3, <1>4 DEF OrderInv, Parsing, Serving
<1>9. TreeInv'
  BY <1>1, <1>4, <1>5, <1>6 DEF TreeInv, TreeOf
<1>10. ChainInv'
  BY <1>1 DEF ChainInv
<1> QED BY <1>7, <1>8, <1>9, <1>10 DEF ParserInv

LEMMA ParseParses ==
    ASSUME ParserInv, Parse
    PROVE  ParserInv'
BY ParseCommandParses, ParseElementParses, RejectNumberParses,
   ParseJoinPredicateParses, ParseEntryParses, ParsePredicateParses,
   AddStepParses DEF Parse

-----------------------------------------------------------------------------
(* What findNodeByName finds.                                              *)

Siblings(nodes) == \E S : nodes \in Seq(S)

LEMMA NodeIs ==
    ASSUME NEW n, NEW a, NEW c
    PROVE  /\ Node(n, a, c).name = n
           /\ Node(n, a, c).attributes = a
           /\ Node(n, a, c).children = c
BY DEF Node

LEMMA NoNodeIs == NoNode.name = "none" /\ NoNode.children = <<>>
BY DEF NoNode, Node

LEMMA StopIsFirst ==
    ASSUME NEW nodes, Siblings(nodes), NEW n, nodes # <<>>,
           nodes[1].name = n \/ nodes[1].children # <<>>
    PROVE  Stop(nodes, n) = nodes[1]
<1> DEFINE stops == {i \in DOMAIN nodes : \/ nodes[i].name = n
                                          \/ nodes[i].children # <<>>}
<1>1. DOMAIN nodes = 1 .. Len(nodes) /\ Len(nodes) \in Nat \ {0}
  BY DEF Siblings
<1>2. 1 \in stops /\ \A j \in stops : j \in Nat /\ 1 <= j
  BY <1>1
<1>3. (CHOOSE i \in stops : \A j \in stops : i <= j) = 1
  <2>1. \A i \in stops : (\A j \in stops : i <= j) => i = 1
    BY <1>2
  <2> HIDE DEF stops
  <2> QED BY <1>2, <2>1
<1> QED BY <1>2, <1>3 DEF Stop

LEMMA StopIsNone ==
    ASSUME NEW nodes, NEW n,
           \A i \in DOMAIN nodes :
              nodes[i].name # n /\ nodes[i].children = <<>>
    PROVE  Stop(nodes, n) = NoNode
BY DEF Stop

LEMMA StopIsSecond ==
    ASSUME NEW a, NEW b, NEW n,
           a.name # n, a.children = <<>>, b.name = n
    PROVE  Stop(<<a, b>>, n) = b
<1>1. PICK nodes : nodes = <<a, b>>
  OBVIOUS
<1>2. DOMAIN nodes = {1, 2} /\ nodes[1] = a /\ nodes[2] = b
  BY <1>1
<1>3. {i \in DOMAIN nodes : \/ nodes[i].name = n
                            \/ nodes[i].children # <<>>} = {2}
  BY <1>2
<1>4. (CHOOSE i \in {2} : \A j \in {2} : i <= j) = 2
  OBVIOUS
<1>5. Stop(nodes, n) = b
  BY <1>2, <1>3, <1>4, Zenon DEF Stop
<1> QED BY <1>1, <1>5

\* Siblings of whom, and of whose descendants, none has a name.
LacksLeaves(nodes, n) ==
    /\ Siblings(nodes)
    /\ \A i \in DOMAIN nodes :
          nodes[i].name # n /\ nodes[i].children = <<>>

LacksParts(nodes, n) ==
    /\ Siblings(nodes)
    /\ \A i \in DOMAIN nodes :
          nodes[i].name # n /\ LacksLeaves(nodes[i].children, n)

LacksSteps(nodes, n) ==
    /\ Siblings(nodes)
    /\ \A i \in DOMAIN nodes :
          nodes[i].name # n /\ LacksParts(nodes[i].children, n)

LacksArguments(nodes, n) ==
    /\ Siblings(nodes)
    /\ \A i \in DOMAIN nodes :
          nodes[i].name # n /\ LacksSteps(nodes[i].children, n)

LEMMA LeastNumber ==
    ASSUME NEW S \in SUBSET Nat, S # {}
    PROVE  \E i \in S : \A j \in S : i <= j
<1>1. PICK x \in S : \A y \in S : ~ (<<y, x>> \in OpToRel(<, Nat))
  BY NatLessThanWellFounded, WFMin
<1>2. \A y \in S : ~ (y < x)
  BY <1>1 DEF OpToRel
<1> QED BY <1>2

LEMMA StopIsOne ==
    ASSUME NEW nodes, Siblings(nodes), NEW n,
           \A i \in DOMAIN nodes : nodes[i].name # n
    PROVE  \/ Stop(nodes, n) = NoNode
           \/ \E i \in DOMAIN nodes :
                 Stop(nodes, n) = nodes[i] /\ nodes[i].children # <<>>
<1> DEFINE stops == {i \in DOMAIN nodes : \/ nodes[i].name = n
                                          \/ nodes[i].children # <<>>}
           first == CHOOSE i \in stops : \A j \in stops : i <= j
<1>1. CASE stops = {}
  BY <1>1 DEF Stop
<1>2. CASE stops # {}
  <2>1. \E i \in stops : \A j \in stops : i <= j
    <3>1. stops \in SUBSET Nat
      BY DEF Siblings
    <3> QED BY <1>2, <3>1, LeastNumber
  <2>2. first \in stops
    BY <2>1
  <2> QED BY <1>2, <2>2 DEF Stop
<1> QED BY <1>1, <1>2

LEMMA TailOfSiblings ==
    ASSUME NEW nodes, Siblings(nodes), nodes # <<>>
    PROVE  /\ Siblings(Tail(nodes))
           /\ \A i \in DOMAIN Tail(nodes) :
                 \E j \in DOMAIN nodes : Tail(nodes)[i] = nodes[j]
<1>1. PICK S : nodes \in Seq(S)
  BY DEF Siblings
<1>2. /\ Tail(nodes) \in Seq(S) /\ Len(Tail(nodes)) = Len(nodes) - 1
      /\ Len(nodes) \in Nat \ {0}
      /\ DOMAIN Tail(nodes) = 1 .. Len(Tail(nodes))
      /\ DOMAIN nodes = 1 .. Len(nodes)
      /\ \A i \in 1 .. Len(Tail(nodes)) : Tail(nodes)[i] = nodes[i + 1]
  BY <1>1
<1>3. \A i \in DOMAIN Tail(nodes) : i + 1 \in DOMAIN nodes
  BY <1>2
<1> QED BY <1>2, <1>3 DEF Siblings

LEMMA NotInLeaves ==
    ASSUME NEW nodes, NEW n, LacksLeaves(nodes, n)
    PROVE  FindInLeaves(nodes, n) = NoNode
BY StopIsNone DEF LacksLeaves, FindInLeaves

LEMMA NotInParts ==
    ASSUME NEW nodes, NEW n, LacksParts(nodes, n)
    PROVE  FindInParts(nodes, n) = NoNode
<1>1. CASE Stop(nodes, n) = NoNode
  BY <1>1 DEF FindInParts, Found
<1>2. ASSUME NEW i \in DOMAIN nodes, Stop(nodes, n) = nodes[i],
             nodes[i].children # <<>>
      PROVE  FindInParts(nodes, n) = NoNode
  <2>1. PICK c : c = nodes[i].children
    OBVIOUS
  <2>2. nodes[i].name # n /\ LacksLeaves(c, n) /\ c # <<>>
    BY <1>2, <2>1 DEF LacksParts
  <2>3. LacksLeaves(Tail(c), n)
    BY <2>2, TailOfSiblings DEF LacksLeaves
  <2>4. FindInLeaves(c, n) = NoNode /\ FindInLeaves(Tail(c), n) = NoNode
    BY <2>2, <2>3, NotInLeaves
  <2> QED BY <1>2, <2>1, <2>2, <2>4, Zenon DEF FindInParts, Found
<1> QED BY <1>1, <1>2, StopIsOne DEF LacksParts

LEMMA NotInSteps ==
    ASSUME NEW nodes, NEW n, LacksSteps(nodes, n)
    PROVE  FindInSteps(nodes, n) = NoNode
<1>1. CASE Stop(nodes, n) = NoNode
  BY <1>1 DEF FindInSteps, Found
<1>2. ASSUME NEW i \in DOMAIN nodes, Stop(nodes, n) = nodes[i],
             nodes[i].children # <<>>
      PROVE  FindInSteps(nodes, n) = NoNode
  <2>1. PICK c : c = nodes[i].children
    OBVIOUS
  <2>2. nodes[i].name # n /\ LacksParts(c, n) /\ c # <<>>
    BY <1>2, <2>1 DEF LacksSteps
  <2>3. LacksParts(Tail(c), n)
    BY <2>2, TailOfSiblings DEF LacksParts
  <2>4. FindInParts(c, n) = NoNode /\ FindInParts(Tail(c), n) = NoNode
    BY <2>2, <2>3, NotInParts
  <2> QED BY <1>2, <2>1, <2>2, <2>4, Zenon DEF FindInSteps, Found
<1> QED BY <1>1, <1>2, StopIsOne DEF LacksSteps

LEMMA NotInArguments ==
    ASSUME NEW nodes, NEW n, LacksArguments(nodes, n)
    PROVE  FindInArguments(nodes, n) = NoNode
<1>1. CASE Stop(nodes, n) = NoNode
  BY <1>1 DEF FindInArguments, Found
<1>2. ASSUME NEW i \in DOMAIN nodes, Stop(nodes, n) = nodes[i],
             nodes[i].children # <<>>
      PROVE  FindInArguments(nodes, n) = NoNode
  <2>1. PICK c : c = nodes[i].children
    OBVIOUS
  <2>2. nodes[i].name # n /\ LacksSteps(c, n) /\ c # <<>>
    BY <1>2, <2>1 DEF LacksArguments
  <2>3. LacksSteps(Tail(c), n)
    BY <2>2, TailOfSiblings DEF LacksSteps
  <2>4. FindInSteps(c, n) = NoNode /\ FindInSteps(Tail(c), n) = NoNode
    BY <2>2, <2>3, NotInSteps
  <2> QED BY <1>2, <2>1, <2>2, <2>4, Zenon DEF FindInArguments, Found
<1> QED BY <1>1, <1>2, StopIsOne DEF LacksArguments

LEMMA FoundAtOnce ==
    ASSUME NEW nodes, Siblings(nodes), nodes # <<>>, NEW n, nodes[1].name = n
    PROVE  /\ FindInParts(nodes, n) = nodes[1]
           /\ FindInSteps(nodes, n) = nodes[1]
           /\ FindInArguments(nodes, n) = nodes[1]
           /\ FindNodeByName(nodes, n) = nodes[1]
<1>1. Stop(nodes, n) = nodes[1]
  BY StopIsFirst
<1> QED BY <1>1 DEF FindInParts, FindInSteps, FindInArguments,
                    FindNodeByName, Found

\* Nodes of the request.
LEMMA ElementLeaves ==
    ASSUME NEW chain, Len(chain) \in Nat, NEW n, n # "predicateElement"
    PROVE  /\ PredicateXml(chain).name = "predicate"
           /\ PredicateXml(chain).attributes = [size |-> Len(chain)]
           /\ LacksLeaves(PredicateXml(chain).children, n)
<1>1. PICK c : c = [k \in 1 .. Len(chain) |-> PredicateElement(chain[k])]
  OBVIOUS
<1>2. PredicateXml(chain) = Node("predicate", [size |-> Len(chain)], c)
  BY <1>1 DEF PredicateXml
<1>3. \A p : /\ PredicateElement(p).name = "predicateElement"
             /\ PredicateElement(p).children = <<>>
  BY DEF PredicateElement, Node
<1>4. Siblings(c)
  <2>1. c \in Seq({PredicateElement(chain[k]) : k \in 1 .. Len(chain)})
    BY <1>1
  <2> QED BY <2>1 DEF Siblings
<1>5. \A i \in DOMAIN c : c[i].name # n /\ c[i].children = <<>>
  BY <1>1, <1>3
<1> QED BY <1>2, <1>4, <1>5, NodeIs DEF LacksLeaves

LEMMA PredicateIs ==
    ASSUME NEW chain
    PROVE  /\ PredicateXml(chain).name = "predicate"
           /\ PredicateXml(chain).attributes = [size |-> Len(chain)]
           /\ PredicateXml(chain).children =
                 [k \in 1 .. Len(chain) |-> PredicateElement(chain[k])]
<1>1. PICK a, c :
         /\ a = [size |-> Len(chain)]
         /\ c = [k \in 1 .. Len(chain) |-> PredicateElement(chain[k])]
  OBVIOUS
<1>2. PredicateXml(chain) = Node("predicate", a, c)
  BY <1>1 DEF PredicateXml
<1>3. /\ PredicateXml(chain).name = "predicate"
      /\ PredicateXml(chain).attributes = a
      /\ PredicateXml(chain).children = c
  BY <1>2, NodeIs
<1> QED BY <1>1, <1>3

LEMMA Concatenations ==
    ASSUME NEW a, NEW b, NEW c
    PROVE  /\ <<>> \o <<a>> = <<a>>
           /\ <<a>> \o <<b>> = <<a, b>>
           /\ <<a, b>> \o <<c>> = <<a, b, c>>
<1> DEFINE S == {a, b, c}
<1>1. /\ <<>> \in Seq(S) /\ <<a>> \in Seq(S) /\ <<a, b>> \in Seq(S)
      /\ a \in S /\ b \in S /\ c \in S
  OBVIOUS
<1> HIDE DEF S
<1>2. /\ Append(<<>>, a) = <<>> \o <<a>>
      /\ Append(<<a>>, b) = <<a>> \o <<b>>
      /\ Append(<<a, b>>, c) = <<a, b>> \o <<c>>
  BY <1>1, AppendIsConcat, Zenon
<1>3. /\ Append(<<>>, a) = <<a>>
      /\ Append(<<a>>, b) = <<a, b>>
      /\ Append(<<a, b>>, c) = <<a, b, c>>
  <2>1. PICK x, y : x = Append(<<a>>, b) /\ y = <<a, b>>
    OBVIOUS
  <2>2. /\ x \in Seq(S) /\ y \in Seq(S) /\ Len(x) = 2 /\ Len(y) = 2
        /\ x[1] = y[1] /\ x[2] = y[2]
    BY <1>1, <2>1
  <2>3. x = y
    BY <2>2
  <2>4. PICK v, w : v = Append(<<a, b>>, c) /\ w = <<a, b, c>>
    OBVIOUS
  <2>5. /\ v \in Seq(S) /\ w \in Seq(S) /\ Len(v) = 3 /\ Len(w) = 3
        /\ v[1] = w[1] /\ v[2] = w[2] /\ v[3] = w[3]
    BY <1>1, <2>4
  <2>6. v = w
    BY <2>5
  <2> QED BY <2>1, <2>3, <2>4, <2>6, AppendToNothing
<1> QED BY <1>2, <1>3, Zenon

LEMMA SiblingsOf ==
    ASSUME NEW a, NEW b, NEW c
    PROVE  /\ Siblings(<<>>)
           /\ Siblings(<<a>>)
           /\ Siblings(<<a, b>>)
           /\ Siblings(<<a, b, c>>)
<1>1. /\ <<>> \in Seq({a})
      /\ <<a>> \in Seq({a})
      /\ <<a, b>> \in Seq({a, b})
      /\ <<a, b, c>> \in Seq({a, b, c})
  OBVIOUS
<1> QED BY <1>1, Zenon DEF Siblings

LEMMA Among ==
    ASSUME NEW a, NEW b, NEW c, c = <<a>> \/ c = <<b, a>>
    PROVE  /\ Siblings(c) /\ c # <<>>
           /\ \A i \in DOMAIN c : c[i] = a \/ c[i] = b
<1>1. CASE c = <<a>>
  <2>1. Siblings(c)
    BY <1>1, SiblingsOf, Zenon
  <2>2. c # <<>> /\ \A i \in DOMAIN c : i = 1
    BY <1>1
  <2>3. c[1] = a
    BY <1>1
  <2> QED BY <2>1, <2>2, <2>3, Zenon
<1>2. CASE c = <<b, a>>
  <2>1. Siblings(c)
    BY <1>2, SiblingsOf, Zenon
  <2>2. c # <<>> /\ \A i \in DOMAIN c : i = 1 \/ i = 2
    BY <1>2
  <2>3. c[1] = b /\ c[2] = a
    BY <1>2
  <2> QED BY <2>1, <2>2, <2>3, Zenon
<1> QED BY <1>1, <1>2

LEMMA StepIsNode ==
    ASSUME NEW s
    PROVE  /\ StepXml(s).name = "step"
           /\ StepXml(s).attributes =
                 [pathType |-> s.pType, stepType |-> s.sType]
           /\ StepXml(s).children =
                 TextNodes(s.stepName) \o <<PredicateXml(s.pred)>>
<1>1. PICK a, c : /\ a = [pathType |-> s.pType, stepType |-> s.sType]
                  /\ c = TextNodes(s.stepName) \o <<PredicateXml(s.pred)>>
  OBVIOUS
<1>2. StepXml(s) = Node("step", a, c)
  BY <1>1 DEF StepXml
<1>3. StepXml(s).name = "step" /\ StepXml(s).attributes = a
      /\ StepXml(s).children = c
  BY <1>2, NodeIs
<1> QED BY <1>1, <1>3

\* A step is its text, if it has one, and its predicates.
LEMMA StepIs ==
    ASSUME NEW s
    PROVE  \E t :
              /\ t = Node("text", [content |-> s.stepName], <<>>)
              /\ t.name = "text" /\ t.children = <<>>
              /\ t.attributes = [content |-> s.stepName]
              /\ StepXml(s).children =
                    IF s.stepName = "" THEN <<PredicateXml(s.pred)>>
                    ELSE <<t, PredicateXml(s.pred)>>
<1>1. PICK p, t : /\ p = PredicateXml(s.pred)
                  /\ t = Node("text", [content |-> s.stepName], <<>>)
  OBVIOUS
<1>2. t.name = "text" /\ t.children = <<>>
      /\ t.attributes = [content |-> s.stepName]
  BY <1>1, NodeIs
<1>3. StepXml(s).children = TextNodes(s.stepName) \o <<p>>
  BY <1>1, StepIsNode
<1>4. CASE s.stepName = ""
  <2>1. TextNodes(s.stepName) = <<>>
    BY <1>4 DEF TextNodes
  <2> QED BY <1>1, <1>2, <1>3, <1>4, <2>1, Concatenations, Zenon
<1>5. CASE s.stepName # ""
  <2>1. TextNodes(s.stepName) = <<t>>
    BY <1>1, <1>5 DEF TextNodes
  <2> QED BY <1>1, <1>2, <1>3, <1>5, <2>1, Concatenations, Zenon
<1> QED BY <1>4, <1>5

LEMMA StepLacks ==
    ASSUME NEW s, Len(s.pred) \in Nat, NEW n,
           n \notin {"step", "text", "predicate", "predicateElement"}
    PROVE  LacksParts(StepXml(s).children, n)
<1>1. PICK p : p = PredicateXml(s.pred)
  OBVIOUS
<1>2. p.name = "predicate" /\ LacksLeaves(p.children, n)
  <2>1. PICK chain : chain = s.pred
    OBVIOUS
  <2> QED BY <1>1, <2>1, ElementLeaves
<1>3. PICK t : /\ t.name = "text" /\ t.children = <<>>
               /\ StepXml(s).children = IF s.stepName = "" THEN <<p>>
                                        ELSE <<t, p>>
  BY <1>1, StepIs, Zenon
<1>4. PICK c : c = StepXml(s).children
  OBVIOUS
<1>5. c = <<p>> \/ c = <<t, p>>
  BY <1>3, <1>4, Zenon
<1>6. Siblings(c) /\ \A i \in DOMAIN c : c[i] = p \/ c[i] = t
  BY ONLY <1>5, Among
<1>7. LacksLeaves(<<>>, n)
  <2>1. Siblings(<<>>)
    BY SiblingsOf
  <2> QED BY <2>1 DEF LacksLeaves
<1>8. ASSUME NEW i \in DOMAIN c
      PROVE  c[i].name # n /\ LacksLeaves(c[i].children, n)
  <2>1. CASE c[i] = p
    BY <1>2, <2>1
  <2>2. CASE c[i] = t
    BY <1>3, <1>7, <2>2
  <2> QED BY <1>6, <2>1, <2>2
<1> QED BY <1>4, <1>6, <1>8 DEF LacksParts

LEMMA PathLacks ==
    ASSUME NEW path, Len(path) \in Nat,
           \A k \in 1 .. Len(path) : Len(path[k].pred) \in Nat,
           NEW n, n \notin {"step", "text", "predicate", "predicateElement"}
    PROVE  LacksSteps(PathXml(path).children, n)
<1>1. PICK c : c = [k \in 1 .. Len(path) |-> StepXml(path[k])]
  OBVIOUS
<1>2. PathXml(path).children = c
  BY <1>1, NodeIs DEF PathXml
<1>3. Siblings(c)
  <2>1. c \in Seq({StepXml(path[k]) : k \in 1 .. Len(path)})
    BY <1>1
  <2> QED BY <2>1 DEF Siblings
<1>4. ASSUME NEW k \in DOMAIN c
      PROVE  c[k].name # n /\ LacksParts(c[k].children, n)
  <2>1. k \in 1 .. Len(path) /\ c[k] = StepXml(path[k])
    BY <1>1
  <2>2. PICK s : s = path[k]
    OBVIOUS
  <2>3. Len(s.pred) \in Nat
    BY <2>1, <2>2
  <2> QED BY <2>1, <2>2, <2>3, StepLacks, StepIsNode
<1> QED BY <1>2, <1>3, <1>4 DEF LacksSteps

LEMMA PathIsNode ==
    ASSUME NEW path
    PROVE  /\ PathXml(path).name = "path"
           /\ PathXml(path).children =
                 [k \in 1 .. Len(path) |-> StepXml(path[k])]
<1>1. PICK a, c : /\ a = [size |-> Len(path)]
                  /\ c = [k \in 1 .. Len(path) |-> StepXml(path[k])]
  OBVIOUS
<1>2. PathXml(path) = Node("path", a, c)
  BY <1>1 DEF PathXml
<1>3. PathXml(path).name = "path" /\ PathXml(path).children = c
  BY <1>2, NodeIs
<1> QED BY <1>1, <1>3

\* The path of a request leads to the predicates of its first step.
LEMMA FirstStepFound ==
    ASSUME NEW path, Len(path) \in Nat \ {0}, Len(path[1].pred) \in Nat
    PROVE  StepPredicate(PathXml(path)) = PredicateXml(path[1].pred)
<1>1. PICK steps : steps = [k \in 1 .. Len(path) |-> StepXml(path[k])]
  OBVIOUS
<1>2. PathXml(path).name = "path" /\ PathXml(path).children = steps
  BY <1>1, NodeIs DEF PathXml
<1>3. Siblings(steps) /\ steps # <<>> /\ steps[1] = StepXml(path[1])
  <2>1. steps \in Seq({StepXml(path[k]) : k \in 1 .. Len(path)})
    BY <1>1
  <2>2. Len(steps) = Len(path) /\ steps[1] = StepXml(path[1])
    BY <1>1
  <2> QED BY <2>1, <2>2, EmptyIs DEF Siblings
<1>4. PICK p, s : p = PredicateXml(path[1].pred) /\ s = path[1]
  OBVIOUS
<1>5. p.name = "predicate"
  <2>1. PICK chain : chain = path[1].pred
    OBVIOUS
  <2> QED BY <1>4, <2>1, ElementLeaves
<1>6. PICK t, c : /\ t.name = "text" /\ t.children = <<>>
                  /\ c = steps[1].children
                  /\ c = IF s.stepName = "" THEN <<p>> ELSE <<t, p>>
  BY <1>3, <1>4, StepIs, Zenon
<1>7. steps[1].name = "step"
  BY <1>3, StepIsNode
<1>8. c = <<p>> \/ c = <<t, p>>
  BY <1>6, Zenon
<1>9. FindInSteps(c, "predicate") = p
  <2>1. Stop(c, "predicate") = p
    <3>1. CASE c = <<p>>
      <4>1. c[1] = p
        BY <3>1
      <4> QED BY <1>5, <1>8, <4>1, Among, StopIsFirst
    <3>2. CASE c = <<t, p>>
      BY <1>5, <1>6, <3>2, StopIsSecond
    <3> QED BY <1>8, <3>1, <3>2
  <2> QED BY <1>5, <2>1, Zenon DEF FindInSteps, Found
<1>10. FindInArguments(steps, "predicate") = p
  <2>1. c # <<>>
    BY <1>8, Among
  <2>2. Stop(steps, "predicate") = steps[1]
    BY <1>3, <1>6, <2>1, StopIsFirst
  <2>3. p # NoNode /\ steps[1] # NoNode
    BY <1>5, <1>7, NoNodeIs
  <2> QED BY <1>6, <1>7, <1>9, <2>2, <2>3 DEF FindInArguments, Found
<1>11. FindNodeByName(<<PathXml(path)>>, "predicate") = p
  <2>1. PICK x : x = PathXml(path)
    OBVIOUS
  <2>2. PICK l : l = <<x>>
    OBVIOUS
  <2>3. Siblings(l) /\ l # <<>> /\ l[1] = x
    BY <2>2, SiblingsOf
  <2>4. Stop(l, "predicate") = x
    BY <1>2, <1>3, <2>1, <2>3, StopIsFirst
  <2>5. p # NoNode /\ x # NoNode /\ x.name = "path" /\ x.children = steps
    BY <1>2, <1>5, <2>1, NoNodeIs
  <2>6. FindNodeByName(l, "predicate") = p
    BY <1>10, <2>4, <2>5 DEF FindNodeByName, Found
  <2> QED BY <2>1, <2>2, <2>6
<1> QED BY <1>4, <1>11, Zenon DEF StepPredicate

-----------------------------------------------------------------------------
(* The request that was sent.                                              *)

LEMMA SentTree ==
    ASSUME ParserInv, pc \in {"send"} \cup Serving
    PROVE  /\ IsRequest(text)
           /\ tree = Meaning(text)
           /\ tree.type = text.type
           /\ tree.docName = text.docName
           /\ tree.schema = MeaningOfSchema(text.schema)
           /\ tree.elName = text.elName
           /\ tree.value = text.value
           /\ tree.pred = MeaningOfChain(text.pred)
           /\ tree.path = MeaningOfPath(text.path)
<1>1. /\ unread.schema = <<>> /\ unread.pred = <<>> /\ unread.path = <<>>
      /\ tree = TreeOf(Done(unread.schema, text.schema),
                       Done(unread.pred, text.pred),
                       Done(unread.path, text.path))
  BY DEF ParserInv, OrderInv, TreeInv, Serving
<1>2. /\ IsRequest(text)
      /\ unread.schema \in Seq(WrittenElements)
      /\ text.schema \in Seq(WrittenElements)
      /\ unread.pred \in Seq(Predicates) /\ text.pred \in Seq(Predicates)
      /\ unread.path \in Seq(ReadSteps)
      /\ text.path \in Seq(EntrySteps) /\ text.path \in Seq(ReadSteps)
  <2>1. EntrySteps \subseteq ReadSteps
    BY EntryFacts
  <2> QED BY <2>1, UnreadFacts, TextFacts, ChainMeans, LargerSeq
<1>3. /\ Done(unread.schema, text.schema) = Len(text.schema)
      /\ Done(unread.pred, text.pred) = Len(text.pred)
      /\ Done(unread.path, text.path) = Len(text.path)
  BY <1>1, <1>2, AllDone
<1>4. tree = Meaning(text)
  BY <1>1, <1>2, <1>3, TreeOfAll
<1>5. PICK schema, pred, path :
         /\ schema = MeaningOfSchema(text.schema)
         /\ pred = MeaningOfChain(text.pred)
         /\ path = MeaningOfPath(text.path)
  OBVIOUS
<1>6. tree = Fields(text.type, text.docName, schema, text.elName, text.value,
                    pred, path)
  BY <1>4, <1>5, Zenon DEF Meaning
<1> QED BY <1>2, <1>4, <1>5, <1>6, FieldsAre

LEMMA SentSteps ==
    ASSUME NEW path \in Seq(EntrySteps)
    PROVE  /\ Len(MeaningOfPath(path)) = Len(path)
           /\ DOMAIN MeaningOfPath(path) = 1 .. Len(path)
           /\ \A k \in 1 .. Len(path) :
                 /\ MeaningOfPath(path)[k].pType = path[k].pType
                 /\ MeaningOfPath(path)[k].sType = path[k].sType
                 /\ MeaningOfPath(path)[k].stepName = path[k].stepName
                 /\ MeaningOfPath(path)[k].pred =
                       MeaningOfChain(path[k].pred)
                 /\ Len(MeaningOfPath(path)[k].pred) = Len(path[k].pred)
                 /\ Len(path[k].pred) \in Nat
<1>1. PICK m : m = MeaningOfPath(path)
  OBVIOUS
<1>2. /\ m = [k \in 1 .. Len(path) |-> m[k]]
      /\ \A k \in 1 .. Len(path) :
            m[k] = [path[k] EXCEPT !.pred = MeaningOfChain(path[k].pred)]
  BY <1>1, PathMeans
<1>3. Len(path) \in Nat
  OBVIOUS
<1>4. DOMAIN m = 1 .. Len(path) /\ Len(m) = Len(path)
  BY <1>2, <1>3
<1>5. ASSUME NEW k \in 1 .. Len(path)
      PROVE  /\ m[k].pType = path[k].pType
             /\ m[k].sType = path[k].sType
             /\ m[k].stepName = path[k].stepName
             /\ m[k].pred = MeaningOfChain(path[k].pred)
             /\ Len(m[k].pred) = Len(path[k].pred)
             /\ Len(path[k].pred) \in Nat
  <2>1. PICK s \in ReadSteps : s = path[k] /\ s.pred \in Chains
    <3>1. path[k] \in EntrySteps
      OBVIOUS
    <3> QED BY <3>1, EntryFacts
  <2>2. PICK c : c = MeaningOfChain(s.pred)
    OBVIOUS
  <2>3. m[k] = [s EXCEPT !.pred = c]
    BY <1>2, <2>1, <2>2
  <2>4. /\ m[k].pType = s.pType /\ m[k].sType = s.sType
        /\ m[k].stepName = s.stepName /\ m[k].pred = c
    BY <2>1, <2>3 DEF ReadSteps
  <2>5. Len(c) = Len(s.pred) /\ Len(s.pred) \in Nat
    <3>1. /\ c = [j \in 1 .. Len(s.pred) |-> c[j]]
          /\ s.pred \in Seq(Predicates)
      BY <2>1, <2>2, ChainMeans
    <3>2. Len(s.pred) \in Nat
      BY <3>1
    <3> QED BY <3>1, <3>2
  <2> QED BY <2>1, <2>2, <2>4, <2>5
<1> QED BY <1>1, <1>4, <1>5

LEMMA RequestIs ==
    /\ RequestXml.name = "request"
    /\ RequestXml.attributes = [type |-> tree.type]
    /\ RequestXml.children = Arguments \o <<PathXml(tree.path)>>
<1>1. PICK a, c : /\ a = [type |-> tree.type]
                  /\ c = Arguments \o <<PathXml(tree.path)>>
  OBVIOUS
<1>2. RequestXml = Node("request", a, c)
  BY <1>1 DEF RequestXml
<1>3. /\ RequestXml.name = "request" /\ RequestXml.attributes = a
      /\ RequestXml.children = c
  BY <1>2, NodeIs
<1> QED BY <1>1, <1>3

LEMMA AddRequest ==
    ASSUME tree.type = "add"
    PROVE  RequestXml.children =
              <<Node("document", <<>>, TextNodes(tree.docName)),
                SchemaXml(tree.schema), PathXml(tree.path)>>
<1>1. PICK d, s, p :
         /\ d = Node("document", <<>>, TextNodes(tree.docName))
         /\ s = SchemaXml(tree.schema) /\ p = PathXml(tree.path)
  OBVIOUS
<1>2. Arguments = <<d, s>>
  BY <1>1 DEF Arguments
<1>3. RequestXml.children = Arguments \o <<p>>
  BY <1>1, RequestIs
<1>4. RequestXml.children = <<d, s, p>>
  BY <1>2, <1>3, Concatenations
<1> QED BY <1>1, <1>4

LEMMA UpdateRequest ==
    ASSUME tree.type = "update"
    PROVE  RequestXml.children =
              <<Node("element", [name |-> tree.elName,
                                 newValue |-> tree.value], <<>>),
                PathXml(tree.path)>>
<1>1. PICK e, p :
         /\ e = Node("element", [name |-> tree.elName,
                                 newValue |-> tree.value], <<>>)
         /\ p = PathXml(tree.path)
  OBVIOUS
<1>2. Arguments = <<e>>
  BY <1>1 DEF Arguments
<1>3. RequestXml.children = Arguments \o <<p>>
  BY <1>1, RequestIs
<1>4. RequestXml.children = <<e, p>>
  BY <1>2, <1>3, Concatenations
<1> QED BY <1>1, <1>4

LEMMA JoinRequest ==
    ASSUME tree.type = "join"
    PROVE  RequestXml.children =
              <<PredicateXml(tree.pred), PathXml(tree.path)>>
<1>1. PICK j, p : j = PredicateXml(tree.pred) /\ p = PathXml(tree.path)
  OBVIOUS
<1>2. Arguments = <<j>>
  BY <1>1 DEF Arguments
<1>3. RequestXml.children = Arguments \o <<p>>
  BY <1>1, RequestIs
<1>4. RequestXml.children = <<j, p>>
  BY <1>2, <1>3, Concatenations
<1> QED BY <1>1, <1>4

LEMMA PlainRequest ==
    ASSUME tree.type \in {"delete", "find", "parent"}
    PROVE  RequestXml.children = <<PathXml(tree.path)>>
<1>1. PICK p : p = PathXml(tree.path)
  OBVIOUS
<1>2. Arguments = <<>>
  BY DEF Arguments
<1>3. RequestXml.children = Arguments \o <<p>>
  BY <1>1, RequestIs
<1>4. RequestXml.children = <<p>>
  BY <1>2, <1>3, Concatenations
<1> QED BY <1>1, <1>4

LEMMA PathFound ==
    ASSUME tree.type \in RequestTypes, request = RequestXml
    PROVE  /\ PathNode = PathXml(tree.path)
           /\ Siblings(request.children)
           /\ request.children # <<>>
<1>1. PICK c, p : c = request.children /\ p = PathXml(tree.path)
  OBVIOUS
<1>2. \E a, b : c = <<p>> \/ c = <<a, p>> \/ c = <<a, b, p>>
  <2>1. PICK d, s, e, j :
           /\ d = Node("document", <<>>, TextNodes(tree.docName))
           /\ s = SchemaXml(tree.schema)
           /\ e = Node("element", [name |-> tree.elName,
                                   newValue |-> tree.value], <<>>)
           /\ j = PredicateXml(tree.pred)
    OBVIOUS
  <2>2. CASE tree.type = "add"
    <3>1. c = <<d, s, p>>
      BY <1>1, <2>1, <2>2, AddRequest
    <3> QED BY <3>1
  <2>3. CASE tree.type = "update"
    <3>1. c = <<e, p>>
      BY <1>1, <2>1, <2>3, UpdateRequest
    <3> QED BY <3>1
  <2>4. CASE tree.type = "join"
    <3>1. c = <<j, p>>
      BY <1>1, <2>1, <2>4, JoinRequest
    <3> QED BY <3>1
  <2>5. CASE tree.type \in {"delete", "find", "parent"}
    <3>1. c = <<p>>
      BY <1>1, <2>5, PlainRequest
    <3> QED BY <3>1
  <2> QED BY <2>2, <2>3, <2>4, <2>5 DEF RequestTypes
<1>3. c[Len(c)] = p /\ c # <<>>
  BY <1>2
<1>4. Siblings(c)
  BY <1>2, SiblingsOf
<1> QED BY <1>1, <1>3, <1>4 DEF PathNode

LEMMA InRequest ==
    ASSUME request = RequestXml, tree.type \in RequestTypes,
           NEW n, n # "request", NEW x, NEW c,
           c = request.children, x = FindInArguments(c, n)
    PROVE  FindNodeByName(root, n) =
              IF x # NoNode THEN x ELSE FindInArguments(Tail(c), n)
<1>1. PICK l : l = <<request>>
  OBVIOUS
<1>2. Siblings(l) /\ l # <<>> /\ l[1] = request
  BY <1>1, SiblingsOf
<1>3. request.name = "request" /\ c # <<>>
  BY RequestIs, PathFound
<1>4. Stop(l, n) = request
  BY <1>2, <1>3, StopIsFirst
<1>5. request # NoNode
  BY <1>3, NoNodeIs
<1> QED BY <1>1, <1>3, <1>4, <1>5, Zenon DEF root, FindNodeByName, Found

LEMMA EmptyLacks ==
    ASSUME NEW n
    PROVE  /\ LacksLeaves(<<>>, n)
           /\ LacksParts(<<>>, n)
           /\ LacksSteps(<<>>, n)
<1>1. Siblings(<<>>)
  BY SiblingsOf
<1> QED BY <1>1 DEF LacksLeaves, LacksParts, LacksSteps

LEMMA LeavesLack ==
    ASSUME NEW nodes, NEW n, LacksLeaves(nodes, n)
    PROVE  LacksSteps(nodes, n)
BY EmptyLacks DEF LacksLeaves, LacksSteps

LEMMA StopIsNext ==
    ASSUME NEW nodes, Siblings(nodes), Len(nodes) >= 2, NEW n,
           nodes[1].name # n, nodes[1].children = <<>>, nodes[2].name = n
    PROVE  Stop(nodes, n) = nodes[2]
<1> DEFINE stops == {i \in DOMAIN nodes : \/ nodes[i].name = n
                                          \/ nodes[i].children # <<>>}
<1>1. DOMAIN nodes = 1 .. Len(nodes) /\ Len(nodes) \in Nat
  BY DEF Siblings
<1>2. 2 \in stops /\ 1 \notin stops /\ \A j \in stops : j \in Nat \ {0}
  BY <1>1
<1>3. (CHOOSE i \in stops : \A j \in stops : i <= j) = 2
  <2>1. \A j \in stops : 2 <= j
    BY <1>2
  <2>2. \A i \in stops : (\A j \in stops : i <= j) => i = 2
    BY <1>2, <2>1
  <2> HIDE DEF stops
  <2> QED BY <1>2, <2>1, <2>2
<1> QED BY <1>2, <1>3 DEF Stop

\* ADD finds its document and its schema.
LEMMA AddFinds ==
    ASSUME request = RequestXml, tree.type = "add"
    PROVE  /\ FindNodeByName(root, "document") =
                 Node("document", <<>>, TextNodes(tree.docName))
           /\ SchemaNode = SchemaXml(tree.schema)
<1>1. PICK d, s, p, c :
         /\ d = Node("document", <<>>, TextNodes(tree.docName))
         /\ s = SchemaXml(tree.schema) /\ p = PathXml(tree.path)
         /\ c = request.children
  OBVIOUS
<1>2. c = <<d, s, p>>
  BY <1>1, AddRequest
<1>3. Siblings(c) /\ c # <<>> /\ c[1] = d /\ c[2] = s /\ Len(c) = 3
  BY <1>2, SiblingsOf
<1>4. /\ d.name = "document" /\ d.children = TextNodes(tree.docName)
      /\ s.name = "schema"
  BY <1>1, NodeIs DEF SchemaXml
<1>5. tree.type \in RequestTypes
  BY DEF RequestTypes
<1>6. d # NoNode /\ s # NoNode
  BY <1>4, NoNodeIs
<1>7. FindNodeByName(root, "document") = d
  <2>1. FindInArguments(c, "document") = d
    BY <1>3, <1>4, FoundAtOnce
  <2> QED BY <1>1, <1>5, <1>6, <2>1, InRequest
<1>8. FindNodeByName(root, "schema") = s
  <2>1. CASE tree.docName = ""
    <3>1. d.children = <<>>
      BY <1>4, <2>1 DEF TextNodes
    <3>2. Stop(c, "schema") = s
      BY <1>3, <1>4, <3>1, StopIsNext
    <3>3. FindInArguments(c, "schema") = s
      BY <1>4, <3>2, Zenon DEF FindInArguments, Found
    <3> QED BY <1>1, <1>5, <1>6, <3>3, InRequest
  <2>2. CASE tree.docName # ""
    <3>1. PICK t, l : /\ t = Node("text", [content |-> tree.docName], <<>>)
                      /\ l = <<t>>
      OBVIOUS
    <3>2. d.children = l
      BY <1>4, <2>2, <3>1 DEF TextNodes
    <3>3. t.name = "text" /\ t.children = <<>>
      BY <3>1, NodeIs
    <3>4. Siblings(l) /\ DOMAIN l = {1} /\ l[1] = t /\ l # <<>>
      <4>1. Siblings(l)
        BY <3>1, SiblingsOf
      <4>2. DOMAIN l = {1} /\ l[1] = t /\ l # <<>>
        BY <3>1
      <4> QED BY <4>1, <4>2
    <3>5. LacksSteps(l, "schema") /\ LacksSteps(Tail(l), "schema")
      <4>1. LacksSteps(l, "schema")
        BY <3>3, <3>4, EmptyLacks DEF LacksSteps
      <4> QED BY <3>4, <4>1, TailOfSiblings DEF LacksSteps
    <3>6. /\ FindInSteps(l, "schema") = NoNode
          /\ FindInSteps(Tail(l), "schema") = NoNode
      BY <3>5, NotInSteps
    <3>7. Stop(c, "schema") = d
      BY <1>3, <3>2, <3>4, StopIsFirst
    <3>8. FindInArguments(c, "schema") = NoNode
      BY <1>4, <3>2, <3>6, <3>7 DEF FindInArguments, Found
    <3>9. PICK r : r = Tail(c)
      OBVIOUS
    <3>10. Siblings(r) /\ r # <<>> /\ r[1] = s
      <4>1. r = <<s, p>>
        BY <1>2, <3>9
      <4> QED BY <4>1, SiblingsOf
    <3>11. FindInArguments(r, "schema") = s
      BY <1>4, <3>10, FoundAtOnce
    <3> QED BY <1>1, <1>5, <3>8, <3>9, <3>11, InRequest
  <2> QED BY <2>1, <2>2
<1> QED BY <1>1, <1>7, <1>8 DEF SchemaNode

\* JOIN finds its predicate.
LEMMA JoinFinds ==
    ASSUME request = RequestXml, tree.type = "join",
           Len(tree.pred) \in Nat
    PROVE  FindNodeByName(root, "predicate") = PredicateXml(tree.pred)
<1>1. PICK j, p, c : /\ j = PredicateXml(tree.pred)
                     /\ p = PathXml(tree.path)
                     /\ c = request.children
  OBVIOUS
<1>2. c = <<j, p>>
  BY <1>1, JoinRequest
<1>3. Siblings(c) /\ c # <<>> /\ c[1] = j
  BY <1>2, SiblingsOf
<1>4. j.name = "predicate"
  <2>1. PICK chain : chain = tree.pred
    OBVIOUS
  <2> QED BY <1>1, <2>1, ElementLeaves
<1>5. FindInArguments(c, "predicate") = j
  BY <1>3, <1>4, FoundAtOnce
<1>6. j # NoNode /\ tree.type \in RequestTypes
  BY <1>4, NoNodeIs DEF RequestTypes
<1> QED BY <1>1, <1>5, <1>6, InRequest

\* The others find neither a document nor a schema.
LEMMA NothingFound ==
    ASSUME request = RequestXml, tree.type \in RequestTypes \ {"add"},
           Len(tree.pred) \in Nat, Len(tree.path) \in Nat,
           \A k \in 1 .. Len(tree.path) : Len(tree.path[k].pred) \in Nat,
           NEW n \in {"document", "schema"}
    PROVE  FindNodeByName(root, n) = NoNode
<1>1. PICK e, j, p, c :
         /\ e = Node("element", [name |-> tree.elName,
                                 newValue |-> tree.value], <<>>)
         /\ j = PredicateXml(tree.pred)
         /\ p = PathXml(tree.path)
         /\ c = request.children
  OBVIOUS
<1>2. e.name # n /\ LacksSteps(e.children, n)
  BY <1>1, NodeIs, EmptyLacks
<1>3. j.name # n /\ LacksSteps(j.children, n)
  <2>1. PICK chain : chain = tree.pred
    OBVIOUS
  <2>2. j.name = "predicate" /\ LacksLeaves(j.children, n)
    BY <1>1, <2>1, ElementLeaves
  <2> QED BY <2>2, LeavesLack
<1>4. p.name # n /\ LacksSteps(p.children, n)
  <2>1. PICK path : path = tree.path
    OBVIOUS
  <2>2. LacksSteps(p.children, n)
    BY <1>1, <2>1, PathLacks
  <2>3. p.name = "path"
    BY <1>1, PathIsNode
  <2> QED BY <2>2, <2>3
<1>5. c = <<p>> \/ c = <<e, p>> \/ c = <<j, p>>
  <2>1. tree.type \in {"update", "join", "delete", "find", "parent"}
    BY DEF RequestTypes
  <2> QED BY <1>1, <2>1, UpdateRequest, JoinRequest, PlainRequest
<1>6. /\ Siblings(c) /\ c # <<>>
      /\ \A i \in DOMAIN c : c[i] = p \/ c[i] = e \/ c[i] = j
  <2>1. CASE c = <<p>> \/ c = <<e, p>>
    <3>1. Siblings(c) /\ \A i \in DOMAIN c : c[i] = p \/ c[i] = e
      BY ONLY <2>1, Among
    <3>2. c # <<>>
      BY ONLY <2>1
    <3> QED BY <3>1, <3>2
  <2>2. CASE c = <<p>> \/ c = <<j, p>>
    <3>1. Siblings(c) /\ \A i \in DOMAIN c : c[i] = p \/ c[i] = j
      BY ONLY <2>2, Among
    <3>2. c # <<>>
      BY ONLY <2>2
    <3> QED BY <3>1, <3>2
  <2> QED BY <1>5, <2>1, <2>2
<1>7. LacksArguments(c, n)
  BY <1>2, <1>3, <1>4, <1>6 DEF LacksArguments
<1>8. LacksArguments(Tail(c), n)
  BY <1>6, <1>7, TailOfSiblings DEF LacksArguments
<1>9. /\ FindInArguments(c, n) = NoNode
      /\ FindInArguments(Tail(c), n) = NoNode
  BY <1>7, <1>8, NotInArguments
<1> QED BY <1>1, <1>9, InRequest

-----------------------------------------------------------------------------
(* Decoding gives back what was written.                                   *)

LEMMA PropIs ==
    ASSUME NEW node, NEW a \in DOMAIN node.attributes
    PROVE  Prop(node, a) = node.attributes[a]
BY DEF Prop

LEMMA StepDecoded ==
    ASSUME NEW s, Len(s.pred) \in Nat
    PROVE  /\ Prop(StepXml(s), "pathType") = s.pType
           /\ Prop(StepXml(s), "stepType") = s.sType
           /\ Content(StepXml(s)) = s.stepName
<1>1. PICK x, a : x = StepXml(s)
                  /\ a = [pathType |-> s.pType, stepType |-> s.sType]
  OBVIOUS
<1>2. x.attributes = a
  BY <1>1, StepIsNode
<1>3. /\ DOMAIN a = {"pathType", "stepType"}
      /\ a["pathType"] = s.pType /\ a["stepType"] = s.sType
  BY <1>1
<1>4. Prop(x, "pathType") = s.pType /\ Prop(x, "stepType") = s.sType
  BY <1>2, <1>3, PropIs
<1>5. PICK p : p = PredicateXml(s.pred)
  OBVIOUS
<1>6. p.name = "predicate"
  <2>1. PICK chain : chain = s.pred
    OBVIOUS
  <2> QED BY <1>5, <2>1, ElementLeaves
<1>7. PICK t : /\ t.name = "text"
               /\ t.attributes = [content |-> s.stepName]
               /\ x.children = IF s.stepName = "" THEN <<p>>
                               ELSE <<t, p>>
  <2>1. PICK y : /\ y.name = "text"
                 /\ y.attributes = [content |-> s.stepName]
                 /\ StepXml(s).children = IF s.stepName = "" THEN <<p>>
                                          ELSE <<y, p>>
    BY <1>5, StepIs, Zenon
  <2> QED BY <1>1, <2>1
<1>8. t.attributes.content = s.stepName
  <2>1. PICK b : b = [content |-> s.stepName]
    OBVIOUS
  <2>2. b.content = s.stepName
    BY <2>1
  <2>3. t.attributes = b
    BY <1>7, <2>1, Zenon
  <2> QED BY <2>2, <2>3
<1>9. PICK c : c = x.children
  OBVIOUS
<1>10. CASE s.stepName = ""
  <2>1. c = <<p>>
    BY <1>7, <1>9, <1>10
  <2>2. c[1] = p
    BY <2>1
  <2>3. Content(x) = ""
    BY <1>6, <1>9, <2>2 DEF Content
  <2> QED BY <1>1, <1>4, <1>10, <2>3
<1>11. CASE s.stepName # ""
  <2>1. c = <<t, p>>
    BY <1>7, <1>9, <1>11
  <2>2. c[1] = t /\ c # <<>>
    BY <2>1
  <2>3. Content(x) = s.stepName
    BY <1>7, <1>8, <1>9, <2>2 DEF Content
  <2> QED BY <1>1, <1>4, <2>3
<1> QED BY <1>10, <1>11

LEMMA PathDecoded ==
    ASSUME NEW path \in Seq(EntrySteps), path # <<>>
    PROVE  PathFromXml(PathXml(MeaningOfPath(path))) =
              [k \in DOMAIN path |->
                  [path[k] EXCEPT
                      !.pred = IF path[1].pred # <<>> THEN Dangling
                               ELSE <<>>]]
<1>1. PICK m, x, e : /\ m = MeaningOfPath(path)
                     /\ x = PathXml(m)
                     /\ e = IF path[1].pred # <<>> THEN Dangling ELSE <<>>
  OBVIOUS
<1>2. /\ Len(m) = Len(path)
      /\ Len(path) \in Nat \ {0}
      /\ DOMAIN path = 1 .. Len(path)
  BY <1>1, SentSteps
<1>3. ASSUME NEW k \in 1 .. Len(path)
      PROVE  /\ m[k].pType = path[k].pType
             /\ m[k].sType = path[k].sType
             /\ m[k].stepName = path[k].stepName
             /\ Len(m[k].pred) = Len(path[k].pred)
             /\ Len(path[k].pred) \in Nat
             /\ path[k] \in ReadSteps
             /\ Len(path[k].pred) = 0 <=> path[k].pred = <<>>
  <2>1. path[k] \in EntrySteps
    OBVIOUS
  <2>2. path[k] \in ReadSteps /\ path[k].pred \in Seq(Predicates)
    BY <2>1, EntryFacts, ChainMeans
  <2> QED BY <1>1, <2>2, SentSteps, EmptyIs
<1>4. x.children = [k \in 1 .. Len(path) |-> StepXml(m[k])]
  BY <1>1, <1>2, PathIsNode
<1>5. Prop(StepPredicate(x), "size") = Len(path[1].pred)
  <2>1. 1 \in 1 .. Len(path)
    BY <1>2
  <2>2. Len(m[1].pred) = Len(path[1].pred) /\ Len(m[1].pred) \in Nat
    BY <1>3, <2>1
  <2>3. PICK p, chain : p = PredicateXml(m[1].pred) /\ chain = m[1].pred
    OBVIOUS
  <2>4. StepPredicate(x) = p
    <3>1. Len(m) \in Nat \ {0} /\ Len(m[1].pred) \in Nat
      BY <1>2, <2>2
    <3> QED BY <1>1, <2>3, <3>1, FirstStepFound
  <2>5. p.attributes = [size |-> Len(chain)]
    BY <2>3, PredicateIs
  <2>6. Prop(p, "size") = Len(chain)
    BY <2>5 DEF Prop
  <2> QED BY <2>2, <2>3, <2>4, <2>6
<1>6. ASSUME NEW k \in 1 .. Len(path)
      PROVE  StepFromXml(x, x.children[k]) = [path[k] EXCEPT !.pred = e]
  <2>1. PICK s : s = m[k]
    OBVIOUS
  <2>2. x.children[k] = StepXml(s)
    BY <1>4, <2>1
  <2>3. PICK y : y = StepXml(s)
    OBVIOUS
  <2>4. /\ Prop(y, "pathType") = path[k].pType
        /\ Prop(y, "stepType") = path[k].sType
        /\ Content(y) = path[k].stepName
    BY <1>3, <2>1, <2>3, StepDecoded
  <2>5. (IF Prop(StepPredicate(x), "size") = 0 THEN <<>> ELSE Dangling) = e
    <3>1. Len(path[1].pred) = 0 <=> path[1].pred = <<>>
      BY <1>2, <1>3
    <3> QED BY <1>1, <1>5, <3>1
  <2>6. StepFromXml(x, y) =
           [pType |-> path[k].pType, sType |-> path[k].sType,
            stepName |-> path[k].stepName, pred |-> e]
    BY <2>4, <2>5, Zenon DEF StepFromXml
  <2>7. PICK s0 \in ReadSteps : s0 = path[k]
    BY <1>3
  <2>8. [s0 EXCEPT !.pred = e] =
           [pType |-> s0.pType, sType |-> s0.sType,
            stepName |-> s0.stepName, pred |-> e]
    BY DEF ReadSteps
  <2> QED BY <2>2, <2>3, <2>6, <2>7, <2>8
<1>7. DOMAIN x.children = 1 .. Len(path)
  BY <1>4
<1>8. PathFromXml(x) =
         [k \in 1 .. Len(path) |-> [path[k] EXCEPT !.pred = e]]
  BY <1>6, <1>7 DEF PathFromXml
<1> QED BY <1>1, <1>2, <1>8, Zenon

\* A predicate on the first step is needed for a decoder to read one.
LEMMA NoPredicateCopiesNothing ==
    ASSUME NEW path \in Seq(EntrySteps), path # <<>>, path[1].pred = <<>>
    PROVE  ~ CopiesNull(PredicateFromXml(
                           StepPredicate(PathXml(MeaningOfPath(path)))))
<1>1. PICK m, x, chain : /\ m = MeaningOfPath(path)
                         /\ x = PathXml(m)
                         /\ chain = m[1].pred
  OBVIOUS
<1>2. 1 \in 1 .. Len(path) /\ Len(path) \in Nat \ {0}
  OBVIOUS
<1>3. Len(m) = Len(path) /\ Len(chain) = Len(path[1].pred)
      /\ Len(path[1].pred) = 0
  BY <1>1, <1>2, SentSteps
<1>4. PICK p : p = PredicateXml(chain)
  OBVIOUS
<1>5. StepPredicate(x) = p
  BY <1>1, <1>2, <1>3, <1>4, FirstStepFound
<1>6. p.attributes = [size |-> Len(chain)]
  BY <1>4, PredicateIs
<1>7. Prop(p, "size") = 0
  <2>1. Prop(p, "size") = Len(chain)
    BY <1>6 DEF Prop
  <2> QED BY <1>3, <2>1
<1>8. DOMAIN PredicateFromXml(p) = {}
  BY <1>7 DEF PredicateFromXml
<1> QED BY <1>1, <1>5, <1>8 DEF CopiesNull

\* Induction over the natural numbers, for a set instead of a predicate.
LEMMA AllNumbers ==
    ASSUME NEW S \in SUBSET Nat, 0 \in S, \A n \in S : n + 1 \in S
    PROVE  S = Nat
<1> SUFFICES ASSUME Nat \ S # {} PROVE FALSE
  OBVIOUS
<1>1. PICK x \in Nat \ S : \A y \in Nat \ S : x <= y
  BY LeastNumber
<1>2. x - 1 \in Nat /\ ~ (x <= x - 1)
  OBVIOUS
<1>3. x - 1 \in S
  BY <1>1, <1>2
<1> QED BY <1>3

\* The schemas after each of the first n nodes.
Schemas(nodes, n, f) ==
    f = [k \in 0 .. n |-> IF k = 0 THEN <<>>
                          ELSE AddToSchema(f[k - 1], nodes[k])]

LEMMA SchemasExist ==
    ASSUME NEW nodes, NEW n \in Nat
    PROVE  \E f : Schemas(nodes, n, f)
<1> DEFINE S == {m \in Nat : \E f : Schemas(nodes, m, f)}
<1>1. 0 \in S
  <2> DEFINE f == [k \in 0 .. 0 |-> <<>>]
  <2>1. Schemas(nodes, 0, f)
    BY DEF Schemas
  <2> QED BY <2>1
<1>2. ASSUME NEW m \in S PROVE m + 1 \in S
  <2>1. PICK f : Schemas(nodes, m, f)
    OBVIOUS
  <2>2. /\ m \in Nat
        /\ f = [k \in 0 .. m |-> IF k = 0 THEN <<>>
                                 ELSE AddToSchema(f[k - 1], nodes[k])]
    BY <2>1 DEF Schemas
  <2> DEFINE g == [k \in 0 .. m + 1 |->
                      IF k = m + 1 THEN AddToSchema(f[m], nodes[m + 1])
                      ELSE f[k]]
             h == [k \in 0 .. m + 1 |->
                      IF k = 0 THEN <<>>
                      ELSE AddToSchema(g[k - 1], nodes[k])]
  <2>3. ASSUME NEW k \in 0 .. m + 1 PROVE g[k] = h[k]
    <3>1. CASE k = m + 1
      <4>1. g[m] = f[m] /\ k # 0 /\ k - 1 = m
        BY <2>2, <3>1
      <4> QED BY <3>1, <4>1
    <3>2. CASE k = 0
      BY <2>2, <3>2
    <3>3. CASE k \in 1 .. m
      <4>1. k - 1 \in 0 .. m /\ k # m + 1 /\ k # 0 /\ k - 1 # m + 1
        BY <2>2, <3>3
      <4>2. g[k - 1] = f[k - 1] /\ g[k] = f[k]
        BY <2>2, <4>1
      <4>3. f[k] = AddToSchema(f[k - 1], nodes[k])
        BY <2>2, <3>3, <4>1
      <4> QED BY <4>1, <4>2, <4>3
    <3> QED BY <2>2, <3>1, <3>2, <3>3
  <2>4. g = h
    BY <2>3
  <2>5. Schemas(nodes, m + 1, g)
    BY <2>4, Zenon DEF Schemas
  <2> QED BY <2>2, <2>5
<1>3. S = Nat
  <2> HIDE DEF S
  <2>1. S \in SUBSET Nat
    BY DEF S
  <2> QED BY <1>1, <1>2, <2>1, AllNumbers
<1> QED BY <1>3

LEMMA SchemaAfterIs ==
    ASSUME NEW nodes, Len(nodes) \in Nat
    PROVE  Schemas(nodes, Len(nodes), SchemaAfter(nodes))
<1>1. \E f : Schemas(nodes, Len(nodes), f)
  BY SchemasExist
<1>2. SchemaAfter(nodes) = CHOOSE f : Schemas(nodes, Len(nodes), f)
  BY Zenon DEF SchemaAfter, Schemas
<1> QED BY <1>1, <1>2, Zenon

LEMMA ElementDecoded ==
    ASSUME NEW e \in WrittenElements,
           NEW x, x = SchemaElement([e EXCEPT !.value = AstValue(@)]),
           NEW a, a = [e EXCEPT !.value = ArrivedValue(MeaningOfValue(@))]
    PROVE  /\ Prop(x, "key") = e.key
           /\ a.key = e.key
           /\ [key |-> Prop(x, "key"), value |-> ValueFromXml(x)] = a
<1>1. PICK val, v : /\ val \in SchemaValues
                    /\ val = e.value /\ v = AstValue(val)
  BY DEF WrittenElements
<1>2. /\ v = MeaningOfValue(val) /\ v[1] = val[1]
      /\ v[1] \in {"INT", "DBL", "BOOL", "STR"}
      /\ v[1] = "BOOL" => v[2] \in BOOLEAN
  <2>1. v = MeaningOfValue(val) /\ val[1] \in {"INT", "DBL", "BOOL", "STR"}
    BY <1>1, AstValueMeans, ValueFacts
  <2>2. v[1] = val[1] /\ (v[1] = "BOOL" => v[2] = (val[2] = "true"))
    BY <2>1 DEF MeaningOfValue
  <2> QED BY <2>1, <2>2
<1>3. PICK d : d = [e EXCEPT !.value = v]
  OBVIOUS
<1>4. d.key = e.key /\ d.value = v
  BY <1>3 DEF WrittenElements
<1>5. x = SchemaElement(d)
  BY <1>1, <1>3
<1>6. PICK t : t = [type |-> v[1], key |-> e.key, value |-> ValueText(v)]
  OBVIOUS
<1>7. x = Node("schemaElement", t, <<>>)
  BY <1>4, <1>5, <1>6 DEF SchemaElement
<1>8. x.attributes = t
  BY <1>7, NodeIs
<1>9. DOMAIN t = {"type", "key", "value"}
      /\ t["type"] = v[1] /\ t["key"] = e.key /\ t["value"] = ValueText(v)
  BY <1>6
<1>10. /\ Prop(x, "type") = v[1] /\ Prop(x, "key") = e.key
       /\ Prop(x, "value") = ValueText(v)
  BY <1>8, <1>9, PropIs
<1>11. ValueFromXml(x) = ArrivedValue(v)
  <2>1. CASE v[1] = "BOOL"
    <3>1. ValueText(v) # "true"
      BY <1>2, <2>1 DEF ValueText
    <3>2. ValueFromXml(x) = <<v[1], FALSE>>
      BY <1>10, <2>1, <3>1 DEF ValueFromXml
    <3> QED BY <2>1, <3>2 DEF ArrivedValue
  <2>2. CASE v[1] = "DBL"
    <3>1. ValueFromXml(x) = <<v[1], Rounded(v[2])>>
      BY <1>10, <2>2 DEF ValueFromXml, ValueText
    <3> QED BY <2>2, <3>1 DEF ArrivedValue
  <2>3. CASE v[1] \in {"INT", "STR"}
    <3>1. ValueFromXml(x) = <<v[1], v[2]>>
      BY <1>10, <2>3 DEF ValueFromXml, ValueText
    <3> QED BY <2>3, <3>1 DEF ArrivedValue
  <2> QED BY <1>2, <2>1, <2>2, <2>3
<1>12. PICK r : r = ArrivedValue(v)
  OBVIOUS
<1>13. a = [e EXCEPT !.value = r]
  BY <1>1, <1>2, <1>12
<1>14. a = [key |-> e.key, value |-> r] /\ a.key = e.key
  BY <1>13 DEF WrittenElements
<1> QED BY <1>10, <1>11, <1>12, <1>14

\* The first k keys of a schema differ, and none of them is reserved.
Clean(schema, k) ==
    \A i \in 1 .. k : /\ schema[i].key # "id"
                      /\ \A j \in 1 .. i - 1 : schema[j].key # schema[i].key

LEMMA CleanIs ==
    ASSUME NEW schema \in Seq(WrittenElements)
    PROVE  Clean(schema, Len(schema)) <=>
              ~ (HasKeyTwice(schema) \/ HasReservedKey(schema))
<1>1. DOMAIN schema = 1 .. Len(schema) /\ Len(schema) \in Nat
  OBVIOUS
<1>2. ASSUME Clean(schema, Len(schema)),
             NEW j \in DOMAIN schema, NEW k \in DOMAIN schema, j # k,
             schema[j].key = schema[k].key
      PROVE  FALSE
  <2>1. CASE j < k
    <3>1. j \in 1 .. k - 1
      BY <1>1, <2>1
    <3> QED BY <1>1, <1>2, <3>1 DEF Clean
  <2>2. CASE k < j
    <3>1. k \in 1 .. j - 1
      BY <1>1, <2>2
    <3> QED BY <1>1, <1>2, <3>1 DEF Clean
  <2> QED BY <1>1, <1>2, <2>1, <2>2
<1>3. ASSUME ~ HasKeyTwice(schema), ~ HasReservedKey(schema)
      PROVE  Clean(schema, Len(schema))
  <2>1. ASSUME NEW i \in 1 .. Len(schema), NEW j \in 1 .. i - 1
        PROVE  schema[j].key # schema[i].key
    <3>1. j \in DOMAIN schema /\ i \in DOMAIN schema /\ i # j
      BY <1>1
    <3> QED BY <1>3, <3>1 DEF HasKeyTwice
  <2> QED BY <1>1, <1>3, <2>1 DEF Clean, HasReservedKey
<1>4. Clean(schema, Len(schema)) => ~ HasReservedKey(schema)
  BY <1>1 DEF Clean, HasReservedKey
<1> QED BY <1>2, <1>3, <1>4, Zenon DEF HasKeyTwice

LEMMA ArrivedIs ==
    ASSUME NEW schema \in Seq(WrittenElements)
    PROVE  /\ ArrivedSchema(schema) =
                 [k \in 1 .. Len(schema) |-> ArrivedSchema(schema)[k]]
           /\ \A k \in 1 .. Len(schema) :
                 ArrivedSchema(schema)[k] =
                    [schema[k] EXCEPT
                        !.value = ArrivedValue(MeaningOfValue(@))]
<1>1. DOMAIN schema = 1 .. Len(schema)
  OBVIOUS
<1>2. ArrivedSchema(schema) =
         [k \in 1 .. Len(schema) |->
            [schema[k] EXCEPT
                !.value = ArrivedValue(MeaningOfValue(schema[k].value))]]
  BY <1>1, Zenon DEF ArrivedSchema
<1> QED BY <1>2

LEMMA CleanGrows ==
    ASSUME NEW schema, NEW k \in Nat
    PROVE  Clean(schema, k + 1) <=>
              /\ Clean(schema, k)
              /\ schema[k + 1].key # "id"
              /\ \A j \in 1 .. k : schema[j].key # schema[k + 1].key
<1>1. /\ 1 .. k + 1 = (1 .. k) \cup {k + 1}
      /\ 1 .. (k + 1) - 1 = 1 .. k
  OBVIOUS
<1> QED BY <1>1 DEF Clean

\* The schema after k elements: all of them, or some are missing.
LEMMA OneMoreElement ==
    ASSUME NEW schema \in Seq(WrittenElements), NEW k \in Nat,
           k + 1 <= Len(schema),
           NEW E, \A j \in 1 .. Len(schema) : ArrivedSchema(schema)[j] \in E,
           NEW x, x = SchemaElement(MeaningOfSchema(schema)[k + 1]),
           NEW f \in Seq(E),
           IF Clean(schema, k) THEN f = Prefix(ArrivedSchema(schema), k)
           ELSE Len(f) < k,
           NEW g, g = AddToSchema(f, x)
    PROVE  /\ g \in Seq(E)
           /\ IF Clean(schema, k + 1)
              THEN g = Prefix(ArrivedSchema(schema), k + 1)
              ELSE Len(g) < k + 1
<1>1. PICK A, e, a :
         A = ArrivedSchema(schema) /\ e = schema[k + 1] /\ a = A[k + 1]
  OBVIOUS
<1>2. k + 1 \in 1 .. Len(schema) /\ e \in WrittenElements /\ a \in E
      /\ \A j \in 1 .. k : j \in 1 .. Len(schema)
  <2>1. Len(schema) \in Nat
    OBVIOUS
  <2>2. k + 1 \in 1 .. Len(schema) /\ \A j \in 1 .. k : j \in 1 .. Len(schema)
    BY <2>1
  <2> QED BY <1>1, <2>2
<1>3. /\ a = [e EXCEPT !.value = ArrivedValue(MeaningOfValue(@))]
      /\ MeaningOfSchema(schema)[k + 1] = [e EXCEPT !.value = AstValue(@)]
  BY <1>1, <1>2, ArrivedIs, SchemaMeans
<1>4. /\ Prop(x, "key") = e.key /\ a.key = e.key
      /\ [key |-> Prop(x, "key"), value |-> ValueFromXml(x)] = a
  <2>1. x = SchemaElement([e EXCEPT !.value = AstValue(@)])
    BY <1>3
  <2> QED BY <1>2, <1>3, <2>1, ElementDecoded
<1>5. g = IF e.key = "id" \/ \E j \in DOMAIN f : f[j].key = e.key
          THEN f ELSE Append(f, a)
  BY <1>4, Zenon DEF AddToSchema
<1>6. /\ Len(f) \in Nat /\ Append(f, a) \in Seq(E)
      /\ Len(Append(f, a)) = Len(f) + 1
  BY <1>2
<1>7. CASE ~ Clean(schema, k)
  <2>1. Len(f) < k /\ ~ Clean(schema, k + 1)
    BY <1>7, CleanGrows
  <2>2. Len(f) < k + 1 /\ Len(Append(f, a)) < k + 1
    BY <1>6, <2>1
  <2> QED BY <1>5, <1>6, <2>1, <2>2
<1>8. CASE Clean(schema, k)
  <2>1. f = Prefix(A, k)
    BY <1>1, <1>8
  <2>2. DOMAIN f = 1 .. k /\ Len(f) = k /\ \A j \in 1 .. k : f[j] = A[j]
    BY <2>1 DEF Prefix
  <2>3. ASSUME NEW j \in 1 .. k PROVE f[j].key = schema[j].key
    <3>1. PICK w, b :
             /\ w \in WrittenElements /\ w = schema[j]
             /\ b = ArrivedValue(MeaningOfValue(w.value))
      BY <1>2
    <3>2. f[j] = [w EXCEPT !.value = b]
      BY <1>1, <1>2, <2>2, <3>1, ArrivedIs
    <3>3. f[j].key = w.key
      BY <3>2 DEF WrittenElements
    <3> QED BY <3>1, <3>3
  <2>4. Clean(schema, k + 1) <=>
           ~ (e.key = "id" \/ \E j \in DOMAIN f : f[j].key = e.key)
    <3>1. Clean(schema, k + 1) <=>
             /\ e.key # "id"
             /\ \A j \in 1 .. k : schema[j].key # e.key
      BY <1>1, <1>8, CleanGrows
    <3>2. (\A j \in 1 .. k : schema[j].key # e.key) <=>
             ~ \E j \in DOMAIN f : f[j].key = e.key
      BY ONLY <2>2, <2>3
    <3> QED BY <3>1, <3>2, Zenon
  <2>5. Append(f, a) = Prefix(A, k + 1)
    BY <1>1, <2>1, PrefixGrows
  <2>6. Len(f) < k + 1
    BY <2>2
  <2> QED BY <1>1, <1>5, <1>6, <2>4, <2>5, <2>6, Zenon
<1> QED BY <1>7, <1>8

LEMMA SchemaDecoded ==
    ASSUME NEW schema \in Seq(WrittenElements),
           NEW d, d = SchemaFromXml(SchemaXml(MeaningOfSchema(schema)))
    PROVE  IF HasKeyTwice(schema) \/ HasReservedKey(schema)
           THEN Len(d) # Len(schema)
           ELSE d = ArrivedSchema(schema)
<1>1. PICK m, n, nodes, f, A :
         /\ m = MeaningOfSchema(schema) /\ n = Len(schema)
         /\ nodes = SchemaXml(m).children
         /\ f = SchemaAfter(nodes) /\ A = ArrivedSchema(schema)
  OBVIOUS
<1>2. n \in Nat /\ Len(m) = n
  <2>1. n \in Nat
    BY <1>1
  <2>2. m = [k \in 1 .. n |-> m[k]]
    BY <1>1, SchemaMeans
  <2> QED BY <2>1, <2>2
<1>3. nodes = [k \in 1 .. n |-> SchemaElement(m[k])]
  <2>1. PICK a, c : /\ a = [size |-> Len(m)]
                    /\ c = [k \in 1 .. Len(m) |-> SchemaElement(m[k])]
    OBVIOUS
  <2>2. SchemaXml(m) = Node("schema", a, c)
    BY <2>1 DEF SchemaXml
  <2>3. nodes = c
    BY <1>1, <2>2, NodeIs
  <2> QED BY <1>2, <2>1, <2>3
<1>4. Len(nodes) = n
  BY <1>2, <1>3
<1>5. /\ d = f[n]
      /\ f = [k \in 0 .. n |-> IF k = 0 THEN <<>>
                               ELSE AddToSchema(f[k - 1], nodes[k])]
  <2>1. Schemas(nodes, n, f)
    BY <1>1, <1>2, <1>4, SchemaAfterIs
  <2>2. d = f[n]
    BY <1>1, <1>4, Zenon DEF SchemaFromXml
  <2> QED BY <2>1, <2>2, Zenon DEF Schemas
<1> DEFINE E == {A[k] : k \in 1 .. n}
           Good(k) == /\ f[k] \in Seq(E)
                      /\ IF Clean(schema, k) THEN f[k] = Prefix(A, k)
                         ELSE Len(f[k]) < k
           S == {k \in Nat : k <= n => Good(k)}
<1>6. 0 \in S
  <2>1. f[0] = <<>> /\ Clean(schema, 0) /\ Prefix(A, 0) = <<>>
    BY <1>2, <1>5 DEF Clean, Prefix
  <2>2. Good(0)
    <3> HIDE DEF E
    <3>1. <<>> \in Seq(E)
      OBVIOUS
    <3> QED BY <2>1, <3>1, Zenon
  <2> HIDE DEF Good
  <2> QED BY <2>2
<1>7. ASSUME NEW k \in S PROVE k + 1 \in S
  <2> SUFFICES ASSUME k + 1 <= n PROVE Good(k + 1)
    OBVIOUS
  <2>1. k \in Nat /\ k <= n
    BY <1>2
  <2>2. Good(k)
    BY <2>1
  <2>3. PICK g, x : g = f[k] /\ x = nodes[k + 1]
    OBVIOUS
  <2>4. x = SchemaElement(m[k + 1])
    BY <1>2, <1>3, <2>1, <2>3
  <2>5. f[k + 1] = AddToSchema(g, x)
    <3>1. k + 1 \in 0 .. n /\ k + 1 # 0 /\ (k + 1) - 1 = k
      BY <1>2, <2>1
    <3> QED BY <1>5, <2>3, <3>1
  <2>6. \A j \in 1 .. Len(schema) : ArrivedSchema(schema)[j] \in E
    BY <1>1
  <2> HIDE DEF E
  <2> QED BY <1>1, <2>1, <2>2, <2>3, <2>4, <2>5, <2>6, OneMoreElement
<1>8. S = Nat
  <2> HIDE DEF S
  <2>1. S \in SUBSET Nat
    BY DEF S
  <2> QED BY <1>6, <1>7, <2>1, AllNumbers
<1>9. Good(n)
  <2> HIDE DEF Good
  <2>1. n \in S /\ n <= n
    BY <1>2, <1>8
  <2> QED BY <2>1
<1>10. Prefix(A, n) = A
  BY <1>1, ArrivedIs, Zenon DEF Prefix
<1>11. CASE HasKeyTwice(schema) \/ HasReservedKey(schema)
  <2>1. Len(d) < n
    BY <1>1, <1>5, <1>9, <1>11, CleanIs
  <2>2. Len(d) \in Nat
    BY <1>5, <1>9
  <2> QED BY <1>1, <1>2, <1>11, <2>1, <2>2
<1>12. CASE ~ (HasKeyTwice(schema) \/ HasReservedKey(schema))
  BY <1>1, <1>5, <1>9, <1>10, <1>12, CleanIs
<1> QED BY <1>11, <1>12

LEMMA OperatorDecoded ==
    ASSUME NEW o \in DOMAIN compOperators
    PROVE  CompOperator(compOperators[o]) = o
<1>1. DOMAIN compOperators =
         {"EQUALS", "NOT_EQUALS", "GREATER", "LESS", "EQ_GREATER", "EQ_LESS",
          "CONTAINS"}
  BY DEF compOperators
<1>2. ASSUME NEW p \in DOMAIN compOperators,
             compOperators[p] = compOperators[o]
      PROVE  p = o
  BY <1>1, <1>2 DEF compOperators
<1> QED BY <1>2, Zenon DEF CompOperator

\* A predicate arrives, unless it compares two elements: its keys do not.
LEMMA PredicateDecoded ==
    ASSUME NEW test \in Tests, NEW op, NEW not \in BOOLEAN,
           NEW q, q = [logOp |-> op, isInverted |-> not, test |-> test],
           NEW d, d = DecodedPredicate(PredicateElement(q))
    PROVE  IF test.type = "BY_ELEMENT"
           THEN d.test.type = "BY_ELEMENT" /\ d.test.key1 = "NULL"
           ELSE d = q
<1>1. PICK x, t, a : /\ x = PredicateElement(q)
                     /\ t = TestAttributes(test)
                     /\ a = ElementAttributes(q)
  OBVIOUS
<1>2. x = Node("predicateElement", a, <<>>)
  BY <1>1 DEF PredicateElement
<1>3. x.attributes = a
  BY <1>2, NodeIs
<1>4. q.logOp = op /\ q.isInverted = not /\ q.test = test
  OBVIOUS
<1>5. a = [b \in {"logOp", "inverted"} \cup DOMAIN t |->
              CASE b = "logOp" -> op
                [] b = "inverted" -> IF not THEN "1" ELSE "0"
                [] OTHER -> t[b]]
  BY <1>1, <1>4, Zenon DEF ElementAttributes
<1>6. DOMAIN a = {"logOp", "inverted"} \cup DOMAIN t
  BY <1>5
<1>7. /\ Prop(x, "logOp") = op
      /\ Prop(x, "inverted") = IF not THEN "1" ELSE "0"
  <2>1. a["logOp"] = op /\ a["inverted"] = IF not THEN "1" ELSE "0"
    BY <1>5
  <2> QED BY <1>3, <1>6, <2>1, PropIs
<1>8. ASSUME NEW b \in DOMAIN t, b \notin {"logOp", "inverted"}
      PROVE  Prop(x, b) = t[b]
  <2>1. a[b] = t[b]
    BY <1>5, <1>8
  <2> QED BY <1>3, <1>6, <2>1, PropIs
<1>9. PICK y : y = DecodedTest(x)
  OBVIOUS
<1>10. d = [logOp |-> op, isInverted |-> not, test |-> y]
  <2>1. (Prop(x, "inverted") = "1") = not
    BY <1>7
  <2> QED BY <1>1, <1>7, <1>9, <2>1, Zenon DEF DecodedPredicate
<1>11. d.test = y
  BY <1>10
<1>12. CASE test.type = "BY_DOCUMENT_NUMBER"
  <2>1. t = test
    BY <1>1, <1>12, Zenon DEF TestAttributes
  <2>2. /\ DOMAIN t = {"type", "index"} /\ t["type"] = "BY_DOCUMENT_NUMBER"
        /\ test = [type |-> "BY_DOCUMENT_NUMBER", index |-> t["index"]]
    BY <1>12, <2>1 DEF Tests
  <2>3. /\ Prop(x, "type") = "BY_DOCUMENT_NUMBER"
        /\ Prop(x, "index") = t["index"]
    BY <1>8, <2>2
  <2>4. y = test
    BY <1>9, <2>2, <2>3 DEF DecodedTest
  <2> QED BY <1>10, <1>12, <2>4
<1>13. CASE test.type = "BY_ELEMENT_VALUE"
  <2>1. PICK c : c = compOperators[test.operator]
    OBVIOUS
  <2>2. t = [type |-> "BY_ELEMENT_VALUE", key |-> test.key,
             value |-> test.input, compOperator |-> c]
    BY <1>1, <1>13, <2>1 DEF TestAttributes
  <2>3. /\ DOMAIN t = {"type", "key", "value", "compOperator"}
        /\ t["type"] = "BY_ELEMENT_VALUE" /\ t["key"] = test.key
        /\ t["value"] = test.input /\ t["compOperator"] = c
    BY <2>2
  <2>4. /\ Prop(x, "type") = "BY_ELEMENT_VALUE" /\ Prop(x, "key") = test.key
        /\ Prop(x, "value") = test.input /\ Prop(x, "compOperator") = c
    BY <1>8, <2>3
  <2>5. /\ test = [type |-> "BY_ELEMENT_VALUE", key |-> test.key,
                   operator |-> test.operator, input |-> test.input]
        /\ test.operator \in DOMAIN compOperators
    BY <1>13 DEF Tests
  <2>6. CompOperator(c) = test.operator
    BY <2>1, <2>5, OperatorDecoded
  <2>7. y = [type |-> "BY_ELEMENT_VALUE", key |-> test.key,
             operator |-> test.operator, input |-> test.input]
    BY <1>9, <2>4, <2>6 DEF DecodedTest
  <2> QED BY <1>10, <1>13, <2>5, <2>7
<1>14. CASE test.type = "BY_ELEMENT"
  <2>1. PICK c : c = compOperators[test.operator]
    OBVIOUS
  <2>2. t = [type |-> "BY_ELEMENT", element1 |-> test.key1,
             element2 |-> test.key2, compOperator |-> c]
    BY <1>1, <1>14, <2>1 DEF TestAttributes
  <2>3. /\ DOMAIN t = {"type", "element1", "element2", "compOperator"}
        /\ t["type"] = "BY_ELEMENT"
    BY <2>2
  <2>4. Prop(x, "type") = "BY_ELEMENT" /\ Prop(x, "key1") = "NULL"
    <3>1. "key1" \notin DOMAIN a
      BY <1>6, <2>3
    <3> QED BY <1>3, <1>8, <2>3, <3>1 DEF Prop
  <2>5. PICK o, k : o = CompOperator(Prop(x, "compOperator"))
                    /\ k = Prop(x, "key2")
    OBVIOUS
  <2>6. y = [type |-> "BY_ELEMENT", key1 |-> "NULL", operator |-> o,
             key2 |-> k]
    BY <1>9, <2>4, <2>5 DEF DecodedTest
  <2> QED BY <1>11, <1>14, <2>6
<1>15. test.type \in {"BY_DOCUMENT_NUMBER", "BY_ELEMENT_VALUE", "BY_ELEMENT"}
  BY DEF Tests
<1> QED BY <1>12, <1>13, <1>14, <1>15

LEMMA JoinDecoded ==
    ASSUME NEW chain \in Chains,
           NEW c, c = PredicateFromXml(PredicateXml(MeaningOfChain(chain)))
    PROVE  IF ComparesElements(chain) THEN CopiesNull(c)
           ELSE c = MeaningOfChain(chain) /\ ~ CopiesNull(c)
<1>1. PICK m, n, p : /\ m = MeaningOfChain(chain) /\ n = Len(chain)
                     /\ p = PredicateXml(m)
  OBVIOUS
<1>2. /\ m = [k \in 1 .. n |-> m[k]] /\ chain \in Seq(Predicates)
      /\ DOMAIN chain = 1 .. n
      /\ \A k \in 1 .. n :
            /\ m[k] = Chained(chain[k], IF k = 1 THEN "NONE"
                                        ELSE chain[k - 1].connective)
            /\ chain[k] \in Predicates
  BY <1>1, ChainMeans
<1>3. n \in Nat /\ Len(m) = n
  <2>1. n \in Nat
    BY <1>1, <1>2
  <2> QED BY <1>2, <2>1
<1>4. /\ p.attributes = [size |-> Len(m)]
      /\ p.children = [k \in 1 .. Len(m) |-> PredicateElement(m[k])]
  BY <1>1, PredicateIs
<1>5. Prop(p, "size") = n
  <2>1. Prop(p, "size") = Len(m)
    BY <1>4 DEF Prop
  <2> QED BY <1>3, <2>1
<1>6. /\ DOMAIN c = 1 .. n
      /\ c = [k \in 1 .. n |-> c[k]]
      /\ \A k \in 1 .. n : c[k] = DecodedPredicate(p.children[k])
  <2>1. c = [k \in 1 .. n |-> DecodedPredicate(p.children[k])]
    BY <1>1, <1>5 DEF PredicateFromXml
  <2> QED BY <2>1
<1>7. ASSUME NEW k \in 1 .. n
      PROVE  IF chain[k].test.type = "BY_ELEMENT"
             THEN c[k].test.type = "BY_ELEMENT" /\ c[k].test.key1 = "NULL"
             ELSE c[k] = m[k] /\ m[k].test.type # "BY_ELEMENT"
  <2>1. PICK w, op : /\ w = chain[k]
                     /\ op = IF k = 1 THEN "NONE"
                             ELSE chain[k - 1].connective
    OBVIOUS
  <2>2. w \in Predicates /\ w.test \in Tests /\ w.not \in BOOLEAN
    BY <1>2, <2>1 DEF Predicates
  <2>3. PICK test, not : test = w.test /\ not = w.not
    OBVIOUS
  <2>4. m[k] = [logOp |-> op, isInverted |-> not, test |-> test]
    BY <1>2, <2>1, <2>3, Zenon DEF Chained
  <2>5. PICK q, d : q = m[k] /\ d = c[k]
    OBVIOUS
  <2>6. d = DecodedPredicate(PredicateElement(q))
    BY <1>3, <1>4, <1>6, <2>5
  <2>7. IF test.type = "BY_ELEMENT"
        THEN d.test.type = "BY_ELEMENT" /\ d.test.key1 = "NULL"
        ELSE d = q
    BY <2>2, <2>3, <2>4, <2>5, <2>6, PredicateDecoded
  <2>8. q.test = test
    BY <2>4, <2>5
  <2> QED BY <2>1, <2>3, <2>5, <2>7, <2>8
<1>8. CASE ComparesElements(chain)
  <2>1. PICK k \in 1 .. n : chain[k].test.type = "BY_ELEMENT"
    BY <1>2, <1>8 DEF ComparesElements
  <2>2. c[k].test.type = "BY_ELEMENT" /\ c[k].test.key1 = "NULL"
    BY <1>7, <2>1
  <2> QED BY <1>6, <1>8, <2>2 DEF CopiesNull
<1>9. CASE ~ ComparesElements(chain)
  <2>1. ASSUME NEW k \in 1 .. n
        PROVE  c[k] = m[k] /\ m[k].test.type # "BY_ELEMENT"
    BY <1>2, <1>7, <1>9 DEF ComparesElements
  <2>2. c = m
    BY <1>2, <1>6, <2>1
  <2>3. ~ CopiesNull(c)
    BY <1>6, <2>1 DEF CopiesNull
  <2> QED BY <1>1, <1>9, <2>2, <2>3
<1> QED BY <1>8, <1>9

-----------------------------------------------------------------------------
(* The client's steps.                                                     *)

LEMMA ParserMoves ==
    ASSUME Parse
    PROVE  /\ pc \in Parsing /\ pc' \in Parsing \cup {"send", "rejected"}
           /\ text' = text
BY DEF Parse, ParseCommand, ParseElement, RejectNumber, ParseJoinPredicate,
       ParseEntry, ParsePredicate, AddStep, Parsing, parser

LEMMA SymbolIsConnective ==
    ASSUME TypeOK, NEW p \in Predicates
    PROVE  SymbolBehind(p) \in {"NONE", "AND", "OR"}
BY DEF TypeOK, Predicates, SymbolBehind

LEMMA ParseKeepsFlags ==
    ASSUME IInv, Parse
    PROVE  isFirstPred' \in BOOLEAN /\ symbolValue' \in {"NONE", "AND", "OR"}
<1>1. TypeOK /\ ParserInv
  BY DEF IInv
<1>2. isFirstPred \in BOOLEAN /\ symbolValue \in {"NONE", "AND", "OR"}
  BY <1>1 DEF TypeOK
<1>3. CASE ParseCommand \/ ParseElement \/ RejectNumber \/ AddStep
  BY <1>2, <1>3 DEF ParseCommand, ParseElement, RejectNumber, AddStep, parser
<1>4. CASE ParseJoinPredicate
  <2>1. unread.pred # <<>> /\ unread.pred \in Seq(Predicates)
    BY <1>1, <1>4, UnreadFacts DEF ParseJoinPredicate, ParserInv, OrderInv
  <2>2. PICK p \in Predicates : p = Head(unread.pred)
    BY <2>1
  <2>3. symbolValue' = SymbolBehind(p) /\ isFirstPred' = FALSE
    BY <1>4, <2>2 DEF ParseJoinPredicate
  <2> QED BY <1>1, <2>3, SymbolIsConnective
<1>5. CASE ParseEntry
  <2>1. isFirstPred' = StartsFirstPred(Head(unread.path))
        /\ symbolValue' = symbolValue
    BY <1>5 DEF ParseEntry
  <2>2. StartsFirstPred(Head(unread.path)) \in BOOLEAN
    BY <1>2 DEF StartsFirstPred
  <2> QED BY <1>2, <2>1, <2>2
<1>6. CASE ParsePredicate
  <2>1. PICK r : r = unread.path[1].pred
    OBVIOUS
  <2>2. r # <<>>
    BY <1>1, <1>6, <2>1 DEF ParsePredicate, ParserInv, ChainInv
  <2>3. r \in Seq(Predicates)
    <3>1. pc = "predicates"
      BY <1>6 DEF ParsePredicate
    <3>2. unread.path # <<>> /\ unread.path \in Seq(ReadSteps)
      BY <1>1, <3>1, StepFacts, Zenon
    <3>3. unread.path[1] \in ReadSteps
      BY <3>2
    <3> QED BY <2>1, <3>3 DEF ReadSteps
  <2>4. PICK p \in Predicates : p = Head(r)
    BY <2>2, <2>3
  <2>5. symbolValue' = SymbolBehind(p) /\ isFirstPred' = FALSE
    BY <1>6, <2>1, <2>4 DEF ParsePredicate
  <2> QED BY <1>1, <2>5, SymbolIsConnective
<1> QED BY <1>3, <1>4, <1>5, <1>6 DEF Parse

LEMMA ParseKeeps ==
    ASSUME IInv, Parse, UNCHANGED server
    PROVE  IInv'
<1>1. /\ pc \in Parsing /\ pc' \in Parsing \cup {"send", "rejected"}
      /\ text' = text
  BY ParserMoves
<1>2. /\ request' = request /\ decoded' = decoded /\ found' = found
      /\ served' = served /\ status' = status /\ printed' = printed
  BY DEF server
<1>3. ParserInv'
  BY ParseParses DEF IInv
<1>4. /\ decoded = Nothing /\ found \in Outcomes \cup {"none"}
      /\ NamesRoot(text.path) => found \in {"DOCUMENT", "none"}
      /\ served = Nothing /\ status = "none"
  BY <1>1 DEF IInv, ServerInv, DecodedInv, FoundInv, ServedInv, Parsing
<1>5. ServerInv'
  BY <1>1, <1>2, <1>4 DEF ServerInv, DecodedInv, FoundInv, ServedInv,
     PrintedInv, Parsing, Serving
<1>6. FailuresHaveCauses'
  BY <1>1, <1>2, <1>4 DEF FailuresHaveCauses, Parsing
<1>7. TypeOK'
  <2>1. /\ found' \in Outcomes \cup {"none"}
        /\ served'.type \in RequestTypes \cup {"none"}
        /\ status' \in DOMAIN Info \cup {"none"}
    BY <1>2, <1>4 DEF Nothing
  <2>2. isFirstPred' \in BOOLEAN /\ symbolValue' \in {"NONE", "AND", "OR"}
    BY ParseKeepsFlags
  <2>3. status' \in (DOMAIN Info)' \cup {"none"}
    BY <1>2, <1>4
  <2> QED BY <1>1, <2>1, <2>2, <2>3 DEF TypeOK, Parsing
<1> QED BY <1>3, <1>5, <1>6, <1>7 DEF IInv

LEMMA ParserKept ==
    ASSUME ParserInv, UNCHANGED parser, pc \in {"send"} \cup Serving,
           pc' \in Serving
    PROVE  ParserInv'
<1>1. /\ text' = text /\ unread' = unread /\ tree' = tree /\ aStep' = aStep
      /\ isFirstPred' = isFirstPred /\ symbolValue' = symbolValue
  BY DEF parser
<1>2. UnreadInv'
  BY <1>1 DEF ParserInv, UnreadInv, Serving, Done
<1>3. OrderInv'
  BY <1>1 DEF ParserInv, OrderInv, Serving, Parsing
<1>4. TreeInv'
  BY <1>1 DEF ParserInv, TreeInv, TreeOf, Done, Serving
<1>5. ChainInv'
  BY DEF ChainInv, Serving
<1> QED BY <1>2, <1>3, <1>4, <1>5 DEF ParserInv

-----------------------------------------------------------------------------
(* The server's steps.                                                     *)

Arrival(ty, dn, sc, pa) ==
    [Nothing EXCEPT !.type = ty, !.docName = dn, !.schema = sc, !.path = pa]

LEMMA NewDecoded ==
    ASSUME NEW ty, NEW dn, NEW sc, NEW pa, NEW e, NEW q, e = "", q = <<>>
    PROVE  Arrival(ty, dn, sc, pa) = Fields(ty, dn, sc, e, e, q, pa)
<1>1. PICK t, r : t = "none" /\ r = Nothing
  OBVIOUS
<1>2. r = Fields(t, e, q, e, e, q, q)
  BY <1>1, NothingIs, Zenon
<1>3. [r EXCEPT !.type = ty] = Fields(ty, e, q, e, e, q, q)
  BY ONLY <1>2 DEF Fields
<1>4. [Fields(ty, e, q, e, e, q, q) EXCEPT !.docName = dn] =
         Fields(ty, dn, q, e, e, q, q)
  BY ONLY TRUE DEF Fields
<1>5. [Fields(ty, dn, q, e, e, q, q) EXCEPT !.schema = sc] =
         Fields(ty, dn, sc, e, e, q, q)
  BY ONLY TRUE DEF Fields
<1>6. [Fields(ty, dn, sc, e, e, q, q) EXCEPT !.path = pa] =
         Fields(ty, dn, sc, e, e, q, pa)
  BY ONLY TRUE DEF Fields
<1>7. [r EXCEPT !.type = ty, !.docName = dn, !.schema = sc, !.path = pa] =
         [[[[r EXCEPT !.type = ty] EXCEPT !.docName = dn]
             EXCEPT !.schema = sc] EXCEPT !.path = pa]
  BY ONLY TRUE
<1>8. [r EXCEPT !.type = ty, !.docName = dn, !.schema = sc, !.path = pa] =
         Fields(ty, dn, sc, e, e, q, pa)
  BY ONLY <1>3, <1>4, <1>5, <1>6, <1>7
<1> QED BY <1>1, <1>8, Zenon DEF Arrival

\* What TypeOK asks of a step of the server.
LEMMA ServerTypes ==
    ASSUME TypeOK, UNCHANGED parser, pc' \in Serving,
           found' \in Outcomes \cup {"none"},
           served'.type \in RequestTypes \cup {"none"},
           status' \in (DOMAIN Info)' \cup {"none"}
    PROVE  TypeOK'
BY DEF TypeOK, parser, Serving

LEMMA InfoKnows ==
    DOMAIN Info =
        {"CREATE_OK", "OUT_OF_INDEX", "UNDEFINED_RESULT", "DOCUMENT_RESULT",
         "ELEMENT_RESULT", "UPDATE_OK", "ELEMENT_NOT_FOUND",
         "TYPE_PARSE_ERROR", "INVALID_NAME", "DOCUMENT_NOT_FOUND",
         "RESULT_LIST"}
BY DEF Info

LEMMA SendKeeps ==
    ASSUME IInv, Send
    PROVE  IInv'
<1>1. /\ pc = "send" /\ pc' = "decode" /\ request' = RequestXml
      /\ UNCHANGED parser
      /\ decoded' = decoded /\ found' = found /\ served' = served
      /\ status' = status /\ printed' = printed
  BY DEF Send
<1>2. RequestXml' = RequestXml /\ text' = text
  BY <1>1 DEF RequestXml, Arguments, parser
<1>3. ParserInv'
  BY <1>1, ParserKept DEF IInv, Serving
<1>4. /\ decoded = Nothing /\ found \in Outcomes \cup {"none"}
      /\ NamesRoot(text.path) => found \in {"DOCUMENT", "none"}
      /\ served = Nothing /\ status = "none"
  BY <1>1 DEF IInv, ServerInv, DecodedInv, FoundInv, ServedInv
<1>5. ServerInv'
  BY <1>1, <1>2, <1>4 DEF ServerInv, DecodedInv, FoundInv, ServedInv,
     PrintedInv
<1>6. FailuresHaveCauses'
  BY <1>1, <1>4 DEF FailuresHaveCauses
<1>7. TypeOK'
  BY <1>1, <1>4, ServerTypes DEF IInv, Serving, Nothing
<1> QED BY <1>3, <1>5, <1>6, <1>7 DEF IInv

\* The decoded request, whatever becomes of it.
LEMMA RequestDecoded ==
    ASSUME IInv, pc = "decode"
    PROVE  /\ Prop(request, "type") = text.type
           /\ Content(FindNodeByName(root, "document")) = text.docName
           /\ PathFromXml(PathNode) = DecodedPath
           /\ IF HasKeyTwice(text.schema) \/ HasReservedKey(text.schema)
              THEN Len(SchemaFromXml(SchemaNode)) # Len(text.schema)
              ELSE SchemaFromXml(SchemaNode) = ArrivedSchema(text.schema)
           /\ ~ FirstStepHasPredicates =>
                 ~ CopiesNull(PredicateFromXml(StepPredicate(PathNode)))
<1>1. /\ IsRequest(text)
      /\ tree.type = text.type
      /\ tree.docName = text.docName
      /\ tree.schema = MeaningOfSchema(text.schema)
      /\ tree.pred = MeaningOfChain(text.pred)
      /\ tree.path = MeaningOfPath(text.path)
  BY SentTree DEF IInv, Serving
<1>2. /\ text.type \in RequestTypes
      /\ text.schema \in Seq(WrittenElements)
      /\ text.pred \in Chains
      /\ text.path \in Seq(EntrySteps) /\ text.path # <<>>
      /\ text.type = "add" <=> text.schema # <<>>
      /\ text.type # "add" => text.docName = ""
  BY <1>1, TextFacts
<1>3. request = RequestXml
  BY DEF IInv, ServerInv, Serving
<1>4. Prop(request, "type") = text.type
  <2>1. request.attributes = [type |-> tree.type]
    BY <1>3, RequestIs
  <2>2. Prop(request, "type") = tree.type
    BY <2>1 DEF Prop
  <2> QED BY <1>1, <2>2
<1>5. PathNode = PathXml(MeaningOfPath(text.path))
  BY <1>1, <1>2, <1>3, PathFound
<1>6. PathFromXml(PathNode) = DecodedPath
  BY <1>2, <1>5, PathDecoded, Zenon DEF DecodedPath, FirstStepHasPredicates
<1>7. ~ FirstStepHasPredicates =>
         ~ CopiesNull(PredicateFromXml(StepPredicate(PathNode)))
  BY <1>2, <1>5, NoPredicateCopiesNothing DEF FirstStepHasPredicates
<1>8. CASE text.type = "add"
  <2>1. PICK d, s : /\ d = Node("document", <<>>, TextNodes(tree.docName))
                    /\ s = SchemaXml(tree.schema)
    OBVIOUS
  <2>2. FindNodeByName(root, "document") = d /\ SchemaNode = s
    BY <1>1, <1>3, <1>8, <2>1, AddFinds
  <2>3. Content(d) = text.docName
    <3>1. d.children = TextNodes(text.docName)
      BY <1>1, <2>1, NodeIs
    <3>2. CASE text.docName = ""
      <4>1. d.children = <<>>
        BY <3>1, <3>2 DEF TextNodes
      <4> QED BY <3>2, <4>1 DEF Content
    <3>3. CASE text.docName # ""
      <4>1. PICK a, t : /\ a = [content |-> text.docName]
                        /\ t = Node("text", a, <<>>)
        OBVIOUS
      <4>2. d.children = <<t>>
        BY <3>1, <3>3, <4>1 DEF TextNodes
      <4>3. t.name = "text" /\ t.attributes = a
        BY <4>1, NodeIs
      <4>4. a.content = text.docName
        BY <4>1
      <4>5. PICK c : c = d.children
        OBVIOUS
      <4>6. c # <<>> /\ c[1] = t
        BY <4>2, <4>5
      <4> QED BY <4>3, <4>4, <4>5, <4>6 DEF Content
    <3> QED BY <3>2, <3>3
  <2>4. SchemaNode = SchemaXml(MeaningOfSchema(text.schema))
    BY <1>1, <2>1, <2>2
  <2>5. PICK sd : sd = SchemaFromXml(SchemaNode)
    OBVIOUS
  <2>6. IF HasKeyTwice(text.schema) \/ HasReservedKey(text.schema)
        THEN Len(sd) # Len(text.schema)
        ELSE sd = ArrivedSchema(text.schema)
    BY <1>2, <2>4, <2>5, SchemaDecoded
  <2> QED BY <1>4, <1>6, <1>7, <2>2, <2>3, <2>5, <2>6
<1>9. CASE text.type # "add"
  <2>1. /\ Len(tree.pred) \in Nat /\ Len(tree.path) \in Nat
        /\ \A k \in 1 .. Len(tree.path) : Len(tree.path[k].pred) \in Nat
    <3>1. PICK pred, path : pred = tree.pred /\ path = tree.path
      OBVIOUS
    <3>2. /\ Len(path) = Len(text.path) /\ Len(text.path) \in Nat
          /\ \A k \in 1 .. Len(path) : Len(path[k].pred) \in Nat
      <4>1. PICK w \in Seq(EntrySteps) : w = text.path
        BY <1>2
      <4>2. path = MeaningOfPath(w)
        BY <1>1, <3>1, <4>1
      <4>3. Len(path) = Len(w) /\ Len(w) \in Nat
        BY <4>2, SentSteps
      <4>4. ASSUME NEW k \in 1 .. Len(w) PROVE Len(path[k].pred) \in Nat
        BY <4>2, SentSteps
      <4> QED BY <4>1, <4>3, <4>4
    <3>3. Len(pred) \in Nat
      <4>1. pred = [k \in 1 .. Len(text.pred) |-> pred[k]]
            /\ text.pred \in Seq(Predicates)
        BY <1>1, <1>2, <3>1, ChainMeans
      <4>2. Len(text.pred) \in Nat
        BY <4>1
      <4> QED BY <4>1, <4>2
    <3> QED BY <3>1, <3>2, <3>3
  <2>2. /\ FindNodeByName(root, "document") = NoNode
        /\ SchemaNode = NoNode
    BY <1>1, <1>2, <1>3, <1>9, <2>1, NothingFound DEF SchemaNode
  <2>3. Content(NoNode) = ""
    BY NoNodeIs DEF Content
  <2>4. text.schema = <<>> /\ text.docName = ""
    BY <1>2, <1>9
  <2>5. SchemaFromXml(NoNode) = <<>>
    <3>1. PICK nodes, f : nodes = NoNode.children /\ f = SchemaAfter(nodes)
      OBVIOUS
    <3>2. Len(nodes) = 0
      BY <3>1, NoNodeIs
    <3>3. Schemas(nodes, 0, f)
      BY <3>1, <3>2, SchemaAfterIs
    <3>4. f[0] = <<>>
      BY <3>3 DEF Schemas
    <3> QED BY <3>1, <3>2, <3>4 DEF SchemaFromXml
  <2>6. ArrivedSchema(<<>>) = <<>>
    BY DEF ArrivedSchema
  <2>7. ~ HasKeyTwice(<<>>) /\ ~ HasReservedKey(<<>>)
    BY DEF HasKeyTwice, HasReservedKey
  <2> QED BY <1>4, <1>6, <1>7, <2>2, <2>3, <2>4, <2>5, <2>6, <2>7
<1> QED BY <1>8, <1>9

LEMMA DecodeKeeps ==
    ASSUME IInv, DecodeRequest
    PROVE  IInv'
<1>1. /\ pc = "decode" /\ pc' \in {"aborted", "search"}
      /\ UNCHANGED parser
      /\ request' = request /\ found' = found /\ served' = served
      /\ status' = status /\ printed' = printed
  BY DEF DecodeRequest
<1>2. /\ text' = text /\ RequestXml' = RequestXml
      /\ FirstStepHasPredicates' = FirstStepHasPredicates
      /\ DecodedPath' = DecodedPath
  BY <1>1 DEF RequestXml, Arguments, parser, FirstStepHasPredicates,
              DecodedPath
<1>3. ParserInv'
  BY <1>1, ParserKept DEF IInv, Serving
<1>4. /\ decoded = Nothing /\ found \in Outcomes \cup {"none"}
      /\ NamesRoot(text.path) => found \in {"DOCUMENT", "none"}
      /\ served = Nothing /\ status = "none" /\ request = RequestXml
  BY <1>1 DEF IInv, ServerInv, DecodedInv, FoundInv, ServedInv, Serving
<1>45. TypeOK'
  BY <1>1, <1>4, ServerTypes DEF IInv, Serving, Nothing
<1>5. CASE CopiesNull(PredicateFromXml(StepPredicate(PathNode)))
  <2>1. pc' = "aborted" /\ decoded' = decoded
    BY <1>5 DEF DecodeRequest
  <2>2. FirstStepHasPredicates
    BY <1>1, <1>5, RequestDecoded
  <2>3. ServerInv'
    BY <1>1, <1>2, <1>4, <2>1 DEF ServerInv, DecodedInv, FoundInv, ServedInv,
       PrintedInv, Parsing
  <2>4. FailuresHaveCauses'
    BY <1>1, <1>2, <1>4, <2>2 DEF FailuresHaveCauses
  <2> QED BY <1>3, <1>45, <2>3, <2>4 DEF IInv
<1>6. CASE ~ CopiesNull(PredicateFromXml(StepPredicate(PathNode)))
  <2>1. pc' = "search"
    BY <1>6 DEF DecodeRequest
  <2>2. PICK ty, dn, sc, pa :
           /\ ty = Prop(request, "type")
           /\ dn = Content(FindNodeByName(root, "document"))
           /\ sc = SchemaFromXml(SchemaNode)
           /\ pa = PathFromXml(PathNode)
    OBVIOUS
  <2>3. decoded' = [Nothing EXCEPT !.type = ty, !.docName = dn,
                                   !.schema = sc, !.path = pa]
    BY <1>6, <2>2, Zenon DEF DecodeRequest
  <2>4. PICK d, e, q : d = decoded' /\ e = "" /\ q = <<>>
    OBVIOUS
  <2>45. d = Fields(ty, dn, sc, e, e, q, pa)
    <3>1. d = Arrival(ty, dn, sc, pa)
      BY <2>3, <2>4, Zenon DEF Arrival
    <3>2. e = "" /\ q = <<>>
      BY <2>4
    <3> QED BY ONLY <3>1, <3>2, NewDecoded
  <2>5. decoded'.schema = sc
    <3>1. d.schema = sc
      BY <2>45, FieldsAre
    <3> QED BY <2>4, <3>1
  <2>6. /\ ty = text.type /\ dn = text.docName /\ pa = DecodedPath
        /\ IF HasKeyTwice(text.schema) \/ HasReservedKey(text.schema)
           THEN Len(sc) # Len(text.schema)
           ELSE sc = ArrivedSchema(text.schema)
    BY <1>1, <2>2, RequestDecoded
  <2>7. decoded' = Fields(text'.type, text'.docName, decoded'.schema, "", "",
                          <<>>, DecodedPath')
    BY <1>2, <2>4, <2>45, <2>5, <2>6
  <2>8. SchemaInv'
    BY <1>2, <2>5, <2>6, Zenon DEF SchemaInv
  <2>9. DecodedInv'
    BY <2>1, <2>7, <2>8 DEF DecodedInv, Parsing
  <2>10. ServerInv'
    BY <1>1, <1>2, <1>4, <2>1, <2>9 DEF ServerInv, FoundInv, ServedInv,
       PrintedInv
  <2>11. FailuresHaveCauses'
    BY <1>1, <1>4, <2>1 DEF FailuresHaveCauses
  <2> QED BY <1>3, <1>45, <2>10, <2>11 DEF IInv
<1> QED BY <1>5, <1>6

LEMMA DecodedFacts ==
    ASSUME IInv,
           pc \in {"search", "destroyPath", "serve", "answer", "printed"}
    PROVE  /\ decoded = Fields(text.type, text.docName, decoded.schema,
                               "", "", <<>>, DecodedPath)
           /\ SchemaInv
           /\ decoded.type = text.type
           /\ decoded.path = DecodedPath
           /\ request = RequestXml
           /\ text.type \in RequestTypes
           /\ HasDangling => FirstStepHasPredicates
<1>1. /\ decoded = Fields(text.type, text.docName, decoded.schema, "", "",
                          <<>>, DecodedPath)
      /\ SchemaInv /\ request = RequestXml
  BY DEF IInv, ServerInv, DecodedInv, Parsing, Serving
<1>2. decoded.type = text.type /\ decoded.path = DecodedPath
  <2>1. PICK sc, pa, e, q : /\ sc = decoded.schema /\ pa = DecodedPath
                            /\ e = "" /\ q = <<>>
    OBVIOUS
  <2>2. decoded = Fields(text.type, text.docName, sc, e, e, q, pa)
    BY <1>1, <2>1, Zenon
  <2>3. decoded.type = text.type /\ decoded.path = pa
    BY ONLY <2>2, FieldsAre
  <2> QED BY <2>1, <2>3
<1>3. IsRequest(text)
  BY DEF IInv, ParserInv, UnreadInv
<1>4. text.type \in RequestTypes /\ text.path \in Seq(EntrySteps)
  BY <1>3, TextFacts
<1>5. ASSUME HasDangling, ~ FirstStepHasPredicates PROVE FALSE
  <2>1. PICK k \in DOMAIN text.path : DecodedPath[k].pred = Dangling
    BY <1>2, <1>5 DEF HasDangling, DecodedPath
  <2>2. PICK s \in ReadSteps : s = text.path[k]
    <3>1. text.path[k] \in EntrySteps
      BY <1>4
    <3> QED BY <3>1, EntryFacts
  <2>3. PICK e : e = <<>>
    OBVIOUS
  <2>4. DecodedPath[k] = [s EXCEPT !.pred = e]
    BY <1>5, <2>2, <2>3 DEF DecodedPath
  <2>5. DecodedPath[k].pred = e
    BY <2>4 DEF ReadSteps
  <2>6. Len(Dangling) = 1 /\ Len(e) = 0
    BY <2>3 DEF Dangling
  <2> QED BY <2>1, <2>5, <2>6
<1> QED BY <1>1, <1>2, <1>4, <1>5

\* A step before the operation that leaves what was decoded as it is.
LEMMA DecodedRoot ==
    ASSUME IsRequest(text)
    PROVE  /\ IsEmptyPath(DecodedPath) <=> IsEmptyPath(text.path)
           /\ NamesRoot(DecodedPath) <=> NamesRoot(text.path)
<1>1. text.path \in Seq(EntrySteps) /\ text.path # <<>>
  BY TextFacts
<1>2. PICK path, p :
         /\ path = text.path /\ path \in Seq(EntrySteps)
         /\ p = IF FirstStepHasPredicates THEN Dangling ELSE <<>>
  BY <1>1
<1>3. PICK s \in ReadSteps : s = path[1]
  <2>1. path[1] \in EntrySteps
    BY <1>1, <1>2
  <2> QED BY <2>1, EntryFacts
<1>4. DecodedPath = [k \in 1 .. Len(path) |-> [path[k] EXCEPT !.pred = p]]
  BY <1>2 DEF DecodedPath
<1>5. PICK d : d = DecodedPath
  OBVIOUS
<1>6. Len(d) = Len(path) /\ d[1] = [s EXCEPT !.pred = p]
  <2>1. Len(path) \in Nat /\ 1 \in 1 .. Len(path)
    BY <1>1, <1>2
  <2> QED BY <1>3, <1>4, <1>5, <2>1
<1>7. d[1].sType = s.sType /\ d[1].stepName = s.stepName
      /\ d[1].pType = s.pType
  BY <1>6 DEF ReadSteps
<1> QED BY <1>2, <1>3, <1>5, <1>6, <1>7 DEF NamesRoot, IsEmptyPath

LEMMA OnTheWay ==
    ASSUME IInv, pc \in {"search", "destroyPath", "serve"},
           UNCHANGED <<parser, request, decoded, served, status, printed>>,
           pc' \in {"destroyPath", "serve", "aborted"},
           found' \in Outcomes,
           NamesRoot(text.path) => found' = "DOCUMENT",
           pc' = "aborted" =>
              \/ FirstStepHasPredicates
              \/ text.type \in {"add", "join", "parent"} /\ found' # "DOCUMENT"
              \/ text.type \in {"delete", "update"}
                 /\ found' \in {"EMPTY", "ELEMENT"}
              \/ text.type = "update" /\ found' = "DOCUMENT"
              \/ ComparesElements(text.pred)
    PROVE  IInv'
<1>1. /\ request' = request /\ decoded' = decoded /\ served' = served
      /\ status' = status /\ printed' = printed /\ UNCHANGED parser
  OBVIOUS
<1>2. /\ text' = text /\ RequestXml' = RequestXml
      /\ FirstStepHasPredicates' = FirstStepHasPredicates
      /\ DecodedPath' = DecodedPath /\ SchemaInv' = SchemaInv
  BY <1>1 DEF RequestXml, Arguments, parser, FirstStepHasPredicates,
              DecodedPath, SchemaInv
<1>3. ParserInv'
  BY <1>1, ParserKept DEF IInv, Serving
<1>4. /\ decoded = Fields(text.type, text.docName, decoded.schema, "", "",
                          <<>>, DecodedPath)
      /\ SchemaInv /\ request = RequestXml
  BY DecodedFacts
<1>5. served = Nothing /\ status = "none"
  BY DEF IInv, ServerInv, ServedInv
<1>6. DecodedInv'
  BY <1>1, <1>2, <1>4 DEF DecodedInv, Parsing
<1>7. ServerInv'
  BY <1>1, <1>2, <1>4, <1>5, <1>6 DEF ServerInv, FoundInv, ServedInv,
     PrintedInv
<1>8. FailuresHaveCauses'
  BY <1>1, <1>2, <1>5 DEF FailuresHaveCauses
<1>9. TypeOK'
  <2>1. /\ TypeOK /\ pc' \in Serving
        /\ found' \in Outcomes \cup {"none"}
        /\ status' \in (DOMAIN Info)' \cup {"none"}
    BY <1>1, <1>5 DEF IInv, Serving
  <2>2. served'.type \in RequestTypes \cup {"none"}
    <3>1. Nothing.type = "none"
      BY ONLY TRUE DEF Nothing
    <3>2. served' = Nothing
      BY <1>1, <1>5
    <3> QED BY ONLY <3>1, <3>2
  <2> QED BY <1>1, <2>1, <2>2, ServerTypes
<1> QED BY <1>3, <1>7, <1>8, <1>9 DEF IInv

LEMMA SearchKeeps ==
    ASSUME IInv, Search
    PROVE  IInv'
<1>1. /\ pc = "search" /\ found' \in OutcomesOf(decoded.path)
      /\ UNCHANGED <<parser, request, decoded, served, status, printed>>
      /\ pc' \in {"destroyPath", "serve", "aborted"}
      /\ pc' = "aborted" => HasDangling
  BY DEF Search
<1>2. found' \in Outcomes
  BY <1>1 DEF OutcomesOf, Outcomes
<1>3. NamesRoot(text.path) => found' = "DOCUMENT"
  <2>1. NamesRoot(decoded.path) <=> NamesRoot(text.path)
    BY <1>1, DecodedFacts, DecodedRoot DEF IInv, ParserInv, UnreadInv
  <2> QED BY <1>1, <2>1 DEF OutcomesOf
<1> QED BY <1>1, <1>2, <1>3, OnTheWay, DecodedFacts

LEMMA DestroyPathKeeps ==
    ASSUME IInv, DestroyPath
    PROVE  IInv'
<1>1. /\ pc = "destroyPath" /\ found' = found
      /\ UNCHANGED <<parser, request, decoded, served, status, printed>>
      /\ pc' \in {"serve", "aborted"}
      /\ pc' = "aborted" => HasDangling
  BY DEF DestroyPath, server
<1>2. /\ found' \in Outcomes
      /\ NamesRoot(text.path) => found' = "DOCUMENT"
  BY <1>1 DEF IInv, ServerInv, FoundInv, Outcomes
<1> QED BY <1>1, <1>2, OnTheWay, DecodedFacts

LEMMA AskedType == Asked.type = text.type
<1>1. PICK ty, dn, sc, pa, pr, en, va :
         /\ ty = text.type /\ dn = text.docName /\ sc = decoded.schema
         /\ pa = DecodedPath /\ pr = MeaningOfChain(text.pred)
         /\ en = text.elName /\ va = text.value
  OBVIOUS
<1>2. PICK a : a = Asked
  OBVIOUS
<1>3. a = Fields(ty, dn, sc, en, va, pr, pa)
  BY <1>1, <1>2, Zenon DEF Asked
<1>4. a.type = ty
  BY ONLY <1>3 DEF Fields
<1> QED BY <1>1, <1>2, <1>4

LEMMA ReturnKeeps ==
    ASSUME IInv, pc = "serve", NEW op, NEW result, Return(op, result),
           IsOutcome(op, result)
    PROVE  IInv'
<1>1. /\ served' = op /\ status' = result /\ pc' = "answer"
      /\ UNCHANGED parser
      /\ request' = request /\ decoded' = decoded /\ found' = found
      /\ printed' = printed
  BY DEF Return
<1>2. /\ text' = text /\ RequestXml' = RequestXml
      /\ FirstStepHasPredicates' = FirstStepHasPredicates
      /\ DecodedPath' = DecodedPath /\ SchemaInv' = SchemaInv
      /\ Asked' = Asked /\ DeletesRoot' = DeletesRoot
  BY <1>1 DEF RequestXml, Arguments, parser, FirstStepHasPredicates,
              DecodedPath, SchemaInv, Asked, DeletesRoot
<1>3. ParserInv'
  BY <1>1, ParserKept DEF IInv, Serving
<1>4. /\ decoded = Fields(text.type, text.docName, decoded.schema, "", "",
                          <<>>, DecodedPath)
      /\ SchemaInv /\ request = RequestXml /\ text.type \in RequestTypes
      /\ found \in Outcomes
  BY DecodedFacts DEF IInv, ServerInv, FoundInv
<1>5. DecodedInv'
  BY <1>1, <1>2, <1>4 DEF DecodedInv, Parsing
<1>6. ServedInv'
  <2>1. IsOutcome(served, status)'
    BY <1>1, <1>2 DEF IsOutcome
  <2> QED BY <1>1, <2>1 DEF ServedInv
<1>7. ServerInv'
  <2>1. FoundInv'
    BY <1>1, <1>2, <1>4 DEF IInv, ServerInv, FoundInv
  <2> QED BY <1>1, <1>2, <1>4, <1>5, <1>6, <2>1 DEF ServerInv, PrintedInv
<1>8. FailuresHaveCauses'
  <2>1. ASSUME result = "OUT_OF_INDEX"
        PROVE  HasKeyTwice(text.schema) \/ HasReservedKey(text.schema)
    <3>1. Len(decoded.schema) # Len(text.schema)
      BY <2>1 DEF IsOutcome
    <3>2. PICK schema, a :
             /\ schema \in Seq(WrittenElements) /\ schema = text.schema
             /\ a = ArrivedSchema(schema)
      BY TextFacts DEF IInv, ParserInv, UnreadInv
    <3>3. Len(a) = Len(schema)
      <4>1. a = [k \in 1 .. Len(schema) |-> a[k]]
        BY <3>2, ArrivedIs
      <4>2. Len(schema) \in Nat
        OBVIOUS
      <4> QED BY <4>1, <4>2
    <3> QED BY <1>4, <3>1, <3>2, <3>3 DEF SchemaInv
  <2> QED BY <1>1, <1>2, <2>1 DEF FailuresHaveCauses
<1>9. TypeOK'
  <2>1. result \in DOMAIN Info
    BY InfoKnows DEF IsOutcome
  <2>2. (DOMAIN Info)' = DOMAIN Info
    BY <1>1 DEF Info
  <2>3. op.type \in RequestTypes \cup {"none"}
    <3>1. Nothing.type = "none"
      BY ONLY TRUE DEF Nothing
    <3>2. Asked.type = text.type
      BY AskedType
    <3>3. op = Nothing \/ op = Asked
      BY Zenon DEF IsOutcome
    <3> QED BY <1>4, <3>1, <3>2, <3>3
  <2>4. /\ TypeOK /\ pc' \in Serving /\ found' \in Outcomes \cup {"none"}
    BY <1>1, <1>4 DEF IInv, Serving
  <2> QED BY <1>1, <2>1, <2>2, <2>3, <2>4, ServerTypes
<1> QED BY <1>3, <1>7, <1>8, <1>9 DEF IInv

\* What was asked for, from what has been decoded.
LEMMA AskedIs ==
    ASSUME IInv, pc = "serve"
    PROVE  /\ text.type \notin {"update", "join"} => Asked = decoded
           /\ text.type = "update" =>
                 Asked = [decoded EXCEPT !.elName = text.elName,
                                         !.value = text.value]
           /\ text.type = "join" =>
                 Asked = [decoded EXCEPT !.pred = MeaningOfChain(text.pred)]
<1>1. IsRequest(text)
  BY DEF IInv, ParserInv, UnreadInv
<1>2. /\ text.type # "update" => text.elName = "" /\ text.value = ""
      /\ text.type # "join" => text.pred = <<>>
  BY <1>1, TextFacts
<1>3. PICK ty, dn, sc, e, q, pa, pr, en, va :
         /\ ty = text.type /\ dn = text.docName /\ sc = decoded.schema
         /\ e = "" /\ q = <<>> /\ pa = DecodedPath
         /\ pr = MeaningOfChain(text.pred)
         /\ en = text.elName /\ va = text.value
  OBVIOUS
<1>4. decoded = Fields(ty, dn, sc, e, e, q, pa)
  BY <1>3, DecodedFacts, Zenon
<1>5. Asked = Fields(ty, dn, sc, en, va, pr, pa)
  BY <1>3, Zenon DEF Asked
<1>6. ty # "join" => pr = q
  BY <1>2, <1>3, NothingMeansNothing
<1>7. ty # "update" => en = e /\ va = e
  BY <1>2, <1>3
<1>8. PICK d : d = decoded
  OBVIOUS
<1>9. d = Fields(ty, dn, sc, e, e, q, pa)
  BY <1>4, <1>8
<1>10. CASE ty \notin {"update", "join"}
  BY <1>3, <1>4, <1>5, <1>6, <1>7, <1>10, Zenon
<1>11. CASE ty = "update"
  <2>1. [d EXCEPT !.elName = en, !.value = va] =
           Fields(ty, dn, sc, en, va, q, pa)
    <3>1. [d EXCEPT !.elName = en] = Fields(ty, dn, sc, en, e, q, pa)
      BY ONLY <1>9 DEF Fields
    <3>2. [Fields(ty, dn, sc, en, e, q, pa) EXCEPT !.value = va] =
             Fields(ty, dn, sc, en, va, q, pa)
      BY ONLY TRUE DEF Fields
    <3>3. [d EXCEPT !.elName = en, !.value = va] =
             [[d EXCEPT !.elName = en] EXCEPT !.value = va]
      BY ONLY TRUE
    <3> QED BY ONLY <3>1, <3>2, <3>3
  <2>2. Asked = [d EXCEPT !.elName = en, !.value = va]
    BY <1>5, <1>6, <1>11, <2>1
  <2> QED BY <1>3, <1>8, <1>11, <2>2
<1>12. CASE ty = "join"
  <2>1. [d EXCEPT !.pred = pr] = Fields(ty, dn, sc, e, e, pr, pa)
    BY ONLY <1>9 DEF Fields
  <2>2. Asked = [d EXCEPT !.pred = pr]
    BY <1>5, <1>7, <1>12, <2>1
  <2> QED BY <1>3, <1>8, <1>12, <2>2
<1> QED BY <1>3, <1>10, <1>11, <1>12

LEMMA ServeAddKeeps ==
    ASSUME IInv, ServeAdd
    PROVE  IInv'
<1>1. pc = "serve" /\ decoded.type = "add"
  BY DEF ServeAdd
<1>2. text.type = "add" /\ request = RequestXml /\ Asked = decoded
  BY <1>1, DecodedFacts, AskedIs
<1>3. tree.type = text.type /\ tree.schema = MeaningOfSchema(text.schema)
      /\ IsRequest(text)
  BY <1>1, SentTree DEF IInv, Serving
<1>4. Prop(SchemaNode, "size") = Len(text.schema)
  <2>1. PICK schema, m, x :
           /\ schema \in Seq(WrittenElements)
           /\ schema = text.schema /\ m = MeaningOfSchema(schema)
           /\ x = SchemaXml(m)
    BY <1>3, TextFacts
  <2>2. SchemaNode = x
    BY <1>2, <1>3, <2>1, AddFinds
  <2>3. PICK a, c : /\ a = [size |-> Len(m)]
                    /\ c = [k \in 1 .. Len(m) |-> SchemaElement(m[k])]
    OBVIOUS
  <2>4. x = Node("schema", a, c)
    BY <2>1, <2>3 DEF SchemaXml
  <2>5. x.attributes = a
    BY <2>4, NodeIs
  <2>6. Prop(x, "size") = Len(m)
    BY <2>3, <2>5 DEF Prop
  <2>7. Len(m) = Len(schema)
    <3>1. m = [k \in 1 .. Len(schema) |-> m[k]]
      BY <2>1, SchemaMeans
    <3>2. Len(schema) \in Nat
      OBVIOUS
    <3> QED BY <3>1, <3>2
  <2> QED BY <2>1, <2>2, <2>6, <2>7
<1>5. CASE Len(decoded.schema) = Len(text.schema)
  <2>1. Return(decoded, "CREATE_OK")
    BY <1>4, <1>5 DEF ServeAdd
  <2>2. IsOutcome(decoded, "CREATE_OK")
    BY <1>2, <1>5 DEF IsOutcome
  <2> QED BY <1>1, <2>1, <2>2, ReturnKeeps
<1>6. CASE Len(decoded.schema) # Len(text.schema)
  <2>1. Return(Nothing, "OUT_OF_INDEX")
    BY <1>4, <1>6 DEF ServeAdd
  <2>2. IsOutcome(Nothing, "OUT_OF_INDEX")
    BY <1>2, <1>6 DEF IsOutcome
  <2> QED BY <1>1, <2>1, <2>2, ReturnKeeps
<1> QED BY <1>5, <1>6

LEMMA NotFoundKeeps ==
    ASSUME IInv, NotFound
    PROVE  IInv'
<1>1. pc = "serve" /\ decoded.type \in {"delete", "update"}
      /\ Return(Nothing, IF decoded.type = "delete" THEN "UNDEFINED_RESULT"
                         ELSE "DOCUMENT_NOT_FOUND")
      /\ found = "UNDEFINED"
  BY DEF NotFound, ChecksResult
<1>2. text.type = decoded.type /\ ~ DeletesRoot
  BY <1>1, DecodedFacts DEF DeletesRoot, IInv, ServerInv, FoundInv
<1>3. CASE decoded.type = "delete"
  <2>1. Return(Nothing, "UNDEFINED_RESULT")
    BY <1>1, <1>3
  <2>2. IsOutcome(Nothing, "UNDEFINED_RESULT")
    BY <1>2, <1>3 DEF IsOutcome
  <2> QED BY <1>1, <2>1, <2>2, ReturnKeeps
<1>4. CASE decoded.type = "update"
  <2>1. Return(Nothing, "DOCUMENT_NOT_FOUND")
    BY <1>1, <1>4
  <2>2. IsOutcome(Nothing, "DOCUMENT_NOT_FOUND")
    BY <1>2, <1>4 DEF IsOutcome
  <2> QED BY <1>1, <2>1, <2>2, ReturnKeeps
<1> QED BY <1>1, <1>3, <1>4

LEMMA ServeDeleteKeeps ==
    ASSUME IInv, ServeDelete
    PROVE  IInv'
<1>1. PICK operation :
         /\ operation = IF NamesRoot(decoded.path) THEN Nothing ELSE decoded
         /\ pc = "serve" /\ decoded.type = "delete"
         /\ Return(operation, "DOCUMENT_RESULT")
  BY DEF ServeDelete
<1>2. text.type = "delete" /\ Asked = decoded
  BY <1>1, DecodedFacts, AskedIs
<1>3. DeletesRoot <=> NamesRoot(decoded.path)
  BY <1>1, <1>2, DecodedFacts, DecodedRoot
     DEF DeletesRoot, IInv, ParserInv, UnreadInv
<1>4. IsOutcome(operation, "DOCUMENT_RESULT")
  <2>1. operation = IF DeletesRoot THEN Nothing ELSE Asked
    BY <1>1, <1>2, <1>3
  <2> QED BY <1>2, <2>1 DEF IsOutcome
<1> QED BY <1>1, <1>4, ReturnKeeps

LEMMA ServeFindKeeps ==
    ASSUME IInv, ServeFind
    PROVE  IInv'
<1>1. /\ pc = "serve" /\ decoded.type = "find"
      /\ \E result \in {"UNDEFINED_RESULT", "ELEMENT_RESULT",
                        "DOCUMENT_RESULT"} : Return(decoded, result)
  BY DEF ServeFind
<1>2. text.type = "find" /\ Asked = decoded
  BY <1>1, DecodedFacts, AskedIs
<1>3. PICK result \in {"UNDEFINED_RESULT", "ELEMENT_RESULT",
                       "DOCUMENT_RESULT"} : Return(decoded, result)
  BY <1>1
<1>4. IsOutcome(decoded, result)
  BY <1>2 DEF IsOutcome
<1> QED BY <1>1, <1>3, <1>4, ReturnKeeps

LEMMA ServeParentKeeps ==
    ASSUME IInv, ServeParent
    PROVE  IInv'
<1>1. /\ pc = "serve" /\ decoded.type = "parent"
      /\ Return(decoded, "RESULT_LIST")
  BY DEF ServeParent
<1>2. text.type = "parent" /\ Asked = decoded
  BY <1>1, DecodedFacts, AskedIs
<1>3. IsOutcome(decoded, "RESULT_LIST")
  BY <1>2 DEF IsOutcome
<1> QED BY <1>1, <1>3, ReturnKeeps

LEMMA ServeUpdateKeeps ==
    ASSUME IInv, ServeUpdate
    PROVE  IInv'
<1>1. pc = "serve" /\ decoded.type = "update" /\ found = "DOCUMENT"
  BY DEF ServeUpdate, HasHead
<1>2. text.type = "update" /\ request = RequestXml
      /\ Asked = [decoded EXCEPT !.elName = text.elName, !.value = text.value]
  BY <1>1, DecodedFacts, AskedIs
<1>3. tree.type = text.type /\ tree.elName = text.elName
      /\ tree.value = text.value
  BY <1>1, SentTree DEF IInv, Serving
<1>4. PICK x, en, va : /\ x = request.children[1]
                       /\ en = Prop(x, "name") /\ va = Prop(x, "newValue")
  OBVIOUS
<1>5. en = text.elName /\ va = text.value
  <2>1. PICK a, e, p, c :
           /\ a = [name |-> tree.elName, newValue |-> tree.value]
           /\ e = Node("element", a, <<>>) /\ p = PathXml(tree.path)
           /\ c = request.children
    OBVIOUS
  <2>2. c = <<e, p>>
    BY <1>2, <1>3, <2>1, UpdateRequest
  <2>3. x = e
    BY <1>4, <2>1, <2>2
  <2>4. x.attributes = a
    BY <2>1, <2>3, NodeIs
  <2>5. DOMAIN a = {"name", "newValue"}
        /\ a["name"] = tree.elName /\ a["newValue"] = tree.value
    BY <2>1
  <2> QED BY <1>3, <1>4, <2>4, <2>5, PropIs
<1>6. \/ Return([decoded EXCEPT !.elName = en, !.value = va], "UPDATE_OK")
      \/ \E refusal \in {"ELEMENT_NOT_FOUND", "TYPE_PARSE_ERROR",
                         "INVALID_NAME"} : Return(Nothing, refusal)
      \/ pc' = "aborted" /\ UNCHANGED <<parser, server>>
  BY <1>4, Zenon DEF ServeUpdate
<1>7. \/ Return(Asked, "UPDATE_OK")
      \/ \E refusal \in {"ELEMENT_NOT_FOUND", "TYPE_PARSE_ERROR",
                         "INVALID_NAME"} : Return(Nothing, refusal)
      \/ pc' = "aborted" /\ UNCHANGED <<parser, server>>
  BY <1>2, <1>5, <1>6, Zenon
<1>8. CASE Return(Asked, "UPDATE_OK")
  <2>1. IsOutcome(Asked, "UPDATE_OK")
    BY <1>2, Zenon DEF IsOutcome
  <2> QED BY <1>1, <1>8, <2>1, ReturnKeeps
<1>9. ASSUME NEW refusal \in {"ELEMENT_NOT_FOUND", "TYPE_PARSE_ERROR",
                              "INVALID_NAME"}, Return(Nothing, refusal)
      PROVE  IInv'
  <2>1. IsOutcome(Nothing, refusal)
    BY <1>2 DEF IsOutcome
  <2> QED BY <1>1, <1>9, <2>1, ReturnKeeps
<1>10. CASE pc' = "aborted" /\ UNCHANGED <<parser, server>>
  <2>1. /\ UNCHANGED <<parser, request, decoded, served, status, printed>>
        /\ found' = "DOCUMENT" /\ found' \in Outcomes
    BY <1>1, <1>10 DEF server, Outcomes
  <2> QED BY <1>1, <1>2, <1>10, <2>1, OnTheWay
<1> QED BY <1>7, <1>8, <1>9, <1>10

LEMMA JoinPredicateIs ==
    ASSUME IInv, pc = "serve", text.type = "join"
    PROVE  IF ComparesElements(text.pred) THEN CopiesNull(JoinPredicate)
           ELSE /\ JoinPredicate = MeaningOfChain(text.pred)
                /\ ~ CopiesNull(JoinPredicate)
<1>1. tree.type = text.type /\ tree.pred = MeaningOfChain(text.pred)
      /\ IsRequest(text) /\ request = RequestXml
  BY SentTree, DecodedFacts DEF IInv, Serving
<1>2. PICK chain, pred :
           chain \in Chains /\ chain = text.pred /\ pred = tree.pred
  BY <1>1, TextFacts
<1>3. Len(pred) \in Nat
  <2>1. pred = [k \in 1 .. Len(chain) |-> pred[k]]
        /\ chain \in Seq(Predicates)
    BY <1>1, <1>2, ChainMeans
  <2>2. Len(chain) \in Nat
    BY <2>1
  <2> QED BY <2>1, <2>2
<1>4. FindNodeByName(root, "predicate") = PredicateXml(pred)
  BY <1>1, <1>2, <1>3, JoinFinds
<1>5. PICK c : c = JoinPredicate
  OBVIOUS
<1>6. c = PredicateFromXml(PredicateXml(MeaningOfChain(chain)))
  BY <1>1, <1>2, <1>4, <1>5 DEF JoinPredicate
<1> QED BY <1>2, <1>5, <1>6, JoinDecoded

LEMMA ServeJoinKeeps ==
    ASSUME IInv, ServeJoin
    PROVE  IInv'
<1>1. /\ pc = "serve" /\ decoded.type = "join" /\ ~ CopiesNull(JoinPredicate)
      /\ Return([decoded EXCEPT !.pred = JoinPredicate], "RESULT_LIST")
  BY DEF ServeJoin
<1>2. text.type = "join"
      /\ Asked = [decoded EXCEPT !.pred = MeaningOfChain(text.pred)]
  BY <1>1, DecodedFacts, AskedIs
<1>3. JoinPredicate = MeaningOfChain(text.pred)
  BY <1>1, <1>2, JoinPredicateIs
<1>4. Return(Asked, "RESULT_LIST")
  BY <1>1, <1>2, <1>3, Zenon
<1>5. IsOutcome(Asked, "RESULT_LIST")
  BY <1>2, Zenon DEF IsOutcome
<1> QED BY <1>1, <1>4, <1>5, ReturnKeeps

LEMMA ServeAbortsKeeps ==
    ASSUME IInv, ServeAborts
    PROVE  IInv'
<1>1. /\ pc = "serve" /\ decoded.type # "find" /\ pc' = "aborted"
      /\ found' = found
      /\ UNCHANGED <<parser, request, decoded, served, status, printed>>
      /\ \/ ~ HasHead /\ ~ (ChecksResult /\ found = "UNDEFINED")
         \/ decoded.type = "join" /\ CopiesNull(JoinPredicate)
  BY DEF ServeAborts, server
<1>2. /\ text.type = decoded.type /\ text.type \in RequestTypes
      /\ found \in Outcomes
      /\ NamesRoot(text.path) => found' = "DOCUMENT"
  BY <1>1, DecodedFacts DEF IInv, ServerInv, FoundInv, Outcomes
<1>3. CASE ~ HasHead /\ ~ (ChecksResult /\ found = "UNDEFINED")
  <2>1. \/ text.type \in {"add", "join", "parent"} /\ found' # "DOCUMENT"
        \/ text.type \in {"delete", "update"}
           /\ found' \in {"EMPTY", "ELEMENT"}
    BY <1>1, <1>2, <1>3 DEF HasHead, ChecksResult, RequestTypes, Outcomes
  <2> QED BY <1>1, <1>2, <2>1, OnTheWay
<1>4. CASE decoded.type = "join" /\ CopiesNull(JoinPredicate)
  <2>1. ComparesElements(text.pred)
    BY <1>1, <1>2, <1>4, JoinPredicateIs
  <2> QED BY <1>1, <1>2, <2>1, OnTheWay
<1> QED BY <1>1, <1>3, <1>4

LEMMA AnswerKeeps ==
    ASSUME IInv, Answer
    PROVE  IInv'
<1>1. /\ pc = "answer" /\ pc' = "printed" /\ UNCHANGED parser
      /\ printed' = <<Headings[AnswerTypes[decoded.type]], Info[status]>>
      /\ request' = request /\ decoded' = decoded /\ found' = found
      /\ served' = served /\ status' = status
  BY DEF Answer
<1>2. /\ text' = text /\ RequestXml' = RequestXml
      /\ FirstStepHasPredicates' = FirstStepHasPredicates
      /\ DecodedPath' = DecodedPath /\ SchemaInv' = SchemaInv
      /\ Asked' = Asked /\ Info' = Info /\ DeletesRoot' = DeletesRoot
  BY <1>1 DEF RequestXml, Arguments, parser, FirstStepHasPredicates,
              DecodedPath, SchemaInv, Asked, Info, DeletesRoot
<1>3. ParserInv'
  BY <1>1, ParserKept DEF IInv, Serving
<1>4. /\ decoded = Fields(text.type, text.docName, decoded.schema, "", "",
                          <<>>, DecodedPath)
      /\ SchemaInv /\ request = RequestXml /\ decoded.type = text.type
      /\ found \in Outcomes /\ IsOutcome(served, status)
      /\ TypeOK /\ FailuresHaveCauses
  BY <1>1, DecodedFacts DEF IInv, ServerInv, FoundInv, ServedInv
<1>5. DecodedInv'
  BY <1>1, <1>2, <1>4 DEF DecodedInv, Parsing
<1>6. ServedInv'
  <2>1. IsOutcome(served, status)'
    BY <1>1, <1>2, <1>4 DEF IsOutcome
  <2> QED BY <1>1, <2>1 DEF ServedInv
<1>7. PrintedInv'
  <2>1. Headings' = Headings /\ AnswerTypes' = AnswerTypes
    BY DEF Headings, AnswerTypes
  <2> QED BY <1>1, <1>2, <1>4, <2>1, Zenon DEF PrintedInv
<1>8. ServerInv'
  <2>1. FoundInv'
    BY <1>1, <1>2 DEF IInv, ServerInv, FoundInv
  <2> QED BY <1>1, <1>2, <1>4, <1>5, <1>6, <1>7, <2>1 DEF ServerInv
<1>9. FailuresHaveCauses'
  BY <1>1, <1>2, <1>4 DEF FailuresHaveCauses
<1>10. TypeOK'
  <2>1. /\ found' \in Outcomes \cup {"none"}
        /\ served'.type \in RequestTypes \cup {"none"}
        /\ status' \in (DOMAIN Info)' \cup {"none"}
    BY <1>1, <1>2, <1>4 DEF TypeOK
  <2> QED BY <1>1, <1>4, <2>1, ServerTypes DEF Serving
<1> QED BY <1>3, <1>8, <1>9, <1>10 DEF IInv

-----------------------------------------------------------------------------
(* The theorems.                                                           *)

LEMMA InitIsServed ==
    ASSUME Init
    PROVE  IInv
<1>1. ParserInv
  BY InitIsParsed
<1>2. /\ pc = "command" /\ decoded = Nothing /\ found = "none"
      /\ served = Nothing /\ status = "none"
      /\ isFirstPred = TRUE /\ symbolValue = "NONE"
  BY DEF Init, ZpathInit
<1>3. ServerInv
  BY <1>2 DEF ServerInv, DecodedInv, FoundInv, ServedInv, PrintedInv,
              Parsing, Serving
<1>4. FailuresHaveCauses
  BY <1>2 DEF FailuresHaveCauses
<1>5. TypeOK
  <2>1. Nothing.type = "none"
    BY ONLY TRUE DEF Nothing
  <2> QED BY <1>2, <2>1 DEF TypeOK
<1> QED BY <1>1, <1>3, <1>4, <1>5 DEF IInv

LEMMA StutterKeeps ==
    ASSUME IInv, UNCHANGED vars
    PROVE  IInv'
<1>1. /\ text' = text /\ unread' = unread /\ tree' = tree /\ aStep' = aStep
      /\ isFirstPred' = isFirstPred /\ symbolValue' = symbolValue
      /\ pc' = pc /\ request' = request /\ decoded' = decoded
      /\ found' = found /\ served' = served /\ status' = status
      /\ printed' = printed
  BY DEF vars, parser, server
<1>2. ParserInv'
  <2>1. ParserInv
    BY DEF IInv
  <2>2. UnreadInv'
    BY <1>1, <2>1 DEF ParserInv, UnreadInv, Done
  <2>3. OrderInv'
    BY <1>1, <2>1 DEF ParserInv, OrderInv
  <2>4. TreeInv'
    BY <1>1, <2>1 DEF ParserInv, TreeInv, TreeOf, Done
  <2>5. ChainInv'
    <3>1. Step' = Step
      BY <1>1 DEF Step, Done
    <3>2. CASE pc = "joinPredicates"
      BY <1>1, <2>1, <3>2 DEF ParserInv, ChainInv, Done, InChain
    <3>3. CASE pc = "predicates"
      <4>1. /\ unread' = unread /\ isFirstPred' = isFirstPred /\ pc' = pc
            /\ symbolValue' = symbolValue /\ aStep' = aStep
        BY <1>1
      <4>2. ChainInv
        BY <2>1 DEF ParserInv
      <4> QED BY <3>1, <3>3, <4>1, <4>2, Zenon DEF ChainInv, Done, InChain
    <3>4. CASE pc \notin {"joinPredicates", "predicates"}
      BY <1>1, <2>1, <3>1, <3>4 DEF ParserInv, ChainInv
    <3> QED BY <3>2, <3>3, <3>4
  <2> QED BY <2>2, <2>3, <2>4, <2>5 DEF ParserInv
<1>3. /\ RequestXml' = RequestXml /\ DecodedPath' = DecodedPath
      /\ SchemaInv' = SchemaInv /\ Asked' = Asked /\ Info' = Info
      /\ DeletesRoot' = DeletesRoot
  BY <1>1 DEF RequestXml, Arguments, FirstStepHasPredicates, DecodedPath,
              SchemaInv, Asked, Info, DeletesRoot
<1>4. ServerInv'
  BY <1>1, <1>3 DEF IInv, ServerInv, DecodedInv, FoundInv, ServedInv,
                    PrintedInv, IsOutcome, Headings, AnswerTypes
<1>5. FailuresHaveCauses'
  BY <1>1 DEF IInv, FailuresHaveCauses, FirstStepHasPredicates
<1>6. TypeOK'
  BY <1>1, <1>3 DEF IInv, TypeOK
<1> QED BY <1>2, <1>4, <1>5, <1>6 DEF IInv

\* The inductive invariant of a request.
THEOREM RequestIsKept == Spec => []IInv
<1>1. Init => IInv
  BY InitIsServed
<1>2. IInv /\ [Next]_vars => IInv'
  <2> SUFFICES ASSUME IInv, [Next]_vars
               PROVE  IInv'
    OBVIOUS
  <2>1. CASE Parse /\ UNCHANGED server
    BY <2>1, ParseKeeps
  <2>2. CASE Send
    BY <2>2, SendKeeps
  <2>3. CASE DecodeRequest
    BY <2>3, DecodeKeeps
  <2>4. CASE Search
    BY <2>4, SearchKeeps
  <2>5. CASE DestroyPath
    BY <2>5, DestroyPathKeeps
  <2>6. CASE Serve
    BY <2>6, ServeAddKeeps, NotFoundKeeps, ServeDeleteKeeps,
       ServeUpdateKeeps, ServeFindKeeps, ServeJoinKeeps, ServeParentKeeps,
       ServeAbortsKeeps DEF Serve
  <2>7. CASE Answer
    BY <2>7, AnswerKeeps
  <2>8. CASE UNCHANGED vars
    BY <2>8, StutterKeeps
  <2> QED BY <2>1, <2>2, <2>3, <2>4, <2>5, <2>6, <2>7, <2>8 DEF Next
<1> QED BY <1>1, <1>2, PTL DEF Spec

\* The parser's flags and the operations carried out have their types.
THEOREM RequestTypesCorrect == Spec => []TypeOK
<1>1. IInv => TypeOK
  BY DEF IInv
<1> QED BY <1>1, RequestIsKept, PTL

\* The server goes down, and ADD refuses, for known reasons only.
THEOREM FailuresAreCaused == Spec => []FailuresHaveCauses
<1>1. IInv => FailuresHaveCauses
  BY DEF IInv
<1> QED BY <1>1, RequestIsKept, PTL

LEMMA RejectedHasMisfit ==
    ASSUME IInv, RejectNumber
    PROVE  \E k \in DOMAIN text.schema : ~ FitsSchema(text.schema[k].value)
<1>1. pc = "schema" /\ ~ FitsSchema(Head(unread.schema).value)
  BY DEF RejectNumber
<1>2. /\ unread.schema # <<>>
      /\ unread.schema \in Seq(WrittenElements)
      /\ text.schema \in Seq(WrittenElements)
      /\ IsRest(unread.schema, text.schema)
  BY <1>1, UnreadFacts, TextFacts DEF IInv, ParserInv, OrderInv
<1>3. PICK rest, whole, W :
         /\ rest = unread.schema /\ whole = text.schema
         /\ rest \in Seq(W) /\ whole \in Seq(W) /\ rest # <<>>
         /\ IsRest(rest, whole)
  BY <1>2
<1>4. /\ Len(rest) \in Nat /\ Len(whole) \in Nat /\ Len(rest) # 0
      /\ DOMAIN whole = 1 .. Len(whole) /\ DOMAIN rest = 1 .. Len(rest)
      /\ Head(rest) = rest[1]
  BY ONLY <1>3
<1>5. /\ Len(rest) <= Len(whole)
      /\ rest[1] = whole[Len(whole) - Len(rest) + 1]
  <2>1. 1 \in DOMAIN rest
    BY <1>4
  <2> QED BY <1>3, <2>1 DEF IsRest
<1>6. PICK k : k \in DOMAIN whole /\ Head(rest) = whole[k]
  BY <1>4, <1>5
<1>7. PICK e : e = Head(rest)
  OBVIOUS
<1>8. ~ FitsSchema(e.value) /\ e = whole[k]
  BY <1>1, <1>3, <1>6, <1>7
<1> QED BY <1>3, <1>6, <1>8

\* The AST that is sent says what the user typed, and a text is rejected on
\* account of a number only.
THEOREM TextIsParsedAsWritten == Spec => []ParsedAsWritten
<1> DEFINE Misfits ==
             \E k \in DOMAIN text.schema : ~ FitsSchema(text.schema[k].value)
           Rejected == pc = "rejected" => Misfits
<1>1. Init => Rejected
  BY DEF Init, ZpathInit
<1>2. ASSUME IInv, Rejected, [Next]_vars PROVE Rejected'
  <2>1. CASE RejectNumber /\ UNCHANGED server
    <3>1. Misfits /\ text' = text
      BY <1>2, <2>1, RejectedHasMisfit DEF RejectNumber, parser
    <3> QED BY <3>1
  <2>2. CASE UNCHANGED vars
    BY <1>2, <2>2 DEF vars, parser
  <2>3. CASE ~ RejectNumber /\ ~ UNCHANGED vars
    <3>1. pc' # "rejected"
      BY <1>2, <2>3 DEF Next, Parse, ParseCommand, ParseElement,
         ParseJoinPredicate, ParseEntry, ParsePredicate, AddStep, Send,
         DecodeRequest, Search, DestroyPath, Serve, ServeAdd, NotFound,
         ServeDelete, ServeUpdate, ServeFind, ServeJoin, ServeParent,
         ServeAborts, Return, Answer
    <3> QED BY <3>1
  <2>4. CASE RejectNumber /\ ~ UNCHANGED server
    <3>1. pc = "schema"
      BY <2>4 DEF RejectNumber
    <3>2. pc' # "rejected"
      BY <1>2, <2>4, <3>1 DEF Next, Parse, ParseCommand, ParseElement,
         ParseJoinPredicate, ParseEntry, ParsePredicate, AddStep, Send,
         DecodeRequest, Search, DestroyPath, Serve, ServeAdd, NotFound,
         ServeDelete, ServeUpdate, ServeFind, ServeJoin, ServeParent,
         ServeAborts, Return, Answer, vars, server, parser
    <3> QED BY <3>2
  <2> QED BY <2>1, <2>2, <2>3, <2>4
<1>3. IInv /\ Rejected => ParsedAsWritten
  BY SentTree DEF IInv, ParsedAsWritten
<1> QED BY <1>1, <1>2, <1>3, RequestIsKept, PTL DEF Spec

LEMMA WholeSchemaArrives ==
    ASSUME IInv, served # Nothing
    PROVE  served = Asked /\ decoded.schema = ArrivedSchema(text.schema)
<1>1. pc \in {"answer", "printed"} /\ IsOutcome(served, status)
  BY DEF IInv, ServerInv, ServedInv
<1>2. /\ served = Asked
      /\ text.type = "add" => Len(decoded.schema) = Len(text.schema)
  BY <1>1, Zenon DEF IsOutcome
<1>3. SchemaInv
  BY <1>1, DecodedFacts
<1>4. text.type # "add" => text.schema = <<>>
  BY TextFacts DEF IInv, ParserInv, UnreadInv
<1>5. ~ HasKeyTwice(<<>>) /\ ~ HasReservedKey(<<>>)
  BY DEF HasKeyTwice, HasReservedKey
<1> QED BY <1>2, <1>3, <1>4, <1>5 DEF SchemaInv

LEMMA PathArrives ==
    ASSUME NEW path \in Seq(EntrySteps), NEW m, m = MeaningOfPath(path)
    PROVE  [k \in DOMAIN m |-> [m[k] EXCEPT !.pred = <<>>]] =
              [k \in DOMAIN path |-> [path[k] EXCEPT !.pred = <<>>]]
<1>1. DOMAIN m = 1 .. Len(path) /\ DOMAIN path = 1 .. Len(path)
  BY SentSteps
<1>2. ASSUME NEW k \in 1 .. Len(path)
      PROVE  [m[k] EXCEPT !.pred = <<>>] = [path[k] EXCEPT !.pred = <<>>]
  <2>1. PICK s, c, e :
           /\ s \in ReadSteps /\ s = path[k]
           /\ c = MeaningOfChain(s.pred) /\ e = <<>>
    <3>1. path[k] \in EntrySteps
      OBVIOUS
    <3> QED BY <3>1, EntryFacts
  <2>2. m[k] = [s EXCEPT !.pred = c]
    BY <2>1, PathMeans
  <2>3. [[s EXCEPT !.pred = c] EXCEPT !.pred = e] = [s EXCEPT !.pred = e]
    <3>1. s \in ReadSteps
      BY <2>1
    <3> QED BY ONLY <3>1 DEF ReadSteps
  <2> QED BY <2>1, <2>2, <2>3
<1> QED BY <1>1, <1>2

\* An operation that is carried out is the one the user asked for.
THEOREM RequestsArrive == Spec => []RequestArrives
<1>1. ASSUME IInv, served # Nothing, ~ FirstStepHasPredicates
      PROVE  served = [Arrived(text) EXCEPT
                        !.path = [k \in DOMAIN @ |->
                                     [@[k] EXCEPT !.pred = <<>>]]]
  <2>1. served = Asked /\ decoded.schema = ArrivedSchema(text.schema)
    BY <1>1, WholeSchemaArrives
  <2>2. text.path \in Seq(EntrySteps)
    BY <1>1, TextFacts DEF IInv, ParserInv, UnreadInv
  <2>3. PICK ty, dn, sc, en, va, pr, m, ms :
           /\ ty = text.type /\ dn = text.docName
           /\ sc = ArrivedSchema(text.schema)
           /\ en = text.elName /\ va = text.value
           /\ pr = MeaningOfChain(text.pred)
           /\ m = MeaningOfPath(text.path)
           /\ ms = MeaningOfSchema(text.schema)
    OBVIOUS
  <2>4. PICK p : p = [k \in DOMAIN m |-> [m[k] EXCEPT !.pred = <<>>]]
    OBVIOUS
  <2>5. p = DecodedPath
    <3>1. p = [k \in DOMAIN text.path |->
                  [text.path[k] EXCEPT !.pred = <<>>]]
      BY <2>2, <2>3, <2>4, PathArrives
    <3> QED BY <1>1, <3>1, Zenon DEF DecodedPath
  <2>6. served = Fields(ty, dn, sc, en, va, pr, p)
    BY <2>1, <2>3, <2>5, Zenon DEF Asked
  <2>7. Meaning(text) = Fields(ty, dn, ms, en, va, pr, m)
    BY <2>3, Zenon DEF Meaning
  <2>8. PICK a, b : a = Meaning(text) /\ b = Arrived(text)
    OBVIOUS
  <2>9. b = [a EXCEPT !.schema = sc]
    BY <2>3, <2>8, Zenon DEF Arrived
  <2>10. b = Fields(ty, dn, sc, en, va, pr, m)
    <3>1. a = Fields(ty, dn, ms, en, va, pr, m)
      BY <2>7, <2>8
    <3> QED BY ONLY <2>9, <3>1 DEF Fields
  <2>11. [b EXCEPT !.path = p] = Fields(ty, dn, sc, en, va, pr, p)
    BY ONLY <2>10 DEF Fields
  <2>12. b.path = m
    BY ONLY <2>10 DEF Fields
  <2>13. [b EXCEPT !.path = [k \in DOMAIN @ |->
                                [@[k] EXCEPT !.pred = <<>>]]] =
            [b EXCEPT !.path = p]
    BY ONLY <2>4, <2>12
  <2> QED BY <2>6, <2>8, <2>11, <2>13
<1>2. IInv => RequestArrives
  BY <1>1 DEF RequestArrives
<1> QED BY <1>2, RequestIsKept, PTL

\* What the client prints tells whether the operation was carried out, the
\* DELETE of the root excepted.
THEOREM AnswersTellOutcome == Spec => []AnswerTellsOutcome
<1>1. ASSUME IInv, pc = "printed" PROVE AnswerTellsOutcome
  <2>1. /\ printed = <<Headings[AnswerTypes[text.type]], Info[status]>>
        /\ IsOutcome(served, status) /\ decoded.type = text.type
        /\ text.type \in RequestTypes
    BY <1>1, DecodedFacts DEF IInv, ServerInv, PrintedInv, ServedInv
  <2>2. /\ printed[1] = Headings[AnswerTypes[text.type]]
        /\ printed[2] = Info[status]
    BY <2>1
  <2>3. served = Asked => served # Nothing
    <3>1. Nothing.type = "none"
      BY ONLY TRUE DEF Nothing
    <3>2. text.type # "none"
      BY <2>1 DEF RequestTypes
    <3> QED BY <3>1, <3>2, AskedType
  <2>4. PICK i : i = Info[status]
    OBVIOUS
  <2>5. text.type # "delete" => ~ DeletesRoot
    BY DEF DeletesRoot
  <2>6. CASE text.type = "add"
    <3>1. CASE served = Nothing /\ status = "OUT_OF_INDEX"
      <4>1. i = "OUT OF INDEX"
        BY <2>4, <3>1 DEF Info
      <4> QED BY <2>2, <2>4, <2>6, <2>5, <3>1, <4>1 DEF AnswerTellsOutcome
    <3>2. CASE served = Asked /\ status = "CREATE_OK"
      <4>1. i = "CREATE OK"
        BY <2>4, <3>2 DEF Info
      <4> QED BY <2>2, <2>3, <2>4, <2>6, <3>2, <4>1 DEF AnswerTellsOutcome
    <3> QED BY <2>1, <2>6, <2>5, <3>1, <3>2, Zenon DEF IsOutcome
  <2>7. CASE text.type = "delete"
    <3>1. CASE ~ DeletesRoot /\ served = Nothing
               /\ status = "UNDEFINED_RESULT"
      <4>1. i = "DOCUMENT NOT FOUND"
        BY <2>1, <2>4, <2>7, <3>1 DEF Info
      <4> QED BY <2>2, <2>4, <2>7, <3>1, <4>1 DEF AnswerTellsOutcome
    <3>2. CASE (served = Asked \/ DeletesRoot)
               /\ status = "DOCUMENT_RESULT"
      <4>1. i = "DOCUMENT DELETED"
        BY <2>1, <2>4, <2>7, <3>2 DEF Info
      <4> QED BY <2>2, <2>3, <2>4, <2>7, <3>2, <4>1 DEF AnswerTellsOutcome
    <3> QED BY <2>1, <2>7, <3>1, <3>2, Zenon DEF IsOutcome
  <2>8. CASE text.type = "update"
    <3>1. CASE served = Nothing /\ status \in {"DOCUMENT_NOT_FOUND",
                  "ELEMENT_NOT_FOUND", "TYPE_PARSE_ERROR", "INVALID_NAME"}
      <4>1. i \in {"DOCUMENT NOT FOUND", "ELEMENT NOT FOUND",
                   "TYPE PARSE ERROR", "INVALID NAME"}
        <5>1. CASE status = "DOCUMENT_NOT_FOUND"
          BY <2>4, <5>1 DEF Info
        <5>2. CASE status = "ELEMENT_NOT_FOUND"
          BY <2>4, <5>2 DEF Info
        <5>3. CASE status = "TYPE_PARSE_ERROR"
          BY <2>4, <5>3 DEF Info
        <5>4. CASE status = "INVALID_NAME"
          BY <2>4, <5>4 DEF Info
        <5> QED BY <3>1, <5>1, <5>2, <5>3, <5>4
      <4>2. i \notin {"CREATE OK", "DOCUMENT DELETED", "UPDATE OK"}
        BY <4>1
      <4> QED BY <2>2, <2>4, <2>8, <2>5, <3>1, <4>2 DEF AnswerTellsOutcome
    <3>2. CASE served = Asked /\ status = "UPDATE_OK"
      <4>1. i = "UPDATE OK"
        BY <2>4, <3>2 DEF Info
      <4> QED BY <2>2, <2>3, <2>4, <2>8, <3>2, <4>1 DEF AnswerTellsOutcome
    <3> QED BY <2>1, <2>8, <2>5, <3>1, <3>2, Zenon DEF IsOutcome
  <2>9. CASE text.type \notin {"add", "delete", "update"}
    BY <2>2, <2>9 DEF AnswerTellsOutcome
  <2> QED BY <2>6, <2>7, <2>8, <2>9
<1>2. IInv => AnswerTellsOutcome
  BY <1>1 DEF AnswerTellsOutcome
<1> QED BY <1>2, RequestIsKept, PTL
=============================================================================
