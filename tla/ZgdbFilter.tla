----------------------------- MODULE ZgdbFilter -----------------------------
(***************************************************************************)
(* Predicates of a path step (zgdbServer/zgdb/data/filter/zgdbfilter.h)    *)
(* and their evaluation for a document (calculatePredicate).               *)
(*                                                                         *)
(* A document's elements are a function from keys to elements.  The input  *)
(* of a comparison is a record of what the code makes of the string: its   *)
(* text, whether it is "true", and numbers, a function from those of INT   *)
(* and DOUBLE that str2int and str2double can read in it.                  *)
(***************************************************************************)
EXTENDS Integers, Sequences

-----------------------------------------------------------------------------
(* BY_ELEMENT_VALUE: one element against the input.                        *)

IsSubstring(t, s) ==
    \E k \in 0 .. Len(s) - Len(t) :
        \A j \in 1 .. Len(t) : s[k + j] = t[j]

CompareNumbers(operator, a, b) ==
    \/ operator = "EQUALS" /\ a = b
    \/ operator = "NOT_EQUALS" /\ a # b
    \/ operator = "GREATER" /\ a > b
    \/ operator = "LESS" /\ a < b
    \/ operator = "EQ_GREATER" /\ a >= b
    \/ operator = "EQ_LESS" /\ a <= b

CompareTexts(operator, s, t) ==
    \/ operator = "EQUALS" /\ s = t
    \/ operator = "NOT_EQUALS" /\ s # t
    \/ operator = "CONTAINS" /\ IsSubstring(t, s)

\* str2boolean: everything but "true" is false.
CompareBooleans(operator, a, isTrue) ==
    \/ operator = "EQUALS" /\ a = isTrue
    \/ operator = "NOT_EQUALS" /\ a # isTrue

\* Operators a type does not support leave the result false, and so does an
\* input that is no number.
ElementMatches(element, operator, input) ==
    CASE element.type \in {"INT", "DOUBLE"} ->
            /\ element.type \in DOMAIN input.numbers
            /\ CompareNumbers(operator, element.value,
                              input.numbers[element.type])
      [] element.type = "TEXT" ->
            CompareTexts(operator, element.value, input.text)
      [] element.type = "BOOLEAN" ->
            CompareBooleans(operator, element.value, input.isTrue)

-----------------------------------------------------------------------------
(* One predicate and a chain of predicates.                                *)

IsIdKey(key) == key = "id"

\* The key "id" compares with the document's identifier, whatever operator.
ValueHolds(p, document) ==
    IF IsIdKey(p.key) THEN p.input.text = document.id
    ELSE /\ p.key \in DOMAIN document.elements
         /\ ElementMatches(document.elements[p.key], p.operator, p.input)

PredicateHolds(p, document, docNumber) ==
    LET res == IF p.type = "BY_DOCUMENT_NUMBER" THEN p.index = docNumber
               ELSE ValueHolds(p, document)
    IN  res # p.isInverted

Combine(p, general, res) ==
    CASE p.logOp = "NONE" -> res
      [] p.logOp = "AND"  -> general /\ res
      [] p.logOp = "OR"   -> general \/ res

\* The loop over the chain: general[k] is generalRes after k predicates, and a
\* predicate BY_ELEMENT does nothing.  garbage is what the uninitialised
\* generalRes holds at the start.
CalculatePredicate(chain, document, docNumber, garbage) ==
    LET general[k \in 0 .. Len(chain)] ==
            IF k = 0 THEN garbage
            ELSE IF chain[k].type = "BY_ELEMENT" THEN general[k - 1]
            ELSE Combine(chain[k], general[k - 1],
                         PredicateHolds(chain[k], document, docNumber))
    IN  chain = <<>> \/ general[Len(chain)]

\* A chain whose first predicate initialises generalRes: a client's has no
\* connective (XmlRequestInv), and one that compares elements is not decoded.
IsChain(chain) ==
    \/ chain = <<>>
    \/ /\ Len(chain) \in Nat \ {0}
       /\ \A k \in 1 .. Len(chain) : chain[k].logOp \in {"NONE", "AND", "OR"}
       /\ chain[1].logOp = "NONE" /\ chain[1].type # "BY_ELEMENT"
=============================================================================
