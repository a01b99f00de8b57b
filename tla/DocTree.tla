------------------------------ MODULE DocTree ------------------------------
(***************************************************************************)
(* What a client of the storage core sees: an ordered tree of documents    *)
(* that grows by one leaf (ADD) and loses one subtree (DELETE) at a time.  *)
(* Nothing else changes it, and neither change is ever half done.          *)
(***************************************************************************)
EXTENDS Naturals

VARIABLES
    sons,   \* the sons of every document
    older   \* the brothers that are listed behind a document: its elders

tree == <<sons, older>>

documents == DOMAIN sons

\* The least set of documents with d in it and with the sons of its members.
Subtree(d) ==
    {x \in documents : \A S \in SUBSET documents :
        (d \in S /\ \A y \in S : sons[y] \subseteq S) => x \in S}

Init ==
    /\ sons = [d \in {0} |-> {}]
    /\ older = [d \in {0} |-> {}]

\* The new document is the first of p's sons: all others are its elders.
Add(p, d) ==
    LET more == documents \cup {d} IN
    /\ d \notin documents
    /\ sons' = [x \in more |-> IF x = d THEN {}
                               ELSE IF x = p THEN sons[p] \cup {d}
                               ELSE sons[x]]
    /\ older' = [x \in more |-> IF x = d THEN sons[p] ELSE older[x]]

Remove(p, d) ==
    LET rest == documents \ Subtree(d) IN
    /\ d \in sons[p]
    /\ sons' = [x \in rest |-> sons[x] \ {d}]
    /\ older' = [x \in rest |-> older[x] \ {d}]

\* Any name that is not in use may be the new document's; the root's is 0.
Next ==
    \/ \E d \in documents' \ documents : \E p \in documents : Add(p, d)
    \/ \E d \in documents \ documents' : \E p \in documents : Remove(p, d)

Spec == Init /\ [][Next]_tree
=============================================================================
