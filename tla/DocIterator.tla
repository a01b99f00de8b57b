---------------------------- MODULE DocIterator ----------------------------
(***************************************************************************)
(* The document iterator (zgdbServer/zgdb/data/iterator/dociterator.c) and *)
(* its stack, over a tree of documents that does not change.  It yields a  *)
(* document, its brothers and all their descendants, each with its parent  *)
(* and its depth.                                                          *)
(*                                                                         *)
(* A tree is a record of functions on its documents: son and brother are   *)
(* the links of the headers (0 is "none", and the root), parent is what    *)
(* the links mean, name, elements and id are the rest of a document.  No   *)
(* way along the links is endless, and every document is on one from the   *)
(* root (TreeIsWhole in ZgdbStoreInv).                                     *)
(***************************************************************************)
EXTENDS Naturals, Sequences, SequencesExt

DocumentsOf(t) == DOMAIN t.parent

IsTree(t) ==
    /\ 0 \in DocumentsOf(t)
    /\ DocumentsOf(t) \subseteq Nat
    /\ t.parent \in [DocumentsOf(t) -> DocumentsOf(t)]
    /\ t.son \in [DocumentsOf(t) -> DocumentsOf(t)]
    /\ t.brother \in [DocumentsOf(t) -> DocumentsOf(t)]
    /\ t.parent[0] = 0
    /\ t.brother[0] = 0
    /\ \A d \in DocumentsOf(t) :
          /\ t.son[d] # 0 => t.parent[t.son[d]] = d
          /\ t.brother[d] # 0 => t.parent[t.brother[d]] = t.parent[d]
    /\ \A S \in SUBSET (DocumentsOf(t) \ {0}) :
          S # {} => \E d \in S : {t.son[d], t.brother[d]} \cap S = {}
    /\ \A S \in SUBSET DocumentsOf(t) :
          /\ 0 \in S
          /\ \A d \in S : {t.son[d], t.brother[d]} \subseteq S
          => S = DocumentsOf(t)

\* nodeEntry: a document, its parent and its depth.
EntryOf(order, orderParent, depth) ==
    [order |-> order, orderParent |-> orderParent, depth |-> depth]

CreateDocIterator(order, orderParent, startDepth) ==
    [next |-> EntryOf(order, orderParent, startDepth), stack |-> <<>>,
     stop |-> FALSE]

HasNextDoc(iterator) == ~ iterator.stop

\* Mutant: a pushed son gets the parent of the document it is a son of.
SonEntryOfParent(t, e) == EntryOf(t.son[e.order], e.orderParent, e.depth + 1)

SonEntry(t, e) == EntryOf(t.son[e.order], e.order, e.depth + 1)

BrotherEntry(t, e) == EntryOf(t.brother[e.order], e.orderParent, e.depth)

\* nextDoc: what is left of the iteration after iterator.next.
AfterNextDoc(t, iterator) ==
    LET e == iterator.next
        brother == t.brother[e.order]
        son == t.son[e.order]
    IN  CASE brother # 0 /\ son # 0 ->
                [iterator EXCEPT !.next = BrotherEntry(t, e),
                                 !.stack = Append(@, SonEntry(t, e))]
          [] brother # 0 /\ son = 0 ->
                [iterator EXCEPT !.next = BrotherEntry(t, e)]
          [] brother = 0 /\ son # 0 ->
                [iterator EXCEPT !.next = SonEntry(t, e)]
          [] brother = 0 /\ son = 0 /\ iterator.stack # <<>> ->
                [iterator EXCEPT !.next = Last(iterator.stack),
                                 !.stack = Front(iterator.stack)]
          [] brother = 0 /\ son = 0 /\ iterator.stack = <<>> ->
                [iterator EXCEPT !.stop = TRUE]
=============================================================================
