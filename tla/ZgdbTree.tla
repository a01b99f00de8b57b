------------------------------ MODULE ZgdbTree ------------------------------
(***************************************************************************)
(* The storage core implements the document tree: the tree is what the     *)
(* links lead to from the root.  A document is added when its parent's     *)
(* header is rewritten (LinkSon) and removed with its subtree when it is   *)
(* unlinked (Unlink); every other step, finish() and init() included,      *)
(* leaves the tree alone.                                                  *)
(***************************************************************************)
EXTENDS ZgdbStore

\* The rest of the list a document is in: join()'s walk over brothers.
Elders(d) == BrothersFrom(block[d].indexBrother)

Tree == INSTANCE DocTree WITH
            sons  <- [d \in Reachable |-> Children(d)],
            older <- [d \in Reachable |-> Elders(d)]

\* Every behaviour of the core, seen through its links, is one of DocTree:
\* clients never see half of a creation or of a deletion.
ImplementsTree == Tree!Spec
=============================================================================
