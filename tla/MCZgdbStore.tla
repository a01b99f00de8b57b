---------------------------- MODULE MCZgdbStore ----------------------------
(***************************************************************************)
(* Model checking of the storage core: the invariants, the refinement and  *)
(* the end of every request together.                                      *)
(***************************************************************************)
EXTENDS ZgdbStoreInv, ZgdbTree

\* The most new indexes, which are alike, that a session may leave behind.
CONSTANT MaxNewSaved

Bounded == ~ (Finish /\ freeList.newIndexesCount > MaxNewSaved)

\* The server is a single process that runs a request to its end: Execute is
\* fair.
SessionSpec ==
    Init /\ [][Next /\ Bounded]_vars /\ WF_vars(Execute)
=============================================================================
