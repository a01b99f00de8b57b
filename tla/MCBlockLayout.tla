---------------------------- MODULE MCBlockLayout ----------------------------
(***************************************************************************)
(* Model checking of the layout, in one session (finish and init move no   *)
(* block).  A behaviour ends with the last expansion that the bound on the *)
(* indexes allows.                                                         *)
(***************************************************************************)
EXTENDS BlockLayout

Bounded == indexCount < MaxIndexCount /\ ~ Finish

MCLayoutSpec ==
    /\ LayoutInit
    /\ [][LayoutNext /\ Bounded]_layoutVars
    /\ WF_layoutVars(Expand)
=============================================================================
