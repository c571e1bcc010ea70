---------------------------- MODULE MCFlowDrawer ----------------------------
(***************************************************************************)
(* FlowDrawer on small instances.                                          *)
(***************************************************************************)
EXTENDS FlowDrawer
=============================================================================
