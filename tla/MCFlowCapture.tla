--------------------------- MODULE MCFlowCapture ---------------------------
(***************************************************************************)
(* FlowCapture for TLC: a flow and a server connection in scope, whose     *)
(* saves meet in one transaction, and a flow that is out of scope.         *)
(***************************************************************************)
EXTENDS FlowCapture
=============================================================================
