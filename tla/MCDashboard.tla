---------------------------- MODULE MCDashboard ----------------------------
(***************************************************************************)
(* Dashboard for TLC; its configurations give the form, the pages, the     *)
(* sockets and the user's acts small values, each for a question of its    *)
(* own.                                                                    *)
(***************************************************************************)
EXTENDS Dashboard
=============================================================================
