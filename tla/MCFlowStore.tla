---------------------------- MODULE MCFlowStore ----------------------------
(***************************************************************************)
(* FlowStore for TLC: two recording processes, two flows, and two records, *)
(* `plain` without findings and `risky` with all of them.                  *)
(***************************************************************************)
EXTENDS FlowStore, TLC

CONSTANTS plain, risky

MCRecords == {plain, risky}
MCFindingsOf == [r \in MCRecords |-> IF r = risky THEN Findings ELSE {}]
Symmetric == Permutations(Writers) \cup Permutations(Flows) \cup Permutations(Findings)
=============================================================================
