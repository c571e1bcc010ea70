----------------------------- MODULE FlowTable -----------------------------
(***************************************************************************)
(* What the traffic storage promises to its readers: a table of flow rows, *)
(* a revision that names each state of the table, and, for every process   *)
(* that writes, the revision its event bus announced last.  Nothing is     *)
(* said of statements, locks or transactions: FlowStore has them, and      *)
(* implements this module.                                                 *)
(***************************************************************************)
EXTENDS Naturals

CONSTANTS
  Writers,   \* the processes that record traffic
  Flows,     \* the ids of recorded flows
  Records,   \* what a flow can hold
  NoRow      \* the row of a flow never recorded

VARIABLES
  rows,      \* rows[f]: the committed record of flow f
  revision,  \* the committed traffic revision
  announced  \* announced[w]: the revision the bus of w published last

vars == <<rows, revision, announced>>

Init ==
  /\ rows = [f \in Flows |-> NoRow]
  /\ revision = 0
  /\ announced = [w \in Writers |-> 0]

\* A commit: rows are added or replaced, none is ever removed, and the
\* revision moves past every earlier one.
Change ==
  /\ rows' \in [Flows -> Records \cup {NoRow}]
  /\ \A f \in Flows : rows[f] # NoRow => rows'[f] # NoRow
  /\ revision' \in Nat
  /\ revision' > revision
  /\ UNCHANGED announced

\* The bus of w publishes a committed revision newer than its last one.
Announce(w) ==
  /\ announced' \in [Writers -> 0 .. revision]
  /\ announced'[w] > announced[w]
  /\ \A v \in Writers \ {w} : announced'[v] = announced[v]
  /\ UNCHANGED <<rows, revision>>

\* w starts again with a bus that has published nothing.
Restart(w) ==
  /\ announced' = [announced EXCEPT ![w] = 0]
  /\ UNCHANGED <<rows, revision>>

Next == Change \/ \E w \in Writers : Announce(w) \/ Restart(w)

Spec == Init /\ [][Next]_vars
=============================================================================
