----------------------------- MODULE Bootstrap -----------------------------
(***************************************************************************)
(* What init_db promises whoever calls it: when it returns, the database   *)
(* is complete, and a complete database stays complete.  A call may fail   *)
(* and its process may end at any time; StorageInit shows how the database *)
(* gets there.                                                             *)
(***************************************************************************)
CONSTANT Starters   \* the threads and processes that call init_db

VARIABLES
  complete,  \* the database has all that this version needs
  phase      \* phase[s]: where the call of s is

TypeOK ==
  /\ complete \in BOOLEAN
  /\ phase \in [Starters -> {"off", "starting", "ready", "failed"}]

Init ==
  /\ complete = FALSE
  /\ phase = [s \in Starters |-> "off"]

Begin(s) ==
  /\ phase[s] = "off"
  /\ phase' = [phase EXCEPT ![s] = "starting"]
  /\ UNCHANGED complete

\* The call returns; it has completed the database, or found it so.
Return(s) ==
  /\ phase[s] = "starting"
  /\ phase' = [phase EXCEPT ![s] = "ready"]
  /\ complete' = TRUE

\* The call raises.
Fail(s) ==
  /\ phase[s] = "starting"
  /\ phase' = [phase EXCEPT ![s] = "failed"]
  /\ UNCHANGED complete

\* The threads T end together.
End(T) ==
  /\ phase' = [s \in Starters |-> IF s \in T THEN "off" ELSE phase[s]]
  /\ UNCHANGED complete

Next ==
  \/ \E s \in Starters : Begin(s) \/ Return(s) \/ Fail(s)
  \/ \E T \in SUBSET Starters : End(T)

Spec == Init /\ [][Next]_<<complete, phase>>
=============================================================================
