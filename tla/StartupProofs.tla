--------------------------- MODULE StartupProofs ---------------------------
(***************************************************************************)
(* Proofs about Startup and its parts, for any number of threads,          *)
(* processes, statements, columns, attempts, flows and key pairs.          *)
(* Of StorageInit: its types, that a start that has returned stands on a   *)
(* complete database, that it implements Bootstrap, and that every call of *)
(* init_db runs out of steps.                                              *)
(* Of LocalCA: its types, that the files of the directory match, and that  *)
(* no private key is lost.                                                 *)
(* Of the composition: that it behaves, on the database, as StorageInit    *)
(* and, on the CA, as LocalCA, so that what is proved of the parts holds   *)
(* of the whole; and that a proxy that listens has both.                   *)
(***************************************************************************)
EXTENDS Startup, FiniteSets, FiniteSetTheorems, TLAPS

-----------------------------------------------------------------------------
\* The storage set-up

\* The lock is held by whoever commits, or by a proxy whose save has raised.
LockInv ==
  /\ lock # NoStarter => pc[lock] \in {"commit", "ready"}
  /\ \A s \in Starters : pc[s] = "commit" => lock = s

\* What a thread has behind it is done, and nothing is ever taken back.
ProgressInv ==
  \A s \in Starters :
    /\ pc[s] = "off" => at[s] = 1 /\ tries[s] = 0
    /\ pc[s] = "script" => \A i \in Objects : i < at[s] => i \in objects
    /\ pc[s] \in {"inspect", "alter", "update", "commit"} => objects = Objects
    /\ seen[s] \subseteq columns
    /\ pc[s] \in {"update", "commit"} => columns = Columns
    /\ pc[s] = "ready" => admin
    /\ pc[s] \in Running => tries[s] < Retries

\* The administrator comes with the commit that completes the database.
AdminInv == admin => Complete

IInv == StorageTypeOK /\ LockInv /\ ProgressInv /\ AdminInv

-----------------------------------------------------------------------------

LEMMA InitInv == StorageInit => IInv
<1> SUFFICES ASSUME StorageInit PROVE IInv  OBVIOUS
<1>1. /\ admin = FALSE /\ lock = NoStarter /\ columns = {}
      /\ \A s \in Starters : pc[s] = "off" /\ at[s] = 1 /\ seen[s] = {} /\ tries[s] = 0
  BY DEF StorageInit
<1>2. StorageTypeOK
  <2>1. 1 \in Objects /\ 0 \in 0..Retries
    BY StorageAssumption DEF Objects
  <2>2. objects \subseteq Objects
    BY <2>1 DEF StorageInit, FlowsTable
  <2>3. rows \in [Flows -> {"none", "bare", "unreadable", "malformed", "filled"}]
    BY DEF StorageInit
  <2> QED BY <2>1, <2>2, <2>3 DEF StorageInit, StorageTypeOK
<1>3. LockInv /\ ProgressInv /\ AdminInv
  BY <1>1, StorageAssumption DEF LockInv, ProgressInv, AdminInv, Running, Objects
<1> QED BY <1>2, <1>3 DEF IInv

LEMMA StartInv == ASSUME IInv, NEW s \in Starters, Start(s) PROVE IInv'
<1> USE DEF IInv, Start, Goto, dbvars
<1>1. StorageTypeOK'
  BY DEF StorageTypeOK, ProgressInv, Running
<1>2. LockInv'
  BY DEF LockInv, StorageTypeOK
<1>3. ProgressInv'
  <2>1. at[s] = 1 /\ tries[s] = 0 /\ \A i \in Objects : ~(i < 1)
    BY DEF ProgressInv, Objects
  <2> QED BY <2>1, StorageAssumption DEF ProgressInv, StorageTypeOK, Running
<1>4. AdminInv'
  BY DEF AdminInv, Complete
<1> QED BY <1>1, <1>2, <1>3, <1>4

LEMMA StaysBusyInv == ASSUME IInv, NEW s \in Starters, StaysBusy(s) PROVE IInv'
<1> USE DEF IInv, StaysBusy, dbvars
<1>1. /\ tries[s] \in Nat /\ Retries \in Nat /\ tries[s] < Retries
      /\ tries' = [tries EXCEPT ![s] = tries[s] + 1]
  BY StorageAssumption DEF StorageTypeOK, ProgressInv, Running, TryAgain
<1>2. CASE tries[s] + 1 < Retries
  <2>1. /\ pc' = [pc EXCEPT ![s] = "script"]
        /\ at' = [at EXCEPT ![s] = 1] /\ seen' = [seen EXCEPT ![s] = {}]
    BY <1>2 DEF TryAgain, Goto, FromTheTop
  <2>2. 1 \in Objects /\ \A i \in Objects : ~(i < 1)
    BY StorageAssumption DEF Objects
  <2>3. StorageTypeOK'
    BY <1>1, <2>1, <2>2 DEF StorageTypeOK, Running
  <2>4. LockInv'
    BY <2>1 DEF LockInv, StorageTypeOK
  <2>5. ProgressInv'
    BY <1>1, <1>2, <2>1, <2>2 DEF ProgressInv, StorageTypeOK, Running
  <2> QED BY <2>3, <2>4, <2>5 DEF AdminInv, Complete
<1>3. CASE ~(tries[s] + 1 < Retries)
  <2>1. pc' = [pc EXCEPT ![s] = "failed"] /\ UNCHANGED <<at, seen>>
    BY <1>3 DEF TryAgain, GivesUp, Goto
  <2>2. StorageTypeOK'
    BY <1>1, <2>1 DEF StorageTypeOK, Running
  <2>3. LockInv'
    BY <2>1 DEF LockInv, StorageTypeOK
  <2>4. ProgressInv'
    BY <1>1, <2>1 DEF ProgressInv, StorageTypeOK, Running
  <2> QED BY <2>2, <2>3, <2>4 DEF AdminInv, Complete
<1> QED BY <1>2, <1>3

LEMMA StatementInv == ASSUME IInv, NEW s \in Starters, Statement(s) PROVE IInv'
<1> USE DEF IInv, Statement, Unlocked, Goto
<1>1. NumObjects \in Nat /\ at[s] \in Nat /\ at[s] \in 1..NumObjects /\ 1 \in Objects
  BY StorageAssumption DEF StorageTypeOK, Objects
<1>2. StorageTypeOK'
  <2>1. at' \in [Starters -> Objects] /\ pc' \in [Starters -> Running \cup {"off", "ready", "failed"}]
    <3>1. CASE at[s] = NumObjects
      BY <3>1 DEF StorageTypeOK, Running
    <3>2. CASE at[s] # NumObjects
      <4>1. at[s] + 1 \in Objects
        BY <1>1, <3>2 DEF Objects
      <4> QED BY <3>2, <4>1 DEF StorageTypeOK
    <3> QED BY <3>1, <3>2
  <2> QED BY <2>1 DEF StorageTypeOK
<1>3. LockInv'
  BY DEF LockInv, StorageTypeOK
<1>4. objects \subseteq objects' /\ columns \subseteq columns'
  BY DEF StorageTypeOK
<1>5. \A i \in Objects : i < at[s] + 1 => i \in objects'
  BY <1>1 DEF ProgressInv, Objects
<1>6. CASE at[s] = NumObjects
  <2>1. objects' = Objects
    <3>1. \A i \in Objects : i < at[s] + 1
      BY <1>1, <1>6 DEF Objects
    <3> QED BY <3>1, <1>2, <1>5 DEF StorageTypeOK
  <2>2. pc' = [pc EXCEPT ![s] = "inspect"] /\ at' = at
    BY <1>6
  <2>3. ProgressInv'
    BY <2>1, <2>2, <1>4 DEF ProgressInv, StorageTypeOK, Running
  <2>4. AdminInv'
    BY <1>1, <2>1 DEF AdminInv, Complete, StorageTypeOK
  <2> QED BY <2>3, <2>4, <1>2, <1>3
<1>7. CASE at[s] # NumObjects
  <2>1. at' = [at EXCEPT ![s] = at[s] + 1] /\ pc' = pc
    BY <1>7
  <2>2. ProgressInv'
    BY <2>1, <1>2, <1>4, <1>5 DEF ProgressInv, StorageTypeOK, Running
  <2>3. AdminInv'
    BY <1>1 DEF AdminInv, Complete, StorageTypeOK
  <2> QED BY <2>2, <2>3, <1>2, <1>3
<1> QED BY <1>6, <1>7

LEMMA InspectInv == ASSUME IInv, NEW s \in Starters, Inspect(s) PROVE IInv'
<1> USE StorageAssumption DEF IInv, Inspect, ThenAlter, Goto, dbvars
<1>1. StorageTypeOK'
  BY DEF StorageTypeOK, ProgressInv, Running
<1>2. LockInv'
  BY DEF LockInv, StorageTypeOK
<1>3. ProgressInv'
  BY DEF ProgressInv, StorageTypeOK, LockInv, Running
<1>4. AdminInv'
  BY DEF AdminInv, Complete, StorageTypeOK
<1> QED BY <1>1, <1>2, <1>3, <1>4

LEMMA AddColumnInv == ASSUME IInv, NEW s \in Starters, AddColumn(s) PROVE IInv'
<1> USE StorageAssumption DEF IInv, AddColumn, NextAddition, Unlocked, Goto, dbvars
<1>1. StorageTypeOK'
  BY DEF StorageTypeOK, ProgressInv, Running
<1>2. LockInv'
  BY DEF LockInv, StorageTypeOK
<1>3. ProgressInv'
  BY DEF ProgressInv, StorageTypeOK, LockInv, Running
<1>4. AdminInv'
  BY DEF AdminInv, Complete, StorageTypeOK
<1> QED BY <1>1, <1>2, <1>3, <1>4

LEMMA DuplicateColumnInv == ASSUME IInv, NEW s \in Starters, DuplicateColumn(s) PROVE IInv'
<1> USE StorageAssumption DEF IInv, DuplicateColumn, Unlocked, Goto, dbvars
<1>1. StorageTypeOK'
  BY DEF StorageTypeOK, ProgressInv, Running
<1>2. LockInv'
  BY DEF LockInv, StorageTypeOK
<1>3. ProgressInv'
  BY DEF ProgressInv, StorageTypeOK, LockInv, Running
<1>4. AdminInv'
  BY DEF AdminInv, Complete, StorageTypeOK
<1> QED BY <1>1, <1>2, <1>3, <1>4

LEMMA AlteredInv == ASSUME IInv, NEW s \in Starters, Altered(s) PROVE IInv'
<1> USE StorageAssumption DEF IInv, Altered, Goto, dbvars
<1>1. StorageTypeOK'
  BY DEF StorageTypeOK, ProgressInv, Running
<1>2. LockInv'
  BY DEF LockInv, StorageTypeOK
<1>3. ProgressInv'
  BY DEF ProgressInv, StorageTypeOK, LockInv, Running
<1>4. AdminInv'
  BY DEF AdminInv, Complete, StorageTypeOK
<1> QED BY <1>1, <1>2, <1>3, <1>4

LEMMA UpdateInv == ASSUME IInv, NEW s \in Starters, Update(s) PROVE IInv'
<1> USE StorageAssumption DEF IInv, Update, Unlocked, Goto, dbvars
<1>1. StorageTypeOK'
  BY DEF StorageTypeOK, ProgressInv, Running
<1>2. LockInv'
  BY DEF LockInv, StorageTypeOK
<1>3. ProgressInv'
  BY DEF ProgressInv, StorageTypeOK, LockInv, Running
<1>4. AdminInv'
  BY DEF AdminInv, Complete, StorageTypeOK
<1> QED BY <1>1, <1>2, <1>3, <1>4

LEMMA CommitInv == ASSUME IInv, NEW s \in Starters, Commit(s) PROVE IInv'
<1> USE StorageAssumption DEF IInv, Commit, Backfilled, Goto, dbvars
<1>1. StorageTypeOK'
  BY DEF StorageTypeOK, ProgressInv, Running
<1>2. LockInv'
  BY DEF LockInv, StorageTypeOK
<1>3. ProgressInv'
  BY DEF ProgressInv, StorageTypeOK, LockInv, Running
<1>4. AdminInv'
  BY DEF AdminInv, Complete, StorageTypeOK, ProgressInv
<1> QED BY <1>1, <1>2, <1>3, <1>4

LEMMA BackfillRaisesInv == ASSUME IInv, NEW s \in Starters, BackfillRaises(s) PROVE IInv'
<1> USE StorageAssumption DEF IInv, BackfillRaises, Goto, dbvars
<1>1. StorageTypeOK'
  BY DEF StorageTypeOK, ProgressInv, Running
<1>2. LockInv'
  BY DEF LockInv, StorageTypeOK
<1>3. ProgressInv'
  BY DEF ProgressInv, StorageTypeOK, LockInv, Running
<1>4. AdminInv'
  BY DEF AdminInv, Complete
<1> QED BY <1>1, <1>2, <1>3, <1>4

LEMMA SaveInv == ASSUME IInv, NEW s \in Starters, Save(s) PROVE IInv'
<1> USE StorageAssumption DEF IInv, Save, Unlocked, Goto, dbvars
<1>1. StorageTypeOK'
  BY DEF StorageTypeOK, ProgressInv, Running
<1>2. LockInv'
  BY DEF LockInv, StorageTypeOK
<1>3. ProgressInv'
  BY DEF ProgressInv, StorageTypeOK, LockInv, Running
<1>4. AdminInv'
  BY DEF AdminInv, Complete, StorageTypeOK
<1> QED BY <1>1, <1>2, <1>3, <1>4

LEMMA SaveRaisesInv == ASSUME IInv, NEW s \in Starters, SaveRaises(s) PROVE IInv'
<1> USE StorageAssumption DEF IInv, SaveRaises, Unlocked, Goto, dbvars
<1>1. StorageTypeOK'
  BY DEF StorageTypeOK, ProgressInv, Running
<1>2. LockInv'
  BY DEF LockInv, StorageTypeOK
<1>3. ProgressInv'
  BY DEF ProgressInv, StorageTypeOK, LockInv, Running
<1>4. AdminInv'
  BY DEF AdminInv, Complete, StorageTypeOK
<1> QED BY <1>1, <1>2, <1>3, <1>4

LEMMA StopInv == ASSUME IInv, NEW T \in Processes, Stop(T) PROVE IInv'
<1> USE StorageAssumption DEF IInv, Stop, dbvars
<1>1. StorageTypeOK'
  BY DEF StorageTypeOK, Objects
<1>2. LockInv'
  BY DEF LockInv, StorageTypeOK
<1>3. ProgressInv'
  BY DEF ProgressInv, StorageTypeOK, Running
<1>4. AdminInv'
  BY DEF AdminInv, Complete
<1> QED BY <1>1, <1>2, <1>3, <1>4

LEMMA StutterInv == ASSUME IInv, UNCHANGED storagevars PROVE IInv'
BY DEF IInv, StorageTypeOK, LockInv, ProgressInv, AdminInv, Complete, storagevars

\* Every step of init_db, and the steps of the processes around it.
LEMMA InitDbInv == ASSUME IInv, NEW s \in Starters, InitDb(s) PROVE IInv'
BY StaysBusyInv, StatementInv, InspectInv, AddColumnInv, DuplicateColumnInv, AlteredInv,
   UpdateInv, CommitInv, BackfillRaisesInv DEF InitDb

LEMMA NextInv == ASSUME IInv, [StorageNext]_storagevars PROVE IInv'
<1>1. CASE \E s \in Starters : Start(s) \/ InitDb(s) \/ Save(s) \/ SaveRaises(s)
  BY <1>1, StartInv, InitDbInv, SaveInv, SaveRaisesInv
<1>2. CASE \E T \in Processes : Stop(T)
  BY <1>2, StopInv
<1>3. CASE UNCHANGED storagevars
  BY <1>3, StutterInv
<1> QED BY <1>1, <1>2, <1>3 DEF StorageNext

\* The inductive invariant of init_db: what each thread has behind it is in
\* the database, and the administrator is there only when all else is.
THEOREM Invariant == StorageSpec => []IInv
BY InitInv, NextInv, PTL DEF StorageSpec

\* Every variable of the storage set-up keeps its type; in particular no call
\* of init_db tries more often than _INIT_RETRIES.
THEOREM TypeCorrect == StorageSpec => []StorageTypeOK
<1>1. IInv => StorageTypeOK  BY DEF IInv
<1> QED BY <1>1, Invariant, PTL

\* Whoever has returned from init_db stands on a complete database, however
\* many starts crashed, stayed busy or collided before.
THEOREM ReadyIsComplete == StorageSpec => []ReadyOnComplete
<1>1. IInv => ReadyOnComplete  BY DEF IInv, ProgressInv, AdminInv, ReadyOnComplete
<1> QED BY <1>1, Invariant, PTL

-----------------------------------------------------------------------------
\* Refinement

Phases == [s \in Starters |-> Phase(s)]

\* Under the invariant the database is complete when it has an administrator.
LEMMA CompleteIsAdmin == IInv => Complete = admin
BY DEF IInv, AdminInv, Complete, StorageTypeOK

LEMMA InitImplements == StorageInit => Promise!Init
BY DEF StorageInit, Promise!Init, Complete, Phase, Running

\* A step that leaves the administrator alone, and the phase of all threads.
LEMMA CompleteIsAdminNext == IInv' => Complete' = admin'
BY DEF IInv, AdminInv, Complete, StorageTypeOK

\* A step that leaves the administrator and the phase of every thread alone.
LEMMA Stutters ==
  ASSUME IInv, IInv', admin' = admin, \A s \in Starters : Phase(s)' = Phase(s)
  PROVE  UNCHANGED <<Complete, Phases>>
BY CompleteIsAdmin, CompleteIsAdminNext DEF Phases

\* A step of init_db: it goes on, fails, or returns with the commit.
LEMMA InitDbCases ==
  ASSUME IInv, NEW s \in Starters, InitDb(s)
  PROVE  /\ pc[s] \in Running
         /\ \A t \in Starters \ {s} : pc'[t] = pc[t]
         /\ \/ pc'[s] \in Running \cup {"failed"} /\ admin' = admin
            \/ pc'[s] = "ready" /\ admin'
<1> USE DEF Goto, dbvars, Running
<1>0. pc \in [Starters -> Running \cup {"off", "ready", "failed"}]
  BY DEF IInv, StorageTypeOK
<1>1. CASE StaysBusy(s)
  BY <1>0, <1>1 DEF StaysBusy, TryAgain, GivesUp
<1>2. CASE Statement(s)
  BY <1>0, <1>2 DEF Statement
<1>3. CASE Inspect(s)
  BY <1>0, <1>3 DEF Inspect, ThenAlter
<1>4. CASE AddColumn(s) \/ DuplicateColumn(s) \/ Altered(s) \/ Update(s)
  BY <1>0, <1>4 DEF AddColumn, DuplicateColumn, Altered, Update
<1>5. CASE Commit(s) \/ BackfillRaises(s)
  BY <1>0, <1>5 DEF Commit, BackfillRaises
<1> QED BY <1>1, <1>2, <1>3, <1>4, <1>5 DEF InitDb

LEMMA InitDbImplements ==
  ASSUME IInv, IInv', NEW s \in Starters, InitDb(s)
  PROVE  [Promise!Next]_<<Complete, Phases>>
<1>1. /\ pc \in [Starters -> Running \cup {"off", "ready", "failed"}]
      /\ pc' \in [Starters -> Running \cup {"off", "ready", "failed"}]
  BY DEF IInv, StorageTypeOK
<1>2. Complete = admin /\ Complete' = admin'
  BY CompleteIsAdmin, CompleteIsAdminNext
<1>3. CASE pc'[s] \in Running /\ admin' = admin
  BY <1>1, <1>3, InitDbCases, Stutters DEF Phase
<1>4. CASE pc'[s] = "failed" /\ admin' = admin
  <2>1. Phases[s] = "starting" /\ Phases' = [Phases EXCEPT ![s] = "failed"]
    BY <1>1, <1>4, InitDbCases DEF Phases, Phase, Running
  <2> QED BY <1>2, <1>4, <2>1 DEF Promise!Next, Promise!Fail, Phases
<1>5. CASE pc'[s] = "ready" /\ admin'
  <2>1. Phases[s] = "starting" /\ Phases' = [Phases EXCEPT ![s] = "ready"]
    BY <1>1, <1>5, InitDbCases DEF Phases, Phase, Running
  <2>2. Complete' = TRUE
    BY <1>2, <1>5 DEF IInv, StorageTypeOK
  <2> QED BY <2>1, <2>2 DEF Promise!Next, Promise!Return, Phases
<1> QED BY <1>3, <1>4, <1>5, InitDbCases

LEMMA StartImplements ==
  ASSUME IInv, IInv', NEW s \in Starters, Start(s)
  PROVE  Promise!Begin(s)
<1>1. Phases[s] = "off" /\ Phases' = [Phases EXCEPT ![s] = "starting"]
  BY DEF IInv, StorageTypeOK, Start, Goto, Phases, Phase, Running
<1>2. UNCHANGED Complete
  BY DEF Start, dbvars, Complete
<1> QED BY <1>1, <1>2 DEF Promise!Begin, Phases

LEMMA SaveImplements ==
  ASSUME IInv, IInv', NEW s \in Starters, Save(s) \/ SaveRaises(s)
  PROVE  UNCHANGED <<Complete, Phases>>
BY Stutters DEF Save, SaveRaises, dbvars, Phase

LEMMA StopImplements ==
  ASSUME NEW T \in Processes, Stop(T)
  PROVE  Promise!End(T)
<1>1. Phases' = [s \in Starters |-> IF s \in T THEN "off" ELSE Phases[s]]
  BY DEF Stop, Phases, Phase, Running
<1>2. UNCHANGED Complete
  BY DEF Stop, dbvars, Complete
<1> QED BY <1>1, <1>2 DEF Promise!End, Phases

LEMMA NextImplements ==
  ASSUME IInv, IInv', [StorageNext]_storagevars
  PROVE  [Promise!Next]_<<Complete, Phases>>
<1>1. CASE \E s \in Starters : Start(s) \/ InitDb(s) \/ Save(s) \/ SaveRaises(s)
  BY <1>1, StartImplements, InitDbImplements, SaveImplements DEF Promise!Next
<1>2. CASE \E T \in Processes : Stop(T)
  BY <1>2, StopImplements, StorageAssumption DEF Promise!Next
<1>3. CASE UNCHANGED storagevars
  BY <1>3 DEF storagevars, Complete, Phases, Phase
<1> QED BY <1>1, <1>2, <1>3 DEF StorageNext

\* init_db, statement by statement, implements its promise: a call that
\* returns has completed the database or found it complete, and nothing that
\* another thread, process or crash does takes that back.
THEOREM InitDbImplementsBootstrap == StorageSpec => ImplementsBootstrap
<1>1. IInv /\ IInv' /\ [StorageNext]_storagevars => [Promise!Next]_<<Complete, Phases>>
  BY NextImplements
<1> QED BY <1>1, InitImplements, Invariant, PTL DEF StorageSpec, ImplementsBootstrap, Promise!Spec, Phases

-----------------------------------------------------------------------------
\* Termination: what a call of init_db has in front of it.

\* The steps that are left of the attempt of s, if nothing makes it fail.
Ahead(s) ==
  CASE pc[s] = "script"  -> (NumObjects - at[s]) + NumColumns + 5
    [] pc[s] = "inspect" -> NumColumns + 4
    [] pc[s] = "alter"   -> Cardinality(Columns \ seen[s]) + 3
    [] pc[s] = "update"  -> 2
    [] pc[s] = "commit"  -> 1
    [] OTHER -> 0

\* A step of s uses up an attempt, or one of the steps of this attempt.
ComesNearer(s) ==
  \/ tries'[s] = tries[s] + 1 /\ tries'[s] <= Retries
  \/ tries'[s] = tries[s] /\ Ahead(s)' < Ahead(s)

\* The columns are finitely many, and the missing ones no more than all.
LEMMA MissingColumns ==
  ASSUME NEW S \in SUBSET Columns
  PROVE  /\ IsFiniteSet(Columns \ S) /\ Cardinality(Columns \ S) \in 0..NumColumns
         /\ \A c \in Columns \ S :
              Cardinality(Columns \ (S \cup {c})) = Cardinality(Columns \ S) - 1
<1>1. IsFiniteSet(Columns) /\ Cardinality(Columns) = NumColumns
  BY FS_Interval, StorageAssumption DEF Columns
<1>2. /\ IsFiniteSet(Columns \ S) /\ Cardinality(Columns \ S) \in Nat
      /\ Cardinality(Columns \ S) <= NumColumns
  <2>1. Columns \ S \subseteq Columns
    OBVIOUS
  <2>2. IsFiniteSet(Columns \ S) /\ Cardinality(Columns \ S) <= Cardinality(Columns)
    BY <1>1, <2>1, FS_Subset
  <2> QED BY <1>1, <2>2, FS_CardinalityType
<1>3. ASSUME NEW c \in Columns \ S
      PROVE  Cardinality(Columns \ (S \cup {c})) = Cardinality(Columns \ S) - 1
  <2>1. Columns \ (S \cup {c}) = (Columns \ S) \ {c}
    OBVIOUS
  <2>2. Cardinality((Columns \ S) \ {c}) = Cardinality(Columns \ S) - 1
    BY <1>2, FS_RemoveElement
  <2> QED BY <2>1, <2>2
<1>4. Cardinality(Columns \ S) \in 0..NumColumns
  BY <1>2, StorageAssumption
<1> QED BY <1>2, <1>3, <1>4

\* What is ahead is a number of steps, of which an attempt has a fixed most.
LEMMA AheadIsBounded ==
  ASSUME IInv, NEW s \in Starters
  PROVE  Ahead(s) \in 0..(NumObjects + NumColumns + 4)
<1>1. /\ at[s] \in 1..NumObjects /\ NumObjects \in Nat /\ NumColumns \in Nat
      /\ Cardinality(Columns \ seen[s]) \in 0..NumColumns
  BY MissingColumns, StorageAssumption DEF IInv, StorageTypeOK, Objects
<1> QED BY <1>1 DEF Ahead

\* Every step of init_db comes nearer to its end.
LEMMA InitDbComesNearer ==
  ASSUME IInv, NEW s \in Starters, InitDb(s)
  PROVE  ComesNearer(s)
<1>1. /\ at[s] \in 1..NumObjects /\ NumObjects \in Nat /\ NumColumns \in Nat
      /\ seen[s] \in SUBSET Columns /\ Cardinality(Columns \ seen[s]) \in 0..NumColumns
      /\ tries[s] \in Nat /\ Retries \in Nat
  <2>1. /\ at[s] \in 1..NumObjects /\ NumObjects \in Nat /\ NumColumns \in Nat
        /\ seen[s] \in SUBSET Columns /\ tries[s] \in Nat /\ Retries \in Nat
    BY StorageAssumption DEF IInv, StorageTypeOK, Objects
  <2> QED BY <2>1, MissingColumns
<1>2. /\ pc \in [Starters -> Running \cup {"off", "ready", "failed"}]
      /\ at \in [Starters -> Objects] /\ seen \in [Starters -> SUBSET Columns]
      /\ tries \in [Starters -> 0..Retries]
  BY DEF IInv, StorageTypeOK
<1> USE DEF ComesNearer, Ahead, Goto
<1>3. CASE StaysBusy(s)
  <2>1. tries' = [tries EXCEPT ![s] = tries[s] + 1] /\ tries[s] < Retries
    BY <1>3 DEF StaysBusy, TryAgain, IInv, ProgressInv, Running
  <2> QED BY <1>1, <1>2, <2>1
<1>4. CASE Statement(s)
  BY <1>1, <1>2, <1>4 DEF Statement
<1>5. CASE Inspect(s)
  <2>1. seen'[s] \in SUBSET Columns
    BY <1>2, <1>5 DEF Inspect, IInv, StorageTypeOK
  <2>2. Cardinality(Columns \ seen'[s]) \in 0..NumColumns
    BY <2>1, MissingColumns
  <2> QED BY <1>1, <1>2, <1>5, <2>2 DEF Inspect, ThenAlter
<1>6. CASE AddColumn(s)
  <2>1. PICK c \in Columns \ seen[s] : seen' = [seen EXCEPT ![s] = seen[s] \cup {c}]
    BY <1>6 DEF AddColumn, NextAddition
  <2>2. Cardinality(Columns \ seen'[s]) = Cardinality(Columns \ seen[s]) - 1
    BY <1>1, <1>2, <2>1, MissingColumns
  <2> QED BY <1>1, <1>2, <1>6, <2>2 DEF AddColumn
<1>7. CASE DuplicateColumn(s)
  BY <1>1, <1>2, <1>7 DEF DuplicateColumn
<1>8. CASE Altered(s)
  BY <1>1, <1>2, <1>8 DEF Altered
<1>9. CASE Update(s) \/ Commit(s) \/ BackfillRaises(s)
  BY <1>1, <1>2, <1>9 DEF Update, Commit, BackfillRaises
<1> QED BY <1>3, <1>4, <1>5, <1>6, <1>7, <1>8, <1>9 DEF InitDb

\* Nothing that another thread does in the database sends s back.
LEMMA OthersLeaveItThere ==
  ASSUME IInv, NEW s \in Starters, NEW t \in Starters \ {s},
         Start(t) \/ InitDb(t) \/ Save(t) \/ SaveRaises(t)
  PROVE  tries'[s] = tries[s] /\ Ahead(s)' = Ahead(s)
<1>1. /\ pc'[s] = pc[s] /\ at'[s] = at[s] /\ seen'[s] = seen[s] /\ tries'[s] = tries[s]
  <2> USE DEF IInv, StorageTypeOK, Goto
  <2>1. CASE Start(t) \/ Save(t) \/ SaveRaises(t)
    BY <2>1 DEF Start, Save, SaveRaises
  <2>2. CASE StaysBusy(t)
    BY <2>2 DEF StaysBusy, TryAgain, GivesUp, FromTheTop
  <2>3. CASE Statement(t)
    BY <2>3 DEF Statement
  <2>4. CASE Inspect(t) \/ AddColumn(t) \/ DuplicateColumn(t)
    BY <2>4 DEF Inspect, ThenAlter, AddColumn, DuplicateColumn
  <2>5. CASE Altered(t) \/ Update(t) \/ Commit(t) \/ BackfillRaises(t)
    BY <2>5 DEF Altered, Update, Commit, BackfillRaises
  <2> QED BY <2>1, <2>2, <2>3, <2>4, <2>5 DEF InitDb
<1> QED BY <1>1 DEF Ahead

\* What a call of init_db has in front of it is finite, and every step uses
\* some of it up: the next attempt never starts without being counted, no other
\* thread can make it start over, and after _INIT_RETRIES attempts of at most
\* NumObjects + NumColumns + 5 steps it has returned or raised.
THEOREM InitDbRunsOut ==
  StorageSpec =>
    /\ [](\A s \in Starters : tries[s] <= Retries /\ Ahead(s) \in 0..(NumObjects + NumColumns + 4))
    /\ [][\A s \in Starters :
            /\ InitDb(s) => ComesNearer(s)
            /\ pc'[s] = pc[s] \/ InitDb(s) \/ pc[s] = "off" \/ pc'[s] = "off"]_storagevars
    /\ [][\A s \in Starters, t \in Starters :
            s # t /\ InitDb(t) => tries'[s] = tries[s] /\ Ahead(s)' = Ahead(s)]_storagevars
<1>1. IInv => \A s \in Starters : tries[s] <= Retries /\ Ahead(s) \in 0..(NumObjects + NumColumns + 4)
  <2>1. IInv => \A s \in Starters : tries[s] <= Retries
    BY StorageAssumption DEF IInv, StorageTypeOK
  <2> QED BY <2>1, AheadIsBounded
<1>2. IInv /\ [StorageNext]_storagevars =>
        [\A s \in Starters :
            /\ InitDb(s) => ComesNearer(s)
            /\ pc'[s] = pc[s] \/ InitDb(s) \/ pc[s] = "off" \/ pc'[s] = "off"]_storagevars
  <2> SUFFICES ASSUME IInv, StorageNext, NEW s \in Starters
               PROVE  pc'[s] = pc[s] \/ InitDb(s) \/ pc[s] = "off" \/ pc'[s] = "off"
    BY InitDbComesNearer
  <2>1. pc \in [Starters -> Running \cup {"off", "ready", "failed"}]
    BY DEF IInv, StorageTypeOK
  <2>2. CASE \E t \in Starters : Start(t) \/ Save(t) \/ SaveRaises(t)
    BY <2>1, <2>2 DEF Start, Save, SaveRaises, Goto
  <2>3. CASE \E t \in Starters : InitDb(t)
    BY <2>1, <2>3, InitDbCases
  <2>4. CASE \E T \in Processes : Stop(T)
    BY <2>1, <2>4 DEF Stop
  <2> QED BY <2>2, <2>3, <2>4 DEF StorageNext
<1>3. IInv /\ [StorageNext]_storagevars =>
        [\A s \in Starters, t \in Starters :
            s # t /\ InitDb(t) => tries'[s] = tries[s] /\ Ahead(s)' = Ahead(s)]_storagevars
  BY OthersLeaveItThere
<1> QED BY <1>1, <1>2, <1>3, Invariant, PTL DEF StorageSpec

-----------------------------------------------------------------------------
\* The local CA

Working == Files \cup {"generate"}

\* Files appear in the order in which they are written.
FilesInv ==
  /\ dir["key"] = NoPair => dir["cert"] = NoPair /\ dir["combined"] = NoPair
  /\ dir["combined"] # NoPair =>
       /\ dir["key"] \in Pairs /\ dir["cert"] = dir["key"]
       /\ dir["combined"] \in {dir["key"], EmptyFile}

\* One process at a time writes, and it has written what comes before.
WriterInv ==
  /\ \A v, w \in Workers : ca[v] \in Working /\ ca[w] \in Working => v = w
  /\ \A w \in Workers :
       /\ ca[w] \in {"generate", "key"} => dir["key"] = NoPair
       /\ ca[w] = "cert" => dir["key"] = mine[w] /\ dir["combined"] = NoPair
       /\ ca[w] = "combined" =>
            dir["key"] = mine[w] /\ dir["cert"] = mine[w] /\ dir["combined"] = NoPair
       /\ ca[w] \in {"mitmCert", "load"} => dir["combined"] # NoPair

\* A process that writes has a pair to write.
MineInv == \A w \in Workers : ca[w] \in Files => mine[w] \in Pairs

CAInv == CATypeOK /\ MineInv /\ (~spoiled => FilesInv /\ WriterInv)

-----------------------------------------------------------------------------

LEMMA CAInitInv == CAInit => CAInv
BY CAAssumption
   DEF CAInit, CAInv, CATypeOK, MineInv, FilesInv, WriterInv, Files, Working

LEMMA InitCAInv ==
  ASSUME CAInv, NEW w \in Workers, ca[w] = "idle",
         NEW force \in BOOLEAN, NEW start \in BOOLEAN, InitCA(w, force, start)
  PROVE  CAInv'
<1> USE DEF CAInv, InitCA, CAGoto
<1>1. CATypeOK' /\ MineInv'
  <2>1. spoiled' \in BOOLEAN
    BY DEF CATypeOK, Others, KeyExists
  <2> QED BY <2>1 DEF CATypeOK, MineInv, Files
<1>2. ASSUME ~spoiled' PROVE FilesInv' /\ WriterInv'
  <2>1. FilesInv /\ WriterInv /\ FilesInv'
    BY <1>2 DEF FilesInv
  <2>2. CASE KeyExists /\ ~force
    <3>1. ca' = [ca EXCEPT ![w] = "failed"]
      BY <2>2
    <3> QED BY <2>1, <3>1 DEF CATypeOK, WriterInv, Working, Files
  <2>3. CASE ~(KeyExists /\ ~force)
    <3>1. ca' = [ca EXCEPT ![w] = "generate"] /\ ~KeyExists /\ ~Others(w)
      BY <1>2, <2>3
    <3>2. /\ dir["key"] = NoPair
          /\ \A v \in Workers \ {w} : ca[v] \notin Files \cup {"generate", "load"}
      BY <3>1 DEF KeyExists, Others
    <3> QED BY <2>1, <3>1, <3>2 DEF CATypeOK, WriterInv, Working, Files
  <2> QED BY <2>1, <2>2, <2>3
<1> QED BY <1>1, <1>2

LEMMA CommandRotateInv == ASSUME CAInv, NEW w \in Workers, CommandRotate(w) PROVE CAInv'
<1> USE DEF CAInv, CommandRotate, CAGoto
<1>1. CATypeOK' /\ MineInv'
  <2>1. spoiled' \in BOOLEAN
    BY DEF Others
  <2> QED BY <2>1 DEF CATypeOK, MineInv, Files, PutAside
<1>2. ASSUME ~spoiled' PROVE FilesInv' /\ WriterInv'
  BY <1>2 DEF CATypeOK, FilesInv, WriterInv, Others, Working, Files
<1> QED BY <1>1, <1>2

LEMMA GenerateInv == ASSUME CAInv, NEW w \in Workers, Generate(w) PROVE CAInv'
<1> USE DEF CAInv, Generate, CAGoto
<1>1. CATypeOK' /\ MineInv'
  BY DEF CATypeOK, MineInv, Files
<1>2. ASSUME ~spoiled' PROVE FilesInv' /\ WriterInv'
  BY <1>2 DEF CATypeOK, FilesInv, WriterInv, Working, Files
<1> QED BY <1>1, <1>2

LEMMA WriteFileInv == ASSUME CAInv, NEW w \in Workers, WriteFile(w) PROVE CAInv'
<1> USE CAAssumption DEF CAInv, WriteFile, CAGoto
<1>1. /\ ca[w] = "mitmCert" => ca'[w] \in {"load", "done"}
      /\ ca[w] = "key" => ca'[w] = "cert"
      /\ ca[w] = "cert" => ca'[w] = "combined"
      /\ ca[w] = "combined" => ca'[w] = "mitmCert"
      /\ \A v \in Workers \ {w} : ca'[v] = ca[v]
  <2>1. /\ NextFile["key"] = "cert" /\ NextFile["cert"] = "combined"
        /\ NextFile["combined"] = "mitmCert" /\ NextFile["mitmCert"] = "done"
    BY DEF NextFile, Files
  <2> QED BY <2>1 DEF CATypeOK
<1>2. CATypeOK' /\ MineInv'
  BY <1>1 DEF CATypeOK, MineInv, Files
<1>3. ASSUME ~spoiled' PROVE FilesInv' /\ WriterInv'
  <2>1. FilesInv /\ WriterInv /\ mine[w] \in Pairs
    BY <1>3 DEF MineInv
  <2>2. \A v \in Workers \ {w} : ca'[v] = ca[v] /\ ca[v] \notin Working
    BY <2>1, <1>1 DEF WriterInv, Working
  <2>3. /\ dir'[ca[w]] = mine[w]
        /\ \A f \in Files \ {ca[w]} : dir'[f] = dir[f]
    BY DEF CATypeOK
  <2>4. CASE ca[w] = "key"
    BY <2>1, <2>2, <2>3, <2>4, <1>1 DEF FilesInv, WriterInv, Working, Files
  <2>5. CASE ca[w] = "cert"
    BY <2>1, <2>2, <2>3, <2>5, <1>1 DEF FilesInv, WriterInv, Working, Files
  <2>6. CASE ca[w] = "combined"
    BY <2>1, <2>2, <2>3, <2>6, <1>1 DEF FilesInv, WriterInv, Working, Files
  <2>7. CASE ca[w] = "mitmCert"
    BY <2>1, <2>2, <2>3, <2>7, <1>1 DEF FilesInv, WriterInv, Working, Files
  <2> QED BY <2>4, <2>5, <2>6, <2>7 DEF Files
<1> QED BY <1>2, <1>3

LEMMA EnsureCAInv == ASSUME CAInv, NEW w \in Workers, EnsureCA(w) PROVE CAInv'
<1>1. CASE dir["combined"] = NoPair
  BY <1>1, InitCAInv DEF EnsureCA
<1>2. CASE dir["combined"] # NoPair
  <2>1. ca' = [ca EXCEPT ![w] = "load"] /\ starting' = [starting EXCEPT ![w] = TRUE]
        /\ UNCHANGED <<dir, kept, made, spoiled, mine, used>>
    BY <1>2 DEF EnsureCA, CAGoto
  <2>2. CATypeOK' /\ MineInv'
    BY <2>1 DEF CAInv, CATypeOK, MineInv, Files
  <2>3. ASSUME ~spoiled' PROVE FilesInv' /\ WriterInv'
    BY <1>2, <2>1, <2>3 DEF CAInv, CATypeOK, FilesInv, WriterInv, Working, Files
  <2> QED BY <2>2, <2>3 DEF CAInv
<1> QED BY <1>1, <1>2

LEMMA LoadCAInv == ASSUME CAInv, NEW w \in Workers, LoadCA(w) PROVE CAInv'
BY DEF CAInv, LoadCA, CAGoto, CATypeOK, MineInv, FilesInv, WriterInv, Working, Files

LEMMA MitmproxyMakesCAInv ==
  ASSUME CAInv, NEW w \in Workers, MitmproxyMakesCA(w) PROVE CAInv'
BY DEF CAInv, MitmproxyMakesCA, CAGoto, CATypeOK, MineInv, FilesInv, WriterInv, Working, Files

LEMMA EndCAInv == ASSUME CAInv, NEW w \in Workers, EndCA(w) PROVE CAInv'
<1> USE CAAssumption DEF CAInv, EndCA, CAGoto
<1>1. CATypeOK' /\ MineInv'
  BY DEF CATypeOK, MineInv, Files
<1>2. ASSUME ~spoiled' PROVE FilesInv' /\ WriterInv'
  BY <1>2 DEF CATypeOK, MineInv, FilesInv, WriterInv, Working, Files
<1> QED BY <1>1, <1>2

LEMMA CAStutterInv == ASSUME CAInv, UNCHANGED cavars PROVE CAInv'
BY DEF CAInv, CATypeOK, MineInv, FilesInv, WriterInv, cavars, Working

LEMMA CANextInv == ASSUME CAInv, [CANext]_cavars PROVE CAInv'
<1>1. ASSUME NEW w \in Workers, Command(w) PROVE CAInv'
  BY <1>1, InitCAInv, CommandRotateInv DEF Command, CommandInit
<1>2. ASSUME NEW w \in Workers, Proceed(w) PROVE CAInv'
  BY <1>2, GenerateInv, WriteFileInv, LoadCAInv, MitmproxyMakesCAInv DEF Proceed
<1> QED BY <1>1, <1>2, EnsureCAInv, EndCAInv, CAStutterInv DEF CANext

\* The inductive invariant of the CA: as long as nobody writes over the files
\* of another, one process writes at a time, and they appear in their order.
THEOREM CAInvariant == CASpec => []CAInv
BY CAInitInv, CANextInv, PTL DEF CASpec

\* Every variable of the CA keeps its type.
THEOREM CATypeCorrect == CASpec => []CATypeOK
<1>1. CAInv => CATypeOK  BY DEF CAInv
<1> QED BY <1>1, CAInvariant, PTL

\* Wherever the process that made the CA ended, the file a start looks for is
\* there only with the key and the certificate of its pair.
THEOREM FilesMatch == CASpec => []PairsMatch
<1>1. CAInv => PairsMatch  BY DEF CAInv, FilesInv, PairsMatch
<1> QED BY <1>1, CAInvariant, PTL

\* A private key that leaves the directory is put aside, unless it was written
\* over by force or by two commands at a time.
THEOREM NoKeyIsLost == CASpec => KeysAreKept
<1>1. ASSUME CAInv, [CANext]_cavars
      PROVE  dir["key"] \in Pairs /\ dir'["key"] # dir["key"] => dir["key"] \in kept' \/ spoiled'
  <2> SUFFICES ASSUME dir["key"] \in Pairs, dir'["key"] # dir["key"], ~spoiled'
               PROVE  dir["key"] \in kept'
    OBVIOUS
  <2> USE CAAssumption
  <2>1. ASSUME NEW w \in Workers, CommandRotate(w) PROVE dir["key"] \in kept'
    BY <2>1 DEF CommandRotate, PutAside
  <2>2. ASSUME NEW w \in Workers, WriteFile(w) \/ EndCA(w) PROVE FALSE
    BY <1>1, <2>2 DEF WriteFile, EndCA, CAInv, CATypeOK, WriterInv, Files
  <2>3. ASSUME NEW w \in Workers, MitmproxyMakesCA(w) PROVE FALSE
    BY <1>1, <2>3 DEF MitmproxyMakesCA, CAInv, CATypeOK, Files
  <2>4. ASSUME NEW w \in Workers, CommandInit(w) \/ EnsureCA(w) \/ Generate(w) \/ LoadCA(w)
        PROVE  FALSE
    BY <2>4 DEF CommandInit, EnsureCA, InitCA, Generate, LoadCA
  <2> QED BY <1>1, <2>1, <2>2, <2>3, <2>4 DEF CANext, Command, Proceed, cavars
<1> QED BY <1>1, CAInvariant, PTL DEF CASpec, KeysAreKept

-----------------------------------------------------------------------------
\* The composition

LEMMA EndIsStop == EndProcess => \E T \in Processes : Stop(T)
BY StartupAssumption DEF EndProcess, EndingThreads, Process

LEMMA EndIsEndCA == EndProcess => CANext
BY StartupAssumption DEF EndProcess, CANext

\* A step of the composition is a step of init_db or leaves the database alone.
LEMMA StepsOfStorage == [StartupNext]_startvars => [StorageNext]_storagevars
<1> SUFFICES ASSUME [StartupNext]_startvars PROVE [StorageNext]_storagevars  OBVIOUS
<1> USE StartupAssumption
<1>1. CASE Launch \/ LaunchWeb \/ InInitDb(Main) \/ InInitDb(Web) \/ Capture
  BY <1>1 DEF Launch, LaunchWeb, InInitDb, Capture, StorageNext
<1>2. CASE \/ OpenSession \/ SessionStaysBusy \/ MakeSureOfCA \/ GoOnWithCA \/ Listen \/ RunFails
           \/ \E w \in Workers : CommandStep(w)
  BY <1>2 DEF OpenSession, SessionStaysBusy, MakeSureOfCA, GoOnWithCA, Listen, RunFails, CommandStep
<1>3. CASE Exit \/ Kill
  BY <1>3, EndIsStop DEF Exit, Kill, StorageNext
<1>4. CASE UNCHANGED startvars
  BY <1>4 DEF startvars
<1> QED BY <1>1, <1>2, <1>3, <1>4 DEF StartupNext

\* A step of the composition is a step of the CA or leaves it alone.
LEMMA StepsOfCA == [StartupNext]_startvars => [CANext]_cavars
<1> SUFFICES ASSUME [StartupNext]_startvars PROVE [CANext]_cavars  OBVIOUS
<1> USE StartupAssumption
<1>1. CASE \/ Launch \/ LaunchWeb \/ InInitDb(Main) \/ InInitDb(Web) \/ Capture
           \/ OpenSession \/ SessionStaysBusy \/ Listen \/ RunFails
  BY <1>1 DEF Launch, LaunchWeb, InInitDb, Capture, OpenSession, SessionStaysBusy, Listen, RunFails
<1>2. CASE MakeSureOfCA \/ GoOnWithCA \/ \E w \in Workers : CommandStep(w)
  BY <1>2 DEF MakeSureOfCA, GoOnWithCA, CommandStep, CANext
<1>3. CASE Exit \/ Kill
  BY <1>3, EndIsEndCA DEF Exit, Kill
<1>4. CASE UNCHANGED startvars
  BY <1>4 DEF startvars
<1> QED BY <1>1, <1>2, <1>3, <1>4 DEF StartupNext

\* `imr-proxy start` sets its database up as StorageInit says.
THEOREM StartupImplementsStorage == StartupSpec => StorageSpec
<1>1. StartupInit => StorageInit  BY DEF StartupInit
<1> QED BY <1>1, StepsOfStorage, PTL DEF StartupSpec, StorageSpec

\* Main and web, each in init_db, keep its promise to each other.
THEOREM StartupImplementsBootstrap == StartupSpec => ImplementsBootstrap
BY StartupImplementsStorage, InitDbImplementsBootstrap, PTL

\* A start and the `ca` commands next to it work on the CA as LocalCA says.
THEOREM StartupImplementsCA == StartupSpec => CASpec
<1>1. StartupInit => CAInit  BY DEF StartupInit
<1> QED BY <1>1, StepsOfCA, PTL DEF StartupSpec, CASpec

\* With or without a start, the files of the CA match.
THEOREM StartupFilesMatch == StartupSpec => []PairsMatch
BY StartupImplementsCA, FilesMatch, PTL

\* With or without a start, no private key is lost.
THEOREM StartupLosesNoKey == StartupSpec => KeysAreKept
BY StartupImplementsCA, NoKeyIsLost, PTL

-----------------------------------------------------------------------------

\* What main has behind it: init_db has returned before the CA is made sure of,
\* and a start that is done with the CA has a pair to sign with.
MainInv ==
  /\ stage \in {"ca", "listening"} => pc[Main] = "ready"
  /\ ca[Main] # "idle" => starting[Main]
  /\ ca[Main] = "done" => used[Main] \in Pairs
  /\ stage = "listening" /\ intercepts => ca[Main] = "done"

LEMMA MainInitInv == StartupInit => MainInv
BY StartupAssumption DEF StartupInit, CAInit, MainInv

LEMMA MainNextInv ==
  ASSUME MainInv, IInv, CAInv, [StartupNext]_startvars PROVE MainInv'
<1> USE StartupAssumption
<1>1. CASE Launch \/ LaunchWeb
  BY <1>1 DEF Launch, LaunchWeb, Start, Goto, MainInv, IInv, StorageTypeOK, cavars
<1>2. CASE InInitDb(Main) \/ InInitDb(Web)
  BY <1>2, InitDbCases DEF InInitDb, MainInv, Running, cavars
<1>3. CASE OpenSession \/ SessionStaysBusy \/ Listen \/ RunFails
  BY <1>3 DEF OpenSession, SessionStaysBusy, Listen, RunFails, MainInv, storagevars, cavars
<1>4. CASE Capture
  BY <1>4 DEF Capture, Save, SaveRaises, MainInv, cavars
<1>5. CASE MakeSureOfCA
  BY <1>5 DEF MakeSureOfCA, EnsureCA, InitCA, CAGoto, MainInv, CAInv, CATypeOK, storagevars
<1>6. CASE GoOnWithCA
  <2>1. CASE Generate(Main) \/ WriteFile(Main)
    BY <1>6, <2>1 DEF GoOnWithCA, Generate, WriteFile, NextFile, CAGoto, MainInv, CAInv, CATypeOK,
       Files, storagevars
  <2>2. CASE LoadCA(Main) \/ MitmproxyMakesCA(Main)
    BY <1>6, <2>2 DEF GoOnWithCA, LoadCA, MitmproxyMakesCA, CAGoto, MainInv, CAInv, CATypeOK, storagevars
  <2> QED BY <1>6, <2>1, <2>2 DEF GoOnWithCA, Proceed
<1>7. CASE Exit \/ Kill
  BY <1>7 DEF Exit, Kill, EndProcess, EndCA, CAGoto, MainInv, CAInv, CATypeOK
<1>8. ASSUME NEW w \in Workers, CommandStep(w) PROVE MainInv'
  <2>1. UNCHANGED <<ca[Main], starting[Main], used[Main], pc, stage, intercepts>>
    BY <1>8 DEF CommandStep, Command, Proceed, CommandInit, CommandRotate, InitCA, Generate, WriteFile,
       LoadCA, MitmproxyMakesCA, EndCA, CAGoto, CAInv, CATypeOK, storagevars
  <2> QED BY <2>1 DEF MainInv
<1>9. CASE UNCHANGED startvars
  BY <1>9 DEF startvars, storagevars, cavars, MainInv
<1> QED BY <1>1, <1>2, <1>3, <1>4, <1>5, <1>6, <1>7, <1>8, <1>9 DEF StartupNext

\* A proxy that listens stands on a complete database and, if it intercepts,
\* signs with a pair that no command has cut short.
THEOREM ListeningIsReady == StartupSpec => []ListensReady
<1>1. StartupSpec => []IInv
  BY StartupImplementsStorage, Invariant, PTL
<1>2. StartupSpec => []CAInv
  BY StartupImplementsCA, CAInvariant, PTL
<1>3. StartupSpec => []MainInv
  BY <1>1, <1>2, MainInitInv, MainNextInv, PTL DEF StartupSpec
<1>4. MainInv /\ IInv => ListensReady
  BY StartupAssumption DEF MainInv, IInv, ProgressInv, AdminInv, ListensReady
<1> QED BY <1>1, <1>3, <1>4, PTL

-----------------------------------------------------------------------------

\* Only the end of the process gets main out of a failure.
LEMMA FailureStays ==
  ASSUME IInv, CAInv, MainFails, [StartupNext]_startvars, ~EndProcess PROVE MainFails'
<1> USE StartupAssumption DEF MainFails, IInv, StorageTypeOK
<1>1. CASE Launch \/ LaunchWeb
  BY <1>1 DEF Launch, LaunchWeb, Start, Goto, cavars
<1>2. CASE InInitDb(Main)
  BY <1>2, InitDbCases DEF InInitDb, Running, cavars
<1>3. CASE InInitDb(Web)
  BY <1>3, InitDbCases DEF InInitDb, cavars
<1>4. CASE OpenSession \/ SessionStaysBusy \/ Listen \/ RunFails
  BY <1>4 DEF OpenSession, SessionStaysBusy, Listen, RunFails, storagevars, cavars
<1>5. CASE Capture
  BY <1>5 DEF Capture, Save, SaveRaises, cavars
<1>6. CASE MakeSureOfCA \/ GoOnWithCA
  BY <1>6 DEF MakeSureOfCA, EnsureCA, GoOnWithCA, Proceed, Generate, WriteFile, LoadCA,
     MitmproxyMakesCA, Files, storagevars
<1>7. ASSUME NEW w \in Workers, CommandStep(w) PROVE MainFails'
  <2>1. UNCHANGED <<ca[Main], pc, stage>>
    BY <1>7 DEF CommandStep, Command, Proceed, CommandInit, CommandRotate, InitCA, Generate, WriteFile,
       LoadCA, MitmproxyMakesCA, EndCA, CAGoto, CAInv, CATypeOK, storagevars
  <2> QED BY <2>1
<1>8. CASE UNCHANGED startvars
  BY <1>8 DEF startvars, storagevars, cavars
<1> QED BY <1>1, <1>2, <1>3, <1>4, <1>5, <1>6, <1>7, <1>8 DEF StartupNext, Exit, Kill

\* A start that has failed leaves its failure only by ending, and takes the web
\* thread with it, so that no console is left behind: of ConsoleFollowsProxy,
\* only that the process does end is left to fairness.
THEOREM FailureEndsConsole ==
  StartupSpec => [][MainFails /\ ~MainFails' => pc'[Web] = "off"]_startvars
<1>1. EndProcess => pc'[Web] = "off"
  BY StartupAssumption DEF EndProcess, EndingThreads, Process, Stop
<1>2. ASSUME IInv, CAInv, [StartupNext]_startvars
      PROVE  [MainFails /\ ~MainFails' => pc'[Web] = "off"]_startvars
  BY <1>1, <1>2, FailureStays
<1>3. StartupSpec => []IInv
  BY StartupImplementsStorage, Invariant, PTL
<1>4. StartupSpec => []CAInv
  BY StartupImplementsCA, CAInvariant, PTL
<1> QED BY <1>2, <1>3, <1>4, PTL DEF StartupSpec
=============================================================================
