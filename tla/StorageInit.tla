---------------------------- MODULE StorageInit ----------------------------
(***************************************************************************)
(* init_db: the creation and the migration of the database, called by the  *)
(* web thread and the main thread of `imr-proxy start` and by every other  *)
(* command, each with a connection of its own.                             *)
(*                                                                         *)
(* The statements of schema.sql and the ALTERs of _ensure_flow_columns     *)
(* commit one by one.  The first UPDATE after them opens a transaction and *)
(* takes the write lock until the commit at the end: all that happens in   *)
(* between is one step here.                                               *)
(***************************************************************************)
EXTENDS Naturals

CONSTANTS
  Starters,   \* the threads that call init_db
  Processes,  \* the sets of threads that live and die together
  Savers,     \* those of them that then save flows: the proxies
  NoStarter,
  NumObjects, \* bound: the statements of schema.sql; the first makes `flows`
  NumColumns, \* bound: the columns that an old table `flows` lacks
  Retries,    \* bound: _INIT_RETRIES
  Flows       \* the flows that are ever stored

ASSUME StorageAssumption ==
  /\ Processes \subseteq SUBSET Starters
  /\ Savers \subseteq Starters
  /\ NoStarter \notin Starters
  /\ NumObjects \in Nat \ {0} /\ NumColumns \in Nat \ {0} /\ Retries \in Nat \ {0}

Objects == 1..NumObjects
Columns == 1..NumColumns
FlowsTable == 1

VARIABLES
  objects,  \* what schema.sql has made
  columns,  \* the columns of the table `flows` that the old one lacks
  rows,     \* rows[f]: the new columns of a row may be empty, though its record
            \* says what belongs there ("bare"), cannot be read ("unreadable"),
            \* or is JSON but no object ("malformed")
  admin,    \* some user exists
  lock,     \* who holds the write lock
  pc,       \* pc[s]: what s does next
  at,       \* at[s]: the statement of schema.sql that is next
  seen,     \* seen[s]: the columns s knows the table to have
  tries     \* tries[s]: the attempts of init_db that have stayed busy

dbvars == <<objects, columns, rows, admin>>
storagevars == <<objects, columns, rows, admin, lock, pc, at, seen, tries>>

Running == {"script", "inspect", "alter", "update", "commit"}

\* Every variable has its type.
StorageTypeOK ==
  /\ objects \subseteq Objects /\ columns \subseteq Columns
  /\ rows \in [Flows -> {"none", "bare", "unreadable", "malformed", "filled"}]
  /\ admin \in BOOLEAN
  /\ lock \in Starters \cup {NoStarter}
  /\ pc \in [Starters -> Running \cup {"off", "ready", "failed"}]
  /\ at \in [Starters -> Objects]
  /\ seen \in [Starters -> SUBSET Columns]
  /\ tries \in [Starters -> 0..Retries]

\* A new database, or one that an earlier build has left.
StorageInit ==
  /\ columns = {} /\ admin = FALSE
  /\ \/ objects = {} /\ rows = [f \in Flows |-> "none"]
     \/ objects = {FlowsTable} /\ rows \in [Flows -> {"none", "bare", "unreadable", "malformed"}]
  /\ lock = NoStarter
  /\ pc = [s \in Starters |-> "off"]
  /\ at = [s \in Starters |-> 1]
  /\ seen = [s \in Starters |-> {}]
  /\ tries = [s \in Starters |-> 0]

-----------------------------------------------------------------------------
\* The lock is there for s, or somebody else holds it.
Unlocked(s) == lock \in {NoStarter, s}

Goto(s, next) == pc' = [pc EXCEPT ![s] = next]

\* Start of an attempt.
FromTheTop(s) == at' = [at EXCEPT ![s] = 1] /\ seen' = [seen EXCEPT ![s] = {}]

Start(s) ==
  /\ pc[s] = "off"
  /\ Goto(s, "script")
  /\ UNCHANGED <<dbvars, lock, at, seen, tries>>

\* It raises the last error.
GivesUp(s) == Goto(s, "failed")

\* Wrong on purpose: the attempts are not counted.
Uncounted(s) == Goto(s, "script") /\ FromTheTop(s) /\ UNCHANGED tries

\* The attempt is over; there may be another one.
TryAgain(s) ==
  /\ tries' = [tries EXCEPT ![s] = @ + 1]
  /\ IF tries[s] + 1 < Retries
       THEN Goto(s, "script") /\ FromTheTop(s)
       ELSE GivesUp(s) /\ UNCHANGED <<at, seen>>

\* A statement finds the lock taken until its busy timeout is over.
StaysBusy(s) ==
  /\ pc[s] \in {"script", "alter", "update"}
  /\ ~Unlocked(s)
  /\ TryAgain(s)
  /\ UNCHANGED <<dbvars, lock>>

\* One statement of schema.sql, CREATE ... IF NOT EXISTS or INSERT OR IGNORE.
Statement(s) ==
  /\ pc[s] = "script" /\ Unlocked(s)
  /\ objects' = objects \cup {at[s]}
  /\ columns' = IF at[s] = FlowsTable /\ FlowsTable \notin objects THEN Columns ELSE columns
  /\ IF at[s] = NumObjects
       THEN Goto(s, "inspect") /\ UNCHANGED at
       ELSE at' = [at EXCEPT ![s] = @ + 1] /\ UNCHANGED pc
  /\ UNCHANGED <<rows, admin, lock, seen, tries>>

\* Wrong on purpose: a table without a missing column has been migrated.
SkipIfCurrent(s) == Goto(s, IF columns = Columns THEN "ready" ELSE "alter")

ThenAlter(s) == Goto(s, "alter")

\* PRAGMA table_info(flows)
Inspect(s) ==
  /\ pc[s] = "inspect"
  /\ seen' = [seen EXCEPT ![s] = columns]
  /\ ThenAlter(s)
  /\ UNCHANGED <<dbvars, lock, at, tries>>

\* The first of `additions` that s has not seen.
NextAddition(s, c) == c \in Columns \ seen[s] /\ \A d \in Columns \ seen[s] : c <= d

AddColumn(s) ==
  /\ pc[s] = "alter" /\ Unlocked(s)
  /\ \E c \in Columns :
       /\ NextAddition(s, c) /\ c \notin columns
       /\ columns' = columns \cup {c}
       /\ seen' = [seen EXCEPT ![s] = @ \cup {c}]
  /\ UNCHANGED <<objects, rows, admin, lock, pc, at, tries>>

\* Another starter has added the column since s looked: "duplicate column
\* name" is no busy error, and init_db raises it.
DuplicateColumn(s) ==
  /\ pc[s] = "alter" /\ Unlocked(s)
  /\ \E c \in Columns : NextAddition(s, c) /\ c \in columns
  /\ Goto(s, "failed")
  /\ UNCHANGED <<dbvars, lock, at, seen, tries>>

Altered(s) ==
  /\ pc[s] = "alter" /\ seen[s] = Columns
  /\ Goto(s, "update")
  /\ UNCHANGED <<dbvars, lock, at, seen, tries>>

\* The first UPDATE takes the write lock.
Update(s) ==
  /\ pc[s] = "update" /\ Unlocked(s)
  /\ lock' = s
  /\ Goto(s, "commit")
  /\ UNCHANGED <<dbvars, at, seen, tries>>

\* Wrong on purpose: the first record that cannot be read ends the loop.
BackfilledUntilBad ==
  IF \E f \in Flows : rows[f] = "unreadable" THEN rows
  ELSE [f \in Flows |-> IF rows[f] = "bare" THEN "filled" ELSE rows[f]]

\* The empty columns of every row whose record can be read.
Backfilled == [f \in Flows |-> IF rows[f] = "bare" THEN "filled" ELSE rows[f]]

\* The backfill calls `get` on every record it can read, and only objects have it.
CanBackfill == \A f \in Flows : rows[f] # "malformed"

\* The backfill, the indexes, the row of the revision, the default
\* administrator, and the commit.
Commit(s) ==
  /\ pc[s] = "commit" /\ CanBackfill
  /\ rows' = Backfilled
  /\ admin' = TRUE
  /\ lock' = NoStarter
  /\ Goto(s, "ready")
  /\ UNCHANGED <<objects, columns, at, seen, tries>>

\* AttributeError is not among what the backfill skips, nor does init_db try
\* again: it raises, and its connection goes with the transaction.
BackfillRaises(s) ==
  /\ pc[s] = "commit" /\ ~CanBackfill
  /\ lock' = NoStarter
  /\ Goto(s, "failed")
  /\ UNCHANGED <<dbvars, at, seen, tries>>

InitDb(s) ==
  \/ StaysBusy(s) \/ Statement(s) \/ Inspect(s) \/ AddColumn(s) \/ DuplicateColumn(s)
  \/ Altered(s) \/ Update(s) \/ Commit(s) \/ BackfillRaises(s)

-----------------------------------------------------------------------------
\* A running proxy stores a flow, with all its columns (FlowStore).
Save(s) ==
  /\ s \in Savers /\ pc[s] = "ready" /\ Unlocked(s)
  /\ \E f \in Flows : rows' = [rows EXCEPT ![f] = "filled"]
  /\ lock' = NoStarter
  /\ UNCHANGED <<objects, columns, admin, pc, at, seen, tries>>

\* A save that raises half-way leaves its transaction open (FlowStore).
SaveRaises(s) ==
  /\ s \in Savers /\ pc[s] = "ready" /\ Unlocked(s)
  /\ lock' = s
  /\ UNCHANGED <<dbvars, pc, at, seen, tries>>

\* The process of the threads T ends; an open transaction is rolled back.
Stop(T) ==
  /\ pc' = [s \in Starters |-> IF s \in T THEN "off" ELSE pc[s]]
  /\ lock' = IF lock \in T THEN NoStarter ELSE lock
  /\ at' = [s \in Starters |-> IF s \in T THEN 1 ELSE at[s]]
  /\ seen' = [s \in Starters |-> IF s \in T THEN {} ELSE seen[s]]
  /\ tries' = [s \in Starters |-> IF s \in T THEN 0 ELSE tries[s]]
  /\ UNCHANGED dbvars

StorageNext ==
  \/ \E s \in Starters : Start(s) \/ InitDb(s) \/ Save(s) \/ SaveRaises(s)
  \/ \E T \in Processes : Stop(T)

StorageSpec == StorageInit /\ [][StorageNext]_storagevars

\* init_db runs on until it returns or raises; nobody has to start anything.
FairStorage == StorageSpec /\ \A s \in Starters : WF_storagevars(InitDb(s))

-----------------------------------------------------------------------------
\* Correctness

\* All that this version needs: no row lacks what its record says.
Complete ==
  /\ objects = Objects /\ columns = Columns /\ admin
  /\ \A f \in Flows : rows[f] # "bare"

\* A start that has returned stands on a complete database, whatever crashed,
\* stayed busy or raced with it: a migration that ended between its columns,
\* or between them and the values of the old rows, is finished by the next.
ReadyOnComplete == (\E s \in Starters : pc[s] = "ready") => Complete

\* init_db does what Bootstrap promises.
Phase(s) ==
  CASE pc[s] \in Running -> "starting"
    [] OTHER -> pc[s]

Promise == INSTANCE Bootstrap
  WITH complete <- Complete, phase <- [s \in Starters |-> Phase(s)]

ImplementsBootstrap == Promise!Spec

\* init_db comes to an end, also when a proxy keeps the lock for ever.
EveryStartEnds == \A s \in Starters : pc[s] \in Running ~> pc[s] \notin Running

\* A start fails only on a database that stays busy: what the retries of
\* init_db are there for (CHANGELOG, 0.1.8).
FailsOnlyWhenBusy == \A s \in Starters : pc[s] = "failed" => tries[s] = Retries
=============================================================================
