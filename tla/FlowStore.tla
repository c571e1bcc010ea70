----------------------------- MODULE FlowStore -----------------------------
(***************************************************************************)
(* FlowRepository.save, statement by statement, on the SQLite connections  *)
(* of the processes that record traffic into one database file.            *)
(*                                                                         *)
(* A connection opens its transaction with the first INSERT, which takes   *)
(* SQLite's single write lock; the statements that follow see and change   *)
(* the uncommitted image `work`; the commit installs it in `db`, where     *)
(* every other connection reads.  save has no exception handler: when a    *)
(* statement fails the exception leaves save, and unless SQLite itself     *)
(* rolled back, the transaction stays open, lock included, until the next  *)
(* save on that connection goes on in it.                                  *)
(***************************************************************************)
EXTENDS Naturals

CONSTANTS
  Writers,     \* the recording processes, each with one connection
  Flows,       \* flow ids
  Records,     \* the contents a flow is saved with
  Findings,    \* finding rows
  FindingsOf,  \* FindingsOf[r]: the findings inside record r
  NoRow,       \* the row of a flow never saved
  Nobody,      \* the write lock is free
  Outside,     \* a connection of the web UI or of init_db holds it
  MaxRevision  \* bound: no save starts from this revision on

ASSUME StoreAssumption ==
  /\ FindingsOf \in [Records -> SUBSET Findings]
  /\ NoRow \notin Records
  /\ {Nobody, Outside} \cap Writers = {}
  /\ Nobody # Outside
  /\ MaxRevision \in Nat

VARIABLES
  db,        \* the committed image
  work,      \* what the open write transaction sees; db when none is open
  lock,      \* who holds SQLite's write lock
  pc,        \* the statement each connection executes next
  flow,      \* flow[w]: the id of the flow being saved
  todo,      \* todo[w]: its findings still to insert
  rev,       \* rev[w]: save's local `revision`
  outcome,   \* outcome[w]: how the last save of w ended
  announced, \* announced[w]: the last revision published on w's bus
  newest     \* history: the last revision w committed since it started

vars == <<db, work, lock, pc, flow, todo, rev, outcome, announced, newest>>

-----------------------------------------------------------------------------

\* An image of the tables.  `torn` is history: the flows whose last save in
\* this image began and did not reach its commit.
Images ==
  [rows : [Flows -> Records \cup {NoRow}], findings : [Flows -> SUBSET Findings],
   revision : Nat, torn : SUBSET Flows]

Empty ==
  [rows |-> [f \in Flows |-> NoRow], findings |-> [f \in Flows |-> {}],
   revision |-> 0, torn |-> {}]

\* The statements that run inside the transaction, after the first.
InTransaction == {"bump", "clear", "fill"}

\* Every variable has its type.
TypeOK ==
  /\ db \in Images /\ work \in Images
  /\ lock \in Writers \cup {Nobody, Outside}
  /\ pc \in [Writers -> {"idle", "publish"} \cup InTransaction]
  /\ flow \in [Writers -> Flows]
  /\ todo \in [Writers -> SUBSET Findings]
  /\ rev \in [Writers -> Nat]
  /\ outcome \in [Writers -> {"none", "saved", "failed"}]
  /\ announced \in [Writers -> Nat]
  /\ newest \in [Writers -> Nat]

Init ==
  /\ db = Empty /\ work = Empty
  /\ lock = Nobody
  /\ pc = [w \in Writers |-> "idle"]
  /\ flow \in [Writers -> Flows]
  /\ todo = [w \in Writers |-> {}]
  /\ rev = [w \in Writers |-> 0]
  /\ outcome = [w \in Writers |-> "none"]
  /\ announced = [w \in Writers |-> 0]
  /\ newest = [w \in Writers |-> 0]

-----------------------------------------------------------------------------

\* INSERT OR REPLACE INTO flows: it begins the transaction and takes the
\* lock, or goes on in the transaction a failed save left open.
InsertFlow(w) ==
  /\ pc[w] = "idle"
  /\ lock \in {Nobody, w}
  /\ work.revision < MaxRevision
  /\ \E f \in Flows, r \in Records :
       /\ work' = [work EXCEPT !.rows[f] = r, !.torn = @ \cup {f}]
       /\ flow' = [flow EXCEPT ![w] = f]
       /\ todo' = [todo EXCEPT ![w] = FindingsOf[r]]
  /\ lock' = w
  /\ pc' = [pc EXCEPT ![w] = "bump"]
  /\ UNCHANGED <<db, rev, outcome, announced, newest>>

\* The lock stays with someone else for the whole busy timeout: the INSERT
\* raises "database is locked" and the record is not stored.
Busy(w) ==
  /\ pc[w] = "idle"
  /\ lock \notin {Nobody, w}
  /\ outcome' = [outcome EXCEPT ![w] = "failed"]
  /\ UNCHANGED <<db, work, lock, pc, flow, todo, rev, announced, newest>>

\* Wrong on purpose: an UPDATE that leaves the revision as it was.
NotBumped(image) == image

\* The UPDATE of traffic_revision.
Bumped(image) == [image EXCEPT !.revision = @ + 1]

\* The UPDATE, then the SELECT of self.revision() in the same transaction.
Bump(w) ==
  /\ pc[w] = "bump"
  /\ work' = Bumped(work)
  /\ rev' = [rev EXCEPT ![w] = Bumped(work).revision]
  /\ pc' = [pc EXCEPT ![w] = "clear"]
  /\ UNCHANGED <<db, lock, flow, todo, outcome, announced, newest>>

\* Wrong on purpose: no DELETE, the findings of the replaced row stay.
NotCleared(image, f) == image

\* DELETE FROM findings WHERE flow_id=?  (findings has no foreign key to
\* flows, so the REPLACE of the row has not removed them.)
Cleared(image, f) == [image EXCEPT !.findings[f] = {}]

ClearFindings(w) ==
  /\ pc[w] = "clear"
  /\ work' = Cleared(work, flow[w])
  /\ pc' = [pc EXCEPT ![w] = "fill"]
  /\ UNCHANGED <<db, lock, flow, todo, rev, outcome, announced, newest>>

\* One turn of the loop over flow.findings.
InsertFinding(w) ==
  /\ pc[w] = "fill"
  /\ \E x \in todo[w] :
       /\ work' = [work EXCEPT !.findings[flow[w]] = @ \cup {x}]
       /\ todo' = [todo EXCEPT ![w] = @ \ {x}]
  /\ UNCHANGED <<db, lock, pc, flow, rev, outcome, announced, newest>>

\* Wrong on purpose: save goes on to publish and has not committed.
SkipCommit(w) ==
  /\ pc[w] = "fill" /\ todo[w] = {}
  /\ newest' = [newest EXCEPT ![w] = rev[w]]
  /\ pc' = [pc EXCEPT ![w] = "publish"]
  /\ UNCHANGED <<db, work, lock, flow, todo, rev, outcome, announced>>

\* conn.commit(): the image becomes the database, the lock is released.
Commit(w) ==
  /\ pc[w] = "fill" /\ todo[w] = {}
  /\ db' = [work EXCEPT !.torn = @ \ {flow[w]}]
  /\ work' = [work EXCEPT !.torn = @ \ {flow[w]}]
  /\ lock' = Nobody
  /\ newest' = [newest EXCEPT ![w] = rev[w]]
  /\ pc' = [pc EXCEPT ![w] = "publish"]
  /\ UNCHANGED <<flow, todo, rev, outcome, announced>>

\* Wrong on purpose: save returns without telling the bus.
SkipPublish(w) ==
  /\ pc[w] = "publish"
  /\ outcome' = [outcome EXCEPT ![w] = "saved"]
  /\ pc' = [pc EXCEPT ![w] = "idle"]
  /\ UNCHANGED <<db, work, lock, flow, todo, rev, announced, newest>>

\* Wrong on purpose: the bus is told what the database says by now, not the
\* revision of this commit.
PublishReread(w) ==
  /\ pc[w] = "publish"
  /\ announced' = [announced EXCEPT ![w] = db.revision]
  /\ outcome' = [outcome EXCEPT ![w] = "saved"]
  /\ pc' = [pc EXCEPT ![w] = "idle"]
  /\ UNCHANGED <<db, work, lock, flow, todo, rev, newest>>

\* traffic_events.publish(revision), and save returns.
Publish(w) ==
  /\ pc[w] = "publish"
  /\ announced' = [announced EXCEPT ![w] = rev[w]]
  /\ outcome' = [outcome EXCEPT ![w] = "saved"]
  /\ pc' = [pc EXCEPT ![w] = "idle"]
  /\ UNCHANGED <<db, work, lock, flow, todo, rev, newest>>

-----------------------------------------------------------------------------

\* A statement after the INSERT, or the commit, raises.  The exception
\* leaves save with the transaction still open...
StatementFails(w) ==
  /\ pc[w] \in InTransaction
  /\ pc' = [pc EXCEPT ![w] = "idle"]
  /\ outcome' = [outcome EXCEPT ![w] = "failed"]
  /\ UNCHANGED <<db, work, lock, flow, todo, rev, announced, newest>>

\* ...or SQLite has rolled it back by itself (disk full, I/O error).
RolledBack(w) ==
  /\ pc[w] \in InTransaction
  /\ work' = db
  /\ lock' = Nobody
  /\ pc' = [pc EXCEPT ![w] = "idle"]
  /\ outcome' = [outcome EXCEPT ![w] = "failed"]
  /\ UNCHANGED <<db, flow, todo, rev, announced, newest>>

\* The process of w ends, at any statement, and starts again: an open
\* transaction is lost, so is the bus with whatever it had to announce.
Crash(w) ==
  /\ IF lock = w THEN lock' = Nobody /\ work' = db ELSE UNCHANGED <<lock, work>>
  /\ pc' = [pc EXCEPT ![w] = "idle"]
  /\ outcome' = [outcome EXCEPT ![w] = "none"]
  /\ announced' = [announced EXCEPT ![w] = 0]
  /\ newest' = [newest EXCEPT ![w] = 0]
  /\ UNCHANGED <<db, flow, todo, rev>>

\* Logins, user changes and init_db write other tables under the same lock.
OutsideBegins ==
  /\ lock = Nobody
  /\ lock' = Outside
  /\ UNCHANGED <<db, work, pc, flow, todo, rev, outcome, announced, newest>>

OutsideEnds ==
  /\ lock = Outside
  /\ lock' = Nobody
  /\ UNCHANGED <<db, work, pc, flow, todo, rev, outcome, announced, newest>>

Step(w) ==
  \/ InsertFlow(w) \/ Busy(w) \/ Bump(w) \/ ClearFindings(w) \/ InsertFinding(w)
  \/ Commit(w) \/ Publish(w) \/ StatementFails(w) \/ RolledBack(w) \/ Crash(w)

Next == OutsideBegins \/ OutsideEnds \/ \E w \in Writers : Step(w)

Spec == Init /\ [][Next]_vars

-----------------------------------------------------------------------------

\* No step changes what readers see of the flows and leaves the revision they
\* poll where it was: a dashboard that compares revisions misses nothing
\* ("Flow commits increment traffic_revision in the same SQLite transaction").
EveryChangeIsRevised ==
  [][\/ db'.rows = db.rows /\ db'.findings = db.findings
     \/ db'.revision > db.revision]_vars

\* The committed findings of a flow are those of its committed record: none
\* is left of the record it replaced, none is missing.  Only a save that
\* failed between its INSERT and its commit, and whose open transaction a
\* later save then committed, can leave a flow otherwise.
FindingsMatchRecord ==
  \A f \in Flows \ db.torn :
    db.findings[f] = IF db.rows[f] = NoRow THEN {} ELSE FindingsOf[db.rows[f]]

\* What a bus announces, or is about to, is committed: a reader that reacts
\* to it finds the database at that revision or past it.
AnnouncedIsCommitted ==
  \A w \in Writers :
    /\ announced[w] <= db.revision
    /\ pc[w] = "publish" => rev[w] <= db.revision

\* A process that has committed a revision has announced it, unless it is at
\* the publish that comes right after the commit.
NewestIsAnnounced ==
  \A w \in Writers : announced[w] # newest[w] => pc[w] = "publish" /\ rev[w] = newest[w]

\* Two processes never commit under the same revision, so each one's commits
\* are visible to the other as a change of the number: the UPDATE and the
\* SELECT of the revision are made under the write lock.
RevisionsAreDistinct ==
  \A v, w \in Writers :
    v # w /\ newest[v] # 0 =>
      /\ newest[v] # newest[w]
      /\ announced[v] # announced[w] \/ announced[v] = 0

\* A connection that is not inside save holds the write lock, and keeps every
\* other writer out, only after a save of its own that raised.
LockLeakedOnlyByFailure ==
  \A w \in Writers :
    lock = w /\ pc[w] \notin InTransaction => pc[w] = "idle" /\ outcome[w] = "failed"

\* The storage implements the table its readers are promised.
Table ==
  INSTANCE FlowTable WITH rows <- db.rows, revision <- db.revision

ImplementsFlowTable == Table!Spec
=============================================================================
