-------------------------- MODULE FlowStoreProofs --------------------------
(***************************************************************************)
(* Proofs about FlowStore, for any number of recording processes, flows,   *)
(* records and revisions.                                                  *)
(***************************************************************************)
EXTENDS FlowStore, TLAPS

USE StoreAssumption

\* The type invariant: every statement of save leaves every variable with
\* its type.
THEOREM TypeCorrect == Spec => []TypeOK
<1>1. Init => TypeOK
  BY DEF Init, TypeOK, Images, Empty
<1>2. TypeOK /\ [Next]_vars => TypeOK'
  <2> SUFFICES ASSUME TypeOK, [Next]_vars PROVE TypeOK'
    OBVIOUS
  <2> USE DEF TypeOK, Images, InTransaction
  <2>1. ASSUME NEW w \in Writers, InsertFlow(w) PROVE TypeOK'
    <3>1. PICK f \in Flows, r \in Records :
            /\ work' = [work EXCEPT !.rows[f] = r, !.torn = @ \cup {f}]
            /\ flow' = [flow EXCEPT ![w] = f]
            /\ todo' = [todo EXCEPT ![w] = FindingsOf[r]]
      BY <2>1 DEF InsertFlow
    <3>2. work' \in Images
      BY <3>1
    <3>3. flow' \in [Writers -> Flows] /\ todo' \in [Writers -> SUBSET Findings]
      BY <3>1
    <3> QED
      BY <2>1, <3>2, <3>3 DEF InsertFlow
  <2>2. ASSUME NEW w \in Writers, Busy(w) PROVE TypeOK'
    BY <2>2 DEF Busy
  <2>3. ASSUME NEW w \in Writers, Bump(w) PROVE TypeOK'
    BY <2>3 DEF Bump, Bumped
  <2>4. ASSUME NEW w \in Writers, ClearFindings(w) PROVE TypeOK'
    BY <2>4 DEF ClearFindings, Cleared
  <2>5. ASSUME NEW w \in Writers, InsertFinding(w) PROVE TypeOK'
    BY <2>5 DEF InsertFinding
  <2>6. ASSUME NEW w \in Writers, Commit(w) PROVE TypeOK'
    BY <2>6 DEF Commit
  <2>7. ASSUME NEW w \in Writers, Publish(w) PROVE TypeOK'
    BY <2>7 DEF Publish
  <2>8. ASSUME NEW w \in Writers, StatementFails(w) PROVE TypeOK'
    BY <2>8 DEF StatementFails
  <2>9. ASSUME NEW w \in Writers, RolledBack(w) PROVE TypeOK'
    BY <2>9 DEF RolledBack
  <2>10. ASSUME NEW w \in Writers, Crash(w) PROVE TypeOK'
    BY <2>10 DEF Crash
  <2>11. CASE OutsideBegins
    BY <2>11 DEF OutsideBegins
  <2>12. CASE OutsideEnds
    BY <2>12 DEF OutsideEnds
  <2>13. CASE UNCHANGED vars
    BY <2>13 DEF vars
  <2> QED
    BY <2>1, <2>2, <2>3, <2>4, <2>5, <2>6, <2>7, <2>8, <2>9, <2>10, <2>11, <2>12, <2>13
    DEF Next, Step
<1> QED
  BY <1>1, <1>2, PTL DEF Spec

-----------------------------------------------------------------------------
(***************************************************************************)
(* The inductive invariant.  Each part says what one variable of a save    *)
(* knows about the images at each statement.                               *)
(***************************************************************************)

\* The transaction belongs to the lock's holder; without one, there is none.
LockInv ==
  /\ \A w \in Writers : pc[w] \in InTransaction => lock = w
  /\ lock \notin Writers => work = db

\* The revision of the image and the one save has read from it.
RevInv ==
  /\ db.revision <= work.revision
  /\ \A w \in Writers :
       /\ pc[w] \in {"clear", "fill"} => rev[w] = work.revision /\ rev[w] > db.revision
       /\ pc[w] = "publish" => rev[w] = newest[w] /\ announced[w] < newest[w]
       /\ pc[w] # "publish" => announced[w] = newest[w]
       /\ newest[w] <= db.revision

\* The revisions of two processes never meet.
Apart(v, w) ==
  /\ newest[v] # 0 => newest[v] # newest[w] /\ newest[v] # announced[w]
  /\ announced[v] # 0 => announced[v] # newest[w] /\ announced[v] # announced[w]

ApartInv == \A v, w \in Writers : v # w => Apart(v, w)

\* What an image must hold as the findings of f.
Expected(image, f) == IF image.rows[f] = NoRow THEN {} ELSE FindingsOf[image.rows[f]]

Matches(image) == \A f \in Flows \ image.torn : image.findings[f] = Expected(image, f)

\* What a save has left to insert is what the findings of its flow lack.
FindingsInv ==
  /\ Matches(db) /\ Matches(work)
  /\ \A w \in Writers :
       /\ pc[w] \in InTransaction => flow[w] \in work.torn /\ work.rows[flow[w]] # NoRow
       /\ pc[w] \in {"bump", "clear"} => todo[w] = Expected(work, flow[w])
       /\ pc[w] = "fill" =>
            work.findings[flow[w]] \cup todo[w] = Expected(work, flow[w])

\* No row is lost.
RowsKept == \A f \in Flows : db.rows[f] # NoRow => work.rows[f] # NoRow

IInv ==
  /\ LockInv /\ LockLeakedOnlyByFailure /\ RevInv /\ ApartInv /\ FindingsInv /\ RowsKept
-----------------------------------------------------------------------------
\* Statements run only under the lock; it is left to an idle connection only
\* by a save that raised.
LEMMA LockStep ==
  ASSUME TypeOK, TypeOK', LockInv, LockLeakedOnlyByFailure, [Next]_vars
  PROVE  LockInv' /\ LockLeakedOnlyByFailure'
<1> USE DEF TypeOK, InTransaction, LockInv, LockLeakedOnlyByFailure
<1>1. ASSUME NEW w \in Writers, InsertFlow(w) PROVE LockInv' /\ LockLeakedOnlyByFailure'
  BY <1>1 DEF InsertFlow
<1>2. ASSUME NEW w \in Writers, Busy(w) PROVE LockInv' /\ LockLeakedOnlyByFailure'
  BY <1>2 DEF Busy
<1>3. ASSUME NEW w \in Writers, Bump(w) PROVE LockInv' /\ LockLeakedOnlyByFailure'
  BY <1>3 DEF Bump, Bumped
<1>4. ASSUME NEW w \in Writers, ClearFindings(w) PROVE LockInv' /\ LockLeakedOnlyByFailure'
  BY <1>4 DEF ClearFindings, Cleared
<1>5. ASSUME NEW w \in Writers, InsertFinding(w) PROVE LockInv' /\ LockLeakedOnlyByFailure'
  BY <1>5 DEF InsertFinding
<1>6. ASSUME NEW w \in Writers, Commit(w) PROVE LockInv' /\ LockLeakedOnlyByFailure'
  BY <1>6 DEF Commit
<1>7. ASSUME NEW w \in Writers, Publish(w) PROVE LockInv' /\ LockLeakedOnlyByFailure'
  BY <1>7 DEF Publish
<1>8. ASSUME NEW w \in Writers, StatementFails(w) PROVE LockInv' /\ LockLeakedOnlyByFailure'
  BY <1>8 DEF StatementFails
<1>9. ASSUME NEW w \in Writers, RolledBack(w) PROVE LockInv' /\ LockLeakedOnlyByFailure'
  BY <1>9 DEF RolledBack
<1>10. ASSUME NEW w \in Writers, Crash(w) PROVE LockInv' /\ LockLeakedOnlyByFailure'
  BY <1>10 DEF Crash
<1>11. CASE OutsideBegins
  BY <1>11 DEF OutsideBegins
<1>12. CASE OutsideEnds
  BY <1>12 DEF OutsideEnds
<1>13. CASE UNCHANGED vars
  BY <1>13 DEF vars
<1> QED
  BY <1>1, <1>2, <1>3, <1>4, <1>5, <1>6, <1>7, <1>8, <1>9, <1>10, <1>11, <1>12, <1>13
     DEF Next, Step

\* The revision a save commits is past the database's, and it is the one it
\* publishes.
LEMMA RevStep ==
  ASSUME TypeOK, TypeOK', LockInv, RevInv, [Next]_vars
  PROVE  RevInv'
<1> USE DEF TypeOK, Images, InTransaction, LockInv, RevInv
<1>1. ASSUME NEW w \in Writers, InsertFlow(w) PROVE RevInv'
  BY <1>1 DEF InsertFlow
<1>2. ASSUME NEW w \in Writers, Busy(w) PROVE RevInv'
  BY <1>2 DEF Busy
<1>3. ASSUME NEW w \in Writers, Bump(w) PROVE RevInv'
  BY <1>3 DEF Bump, Bumped
<1>4. ASSUME NEW w \in Writers, ClearFindings(w) PROVE RevInv'
  BY <1>4 DEF ClearFindings, Cleared
<1>5. ASSUME NEW w \in Writers, InsertFinding(w) PROVE RevInv'
  BY <1>5 DEF InsertFinding
<1>6. ASSUME NEW w \in Writers, Commit(w) PROVE RevInv'
  BY <1>6 DEF Commit
<1>7. ASSUME NEW w \in Writers, Publish(w) PROVE RevInv'
  BY <1>7 DEF Publish
<1>8. ASSUME NEW w \in Writers, StatementFails(w) PROVE RevInv'
  BY <1>8 DEF StatementFails
<1>9. ASSUME NEW w \in Writers, RolledBack(w) PROVE RevInv'
  BY <1>9 DEF RolledBack
<1>10. ASSUME NEW w \in Writers, Crash(w) PROVE RevInv'
  BY <1>10 DEF Crash
<1>11. CASE OutsideBegins
  BY <1>11 DEF OutsideBegins
<1>12. CASE OutsideEnds
  BY <1>12 DEF OutsideEnds
<1>13. CASE UNCHANGED vars
  BY <1>13 DEF vars
<1> QED
  BY <1>1, <1>2, <1>3, <1>4, <1>5, <1>6, <1>7, <1>8, <1>9, <1>10, <1>11, <1>12, <1>13
     DEF Next, Step

\* A committed revision is larger than all those committed before, by anyone.
LEMMA ApartStep ==
  ASSUME TypeOK, TypeOK', LockInv, RevInv, RevInv', ApartInv, [Next]_vars
  PROVE  ApartInv'
<1> USE DEF TypeOK, Images, InTransaction, LockInv, RevInv, ApartInv, Apart
<1>1. ASSUME NEW w \in Writers, InsertFlow(w) PROVE ApartInv'
  BY <1>1 DEF InsertFlow
<1>2. ASSUME NEW w \in Writers, Busy(w) PROVE ApartInv'
  BY <1>2 DEF Busy
<1>3. ASSUME NEW w \in Writers, Bump(w) PROVE ApartInv'
  BY <1>3 DEF Bump, Bumped
<1>4. ASSUME NEW w \in Writers, ClearFindings(w) PROVE ApartInv'
  BY <1>4 DEF ClearFindings, Cleared
<1>5. ASSUME NEW w \in Writers, InsertFinding(w) PROVE ApartInv'
  BY <1>5 DEF InsertFinding
<1>6. ASSUME NEW w \in Writers, Commit(w) PROVE ApartInv'
  BY <1>6 DEF Commit
<1>7. ASSUME NEW w \in Writers, Publish(w) PROVE ApartInv'
  BY <1>7 DEF Publish
<1>8. ASSUME NEW w \in Writers, StatementFails(w) PROVE ApartInv'
  BY <1>8 DEF StatementFails
<1>9. ASSUME NEW w \in Writers, RolledBack(w) PROVE ApartInv'
  BY <1>9 DEF RolledBack
<1>10. ASSUME NEW w \in Writers, Crash(w) PROVE ApartInv'
  BY <1>10 DEF Crash
<1>11. CASE OutsideBegins
  BY <1>11 DEF OutsideBegins
<1>12. CASE OutsideEnds
  BY <1>12 DEF OutsideEnds
<1>13. CASE UNCHANGED vars
  BY <1>13 DEF vars
<1> QED
  BY <1>1, <1>2, <1>3, <1>4, <1>5, <1>6, <1>7, <1>8, <1>9, <1>10, <1>11, <1>12, <1>13
     DEF Next, Step

\* DELETE and the INSERTs rebuild the findings of the flow being saved, and
\* touch no other flow.
LEMMA FindingsStep ==
  ASSUME TypeOK, TypeOK', LockInv, FindingsInv, [Next]_vars
  PROVE  FindingsInv'
<1> USE DEF TypeOK, Images, InTransaction, LockInv, FindingsInv, Matches, Expected
<1>1. ASSUME NEW w \in Writers, InsertFlow(w) PROVE FindingsInv'
  BY <1>1 DEF InsertFlow
<1>2. ASSUME NEW w \in Writers, Busy(w) PROVE FindingsInv'
  BY <1>2 DEF Busy
<1>3. ASSUME NEW w \in Writers, Bump(w) PROVE FindingsInv'
  BY <1>3 DEF Bump, Bumped
<1>4. ASSUME NEW w \in Writers, ClearFindings(w) PROVE FindingsInv'
  BY <1>4 DEF ClearFindings, Cleared
<1>5. ASSUME NEW w \in Writers, InsertFinding(w) PROVE FindingsInv'
  BY <1>5 DEF InsertFinding
<1>6. ASSUME NEW w \in Writers, Commit(w) PROVE FindingsInv'
  <2>1. /\ pc[w] = "fill" /\ todo[w] = {} /\ lock = w
        /\ work' = [work EXCEPT !.torn = @ \ {flow[w]}] /\ db' = work'
        /\ pc' = [pc EXCEPT ![w] = "publish"] /\ UNCHANGED <<flow, todo>>
    BY <1>6 DEF Commit
  <2>2. work.findings[flow[w]] = Expected(work, flow[w])
    <3>1. work.findings[flow[w]] \cup todo[w] = Expected(work, flow[w])
      BY <2>1 DEF FindingsInv
    <3> QED
      BY <2>1, <3>1
  <2>3. work'.rows = work.rows /\ work'.findings = work.findings
        /\ work'.torn = work.torn \ {flow[w]}
    BY <2>1
  <2>4. Matches(work)'
    BY <2>2, <2>3
  <2>5. Matches(db)'
    BY <2>1, <2>4
  <2>6. \A v \in Writers : pc'[v] \notin InTransaction
    BY <2>1
  <2> QED
    BY <2>4, <2>5, <2>6
<1>7. ASSUME NEW w \in Writers, Publish(w) PROVE FindingsInv'
  BY <1>7 DEF Publish
<1>8. ASSUME NEW w \in Writers, StatementFails(w) PROVE FindingsInv'
  BY <1>8 DEF StatementFails
<1>9. ASSUME NEW w \in Writers, RolledBack(w) PROVE FindingsInv'
  BY <1>9 DEF RolledBack
<1>10. ASSUME NEW w \in Writers, Crash(w) PROVE FindingsInv'
  BY <1>10 DEF Crash
<1>11. CASE OutsideBegins
  BY <1>11 DEF OutsideBegins
<1>12. CASE OutsideEnds
  BY <1>12 DEF OutsideEnds
<1>13. CASE UNCHANGED vars
  BY <1>13 DEF vars
<1> QED
  BY <1>1, <1>2, <1>3, <1>4, <1>5, <1>6, <1>7, <1>8, <1>9, <1>10, <1>11, <1>12, <1>13
     DEF Next, Step

\* REPLACE puts a record where one was.
LEMMA RowsStep ==
  ASSUME TypeOK, TypeOK', LockInv, RowsKept, [Next]_vars
  PROVE  RowsKept'
<1> USE DEF TypeOK, Images, LockInv, RowsKept, InTransaction
<1>1. ASSUME NEW w \in Writers, InsertFlow(w) PROVE RowsKept'
  BY <1>1 DEF InsertFlow
<1>2. ASSUME NEW w \in Writers, Busy(w) PROVE RowsKept'
  BY <1>2 DEF Busy
<1>3. ASSUME NEW w \in Writers, Bump(w) PROVE RowsKept'
  BY <1>3 DEF Bump, Bumped
<1>4. ASSUME NEW w \in Writers, ClearFindings(w) PROVE RowsKept'
  BY <1>4 DEF ClearFindings, Cleared
<1>5. ASSUME NEW w \in Writers, InsertFinding(w) PROVE RowsKept'
  BY <1>5 DEF InsertFinding
<1>6. ASSUME NEW w \in Writers, Commit(w) PROVE RowsKept'
  BY <1>6 DEF Commit
<1>7. ASSUME NEW w \in Writers, Publish(w) PROVE RowsKept'
  BY <1>7 DEF Publish
<1>8. ASSUME NEW w \in Writers, StatementFails(w) PROVE RowsKept'
  BY <1>8 DEF StatementFails
<1>9. ASSUME NEW w \in Writers, RolledBack(w) PROVE RowsKept'
  BY <1>9 DEF RolledBack
<1>10. ASSUME NEW w \in Writers, Crash(w) PROVE RowsKept'
  BY <1>10 DEF Crash
<1>11. CASE OutsideBegins
  BY <1>11 DEF OutsideBegins
<1>12. CASE OutsideEnds
  BY <1>12 DEF OutsideEnds
<1>13. CASE UNCHANGED vars
  BY <1>13 DEF vars
<1> QED
  BY <1>1, <1>2, <1>3, <1>4, <1>5, <1>6, <1>7, <1>8, <1>9, <1>10, <1>11, <1>12, <1>13
     DEF Next, Step

-----------------------------------------------------------------------------

\* IInv holds always.
THEOREM Invariant == Spec => []IInv
<1>1. Init => IInv
  BY DEF Init, Empty, IInv, LockInv, LockLeakedOnlyByFailure, RevInv, ApartInv, Apart,
         FindingsInv, Matches, Expected, RowsKept, InTransaction
<1>2. TypeOK /\ TypeOK' /\ IInv /\ [Next]_vars => IInv'
  BY LockStep, RevStep, ApartStep, FindingsStep, RowsStep DEF IInv
<1> QED
  BY <1>1, <1>2, TypeCorrect, PTL DEF Spec

\* The committed findings are those of the committed record, for every flow
\* that no failed save has left torn.
THEOREM FindingsMatch == Spec => []FindingsMatchRecord
<1>1. IInv => FindingsMatchRecord
  BY DEF IInv, FindingsInv, Matches, Expected, FindingsMatchRecord
<1> QED
  BY <1>1, Invariant, PTL

\* No bus ever announces a revision that is not committed.
THEOREM AnnouncementsAreCommitted == Spec => []AnnouncedIsCommitted
<1>1. TypeOK /\ IInv => AnnouncedIsCommitted
  <2> SUFFICES ASSUME TypeOK, IInv, NEW w \in Writers
               PROVE  announced[w] <= db.revision /\ (pc[w] = "publish" => rev[w] <= db.revision)
    BY DEF AnnouncedIsCommitted
  <2> QED
    BY DEF TypeOK, Images, IInv, RevInv
<1> QED
  BY <1>1, Invariant, TypeCorrect, PTL

\* Every commit of a process that lives on is announced, right after it.
THEOREM CommitsAreAnnounced == Spec => []NewestIsAnnounced
<1>1. IInv => NewestIsAnnounced
  BY DEF IInv, RevInv, NewestIsAnnounced
<1> QED
  BY <1>1, Invariant, PTL

\* Processes that share the file never commit or announce the same revision.
THEOREM DistinctRevisions == Spec => []RevisionsAreDistinct
<1>1. IInv => RevisionsAreDistinct
  BY DEF IInv, ApartInv, Apart, RevisionsAreDistinct
<1> QED
  BY <1>1, Invariant, PTL

\* An idle connection holds the lock only after a save of its own failed.
THEOREM LockLeak == Spec => []LockLeakedOnlyByFailure
<1>1. IInv => LockLeakedOnlyByFailure
  BY DEF IInv
<1> QED
  BY <1>1, Invariant, PTL

\* No step but a commit changes the database, and a commit moves its revision.
LEMMA ChangeStep ==
  ASSUME TypeOK, IInv, [Next]_vars
  PROVE  db' = db \/ db'.revision > db.revision
<1> USE DEF TypeOK, Images, IInv, RevInv
<1>1. ASSUME NEW w \in Writers, Commit(w) PROVE db'.revision > db.revision
  <2>1. db'.revision = work.revision
    BY <1>1 DEF Commit
  <2> QED
    BY <1>1, <2>1 DEF Commit
<1>2. ASSUME NEW w \in Writers, Step(w), ~Commit(w) PROVE db' = db
  BY <1>2 DEF Step, InsertFlow, Busy, Bump, ClearFindings, InsertFinding, Publish,
              StatementFails, RolledBack, Crash
<1>3. CASE OutsideBegins \/ OutsideEnds \/ UNCHANGED vars
  BY <1>3 DEF OutsideBegins, OutsideEnds, vars
<1> QED
  BY <1>1, <1>2, <1>3 DEF Next

\* No change of the committed rows or findings goes without a new revision.
THEOREM ChangesAreRevised == Spec => EveryChangeIsRevised
<1>1. TypeOK /\ IInv /\ [Next]_vars =>
        [\/ db'.rows = db.rows /\ db'.findings = db.findings
         \/ db'.revision > db.revision]_vars
  BY ChangeStep
<1> QED
  BY <1>1, Invariant, TypeCorrect, PTL DEF Spec, EveryChangeIsRevised

-----------------------------------------------------------------------------

\* save, with its transactions, locks and failures, implements the table of
\* FlowTable: a commit is a Change, a publish an Announce, a crash a Restart,
\* and every other step leaves the table as it is.
THEOREM StoreImplementsTable == Spec => ImplementsFlowTable
<1>1. Init => Table!Init
  BY DEF Init, Empty, Table!Init
<1>2. TypeOK /\ TypeOK' /\ IInv /\ [Next]_vars => [Table!Next]_Table!vars
  <2> SUFFICES ASSUME TypeOK, TypeOK', IInv, [Next]_vars
               PROVE  Table!Next \/ UNCHANGED Table!vars
    OBVIOUS
  <2> USE DEF TypeOK, Images
  <2>1. ASSUME NEW w \in Writers, Commit(w) PROVE Table!Change
    <3>1. db'.rows = work.rows /\ db'.revision = work.revision /\ announced' = announced
      BY <2>1 DEF Commit
    <3>2. db'.revision > db.revision
      BY <2>1, <3>1 DEF Commit, IInv, RevInv
    <3>3. \A f \in Flows : db.rows[f] # NoRow => db'.rows[f] # NoRow
      BY <3>1 DEF IInv, RowsKept
    <3> QED
      BY <3>1, <3>2, <3>3 DEF Table!Change
  <2>2. ASSUME NEW w \in Writers, Publish(w) PROVE Table!Announce(w)
    <3>1. announced' = [announced EXCEPT ![w] = newest[w]] /\ UNCHANGED db
      BY <2>2 DEF Publish, IInv, RevInv
    <3>2. announced[w] < newest[w]
      BY <2>2 DEF Publish, IInv, RevInv
    <3>3. \A v \in Writers : announced[v] \in 0 .. db.revision
      BY DEF IInv, RevInv
    <3>4. newest[w] \in 0 .. db.revision
      BY DEF IInv, RevInv
    <3> QED
      BY <3>1, <3>2, <3>3, <3>4 DEF Table!Announce
  <2>3. ASSUME NEW w \in Writers, Crash(w) PROVE Table!Restart(w)
    BY <2>3 DEF Crash, Table!Restart
  <2>4. ASSUME NEW w \in Writers, Step(w), ~Commit(w), ~Publish(w), ~Crash(w)
        PROVE  UNCHANGED Table!vars
    BY <2>4 DEF Step, InsertFlow, Busy, Bump, ClearFindings, InsertFinding,
                StatementFails, RolledBack, Table!vars
  <2>5. CASE OutsideBegins \/ OutsideEnds \/ UNCHANGED vars
    BY <2>5 DEF OutsideBegins, OutsideEnds, vars, Table!vars
  <2> QED
    BY <2>1, <2>2, <2>3, <2>4, <2>5 DEF Next, Table!Next
<1> QED
  BY <1>1, <1>2, Invariant, TypeCorrect, PTL DEF Spec, ImplementsFlowTable, Table!Spec
=============================================================================
