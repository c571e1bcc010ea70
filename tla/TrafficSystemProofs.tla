------------------------ MODULE TrafficSystemProofs ------------------------
(***************************************************************************)
(* Proofs about TrafficSystem, for any number of processes, flows and      *)
(* sockets: seen through the tables it behaves as FlowStore, and seen      *)
(* through the stream as LiveTraffic, so that what is proved of either     *)
(* holds where the two run together.                                       *)
(***************************************************************************)
EXTENDS TrafficSystem, FlowStoreProofs

\* The step of the store in a step of the system.
LEMMA StoreStep ==
  ASSUME Me \in Writers, [SystemNext]_systemvars
  PROVE  [Next]_vars
<1>1. CASE SaveStatement
  BY <1>1 DEF SaveStatement, Next, Step
<1>2. CASE SaveCommits
  BY <1>2 DEF SaveCommits, Next, Step
<1>3. CASE PublishBegins
  BY <1>3 DEF PublishBegins, Next, Step
<1>4. CASE StreamStep
  BY <1>4 DEF StreamStep
<1>5. CASE OutsideStep
  BY <1>5 DEF OutsideStep, Next
<1>6. CASE UNCHANGED systemvars
  BY <1>6 DEF systemvars
<1> QED BY <1>1, <1>2, <1>3, <1>4, <1>5, <1>6 DEF SystemNext

\* The stream takes nothing from the store: save goes on under it as FlowStore
\* says.
THEOREM SystemImplementsStore ==
  ASSUME Me \in Writers PROVE SystemSpec => Spec
<1>1. SystemInit => Init
  BY DEF SystemInit
<1>2. [SystemNext]_systemvars => [Next]_vars
  BY StoreStep
<1> QED BY <1>1, <1>2, PTL DEF SystemSpec, Spec

-----------------------------------------------------------------------------

\* The revision stays below its bound, also the one that is not committed yet.
BoundInv ==
  /\ work.revision <= MaxRevision
  /\ \A w \in Writers : pc[w] = "bump" => work.revision < MaxRevision

LEMMA BoundStep ==
  ASSUME TypeOK, TypeOK', IInv, BoundInv, [Next]_vars
  PROVE  BoundInv'
<1> USE StoreAssumption DEF TypeOK, Images, IInv, LockInv, RevInv, InTransaction, BoundInv
<1>1. ASSUME NEW w \in Writers, InsertFlow(w) PROVE BoundInv'
  BY <1>1 DEF InsertFlow
<1>2. ASSUME NEW w \in Writers, Bump(w) PROVE BoundInv'
  BY <1>2 DEF Bump, Bumped
<1>3. ASSUME NEW w \in Writers, ClearFindings(w) \/ InsertFinding(w) PROVE BoundInv'
  BY <1>3 DEF ClearFindings, Cleared, InsertFinding
<1>4. ASSUME NEW w \in Writers, Commit(w) PROVE BoundInv'
  BY <1>4 DEF Commit
<1>5. ASSUME NEW w \in Writers, Publish(w) \/ Busy(w) \/ StatementFails(w) PROVE BoundInv'
  BY <1>5 DEF Publish, Busy, StatementFails
<1>6. ASSUME NEW w \in Writers, RolledBack(w) PROVE BoundInv'
  BY <1>6 DEF RolledBack
<1>7. ASSUME NEW w \in Writers, Crash(w) PROVE BoundInv'
  BY <1>7 DEF Crash
<1>8. CASE OutsideBegins \/ OutsideEnds \/ UNCHANGED vars
  BY <1>8 DEF OutsideBegins, OutsideEnds, vars
<1> QED BY <1>1, <1>2, <1>3, <1>4, <1>5, <1>6, <1>7, <1>8 DEF Next, Step

\* What a process that is not Me does to the revision that Me reads.
LEMMA OthersCommit ==
  ASSUME Me \in Writers, TypeOK, IInv, BoundInv, NEW w \in Writers \ {Me}, Step(w)
  PROVE  /\ newest'[Me] = newest[Me]
         /\ \/ db' = db
            \/ db'.revision > db.revision /\ db'.revision \in 0 .. MaxRevision
<1> USE DEF TypeOK, Images, IInv, RevInv
<1>1. CASE Commit(w)
  <2>1. db'.revision = work.revision
    BY <1>1 DEF Commit
  <2>2. newest'[Me] = newest[Me]
    BY <1>1 DEF Commit
  <2>3. work.revision > db.revision /\ work.revision \in 0 .. MaxRevision
    BY <1>1, StoreAssumption DEF Commit, BoundInv
  <2> QED BY <2>1, <2>2, <2>3
<1>2. CASE ~Commit(w)
  BY <1>2 DEF Step, InsertFlow, Busy, Bump, ClearFindings, InsertFinding, Publish,
              StatementFails, RolledBack, Crash
<1> QED BY <1>1, <1>2

-----------------------------------------------------------------------------

\* A statement of a save, which is no commit: the stream sees nothing of it.
LEMMA StatementIsHidden ==
  ASSUME SaveStatement PROVE UNCHANGED Live!vars
<1>1. UNCHANGED <<db, newest, streamvars>>
  BY DEF SaveStatement, InsertFlow, Busy, Bump, ClearFindings, InsertFinding,
         StatementFails, RolledBack
<1> QED
  BY <1>1 DEF streamvars, Live!vars, Live!others, Live!store, Live!bus, Live!world,
              Live!handlers, Live!tasks

\* The commit of a save is the one that LiveTraffic foresees.
LEMMA CommitIsLocal ==
  ASSUME Me \in Writers, TypeOK, IInv, BoundInv, SaveCommits
  PROVE  Live!LocalCommit
<1> USE DEF TypeOK, Images, IInv, RevInv
<1>1. db'.revision = work.revision /\ newest'[Me] = work.revision
  BY DEF SaveCommits, Commit
<1>2. work.revision > db.revision /\ work.revision \in 0 .. MaxRevision
  BY StoreAssumption DEF SaveCommits, Commit, BoundInv
<1> QED
  BY <1>1, <1>2 DEF SaveCommits, Live!LocalCommit, Live!Revisions, Live!handlers,
                    Live!tasks, Live!world

\* A commit of another process is one too; nothing else that happens outside
\* is seen.
LEMMA OutsideIsOther ==
  ASSUME Me \in Writers, TypeOK, IInv, BoundInv, OutsideStep
  PROVE  Live!OtherCommit \/ UNCHANGED Live!vars
<1> USE DEF streamvars, Live!vars, Live!others, Live!store, Live!bus, Live!world,
            Live!handlers, Live!tasks
<1>1. UNCHANGED streamvars
  BY DEF OutsideStep
<1>2. CASE OutsideBegins \/ OutsideEnds
  BY <1>1, <1>2 DEF OutsideBegins, OutsideEnds
<1>3. ASSUME NEW w \in Writers \ {Me}, Step(w)
      PROVE  Live!OtherCommit \/ UNCHANGED Live!vars
  BY <1>1, <1>3, OthersCommit DEF Live!OtherCommit, Live!Revisions
<1> QED BY <1>2, <1>3 DEF OutsideStep

\* The stream's own steps are those of LiveTraffic.
LEMMA StreamIsLive == StreamStep => Live!Next
BY DEF StreamStep, Live!Next, Live!Engine

LEMMA LiveStep ==
  ASSUME Me \in Writers, TypeOK, IInv, BoundInv, [SystemNext]_systemvars
  PROVE  [Live!Next]_Live!vars
<1>1. CASE SaveStatement
  BY <1>1, StatementIsHidden
<1>2. CASE SaveCommits
  BY <1>2, CommitIsLocal DEF Live!Next, Live!Engine
<1>3. CASE PublishBegins
  BY <1>3 DEF PublishBegins, Live!Next, Live!Engine
<1>4. CASE StreamStep
  BY <1>4, StreamIsLive
<1>5. CASE OutsideStep
  BY <1>5, OutsideIsOther DEF Live!Next
<1>6. CASE UNCHANGED systemvars
  BY <1>6 DEF systemvars, vars, streamvars, Live!vars, Live!others, Live!store, Live!bus,
              Live!world, Live!handlers, Live!tasks
<1> QED BY <1>1, <1>2, <1>3, <1>4, <1>5, <1>6 DEF SystemNext

\* The live stream on the real store is the live stream of LiveTraffic: its
\* handlers may count on the revision never going back, on one announcement
\* after each commit of their own process, with the revision of that commit,
\* and on nothing being announced that is not committed.
THEOREM SystemImplementsLiveTraffic ==
  ASSUME Me \in Writers PROVE SystemSpec => ImplementsLiveTraffic
<1>1. SystemInit => Live!Init /\ BoundInv
  BY StoreAssumption DEF SystemInit, Init, Empty, BoundInv
<1>2. TypeOK /\ TypeOK' /\ IInv /\ BoundInv /\ [Next]_vars => BoundInv'
  BY BoundStep
<1>3. TypeOK /\ IInv /\ BoundInv /\ [SystemNext]_systemvars => [Live!Next]_Live!vars
  BY LiveStep
<1>4. [SystemNext]_systemvars => [Next]_vars
  BY StoreStep
<1>5. SystemSpec => Spec
  BY SystemImplementsStore
<1> QED
  BY <1>1, <1>2, <1>3, <1>4, <1>5, TypeCorrect, Invariant, PTL
     DEF SystemSpec, ImplementsLiveTraffic, Live!Spec

-----------------------------------------------------------------------------

\* save and publish take turns in the thread of the proxy.
THEOREM TurnsAreTaken ==
  ASSUME Me \in Writers PROVE SystemSpec => []SaveAndPublishAgree
<1> USE DEF SaveAndPublishAgree
<1>1. SystemInit => SaveAndPublishAgree
  BY DEF SystemInit, Init, Live!Init
<1>2. ASSUME TypeOK, TypeOK', IInv, IInv', SaveAndPublishAgree, [SystemNext]_systemvars
      PROVE  SaveAndPublishAgree'
  <2>1. (pc'[Me] # "publish" => announced'[Me] = newest'[Me])
    BY <1>2 DEF IInv, RevInv
  <2>2. SUFFICES /\ engine' = "publish" <=> pc'[Me] = "publish"
                 /\ engine' \in {"fanout", "prune"} => pc'[Me] = "idle"
    BY <2>1
  <2> USE <1>2 DEF TypeOK
  <2>3. CASE SaveStatement
    BY <2>3 DEF SaveStatement, streamvars, InsertFlow, Busy, Bump, ClearFindings,
                InsertFinding, StatementFails, RolledBack, InTransaction
  <2>4. CASE SaveCommits
    BY <2>4 DEF SaveCommits, Commit
  <2>5. CASE PublishBegins
    BY <2>5 DEF PublishBegins, Publish, Live!Snapshot
  <2>6. CASE StreamStep
    <3>1. pc' = pc
      BY <2>6 DEF StreamStep, vars
    <3>2. \/ engine' = engine
          \/ engine = "fanout" /\ engine' \in {"idle", "prune"}
          \/ engine = "prune" /\ engine' = "idle"
      BY <2>6 DEF StreamStep, Live!PublishTo, Live!EndFanout, Live!Prune, Live!LoopCloses,
           Live!RunCallback, Live!TakeRevision, Live!Handler, Live!Environment, Live!Refuse,
           Live!Admit, Live!ReadRevision, Live!Accept, Live!Wake, Live!TimeOut,
           Live!CancelGetter, Live!CancelReceiver, Live!HandleDisconnect, Live!HandleResults,
           Live!DbCheck, Live!AuthCheck, Live!Heartbeat, Live!NotDue, Live!DbFault,
           Live!Cleanup, Live!TakeText, Live!TakeDisconnect, Live!TakeFrame, Live!Leave,
           Live!Revoke, Live!TimerDue, Live!others, Live!bus
    <3> QED BY <3>1, <3>2
  <2>7. CASE OutsideStep
    <3>1. ASSUME NEW w \in Writers \ {Me}, Step(w) PROVE pc'[Me] = pc[Me]
      BY <3>1 DEF Step, InsertFlow, Busy, Bump, ClearFindings, InsertFinding, Commit,
                  Publish, StatementFails, RolledBack, Crash
    <3> QED BY <2>7, <3>1 DEF OutsideStep, OutsideBegins, OutsideEnds, streamvars
  <2>8. CASE UNCHANGED systemvars
    BY <2>8 DEF systemvars, vars, streamvars
  <2> QED BY <2>3, <2>4, <2>5, <2>6, <2>7, <2>8 DEF SystemNext
<1>3. SystemSpec => Spec
  BY SystemImplementsStore
<1> QED BY <1>1, <1>2, <1>3, TypeCorrect, Invariant, PTL DEF SystemSpec
=============================================================================
