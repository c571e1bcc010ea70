------------------------- MODULE LiveTrafficProofs -------------------------
(***************************************************************************)
(* Proofs of the safety of LiveTraffic, for any number of sockets and any  *)
(* number of commits.                                                      *)
(***************************************************************************)
EXTENDS LiveTraffic, TLAPS

USE LiveAssumption

-----------------------------------------------------------------------------
\* Every step keeps the types.
LEMMA TypeStep ==
  ASSUME TypeOK, [Next]_vars
  PROVE  TypeOK'
<1> USE DEF TypeOK, Revisions, Told, Loop, store, bus, tasks, world, handlers,
            others, Goto
<1>1. CASE LocalCommit
  BY <1>1 DEF LocalCommit
<1>2. CASE OtherCommit
  BY <1>2 DEF OtherCommit
<1>3. CASE Snapshot
  BY <1>3 DEF Snapshot
<1>4. ASSUME NEW s \in Sockets, PublishTo(s) PROVE TypeOK'
  <2>1. CASE loopClosed
    BY <1>4, <2>1 DEF PublishTo
  <2>2. CASE ~loopClosed
    <3>1. callbacks' = [callbacks EXCEPT ![s] = Append(callbacks[s], lastLocal)] /\ stale' = stale
      BY <1>4, <2>2 DEF PublishTo
    <3>2. callbacks' \in [Sockets -> Seq(Revisions)]
      BY <3>1
    <3> QED
      BY <1>4, <3>1, <3>2 DEF PublishTo
  <2> QED
    BY <2>1, <2>2
<1>5. CASE EndFanout
  BY <1>5 DEF EndFanout
<1>6. CASE Prune
  BY <1>6 DEF Prune
<1>7. ASSUME NEW s \in Sockets, RunCallback(s) PROVE TypeOK'
  <2>1. callbacks[s] \in Seq(Revisions) /\ callbacks[s] # <<>>
    BY <1>7 DEF RunCallback
  <2>2. Head(callbacks[s]) \in Revisions /\ Tail(callbacks[s]) \in Seq(Revisions)
    BY <2>1
  <2>3. callbacks' = [callbacks EXCEPT ![s] = Tail(callbacks[s])]
        /\ queue' = [queue EXCEPT ![s] = Head(callbacks[s])]
    BY <1>7 DEF RunCallback, Offer
  <2>4. callbacks' \in [Sockets -> Seq(Revisions)]
    BY <2>2, <2>3
  <2>5. queue' \in [Sockets -> Revisions]
    BY <2>2, <2>3
  <2> QED
    BY <1>7, <2>4, <2>5 DEF RunCallback
<1>8. ASSUME NEW s \in Sockets, TakeRevision(s) PROVE TypeOK'
  BY <1>8 DEF TakeRevision, GetterRuns
<1>9. ASSUME NEW s \in Sockets, TakeText(s) PROVE TypeOK'
  BY <1>9 DEF TakeText, TakeFrame
<1>10. ASSUME NEW s \in Sockets, TakeDisconnect(s) PROVE TypeOK'
  BY <1>10 DEF TakeDisconnect, TakeFrame
<1>11. ASSUME NEW s \in Sockets, Refuse(s) PROVE TypeOK'
  BY <1>11 DEF Refuse
<1>12. ASSUME NEW s \in Sockets, Admit(s) PROVE TypeOK'
  BY <1>12 DEF Admit
<1>13. ASSUME NEW s \in Sockets, ReadRevision(s) PROVE TypeOK'
  BY <1>13 DEF ReadRevision, FirstRead
<1>14. ASSUME NEW s \in Sockets, Accept(s) PROVE TypeOK'
  BY <1>14 DEF Accept, SendThen
<1>15. ASSUME NEW s \in Sockets, Wake(s) PROVE TypeOK'
  BY <1>15 DEF Wake
<1>16. ASSUME NEW s \in Sockets, TimeOut(s) PROVE TypeOK'
  BY <1>16 DEF TimeOut
<1>17. ASSUME NEW s \in Sockets, CancelGetter(s) PROVE TypeOK'
  BY <1>17 DEF CancelGetter
<1>18. ASSUME NEW s \in Sockets, CancelReceiver(s) PROVE TypeOK'
  BY <1>18 DEF CancelReceiver
<1>19. ASSUME NEW s \in Sockets, HandleDisconnect(s) PROVE TypeOK'
  BY <1>19 DEF HandleDisconnect
<1>20. ASSUME NEW s \in Sockets, HandleResults(s) PROVE TypeOK'
  <2>1. pc' \in [Sockets -> {"new", "read", "cleanup", "closed"} \cup Told]
    BY <1>20 DEF HandleResults, TellThen, SendThen
  <2>2. seen' \in [Sockets -> Revisions]
    <3>1. PICK r \in Revisions : seen' = [seen EXCEPT ![s] = r] \/ seen' = seen
      BY <1>20 DEF HandleResults, TellThen
    <3>2. [seen EXCEPT ![s] = r] \in [Sockets -> Revisions]
      OBVIOUS
    <3> QED
      BY <3>1, <3>2
  <2>3. due' \in [Sockets -> SUBSET Timers]
    <3>1. PICK d \in SUBSET Timers : due' = [due EXCEPT ![s] = d] \/ due' = due
      <4>1. due[s] \in SUBSET Timers /\ due[s] \ {"heartbeat"} \in SUBSET Timers
        OBVIOUS
      <4> QED
        BY <1>20, <4>1 DEF HandleResults, DueAfter
    <3> QED
      BY <3>1
  <2>4. got' \in [Sockets -> Revisions]
        /\ received' \in [Sockets -> {"nothing", "ping", "text", "raised"}]
    BY <1>20 DEF HandleResults
  <2> QED
    BY <1>20, <2>1, <2>2, <2>3, <2>4 DEF HandleResults
<1>21. ASSUME NEW s \in Sockets, DbCheck(s) PROVE TypeOK'
  BY <1>21 DEF DbCheck, TellThen, SendThen, DueAfter, FallbackRead
<1>22. ASSUME NEW s \in Sockets, AuthCheck(s) PROVE TypeOK'
  <2>1. pc' \in [Sockets -> {"new", "read", "cleanup", "closed"} \cup Told]
    <3>1. pc' = [pc EXCEPT ![s] = "beat"] \/ pc' = [pc EXCEPT ![s] = "cleanup"]
      BY <1>22 DEF AuthCheck
    <3> QED
      BY <3>1
  <2>2. due' \in [Sockets -> SUBSET Timers]
    <3>1. due' = [due EXCEPT ![s] = due[s] \ {"auth"}] \/ due' = due
      BY <1>22 DEF AuthCheck
    <3>2. [due EXCEPT ![s] = due[s] \ {"auth"}] \in [Sockets -> SUBSET Timers]
      OBVIOUS
    <3> QED
      BY <3>1, <3>2
  <2> QED
    BY <1>22, <2>1, <2>2 DEF AuthCheck
<1>23. ASSUME NEW s \in Sockets, Heartbeat(s) PROVE TypeOK'
  BY <1>23 DEF Heartbeat, SendThen
<1>24. ASSUME NEW s \in Sockets, NotDue(s) PROVE TypeOK'
  BY <1>24 DEF NotDue
<1>25. ASSUME NEW s \in Sockets, DbFault(s) PROVE TypeOK'
  BY <1>25 DEF DbFault
<1>26. ASSUME NEW s \in Sockets, Cleanup(s) PROVE TypeOK'
  BY <1>26 DEF Cleanup, Unsubscribe
<1>27. ASSUME NEW s \in Sockets, Leave(s) PROVE TypeOK'
  BY <1>27 DEF Leave
<1>28. ASSUME NEW s \in Sockets, Revoke(s) PROVE TypeOK'
  BY <1>28 DEF Revoke
<1>29. CASE LoopCloses
  BY <1>29 DEF LoopCloses
<1>30. ASSUME NEW s \in Sockets, NEW t \in Timers, TimerDue(s, t) PROVE TypeOK'
  BY <1>30 DEF TimerDue
<1>31. CASE UNCHANGED vars
  BY <1>31 DEF vars
<1> QED
  BY <1>1, <1>2, <1>3, <1>4, <1>5, <1>6, <1>7, <1>8, <1>9, <1>10, <1>11, <1>12,
     <1>13, <1>14, <1>15, <1>16, <1>17, <1>18, <1>19, <1>20, <1>21, <1>22, <1>23, <1>24,
     <1>25, <1>26, <1>27, <1>28, <1>29, <1>30, <1>31
     DEF Next, Engine, Handler, Environment

\* The type invariant, for every set of sockets and every bound.
THEOREM TypeCorrect == Spec => []TypeOK
<1>1. Init => TypeOK
  <2> SUFFICES ASSUME Init PROVE TypeOK
    OBVIOUS
  <2>1. callbacks \in [Sockets -> Seq(Revisions)]
    BY DEF Init
  <2>2. 0 \in Revisions
    BY DEF Revisions
  <2>3. pc \in [Sockets -> {"new", "read", "cleanup", "closed"} \cup Told]
    BY DEF Init
  <2> QED
    BY <2>1, <2>2, <2>3 DEF Init, TypeOK
<1> QED
  BY <1>1, TypeStep, PTL DEF Spec

-----------------------------------------------------------------------------
(***************************************************************************)
(* The inductive invariant.                                                *)
(***************************************************************************)

\* The publisher works on a revision that is committed, for subscribers it
\* has found in the table; a subscription is stale only when the loop is
\* closed.
EngineInv ==
  /\ lastLocal <= revision
  /\ engine # "idle" => lastLocal # 0
  /\ engine # "fanout" => targets = {}
  /\ stale # {} => loopClosed

\* Nothing travels to a socket before it subscribes, and a getter has a
\* result only from the wait to the handling.
HandlerInv ==
  \A s \in Sockets :
    /\ pc[s] = "new" =>
         s \notin subscribers /\ s \notin targets
         /\ callbacks[s] = <<>> /\ queue[s] = 0 /\ got[s] = 0
    /\ got[s] # 0 => pc[s] \in {"wait", "cancelReceiver", "handle"}

\* A handler knows no revision that is not committed.
SeenInv == \A s \in Sockets : seen[s] <= revision

\* Nothing on its way to s is newer than the last local commit; what the
\* publisher still has to send to s is newer than all of it.
Bounded(s) ==
  /\ \A i \in 1 .. Len(callbacks[s]) : callbacks[s][i] # 0 /\ callbacks[s][i] <= lastLocal
  /\ queue[s] <= lastLocal /\ got[s] <= lastLocal

Behind(s) ==
  /\ \A i \in 1 .. Len(callbacks[s]) : callbacks[s][i] < lastLocal
  /\ queue[s] < lastLocal /\ got[s] < lastLocal

OrderInv ==
  \A s \in Sockets :
    /\ Bounded(s)
    /\ engine = "publish" \/ s \in targets => Behind(s)

\* The handler is subscribed, and has not begun to end.
Listening(s) == ~loopClosed /\ pc[s] \in {"read"} \cup Told

\* Nothing is on its way to s.
Silent(s) == callbacks[s] = <<>> /\ queue[s] = 0 /\ got[s] = 0

\* Whatever travels to a listening handler ends with the last local commit,
\* or that is still to be sent; if nothing travels the handler has it, or
\* lost it.
OnPath(s) ==
  /\ Listening(s) /\ ~Silent(s) => Pending(s) \/ Newest(s) = lastLocal
  /\ Running(s) /\ Silent(s) /\ seen[s] < lastLocal => Pending(s) \/ dropped[s] = lastLocal

PathInv == \A s \in Sockets : OnPath(s)

IInv ==
  EngineInv /\ HandlerInv /\ SubscribedWhileRunning /\ OrderInv /\ BusInOrder
  /\ SeenInv /\ PathInv
-----------------------------------------------------------------------------
\* The publisher has what it publishes from a commit.
LEMMA EngineStep ==
  ASSUME TypeOK, TypeOK', EngineInv, [Next]_vars
  PROVE  EngineInv'
<1> USE DEF TypeOK, Revisions, Told, Loop, store, bus, tasks, world, handlers,
            others, Goto, EngineInv
<1>1. CASE LocalCommit
  BY <1>1 DEF LocalCommit
<1>2. CASE OtherCommit
  BY <1>2 DEF OtherCommit
<1>3. CASE Snapshot
  BY <1>3 DEF Snapshot
<1>4. ASSUME NEW s \in Sockets, PublishTo(s) PROVE EngineInv'
  BY <1>4 DEF PublishTo
<1>5. CASE EndFanout
  BY <1>5 DEF EndFanout
<1>6. CASE Prune
  BY <1>6 DEF Prune
<1>7. ASSUME NEW s \in Sockets, RunCallback(s) PROVE EngineInv'
  BY <1>7 DEF RunCallback, Offer
<1>8. ASSUME NEW s \in Sockets, TakeRevision(s) PROVE EngineInv'
  BY <1>8 DEF TakeRevision, GetterRuns
<1>9. ASSUME NEW s \in Sockets, TakeText(s) PROVE EngineInv'
  BY <1>9 DEF TakeText, TakeFrame
<1>10. ASSUME NEW s \in Sockets, TakeDisconnect(s) PROVE EngineInv'
  BY <1>10 DEF TakeDisconnect, TakeFrame
<1>11. ASSUME NEW s \in Sockets, Refuse(s) PROVE EngineInv'
  BY <1>11 DEF Refuse
<1>12. ASSUME NEW s \in Sockets, Admit(s) PROVE EngineInv'
  BY <1>12 DEF Admit
<1>13. ASSUME NEW s \in Sockets, ReadRevision(s) PROVE EngineInv'
  BY <1>13 DEF ReadRevision, FirstRead
<1>14. ASSUME NEW s \in Sockets, Accept(s) PROVE EngineInv'
  BY <1>14 DEF Accept, SendThen
<1>15. ASSUME NEW s \in Sockets, Wake(s) PROVE EngineInv'
  BY <1>15 DEF Wake
<1>16. ASSUME NEW s \in Sockets, TimeOut(s) PROVE EngineInv'
  BY <1>16 DEF TimeOut
<1>17. ASSUME NEW s \in Sockets, CancelGetter(s) PROVE EngineInv'
  BY <1>17 DEF CancelGetter
<1>18. ASSUME NEW s \in Sockets, CancelReceiver(s) PROVE EngineInv'
  BY <1>18 DEF CancelReceiver
<1>19. ASSUME NEW s \in Sockets, HandleDisconnect(s) PROVE EngineInv'
  BY <1>19 DEF HandleDisconnect
<1>20. ASSUME NEW s \in Sockets, HandleResults(s) PROVE EngineInv'
  BY <1>20 DEF HandleResults, TellThen, SendThen, DueAfter
<1>21. ASSUME NEW s \in Sockets, DbCheck(s) PROVE EngineInv'
  BY <1>21 DEF DbCheck, TellThen, SendThen, DueAfter, FallbackRead
<1>22. ASSUME NEW s \in Sockets, AuthCheck(s) PROVE EngineInv'
  BY <1>22 DEF AuthCheck, SessionIsGood
<1>23. ASSUME NEW s \in Sockets, Heartbeat(s) PROVE EngineInv'
  BY <1>23 DEF Heartbeat, SendThen
<1>24. ASSUME NEW s \in Sockets, NotDue(s) PROVE EngineInv'
  BY <1>24 DEF NotDue
<1>25. ASSUME NEW s \in Sockets, DbFault(s) PROVE EngineInv'
  BY <1>25 DEF DbFault
<1>26. ASSUME NEW s \in Sockets, Cleanup(s) PROVE EngineInv'
  BY <1>26 DEF Cleanup, Unsubscribe
<1>27. ASSUME NEW s \in Sockets, Leave(s) PROVE EngineInv'
  BY <1>27 DEF Leave
<1>28. ASSUME NEW s \in Sockets, Revoke(s) PROVE EngineInv'
  BY <1>28 DEF Revoke
<1>29. CASE LoopCloses
  BY <1>29 DEF LoopCloses
<1>30. ASSUME NEW s \in Sockets, NEW t \in Timers, TimerDue(s, t) PROVE EngineInv'
  BY <1>30 DEF TimerDue
<1>31. CASE UNCHANGED vars
  BY <1>31 DEF vars
<1> QED
  BY <1>1, <1>2, <1>3, <1>4, <1>5, <1>6, <1>7, <1>8, <1>9, <1>10, <1>11, <1>12,
     <1>13, <1>14, <1>15, <1>16, <1>17, <1>18, <1>19, <1>20, <1>21, <1>22, <1>23, <1>24,
     <1>25, <1>26, <1>27, <1>28, <1>29, <1>30, <1>31
     DEF Next, Engine, Handler, Environment

\* The steps between the start of the getter task and the use of its result.
GetterPhase == {"wait", "cancelReceiver", "handle"}

\* A handler without a getter task moves without any effect on HandlerInv.
LEMMA MoveKeepsHandler ==
  ASSUME TypeOK, HandlerInv, UNCHANGED <<subscribers, targets, callbacks, queue, got>>,
         NEW s \in Sockets, pc[s] \in Told \ GetterPhase,
         NEW step \in Told \cup {"cleanup"}, pc' = [pc EXCEPT ![s] = step]
  PROVE  HandlerInv'
BY DEF TypeOK, HandlerInv, Told, Loop, GetterPhase

\* A handler that has not begun is unknown to the bus; a result of the
\* getter is handled, discarded or lost before the next wait.
LEMMA HandlerStep ==
  ASSUME TypeOK, TypeOK', EngineInv, HandlerInv, [Next]_vars
  PROVE  HandlerInv'
<1> USE DEF TypeOK, Revisions, Told, Loop, store, bus, tasks, world, handlers,
            others, Goto, EngineInv, HandlerInv
<1>1. CASE LocalCommit
  BY <1>1 DEF LocalCommit
<1>2. CASE OtherCommit
  BY <1>2 DEF OtherCommit
<1>3. CASE Snapshot
  BY <1>3 DEF Snapshot
<1>4. ASSUME NEW s \in Sockets, PublishTo(s) PROVE HandlerInv'
  BY <1>4 DEF PublishTo
<1>5. CASE EndFanout
  BY <1>5 DEF EndFanout
<1>6. CASE Prune
  BY <1>6 DEF Prune
<1>7. ASSUME NEW s \in Sockets, RunCallback(s) PROVE HandlerInv'
  BY <1>7 DEF RunCallback, Offer
<1>8. ASSUME NEW s \in Sockets, TakeRevision(s) PROVE HandlerInv'
  BY <1>8 DEF TakeRevision, GetterRuns
<1>9. ASSUME NEW s \in Sockets, TakeText(s) PROVE HandlerInv'
  BY <1>9 DEF TakeText, TakeFrame
<1>10. ASSUME NEW s \in Sockets, TakeDisconnect(s) PROVE HandlerInv'
  BY <1>10 DEF TakeDisconnect, TakeFrame
<1>11. ASSUME NEW s \in Sockets, Refuse(s) PROVE HandlerInv'
  BY <1>11 DEF Refuse
<1>12. ASSUME NEW s \in Sockets, Admit(s) PROVE HandlerInv'
  BY <1>12 DEF Admit
<1>13. ASSUME NEW s \in Sockets, ReadRevision(s) PROVE HandlerInv'
  BY <1>13 DEF ReadRevision, FirstRead
<1>14. ASSUME NEW s \in Sockets, Accept(s) PROVE HandlerInv'
  <2>1. pc[s] \in Told \ GetterPhase /\ UNCHANGED <<subscribers, targets, callbacks, queue, got>>
    BY <1>14 DEF Accept, GetterPhase
  <2>2. PICK step \in Told \cup {"cleanup"} : pc' = [pc EXCEPT ![s] = step]
    BY <1>14 DEF Accept, SendThen
  <2> QED
    BY <2>1, <2>2, MoveKeepsHandler
<1>15. ASSUME NEW s \in Sockets, Wake(s) PROVE HandlerInv'
  BY <1>15 DEF Wake
<1>16. ASSUME NEW s \in Sockets, TimeOut(s) PROVE HandlerInv'
  BY <1>16 DEF TimeOut
<1>17. ASSUME NEW s \in Sockets, CancelGetter(s) PROVE HandlerInv'
  BY <1>17 DEF CancelGetter
<1>18. ASSUME NEW s \in Sockets, CancelReceiver(s) PROVE HandlerInv'
  BY <1>18 DEF CancelReceiver
<1>19. ASSUME NEW s \in Sockets, HandleDisconnect(s) PROVE HandlerInv'
  BY <1>19 DEF HandleDisconnect
<1>20. ASSUME NEW s \in Sockets, HandleResults(s) PROVE HandlerInv'
  <2>1. PICK step \in {"db", "cleanup"} : pc' = [pc EXCEPT ![s] = step]
    BY <1>20 DEF HandleResults, TellThen, SendThen
  <2>2. got' = [got EXCEPT ![s] = 0]
        /\ UNCHANGED <<subscribers, targets, callbacks, queue>>
    BY <1>20 DEF HandleResults
  <2> QED
    BY <2>1, <2>2
<1>21. ASSUME NEW s \in Sockets, DbCheck(s) PROVE HandlerInv'
  <2>1. pc[s] \in Told \ GetterPhase /\ UNCHANGED <<subscribers, targets, callbacks, queue, got>>
    BY <1>21 DEF DbCheck, GetterPhase
  <2>2. PICK step \in Told \cup {"cleanup"} : pc' = [pc EXCEPT ![s] = step]
    BY <1>21 DEF DbCheck, TellThen, SendThen
  <2> QED
    BY <2>1, <2>2, MoveKeepsHandler
<1>22. ASSUME NEW s \in Sockets, AuthCheck(s) PROVE HandlerInv'
  <2>1. pc[s] \in Told \ GetterPhase /\ UNCHANGED <<subscribers, targets, callbacks, queue, got>>
    BY <1>22 DEF AuthCheck, GetterPhase
  <2>2. PICK step \in Told \cup {"cleanup"} : pc' = [pc EXCEPT ![s] = step]
    BY <1>22 DEF AuthCheck, SessionIsGood
  <2> QED
    BY <2>1, <2>2, MoveKeepsHandler
<1>23. ASSUME NEW s \in Sockets, Heartbeat(s) PROVE HandlerInv'
  <2>1. pc[s] \in Told \ GetterPhase /\ UNCHANGED <<subscribers, targets, callbacks, queue, got>>
    BY <1>23 DEF Heartbeat, GetterPhase
  <2>2. PICK step \in Told \cup {"cleanup"} : pc' = [pc EXCEPT ![s] = step]
    BY <1>23 DEF Heartbeat, SendThen
  <2> QED
    BY <2>1, <2>2, MoveKeepsHandler
<1>24. ASSUME NEW s \in Sockets, NotDue(s) PROVE HandlerInv'
  <2>1. pc[s] \in Told \ GetterPhase /\ UNCHANGED <<subscribers, targets, callbacks, queue, got>>
    BY <1>24 DEF NotDue, GetterPhase
  <2>2. PICK step \in Told \cup {"cleanup"} : pc' = [pc EXCEPT ![s] = step]
    BY <1>24 DEF NotDue
  <2> QED
    BY <2>1, <2>2, MoveKeepsHandler
<1>25. ASSUME NEW s \in Sockets, DbFault(s) PROVE HandlerInv'
  BY <1>25 DEF DbFault
<1>26. ASSUME NEW s \in Sockets, Cleanup(s) PROVE HandlerInv'
  BY <1>26 DEF Cleanup, Unsubscribe
<1>27. ASSUME NEW s \in Sockets, Leave(s) PROVE HandlerInv'
  BY <1>27 DEF Leave
<1>28. ASSUME NEW s \in Sockets, Revoke(s) PROVE HandlerInv'
  BY <1>28 DEF Revoke
<1>29. CASE LoopCloses
  BY <1>29 DEF LoopCloses
<1>30. ASSUME NEW s \in Sockets, NEW t \in Timers, TimerDue(s, t) PROVE HandlerInv'
  BY <1>30 DEF TimerDue
<1>31. CASE UNCHANGED vars
  BY <1>31 DEF vars
<1> QED
  BY <1>1, <1>2, <1>3, <1>4, <1>5, <1>6, <1>7, <1>8, <1>9, <1>10, <1>11, <1>12,
     <1>13, <1>14, <1>15, <1>16, <1>17, <1>18, <1>19, <1>20, <1>21, <1>22, <1>23, <1>24,
     <1>25, <1>26, <1>27, <1>28, <1>29, <1>30, <1>31
     DEF Next, Engine, Handler, Environment

\* A handler that moves on in its loop, or to its cleanup, stays subscribed.
LEMMA MoveKeepsSubscription ==
  ASSUME TypeOK, SubscribedWhileRunning, UNCHANGED <<subscribers, loopClosed>>,
         NEW s \in Sockets, pc[s] \in Told,
         NEW step \in Told \cup {"cleanup"}, pc' = [pc EXCEPT ![s] = step]
  PROVE  SubscribedWhileRunning'
BY DEF TypeOK, SubscribedWhileRunning, Told, Loop

\* Only its own cleanup, or the end of the loop, takes a handler out of the
\* table.
LEMMA SubscribedStep ==
  ASSUME TypeOK, TypeOK', EngineInv, HandlerInv, SubscribedWhileRunning, [Next]_vars
  PROVE  SubscribedWhileRunning'
<1> USE DEF TypeOK, Revisions, Told, Loop, store, bus, tasks, world, handlers,
            others, Goto, EngineInv, SubscribedWhileRunning
<1>1. CASE LocalCommit
  BY <1>1 DEF LocalCommit
<1>2. CASE OtherCommit
  BY <1>2 DEF OtherCommit
<1>3. CASE Snapshot
  BY <1>3 DEF Snapshot
<1>4. ASSUME NEW s \in Sockets, PublishTo(s) PROVE SubscribedWhileRunning'
  BY <1>4 DEF PublishTo
<1>5. CASE EndFanout
  BY <1>5 DEF EndFanout
<1>6. CASE Prune
  BY <1>6 DEF Prune
<1>7. ASSUME NEW s \in Sockets, RunCallback(s) PROVE SubscribedWhileRunning'
  BY <1>7 DEF RunCallback, Offer
<1>8. ASSUME NEW s \in Sockets, TakeRevision(s) PROVE SubscribedWhileRunning'
  BY <1>8 DEF TakeRevision, GetterRuns
<1>9. ASSUME NEW s \in Sockets, TakeText(s) PROVE SubscribedWhileRunning'
  BY <1>9 DEF TakeText, TakeFrame
<1>10. ASSUME NEW s \in Sockets, TakeDisconnect(s) PROVE SubscribedWhileRunning'
  BY <1>10 DEF TakeDisconnect, TakeFrame
<1>11. ASSUME NEW s \in Sockets, Refuse(s) PROVE SubscribedWhileRunning'
  BY <1>11 DEF Refuse
<1>12. ASSUME NEW s \in Sockets, Admit(s) PROVE SubscribedWhileRunning'
  BY <1>12 DEF Admit
<1>13. ASSUME NEW s \in Sockets, ReadRevision(s) PROVE SubscribedWhileRunning'
  BY <1>13 DEF ReadRevision, FirstRead
<1>14. ASSUME NEW s \in Sockets, Accept(s) PROVE SubscribedWhileRunning'
  <2>1. pc[s] \in Told /\ UNCHANGED <<subscribers, loopClosed>>
    BY <1>14 DEF Accept
  <2>2. PICK step \in Told \cup {"cleanup"} : pc' = [pc EXCEPT ![s] = step]
    BY <1>14 DEF Accept, SendThen
  <2> QED
    BY <2>1, <2>2, MoveKeepsSubscription
<1>15. ASSUME NEW s \in Sockets, Wake(s) PROVE SubscribedWhileRunning'
  BY <1>15 DEF Wake
<1>16. ASSUME NEW s \in Sockets, TimeOut(s) PROVE SubscribedWhileRunning'
  BY <1>16 DEF TimeOut
<1>17. ASSUME NEW s \in Sockets, CancelGetter(s) PROVE SubscribedWhileRunning'
  BY <1>17 DEF CancelGetter
<1>18. ASSUME NEW s \in Sockets, CancelReceiver(s) PROVE SubscribedWhileRunning'
  BY <1>18 DEF CancelReceiver
<1>19. ASSUME NEW s \in Sockets, HandleDisconnect(s) PROVE SubscribedWhileRunning'
  BY <1>19 DEF HandleDisconnect
<1>20. ASSUME NEW s \in Sockets, HandleResults(s) PROVE SubscribedWhileRunning'
  <2>1. pc[s] \in Told /\ UNCHANGED <<subscribers, loopClosed>>
    BY <1>20 DEF HandleResults
  <2>2. PICK step \in Told \cup {"cleanup"} : pc' = [pc EXCEPT ![s] = step]
    BY <1>20 DEF HandleResults, TellThen, SendThen
  <2> QED
    BY <2>1, <2>2, MoveKeepsSubscription
<1>21. ASSUME NEW s \in Sockets, DbCheck(s) PROVE SubscribedWhileRunning'
  <2>1. pc[s] \in Told /\ UNCHANGED <<subscribers, loopClosed>>
    BY <1>21 DEF DbCheck
  <2>2. PICK step \in Told \cup {"cleanup"} : pc' = [pc EXCEPT ![s] = step]
    BY <1>21 DEF DbCheck, TellThen, SendThen
  <2> QED
    BY <2>1, <2>2, MoveKeepsSubscription
<1>22. ASSUME NEW s \in Sockets, AuthCheck(s) PROVE SubscribedWhileRunning'
  <2>1. pc[s] \in Told /\ UNCHANGED <<subscribers, loopClosed>>
    BY <1>22 DEF AuthCheck
  <2>2. PICK step \in Told \cup {"cleanup"} : pc' = [pc EXCEPT ![s] = step]
    BY <1>22 DEF AuthCheck, SessionIsGood
  <2> QED
    BY <2>1, <2>2, MoveKeepsSubscription
<1>23. ASSUME NEW s \in Sockets, Heartbeat(s) PROVE SubscribedWhileRunning'
  <2>1. pc[s] \in Told /\ UNCHANGED <<subscribers, loopClosed>>
    BY <1>23 DEF Heartbeat
  <2>2. PICK step \in Told \cup {"cleanup"} : pc' = [pc EXCEPT ![s] = step]
    BY <1>23 DEF Heartbeat, SendThen
  <2> QED
    BY <2>1, <2>2, MoveKeepsSubscription
<1>24. ASSUME NEW s \in Sockets, NotDue(s) PROVE SubscribedWhileRunning'
  <2>1. pc[s] \in Told /\ UNCHANGED <<subscribers, loopClosed>>
    BY <1>24 DEF NotDue
  <2>2. PICK step \in Told \cup {"cleanup"} : pc' = [pc EXCEPT ![s] = step]
    BY <1>24 DEF NotDue
  <2> QED
    BY <2>1, <2>2, MoveKeepsSubscription
<1>25. ASSUME NEW s \in Sockets, DbFault(s) PROVE SubscribedWhileRunning'
  BY <1>25 DEF DbFault
<1>26. ASSUME NEW s \in Sockets, Cleanup(s) PROVE SubscribedWhileRunning'
  BY <1>26 DEF Cleanup, Unsubscribe
<1>27. ASSUME NEW s \in Sockets, Leave(s) PROVE SubscribedWhileRunning'
  BY <1>27 DEF Leave
<1>28. ASSUME NEW s \in Sockets, Revoke(s) PROVE SubscribedWhileRunning'
  BY <1>28 DEF Revoke
<1>29. CASE LoopCloses
  BY <1>29 DEF LoopCloses
<1>30. ASSUME NEW s \in Sockets, NEW t \in Timers, TimerDue(s, t) PROVE SubscribedWhileRunning'
  BY <1>30 DEF TimerDue
<1>31. CASE UNCHANGED vars
  BY <1>31 DEF vars
<1> QED
  BY <1>1, <1>2, <1>3, <1>4, <1>5, <1>6, <1>7, <1>8, <1>9, <1>10, <1>11, <1>12,
     <1>13, <1>14, <1>15, <1>16, <1>17, <1>18, <1>19, <1>20, <1>21, <1>22, <1>23, <1>24,
     <1>25, <1>26, <1>27, <1>28, <1>29, <1>30, <1>31
     DEF Next, Engine, Handler, Environment

-----------------------------------------------------------------------------
\* What is left of a nonempty sequence of callbacks when the first has run.
LEMMA TailFacts ==
  ASSUME NEW q \in Seq(Revisions), q # <<>>
  PROVE  /\ Len(q) \in Nat /\ Len(q) > 0 /\ Head(q) = q[1]
         /\ Tail(q) \in Seq(Revisions) /\ Len(Tail(q)) = Len(q) - 1
         /\ \A i \in 1 .. Len(Tail(q)) : Tail(q)[i] = q[i + 1]
OBVIOUS

\* A sequence without elements is empty.
LEMMA EmptyFacts ==
  ASSUME NEW q \in Seq(Revisions)
  PROVE  q = <<>> <=> Len(q) = 0
OBVIOUS

\* A callback added at the end.
LEMMA AppendFacts ==
  ASSUME NEW q \in Seq(Revisions), NEW r \in Revisions
  PROVE  /\ Append(q, r) \in Seq(Revisions) /\ Len(Append(q, r)) = Len(q) + 1
         /\ Append(q, r)[Len(q) + 1] = r /\ Append(q, r) # <<>>
         /\ \A i \in 1 .. Len(q) : Append(q, r)[i] = q[i]
OBVIOUS

\* The order of the revisions on their way to one socket.
Sorted(s) ==
  /\ \A i, j \in 1 .. Len(callbacks[s]) : i < j => callbacks[s][i] < callbacks[s][j]
  /\ \A i \in 1 .. Len(callbacks[s]) :
       queue[s] < callbacks[s][i] /\ got[s] < callbacks[s][i]
  /\ queue[s] # 0 => got[s] < queue[s]

\* A step that only forgets the getter's result keeps the order.
LEMMA ForgetKeepsOrder ==
  ASSUME TypeOK, OrderInv, BusInOrder, NEW s \in Sockets, got' = [got EXCEPT ![s] = 0],
         UNCHANGED <<callbacks, queue, lastLocal, engine, targets>>
  PROVE  OrderInv' /\ BusInOrder'
<1> SUFFICES ASSUME NEW v \in Sockets
             PROVE  (/\ Bounded(v) /\ (engine = "publish" \/ v \in targets => Behind(v))
                     /\ Sorted(v))'
  BY DEF OrderInv, BusInOrder, Sorted
<1>1. Bounded(v) /\ (engine = "publish" \/ v \in targets => Behind(v)) /\ Sorted(v)
  BY DEF OrderInv, BusInOrder, Sorted
<1>2. got'[v] \in {0, got[v]} /\ got[v] \in Nat /\ queue[v] \in Nat /\ lastLocal \in Nat
      /\ \A i \in 1 .. Len(callbacks[v]) : callbacks[v][i] \in Nat
  BY DEF TypeOK, Revisions
<1> QED
  BY <1>1, <1>2 DEF Bounded, Behind, Sorted

\* Each publication is newer than the one before, and the path of a socket is
\* first in, first out.
LEMMA OrderStep ==
  ASSUME TypeOK, TypeOK', EngineInv, HandlerInv, OrderInv, BusInOrder, [Next]_vars
  PROVE  OrderInv' /\ BusInOrder'
<1> USE DEF TypeOK, Revisions, store, bus, tasks, world, handlers, others, EngineInv,
            OrderInv, Bounded, Behind, BusInOrder
<1>1. CASE LocalCommit
  BY <1>1 DEF LocalCommit
<1>2. CASE OtherCommit
  BY <1>2 DEF OtherCommit
<1>3. CASE Snapshot
  BY <1>3 DEF Snapshot
<1>4. ASSUME NEW s \in Sockets, PublishTo(s) PROVE OrderInv' /\ BusInOrder'
  <2>1. CASE loopClosed
    BY <1>4, <2>1 DEF PublishTo
  <2>2. CASE ~loopClosed
    <3> DEFINE q == callbacks[s]
    <3>1. /\ Bounded(s) /\ Behind(s) /\ Sorted(s)
          /\ q \in Seq(Revisions) /\ lastLocal \in Revisions /\ lastLocal # 0
      BY <1>4 DEF PublishTo, Sorted
    <3>2. /\ callbacks' = [callbacks EXCEPT ![s] = Append(q, lastLocal)]
          /\ targets' = targets \ {s} /\ engine = "fanout"
          /\ UNCHANGED <<queue, got, lastLocal, engine>>
      BY <1>4, <2>2 DEF PublishTo
    <3>3. callbacks'[s] = Append(q, lastLocal)
      BY <3>2
    <3>4. \A i \in 1 .. Len(callbacks'[s]) : i \in 1 .. Len(q) \/ i = Len(q) + 1
      BY <3>1, <3>3, AppendFacts
    <3>5. Bounded(s)' /\ Sorted(s)'
      BY <3>1, <3>2, <3>3, <3>4, AppendFacts DEF Sorted
    <3>6. ASSUME NEW v \in Sockets, v # s PROVE
             (Bounded(v) /\ (engine = "publish" \/ v \in targets => Behind(v)) /\ Sorted(v))'
      BY <3>2, <3>6 DEF Sorted
    <3> QED
      BY <3>2, <3>5, <3>6 DEF Sorted
  <2> QED
    BY <2>1, <2>2
<1>5. CASE EndFanout
  BY <1>5 DEF EndFanout
<1>6. CASE Prune
  BY <1>6 DEF Prune
<1>7. ASSUME NEW s \in Sockets, RunCallback(s) PROVE OrderInv' /\ BusInOrder'
  <2> DEFINE q == callbacks[s]
  <2>1. /\ Bounded(s) /\ Sorted(s) /\ (engine = "publish" \/ s \in targets => Behind(s))
        /\ q \in Seq(Revisions) /\ q # <<>>
    BY <1>7 DEF RunCallback, Sorted
  <2>2. /\ callbacks' = [callbacks EXCEPT ![s] = Tail(q)] /\ queue' = [queue EXCEPT ![s] = Head(q)]
        /\ UNCHANGED <<got, lastLocal, engine, targets>>
    BY <1>7 DEF RunCallback, Offer
  <2>3. callbacks'[s] = Tail(q) /\ queue'[s] = q[1]
    BY <2>1, <2>2, TailFacts
  <2>4. \A i \in 1 .. Len(callbacks'[s]) :
          i + 1 \in 1 .. Len(q) /\ 1 < i + 1 /\ callbacks'[s][i] = q[i + 1]
    BY <2>1, <2>3, TailFacts
  <2>5. 1 \in 1 .. Len(q)
    BY <2>1, TailFacts
  <2>6. Bounded(s)' /\ (engine = "publish" \/ s \in targets => Behind(s))'
    BY <2>1, <2>2, <2>3, <2>4, <2>5
  <2>7. Sorted(s)'
    BY <2>1, <2>2, <2>3, <2>4, <2>5 DEF Sorted
  <2>8. ASSUME NEW v \in Sockets, v # s PROVE
          (Bounded(v) /\ (engine = "publish" \/ v \in targets => Behind(v)) /\ Sorted(v))'
    BY <2>2, <2>8 DEF Sorted
  <2> QED
    BY <2>6, <2>7, <2>8 DEF Sorted
<1>8. ASSUME NEW s \in Sockets, TakeRevision(s) PROVE OrderInv' /\ BusInOrder'
  BY <1>8 DEF TakeRevision, GetterRuns
<1>9. ASSUME NEW s \in Sockets, TakeText(s) PROVE OrderInv' /\ BusInOrder'
  BY <1>9 DEF TakeText, TakeFrame
<1>10. ASSUME NEW s \in Sockets, TakeDisconnect(s) PROVE OrderInv' /\ BusInOrder'
  BY <1>10 DEF TakeDisconnect, TakeFrame
<1>11. ASSUME NEW s \in Sockets, Refuse(s) PROVE OrderInv' /\ BusInOrder'
  BY <1>11 DEF Refuse
<1>12. ASSUME NEW s \in Sockets, Admit(s) PROVE OrderInv' /\ BusInOrder'
  BY <1>12 DEF Admit
<1>13. ASSUME NEW s \in Sockets, ReadRevision(s) PROVE OrderInv' /\ BusInOrder'
  BY <1>13 DEF ReadRevision, FirstRead
<1>14. ASSUME NEW s \in Sockets, Accept(s) PROVE OrderInv' /\ BusInOrder'
  BY <1>14 DEF Accept, SendThen
<1>15. ASSUME NEW s \in Sockets, Wake(s) PROVE OrderInv' /\ BusInOrder'
  BY <1>15 DEF Wake
<1>16. ASSUME NEW s \in Sockets, TimeOut(s) PROVE OrderInv' /\ BusInOrder'
  BY <1>16 DEF TimeOut
<1>17. ASSUME NEW s \in Sockets, CancelGetter(s) PROVE OrderInv' /\ BusInOrder'
  <2>1. got' = [got EXCEPT ![s] = 0] /\ UNCHANGED <<callbacks, queue, lastLocal, engine, targets>>
    BY <1>17 DEF CancelGetter
  <2> QED
    BY <2>1, ForgetKeepsOrder
<1>18. ASSUME NEW s \in Sockets, CancelReceiver(s) PROVE OrderInv' /\ BusInOrder'
  BY <1>18 DEF CancelReceiver
<1>19. ASSUME NEW s \in Sockets, HandleDisconnect(s) PROVE OrderInv' /\ BusInOrder'
  <2>1. got' = [got EXCEPT ![s] = 0] /\ UNCHANGED <<callbacks, queue, lastLocal, engine, targets>>
    BY <1>19 DEF HandleDisconnect
  <2> QED
    BY <2>1, ForgetKeepsOrder
<1>20. ASSUME NEW s \in Sockets, HandleResults(s) PROVE OrderInv' /\ BusInOrder'
  <2>1. got' = [got EXCEPT ![s] = 0] /\ UNCHANGED <<callbacks, queue, lastLocal, engine, targets>>
    BY <1>20 DEF HandleResults
  <2> QED
    BY <2>1, ForgetKeepsOrder
<1>21. ASSUME NEW s \in Sockets, DbCheck(s) PROVE OrderInv' /\ BusInOrder'
  BY <1>21 DEF DbCheck, TellThen, SendThen, DueAfter, FallbackRead
<1>22. ASSUME NEW s \in Sockets, AuthCheck(s) PROVE OrderInv' /\ BusInOrder'
  BY <1>22 DEF AuthCheck, SessionIsGood
<1>23. ASSUME NEW s \in Sockets, Heartbeat(s) PROVE OrderInv' /\ BusInOrder'
  BY <1>23 DEF Heartbeat, SendThen
<1>24. ASSUME NEW s \in Sockets, NotDue(s) PROVE OrderInv' /\ BusInOrder'
  BY <1>24 DEF NotDue
<1>25. ASSUME NEW s \in Sockets, DbFault(s) PROVE OrderInv' /\ BusInOrder'
  <2>1. got' = [got EXCEPT ![s] = 0] /\ UNCHANGED <<callbacks, queue, lastLocal, engine, targets>>
    BY <1>25 DEF DbFault
  <2> QED
    BY <2>1, ForgetKeepsOrder
<1>26. ASSUME NEW s \in Sockets, Cleanup(s) PROVE OrderInv' /\ BusInOrder'
  BY <1>26 DEF Cleanup, Unsubscribe
<1>27. ASSUME NEW s \in Sockets, Leave(s) PROVE OrderInv' /\ BusInOrder'
  BY <1>27 DEF Leave
<1>28. ASSUME NEW s \in Sockets, Revoke(s) PROVE OrderInv' /\ BusInOrder'
  BY <1>28 DEF Revoke
<1>29. CASE LoopCloses
  BY <1>29 DEF LoopCloses
<1>30. ASSUME NEW s \in Sockets, NEW t \in Timers, TimerDue(s, t) PROVE OrderInv' /\ BusInOrder'
  BY <1>30 DEF TimerDue
<1>31. CASE UNCHANGED vars
  BY <1>31 DEF vars
<1> QED
  BY <1>1, <1>2, <1>3, <1>4, <1>5, <1>6, <1>7, <1>8, <1>9, <1>10, <1>11, <1>12,
     <1>13, <1>14, <1>15, <1>16, <1>17, <1>18, <1>19, <1>20, <1>21, <1>22, <1>23, <1>24,
     <1>25, <1>26, <1>27, <1>28, <1>29, <1>30, <1>31
     DEF Next, Engine, Handler, Environment

\* The handler learns revisions from the bus and from the database only.
LEMMA SeenStep ==
  ASSUME TypeOK, TypeOK', EngineInv, OrderInv, SeenInv, [Next]_vars
  PROVE  SeenInv'
<1> USE DEF TypeOK, Revisions, store, bus, tasks, world, handlers, others, EngineInv,
            OrderInv, Bounded, SeenInv
<1>1. CASE LocalCommit
  BY <1>1 DEF LocalCommit
<1>2. CASE OtherCommit
  BY <1>2 DEF OtherCommit
<1>3. CASE Snapshot
  BY <1>3 DEF Snapshot
<1>4. ASSUME NEW s \in Sockets, PublishTo(s) PROVE SeenInv'
  BY <1>4 DEF PublishTo
<1>5. CASE EndFanout
  BY <1>5 DEF EndFanout
<1>6. CASE Prune
  BY <1>6 DEF Prune
<1>7. ASSUME NEW s \in Sockets, RunCallback(s) PROVE SeenInv'
  BY <1>7 DEF RunCallback, Offer
<1>8. ASSUME NEW s \in Sockets, TakeRevision(s) PROVE SeenInv'
  BY <1>8 DEF TakeRevision, GetterRuns
<1>9. ASSUME NEW s \in Sockets, TakeText(s) PROVE SeenInv'
  BY <1>9 DEF TakeText, TakeFrame
<1>10. ASSUME NEW s \in Sockets, TakeDisconnect(s) PROVE SeenInv'
  BY <1>10 DEF TakeDisconnect, TakeFrame
<1>11. ASSUME NEW s \in Sockets, Refuse(s) PROVE SeenInv'
  BY <1>11 DEF Refuse
<1>12. ASSUME NEW s \in Sockets, Admit(s) PROVE SeenInv'
  BY <1>12 DEF Admit
<1>13. ASSUME NEW s \in Sockets, ReadRevision(s) PROVE SeenInv'
  BY <1>13 DEF ReadRevision, FirstRead
<1>14. ASSUME NEW s \in Sockets, Accept(s) PROVE SeenInv'
  BY <1>14 DEF Accept, SendThen
<1>15. ASSUME NEW s \in Sockets, Wake(s) PROVE SeenInv'
  BY <1>15 DEF Wake
<1>16. ASSUME NEW s \in Sockets, TimeOut(s) PROVE SeenInv'
  BY <1>16 DEF TimeOut
<1>17. ASSUME NEW s \in Sockets, CancelGetter(s) PROVE SeenInv'
  BY <1>17 DEF CancelGetter
<1>18. ASSUME NEW s \in Sockets, CancelReceiver(s) PROVE SeenInv'
  BY <1>18 DEF CancelReceiver
<1>19. ASSUME NEW s \in Sockets, HandleDisconnect(s) PROVE SeenInv'
  BY <1>19 DEF HandleDisconnect
<1>20. ASSUME NEW s \in Sockets, HandleResults(s) PROVE SeenInv'
  <2>1. PICK r \in {got[s], seen[s]} : seen' = [seen EXCEPT ![s] = r] \/ seen' = seen
    BY <1>20 DEF HandleResults, TellThen
  <2>2. r <= revision /\ revision' = revision
    BY <1>20, <2>1 DEF HandleResults
  <2> QED
    BY <2>1, <2>2
<1>21. ASSUME NEW s \in Sockets, DbCheck(s) PROVE SeenInv'
  BY <1>21 DEF DbCheck, TellThen, SendThen, DueAfter, FallbackRead
<1>22. ASSUME NEW s \in Sockets, AuthCheck(s) PROVE SeenInv'
  BY <1>22 DEF AuthCheck, SessionIsGood
<1>23. ASSUME NEW s \in Sockets, Heartbeat(s) PROVE SeenInv'
  BY <1>23 DEF Heartbeat, SendThen
<1>24. ASSUME NEW s \in Sockets, NotDue(s) PROVE SeenInv'
  BY <1>24 DEF NotDue
<1>25. ASSUME NEW s \in Sockets, DbFault(s) PROVE SeenInv'
  BY <1>25 DEF DbFault
<1>26. ASSUME NEW s \in Sockets, Cleanup(s) PROVE SeenInv'
  BY <1>26 DEF Cleanup, Unsubscribe
<1>27. ASSUME NEW s \in Sockets, Leave(s) PROVE SeenInv'
  BY <1>27 DEF Leave
<1>28. ASSUME NEW s \in Sockets, Revoke(s) PROVE SeenInv'
  BY <1>28 DEF Revoke
<1>29. CASE LoopCloses
  BY <1>29 DEF LoopCloses
<1>30. ASSUME NEW s \in Sockets, NEW t \in Timers, TimerDue(s, t) PROVE SeenInv'
  BY <1>30 DEF TimerDue
<1>31. CASE UNCHANGED vars
  BY <1>31 DEF vars
<1> QED
  BY <1>1, <1>2, <1>3, <1>4, <1>5, <1>6, <1>7, <1>8, <1>9, <1>10, <1>11, <1>12,
     <1>13, <1>14, <1>15, <1>16, <1>17, <1>18, <1>19, <1>20, <1>21, <1>22, <1>23, <1>24,
     <1>25, <1>26, <1>27, <1>28, <1>29, <1>30, <1>31
     DEF Next, Engine, Handler, Environment

-----------------------------------------------------------------------------
\* A step that changes nothing on the path of v, and does not start its
\* handler, keeps OnPath(v).
LEMMA PathFrame ==
  ASSUME NEW v \in Sockets, OnPath(v),
         callbacks'[v] = callbacks[v], queue'[v] = queue[v], got'[v] = got[v],
         seen'[v] = seen[v], dropped'[v] = dropped[v],
         UNCHANGED <<lastLocal, engine>>,
         v \in targets' <=> v \in targets, v \in subscribers' <=> v \in subscribers,
         Listening(v)' => Listening(v), Running(v)' => Running(v)
  PROVE  OnPath(v)'
BY DEF OnPath, Silent, Pending, Newest

\* A step that changes nothing on any path, and at most moves the handler of s.
LEMMA PathMove ==
  ASSUME TypeOK, PathInv, NEW s \in Sockets,
         UNCHANGED <<callbacks, queue, got, seen, dropped, lastLocal, engine, targets,
                     subscribers, loopClosed>>,
         NEW step, pc' = [pc EXCEPT ![s] = step],
         pc[s] \in Told \/ step \notin Told \cup {"read"}
  PROVE  PathInv'
<1> SUFFICES ASSUME NEW v \in Sockets PROVE OnPath(v)'
  BY DEF PathInv
<1>1. (Listening(v)' => Listening(v)) /\ (Running(v)' => Running(v))
  BY DEF TypeOK, Listening, Running
<1> QED
  BY <1>1, PathFrame DEF PathInv

\* No step takes the last local commit off the path of a listening handler,
\* except to hand it to the handler, or to drop it with the getter.
LEMMA PathStep ==
  ASSUME TypeOK, TypeOK', EngineInv, HandlerInv, SubscribedWhileRunning, OrderInv, PathInv, [Next]_vars
  PROVE  PathInv'
<1> USE DEF TypeOK, store, bus, tasks, world, handlers, others, Goto
<1>1. CASE LocalCommit
  <2> SUFFICES ASSUME NEW v \in Sockets PROVE OnPath(v)'
    BY DEF PathInv
  <2>1. engine' = "publish" /\ UNCHANGED <<subscribers, pc, loopClosed>>
    BY <1>1 DEF LocalCommit
  <2>2. Listening(v)' => v \in subscribers
    BY <2>1 DEF SubscribedWhileRunning, Listening, Told, Loop
  <2> QED
    BY <2>1, <2>2 DEF OnPath, Pending, Listening, Running
<1>2. CASE OtherCommit
  <2> SUFFICES ASSUME NEW v \in Sockets PROVE OnPath(v)'
    BY DEF PathInv
  <2> QED
    BY <1>2, PathFrame DEF OtherCommit, PathInv, Listening, Running
<1>3. CASE Snapshot
  <2> SUFFICES ASSUME NEW v \in Sockets PROVE OnPath(v)'
    BY DEF PathInv
  <2> QED
    BY <1>3 DEF Snapshot, PathInv, OnPath, Pending, Listening, Running, Silent, Newest
<1>4. ASSUME NEW s \in Sockets, PublishTo(s) PROVE PathInv'
  <2>1. ASSUME NEW v \in Sockets, v # s PROVE OnPath(v)'
    BY <1>4, <2>1, PathFrame DEF PublishTo, PathInv, Listening, Running
  <2>2. OnPath(s)'
    <3>1. CASE loopClosed
      BY <1>4, <3>1 DEF PublishTo, OnPath, Listening, Running
    <3>2. CASE ~loopClosed
      <4>1. callbacks'[s] = Append(callbacks[s], lastLocal) /\ lastLocal' = lastLocal
        BY <1>4, <3>2 DEF PublishTo
      <4>2. callbacks[s] \in Seq(Revisions) /\ lastLocal \in Revisions
        OBVIOUS
      <4>3. /\ callbacks'[s] # <<>>
            /\ callbacks'[s][Len(callbacks'[s])] = lastLocal'
        <5> DEFINE q == Append(callbacks[s], lastLocal)
        <5>1. /\ Len(q) = Len(callbacks[s]) + 1 /\ q # <<>>
              /\ q[Len(callbacks[s]) + 1] = lastLocal
          BY <4>2, AppendFacts
        <5> QED
          BY <4>1, <5>1
      <4> QED
        BY <4>3 DEF OnPath, Silent, Newest
    <3> QED
      BY <3>1, <3>2
  <2> QED
    BY <2>1, <2>2 DEF PathInv
<1>5. CASE EndFanout
  <2> SUFFICES ASSUME NEW v \in Sockets PROVE OnPath(v)'
    BY DEF PathInv
  <2> QED
    BY <1>5 DEF EndFanout, PathInv, OnPath, Pending, Listening, Running, Silent, Newest
<1>6. CASE Prune
  <2> SUFFICES ASSUME NEW v \in Sockets PROVE OnPath(v)'
    BY DEF PathInv
  <2>1. stale # {} => loopClosed
    BY DEF EngineInv
  <2> QED
    BY <1>6, <2>1 DEF Prune, PathInv, OnPath, Pending, Listening, Running, Silent, Newest
<1>7. ASSUME NEW s \in Sockets, RunCallback(s) PROVE PathInv'
  <2>1. ASSUME NEW v \in Sockets, v # s PROVE OnPath(v)'
    BY <1>7, <2>1, PathFrame DEF RunCallback, Offer, PathInv, Listening, Running
  <2>2. OnPath(s)'
    <3> DEFINE q == callbacks[s]
    <3>1. q \in Seq(Revisions) /\ q # <<>>
      BY <1>7 DEF RunCallback
    <3>2. /\ callbacks'[s] = Tail(q) /\ queue'[s] = q[1]
          /\ UNCHANGED <<got, pc, loopClosed, lastLocal, engine, targets, subscribers>>
      BY <1>7, <3>1, TailFacts DEF RunCallback, Offer
    <3>3. q[1] # 0
      BY <3>1, TailFacts DEF OrderInv, Bounded
    <3>4. /\ Tail(q) \in Seq(Revisions) /\ Len(Tail(q)) = Len(q) - 1
          /\ Len(q) \in Nat /\ Len(q) > 0
      BY <3>1, TailFacts
    <3>5. Tail(q) = <<>> <=> Len(Tail(q)) = 0
      BY <3>4, EmptyFacts
    <3>6. CASE Len(q) = 1
      <4>1. Tail(q) = <<>>
        BY <3>6, <3>4, <3>5
      <4> QED
        BY <3>1, <3>2, <3>3, <3>6, <4>1 DEF OnPath, PathInv, Pending, Listening, Running,
           Silent, Newest
    <3>7. CASE Len(q) # 1
      <4>1. /\ Len(Tail(q)) \in 1 .. Len(Tail(q)) /\ Len(Tail(q)) + 1 = Len(q)
            /\ Tail(q) # <<>>
        BY <3>7, <3>4, <3>5
      <4>2. Tail(q)[Len(Tail(q))] = q[Len(q)]
        BY <3>1, <4>1, TailFacts
      <4> QED
        BY <3>1, <3>2, <3>3, <4>1, <4>2 DEF OnPath, PathInv, Pending, Listening, Running,
           Silent, Newest
    <3> QED
      BY <3>6, <3>7
  <2> QED
    BY <2>1, <2>2 DEF PathInv
<1>8. ASSUME NEW s \in Sockets, TakeRevision(s) PROVE PathInv'
  <2>1. ASSUME NEW v \in Sockets, v # s PROVE OnPath(v)'
    BY <1>8, <2>1, PathFrame DEF TakeRevision, PathInv, Listening, Running
  <2>2. OnPath(s)'
    <3>1. /\ queue'[s] = 0 /\ got'[s] = queue[s] /\ got[s] = 0 /\ queue[s] # 0
          /\ UNCHANGED <<callbacks, pc, loopClosed, lastLocal, engine, targets, subscribers>>
      BY <1>8 DEF TakeRevision
    <3>2. Newest(s)' = Newest(s) /\ ~Silent(s) /\ ~Silent(s)'
      BY <3>1 DEF Newest, Silent
    <3> QED
      BY <3>1, <3>2 DEF OnPath, PathInv, Pending, Listening, Running
  <2> QED
    BY <2>1, <2>2 DEF PathInv
<1>9. ASSUME NEW s \in Sockets, TakeText(s) PROVE PathInv'
  <2> SUFFICES ASSUME NEW v \in Sockets PROVE OnPath(v)'
    BY DEF PathInv
  <2> QED
    BY <1>9, PathFrame DEF TakeText, TakeFrame, PathInv, Listening, Running
<1>10. ASSUME NEW s \in Sockets, TakeDisconnect(s) PROVE PathInv'
  <2> SUFFICES ASSUME NEW v \in Sockets PROVE OnPath(v)'
    BY DEF PathInv
  <2> QED
    BY <1>10, PathFrame DEF TakeDisconnect, TakeFrame, PathInv, Listening, Running
<1>11. ASSUME NEW s \in Sockets, Refuse(s) PROVE PathInv'
  <2>1. /\ UNCHANGED <<callbacks, queue, got, seen, dropped, lastLocal, engine, targets,
                       subscribers, loopClosed>>
        /\ pc[s] \in Told \/ pc' = [pc EXCEPT ![s] = "closed"]
    BY <1>11 DEF Refuse, Told, Loop
  <2>2. PICK step \in Told \cup {"cleanup", "closed"} : pc' = [pc EXCEPT ![s] = step]
    BY <1>11 DEF Refuse, Told, Loop
  <2> QED
    BY <2>1, <2>2, PathMove DEF Told, Loop
<1>12. ASSUME NEW s \in Sockets, Admit(s) PROVE PathInv'
  <2>1. ASSUME NEW v \in Sockets, v # s PROVE OnPath(v)'
    BY <1>12, <2>1, PathFrame DEF Admit, PathInv, Listening, Running
  <2>2. OnPath(s)'
    <3>1. Silent(s)' /\ pc'[s] = "read"
      BY <1>12 DEF Admit, HandlerInv, Silent
    <3> QED
      BY <3>1 DEF OnPath, Running, Told, Loop
  <2> QED
    BY <2>1, <2>2 DEF PathInv
<1>13. ASSUME NEW s \in Sockets, ReadRevision(s) PROVE PathInv'
  <2>1. ASSUME NEW v \in Sockets, v # s PROVE OnPath(v)'
    BY <1>13, <2>1, PathFrame DEF ReadRevision, FirstRead, PathInv, Listening, Running
  <2>2. OnPath(s)'
    <3>1. seen'[s] = revision /\ Listening(s) /\ OnPath(s)
          /\ UNCHANGED <<callbacks, queue, got, dropped, lastLocal, engine, targets, subscribers>>
      BY <1>13 DEF ReadRevision, FirstRead, PathInv, Listening
    <3>2. ~(seen'[s] < lastLocal')
      BY <3>1 DEF EngineInv, Revisions
    <3> QED
      BY <3>1, <3>2 DEF OnPath, Silent, Pending, Newest
  <2> QED
    BY <2>1, <2>2 DEF PathInv
<1>14. ASSUME NEW s \in Sockets, Accept(s) PROVE PathInv'
  <2>1. /\ UNCHANGED <<callbacks, queue, got, seen, dropped, lastLocal, engine, targets,
                       subscribers, loopClosed>>
        /\ pc[s] \in Told \/ pc' = [pc EXCEPT ![s] = "closed"]
    BY <1>14 DEF Accept, Told, Loop
  <2>2. PICK step \in Told \cup {"cleanup", "closed"} : pc' = [pc EXCEPT ![s] = step]
    BY <1>14 DEF Accept, SendThen, Told, Loop
  <2> QED
    BY <2>1, <2>2, PathMove DEF Told, Loop
<1>15. ASSUME NEW s \in Sockets, Wake(s) PROVE PathInv'
  <2>1. /\ UNCHANGED <<callbacks, queue, got, seen, dropped, lastLocal, engine, targets,
                       subscribers, loopClosed>>
        /\ pc[s] \in Told \/ pc' = [pc EXCEPT ![s] = "closed"]
    BY <1>15 DEF Wake, Told, Loop
  <2>2. PICK step \in Told \cup {"cleanup", "closed"} : pc' = [pc EXCEPT ![s] = step]
    BY <1>15 DEF Wake, Told, Loop
  <2> QED
    BY <2>1, <2>2, PathMove DEF Told, Loop
<1>16. ASSUME NEW s \in Sockets, TimeOut(s) PROVE PathInv'
  <2>1. /\ UNCHANGED <<callbacks, queue, got, seen, dropped, lastLocal, engine, targets,
                       subscribers, loopClosed>>
        /\ pc[s] \in Told \/ pc' = [pc EXCEPT ![s] = "closed"]
    BY <1>16 DEF TimeOut, Told, Loop
  <2>2. PICK step \in Told \cup {"cleanup", "closed"} : pc' = [pc EXCEPT ![s] = step]
    BY <1>16 DEF TimeOut, Told, Loop
  <2> QED
    BY <2>1, <2>2, PathMove DEF Told, Loop
<1>17. ASSUME NEW s \in Sockets, CancelGetter(s) PROVE PathInv'
  <2>1. ASSUME NEW v \in Sockets, v # s PROVE OnPath(v)'
    BY <1>17, <2>1, PathFrame DEF CancelGetter, PathInv, Listening, Running
  <2>2. OnPath(s)'
    <3>1. /\ got' = [got EXCEPT ![s] = 0]
          /\ dropped' = [dropped EXCEPT ![s] = IF got[s] # 0 THEN got[s] ELSE dropped[s]]
          /\ Running(s) /\ Listening(s)
          /\ UNCHANGED <<callbacks, queue, seen, lastLocal, engine, targets, subscribers>>
      BY <1>17 DEF CancelGetter, Running, Listening, Told, Loop
    <3>2. CASE got[s] = 0
      <4>1. got'[s] = got[s] /\ dropped'[s] = dropped[s]
        BY <3>1, <3>2
      <4> QED
        BY <3>1, <4>1 DEF OnPath, PathInv, Pending, Silent, Newest
    <3>3. CASE got[s] # 0
      <4>1. got'[s] = 0 /\ dropped'[s] = got[s]
        BY <3>1, <3>3
      <4> QED
        BY <3>1, <3>3, <4>1 DEF OnPath, PathInv, Pending, Silent, Newest
    <3> QED
      BY <3>2, <3>3
  <2> QED
    BY <2>1, <2>2 DEF PathInv
<1>18. ASSUME NEW s \in Sockets, CancelReceiver(s) PROVE PathInv'
  <2>1. /\ UNCHANGED <<callbacks, queue, got, seen, dropped, lastLocal, engine, targets,
                       subscribers, loopClosed>>
        /\ pc[s] \in Told \/ pc' = [pc EXCEPT ![s] = "closed"]
    BY <1>18 DEF CancelReceiver, Told, Loop
  <2>2. PICK step \in Told \cup {"cleanup", "closed"} : pc' = [pc EXCEPT ![s] = step]
    BY <1>18 DEF CancelReceiver, Told, Loop
  <2> QED
    BY <2>1, <2>2, PathMove DEF Told, Loop
<1>19. ASSUME NEW s \in Sockets, HandleDisconnect(s) PROVE PathInv'
  <2>1. ASSUME NEW v \in Sockets, v # s PROVE OnPath(v)'
    BY <1>19, <2>1, PathFrame DEF HandleDisconnect, PathInv, Listening, Running
  <2>2. OnPath(s)'
    <3>1. pc'[s] \in {"cleanup", "closed"}
      BY <1>19 DEF HandleDisconnect
    <3> QED
      BY <3>1 DEF OnPath, Listening, Running, Told, Loop
  <2> QED
    BY <2>1, <2>2 DEF PathInv
<1>20. ASSUME NEW s \in Sockets, HandleResults(s) PROVE PathInv'
  <2>1. ASSUME NEW v \in Sockets, v # s PROVE OnPath(v)'
    <3>1. /\ pc'[v] = pc[v] /\ seen'[v] = seen[v] /\ got'[v] = got[v]
          /\ UNCHANGED <<callbacks, queue, dropped, lastLocal, engine, targets, subscribers,
                         loopClosed>>
      BY <1>20, <2>1 DEF HandleResults, TellThen, SendThen
    <3> QED
      BY <3>1, PathFrame DEF PathInv, Listening, Running
  <2>2. OnPath(s)'
    <3>1. CASE pc'[s] = "cleanup"
      BY <3>1 DEF OnPath, Listening, Running, Told, Loop
    <3>2. CASE pc'[s] # "cleanup"
      <4>1. seen'[s] = IF got[s] # 0 THEN got[s] ELSE seen[s]
        BY <1>20, <3>2 DEF HandleResults, TellThen
      <4>2. /\ got'[s] = 0 /\ Running(s) /\ Listening(s)
            /\ UNCHANGED <<callbacks, queue, dropped, lastLocal, engine, targets, subscribers>>
        BY <1>20 DEF HandleResults, Running, Listening, Told, Loop
      <4>3. lastLocal \in Nat
        BY DEF Revisions
      <4> QED
        BY <4>1, <4>2, <4>3 DEF OnPath, PathInv, Pending, Silent, Newest
    <3> QED
      BY <3>1, <3>2
  <2> QED
    BY <2>1, <2>2 DEF PathInv
<1>21. ASSUME NEW s \in Sockets, DbCheck(s) PROVE PathInv'
  <2>1. ASSUME NEW v \in Sockets, v # s PROVE OnPath(v)'
    <3>1. /\ pc'[v] = pc[v] /\ seen'[v] = seen[v] /\ got'[v] = got[v]
          /\ UNCHANGED <<callbacks, queue, dropped, lastLocal, engine, targets, subscribers,
                         loopClosed>>
      BY <1>21, <2>1 DEF DbCheck, TellThen, SendThen
    <3> QED
      BY <3>1, PathFrame DEF PathInv, Listening, Running
  <2>2. OnPath(s)'
    <3>1. /\ seen'[s] = revision /\ Listening(s) /\ OnPath(s)
          /\ UNCHANGED <<callbacks, queue, got, dropped, lastLocal, engine, targets, subscribers>>
      BY <1>21 DEF DbCheck, TellThen, FallbackRead, PathInv, Listening, Told, Loop
    <3>2. ~(seen'[s] < lastLocal')
      BY <3>1 DEF EngineInv, Revisions
    <3> QED
      BY <3>1, <3>2 DEF OnPath, Silent, Pending, Newest
  <2> QED
    BY <2>1, <2>2 DEF PathInv
<1>22. ASSUME NEW s \in Sockets, AuthCheck(s) PROVE PathInv'
  <2>1. /\ UNCHANGED <<callbacks, queue, got, seen, dropped, lastLocal, engine, targets,
                       subscribers, loopClosed>>
        /\ pc[s] \in Told \/ pc' = [pc EXCEPT ![s] = "closed"]
    BY <1>22 DEF AuthCheck, Told, Loop
  <2>2. PICK step \in Told \cup {"cleanup", "closed"} : pc' = [pc EXCEPT ![s] = step]
    BY <1>22 DEF AuthCheck, SessionIsGood, Told, Loop
  <2> QED
    BY <2>1, <2>2, PathMove DEF Told, Loop
<1>23. ASSUME NEW s \in Sockets, Heartbeat(s) PROVE PathInv'
  <2>1. /\ UNCHANGED <<callbacks, queue, got, seen, dropped, lastLocal, engine, targets,
                       subscribers, loopClosed>>
        /\ pc[s] \in Told \/ pc' = [pc EXCEPT ![s] = "closed"]
    BY <1>23 DEF Heartbeat, Told, Loop
  <2>2. PICK step \in Told \cup {"cleanup", "closed"} : pc' = [pc EXCEPT ![s] = step]
    BY <1>23 DEF Heartbeat, SendThen, Told, Loop
  <2> QED
    BY <2>1, <2>2, PathMove DEF Told, Loop
<1>24. ASSUME NEW s \in Sockets, NotDue(s) PROVE PathInv'
  <2>1. /\ UNCHANGED <<callbacks, queue, got, seen, dropped, lastLocal, engine, targets,
                       subscribers, loopClosed>>
        /\ pc[s] \in Told \/ pc' = [pc EXCEPT ![s] = "closed"]
    BY <1>24 DEF NotDue, Told, Loop
  <2>2. PICK step \in Told \cup {"cleanup", "closed"} : pc' = [pc EXCEPT ![s] = step]
    BY <1>24 DEF NotDue, Told, Loop
  <2> QED
    BY <2>1, <2>2, PathMove DEF Told, Loop
<1>25. ASSUME NEW s \in Sockets, DbFault(s) PROVE PathInv'
  <2>1. ASSUME NEW v \in Sockets, v # s PROVE OnPath(v)'
    BY <1>25, <2>1, PathFrame DEF DbFault, PathInv, Listening, Running
  <2>2. OnPath(s)'
    <3>1. pc'[s] \in {"cleanup", "closed"}
      BY <1>25 DEF DbFault
    <3> QED
      BY <3>1 DEF OnPath, Listening, Running, Told, Loop
  <2> QED
    BY <2>1, <2>2 DEF PathInv
<1>26. ASSUME NEW s \in Sockets, Cleanup(s) PROVE PathInv'
  <2>1. ASSUME NEW v \in Sockets, v # s PROVE OnPath(v)'
    BY <1>26, <2>1, PathFrame DEF Cleanup, Unsubscribe, PathInv, Listening, Running
  <2>2. OnPath(s)'
    <3>1. pc'[s] \in {"cleanup", "closed"}
      BY <1>26 DEF Cleanup
    <3> QED
      BY <3>1 DEF OnPath, Listening, Running, Told, Loop
  <2> QED
    BY <2>1, <2>2 DEF PathInv
<1>27. ASSUME NEW s \in Sockets, Leave(s) PROVE PathInv'
  <2> SUFFICES ASSUME NEW v \in Sockets PROVE OnPath(v)'
    BY DEF PathInv
  <2> QED
    BY <1>27, PathFrame DEF Leave, PathInv, Listening, Running
<1>28. ASSUME NEW s \in Sockets, Revoke(s) PROVE PathInv'
  <2> SUFFICES ASSUME NEW v \in Sockets PROVE OnPath(v)'
    BY DEF PathInv
  <2> QED
    BY <1>28, PathFrame DEF Revoke, PathInv, Listening, Running
<1>29. CASE LoopCloses
  <2> SUFFICES ASSUME NEW v \in Sockets PROVE OnPath(v)'
    BY DEF PathInv
  <2> QED
    BY <1>29, PathFrame DEF LoopCloses, PathInv, Listening, Running
<1>30. ASSUME NEW s \in Sockets, NEW t \in Timers, TimerDue(s, t) PROVE PathInv'
  <2> SUFFICES ASSUME NEW v \in Sockets PROVE OnPath(v)'
    BY DEF PathInv
  <2> QED
    BY <1>30, PathFrame DEF TimerDue, PathInv, Listening, Running
<1>31. CASE UNCHANGED vars
  <2> SUFFICES ASSUME NEW v \in Sockets PROVE OnPath(v)'
    BY DEF PathInv
  <2> QED
    BY <1>31, PathFrame DEF vars, PathInv, Listening, Running
<1> QED
  BY <1>1, <1>2, <1>3, <1>4, <1>5, <1>6, <1>7, <1>8, <1>9, <1>10, <1>11, <1>12,
     <1>13, <1>14, <1>15, <1>16, <1>17, <1>18, <1>19, <1>20, <1>21, <1>22, <1>23, <1>24,
     <1>25, <1>26, <1>27, <1>28, <1>29, <1>30, <1>31
     DEF Next, Engine, Handler, Environment

-----------------------------------------------------------------------------

\* IInv holds always.
THEOREM Invariant == Spec => []IInv
<1>1. Init => IInv
  BY DEF Init, IInv, EngineInv, HandlerInv, SubscribedWhileRunning, OrderInv, Bounded, Behind,
         BusInOrder, SeenInv, PathInv, OnPath, Listening, Running, Told, Loop
<1>2. TypeOK /\ TypeOK' /\ IInv /\ [Next]_vars => IInv'
  BY EngineStep, HandlerStep, SubscribedStep, OrderStep, SeenStep, PathStep DEF IInv
<1> QED
  BY <1>1, <1>2, TypeCorrect, PTL DEF Spec

\* A running handler that is behind the last commit of its process has that
\* revision on its way, unless the cancellation of its getter task dropped it.
THEOREM NothingMissed == Spec => []NoMissedUpdate
<1>1. IInv => NoMissedUpdate
  <2> SUFFICES ASSUME IInv, NEW s \in Sockets, Running(s), seen[s] < lastLocal
               PROVE  Pending(s) \/ Newest(s) = lastLocal \/ dropped[s] = lastLocal
    BY DEF NoMissedUpdate
  <2> QED
    BY DEF IInv, PathInv, OnPath, Listening, Running
<1> QED
  BY <1>1, Invariant, PTL

\* Subscriptions last exactly as long as their handlers.
THEOREM SubscriptionsMatchHandlers == Spec => []SubscribedWhileRunning
<1>1. IInv => SubscribedWhileRunning
  BY DEF IInv
<1> QED
  BY <1>1, Invariant, PTL

\* The bus delivers to each socket in the order of the commits.
THEOREM DeliveredInOrder == Spec => []BusInOrder
<1>1. IInv => BusInOrder
  BY DEF IInv
<1> QED
  BY <1>1, Invariant, PTL

\* No browser hears of a revision that is not committed.
THEOREM NeverAhead == Spec => []NothingAheadOfDatabase
<1>1. TypeOK /\ IInv => NothingAheadOfDatabase
  <2> SUFFICES ASSUME TypeOK, IInv, NEW s \in Sockets
               PROVE  /\ seen[s] <= revision /\ got[s] <= revision /\ queue[s] <= revision
                      /\ \A i \in 1 .. Len(callbacks[s]) : callbacks[s][i] <= revision
    BY DEF NothingAheadOfDatabase
  <2>1. Bounded(s) /\ lastLocal <= revision /\ seen[s] <= revision
    BY DEF IInv, OrderInv, EngineInv, SeenInv
  <2>2. lastLocal \in Nat /\ revision \in Nat /\ queue[s] \in Nat /\ got[s] \in Nat
    BY DEF TypeOK, Revisions
  <2>3. ASSUME NEW i \in 1 .. Len(callbacks[s]) PROVE callbacks[s][i] <= revision
    <3>1. callbacks[s] \in Seq(Nat)
      BY DEF TypeOK, Revisions
    <3>2. callbacks[s][i] \in Nat /\ callbacks[s][i] <= lastLocal
      BY <2>1, <3>1 DEF Bounded
    <3> QED
      BY <2>1, <2>2, <3>2
  <2> QED
    BY <2>1, <2>2, <2>3 DEF Bounded
<1> QED
  BY <1>1, Invariant, TypeCorrect, PTL
=============================================================================
