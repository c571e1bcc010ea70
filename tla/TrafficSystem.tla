--------------------------- MODULE TrafficSystem ---------------------------
(***************************************************************************)
(* One process that records traffic and shows it: FlowStore, in which the  *)
(* process Me is one of the writers, together with the live stream of Me   *)
(* (LiveTraffic), which reads the revision of the same database.  The      *)
(* thread of the proxy is in save or in publish and never in both; other   *)
(* processes go on with their saves meanwhile.                             *)
(*                                                                         *)
(* It is the life of one process: when Me ends, its stream ends with it.   *)
(***************************************************************************)
EXTENDS FlowStore, Sequences

CONSTANTS
  Me,        \* one of Writers
  Sockets, Timers

VARIABLES
  engine, targets, stale, subscribers, loopClosed, callbacks, queue, got, received,
  handlerAt, \* the variable pc of LiveTraffic
  seen, due, valid, gone, dropped

\* The stream finds in the database of the store what LiveTraffic takes for
\* granted: a revision, and the one that this process has committed last.
Live ==
  INSTANCE LiveTraffic
    WITH revision <- db.revision, lastLocal <- newest[Me], pc <- handlerAt

streamvars ==
  <<engine, targets, stale, subscribers, loopClosed, callbacks, queue, got, received,
    handlerAt, seen, due, valid, gone, dropped>>

systemvars == <<vars, streamvars>>

SystemInit == Init /\ Live!Init

-----------------------------------------------------------------------------

\* A statement of save in the thread of the proxy, which is not in publish,
\* or the exception that ends it.
SaveStatement ==
  /\ engine = "idle"
  /\ \/ InsertFlow(Me) \/ Busy(Me) \/ Bump(Me) \/ ClearFindings(Me) \/ InsertFinding(Me)
     \/ StatementFails(Me) \/ RolledBack(Me)
  /\ UNCHANGED streamvars

\* The commit, from which the thread goes on to publish...
SaveCommits ==
  /\ engine = "idle"
  /\ Commit(Me)
  /\ engine' = "publish"
  /\ UNCHANGED <<targets, stale, subscribers, loopClosed, callbacks, queue, got, received,
                 handlerAt, seen, due, valid, gone, dropped>>

\* ...which tells the subscribers of that moment.
PublishBegins == Publish(Me) /\ Live!Snapshot

\* The rest of publish, the event loop, its handlers and the browsers.
StreamStep ==
  /\ UNCHANGED vars
  /\ \/ (\E s \in Sockets : Live!PublishTo(s)) \/ Live!EndFanout \/ Live!Prune
     \/ Live!LoopCloses
     \/ \E s \in Sockets :
          \/ Live!RunCallback(s) \/ Live!TakeRevision(s) \/ Live!Handler(s)
          \/ Live!Environment(s)

\* Another process, and the other tables of the database.
OutsideStep ==
  /\ OutsideBegins \/ OutsideEnds \/ \E w \in Writers \ {Me} : Step(w)
  /\ UNCHANGED streamvars

SystemNext == SaveStatement \/ SaveCommits \/ PublishBegins \/ StreamStep \/ OutsideStep

SystemSpec == SystemInit /\ [][SystemNext]_systemvars

-----------------------------------------------------------------------------

\* The stream of a process on a real store is a stream as LiveTraffic has it:
\* every commit of the store is one that LiveTraffic foresees, and publish
\* comes after it with its revision.
ImplementsLiveTraffic == Live!Spec

\* save and publish take turns: the thread is at the announcement in the one
\* exactly when it is in the other, and whenever it saves, or tells the
\* subscribers, the last revision it has committed is the announced one.
SaveAndPublishAgree ==
  /\ engine = "publish" <=> pc[Me] = "publish"
  /\ engine \in {"fanout", "prune"} => pc[Me] = "idle"
  /\ engine # "publish" => announced[Me] = newest[Me]
=============================================================================
