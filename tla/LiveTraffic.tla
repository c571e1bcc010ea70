---------------------------- MODULE LiveTraffic ----------------------------
(***************************************************************************)
(* The live traffic stream: the proxy thread commits a flow and publishes  *)
(* its revision on the TrafficEventBus; one handler per WebSocket, on the  *)
(* event loop of the web thread, tells its browser that the traffic        *)
(* changed.  Another process may commit to the same database without any   *)
(* publication; the handlers find that out by reading the revision.        *)
(*                                                                         *)
(* The path of a revision to socket s: the publisher's `targets`, the      *)
(* loop's callbacks, the one-place queue, the getter task (`got`), and the *)
(* handler's local variable `revision`, here `seen`, the last it sent.     *)
(***************************************************************************)
EXTENDS Naturals, Sequences

CONSTANTS
  Sockets,     \* WebSocket connections, each opened once
  Timers,      \* the handler's periodic duties that may come due
  MaxRevision  \* bound: no commit goes past this revision

ASSUME LiveAssumption ==
  /\ Timers \subseteq {"db", "auth", "heartbeat"}
  /\ MaxRevision \in Nat

VARIABLES
  revision,     \* the committed traffic revision
  lastLocal,    \* the last revision this process committed
  engine,       \* where the proxy thread is in save / publish
  targets,      \* the snapshot of subscribers still to be told
  stale,        \* those found on a closed loop
  subscribers,  \* the bus's table
  loopClosed,   \* the web thread's event loop has been closed
  callbacks,    \* callbacks[s]: the _offer calls scheduled on the loop
  queue,        \* queue[s]: the revision in the one-place queue, 0 if none
  got,          \* got[s]: the result of the getter task, 0 if none
  received,     \* received[s]: the result of the receive task
  pc,           \* pc[s]: where the handler is
  seen,         \* seen[s]: the handler's local `revision`
  due,          \* due[s]: the timers that have elapsed
  valid,        \* valid[s]: the browser's session is still good
  gone,         \* gone[s]: the browser has disconnected
  dropped       \* history: the last notification cancelled with its getter

store == <<revision, lastLocal>>
bus == <<engine, targets, stale, loopClosed>>
world == <<valid, gone>>
tasks == <<got, received>>
handlers == <<tasks, pc, seen, due, dropped>>
others == <<store, bus, callbacks, queue, world>>  \* all that a handler only reads
vars == <<others, subscribers, handlers>>

Revisions == 0 .. MaxRevision

\* The steps of a handler's loop, in the order it takes them.
Loop == {"wait", "cancelReceiver", "cancelGetter", "handle", "db", "auth", "beat"}

\* The steps at which the handler has read the revision and still runs.
Told == {"accept"} \cup Loop

\* Every variable has its type.
TypeOK ==
  /\ revision \in Revisions /\ lastLocal \in Revisions
  /\ engine \in {"idle", "publish", "fanout", "prune"}
  /\ targets \subseteq Sockets /\ stale \subseteq Sockets
  /\ subscribers \subseteq Sockets
  /\ loopClosed \in BOOLEAN
  /\ callbacks \in [Sockets -> Seq(Revisions)]
  /\ queue \in [Sockets -> Revisions] /\ got \in [Sockets -> Revisions]
  /\ received \in [Sockets -> {"nothing", "ping", "text", "raised"}]
  /\ pc \in [Sockets -> {"new", "read", "cleanup", "closed"} \cup Told]
  /\ seen \in [Sockets -> Revisions]
  /\ due \in [Sockets -> SUBSET Timers]
  /\ valid \in [Sockets -> BOOLEAN] /\ gone \in [Sockets -> BOOLEAN]
  /\ dropped \in [Sockets -> Revisions]

Init ==
  /\ revision = 0 /\ lastLocal = 0
  /\ engine = "idle" /\ targets = {} /\ stale = {}
  /\ subscribers = {}
  /\ loopClosed = FALSE
  /\ callbacks = [s \in Sockets |-> <<>>]
  /\ queue = [s \in Sockets |-> 0] /\ got = [s \in Sockets |-> 0]
  /\ received = [s \in Sockets |-> "nothing"]
  /\ pc = [s \in Sockets |-> "new"]
  /\ seen = [s \in Sockets |-> 0]
  /\ due = [s \in Sockets |-> {}]
  /\ valid \in [Sockets -> BOOLEAN]
  /\ gone = [s \in Sockets |-> FALSE]
  /\ dropped = [s \in Sockets |-> 0]

Goto(s, step) == pc' = [pc EXCEPT ![s] = step]

-----------------------------------------------------------------------------
\* The proxy thread and other processes

\* The commit of FlowRepository.save in this process.  It goes past more than
\* one revision when it takes the leftover of a failed save along (FlowStore).
LocalCommit ==
  /\ engine = "idle"
  /\ revision' \in Revisions /\ revision' > revision
  /\ lastLocal' = revision'
  /\ engine' = "publish"
  /\ UNCHANGED <<handlers, world, targets, stale, loopClosed, subscribers, callbacks,
                 queue>>

\* A commit of another process: its bus is not ours.
OtherCommit ==
  /\ revision' \in Revisions /\ revision' > revision
  /\ UNCHANGED <<handlers, bus, world, lastLocal, subscribers, callbacks, queue>>

\* publish takes its snapshot of the subscribers under the lock.
Snapshot ==
  /\ engine = "publish"
  /\ targets' = subscribers
  /\ engine' = "fanout"
  /\ UNCHANGED <<handlers, store, world, stale, loopClosed, subscribers, callbacks, queue>>

\* loop.call_soon_threadsafe(_offer, queue, revision), or the loop is closed.
PublishTo(s) ==
  /\ engine = "fanout" /\ s \in targets
  /\ targets' = targets \ {s}
  /\ IF loopClosed
       THEN stale' = stale \cup {s} /\ UNCHANGED callbacks
       ELSE callbacks' = [callbacks EXCEPT ![s] = Append(@, lastLocal)] /\ UNCHANGED stale
  /\ UNCHANGED <<handlers, store, world, engine, loopClosed, subscribers, queue>>

EndFanout ==
  /\ engine = "fanout" /\ targets = {}
  /\ engine' = IF stale = {} THEN "idle" ELSE "prune"
  /\ UNCHANGED <<handlers, store, world, targets, stale, loopClosed, subscribers,
                 callbacks, queue>>

\* The stale subscriptions are popped, under the lock again.
Prune ==
  /\ engine = "prune"
  /\ subscribers' = subscribers \ stale
  /\ stale' = {}
  /\ engine' = "idle"
  /\ UNCHANGED <<handlers, store, world, targets, loopClosed, callbacks, queue>>

Engine == LocalCommit \/ Snapshot \/ (\E s \in Sockets : PublishTo(s)) \/ EndFanout \/ Prune

-----------------------------------------------------------------------------
\* The event loop

\* Wrong on purpose: a full queue keeps the revision it has.
OfferKeepsOld(q, r) == IF q = 0 THEN r ELSE q

\* What _offer leaves in a queue that held q: the old revision is taken out.
Offer(q, r) == r

RunCallback(s) ==
  /\ ~loopClosed /\ callbacks[s] # <<>>
  /\ queue' = [queue EXCEPT ![s] = Offer(queue[s], Head(callbacks[s]))]
  /\ callbacks' = [callbacks EXCEPT ![s] = Tail(@)]
  /\ UNCHANGED <<handlers, store, bus, world, subscribers>>

\* The getter task gets the revision out of the queue and is done.  It runs
\* while the handler waits, and goes on while the handler awaits the end of
\* the receive task it has cancelled first.
GetterRuns(s) == pc[s] \in {"wait", "cancelReceiver"}

\* Wrong on purpose: the revision is read and stays in the queue.
PeekRevision(s) ==
  /\ ~loopClosed /\ GetterRuns(s)
  /\ got[s] = 0 /\ queue[s] # 0
  /\ got' = [got EXCEPT ![s] = queue[s]]
  /\ UNCHANGED <<others, subscribers, received, pc, seen, due, dropped>>

TakeRevision(s) ==
  /\ ~loopClosed /\ GetterRuns(s)
  /\ got[s] = 0 /\ queue[s] # 0
  /\ got' = [got EXCEPT ![s] = queue[s]]
  /\ queue' = [queue EXCEPT ![s] = 0]
  /\ UNCHANGED <<store, bus, world, subscribers, callbacks, received, pc, seen, due,
                 dropped>>

\* The receive task gets a frame from the browser, or an exception.
TakeFrame(s, frame) ==
  /\ ~loopClosed /\ pc[s] \in {"wait", "cancelGetter"}
  /\ received[s] = "nothing"
  /\ received' = [received EXCEPT ![s] = frame]
  /\ UNCHANGED <<others, subscribers, got, pc, seen, due, dropped>>

\* A binary frame raises in receive_text (KeyError), as a disconnection does.
TakeText(s) == ~gone[s] /\ \E frame \in {"ping", "text", "raised"} : TakeFrame(s, frame)
TakeDisconnect(s) == gone[s] /\ TakeFrame(s, "raised")

-----------------------------------------------------------------------------
\* The handler

\* A send to a browser that is gone may raise; the exception ends the handler.
SendThen(s, step) ==
  \/ Goto(s, step)
  \/ gone[s] /\ Goto(s, "cleanup")

\* A foreign origin, no valid session, or a database that cannot be read: the
\* handler ends before it subscribes.
Refuse(s) ==
  /\ ~loopClosed /\ pc[s] = "new"
  /\ Goto(s, "closed")
  /\ UNCHANGED <<others, tasks, subscribers, seen, due, dropped>>

\* The origin and the session are good: the handler subscribes.
Admit(s) ==
  /\ ~loopClosed /\ pc[s] = "new" /\ valid[s]
  /\ subscribers' = subscribers \cup {s}
  /\ Goto(s, "read")
  /\ UNCHANGED <<others, tasks, seen, due, dropped>>

\* What flows.revision() returns right after the subscription.
FirstRead == revision

ReadRevision(s) ==
  /\ ~loopClosed /\ pc[s] = "read"
  /\ seen' = [seen EXCEPT ![s] = FirstRead]
  /\ Goto(s, "accept")
  /\ UNCHANGED <<others, tasks, subscribers, due, dropped>>

\* websocket.accept and the "ready" message; then the loop starts its two
\* tasks and waits.
Accept(s) ==
  /\ ~loopClosed /\ pc[s] = "accept"
  /\ SendThen(s, "wait")
  /\ UNCHANGED <<others, tasks, subscribers, seen, due, dropped>>

\* asyncio.wait returns because a task is done.  The other one, if pending, is
\* cancelled: a getter that was not done leaves its revision in the queue.
Wake(s) ==
  /\ ~loopClosed /\ pc[s] = "wait"
  /\ got[s] # 0 \/ received[s] # "nothing"
  /\ Goto(s, "handle")
  /\ UNCHANGED <<others, tasks, subscribers, seen, due, dropped>>

\* asyncio.wait times out with both tasks pending.  They are cancelled one at
\* a time, in the order of a set, each awaited before the next is cancelled.
TimeOut(s) ==
  /\ ~loopClosed /\ pc[s] = "wait"
  /\ got[s] = 0 /\ received[s] = "nothing" /\ due[s] # {}
  /\ \E first \in {"cancelReceiver", "cancelGetter"} : Goto(s, first)
  /\ UNCHANGED <<others, tasks, subscribers, seen, due, dropped>>

\* The second cancellation finds the getter done: its result is discarded, for
\* it is not among the tasks that were done when the wait returned.
CancelGetter(s) ==
  /\ ~loopClosed /\ pc[s] = "cancelReceiver"
  /\ dropped' = [dropped EXCEPT ![s] = IF got[s] # 0 THEN got[s] ELSE @]
  /\ got' = [got EXCEPT ![s] = 0]
  /\ Goto(s, "db")
  /\ UNCHANGED <<others, subscribers, received, seen, due>>

\* Likewise a frame that came in is discarded; an exception of the task other
\* than its cancellation is raised again.
CancelReceiver(s) ==
  /\ ~loopClosed /\ pc[s] = "cancelGetter"
  /\ received' = [received EXCEPT ![s] = "nothing"]
  /\ Goto(s, IF received[s] = "raised" THEN "cleanup" ELSE "db")
  /\ UNCHANGED <<others, subscribers, got, seen, due, dropped>>

\* receive_task.result() raises: WebSocketDisconnect, or what a binary frame
\* raised, which is logged and closes the stream with 1011.
HandleDisconnect(s) ==
  /\ ~loopClosed /\ pc[s] = "handle" /\ received[s] = "raised"
  /\ got' = [got EXCEPT ![s] = 0]
  /\ received' = [received EXCEPT ![s] = "nothing"]
  /\ Goto(s, "cleanup")
  /\ UNCHANGED <<others, subscribers, seen, due, dropped>>

\* The handler's `revision` becomes r; if that is a change, the browser is
\* told, before the handler goes on to `step`.
TellThen(s, r, step) ==
  /\ seen' = [seen EXCEPT ![s] = r]
  /\ IF r # seen[s] THEN SendThen(s, step) ELSE Goto(s, step)

\* The timers of s when it has told r: a change stands for a heartbeat.
DueAfter(s, r) == IF r # seen[s] THEN due[s] \ {"heartbeat"} ELSE due[s]

\* A "ping" is answered.  A revision that differs from `revision` replaces it
\* and is sent, whichever of the two is newer.
HandleResults(s) ==
  LET r == IF got[s] # 0 THEN got[s] ELSE seen[s]
  IN  /\ ~loopClosed /\ pc[s] = "handle" /\ received[s] # "raised"
      /\ \/ TellThen(s, r, "db") /\ due' = [due EXCEPT ![s] = DueAfter(s, r)]
         \/ received[s] = "ping" /\ gone[s] /\ Goto(s, "cleanup") /\ UNCHANGED <<seen, due>>
      /\ got' = [got EXCEPT ![s] = 0]
      /\ received' = [received EXCEPT ![s] = "nothing"]
      /\ UNCHANGED <<others, subscribers, dropped>>

\* Wrong on purpose: the periodic check of the database is missing.
NoFallback(s) == seen[s]

\* What the periodic check reads from the database.
FallbackRead(s) == revision

DbCheck(s) ==
  /\ ~loopClosed /\ pc[s] = "db" /\ "db" \in due[s]
  /\ TellThen(s, FallbackRead(s), "auth")
  /\ due' = [due EXCEPT ![s] = DueAfter(s, FallbackRead(s)) \ {"db"}]
  /\ UNCHANGED <<others, tasks, subscribers, dropped>>

\* Wrong on purpose: an expired session is not noticed.
NoRecheck(s) == TRUE

\* What the session check answers.
SessionIsGood(s) == valid[s]

AuthCheck(s) ==
  /\ ~loopClosed /\ pc[s] = "auth" /\ "auth" \in due[s]
  /\ IF SessionIsGood(s)
       THEN Goto(s, "beat") /\ due' = [due EXCEPT ![s] = @ \ {"auth"}]
       ELSE Goto(s, "cleanup") /\ UNCHANGED due
  /\ UNCHANGED <<others, tasks, subscribers, seen, dropped>>

\* The heartbeat; then the loop starts two new tasks and waits again.
Heartbeat(s) ==
  /\ ~loopClosed /\ pc[s] = "beat" /\ "heartbeat" \in due[s]
  /\ due' = [due EXCEPT ![s] = @ \ {"heartbeat"}]
  /\ SendThen(s, "wait")
  /\ UNCHANGED <<others, tasks, subscribers, seen, dropped>>

\* A duty that is not due is passed over.
NotDue(s) ==
  /\ ~loopClosed
  /\ \/ pc[s] = "db" /\ "db" \notin due[s] /\ Goto(s, "auth")
     \/ pc[s] = "auth" /\ "auth" \notin due[s] /\ Goto(s, "beat")
     \/ pc[s] = "beat" /\ "heartbeat" \notin due[s] /\ Goto(s, "wait")
  /\ UNCHANGED <<others, tasks, subscribers, seen, due, dropped>>

\* A read of the database raises: the handler logs, closes with 1011, ends.
DbFault(s) ==
  /\ ~loopClosed /\ pc[s] \in {"read", "handle", "db", "auth"}
  /\ got' = [got EXCEPT ![s] = 0]
  /\ received' = [received EXCEPT ![s] = "nothing"]
  /\ Goto(s, "cleanup")
  /\ UNCHANGED <<others, subscribers, seen, due, dropped>>

\* Wrong on purpose: the handler ends and stays in the bus's table.
NoUnsubscribe(s) == UNCHANGED subscribers

Unsubscribe(s) == subscribers' = subscribers \ {s}

\* The finally clause.
Cleanup(s) ==
  /\ ~loopClosed /\ pc[s] = "cleanup"
  /\ Unsubscribe(s)
  /\ Goto(s, "closed")
  /\ UNCHANGED <<others, tasks, seen, due, dropped>>

Handler(s) ==
  \/ Refuse(s) \/ Admit(s) \/ ReadRevision(s) \/ Accept(s)
  \/ Wake(s) \/ TimeOut(s) \/ CancelGetter(s) \/ CancelReceiver(s)
  \/ HandleDisconnect(s) \/ HandleResults(s)
  \/ DbCheck(s) \/ AuthCheck(s) \/ Heartbeat(s) \/ NotDue(s)
  \/ DbFault(s) \/ Cleanup(s)

-----------------------------------------------------------------------------
\* Time, the browser, the rest of the web UI

TimerDue(s, t) ==
  /\ ~loopClosed /\ pc[s] \in Loop /\ t \notin due[s]
  /\ due' = [due EXCEPT ![s] = @ \cup {t}]
  /\ UNCHANGED <<others, tasks, subscribers, pc, seen, dropped>>

\* The browser closes the page, loses its network, or reconnects on another
\* socket.
Leave(s) ==
  /\ ~gone[s] /\ pc[s] # "closed"
  /\ gone' = [gone EXCEPT ![s] = TRUE]
  /\ UNCHANGED <<handlers, store, bus, subscribers, callbacks, queue, valid>>

\* Logout, expiry, the user disabled or deleted.
Revoke(s) ==
  /\ valid[s]
  /\ valid' = [valid EXCEPT ![s] = FALSE]
  /\ UNCHANGED <<handlers, store, bus, subscribers, callbacks, queue, gone>>

\* The web server stops; handlers still there never run again.
LoopCloses ==
  /\ ~loopClosed
  /\ loopClosed' = TRUE
  /\ UNCHANGED <<handlers, store, world, engine, targets, stale, subscribers,
                 callbacks, queue>>

Environment(s) ==
  TakeText(s) \/ TakeDisconnect(s) \/ Leave(s) \/ Revoke(s) \/ \E t \in Timers : TimerDue(s, t)

Next ==
  \/ Engine \/ OtherCommit \/ LoopCloses
  \/ \E s \in Sockets :
       RunCallback(s) \/ TakeRevision(s) \/ Handler(s) \/ Environment(s)

Spec == Init /\ [][Next]_vars

\* The threads and tasks that are ready do run; a timer that is armed elapses.
\* Strong fairness for the disconnection: the receive task starts at once in
\* every round of the loop, long before the timeout of that round.
\* Commits, frames, revocations and the end of the server need never happen.
Fairness ==
  /\ WF_vars(Snapshot \/ (\E s \in Sockets : PublishTo(s)) \/ EndFanout \/ Prune)
  /\ \A s \in Sockets :
       /\ WF_vars(RunCallback(s))
       /\ WF_vars(TakeRevision(s))
       /\ WF_vars(Handler(s))
       /\ SF_vars(TakeDisconnect(s))
       /\ \A t \in Timers : WF_vars(TimerDue(s, t))

FairSpec == Spec /\ Fairness

-----------------------------------------------------------------------------

\* The newest revision on its way to s, 0 if there is none.
Newest(s) ==
  IF callbacks[s] # <<>> THEN callbacks[s][Len(callbacks[s])]
  ELSE IF queue[s] # 0 THEN queue[s] ELSE got[s]

\* The publisher still has to tell s of the last local commit.
Pending(s) ==
  \/ engine = "publish" /\ s \in subscribers
  \/ engine = "fanout" /\ s \in targets

\* The handlers the promises are made to.
Running(s) == ~loopClosed /\ pc[s] \in Told

\* A running handler that is behind the last commit of this process has its
\* revision on the way, or lost it in the cancellation of the getter task
\* (the next check of the database then brings it).  Subscribing before
\* reading the revision, publishing after the commit, and the queue keeping
\* the newest are all needed for this.
NoMissedUpdate ==
  \A s \in Sockets :
    Running(s) /\ seen[s] < lastLocal =>
      Pending(s) \/ Newest(s) = lastLocal \/ dropped[s] = lastLocal

\* Nothing told to a browser, or on its way, is ahead of the database: the
\* reload it causes finds at least that revision.
NothingAheadOfDatabase ==
  \A s \in Sockets :
    /\ seen[s] <= revision /\ got[s] <= revision /\ queue[s] <= revision
    /\ \A i \in 1 .. Len(callbacks[s]) : callbacks[s][i] <= revision

\* The bus keeps one socket's revisions in the order of the commits, oldest
\* at the handler: what the one-place queue throws away is older than what it
\* keeps.
BusInOrder ==
  \A s \in Sockets :
    /\ \A i, j \in 1 .. Len(callbacks[s]) : i < j => callbacks[s][i] < callbacks[s][j]
    /\ \A i \in 1 .. Len(callbacks[s]) :
         queue[s] < callbacks[s][i] /\ got[s] < callbacks[s][i]
    /\ queue[s] # 0 => got[s] < queue[s]

\* A handler is in the bus's table from its subscription to its cleanup, and
\* no longer: pruning never takes a live handler, and an ended one leaves no
\* entry that would be told for ever.
SubscribedWhileRunning ==
  \A s \in Sockets :
    /\ s \in subscribers => pc[s] \notin {"new", "closed"}
    /\ pc[s] \notin {"new", "closed"} /\ s \notin subscribers => loopClosed

\* Every browser that stays is in the end told the newest revision, whichever
\* process committed it and whatever the stream lost on the way.
Converges ==
  \A s \in Sockets : <>[](loopClosed \/ pc[s] \in {"new", "closed"} \/ seen[s] = revision)

\* A stream whose session ends is closed.
RevokedIsClosed ==
  \A s \in Sockets : ~valid[s] ~> (loopClosed \/ pc[s] = "closed")

\* A browser that left does not stay subscribed.
GoneIsUnsubscribed ==
  \A s \in Sockets : gone[s] ~> (loopClosed \/ s \notin subscribers)
=============================================================================
