----------------------------- MODULE Dashboard -----------------------------
(***************************************************************************)
(* One browser tab with the traffic dashboard: app.js from its first load  *)
(* to the page it leaves for.  The table of rows is reloaded over HTTP for *)
(* the query of the filter form, one request at a time; the traffic        *)
(* stream, a timer or the user asks for a reload.                          *)
(*                                                                         *)
(* Each action is one task of the browser's event loop with the microtasks *)
(* it leaves, or a step of the server.  What the server's stream handler   *)
(* does is in LiveTraffic: here it tells an open socket of a revision that *)
(* it has not told it yet.                                                 *)
(***************************************************************************)
EXTENDS Naturals, FiniteSets

CONSTANTS
  Filters,       \* what the filter form can hold
  AllTraffic,    \* the form as it is delivered
  Sockets,       \* WebSocket objects; one is used again when it has closed
  NoSocket,      \* state.socket is null
  HasWebSocket,  \* the browser has WebSockets
  Acts,          \* bound: what the user does, out of "form", "page", "pause", "tab"
  MaxOffset,     \* bound: the last page
  MaxRevision    \* bound: no commit goes past this revision

ASSUME DashboardAssumption ==
  /\ AllTraffic \in Filters
  /\ NoSocket \notin Sockets
  /\ HasWebSocket \in BOOLEAN
  /\ Acts \subseteq {"form", "page", "pause", "tab"}
  /\ MaxOffset \in Nat /\ MaxRevision \in Nat

VARIABLES
  data,       \* the committed traffic revision
  session,    \* the console session is good
  page,       \* the dashboard is "here", or the tab has "left" it
  hidden,     \* document.hidden
  boot,       \* how far initializeDashboard is
  filter,     \* the controls of the form
  saved,      \* the form in localStorage
  offset,     \* state.offset, in pages
  live,       \* state.live
  label,      \* the live indicator
  loading,    \* state.loading
  queued,     \* state.refreshQueued
  requests,   \* the requests for rows that are under way
  shown,      \* the rows of the table: their query, and the revision they are of
  wanted,     \* history: the query of the last call of loadTraffic
  failed,     \* history: the last load ended in an error
  timers,     \* the timers that are armed
  socket,     \* state.socket
  connected,  \* state.socketConnected
  status,     \* status[s]: the WebSocket object
  told,       \* told[s]: the revision the server told s last
  unread      \* unread[s]: the messages on their way to the browser

server == <<data, session>>
tab == <<page, hidden, boot>>
form == <<filter, saved, offset>>
loads == <<loading, queued, requests, wanted>>
table == <<shown, failed>>
stream == <<socket, connected, status, told, unread>>
vars == <<server, tab, form, live, label, loads, table, timers, stream>>

Query(f, o) == [filter |-> f, offset |-> o]
Queries == [filter : Filters, offset : 0 .. MaxOffset]
Current == Query(filter, offset)

Timers == {"refresh", "fallback", "reconnect", "debounce", "login"}
Labels == {"Connecting", "Live", "Reconnecting", "Fallback", "Paused", "Expired"}

\* Every variable has its type.
TypeOK ==
  /\ data \in 0 .. MaxRevision /\ session \in BOOLEAN
  /\ page \in {"here", "left"} /\ hidden \in BOOLEAN
  /\ boot \in {"options", "load", "done"}
  /\ filter \in Filters /\ saved \in Filters /\ offset \in 0 .. MaxOffset
  /\ live \in BOOLEAN /\ label \in Labels
  /\ loading \in BOOLEAN /\ queued \in BOOLEAN
  /\ requests \subseteq
       [query : Queries, stage : {"sent", "ok", "failed", "expired"}, revision : 0 .. MaxRevision]
  /\ shown \in [query : Queries, revision : 0 .. MaxRevision]
  /\ wanted \in Queries /\ failed \in BOOLEAN
  /\ timers \subseteq Timers
  /\ socket \in Sockets \cup {NoSocket} /\ connected \in BOOLEAN
  /\ status \in [Sockets -> {"none", "connecting", "open", "closing", "expiring"}]
  /\ told \in [Sockets -> 0 .. MaxRevision]
  /\ unread \in [Sockets -> 0 .. MaxRevision + 1]

Init ==
  /\ data = 0 /\ session = TRUE
  /\ page = "here" /\ hidden \in BOOLEAN /\ boot = "options"
  /\ saved \in Filters /\ filter = saved /\ offset = 0
  /\ live = TRUE /\ label = "Connecting"
  /\ loading = FALSE /\ queued = FALSE /\ requests = {}
  /\ shown = [query |-> Query(AllTraffic, 0), revision |-> 0]
  /\ wanted = shown.query /\ failed = FALSE
  /\ timers = {}
  /\ socket = NoSocket /\ connected = FALSE
  /\ status = [s \in Sockets |-> "none"]
  /\ told = [s \in Sockets |-> 0] /\ unread = [s \in Sockets |-> 0]

-----------------------------------------------------------------------------
\* Helpers that several handlers call

\* Wrong on purpose: a load begins whether or not one is under way.
MayAlwaysLoad == TRUE

\* loadTraffic goes ahead when no other load is under way.
MayLoad == ~loading

Request(q) == [query |-> q, stage |-> "sent", revision |-> 0]

\* Wrong on purpose: a call that finds a load under way is forgotten.
ForgottenCall == UNCHANGED queued

\* A call that finds a load under way is made up for when that load ends.
QueuedCall == queued' = TRUE

\* loadTraffic, called when the query is q.
LoadTraffic(q) ==
  /\ wanted' = q
  /\ \/ /\ MayLoad
        /\ loading' = TRUE
        /\ requests' = requests \cup {Request(q)}
        /\ UNCHANGED queued
     \/ /\ ~MayLoad
        /\ QueuedCall
        /\ UNCHANGED <<loading, requests>>

\* state.socket is there, and OPEN or CONNECTING.
Streaming == socket # NoSocket /\ status[socket] \in {"open", "connecting"}

Unused == {s \in Sockets : status[s] = "none"}

\* connectTrafficStream, for state.live = on, with the timers `left` armed and
\* `text` on the indicator.
Connect(on, left, text) ==
  \/ /\ on /\ ~HasWebSocket
     /\ timers' = left \cup {"fallback"}
     /\ label' = "Fallback"
     /\ UNCHANGED stream
  \/ /\ on /\ HasWebSocket /\ ~Streaming
     /\ Unused # {}
     /\ LET s == CHOOSE s \in Unused : TRUE
        IN  socket' = s /\ status' = [status EXCEPT ![s] = "connecting"]
     /\ timers' = left
     /\ label' = "Connecting"
     /\ UNCHANGED <<connected, told, unread>>
  \/ /\ ~on \/ (HasWebSocket /\ Streaming)
     /\ timers' = left /\ label' = text
     /\ UNCHANGED stream

\* Wrong on purpose: the timers of the stream stay armed.
TimersKept == timers

\* The timers that disconnectTrafficStream leaves armed: it clears those of
\* the reconnection and of the polling.
TimersLeft == timers \ {"reconnect", "fallback"}

\* setLive(FALSE), disconnectTrafficStream included.
Pause ==
  /\ live' = FALSE
  /\ label' = "Paused"
  /\ timers' = TimersLeft
  /\ socket' = NoSocket
  /\ connected' = IF socket = NoSocket THEN connected ELSE FALSE
  /\ status' = [s \in Sockets |->
                  IF s = socket /\ Streaming THEN "closing" ELSE status[s]]
  /\ unread' = [s \in Sockets |-> IF s = socket THEN 0 ELSE unread[s]]
  /\ UNCHANGED told

-----------------------------------------------------------------------------
\* The server

Commit ==
  /\ page = "here" /\ data < MaxRevision
  /\ data' = data + 1
  /\ UNCHANGED <<session, tab, form, live, label, loads, table, timers, stream>>

\* Logout in another tab, expiry, the user disabled or deleted.
EndSession ==
  /\ page = "here" /\ session
  /\ session' = FALSE
  /\ UNCHANGED <<data, tab, form, live, label, loads, table, timers, stream>>

Answered(r, stage, revision) ==
  /\ page = "here" /\ r \in requests /\ r.stage = "sent"
  /\ requests' = (requests \ {r}) \cup {[r EXCEPT !.stage = stage, !.revision = revision]}
  /\ UNCHANGED <<server, tab, form, live, label, loading, queued, wanted, table, timers, stream>>

\* The rows as the database has them, or 401 when the session is not good.
AnswerRows(r) == session /\ Answered(r, "ok", data)
AnswerExpired(r) == ~session /\ Answered(r, "expired", 0)

\* 503 because the storage is busy, another error, or no answer at all.
AnswerFails(r) == Answered(r, "failed", 0)

\* The handshake succeeds; the handler sends "ready".
Opens(s) ==
  /\ page = "here" /\ session /\ status[s] = "connecting"
  /\ status' = [status EXCEPT ![s] = "open"]
  /\ told' = [told EXCEPT ![s] = data]
  /\ unread' = [unread EXCEPT ![s] = 1]
  /\ socket = s
  /\ connected' = TRUE
  /\ timers' = timers \ {"fallback"}
  /\ label' = "Live"
  /\ UNCHANGED <<server, tab, form, live, loads, table, socket>>

\* The handler tells the browser of a revision it has not told it yet.
Notify(s) ==
  /\ page = "here" /\ status[s] = "open" /\ told[s] # data
  /\ told' = [told EXCEPT ![s] = data]
  /\ unread' = [unread EXCEPT ![s] = @ + 1]
  /\ UNCHANGED <<server, tab, form, live, label, loads, table, timers, socket, connected,
                 status>>

\* The connection is lost, or the handler closes it: with code 4401 when it
\* finds the session no longer good.
Drops(s) ==
  /\ page = "here" /\ status[s] = "open"
  /\ \/ status' = [status EXCEPT ![s] = "closing"]
     \/ ~session /\ status' = [status EXCEPT ![s] = "expiring"]
  /\ unread' = [unread EXCEPT ![s] = 0]
  /\ UNCHANGED <<server, tab, form, live, label, loads, table, timers, socket, connected, told>>

-----------------------------------------------------------------------------
\* Events of the stream

\* queueRealtimeRefresh, for "ready" and for "traffic_changed"; the first sets
\* the indicator too.
Message(s) ==
  /\ page = "here" /\ status[s] = "open" /\ unread[s] > 0
  /\ unread' = [unread EXCEPT ![s] = @ - 1]
  /\ label' \in {label, "Live"}
  /\ timers' = IF live /\ offset = 0 THEN timers \cup {"refresh"} ELSE timers
  /\ UNCHANGED <<server, tab, form, live, loads, table, socket, connected, status, told>>

\* Wrong on purpose: the page does not go to the login after code 4401.
NotExpired(s) == IF status[s] = "expiring" THEN {} ELSE {"fallback", "reconnect"}

\* Wrong on purpose: every close of the stream counts as code 4401.
AnyCloseExpires(s) == {"login"}

\* Wrong on purpose: a lost stream is not connected again, nor replaced.
NothingArmed(s) == IF status[s] = "expiring" THEN {"login"} ELSE {}

\* The timers armed when the stream of s has closed.  A handshake the server
\* refuses reaches the browser without the server's own code, so the branch
\* for 4403 is not taken and 4401 comes from open streams only.
ArmedByClose(s) == IF status[s] = "expiring" THEN {"login"} ELSE {"fallback", "reconnect"}

\* Wrong on purpose: the close of a replaced socket counts as the stream's.
AnySocket(s) == TRUE

\* Events of a socket that has been replaced are ignored.
IsCurrent(s) == socket = s

\* The indicator when the stream of s has closed.
LabelOfClose(s) == IF status[s] = "expiring" THEN "Expired" ELSE "Reconnecting"

\* The close event.  A connection attempt fails with no state in between.
Closed(s) ==
  /\ page = "here" /\ status[s] \in {"connecting", "closing", "expiring"}
  /\ status' = [status EXCEPT ![s] = "none"]
  /\ told' = [told EXCEPT ![s] = 0]
  /\ \/ /\ ~IsCurrent(s)
        /\ UNCHANGED <<socket, connected, timers, label>>
     \/ /\ IsCurrent(s)
        /\ socket' = NoSocket /\ connected' = FALSE
        /\ timers' = IF live THEN timers \cup ArmedByClose(s) ELSE timers
        /\ label' = IF live THEN LabelOfClose(s) ELSE label
  /\ UNCHANGED <<server, tab, form, live, loads, table, unread>>

-----------------------------------------------------------------------------
\* The end of a load

\* The form or the page has changed since the request was sent.
Outdated(r) == r.query # Current

\* The `finally` of loadTraffic and the microtask it queues: the load that was
\* asked for in the meantime begins.
EndLoad(r) ==
  LET again == queued \/ (r.stage = "ok" /\ Outdated(r))
  IN  /\ queued' = FALSE
      /\ loading' = again
      /\ requests' = IF again THEN (requests \ {r}) \cup {Request(Current)} ELSE requests \ {r}
      /\ wanted' = IF again THEN Current ELSE wanted

\* initializeDashboard connects the stream when the load it awaits has ended.
Awaited(text) ==
  /\ boot' = IF boot = "load" THEN "done" ELSE boot
  /\ Connect(live /\ boot = "load", timers, text)

ShowRows(r) ==
  /\ page = "here" /\ r \in requests /\ r.stage = "ok"
  /\ IF Outdated(r)
       THEN UNCHANGED table
       ELSE shown' = [query |-> r.query, revision |-> r.revision] /\ failed' = FALSE
  /\ EndLoad(r)
  /\ Awaited(label)
  /\ UNCHANGED <<server, page, hidden, form, live>>

\* The indicator falls back to "Fallback" when there is no stream.
LoadFails(r) ==
  /\ page = "here" /\ r \in requests /\ r.stage = "failed"
  /\ failed' = TRUE
  /\ EndLoad(r)
  /\ Awaited(IF connected THEN label ELSE "Fallback")
  /\ UNCHANGED <<server, page, hidden, form, live, shown>>

\* 401: the tab goes to the login page.
LoadExpires(r) ==
  /\ page = "here" /\ r \in requests /\ r.stage = "expired"
  /\ page' = "left"
  /\ UNCHANGED <<server, hidden, boot, form, live, label, loads, table, timers, stream>>

-----------------------------------------------------------------------------
\* Timers

\* The debounced refresh.
RefreshFires ==
  /\ page = "here" /\ "refresh" \in timers
  /\ timers' = timers \ {"refresh"}
  /\ LoadTraffic(Current)
  /\ UNCHANGED <<server, tab, form, live, label, table, stream>>

\* When a turn of the polling interval loads.
Polls == live /\ ~hidden /\ offset = 0 /\ ~connected

FallbackFires ==
  /\ page = "here" /\ "fallback" \in timers
  /\ Polls
  /\ LoadTraffic(Current)
  /\ UNCHANGED <<server, tab, form, live, label, table, timers, stream>>

ReconnectFires ==
  /\ page = "here" /\ "reconnect" \in timers
  /\ Connect(live, timers \ {"reconnect"}, label)
  /\ UNCHANGED <<server, tab, form, live, loads, table>>

\* The user has stopped typing in the search or host field.
DebounceFires ==
  /\ page = "here" /\ "debounce" \in timers
  /\ timers' = timers \ {"debounce"}
  /\ offset' = 0 /\ saved' = filter
  /\ LoadTraffic(Query(filter, 0))
  /\ UNCHANGED <<server, tab, filter, live, label, table, stream>>

LoginFires ==
  /\ page = "here" /\ "login" \in timers
  /\ page' = "left"
  /\ UNCHANGED <<server, hidden, boot, form, live, label, loads, table, timers, stream>>

-----------------------------------------------------------------------------
\* The page and its user

\* loadOptions has ended: the form is restored again, over what the user has
\* changed meanwhile, and initializeDashboard awaits its loadTraffic.
OptionsLoaded ==
  /\ page = "here" /\ boot = "options"
  /\ filter' \in {filter, saved}
  /\ LoadTraffic(Query(filter', offset))
  /\ IF MayLoad
       THEN boot' = "load" /\ UNCHANGED <<label, timers, stream>>
       ELSE boot' = "done" /\ Connect(live, timers, label)
  /\ UNCHANGED <<server, page, hidden, saved, offset, live, table>>

\* A time field, or a number half typed: nothing listens.
Edit ==
  /\ page = "here"
  /\ filter' \in Filters \ {filter}
  /\ UNCHANGED <<server, tab, saved, offset, live, label, loads, table, timers, stream>>

\* A key in the search or host field.
Type ==
  /\ page = "here"
  /\ filter' \in Filters \ {filter}
  /\ timers' = timers \cup {"debounce"}
  /\ UNCHANGED <<server, tab, saved, offset, live, label, loads, table, stream>>

\* "Apply filters", a select, a removed chip, or "Reset filters".
Submit ==
  /\ page = "here"
  /\ \E f \in Filters :
       /\ filter' = f /\ saved' = f /\ offset' = 0
       /\ LoadTraffic(Query(f, 0))
  /\ UNCHANGED <<server, tab, live, label, table, timers, stream>>

\* "Refresh", a button that is disabled during a load.
Refresh ==
  /\ page = "here" /\ ~loading
  /\ LoadTraffic(Current)
  /\ UNCHANGED <<server, tab, form, live, label, table, timers, stream>>

\* The page before o, not before the first.
Before(o) == IF o = 0 THEN 0 ELSE o - 1

\* "Next" and "Previous" pause the stream; what was rendered last enables them.
TurnPage(o) ==
  /\ page = "here"
  /\ offset' = o
  /\ Pause
  /\ LoadTraffic(Query(filter, o))
  /\ UNCHANGED <<server, tab, filter, saved, table>>

NextPage == offset < MaxOffset /\ TurnPage(offset + 1)
PreviousPage == shown.query.offset > 0 /\ TurnPage(Before(offset))

PauseLive ==
  /\ page = "here" /\ live
  /\ Pause
  /\ UNCHANGED <<server, tab, form, loads, table>>

ResumeLive ==
  /\ page = "here" /\ ~live
  /\ live' = TRUE
  /\ LoadTraffic(Current)
  /\ Connect(TRUE, timers, label)
  /\ UNCHANGED <<server, tab, form, table>>

Hide ==
  /\ page = "here" /\ ~hidden
  /\ hidden' = TRUE
  /\ UNCHANGED <<server, page, boot, form, live, label, loads, table, timers, stream>>

Show ==
  /\ page = "here" /\ hidden
  /\ hidden' = FALSE
  /\ IF live
       THEN LoadTraffic(Current) /\ Connect(TRUE, timers, label)
       ELSE UNCHANGED <<label, loads, timers, stream>>
  /\ UNCHANGED <<server, page, boot, form, live, table>>

-----------------------------------------------------------------------------

Answer == \E r \in requests : AnswerRows(r) \/ AnswerExpired(r) \/ AnswerFails(r)
Finish == \E r \in requests : ShowRows(r) \/ LoadFails(r) \/ LoadExpires(r)
User ==
  \/ "form" \in Acts /\ (Edit \/ Type \/ Submit \/ Refresh)
  \/ "page" \in Acts /\ (NextPage \/ PreviousPage)
  \/ "pause" \in Acts /\ (PauseLive \/ ResumeLive)
  \/ "tab" \in Acts /\ (Hide \/ Show)

Next ==
  \/ Commit \/ EndSession \/ Answer \/ Finish \/ OptionsLoaded \/ User
  \/ RefreshFires \/ FallbackFires \/ ReconnectFires \/ DebounceFires \/ LoginFires
  \/ \E s \in Sockets : Opens(s) \/ Notify(s) \/ Drops(s) \/ Message(s) \/ Closed(s)

Spec == Init /\ [][Next]_vars

\* Requests end, timers fire, sockets open or fail and their events arrive, and
\* the stream tells what is new and closes an expired session's (LiveTraffic's
\* Converges and RevokedIsClosed).  Strong fairness for two: a stream that drops
\* again and again now and then delivers a message first, "ready" being sent at
\* once; and a storage that is now and then not busy answers in the end.  The
\* user need do nothing.
Fairness ==
  /\ SF_vars(\E r \in requests : AnswerRows(r) \/ AnswerExpired(r))
  /\ WF_vars(Finish) /\ WF_vars(OptionsLoaded)
  /\ WF_vars(RefreshFires) /\ WF_vars(FallbackFires) /\ WF_vars(ReconnectFires)
  /\ WF_vars(LoginFires)
  /\ WF_vars(\E s \in Sockets : Notify(s))
  /\ SF_vars(\E s \in Sockets : Message(s))
  /\ WF_vars(\E s \in Sockets : ~session /\ Drops(s))
  /\ \A s \in Sockets : WF_vars(Opens(s) \/ Closed(s))

FairSpec == Spec /\ Fairness

-----------------------------------------------------------------------------

\* A tab has one stream at most, the one it listens to: nothing reconnects
\* while a connection is being made or is there, and no replaced socket stays
\* open behind the page.
OneStream ==
  \A s \in Sockets : status[s] \in {"connecting", "open"} => socket = s

\* A paused dashboard has no stream, does not poll and does not reconnect.
PausedHoldsNothing ==
  ~live => socket = NoSocket /\ timers \cap {"fallback", "reconnect"} = {}

\* "It uses polling only while the WebSocket is unavailable": and when it is
\* unavailable, a live dashboard that has come up does poll, or is about to
\* connect, or goes to the login page.
PollsOnlyWithoutStream ==
  /\ "fallback" \in timers => ~connected
  /\ live /\ boot = "done" /\ socket = NoSocket => timers \cap {"fallback", "login"} # {}

\* The indicator says "Live" only while the stream is connected and not paused,
\* and it says so over every open stream.
LiveLabelIsTrue ==
  /\ label = "Live" => live /\ connected
  /\ \A s \in Sockets : status[s] = "open" => connected /\ label = "Live"

\* With no load under way the table answers the last call of loadTraffic: no
\* request for rows is lost in another one, and no answer overtakes another.
SettledShowsWanted ==
  ~loading /\ ~failed => requests = {} /\ shown.query = wanted

\* A live first page at rest, with no load under way or to come and no message
\* of the stream unread, shows all that the stream has told it of, unless its
\* last load failed: no notification is lost in the debounce of another, in a
\* load that was under way, or in the turn of a page.
RestingPageIsCurrent ==
  live /\ offset = 0 /\ ~loading /\ ~failed /\ "refresh" \notin timers =>
    \A s \in Sockets : status[s] = "open" /\ unread[s] = 0 => shown.revision >= told[s]

\* The table never goes back to an older state of the traffic.
NoOlderRows == [][shown'.revision >= shown.revision]_vars

\* Where the dashboard does not promise to follow the traffic.
Excused == page = "left" \/ ~live \/ offset # 0 \/ hidden

\* A live dashboard on its first page shows the newest traffic again and
\* again, however often the stream drops, unless its last load failed while
\* the stream stayed up (nothing repeats that load).
CatchesUp == []<>(Excused \/ shown.revision = data \/ (failed /\ connected))

\* A visible, live dashboard whose session has ended goes to the login page.
ExpiredLeaves == ~session ~> Excused

\* And only such a one: while the session is good nothing sends the tab to the
\* login page, not a busy storage that fails a load, not a stream that drops,
\* not a handshake that is refused, however they follow one another.
OnlyExpiredLeaves == session => page = "here" /\ "login" \notin timers

\* "Pause live stops automatic refresh".
PausedStopsRefresh == [][RefreshFires \/ FallbackFires => live]_vars
=============================================================================
