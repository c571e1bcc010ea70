---------------------------- MODULE FlowCapture ----------------------------
(***************************************************************************)
(* ImrProxyAddon: the hooks mitmproxy calls while a request, a tunnel, a   *)
(* WebSocket or a server connection lives, and the row each hook writes.   *)
(*                                                                         *)
(* A hook runs to its end on the event loop of the proxy thread, so hooks  *)
(* are atomic among themselves.  What it can meet is a save that raises    *)
(* (FlowStore has the statements) or a terminal that does, once the row is *)
(* committed: mitmproxy logs the exception of the hook and goes on, and    *)
(* what the hook had still to do is not done.                              *)
(***************************************************************************)
EXTENDS Naturals

CONSTANTS
  Flows,    \* ids of mitmproxy's HTTP flows
  Servers,  \* ids of mitmproxy's server connections
  Scope     \* those that config.scope and config.exclude let in

ASSUME CaptureAssumption ==
  /\ Flows \cap Servers = {}
  /\ Scope \subseteq Flows \cup Servers

VARIABLES
  stage,    \* where mitmproxy is with each flow and server connection
  rows,     \* rows[k]: the committed row of record k
  open,     \* the rows as the proxy's connection sees them
  started,  \* _started: the flows with a start time
  printed,  \* printed[k]: the state the terminal printed last for k
  missed,   \* history: records whose last hook could not save its row
  raised    \* history: records whose last hook raised, saved or not

vars == <<stage, rows, open, started, printed, missed, raised>>

Things == Flows \cup Servers
EventTypes == {"http", "connect", "websocket", "connection"}
States == {"none", "pending", "complete", "error", "connected", "active", "closed",
           "disconnected"}

\* A record has an id; its row has a state, and a duration or none.
Ids == ((EventTypes \ {"connection"}) \X Flows) \cup ({"connection"} \X Servers)
Row(state, timed) == [state |-> state, timed |-> timed]
NoRow == Row("none", FALSE)

\* Every variable has its type.
TypeOK ==
  /\ stage \in [Things -> {"new", "headers", "body", "upgraded", "socket", "connecting",
                           "connected", "ended", "lost"}]
  /\ rows \in [Ids -> [state : States, timed : BOOLEAN]]
  /\ open \in [Ids -> [state : States, timed : BOOLEAN]]
  /\ started \subseteq Flows
  /\ printed \in [Ids -> States]
  /\ missed \subseteq Ids /\ raised \subseteq Ids

Init ==
  /\ stage = [x \in Things |-> "new"]
  /\ rows = [k \in Ids |-> NoRow] /\ open = rows
  /\ started = {}
  /\ printed = [k \in Ids |-> "none"]
  /\ missed = {} /\ raised = {}

-----------------------------------------------------------------------------

\* Wrong on purpose: the records of one flow share one row.
SharedId(type, x) == <<"http", x>>

\* _flow_id and _server_connection_id: the event type is part of the id.
RecordId(type, x) == <<type, x>>

\* What a hook can come to, in save or on the terminal after it.
Outcomes == {"skipped", "saved", "unprinted", "busy", "open", "rolledBack"}

\* The outcomes with which it goes on after _save_http.
Returns == {"skipped", "saved"}

\* Wrong on purpose: the terminal prints before the row is saved.
PrintsFirst(outcome) == outcome \notin {"skipped", "unprinted"}

\* The terminal prints what has been saved.
Prints(outcome) == outcome = "saved"

\* _save_http and _save_server_connection, for the record of x in this state;
\* `times` are the flows whose start time is known.
\*   skipped     x is not in scope
\*   saved       the row is committed, and printed where the hook asks for it
\*   unprinted   the row is committed, and terminal.emit raises: LivePrinter
\*               has no handler, and writes to a stdout that may be closed or
\*               of an encoding without the characters of a URL
\*   busy        the INSERT raises, or what comes before it: nothing is written
\*   open        a later statement raises, the transaction stays open
\*   rolledBack  a later statement raises, and SQLite has rolled back
Save(type, x, state, emits, times, outcome) ==
  LET k == RecordId(type, x)
      row == Row(state, type # "connection" /\ x \in times)
  IN  /\ (outcome = "skipped") = (x \notin Scope)
      /\ outcome = "unprinted" => emits
      /\ open' = CASE outcome \in {"saved", "unprinted", "open"} -> [open EXCEPT ![k] = row]
                   [] outcome = "rolledBack" -> rows
                   [] OTHER -> open
      /\ rows' = IF outcome \in {"saved", "unprinted"} THEN open' ELSE rows
      /\ printed' = IF emits /\ Prints(outcome) THEN [printed EXCEPT ![k] = state] ELSE printed
      /\ missed' = IF outcome \in Returns \cup {"unprinted"} THEN missed \ {k} ELSE missed \cup {k}
      /\ raised' = IF outcome \in Returns THEN raised \ {k} ELSE raised \cup {k}

\* A hook that begins with _started.setdefault.
HookThatStarts(type, x, state, emits) ==
  /\ started' = started \cup {x}
  /\ \E outcome \in Outcomes : Save(type, x, state, emits, started \cup {x}, outcome)

Hook(type, x, state, emits) ==
  /\ UNCHANGED started
  /\ \E outcome \in Outcomes : Save(type, x, state, emits, started, outcome)

\* Wrong on purpose: the start time is never taken out.
HookWithoutPop(type, x, state, emits) == Hook(type, x, state, emits)

\* A hook that ends with _started.pop, which an exception of save or of the
\* terminal passes over.
HookThatEnds(type, x, state, emits) ==
  \E outcome \in Outcomes :
    /\ Save(type, x, state, emits, started, outcome)
    /\ IF outcome \in Returns
         THEN started' = started \ {x}
         ELSE UNCHANGED started

\* mitmproxy's next event for x.
Moves(x, from, to) ==
  /\ stage[x] \in from
  /\ stage' = [stage EXCEPT ![x] = to]

-----------------------------------------------------------------------------
\* The hooks, in the order mitmproxy calls them for one flow: requestheaders,
\* request, and then either response or error.

requestheaders(f) ==
  Moves(f, {"new"}, "headers") /\ HookThatStarts("http", f, "pending", FALSE)

request(f) == Moves(f, {"headers"}, "body") /\ HookThatStarts("http", f, "pending", FALSE)

\* Wrong on purpose: a response leaves the row pending.
ResponsePending == "pending"

\* The state of the row of a request that was answered.
ResponseState == "complete"

\* The response may be the upgrade to a WebSocket.
response(f) ==
  /\ Moves(f, {"body"}, "ended") \/ Moves(f, {"body"}, "upgraded")
  /\ HookThatEnds("http", f, ResponseState, TRUE)

error(f) == Moves(f, {"headers", "body"}, "ended") /\ HookThatEnds("http", f, "error", TRUE)

http_connect(f) ==
  Moves(f, {"new"}, "connecting") /\ HookThatStarts("connect", f, "pending", TRUE)

http_connected(f) ==
  Moves(f, {"connecting"}, "ended") /\ HookThatEnds("connect", f, "connected", TRUE)

http_connect_error(f) ==
  Moves(f, {"connecting"}, "ended") /\ HookThatEnds("connect", f, "error", TRUE)

websocket_start(f) == Moves(f, {"upgraded"}, "socket") /\ Hook("websocket", f, "active", TRUE)
websocket_message(f) == Moves(f, {"socket"}, "socket") /\ Hook("websocket", f, "active", FALSE)
websocket_end(f) == Moves(f, {"socket"}, "ended") /\ Hook("websocket", f, "closed", TRUE)

server_connect(s) == Moves(s, {"new"}, "connecting") /\ Hook("connection", s, "pending", TRUE)

server_connected(s) ==
  Moves(s, {"connecting"}, "connected") /\ Hook("connection", s, "connected", TRUE)

server_connect_error(s) ==
  Moves(s, {"connecting"}, "ended") /\ Hook("connection", s, "error", TRUE)

server_disconnected(s) ==
  Moves(s, {"connected"}, "ended") /\ Hook("connection", s, "disconnected", TRUE)

\* The process ends and starts again: the open transaction, the start times
\* and whatever mitmproxy was busy with are lost.
Crash ==
  /\ stage' = [x \in Things |-> IF stage[x] \in {"new", "ended"} THEN stage[x] ELSE "lost"]
  /\ open' = rows
  /\ started' = {}
  /\ printed' = [k \in Ids |-> "none"]
  /\ UNCHANGED <<rows, missed, raised>>

FlowHook(f) ==
  \/ requestheaders(f) \/ request(f) \/ response(f) \/ error(f)
  \/ http_connect(f) \/ http_connected(f) \/ http_connect_error(f)
  \/ websocket_start(f) \/ websocket_message(f) \/ websocket_end(f)

ServerHook(s) ==
  \/ server_connect(s) \/ server_connected(s) \/ server_connect_error(s)
  \/ server_disconnected(s)

Next == Crash \/ (\E f \in Flows : FlowHook(f)) \/ (\E s \in Servers : ServerHook(s))

Spec == Init /\ [][Next]_vars

-----------------------------------------------------------------------------

\* How far a row is in the life of its record.
Rank(state) ==
  CASE state = "none" -> 0
    [] state \in {"pending", "active"} -> 1
    [] state = "connected" -> 2
    [] OTHER -> 3

\* The last states of a record.
Final(type) ==
  CASE type = "http" -> {"complete", "error"}
    [] type = "connect" -> {"connected", "error"}
    [] type = "websocket" -> {"closed"}
    [] type = "connection" -> {"disconnected", "error"}

\* Upserts by a stable id only move a row on: no hook, and no transaction
\* left open by an earlier one, takes a row back, and one that has come to
\* its end is never overwritten by another event of the same flow.
RowsMoveForward ==
  [][\A k \in Ids :
       \/ rows'[k].state = rows[k].state
       \/ Rank(rows'[k].state) > Rank(rows[k].state)]_vars

\* What mitmproxy has ended is final in the table, unless the save of the last
\* hook raised: a request is not left pending by a response or an error.
EndedIsFinal ==
  \A k \in Ids :
    stage[k[2]] = "ended" /\ k \notin missed => rows[k].state \in Final(k[1]) \cup {"none"}

\* The start times are those of the flows under way, from the first hook to
\* the last, and besides them only those of flows whose last hook raised,
\* which stay for ever: in save, or on the terminal with the row committed.
StartTimesAreUsed ==
  \A f \in Flows :
    LET underWay == stage[f] \in {"headers", "body", "connecting"}
    IN  /\ underWay => f \in started
        /\ f \in started => underWay \/ \E type \in {"http", "connect"} : <<type, f>> \in raised

\* A request or tunnel that has come to its end has a duration, whichever of
\* its hooks could not save.
FinalRowsAreTimed ==
  \A k \in Ids :
    k[1] \in {"http", "connect"} /\ rows[k].state \in Final(k[1]) => rows[k].timed

\* Whatever the terminal printed is in the table, or what came after it.
PrintedIsStored == \A k \in Ids : Rank(printed[k]) <= Rank(rows[k].state)
=============================================================================
