------------------------- MODULE FlowCaptureProofs -------------------------
(***************************************************************************)
(* Proofs about FlowCapture, for any number of flows and connections and   *)
(* any scope: its types, that rows only move forward and end final, and    *)
(* what the start times and the terminal have to do with them.             *)
(***************************************************************************)
EXTENDS FlowCapture, TLAPS

\* The states a row of this type may have while its flow or connection is at
\* this stage.
Allowed(type, st) ==
  IF type = "http" THEN
    IF st \in {"new", "connecting"} THEN {"none"}
    ELSE IF st \in {"headers", "body"} THEN {"none", "pending"} ELSE States
  ELSE IF type = "connect" THEN
    IF st = "connecting" THEN {"none", "pending"}
    ELSE IF st \in {"ended", "lost"} THEN States ELSE {"none"}
  ELSE IF type = "websocket" THEN
    IF st = "socket" THEN {"none", "active"}
    ELSE IF st \in {"ended", "lost"} THEN States ELSE {"none"}
  ELSE
    IF st = "new" THEN {"none"}
    ELSE IF st = "connecting" THEN {"none", "pending"}
    ELSE IF st = "connected" THEN {"none", "pending", "connected"} ELSE States

\* mitmproxy has no more events for the record.
Done(type, st) == st = "ended" \/ (type = "http" /\ st \in {"upgraded", "socket"})

\* A row moves forward from state a to b, or stays.
Forward(a, b) == a = b \/ Rank(b) > Rank(a)

\* What the proxy's connection sees is what is committed, or further on: and
\* further on only for records whose last save raised.
OpenInv ==
  \A k \in Ids :
    /\ rows[k].state \in Allowed(k[1], stage[k[2]])
    /\ open[k].state \in Allowed(k[1], stage[k[2]])
    /\ k \notin missed => open[k] = rows[k]
    /\ Forward(rows[k].state, open[k].state)
    /\ k[2] \notin Scope => rows[k] = NoRow /\ open[k] = NoRow

FinalInv ==
  \A k \in Ids :
    /\ Done(k[1], stage[k[2]]) /\ k \notin missed => rows[k].state \in Final(k[1]) \cup {"none"}
    /\ k[1] \in {"http", "connect"} /\ rows[k].state \in Final(k[1]) => rows[k].timed
    /\ k[1] \in {"http", "connect"} /\ open[k].state \in Final(k[1]) => open[k].timed

IInv == TypeOK /\ OpenInv /\ FinalInv /\ StartTimesAreUsed /\ PrintedIsStored

RowType == [state : States, timed : BOOLEAN]

-----------------------------------------------------------------------------
\* Ids and ranks

LEMMA IdParts ==
  ASSUME NEW k \in Ids
  PROVE  k[1] \in EventTypes /\ k[2] \in Things /\ k = <<k[1], k[2]>>
BY DEF Ids, EventTypes, Things

LEMMA IdOfFlow ==
  ASSUME NEW f \in Flows
  PROVE  /\ f \in Things /\ f \notin Servers
         /\ \A t : <<t, f>> \in Ids <=> t \in {"http", "connect", "websocket"}
BY CaptureAssumption DEF Ids, EventTypes, Things

LEMMA IdOfServer ==
  ASSUME NEW s \in Servers
  PROVE  /\ s \in Things /\ s \notin Flows
         /\ \A t : <<t, s>> \in Ids <=> t = "connection"
BY CaptureAssumption DEF Ids, EventTypes, Things

LEMMA RankNat == ASSUME NEW a PROVE Rank(a) \in 0 .. 3
<1>1. CASE a = "none"
  BY <1>1 DEF Rank
<1>2. CASE a \in {"pending", "active"}
  BY <1>2 DEF Rank
<1>3. CASE a = "connected"
  BY <1>3 DEF Rank
<1>4. CASE a \notin {"none", "pending", "active", "connected"}
  BY <1>4 DEF Rank
<1> QED BY <1>1, <1>2, <1>3, <1>4

LEMMA RankValues ==
  /\ Rank("none") = 0
  /\ Rank("pending") = 1 /\ Rank("active") = 1
  /\ Rank("connected") = 2
  /\ Rank("complete") = 3 /\ Rank("error") = 3 /\ Rank("closed") = 3 /\ Rank("disconnected") = 3
BY DEF Rank

LEMMA ForwardTransitive ==
  ASSUME NEW a, NEW b, NEW c, Forward(a, b), Forward(b, c)
  PROVE  Forward(a, c) /\ Rank(a) <= Rank(c)
BY RankNat DEF Forward

\* What a hook may ask of save: to move x to a stage at which the new state is
\* allowed, and forward from every state allowed before.
Sound(type, x, to, state) ==
  /\ <<type, x>> \in Ids /\ state \in States
  /\ state \in Allowed(type, to)
  /\ \A a \in Allowed(type, stage[x]) : Forward(a, state)
  /\ \A t : <<t, x>> \in Ids => Allowed(t, stage[x]) \subseteq Allowed(t, to)
  /\ Done(type, to) => state \in Final(type)
  /\ \A t : <<t, x>> \in Ids /\ t # type /\ Done(t, to) =>
       Done(t, stage[x]) \/ Allowed(t, stage[x]) = {"none"}

\* One save of the record of x, whatever comes of it.
LEMMA SaveStep ==
  ASSUME TypeOK, OpenInv, FinalInv, PrintedIsStored,
         NEW type, NEW x \in Things, NEW to, NEW state, NEW emits, NEW times, NEW outcome \in Outcomes,
         stage' = [stage EXCEPT ![x] = to],
         Sound(type, x, to, state),
         type \in {"http", "connect"} /\ state \in Final(type) => x \in times,
         Save(type, x, state, emits, times, outcome)
  PROVE  /\ rows' \in [Ids -> RowType] /\ open' \in [Ids -> RowType]
         /\ printed' \in [Ids -> States] /\ missed' \subseteq Ids /\ raised' \subseteq Ids
         /\ OpenInv' /\ FinalInv' /\ PrintedIsStored'
         /\ \A k \in Ids : Forward(rows[k].state, rows'[k].state)
<1> DEFINE id == <<type, x>>
           row == Row(state, type # "connection" /\ x \in times)
<1>1. id \in Ids /\ id[1] = type /\ id[2] = x /\ row \in RowType /\ row.state = state
  BY DEF Sound, Row, RowType
<1>2. rows \in [Ids -> RowType] /\ open \in [Ids -> RowType] /\ printed \in [Ids -> States]
      /\ missed \subseteq Ids /\ raised \subseteq Ids
  BY DEF TypeOK, RowType
<1>3. /\ (outcome = "skipped") = (x \notin Scope)
      /\ open' = CASE outcome \in {"saved", "unprinted", "open"} -> [open EXCEPT ![id] = row]
                   [] outcome = "rolledBack" -> rows
                   [] OTHER -> open
      /\ rows' = IF outcome \in {"saved", "unprinted"} THEN open' ELSE rows
      /\ printed' = IF emits /\ outcome = "saved" THEN [printed EXCEPT ![id] = state] ELSE printed
      /\ missed' = IF outcome \in {"saved", "skipped", "unprinted"}
                     THEN missed \ {id} ELSE missed \cup {id}
      /\ raised' \in {raised \ {id}, raised \cup {id}}
  BY DEF Save, RecordId, Prints, Returns
<1> HIDE DEF id, row
<1>a. raised' \subseteq Ids
  BY <1>1, <1>2, <1>3
\* What the five kinds of outcome do, record by record.
<1>4. \A k \in Ids :
        /\ Allowed(k[1], stage[k[2]]) \subseteq Allowed(k[1], stage'[k[2]])
        /\ k # id /\ Done(k[1], stage'[k[2]]) =>
             Done(k[1], stage[k[2]]) \/ Allowed(k[1], stage[k[2]]) = {"none"}
  <2> SUFFICES ASSUME NEW k \in Ids
               PROVE  /\ Allowed(k[1], stage[k[2]]) \subseteq Allowed(k[1], stage'[k[2]])
                      /\ k # id /\ Done(k[1], stage'[k[2]]) =>
                           Done(k[1], stage[k[2]]) \/ Allowed(k[1], stage[k[2]]) = {"none"}
    OBVIOUS
  <2>1. CASE k[2] = x
    <3>1. stage'[x] = to /\ k = <<k[1], x>> /\ (k # id => k[1] # type)
      BY <2>1, IdParts DEF id, TypeOK
    <3> QED BY <2>1, <3>1 DEF Sound
  <2>2. CASE k[2] # x
    BY <2>2, IdParts DEF TypeOK
  <2> QED BY <2>1, <2>2
<1>5. /\ state \in Allowed(type, stage'[x])
      /\ Forward(rows[id].state, state) /\ Forward(open[id].state, state)
      /\ Done(type, stage'[x]) => state \in Final(type)
  BY <1>1 DEF Sound, OpenInv, TypeOK
<1>6. type \in {"http", "connect"} /\ state \in Final(type) => row.timed
  BY DEF row, Row
<1>7. CASE outcome \in {"saved", "unprinted"}
  <2>1. /\ x \in Scope /\ rows' = [open EXCEPT ![id] = row] /\ open' = rows'
        /\ missed' = missed \ {id}
    BY <1>3, <1>7
  <2>2. rows'[id] = row /\ \A k \in Ids \ {id} : rows'[k] = open[k]
    BY <1>1, <1>2, <2>1
  <2>3. \A k \in Ids : Forward(rows[k].state, rows'[k].state)
    BY <1>1, <1>5, <2>2 DEF OpenInv
  <2>4. OpenInv'
    BY <1>1, <1>4, <1>5, <2>1, <2>2 DEF OpenInv, Forward
  <2>5. FinalInv'
    <3>1. \A k \in Ids \ {id} : k \notin missed => rows'[k] = rows[k]
      BY <2>2 DEF OpenInv
    <3>2. \A k \in Ids \ {id} : Done(k[1], stage'[k[2]]) /\ k \notin missed' =>
                                 rows'[k].state \in Final(k[1]) \cup {"none"}
      BY <1>4, <2>1, <3>1 DEF OpenInv, FinalInv
    <3>3. Done(type, stage'[x]) => rows'[id].state \in Final(type) \cup {"none"}
      BY <1>1, <1>5, <2>2
    <3> QED BY <1>1, <1>6, <2>1, <2>2, <3>2, <3>3 DEF FinalInv
  <2>6. PrintedIsStored'
    <3>1. \A k \in Ids : printed'[k] \in {printed[k], rows'[k].state}
      BY <1>1, <1>2, <1>3, <2>2
    <3> QED BY <2>3, <3>1, RankNat DEF PrintedIsStored, Forward
  <2> QED BY <1>1, <1>2, <1>3, <1>a, <2>1, <2>3, <2>4, <2>5, <2>6 DEF Sound
<1>8. CASE outcome = "skipped"
  <2>1. x \notin Scope /\ UNCHANGED <<rows, open, printed>> /\ missed' = missed \ {id}
    BY <1>3, <1>8
  <2>2. rows[id] = NoRow /\ open[id] = NoRow
    BY <1>1, <2>1 DEF OpenInv
  <2>3. OpenInv'
    BY <1>1, <1>4, <2>1, <2>2 DEF OpenInv
  <2>4. FinalInv'
    BY <1>1, <1>4, <2>1, <2>2 DEF FinalInv, OpenInv, NoRow, Row
  <2>5. PrintedIsStored'
    BY <2>1 DEF PrintedIsStored
  <2> QED BY <1>2, <1>a, <2>1, <2>3, <2>4, <2>5 DEF Forward
<1>9. CASE outcome \in {"busy", "open", "rolledBack"}
  <2>1. /\ x \in Scope /\ UNCHANGED <<rows, printed>> /\ missed' = missed \cup {id}
        /\ open' \in {open, rows, [open EXCEPT ![id] = row]}
    BY <1>3, <1>9
  <2>2. \A k \in Ids : open'[k] \in {open[k], rows[k]} \/ (k = id /\ open'[k] = row)
    BY <1>1, <1>2, <2>1
  <2>3. OpenInv'
    <3>1. \A k \in Ids : Forward(rows[k].state, open'[k].state)
      BY <1>1, <1>5, <2>2 DEF OpenInv, Forward
    <3> QED BY <1>1, <1>4, <1>5, <2>1, <2>2, <3>1 DEF OpenInv
  <2>4. FinalInv'
    <3>1. \A k \in Ids : k \notin missed' => k # id /\ k \notin missed
      BY <2>1
    <3> QED BY <1>1, <1>4, <1>6, <2>1, <2>2, <3>1 DEF FinalInv, OpenInv
  <2>5. PrintedIsStored'
    BY <2>1 DEF PrintedIsStored
  <2> QED BY <1>1, <1>2, <1>a, <2>1, <2>3, <2>4, <2>5 DEF Forward
<1> QED BY <1>a, <1>7, <1>8, <1>9 DEF Outcomes

-----------------------------------------------------------------------------
\* The hooks

\* What every hook establishes.
Stepped ==
  /\ rows' \in [Ids -> RowType] /\ open' \in [Ids -> RowType]
  /\ printed' \in [Ids -> States] /\ missed' \subseteq Ids /\ raised' \subseteq Ids
  /\ OpenInv' /\ FinalInv' /\ PrintedIsStored'
  /\ \A k \in Ids : Forward(rows[k].state, rows'[k].state)

Stages ==
  {"new", "headers", "body", "upgraded", "socket", "connecting", "connected", "ended", "lost"}

LEMMA RaisedBySave ==
  ASSUME NEW type, NEW x, NEW state, NEW emits, NEW times, NEW outcome,
         Save(type, x, state, emits, times, outcome)
  PROVE  /\ outcome \in Returns => raised' = raised \ {<<type, x>>}
         /\ outcome \notin Returns => raised' = raised \cup {<<type, x>>}
BY DEF Save, RecordId

\* Hooks that set the start time of f.
LEMMA StartingHook ==
  ASSUME IInv, NEW f \in Flows, NEW type \in {"http", "connect"}, NEW emits,
         NEW from, NEW to \in {"headers", "body", "connecting"}, Moves(f, from, to),
         Sound(type, f, to, "pending"), HookThatStarts(type, f, "pending", emits)
  PROVE  IInv' /\ Stepped
<1>1. PICK outcome \in Outcomes : Save(type, f, "pending", emits, started \cup {f}, outcome)
  BY DEF HookThatStarts
<1>2. stage' = [stage EXCEPT ![f] = to] /\ started' = started \cup {f} /\ f \in Things
  BY DEF Moves, HookThatStarts, Things
<1>3. Stepped
  <2>1. "pending" \notin Final(type)
    BY DEF Final
  <2> QED BY <1>1, <1>2, <2>1, SaveStep DEF IInv, Stepped
<1>4. TypeOK'
  BY <1>2, <1>3 DEF IInv, TypeOK, Stepped, RowType, Stages, Things
<1>5. StartTimesAreUsed'
  <2>1. \A g \in Flows \ {f} : \A t : <<t, g>> \in raised => <<t, g>> \in raised'
    BY <1>1, RaisedBySave
  <2> QED BY <1>2, <2>1 DEF IInv, StartTimesAreUsed, TypeOK, Things
<1> QED BY <1>3, <1>4, <1>5 DEF IInv, Stepped

\* Hooks that take the start time of f out, when nothing raises in them.
LEMMA EndingHook ==
  ASSUME IInv, NEW f \in Flows, NEW type \in {"http", "connect"}, NEW emits, NEW state,
         NEW to \in {"ended", "upgraded"}, Moves(f, {"headers", "body", "connecting"}, to),
         Sound(type, f, to, state), HookThatEnds(type, f, state, emits)
  PROVE  IInv' /\ Stepped
<1>1. PICK outcome \in Outcomes :
        /\ Save(type, f, state, emits, started, outcome)
        /\ IF outcome \in Returns THEN started' = started \ {f} ELSE UNCHANGED started
  BY DEF HookThatEnds
<1>2. stage' = [stage EXCEPT ![f] = to] /\ f \in Things /\ f \in started
  BY DEF Moves, Things, IInv, StartTimesAreUsed
<1>3. Stepped
  BY <1>1, <1>2, SaveStep DEF IInv, Stepped
<1>4. TypeOK'
  BY <1>1, <1>2, <1>3 DEF IInv, TypeOK, Stepped, RowType, Things
<1>5. StartTimesAreUsed'
  <2>1. \A g \in Flows \ {f} : \A t : <<t, g>> \in raised => <<t, g>> \in raised'
    BY <1>1, RaisedBySave
  <2>2. f \in started' => <<type, f>> \in raised'
    BY <1>1, RaisedBySave
  <2>3. \A g \in Flows \ {f} : stage'[g] = stage[g] /\ (g \in started <=> g \in started')
    BY <1>1, <1>2 DEF IInv, TypeOK, Things
  <2>4. stage'[f] = to /\ started' \subseteq Flows
    BY <1>1, <1>2 DEF IInv, TypeOK
  <2> QED BY <2>1, <2>2, <2>3, <2>4 DEF IInv, StartTimesAreUsed
<1> QED BY <1>3, <1>4, <1>5 DEF IInv, Stepped

\* Hooks of a WebSocket or a server connection: start times are not theirs.
LEMMA OtherHook ==
  ASSUME IInv, NEW x \in Things, NEW type \in {"websocket", "connection"}, NEW emits, NEW state,
         NEW from, NEW to \in Stages, Moves(x, from, to), Sound(type, x, to, state),
         Hook(type, x, state, emits),
         x \in Flows => /\ stage[x] \notin {"headers", "body", "connecting"}
                        /\ to \notin {"headers", "body", "connecting"}
  PROVE  IInv' /\ Stepped
<1>1. PICK outcome \in Outcomes : Save(type, x, state, emits, started, outcome)
  BY DEF Hook
<1>2. stage' = [stage EXCEPT ![x] = to] /\ started' = started
  BY DEF Moves, Hook
<1>3. Stepped
  BY <1>1, <1>2, SaveStep DEF IInv, Stepped
<1>4. TypeOK'
  BY <1>2, <1>3 DEF IInv, TypeOK, Stepped, RowType, Stages
<1>5. StartTimesAreUsed'
  <2>1. \A f \in Flows : \A t \in {"http", "connect"} : <<t, f>> \in raised => <<t, f>> \in raised'
    BY <1>1, RaisedBySave
  <2>2. \A f \in Flows : \/ stage'[f] = stage[f]
                         \/ /\ stage[f] \notin {"headers", "body", "connecting"}
                            /\ stage'[f] \notin {"headers", "body", "connecting"}
    BY <1>2 DEF IInv, TypeOK, Things
  <2> QED BY <1>2, <2>1, <2>2 DEF IInv, StartTimesAreUsed, TypeOK
<1> QED BY <1>3, <1>4, <1>5 DEF IInv, Stepped

LEMMA requestheadersStep ==
  ASSUME IInv, NEW f \in Flows, requestheaders(f) \/ request(f) PROVE IInv' /\ Stepped
<1> USE IdOfFlow, RankValues DEF Sound, Allowed, Done, Final, Forward, States, Moves
<1>1. CASE requestheaders(f)
  <2>1. stage[f] = "new" /\ Sound("http", f, "headers", "pending")
    BY <1>1 DEF requestheaders
  <2> QED BY <1>1, <2>1, StartingHook DEF requestheaders
<1>2. CASE request(f)
  <2>1. stage[f] = "headers" /\ Sound("http", f, "body", "pending")
    BY <1>2 DEF request
  <2> QED BY <1>2, <2>1, StartingHook DEF request
<1> QED BY <1>1, <1>2

LEMMA responseStep ==
  ASSUME IInv, NEW f \in Flows, response(f) \/ error(f)
  PROVE  IInv' /\ Stepped
<1> USE IdOfFlow, RankValues DEF Sound, Allowed, Done, Final, Forward, States, Moves
<1>1. CASE response(f)
  <2>1. /\ stage[f] = "body"
        /\ Sound("http", f, "ended", "complete")
        /\ Sound("http", f, "upgraded", "complete")
    BY <1>1 DEF response, ResponseState
  <2> QED BY <1>1, <2>1, EndingHook DEF response, ResponseState
<1>2. CASE error(f)
  <2>1. /\ stage[f] \in {"headers", "body"}
        /\ Sound("http", f, "ended", "error")
    BY <1>2 DEF error
  <2> QED BY <1>2, <2>1, EndingHook DEF error
<1> QED BY <1>1, <1>2

LEMMA http_connectStep ==
  ASSUME IInv, NEW f \in Flows, http_connect(f)
  PROVE  IInv' /\ Stepped
<1> USE IdOfFlow, RankValues DEF Sound, Allowed, Done, Final, Forward, States, Moves
<1>1. CASE http_connect(f)
  <2>1. /\ stage[f] = "new"
        /\ Sound("connect", f, "connecting", "pending")
    BY <1>1 DEF http_connect
  <2> QED BY <1>1, <2>1, StartingHook DEF http_connect
<1> QED BY <1>1

LEMMA http_connectedStep ==
  ASSUME IInv, NEW f \in Flows, http_connected(f) \/ http_connect_error(f)
  PROVE  IInv' /\ Stepped
<1> USE IdOfFlow, RankValues DEF Sound, Allowed, Done, Final, Forward, States, Moves
<1>1. CASE http_connected(f)
  <2>1. /\ stage[f] = "connecting"
        /\ Sound("connect", f, "ended", "connected")
    BY <1>1 DEF http_connected
  <2> QED BY <1>1, <2>1, EndingHook DEF http_connected
<1>2. CASE http_connect_error(f)
  <2>1. /\ stage[f] = "connecting"
        /\ Sound("connect", f, "ended", "error")
    BY <1>2 DEF http_connect_error
  <2> QED BY <1>2, <2>1, EndingHook DEF http_connect_error
<1> QED BY <1>1, <1>2

LEMMA websocketStep ==
  ASSUME IInv, NEW f \in Flows, websocket_start(f) \/ websocket_message(f) \/ websocket_end(f)
  PROVE  IInv' /\ Stepped
<1> USE IdOfFlow, RankValues DEF Sound, Allowed, Done, Final, Forward, States, Moves
<1>1. CASE websocket_start(f)
  <2>1. /\ stage[f] = "upgraded"
        /\ Sound("websocket", f, "socket", "active")
    BY <1>1 DEF websocket_start
  <2> QED BY <1>1, <2>1, OtherHook DEF websocket_start, Stages
<1>2. CASE websocket_message(f)
  <2>1. /\ stage[f] = "socket"
        /\ Sound("websocket", f, "socket", "active")
    BY <1>2 DEF websocket_message
  <2> QED BY <1>2, <2>1, OtherHook DEF websocket_message, Stages
<1>3. CASE websocket_end(f)
  <2>1. /\ stage[f] = "socket"
        /\ Sound("websocket", f, "ended", "closed")
    BY <1>3 DEF websocket_end
  <2> QED BY <1>3, <2>1, OtherHook DEF websocket_end, Stages
<1> QED BY <1>1, <1>2, <1>3

LEMMA serverStep ==
  ASSUME IInv, NEW s \in Servers, server_connect(s) \/ server_connected(s) \/ server_connect_error(s) \/ server_disconnected(s)
  PROVE  IInv' /\ Stepped
<1> USE IdOfServer, RankValues DEF Sound, Allowed, Done, Final, Forward, States, Moves
<1>1. CASE server_connect(s)
  <2>1. /\ stage[s] = "new"
        /\ Sound("connection", s, "connecting", "pending")
    BY <1>1 DEF server_connect
  <2> QED BY <1>1, <2>1, OtherHook DEF server_connect, Stages
<1>2. CASE server_connected(s)
  <2>1. /\ stage[s] = "connecting"
        /\ Sound("connection", s, "connected", "connected")
    BY <1>2 DEF server_connected
  <2> QED BY <1>2, <2>1, OtherHook DEF server_connected, Stages
<1>3. CASE server_connect_error(s)
  <2>1. /\ stage[s] = "connecting"
        /\ Sound("connection", s, "ended", "error")
    BY <1>3 DEF server_connect_error
  <2> QED BY <1>3, <2>1, OtherHook DEF server_connect_error, Stages
<1>4. CASE server_disconnected(s)
  <2>1. /\ stage[s] = "connected"
        /\ Sound("connection", s, "ended", "disconnected")
    BY <1>4 DEF server_disconnected
  <2> QED BY <1>4, <2>1, OtherHook DEF server_disconnected, Stages
<1> QED BY <1>1, <1>2, <1>3, <1>4

\* A crash takes back what was not committed, and no row that was.
LEMMA CrashStep == ASSUME IInv, Crash PROVE IInv' /\ Stepped
<1> USE RankValues
<1>1. /\ \A x \in Things : stage'[x] = IF stage[x] \in {"new", "ended"} THEN stage[x] ELSE "lost"
      /\ open' = rows /\ rows' = rows /\ missed' = missed /\ raised' = raised /\ started' = {}
      /\ printed' = [k \in Ids |-> "none"]
  BY DEF Crash
<1>2. TypeOK'
  BY DEF IInv, TypeOK, Crash, States
<1>3. \A k \in Ids :
        /\ stage'[k[2]] \in {stage[k[2]], "lost"}
        /\ Allowed(k[1], stage[k[2]]) \subseteq Allowed(k[1], stage'[k[2]])
        /\ Done(k[1], stage'[k[2]]) => Done(k[1], stage[k[2]])
  <2> SUFFICES ASSUME NEW k \in Ids
               PROVE  /\ stage'[k[2]] \in {stage[k[2]], "lost"}
                      /\ Allowed(k[1], stage[k[2]]) \subseteq Allowed(k[1], stage'[k[2]])
                      /\ Done(k[1], stage'[k[2]]) => Done(k[1], stage[k[2]])
    OBVIOUS
  <2>1. stage'[k[2]] \in {stage[k[2]], "lost"}
    BY <1>1, IdParts
  <2>2. Allowed(k[1], stage[k[2]]) \subseteq Allowed(k[1], "lost")
    BY DEF Allowed, States
  <2> QED BY <2>1, <2>2 DEF Done
<1>4. OpenInv'
  BY <1>1, <1>3 DEF IInv, OpenInv, Forward
<1>5. FinalInv'
  BY <1>1, <1>3 DEF IInv, FinalInv
<1>6. StartTimesAreUsed'
  BY <1>1, CaptureAssumption DEF IInv, StartTimesAreUsed, Things
<1>7. PrintedIsStored'
  BY <1>1, RankNat DEF PrintedIsStored
<1> QED BY <1>1, <1>2, <1>4, <1>5, <1>6, <1>7 DEF IInv, Stepped, TypeOK, RowType, Forward

LEMMA InitInv == Init => IInv
<1> SUFFICES ASSUME Init PROVE IInv
  OBVIOUS
<1> USE RankValues DEF Init, NoRow, Row, States
<1>1. TypeOK
  BY DEF TypeOK
<1>2. \A k \in Ids : stage[k[2]] = "new" /\ "none" \in Allowed(k[1], "new")
  BY IdParts DEF Allowed
<1>3. OpenInv
  BY <1>2 DEF OpenInv, Forward
<1>4. FinalInv
  BY <1>2 DEF FinalInv, Final, Done
<1>5. StartTimesAreUsed
  BY CaptureAssumption DEF StartTimesAreUsed, Things
<1> QED BY <1>1, <1>3, <1>4, <1>5 DEF IInv, PrintedIsStored

LEMMA NextStep == IInv /\ [Next]_vars => IInv' /\ [Stepped]_vars
<1> SUFFICES ASSUME IInv, [Next]_vars PROVE IInv' /\ [Stepped]_vars
  OBVIOUS
<1>1. CASE Crash
  BY <1>1, CrashStep
<1>2. CASE \E f \in Flows : FlowHook(f)
  BY <1>2, requestheadersStep, responseStep, http_connectStep, http_connectedStep, websocketStep
     DEF FlowHook
<1>3. CASE \E s \in Servers : ServerHook(s)
  BY <1>3, serverStep DEF ServerHook
<1>4. CASE UNCHANGED vars
  BY <1>4 DEF vars, IInv, TypeOK, OpenInv, FinalInv, StartTimesAreUsed, PrintedIsStored
<1> QED BY <1>1, <1>2, <1>3, <1>4 DEF Next

-----------------------------------------------------------------------------

\* The inductive invariant holds whatever the hooks meet.
THEOREM Invariant == Spec => []IInv
BY InitInv, NextStep, PTL DEF Spec

\* Every variable keeps its type.
THEOREM TypeCorrect == Spec => []TypeOK
BY Invariant, PTL DEF IInv

\* What mitmproxy has ended is final in the table, unless its last save raised.
THEOREM EndedAreFinal == Spec => []EndedIsFinal
<1>1. IInv => EndedIsFinal
  BY DEF IInv, FinalInv, Done, EndedIsFinal
<1> QED BY <1>1, Invariant, PTL

\* _started holds the flows under way, and besides them only flows whose last
\* hook raised, in save or on the terminal.
THEOREM StartTimes == Spec => []StartTimesAreUsed
BY Invariant, PTL DEF IInv

\* A request or tunnel that came to its end has a duration.
THEOREM FinalAreTimed == Spec => []FinalRowsAreTimed
<1>1. IInv => FinalRowsAreTimed
  BY DEF IInv, FinalInv, FinalRowsAreTimed
<1> QED BY <1>1, Invariant, PTL

\* The terminal prints nothing the table does not have.
THEOREM PrintedStored == Spec => []PrintedIsStored
BY Invariant, PTL DEF IInv

\* No hook, failed save or crash takes a row back.
THEOREM RowsGoForward == Spec => RowsMoveForward
<1>1. [Stepped]_vars => [\A k \in Ids : \/ rows'[k].state = rows[k].state
                                        \/ Rank(rows'[k].state) > Rank(rows[k].state)]_vars
  BY DEF Stepped, Forward
<1> QED BY <1>1, Invariant, NextStep, PTL DEF Spec, RowsMoveForward
=============================================================================
