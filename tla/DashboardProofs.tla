-------------------------- MODULE DashboardProofs --------------------------
(***************************************************************************)
(* Proofs about Dashboard, for any form, any number of pages, revisions    *)
(* and WebSocket objects, with WebSockets or without: its types, that no   *)
(* load and no notification is lost or overtaken, that the tab has one     *)
(* stream or polls, and that only the end of a session sends it to the     *)
(* login page.                                                             *)
(***************************************************************************)
EXTENDS Dashboard, TLAPS

\* TypeOK, one part per group of variables.
ServerType == data \in 0 .. MaxRevision /\ session \in BOOLEAN
TabType ==
  page \in {"here", "left"} /\ hidden \in BOOLEAN /\ boot \in {"options", "load", "done"}
FormType == filter \in Filters /\ saved \in Filters /\ offset \in 0 .. MaxOffset
LoadsType ==
  /\ loading \in BOOLEAN /\ queued \in BOOLEAN
  /\ requests \subseteq
       [query : Queries, stage : {"sent", "ok", "failed", "expired"}, revision : 0 .. MaxRevision]
  /\ wanted \in Queries
TableType == shown \in [query : Queries, revision : 0 .. MaxRevision] /\ failed \in BOOLEAN
StreamType ==
  /\ live \in BOOLEAN /\ label \in Labels
  /\ timers \subseteq Timers
  /\ socket \in Sockets \cup {NoSocket} /\ connected \in BOOLEAN
  /\ status \in [Sockets -> {"none", "connecting", "open", "closing", "expiring"}]
  /\ told \in [Sockets -> 0 .. MaxRevision]
  /\ unread \in [Sockets -> 0 .. MaxRevision + 1]

LEMMA TypeParts ==
  TypeOK <=> ServerType /\ TabType /\ FormType /\ LoadsType /\ TableType /\ StreamType
BY DEF TypeOK, ServerType, TabType, FormType, LoadsType, TableType, StreamType

LEMMA TypePartsNext ==
  TypeOK' <=> ServerType' /\ TabType' /\ FormType' /\ LoadsType' /\ TableType' /\ StreamType'
BY DEF TypeOK, ServerType, TabType, FormType, LoadsType, TableType, StreamType

\* A browser is not told more than there is, nor more often.
ToldInv ==
  \A s \in Sockets :
    /\ told[s] <= data
    /\ unread[s] <= told[s] + 1
    /\ status[s] # "open" => unread[s] = 0

\* One request is under way at a time, for the query of the last call of
\* loadTraffic unless another load is to follow; its rows are no older than
\* those of the table.
LoadInv ==
  /\ ~loading => requests = {} /\ ~queued
  /\ loading => \E r : requests = {r} /\ (~queued => r.query = wanted)
  /\ ~loading /\ ~failed => shown.query = wanted
  /\ shown.revision <= data
  /\ \A r \in requests :
       r.stage = "ok" => shown.revision <= r.revision /\ r.revision <= data

\* Without WebSockets there is no stream.
NoStreamInv ==
  ~HasWebSocket => socket = NoSocket /\ ~connected /\ \A s \in Sockets : status[s] = "none"

StreamInv ==
  OneStream /\ PausedHoldsNothing /\ PollsOnlyWithoutStream /\ LiveLabelIsTrue /\ NoStreamInv

\* A live first page that is about to refresh, or has an unread message, needs
\* no more; any other has a load to come or under way that brings what a quiet
\* stream has told it of, or has failed to load it, or shows it.
Resting == live /\ offset = 0 /\ "refresh" \notin timers
Quiet(s) == status[s] = "open" /\ unread[s] = 0
FreshInv ==
  Resting =>
    \A s \in Sockets : Quiet(s) =>
      /\ loading => queued \/ \A r \in requests : r.stage = "ok" => r.revision >= told[s]
      /\ ~loading => failed \/ shown.revision >= told[s]

\* Nothing that is under way while the session is good will end in the login.
ExpiredInv ==
  session =>
    /\ page = "here" /\ "login" \notin timers
    /\ \A r \in requests : r.stage # "expired"
    /\ \A s \in Sockets : status[s] # "expiring"

IInv == TypeOK /\ ToldInv /\ LoadInv /\ StreamInv /\ FreshInv /\ ExpiredInv

-----------------------------------------------------------------------------
\* Types

Stage == {"sent", "ok", "failed", "expired"}

LEMMA CurrentType == FormType => Current \in Queries
BY DEF FormType, Current, Query, Queries

LEMMA RequestType ==
  ASSUME NEW q \in Queries
  PROVE  Request(q) \in [query : Queries, stage : Stage, revision : 0 .. MaxRevision]
BY DashboardAssumption DEF Request, Stage

LEMMA LoadTrafficType ==
  ASSUME LoadsType, NEW q \in Queries, LoadTraffic(q) PROVE LoadsType'
BY RequestType DEF LoadsType, LoadTraffic, QueuedCall, Stage

LEMMA EndLoadType ==
  ASSUME LoadsType, FormType, NEW r, EndLoad(r) PROVE LoadsType'
<1> DEFINE again == queued \/ (r.stage = "ok" /\ Outdated(r))
<1>1. again \in BOOLEAN
  BY DEF LoadsType
<1>2. queued' = FALSE /\ loading' = again
  BY DEF EndLoad
<1>3. requests' \subseteq requests \cup {Request(Current)} /\ wanted' \in {Current, wanted}
  BY DEF EndLoad
<1> QED BY <1>1, <1>2, <1>3, CurrentType, RequestType DEF LoadsType, Stage

LEMMA ConnectType ==
  ASSUME StreamType, live' \in BOOLEAN, NEW on, NEW left \in SUBSET Timers, NEW text \in Labels,
         Connect(on, left, text)
  PROVE  StreamType'
BY DEF StreamType, Connect, Unused, stream, Timers, Labels

LEMMA PauseType == ASSUME StreamType, Pause PROVE StreamType'
<1> USE DashboardAssumption DEF StreamType, Pause
<1>1. live' \in BOOLEAN /\ label' \in Labels /\ connected' \in BOOLEAN
  BY DEF Labels
<1>2. timers' \subseteq Timers /\ socket' \in Sockets \cup {NoSocket}
  BY DEF TimersLeft
<1>3. status' \in [Sockets -> {"none", "connecting", "open", "closing", "expiring"}]
  OBVIOUS
<1>4. told' \in [Sockets -> 0 .. MaxRevision] /\ unread' \in [Sockets -> 0 .. MaxRevision + 1]
  OBVIOUS
<1> QED BY <1>1, <1>2, <1>3, <1>4

LEMMA TypeInit == Init => TypeOK
<1> SUFFICES ASSUME Init PROVE TypeOK  OBVIOUS
<1> USE DashboardAssumption DEF Init
<1>1. ServerType /\ TabType /\ FormType
  BY DEF ServerType, TabType, FormType
<1>2. LoadsType /\ TableType
  <2>1. Query(AllTraffic, 0) \in Queries /\ 0 \in 0 .. MaxRevision
    BY DEF Query, Queries
  <2>2. wanted \in Queries /\ shown \in [query : Queries, revision : 0 .. MaxRevision]
    BY <2>1
  <2> QED BY <2>2 DEF LoadsType, TableType
<1>3. StreamType
  <2>1. live \in BOOLEAN /\ connected \in BOOLEAN
    OBVIOUS
  <2>2. label \in Labels /\ timers \subseteq Timers /\ socket \in Sockets \cup {NoSocket}
    BY DEF Labels
  <2>3. /\ status \in [Sockets -> {"none", "connecting", "open", "closing", "expiring"}]
        /\ told \in [Sockets -> 0 .. MaxRevision] /\ unread \in [Sockets -> 0 .. MaxRevision + 1]
    OBVIOUS
  <2> QED BY <2>1, <2>2, <2>3 DEF StreamType
<1> QED BY <1>1, <1>2, <1>3, TypeParts

LEMMA ServerStepsType == ASSUME TypeOK, Commit \/ EndSession PROVE TypeOK'
<1>1. ServerType'
  <2>1. data' \in 0 .. MaxRevision
    BY DashboardAssumption DEF Commit, EndSession, TypeOK
  <2>2. session' \in BOOLEAN
    BY DEF Commit, EndSession, TypeOK
  <2> QED BY <2>1, <2>2 DEF ServerType
<1>2. UNCHANGED <<tab, form, live, label, loads, table, timers, stream>>
  BY DEF Commit, EndSession
<1> QED BY <1>1, <1>2 DEF TypeOK, ServerType, tab, form, loads, table, stream

LEMMA AnswerType == ASSUME TypeOK, Answer PROVE TypeOK'
<1>1. PICK r \in requests : AnswerRows(r) \/ AnswerExpired(r) \/ AnswerFails(r)
  BY DEF Answer
<1>2. PICK stage \in Stage, revision \in 0 .. MaxRevision : Answered(r, stage, revision)
  BY <1>1, DashboardAssumption DEF AnswerRows, AnswerExpired, AnswerFails, Stage, TypeOK
<1>3. [r EXCEPT !.stage = stage, !.revision = revision]
        \in [query : Queries, stage : Stage, revision : 0 .. MaxRevision]
  <2>1. r \in [query : Queries, stage : Stage, revision : 0 .. MaxRevision]
    BY DEF TypeOK, Stage
  <2> QED BY <2>1
<1> QED BY <1>2, <1>3 DEF Answered, TypeOK, Stage, server, tab, form, table, stream

LEMMA SocketStepsType ==
  ASSUME TypeOK, ToldInv, NEW s \in Sockets,
         Opens(s) \/ Notify(s) \/ Drops(s) \/ Message(s) \/ Closed(s)
  PROVE  TypeOK'
<1> USE DashboardAssumption, TypeParts, TypePartsNext
    DEF ServerType, TabType, FormType, LoadsType, TableType, server, tab, form, loads, table
<1>1. ServerType /\ TabType /\ FormType /\ LoadsType /\ TableType /\ StreamType
  OBVIOUS
<1>2. ServerType' /\ TabType' /\ FormType' /\ LoadsType' /\ TableType'
  BY <1>1 DEF Opens, Notify, Drops, Message, Closed
<1>3. CASE Opens(s)
  BY <1>1, <1>2, <1>3 DEF Opens, StreamType, Labels
<1>4. CASE Notify(s)
  <2>1. unread[s] + 1 \in 0 .. MaxRevision + 1
    BY <1>1, <1>4 DEF Notify, ToldInv, StreamType
  <2> QED BY <1>1, <1>2, <1>4, <2>1 DEF Notify, StreamType
<1>5. CASE Drops(s)
  BY <1>1, <1>2, <1>5 DEF Drops, StreamType
<1>6. CASE Message(s)
  <2>1. unread[s] - 1 \in 0 .. MaxRevision + 1
    BY <1>1, <1>6 DEF Message, StreamType
  <2> QED BY <1>1, <1>2, <1>6, <2>1 DEF Message, StreamType, Timers, Labels
<1>7. CASE Closed(s)
  <2>1. ArmedByClose(s) \subseteq Timers /\ LabelOfClose(s) \in Labels
    BY DEF ArmedByClose, LabelOfClose, Timers, Labels
  <2>2. timers' \subseteq Timers /\ label' \in Labels
    BY <1>1, <1>7, <2>1 DEF Closed, StreamType
  <2>3. socket' \in Sockets \cup {NoSocket} /\ connected' \in BOOLEAN /\ live' \in BOOLEAN
    BY <1>1, <1>7 DEF Closed, StreamType
  <2>4. /\ status' \in [Sockets -> {"none", "connecting", "open", "closing", "expiring"}]
        /\ told' \in [Sockets -> 0 .. MaxRevision] /\ unread' \in [Sockets -> 0 .. MaxRevision + 1]
    BY <1>1, <1>7 DEF Closed, StreamType
  <2> QED BY <1>2, <2>2, <2>3, <2>4 DEF StreamType
<1> QED BY <1>3, <1>4, <1>5, <1>6, <1>7

LEMMA FinishType == ASSUME TypeOK, Finish PROVE TypeOK'
<1>1. PICK r \in requests : ShowRows(r) \/ LoadFails(r) \/ LoadExpires(r)
  BY DEF Finish
<1> USE TypeParts, TypePartsNext
<1>2. ServerType /\ TabType /\ FormType /\ LoadsType /\ TableType /\ StreamType
  OBVIOUS
<1>3. CASE ShowRows(r)
  <2>1. ServerType' /\ FormType' /\ TabType' /\ live' \in BOOLEAN
    BY <1>2, <1>3 DEF ShowRows, Awaited, server, form, ServerType, FormType, TabType, StreamType
  <2>2. LoadsType' /\ StreamType'
    BY <1>2, <1>3, <2>1, EndLoadType, ConnectType DEF ShowRows, Awaited, StreamType
  <2>3. TableType'
    <3>1. r.query \in Queries /\ r.revision \in 0 .. MaxRevision
      BY <1>2 DEF LoadsType
    <3>2. CASE Outdated(r)
      BY <1>2, <1>3, <3>2 DEF ShowRows, table, TableType
    <3>3. CASE ~Outdated(r)
      <4>1. shown' = [query |-> r.query, revision |-> r.revision] /\ failed' = FALSE
        BY <1>3, <3>3 DEF ShowRows
      <4> QED BY <3>1, <4>1 DEF TableType
    <3> QED BY <3>2, <3>3
  <2> QED BY <2>1, <2>2, <2>3
<1>4. CASE LoadFails(r)
  <2>1. ServerType' /\ FormType' /\ TabType' /\ live' \in BOOLEAN
    BY <1>2, <1>4 DEF LoadFails, Awaited, server, form, ServerType, FormType, TabType, StreamType
  <2>2. (IF connected THEN label ELSE "Fallback") \in Labels
    BY <1>2 DEF StreamType, Labels
  <2>3. LoadsType' /\ StreamType'
    BY <1>2, <1>4, <2>1, <2>2, EndLoadType, ConnectType DEF LoadFails, Awaited, StreamType
  <2>4. TableType'
    BY <1>2, <1>4 DEF LoadFails, TableType
  <2> QED BY <2>1, <2>3, <2>4
<1>5. CASE LoadExpires(r)
  BY <1>2, <1>5 DEF LoadExpires, server, form, loads, table, stream, ServerType, TabType, FormType,
     LoadsType, TableType, StreamType
<1> QED BY <1>1, <1>3, <1>4, <1>5

\* What the handlers below leave alone, and what loadTraffic does to its group.
LEMMA TimerStepsType ==
  ASSUME TypeOK, RefreshFires \/ FallbackFires \/ ReconnectFires \/ DebounceFires \/ LoginFires
  PROVE  TypeOK'
<1> USE TypeParts, TypePartsNext, DashboardAssumption
    DEF ServerType, TabType, TableType, server, tab, form, loads, table, stream
<1>1. ServerType /\ TabType /\ FormType /\ LoadsType /\ TableType /\ StreamType /\ Current \in Queries
  BY CurrentType
<1>2. CASE RefreshFires \/ FallbackFires
  <2>1. ServerType' /\ TabType' /\ FormType' /\ TableType' /\ StreamType'
    BY <1>1, <1>2 DEF RefreshFires, FallbackFires, FormType, StreamType
  <2>2. LoadsType'
    BY <1>1, <1>2, LoadTrafficType DEF RefreshFires, FallbackFires
  <2> QED BY <2>1, <2>2
<1>3. CASE ReconnectFires
  <2>1. ServerType' /\ TabType' /\ FormType' /\ TableType' /\ LoadsType' /\ live' \in BOOLEAN
    BY <1>1, <1>3 DEF ReconnectFires, FormType, LoadsType, StreamType
  <2>2. StreamType'
    BY <1>1, <1>3, <2>1, ConnectType DEF ReconnectFires, StreamType
  <2> QED BY <2>1, <2>2
<1>4. CASE DebounceFires
  <2>1. ServerType' /\ TabType' /\ FormType' /\ TableType' /\ StreamType'
    BY <1>1, <1>4 DEF DebounceFires, FormType, StreamType
  <2>2. Query(filter, 0) \in Queries
    BY <1>1 DEF FormType, Query, Queries
  <2>3. LoadsType'
    BY <1>1, <1>4, <2>2, LoadTrafficType DEF DebounceFires
  <2> QED BY <2>1, <2>3
<1>5. CASE LoginFires
  BY <1>1, <1>5 DEF LoginFires, FormType, LoadsType, StreamType
<1> QED BY <1>2, <1>3, <1>4, <1>5

LEMMA FormStepsType ==
  ASSUME TypeOK, OptionsLoaded \/ Edit \/ Type \/ Submit \/ Refresh
  PROVE  TypeOK'
<1> USE TypeParts, TypePartsNext, DashboardAssumption
    DEF ServerType, TabType, TableType, server, tab, form, loads, table, stream
<1>1. ServerType /\ TabType /\ FormType /\ LoadsType /\ TableType /\ StreamType /\ Current \in Queries
  BY CurrentType
<1>2. \A f \in Filters : Query(f, 0) \in Queries /\ Query(f, offset) \in Queries
  BY <1>1 DEF FormType, Query, Queries
<1>3. CASE OptionsLoaded
  <2>1. ServerType' /\ TabType' /\ FormType' /\ TableType' /\ live' \in BOOLEAN
    BY <1>1, <1>3 DEF OptionsLoaded, FormType, StreamType
  <2>2. LoadsType'
    <3>1. filter' \in Filters /\ LoadTraffic(Query(filter', offset))
      BY <1>1, <1>3 DEF OptionsLoaded, FormType
    <3> QED BY <1>1, <1>2, <3>1, LoadTrafficType
  <2>3. StreamType'
    <3>1. CASE UNCHANGED <<label, timers, stream>>
      BY <1>1, <1>3, <2>1, <3>1 DEF OptionsLoaded, StreamType
    <3>2. CASE Connect(live, timers, label)
      BY <1>1, <2>1, <3>2, ConnectType DEF StreamType
    <3> QED BY <1>3, <3>1, <3>2 DEF OptionsLoaded
  <2> QED BY <2>1, <2>2, <2>3
<1>4. CASE Edit \/ Type
  BY <1>1, <1>4 DEF Edit, Type, FormType, LoadsType, StreamType, Timers
<1>5. CASE Submit
  <2>1. ServerType' /\ TabType' /\ FormType' /\ TableType' /\ StreamType'
    BY <1>1, <1>5 DEF Submit, FormType, StreamType
  <2>2. LoadsType'
    BY <1>1, <1>2, <1>5, LoadTrafficType DEF Submit
  <2> QED BY <2>1, <2>2
<1>6. CASE Refresh
  <2>1. ServerType' /\ TabType' /\ FormType' /\ TableType' /\ StreamType'
    BY <1>1, <1>6 DEF Refresh, FormType, StreamType
  <2>2. LoadsType'
    BY <1>1, <1>6, LoadTrafficType DEF Refresh
  <2> QED BY <2>1, <2>2
<1> QED BY <1>3, <1>4, <1>5, <1>6

LEMMA PageStepsType ==
  ASSUME TypeOK,
         NextPage \/ PreviousPage \/ PauseLive \/ ResumeLive \/ Hide \/ Show
  PROVE  TypeOK'
<1> USE TypeParts, TypePartsNext, DashboardAssumption
    DEF ServerType, TabType, TableType, server, tab, form, loads, table, stream
<1>1. ServerType /\ TabType /\ FormType /\ LoadsType /\ TableType /\ StreamType /\ Current \in Queries
  BY CurrentType
<1>2. ASSUME NEW o \in 0 .. MaxOffset, TurnPage(o) PROVE TypeOK'
  <2>1. ServerType' /\ TabType' /\ FormType' /\ TableType'
    BY <1>1, <1>2 DEF TurnPage, FormType
  <2>2. StreamType'
    BY <1>1, <1>2, PauseType DEF TurnPage
  <2>3. Query(filter, o) \in Queries
    BY <1>1 DEF FormType, Query, Queries
  <2>4. LoadsType'
    BY <1>1, <1>2, <2>3, LoadTrafficType DEF TurnPage
  <2> QED BY <2>1, <2>2, <2>4
<1>3. CASE NextPage
  <2>1. offset + 1 \in 0 .. MaxOffset
    BY <1>1, <1>3 DEF NextPage, FormType
  <2> QED BY <1>2, <1>3, <2>1 DEF NextPage
<1>4. CASE PreviousPage
  <2>1. Before(offset) \in 0 .. MaxOffset
    BY <1>1 DEF Before, FormType
  <2> QED BY <1>2, <1>4, <2>1 DEF PreviousPage
<1>5. CASE PauseLive
  <2>1. StreamType'
    BY <1>1, <1>5, PauseType DEF PauseLive
  <2> QED BY <1>1, <1>5, <2>1 DEF PauseLive, FormType, LoadsType
<1>6. CASE ResumeLive
  <2>1. ServerType' /\ TabType' /\ FormType' /\ TableType' /\ live' \in BOOLEAN
    BY <1>1, <1>6 DEF ResumeLive, FormType
  <2>2. LoadsType'
    BY <1>1, <1>6, LoadTrafficType DEF ResumeLive
  <2>3. StreamType'
    BY <1>1, <1>6, <2>1, ConnectType DEF ResumeLive, StreamType
  <2> QED BY <2>1, <2>2, <2>3
<1>7. CASE Hide
  BY <1>1, <1>7 DEF Hide, FormType, LoadsType, StreamType
<1>8. CASE Show
  <2>1. ServerType' /\ TabType' /\ FormType' /\ TableType' /\ live' \in BOOLEAN
    BY <1>1, <1>8 DEF Show, FormType, StreamType
  <2>2. CASE live
    <3>1. LoadTraffic(Current) /\ Connect(TRUE, timers, label)
      BY <1>8, <2>2 DEF Show
    <3>2. LoadsType' /\ StreamType'
      BY <1>1, <2>1, <3>1, LoadTrafficType, ConnectType DEF StreamType
    <3> QED BY <2>1, <3>2
  <2>3. CASE ~live
    BY <1>1, <1>8, <2>1, <2>3 DEF Show, LoadsType, StreamType
  <2> QED BY <2>2, <2>3
<1> QED BY <1>3, <1>4, <1>5, <1>6, <1>7, <1>8

LEMMA TypeNext == ASSUME TypeOK, ToldInv, [Next]_vars PROVE TypeOK'
<1>1. CASE UNCHANGED vars
  BY <1>1 DEF vars, server, tab, form, loads, table, stream, TypeOK
<1>2. CASE Next
  BY <1>2, ServerStepsType, AnswerType, SocketStepsType, FinishType, TimerStepsType, FormStepsType,
     PageStepsType DEF Next, User
<1> QED BY <1>1, <1>2

-----------------------------------------------------------------------------
\* What the browser is told

LEMMA ConnectTold ==
  ASSUME TypeOK, ToldInv, data' = data, NEW on, NEW left, NEW text, Connect(on, left, text)
  PROVE  ToldInv'
BY DEF Connect, Unused, ToldInv, TypeOK, stream

LEMMA PauseTold ==
  ASSUME TypeOK, ToldInv, data' = data, Pause PROVE ToldInv'
BY DEF Pause, Streaming, ToldInv, TypeOK

LEMMA StreamUnchangedTold ==
  ASSUME TypeOK, ToldInv, data' \in Nat, data' >= data, UNCHANGED <<told, status, unread>>
  PROVE  ToldInv'
BY DashboardAssumption DEF ToldInv, TypeOK

LEMMA SocketStepsTold ==
  ASSUME TypeOK, ToldInv, NEW s \in Sockets,
         Opens(s) \/ Notify(s) \/ Drops(s) \/ Message(s) \/ Closed(s)
  PROVE  ToldInv'
<1> USE DashboardAssumption DEF ToldInv, TypeOK, server
<1>1. CASE Opens(s)
  BY <1>1 DEF Opens
<1>2. CASE Notify(s)
  BY <1>2 DEF Notify
<1>3. CASE Drops(s)
  BY <1>3 DEF Drops
<1>4. CASE Message(s)
  BY <1>4 DEF Message
<1>5. CASE Closed(s)
  BY <1>5 DEF Closed
<1> QED BY <1>1, <1>2, <1>3, <1>4, <1>5

LEMMA ToldNext == ASSUME TypeOK, ToldInv, [Next]_vars PROVE ToldInv'
<1>0. data \in Nat
  BY DEF TypeOK
<1> USE DEF server, stream
<1>1. CASE Commit \/ EndSession \/ Answer
  <2>1. UNCHANGED <<told, status, unread>> /\ data' \in Nat /\ data' >= data
    <3>1. CASE Commit \/ EndSession
      BY <1>0, <3>1 DEF Commit, EndSession
    <3>2. CASE Answer
      BY <1>0, <3>2 DEF Answer, AnswerRows, AnswerExpired, AnswerFails, Answered
    <3> QED BY <1>1, <3>1, <3>2
  <2> QED BY <2>1, StreamUnchangedTold
<1>2. CASE \E s \in Sockets : Opens(s) \/ Notify(s) \/ Drops(s) \/ Message(s) \/ Closed(s)
  BY <1>2, SocketStepsTold
<1>3. CASE Finish
  BY <1>0, <1>3, ConnectTold, StreamUnchangedTold DEF Finish, ShowRows, LoadFails, LoadExpires, Awaited
<1>4. CASE RefreshFires \/ FallbackFires \/ ReconnectFires \/ DebounceFires \/ LoginFires
  BY <1>0, <1>4, ConnectTold, StreamUnchangedTold
     DEF RefreshFires, FallbackFires, ReconnectFires, DebounceFires, LoginFires
<1>5. CASE OptionsLoaded \/ Edit \/ Type \/ Submit \/ Refresh
  BY <1>0, <1>5, ConnectTold, StreamUnchangedTold DEF OptionsLoaded, Edit, Type, Submit, Refresh
<1>6. CASE NextPage \/ PreviousPage \/ PauseLive
  BY <1>6, PauseTold DEF NextPage, PreviousPage, TurnPage, PauseLive
<1>7. CASE ResumeLive \/ Hide \/ Show
  <2>1. \/ Connect(TRUE, timers, label) /\ data' = data
        \/ UNCHANGED <<told, status, unread>> /\ data' = data
    BY <1>7 DEF ResumeLive, Hide, Show
  <2>2. CASE Connect(TRUE, timers, label) /\ data' = data
    BY <2>2, ConnectTold
  <2>3. CASE UNCHANGED <<told, status, unread>> /\ data' = data
    BY <1>0, <2>3, StreamUnchangedTold
  <2> QED BY <2>1, <2>2, <2>3
<1>8. CASE UNCHANGED vars
  BY <1>0, <1>8, StreamUnchangedTold DEF vars
<1> QED BY <1>1, <1>2, <1>3, <1>4, <1>5, <1>6, <1>7, <1>8 DEF Next, User

-----------------------------------------------------------------------------
\* Loads

LEMMA LoadTrafficLoad ==
  ASSUME TypeOK, LoadInv, NEW q, LoadTraffic(q), UNCHANGED <<data, table>>
  PROVE  LoadInv'
<1>1. CASE MayLoad
  <2>1. requests' = {Request(q)} /\ loading' /\ wanted' = q
    BY <1>1 DEF LoadInv, LoadTraffic, MayLoad
  <2>2. Request(q).query = q /\ Request(q).stage = "sent"
    BY DEF Request
  <2> QED BY <2>1, <2>2 DEF LoadInv, table
<1>2. CASE ~MayLoad
  BY <1>2 DEF LoadInv, LoadTraffic, MayLoad, QueuedCall, table
<1> QED BY <1>1, <1>2

LEMMA LoadsUnchangedLoad ==
  ASSUME TypeOK, LoadInv, data' \in Nat, data' >= data, UNCHANGED <<loads, table>>
  PROVE  LoadInv'
BY DashboardAssumption DEF LoadInv, TypeOK, loads, table

LEMMA AnswerLoad == ASSUME TypeOK, LoadInv, Answer PROVE LoadInv'
<1>1. PICK r \in requests : AnswerRows(r) \/ AnswerExpired(r) \/ AnswerFails(r)
  BY DEF Answer
<1>2. PICK stage \in Stage, revision \in 0 .. MaxRevision :
        Answered(r, stage, revision) /\ (stage = "ok" => revision = data)
  BY <1>1, DashboardAssumption DEF AnswerRows, AnswerExpired, AnswerFails, Stage, TypeOK
<1> DEFINE q == [r EXCEPT !.stage = stage, !.revision = revision]
<1>3. q.query = r.query /\ q.stage = stage /\ q.revision = revision
  BY DEF TypeOK
<1>4. loading /\ requests = {r} /\ (~queued => r.query = wanted)
  BY DEF LoadInv
<1>5. requests' = {q}
  BY <1>2, <1>4 DEF Answered
<1>6. UNCHANGED <<loading, queued, wanted, table, data>>
  BY <1>2 DEF Answered, server
<1> HIDE DEF q
<1> QED BY <1>2, <1>3, <1>4, <1>5, <1>6 DEF LoadInv, table, TypeOK

LEMMA FinishLoad == ASSUME TypeOK, LoadInv, Finish PROVE LoadInv'
<1>1. PICK r \in requests : ShowRows(r) \/ LoadFails(r) \/ LoadExpires(r)
  BY DEF Finish
<1>2. loading /\ requests = {r} /\ (~queued => r.query = wanted)
  BY DEF LoadInv
<1> DEFINE again == queued \/ (r.stage = "ok" /\ Outdated(r))
<1>3. ASSUME EndLoad(r)
      PROVE  /\ loading' = again /\ ~queued'
             /\ again => requests' = {Request(Current)} /\ wanted' = Current
             /\ ~again => requests' = {} /\ wanted' = wanted
  BY <1>2, <1>3 DEF EndLoad
<1>4. \A q : Request(q).query = q /\ Request(q).stage = "sent"
  BY DEF Request
<1>5. CASE ShowRows(r)
  <2>1. EndLoad(r) /\ data' = data /\ r.stage = "ok"
    BY <1>5 DEF ShowRows, server
  <2>2. shown.revision <= r.revision /\ r.revision <= data
    BY <2>1 DEF LoadInv
  <2>3. CASE Outdated(r)
    BY <1>2, <1>3, <1>4, <1>5, <2>1, <2>3 DEF ShowRows, LoadInv, table
  <2>4. CASE ~Outdated(r)
    <3>1. shown' = [query |-> r.query, revision |-> r.revision]
      BY <1>5, <2>4 DEF ShowRows
    <3>2. CASE again
      BY <1>3, <1>4, <2>1, <2>2, <3>1, <3>2 DEF LoadInv
    <3>3. CASE ~again
      BY <1>2, <1>3, <2>1, <2>2, <3>1, <3>3 DEF LoadInv
    <3> QED BY <3>2, <3>3
  <2> QED BY <2>3, <2>4
<1>6. CASE LoadFails(r)
  <2>1. EndLoad(r) /\ data' = data /\ shown' = shown /\ failed'
    BY <1>6 DEF LoadFails, server
  <2>2. CASE again
    BY <1>3, <1>4, <2>1, <2>2 DEF LoadInv
  <2>3. CASE ~again
    BY <1>3, <2>1, <2>3 DEF LoadInv
  <2> QED BY <2>2, <2>3
<1>7. CASE LoadExpires(r)
  BY <1>7, LoadsUnchangedLoad DEF LoadExpires, server, TypeOK
<1> QED BY <1>1, <1>5, <1>6, <1>7

LEMMA LoadNext == ASSUME TypeOK, LoadInv, [Next]_vars PROVE LoadInv'
<1>0. data \in Nat
  BY DEF TypeOK
<1> USE DEF server
<1>1. CASE Commit \/ EndSession
  BY <1>0, <1>1, LoadsUnchangedLoad DEF Commit, EndSession
<1>2. CASE \E s \in Sockets : Opens(s) \/ Notify(s) \/ Drops(s) \/ Message(s) \/ Closed(s)
  BY <1>0, <1>2, LoadsUnchangedLoad DEF Opens, Notify, Drops, Message, Closed
<1>3. CASE RefreshFires \/ FallbackFires \/ ReconnectFires \/ DebounceFires \/ LoginFires
  BY <1>0, <1>3, LoadTrafficLoad, LoadsUnchangedLoad
     DEF RefreshFires, FallbackFires, ReconnectFires, DebounceFires, LoginFires
<1>4. CASE OptionsLoaded \/ Edit \/ Type \/ Submit \/ Refresh
  BY <1>0, <1>4, LoadTrafficLoad, LoadsUnchangedLoad DEF OptionsLoaded, Edit, Type, Submit, Refresh
<1>5. CASE NextPage \/ PreviousPage \/ PauseLive
  BY <1>0, <1>5, LoadTrafficLoad, LoadsUnchangedLoad DEF NextPage, PreviousPage, TurnPage, PauseLive
<1>6. CASE ResumeLive \/ Hide \/ Show
  <2>1. /\ LoadTraffic(Current) \/ UNCHANGED loads
        /\ UNCHANGED <<data, table>>
    BY <1>6 DEF ResumeLive, Hide, Show
  <2> QED BY <1>0, <2>1, LoadTrafficLoad, LoadsUnchangedLoad
<1>7. CASE UNCHANGED vars
  BY <1>0, <1>7, LoadsUnchangedLoad DEF vars
<1> QED BY <1>1, <1>2, <1>3, <1>4, <1>5, <1>6, <1>7, AnswerLoad, FinishLoad DEF Next, User

-----------------------------------------------------------------------------
\* The stream and the timers

Guards == {"fallback", "reconnect", "login"}

LEMMA StreamUnchangedStream ==
  ASSUME StreamInv, UNCHANGED <<boot, live, label, socket, connected, status>>,
         timers' \cap Guards = timers \cap Guards
  PROVE  StreamInv'
BY DEF StreamInv, OneStream, PausedHoldsNothing, PollsOnlyWithoutStream, LiveLabelIsTrue,
   NoStreamInv, Guards

\* connectTrafficStream, whatever its caller has done to live and boot before.
LEMMA ConnectStream ==
  ASSUME TypeOK, StreamInv, NEW on \in BOOLEAN, NEW left, NEW text, Connect(on, left, text),
         left \in {timers, timers \ {"reconnect"}},
         on => live', live => live', live' => live \/ on,
         live' /\ boot' = "done" => on \/ (live /\ boot = "done"),
         text = "Live" => label = "Live", label = "Live" /\ connected => text = "Live"
  PROVE  StreamInv'
<1> USE DashboardAssumption DEF StreamInv, TypeOK
<1>1. CASE on /\ ~HasWebSocket /\ timers' = left \cup {"fallback"} /\ label' = "Fallback" /\ UNCHANGED stream
  BY <1>1 DEF OneStream, PausedHoldsNothing, PollsOnlyWithoutStream, LiveLabelIsTrue, NoStreamInv, stream
<1>2. CASE /\ on /\ HasWebSocket /\ ~Streaming
           /\ \E s \in Unused : socket' = s /\ status' = [status EXCEPT ![s] = "connecting"]
           /\ timers' = left /\ label' = "Connecting" /\ UNCHANGED connected
  <2>1. PICK s \in Sockets : /\ status[s] = "none" /\ socket' = s
                             /\ status' = [status EXCEPT ![s] = "connecting"]
    BY <1>2 DEF Unused
  <2>2. OneStream'
    BY <1>2, <2>1 DEF OneStream, Streaming
  <2>3. LiveLabelIsTrue'
    BY <1>2, <2>1 DEF OneStream, Streaming, LiveLabelIsTrue
  <2> QED BY <1>2, <2>1, <2>2, <2>3 DEF PausedHoldsNothing, PollsOnlyWithoutStream, NoStreamInv
<1>3. CASE /\ ~on \/ (HasWebSocket /\ Streaming)
           /\ timers' = left /\ label' = text /\ UNCHANGED stream
  BY <1>3 DEF OneStream, PausedHoldsNothing, PollsOnlyWithoutStream, LiveLabelIsTrue, NoStreamInv,
     Streaming, stream
<1> QED BY <1>1, <1>2, <1>3 DEF Connect

LEMMA PauseStream == ASSUME TypeOK, StreamInv, Pause PROVE StreamInv'
<1> USE DashboardAssumption DEF StreamInv, TypeOK, Pause
<1>1. OneStream'
  BY DEF OneStream, Streaming
<1>2. PausedHoldsNothing' /\ PollsOnlyWithoutStream' /\ LiveLabelIsTrue'
  BY DEF OneStream, PausedHoldsNothing, PollsOnlyWithoutStream, LiveLabelIsTrue, TimersLeft,
     Streaming
<1>3. NoStreamInv'
  BY DEF NoStreamInv
<1> QED BY <1>1, <1>2, <1>3

LEMMA SocketStepsStream ==
  ASSUME TypeOK, StreamInv, NEW s \in Sockets,
         Opens(s) \/ Notify(s) \/ Drops(s) \/ Message(s) \/ Closed(s)
  PROVE  StreamInv'
<1> USE DashboardAssumption DEF StreamInv, TypeOK, tab
<1>1. CASE Opens(s)
  BY <1>1 DEF Opens, OneStream, PausedHoldsNothing, PollsOnlyWithoutStream, LiveLabelIsTrue, NoStreamInv
<1>2. CASE Notify(s)
  BY <1>2, StreamUnchangedStream DEF Notify
<1>3. CASE Drops(s)
  BY <1>3 DEF Drops, OneStream, PausedHoldsNothing, PollsOnlyWithoutStream, LiveLabelIsTrue, NoStreamInv
<1>4. CASE Message(s)
  BY <1>4 DEF Message, OneStream, PausedHoldsNothing, PollsOnlyWithoutStream, LiveLabelIsTrue,
     NoStreamInv
<1>5. CASE Closed(s)
  BY <1>5 DEF Closed, IsCurrent, ArmedByClose, LabelOfClose, OneStream, PausedHoldsNothing,
     PollsOnlyWithoutStream, LiveLabelIsTrue, NoStreamInv
<1> QED BY <1>1, <1>2, <1>3, <1>4, <1>5

LEMMA FinishStream == ASSUME TypeOK, StreamInv, Finish PROVE StreamInv'
<1>1. PICK r \in requests : ShowRows(r) \/ LoadFails(r) \/ LoadExpires(r)
  BY DEF Finish
<1>2. ASSUME NEW text, Awaited(text), UNCHANGED live,
             text = "Live" => label = "Live", label = "Live" /\ connected => text = "Live"
      PROVE  StreamInv'
  <2>1. /\ (live /\ boot = "load") \in BOOLEAN
        /\ boot' = "done" => boot \in {"load", "done"}
    BY <1>2 DEF Awaited, TypeOK
  <2> QED BY <1>2, <2>1, ConnectStream DEF Awaited, TypeOK
<1>3. CASE ShowRows(r)
  BY <1>2, <1>3 DEF ShowRows
<1>4. CASE LoadFails(r)
  BY <1>2, <1>4 DEF LoadFails
<1>5. CASE LoadExpires(r)
  BY <1>5, StreamUnchangedStream DEF LoadExpires, stream
<1> QED BY <1>1, <1>3, <1>4, <1>5

LEMMA StreamNext == ASSUME TypeOK, StreamInv, [Next]_vars PROVE StreamInv'
<1> USE DEF tab, stream
<1>1. CASE Commit \/ EndSession \/ Answer
  <2>1. UNCHANGED <<boot, live, label, timers, stream>>
    BY <1>1 DEF Commit, EndSession, Answer, AnswerRows, AnswerExpired, AnswerFails, Answered
  <2> QED BY <2>1, StreamUnchangedStream
<1>2. CASE \E s \in Sockets : Opens(s) \/ Notify(s) \/ Drops(s) \/ Message(s) \/ Closed(s)
  BY <1>2, SocketStepsStream
<1>3. CASE RefreshFires \/ FallbackFires \/ DebounceFires \/ LoginFires
  <2>1. UNCHANGED <<boot, live, label, stream>> /\ timers' \cap Guards = timers \cap Guards
    BY <1>3 DEF RefreshFires, FallbackFires, DebounceFires, LoginFires, Guards
  <2> QED BY <2>1, StreamUnchangedStream
<1>4. CASE ReconnectFires
  BY <1>4, ConnectStream DEF ReconnectFires, TypeOK
<1>5. CASE OptionsLoaded
  <2>1. CASE Connect(live, timers, label)
    BY <1>5, <2>1, ConnectStream DEF OptionsLoaded, TypeOK
  <2>2. CASE boot' = "load" /\ UNCHANGED <<label, timers, stream>>
    BY <1>5, <2>2 DEF OptionsLoaded, StreamInv, OneStream, PausedHoldsNothing,
       PollsOnlyWithoutStream, LiveLabelIsTrue, NoStreamInv
  <2> QED BY <1>5, <2>1, <2>2 DEF OptionsLoaded
<1>6. CASE Edit \/ Type \/ Submit \/ Refresh
  <2>1. UNCHANGED <<boot, live, label, stream>> /\ timers' \cap Guards = timers \cap Guards
    BY <1>6 DEF Edit, Type, Submit, Refresh, Guards
  <2> QED BY <2>1, StreamUnchangedStream
<1>7. CASE NextPage \/ PreviousPage \/ PauseLive
  BY <1>7, PauseStream DEF NextPage, PreviousPage, TurnPage, PauseLive
<1>8. CASE ResumeLive
  BY <1>8, ConnectStream DEF ResumeLive
<1>9. CASE Hide
  BY <1>9, StreamUnchangedStream DEF Hide
<1>10. CASE Show
  <2>1. CASE live
    BY <1>10, <2>1, ConnectStream DEF Show
  <2>2. CASE ~live
    BY <1>10, <2>2, StreamUnchangedStream DEF Show
  <2> QED BY <2>1, <2>2
<1>11. CASE UNCHANGED vars
  BY <1>11, StreamUnchangedStream DEF vars
<1> QED BY <1>1, <1>2, <1>3, <1>4, <1>5, <1>6, <1>7, <1>8, <1>9, <1>10, <1>11, FinishStream
       DEF Next, User

-----------------------------------------------------------------------------
\* What the stream has told

\* Steps after which no socket is quiet that was not, and nothing is loaded.
LEMMA KeptFresh ==
  ASSUME FreshInv, Resting' => Resting, UNCHANGED <<loads, table>>,
         \A s \in Sockets : Quiet(s)' => Quiet(s) /\ told'[s] = told[s]
  PROVE  FreshInv'
BY DEF FreshInv, loads, table

\* A load that begins, or is to follow, brings all there is by then.
LEMMA LoadTrafficFresh == ASSUME LoadInv, NEW q, LoadTraffic(q) PROVE FreshInv'
<1>1. CASE MayLoad
  <2>1. requests' = {Request(q)} /\ loading'
    BY <1>1 DEF LoadInv, LoadTraffic, MayLoad
  <2> QED BY <2>1 DEF FreshInv, Request
<1>2. CASE ~MayLoad
  BY <1>2 DEF LoadTraffic, MayLoad, QueuedCall, FreshInv
<1> QED BY <1>1, <1>2

\* To connect makes no socket quiet and no timer for a refresh go away.
LEMMA ConnectQuiet ==
  ASSUME TypeOK, NEW on, NEW text, NEW left, Connect(on, left, text),
         "refresh" \in timers => "refresh" \in left, UNCHANGED <<live, offset>>
  PROVE  /\ Resting' => Resting
         /\ \A s \in Sockets : Quiet(s)' => Quiet(s) /\ told'[s] = told[s]
BY DEF Connect, Unused, Resting, Quiet, TypeOK, stream

LEMMA SocketStepsFresh ==
  ASSUME TypeOK, FreshInv, NEW s \in Sockets,
         Opens(s) \/ Notify(s) \/ Drops(s) \/ Message(s) \/ Closed(s)
  PROVE  FreshInv'
<1> USE DEF form, TypeOK
<1>1. CASE Message(s) /\ live /\ offset = 0
  BY <1>1 DEF Message, FreshInv, Resting
<1>2. CASE Message(s) /\ ~(live /\ offset = 0)
  BY <1>2 DEF Message, FreshInv, Resting
<1>3. CASE Opens(s) \/ Notify(s) \/ Drops(s) \/ Closed(s)
  <2>1. UNCHANGED <<loads, table>> /\ (Resting' => Resting)
    BY <1>3 DEF Opens, Notify, Drops, Closed, Resting
  <2>2. \A t \in Sockets : Quiet(t)' => Quiet(t) /\ told'[t] = told[t]
    BY <1>3 DEF Opens, Notify, Drops, Closed, Quiet
  <2> QED BY <2>1, <2>2, KeptFresh
<1> QED BY <1>1, <1>2, <1>3

\* The server answers with all that a browser has been told of.
LEMMA AnswerFresh == ASSUME TypeOK, ToldInv, LoadInv, FreshInv, Answer PROVE FreshInv'
<1>1. PICK r \in requests : AnswerRows(r) \/ AnswerExpired(r) \/ AnswerFails(r)
  BY DEF Answer
<1>2. PICK stage \in Stage, revision \in 0 .. MaxRevision :
        Answered(r, stage, revision) /\ (stage = "ok" => revision = data)
  BY <1>1, DashboardAssumption DEF AnswerRows, AnswerExpired, AnswerFails, Stage, TypeOK
<1> DEFINE q == [r EXCEPT !.stage = stage, !.revision = revision]
<1>3. q.stage = stage /\ q.revision = revision
  BY DEF TypeOK
<1>4. loading /\ requests = {r}
  BY DEF LoadInv
<1>5. requests' = {q} /\ loading' /\ UNCHANGED stream
  BY <1>2, <1>4 DEF Answered
<1> HIDE DEF q
<1> QED BY <1>2, <1>3, <1>5 DEF FreshInv, ToldInv, Quiet, TypeOK, stream

\* A load that ends well shows what it has brought, unless another follows.
LEMMA FinishFresh == ASSUME TypeOK, LoadInv, FreshInv, Finish PROVE FreshInv'
<1>1. PICK r \in requests : ShowRows(r) \/ LoadFails(r) \/ LoadExpires(r)
  BY DEF Finish
<1>2. loading /\ requests = {r}
  BY DEF LoadInv
<1> DEFINE again == queued \/ (r.stage = "ok" /\ Outdated(r))
<1>3. ASSUME EndLoad(r)
      PROVE  /\ again => loading' /\ requests' = {Request(Current)}
             /\ ~again => ~loading'
  BY <1>2, <1>3 DEF EndLoad
<1>4. ASSUME EndLoad(r), again PROVE FreshInv'
  BY <1>3, <1>4 DEF FreshInv, Request
<1>5. CASE ShowRows(r)
  <2>1. /\ EndLoad(r) /\ r.stage = "ok" /\ UNCHANGED <<live, offset>>
        /\ Connect(live /\ boot = "load", timers, label)
    BY <1>5 DEF ShowRows, Awaited, form
  <2>2. CASE ~again
    <3>1. shown' = [query |-> r.query, revision |-> r.revision] /\ ~loading'
      BY <1>3, <1>5, <2>1, <2>2 DEF ShowRows
    <3>2. Resting => \A s \in Sockets : Quiet(s) => r.revision >= told[s]
      BY <1>2, <2>1, <2>2 DEF FreshInv
    <3> QED BY <2>1, <3>1, <3>2, ConnectQuiet DEF FreshInv
  <2> QED BY <1>4, <2>1, <2>2
<1>6. CASE LoadFails(r)
  <2>1. EndLoad(r) /\ failed'
    BY <1>6 DEF LoadFails
  <2> QED BY <1>3, <1>4, <2>1 DEF FreshInv
<1>7. CASE LoadExpires(r)
  BY <1>7, KeptFresh DEF LoadExpires, Resting, Quiet, form, stream
<1> QED BY <1>1, <1>5, <1>6, <1>7

LEMMA FreshNext == ASSUME TypeOK, ToldInv, LoadInv, FreshInv, [Next]_vars PROVE FreshInv'
<1> USE DEF form, stream
<1>1. CASE Commit \/ EndSession \/ Edit \/ Type \/ Hide \/ LoginFires \/ UNCHANGED vars
  <2>1. UNCHANGED <<loads, table, told, status, unread>>
    BY <1>1 DEF Commit, EndSession, Edit, Type, Hide, LoginFires, vars
  <2>2. Resting' => Resting
    BY <1>1 DEF Commit, EndSession, Edit, Type, Hide, LoginFires, vars, Resting
  <2> QED BY <2>1, <2>2, KeptFresh DEF Quiet
<1>2. CASE \E s \in Sockets : Opens(s) \/ Notify(s) \/ Drops(s) \/ Message(s) \/ Closed(s)
  BY <1>2, SocketStepsFresh
<1>3. CASE RefreshFires \/ FallbackFires \/ DebounceFires \/ OptionsLoaded \/ Submit \/ Refresh
  BY <1>3, LoadTrafficFresh DEF RefreshFires, FallbackFires, DebounceFires, OptionsLoaded, Submit,
     Refresh
<1>4. CASE ReconnectFires
  BY <1>4, ConnectQuiet, KeptFresh DEF ReconnectFires
<1>5. CASE NextPage \/ PreviousPage \/ ResumeLive
  BY <1>5, LoadTrafficFresh DEF NextPage, PreviousPage, TurnPage, ResumeLive
<1>6. CASE PauseLive
  BY <1>6 DEF PauseLive, Pause, FreshInv, Resting
<1>7. CASE Show
  <2>1. CASE live
    BY <1>7, <2>1, LoadTrafficFresh DEF Show
  <2>2. CASE ~live
    BY <1>7, <2>2 DEF Show, FreshInv, Resting
  <2> QED BY <2>1, <2>2
<1> QED BY <1>1, <1>2, <1>3, <1>4, <1>5, <1>6, <1>7, AnswerFresh, FinishFresh DEF Next, User

-----------------------------------------------------------------------------
\* The way to the login

\* A new request, a timer or a socket of any other kind leads nowhere else.
LEMMA KeptIn ==
  ASSUME ExpiredInv, session' => session, UNCHANGED page,
         "login" \in timers' => "login" \in timers,
         \A r \in requests' : r.stage # "expired" \/ r \in requests,
         \A s \in Sockets : status'[s] = "expiring" => status[s] = "expiring"
  PROVE  ExpiredInv'
BY DEF ExpiredInv

LEMMA LoadTrafficExpired ==
  ASSUME NEW q, LoadTraffic(q)
  PROVE  \A r \in requests' : r.stage # "expired" \/ r \in requests
BY DEF LoadTraffic, Request

LEMMA ConnectExpired ==
  ASSUME TypeOK, NEW on, NEW left, NEW text, Connect(on, left, text)
  PROVE  /\ "login" \in timers' => "login" \in left
         /\ \A s \in Sockets : status'[s] = "expiring" => status[s] = "expiring"
BY DEF Connect, Unused, TypeOK, stream

LEMMA PauseExpired ==
  ASSUME TypeOK, Pause
  PROVE  /\ "login" \in timers' => "login" \in timers
         /\ \A s \in Sockets : status'[s] = "expiring" => status[s] = "expiring"
BY DEF Pause, TimersLeft, TypeOK

LEMMA SocketStepsExpired ==
  ASSUME TypeOK, ExpiredInv, NEW s \in Sockets,
         Opens(s) \/ Notify(s) \/ Drops(s) \/ Message(s) \/ Closed(s)
  PROVE  ExpiredInv'
<1> USE DEF server, tab, loads
<1>1. CASE Opens(s)
  BY <1>1, KeptIn DEF Opens, TypeOK
<1>2. CASE Notify(s) \/ Message(s)
  <2>1. UNCHANGED <<server, page, requests, status>>
    BY <1>2 DEF Notify, Message
  <2>2. "login" \in timers' => "login" \in timers
    BY <1>2 DEF Notify, Message
  <2> QED BY <2>1, <2>2, KeptIn
<1>3. CASE Drops(s)
  BY <1>3 DEF Drops, ExpiredInv, TypeOK
<1>4. CASE Closed(s)
  BY <1>4 DEF Closed, ArmedByClose, ExpiredInv, TypeOK
<1> QED BY <1>1, <1>2, <1>3, <1>4

LEMMA AnswerExpiredStep == ASSUME TypeOK, ExpiredInv, Answer PROVE ExpiredInv'
<1>1. PICK r \in requests : AnswerRows(r) \/ AnswerExpired(r) \/ AnswerFails(r)
  BY DEF Answer
<1>2. PICK stage \in Stage, revision \in 0 .. MaxRevision :
        Answered(r, stage, revision) /\ (stage = "expired" => ~session)
  BY <1>1, DashboardAssumption DEF AnswerRows, AnswerExpired, AnswerFails, Stage, TypeOK
<1>3. [r EXCEPT !.stage = stage, !.revision = revision].stage = stage
  BY DEF TypeOK
<1> QED BY <1>2, <1>3 DEF Answered, ExpiredInv, server, tab, stream

LEMMA FinishExpired == ASSUME TypeOK, ExpiredInv, Finish PROVE ExpiredInv'
<1>1. PICK r \in requests : ShowRows(r) \/ LoadFails(r) \/ LoadExpires(r)
  BY DEF Finish
<1>2. ASSUME EndLoad(r) PROVE \A q \in requests' : q.stage # "expired" \/ q \in requests
  BY <1>2 DEF EndLoad, Request
<1>3. CASE ShowRows(r)
  BY <1>2, <1>3, KeptIn, ConnectExpired DEF ShowRows, Awaited, server
<1>4. CASE LoadFails(r)
  BY <1>2, <1>4, KeptIn, ConnectExpired DEF LoadFails, Awaited, server
<1>5. CASE LoadExpires(r)
  BY <1>5 DEF LoadExpires, ExpiredInv, server
<1> QED BY <1>1, <1>3, <1>4, <1>5

LEMMA ExpiredNext == ASSUME TypeOK, ExpiredInv, [Next]_vars PROVE ExpiredInv'
<1> USE DEF server, tab, loads, stream
<1>1. CASE Commit \/ EndSession
  BY <1>1 DEF Commit, EndSession, ExpiredInv
<1>2. CASE \E s \in Sockets : Opens(s) \/ Notify(s) \/ Drops(s) \/ Message(s) \/ Closed(s)
  BY <1>2, SocketStepsExpired
<1>3. CASE RefreshFires \/ FallbackFires \/ DebounceFires \/ Submit \/ Refresh
  BY <1>3, KeptIn, LoadTrafficExpired
     DEF RefreshFires, FallbackFires, DebounceFires, Submit, Refresh
<1>4. CASE LoginFires
  BY <1>4 DEF LoginFires, ExpiredInv
<1>5. CASE ReconnectFires
  BY <1>5, KeptIn, ConnectExpired DEF ReconnectFires
<1>6. CASE OptionsLoaded
  <2>1. /\ "login" \in timers' => "login" \in timers
        /\ \A s \in Sockets : status'[s] = "expiring" => status[s] = "expiring"
    BY <1>6, ConnectExpired DEF OptionsLoaded
  <2> QED BY <1>6, <2>1, KeptIn, LoadTrafficExpired DEF OptionsLoaded
<1>7. CASE Edit \/ Type \/ Hide
  <2>1. UNCHANGED <<server, page, requests, status>>
    BY <1>7 DEF Edit, Type, Hide
  <2>2. "login" \in timers' => "login" \in timers
    BY <1>7 DEF Edit, Type, Hide
  <2> QED BY <2>1, <2>2, KeptIn
<1>8. CASE NextPage \/ PreviousPage
  <2>1. PICK o : TurnPage(o)
    BY <1>8 DEF NextPage, PreviousPage
  <2> QED BY <2>1, KeptIn, LoadTrafficExpired, PauseExpired DEF TurnPage
<1>9. CASE PauseLive
  BY <1>9, KeptIn, PauseExpired DEF PauseLive
<1>10. CASE ResumeLive
  BY <1>10, KeptIn, LoadTrafficExpired, ConnectExpired DEF ResumeLive
<1>11. CASE Show
  <2>1. CASE live
    BY <1>11, <2>1, KeptIn, LoadTrafficExpired, ConnectExpired DEF Show
  <2>2. CASE ~live
    BY <1>11, <2>2 DEF Show, ExpiredInv
  <2> QED BY <2>1, <2>2
<1>12. CASE UNCHANGED vars
  BY <1>12 DEF vars, ExpiredInv
<1> QED BY <1>1, <1>2, <1>3, <1>4, <1>5, <1>6, <1>7, <1>8, <1>9, <1>10, <1>11, <1>12,
           AnswerExpiredStep, FinishExpired DEF Next, User

-----------------------------------------------------------------------------
\* Theorems

LEMMA InitInv == Init => IInv
<1> SUFFICES ASSUME Init PROVE IInv  OBVIOUS
<1>1. TypeOK
  BY TypeInit
<1>2. ToldInv
  BY DEF Init, ToldInv
<1>3. LoadInv
  BY DEF Init, LoadInv
<1>4. StreamInv
  BY DEF Init, StreamInv, OneStream, PausedHoldsNothing, PollsOnlyWithoutStream, LiveLabelIsTrue,
     NoStreamInv
<1>5. FreshInv
  BY DEF Init, FreshInv, Quiet
<1>6. ExpiredInv
  BY DEF Init, ExpiredInv
<1> QED BY <1>1, <1>2, <1>3, <1>4, <1>5, <1>6 DEF IInv

\* The inductive invariant of the tab: how far a browser has been told, the one
\* request under way, the one stream or what stands in for it, and what the
\* next rows will be.
THEOREM Invariant == Spec => []IInv
<1>1. IInv /\ [Next]_vars => IInv'
  BY TypeNext, ToldNext, LoadNext, StreamNext, FreshNext, ExpiredNext DEF IInv
<1> QED BY <1>1, InitInv, PTL DEF Spec

\* Every variable of the tab keeps its type.
THEOREM TypeCorrect == Spec => []TypeOK
<1>1. IInv => TypeOK  BY DEF IInv
<1> QED BY <1>1, Invariant, PTL

\* When no load is under way the table answers the last call of loadTraffic,
\* whatever was called meanwhile.
THEOREM NoLoadIsLost == Spec => []SettledShowsWanted
<1>1. IInv => SettledShowsWanted  BY DEF IInv, LoadInv, SettledShowsWanted
<1> QED BY <1>1, Invariant, PTL

\* A live first page at rest shows all that its stream has told it of.
THEOREM NothingToldIsMissed == Spec => []RestingPageIsCurrent
<1>1. IInv => RestingPageIsCurrent
  BY DEF IInv, FreshInv, Resting, Quiet, RestingPageIsCurrent
<1> QED BY <1>1, Invariant, PTL

\* A tab has one stream at most, the one it listens to.
THEOREM StreamIsUnique == Spec => []OneStream
<1>1. IInv => OneStream  BY DEF IInv, StreamInv
<1> QED BY <1>1, Invariant, PTL

\* A paused dashboard holds no stream, polls nothing and reconnects nothing.
THEOREM PauseIsQuiet == Spec => []PausedHoldsNothing
<1>1. IInv => PausedHoldsNothing  BY DEF IInv, StreamInv
<1> QED BY <1>1, Invariant, PTL

\* The dashboard polls when it has no stream, and only then.
THEOREM PollsOrStreams == Spec => []PollsOnlyWithoutStream
<1>1. IInv => PollsOnlyWithoutStream  BY DEF IInv, StreamInv
<1> QED BY <1>1, Invariant, PTL

\* The indicator says "Live" over an open stream, and over nothing else.
THEOREM LabelIsTrue == Spec => []LiveLabelIsTrue
<1>1. IInv => LiveLabelIsTrue  BY DEF IInv, StreamInv
<1> QED BY <1>1, Invariant, PTL

\* Only the end of a load changes the rows.
LEMMA RowsChange ==
  ASSUME Next, shown' # shown
  PROVE  \E r \in requests : ShowRows(r) /\ ~Outdated(r)
BY DEF Next, Commit, EndSession, Answer, AnswerRows, AnswerExpired, AnswerFails, Answered, Finish,
   ShowRows, LoadFails, LoadExpires, OptionsLoaded, User, Edit, Type, Submit, Refresh, NextPage,
   PreviousPage, TurnPage, PauseLive, ResumeLive, Hide, Show, RefreshFires, FallbackFires,
   ReconnectFires, DebounceFires, LoginFires, Opens, Notify, Drops, Message, Closed, table

\* A tab whose session is good is not sent to the login page.
THEOREM OnlyExpiredLeave == Spec => []OnlyExpiredLeaves
<1>1. IInv => OnlyExpiredLeaves  BY DEF IInv, ExpiredInv, OnlyExpiredLeaves
<1> QED BY <1>1, Invariant, PTL

\* The table never goes back to an older state of the traffic.
THEOREM RowsGetNewer == Spec => NoOlderRows
<1>1. IInv /\ [Next]_vars => shown'.revision >= shown.revision
  <2> SUFFICES ASSUME IInv, Next, shown' # shown PROVE shown'.revision >= shown.revision
    BY DEF vars, table, IInv, TypeOK
  <2>1. PICK r \in requests : ShowRows(r) /\ ~Outdated(r)
    BY RowsChange
  <2>2. shown'.revision = r.revision /\ shown.revision <= r.revision
    BY <2>1 DEF ShowRows, IInv, LoadInv
  <2> QED BY <2>2 DEF IInv, TypeOK
<1> QED BY <1>1, Invariant, PTL DEF Spec, NoOlderRows
=============================================================================
