----------------------------- MODULE FlowDrawer -----------------------------
(***************************************************************************)
(* The drawer of the dashboard that shows the details of one flow          *)
(* (app.js).  It asks for them when the user clicks a row, and again when  *)
(* the table is loaded and the flow has changed.  Each answer comes back   *)
(* some time later, or not at all, whatever has been opened or closed      *)
(* since.                                                                  *)
(*                                                                         *)
(* How and when the table is loaded is in Dashboard: here it is one        *)
(* request at a time, for the rows the form selects.                       *)
(***************************************************************************)
EXTENDS Naturals

CONSTANTS
  Flows,
  NoFlow,       \* state.selectedFlowId is null
  Requests,     \* bound: the requests for details under way at a time, numbers;
                \* one is used again when it has ended
  NoRequest,    \* the drawer was closed after the last request
  MaxVersion    \* bound: no flow is saved more often

ASSUME DrawerAssumption ==
  /\ NoFlow \notin Flows
  /\ Requests \subseteq Nat /\ NoRequest \notin Requests
  /\ MaxVersion \in Nat \ {0}

VARIABLES
  stored,     \* stored[f]: how often flow f has been saved: its updated_at
  page,       \* the dashboard is "here", or the tab has "left" it
  filter,     \* the flows that the form selects
  listing,    \* the request for rows: its filter, its answer
  table,      \* table[f]: the version of the row of f, 0 without a row
  open,       \* the drawer is open
  selected,   \* state.selectedFlowId
  version,    \* state.selectedUpdatedAt
  current,    \* the request of the number state.drawerRequest
  details,    \* details[r]: the request r, its flow and its answer
  loading,    \* "Loading..." is there
  failed,     \* the error message is there
  content     \* what is rendered: a flow and its version

list == <<filter, listing, table>>
drawer == <<open, selected, version, current, details, loading, failed, content>>
vars == <<stored, page, filter, listing, table,
          open, selected, version, current, details, loading, failed, content>>

Versions == 0..MaxVersion
Nothing == [flow |-> NoFlow, version |-> 0]
Ended == [flow |-> NoFlow, stage |-> "none", version |-> 0]
NoListing == [filter |-> {}, stage |-> "none", rows |-> [f \in Flows |-> 0]]
Stages == {"none", "sent", "ok"}

\* Every variable has its type; a flow is selected while the drawer is open,
\* and only then.
TypeOK ==
  /\ stored \in [Flows -> Versions]
  /\ page \in {"here", "left"}
  /\ filter \subseteq Flows
  /\ listing \in [filter : SUBSET Flows, stage : Stages, rows : [Flows -> Versions]]
  /\ table \in [Flows -> Versions]
  /\ open \in BOOLEAN
  /\ selected \in Flows \cup {NoFlow} /\ (open <=> selected # NoFlow)
  /\ version \in Versions
  /\ current \in Requests \cup {NoRequest}
  /\ details \in [Requests -> [flow : Flows \cup {NoFlow}, stage : Stages,
                               version : Versions]]
  /\ loading \in BOOLEAN /\ failed \in BOOLEAN
  /\ content \in [flow : Flows \cup {NoFlow}, version : Versions]

Init ==
  /\ stored = [f \in Flows |-> 1]
  /\ page = "here"
  /\ filter = Flows /\ listing = NoListing /\ table = [f \in Flows |-> 0]
  /\ open = FALSE
  /\ selected = NoFlow /\ version = 0
  /\ current = NoRequest /\ details = [r \in Requests |-> Ended]
  /\ loading = TRUE /\ failed = FALSE
  /\ content = Nothing

-----------------------------------------------------------------------------
\* The server

SaveFlow(f) ==
  /\ page = "here" /\ stored[f] < MaxVersion
  /\ stored' = [stored EXCEPT ![f] = @ + 1]
  /\ UNCHANGED <<page, list, drawer>>

\* The server reads the rows, or the details, that a request asks for.
AnswerRows ==
  /\ page = "here" /\ listing.stage = "sent"
  /\ listing' = [listing EXCEPT
       !.stage = "ok",
       !.rows = [f \in Flows |-> IF f \in listing.filter THEN stored[f] ELSE 0]]
  /\ UNCHANGED <<stored, page, filter, table, drawer>>

AnswerDetails(r) ==
  /\ page = "here" /\ details[r].stage = "sent"
  /\ details' = [details EXCEPT ![r].stage = "ok", ![r].version = stored[details[r].flow]]
  /\ UNCHANGED <<stored, page, list, open, selected, version, current, loading, failed, content>>

-----------------------------------------------------------------------------
\* The drawer

Free == {r \in Requests : details[r].stage = "none"}

\* openFlowDrawer for flow f, whose row is of version v.
Open(f, v) ==
  \E r \in Free :
    /\ \A q \in Free : r <= q
    /\ open' = TRUE
    /\ selected' = f /\ version' = v
    /\ current' = r
    /\ details' = [details EXCEPT ![r] = [flow |-> f, stage |-> "sent", version |-> 0]]
    /\ loading' = TRUE /\ failed' = FALSE
    /\ content' = Nothing

\* A click on a row.
ClickRow(f) ==
  /\ page = "here" /\ table[f] > 0
  /\ Open(f, table[f])
  /\ UNCHANGED <<stored, page, list>>

Clicks == \E f \in Flows : ClickRow(f)

\* Wrong on purpose: the selection outlives the drawer.
StillSelected == selected

Deselected == NoFlow

\* The close button, a click beside the drawer, or Escape.
CloseDrawer ==
  /\ page = "here" /\ open
  /\ current' = NoRequest
  /\ open' = FALSE
  /\ selected' = Deselected /\ version' = 0
  /\ UNCHANGED <<stored, page, list, details, loading, failed, content>>

\* Wrong on purpose: an answer is shown when it is about the selected flow.
SameFlow(r) == details[r].flow = selected

\* Nothing has been opened or closed since r was sent.
IsCurrent(r) == r = current /\ details[r].flow = selected

EndRequest(r) == details' = [details EXCEPT ![r] = Ended]

\* Wrong on purpose: the end of any request hides "Loading...".
HiddenByAll(r) == FALSE

\* "Loading..." after the end of r.
StillLoading(r) == IF r = current THEN FALSE ELSE loading

\* renderDrawer, for an answer that still counts.
ShowDetails(r) ==
  /\ page = "here" /\ details[r].stage = "ok"
  /\ content' = IF IsCurrent(r)
                  THEN [flow |-> details[r].flow, version |-> details[r].version]
                  ELSE content
  /\ loading' = StillLoading(r)
  /\ EndRequest(r)
  /\ UNCHANGED <<stored, page, list, open, selected, version, current, failed>>

\* The catch: a request ends with an error, or is never answered.
ShowError(r) ==
  /\ page = "here" /\ details[r].stage = "sent"
  /\ failed' = (failed \/ r = current)
  /\ loading' = StillLoading(r)
  /\ EndRequest(r)
  /\ UNCHANGED <<stored, page, list, open, selected, version, current, content>>

\* The session has ended: 401, for the rows or for details, and the tab goes
\* to the login page.
Leave ==
  /\ page = "here"
  /\ listing.stage = "sent" \/ \E r \in Requests : details[r].stage = "sent"
  /\ page' = "left"
  /\ UNCHANGED <<stored, list, drawer>>

-----------------------------------------------------------------------------
\* The table

Filter ==
  /\ page = "here"
  /\ filter' \in SUBSET Flows
  /\ UNCHANGED <<stored, page, listing, table, drawer>>

\* loadTraffic sends its request.
AskRows ==
  /\ page = "here" /\ listing.stage = "none"
  /\ listing' = [NoListing EXCEPT !.filter = filter, !.stage = "sent"]
  /\ UNCHANGED <<stored, page, filter, table, drawer>>

\* Wrong on purpose: the drawer is never opened again.
NeverChanged(v) == FALSE

\* The selected flow has a row, and not of the version the drawer has asked for.
Changed(v) == v > 0 /\ v # version

\* renderLogRows; a drawer whose flow has changed is opened again.
ShowRows ==
  /\ page = "here" /\ listing.stage = "ok"
  /\ listing' = NoListing
  /\ IF listing.filter # filter
       THEN UNCHANGED <<table, drawer>>
       ELSE /\ table' = listing.rows
            /\ IF selected # NoFlow /\ Changed(listing.rows[selected])
                 THEN Open(selected, listing.rows[selected])
                 ELSE UNCHANGED drawer
  /\ UNCHANGED <<stored, page, filter>>

\* A load that fails leaves the drawer alone.
RowsFail ==
  /\ page = "here" /\ listing.stage = "sent"
  /\ listing' = NoListing
  /\ UNCHANGED <<stored, page, filter, table, drawer>>

-----------------------------------------------------------------------------

Next ==
  \/ \E f \in Flows : SaveFlow(f) \/ ClickRow(f)
  \/ AnswerRows \/ CloseDrawer \/ Leave
  \/ Filter \/ AskRows \/ ShowRows \/ RowsFail
  \/ \E r \in Requests : AnswerDetails(r) \/ ShowDetails(r) \/ ShowError(r)

Spec == Init /\ [][Next]_vars

\* The stream or the polling asks for rows again and again (Dashboard), the
\* browser handles what has come, every request ends, and one for rows now and
\* then ends well.
Fairness ==
  /\ WF_vars(AskRows) /\ SF_vars(AnswerRows) /\ SF_vars(ShowRows)
  /\ \A r \in Requests : WF_vars(AnswerDetails(r) \/ ShowDetails(r) \/ ShowError(r))

FairSpec == Spec /\ Fairness

-----------------------------------------------------------------------------
\* Correctness

\* An open drawer shows the selected flow or nothing, and the flow as it was
\* when its row was rendered or later: no answer that arrives late puts
\* another flow there, or an older state of this one.
ShowsSelected ==
  open /\ content.flow # NoFlow => content.flow = selected /\ content.version >= version

\* An open drawer is in one of three states: it waits for its last request,
\* says that it failed, or shows what it brought.  It never waits for nothing,
\* and an older request that ends does not end the waiting.
OneFace ==
  page = "here" /\ open =>
    /\ loading <=> current # NoRequest /\ details[current].stage # "none"
    /\ loading => content = Nothing /\ ~failed
    /\ ~loading => (failed <=> content = Nothing)

\* A drawer at rest is no older than the table under it, whichever of the two
\* was asked for first and in whichever order they came, unless its last
\* request failed.
FollowsTable ==
  page = "here" /\ open /\ ~loading /\ ~failed => content.version >= table[selected]

\* A closed drawer stays closed until the user opens it: no row and no answer
\* that was under way opens it again.
ClosedStaysClosed == [][~open /\ open' => Clicks]_vars

\* An open drawer comes to show the newest state of its flow when the user
\* leaves it alone, unless the form no longer selects the flow, or its last
\* request failed: the version counts as seen when it is asked for, so nothing
\* repeats that request.
DrawerCatchesUp ==
  \/ []<><<Clicks \/ Filter>>_vars
  \/ []<>(\/ page = "left" \/ ~open \/ failed
          \/ selected \notin filter
          \/ content = [flow |-> selected, version |-> stored[selected]])
=============================================================================
