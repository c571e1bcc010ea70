-------------------------- MODULE FlowDrawerProofs --------------------------
(***************************************************************************)
(* Proofs about FlowDrawer, for any flows, any number of requests under    *)
(* way and any number of versions: its types, that an open drawer shows    *)
(* the selected flow, is in one of its three states and at rest no older   *)
(* than the table, and that nothing but a click opens it.                  *)
(***************************************************************************)
EXTENDS FlowDrawer, TLAPS

\* No row, and no answer for rows, is newer than what is stored.
RowsInv == \A f \in Flows : table[f] <= stored[f] /\ listing.rows[f] <= stored[f]

\* A request that has not ended is for a flow.
RequestsInv == \A r \in Requests : details[r].stage # "none" => details[r].flow \in Flows

\* The last request of an open drawer is for the selected flow, and what it
\* brings is not older than the row it was sent for, which is still there or
\* has left the table.
CurrentInv ==
  open =>
    /\ current \in Requests
    /\ version <= stored[selected]
    /\ table[selected] \in {0, version}
    /\ content.flow = NoFlow => content = Nothing
    /\ details[current].stage # "none" => details[current].flow = selected
    /\ details[current].stage = "ok" => details[current].version >= version

IInv == TypeOK /\ RowsInv /\ RequestsInv /\ CurrentInv /\ ShowsSelected /\ OneFace

Details == [flow : Flows \cup {NoFlow}, stage : Stages, version : Versions]
Listings == [filter : SUBSET Flows, stage : Stages, rows : [Flows -> Versions]]

-----------------------------------------------------------------------------

\* The values that the variables are set to have their types.
LEMMA Values ==
  /\ 0 \in Versions /\ 1 \in Versions /\ Versions \subseteq Nat
  /\ Nothing \in [flow : Flows \cup {NoFlow}, version : Versions]
  /\ Ended \in Details
  /\ NoListing \in Listings
  /\ \A f \in Flows, v \in Versions, s \in Stages :
       [flow |-> f, stage |-> s, version |-> v] \in Details
<1>1. 0 \in Versions /\ 1 \in Versions /\ Versions \subseteq Nat
  BY DrawerAssumption DEF Versions
<1>2. [f \in Flows |-> 0] \in [Flows -> Versions]
  BY <1>1
<1> QED BY <1>1, <1>2 DEF Nothing, Ended, NoListing, Details, Listings, Stages

LEMMA InitInv == Init => IInv
<1> SUFFICES ASSUME Init PROVE IInv  OBVIOUS
<1>1. TypeOK
  <2>1. details \in [Requests -> Details]
    BY Values DEF Init
  <2>2. listing \in Listings /\ content \in [flow : Flows \cup {NoFlow}, version : Versions]
    BY Values DEF Init
  <2> QED BY <2>1, <2>2, Values DEF Init, TypeOK, Details, Listings
<1>2. RowsInv /\ RequestsInv
  BY DEF Init, NoListing, Ended, RowsInv, RequestsInv
<1>3. CurrentInv /\ ShowsSelected /\ OneFace
  BY DEF Init, CurrentInv, ShowsSelected, OneFace
<1> QED BY <1>1, <1>2, <1>3 DEF IInv

\* Steps that leave the drawer alone need show only what the others rest on.
LEMMA DrawerAlone ==
  ASSUME IInv, UNCHANGED drawer, page' \in {page, "left"},
         \A f \in Flows : stored'[f] >= stored[f] /\ stored'[f] \in Versions,
         open => table'[selected] \in {0, version},
         TypeOK', RowsInv'
  PROVE  IInv'
<1> USE DEF IInv, drawer
<1>1. RequestsInv'
  BY DEF RequestsInv
<1>2. CurrentInv'
  BY DrawerAssumption DEF CurrentInv, TypeOK, Versions
<1>3. ShowsSelected' /\ OneFace'
  BY DEF ShowsSelected, OneFace, Nothing
<1> QED BY <1>1, <1>2, <1>3

\* A drawer that opens for a row waits for its own request and nothing else.
LEMMA OpenInv ==
  ASSUME IInv, NEW f \in Flows, NEW v \in Versions, v <= stored[f], Open(f, v),
         UNCHANGED <<stored, page, filter>>,
         listing' \in {listing, NoListing},
         table' \in [Flows -> Versions], \A g \in Flows : table'[g] <= stored[g],
         table'[f] = v
  PROVE  IInv'
<1> USE DEF IInv
<1>1. PICK r \in Free :
        /\ open' = TRUE /\ selected' = f /\ version' = v /\ current' = r
        /\ details' = [details EXCEPT ![r] = [flow |-> f, stage |-> "sent", version |-> 0]]
        /\ loading' = TRUE /\ failed' = FALSE
        /\ content' = Nothing
  BY DEF Open
<1>2. r \in Requests /\ r # NoRequest /\ f # NoFlow
  BY DrawerAssumption DEF Free
<1>3. /\ details'[r] = [flow |-> f, stage |-> "sent", version |-> 0]
      /\ \A q \in Requests \ {r} : details'[q] = details[q]
  BY <1>1, <1>2 DEF TypeOK
<1>4. TypeOK'
  <2>1. [flow |-> f, stage |-> "sent", version |-> 0] \in Details
    BY Values DEF Details, Stages
  <2>2. details' \in [Requests -> Details]
    BY <1>1, <2>1 DEF TypeOK, Details
  <2>3. listing' \in Listings
    BY Values DEF TypeOK, Listings
  <2> QED BY <1>1, <1>2, <2>2, <2>3, Values DEF TypeOK, Details, Listings
<1>5. RowsInv'
  BY DrawerAssumption DEF RowsInv, NoListing, TypeOK, Versions
<1>6. RequestsInv'
  BY <1>1, <1>3 DEF RequestsInv
<1>7. CurrentInv' /\ ShowsSelected' /\ OneFace'
  BY <1>1, <1>2, <1>3 DEF CurrentInv, ShowsSelected, OneFace, Nothing
<1> QED BY <1>4, <1>5, <1>6, <1>7

LEMMA ServerInv ==
  ASSUME IInv, (\E f \in Flows : SaveFlow(f)) \/ AnswerRows \/ Leave PROVE IInv'
<1> USE DrawerAssumption DEF IInv, drawer, list
<1>0. open => table[selected] \in {0, version}
  BY DEF CurrentInv
<1>1. CASE \E f \in Flows : SaveFlow(f)
  <2>1. PICK f \in Flows : SaveFlow(f)
    BY <1>1
  <2>2. /\ stored[f] \in Nat /\ stored[f] < MaxVersion
        /\ stored' = [stored EXCEPT ![f] = stored[f] + 1] /\ UNCHANGED <<page, list, drawer>>
    BY <2>1 DEF SaveFlow, TypeOK, Versions
  <2>3. \A g \in Flows : stored'[g] >= stored[g] /\ stored'[g] \in Versions
    BY <2>2 DEF TypeOK, Versions
  <2>4. TypeOK'
    BY <2>2, <2>3 DEF TypeOK
  <2>5. RowsInv'
    BY <2>2, <2>3 DEF RowsInv, TypeOK, Versions
  <2> QED BY <1>0, <2>2, <2>3, <2>4, <2>5, DrawerAlone
<1>2. CASE AnswerRows
  <2> DEFINE Read == [f \in Flows |-> IF f \in listing.filter THEN stored[f] ELSE 0]
  <2>1. Read \in [Flows -> Versions] /\ \A f \in Flows : Read[f] <= stored[f]
    <3>1. TypeOK
      OBVIOUS
    <3>2. \A f \in Flows : stored[f] \in Versions
      BY <3>1 DEF TypeOK
    <3>3. \A n \in Versions : 0 <= n /\ n <= n
      BY Values
    <3> QED BY <3>2, <3>3, Values
  <2>2. /\ listing' = [listing EXCEPT !.stage = "ok", !.rows = Read]
        /\ UNCHANGED <<stored, page, filter, table, drawer>>
    BY <1>2 DEF AnswerRows
  <2> HIDE DEF Read
  <2>3. listing' \in Listings /\ listing'.rows = Read
    BY <2>1, <2>2 DEF TypeOK, Listings, Stages
  <2>4. TypeOK'
    BY <2>2, <2>3 DEF TypeOK, Listings
  <2>5. RowsInv'
    BY <2>1, <2>2, <2>3 DEF RowsInv
  <2>6. \A f \in Flows : stored'[f] >= stored[f] /\ stored'[f] \in Versions
    BY <2>2, Values DEF TypeOK
  <2> QED BY <1>0, <2>2, <2>4, <2>5, <2>6, DrawerAlone
<1>3. CASE Leave
  BY <1>0, <1>3, DrawerAlone DEF Leave, TypeOK, RowsInv, Versions
<1> QED BY <1>1, <1>2, <1>3

LEMMA TableInv ==
  ASSUME IInv, Filter \/ AskRows \/ RowsFail PROVE IInv'
<1> USE DrawerAssumption DEF IInv, drawer
<1>0. open => table[selected] \in {0, version}
  BY DEF CurrentInv
<1>1. stored' = stored /\ page' = page /\ table' = table /\ UNCHANGED drawer
  BY DEF Filter, AskRows, RowsFail
<1>2. NoListing.rows = [f \in Flows |-> 0] /\ listing'.rows \in {listing.rows, NoListing.rows}
  BY DEF Filter, AskRows, RowsFail, NoListing
<1>3. TypeOK'
  <2>1. listing' \in Listings
    BY Values DEF Filter, AskRows, RowsFail, TypeOK, Listings, Stages
  <2>2. filter' \subseteq Flows
    BY DEF Filter, AskRows, RowsFail, TypeOK
  <2> QED BY <1>1, <2>1, <2>2 DEF TypeOK, Listings
<1>4. RowsInv'
  BY <1>1, <1>2 DEF RowsInv, TypeOK, Versions
<1> QED BY <1>0, <1>1, <1>3, <1>4, DrawerAlone DEF TypeOK, Versions

LEMMA ShowRowsInv == ASSUME IInv, ShowRows PROVE IInv'
<1> USE DrawerAssumption DEF IInv
<1>0. open => selected \in Flows /\ table[selected] \in {0, version}
  BY DEF CurrentInv, TypeOK
<1>1. CASE UNCHANGED <<table, drawer>>
  <2>1. TypeOK'
    BY <1>1 DEF ShowRows, drawer, TypeOK, NoListing, Stages, Versions
  <2>2. RowsInv'
    BY <1>1 DEF ShowRows, RowsInv, NoListing, TypeOK, Versions
  <2> QED BY <1>0, <1>1, <2>1, <2>2, DrawerAlone DEF ShowRows, TypeOK, Versions
<1>2. CASE /\ table' = listing.rows /\ UNCHANGED drawer
           /\ ~(selected # NoFlow /\ Changed(listing.rows[selected]))
  <2>1. TypeOK'
    BY <1>2 DEF ShowRows, drawer, TypeOK, NoListing, Stages, Versions
  <2>2. RowsInv'
    BY <1>2 DEF ShowRows, RowsInv, NoListing, TypeOK, Versions
  <2>3. open => table'[selected] \in {0, version}
    BY <1>0, <1>2 DEF Changed, TypeOK, Versions
  <2> QED BY <1>2, <2>1, <2>2, <2>3, DrawerAlone DEF ShowRows, TypeOK, Versions
<1>3. CASE /\ table' = listing.rows /\ selected # NoFlow
           /\ Open(selected, listing.rows[selected])
  <2>1. selected \in Flows /\ listing.rows \in [Flows -> Versions]
    BY <1>3 DEF TypeOK
  <2>2. \A g \in Flows : listing.rows[g] <= stored[g]
    BY DEF RowsInv
  <2> QED BY <1>3, <2>1, <2>2, OpenInv DEF ShowRows
<1> QED BY <1>1, <1>2, <1>3 DEF ShowRows

LEMMA ClickInv == ASSUME IInv, NEW f \in Flows, ClickRow(f) PROVE IInv'
<1>1. table[f] \in Versions /\ table[f] <= stored[f]
  BY DEF IInv, TypeOK, RowsInv
<1> QED BY <1>1, OpenInv DEF ClickRow, list, IInv, TypeOK, RowsInv

LEMMA CloseInv == ASSUME IInv, CloseDrawer PROVE IInv'
<1> USE DrawerAssumption DEF IInv, CloseDrawer, Deselected, list
<1>1. TypeOK'
  BY Values DEF TypeOK
<1>2. RowsInv' /\ RequestsInv'
  BY DEF RowsInv, RequestsInv
<1>3. CurrentInv' /\ ShowsSelected' /\ OneFace'
  BY DEF CurrentInv, ShowsSelected, OneFace
<1> QED BY <1>1, <1>2, <1>3

LEMMA AnswerDetailsInv == ASSUME IInv, NEW r \in Requests, AnswerDetails(r) PROVE IInv'
<1> USE DrawerAssumption DEF IInv, AnswerDetails, list
<1>1. details[r].stage = "sent" /\ details[r].flow \in Flows /\ stored[details[r].flow] \in Versions
  BY DEF RequestsInv, TypeOK
<1>2. /\ details'[r].flow = details[r].flow /\ details'[r].stage = "ok"
      /\ details'[r].version = stored[details[r].flow]
      /\ \A q \in Requests \ {r} : details'[q] = details[q]
  BY DEF TypeOK
<1>3. TypeOK'
  <2>1. details'[r] \in Details
    <3>1. details[r] \in Details
      BY DEF TypeOK, Details
    <3>2. details'[r] =
            [flow |-> details[r].flow, stage |-> "ok", version |-> stored[details[r].flow]]
      BY <3>1 DEF TypeOK, Details
    <3>3. "ok" \in Stages
      BY DEF Stages
    <3>4. [flow |-> details[r].flow, stage |-> "ok", version |-> stored[details[r].flow]]
            \in Details
      BY <1>1, <3>3, Values
    <3> QED BY <3>2, <3>4
  <2>2. details' = [q \in Requests |-> details'[q]]
    BY DEF TypeOK
  <2>3. details' \in [Requests -> Details]
    BY <1>2, <2>1, <2>2 DEF TypeOK, Details
  <2> QED BY <2>3 DEF TypeOK, Details
<1>4. RowsInv' /\ RequestsInv'
  BY <1>1, <1>2 DEF RowsInv, RequestsInv
<1>5. CurrentInv'
  BY <1>1, <1>2 DEF CurrentInv
<1>6. ShowsSelected' /\ OneFace'
  BY <1>1, <1>2 DEF ShowsSelected, OneFace, CurrentInv
<1> QED BY <1>3, <1>4, <1>5, <1>6

LEMMA EndsInv ==
  ASSUME IInv, NEW r \in Requests, ShowDetails(r) \/ ShowError(r) PROVE IInv'
<1> USE DrawerAssumption DEF IInv, list
<1>1. /\ details[r].stage # "none" /\ details[r].flow \in Flows /\ page = "here"
      /\ details' = [details EXCEPT ![r] = Ended]
      /\ UNCHANGED <<stored, page, list, open, selected, version, current>>
      /\ loading' = IF r = current THEN FALSE ELSE loading
  BY DEF ShowDetails, ShowError, EndRequest, StillLoading, RequestsInv
<1>2. details'[r] = Ended /\ \A q \in Requests \ {r} : details'[q] = details[q]
  BY <1>1 DEF TypeOK
<1>3. \/ /\ details[r].stage = "ok" /\ r = current /\ details[r].flow = selected /\ failed' = failed
         /\ content' = [flow |-> selected, version |-> details[r].version]
      \/ /\ details[r].stage = "ok" /\ failed' = failed /\ content' = content
         /\ ~(r = current /\ details[r].flow = selected)
      \/ failed' = (failed \/ r = current) /\ content' = content
         /\ details[r].stage = "sent"
  BY DEF ShowDetails, ShowError, IsCurrent
<1>4. TypeOK'
  <2>1. details' \in [Requests -> Details]
    BY <1>1, Values DEF TypeOK, Details
  <2>2. details[r].version \in Versions /\ selected \in Flows \cup {NoFlow}
    BY DEF TypeOK
  <2>3. [flow |-> selected, version |-> details[r].version]
          \in [flow : Flows \cup {NoFlow}, version : Versions]
    BY <2>2
  <2>4. content' \in [flow : Flows \cup {NoFlow}, version : Versions]
    BY <1>3, <2>3 DEF TypeOK
  <2>5. failed' \in BOOLEAN /\ loading' \in BOOLEAN
    BY <1>1, <1>3, Zenon DEF TypeOK
  <2> QED BY <1>1, <2>1, <2>4, <2>5 DEF TypeOK, Details
<1>5. RowsInv' /\ RequestsInv'
  BY <1>1, <1>2 DEF RowsInv, RequestsInv, Ended
<1>6. CurrentInv'
  <2>1. open => (content'.flow = NoFlow => content' = Nothing)
    BY <1>3 DEF CurrentInv, TypeOK
  <2> QED BY <1>1, <1>2, <2>1 DEF CurrentInv, Ended
<1>7. ShowsSelected'
  BY <1>1, <1>3 DEF ShowsSelected, CurrentInv
<1>8. OneFace'
  <2> SUFFICES ASSUME open PROVE OneFace'
    BY <1>1 DEF OneFace
  <2>1. current \in Requests /\ selected # NoFlow
    BY DEF CurrentInv, TypeOK
  <2>2. CASE r = current
    <3>1. /\ loading /\ content = Nothing /\ failed = FALSE
          /\ details[current].flow = selected
      BY <1>1, <2>1, <2>2, Zenon DEF OneFace, CurrentInv, TypeOK
    <3>2. loading' = FALSE /\ details'[current].stage = "none"
      BY <1>1, <1>2, <2>2 DEF Ended
    <3>3. failed' <=> content' = Nothing
      <4>1. CASE content' = [flow |-> selected, version |-> details[r].version] /\ failed' = failed
        BY <2>1, <3>1, <4>1 DEF Nothing
      <4>2. CASE content' = content /\ failed' = (failed \/ r = current)
        BY <2>2, <3>1, <4>2
      <4> QED BY <1>3, <2>2, <3>1, <4>1, <4>2
    <3> QED BY <1>1, <3>2, <3>3 DEF OneFace
  <2>3. CASE r # current
    BY <1>1, <1>2, <1>3, <2>1, <2>3 DEF OneFace, Nothing, TypeOK
  <2> QED BY <2>2, <2>3
<1> QED BY <1>4, <1>5, <1>6, <1>7, <1>8

LEMMA NextInv == IInv /\ [Next]_vars => IInv'
<1> SUFFICES ASSUME IInv, [Next]_vars PROVE IInv'  OBVIOUS
<1>1. CASE Next
  BY <1>1, ServerInv, TableInv, ShowRowsInv, ClickInv, CloseInv, AnswerDetailsInv, EndsInv DEF Next
<1>2. CASE UNCHANGED vars
  BY <1>2 DEF vars, IInv, TypeOK, RowsInv, RequestsInv, CurrentInv, ShowsSelected, OneFace
<1> QED BY <1>1, <1>2

\* Only a click opens a closed drawer: a refresh reopens that of a selected
\* flow, and a closed drawer has none.
LEMMA OpensByClick == IInv /\ [Next]_vars => [~open /\ open' => Clicks]_vars
<1> SUFFICES ASSUME IInv, Next, ~open, open' PROVE Clicks
  BY DEF vars
<1>1. selected = NoFlow
  BY DEF IInv, TypeOK
<1>2. ~ShowRows
  BY <1>1 DEF ShowRows, drawer
<1> QED BY <1>2 DEF Next, SaveFlow, Clicks, AnswerRows, CloseDrawer, Leave, Filter, AskRows,
                    RowsFail, AnswerDetails, ShowDetails, ShowError, drawer

-----------------------------------------------------------------------------

\* The inductive invariant holds however late the answers are.
THEOREM Invariant == Spec => []IInv
BY InitInv, NextInv, PTL DEF Spec

\* Every variable keeps its type, and a flow is selected while the drawer is
\* open.
THEOREM TypeCorrect == Spec => []TypeOK
BY Invariant, PTL DEF IInv

\* No late answer puts another flow, or an older state, in the drawer.
THEOREM RightFlowIsShown == Spec => []ShowsSelected
BY Invariant, PTL DEF IInv

\* An open drawer waits for its last request, has failed or shows details.
THEOREM DrawerHasOneFace == Spec => []OneFace
BY Invariant, PTL DEF IInv

\* A drawer at rest is no older than the table.
THEOREM NoOlderThanTable == Spec => []FollowsTable
<1>1. IInv => FollowsTable
  <2> SUFFICES ASSUME IInv, page = "here", open, ~loading, ~failed
               PROVE  content.version >= table[selected]
    BY DEF FollowsTable
  <2>1. content # Nothing
    BY DEF IInv, OneFace
  <2>2. table[selected] \in {0, version} /\ content.flow # NoFlow
    BY <2>1 DEF IInv, CurrentInv
  <2>3. content.version \in Nat /\ version \in Nat
    BY Values DEF IInv, TypeOK
  <2>4. content.version >= version
    BY <2>2 DEF IInv, ShowsSelected
  <2> QED BY <2>2, <2>3, <2>4
<1> QED BY <1>1, Invariant, PTL

\* No answer and no refresh opens a drawer that the user has closed.
THEOREM ClosedByUser == Spec => ClosedStaysClosed
BY Invariant, OpensByClick, PTL DEF Spec, ClosedStaysClosed
=============================================================================
