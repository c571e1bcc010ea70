# imr-proxy in TLA+

TLA+ specifications of imr-proxy, the TLC configurations that check them and the
proofs, checked by TLAPS, of what matters most about them. Paths are relative to
the repository root; line numbers are those of the modelled commit.
`PROJECT.json` lists the components, the runs, the hazards and, under `map`, the
source lines every definition stands for.

Parse, check and prove, inside this directory:

    tlasany FlowStore.tla
    tlc -workers 2 -config MCFlowStore.cfg MCFlowStore.tla
    tlapm FlowStoreProofs.tla

## The system

imr-proxy is an intercepting HTTP proxy with a web console. One process runs two
threads: the **proxy thread** (mitmproxy's event loop with `ImrProxyAddon`) and
the **web thread** (uvicorn's event loop with FastAPI and the WebSocket
handlers). They share one SQLite file, each with connections of its own, and one
in-process object, `traffic_events`. A second imr-proxy process or the CLI may
use the same file at the same time.

    mitmproxy --hooks--> ImrProxyAddon --save--> FlowRepository --SQLite--> flows, findings,
                              |                       |                     traffic_revision
                              v                       | publish(revision)
                          LivePrinter                 v
                                              TrafficEventBus --call_soon_threadsafe--> queue(1)
                                                                                          |
    browser (app.js) <---- ready / traffic_changed / heartbeat ---- WebSocket handler <---+
        |                                                              |  reads the revision
        +---- GET /api/flows (login middleware, search) -----------> SQLite

### Components

| Component | State | Operations | Hard part | What makes it correct |
|---|---|---|---|---|
| Flow storage: `storage/repositories.py`, `schema.sql`, `database.py` | rows of `flows` and `findings`, the `traffic_revision` counter, SQLite's write lock, an open transaction | `save`, `revision` | two processes, statements that raise and leave the transaction open, crashes between commit and publish | every visible change has a new revision; the findings are those of the stored record; what is announced is committed |
| Traffic event bus: `realtime.py` | the table of subscribers | `subscribe`, `unsubscribe`, `publish`, `_offer` | the lock is released before the fan-out; two threads; a closed loop | a running handler stays subscribed, an ended one does not |
| Traffic WebSocket: `web/websocket.py` | the one-place queue, two tasks, the local `revision`, three timers | the handler's loop | cancellation, the order of subscription and first read, commits of other processes | no notification is lost for good; a revoked session is closed |
| Dashboard and drawer: `web/static/app.js` | form, offset, load in progress, queued load, socket, timers, indicator; the selected flow, its version, the number of the last request for details | every event handler of the live page; `openFlowDrawer`, `closeDrawer` | slow answers, replaced sockets, timers that outlive a pause, details that arrive for a flow no longer selected | the table answers the form; one stream at most; a live page catches up; the drawer shows the selected flow |
| Flow capture: `proxy/addons.py` | `_started`, the rows written | thirteen hooks | a hook whose `save` raises does not do the rest | rows move forward and reach their end; start times are used and released |
| Users and sessions: `web/auth.py`, `web/server.py` | `users`, `web_sessions` | `ensure_default_admin`, `create_user`, `set_password`, `set_active`, `delete_user`, `authenticate`, `create_session`, `get_session_user`, `delete_session`, `purge_expired_sessions` | reads and writes in different transactions, two processes that start at once | one administrator, who stays; sessions have users |
| Search, paging, statistics: `storage/repositories.py` | none | `search`, `filter_options`, `stats` | count and rows from two snapshots | limits and offsets clamp |
| Storage set-up: `storage/database.py`, `schema.sql` | the tables, the columns an old `flows` lacks, their values, the write lock | `init_db`, `_ensure_flow_columns` | several starting threads and processes; statements that commit one by one; crashes between them; a lock that is never released | whoever returns stands on a complete database; every call ends |
| Local CA: `proxy/certificates.py`, `proxy/engine.py` | four files, directories put aside | `init_ca`, `rotate_ca`, `ensure_ca_for_interception` | files written one after the other, by commands and starts that nothing keeps apart | key, certificate and combined file belong together; no key is lost |
| Start-up: `cli.py`, `app.py`, `proxy/engine.py` | the two threads of a process, its configuration | `start`, `start_web_thread`, `run_proxy` | a thread that fails while the other is anywhere | a listening proxy has what it needs; a failed one leaves no console behind |
| Scope, configuration, CLI, findings rules, redaction, terminal, reports, replay, templates, installers | none, or data only | pure functions and I/O | - | - |

## The modules

The most important behaviour first:

| Module | Models | Checked by | Proved in |
|---|---|---|---|
| `FlowTable` | the abstract table: rows change atomically with a revision, a writer announces its newest, a restart forgets | refined by `FlowStore` | `FlowStoreProofs` |
| `FlowStore` | `FlowRepository.save`, one action per SQL statement | `MCFlowStore` | `FlowStoreProofs` |
| `LiveTraffic` | bus, queue and WebSocket handlers | `MCLiveTraffic` | `LiveTrafficProofs` |
| `TrafficSystem` | one process that records and streams: `FlowStore` and `LiveTraffic` composed, next to other processes that save | its parts | `TrafficSystemProofs` |
| `Dashboard` | one tab of the dashboard with the server's answers | `MCDashboard` | `DashboardProofs` |
| `FlowDrawer` | the drawer of that tab: selection, requests for details, refreshes underneath | `MCFlowDrawer` | `FlowDrawerProofs` |
| `FlowCapture` | the addon's hooks and their rows | `MCFlowCapture` | `FlowCaptureProofs` |
| `Accounts` | the abstract accounts and sessions: every operation takes effect at once or not at all | refined by `WebAuth` | `WebAuthProofs` |
| `WebAuth` | users, sessions, the start of processes | `MCWebAuth` | `WebAuthProofs` |
| `Bootstrap` | the promise of `init_db`: it returns on a complete database, which stays so | refined by `StorageInit` | `StartupProofs` |
| `StorageInit` | `init_db` and `_ensure_flow_columns`, one action per statement that commits | `MCStorageInit` | `StartupProofs` |
| `LocalCA` | the four files of the CA, the commands and the start that write them | `MCStartup` | `StartupProofs` |
| `Startup` | `imr-proxy start`: `StorageInit` and `LocalCA` composed with the two threads | `MCStartup` | `StartupProofs` |

An `MC` module gives the constants of its module small values and nothing else.

They meet at narrow places. `FlowCapture` uses `save` with the outcomes
`FlowStore` shows it to have (saved, busy, left open, rolled back). `LiveTraffic`
takes from `FlowStore` that a commit precedes its publication and that a revision
is never reused: `TrafficSystem` puts the two together, and
`SystemImplementsLiveTraffic` proves it. `Dashboard` takes from `LiveTraffic` that an open socket is told
of a new revision (`Converges`) and closed when its session ends
(`RevokedIsClosed`); those appear there as fairness of `Notify` and of the
closing of an expired stream. `WebAuth` says when a session stops being good,
which is `Revoke` in `LiveTraffic` and `EndSession` in `Dashboard`. `Startup`
composes `StorageInit` and `LocalCA` and runs their actions as its own threads
and commands; `Save` and `SaveRaises` there are what `FlowStore` does to the lock.
`WebAuth!InitDb` is the commit of `StorageInit` seen from the table of users.
`FlowDrawer` takes from `Dashboard` that rows are asked for again and again and
shown only when they answer the form.

### FlowStore: state and actions

`db` is the committed image (rows, findings, revision), `work` the image inside
the one open write transaction, `lock` its holder (`Outside` stands for the
writes of logins, user changes and set-up), `pc[w]` the next statement of
process `w`. `save` is, line by line: `InsertFlow` (the `INSERT OR REPLACE`),
`Bump` (the `UPDATE` of the counter and the `SELECT` of it in the same
transaction), `ClearFindings`, `InsertFinding` for each finding, `Commit`,
`Publish`. `Busy` is the `INSERT` that raises after the busy timeout.
`StatementFails` is an exception in a later statement: `save` has no handler, so
the transaction stays open on the proxy's connection, and the next `save`
continues in it. `RolledBack` is the same where SQLite rolls back by itself.
`torn` marks flows whose transaction was left half-way and then committed by a
later save. `Crash` ends the process at any statement.

### LiveTraffic: state and actions

A revision travels `targets` (the snapshot of `publish`), `callbacks[s]`
(`call_soon_threadsafe`), `queue[s]` (one place, `_offer` replaces what is in
it), `got[s]` (the getter task), `seen[s]` (the handler's `revision`). One action
per step between two awaits of the handler; `Wake`, `TimeOut`, `CancelGetter` and
`CancelReceiver` model `asyncio.wait` and the loop over `pending`, in which each
cancelled task is awaited before the next is cancelled. The receive task brings a
text or raises, on a disconnection and on a binary frame. `OtherCommit` is a commit
by a process that publishes on a bus of its own. A commit may go past several
revisions at once: one that takes along what a failed save has left open contains
the `UPDATE` of both. `TimerDue` lets each of the three
periods elapse; time itself is not modelled. `LoopCloses` is the end of the web
thread.

### TrafficSystem: state and actions

The variables are those of `FlowStore` and those of `LiveTraffic` but for
`revision`, `lastLocal` and `pc`, which are `db.revision`, `newest[Me]` and
`handlerAt`. The thread of the proxy alternates: while the stream's `engine` is
idle it executes the statements of `save` (`SaveStatement`); its commit
(`SaveCommits`) is the stream's `LocalCommit`; `PublishBegins` is `Publish` of the
store and the snapshot of the bus in one step; the fan-out, the event loop and the
handlers follow (`StreamStep`). `OutsideStep` is any step of another process.
A crash of `Me` is the end of the behaviour: the stream, the bus and the sockets
end with it, and nothing of them is there after a restart.

### Dashboard: state and actions

One action per task of the browser's event loop, including the microtasks it
leaves (`queueMicrotask(loadTraffic)` runs inside the end of the load). The server
answers a request with rows of the current revision, with 401 when the session is
gone, or not at all well (503, network). `told` and `unread` are the messages of a
socket. A refused handshake is closed before it is accepted, so the browser sees
an ordinary failure: the branch for code 4403 in `app.js` (line 620) is not
reached from this server, and 4401 comes only from open streams. The statistics
and the rendering of rows are left out.

### FlowDrawer: state and actions

`selected`, `version` and `current` are `state.selectedFlowId`,
`state.selectedUpdatedAt` and the request whose number `state.drawerRequest`
holds (`NoRequest` after `closeDrawer`, which counts on); `details[r]` is a
request on its way. The code numbers its requests without end; here a number is
used again once its request has ended, which `current` cannot confuse because an
ended request sends nothing. `ShowRows` is the end of `loadTraffic`: rows that
answer another form are dropped, otherwise the table changes and a drawer whose
flow has changed is opened again in the same step. Two kinds of answer end a
request for details: `ShowDetails` and `ShowError`.

### FlowCapture: state and actions

`stage[x]` is mitmproxy's own progress with a flow or server connection and is the
only external part; `rows` and `open` are the committed rows and the rows inside
the proxy's possibly open transaction; `started` is `_started`. One action per
hook, each with any outcome of `save` and of `terminal.emit` after it. An exception
of either skips the rest of the hook, `_started.pop` included; `missed` and
`raised` are history variables: the records whose last save raised, and those
whose last hook raised, in `save` or in `emit`.

### WebAuth: state and actions

`users` and `sessions` are the two tables, reduced to password and activity, and
user and expiry. A worker is any thread or process with a connection. A write of
`_write` is one step with the outcomes done, refused, and busy through all
retries; what an operation reads before it (`FindUser`, `Authenticate`,
`CheckSession`) is a step of its own, so that others come
between. User names are typed in any form and normalised by `validate_username`;
`Passwords` are those that `hash_password` takes, since it raises on a shorter one
(`auth.py:39`) before anything is written. `InitDb` counts the users and inserts
the administrator in one step: `init_db` does so after the `UPDATE` of
`database.py:90`, under the write lock.

`Accounts` is what the console promises: found the administrator, create, set a
password, enable or disable, delete together with all sessions, log in, end
sessions, each in one step. Only a login has two, because between the check of
the password and the session the account may get another password or be disabled
and the session is created all the same; that it cannot be created for a deleted
account is part of the promise (`Enter`). `Owner` and `Admitted` map the tables
and the workers to it.

### StorageInit, LocalCA and Startup: state and actions

In `StorageInit` a starter is a thread that calls `init_db`; the threads of one
process end together (`Stop`). The statements of `schema.sql` (`Statement`) and
each `ALTER` (`AddColumn`) commit by themselves. The first `UPDATE` (`Update`)
takes the write lock, and everything from there to the commit, the backfill of
old rows, the indexes and the default administrator, is one step (`Commit`),
because nobody else can write in between and readers see it only then. `StaysBusy`
is a statement that waits out the busy timeout and ends the attempt;
`DuplicateColumn` is the `ALTER` of a column another starter has added since
`Inspect`. A row is `bare` when its new columns are empty and its record says what
belongs there, `unreadable` when the record cannot be parsed, `malformed` when it
can but is no object: the first is skipped, the second makes the call raise
(`BackfillRaises`).

In `LocalCA`, `dir[f]` says of which pair each file is, `EmptyFile` for one whose
writer ended in it. `ca[w]` is the next step of process `w`: the key is generated,
then the key, the certificate, the combined file and mitmproxy's certificate are
written. `spoiled` is a history variable: somebody has written over files of
another, by `--force` or because two processes worked at once.

`Startup` runs both: `Launch` and `LaunchWeb` start the threads, `stage` follows
the main thread through `init_db`, the session record, the CA and to listening, or
to the failure of any of them (`RunFails` for a port that cannot be bound);
`Exit` and `Kill` end the process and with it the daemon thread of the console.

## What is checked

### Properties and runs

A definition commented "Wrong on purpose" is a plausible bug in the definition
that follows it; with it the named property fails (`PROJECT.json`, `mutants`).
No specification uses it.

| Run | Instance | Shows |
|---|---|---|
| `store` | 2 processes, 2 flows, 2 findings, 3 revisions | rows, findings and announcements stay consistent under failures and crashes; `FlowStore` implements `FlowTable` |
| `live` | 1 socket, 3 timers, 2 revisions, fair | the path of a revision keeps its order and loses nothing but by cancellation; the bus's table holds who runs; `Converges`, `RevokedIsClosed`, `GoneIsUnsubscribed` |
| `page_form` | 2 filters, 2 pages, a browser without WebSockets | no call of `loadTraffic` is lost, the table at rest answers the last one, rows never go back |
| `page_fair` | 2 socket objects, pause and resume, fair | one stream, nothing left while paused, polling exactly without a stream; a page at rest shows all it was told of; a live page catches up; an expired one, and no other, leaves for the login |
| `drawer` | 2 flows, 2 requests under way, 2 versions, fair | the drawer shows the selected flow, waits for its last request only, is at rest no older than the table, stays closed once closed, and catches up unless its last request failed |
| `capture` | 2 flows (one out of scope), 1 server connection | rows only move forward and reach their end; start times are those of the flows under way and of flows whose last hook raised; the terminal prints only what is stored |
| `auth` | 2 workers, 2 users, 4 typed names, 2 passwords, 2 tokens | the administrator comes first, stays, keeps the chosen password; no session without its user; `WebAuth` implements `Accounts` |
| `storage` | 3 starters in 2 processes, 2 statements, 2 missing columns, 2 attempts, 2 old rows of every kind, fair | `StorageInit` implements `Bootstrap`; every call of `init_db` ends |
| `startup` | the 2 threads and a `ca` command, 2 key pairs, an old or a new database, fair | a listening proxy has a complete database and a pair; the files belong together; no key is lost; a failed start leaves no console |

Three runs state what a document, a comment or a log line says and find it
violated:

| Run | Statement | What happens |
|---|---|---|
| `page_pause` | "Pause live stops automatic refresh" (`docs/web-ui.md:72`) | the 80 ms debounce timer of a notification is not cleared by the pause |
| `startup_columns` | "Fixed concurrent SQLite initialization by adding a busy timeout and retry logic" (`CHANGELOG.md:68`) | the two threads of one start, on a database of an earlier build, both miss the same column; the slower one raises "duplicate column name", which is not tried again (the database is complete at the next start) |
| `startup_stuck` | "Local CA not found; generating one." (`engine.py:30`) | after a process ended between the key and the combined file, a start looks for the latter and `init_ca` for the former: it raises `FileExistsError`, at every start, until the CA is rotated or forced |

Smaller observations made while modelling, without a run:

- on the timeout of `asyncio.wait` the WebSocket handler cancels its two tasks one
  after the other; a revision the getter takes in between is dropped
  (`websocket.py:111`), and only the database check two seconds later makes up for
  it, while `realtime.py:18` says "each WebSocket receives the newest committed
  revision". `NoMissedUpdate` names exactly this loss (`dropped`);
- a queued revision older than the one the database check has told is sent as the
  newest (`websocket.py:121` compares with `!=`), until the next check;
- a load that fails while the stream is connected is repeated by nothing until the
  next commit (`app.js:487`), which `CatchesUp` excuses; the details of the drawer
  likewise: the version counts as seen when it is asked for (`app.js:483`,
  excused by `DrawerCatchesUp`);
- a load that fails while paused sets the indicator to "Fallback" (`app.js:489`);
- the row of a request stays `pending` for good when the save of its response
  raises (`addons.py:203`), which is why `EndedIsFinal` excepts it by the history
  variable `missed`;
- the start time of a flow stays in `_started` until the process ends when its last
  hook raises: in `save`, or in `terminal.emit` with the row committed
  (`addons.py:190`; `LivePrinter.emit` has no handler). `StartTimesAreUsed` says
  that it stays for no other reason;
- a record of an old row whose JSON is not an object makes every start fail: the
  backfill calls `payload.get`, and `AttributeError` is not among what it skips
  (`database.py:153`);
- `set_password` reports success when the user is deleted between its `SELECT`
  and its `UPDATE` (`auth.py:207`); the insertion of a session for a user deleted
  during the login raises an `IntegrityError` that is not turned into an
  `AuthError` (`auth.py:245`, result `"integrity"` of `InsertSession`);
- the column `state` is added to an old table with the default `'complete'`
  (`database.py:72`), so that the `'pending'` of the backfill (line 94) is never
  reached;
- two processes that generate the CA at once may leave files of both pairs, and a
  `ca rotate` next to a start lets mitmproxy make a CA of its own (`spoiled`,
  `MitmproxyMakesCA`);
- the count and the rows of a page come from two statements (`repositories.py:241`
  and 242): a commit between them makes them disagree until the next load, which
  that commit causes.

### Bounds

Bounds are constants, and every action that could pass one has a guard.

- `MaxRevision` ends the commits. Three revisions let a third save run into what
  two earlier ones left; on the stream two suffice for an old revision to meet a
  newer one at each of the five places of the path.
- Two processes, two sockets, two flows: every hazard listed is between two
  parties or between one party and its own past. The proofs remove these
  bounds for everything but liveness.
- `Dashboard`: two socket objects (a replaced one may still be closing; a closed
  one is used again), two pages, two filters. `Acts` limits the user's acts in
  the fair run to pause and resume; the form run has all of them, and the proofs
  all of them with any sockets.
- `WebAuth`: two tokens in all, two users of whom one is the administrator. A
  third user would do what the second does.
- `FlowDrawer`: two flows are the selected and another one; two requests are the
  last and an older one; two versions are a flow before and after its change.
- `StorageInit`: two columns, so that one can be there and the other not; two
  attempts, so that there is a first and a last; three starters, of whom two are
  the threads of one process.
- `LocalCA`: two pairs are an old and a new one.
- Symmetry is used only in runs of safety properties.
- In run `auth` states that differ only in `result` count as one (`VIEW`): no guard
  and no property reads it.

Deadlock is checked for `store`, `capture` and `auth`, where some step is always
possible, and for `storage`, where a process can always be stopped. In
`LiveTraffic` the web server may have ended, in `Dashboard` and `FlowDrawer` the
page may have been left, and in `Startup` the pairs of the instance may be used
up: there it is switched off.

### Fairness

`LiveTraffic!Fairness`: the proxy thread finishes a `publish`, the event loop runs
its callbacks and ready tasks, a handler that can take a step takes it, an armed
timer elapses. All are weak fairness, for the scheduler of a running process,
except the reception of a disconnection: the receive task is cancelled and
created anew in every round of the loop, long before the timeout of the round, so
it is enabled again and again and gets its turn (strong fairness). Commits,
frames, revocations and the end of the server are not fair.

`Dashboard!Fairness`: loads end, timers fire, sockets open or fail and their
events arrive. Strong fairness is assumed of two things that others interrupt: a
request is now and then answered by the storage, and a stream that drops again
and again now and then delivers a message first (`ready` is sent at once). The
user need never act.

`FlowDrawer!Fairness`: every request for details ends, rows are asked for, and a
request for rows is now and then answered and shown (strong fairness, as above;
`Dashboard` has what asks for them). `DrawerCatchesUp` holds of a user who in the
end leaves rows and form alone.

`StorageInit!FairStorage` and `Startup!FairStartup`: a thread inside `init_db`
runs on, and an exception of the main thread ends the process. Nobody need start,
stop or save anything, and a lock may be kept for ever.

## What is proved

TLAPS proves, for all values of the constants that satisfy the modules' named
assumptions:

`FlowStoreProofs` (any number of processes, flows, findings, revisions)
- `TypeCorrect`, `FindingsMatch`, `AnnouncementsAreCommitted`,
  `CommitsAreAnnounced`, `DistinctRevisions`, `LockLeak`: the invariants of run
  `store` and two more;
- `ChangesAreRevised`: no change without a new revision;
- `StoreImplementsTable`: `Spec => Table!Spec`, every statement of `save` is a
  stutter of `FlowTable` except `Commit` (`Change`), `Publish` (`Announce`) and
  `Crash` (`Restart`).

None of the invariants is inductive alone. `IInv` adds: a statement inside a
transaction runs under the lock, and without a holder among the processes there is
no open transaction (`LockInv`); the revision read by `save` is the open image's
and above the committed one (`RevInv`), so that two processes' revisions never
meet (`ApartInv`); what a save has still to insert is what the findings of its
flow lack (`FindingsInv`); no row is lost (`RowsKept`). The lemmas `LockStep`,
`RevStep`, `ApartStep`, `FindingsStep` and `RowsStep` each carry one part over
every action, and `Invariant` joins them.

`LiveTrafficProofs` (any number of sockets, any timers, any bound)
- `TypeCorrect`, `NothingMissed`, `SubscriptionsMatchHandlers`,
  `DeliveredInOrder`, `NeverAhead`: the invariants of run `live` and three more.

Its `IInv` says where the last local commit is: the publisher sends it only to
sockets whose whole path is older (`OrderInv`), nothing travels to a socket that
is not subscribed yet (`HandlerInv`), whatever travels to a listening handler ends
with the last local commit or that is still to be sent, and a handler with nothing
on its way has seen it or lost it to a cancellation (`PathInv`). `NoMissedUpdate`
follows from `PathInv` by cases on whether anything travels.

`TrafficSystemProofs` (any number of processes, flows, sockets)
- `SystemImplementsStore`: `SystemSpec => Spec` of `FlowStore`;
- `SystemImplementsLiveTraffic`: `SystemSpec => Live!Spec`. Every commit is a
  `LocalCommit` or an `OtherCommit`, by `RevInv` of the store and the bound of the
  open image (`BoundInv`); every other statement of a save is a stutter of the
  stream. So what `LiveTrafficProofs` proves of every behaviour of `LiveTraffic`
  holds on the real store;
- `TurnsAreTaken`: the program counters of save and publish agree, so that no step
  of either waits for ever because the other is elsewhere.

These three assume `Me \in Writers`, and no run checks the composition: its state
space is the product of two that fill a run each.

`WebAuthProofs` (any number of workers, users, passwords and tokens)
- `TypeCorrect`, `SessionsBelong`, `AdminIsFirst`: the types and the invariants of
  run `auth`;
- `AdminIsKept`, `PasswordsAreSet`: its action properties;
- `OperationsAreAtomic`: `Spec => Abstract!Spec`, the refinement of `Accounts`.
  What each operation has read must still hold, or be checked again, where it
  writes: `HandedOut` (a token of which there is a session has been handed out, so
  that a login never takes over a session) is the fact beyond the invariants above; one lemma per group of operations says which step of
  `Accounts` it is.

Its `IInv` adds to them that a worker past its start has made sure of the
administrator (`AdminServes`: otherwise the first `create_user` could precede the
row) and that the administrator's row is active (`AdminActive`). `SessionStep`
carries the sessions over every action, `AdminStep` the administrator.

`DashboardProofs` (any filters, pages, socket objects, revisions)
- `TypeCorrect`, `NoLoadIsLost`, `StreamIsUnique`, `PauseIsQuiet`,
  `PollsOrStreams`, `OnlyExpiredLeave`, `LabelIsTrue`: the invariants of runs
  `page_form` and `page_fair`, and that the label says "Live" while a stream is open
  and only with one;
- `RowsGetNewer`: the action property of `page_form`;
- `NothingToldIsMissed`: a live first page at rest shows all that its stream has
  told it of, which is the safety half of `CatchesUp`.

Its `IInv` adds `LoadInv`: one request is under way at a time, for the query of
the last call of `loadTraffic` unless another load is queued, and its rows are no
older than those of the table; `StreamInv` joins the invariants of the stream with
the tab that has no WebSockets, and `ToldInv` bounds what a socket has been told.
`ExpiredInv` keeps a tab whose session is good away from the login: no answer 401
is on its way to it, no stream of it closes with 4401 and no timer leads there.
`FreshInv` carries a notification from the message to the rows: through the
debounce timer, a queued load, a request whose answer is as new, to the table.

`FlowCaptureProofs` (any flows, server connections and scope)
- `TypeCorrect`, `EndedAreFinal`, `StartTimes`, `FinalAreTimed`, `PrintedStored`:
  the invariants of run `capture` and two more;
- `RowsGoForward`: its action property.

`OpenInv` says what none of these can do without: the rows in the proxy's open
transaction are the committed ones or further on, and further on only for records
whose last save raised, so that neither a rollback nor a late commit takes a row
back. `SaveStep` shows this once for any save of which the new state is reachable
from every state the stage allows (`Sound`); each hook then has only to be shown
`Sound`.

`StartupProofs`, of `StorageInit` (any starters, processes, statements, columns,
attempts, flows)
- `TypeCorrect`, `ReadyIsComplete`: the types, and that who has returned stands on
  a complete database;
- `InitDbImplementsBootstrap`: `StorageSpec => Promise!Spec`. Its invariant says
  what each starter knows at each statement: the statements before `at[s]` have
  been made, `seen[s]` is part of the columns (`ProgressInv`), the holder of the lock
  is at its commit or is a proxy (`LockInv`), and the administrator comes with the
  commit that completes the database (`AdminInv`);
- `InitDbRunsOut`: the safety half of `EveryStartEnds`. `Ahead(s)` counts the steps
  that are left of an attempt, by the statements, the missing columns
  (`MissingColumns`) and the stages; every step of `s` decreases it or uses up one
  of the attempts, and no step of another thread changes either. What is left to
  TLC is that a thread inside `init_db` can always take a step.

`StartupProofs`, of `LocalCA` and `Startup` (any processes and pairs)
- of `LocalCA` alone: `CATypeCorrect`, `FilesMatch`, `NoKeyIsLost`. The invariant
  `CAInv` says which files of which pair are there at each step of the one process
  that works while nothing is `spoiled`;
- `StartupImplementsStorage` and `StartupImplementsCA`: every step of `Startup` is
  a step of each component or leaves it alone, so that their invariants hold in
  the composition without being proved again; `StartupImplementsBootstrap` is one
  consequence;
- `StartupFilesMatch`, `StartupLosesNoKey`, and `ListeningIsReady`, which joins
  the two components;
- `FailureEndsConsole`: the safety half of `ConsoleFollowsProxy`. A failure of main
  lasts until its process ends (`FailureStays`), and that takes the web thread along;
  that the process does end is fairness.

`FlowDrawerProofs` (any flows, requests under way, versions)
- `TypeCorrect`, `RightFlowIsShown`, `DrawerHasOneFace`, `NoOlderThanTable`: the
  types and the invariants of run `drawer`, of which the last is the safety half
  of `DrawerCatchesUp`;
- `ClosedByUser`: its action property.

Its `IInv` adds that no row is newer than what is stored (`RowsInv`), so that the
answer to a request is never older than the row it was sent for, and that the last
request of an open drawer is for the selected flow (`CurrentInv`): this is what
makes it enough to compare the number of the request when an answer comes.
`DrawerAlone` carries every step that does not touch the drawer, `OpenInv` both
ways of opening it.

Only model-checked: the eight liveness properties (`Converges`, `RevokedIsClosed`,
`GoneIsUnsubscribed`, `CatchesUp`, `ExpiredLeaves`, `DrawerCatchesUp`,
`EveryStartEnds`, `ConsoleFollowsProxy`), since fairness is out of the prover's
reach. Every invariant, action property and refinement that a passing run checks
is proved.

Assumptions taken by name: the assumptions of each module's constants (`StoreAssumption`,
`LiveAssumption`, `DashboardAssumption`, `CaptureAssumption`, `AuthAssumption`,
`StorageAssumption`, `CAAssumption`, `StartupAssumption`, `DrawerAssumption`),
which TLC evaluates for every instance it checks.

## What is not modelled

- Pure text: findings rules, redaction, body decoding, formatting of rows, lines
  and reports. They have no state; `FlowStore` takes the findings of a record as a
  constant function.
- I/O around one call: replay, exporters, terminal layout, templates, installers.
- Time: periods are events that may happen at any moment; durations are "known"
  or "not known".
- Search, paging and statistics: read-only queries; `Dashboard` and `FlowDrawer`
  take what they need of them (rows of one revision for one form). The matching of
  scope patterns and the precedence of the configuration are pure functions too:
  `FlowCapture` takes the things in scope as a constant.
- The parts of `server.py` that render pages, and the HTTP form around a user
  operation: `WebAuth` has the operations themselves.

## Plan

What a next step could add, in this order:

1. `FlowQuery`: clamped limits and offsets, the page arithmetic of `app.js`
   against that of `search`; precedence of the configuration and
   `effective_tls_passthrough`; scope matching. Pure operators against reference
   definitions over small inputs.
2. `TrafficSystem` composed further: with `Dashboard`, whose `told` is what the
   handler of its socket has `seen`, so that a commit of any process reaches the
   table of every live page; and `FlowCapture` on `FlowStore`, hook by statement.
3. An abstract specification of the drawer (a viewer that shows one flow and only
   moves forward) and of the tab, implemented by `FlowDrawer` and `Dashboard`.
