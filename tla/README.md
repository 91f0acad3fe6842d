# A TLA+ development of the kraken web application

The repository is a Go server (the "Security Hub") with its browser engine.
Users write notebooks made of cells; a cell runs a query, written in piql, over
data sources (log files, S3 buckets, SFTP hosts, syslog, the systemd journal,
scripts, spreadsheets); notebooks are scheduled, searched, exported and
imported. All state is in one SQLite database, reached through a pool of
connections.

This directory holds TLA+ modules translated from that code, the TLC
configurations that check them, and TLAPS proofs about them. To check one,
`tlc -config SyslogBuffer_fair.cfg MCSyslogBuffer.tla`; to prove,
`tlapm WalkDir_proofs.tla`. `PROJECT.json` lists the components, the runs, the
mutants that show each property can fail, the map from definitions to source
lines, the hazards and the theorems. Paths below are relative to `src/`.

## Inventory

### Parts that are modelled

| Part | Source | State | Operations | What is hard | What makes it correct |
|---|---|---|---|---|---|
| connection pool | `internal/sqlite/pool.go`, `Rows` in `driver.go` | free list, condition variable, savepoints nested in contexts, the transaction of each SQLite connection | Savepoint, Exec, Release, Rollback, take, put, Rows.Err | interleavings, error paths after which a connection is lost or left in a transaction, nesting, exhaustion | one owner per connection; no lost wake-up; a success means a commit; a rollback undoes |
| syslog buffer | `cells/syslog/circ.go`, `comm.go`, `syslog.go` | linked list, generation, reference counts, free nodes | append, close, next, value | readers that read outside of the lock, broadcast after the unlock, close during an append | records in order, no missed wake-up, nothing after close |
| schedules | `hub/schedule.go`, `schedule_run.go` | stored schedules with results and lease, the runner's copies | add, stop, start, remove; list, lease, run, store the result | the runner stores copies read hours before; crashes; leases that expire with the ticker | results are neither lost nor written twice, a job is not listed again before its lease runs out, each occurrence once |
| notebook storage | `hub/notebook.go`, `store_notebook.go`, `search.go`, `schedule_run.go` (putCell), `storage/storage.go` | one record per notebook, its text, its search entry, results | StoreCell, StoreNotebook, StoreEditor, putCell | read-modify-write of the whole notebook under snapshots; writes refused by a busy database; retries | a stored cell touches no other; the index follows; success means stored |
| nbar import | `hub/nbar.go` | the map of import tasks with its mutex, one goroutine and channel per task | ImportNBar, HTTPReplace, notebookUpdates | mutex held across a send, a 120-second timer that races with the edit, connections of the pool | a task has a goroutine; what is sent is received; everybody ends |
| query engine | `internal/piql/impeller.go`, `ops.go`, `windowfuncs.go` | the window of records, the counts of each group, values captured from the records | step, slide, match, push | counts that have to be undone in the order of the window; records out of order; values that stay from one record to the next; partial rules | the answer is what the rule means, each record once |
| sftp walk | `cells/logstream/sftp.go` (WalkDir, lStat, scanDir) | work queue, count in flight, three unbuffered channels, errgroup | pop, pull, stat, scan, collect | termination by counting, closing channels that others send on, errors half-way | the answer is an error or exactly the matching files that the responses name; it comes |
| notifications | `hub/iam/notifications.go`, `rx-browser/webc/notification.ts` | the session's channel; the list, banner and timers of each page; the local storage that all pages share | send, take, flush; arrive, dismiss, remove, open, leave | one channel for all pages, senders that give up, pages that store their list over the others', old timers | newest first and each once; what was removed stays away |
| notebook page | `rx-browser/webc/notebook-body.ts`, `api.ts`, `datacell/cell.go` (watchForManifest) | the page's copy of the notebook, the programs' copies of their cells, requests under way | edit, save, read, remove a cell, send a manifest | saves and reads that overlap, whole copies written over each other, lost answers | at rest the page shows what is stored; what is gone stays gone |
| data cell | `rx-browser/webc/datacell.ts`, `rx/engine.go`, `datacell/*.go`, `utils/flags.ts` | the gate of events, the view and its generation, the life of the program, the engine and its two watchers | passEvent, updateGo, turn, post, crash, restart, move, remove | awaits between an event and its handler, unbuffered channels on one thread, restarts | a handler runs for an event of its own view; the gate opens again; the exchange ends |
| view drawing | `rx/etree.go`, `render.go`, `buildView` of `datacell.ts` | the page's elements, the engine's tree of entities | serialise, patch, reuse, find an element by its identifier | two programs rename the identifiers of kept parts, one in the engine and one in the page | both trees are the same |
| text editor | `rx-browser/components.js` (PlaybookEditor, debounce) | the text in each page, the answers on their way, the timers, the saves under way | read, load, edit, blur, fire, close | debounced saves that nobody waits for | what was typed is sent |
| search panel | `rx-browser/webc/search.ts` | the text and the filters in their boxes, the pending timeout, the searches under way, the session's copy | type, choose, fire, answer, fail, reopen | answers in any order, which change the filters | loading ends; what is shown was asked |

### Parts that are not modelled

| Part | Source | State and operations | Why not, or when |
|---|---|---|---|
| HTTP dispatch | `hub/dispatch.go`, `static.go`, `debug.go` | none of its own: a savepoint around each request (modelled where it matters), a panic that ends the process | no state |
| users, sessions, policies | `hub/iam`, `hub/store_iam.go` | users and sessions, a session cache that is never told of changes, check-then-insert of users | later |
| session LRU | `hub/iam/lru.go` | a list and a map | later: refinement of a bounded mapping |
| logins | `hub/login_*.go` | none; outside services | I/O |
| keyring | `hub/storage/keyring.go` | secrets in memory and in one encrypted row | later |
| tasks, loggers | `hub/tasks` | pooled tasks of requests | logging |
| log forwarding | `hub/devices`, `hub/forwarder` | one connection in a channel of capacity one | later |
| drivers, multi-source | `hub/driver`, `hub/multi.go`, `streamvtab.go` | iterators in sequence | later |
| the rest of the query engine | `internal/piql/parse.go`, `filter.go`, FirstThen | none: a parser and predicates of a value | pure functions |
| synchronisation | `hub/sync.go`, `nbar_io.go` | rows imported outside of a transaction | later |
| data sources, pivots, frameworks, hooks, admin, pages | `hub/*.go` | one row per form in the request's savepoint | only where pool or store are concerned |
| configuration, migration | `hub/conf.go`, `hub/store.go` | schema version and statements, not in one transaction | later |
| notebook text, messages, archives | `hub/prose`, `hub/msg`, `hub/nbar`, `internal/txtar` | none, conversions | later: round trip of the archive |
| files, S3, uploads, journal, AWS, Starlark, XLSX | `cells/*` | iterators over I/O; the journal has two goroutines and a 10-second limit | journal only |
| record parser, shards, durations, ULID, bech32, PCG | `internal/mdt`, `shards`, `iso8601`, `ulid`, `bech32`, `rand` | none, pure functions | later, as checked algorithms |
| metrics | `internal/metrics` | counters in a ring of minutes | later |
| SQLite driver, virtual tables | `internal/sqlite` | a binding of a C library that is not in the repository | external |
| content of a cell, forms, placing and styles | `rx-browser/datacell`, `rx-browser/webc` | what handlers draw; forms that send one request | data, or the server's modules |
| editor sources | `rx-browser/webc/editor/*.ts` | empty files: the editor is only in the bundle `components.js` | read there |
| ProseMirror and other vendored code | `rx-browser/components.js`, `wasm_exec.mjs` | libraries | third-party |
| tools, network checks, small libraries | `cmd`, `net`, `internal/*` | none | no |

The server is written in Go and the browser's engine too, so most of the lines that
the map names are Go. Of the JavaScript and TypeScript, by far the largest file is the
bundle `rx-browser/components.js` (20 000 lines, nearly all of it ProseMirror): the
share of the script lines that is mapped is small for that reason.

### How the parts interact

`App.ServeHTTP` (`hub/dispatch.go:105-143`) opens a savepoint on a pooled
connection for every request, so a request holds a connection from its start to
its answer; handlers nest savepoints in it, and goroutines they start (imports,
scheduled jobs) take connections of their own. Virtual tables query the database
from inside a query, with a fresh context and thus a second connection. The
scheduler runs cells with the same storage functions as the handlers. Sources
(sftp, syslog) are iterators pulled by the query engine; syslog's writer lives
as long as the process. In the browser, a notebook page holds the notebook and
one program per cell; the program sends its copy of the cell to the server, which
stores it and answers with records, and tells the page, which saves the notebook as
a whole.

The modules share views of the same things: `SqlitePool` models the pool, while
`NotebookStore` and `NBarImport` take from it what they need (a set, or a number,
of free connections) and add what is theirs; `NotebookPage` composes the pages with
the programs of their cells and the store, whose requests it serves at once
(`NotebookStore` has their transactions, `DataCell` the inside of a program,
`ViewPatch` how it draws). `Notifications` and `EditorSync` hold both sides, the
server and the pages. There is no module for the composition of all of them: each
pair meets in one of these modules at the interface that the code has.

## The modules

**SqlitePool** (`MCSqlitePool`, `SqlitePool_proofs`). A *task* is a goroutine that
calls the pool. `free`/`wait`/`want` are the free list, the condition variable's
sleepers and the calls in progress; `conn`/`sps`/`released` are what the task's
context carries (`savepoint` in pool.go:29-34); `rows`/`inner` the connections that
open Rows and a virtual table hold. SQLite (external) is a stack of savepoints
per connection (`txn`), one write lock and the set of committed writes. A write is
named after the savepoint (or call) under which it was made. Error paths are
actions: SAVEPOINT, RELEASE or ROLLBACK TO fails, rows are forgotten, a handler leaves
before its deferred Rollback (`Abandon`). When ROLLBACK TO fails (`RollbackFails`),
Rollback goes on as if it had not: the savepoint leaves the context, an outermost
connection goes back to the pool, and the writes stay in the transaction, where an
outer or a later Release may commit them. Only what a ROLLBACK TO has undone is
*rolled back*, and `RollbackIsFinal` is about that. `MCSqlitePool` has two settings: two
tasks with every error path, and three without errors, whose liveness is checked.

**SyslogBuffer** (`MCSyslogBuffer`, `SyslogBuffer_proofs`). append is three steps
(the copy before the lock, the critical section, the broadcast after it), close
is two, next and value are one each; the list, the generations and the reference
counts are those of the code, including that `cnt` is never incremented: the
comment at circ.go:9-10 promises a window of `max` records, and the list grows
for ever instead. `WindowIsLimited` states the comment, and is violated; `InOrder`
asks a reader for consecutive records, wherever it starts; that they are all the records,
from the first one on, is what the code does in the place of the window, and part of the
proof.

**Schedule** (`MCHub`, `Hub_proofs`). Time is a small clock. `List` is listNextJobs with
NextRun translated as it is; the runner then leases, runs and stores *its copy*
with blind writes, while the handlers read and write the stored schedule. `Crash`
ends the process at any step and `Restart` starts the runner; leases and results
survive. The content of a run is reduced to its outcome. A handler that does not find its
schedule reports it and goes on, for want of a return (schedule.go:151, 180): it stores an
empty schedule under the zero key (`SetStatusStray`, `Zero`). A lease is not renewed while
its job waits or runs, so that `LeasedWhileRunning` promises no more than the lease: that
the job is not listed until it has run out.

**NotebookStore** (`MCHub`, `Hub_proofs`). An operation is the sequence of reads and
writes that its function makes (`Program`). SQLite in WAL mode is external:
snapshots, one writer, a write from an old snapshot refused. What each function
does with a refusal is the point: StoreNotebook and StoreEditor drop the error,
putCell retries on a connection whose savepoint is still open. RELEASE fails in three
ways, by the savepoint that it ends: one nested in the request's is reported while
ServeHTTP commits all the same (`ReleaseCut`, recorded in `cut`); the outermost one, or a
nested one whose ROLLBACK TO fails as well, leaves the transaction open (`ReleaseFails`);
one nested in that of _storeCell is rolled back, and the lock kept (`ReleaseUnwound`). A
notebook is reduced to who wrote each of its parts.

**NBarImport** (`MCTransfers`, `NBarImport_proofs`). An upload registers a task
and starts its goroutine; an edit takes the mutex, looks up, sends and unlocks;
the goroutine receives or expires, stores and forgets. Requests hold connections.
The error path of HTTPReplace keeps the mutex, as in the code. What its constants have
to satisfy is the operator `ConstantsOK`, which `MCTransfers` assumes.

**WalkDir**, **WalkResult** (`MCWalkDir`, `MCTransfers`, `WalkDir_proofs`). WalkDir has the
coordinator, the caller with the errgroup's limit, one goroutine per path and the
collector; a send on an unbuffered channel and its receive are one step. scanDir
returns at the server's first response (sftp.go:650, although its comment says
"all files in dir"): `Entries` is what a directory holds, and `Listed` that response.
`FoundAll` states the comment, that a successful walk has every matching file below the
root, and is violated where a directory comes in two responses. WalkResult is the
abstract specification of what the code does: one answer, which is an error or exactly
the files that the responses name; WalkDir implements it with `found` mapped to the
results of a successful answer. For servers whose first response is the whole directory
the two are the same (theorem `WholeDirectoriesSuffice`).

**Impeller** (`MCHub`, `Hub_proofs`). One rule over the records of a source. A record is
what the rule looks at: how much later it is than the latest before, the values of the
filtered field (hits or not), the value of the group. `Slid` is slidewindow: the records
that leave are walked again in their order, which takes the counts back (`Undone`).
`Step` is what a record that passes the filters does, `Pass` the rest, `Push` the lossy
output. `Defined` says what a rule means, without a window that slides: the run compares
it with what was pushed.

**NotebookPage** (`MCNotebookPage`, `NotebookPage_proofs`). Pages that show one
notebook, the programs of their cells, and the stored notebook. Every edit has a number,
a field holds the number of its last edit, and a request is served in one step at any
time and answered at any later time, or never. A page may make several new cells before
the first is saved (`Drafts`), and the notebook may have no cell at first. `behind`
excuses pages that cannot know what is stored.

**DataCell** (`DataCell_proofs`). One cell, page and program. The events of the user
pass a gate (`mxevent`) over two awaits; the program starts, crashes and starts again;
inside it the engine and two watchers exchange over unbuffered channels, and run until
all of them wait, because page and program share a thread. Goroutines that handlers start
wait on the same channels: those that store or create a pivot, and those of pivots that
are drawn before they were read, each of which asks again at the next drawing. An event
remembers the view it was raised on (`saw`) and the one that passEvent took it on (`on`):
they are the same, except that with the visual debugger a click or a drop waits for its
location in between. A pivot dropped on the root leaves the watcher waiting for ever.

**ViewPatch** (`MCBrowser`, `Browser_proofs`). A view is a tree of nodes in preorder. A
turn serialises the new view into a program of the XAS machine, and the machine makes
the page from it and from parts of the old one; the engine keeps its own tree (`g1`,
`sparse`). A view may reuse what is on the page, or what is not (`Stale`: identifiers a
program remembers), and turns whose identifiers pass `MaxEntity` are left out: the code
ends the program with a panic when one passes 1023.

**EditorSync** (`MCBrowser`, `Browser_proofs`). A text is the set of its edits.
The debounced save is the code's, with its door that opens one tick after its timer;
saves are served in any order, cut short, or refused. Loading is a request (`Read`, served
with the text stored then) and its answer (`Load`), and a page is behind from then on only
for what is stored in between or later: a page that has just loaded is compared with the
store. One whose editor gets no answer keeps its dummy view (`dummy`): the comment calls
it not editable, but ProseMirror asks again at the first drawing and takes what is typed;
it is never saved.

**SearchBox** (`MCBrowser`, `Browser_proofs`). The text, the boxes of the filters, the
timeout, the searches under way, and the session storage from which the panel is shown
again: it keeps the answer and the text, not the filters. Each answer may change the
boxes (`ApplyFacets`), also while a newer search waits for its timeout, which then sends
what it finds in them.

**Notifications** (`MCBrowser`, `Browser_proofs`). The channel of a session, the streams
that take from it, and the lists of the pages, which share one entry of the local
storage.

`MCHub`, `MCTransfers` and `MCBrowser` check several modules in one state space: a
behaviour belongs to one part and the others rest, so that the states are those of the
parts side by side; fairness is stated for each part in its own behaviours. `MCSqlitePool`
does the same with two settings of one module.

## The runs

| Run | Bounds | What it shows |
|---|---|---|
| pool | rough: 2 connections, 2 tasks (one re-entrant), 3 names, nesting 2, one lost connection, all error paths; calm: 3 tasks, one name each, no error path (393,000 states) | ownership, wake-ups, which writes are committed, undone, or caught in a *tainted* connection (one whose outermost savepoint was rolled back: it stays in its transaction for good); in the calm setting, whoever waits is served |
| pool_testpool (violation) | 2 tasks, 2 connections | after one rollback of an outermost savepoint, a later success is not committed, against TestPool's expectation |
| syslog_buffer | 2 readers, 4 records, Max 2 (177,000 states) | order, no missed wake-up, close is final, records are delivered and close ends the readers |
| syslog_window (violation) | as syslog_buffer | the third record of a window of two drops nothing, against the comment of buffer |
| hub | schedules: 2 jobs, 2 close occurrences, clock to 5, one crash, every failure, handlers that find nothing; occurrences at least `HalfDay` and an `Hour` apart, a healthy runner, clock to 20. Storage: 3 operations of any kind, 2 connections, 2 cells, one retry, any failing RELEASE. Query engine: 8 rules, 4 records of 11 kinds, a window of 2 ticks that hops by 2 (1,768,000 states) | no result lost or invented, leases last as long as they say, a handler's status lost only in a race, distant occurrences once and on time; an operation touches only its own part, the index follows, success and failure mean what they should (up to refused writes and failures that came after the writes); what a rule has answered is what it means, and each record once |
| engine_partial (violation) | as hub | a limit without a window ends the process, against the package's documentation |
| transfers | walk: 9 paths, 4 directories, one of which comes in two responses, 2 goroutines, failing requests; import: 2 imports, 3 edits (late, repeated or unknown), 2 connections (20,900 states) | the count is exact, the walk implements WalkResult and answers; accepted edits are received; everybody ends if no edit is unknown or repeated |
| walk_responses (violation) | the walk of transfers | a successful walk lacks the files of a second response, against the comment of scanDir |
| datacell | 2 events of any kind, 2 runs of the program, a pivot refused once, 2 waiting requests for it (573,000 states) | an event is handled on the view it was raised on, a removed cell is quiet, the gate opens again, a crashed program comes back, what the program was given ends |
| datacell_continuation (violation) | as datacell, one run of the program | a click whose handler changes the manifest during a request never gets its continuation, against the engine's comment |
| notebook_page | 2 pages, 2 cells, 2 new ones, 2 edits or lost answers (2,963,000 states) | at rest a page shows what is stored or is known to be behind; what nobody holds does not come back |
| browser | editor: 2 pages, 3 edits or blurs, a debounce of 2 ticks; search: 2 texts, 1 filter, 5 keystrokes or choices; drawing: 3 turns, views of 3 nodes, identifiers to 23 of which 2 may be remembered; notifications: 2 pages, a channel of 1, 2 sent, 4 clicks (1,858,000 states) | what is typed has a timer and page and store agree at rest; loading has a cause and the answer shown is the one asked; engine and page have the same identifiers and every proper program is drawn to its end; newest first, and removed notifications stay away |

Why the bounds are enough: two connections and three waiting tasks are the least with a
waiter that can be overtaken; two nested savepoints, the least with an inner and an outer
one, and one more name lets a later user find what an earlier one left. Four records
overrun a window of two twice. Two schedules exercise the runner's interleaving over its
jobs, and the clock goes past the lease of the first. Three operations are the least in
which a third one finds what two that collided left behind. Three edits of one notebook
fill its channel, its goroutine and the mutex. The tree has every kind of entry, more
paths than places, and a directory whose listing comes in two responses. Four records are
the least in which a window is filled, slides, gives counts back and is filled again. Two
events of a cell are one in the gate and one behind it, and two runs of its program a
crash and the run after it; with one refusal a pivot is asked for again by the drawing
that shows it is missing, and two requests may wait for one watcher. Two edits and a third
request of two pages are one that is overtaken and one that overtakes, or two new cells of
one page. Three turns reuse an identifier of the turn before the last (identifiers
alternate between two ranges), and three nodes never need one above 23. Two notifications
and a channel of one make a sender wait. Runs with symmetry check no liveness; for the
storage one initial state per class of interchangeable tasks and cells is kept instead.

`CHECK_DEADLOCK FALSE` is set where the system may stop: a pool whose connections
were lost, a closed buffer, a walk that is over, imports behind an edit that kept the
mutex, a program that is over, and the browser after the bound on its events. In `hub`
deadlock is checked for the storage, whose operations have to end; the other parts may
rest.

The type invariants are theorems (`PoolTypes`, `BufferTypes`, `ScheduleTypes`,
`NotebookTypes`, `NBarTypes`, `WalkTypes`, `CellTypes`, `PageTypes`) where the state is
proved about; the runs spend their properties on the hazards.

## Disagreements met while modelling

The five violation runs are findings. Others are kept as notes of the hazards in
`PROJECT.json`, because the properties excuse them:

- A ROLLBACK TO that fails undoes nothing, and the deferred Rollback drops its error: the
  outer Release commits what was to be rolled back, although Rollback "rolls back all
  changes" (pool.go:134). A handler that leaves before the deferred call has the same effect.
- A handler in ServeHTTP's savepoint that reports an error has its writes committed all the
  same, when the error comes after the writes (hub/dispatch.go:143).
- The lease of a schedule is not renewed while its job waits or runs (schedule_run.go:73, 88).
  That it is not run twice at a time is due to the one runner that waits for its jobs.
- A stop, start or removal of a schedule that is not found stores an empty schedule under
  the zero key (schedule.go:151, 180 have no return).
- NextRun does not prefer "a run in the next hour" (schedule.go:220), and an occurrence
  that was missed is not chosen (schedule.go:221).
- putCell and StoreEditor retry a busy transaction inside of it (driver.go:155 asks for
  the entire transaction): putCell's retry reports success with nothing stored, StoreEditor
  is refused again with the snapshot that was refused.
- An edit of an unknown import task keeps the mutex: no task is deleted any more
  (nbar.go:310).
- A page that saves its older copy undoes what the programs of its cells have stored,
  though "cells will be save separately" (notebook-body.ts:331).
- With the visual debugger, a click or a drop may be handled on a later view than the one it
  was raised on: it waits for its location before passEvent takes the generation, against
  "this guaranties that the tree structure in the view is the same" (datacell.ts:45).
- A pivot dropped on the root is sent with a channel that nobody receives from, and the
  watcher waits for ever (pivots.go:485). A pivot that was refused is asked for again at
  every drawing (pivots.go:176).
- The filters of a search are not kept with its text for the next time the panel is opened
  (search.ts:63-68, 149), and an answer changes the boxes of a search that has still to be
  sent (search.ts:161-201).
- The dummy view of an editor that got no answer is editable, against "we keep the initial
  dummy view, that is not editable" (components.js, readDistant and getEditable): what is
  typed there is lost.
- The timer of a notification that is no longer shown closes the banner of a newer one
  (notification.ts:68), and removing the shown one leaves an empty banner.
- In the query engine, a record that is not later than the latest counts as the last of
  the window (impeller.go:252): a record that was filtered out may be returned, and counts
  are not taken back, against "allow for out-of-order records" (line 223). With two limits,
  the second is counted only when the first is reached, but counted back always
  (ops.go:71-86). A filter that excludes a value flips with each value of a repeated field
  (impeller.go:148). A record without the group's field is counted in the group of the one
  before (ops.go:13).

## Fairness

- *SqlitePool*, in the calm setting (`MCFairness`): Go runs runnable goroutines (weak
  fairness of `Proceed`), and a handler does not loop for ever before it returns its
  connection (strong fairness of `Return`: reads and writes may be repeated). A waiter may
  be overtaken by callers that never slept, so `ServedWhenCalm` relies on the bounded
  number of calls; the code does not promise more.
- *SyslogBuffer*: every goroutine that is not asleep runs. No record has to
  arrive, and close need not be called.
- *Schedule*, *NotebookStore*, *Impeller*, *NotebookPage* and the parts of the browser:
  only safety is checked. Whether a scheduled run ends depends on its query, whether a
  query ends on its source, and answers may be lost.
- *DataCell*: weak fairness of the program's goroutines, of loopCell, of the server, and
  of the page's tasks: the page's event loop runs its tasks in turn, Go runs what can
  run, and a request is answered or fails. The user need not do anything.
- *NBarImport* (in `MCTransfers`): strong fairness of the steps that wait for the mutex or a
  connection: Go's mutex hands over to a waiter that starves, and the requests are
  finitely many. The timer fires for a goroutine that still waits.
- *WalkDir* (in `MCTransfers`): the goroutines run, and the server answers each request or the
  connection fails it.

## The proofs

The eight proof modules hold for every value of the constants that satisfies the named
assumptions. Most of these say that a null value is not one of the identities
(`NoneAssumption`, `NilAssumption`, `ConnsAssumption`, `CellsAssumption`,
`IntentsAssumption`, `SnapshotsAssumption`, `QueriesAssumption`), that sets of identities
are finite where the model counts them, or that numbers are natural (`BoundsAssumption`,
`RetryAssumption`, ...); `ImportAssumption` says all three of the import, and
`ZeroAssumption` that the zero key is a key. Seven say more: `DrawingAssumption` (the
identifiers a program remembers are among those the engine can keep),
`CalendarsAssumption` (a calendar is a sequence of times), `KindsAssumption` (an operation
is one of the four), `RulesAssumption` (a rule has its four parts), `RecordsAssumption` (a
record comes no earlier than the latest, or has no time: one that is older counts as 0
later; and each value of its field is a hit or not), `TreeAssumption` (the server's
directories are a tree) and `FarAssumption` (the occurrences of one run, and of one
theorem, are far apart and come after the schedule was added).

All safety properties of the passing runs are theorems, and so are
the types where the state is proved about. For each module, what makes the properties
inductive:

**SqlitePool_proofs**: `PoolTypes`, `OneOwner`, `SignalSuffices`, `RolledBackForGood`,
`SuccessIsCommitted`. `ExclusiveConns` is not inductive: whether Release gives back
the caller's own connection depends on the shape of the context. The invariant adds
`PoolShape` (a connection in the context exactly while there are savepoints,
`released` only then, nothing held while in take). One step per action, grouped into
those that only take, only put, or neither. `SignalSuffices` adds that a sleeper is
in a call and sleeps once. The two theorems on the database need the shape of
SQLite's stacks: they are nested in the order of their names on the connection and
in the context; a savepoint that its task has not left is open on its connection,
with what was written since at or above it, and what is acknowledged and waits there
is older; the transaction of a connection that is not tainted belongs to the task
that opened it; and what was acknowledged is committed or on a tainted connection. A failing
ROLLBACK TO changes the context and the free list and leaves the stack as it is: its
connection becomes tainted when the savepoint was the outermost, and otherwise the writes
stay where an older savepoint holds them. What was undone is on no stack any more, and no
failure puts it back.

**SyslogBuffer_proofs**: `BufferTypes`, `ReadersInOrder`, `SleepersAreWoken`. The
invariant says that the list is numbered without gaps from `first` to `last`, that a
node's record is its generation, that the node append holds is not linked yet, and where
each cursor stands with respect to what it has read. It needs that no node is ever
recycled, which is so because `cnt` stays below `Max`, and it has more than the property
(`FromTheFirst`: a reader has every record, from the first one on). A sleeper with
something to read has a broadcast still to come: the one between the unlock and its
broadcast.

**Hub_proofs**, schedules: `ScheduleTypes`, `NoResultTooMany`, `LeaseStays`,
`StatusLostOnlyInRace`, `NoResultLost`. Both writes of the runner are blind; what makes
them harmless is that the runner alone adds results and holds a job at most once,
so that its copy has the results and occurrences that are stored, and one result is
missing because the job was listed.

**Hub_proofs**, schedules that are far apart: `FarApartIsOnTime`. The next occurrence
is never more than an hour late, and those after it are out of NextRun's reach, so
that the result is counted for the occurrence that was run. Twelve hours between two
occurrences (the half day that NextRun looks ahead) are not enough: the proof
fails for an occurrence that comes before the first tick, which runs up to an hour
late. Hence the additional hour.

**Hub_proofs**, storage: `NotebookTypes`, `SearchIsFresh`, `SuccessIsStored`,
`FailureIsNotStored`, `NoLostUpdate`. What an operation has still to do is the end of
its program; the snapshot of the connection that holds the write lock is the
database, so that what it writes back was read from what it overwrites; the index of
an image is fresh or is still to be written. Whose mark anybody can see has committed
(`Done`: it has succeeded, or failed in a way that ServeHTTP commits), or still holds the
lock on its connection (`Holds`), or the lock is held by a connection that was left open
(`Stuck`), which nobody ever releases, so that nothing is committed any more.

**Hub_proofs**, query engine: `OnlyReturnOnce`. What is given to the reader is numbered
in the order of the source; no record is in the window twice, and what is in the window
and was given is marked. An answer has distinct places of the window that are not marked,
and marks them. Nothing is needed about the groups, so that their counts may be wrong
(see the disagreements above). Picking elements of a sequence is a recursive function,
whose existence and facts are proved by its least counterexample.

**Hub_proofs**, query engine: `AnswersMeanTheRule`. The invariant of a tidy source says
that the window has the records that the rule is about from its start on, each with its
group; that the count of a group is their number; and that what is marked was given. A
record that slides the window has what leaves undone one by one: the walk (`UndoneFacts`)
takes each of them out of the count of its own group, which is where a tidy source is
needed, since the captured value is then that of the record walked over. The count
reaches the limit exactly when the window of the new record is full; and what is marked
and what is then returned are together what the window holds of the group, which is what
the record adds to `Defined` (`MeantMore`). The windows start at multiples of Hop that
never go back (`FloorFacts`).

**NBarImport_proofs**: `NBarTypes`, `NothingSentIsLost`, for the import as a part of
`MCTransfers`. A task is deleted only
while nobody holds the mutex, and an edit holds it from the lookup to the unlock;
the invariant ties the phases of uploads, edits and goroutines together.

**WalkDir_proofs**: `WalkTypes`, `WalkFindsAll`, `WalkKeepsPromise`. The invariant
says where each path is (waiting, given, running, done), that every known path
but the root was sent by its done parent, that what is sent is all that follows
unless the request failed, and that the count equals the active paths. At the end
nothing is active, so the known paths are closed under expansion and contain the
reachable ones. Reachability is the intersection of the closed sets, so that no
recursion is needed. `WalkKeepsPromise` is the refinement. `WholeDirectoriesSuffice` has
a hypothesis, that the first response names the whole of each directory (`Listed =
Entries`): then the comment of scanDir is true, and a successful walk has everything.

**NotebookPage_proofs**: `PageTypes`, `QuietPageAgrees`, `RemovedStaysRemoved`. A page
that is not known to be behind either will read the notebook or has nothing to read:
then what it shows is what is stored, up to the requests of its own that are under
way. That a removed cell stays away follows from the types, step by step.

**DataCell_proofs**: `CellTypes`, `EventsMeetTheirView`, `RemovedStaysQuiet`. An event
carries the generation that was current when it passed the gate; as long as that is
this.gen, the view is the one it was raised on. After a crash the page's generation
and the program's differ for good; an event is then alone with an engine that waits,
and is compared with this.gen before it is sent. What an event has seen (`Sees`) is the
view of passEvent and, unless the visual debugger is on, the view it was raised on: only
with the debugger is an event located before it passes (`LocatedInv`). The goroutines of
pivots queue behind what the engine sends and never before it (`Behind`), so that they
disturb none of this.

**Browser_proofs**, editor: `EditsWillBeSent`, `ShownIsStored`. A door that was closed
less than the time-out ago has a timer, and what was typed and not sent has one or
came in the tick in which the last one fired: the first is what keeps the second when
a call finds the door closed. A page that is not behind has what is stored, or a save
under way that holds all it has sent; before it shows its text, its answer under way
(`got`) has what is stored. The last is what makes `Agrees` a statement about loading.

**Browser_proofs**, search: `LoadingEnds`, `ShownWasAsked`. A panel that says it is
loading has something in its box, so that its timeout asks for it; the requests are
numbered, and the answer shown, and the one in the session, are to the newest request
or to an older one while a newer is under way. This needs that the names of the
initial request are not queries. For the filters, a timeout that waits will send the ones
that were in the boxes when it was started, or an answer has changed them since
(`SendsWanted`).

**Browser_proofs**, notifications: `NewestFirst`, `RemovedNotificationStaysAway`. The
numbers of the notifications ascend through the channel and its waiting senders; what a
stream holds is newer than the list of its page and known to nobody else; what is known
to somebody, or was removed, has left the channel for good. Filtering a list is a
recursive function, too.

**Browser_proofs**, drawing: `PageIsInSync`, `ProperIsDrawn`. Both halves of a turn are
recursive functions: Serialize visits the view and writes a program, Run executes it.
Neither result says anything by itself; the proof goes through the view once and carries
both along (`Sim`): what is written so far, when run, has drawn a forest whose elements
with an identifier are the entities noted so far (`Places`), the open elements are the
last node of each depth and have no scope yet, the others' scopes are exactly what is
below them (`Drawn`), the identifiers given are of this turn and no two the same (`Ids`),
and what is left of the old page is what the nodes so far have not taken, in its order and
with the elements around each (`Remains`). Three steps keep it: closing elements
(`CloseSim`), a created node, and a reused one. The last is the hard one: the page finds
the part by an identifier and renames node after node, searching what is built each time;
that it renames the right ones needs that old and new identifiers differ, which is what
the parity of the turns gives (`TurnsDiffer`), and that the engine's copy of a subtree is
the page's, which is what `Matched` says of the last turn. `Matched` is the invariant
between turns; `MatchedSync` derives `InSync` from it by counting, and `ProperIsDrawn`
follows because only a part that is not there makes the machine throw.

Only model-checked is liveness, with the fairness above: `AllEnd`, `WalkAnswers`,
`CloseEndsReaders`, `ComesBack`, `Delivered`, `GateReopens`, `IntentsEnd`,
`ServedWhenCalm`. Neither fairness nor ENABLED can be reasoned about with these provers.

## What the models leave out

- The content of records, queries, cells and pages; formatting and logging.
- Inside SQLite: the journal, checkpoints, and the rollback of a whole transaction that an
  interrupted statement may cause (driver.go:471), of which the pool is not told.
- In NotebookStore, failures of SAVEPOINT, which come before anything is written, and reads
  that fail for other reasons than a missing cell.
- The rows of a cell, and what several selected rows do when they are dragged together
  (cell.go:134); waiting requests for a pivot beyond `MaxWaiting`, and refusals of one beyond
  `MaxRefused`, in a run of the program.
- Data races of Go's memory model: shared variables that the code protects by a
  mutex are read and written in one step.
- BackupDB's own take and put, which follow the same protocol as Exec.
- In the query engine: rules with several filters (a conjunction), several fields of a
  group, FirstThen, several rules in one evaluator (startQuery compiles one), and times
  before 1970. In the cells: what the handlers draw.
- In WalkDir, the handles that the server keeps open, and the leak of the collector
  after an error (it is a state of the model, and no property forbids it).

## Plan

Done: SqlitePool, SyslogBuffer, Schedule, NotebookStore, NBarImport, WalkDir with
WalkResult, DataCell, NotebookPage, EditorSync, SearchBox, ViewPatch, Notifications,
Impeller.

Left, in this order:

1. *LRU*: the list and the map refine a bounded mapping from keys to values in the
   order of their use; type and agreement proved.
2. *ForwardLog*: the one connection is always put back (it is not, after a failed write).
3. *Migration*, *Keyring*, *SyncImport*: crash and failure between two stores.
4. Pure algorithms against reference definitions: ISO 8601 repetitions, the
   monotonic ULID, shard patterns, bech32, the archive format.
