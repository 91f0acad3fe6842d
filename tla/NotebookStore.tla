---------------------------- MODULE NotebookStore ---------------------------
(***************************************************************************)
(* How requests and scheduled jobs store notebooks (hub/notebook.go,       *)
(* store_notebook.go, schedule_run.go): each operation is a list of reads  *)
(* and writes in a savepoint on a connection of the pool. The notebook is  *)
(* one record, rewritten whole by every operation; its text is a record of *)
(* its own; the search index has a row computed from both.                 *)
(*                                                                         *)
(* The database is SQLite in WAL mode (external): a transaction reads from *)
(* the snapshot of its first read, there is one writer at a time, a write  *)
(* from an old snapshot is refused, and so is one from a snapshot while    *)
(* somebody else writes; without a snapshot it waits, at most 10 seconds.  *)
(***************************************************************************)
EXTENDS Naturals, Sequences, FiniteSets

CONSTANTS
  Tasks,    \* requests or jobs; each runs one operation
  Conns,    \* the connections of the pool
  Cells,    \* the cells of the notebook
  None,     \* no connection, no snapshot
  Gone,     \* a cell that is not in the notebook
  First,    \* who wrote what the database holds at first
  Kinds,    \* the operations that the tasks may run
  MaxRetry  \* retries of putCell after a busy transaction (5 in the code)

VARIABLES
  db,      \* the committed database
  ver,     \* counts the commits
  wlock,   \* the connection that writes, None if there is none
  snap,    \* per connection: the snapshot it reads, with its own writes
  open,    \* per connection: a savepoint was left open by an earlier user
  free,    \* the connections in the pool
  kind,    \* what each task does
  cell,    \* on which cell
  todo,    \* the steps it still has to make
  conn,    \* its connection
  view,    \* the notebook it has read
  retries, \* how often it has retried
  reply,   \* "none", "ok" or "error"
  busy,    \* history: the tasks one of whose writes was refused
  onOpen,  \* history: the tasks that ran on a connection left open
  stored,  \* history: the tasks all of whose writes were committed
  cut      \* history: the tasks whose failure came after their writes, and was
           \* reported, while ServeHTTP committed what they had written

sqliteVars == <<db, ver, wlock, snap>>
histVars   == <<busy, onOpen, stored, cut>>
taskVars   == <<todo, conn, view, retries, reply>>
vars       == <<sqliteVars, open, free, kind, cell, taskVars, histVars>>

Writers == Tasks \cup {First}

\* The database: who last saved the notebook as a whole and each of its
\* cells, who wrote its text, what the search index was computed from, and
\* the results that were put.
Databases ==
  [saved : Writers, cells : [Cells -> Writers \cup {Gone}], text : Writers,
   index : Writers \X Writers, results : SUBSET Tasks]

Steps ==
  {"view", "begin", "read", "text", "notebook", "look", "index", "result", "release"}

\* Mutant of Program: the search entry is saved before the notebook.
ProgramSearchFirst(k) ==
  CASE k = "cell"   -> <<"view", "begin", "read", "look", "index", "notebook", "release">>
    [] k = "save"   -> <<"view", "begin", "look", "index", "notebook", "release">>
    [] k = "editor" -> <<"begin", "read", "text", "look", "index", "notebook", "release">>
    [] k = "result" -> <<"begin", "result", "release">>

\* The steps of each operation. SaveSearch looks at the notebook and its text
\* before it writes the index; StoreEditor runs it twice.
Program(k) ==
  CASE k = "cell"   -> <<"view", "begin", "read", "notebook", "look", "index", "release">>
    [] k = "save"   -> <<"view", "begin", "notebook", "look", "index", "release">>
    [] k = "editor" -> <<"begin", "read", "text", "notebook", "look", "index",
                         "look", "index", "release">>
    [] k = "result" -> <<"begin", "result", "release">>

-----------------------------------------------------------------------------
(* SQLite (external)                                                       *)

Visible(c) == IF snap[c] = None THEN db ELSE snap[c].image

\* A read in a transaction takes the snapshot.
ReadOn(c) ==
  snap' = IF snap[c] = None THEN [snap EXCEPT ![c] = [image |-> db, at |-> ver]]
          ELSE snap

Stale(c) == wlock # c /\ snap[c] # None /\ snap[c].at # ver

CanWrite(c) == wlock \in {None, c} /\ ~Stale(c)

\* BUSY at once from a snapshot, after the time-out without one.
Refused(c) == wlock \notin {None, c} \/ Stale(c)

WriteOn(c, image) ==
  /\ CanWrite(c)
  /\ snap' = [snap EXCEPT ![c] = [image |-> image, at |-> ver]]
  /\ wlock' = c
  /\ UNCHANGED <<db, ver>>

\* RELEASE of the outermost savepoint of connection c.
CommitOn(c) ==
  /\ IF wlock = c
     THEN db' = Visible(c) /\ ver' = ver + 1 /\ wlock' = None
     ELSE UNCHANGED <<db, ver, wlock>>
  /\ snap' = [snap EXCEPT ![c] = None]

-----------------------------------------------------------------------------
(* The steps                                                               *)

At(t, step) == reply[t] = "none" /\ Head(todo[t]) = step

Advance(t) == todo' = [todo EXCEPT ![t] = Tail(@)]

Answer(t, a) == reply' = [reply EXCEPT ![t] = a]

\* The connection goes back to the pool.
PutBack(t) ==
  /\ free' = free \cup {conn[t]}
  /\ conn' = [conn EXCEPT ![t] = None]

\* What only Release and the choice of the operation set.
Keeps(t) == UNCHANGED <<kind, cell, stored, cut>>

\* FindCell of ServeCellData, or the notebook that the client read before it
\* saves: a statement of its own, on any connection.
View(t) ==
  /\ At(t, "view")
  /\ \E c \in free :
       /\ view' = [view EXCEPT ![t] = Visible(c).cells]
       /\ IF open[c] THEN ReadOn(c) ELSE UNCHANGED snap
       /\ IF kind[t] = "cell" /\ Visible(c).cells[cell[t]] = Gone
          THEN Answer(t, "error") /\ UNCHANGED todo
          ELSE Advance(t) /\ UNCHANGED reply
       /\ onOpen' = IF open[c] THEN onOpen \cup {t} ELSE onOpen
  /\ UNCHANGED <<db, ver, wlock, open, free, conn, retries, busy>> /\ Keeps(t)

\* Connections.Savepoint with a fresh context.
Begin(t) ==
  /\ At(t, "begin")
  /\ \E c \in free :
       /\ conn' = [conn EXCEPT ![t] = c] /\ free' = free \ {c}
       /\ onOpen' = IF open[c] THEN onOpen \cup {t} ELSE onOpen
  /\ Advance(t)
  /\ UNCHANGED <<sqliteVars, open, view, retries, reply, busy>> /\ Keeps(t)

\* Mutant of Read: what was read outside of the transaction is used.
ReadBefore(t) ==
  /\ At(t, "read")
  /\ ReadOn(conn[t])
  /\ Advance(t)
  /\ UNCHANGED <<db, ver, wlock, open, free, conn, view, retries, reply,
                 busy, onOpen>>
  /\ Keeps(t)

\* FindOne of _storeCell and _storeEditor.
Read(t) ==
  /\ At(t, "read")
  /\ kind[t] = "cell" => Visible(conn[t]).cells[cell[t]] # Gone
  /\ ReadOn(conn[t])
  /\ view' = [view EXCEPT ![t] = Visible(conn[t]).cells]
  /\ Advance(t)
  /\ UNCHANGED <<db, ver, wlock, open, free, conn, retries, reply,
                 busy, onOpen>>
  /\ Keeps(t)

\* The reads of SaveSearch.
Look(t) ==
  /\ At(t, "look")
  /\ ReadOn(conn[t])
  /\ Advance(t)
  /\ UNCHANGED <<db, ver, wlock, open, free, conn, view, retries, reply,
                 busy, onOpen>>
  /\ Keeps(t)

\* The connection goes back with a transaction that nobody will end.
LeavesOpen(t) ==
  /\ open' = [open EXCEPT ![conn[t]] = TRUE]
  /\ PutBack(t)
  /\ Answer(t, "error")
  /\ UNCHANGED <<db, ver, wlock, todo, view, retries, busy, onOpen>> /\ Keeps(t)

\* _storeCell finds that the cell is gone: Rollback undoes nothing, leaves
\* the transaction open on its snapshot, and puts the connection back.
ReadFails(t) ==
  /\ At(t, "read")
  /\ kind[t] = "cell" /\ Visible(conn[t]).cells[cell[t]] = Gone
  /\ ReadOn(conn[t])
  /\ LeavesOpen(t)

\* The database after the next write of task t.
Written(t) ==
  LET d == Visible(conn[t]) IN
  CASE Head(todo[t]) = "text"     -> [d EXCEPT !.text = t]
    [] Head(todo[t]) = "result"   -> [d EXCEPT !.results = @ \cup {t}]
    [] Head(todo[t]) = "index"    -> [d EXCEPT !.index = <<d.saved, d.text>>]
    [] Head(todo[t]) = "notebook" ->
         CASE kind[t] = "cell"   -> [d EXCEPT !.cells = [view[t] EXCEPT ![cell[t]] = t]]
           [] kind[t] = "editor" -> [d EXCEPT !.cells = view[t]]
           [] kind[t] = "save"   ->
                [d EXCEPT !.saved = t,
                          !.cells = [view[t] EXCEPT ![cell[t]] = Gone]]

AtWrite(t) == \E step \in {"text", "notebook", "index", "result"} : At(t, step)

Write(t) ==
  /\ AtWrite(t)
  /\ WriteOn(conn[t], Written(t))
  /\ Advance(t)
  /\ UNCHANGED <<open, free, conn, view, retries, reply, busy, onOpen>>
  /\ Keeps(t)

\* BUSY is not looked at by StoreNotebook and StoreEditor.
BusyIgnored(t) ==
  /\ AtWrite(t) /\ kind[t] # "result"
  /\ Refused(conn[t])
  /\ busy' = busy \cup {t}
  /\ Advance(t)
  /\ UNCHANGED <<sqliteVars, open, free, conn, view, retries, reply, onOpen>>
  /\ Keeps(t)

\* _putCell returns the error: Rollback, which leaves the savepoint open, and
\* then putCell tries again or gives up.
BusyRetried(t) ==
  /\ At(t, "result")
  /\ Refused(conn[t])
  /\ busy' = busy \cup {t}
  /\ open' = [open EXCEPT ![conn[t]] = TRUE]
  /\ PutBack(t)
  /\ IF retries[t] < MaxRetry
     THEN /\ retries' = [retries EXCEPT ![t] = @ + 1]
          /\ todo' = [todo EXCEPT ![t] = Program("result")]
          /\ UNCHANGED reply
     ELSE Answer(t, "error") /\ UNCHANGED <<retries, todo>>
  /\ UNCHANGED <<sqliteVars, view, onOpen>> /\ Keeps(t)

\* The writes of t are in what its connection commits.
Kept(t) ==
  LET d == Visible(conn[t]) IN
  CASE kind[t] = "cell"   -> d.cells[cell[t]] = t
    [] kind[t] = "save"   -> d.saved = t
    [] kind[t] = "editor" -> d.text = t
    [] kind[t] = "result" -> t \in d.results

\* Mutant of Release: the deferred Rollback runs before it.
ReleaseUndone(t) ==
  /\ At(t, "release")
  /\ IF open[conn[t]] THEN UNCHANGED sqliteVars
     ELSE /\ snap' = [snap EXCEPT ![conn[t]] = None]
          /\ wlock' = IF wlock = conn[t] THEN None ELSE wlock
          /\ UNCHANGED <<db, ver>>
  /\ PutBack(t)
  /\ Answer(t, "ok")
  /\ UNCHANGED <<open, todo, view, retries, busy, onOpen>> /\ Keeps(t)

\* RELEASE of the outermost savepoint. Under a savepoint that was left open it
\* commits nothing.
Commits(t) ==
  IF open[conn[t]]
  THEN UNCHANGED <<sqliteVars, stored>>
  ELSE /\ CommitOn(conn[t])
       /\ stored' = IF wlock = conn[t] /\ Kept(t) THEN stored \cup {t} ELSE stored

\* Mutant of Release: a refused write is reported, and the rest committed.
ReleaseReports(t) ==
  /\ At(t, "release")
  /\ Commits(t)
  /\ PutBack(t)
  /\ Answer(t, IF t \in busy THEN "error" ELSE "ok")
  /\ UNCHANGED <<open, todo, view, retries, busy, onOpen, kind, cell, cut>>

\* The releases succeed, the outermost one last.
Release(t) ==
  /\ At(t, "release")
  /\ Commits(t)
  /\ PutBack(t)
  /\ Answer(t, "ok")
  /\ UNCHANGED <<open, todo, view, retries, busy, onOpen, kind, cell, cut>>

\* The savepoints of StoreNotebook and _storeEditor are nested in that of
\* ServeHTTP, whose context has no time-out. The RELEASE of a nested one fails
\* and the handler reports it; its Rollback does nothing after a Release; and
\* ServeHTTP releases what was written.
ReleaseCut(t) ==
  /\ At(t, "release") /\ kind[t] \in {"save", "editor"}
  /\ Commits(t)
  /\ PutBack(t)
  /\ Answer(t, "error")
  /\ cut' = cut \cup {t}
  /\ UNCHANGED <<open, todo, view, retries, busy, onOpen, kind, cell>>

\* The outermost RELEASE fails, or that of a nested savepoint of _storeCell and
\* the ROLLBACK TO after it: what was written stays in the transaction, and so
\* does the lock.
ReleaseFails(t) == At(t, "release") /\ UNCHANGED snap /\ LeavesOpen(t)

\* In _storeCell, which has no savepoint around it, the RELEASE of StoreNotebook
\* fails: Rollback restores the notebook as it was read, and keeps the lock.
\* (There is a snapshot at this step: the cell has read.)
ReleaseUnwound(t) ==
  /\ At(t, "release") /\ kind[t] = "cell" /\ snap[conn[t]] # None
  /\ snap' = [snap EXCEPT ![conn[t]].image.cells = view[t]]
  /\ LeavesOpen(t)

-----------------------------------------------------------------------------
Init ==
  /\ db = [saved |-> First, cells |-> [x \in Cells |-> First], text |-> First,
           index |-> <<First, First>>, results |-> {}]
  /\ ver = 0 /\ wlock = None
  /\ snap = [c \in Conns |-> None] /\ open = [c \in Conns |-> FALSE]
  /\ free = Conns
  /\ kind \in [Tasks -> Kinds] /\ cell \in [Tasks -> Cells]
  /\ todo = [t \in Tasks |-> Program(kind[t])]
  /\ conn = [t \in Tasks |-> None]
  /\ view = [t \in Tasks |-> [x \in Cells |-> First]]
  /\ retries = [t \in Tasks |-> 0]
  /\ reply = [t \in Tasks |-> "none"]
  /\ busy = {} /\ onOpen = {} /\ stored = {} /\ cut = {}

Step(t) ==
  \/ View(t) \/ Begin(t) \/ Read(t) \/ ReadFails(t) \/ Look(t)
  \/ Write(t) \/ BusyIgnored(t) \/ BusyRetried(t)
  \/ Release(t) \/ ReleaseCut(t) \/ ReleaseFails(t) \/ ReleaseUnwound(t)

\* All the operations are over.
Finished == (\A t \in Tasks : reply[t] # "none") /\ UNCHANGED vars

Next == (\E t \in Tasks : Step(t)) \/ Finished

Spec == Init /\ [][Next]_vars

-----------------------------------------------------------------------------
(* Properties                                                              *)

\* Type invariant of the module (store_notebook.go:77-224).
TypeOK ==
  /\ db \in Databases /\ ver \in Nat
  /\ wlock \in Conns \cup {None}
  /\ snap \in [Conns -> [image : Databases, at : Nat] \cup {None}]
  /\ open \in [Conns -> BOOLEAN]
  /\ free = Conns \ {conn[t] : t \in Tasks}
  /\ kind \in [Tasks -> Kinds] /\ cell \in [Tasks -> Cells]
  /\ todo \in [Tasks -> Seq(Steps)]
  /\ conn \in [Tasks -> Conns \cup {None}]
  /\ view \in [Tasks -> [Cells -> Writers \cup {Gone}]]
  /\ retries \in [Tasks -> 0..MaxRetry]
  /\ reply \in [Tasks -> {"none", "ok", "error"}]
  /\ stored \subseteq Tasks /\ busy \subseteq Tasks /\ onOpen \subseteq Tasks
  /\ cut \subseteq Tasks

\* Although StoreCell and StoreEditor read the whole notebook and write it
\* back, a commit changes nothing that its operation is not about: a cell is
\* changed by its own task or by a save, the text by an editor, the title by
\* a save (store_notebook.go:115-141, 170-224).
OnlyItsOwn ==
  [][db' # db =>
       \E t \in Tasks :
         /\ At(t, "release")
         /\ db'.saved # db.saved => kind[t] = "save"
         /\ db'.text # db.text => kind[t] = "editor"
         /\ \A x \in Cells : db'.cells[x] # db.cells[x] =>
              kind[t] = "save" \/ (kind[t] = "cell" /\ cell[t] = x)]_vars

\* Whatever writes were refused, the search index follows the notebook and
\* its text (search.go:84, store_notebook.go:86-88, 133-138).
IndexFresh == db.index = <<db.saved, db.text>>

\* An operation that reports success was committed, unless a write of it was
\* refused, or its connection was left open by an earlier one.
OkIsStoredOrExcused ==
  \A t \in Tasks : reply[t] = "ok" => t \in stored \cup busy \cup onOpen

\* What an operation that reports failure wrote is not in the database, and
\* does not get there later, from the connection that it left open or through
\* what others read there. The one exception is a handler of ServeHTTP that
\* failed after its last write: ServeHTTP does not know of it, and commits
\* (dispatch.go:143).
ErrorIsNotStored ==
  \A t \in Tasks : reply[t] = "error" /\ t \notin cut =>
    /\ t \notin db.results /\ t # db.saved /\ t # db.text
    /\ \A x \in Cells : db.cells[x] # t
=============================================================================
