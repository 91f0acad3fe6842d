----------------------------- MODULE SqlitePool -----------------------------
(***************************************************************************)
(* The connection pool of internal/sqlite/pool.go: a free list guarded by  *)
(* a mutex and a condition variable, from which goroutines take SQLite     *)
(* connections to run one statement (Connections.Exec) or a bracket of     *)
(* savepoints (Connections.Savepoint ... Release / deferred Rollback).     *)
(*                                                                         *)
(* The transaction state of a connection is SQLite's, not the pool's; it   *)
(* is modelled here as the stack of savepoints the statements of pool.go   *)
(* open, release and roll back (operators marked "external").              *)
(***************************************************************************)
EXTENDS Naturals, Sequences, FiniteSets

CONSTANTS
  Conns,      \* the connections opened by OpenPool
  Tasks,      \* goroutines: HTTP requests, scheduled jobs, imports
  Reentrant,  \* the tasks that take a second connection while they hold one:
              \* a Filter or FindFramework querying with a fresh context
  None,       \* the nil *Conn
  MaxNames,   \* bound: no call starts once this many names are drawn
  MaxDepth,   \* bound: savepoints that one task nests
  MaxLeaks,   \* bound: connections that error paths may lose
  Errors      \* the error paths taken: "savepoint", "release", "rollback",
              \* "forget"

ASSUME ConnsAssumption  == IsFiniteSet(Conns) /\ None \notin Conns
ASSUME TasksAssumption  == Reentrant \subseteq Tasks
ASSUME BoundsAssumption == /\ MaxNames \in Nat
                           /\ MaxDepth \in Nat \ {0}
                           /\ MaxLeaks \in Nat

VARIABLES
  free,     \* the free list; its head is the last element
  wait,     \* the tasks asleep on the condition variable, oldest first
  want,     \* what each task called take() for, "none" outside of take()
  conn,     \* the *Conn in the task's context, None if there is none
  sps,      \* the names of the savepoints nested in that context
  released, \* the released flag of the innermost savepoint
  rows,     \* the connection that the task's open Rows must give back
  inner,    \* the connection taken by a Filter running under the task's query
  drawn,    \* how many names rand.Name has drawn
  txn,      \* per connection: the savepoints that SQLite holds open
  wlock,    \* the connection that owns SQLite's single write lock
  db,       \* the writes that are committed
  acked,    \* history: the writes whose call reported success
  undone,   \* history: the writes that a ROLLBACK TO undid
  tainted   \* history: the connections on which an outermost savepoint was
            \* given back to the pool without having been released

poolVars == <<free, wait, want>>
taskVars == <<conn, sps, released, rows, inner, drawn>>
dbVars   == <<txn, wlock, db, acked, undone, tainted>>
vars     == <<poolVars, taskVars, dbVars>>

Purposes == {"none", "savepoint", "exec", "filter"}

\* The name of a savepoint, which also stands for the writes made directly
\* under it: rand.Name draws a fresh one every time.
Names == Nat
Draw == drawn' = drawn + 1

Levels == [name : Names, writes : SUBSET Names]

-----------------------------------------------------------------------------
(* SQLite's savepoint stack (external)                                     *)

\* Position, on connection c, of the savepoint called n.
Position(c, n) ==
  CHOOSE i \in DOMAIN txn[c] : txn[c][i].name = n

\* The writes made since the savepoint at position i of connection c.
WritesFrom(c, i) ==
  UNION {txn[c][j].writes : j \in i..Len(txn[c])}

\* SAVEPOINT n: the first one opens the transaction.
Open(c, n) ==
  txn' = [txn EXCEPT ![c] = Append(@, [name |-> n, writes |-> {}])]

\* A statement that writes w on connection c: alone in its transaction when
\* no savepoint is open, under the innermost savepoint otherwise. There is
\* one writer at a time.
WriteOn(c, w) ==
  /\ wlock \in {None, c}
  /\ IF txn[c] = <<>>
     THEN /\ db' = db \cup {w}
          /\ UNCHANGED <<txn, wlock>>
     ELSE /\ txn' = [txn EXCEPT ![c][Len(txn[c])].writes = @ \cup {w}]
          /\ wlock' = c
          /\ UNCHANGED db

\* RELEASE of the savepoint at position i: commits when it is the outermost,
\* else its writes, and those of the savepoints above, join the one below.
ReleaseAt(c, i) ==
  IF i = 1
  THEN /\ db' = db \cup WritesFrom(c, 1)
       /\ txn' = [txn EXCEPT ![c] = <<>>]
       /\ wlock' = IF wlock = c THEN None ELSE wlock
  ELSE LET below == SubSeq(txn[c], 1, i - 1)
       IN /\ txn' = [txn EXCEPT ![c] =
                       [below EXCEPT ![i - 1].writes = @ \cup WritesFrom(c, i)]]
          /\ UNCHANGED <<db, wlock>>

\* ROLLBACK TO the savepoint at position i: its writes and the savepoints
\* above are gone, the savepoint itself, the transaction and the write lock
\* stay.
RollbackAt(c, i) ==
  /\ txn' = [txn EXCEPT ![c] = [SubSeq(@, 1, i) EXCEPT ![i].writes = {}]]
  /\ UNCHANGED <<db, wlock>>

-----------------------------------------------------------------------------
(* The free list                                                           *)

FreeSet == {free[i] : i \in DOMAIN free}

\* The innermost savepoint of t, and whether it is the outermost one as well.
Innermost(t) == sps[t][Len(sps[t])]
AtTop(t) == Len(sps[t]) = 1

\* The connection of t's savepoints, until the outermost one is released.
Bracket(t) == IF AtTop(t) /\ released[t] THEN None ELSE conn[t]

\* The connections that task t has to give back.
Holds(t) == {Bracket(t), rows[t], inner[t]} \ {None}

Lost == {c \in Conns : c \notin FreeSet /\ \A t \in Tasks : c \notin Holds(t)}

MayLose == Cardinality(Lost) < MaxLeaks

\* Mutant of put: the signal is forgotten.
PutSilently(c) ==
  /\ free' = Append(free, c)
  /\ UNCHANGED wait

\* put: give c back and signal one sleeper.
Put(c) ==
  /\ free' = Append(free, c)
  /\ wait' = IF wait = <<>> THEN wait ELSE Tail(wait)

\* Task t runs its own code: neither in take() nor inside a Filter.
Runs(t) == want[t] = "none" /\ inner[t] = None

\* Task t is in take() and not asleep.
Awake(t) == want[t] # "none" /\ t \notin {wait[i] : i \in DOMAIN wait}

-----------------------------------------------------------------------------
(* take                                                                    *)

\* Savepoint or Exec without a connection in the context.
Call(t, purpose) ==
  /\ Runs(t) /\ conn[t] = None /\ rows[t] = None
  /\ drawn < MaxNames
  /\ want' = [want EXCEPT ![t] = purpose]
  /\ UNCHANGED <<free, wait, taskVars, dbVars>>

CallSavepoint(t) == Call(t, "savepoint")

CallExec(t) == Call(t, "exec")

\* A query on the connection that t holds reads a virtual table: its Filter
\* calls ListPath with context.Background(), hence take() again.
CallFilter(t) ==
  /\ t \in Reentrant
  /\ Runs(t) /\ Holds(t) # {}
  /\ want' = [want EXCEPT ![t] = "filter"]
  /\ UNCHANGED <<free, wait, taskVars, dbVars>>

\* The free list is empty: sleep on the condition variable.
Sleep(t) ==
  /\ Awake(t) /\ free = <<>>
  /\ wait' = Append(wait, t)
  /\ UNCHANGED <<free, want, taskVars, dbVars>>

\* Pop the head of the free list, leave take().
Take(t, purpose) ==
  /\ Awake(t) /\ want[t] = purpose /\ free # <<>>
  /\ free' = SubSeq(free, 1, Len(free) - 1)
  /\ want' = [want EXCEPT ![t] = "none"]
  /\ UNCHANGED wait

FreeHead == free[Len(free)]

TakeSavepoint(t) ==
  /\ Take(t, "savepoint")
  /\ conn' = [conn EXCEPT ![t] = FreeHead]
  /\ sps' = [sps EXCEPT ![t] = <<drawn>>]
  /\ released' = [released EXCEPT ![t] = FALSE]
  /\ Open(FreeHead, drawn) /\ Draw
  /\ UNCHANGED <<rows, inner, wlock, db, acked, undone, tainted>>

\* SAVEPOINT fails: Savepoint returns the error and nobody gives back the
\* connection.
TakeSavepointFails(t) ==
  /\ "savepoint" \in Errors /\ MayLose
  /\ Take(t, "savepoint")
  /\ UNCHANGED <<taskVars, dbVars>>

TakeExec(t) ==
  /\ Take(t, "exec")
  /\ rows' = [rows EXCEPT ![t] = FreeHead]
  /\ Draw
  /\ \/ UNCHANGED <<txn, wlock, db, acked>>
     \/ /\ WriteOn(FreeHead, drawn)
        /\ acked' = acked \cup {drawn}
  /\ UNCHANGED <<conn, sps, released, inner, undone, tainted>>

TakeFilter(t) ==
  /\ Take(t, "filter")
  /\ inner' = [inner EXCEPT ![t] = FreeHead]
  /\ UNCHANGED <<conn, sps, released, rows, drawn, dbVars>>

-----------------------------------------------------------------------------
(* Rows                                                                    *)

\* Rows.Err runs final once.
RowsErr(t) ==
  /\ Runs(t) /\ rows[t] # None
  /\ Put(rows[t])
  /\ rows' = [rows EXCEPT ![t] = None]
  /\ UNCHANGED <<want, conn, sps, released, inner, drawn, dbVars>>

\* The caller returns without calling Rows.Err.
RowsForgotten(t) ==
  /\ "forget" \in Errors /\ MayLose
  /\ Runs(t) /\ rows[t] # None
  /\ rows' = [rows EXCEPT ![t] = None]
  /\ UNCHANGED <<poolVars, conn, sps, released, inner, drawn, dbVars>>

\* Mutant of FilterDone: ListPath ends without calling Rows.Err.
FilterForgets(t) ==
  /\ inner[t] # None
  /\ inner' = [inner EXCEPT ![t] = None]
  /\ UNCHANGED <<poolVars, conn, sps, released, rows, drawn, dbVars>>

\* The Filter's ListPath ends with Rows.Err.
FilterDone(t) ==
  /\ inner[t] # None
  /\ Put(inner[t])
  /\ inner' = [inner EXCEPT ![t] = None]
  /\ UNCHANGED <<want, conn, sps, released, rows, drawn, dbVars>>

-----------------------------------------------------------------------------
(* Savepoints on the connection of the context                             *)

\* The innermost savepoint of t is still to be released.
InSavepoint(t) == Runs(t) /\ conn[t] # None /\ ~released[t]

SavepointNested(t) ==
  /\ InSavepoint(t) /\ Len(sps[t]) < MaxDepth /\ drawn < MaxNames
  /\ Open(conn[t], drawn) /\ Draw
  /\ sps' = [sps EXCEPT ![t] = Append(@, drawn)]
  /\ UNCHANGED <<poolVars, conn, released, rows, inner,
                 wlock, db, acked, undone, tainted>>

\* A statement on the connection of the context.
Write(t) ==
  /\ InSavepoint(t)
  /\ WriteOn(conn[t], Innermost(t))
  /\ UNCHANGED <<poolVars, taskVars, acked, undone, tainted>>

\* Mutant of the end of Release and Rollback: sp.top is not tested.
PutAlways(t) == Put(conn[t]) /\ UNCHANGED want

\* The end of Release and of Rollback: an outermost savepoint gives the
\* connection back.
PutIfTop(t) ==
  /\ IF AtTop(t) THEN Put(conn[t]) ELSE UNCHANGED <<free, wait>>
  /\ UNCHANGED want

\* RELEASE of the savepoint at position i, and the rest of Release.
ReleasePosition(t, i) ==
  LET c == conn[t]
  IN /\ InSavepoint(t)
     /\ ReleaseAt(c, i)
     /\ acked' = IF AtTop(t) THEN acked \cup WritesFrom(c, i) ELSE acked
     /\ PutIfTop(t)
     /\ released' = [released EXCEPT ![t] = TRUE]
     /\ UNCHANGED <<conn, sps, rows, inner, drawn, undone, tainted>>

\* Mutant of Release: the last savepoint of the connection is released
\* whatever its name.
ReleaseLast(t) == ReleasePosition(t, Len(txn[conn[t]]))

Release(t) == ReleasePosition(t, Position(conn[t], Innermost(t)))

Taint(t) == tainted' = IF AtTop(t) THEN tainted \cup {conn[t]} ELSE tainted

\* RELEASE reports an error (interrupted, busy): the savepoint stays open,
\* the rest of Release runs all the same.
ReleaseFails(t) ==
  /\ "release" \in Errors /\ InSavepoint(t)
  /\ PutIfTop(t)
  /\ released' = [released EXCEPT ![t] = TRUE]
  /\ Taint(t)
  /\ UNCHANGED <<conn, sps, rows, inner, drawn, txn, wlock, db, acked, undone>>

\* The function that opened the innermost savepoint returns.
Leave(t) ==
  /\ sps' = [sps EXCEPT ![t] = SubSeq(@, 1, Len(@) - 1)]
  /\ conn' = [conn EXCEPT ![t] = IF AtTop(t) THEN None ELSE @]
  /\ released' = [released EXCEPT ![t] = FALSE]
  /\ UNCHANGED <<rows, inner, drawn>>

\* The deferred Rollback after a Release does nothing.
RollbackReleased(t) ==
  /\ Runs(t) /\ conn[t] # None /\ released[t]
  /\ Leave(t)
  /\ UNCHANGED <<poolVars, dbVars>>

\* What Rollback does around its ROLLBACK TO statement.
RollbackWith(t, i, Statement) ==
  /\ InSavepoint(t)
  /\ Statement
  /\ undone' = undone \cup WritesFrom(conn[t], i)
  /\ PutIfTop(t)
  /\ Taint(t)
  /\ Leave(t)
  /\ UNCHANGED acked

\* Mutant of Rollback: the statement is only executed at the top.
RollbackTopOnly(t) ==
  LET i == Position(conn[t], Innermost(t))
  IN RollbackWith(t, i, IF AtTop(t) THEN RollbackAt(conn[t], i)
                        ELSE UNCHANGED <<txn, db, wlock>>)

\* The deferred Rollback of a savepoint that was not released.
Rollback(t) ==
  LET i == Position(conn[t], Innermost(t))
  IN RollbackWith(t, i, RollbackAt(conn[t], i))

\* ROLLBACK TO reports an error (interrupted, busy): the writes stay in the
\* savepoint, the rest of Rollback runs all the same, and the deferred call
\* drops the error.
RollbackFails(t) ==
  /\ "rollback" \in Errors /\ InSavepoint(t)
  /\ PutIfTop(t)
  /\ Taint(t)
  /\ Leave(t)
  /\ UNCHANGED <<txn, wlock, db, acked, undone>>

\* A function returns after a nested Savepoint and before its
\* "defer Rollback" is reached.
Abandon(t) ==
  /\ InSavepoint(t) /\ ~AtTop(t)
  /\ Leave(t)
  /\ UNCHANGED <<poolVars, dbVars>>

-----------------------------------------------------------------------------
Init ==
  /\ \E s \in [1..Cardinality(Conns) -> Conns] :
       /\ \A i, j \in DOMAIN s : s[i] = s[j] => i = j
       /\ free = s
  /\ wait = <<>>
  /\ want = [t \in Tasks |-> "none"]
  /\ conn = [t \in Tasks |-> None]
  /\ sps = [t \in Tasks |-> <<>>]
  /\ released = [t \in Tasks |-> FALSE]
  /\ rows = [t \in Tasks |-> None]
  /\ inner = [t \in Tasks |-> None]
  /\ drawn = 0
  /\ txn = [c \in Conns |-> <<>>]
  /\ wlock = None
  /\ db = {} /\ acked = {} /\ undone = {} /\ tainted = {}

Step(t) ==
  \/ CallSavepoint(t) \/ CallExec(t) \/ CallFilter(t)
  \/ Sleep(t)
  \/ TakeSavepoint(t) \/ TakeSavepointFails(t) \/ TakeExec(t) \/ TakeFilter(t)
  \/ RowsErr(t) \/ RowsForgotten(t) \/ FilterDone(t)
  \/ SavepointNested(t) \/ Write(t)
  \/ Release(t) \/ ReleaseFails(t) \/ RollbackReleased(t)
  \/ Rollback(t) \/ RollbackFails(t) \/ Abandon(t)

\* All the calls of the bounded model were made and have returned.
Finished ==
  /\ \A t \in Tasks : Runs(t) /\ conn[t] = None /\ rows[t] = None
  /\ drawn >= MaxNames
  /\ UNCHANGED vars

Next == (\E t \in Tasks : Step(t)) \/ Finished

\* The steps that a goroutine inside the pool takes without being asked
\* again: leaving take() when a connection is free, ending its statements
\* and its functions. Nobody has to start a call, to nest or to write.
Proceed(t) ==
  \/ Sleep(t) \/ TakeSavepoint(t) \/ TakeExec(t) \/ TakeFilter(t)
  \/ FilterDone(t)

Return(t) ==
  RowsErr(t) \/ Release(t) \/ RollbackReleased(t) \/ Rollback(t)

Spec == Init /\ [][Next]_vars

\* Go runs every runnable goroutine, and the handlers terminate.
FairSpec ==
  /\ Spec
  /\ \A t \in Tasks : WF_vars(Proceed(t)) /\ SF_vars(Return(t))

-----------------------------------------------------------------------------
(* Properties                                                              *)

\* Types of the pool and of the contexts (pool.go:19-34).
PoolTypeOK ==
  /\ free \in Seq(Conns)
  /\ wait \in Seq(Tasks)
  /\ want \in [Tasks -> Purposes]
  /\ conn \in [Tasks -> Conns \cup {None}]
  /\ sps \in [Tasks -> Seq(Names)]
  /\ released \in [Tasks -> BOOLEAN]
  /\ rows \in [Tasks -> Conns \cup {None}]
  /\ inner \in [Tasks -> Conns \cup {None}]
  /\ drawn \in Nat

\* Types of the database and of the history variables.
DbTypeOK ==
  /\ txn \in [Conns -> Seq(Levels)]
  /\ wlock \in Conns \cup {None}
  /\ db \subseteq Names /\ acked \subseteq Names /\ undone \subseteq Names
  /\ tainted \subseteq Conns

\* Type invariant of the module (pool.go:19-34).
TypeOK == PoolTypeOK /\ DbTypeOK

\* Whatever the interleaving of take, put, Release, the deferred Rollback and
\* Rows.Err, a connection is given to one owner at a time and is put back at
\* most once: never twice on the free list, never free and in use, never in
\* use by two tasks or twice by one.
ExclusiveConns ==
  /\ \A i, j \in DOMAIN free : free[i] = free[j] => i = j
  /\ \A t \in Tasks : Holds(t) \cap FreeSet = {}
  /\ \A t, u \in Tasks : t # u => Holds(t) \cap Holds(u) = {}
  /\ \A t \in Tasks :
       /\ Bracket(t) # None => Bracket(t) \notin {rows[t], inner[t]}
       /\ rows[t] # None => rows[t] # inner[t]

\* The shape of a task's control state: what it may hold while it is in
\* take(), and that a context carries a connection exactly while it carries
\* savepoints.
PoolShape ==
  \A t \in Tasks :
    /\ conn[t] = None <=> sps[t] = <<>>
    /\ released[t] => conn[t] # None
    /\ conn[t] = None \/ rows[t] = None
    /\ want[t] # "none" => inner[t] = None
    /\ want[t] \in {"savepoint", "exec"} => conn[t] = None /\ rows[t] = None

\* put signals one sleeper and take re-checks the list: there are never more
\* free connections than tasks on their way to them while a task sleeps.
NoLostWakeup ==
  wait # <<>> => Len(free) <= Cardinality({t \in Tasks : Awake(t)})

\* What a ROLLBACK TO has undone never gets into the database: not by a
\* Release, a failing RELEASE or a failing ROLLBACK TO of the savepoints
\* around it, nor by a later user of the connection. It does not say that every
\* call of Rollback undoes: when its statement fails, the error is dropped by
\* the deferred call and an outer Release may commit what was to be rolled back
\* (pool.go:134-151).
RollbackIsFinal == undone \cap db = {}

\* When the call that wrote reports success, its writes are committed, or
\* they sit in the transaction of a connection on which some earlier
\* outermost savepoint was given back without a RELEASE.
AckedIsCommittedOrTainted ==
  \A w \in acked :
    w \in db \/ \E c \in tainted : txn[c] # <<>> /\ w \in WritesFrom(c, 1)

\* What TestPool (driver_test.go:150-158) expects of Release, and Savepoint's
\* comment (pool.go:74) of a savepoint: once Release or Exec has reported
\* success, the writes are there for every other connection.
AckedIsCommitted == acked \subseteq db

\* A task that asks for a connection gets one, when fewer tasks run virtual
\* table queries than there are connections and none is lost.
Served == \A t \in Tasks : want[t] # "none" ~> want[t] = "none"
=============================================================================
