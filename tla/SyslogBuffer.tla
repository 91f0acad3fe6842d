---------------------------- MODULE SyslogBuffer ----------------------------
(***************************************************************************)
(* The record buffer of cells/syslog/circ.go: a linked list under a mutex  *)
(* and a condition variable. One goroutine per socket (comm.go,            *)
(* listenSocket) appends the messages it reads; the iterators of the       *)
(* running queries follow the list, each at its own pace, and sleep at its *)
(* end. A record is named by its place in the order the socket received    *)
(* them.                                                                   *)
(***************************************************************************)
EXTENDS Integers, Sequences, FiniteSets

CONSTANTS
  Readers,  \* the queries that iterate over the buffer
  Nodes,    \* bound: the list nodes that the process may allocate
  Nil,      \* the nil *bnode
  Max       \* the size given to newbuffer: 30_000 in syslog.go, 3 in the test

ASSUME NilAssumption == Nil \notin Nodes
ASSUME MaxAssumption == Max \in Nat \ {0}

closedgen == -1

VARIABLES
  gen, cnt, first, last,   \* the fields of buffer
  next, ngen, refs, buf,   \* the fields of the nodes
  pool,                    \* the nodes recycled through sync.Pool
  used,                    \* the nodes allocated so far
  writer,                  \* the writer: "idle", "filled", "linked"
  pending,                 \* the node that append has filled, not linked yet
  recv,                    \* history: the records received from the socket
  closer,                  \* close: "open", "marked" before Broadcast, "done"
  nd,                      \* the node of each iterator
  at,                      \* each reader: "out" of next(), in its "wait" loop,
                           \* "read"ing the value, "done" with the iterator
  asleep,                  \* the readers asleep on the condition variable
  seen                     \* history: the records each reader read

listVars   == <<gen, cnt, first, last, next, ngen, pool>>
writerVars == <<used, writer, pending, recv, buf>>
readerVars == <<nd, at, seen, refs>>
vars       == <<listVars, writerVars, closer, readerVars, asleep>>

Init ==
  /\ gen = 0 /\ cnt = 0 /\ first = Nil /\ last = Nil
  /\ next = [n \in Nodes |-> Nil] /\ ngen = [n \in Nodes |-> 0]
  /\ refs = [n \in Nodes |-> 0] /\ buf = [n \in Nodes |-> 0]
  /\ pool = {} /\ used = {}
  /\ writer = "idle" /\ pending = Nil /\ recv = 0
  /\ closer = "open"
  /\ nd = [r \in Readers |-> Nil] /\ at = [r \in Readers |-> "out"]
  /\ asleep = {} /\ seen = [r \in Readers |-> <<>>]

-----------------------------------------------------------------------------
(* append                                                                  *)

\* Before the lock: a node, recycled or new, receives a copy of the message.
Fill(n) ==
  /\ writer = "idle" /\ n \in pool \cup (Nodes \ used)
  /\ pool' = pool \ {n} /\ used' = used \cup {n}
  /\ recv' = recv + 1
  /\ buf' = [buf EXCEPT ![n] = recv + 1]
  /\ pending' = n /\ writer' = "filled"
  /\ UNCHANGED <<gen, cnt, first, last, next, ngen, closer, readerVars, asleep>>

\* The list after the pending node is linked, before the window is checked.
LinkedNext == IF last = Nil THEN next ELSE [next EXCEPT ![last] = pending]

\* The window already holds Max records when one more is linked: recycle its
\* first node, cutting it off, unless a reader holds a reference to it.
DropFirst(count, fst, nxt) ==
  LET cut == IF refs[fst] = 0 THEN [nxt EXCEPT ![fst] = Nil] ELSE nxt
  IN /\ pool' = IF refs[fst] = 0 THEN pool \cup {fst} ELSE pool
     /\ next' = cut
     /\ first' = cut[fst]
     /\ cnt' = count - 1

\* The critical section of an append that has counted count records so far
\* and finds the window full or not.
LinkWith(count, full) ==
  LET fst == IF first = Nil THEN pending ELSE first
  IN /\ writer = "filled" /\ gen # closedgen
     /\ gen' = gen + 1
     /\ ngen' = [ngen EXCEPT ![pending] = gen + 1]
     /\ last' = pending
     /\ IF full
        THEN DropFirst(count, fst, LinkedNext)
        ELSE /\ next' = LinkedNext /\ first' = fst
             /\ cnt' = count /\ UNCHANGED pool
     /\ pending' = Nil /\ writer' = "linked"
     /\ UNCHANGED <<used, recv, buf, closer, readerVars, asleep>>

Link == LinkWith(cnt, cnt = Max)

\* The buffer was closed: append returns, without a broadcast.
LinkClosed ==
  /\ writer = "filled" /\ gen = closedgen
  /\ pending' = Nil /\ writer' = "idle"
  /\ UNCHANGED <<listVars, used, recv, buf, closer, readerVars, asleep>>

\* Mutant of Broadcast: Signal.
BroadcastOne ==
  /\ writer = "linked"
  /\ IF asleep = {} THEN UNCHANGED asleep
     ELSE \E r \in asleep : asleep' = asleep \ {r}
  /\ writer' = "idle"
  /\ UNCHANGED <<listVars, used, pending, recv, buf, closer, readerVars>>

\* After the unlock.
Broadcast ==
  /\ writer = "linked"
  /\ asleep' = {}
  /\ writer' = "idle"
  /\ UNCHANGED <<listVars, used, pending, recv, buf, closer, readerVars>>

-----------------------------------------------------------------------------
(* close                                                                   *)

Close ==
  /\ closer = "open"
  /\ gen' = closedgen /\ closer' = "marked"
  /\ UNCHANGED <<cnt, first, last, next, ngen, pool, writerVars, readerVars,
                 asleep>>

CloseBroadcast ==
  /\ closer = "marked" /\ closer' = "done"
  /\ asleep' = {}
  /\ UNCHANGED <<listVars, writerVars, readerVars>>

-----------------------------------------------------------------------------
(* next and value                                                          *)

\* The condition of next's loop: nothing to deliver to r.
NothingFor(r) == IF nd[r] = Nil THEN first = Nil ELSE next[nd[r]] = Nil

\* next gives up on a closed buffer; a reader entering it also gives up when
\* its node has left the window.
GivesUp(r) ==
  \/ gen = closedgen
  \/ at[r] = "out" /\ nd[r] # Nil /\ ngen[nd[r]] < ngen[first]

\* Mutant of Awake: a reader that was woken up does not look again.
AwakeOnce(r) == at[r] = "out"

Awake(r) == at[r] \in {"out", "wait"} /\ r \notin asleep

\* Mutant of NextFalse: the closed buffer does not end the loop of next.
NextFalseAtEntry(r) ==
  /\ at[r] = "out" /\ GivesUp(r)
  /\ at' = [at EXCEPT ![r] = "done"]
  /\ UNCHANGED <<listVars, writerVars, closer, nd, seen, refs, asleep>>

NextFalse(r) ==
  /\ Awake(r) /\ GivesUp(r)
  /\ at' = [at EXCEPT ![r] = "done"]
  /\ UNCHANGED <<listVars, writerVars, closer, nd, seen, refs, asleep>>

NextWait(r) ==
  /\ Awake(r) /\ ~GivesUp(r) /\ NothingFor(r)
  /\ at' = [at EXCEPT ![r] = "wait"]
  /\ asleep' = asleep \cup {r}
  /\ UNCHANGED <<listVars, writerVars, closer, nd, seen, refs>>

\* Mutant of NextTrue: a reader that was asleep goes on with the newest record.
NextTrueNewest(r) ==
  /\ Awake(r) /\ ~GivesUp(r) /\ ~NothingFor(r)
  /\ IF nd[r] = Nil
     THEN /\ nd' = [nd EXCEPT ![r] = first]
          /\ UNCHANGED refs
     ELSE LET to == IF at[r] = "wait" THEN last ELSE next[nd[r]]
          IN /\ nd' = [nd EXCEPT ![r] = to]
             /\ refs' = [refs EXCEPT ![nd[r]] = @ - 1, ![to] = @ + 1]
  /\ at' = [at EXCEPT ![r] = "read"]
  /\ UNCHANGED <<listVars, writerVars, closer, seen, asleep>>

\* The iterator moves; only moving from node to node counts references.
NextTrue(r) ==
  /\ Awake(r) /\ ~GivesUp(r) /\ ~NothingFor(r)
  /\ IF nd[r] = Nil
     THEN /\ nd' = [nd EXCEPT ![r] = first]
          /\ UNCHANGED refs
     ELSE LET to == next[nd[r]]
          IN /\ nd' = [nd EXCEPT ![r] = to]
             /\ refs' = [refs EXCEPT ![nd[r]] = @ - 1, ![to] = @ + 1]
  /\ at' = [at EXCEPT ![r] = "read"]
  /\ UNCHANGED <<listVars, writerVars, closer, seen, asleep>>

\* value reads the node without the lock.
Value(r) ==
  /\ at[r] = "read"
  /\ seen' = [seen EXCEPT ![r] = Append(@, buf[nd[r]])]
  /\ at' = [at EXCEPT ![r] = "out"]
  /\ UNCHANGED <<listVars, writerVars, closer, nd, refs, asleep>>

\* The query has enough records and drops the iterator.
Stop(r) ==
  /\ at[r] = "out"
  /\ at' = [at EXCEPT ![r] = "done"]
  /\ UNCHANGED <<listVars, writerVars, closer, nd, seen, refs, asleep>>

-----------------------------------------------------------------------------
Write == (\E n \in Nodes : Fill(n)) \/ Link \/ LinkClosed \/ Broadcast

Read(r) == NextFalse(r) \/ NextWait(r) \/ NextTrue(r) \/ Value(r)

Next ==
  \/ Write
  \/ Close \/ CloseBroadcast
  \/ \E r \in Readers : Read(r) \/ Stop(r)

Spec == Init /\ [][Next]_vars

\* Every goroutine that is not asleep runs; no message has to arrive, the
\* buffer need not be closed.
FairSpec ==
  /\ Spec
  /\ WF_vars(Link \/ LinkClosed) /\ WF_vars(Broadcast)
  /\ WF_vars(CloseBroadcast)
  /\ \A r \in Readers : WF_vars(Read(r))

-----------------------------------------------------------------------------
(* Properties                                                              *)

\* Type invariant (circ.go:11-18, 77-87).
TypeOK ==
  /\ gen \in Nat \cup {closedgen} /\ cnt \in Nat
  /\ first \in Nodes \cup {Nil} /\ last \in Nodes \cup {Nil}
  /\ next \in [Nodes -> Nodes \cup {Nil}] /\ ngen \in [Nodes -> Nat]
  /\ refs \in [Nodes -> Int] /\ buf \in [Nodes -> Nat]
  /\ pool \subseteq Nodes /\ used \subseteq Nodes
  /\ writer \in {"idle", "filled", "linked"}
  /\ pending \in Nodes \cup {Nil} /\ recv \in Nat
  /\ closer \in {"open", "marked", "done"}
  /\ nd \in [Readers -> Nodes \cup {Nil}]
  /\ at \in [Readers -> {"out", "wait", "read", "done"}]
  /\ asleep \subseteq Readers
  /\ seen \in [Readers -> Seq(Nat)]

\* What TestCircularBuffer (circ_test.go:52-56) checks of one schedule, for
\* all: each reader reads consecutive records, in the order they were received,
\* without a gap or a repetition, although value runs outside of the lock. It
\* says neither where a reader starts nor how far it gets: a window that drops
\* its first record may make a reader start late, or give up (circ.go:93-96).
InOrder ==
  \A r \in Readers : \A i \in DOMAIN seen[r] :
    i > 1 => seen[r][i] = seen[r][i - 1] + 1

\* What the comment of buffer says: "a limited window over the last max
\* records" of which, "when more than max records are found, first is dropped"
\* (circ.go:9-10). The records in the list are consecutive.
WindowIsLimited == first # Nil => buf[last] - buf[first] < Max

\* A reader sleeps only while there is nothing for it, unless a broadcast is
\* on its way: append and close broadcast after they unlock (circ.go:31-32,
\* 73-74).
NoMissedWakeup ==
  \A r \in asleep :
    (~NothingFor(r) \/ gen = closedgen)
      => writer = "linked" \/ closer = "marked"

\* A reader in next with a record to read returns (circ.go:98-103).
Delivered ==
  \A r \in Readers :
    at[r] = "wait" /\ ~NothingFor(r) ~> at[r] # "wait"

\* Once the buffer is closed every iterator ends (circ.go:28, 100).
CloseEndsReaders ==
  \A r \in Readers : gen = closedgen ~> at[r] = "done"
=============================================================================
