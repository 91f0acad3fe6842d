-------------------------- MODULE SqlitePool_proofs -------------------------
(***************************************************************************)
(* Proofs about SqlitePool for any set of connections and tasks and any    *)
(* bounds: the type of the pool's state, the exclusive ownership of        *)
(* connections, the wake-ups, and, below, what becomes of the writes under *)
(* savepoints, which is what SQLite's stack of them has to do with the     *)
(* contexts. The first three do not depend on what SQLite does.            *)
(***************************************************************************)
EXTENDS SqlitePool, SequenceTheorems, FiniteSetTheorems, TLAPS

\* The inductive invariant.
PoolInv == PoolTypeOK /\ PoolShape /\ ExclusiveConns

-----------------------------------------------------------------------------
(* The free list and the context as sequences                              *)

\* Appending a savepoint's name or a connection (pool.go:81, 131).
LEMMA AppendLemma ==
  ASSUME NEW S, NEW s \in Seq(S), NEW e \in S
  PROVE  Append(s, e) \in Seq(S) /\ Append(s, e) # <<>>
  BY AppendProperties, EmptySeq

\* Putting c back (pool.go:127) adds it to the free list, once if it was not
\* there.
LEMMA PutLemma ==
  ASSUME NEW c \in Conns, free \in Seq(Conns), wait \in Seq(Tasks), Put(c)
  PROVE  /\ free' \in Seq(Conns)
         /\ wait' \in Seq(Tasks)
         /\ FreeSet' = FreeSet \cup {c}
         /\ (/\ c \notin FreeSet
             /\ \A i, j \in DOMAIN free : free[i] = free[j] => i = j)
            => \A i, j \in DOMAIN free' : free'[i] = free'[j] => i = j
<1>1. free' = Append(free, c) BY DEF Put
<1>2. /\ free' \in Seq(Conns)
      /\ Len(free') = Len(free) + 1
      /\ \A i \in 1..Len(free) : free'[i] = free[i]
      /\ free'[Len(free) + 1] = c
  BY <1>1, AppendProperties
<1>3. Len(free) \in Nat /\ DOMAIN free = 1..Len(free) /\ DOMAIN free' = 1..(Len(free) + 1)
  BY <1>2, LenProperties
<1>4. FreeSet' = FreeSet \cup {c}
  BY <1>2, <1>3 DEF FreeSet
<1>5. wait' \in Seq(Tasks)
  BY HeadTailProperties DEF Put
<1>6. ASSUME c \notin FreeSet, \A i, j \in DOMAIN free : free[i] = free[j] => i = j,
             NEW i \in DOMAIN free', NEW j \in DOMAIN free', free'[i] = free'[j]
      PROVE  i = j
  <2>1. \A k \in 1..Len(free) : free[k] # c
    BY <1>3, <1>6 DEF FreeSet
  <2>2. CASE i \in 1..Len(free) /\ j \in 1..Len(free)
    BY <2>2, <1>2, <1>3, <1>6
  <2>3. CASE i = Len(free) + 1 \/ j = Len(free) + 1
    BY <2>1, <2>3, <1>2, <1>3, <1>6
  <2>4. QED BY <1>3, <1>6, <2>2, <2>3
<1>7. QED BY <1>2, <1>4, <1>5, <1>6

\* Taking the head of the free list (pool.go:104) removes exactly it.
LEMMA TakeLemma ==
  ASSUME free \in Seq(Conns), free # <<>>,
         free' = SubSeq(free, 1, Len(free) - 1),
         \A i, j \in DOMAIN free : free[i] = free[j] => i = j
  PROVE  /\ FreeHead \in FreeSet /\ FreeHead \in Conns
         /\ free' \in Seq(Conns)
         /\ FreeSet' = FreeSet \ {FreeHead}
         /\ \A i, j \in DOMAIN free' : free'[i] = free'[j] => i = j
<1>1. Len(free) \in Nat \ {0} /\ DOMAIN free = 1..Len(free)
  BY LenProperties, EmptySeq
<1>2. /\ free' \in Seq(Conns)
      /\ Len(free') = Len(free) - 1
      /\ \A i \in 1..(Len(free) - 1) : free'[i] = free[i]
  BY <1>1, SubSeqProperties
<1>3. DOMAIN free' = 1..(Len(free) - 1)
  BY <1>1, <1>2, LenProperties
<1>4. FreeHead \in FreeSet /\ FreeHead \in Conns
  BY <1>1, ElementOfSeq DEF FreeHead, FreeSet
<1>5. FreeSet' = FreeSet \ {FreeHead}
  <2>1. ASSUME NEW i \in 1..(Len(free) - 1)
        PROVE  free'[i] \in FreeSet \ {FreeHead}
    BY <1>1, <1>2 DEF FreeSet, FreeHead
  <2>2. ASSUME NEW c \in FreeSet, c # FreeHead
        PROVE  c \in FreeSet'
    <3>1. PICK i \in 1..Len(free) : c = free[i]
      BY <1>1 DEF FreeSet
    <3>2. i \in 1..(Len(free) - 1)
      BY <1>1, <2>2, <3>1 DEF FreeHead
    <3>3. QED BY <1>2, <1>3, <3>1, <3>2 DEF FreeSet
  <2>3. FreeSet' = {free'[i] : i \in 1..(Len(free) - 1)}
    BY <1>3 DEF FreeSet
  <2>4. QED BY <2>1, <2>2, <2>3
<1>6. QED BY <1>1, <1>2, <1>3, <1>4, <1>5

\* The innermost savepoint of a context is left: the context keeps its
\* connection unless it was the outermost one.
LEMMA LeaveLemma ==
  ASSUME NEW s \in Seq(Names), s # <<>>
  PROVE  /\ SubSeq(s, 1, Len(s) - 1) \in Seq(Names)
         /\ SubSeq(s, 1, Len(s) - 1) = <<>> <=> Len(s) = 1
<1>1. Len(s) \in Nat \ {0} BY EmptySeq
<1> DEFINE r == SubSeq(s, 1, Len(s) - 1)
<1>2. \A i \in 1..(Len(s) - 1) : s[i] \in Names
  BY <1>1, ElementOfSeq
<1>3. r \in Seq(Names) /\ Len(r) = Len(s) - 1
  <2> DEFINE n == Len(s) - 1
  <2>1. 1 \in Int /\ n \in Int /\ n \in Nat
    BY <1>1
  <2>2. r = SubSeq(s, 1, n) /\ \A i \in 1..n : s[i] \in Names
    BY <1>2
  <2> HIDE DEF n, r
  <2>3. r \in Seq(Names) /\ Len(r) = IF 1 <= n THEN n - 1 + 1 ELSE 0
    BY <2>1, <2>2, SubSeqProperties
  <2>4. Len(r) = n
    BY <2>1, <2>3
  <2>5. QED BY <2>3, <2>4 DEF n
<1>4. r = <<>> => Len(r) = 0
  BY EmptySeq
<1>5. r # <<>> => Len(r) \in Nat \ {0}
  BY <1>3, EmptySeq
<1>6. QED BY <1>1, <1>3, <1>4, <1>5

-----------------------------------------------------------------------------
(* What a step of one task does to the pool                                *)

\* Only task t changes hands of connections: what every other task holds is
\* untouched.
Others(t) ==
  \A u \in Tasks \ {t} :
    /\ want'[u] = want[u] /\ conn'[u] = conn[u] /\ sps'[u] = sps[u]
    /\ released'[u] = released[u] /\ rows'[u] = rows[u] /\ inner'[u] = inner[u]

LEMMA OthersLemma ==
  ASSUME NEW t \in Tasks, Others(t), NEW u \in Tasks, u # t
  PROVE  Holds(u)' = Holds(u) /\ Bracket(u)' = Bracket(u)
BY DEF Others, Holds, Bracket, AtTop

\* Ownership survives a step of t that moves connections only between the
\* free list and t: nothing is both freed and kept.
LEMMA MoveLemma ==
  ASSUME PoolInv, NEW t \in Tasks, Others(t),
         Holds(t)' \cup FreeSet' \subseteq Holds(t) \cup FreeSet,
         Holds(t)' \cap FreeSet' = {},
         \A i, j \in DOMAIN free' : free'[i] = free'[j] => i = j,
         /\ Bracket(t)' # None => Bracket(t)' \notin {rows'[t], inner'[t]}
         /\ rows'[t] # None => rows'[t] # inner'[t]
  PROVE  ExclusiveConns'
<1>1. \A u \in Tasks \ {t} : Holds(u)' = Holds(u) /\ Bracket(u)' = Bracket(u)
  BY OthersLemma
<1>2. \A u \in Tasks : Holds(u)' \cap FreeSet' = {}
  BY <1>1 DEF PoolInv, ExclusiveConns
<1>3. \A u, v \in Tasks : u # v => Holds(u)' \cap Holds(v)' = {}
  BY <1>1 DEF PoolInv, ExclusiveConns
<1>4. \A u \in Tasks :
        /\ Bracket(u)' # None => Bracket(u)' \notin {rows'[u], inner'[u]}
        /\ rows'[u] # None => rows'[u] # inner'[u]
  BY <1>1 DEF PoolInv, ExclusiveConns, Others
<1>5. QED BY <1>2, <1>3, <1>4 DEF ExclusiveConns

\* Exclusive ownership only depends on the free list and on what tasks hold.
LEMMA SameConnsLemma ==
  ASSUME ExclusiveConns, UNCHANGED <<free, conn, sps, released, rows, inner>>
  PROVE  ExclusiveConns'
<1>1. FreeSet' = FreeSet /\ DOMAIN free' = DOMAIN free /\ free' = free
  BY DEF FreeSet
<1>2. \A u : Bracket(u)' = Bracket(u) /\ Holds(u)' = Holds(u)
  BY DEF Bracket, Holds, AtTop
<1>3. QED BY <1>1, <1>2 DEF ExclusiveConns

\* Entering take(), going to sleep and leaving a function move no connection.
LEMMA QuietSteps ==
  ASSUME PoolInv, NEW t \in Tasks,
         \/ CallSavepoint(t) \/ CallExec(t) \/ CallFilter(t) \/ Sleep(t)
         \/ SavepointNested(t) \/ RollbackReleased(t) \/ Abandon(t)
         \/ Write(t) \/ RowsForgotten(t)
  PROVE  PoolInv'
<1> USE DEF PoolInv, PoolTypeOK, PoolShape, vars, poolVars, taskVars
<1>1. CASE CallSavepoint(t) \/ CallExec(t) \/ CallFilter(t)
  <2>1. PoolTypeOK' /\ PoolShape'
    BY <1>1 DEF CallSavepoint, CallExec, CallFilter, Call, Runs, Purposes, Holds, Bracket
  <2>2. UNCHANGED <<free, conn, sps, released, rows, inner>>
    BY <1>1 DEF CallSavepoint, CallExec, CallFilter, Call
  <2>3. ExclusiveConns'
    BY <2>2, SameConnsLemma
  <2>4. QED BY <2>1, <2>3
<1>2. CASE Sleep(t)
  <2>1. wait' \in Seq(Tasks)
    BY <1>2, AppendProperties DEF Sleep
  <2>2. PoolTypeOK' /\ PoolShape'
    BY <1>2, <2>1 DEF Sleep
  <2>3. ExclusiveConns'
    BY <1>2, SameConnsLemma DEF Sleep
  <2>4. QED BY <2>2, <2>3
<1>3. CASE Write(t)
  <2>1. PoolTypeOK' /\ PoolShape'
    BY <1>3 DEF Write
  <2>2. ExclusiveConns'
    BY <1>3, SameConnsLemma DEF Write
  <2>3. QED BY <2>1, <2>2
<1>4. CASE RowsForgotten(t)
  <2>1. PoolTypeOK' /\ PoolShape' /\ Others(t)
    BY <1>4 DEF RowsForgotten, Runs, Others
  <2>2. /\ UNCHANGED <<free, FreeSet>>
        /\ Holds(t)' \subseteq Holds(t)
        /\ rows'[t] = None /\ inner'[t] = inner[t] /\ Bracket(t)' = Bracket(t)
    BY <1>4 DEF RowsForgotten, FreeSet, Holds, Bracket, AtTop
  <2>3. ExclusiveConns'
    BY <2>1, <2>2, MoveLemma DEF ExclusiveConns
  <2>4. QED BY <2>1, <2>3
<1>5. CASE SavepointNested(t)
  <2>1. /\ sps[t] \in Seq(Names) /\ drawn \in Names /\ Len(sps[t]) \in Nat
        /\ conn[t] # None /\ ~released[t]
    BY <1>5, LenProperties DEF SavepointNested, InSavepoint, Names
  <2>2. /\ Append(sps[t], drawn) \in Seq(Names) /\ Append(sps[t], drawn) # <<>>
    BY <2>1, AppendLemma
  <2>3. PoolTypeOK' /\ PoolShape' /\ Others(t)
    BY <1>5, <2>1, <2>2 DEF SavepointNested, InSavepoint, Others, Draw
  <2>4. /\ UNCHANGED <<free, FreeSet>> /\ Bracket(t)' = Bracket(t)
        /\ Holds(t)' = Holds(t) /\ rows' = rows /\ inner' = inner
    BY <1>5, <2>1 DEF SavepointNested, FreeSet, Holds, Bracket, AtTop
  <2>5. ExclusiveConns'
    BY <2>3, <2>4, MoveLemma DEF ExclusiveConns
  <2>6. QED BY <2>3, <2>5
<1>6. CASE RollbackReleased(t) \/ Abandon(t)
  <2>1. conn[t] # None /\ sps[t] \in Seq(Names) /\ sps[t] # <<>> /\ Leave(t)
    BY <1>6 DEF RollbackReleased, Abandon, InSavepoint
  <2>2. UNCHANGED poolVars
    BY <1>6 DEF RollbackReleased, Abandon
  <2>3. PoolTypeOK' /\ PoolShape' /\ Others(t)
    BY <2>1, <2>2, LeaveLemma DEF Leave, Others, AtTop
  <2>4. /\ UNCHANGED <<free, FreeSet>>
        /\ Holds(t)' \subseteq Holds(t) /\ rows' = rows /\ inner' = inner
        /\ Bracket(t)' \in {Bracket(t), None}
    BY <1>6, <2>1, <2>2, LeaveLemma
    DEF RollbackReleased, Abandon, InSavepoint, Leave, FreeSet, Holds, Bracket, AtTop
  <2>5. ExclusiveConns'
    BY <2>3, <2>4, MoveLemma DEF ExclusiveConns
  <2>6. QED BY <2>3, <2>5
<1>7. QED BY <1>1, <1>2, <1>3, <1>4, <1>5, <1>6

\* Leaving take() with a connection, or losing it (pool.go:98-109, 82-90).
LEMMA TakeSteps ==
  ASSUME PoolInv, NEW t \in Tasks,
         \/ TakeSavepoint(t) \/ TakeSavepointFails(t)
         \/ TakeExec(t) \/ TakeFilter(t)
  PROVE  PoolInv'
<1> DEFINE h == FreeHead
<1> USE DEF PoolInv, PoolTypeOK, PoolShape, vars, poolVars, taskVars
<1>1. /\ free # <<>> /\ free' = SubSeq(free, 1, Len(free) - 1)
      /\ wait' = wait /\ want[t] # "none" /\ want' = [want EXCEPT ![t] = "none"]
  BY DEF TakeSavepoint, TakeSavepointFails, TakeExec, TakeFilter, Take, Awake
<1>2. /\ h \in FreeSet /\ h \in Conns /\ h # None
      /\ free' \in Seq(Conns)
      /\ FreeSet' = FreeSet \ {h}
      /\ \A i, j \in DOMAIN free' : free'[i] = free'[j] => i = j
  BY <1>1, TakeLemma, ConnsAssumption DEF ExclusiveConns
<1>3. h \notin Holds(t) /\ Holds(t) \cap FreeSet = {}
  BY <1>2 DEF ExclusiveConns
<1> HIDE DEF h
<1>4. CASE TakeSavepointFails(t)
  <2>1. PoolTypeOK' /\ PoolShape' /\ Others(t)
    BY <1>1, <1>2, <1>4 DEF TakeSavepointFails, Take, Others, Purposes
  <2>2. Holds(t)' = Holds(t) /\ rows' = rows /\ inner' = inner /\ Bracket(t)' = Bracket(t)
    BY <1>4 DEF TakeSavepointFails, Take, Holds, Bracket, AtTop
  <2>3. ExclusiveConns'
    <3>1. /\ Holds(t)' \cup FreeSet' \subseteq Holds(t) \cup FreeSet
          /\ Holds(t)' \cap FreeSet' = {}
      BY <2>2, <1>2, <1>3
    <3>2. /\ Bracket(t)' # None => Bracket(t)' \notin {rows'[t], inner'[t]}
          /\ rows'[t] # None => rows'[t] # inner'[t]
      BY <2>2 DEF ExclusiveConns
    <3>3. QED BY <2>1, <3>1, <3>2, <1>2, MoveLemma
  <2>4. QED BY <2>1, <2>3
<1>5. CASE TakeSavepoint(t)
  <2>1. /\ want[t] = "savepoint" /\ rows[t] = None /\ inner[t] = None
        /\ conn' = [conn EXCEPT ![t] = h] /\ sps' = [sps EXCEPT ![t] = <<drawn>>]
        /\ released' = [released EXCEPT ![t] = FALSE]
        /\ UNCHANGED <<rows, inner>> /\ drawn' = drawn + 1
    BY <1>5 DEF TakeSavepoint, Take, Draw, h
  <2>2. <<drawn>> \in Seq(Names) /\ <<drawn>> # <<>>
    BY DEF Names
  <2>3. PoolTypeOK' /\ PoolShape' /\ Others(t)
    BY <1>1, <1>2, <2>1, <2>2 DEF Others, Purposes
  <2>4. /\ Holds(t)' = {h} /\ rows'[t] = None /\ inner'[t] = None
        /\ Bracket(t)' = h
    BY <1>2, <2>1 DEF Holds, Bracket, AtTop
  <2>5. ExclusiveConns'
    <3>1. /\ Holds(t)' \cup FreeSet' \subseteq Holds(t) \cup FreeSet
          /\ Holds(t)' \cap FreeSet' = {}
      BY <2>4, <1>2, <1>3
    <3>2. Bracket(t)' # None => Bracket(t)' \notin {rows'[t], inner'[t]}
      BY <2>4, <1>2
    <3>3. QED BY <2>3, <2>4, <3>1, <3>2, <1>2, MoveLemma
  <2>6. QED BY <2>3, <2>5
<1>6. CASE TakeExec(t)
  <2>1. /\ want[t] = "exec" /\ rows[t] = None /\ inner[t] = None /\ conn[t] = None
        /\ rows' = [rows EXCEPT ![t] = h]
        /\ UNCHANGED <<conn, sps, released, inner>> /\ drawn' = drawn + 1
    BY <1>6 DEF TakeExec, Take, Draw, h
  <2>2. PoolTypeOK' /\ PoolShape' /\ Others(t)
    BY <1>1, <1>2, <2>1 DEF Others, Purposes
  <2>3. /\ Holds(t)' = {h} /\ rows'[t] = h /\ inner'[t] = None
        /\ Bracket(t)' = None
    BY <1>2, <2>1 DEF Holds, Bracket, AtTop
  <2>4. ExclusiveConns'
    BY <2>2, <2>3, <1>2, <1>3, MoveLemma
  <2>5. QED BY <2>2, <2>4
<1>7. CASE TakeFilter(t)
  <2>1. /\ want[t] = "filter" /\ inner[t] = None
        /\ inner' = [inner EXCEPT ![t] = h]
        /\ UNCHANGED <<conn, sps, released, rows, drawn>>
    BY <1>1, <1>7 DEF TakeFilter, Take, h
  <2>2. PoolTypeOK' /\ PoolShape' /\ Others(t)
    BY <1>1, <1>2, <2>1 DEF Others, Purposes
  <2>3. /\ Holds(t)' = Holds(t) \cup {h} /\ rows'[t] = rows[t] /\ inner'[t] = h
        /\ Bracket(t)' = Bracket(t)
    BY <1>2, <2>1 DEF Holds, Bracket, AtTop
  <2>4. h \notin {Bracket(t), rows[t]}
    BY <1>2, <1>3 DEF Holds
  <2>5. ExclusiveConns'
    <3>1. /\ Holds(t)' \cup FreeSet' \subseteq Holds(t) \cup FreeSet
          /\ Holds(t)' \cap FreeSet' = {}
      BY <2>3, <1>2, <1>3
    <3>2. /\ Bracket(t)' # None => Bracket(t)' \notin {rows'[t], inner'[t]}
          /\ rows'[t] # None => rows'[t] # inner'[t]
      BY <2>3, <2>4 DEF ExclusiveConns
    <3>3. QED BY <2>2, <3>1, <3>2, <1>2, MoveLemma
  <2>6. QED BY <2>2, <2>5
<1>8. QED BY <1>4, <1>5, <1>6, <1>7

\* Giving a connection back: Rows.Err, Release and Rollback (pool.go:111-151,
\* driver.go:311).
LEMMA PutSteps ==
  ASSUME PoolInv, NEW t \in Tasks,
         \/ RowsErr(t) \/ FilterDone(t)
         \/ Release(t) \/ ReleaseFails(t) \/ Rollback(t) \/ RollbackFails(t)
  PROVE  PoolInv'
<1> USE DEF PoolInv, PoolTypeOK, PoolShape, vars, poolVars, taskVars
<1>1. \A c : c \in Holds(t) => c \notin FreeSet
  BY DEF ExclusiveConns
<1>2. ASSUME NEW c \in Conns, c \in Holds(t), Put(c), Others(t),
             Holds(t)' = Holds(t) \ {c},
             /\ Bracket(t)' # None => Bracket(t)' \notin {rows'[t], inner'[t]}
             /\ rows'[t] # None => rows'[t] # inner'[t]
      PROVE  /\ ExclusiveConns'
             /\ free' \in Seq(Conns) /\ wait' \in Seq(Tasks)
  <2>1. /\ free' \in Seq(Conns) /\ wait' \in Seq(Tasks)
        /\ FreeSet' = FreeSet \cup {c}
        /\ \A i, j \in DOMAIN free' : free'[i] = free'[j] => i = j
    BY <1>1, <1>2, PutLemma DEF ExclusiveConns
  <2>2. Holds(t)' \cap FreeSet' = {} /\ Holds(t)' \cup FreeSet' \subseteq Holds(t) \cup FreeSet
    BY <1>1, <1>2, <2>1
  <2>3. QED BY <1>2, <2>1, <2>2, MoveLemma
<1>3. CASE RowsErr(t)
  <2>1. /\ rows[t] # None /\ inner[t] = None /\ conn[t] = None /\ Put(rows[t])
        /\ rows' = [rows EXCEPT ![t] = None]
        /\ UNCHANGED <<want, conn, sps, released, inner, drawn>>
    BY <1>3 DEF RowsErr, Runs
  <2>2. Others(t) /\ rows[t] \in Conns
    BY <2>1 DEF Others
  <2>3. /\ rows[t] \in Holds(t) /\ Holds(t)' = Holds(t) \ {rows[t]}
        /\ Bracket(t)' = None /\ rows'[t] = None
    BY <2>1 DEF Holds, Bracket, AtTop
  <2>4. /\ ExclusiveConns' /\ free' \in Seq(Conns) /\ wait' \in Seq(Tasks)
    BY <1>2, <2>1, <2>2, <2>3
  <2>5. QED BY <2>1, <2>4
<1>4. CASE FilterDone(t)
  <2>1. /\ inner[t] # None /\ Put(inner[t])
        /\ inner' = [inner EXCEPT ![t] = None]
        /\ UNCHANGED <<want, conn, sps, released, rows, drawn>>
    BY <1>4 DEF FilterDone
  <2>2. Others(t) /\ inner[t] \in Conns
    BY <2>1 DEF Others
  <2>3. /\ inner[t] \in Holds(t) /\ Holds(t)' = Holds(t) \ {inner[t]}
        /\ Bracket(t)' = Bracket(t) /\ rows'[t] = rows[t] /\ inner'[t] = None
    BY <2>1 DEF Holds, Bracket, AtTop, ExclusiveConns
  <2>4. /\ Bracket(t)' # None => Bracket(t)' \notin {rows'[t], inner'[t]}
        /\ rows'[t] # None => rows'[t] # inner'[t]
    BY <2>3 DEF ExclusiveConns
  <2>5. /\ ExclusiveConns' /\ free' \in Seq(Conns) /\ wait' \in Seq(Tasks)
    BY <1>2, <2>1, <2>2, <2>3, <2>4
  <2>6. QED BY <2>1, <2>5
<1>5. CASE Release(t) \/ ReleaseFails(t) \/ Rollback(t) \/ RollbackFails(t)
  <2>1. /\ conn[t] # None /\ ~released[t] /\ inner[t] = None /\ rows[t] = None
        /\ conn[t] \in Conns /\ sps[t] \in Seq(Names) /\ sps[t] # <<>>
        /\ PutIfTop(t) /\ UNCHANGED <<want, rows, inner, drawn>>
    BY <1>5 DEF Release, ReleasePosition, ReleaseFails, Rollback, RollbackWith,
                RollbackFails, Leave, InSavepoint, Runs, PutIfTop
  <2>2. Holds(t) = {conn[t]} /\ Bracket(t) = conn[t]
    BY <2>1 DEF Holds, Bracket
  <2>3. \/ /\ released' = [released EXCEPT ![t] = TRUE]
           /\ UNCHANGED <<conn, sps>>
        \/ Leave(t)
    BY <1>5 DEF Release, ReleasePosition, ReleaseFails, Rollback, RollbackWith,
                RollbackFails
  <2>4. /\ Others(t)
        /\ Bracket(t)' = IF AtTop(t) THEN None ELSE conn[t]
        /\ Holds(t)' = IF AtTop(t) THEN {} ELSE {conn[t]}
    BY <2>1, <2>3, LeaveLemma DEF Leave, Others, Bracket, Holds, AtTop
  <2>5. /\ ExclusiveConns' /\ free' \in Seq(Conns) /\ wait' \in Seq(Tasks)
    <3>1. CASE AtTop(t)
      BY <3>1, <1>2, <2>1, <2>2, <2>4 DEF PutIfTop
    <3>2. CASE ~AtTop(t)
      <4>1. UNCHANGED <<free, wait, FreeSet>>
        BY <3>2, <2>1 DEF PutIfTop, FreeSet
      <4>2. QED BY <4>1, <3>2, <2>1, <2>2, <2>4, MoveLemma DEF ExclusiveConns
    <3>3. QED BY <3>1, <3>2
  <2>6. PoolTypeOK' /\ PoolShape'
    <3>1. CASE /\ released' = [released EXCEPT ![t] = TRUE]
               /\ UNCHANGED <<conn, sps>>
      BY <3>1, <2>1, <2>5
    <3>2. CASE Leave(t)
      BY <3>2, <2>1, <2>5, LeaveLemma DEF Leave, AtTop
    <3>3. QED BY <2>3, <3>1, <3>2
  <2>7. QED BY <2>5, <2>6
<1>6. QED BY <1>3, <1>4, <1>5

-----------------------------------------------------------------------------
(* The invariant                                                           *)

LEMMA PoolInit == Init => PoolInv
<1> SUFFICES ASSUME Init PROVE PoolInv
  OBVIOUS
<1>1. PICK s \in [1..Cardinality(Conns) -> Conns] :
        /\ \A i, j \in DOMAIN s : s[i] = s[j] => i = j
        /\ free = s
  BY DEF Init
<1>2. free \in Seq(Conns)
  BY <1>1, FS_CardinalityType, ConnsAssumption, SeqDef
<1>3. PoolTypeOK
  BY <1>2, EmptySeq DEF Init, PoolTypeOK, Purposes
<1>4. PoolShape
  BY DEF Init, PoolShape
<1>5. \A t \in Tasks : Bracket(t) = None /\ Holds(t) = {}
  BY DEF Init, Bracket, Holds
<1>6. ExclusiveConns
  BY <1>1, <1>5 DEF ExclusiveConns, Init
<1>7. QED BY <1>3, <1>4, <1>6 DEF PoolInv

LEMMA PoolNext == PoolInv /\ [Next]_vars => PoolInv'
<1> SUFFICES ASSUME PoolInv, [Next]_vars PROVE PoolInv'
  OBVIOUS
<1>1. CASE UNCHANGED vars
  <2>1. UNCHANGED <<free, conn, sps, released, rows, inner, wait, want, drawn>>
    BY <1>1 DEF vars, poolVars, taskVars
  <2>2. PoolTypeOK' /\ PoolShape'
    BY <2>1 DEF PoolInv, PoolTypeOK, PoolShape
  <2>3. QED BY <2>1, <2>2, SameConnsLemma DEF PoolInv
<1>2. ASSUME NEW t \in Tasks, Step(t)
      PROVE  PoolInv'
  BY <1>2, QuietSteps, TakeSteps, PutSteps DEF Step
<1>3. QED BY <1>1, <1>2 DEF Next, Finished

\* The types of the pool and of the contexts hold whatever the number of
\* connections, tasks and nested savepoints (pool.go).
THEOREM PoolTypes == Spec => [](PoolTypeOK /\ PoolShape)
<1>1. PoolInv => PoolTypeOK /\ PoolShape
  BY DEF PoolInv
<1>2. QED BY <1>1, PoolInit, PoolNext, PTL DEF Spec

\* A connection has one owner at a time and is never put back twice: neither
\* the deferred Rollback after Release, nor a second Rows.Err, nor a nested
\* savepoint gives back what is not the caller's (pool.go:111-151,
\* driver.go:311-324).
THEOREM OneOwner == Spec => []ExclusiveConns
<1>1. PoolInv => ExclusiveConns
  BY DEF PoolInv
<1>2. QED BY <1>1, PoolInit, PoolNext, PTL DEF Spec

-----------------------------------------------------------------------------
(* Wake-ups                                                                *)

\* The tasks in take() on their way to a connection.
Waking == {t \in Tasks : Awake(t)}

\* A task sleeps once, and only in take(); and NoLostWakeup.
WaitInv ==
  /\ IsFiniteSet(Waking)
  /\ \A i, j \in DOMAIN wait : wait[i] = wait[j] => i = j
  /\ \A i \in DOMAIN wait : want[wait[i]] # "none"
  /\ NoLostWakeup

\* put (pool.go:127-134) frees one connection and wakes one sleeper up.
LEMMA PutWakes ==
  ASSUME PoolTypeOK, WaitInv, NEW c \in Conns, Put(c), want' = want
  PROVE  WaitInv'
<1>1. /\ free \in Seq(Conns) /\ wait \in Seq(Tasks) /\ Len(free) \in Nat
      /\ free' = Append(free, c)
  BY LenProperties DEF PoolTypeOK, Put
<1>2. Len(free') = Len(free) + 1
  BY <1>1, AppendProperties
<1>3. CASE wait = <<>>
  <2>1. wait' = wait BY <1>3 DEF Put
  <2>2. Waking' = Waking BY <2>1, <1>1, want' = want DEF Waking, Awake
  <2>3. QED BY <1>3, <2>1, <2>2 DEF WaitInv, NoLostWakeup
<1>4. CASE wait # <<>>
  <2> DEFINE h == wait[1]
             n == Len(wait)
  <2>1. wait' = Tail(wait) BY <1>4 DEF Put
  <2>2. n \in Nat \ {0} /\ DOMAIN wait = 1..n
    BY <1>1, <1>4, EmptySeq, LenProperties
  <2>3. /\ wait' \in Seq(Tasks) /\ DOMAIN wait' = 1..(n - 1)
        /\ \A i \in 1..(n - 1) : wait'[i] = wait[i + 1]
    <3>1. /\ wait' \in Seq(Tasks) /\ Len(wait') = n - 1
          /\ \A i \in 1..Len(wait') : wait'[i] = wait[i + 1]
      BY <1>1, <1>4, <2>1, HeadTailProperties
    <3>2. DOMAIN wait' = 1..Len(wait') BY <3>1, LenProperties
    <3>3. QED BY <3>1, <3>2
  <2> HIDE DEF n
  <2>4. h \in Tasks /\ want[h] # "none"
    BY <1>1, <2>2, ElementOfSeq DEF WaitInv, n
  <2>5. {wait'[i] : i \in DOMAIN wait'} = {wait[i] : i \in DOMAIN wait} \ {h}
    <3>1. \A i \in 1..(n - 1) : i + 1 \in 1..n /\ wait[i + 1] # h
      BY <2>2 DEF WaitInv
    <3>2. \A i \in 1..n : wait[i] # h => i - 1 \in 1..(n - 1) /\ wait'[i - 1] = wait[i]
      BY <2>2, <2>3
    <3>3. {wait'[i] : i \in 1..(n - 1)} \subseteq {wait[i] : i \in 1..n} \ {h}
      BY <2>3, <3>1
    <3>4. {wait[i] : i \in 1..n} \ {h} \subseteq {wait'[i] : i \in 1..(n - 1)}
      BY <3>2
    <3>5. QED BY <2>2, <2>3, <3>3, <3>4
  <2>6. h \in {wait[i] : i \in DOMAIN wait}
    BY <2>2
  <2>7. h \notin Waking /\ Waking' = Waking \cup {h}
    BY <2>4, <2>5, <2>6, want' = want DEF Waking, Awake
  <2>8. /\ IsFiniteSet(Waking')
        /\ Cardinality(Waking') = Cardinality(Waking) + 1
        /\ Cardinality(Waking) \in Nat
    BY <2>7, FS_AddElement, FS_CardinalityType DEF WaitInv
  <2>9. NoLostWakeup'
    BY <1>1, <1>2, <1>4, <2>8 DEF WaitInv, NoLostWakeup, Waking
  <2>10. /\ \A i, j \in DOMAIN wait' : wait'[i] = wait'[j] => i = j
         /\ \A i \in DOMAIN wait' : want'[wait'[i]] # "none"
    <3>1. \A i \in 1..(n - 1) : i + 1 \in 1..n BY <2>2
    <3>2. ASSUME NEW i \in 1..(n - 1), NEW j \in 1..(n - 1), wait'[i] = wait'[j]
          PROVE  i = j
      <4>1. i + 1 = j + 1 BY ZenonT(30), <2>2, <2>3, <3>1, <3>2 DEF WaitInv
      <4>2. QED BY <4>1
    <3>3. QED BY <2>2, <2>3, <3>1, <3>2, want' = want DEF WaitInv
  <2>11. QED BY <2>8, <2>9, <2>10 DEF WaitInv
<1>5. QED BY <1>3, <1>4

\* Leaving take() with a connection takes one task and one connection away
\* (pool.go:104-108).
LEMMA TakeWakes ==
  ASSUME PoolTypeOK, WaitInv, NEW t \in Tasks, NEW p \in Purposes \ {"none"}, Take(t, p)
  PROVE  WaitInv'
<1>1. /\ free \in Seq(Conns) /\ Len(free) \in Nat \ {0} /\ wait' = wait
      /\ free' = SubSeq(free, 1, Len(free) - 1)
      /\ want' = [want EXCEPT ![t] = "none"] /\ t \in Waking
  BY EmptySeq DEF PoolTypeOK, Take, Waking
<1>2. Len(free') = Len(free) - 1
  <2> DEFINE m == Len(free) - 1
  <2>1. m \in Nat /\ \A i \in 1..m : free[i] \in Conns
    BY <1>1, ElementOfSeq
  <2> HIDE DEF m
  <2>2. Len(SubSeq(free, 1, m)) = IF 1 <= m THEN m - 1 + 1 ELSE 0
    BY <2>1, SubSeqProperties
  <2>3. Len(SubSeq(free, 1, m)) = m BY <2>1, <2>2
  <2>4. QED BY <1>1, <2>3 DEF m
<1>3. t \notin {wait[i] : i \in DOMAIN wait}
  BY <1>1 DEF Waking, Awake
<1>4. Waking' = Waking \ {t}
  BY <1>1 DEF Waking, Awake, PoolTypeOK
<1>5. /\ IsFiniteSet(Waking')
      /\ Cardinality(Waking') = Cardinality(Waking) - 1
      /\ Cardinality(Waking) \in Nat
  BY <1>1, <1>4, FS_RemoveElement, FS_CardinalityType DEF WaitInv
<1>6. NoLostWakeup'
  BY <1>1, <1>2, <1>5 DEF WaitInv, NoLostWakeup, Waking
<1>7. QED
  BY <1>1, <1>3, <1>5, <1>6 DEF WaitInv, PoolTypeOK

\* What enters take() or falls asleep (pool.go:98-102).
LEMMA CallWakes ==
  ASSUME PoolTypeOK, WaitInv, NEW t \in Tasks,
         CallSavepoint(t) \/ CallExec(t) \/ CallFilter(t) \/ Sleep(t)
  PROVE  WaitInv'
<1>1. CASE CallSavepoint(t) \/ CallExec(t) \/ CallFilter(t)
  <2>1. PICK p \in {"savepoint", "exec", "filter"} : want' = [want EXCEPT ![t] = p]
    BY <1>1 DEF CallSavepoint, CallExec, CallFilter, Call
  <2>2. want[t] = "none" /\ UNCHANGED <<free, wait>>
    BY <1>1 DEF CallSavepoint, CallExec, CallFilter, Call, Runs
  <2>3. t \notin {wait[i] : i \in DOMAIN wait}
    BY <2>2 DEF WaitInv
  <2>4. Waking' = Waking \cup {t} /\ t \notin Waking
    BY <2>1, <2>2, <2>3 DEF Waking, Awake, PoolTypeOK
  <2>5. /\ IsFiniteSet(Waking')
        /\ Cardinality(Waking') = Cardinality(Waking) + 1
        /\ Cardinality(Waking) \in Nat
    BY <2>4, FS_AddElement, FS_CardinalityType DEF WaitInv
  <2>6. NoLostWakeup'
    <3>1. Len(free) \in Nat BY LenProperties DEF PoolTypeOK
    <3>2. QED BY <2>2, <2>5, <3>1 DEF WaitInv, NoLostWakeup, Waking
  <2>7. QED BY <2>1, <2>2, <2>5, <2>6 DEF WaitInv, PoolTypeOK
<1>2. CASE Sleep(t)
  <2>1. /\ wait' = Append(wait, t) /\ UNCHANGED <<free, want>> /\ free = <<>>
        /\ t \in Waking /\ wait \in Seq(Tasks) /\ Len(wait) \in Nat
    BY <1>2, LenProperties DEF Sleep, Waking, PoolTypeOK
  <2>2. /\ DOMAIN wait' = 1..(Len(wait) + 1) /\ DOMAIN wait = 1..Len(wait)
        /\ \A i \in 1..Len(wait) : wait'[i] = wait[i]
        /\ wait'[Len(wait) + 1] = t
    <3>1. wait' \in Seq(Tasks) /\ Len(wait') = Len(wait) + 1
      BY <2>1, AppendProperties
    <3>2. QED BY <2>1, <3>1, AppendProperties, LenProperties
  <2>3. \A i \in DOMAIN wait : wait[i] # t
    BY <2>1 DEF Waking, Awake
  <2>4. {wait'[i] : i \in DOMAIN wait'} = {wait[i] : i \in DOMAIN wait} \cup {t}
    BY <2>1, <2>2
  <2>5. Waking' = Waking \ {t}
    BY <2>1, <2>4 DEF Waking, Awake
  <2>6. IsFiniteSet(Waking') /\ Cardinality(Waking') \in Nat
    BY <2>5, FS_RemoveElement, FS_CardinalityType DEF WaitInv
  <2>7. NoLostWakeup'
    BY <2>1, <2>6 DEF NoLostWakeup, Waking
  <2>8. /\ \A i, j \in DOMAIN wait' : wait'[i] = wait'[j] => i = j
        /\ \A i \in DOMAIN wait' : want'[wait'[i]] # "none"
    BY <2>1, <2>2, <2>3 DEF WaitInv, Waking, Awake
  <2>9. QED BY <2>6, <2>7, <2>8 DEF WaitInv
<1>3. QED BY <1>1, <1>2

LEMMA WakeStep == PoolInv /\ WaitInv /\ [Next]_vars => WaitInv'
<1> SUFFICES ASSUME PoolInv, WaitInv, [Next]_vars PROVE WaitInv'
  OBVIOUS
<1>1. PoolTypeOK BY DEF PoolInv
<1>2. ASSUME UNCHANGED poolVars PROVE WaitInv'
  BY <1>2 DEF poolVars, WaitInv, Waking, Awake, NoLostWakeup
<1>3. CASE UNCHANGED vars
  BY <1>2, <1>3 DEF vars
<1>4. ASSUME NEW t \in Tasks, Step(t) PROVE WaitInv'
  <2>1. CASE CallSavepoint(t) \/ CallExec(t) \/ CallFilter(t) \/ Sleep(t)
    BY <1>1, <2>1, CallWakes
  <2>2. CASE \/ TakeSavepoint(t) \/ TakeSavepointFails(t)
             \/ TakeExec(t) \/ TakeFilter(t)
    BY <1>1, <2>2, TakeWakes
    DEF TakeSavepoint, TakeSavepointFails, TakeExec, TakeFilter, Purposes
  <2>3. CASE RowsErr(t)
    BY <1>1, <2>3, PutWakes DEF RowsErr, PoolTypeOK
  <2>4. CASE FilterDone(t)
    BY <1>1, <2>4, PutWakes DEF FilterDone, PoolTypeOK
  <2>5. CASE Release(t) \/ ReleaseFails(t) \/ Rollback(t) \/ RollbackFails(t)
    <3>1. PutIfTop(t) /\ conn[t] \in Conns
      BY <1>1, <2>5 DEF Release, ReleasePosition, ReleaseFails, Rollback, RollbackWith,
                  RollbackFails, InSavepoint, PoolTypeOK
    <3>2. CASE AtTop(t)
      BY <1>1, <3>1, <3>2, PutWakes DEF PutIfTop
    <3>3. CASE ~AtTop(t)
      BY <1>2, <3>1, <3>3 DEF PutIfTop, poolVars
    <3>4. QED BY <3>2, <3>3
  <2>6. CASE \/ RowsForgotten(t) \/ SavepointNested(t) \/ Write(t)
             \/ RollbackReleased(t) \/ Abandon(t)
    BY <1>2, <2>6 DEF RowsForgotten, SavepointNested, Write, RollbackReleased, Abandon
  <2>7. QED BY <1>4, <2>1, <2>2, <2>3, <2>4, <2>5, <2>6 DEF Step
<1>5. QED BY <1>3, <1>4 DEF Next, Finished

\* Signal, which wakes one sleeper for each connection put back, is enough:
\* no connection stays free while a task sleeps and none is on its way to it
\* (pool.go:99-134).
THEOREM SignalSuffices == Spec => []NoLostWakeup
<1>1. Init => WaitInv
  <2> SUFFICES ASSUME Init PROVE WaitInv
    OBVIOUS
  <2>1. wait = <<>> /\ Waking = {} BY DEF Init, Waking, Awake
  <2>2. QED BY <2>1, FS_EmptySet DEF WaitInv, NoLostWakeup
<1>2. WaitInv => NoLostWakeup
  BY DEF WaitInv
<1>3. QED BY <1>1, <1>2, PoolInit, PoolNext, WakeStep, PTL DEF Spec

-----------------------------------------------------------------------------
(* Savepoints                                                              *)

\* The savepoints of t that it has neither released nor left.
Live(t) ==
  {sps[t][i] : i \in DOMAIN sps[t]} \ (IF released[t] THEN {Innermost(t)} ELSE {})

\* The writes in the open transaction of c.
AllWrites(c) == UNION {txn[c][i].writes : i \in DOMAIN txn[c]}

\* On a connection, savepoints are nested in the order of their names, and a write
\* that waits there to be committed waits nowhere else.
StackInv(c) ==
  /\ \A i, j \in DOMAIN txn[c] : i < j => txn[c][i].name < txn[c][j].name
  /\ \A i \in DOMAIN txn[c] : txn[c][i].name < drawn
  /\ \A w \in AllWrites(c) : w < drawn /\ w \notin db /\ w \notin undone
  /\ \A d \in Conns \ {c} : AllWrites(c) \cap AllWrites(d) = {}

\* So they are in the contexts.
NestInv(t) ==
  /\ \A i, j \in DOMAIN sps[t] : i < j => sps[t][i] < sps[t][j]
  /\ \A i \in DOMAIN sps[t] : sps[t][i] < drawn

\* Nothing is written under savepoint n of t but on t's connection, and none of it
\* has come to an end.
Fresh(t, n) ==
  /\ n \notin db \cup undone \cup acked
  /\ \A d \in Conns \ {conn[t]} : n \notin AllWrites(d)
  /\ \A u \in Tasks \ {t} : n \notin Live(u)

\* Savepoint n of t is open on its connection; what was written since is above it,
\* what was written before, and all that was acknowledged, below.
Nested(t, n) ==
  LET stack == txn[conn[t]]
  IN /\ \E i \in DOMAIN stack : stack[i].name = n
     /\ \A i \in DOMAIN stack : \A w \in stack[i].writes : w < n <=> stack[i].name < n
     /\ \A w \in acked \cap AllWrites(conn[t]) : w < n

LiveInv(t) == \A n \in Live(t) : Fresh(t, n) /\ Nested(t, n)

\* A transaction on a connection that is not tainted is that of the task which has
\* opened it.
Clean(c) ==
  c \notin tainted /\ txn[c] # <<>> =>
    \E t \in Tasks : Live(t) # {} /\ conn[t] = c /\ txn[c][1].name = sps[t][1]

History ==
  /\ db \cap undone = {}
  /\ \A w \in db \cup undone \cup acked : w < drawn
  /\ \A w \in acked : w \in db \/ \E c \in tainted : w \in AllWrites(c)

SavepointInv ==
  /\ DbTypeOK
  /\ \A c \in Conns : StackInv(c) /\ Clean(c)
  /\ \A t \in Tasks : NestInv(t) /\ LiveInv(t)
  /\ History

\* A level and its two fields.
LEMMA LevelLemma ==
  ASSUME NEW l \in Levels
  PROVE  /\ l.name \in Names /\ l.writes \in SUBSET Names
         /\ \A X : [l EXCEPT !.writes = X] = [name |-> l.name, writes |-> X]
         /\ \A X \in SUBSET Names : [name |-> l.name, writes |-> X] \in Levels
BY DEF Levels

\* All the writes of a transaction are those since its first savepoint.
LEMMA AllFromFirst ==
  ASSUME NEW c, txn[c] \in Seq(Levels)
  PROVE  WritesFrom(c, 1) = AllWrites(c)
<1>1. DOMAIN txn[c] = 1..Len(txn[c])  BY LenProperties
<1>2. QED BY <1>1 DEF WritesFrom, AllWrites

\* SAVEPOINT n (pool.go:84): a level without writes.
LEMMA OpenLemma ==
  ASSUME NEW c \in Conns, txn \in [Conns -> Seq(Levels)], NEW n \in Names, Open(c, n)
  PROVE  /\ txn' \in [Conns -> Seq(Levels)]
         /\ \A d \in Conns \ {c} : txn'[d] = txn[d]
         /\ DOMAIN txn'[c] = 1..(Len(txn[c]) + 1)
         /\ \A i \in 1..Len(txn[c]) : txn'[c][i] = txn[c][i]
         /\ txn'[c][Len(txn[c]) + 1].name = n /\ txn'[c][Len(txn[c]) + 1].writes = {}
         /\ AllWrites(c)' = AllWrites(c)
<1> DEFINE e == [name |-> n, writes |-> {}]
           s == txn[c]
           k == Len(s)
<1>1. e \in Levels /\ s \in Seq(Levels) /\ k \in Nat /\ DOMAIN s = 1..k
  BY LenProperties DEF Levels
<1>2. txn'[c] = Append(s, e) /\ \A d \in Conns \ {c} : txn'[d] = txn[d]
  BY DEF Open
<1>3. /\ txn'[c] \in Seq(Levels) /\ Len(txn'[c]) = k + 1
      /\ \A i \in 1..k : txn'[c][i] = s[i]
      /\ txn'[c][k + 1] = e
  BY <1>1, <1>2, AppendProperties
<1>4. DOMAIN txn'[c] = 1..(k + 1)  BY <1>3, LenProperties
<1>5. txn' \in [Conns -> Seq(Levels)]  BY <1>2, <1>3 DEF Open
<1>6. AllWrites(c)' = AllWrites(c)
  <2> HIDE DEF k, s, e
  <2>1. 1..(k + 1) = 1..k \cup {k + 1}  BY <1>1
  <2>2. \A i \in 1..k : txn'[c][i].writes = txn[c][i].writes  BY <1>3 DEF s
  <2>3. txn'[c][k + 1].writes = {}  BY <1>3 DEF e
  <2>4. DOMAIN txn[c] = 1..k BY <1>1 DEF s
  <2>5. QED BY <1>4, <2>1, <2>2, <2>3, <2>4 DEF AllWrites
<1>7. QED BY <1>2, <1>3, <1>4, <1>5, <1>6

\* RELEASE of a savepoint that is not the outermost one (pool.go:119): what was
\* written since joins the level below.
LEMMA ReleaseLemma ==
  ASSUME NEW c \in Conns, txn \in [Conns -> Seq(Levels)], NEW p \in DOMAIN txn[c], p # 1,
         ReleaseAt(c, p)
  PROVE  /\ txn' \in [Conns -> Seq(Levels)]
         /\ \A d \in Conns \ {c} : txn'[d] = txn[d]
         /\ DOMAIN txn'[c] = 1..(p - 1)
         /\ \A i \in 1..(p - 1) : txn'[c][i].name = txn[c][i].name
         /\ \A i \in 1..(p - 1) : txn'[c][i].writes =
              IF i = p - 1 THEN txn[c][i].writes \cup WritesFrom(c, p) ELSE txn[c][i].writes
         /\ AllWrites(c)' = AllWrites(c)
         /\ db' = db
<1> DEFINE s == txn[c]
           k == Len(s)
           m == p - 1
           r == SubSeq(s, 1, m)
           W == WritesFrom(c, p)
<1>1. s \in Seq(Levels) /\ k \in Nat /\ DOMAIN s = 1..k /\ p \in 2..k /\ m \in 1..k
  BY LenProperties
<1>2. \A i \in 1..k : s[i] \in Levels /\ s[i].name \in Names /\ s[i].writes \in SUBSET Names
  <2>1. \A i \in 1..k : s[i] \in Levels  BY <1>1, ElementOfSeq
  <2> QED  BY <2>1, LevelLemma
<1>3. r \in Seq(Levels) /\ DOMAIN r = 1..m /\ \A i \in 1..m : r[i] = s[i]
  <2>1. m \in Int /\ 1 <= m /\ \A i \in 1..m : s[i] \in Levels
    BY <1>1, <1>2
  <2> HIDE DEF m, s
  <2>2. /\ r \in Seq(Levels) /\ Len(r) = IF 1 <= m THEN m - 1 + 1 ELSE 0
        /\ \A i \in 1..m - 1 + 1 : r[i] = s[1 + i - 1]
    BY <2>1, SubSeqProperties
  <2>3. Len(r) = m /\ 1..m - 1 + 1 = 1..m /\ \A i \in 1..m : 1 + i - 1 = i
    BY <2>1, <2>2
  <2>4. DOMAIN r = 1..m BY <2>2, <2>3, LenProperties
  <2>5. QED BY <2>2, <2>3, <2>4
<1>4. W \in SUBSET Names
  BY <1>1, <1>2 DEF WritesFrom
<1>5. txn' = [txn EXCEPT ![c] = [r EXCEPT ![m].writes = @ \cup W]] /\ db' = db
  <2>1. ~(p = 1)  BY p # 1
  <2>2. QED BY <2>1, Zenon DEF ReleaseAt
<1> HIDE DEF s, k, m, r, W
<1>6. txn'[c] = [r EXCEPT ![m].writes = @ \cup W] /\ \A d \in Conns \ {c} : txn'[d] = txn[d]
  BY <1>5
<1>7. m \in 1..m /\ m \in Nat BY <1>1 DEF m
<1>8. /\ DOMAIN txn'[c] = 1..m
      /\ \A i \in 1..m : i # m => txn'[c][i] = s[i]
      /\ txn'[c][m] = [s[m] EXCEPT !.writes = @ \cup W]
  BY <1>3, <1>6, <1>7
<1>9. /\ [s[m] EXCEPT !.writes = @ \cup W] = [name |-> s[m].name, writes |-> s[m].writes \cup W]
  BY <1>1, <1>2, LevelLemma
<1>10. \A i \in 1..m : txn'[c][i] \in Levels
  <2>1. m \in 1..k /\ \A i \in 1..m : i \in 1..k  BY <1>1 DEF m
  <2>2. [name |-> s[m].name, writes |-> s[m].writes \cup W] \in Levels
    BY <1>2, <1>4, <2>1, LevelLemma
  <2>3. QED BY <1>2, <1>8, <1>9, <2>1, <2>2
<1>11. txn'[c] \in Seq(Levels)
  <2>1. txn'[c] \in [1..m -> Levels]
    BY <1>6, <1>8, <1>10
  <2>2. QED BY <1>7, <2>1, SeqDef
<1>12. txn' \in [Conns -> Seq(Levels)]
  BY <1>5, <1>11, <1>6
<1>13. \A i \in 1..m : /\ txn'[c][i].name = s[i].name
                       /\ txn'[c][i].writes = IF i = m THEN s[i].writes \cup W ELSE s[i].writes
  BY <1>8, <1>9
<1>14. AllWrites(c)' = AllWrites(c)
  <2>1. 1..k = 1..m \cup p..k /\ m \in 1..m BY <1>1 DEF m
  <2>2. W = UNION {s[i].writes : i \in p..k}  BY DEF W, WritesFrom, s, k
  <2>3. AllWrites(c) = UNION {s[i].writes : i \in 1..k}  BY <1>1 DEF AllWrites, s
  <2>4. AllWrites(c)' = UNION {txn'[c][i].writes : i \in 1..m}  BY <1>8 DEF AllWrites
  <2>5. \A i \in 1..m : /\ s[i].writes \subseteq txn'[c][i].writes
                         /\ txn'[c][i].writes \subseteq s[i].writes \cup W
    BY <1>13
  <2>6. W \subseteq txn'[c][m].writes  BY <1>13, <2>1
  <2>7. AllWrites(c)' \subseteq AllWrites(c)
    <3>1. ASSUME NEW v, NEW i \in 1..m, v \in txn'[c][i].writes
          PROVE  \E j \in 1..k : v \in s[j].writes
      <4>1. v \in s[i].writes \/ v \in W  BY <2>5, <3>1
      <4>2. QED BY <2>1, <2>2, <4>1
    <3>2. QED BY <2>3, <2>4, <3>1
  <2>8. AllWrites(c) \subseteq AllWrites(c)'
    <3>1. ASSUME NEW v, NEW i \in 1..k, v \in s[i].writes
          PROVE  \E j \in 1..m : v \in txn'[c][j].writes
      <4>1. CASE i \in 1..m  BY <4>1, <2>5, <3>1
      <4>2. CASE i \in p..k  BY <4>2, <2>1, <2>2, <2>6, <3>1
      <4>3. QED BY <2>1, <3>1, <4>1, <4>2
    <3>2. QED BY <2>3, <2>4, <3>1
  <2>9. QED BY <2>7, <2>8
<1>15. QED BY <1>5, <1>6, <1>8, <1>12, <1>13, <1>14 DEF m, s, W

\* RELEASE of the outermost savepoint commits.
LEMMA CommitLemma ==
  ASSUME NEW c \in Conns, txn \in [Conns -> Seq(Levels)], ReleaseAt(c, 1)
  PROVE  /\ txn' \in [Conns -> Seq(Levels)]
         /\ \A d \in Conns \ {c} : txn'[d] = txn[d]
         /\ txn'[c] = <<>> /\ DOMAIN txn'[c] = {} /\ AllWrites(c)' = {}
         /\ db' = db \cup AllWrites(c)
<1>1. txn' = [txn EXCEPT ![c] = <<>>] /\ db' = db \cup WritesFrom(c, 1)
  BY DEF ReleaseAt
<1>2. <<>> \in Seq(Levels) /\ DOMAIN <<>> = {}  BY EmptySeq, LenProperties
<1>3. WritesFrom(c, 1) = AllWrites(c)  BY AllFromFirst
<1>4. QED BY <1>1, <1>2, <1>3 DEF AllWrites

\* ROLLBACK TO (pool.go:139): the level stays, empty.
LEMMA RollbackLemma ==
  ASSUME NEW c \in Conns, txn \in [Conns -> Seq(Levels)], NEW p \in DOMAIN txn[c],
         RollbackAt(c, p)
  PROVE  /\ txn' \in [Conns -> Seq(Levels)]
         /\ \A d \in Conns \ {c} : txn'[d] = txn[d]
         /\ DOMAIN txn'[c] = 1..p
         /\ \A i \in 1..p : txn'[c][i].name = txn[c][i].name
         /\ \A i \in 1..p : txn'[c][i].writes = IF i = p THEN {} ELSE txn[c][i].writes
         /\ db' = db
<1> DEFINE s == txn[c]
           k == Len(s)
           r == SubSeq(s, 1, p)
<1>1. s \in Seq(Levels) /\ k \in Nat /\ DOMAIN s = 1..k /\ p \in 1..k
  BY LenProperties
<1>2. \A i \in 1..k : s[i] \in Levels /\ s[i].name \in Names /\ s[i].writes \in SUBSET Names
  <2>1. \A i \in 1..k : s[i] \in Levels  BY <1>1, ElementOfSeq
  <2> QED  BY <2>1, LevelLemma
<1>3. r \in Seq(Levels) /\ DOMAIN r = 1..p /\ \A i \in 1..p : r[i] = s[i]
  <2>1. p \in Int /\ 1 <= p /\ \A i \in 1..p : s[i] \in Levels
    BY <1>1, <1>2
  <2> HIDE DEF s
  <2>2. /\ r \in Seq(Levels) /\ Len(r) = IF 1 <= p THEN p - 1 + 1 ELSE 0
        /\ \A i \in 1..p - 1 + 1 : r[i] = s[1 + i - 1]
    BY <2>1, SubSeqProperties
  <2>3. Len(r) = p /\ 1..p - 1 + 1 = 1..p /\ \A i \in 1..p : 1 + i - 1 = i
    BY <2>1, <2>2
  <2>4. DOMAIN r = 1..p BY <2>2, <2>3, LenProperties
  <2>5. QED BY <2>2, <2>3, <2>4
<1>4. txn' = [txn EXCEPT ![c] = [r EXCEPT ![p].writes = {}]] /\ db' = db
  BY DEF RollbackAt
<1> HIDE DEF s, k, r
<1>5. txn'[c] = [r EXCEPT ![p].writes = {}] /\ \A d \in Conns \ {c} : txn'[d] = txn[d]
  BY <1>4
<1>6. p \in 1..p /\ p \in Nat  BY <1>1
<1>7. /\ DOMAIN txn'[c] = 1..p
      /\ \A i \in 1..p : i # p => txn'[c][i] = s[i]
      /\ txn'[c][p] = [s[p] EXCEPT !.writes = {}]
  BY <1>3, <1>5, <1>6
<1>8. [s[p] EXCEPT !.writes = {}] = [name |-> s[p].name, writes |-> {}]
  BY <1>1, <1>2, LevelLemma
<1>9. \A i \in 1..p : txn'[c][i] \in Levels
  <2>1. \A i \in 1..p : i \in 1..k  BY <1>1
  <2>2. [name |-> s[p].name, writes |-> {}] \in Levels
    BY <1>1, <1>2, LevelLemma
  <2>3. QED BY <1>2, <1>7, <1>8, <2>1, <2>2
<1>10. txn'[c] \in Seq(Levels)
  <2>1. txn'[c] \in [1..p -> Levels]  BY <1>5, <1>7, <1>9
  <2>2. QED BY <1>6, <2>1, SeqDef
<1>11. txn' \in [Conns -> Seq(Levels)]  BY <1>4, <1>5, <1>10
<1>12. QED BY ZenonT(30), <1>4, <1>5, <1>7, <1>8, <1>11 DEF s

\* A statement that writes w in a transaction: the innermost savepoint gets it.
LEMMA WriteLemma ==
  ASSUME NEW c \in Conns, txn \in [Conns -> Seq(Levels)], NEW w \in Names, txn[c] # <<>>,
         WriteOn(c, w)
  PROVE  /\ txn' \in [Conns -> Seq(Levels)]
         /\ \A d \in Conns \ {c} : txn'[d] = txn[d]
         /\ DOMAIN txn'[c] = DOMAIN txn[c]
         /\ \A i \in DOMAIN txn[c] : txn'[c][i].name = txn[c][i].name
         /\ \A i \in DOMAIN txn[c] : txn'[c][i].writes =
              IF i = Len(txn[c]) THEN txn[c][i].writes \cup {w} ELSE txn[c][i].writes
         /\ AllWrites(c)' = AllWrites(c) \cup {w}
         /\ db' = db /\ wlock' = c
<1> DEFINE s == txn[c]
           k == Len(s)
<1>1. s \in Seq(Levels) /\ k \in Nat \ {0} /\ DOMAIN s = 1..k
  BY LenProperties, EmptySeq
<1>2. \A i \in 1..k : s[i] \in Levels /\ s[i].name \in Names /\ s[i].writes \in SUBSET Names
  <2>1. \A i \in 1..k : s[i] \in Levels  BY <1>1, ElementOfSeq
  <2> QED  BY <2>1, LevelLemma
<1>3. txn' = [txn EXCEPT ![c][k].writes = @ \cup {w}] /\ db' = db /\ wlock' = c
  BY DEF WriteOn
<1> HIDE DEF s, k
<1>4. txn'[c] = [s EXCEPT ![k].writes = @ \cup {w}] /\ \A d \in Conns \ {c} : txn'[d] = txn[d]
  BY <1>3 DEF s
<1>5. k \in 1..k BY <1>1
<1>6. /\ DOMAIN txn'[c] = 1..k
      /\ \A i \in 1..k : i # k => txn'[c][i] = s[i]
      /\ txn'[c][k] = [s[k] EXCEPT !.writes = @ \cup {w}]
  BY <1>1, <1>4, <1>5
<1>7. [s[k] EXCEPT !.writes = @ \cup {w}] = [name |-> s[k].name, writes |-> s[k].writes \cup {w}]
  BY <1>2, <1>5, LevelLemma
<1>8. \A i \in 1..k : txn'[c][i] \in Levels
  <2>1. [name |-> s[k].name, writes |-> s[k].writes \cup {w}] \in Levels
    BY <1>2, <1>5, LevelLemma
  <2>2. QED BY <1>2, <1>6, <1>7, <2>1
<1>9. txn'[c] \in Seq(Levels)
  <2>1. txn'[c] \in [1..k -> Levels]  BY <1>1, <1>4, <1>6, <1>8
  <2>2. QED BY <1>1, <2>1, SeqDef
<1>10. txn' \in [Conns -> Seq(Levels)]  BY <1>3, <1>4, <1>9
<1>11. \A i \in 1..k : /\ txn'[c][i].name = s[i].name
                       /\ txn'[c][i].writes = IF i = k THEN s[i].writes \cup {w} ELSE s[i].writes
  BY <1>6, <1>7
<1>12. AllWrites(c)' = AllWrites(c) \cup {w}
  <2>1. AllWrites(c) = UNION {s[i].writes : i \in 1..k}  BY <1>1 DEF AllWrites, s
  <2>2. AllWrites(c)' = UNION {txn'[c][i].writes : i \in 1..k}  BY <1>6 DEF AllWrites
  <2>3. \A i \in 1..k : /\ s[i].writes \subseteq txn'[c][i].writes
                         /\ txn'[c][i].writes \subseteq s[i].writes \cup {w}
    BY <1>11
  <2>4. w \in txn'[c][k].writes  BY <1>5, <1>11
  <2>5. AllWrites(c)' \subseteq AllWrites(c) \cup {w}
    <3>1. ASSUME NEW v, NEW i \in 1..k, v \in txn'[c][i].writes, v # w
          PROVE  v \in s[i].writes
      BY <2>3, <3>1
    <3>2. QED BY <2>1, <2>2, <3>1
  <2>6. AllWrites(c) \cup {w} \subseteq AllWrites(c)'
    BY <1>5, <2>1, <2>2, <2>3, <2>4
  <2>7. QED BY <2>5, <2>6
<1>13. QED BY <1>1, <1>3, <1>4, <1>6, <1>10, <1>11, <1>12 DEF s, k

\* A task with savepoints holds their connection, and nobody else does.
LEMMA LiveHolds ==
  ASSUME PoolInv, NEW t \in Tasks, Live(t) # {}
  PROVE  /\ conn[t] \in Conns /\ conn[t] \notin FreeSet
         /\ sps[t] # <<>> /\ sps[t] \in Seq(Names)
         /\ \A u \in Tasks \ {t} : Live(u) = {} \/ conn[u] # conn[t]
<1>1. ASSUME NEW u \in Tasks, Live(u) # {}
      PROVE  /\ sps[u] # <<>> /\ sps[u] \in Seq(Names)
             /\ conn[u] \in Conns /\ conn[u] \in Holds(u)
  <2>1. sps[u] \in Seq(Names) /\ DOMAIN sps[u] = 1..Len(sps[u]) /\ Len(sps[u]) \in Nat
    BY LenProperties DEF PoolInv, PoolTypeOK
  <2>2. sps[u] # <<>>
    BY <1>1, <2>1, EmptySeq DEF Live
  <2>3. conn[u] \in Conns /\ conn[u] # None
    BY <2>2, ConnsAssumption DEF PoolInv, PoolShape, PoolTypeOK
  <2>4. ~(AtTop(u) /\ released[u])
    <3>1. SUFFICES ASSUME AtTop(u), released[u] PROVE FALSE
      OBVIOUS
    <3>2. DOMAIN sps[u] = {1} /\ Innermost(u) = sps[u][1]
      BY <2>1, <3>1 DEF AtTop, Innermost
    <3>3. Live(u) = {} BY <3>1, <3>2 DEF Live
    <3>4. QED BY <3>3, <1>1
  <2>5. Bracket(u) = conn[u] BY <2>4 DEF Bracket
  <2>6. QED BY <2>1, <2>2, <2>3, <2>5 DEF Holds
<1>2. \A u \in Tasks \ {t} : Live(u) = {} \/ conn[u] # conn[t]
  BY <1>1, Live(t) # {} DEF PoolInv, ExclusiveConns
<1>3. conn[t] \notin FreeSet
  BY <1>1, Live(t) # {} DEF PoolInv, ExclusiveConns
<1>4. QED BY <1>1, <1>2, <1>3

\* An acknowledged write that is not committed is on a tainted connection.
LEMMA AckedTaints ==
  ASSUME SavepointInv, NEW c \in Conns, NEW w \in acked, w \in AllWrites(c)
  PROVE  c \in tainted
<1>1. w \notin db BY DEF SavepointInv, StackInv
<1>2. PICK d \in tainted : w \in AllWrites(d) BY <1>1 DEF SavepointInv, History
<1>3. d = c BY <1>2 DEF SavepointInv, StackInv, DbTypeOK
<1>4. QED BY <1>2, <1>3

\* The savepoints of other tasks do not change.
LEMMA OtherLive ==
  ASSUME NEW t \in Tasks, Others(t), NEW u \in Tasks, u # t
  PROVE  Live(u)' = Live(u)
BY DEF Others, Live, Innermost

\* A step of t that changes no transaction and no write: t may leave savepoints,
\* the last one only when its connection gets tainted.
LEMMA QuietLemma ==
  ASSUME PoolInv, SavepointInv, DbTypeOK', NEW t \in Tasks, Others(t), drawn \in Nat, drawn' \in Nat,
         drawn <= drawn', UNCHANGED <<txn, db, acked, undone>>, tainted \subseteq tainted',
         Live(t)' \subseteq Live(t),
         Live(t)' # {} => conn'[t] = conn[t] /\ sps'[t][1] = sps[t][1],
         NestInv(t)',
         Live(t) # {} /\ Live(t)' = {} => conn[t] \in tainted'
  PROVE  SavepointInv'
<1>1. \A c : AllWrites(c)' = AllWrites(c)  BY DEF AllWrites
<1>2. \A u \in Tasks \ {t} : Live(u)' = Live(u) /\ conn'[u] = conn[u] /\ sps'[u] = sps[u]
  BY OtherLive DEF Others
<1>3. \A u \in Tasks : Live(u)' \subseteq Live(u)  BY <1>2
<1>4. \A w \in Nat : w < drawn => w < drawn' BY drawn \in Nat, drawn' \in Nat, drawn <= drawn'
<1>5. ASSUME NEW c \in Conns PROVE StackInv(c)'
  <2>1. StackInv(c) BY DEF SavepointInv
  <2>2. \A i \in DOMAIN txn[c] : txn[c][i].name \in Nat
    <3>1. txn[c] \in Seq(Levels) BY DEF SavepointInv, DbTypeOK
    <3>2. DOMAIN txn[c] = 1..Len(txn[c]) BY <3>1, LenProperties
    <3>3. QED BY <3>1, <3>2, ElementOfSeq, LevelLemma DEF Names
  <2>3. \A w \in AllWrites(c) : w \in Nat
    <3>1. txn[c] \in Seq(Levels) BY DEF SavepointInv, DbTypeOK
    <3>2. DOMAIN txn[c] = 1..Len(txn[c]) BY <3>1, LenProperties
    <3>3. \A i \in DOMAIN txn[c] : txn[c][i].writes \subseteq Nat
      BY <3>1, <3>2, ElementOfSeq, LevelLemma DEF Names
    <3>4. QED BY <3>3 DEF AllWrites
  <2>4. QED BY <1>1, <1>4, <2>1, <2>2, <2>3 DEF StackInv
<1>6. ASSUME NEW c \in Conns PROVE Clean(c)'
  <2>1. SUFFICES ASSUME c \notin tainted', txn'[c] # <<>>
                 PROVE  \E u \in Tasks : Live(u)' # {} /\ conn'[u] = c /\ txn'[c][1].name = sps'[u][1]
    BY DEF Clean
  <2>2. PICK u \in Tasks : Live(u) # {} /\ conn[u] = c /\ txn[c][1].name = sps[u][1]
    BY <2>1 DEF SavepointInv, Clean
  <2>3. Live(u)' # {} BY <1>2, <2>1, <2>2
  <2>4. QED BY <1>2, <2>2, <2>3
<1>7. ASSUME NEW u \in Tasks PROVE NestInv(u)'
  <2>1. CASE u = t BY <2>1
  <2>2. CASE u # t
    <3>1. NestInv(u) /\ sps'[u] = sps[u] BY <1>2, <2>2 DEF SavepointInv
    <3>2. \A i \in DOMAIN sps[u] : sps[u][i] \in Nat
      <4>1. sps[u] \in Seq(Names) BY DEF PoolInv, PoolTypeOK
      <4>2. QED BY <4>1, LenProperties, ElementOfSeq DEF Names
    <3>3. QED BY <3>1, <3>2, <1>4 DEF NestInv
  <2>3. QED BY <2>1, <2>2
<1>8. ASSUME NEW u \in Tasks, NEW n \in Live(u)' PROVE Fresh(u, n)' /\ Nested(u, n)'
  <2>1. n \in Live(u) /\ conn'[u] = conn[u] BY <1>2, <1>3, <1>8
  <2>2. Fresh(u, n) /\ Nested(u, n) BY <2>1 DEF SavepointInv, LiveInv
  <2>3. Fresh(u, n)' BY <1>1, <1>3, <2>1, <2>2 DEF Fresh
  <2>4. Nested(u, n)' BY <1>1, <2>1, <2>2 DEF Nested
  <2>5. QED BY <2>3, <2>4
<1>9. History'
  <2>1. \A w \in db \cup undone \cup acked : w \in Nat BY DEF SavepointInv, DbTypeOK, Names
  <2>2. QED BY <1>1, <1>4, <2>1 DEF SavepointInv, History
<1>10. QED BY <1>5, <1>6, <1>7, <1>8, <1>9 DEF SavepointInv, LiveInv

\* Names and writes are numbers.
LEMMA NumbersLemma ==
  ASSUME DbTypeOK, NEW c \in Conns
  PROVE  /\ \A i \in DOMAIN txn[c] : txn[c][i].name \in Nat /\ txn[c][i].writes \subseteq Nat
         /\ AllWrites(c) \subseteq Nat
<1>1. txn[c] \in Seq(Levels) BY DEF DbTypeOK
<1>2. DOMAIN txn[c] = 1..Len(txn[c]) BY <1>1, LenProperties
<1>3. \A i \in DOMAIN txn[c] : txn[c][i].name \in Nat /\ txn[c][i].writes \subseteq Nat
  BY <1>1, <1>2, ElementOfSeq, LevelLemma DEF Names
<1>4. QED BY <1>3 DEF AllWrites

\* A step of t that changes the transaction of connection c, which is t's if it is
\* anybody's, and makes the writes new: what was on c or is new may be committed,
\* undone or acknowledged; the rest is as before.
Effect(t, c, new) ==
  /\ Others(t) /\ drawn \in Nat /\ drawn' \in Nat /\ drawn <= drawn'
  /\ \A d \in Conns \ {c} : txn'[d] = txn[d]
  /\ Live(t) = {} \/ conn[t] = c
  /\ Live(t)' = {} \/ conn'[t] = c
  /\ Live(t)' \subseteq Live(t) \cup {drawn}
  /\ \A u \in Tasks \ {t} : Live(u) = {} \/ conn[u] # c
  /\ \A w \in new : /\ w \in Nat /\ w < drawn' /\ w \notin db \cup undone \cup acked
                    /\ \A d \in Conns \ {c} : w \notin AllWrites(d)
                    /\ \A u \in Tasks \ {t} : w \notin Live(u)
  /\ AllWrites(c)' \subseteq AllWrites(c) \cup new
  /\ db \subseteq db' /\ undone \subseteq undone' /\ acked \subseteq acked'
  /\ tainted \subseteq tainted'
  /\ \A w \in db' \ db : w \in AllWrites(c) \cup new /\ w \notin AllWrites(c)' /\ w \notin undone'
  /\ \A w \in undone' \ undone : w \in AllWrites(c) /\ w \notin AllWrites(c)' /\ w \notin db'
  /\ acked' \subseteq acked \cup AllWrites(c) \cup new
  /\ \A w \in acked' : w \in AllWrites(c) \cup new =>
                         w \in db' \/ (c \in tainted' /\ w \in AllWrites(c)')

\* What remains to show of such a step: t's own savepoints, and its connection.
LEMMA EffectLemma ==
  ASSUME PoolInv, PoolInv', SavepointInv, DbTypeOK', NEW t \in Tasks, NEW c \in Conns, NEW new,
         Effect(t, c, new),
         \A i, j \in DOMAIN txn'[c] : i < j => txn'[c][i].name < txn'[c][j].name,
         \A i \in DOMAIN txn'[c] : txn'[c][i].name < drawn',
         NestInv(t)', Clean(c)',
         \A n \in Live(t)' : n \notin db' \cup undone' \cup acked' /\ Nested(t, n)'
  PROVE  SavepointInv'
<1>1. \A d \in Conns \ {c} : txn'[d] = txn[d] /\ AllWrites(d)' = AllWrites(d)
  BY DEF Effect, AllWrites
<1>2. \A u \in Tasks \ {t} : Live(u)' = Live(u) /\ conn'[u] = conn[u] /\ sps'[u] = sps[u]
  BY OtherLive DEF Others, Effect
<1>3. \A w \in Nat : w < drawn => w < drawn'  BY DEF Effect
<1>4. \A d \in Conns : AllWrites(d) \subseteq Nat  BY NumbersLemma DEF SavepointInv
<1>5. \A u \in Tasks : \A n \in Live(u) : n \in Nat /\ n < drawn
  <2>1. ASSUME NEW u \in Tasks PROVE \A i \in DOMAIN sps[u] : sps[u][i] \in Nat
    <3>1. sps[u] \in Seq(Names) BY DEF PoolInv, PoolTypeOK
    <3>2. QED BY <3>1, LenProperties, ElementOfSeq DEF Names
  <2>2. QED BY <2>1 DEF SavepointInv, NestInv, Live
<1>6. \A d \in Conns \ {c} : AllWrites(d) \cap (AllWrites(c) \cup new) = {}
  BY DEF SavepointInv, StackInv, Effect
<1>7. ASSUME NEW d \in Conns \ {c} PROVE StackInv(d)'
  <2>1. StackInv(d) BY DEF SavepointInv
  <2>2. \A i \in DOMAIN txn[d] : txn[d][i].name \in Nat BY NumbersLemma DEF SavepointInv
  <2>3. /\ \A i, j \in DOMAIN txn'[d] : i < j => txn'[d][i].name < txn'[d][j].name
        /\ \A i \in DOMAIN txn'[d] : txn'[d][i].name < drawn'
    BY <1>1, <1>3, <2>1, <2>2 DEF StackInv
  <2>4. \A w \in AllWrites(d)' : w < drawn' /\ w \notin db' /\ w \notin undone'
    BY <1>1, <1>3, <1>4, <1>6, <2>1 DEF StackInv, Effect
  <2>5. \A e \in Conns \ {d} : AllWrites(d)' \cap AllWrites(e)' = {}
    <3>1. AllWrites(d)' \cap AllWrites(c)' = {} BY <1>1, <1>6 DEF Effect
    <3>2. QED BY <1>1, <2>1, <3>1 DEF StackInv
  <2>6. QED BY <2>3, <2>4, <2>5 DEF StackInv
<1>8. StackInv(c)'
  <2>1. StackInv(c) BY DEF SavepointInv
  <2>2. \A w \in AllWrites(c)' : w < drawn' /\ w \notin db' /\ w \notin undone'
    <3>1. ASSUME NEW w \in AllWrites(c)' PROVE w < drawn'
      BY <1>3, <1>4, <2>1 DEF StackInv, Effect
    <3>2. ASSUME NEW w \in AllWrites(c)' PROVE w \notin db' /\ w \notin undone'
      BY <2>1 DEF StackInv, Effect
    <3>3. QED BY <3>1, <3>2
  <2>3. \A e \in Conns \ {c} : AllWrites(c)' \cap AllWrites(e)' = {}
    BY <1>1, <1>6 DEF Effect
  <2>4. QED BY <2>2, <2>3 DEF StackInv
<1>9. ASSUME NEW d \in Conns \ {c} PROVE Clean(d)'
  <2>1. SUFFICES ASSUME d \notin tainted', txn'[d] # <<>>
                 PROVE  \E u \in Tasks : Live(u)' # {} /\ conn'[u] = d /\ txn'[d][1].name = sps'[u][1]
    BY DEF Clean
  <2>2. PICK u \in Tasks : Live(u) # {} /\ conn[u] = d /\ txn[d][1].name = sps[u][1]
    BY <1>1, <2>1 DEF SavepointInv, Clean, Effect
  <2>3. u # t BY <2>2 DEF Effect
  <2>4. QED BY <1>1, <1>2, <2>2, <2>3
<1>10. ASSUME NEW u \in Tasks \ {t} PROVE NestInv(u)'
  <2>1. NestInv(u) /\ sps'[u] = sps[u] BY <1>2 DEF SavepointInv
  <2>2. \A i \in DOMAIN sps[u] : sps[u][i] \in Nat
    <3>1. sps[u] \in Seq(Names) BY DEF PoolInv, PoolTypeOK
    <3>2. QED BY <3>1, LenProperties, ElementOfSeq DEF Names
  <2>3. QED BY <2>1, <2>2, <1>3 DEF NestInv
<1>11. ASSUME NEW u \in Tasks \ {t}, NEW n \in Live(u)' PROVE Fresh(u, n)' /\ Nested(u, n)'
  <2>1. n \in Live(u) /\ conn'[u] = conn[u] /\ n \in Nat /\ n < drawn
    BY <1>2, <1>5, <1>11
  <2>2. Fresh(u, n) /\ Nested(u, n) BY <2>1 DEF SavepointInv, LiveInv
  <2>3. conn[u] \in Conns \ {c} BY <2>1, LiveHolds DEF Effect
  <2>4. n \notin AllWrites(c) \cup new BY <2>1, <2>2, <2>3 DEF Fresh, Effect
  <2>5. n \notin db' \cup undone' \cup acked'
    BY <2>2, <2>4 DEF Fresh, Effect
  <2>6. \A d \in Conns \ {conn'[u]} : n \notin AllWrites(d)'
    BY <1>1, <2>1, <2>2, <2>4 DEF Fresh, Effect
  <2>7. \A v \in Tasks \ {u} : n \notin Live(v)'
    <3>1. n # drawn BY <2>1 DEF Effect
    <3>2. n \notin Live(t)' BY <2>2, <3>1 DEF Fresh, Effect
    <3>3. QED BY <1>2, <2>2, <3>2 DEF Fresh
  <2>8. Nested(u, n)'
    <3>1. txn'[conn'[u]] = txn[conn[u]]
      BY <1>1, <2>1, <2>3
    <3>2. \A w \in acked' \cap AllWrites(conn[u]) : w \in acked
      BY <1>6, <2>3 DEF Effect
    <3>3. QED BY <2>2, <3>1, <3>2 DEF Nested, AllWrites
  <2>9. QED BY <2>5, <2>6, <2>7, <2>8 DEF Fresh
<1>12. ASSUME NEW n \in Live(t)' PROVE Fresh(t, n)' /\ Nested(t, n)'
  <2>1. conn'[t] = c BY <1>12 DEF Effect
  <2>2. n \in Live(t) \/ n = drawn BY DEF Effect
  <2>3. CASE n \in Live(t)
    <3>1. Fresh(t, n) /\ conn[t] = c BY <2>3 DEF SavepointInv, LiveInv, Effect
    <3>2. QED BY <1>1, <1>2, <2>1, <3>1 DEF Fresh
  <2>4. CASE n = drawn
    <3>1. \A d \in Conns : n \notin AllWrites(d)
      BY <1>4, <2>4 DEF SavepointInv, StackInv, Effect
    <3>2. \A u \in Tasks : n \notin Live(u) BY <1>5, <2>4 DEF Effect
    <3>3. QED BY <1>1, <1>2, <2>1, <3>1, <3>2 DEF Fresh
  <2>5. QED BY <2>2, <2>3, <2>4
<1>13. History'
  <2>1. History BY DEF SavepointInv
  <2>2. db' \cap undone' = {} BY <2>1 DEF History, Effect
  <2>3. \A w \in db' \cup undone' \cup acked' : w < drawn'
    <3>1. \A w \in db \cup undone \cup acked : w \in Nat BY DEF SavepointInv, DbTypeOK, Names
    <3>2. \A w \in db \cup undone \cup acked : w < drawn' BY <1>3, <2>1, <3>1 DEF History
    <3>3. \A w \in AllWrites(c) \cup new : w < drawn'
      BY <1>3, <1>4 DEF SavepointInv, StackInv, Effect
    <3>4. QED BY <3>2, <3>3 DEF Effect
  <2>4. ASSUME NEW w \in acked'
        PROVE  w \in db' \/ \E d \in tainted' : w \in AllWrites(d)'
    <3>1. CASE w \in AllWrites(c) \cup new BY <3>1 DEF Effect
    <3>2. CASE w \notin AllWrites(c) \cup new
      <4>1. w \in acked BY <3>2 DEF Effect
      <4>2. CASE w \in db BY <4>2 DEF Effect
      <4>3. ASSUME NEW d \in tainted, w \in AllWrites(d)
            PROVE  d \in tainted' /\ w \in AllWrites(d)'
        <5>1. d \in Conns \ {c} BY <3>2, <4>3 DEF SavepointInv, DbTypeOK
        <5>2. QED BY <1>1, <4>3, <5>1 DEF Effect
      <4>4. QED BY <2>1, <4>1, <4>2, <4>3 DEF History
    <3>3. QED BY <3>1, <3>2
  <2>5. QED BY <2>2, <2>3, <2>4 DEF History
<1>14. QED
  BY <1>7, <1>8, <1>9, <1>10, <1>11, <1>12, <1>13 DEF SavepointInv, LiveInv

\* The savepoints of a context, the innermost one last.
LEMMA NestLemma ==
  ASSUME PoolInv, SavepointInv, NEW t \in Tasks, conn[t] # None
  PROVE  /\ Len(sps[t]) \in Nat \ {0} /\ DOMAIN sps[t] = 1..Len(sps[t])
         /\ \A i \in 1..Len(sps[t]) : sps[t][i] \in Nat
         /\ \A i \in 1..(Len(sps[t]) - 1) : sps[t][i] < Innermost(t)
         /\ Live(t) \ {Innermost(t)} = {sps[t][i] : i \in 1..(Len(sps[t]) - 1)}
         /\ released[t] => Live(t) = Live(t) \ {Innermost(t)}
         /\ ~released[t] => Innermost(t) \in Live(t)
         /\ Innermost(t) \in Nat
         /\ \A n \in Live(t) \ {Innermost(t)} : n \in Nat /\ n < Innermost(t)
         /\ AtTop(t) <=> Live(t) \ {Innermost(t)} = {}
         /\ ~AtTop(t) => sps[t][1] \in Live(t) \ {Innermost(t)}
<1> DEFINE s == sps[t]
           k == Len(s)
           n == Innermost(t)
           m == k - 1
<1>1. s \in Seq(Names) /\ s # <<>>
  BY DEF PoolInv, PoolTypeOK, PoolShape
<1>2. k \in Nat \ {0} /\ DOMAIN s = 1..k
  BY <1>1, EmptySeq, LenProperties
<1>3. \A i \in 1..k : s[i] \in Nat
  BY <1>1, <1>2, ElementOfSeq DEF Names
<1>4. n = s[k] BY DEF Innermost
<1>5. NestInv(t) BY DEF SavepointInv
<1>6. \A i \in 1..m : i \in 1..k /\ i < k BY <1>2
<1>7. \A i \in 1..m : s[i] < n
  <2>1. k \in 1..k BY <1>2
  <2>2. \A i, j \in 1..k : i < j => s[i] < s[j] BY <1>2, <1>5 DEF NestInv
  <2>3. \A i \in 1..m : s[i] < s[k] BY <1>6, <2>1, <2>2
  <2>4. QED BY <1>4, <2>3
<1>8. 1..k = 1..m \cup {k} BY <1>2
<1>9. Live(t) = {s[i] : i \in 1..k} \ (IF released[t] THEN {n} ELSE {})
  BY <1>2 DEF Live
<1>10. m = 0 \/ 1 \in 1..m
  <2>1. \A q \in Nat \ {0} : q - 1 = 0 \/ 1 \in 1..(q - 1) OBVIOUS
  <2>2. QED BY <1>2, <2>1
<1>11. m = 0 <=> AtTop(t) BY <1>2 DEF AtTop
<1>12. m = 0 => 1..m = {}
  <2>1. 1..0 = {} OBVIOUS
  <2>2. QED BY <2>1
<1> HIDE DEF s, k, n, m
<1>13. \A i \in 1..m : s[i] \in Nat /\ s[i] # n
  BY <1>2, <1>3, <1>4, <1>6, <1>7 DEF k
<1>14. {s[i] : i \in 1..k} \ {n} = {s[i] : i \in 1..m}
  BY <1>4, <1>8, <1>13
<1>15. Live(t) \ {n} = {s[i] : i \in 1..m} /\ (released[t] => Live(t) = Live(t) \ {n})
  BY <1>9, <1>14
<1>16. ~released[t] => n \in Live(t)
  <2>1. k \in 1..k BY <1>2
  <2>2. QED BY <1>4, <1>9, <2>1
<1>17. n \in Nat BY <1>2, <1>3, <1>4
<1>18. \A v \in Live(t) \ {n} : v \in Nat /\ v < n
  BY <1>7, <1>13, <1>15
<1>19. AtTop(t) <=> Live(t) \ {n} = {}
  BY <1>10, <1>11, <1>12, <1>15
<1>20. ~AtTop(t) => s[1] \in Live(t) \ {n}
  BY <1>10, <1>11, <1>15
<1>21. QED
  BY <1>2, <1>3, <1>7, <1>15, <1>16, <1>17, <1>18, <1>19, <1>20 DEF s, k, n, m

\* A savepoint is released, or its release has failed: it is not live anymore.
LEMMA MarkLemma ==
  ASSUME PoolInv, SavepointInv, NEW t \in Tasks, conn[t] # None,
         released' = [released EXCEPT ![t] = TRUE], UNCHANGED <<conn, sps, drawn>>
  PROVE  /\ Live(t)' = Live(t) \ {Innermost(t)}
         /\ NestInv(t)'
<1>1. released'[t] BY DEF PoolInv, PoolTypeOK
<1>2. Innermost(t)' = Innermost(t) BY DEF Innermost
<1>3. Live(t)' = {sps[t][i] : i \in DOMAIN sps[t]} \ {Innermost(t)} BY <1>1, <1>2 DEF Live
<1>4. Live(t)' = Live(t) \ {Innermost(t)} BY <1>3 DEF Live
<1>5. NestInv(t) BY DEF SavepointInv
<1>6. QED BY <1>4, <1>5 DEF NestInv

\* The innermost savepoint is left (pool.go:136-151).
LEMMA LeaveLive ==
  ASSUME PoolInv, SavepointInv, NEW t \in Tasks, conn[t] # None, Leave(t)
  PROVE  /\ Live(t)' = Live(t) \ {Innermost(t)}
         /\ NestInv(t)'
         /\ ~AtTop(t) => sps'[t][1] = sps[t][1] /\ conn'[t] = conn[t]
<1> DEFINE s == sps[t]
           k == Len(s)
           m == k - 1
<1>1. /\ s \in Seq(Names) /\ k \in Nat \ {0} /\ DOMAIN s = 1..k /\ drawn' = drawn
      /\ sps'[t] = SubSeq(s, 1, m) /\ ~released'[t]
      /\ conn'[t] = IF AtTop(t) THEN None ELSE conn[t]
  BY NestLemma DEF PoolInv, PoolTypeOK, Leave
<1>2. \A i \in 1..m : i \in 1..k BY <1>1
<1>3. DOMAIN sps'[t] = 1..m /\ \A i \in 1..m : sps'[t][i] = s[i]
  <2>1. m \in Int /\ m \in Nat /\ \A i \in 1..m : s[i] \in Names
    BY <1>1, <1>2, ElementOfSeq
  <2> HIDE DEF m, s
  <2>2. /\ SubSeq(s, 1, m) \in Seq(Names) /\ Len(SubSeq(s, 1, m)) = IF 1 <= m THEN m - 1 + 1 ELSE 0
        /\ \A i \in 1..m - 1 + 1 : SubSeq(s, 1, m)[i] = s[1 + i - 1]
    BY <2>1, SubSeqProperties
  <2>3. Len(SubSeq(s, 1, m)) = m /\ 1..m - 1 + 1 = 1..m /\ \A i \in 1..m : 1 + i - 1 = i
    BY <2>1, <2>2
  <2>4. DOMAIN SubSeq(s, 1, m) = 1..m BY <2>2, <2>3, LenProperties
  <2>5. QED BY <1>1, <2>2, <2>3, <2>4
<1>4. Live(t)' = {s[i] : i \in 1..m}
  <2>1. Live(t)' = {sps'[t][i] : i \in 1..m} BY <1>1, <1>3 DEF Live
  <2>2. QED BY <1>3, <2>1
<1>5. Live(t)' = Live(t) \ {Innermost(t)} BY <1>4, NestLemma
<1>6. NestInv(t)'
  <2>1. NestInv(t) BY DEF SavepointInv
  <2>2. QED BY <1>1, <1>2, <1>3, <2>1 DEF NestInv
<1>7. ~AtTop(t) => sps'[t][1] = sps[t][1]
  <2>1. \A q \in Nat \ {0} : q # 1 => 1 \in 1..(q - 1) OBVIOUS
  <2>2. ~AtTop(t) => 1 \in 1..m BY <1>1, <2>1 DEF AtTop
  <2>3. QED BY <1>3, <2>2
<1>8. QED BY <1>1, <1>5, <1>6, <1>7

\* Steps that touch neither the savepoints nor the database.
LEMMA IdleSteps ==
  ASSUME PoolInv, SavepointInv, NEW t \in Tasks, Others(t), drawn' \in Nat, drawn <= drawn',
         UNCHANGED <<conn, sps, released, txn, wlock, db, acked, undone, tainted>>
  PROVE  SavepointInv'
<1>1. Live(t)' = Live(t) BY DEF Live, Innermost
<1>2. drawn \in Nat BY DEF PoolInv, PoolTypeOK
<1>3. NestInv(t)'
  <2>1. NestInv(t) BY DEF SavepointInv
  <2>2. \A i \in DOMAIN sps[t] : sps[t][i] \in Nat
    <3>1. sps[t] \in Seq(Names) BY DEF PoolInv, PoolTypeOK
    <3>2. QED BY <3>1, LenProperties, ElementOfSeq DEF Names
  <2>3. QED BY <1>2, <2>1, <2>2 DEF NestInv
<1>4. DbTypeOK' BY DEF SavepointInv, DbTypeOK
<1>5. QED BY <1>1, <1>2, <1>3, <1>4, QuietLemma

\* Steps that take t's savepoints away without touching their transaction.
LEMMA DropSteps ==
  ASSUME PoolInv, SavepointInv, NEW t \in Tasks, Others(t),
         \/ ReleaseFails(t) \/ RollbackReleased(t)
         \/ RollbackFails(t) \/ Abandon(t)
  PROVE  SavepointInv'
<1>1. /\ conn[t] # None /\ drawn \in Nat /\ UNCHANGED <<drawn, txn, wlock, db, acked, undone>>
      /\ conn[t] \in Conns
  BY DEF ReleaseFails, RollbackReleased, RollbackFails, Abandon, InSavepoint, Leave,
         dbVars, PoolInv, PoolTypeOK
<1>2. CASE ReleaseFails(t)
  <2>1. /\ released' = [released EXCEPT ![t] = TRUE] /\ UNCHANGED <<conn, sps, drawn>>
        /\ tainted' = IF AtTop(t) THEN tainted \cup {conn[t]} ELSE tainted
    BY <1>2 DEF ReleaseFails, Taint
  <2>2. Live(t)' = Live(t) \ {Innermost(t)} /\ NestInv(t)' BY <1>1, <2>1, MarkLemma
  <2>3. Live(t)' = {} => conn[t] \in tainted' BY <1>1, <2>1, <2>2, NestLemma
  <2>4. DbTypeOK' BY <1>1, <2>1 DEF SavepointInv, DbTypeOK
  <2>5. drawn <= drawn' /\ tainted \subseteq tainted' /\ drawn' \in Nat BY <1>1, <2>1
  <2>6. conn'[t] = conn[t] /\ sps'[t][1] = sps[t][1] /\ Live(t)' \subseteq Live(t) BY <2>1, <2>2
  <2>7. QED BY <1>1, <2>2, <2>3, <2>4, <2>5, <2>6, QuietLemma
<1>3. CASE RollbackReleased(t) \/ Abandon(t)
  <2>1. Leave(t) /\ tainted' = tainted BY <1>3 DEF RollbackReleased, Abandon, dbVars
  <2>2. /\ Live(t)' = Live(t) \ {Innermost(t)} /\ NestInv(t)'
        /\ ~AtTop(t) => sps'[t][1] = sps[t][1] /\ conn'[t] = conn[t]
    BY <1>1, <2>1, LeaveLive
  <2>3. Live(t)' # {} => ~AtTop(t) BY <1>1, <2>2, NestLemma
  <2>4. Live(t) # {} => Live(t)' # {}
    <3>1. CASE RollbackReleased(t)
      BY <1>1, <2>2, <3>1, NestLemma DEF RollbackReleased
    <3>2. CASE Abandon(t)
      BY <1>1, <2>2, <3>2, NestLemma DEF Abandon
    <3>3. QED BY <1>3, <3>1, <3>2
  <2>5. DbTypeOK' BY <1>1, <2>1 DEF SavepointInv, DbTypeOK
  <2>6. drawn <= drawn' /\ tainted \subseteq tainted' /\ drawn' \in Nat BY <1>1, <2>1
  <2>7. Live(t)' \subseteq Live(t) BY <2>2
  <2>8. QED BY <1>1, <2>2, <2>3, <2>4, <2>5, <2>6, <2>7, QuietLemma
<1>4. CASE RollbackFails(t)
  <2>1. /\ Leave(t) /\ ~released[t]
        /\ tainted' = IF AtTop(t) THEN tainted \cup {conn[t]} ELSE tainted
    BY <1>4 DEF RollbackFails, InSavepoint, Taint
  <2>2. /\ Live(t)' = Live(t) \ {Innermost(t)} /\ NestInv(t)'
        /\ ~AtTop(t) => sps'[t][1] = sps[t][1] /\ conn'[t] = conn[t]
    BY <1>1, <2>1, LeaveLive
  <2>3. Live(t)' # {} => ~AtTop(t) BY <1>1, <2>2, NestLemma
  <2>4. Live(t)' = {} => conn[t] \in tainted' BY <1>1, <2>1, <2>2, NestLemma
  <2>5. DbTypeOK' BY <1>1, <2>1 DEF SavepointInv, DbTypeOK
  <2>6. drawn <= drawn' /\ tainted \subseteq tainted' /\ drawn' \in Nat BY <1>1, <2>1
  <2>7. Live(t)' \subseteq Live(t) BY <2>2
  <2>8. QED BY <1>1, <2>2, <2>3, <2>4, <2>5, <2>6, <2>7, QuietLemma
<1>5. QED BY <1>2, <1>3, <1>4

\* Where a live savepoint is on its connection.
LEMMA PositionLemma ==
  ASSUME PoolInv, SavepointInv, NEW t \in Tasks, NEW n \in Live(t), NEW p,
         p = Position(conn[t], n)
  PROVE  /\ p \in DOMAIN txn[conn[t]] /\ txn[conn[t]][p].name = n /\ p \in Nat \ {0}
         /\ \A i \in DOMAIN txn[conn[t]] : i < p <=> txn[conn[t]][i].name < n
         /\ DOMAIN txn[conn[t]] = 1..Len(txn[conn[t]]) /\ Len(txn[conn[t]]) \in Nat \ {0}
         /\ n \in Nat /\ n < drawn
<1> DEFINE c == conn[t]
           s == txn[c]
           k == Len(s)
<1>1. c \in Conns BY LiveHolds
<1>2. s \in Seq(Levels) BY <1>1 DEF SavepointInv, DbTypeOK
<1>3. DOMAIN s = 1..k /\ k \in Nat BY <1>2, LenProperties
<1>4. \E i \in DOMAIN s : s[i].name = n BY DEF SavepointInv, LiveInv, Nested
<1>5. p \in DOMAIN s /\ s[p].name = n BY <1>4 DEF Position
<1>6. \A i \in DOMAIN s : s[i].name \in Nat BY <1>1, NumbersLemma DEF SavepointInv
<1>7. \A i, j \in DOMAIN s : i < j => s[i].name < s[j].name
  BY <1>1 DEF SavepointInv, StackInv
<1>8. n \in Nat BY <1>5, <1>6
<1>9. n < drawn BY <1>1, <1>5 DEF SavepointInv, StackInv
<1>10. p \in Nat \ {0} /\ k \in Nat \ {0} BY <1>3, <1>5
<1>11. \A i \in DOMAIN s : i \in Nat BY <1>3
<1> HIDE DEF c, s, k
<1>12. ASSUME NEW i \in DOMAIN s PROVE i < p <=> s[i].name < n
  <2>1. i \in Nat /\ p \in Nat /\ s[i].name \in Nat BY <1>6, <1>10, <1>11
  <2>2. CASE i < p
    <3>1. s[i].name < s[p].name BY <2>2, <1>5, <1>7
    <3>2. QED BY <2>2, <3>1, <1>5
  <2>3. CASE i = p BY <2>1, <2>3, <1>5, <1>8
  <2>4. CASE p < i
    <3>1. n < s[i].name BY <2>4, <1>5, <1>7
    <3>2. QED BY <2>1, <2>4, <3>1, <1>8
  <2>5. i < p \/ i = p \/ p < i BY <2>1
  <2>6. QED BY <2>2, <2>3, <2>4, <2>5
<1>13. QED BY <1>3, <1>5, <1>8, <1>9, <1>10, <1>12 DEF c, s, k

\* What was written since a live savepoint is above it.
LEMMA SinceLemma ==
  ASSUME PoolInv, SavepointInv, NEW t \in Tasks, NEW n \in Live(t), NEW p,
         p = Position(conn[t], n)
  PROVE  /\ WritesFrom(conn[t], p) = {w \in AllWrites(conn[t]) : ~(w < n)}
         /\ \A i \in DOMAIN txn[conn[t]] : \A w \in txn[conn[t]][i].writes :
              w \in Nat /\ (w < n <=> i < p)
<1> DEFINE c == conn[t]
           s == txn[c]
           k == Len(s)
<1>0. c \in Conns BY LiveHolds
<1>1. /\ p \in DOMAIN s /\ DOMAIN s = 1..k /\ k \in Nat /\ c \in Conns
      /\ \A i \in DOMAIN s : i < p <=> s[i].name < n
  BY <1>0, PositionLemma
<1>2. \A i \in DOMAIN s : \A w \in s[i].writes : w < n <=> s[i].name < n
  BY DEF SavepointInv, LiveInv, Nested
<1>3. \A i \in DOMAIN s : s[i].writes \subseteq Nat
  BY <1>1, NumbersLemma DEF SavepointInv
<1>4. \A i \in DOMAIN s : \A w \in s[i].writes : w \in Nat /\ (w < n <=> i < p)
  BY <1>1, <1>2, <1>3
<1>5. \A i \in 1..k : i \in p..k <=> ~(i < p) BY <1>1
<1>6. p..k \subseteq 1..k BY <1>1
<1>7. WritesFrom(c, p) = UNION {s[i].writes : i \in p..k} BY DEF WritesFrom
<1>8. AllWrites(c) = UNION {s[i].writes : i \in 1..k} BY <1>1 DEF AllWrites
<1> HIDE DEF c, s, k
<1>9. WritesFrom(c, p) \subseteq {w \in AllWrites(c) : ~(w < n)}
  BY <1>1, <1>4, <1>5, <1>6, <1>7, <1>8
<1>10. {w \in AllWrites(c) : ~(w < n)} \subseteq WritesFrom(c, p)
  BY <1>1, <1>4, <1>5, <1>6, <1>7, <1>8
<1>11. QED BY <1>4, <1>9, <1>10 DEF c, s, k

\* A statement in a savepoint (pool.go:52-66) adds its write to the top level.
LEMMA WriteStep ==
  ASSUME PoolInv, PoolInv', SavepointInv, NEW t \in Tasks, NEW c, NEW n, NEW p, NEW k,
         c = conn[t], n = Innermost(t), p = Position(c, n), k = Len(txn[c]), Write(t)
  PROVE  SavepointInv'
<1>1. /\ c # None /\ ~released[t] /\ WriteOn(c, n)
      /\ UNCHANGED <<poolVars, taskVars, acked, undone, tainted>>
  BY DEF Write, InSavepoint
<1>2. n \in Live(t) /\ n \in Nat /\ \A m \in Live(t) \ {n} : m \in Nat /\ m < n
  BY <1>1, NestLemma
<1>3. c \in Conns /\ \A u \in Tasks \ {t} : Live(u) = {} \/ conn[u] # c
  BY <1>2, LiveHolds
<1>4. /\ p \in DOMAIN txn[c] /\ DOMAIN txn[c] = 1..k /\ k \in Nat \ {0}
      /\ n < drawn /\ p \in Nat
  BY <1>2, PositionLemma
<1>5. txn \in [Conns -> Seq(Levels)] /\ txn[c] # <<>>
  BY <1>3, <1>4, EmptySeq DEF SavepointInv, DbTypeOK
<1>6. /\ txn' \in [Conns -> Seq(Levels)]
      /\ \A d \in Conns \ {c} : txn'[d] = txn[d]
      /\ DOMAIN txn'[c] = DOMAIN txn[c]
      /\ \A i \in DOMAIN txn[c] : txn'[c][i].name = txn[c][i].name
      /\ \A i \in DOMAIN txn[c] : txn'[c][i].writes =
           IF i = k THEN txn[c][i].writes \cup {n} ELSE txn[c][i].writes
      /\ AllWrites(c)' = AllWrites(c) \cup {n}
      /\ db' = db /\ wlock' = c
  <2>1. n \in Names /\ c \in Conns /\ WriteOn(c, n)
    BY <1>1, <1>2, <1>3 DEF Names
  <2>2. /\ txn' \in [Conns -> Seq(Levels)]
        /\ \A d \in Conns \ {c} : txn'[d] = txn[d]
        /\ DOMAIN txn'[c] = DOMAIN txn[c]
        /\ \A i \in DOMAIN txn[c] : txn'[c][i].name = txn[c][i].name
        /\ \A i \in DOMAIN txn[c] : txn'[c][i].writes =
              IF i = Len(txn[c]) THEN txn[c][i].writes \cup {n} ELSE txn[c][i].writes
        /\ AllWrites(c)' = AllWrites(c) \cup {n}
        /\ db' = db /\ wlock' = c
    BY ONLY <1>5, <2>1, WriteLemma, Zenon
  <2>3. QED BY <2>2
<1>7. \A u : Live(u)' = Live(u) BY <1>1 DEF Live, Innermost, taskVars
<1>8. Others(t) /\ drawn' = drawn /\ drawn \in Nat /\ conn' = conn /\ sps' = sps
  BY <1>1 DEF Others, taskVars, poolVars, PoolInv, PoolTypeOK
<1>9. Fresh(t, n) BY <1>2 DEF SavepointInv, LiveInv
<1>10. DbTypeOK' BY <1>1, <1>3, <1>6 DEF SavepointInv, DbTypeOK
<1>11. \A w \in acked : w \in AllWrites(c) \cup {n} => w \in AllWrites(c) /\ c \in tainted
  BY <1>3, <1>9, AckedTaints DEF Fresh
<1>12. Effect(t, c, {n})
  <2>1. conn[t] = c OBVIOUS
  <2>2. \A w \in {n} : /\ w \in Nat /\ w < drawn' /\ w \notin db \cup undone \cup acked
                       /\ \A d \in Conns \ {c} : w \notin AllWrites(d)
                       /\ \A u \in Tasks \ {t} : w \notin Live(u)
    BY <1>2, <1>4, <1>8, <1>9, <2>1 DEF Fresh
  <2>3. QED BY <1>1, <1>3, <1>6, <1>7, <1>8, <1>11, <2>1, <2>2 DEF Effect
<1>13. NestInv(t)' BY <1>8 DEF SavepointInv, NestInv
<1>14. Clean(c)'
  <2>1. Clean(c) /\ tainted' = tainted BY <1>1, <1>3 DEF SavepointInv
  <2>2. txn'[c][1].name = txn[c][1].name BY <1>4, <1>6
  <2>3. QED BY <1>5, <1>7, <1>8, <2>1, <2>2 DEF Clean
<1>15. /\ \A i, j \in DOMAIN txn'[c] : i < j => txn'[c][i].name < txn'[c][j].name
       /\ \A i \in DOMAIN txn'[c] : txn'[c][i].name < drawn'
  BY <1>3, <1>6, <1>8 DEF SavepointInv, StackInv
<1>16. ASSUME NEW m \in Live(t)'
       PROVE  m \notin db' \cup undone' \cup acked' /\ Nested(t, m)'
  <2>1. m \in Live(t) /\ Fresh(t, m) /\ Nested(t, m)
    BY <1>7 DEF SavepointInv, LiveInv
  <2>2. m \notin db' \cup undone' \cup acked' BY <1>1, <1>6, <2>1 DEF Fresh
  <2>3. ~(n < m) BY <1>2, <2>1
  <2>4. ~(txn[c][k].name < m)
    <3>1. PICK q \in DOMAIN txn[c] : txn[c][q].name = m BY <2>1 DEF Nested
    <3>2. q \in Nat /\ q <= k /\ k \in DOMAIN txn[c] BY <1>4
    <3>3. txn[c][k].name \in Nat /\ m \in Nat
      BY <1>3, <3>1, <3>2, NumbersLemma DEF SavepointInv
    <3>4. q < k => m < txn[c][k].name
      BY <1>3, <3>1, <3>2 DEF SavepointInv, StackInv
    <3>5. QED BY <1>4, <3>1, <3>2, <3>3, <3>4
  <2>5. \A i \in DOMAIN txn'[c] : \A w \in txn'[c][i].writes : w < m <=> txn'[c][i].name < m
    <3>1. ASSUME NEW i \in DOMAIN txn[c], NEW w \in txn'[c][i].writes
          PROVE  w < m <=> txn[c][i].name < m
      <4>1. w \in txn[c][i].writes \/ (w = n /\ i = k) BY ZenonT(30), <1>6
      <4>2. CASE w \in txn[c][i].writes BY <2>1, <4>2 DEF Nested
      <4>3. CASE w = n /\ i = k BY <2>3, <2>4, <4>3
      <4>4. QED BY <4>1, <4>2, <4>3
    <3>2. QED BY <1>6, <3>1
  <2>6. \A w \in acked' \cap AllWrites(c)' : w < m
    <3>1. \A w \in acked \cap AllWrites(c) : w < m BY <2>1 DEF Nested
    <3>2. n \notin acked BY <1>9 DEF Fresh
    <3>3. QED BY <1>1, <1>6, <3>1, <3>2
  <2>7. \E i \in DOMAIN txn'[c] : txn'[c][i].name = m BY <1>6, <2>1 DEF Nested
  <2>8. Nested(t, m)'
    <3>1. conn'[t] = c BY <1>8
    <3>2. QED BY <2>5, <2>6, <2>7, <3>1 DEF Nested, AllWrites
  <2>9. QED BY <2>2, <2>8
<1>17. QED
  BY <1>3, <1>10, <1>12, <1>13, <1>14, <1>15, <1>16, EffectLemma

\* A savepoint is opened on c, which nobody else has savepoints on.
LEMMA OpenStep ==
  ASSUME PoolInv, PoolInv', SavepointInv, NEW t \in Tasks, NEW c \in Conns,
         Open(c, drawn), drawn' = drawn + 1, Others(t),
         UNCHANGED <<wlock, db, acked, undone, tainted>>,
         conn'[t] = c, Live(t) = {} \/ conn[t] = c, Live(t)' = Live(t) \cup {drawn},
         \A u \in Tasks \ {t} : Live(u) = {} \/ conn[u] # c,
         NestInv(t)',
         c \in tainted \/ txn'[c][1].name = sps'[t][1]
  PROVE  SavepointInv'
<1> DEFINE k == Len(txn[c])
<1>1. drawn \in Nat /\ drawn \in Names /\ txn \in [Conns -> Seq(Levels)]
  BY DEF PoolInv, PoolTypeOK, SavepointInv, DbTypeOK, Names
<1>2. /\ txn' \in [Conns -> Seq(Levels)]
      /\ \A d \in Conns \ {c} : txn'[d] = txn[d]
      /\ DOMAIN txn'[c] = 1..(k + 1)
      /\ \A i \in 1..k : txn'[c][i] = txn[c][i]
      /\ txn'[c][k + 1].name = drawn /\ txn'[c][k + 1].writes = {}
      /\ AllWrites(c)' = AllWrites(c)
  BY <1>1, OpenLemma
<1>3. k \in Nat /\ DOMAIN txn[c] = 1..k
  BY <1>1, LenProperties
<1> HIDE DEF k
<1>4. DbTypeOK' BY <1>2 DEF SavepointInv, DbTypeOK
<1>5. \A w \in acked : w \in AllWrites(c) => c \in tainted BY AckedTaints
<1>6. Effect(t, c, {})
  BY <1>1, <1>2, <1>5 DEF Effect
<1>7. Clean(c)' BY Live(t)' = Live(t) \cup {drawn} DEF Clean
<1>8. \A i \in 1..k : txn[c][i].name \in Nat /\ txn[c][i].name < drawn
  BY <1>3, NumbersLemma DEF SavepointInv, StackInv
<1>9. \A i \in 1..(k + 1) : i \in 1..k \/ i = k + 1 BY <1>3
<1>10. \A i \in DOMAIN txn'[c] : txn'[c][i].name < drawn'
  BY <1>1, <1>2, <1>8, <1>9
<1>11. \A i, j \in DOMAIN txn'[c] : i < j => txn'[c][i].name < txn'[c][j].name
  <2>1. ASSUME NEW i \in 1..(k + 1), NEW j \in 1..(k + 1), i < j
        PROVE  txn'[c][i].name < txn'[c][j].name
    <3>1. i \in 1..k BY <1>3, <2>1
    <3>2. CASE j \in 1..k
      BY <1>2, <1>3, <2>1, <3>1, <3>2 DEF SavepointInv, StackInv
    <3>3. CASE j = k + 1
      BY <1>2, <1>8, <3>1, <3>3
    <3>4. QED BY <1>9, <3>2, <3>3
  <2>2. QED BY <1>2, <2>1
<1>12. ASSUME NEW m \in Live(t)'
       PROVE  m \notin db' \cup undone' \cup acked' /\ Nested(t, m)'
  <2>1. CASE m \in Live(t)
    <3>1. Fresh(t, m) /\ Nested(t, m) /\ conn[t] = c
      BY <2>1 DEF SavepointInv, LiveInv
    <3>2. m \notin db' \cup undone' \cup acked' BY <3>1 DEF Fresh
    <3>3. \E i \in DOMAIN txn'[c] : txn'[c][i].name = m
      <4>1. PICK i \in 1..k : txn[c][i].name = m BY <1>3, <3>1 DEF Nested
      <4>2. i \in 1..(k + 1) BY <1>3, <4>1
      <4>3. QED BY <1>2, <4>1, <4>2
    <3>4. \A i \in DOMAIN txn'[c] : \A w \in txn'[c][i].writes : w < m <=> txn'[c][i].name < m
      BY <1>2, <1>3, <1>9, <3>1 DEF Nested
    <3>5. \A w \in acked' \cap AllWrites(c)' : w < m BY <1>2, <3>1 DEF Nested
    <3>6. QED BY <3>2, <3>3, <3>4, <3>5 DEF Nested, AllWrites
  <2>2. CASE m = drawn
    <3>1. \A w \in db \cup undone \cup acked : w # drawn
      BY <1>1 DEF SavepointInv, History
    <3>2. \E i \in DOMAIN txn'[c] : txn'[c][i].name = m
      <4>1. k + 1 \in 1..(k + 1) BY <1>3
      <4>2. QED BY <1>2, <2>2, <4>1
    <3>3. ASSUME NEW i \in DOMAIN txn'[c], NEW w \in txn'[c][i].writes
          PROVE  w < m /\ txn'[c][i].name < m
      <4>1. i \in 1..k /\ w \in txn[c][i].writes BY <1>2, <1>9, <3>3
      <4>2. w \in AllWrites(c) BY <1>3, <4>1 DEF AllWrites
      <4>3. w < drawn BY <4>2 DEF SavepointInv, StackInv
      <4>4. QED BY <1>2, <1>8, <2>2, <4>1, <4>3
    <3>4. \A w \in acked' \cap AllWrites(c)' : w < m
      BY <1>2, <2>2 DEF SavepointInv, History
    <3>5. m \notin db' \cup undone' \cup acked' BY <2>2, <3>1
    <3>6. QED BY <3>2, <3>3, <3>4, <3>5 DEF Nested, AllWrites
  <2>3. QED BY <2>1, <2>2
<1>13. QED
  BY <1>4, <1>6, <1>7, <1>10, <1>11, <1>12, EffectLemma

\* take() for a savepoint gives a connection on which, unless it is tainted, no
\* transaction is open (pool.go:77-90).
LEMMA TakeSavepointStep ==
  ASSUME PoolInv, PoolInv', SavepointInv, NEW t \in Tasks, TakeSavepoint(t)
  PROVE  SavepointInv'
<1>1. /\ free \in Seq(Conns) /\ free # <<>> /\ want[t] = "savepoint"
      /\ conn[t] = None /\ sps[t] = <<>>
  BY DEF TakeSavepoint, Take, PoolInv, PoolTypeOK, PoolShape
<1>2. FreeHead \in FreeSet /\ FreeHead \in Conns
  <2>1. Len(free) \in Nat \ {0} /\ DOMAIN free = 1..Len(free)
    BY <1>1, EmptySeq, LenProperties
  <2>2. QED BY <1>1, <2>1, ElementOfSeq DEF FreeHead, FreeSet
<1>3. PICK c \in Conns : c = FreeHead /\ c \in FreeSet BY <1>2
<1>4. /\ conn' = [conn EXCEPT ![t] = c] /\ sps' = [sps EXCEPT ![t] = <<drawn>>]
      /\ released' = [released EXCEPT ![t] = FALSE] /\ want' = [want EXCEPT ![t] = "none"]
      /\ Open(c, drawn) /\ drawn' = drawn + 1
      /\ UNCHANGED <<rows, inner, wlock, db, acked, undone, tainted>>
  BY <1>3 DEF TakeSavepoint, Take, Draw
<1>5. Others(t) /\ conn'[t] = c /\ sps'[t] = <<drawn>> /\ ~released'[t]
  BY <1>4 DEF Others, PoolInv, PoolTypeOK
<1>6. Live(t) = {} BY <1>1, EmptySeq, LenProperties DEF Live
<1>7. \A u \in Tasks : Live(u) = {} \/ conn[u] # c BY <1>3, LiveHolds
<1>8. DOMAIN sps'[t] = {1} /\ sps'[t][1] = drawn /\ drawn \in Nat
  BY <1>5 DEF PoolInv, PoolTypeOK
<1>9. Live(t)' = {drawn} BY <1>5, <1>8 DEF Live
<1>10. NestInv(t)'
  BY <1>4, <1>8 DEF NestInv
<1>11. c \in tainted \/ txn'[c][1].name = sps'[t][1]
  <2>1. SUFFICES ASSUME c \notin tainted PROVE txn'[c][1].name = drawn
    BY <1>8
  <2>2. txn[c] = <<>> BY <1>7, <2>1 DEF SavepointInv, Clean
  <2>3. txn'[c] = Append(<<>>, [name |-> drawn, writes |-> {}])
    BY <1>4, <2>2 DEF Open, SavepointInv, DbTypeOK
  <2>4. QED BY <2>3
<1>12. QED BY <1>4, <1>5, <1>6, <1>7, <1>9, <1>10, <1>11, OpenStep

\* A savepoint within another one (pool.go:78-84).
LEMMA NestedStep ==
  ASSUME PoolInv, PoolInv', SavepointInv, NEW t \in Tasks, SavepointNested(t)
  PROVE  SavepointInv'
<1>1. /\ conn[t] # None /\ ~released[t] /\ conn[t] \in Conns /\ drawn \in Nat
      /\ Open(conn[t], drawn) /\ drawn' = drawn + 1
      /\ sps' = [sps EXCEPT ![t] = Append(@, drawn)]
      /\ UNCHANGED <<poolVars, conn, released, rows, inner, wlock, db, acked, undone, tainted>>
  BY DEF SavepointNested, InSavepoint, Draw, PoolInv, PoolTypeOK
<1>2. PICK c \in Conns : c = conn[t] BY <1>1
<1>3. Others(t) /\ conn'[t] = c /\ sps'[t] = Append(sps[t], drawn) /\ ~released'[t]
  BY <1>1, <1>2 DEF Others, poolVars, PoolInv, PoolTypeOK
<1>4. PICK k : k = Len(sps[t]) OBVIOUS
<1>5. /\ k \in Nat \ {0} /\ DOMAIN sps[t] = 1..k /\ \A i \in 1..k : sps[t][i] \in Nat
      /\ Innermost(t) \in Live(t)
  BY <1>1, <1>4, NestLemma
<1>6. /\ DOMAIN sps'[t] = 1..(k + 1) /\ \A i \in 1..k : sps'[t][i] = sps[t][i]
      /\ sps'[t][k + 1] = drawn
  <2>1. sps[t] \in Seq(Names) /\ drawn \in Names BY <1>1 DEF PoolInv, PoolTypeOK, Names
  <2>2. /\ Append(sps[t], drawn) \in Seq(Names) /\ Len(Append(sps[t], drawn)) = k + 1
        /\ \A i \in 1..k : Append(sps[t], drawn)[i] = sps[t][i]
        /\ Append(sps[t], drawn)[k + 1] = drawn
    BY <1>4, <2>1, AppendProperties
  <2>3. QED BY <1>3, <2>2, LenProperties
<1>7. 1..(k + 1) = 1..k \cup {k + 1} BY <1>5
<1>8. Live(t)' = Live(t) \cup {drawn}
  <2>1. Live(t) = {sps[t][i] : i \in 1..k} BY <1>1, <1>5 DEF Live
  <2>2. Live(t)' = {sps'[t][i] : i \in 1..(k + 1)} BY <1>3, <1>6 DEF Live
  <2>3. QED BY <1>6, <1>7, <2>1, <2>2
<1>9. \A i \in 1..k : sps[t][i] < drawn BY <1>5 DEF SavepointInv, NestInv
<1>10. NestInv(t)'
  <2>1. \A i \in DOMAIN sps'[t] : sps'[t][i] < drawn'
    BY <1>1, <1>5, <1>6, <1>7, <1>9
  <2>2. ASSUME NEW i \in 1..(k + 1), NEW j \in 1..(k + 1), i < j
        PROVE  sps'[t][i] < sps'[t][j]
    <3>1. i \in 1..k BY <1>5, <2>2
    <3>2. CASE j \in 1..k
      BY <1>5, <1>6, <2>2, <3>1, <3>2 DEF SavepointInv, NestInv
    <3>3. CASE j = k + 1 BY <1>6, <1>9, <3>1, <3>3
    <3>4. QED BY <1>7, <3>2, <3>3
  <2>3. QED BY <1>6, <2>1, <2>2 DEF NestInv
<1>11. \A u \in Tasks \ {t} : Live(u) = {} \/ conn[u] # c BY <1>2, <1>5, LiveHolds
<1>12. c \in tainted \/ txn'[c][1].name = sps'[t][1]
  <2>1. SUFFICES ASSUME c \notin tainted PROVE txn'[c][1].name = sps'[t][1]
    OBVIOUS
  <2>2. txn[c] \in Seq(Levels) /\ DOMAIN txn[c] = 1..Len(txn[c]) /\ Len(txn[c]) \in Nat \ {0}
    BY <1>2, <1>5, PositionLemma DEF SavepointInv, DbTypeOK
  <2>3. txn[c] # <<>> BY <2>2, EmptySeq
  <2>4. PICK u \in Tasks : Live(u) # {} /\ conn[u] = c /\ txn[c][1].name = sps[u][1]
    BY <2>1, <2>3 DEF SavepointInv, Clean
  <2>5. u = t BY <1>11, <2>4
  <2>6. txn'[c][1] = txn[c][1]
    <3>1. 1 \in 1..Len(txn[c]) BY <2>2
    <3>2. txn \in [Conns -> Seq(Levels)] /\ drawn \in Names
      BY <1>1 DEF SavepointInv, DbTypeOK, Names
    <3>3. QED BY <1>1, <1>2, <3>1, <3>2, OpenLemma
  <2>7. sps'[t][1] = sps[t][1]
    <3>1. 1 \in 1..k BY <1>5
    <3>2. QED BY <1>6, <3>1
  <2>8. QED BY <2>4, <2>5, <2>6, <2>7
<1>13. QED BY <1>1, <1>2, <1>3, <1>8, <1>10, <1>11, <1>12, OpenStep

\* A statement on a connection of its own (pool.go:44-72) commits what it writes,
\* unless the connection is tainted.
LEMMA ExecStep ==
  ASSUME PoolInv, PoolInv', SavepointInv, NEW t \in Tasks, TakeExec(t)
  PROVE  SavepointInv'
<1>1. /\ free \in Seq(Conns) /\ free # <<>> /\ want[t] = "exec" /\ drawn \in Nat
      /\ conn[t] = None /\ sps[t] = <<>>
  BY DEF TakeExec, Take, PoolInv, PoolTypeOK, PoolShape
<1>2. FreeHead \in FreeSet /\ FreeHead \in Conns
  <2>1. Len(free) \in Nat \ {0} /\ DOMAIN free = 1..Len(free)
    BY <1>1, EmptySeq, LenProperties
  <2>2. QED BY <1>1, <2>1, ElementOfSeq DEF FreeHead, FreeSet
<1>3. PICK c \in Conns : c = FreeHead /\ c \in FreeSet BY <1>2
<1>4. /\ want' = [want EXCEPT ![t] = "none"] /\ rows' = [rows EXCEPT ![t] = c]
      /\ drawn' = drawn + 1 /\ UNCHANGED <<conn, sps, released, inner, undone, tainted>>
  BY <1>3 DEF TakeExec, Take, Draw
<1>5. Others(t) BY <1>4 DEF Others, PoolInv, PoolTypeOK
<1>6. drawn' \in Nat /\ drawn <= drawn' /\ drawn < drawn' BY <1>1, <1>4
<1>7. Live(t) = {} BY <1>1, EmptySeq, LenProperties DEF Live
<1>8. \A u \in Tasks : Live(u) = {} \/ conn[u] # c BY <1>3, LiveHolds
<1>9. Live(t)' = {} BY <1>4, <1>7 DEF Live, Innermost
<1>10. CASE UNCHANGED <<txn, wlock, db, acked>>
  BY <1>4, <1>5, <1>6, <1>10, IdleSteps
<1>11. CASE WriteOn(c, drawn) /\ acked' = acked \cup {drawn}
  <2>1. NestInv(t)'
    BY <1>1, <1>4, EmptySeq, LenProperties DEF NestInv
  <2>2. /\ drawn \notin db \cup undone \cup acked
        /\ \A d \in Conns : drawn \notin AllWrites(d)
        /\ \A u \in Tasks : drawn \notin Live(u)
    <3>1. drawn \notin db \cup undone \cup acked
      BY <1>1 DEF SavepointInv, History
    <3>2. \A d \in Conns : drawn \notin AllWrites(d)
      BY <1>1 DEF SavepointInv, StackInv
    <3>3. ASSUME NEW u \in Tasks, drawn \in Live(u) PROVE FALSE
      <4>1. PICK p : p = Position(conn[u], drawn) OBVIOUS
      <4>2. drawn < drawn BY <3>3, <4>1, PositionLemma
      <4>3. QED BY <1>1, <4>2
    <3>4. QED BY <3>1, <3>2, <3>3
  <2>3. txn \in [Conns -> Seq(Levels)] /\ drawn \in Names
    BY <1>1 DEF SavepointInv, DbTypeOK, Names
  <2>4. \A w \in acked : w \in AllWrites(c) => c \in tainted BY AckedTaints
  <2>5. /\ \A i, j \in DOMAIN txn[c] : i < j => txn[c][i].name < txn[c][j].name
        /\ \A i \in DOMAIN txn[c] : txn[c][i].name < drawn'
    <3>1. \A i \in DOMAIN txn[c] : txn[c][i].name \in Nat /\ txn[c][i].name < drawn
      BY NumbersLemma DEF SavepointInv, StackInv
    <3>2. QED BY <1>1, <1>4, <3>1 DEF SavepointInv, StackInv
  <2>6. CASE txn[c] = <<>>
    <3>1. db' = db \cup {drawn} /\ UNCHANGED <<txn, wlock>>
      BY <1>11, <2>6 DEF WriteOn
    <3>2. AllWrites(c) = {} /\ AllWrites(c)' = {}
      BY <2>6, <3>1, EmptySeq, LenProperties DEF AllWrites
    <3>3. DbTypeOK' BY <1>4, <1>11, <2>3, <3>1 DEF SavepointInv, DbTypeOK
    <3>4. Effect(t, c, {drawn})
      BY <1>1, <1>4, <1>5, <1>6, <1>7, <1>8, <1>9, <1>11, <2>2, <3>1, <3>2 DEF Effect
    <3>5. Clean(c)' BY <2>6, <3>1 DEF Clean
    <3>6. QED BY <1>9, <2>1, <2>5, <3>1, <3>3, <3>4, <3>5, EffectLemma
  <2>7. CASE txn[c] # <<>>
    <3>1. c \in tainted BY <1>8, <2>7 DEF SavepointInv, Clean
    <3>2. /\ txn' \in [Conns -> Seq(Levels)]
          /\ \A d \in Conns \ {c} : txn'[d] = txn[d]
          /\ DOMAIN txn'[c] = DOMAIN txn[c]
          /\ \A i \in DOMAIN txn[c] : txn'[c][i].name = txn[c][i].name
          /\ AllWrites(c)' = AllWrites(c) \cup {drawn}
          /\ db' = db /\ wlock' = c
      BY <1>11, <2>3, <2>7, WriteLemma
    <3>3. DbTypeOK' BY <1>4, <1>11, <2>3, <3>2 DEF SavepointInv, DbTypeOK
    <3>4. Effect(t, c, {drawn})
      BY <1>1, <1>4, <1>5, <1>6, <1>7, <1>8, <1>9, <1>11, <2>2, <3>1, <3>2 DEF Effect
    <3>5. Clean(c)' BY <1>4, <3>1 DEF Clean
    <3>6. QED BY <1>9, <2>1, <2>5, <3>2, <3>3, <3>4, <3>5, EffectLemma
  <2>8. QED BY <2>6, <2>7
<1>12. QED BY <1>3, <1>10, <1>11 DEF TakeExec

\* Release (pool.go:111-134): the outermost savepoint commits, and what a savepoint
\* below it has keeps it from committing only on a tainted connection.
LEMMA ReleaseStep ==
  ASSUME PoolInv, PoolInv', SavepointInv, NEW t \in Tasks, NEW c, NEW n, NEW p,
         c = conn[t], n = Innermost(t), p = Position(c, n), Release(t), Others(t)
  PROVE  SavepointInv'
<1>1. /\ c # None /\ ~released[t] /\ ReleaseAt(c, p)
      /\ acked' = IF AtTop(t) THEN acked \cup WritesFrom(c, p) ELSE acked
      /\ released' = [released EXCEPT ![t] = TRUE]
      /\ UNCHANGED <<conn, sps, rows, inner, drawn, undone, tainted>>
  BY DEF Release, ReleasePosition, InSavepoint
<1>2. /\ n \in Live(t) /\ n \in Nat /\ \A m \in Live(t) \ {n} : m \in Nat /\ m < n
      /\ AtTop(t) <=> Live(t) \ {n} = {}
      /\ ~AtTop(t) => sps[t][1] \in Live(t) \ {n}
  BY <1>1, NestLemma
<1>3. c \in Conns /\ \A u \in Tasks \ {t} : Live(u) = {} \/ conn[u] # c
  BY <1>2, LiveHolds
<1>4. /\ p \in DOMAIN txn[c] /\ txn[c][p].name = n /\ p \in Nat \ {0}
      /\ \A i \in DOMAIN txn[c] : i < p <=> txn[c][i].name < n
      /\ DOMAIN txn[c] = 1..Len(txn[c]) /\ Len(txn[c]) \in Nat \ {0}
  BY SMTT(30), <1>2, PositionLemma
<1>5. /\ WritesFrom(c, p) = {w \in AllWrites(c) : ~(w < n)}
      /\ \A i \in DOMAIN txn[c] : \A w \in txn[c][i].writes : w \in Nat /\ (w < n <=> i < p)
  BY <1>2, SinceLemma
<1>6. txn \in [Conns -> Seq(Levels)] /\ txn[c] # <<>> /\ drawn \in Nat
  BY <1>3, <1>4, EmptySeq DEF SavepointInv, DbTypeOK, PoolInv, PoolTypeOK
<1>7. Live(t)' = Live(t) \ {n} /\ NestInv(t)' BY <1>1, MarkLemma
<1>8. \A w \in acked : w \in AllWrites(c) => c \in tainted BY <1>3, AckedTaints
<1>9. WritesFrom(c, p) \subseteq AllWrites(c) BY <1>5
<1>10. acked \subseteq acked' /\ acked' \subseteq acked \cup AllWrites(c) BY <1>1, <1>9
<1>11. acked' \subseteq Names
  BY <1>3, <1>10, NumbersLemma DEF SavepointInv, DbTypeOK, Names
<1>12. c \in tainted \/ (\E u \in Tasks : Live(u) # {} /\ conn[u] = c /\ txn[c][1].name = sps[u][1])
  BY <1>3, <1>6 DEF SavepointInv, Clean
<1>13. c \in tainted \/ txn[c][1].name = sps[t][1]
  BY <1>3, <1>12
<1>14. CASE p = 1
  <2>1. /\ txn' \in [Conns -> Seq(Levels)]
        /\ \A d \in Conns \ {c} : txn'[d] = txn[d]
        /\ txn'[c] = <<>> /\ DOMAIN txn'[c] = {} /\ AllWrites(c)' = {}
        /\ db' = db \cup AllWrites(c)
    BY <1>1, <1>3, <1>6, <1>14, CommitLemma
  <2>2. wlock' \in Conns \cup {None}
    BY <1>1, <1>14 DEF ReleaseAt, SavepointInv, DbTypeOK
  <2>3. DbTypeOK'
    BY <1>1, <1>3, <1>11, <2>1, <2>2, NumbersLemma DEF SavepointInv, DbTypeOK, Names
  <2>4. Live(t)' = {}
    <3>1. ASSUME NEW m \in Live(t) \ {n} PROVE FALSE
      <4>1. PICK i \in DOMAIN txn[c] : txn[c][i].name = m
        BY <3>1 DEF SavepointInv, LiveInv, Nested
      <4>2. i < p BY <1>2, <1>4, <3>1, <4>1
      <4>3. QED BY <1>4, <1>14, <4>1, <4>2
    <3>2. QED BY <1>7, <3>1
  <2>5. \A w \in AllWrites(c) : w \notin undone
    BY <1>3 DEF SavepointInv, StackInv
  <2>6. Effect(t, c, {})
    BY <1>1, <1>3, <1>6, <1>10, <2>1, <2>4, <2>5 DEF Effect
  <2>7. Clean(c)' BY <2>1 DEF Clean
  <2>8. QED BY <1>3, <1>7, <2>1, <2>3, <2>4, <2>6, <2>7, EffectLemma
<1>15. CASE p # 1
  <2>1. PICK q : q = p - 1 OBVIOUS
  <2>2. q \in Nat \ {0} /\ 1..q \subseteq DOMAIN txn[c] /\ \A i \in 1..q : i < p /\ i # p
    BY <1>4, <1>15, <2>1
  <2>3. /\ txn' \in [Conns -> Seq(Levels)]
        /\ \A d \in Conns \ {c} : txn'[d] = txn[d]
        /\ DOMAIN txn'[c] = 1..q
        /\ \A i \in 1..q : txn'[c][i].name = txn[c][i].name
        /\ \A i \in 1..q : txn'[c][i].writes =
             IF i = q THEN txn[c][i].writes \cup WritesFrom(c, p) ELSE txn[c][i].writes
        /\ AllWrites(c)' = AllWrites(c)
        /\ db' = db
    <3>1. c \in Conns /\ txn \in [Conns -> Seq(Levels)] /\ p \in DOMAIN txn[c] /\ ReleaseAt(c, p)
      BY <1>1, <1>3, <1>4, <1>6
    <3>2. /\ txn' \in [Conns -> Seq(Levels)]
          /\ \A d \in Conns \ {c} : txn'[d] = txn[d]
          /\ DOMAIN txn'[c] = 1..(p - 1)
          /\ \A i \in 1..(p - 1) : txn'[c][i].name = txn[c][i].name
          /\ \A i \in 1..(p - 1) : txn'[c][i].writes =
               IF i = p - 1 THEN txn[c][i].writes \cup WritesFrom(c, p) ELSE txn[c][i].writes
          /\ AllWrites(c)' = AllWrites(c)
          /\ db' = db
      BY ONLY <1>15, <3>1, ReleaseLemma, Zenon
    <3>3. QED BY <2>1, <3>2, Zenon
  <2>4. wlock' = wlock BY <1>1, <1>15 DEF ReleaseAt
  <2>5. DbTypeOK' BY <1>1, <1>11, <2>3, <2>4 DEF SavepointInv, DbTypeOK
  <2>6. 1 \in 1..q /\ q \in 1..q BY <2>2
  <2>7. c \in tainted \/ ~AtTop(t)
    <3>1. SUFFICES ASSUME c \notin tainted, AtTop(t) PROVE FALSE
      OBVIOUS
    <3>2. txn[c][1].name = sps[t][1] BY <1>13, <3>1
    <3>3. sps[t][1] = n BY <3>1 DEF AtTop, Innermost
    <3>4. 1 \in DOMAIN txn[c] /\ 1 < p BY <2>2, <2>6
    <3>5. n < n BY <1>4, <3>2, <3>3, <3>4
    <3>6. QED BY <1>2, <3>5
  <2>8. \A w \in acked' : w \in AllWrites(c) => c \in tainted
    BY <1>1, <1>8, <2>7
  <2>9. Effect(t, c, {})
    BY <1>1, <1>3, <1>6, <1>7, <1>10, <2>3, <2>8 DEF Effect
  <2>10. Clean(c)'
    <3>1. SUFFICES ASSUME c \notin tainted PROVE Clean(c)'
      BY <1>1 DEF Clean
    <3>2. Live(t)' # {} BY <1>2, <1>7, <2>7, <3>1
    <3>3. txn'[c][1].name = sps[t][1] BY <1>13, <2>3, <2>6, <3>1
    <3>4. QED BY <1>1, <3>2, <3>3 DEF Clean
  <2>11. /\ \A i, j \in DOMAIN txn'[c] : i < j => txn'[c][i].name < txn'[c][j].name
         /\ \A i \in DOMAIN txn'[c] : txn'[c][i].name < drawn'
    <3>1. StackInv(c) /\ drawn' = drawn BY <1>1, <1>3 DEF SavepointInv
    <3>2. /\ \A i, j \in 1..q : i < j => txn[c][i].name < txn[c][j].name
          /\ \A i \in 1..q : txn[c][i].name < drawn
      BY <2>2, <3>1 DEF StackInv
    <3>3. QED BY <2>3, <3>1, <3>2
  <2>12. ASSUME NEW m \in Live(t)'
         PROVE  m \notin db' \cup undone' \cup acked' /\ Nested(t, m)'
    <3>1. m \in Live(t) \ {n} /\ m \in Nat /\ m < n /\ Fresh(t, m) /\ Nested(t, m)
      BY <1>2, <1>7 DEF SavepointInv, LiveInv
    <3>2. ~AtTop(t) /\ acked' = acked BY <1>1, <1>2, <3>1
    <3>3. m \notin db' \cup undone' \cup acked' BY <1>1, <2>3, <3>1, <3>2 DEF Fresh
    <3>4. PICK i \in DOMAIN txn[c] : txn[c][i].name = m BY <3>1 DEF Nested
    <3>5. i \in 1..q
      <4>1. i < p BY <1>4, <3>1, <3>4
      <4>2. QED BY <1>4, <2>1, <3>4, <4>1
    <3>6. ~(txn[c][q].name < m)
      <4>1. i = q \/ i < q BY <2>2, <3>5
      <4>2. q \in DOMAIN txn[c] BY <2>2, <2>6
      <4>3. i < q => m < txn[c][q].name
        BY <1>3, <3>4, <4>2 DEF SavepointInv, StackInv
      <4>4. txn[c][q].name \in Nat BY <1>3, <4>2, NumbersLemma DEF SavepointInv
      <4>5. QED BY <3>1, <3>4, <4>1, <4>3, <4>4
    <3>7. \A w \in WritesFrom(c, p) : ~(w < m)
      <4>1. \A w \in WritesFrom(c, p) : w \in Nat /\ ~(w < n)
        BY <1>3, <1>5, NumbersLemma DEF SavepointInv
      <4>2. QED BY <1>2, <3>1, <4>1
    <3>8. ASSUME NEW j \in 1..q, NEW w \in txn'[c][j].writes
          PROVE  w < m <=> txn'[c][j].name < m
      <4>1. j \in DOMAIN txn[c] BY <2>2
      <4>2. w \in txn[c][j].writes \/ (j = q /\ w \in WritesFrom(c, p)) BY <2>3, <3>8
      <4>3. CASE w \in txn[c][j].writes BY <2>3, <3>1, <4>1, <4>3 DEF Nested
      <4>4. CASE j = q /\ w \in WritesFrom(c, p) BY <2>3, <3>6, <3>7, <4>4
      <4>5. QED BY <4>2, <4>3, <4>4
    <3>9. \A w \in acked' \cap AllWrites(c)' : w < m BY <2>3, <3>1, <3>2 DEF Nested
    <3>10. txn'[c][i].name = m BY <2>3, <3>4, <3>5
    <3>11. conn'[t] = c BY <1>1
    <3>12. DOMAIN txn'[c] = 1..q BY <2>3
    <3>13. \E j \in DOMAIN txn'[c] : txn'[c][j].name = m BY <3>5, <3>10, <3>12
    <3>14. \A j \in DOMAIN txn'[c] : \A w \in txn'[c][j].writes : w < m <=> txn'[c][j].name < m
      BY <3>8, <3>12
    <3>15. Nested(t, m)' BY <3>9, <3>11, <3>13, <3>14 DEF Nested, AllWrites
    <3>16. QED BY <3>3, <3>15
  <2>13. QED BY <1>3, <1>7, <2>5, <2>9, <2>10, <2>11, <2>12, EffectLemma
<1>16. QED BY <1>14, <1>15

\* Rollback (pool.go:136-151) undoes what was written since its savepoint, which is
\* all above it, and nothing that was acknowledged.
LEMMA RollbackStep ==
  ASSUME PoolInv, PoolInv', SavepointInv, NEW t \in Tasks, NEW c, NEW n, NEW p,
         c = conn[t], n = Innermost(t), p = Position(c, n), Rollback(t), Others(t)
  PROVE  SavepointInv'
<1>1. /\ c # None /\ ~released[t] /\ RollbackAt(c, p) /\ Leave(t)
      /\ undone' = undone \cup WritesFrom(c, p) /\ UNCHANGED <<drawn, acked>>
      /\ tainted' = IF AtTop(t) THEN tainted \cup {c} ELSE tainted
  BY DEF Rollback, RollbackWith, InSavepoint, Leave, Taint
<1>2. /\ n \in Live(t) /\ n \in Nat /\ \A m \in Live(t) \ {n} : m \in Nat /\ m < n
      /\ AtTop(t) <=> Live(t) \ {n} = {}
  BY <1>1, NestLemma
<1>3. c \in Conns /\ \A u \in Tasks \ {t} : Live(u) = {} \/ conn[u] # c
  BY <1>2, LiveHolds
<1>4. /\ p \in DOMAIN txn[c] /\ txn[c][p].name = n /\ p \in Nat \ {0}
      /\ \A i \in DOMAIN txn[c] : i < p <=> txn[c][i].name < n
      /\ DOMAIN txn[c] = 1..Len(txn[c]) /\ Len(txn[c]) \in Nat \ {0}
  BY <1>2, PositionLemma
<1>5. /\ WritesFrom(c, p) = {w \in AllWrites(c) : ~(w < n)}
      /\ \A i \in DOMAIN txn[c] : \A w \in txn[c][i].writes : w \in Nat /\ (w < n <=> i < p)
  BY <1>2, SinceLemma
<1>6. txn \in [Conns -> Seq(Levels)] /\ txn[c] # <<>> /\ drawn \in Nat
  BY <1>3, <1>4, EmptySeq DEF SavepointInv, DbTypeOK, PoolInv, PoolTypeOK
<1>7. /\ Live(t)' = Live(t) \ {n} /\ NestInv(t)'
      /\ ~AtTop(t) => sps'[t][1] = sps[t][1] /\ conn'[t] = c
  BY <1>1, LeaveLive
<1>8. \A w \in acked : w \in AllWrites(c) => c \in tainted BY <1>3, AckedTaints
<1>9. /\ txn' \in [Conns -> Seq(Levels)]
      /\ \A d \in Conns \ {c} : txn'[d] = txn[d]
      /\ DOMAIN txn'[c] = 1..p
      /\ \A i \in 1..p : txn'[c][i].name = txn[c][i].name
      /\ \A i \in 1..p : txn'[c][i].writes = IF i = p THEN {} ELSE txn[c][i].writes
      /\ db' = db
  <2>1. c \in Conns /\ txn \in [Conns -> Seq(Levels)] /\ p \in DOMAIN txn[c] /\ RollbackAt(c, p)
    BY <1>1, <1>3, <1>4, <1>6
  <2>2. QED BY ONLY <2>1, RollbackLemma, Zenon
<1>10. 1..p \subseteq DOMAIN txn[c] /\ 1 \in 1..p /\ \A i \in 1..p : i < p \/ i = p
  BY <1>4
<1>11. AllWrites(c)' = {w \in AllWrites(c) : w < n}
  <2>1. ASSUME NEW w \in AllWrites(c)' PROVE w \in AllWrites(c) /\ w < n
    <3>1. PICK i \in 1..p : w \in txn'[c][i].writes BY <1>9 DEF AllWrites
    <3>2. i # p /\ w \in txn[c][i].writes BY <1>9, <3>1
    <3>3. i \in DOMAIN txn[c] /\ i < p BY <1>10, <3>2
    <3>4. QED BY <1>5, <3>2, <3>3 DEF AllWrites
  <2>2. ASSUME NEW w \in AllWrites(c), w < n PROVE w \in AllWrites(c)'
    <3>1. PICK i \in DOMAIN txn[c] : w \in txn[c][i].writes BY DEF AllWrites
    <3>2. i < p BY <1>5, <2>2, <3>1
    <3>3. i \in 1..p /\ i # p BY <1>4, <3>1, <3>2
    <3>4. QED BY <1>9, <3>1, <3>3 DEF AllWrites
  <2>3. QED BY <2>1, <2>2
<1>12. \A w \in acked : w \in AllWrites(c) => w < n
  BY <1>2 DEF SavepointInv, LiveInv, Nested
<1>13. DbTypeOK'
  <2>1. wlock' = wlock BY <1>1 DEF RollbackAt
  <2>2. WritesFrom(c, p) \subseteq Nat BY <1>3, <1>5, NumbersLemma DEF SavepointInv
  <2>3. QED BY <1>1, <1>3, <1>9, <2>1, <2>2 DEF SavepointInv, DbTypeOK, Names
<1>14. Live(t)' = {} \/ conn'[t] = c BY <1>2, <1>7
<1>15. Effect(t, c, {})
  <2>1. tainted \subseteq tainted' BY <1>1
  <2>2. \A w \in undone' \ undone : w \in AllWrites(c) /\ w \notin AllWrites(c)' /\ w \notin db'
    BY <1>1, <1>3, <1>5, <1>9, <1>11 DEF SavepointInv, StackInv
  <2>3. \A w \in acked' : w \in AllWrites(c) => c \in tainted' /\ w \in AllWrites(c)'
    BY <1>1, <1>8, <1>11, <1>12, <2>1
  <2>4. QED
    BY <1>1, <1>3, <1>6, <1>7, <1>9, <1>11, <1>14, <2>1, <2>2, <2>3 DEF Effect
<1>16. Clean(c)'
  <2>1. SUFFICES ASSUME c \notin tainted' PROVE Clean(c)'
    BY DEF Clean
  <2>2. c \notin tainted /\ ~AtTop(t) BY <1>1, <2>1
  <2>3. PICK u \in Tasks : Live(u) # {} /\ conn[u] = c /\ txn[c][1].name = sps[u][1]
    BY <1>3, <1>6, <2>2 DEF SavepointInv, Clean
  <2>4. u = t BY <1>3, <2>3
  <2>5. Live(t)' # {} BY <1>2, <1>7, <2>2
  <2>6. txn'[c][1].name = sps'[t][1] BY <1>7, <1>9, <1>10, <2>2, <2>3, <2>4
  <2>7. QED BY <1>7, <2>2, <2>5, <2>6 DEF Clean
<1>17. /\ \A i, j \in DOMAIN txn'[c] : i < j => txn'[c][i].name < txn'[c][j].name
       /\ \A i \in DOMAIN txn'[c] : txn'[c][i].name < drawn'
  <2>1. StackInv(c) /\ drawn' = drawn BY <1>1, <1>3 DEF SavepointInv
  <2>2. /\ \A i, j \in 1..p : i < j => txn[c][i].name < txn[c][j].name
        /\ \A i \in 1..p : txn[c][i].name < drawn
    BY <1>10, <2>1 DEF StackInv
  <2>3. QED BY <1>9, <2>1, <2>2
<1>18. ASSUME NEW m \in Live(t)'
       PROVE  m \notin db' \cup undone' \cup acked' /\ Nested(t, m)'
  <2>1. m \in Live(t) \ {n} /\ m \in Nat /\ m < n /\ Fresh(t, m) /\ Nested(t, m)
    BY <1>2, <1>7 DEF SavepointInv, LiveInv
  <2>2. m \notin WritesFrom(c, p) BY <1>5, <2>1
  <2>3. m \notin db' \cup undone' \cup acked' BY <1>1, <1>9, <2>1, <2>2 DEF Fresh
  <2>4. PICK i \in DOMAIN txn[c] : txn[c][i].name = m BY <2>1 DEF Nested
  <2>5. i \in 1..p
    <3>1. i < p BY <1>4, <2>1, <2>4
    <3>2. QED BY <1>4, <2>4, <3>1
  <2>6. \E j \in DOMAIN txn'[c] : txn'[c][j].name = m BY <1>9, <2>4, <2>5
  <2>7. ASSUME NEW j \in 1..p, NEW w \in txn'[c][j].writes
        PROVE  w < m <=> txn'[c][j].name < m
    <3>1. j \in DOMAIN txn[c] /\ w \in txn[c][j].writes BY <1>9, <1>10, <2>7
    <3>2. QED BY <1>9, <2>1, <3>1 DEF Nested
  <2>8. \A w \in acked' \cap AllWrites(c)' : w < m BY <1>1, <1>11, <2>1 DEF Nested
  <2>9. conn'[t] = c /\ DOMAIN txn'[c] = 1..p BY <1>9, <1>14
  <2>10. Nested(t, m)' BY <2>6, <2>7, <2>8, <2>9 DEF Nested, AllWrites
  <2>11. QED BY <2>3, <2>10
<1>19. QED
  BY <1>3, <1>7, <1>13, <1>15, <1>16, <1>17, <1>18, EffectLemma

LEMMA SavepointInit == Init => SavepointInv
<1> SUFFICES ASSUME Init PROVE SavepointInv
  OBVIOUS
<1>1. /\ txn = [c \in Conns |-> <<>>] /\ sps = [t \in Tasks |-> <<>>] /\ wlock = None
      /\ db = {} /\ acked = {} /\ undone = {} /\ tainted = {}
  BY DEF Init
<1>2. DOMAIN <<>> = {} /\ <<>> \in Seq(Levels) BY EmptySeq, LenProperties
<1>3. DbTypeOK BY <1>1, <1>2 DEF DbTypeOK
<1>4. \A c \in Conns : AllWrites(c) = {} BY <1>1, <1>2 DEF AllWrites
<1>5. \A t \in Tasks : Live(t) = {} /\ NestInv(t)
  BY <1>1, <1>2 DEF Live, NestInv
<1>6. QED BY <1>1, <1>2, <1>3, <1>4, <1>5
          DEF SavepointInv, StackInv, Clean, LiveInv, History

\* Every step changes the hands of one task only.
LEMMA StepOthers ==
  ASSUME PoolInv, NEW t \in Tasks, Step(t)
  PROVE  Others(t)
<1> USE DEF Others, poolVars, taskVars, PoolInv, PoolTypeOK
<1>1. CASE \/ CallSavepoint(t) \/ CallExec(t) \/ CallFilter(t) \/ Sleep(t)
           \/ RowsErr(t) \/ RowsForgotten(t) \/ FilterDone(t)
  BY <1>1 DEF CallSavepoint, CallExec, CallFilter, Call, Sleep, RowsErr, RowsForgotten, FilterDone
<1>2. CASE TakeSavepoint(t) \/ TakeSavepointFails(t) \/ TakeExec(t) \/ TakeFilter(t)
  BY <1>2 DEF TakeSavepoint, TakeSavepointFails, TakeExec, TakeFilter, Take
<1>3. CASE \/ SavepointNested(t) \/ Write(t) \/ Release(t) \/ ReleaseFails(t)
           \/ RollbackReleased(t) \/ Rollback(t) \/ RollbackFails(t) \/ Abandon(t)
  BY <1>3 DEF SavepointNested, Write, Release, ReleasePosition, ReleaseFails,
              RollbackReleased, Rollback, RollbackWith, RollbackFails, Abandon,
              Leave, PutIfTop
<1>4. QED BY <1>1, <1>2, <1>3 DEF Step

LEMMA SavepointNext == PoolInv /\ SavepointInv /\ [Next]_vars => SavepointInv'
<1> SUFFICES ASSUME PoolInv, SavepointInv, [Next]_vars PROVE SavepointInv'
  OBVIOUS
<1>1. PoolInv' BY PoolNext
<1>2. CASE UNCHANGED vars
  <2>1. UNCHANGED <<taskVars, dbVars>> BY <1>2 DEF vars
  <2> USE <2>1 DEF taskVars, dbVars
  <2>2. /\ \A t : Live(t)' = Live(t) /\ (NestInv(t) => NestInv(t)')
        /\ \A c : AllWrites(c)' = AllWrites(c)
    BY DEF Live, Innermost, NestInv, AllWrites
  <2>3. DbTypeOK' BY DEF SavepointInv, DbTypeOK
  <2>4. \A c \in Conns : StackInv(c)' /\ Clean(c)' BY <2>2 DEF SavepointInv, StackInv, Clean
  <2>5. \A t \in Tasks : \A n \in Live(t) : Fresh(t, n)' /\ Nested(t, n)'
    <3>1. ASSUME NEW t \in Tasks, NEW n \in Live(t) PROVE Fresh(t, n)' /\ Nested(t, n)'
      <4>1. Fresh(t, n) /\ Nested(t, n) BY DEF SavepointInv, LiveInv
      <4>2. Fresh(t, n)' BY <2>2, <4>1 DEF Fresh
      <4>3. Nested(t, n)' BY <2>2, <4>1 DEF Nested, AllWrites
      <4>4. QED BY <4>2, <4>3
    <3>2. QED BY <3>1
  <2>6. History' BY <2>2 DEF SavepointInv, History
  <2>7. QED BY <2>2, <2>3, <2>4, <2>5, <2>6 DEF SavepointInv, LiveInv
<1>3. ASSUME NEW t \in Tasks, Step(t) PROVE SavepointInv'
  <2>1. Others(t) /\ drawn \in Nat BY <1>3, StepOthers DEF PoolInv, PoolTypeOK
  <2>2. drawn <= drawn BY <2>1
  <2>3. CASE \/ CallSavepoint(t) \/ CallExec(t) \/ CallFilter(t) \/ Sleep(t)
             \/ TakeSavepointFails(t) \/ TakeFilter(t)
             \/ RowsErr(t) \/ RowsForgotten(t) \/ FilterDone(t)
    <3>1. UNCHANGED <<conn, sps, released, drawn, txn, wlock, db, acked, undone, tainted>>
      BY <2>3 DEF CallSavepoint, CallExec, CallFilter, Call, Sleep, TakeSavepointFails, TakeFilter,
                  RowsErr, RowsForgotten, FilterDone, taskVars, dbVars
    <3>2. QED BY <2>1, <2>2, <3>1, IdleSteps
  <2>4. CASE TakeSavepoint(t) BY <1>1, <2>4, TakeSavepointStep
  <2>5. CASE TakeExec(t) BY <1>1, <2>5, ExecStep
  <2>6. CASE SavepointNested(t) BY <1>1, <2>6, NestedStep
  <2>7. CASE Write(t) BY <1>1, <2>7, WriteStep
  <2>8. CASE Release(t) BY <1>1, <2>1, <2>8, ReleaseStep
  <2>9. CASE Rollback(t) BY <1>1, <2>1, <2>9, RollbackStep
  <2>10. CASE \/ ReleaseFails(t) \/ RollbackReleased(t)
              \/ RollbackFails(t) \/ Abandon(t)
    BY <2>1, <2>10, DropSteps
  <2>11. QED
    BY <1>3, <2>3, <2>4, <2>5, <2>6, <2>7, <2>8, <2>9, <2>10 DEF Step
<1>4. QED BY <1>2, <1>3 DEF Next, Finished

\* What a ROLLBACK TO has undone stays out of the database, whether the savepoints
\* around it are released or rolled back or fail to be, on whatever connection, and
\* however many other tasks write meanwhile (pool.go:134-151). A Rollback whose
\* statement fails undoes nothing, and the theorem says nothing of its writes.
THEOREM RolledBackForGood == Spec => []RollbackIsFinal
<1>1. SavepointInv => RollbackIsFinal
  BY DEF SavepointInv, History, RollbackIsFinal
<1>2. QED BY <1>1, PoolInit, PoolNext, SavepointInit, SavepointNext, PTL DEF Spec

\* A write whose call has reported success is committed, or it waits in the
\* transaction of a connection that was given back with its savepoint still open
\* (pool.go:111-151).
THEOREM SuccessIsCommitted == Spec => []AckedIsCommittedOrTainted
<1>1. SavepointInv => AckedIsCommittedOrTainted
  <2> SUFFICES ASSUME SavepointInv, NEW w \in acked, w \notin db
               PROVE  \E c \in tainted : txn[c] # <<>> /\ w \in WritesFrom(c, 1)
    BY DEF AckedIsCommittedOrTainted
  <2>1. PICK c \in tainted : w \in AllWrites(c) BY DEF SavepointInv, History
  <2>2. txn[c] \in Seq(Levels) BY <2>1 DEF SavepointInv, DbTypeOK
  <2>3. txn[c] # <<>> BY <2>1, EmptySeq, LenProperties DEF AllWrites
  <2>4. QED BY <2>1, <2>2, <2>3, AllFromFirst
<1>2. QED BY <1>1, PoolInit, PoolNext, SavepointInit, SavepointNext, PTL DEF Spec
=============================================================================
