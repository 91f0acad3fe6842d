------------------------- MODULE SyslogBuffer_proofs ------------------------
(***************************************************************************)
(* Proofs about SyslogBuffer for any set of readers, any number of records *)
(* and any size of the window: each reader reads consecutive records, and  *)
(* sleeps only while there is none for it.                                 *)
(*                                                                         *)
(* The argument: as append never counts its records (cnt stays 0 and Max   *)
(* is at least 1), no node is ever dropped or recycled. The list is then   *)
(* the nodes of generations 1, 2, ..., each holding the record of its      *)
(* generation and followed by the next generation, and a reader that has   *)
(* read k records stands on the node of generation k.                      *)
(***************************************************************************)
EXTENDS SyslogBuffer, SequenceTheorems, TLAPS

\* The nodes that append has linked: it gives each a generation.
Linked == {n \in used : ngen[n] # 0}

\* The part of the type invariant that the argument uses.
Types ==
  /\ cnt = 0 /\ pool = {} /\ used \subseteq Nodes /\ recv \in Nat
  /\ gen \in Nat \cup {closedgen}
  /\ next \in [Nodes -> Nodes \cup {Nil}] /\ ngen \in [Nodes -> Nat]
  /\ buf \in [Nodes -> Nat]
  /\ nd \in [Readers -> Nodes \cup {Nil}]
  /\ at \in [Readers -> {"out", "wait", "read", "done"}]
  /\ seen \in [Readers -> Seq(Nat)]

\* The node that append holds: it carries the last record received, which
\* is of the next generation unless the buffer is closed.
Writer ==
  /\ writer \in {"idle", "filled", "linked"}
  /\ pending # Nil <=> writer = "filled"
  /\ pending # Nil => /\ pending \in used /\ buf[pending] = recv
                      /\ next[pending] = Nil /\ ngen[pending] = 0
  /\ gen # closedgen => recv = IF pending = Nil THEN gen ELSE gen + 1

\* The list: generation by generation from first to last.
List ==
  /\ \A n \in Nodes \ used : next[n] = Nil /\ ngen[n] = 0
  /\ \A n \in Linked : ngen[n] \in Nat \ {0} /\ buf[n] = ngen[n]
  /\ \A n \in Linked : next[n] # Nil =>
       next[n] \in Linked /\ ngen[next[n]] = ngen[n] + 1
  /\ first # Nil => first \in Linked /\ ngen[first] = 1
  /\ first = Nil <=> last = Nil
  /\ last # Nil => last \in Linked /\ next[last] = Nil
  /\ gen # closedgen => IF last = Nil THEN gen = 0 ELSE ngen[last] = gen

\* Where each reader stands.
Cursors ==
  \A r \in Readers :
    /\ nd[r] = Nil => seen[r] = <<>> /\ at[r] # "read"
    /\ nd[r] # Nil =>
         /\ nd[r] \in Linked
         /\ ngen[nd[r]] = IF at[r] = "read" THEN Len(seen[r]) + 1
                                            ELSE Len(seen[r])

\* Each reader has read the records from the first one on: more than InOrder
\* says, and true because no record is ever dropped.
FromTheFirst == \A r \in Readers : \A i \in DOMAIN seen[r] : seen[r][i] = i

\* The inductive invariant.
BufferInv == Types /\ Writer /\ List /\ Cursors /\ FromTheFirst

\* It holds initially.
LEMMA BufferInit == Init => BufferInv
  BY NilAssumption, EmptySeq
  DEF Init, BufferInv, Types, Writer, List, Linked, Cursors, FromTheFirst, closedgen

\* What reading one more record (circ.go:116) does to a reader's history.
LEMMA AppendRecord ==
  ASSUME NEW s \in Seq(Nat), NEW v \in Nat, v = Len(s) + 1,
         \A i \in DOMAIN s : s[i] = i
  PROVE  /\ Append(s, v) \in Seq(Nat) /\ Len(Append(s, v)) = Len(s) + 1
         /\ \A i \in DOMAIN Append(s, v) : Append(s, v)[i] = i
<1>1. /\ Append(s, v) \in Seq(Nat) /\ Len(Append(s, v)) = Len(s) + 1
      /\ \A i \in 1..Len(s) : Append(s, v)[i] = s[i]
      /\ Append(s, v)[Len(s) + 1] = v
  BY AppendProperties
<1>2. /\ DOMAIN Append(s, v) = 1..(Len(s) + 1) /\ DOMAIN s = 1..Len(s)
      /\ Len(s) \in Nat
  BY <1>1, LenProperties
<1>3. QED BY <1>1, <1>2

\* Every step preserves it (circ.go:28-116).
LEMMA BufferNext == BufferInv /\ [Next]_vars => BufferInv'
<1> SUFFICES ASSUME BufferInv, [Next]_vars PROVE BufferInv'
  OBVIOUS
<1> USE NilAssumption DEF closedgen, listVars, writerVars, readerVars
<1>0. Types /\ Writer /\ List /\ Cursors /\ FromTheFirst
  BY DEF BufferInv
<1>1. ASSUME NEW n \in Nodes, Fill(n) PROVE BufferInv'
  <2>1. /\ n \notin used /\ pool' = {} /\ Linked' = Linked
        /\ next[n] = Nil /\ ngen[n] = 0 /\ pending = Nil
    BY <1>0, <1>1 DEF Fill, Types, Writer, List, Linked
  <2>2. Types' BY <1>0, <1>1, <2>1 DEF Fill, Types
  <2>3. Writer' BY <1>0, <1>1, <2>1 DEF Fill, Types, Writer
  <2>4. List' BY <1>0, <1>1, <2>1 DEF Fill, Types, List, Linked
  <2>5. Cursors' /\ FromTheFirst' BY <1>0, <1>1, <2>1 DEF Fill, Cursors, FromTheFirst
  <2>6. QED BY <2>2, <2>3, <2>4, <2>5 DEF BufferInv
<1>2. CASE Link
  <2>1. /\ pending \in Nodes /\ pending \in used /\ gen \in Nat
        /\ buf[pending] = gen + 1 /\ next[pending] = Nil /\ pending \notin Linked
    BY <1>0, <1>2 DEF Link, LinkWith, Types, Writer, Linked
  <2>2. /\ gen' = gen + 1 /\ ngen' = [ngen EXCEPT ![pending] = gen + 1]
        /\ last' = pending /\ pending' = Nil /\ writer' = "linked"
        /\ next' = LinkedNext /\ cnt' = cnt
        /\ first' = IF first = Nil THEN pending ELSE first
        /\ UNCHANGED <<pool, used, recv, buf, nd, at, seen>>
    BY <1>0, <1>2, MaxAssumption DEF Link, LinkWith, Types
  <2>3. Linked' = Linked \cup {pending}
    BY <1>0, <2>1, <2>2 DEF Types, Linked
  <2>4. Types' BY <1>0, <2>1, <2>2 DEF Types, LinkedNext, List, Linked
  <2>5. Writer' BY <1>0, <2>1, <2>2 DEF Writer
  <2>6. List'
    <3>1. \A n \in Nodes \ used' : next'[n] = Nil /\ ngen'[n] = 0
      BY <1>0, <2>1, <2>2 DEF Types, List, Linked, LinkedNext
    <3>2. \A n \in Linked' : ngen'[n] \in Nat \ {0} /\ buf'[n] = ngen'[n]
      BY <1>0, <2>1, <2>2, <2>3 DEF Types, List
    <3>3. ASSUME NEW n \in Linked', next'[n] # Nil
          PROVE  next'[n] \in Linked' /\ ngen'[next'[n]] = ngen'[n] + 1
      <4>1. CASE n = last
        BY <4>1, <3>3, <1>0, <2>1, <2>2, <2>3
        DEF Types, List, Linked, LinkedNext
      <4>2. CASE n # last
        BY <4>2, <3>3, <1>0, <2>1, <2>2, <2>3
        DEF Types, List, Linked, LinkedNext
      <4>3. QED BY <4>1, <4>2
    <3>4. first' # Nil => first' \in Linked' /\ ngen'[first'] = 1
      BY <1>0, <2>1, <2>2, <2>3 DEF Types, List, Linked
    <3>5. /\ first' = Nil <=> last' = Nil
          /\ last' \in Linked' /\ next'[last'] = Nil /\ ngen'[last'] = gen'
      BY <1>0, <2>1, <2>2, <2>3 DEF Types, List, Linked, LinkedNext
    <3>6. QED BY <2>1, <2>2, <3>1, <3>2, <3>3, <3>4, <3>5 DEF List
  <2>7. Cursors' /\ FromTheFirst'
    BY <1>0, <2>1, <2>2, <2>3 DEF Types, Cursors, FromTheFirst, Linked
  <2>8. QED BY <2>4, <2>5, <2>6, <2>7 DEF BufferInv
<1>3. CASE LinkClosed
  BY <1>0, <1>3
  DEF LinkClosed, BufferInv, Types, Writer, List, Linked, Cursors, FromTheFirst
<1>4. CASE Broadcast \/ CloseBroadcast
  <2>1. /\ UNCHANGED <<listVars, used, pending, recv, buf, readerVars, Linked>>
        /\ (writer' \in {writer, "idle"} /\ pending = Nil) \/ writer' = writer
    BY <1>0, <1>4 DEF Broadcast, CloseBroadcast, Writer, Linked
  <2>2. QED
    BY <1>0, <2>1, <1>4
    DEF Broadcast, CloseBroadcast, BufferInv, Types, Writer, List, Cursors,
        FromTheFirst
<1>5. CASE Close
  BY <1>0, <1>5
  DEF Close, BufferInv, Types, Writer, List, Linked, Cursors, FromTheFirst
<1>6. ASSUME NEW r \in Readers, Read(r) \/ Stop(r) PROVE BufferInv'
  <2>1. UNCHANGED <<listVars, writerVars, Linked>> /\ Writer' /\ List'
    BY <1>0, <1>6
    DEF Read, NextFalse, NextWait, NextTrue, Value, Stop, Linked, Writer, List
  <2>2. CASE NextFalse(r) \/ NextWait(r) \/ Stop(r)
    BY <1>0, <2>1, <2>2
    DEF NextFalse, NextWait, Stop, Awake, BufferInv, Types, Cursors, FromTheFirst
  <2>3. CASE NextTrue(r)
    <3>1. /\ at[r] # "read" /\ at' = [at EXCEPT ![r] = "read"]
          /\ seen' = seen
          /\ nd' = [nd EXCEPT ![r] = IF nd[r] = Nil THEN first ELSE next[nd[r]]]
      BY <2>3 DEF NextTrue, Awake
    <3>2. LET to == IF nd[r] = Nil THEN first ELSE next[nd[r]]
          IN to \in Linked /\ to \in Nodes /\ ngen[to] = Len(seen[r]) + 1
      BY <1>0, <2>3, EmptySeq
      DEF NextTrue, Awake, NothingFor, Types, List, Linked, Cursors
    <3>3. Types' BY <1>0, <2>1, <3>1, <3>2 DEF Types
    <3>4. Cursors' BY <1>0, <2>1, <3>1, <3>2 DEF Types, Cursors
    <3>5. FromTheFirst' BY <1>0, <3>1 DEF FromTheFirst
    <3>6. QED BY <2>1, <3>3, <3>4, <3>5 DEF BufferInv
  <2>4. CASE Value(r)
    <3>1. /\ at[r] = "read" /\ at' = [at EXCEPT ![r] = "out"] /\ nd' = nd
          /\ seen' = [seen EXCEPT ![r] = Append(seen[r], buf[nd[r]])]
      BY <2>4 DEF Value
    <3>2. /\ seen[r] \in Seq(Nat) /\ nd[r] \in Linked /\ nd[r] # Nil
          /\ buf[nd[r]] = Len(seen[r]) + 1 /\ buf[nd[r]] \in Nat
          /\ \A i \in DOMAIN seen[r] : seen[r][i] = i
      BY <1>0, <3>1 DEF Types, List, Linked, Cursors, FromTheFirst
    <3>3. /\ seen'[r] \in Seq(Nat) /\ Len(seen'[r]) = Len(seen[r]) + 1
          /\ \A i \in DOMAIN seen'[r] : seen'[r][i] = i
      BY <1>0, <3>1, <3>2, AppendRecord DEF Types
    <3>4. Types' BY <1>0, <2>1, <3>1, <3>3 DEF Types
    <3>5. Cursors'
      BY <1>0, <2>1, <3>1, <3>2, <3>3 DEF Types, List, Cursors
    <3>6. FromTheFirst' BY <1>0, <3>1, <3>3 DEF Types, FromTheFirst
    <3>7. QED BY <2>1, <3>4, <3>5, <3>6 DEF BufferInv
  <2>5. QED BY <1>6, <2>2, <2>3, <2>4 DEF Read
<1>7. CASE UNCHANGED vars
  BY <1>0, <1>7
  DEF vars, BufferInv, Types, Writer, List, Linked, Cursors, FromTheFirst
<1>8. QED
  BY <1>1, <1>2, <1>3, <1>4, <1>5, <1>6, <1>7 DEF Next, Write

\* For any number of readers and records, each reader reads consecutive records in
\* the order the socket received them, without a gap or a repetition
\* (TestCircularBuffer, circ_test.go:52).
THEOREM ReadersInOrder == Spec => []InOrder
<1>1. BufferInv => InOrder
  <2> SUFFICES ASSUME BufferInv, NEW r \in Readers, NEW i \in DOMAIN seen[r], i > 1
               PROVE  seen[r][i] = seen[r][i - 1] + 1
    BY DEF InOrder
  <2>1. seen[r] \in Seq(Nat) /\ DOMAIN seen[r] = 1..Len(seen[r]) /\ Len(seen[r]) \in Nat
    BY LenProperties DEF BufferInv, Types
  <2>2. i - 1 \in DOMAIN seen[r] /\ i \in Nat
    BY <2>1
  <2>3. seen[r][i] = i /\ seen[r][i - 1] = i - 1
    BY <2>2 DEF BufferInv, FromTheFirst
  <2>4. QED BY <2>2, <2>3
<1>2. QED
  BY <1>1, BufferInit, BufferNext, PTL DEF Spec

-----------------------------------------------------------------------------
(* Wake-ups                                                                *)

\* A sleeper is in the loop of next; append and close only wake sleepers
\* after they have changed what the sleepers wait for, and a reader looks and
\* falls asleep under the lock.
WakeupInv == asleep \subseteq Readers /\ NoMissedWakeup

\* What a step of the writer, of close or of a reader does to a sleeper
\* (circ.go:31-32, 73-74, 98-100).
LEMMA WakeupStep == BufferInv /\ WakeupInv /\ [Next]_vars => WakeupInv'
<1> SUFFICES ASSUME BufferInv, WakeupInv, [Next]_vars PROVE WakeupInv'
  OBVIOUS
<1> USE DEF listVars, writerVars, readerVars, WakeupInv, NoMissedWakeup
<1>1. ASSUME NEW n \in Nodes, Fill(n) PROVE WakeupInv'
  BY <1>1 DEF Fill, NothingFor, BufferInv, Writer
<1>2. CASE Link
  BY <1>2 DEF Link, LinkWith
<1>3. CASE LinkClosed
  BY <1>3 DEF LinkClosed, NothingFor
<1>4. CASE Broadcast \/ CloseBroadcast
  BY <1>4 DEF Broadcast, CloseBroadcast
<1>5. CASE Close
  BY <1>5 DEF Close
<1>6. ASSUME NEW r \in Readers, NextWait(r) PROVE WakeupInv'
  BY <1>6 DEF NextWait, NothingFor, GivesUp
<1>7. ASSUME NEW r \in Readers, NextTrue(r) PROVE WakeupInv'
  <2>1. r \notin asleep /\ \A q \in Readers \ {r} : nd'[q] = nd[q]
    BY <1>7 DEF NextTrue, Awake, BufferInv, Types
  <2>2. QED BY <1>7, <2>1 DEF NextTrue, NothingFor
<1>8. ASSUME NEW r \in Readers, NextFalse(r) \/ Value(r) \/ Stop(r)
      PROVE  WakeupInv'
  BY <1>8 DEF NextFalse, Value, Stop, NothingFor
<1>9. CASE UNCHANGED vars
  BY <1>9 DEF vars, NothingFor
<1>10. QED
  BY <1>1, <1>2, <1>3, <1>4, <1>5, <1>6, <1>7, <1>8, <1>9 DEF Next, Write, Read

\* A reader is never left asleep on a record or on a closed buffer: as long as
\* there is something for it, a broadcast is on its way (circ.go:31, 73).
THEOREM SleepersAreWoken == Spec => []NoMissedWakeup
<1>1. Init => WakeupInv
  BY DEF Init, WakeupInv, NoMissedWakeup
<1>2. WakeupInv => NoMissedWakeup
  BY DEF WakeupInv
<1>3. QED BY <1>1, <1>2, BufferInit, BufferNext, WakeupStep, PTL DEF Spec

\* What the ordering argument does not use of the type invariant.
RestTypes ==
  /\ refs \in [Nodes -> Int] /\ asleep \subseteq Readers
  /\ closer \in {"open", "marked", "done"}

LEMMA RestStep == BufferInv /\ RestTypes /\ [Next]_vars => RestTypes'
<1> SUFFICES ASSUME BufferInv, RestTypes, [Next]_vars PROVE RestTypes'
  OBVIOUS
<1> USE DEF listVars, writerVars, readerVars, RestTypes
<1>1. CASE Write
  BY <1>1 DEF Write, Fill, Link, LinkWith, LinkClosed, Broadcast
<1>2. CASE Close \/ CloseBroadcast
  BY <1>2 DEF Close, CloseBroadcast
<1>3. ASSUME NEW r \in Readers, NextTrue(r) PROVE RestTypes'
  <2>1. refs' = refs \/ \E n, k \in Nodes :
          refs' = [refs EXCEPT ![n] = @ - 1, ![k] = @ + 1]
    BY <1>3 DEF NextTrue, NothingFor, BufferInv, Types
  <2>2. refs' \in [Nodes -> Int] BY <2>1
  <2>3. QED BY <1>3, <2>2 DEF NextTrue
<1>4. ASSUME NEW r \in Readers, NextFalse(r) \/ NextWait(r) \/ Value(r) \/ Stop(r)
      PROVE  RestTypes'
  BY <1>4 DEF NextFalse, NextWait, Value, Stop
<1>5. CASE UNCHANGED vars BY <1>5 DEF vars
<1>6. QED BY <1>1, <1>2, <1>3, <1>4, <1>5 DEF Next, Read

\* The state of the buffer has its type (circ.go:11-18, 77-87).
THEOREM BufferTypes == Spec => []TypeOK
<1>1. Init => RestTypes
  BY DEF Init, RestTypes
<1>2. BufferInv /\ RestTypes => TypeOK
  BY DEF BufferInv, RestTypes, Types, Writer, List, Linked, TypeOK
<1>3. QED BY <1>1, <1>2, BufferInit, BufferNext, RestStep, PTL DEF Spec
=============================================================================
