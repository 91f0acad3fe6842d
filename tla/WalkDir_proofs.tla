--------------------------- MODULE WalkDir_proofs ---------------------------
(***************************************************************************)
(* A successful walk finds exactly the matching files that its requests    *)
(* reach, for every tree, pattern, limit and failure. A path is known when *)
(* it waits, is active or is done; each path is in one of these places     *)
(* only, because every path but the root has one parent and is made known  *)
(* when its parent is done. The count is the number of active paths, so    *)
(* that the coordinator closes the channels when all the known paths are   *)
(* done; these contain the root and what follows from each of them, hence  *)
(* everything that can be reached.                                         *)
(***************************************************************************)
EXTENDS WalkDir, FiniteSetTheorems, TLAPS

Done == {n \in Nodes : work[n] = "done"}

Known == nextup \cup Active \cup Done

\* Each path is in one place.
Places ==
  /\ caller = "go" <=> given \in Nodes
  /\ given \in Nodes => work[given] = "no" /\ given \notin nextup
  /\ \A n \in nextup : work[n] = "no"
  /\ coord = "first" => given = None /\ nextup = {}
  /\ coord = "first" => \A n \in Nodes : work[n] = "no"

\* A path other than the root was sent by its parent, which is done, and what
\* a path that is done has sent is known.
Family ==
  /\ Root \in Known
  /\ \A n \in Known : n # Root => \E d \in Done : n \in out[d]
  /\ \A d \in Done : out[d] \subseteq Known

\* What a goroutine sends follows from its path, and is all that follows
\* unless it failed; a file is collected before it is done.
Sends ==
  \A n \in Nodes :
    /\ out[n] \subseteq Expand(n)
    /\ work[n] = "scan" => n \in Dirs \cap Matching
    /\ work[n] = "collect" => IsFound(n)
    /\ work[n] \in {"pull", "done"} /\ n \notin failed =>
         out[n] = Expand(n) /\ (IsFound(n) => n \in results)

\* Only what can be reached is known or collected.
Sound == Known \subseteq Reachable /\ \A n \in results : n \in Known /\ IsFound(n)

\* The order in which the caller ends.
Ends ==
  /\ coord = "closed" => inflight = 0 /\ nextup = {}
  /\ caller \in {"wait", "over"} => coord = "closed"
  /\ answer = "none" <=> caller # "over"
  /\ answer = "ok" => failed = {}

Counts == inflight = Cardinality(Active) /\ Cardinality(Running) <= Workers

WalkInv ==
  TypeOK /\ Places /\ Family /\ Sends /\ Sound /\ Ends /\ Counts

-----------------------------------------------------------------------------
\* What follows from a path are paths, and not the root.
LEMMA ExpandIsBelow == \A n \in Nodes : Expand(n) \subseteq Nodes \ {Root}
  BY NodesAssumption, TreeAssumption DEF Expand, Scanned

\* A path follows from one path at most.
LEMMA OneParent ==
  \A d, e \in Nodes : \A n : n \in Expand(d) /\ n \in Expand(e) => d = e
  BY NodesAssumption, TreeAssumption DEF Expand, Scanned

\* The closure contains the root, what follows from its members, and nothing
\* that a set with these two properties does not contain.
LEMMA ReachableClosed ==
  /\ Root \in Reachable
  /\ \A d \in Reachable : Expand(d) \subseteq Reachable
  /\ Reachable \subseteq Nodes
  /\ \A S \in SUBSET Nodes :
       Root \in S /\ (\A d \in S : Expand(d) \subseteq S) => Reachable \subseteq S
<1> DEFINE expansion == [n \in Nodes |-> Expand(n)]
           Closed(S) == Root \in S /\ \A d \in S : expansion[d] \subseteq S
<1>1. Reachable = {n \in Nodes : \A S \in SUBSET Nodes : Closed(S) => n \in S}
  BY DEF Reachable, Closure
<1>2. \A S \in SUBSET Nodes :
        Closed(S) <=> Root \in S /\ \A d \in S : Expand(d) \subseteq S
  OBVIOUS
<1> HIDE DEF Closed
<1>3. Root \in Reachable
  BY <1>1, <1>2, NodesAssumption
<1>4. ASSUME NEW d \in Reachable, NEW n \in Expand(d)
      PROVE  n \in Reachable
  <2>1. d \in Nodes /\ n \in Nodes
    BY <1>1, <1>4, ExpandIsBelow
  <2>2. ASSUME NEW S \in SUBSET Nodes, Closed(S)
        PROVE  n \in S
    <3>1. d \in S
      BY <1>1, <2>2
    <3> QED BY <3>1, <1>2, <2>2
  <2> QED BY <1>1, <2>1, <2>2
<1> QED BY <1>1, <1>2, <1>3, <1>4

\* Sets of paths are finite.
LEMMA PathsFinite ==
  ASSUME NEW S, S \subseteq Nodes
  PROVE  IsFiniteSet(S) /\ Cardinality(S) \in Nat
  BY NodesAssumption, FS_Subset, FS_CardinalityType

\* Counting one path more, and one less.
LEMMA CountOneMore ==
  ASSUME NEW S, S \subseteq Nodes, NEW n \in Nodes, n \notin S
  PROVE  Cardinality(S \cup {n}) = Cardinality(S) + 1
  BY PathsFinite, FS_AddElement

LEMMA CountOneLess ==
  ASSUME NEW S, S \subseteq Nodes, NEW n \in S
  PROVE  Cardinality(S \ {n}) = Cardinality(S) - 1
  BY PathsFinite, FS_RemoveElement

LEMMA CountNone ==
  ASSUME NEW S, S \subseteq Nodes, Cardinality(S) = 0
  PROVE  S = {}
  BY PathsFinite, FS_EmptySet

-----------------------------------------------------------------------------
\* The invariant holds at first: the root is the only path that is known.
LEMMA InvInit == Init => WalkInv
<1> SUFFICES ASSUME Init PROVE WalkInv
  OBVIOUS
<1> USE DEF Init
<1>1. Running = {} /\ Done = {} /\ Active = {Root} /\ Known = {Root}
  BY NodesAssumption DEF Running, Done, Active, Known
<1>2. TypeOK
  BY NodesAssumption DEF TypeOK
<1>3. Places
  BY NodesAssumption DEF Places
<1>4. Family
  BY <1>1 DEF Family
<1>5. Sends
  BY DEF Sends
<1>6. Sound
  BY <1>1, ReachableClosed DEF Sound
<1>7. Ends
  BY DEF Ends
<1>8. Counts
  <2>1. Cardinality({Root}) = 1 /\ Cardinality({}) = 0
    BY FS_Singleton, FS_EmptySet
  <2> QED BY <1>1, <2>1, WorkersAssumption DEF Counts
<1> QED BY <1>2, <1>3, <1>4, <1>5, <1>6, <1>7, <1>8 DEF WalkInv

\* The root is handed over: it stays active.
LEMMA InvPopFirst == WalkInv /\ PopFirst => WalkInv'
<1> SUFFICES ASSUME WalkInv, PopFirst PROVE WalkInv'
  OBVIOUS
<1> USE DEF WalkInv, PopFirst, Receive, workVars
<1>1. Running' = Running /\ Done' = Done
  BY DEF Running, Done
<1>2. Active' = Active
  BY <1>1, NodesAssumption DEF Active, Places
<1>3. Known' = Known
  BY <1>1, <1>2 DEF Known
<1>4. TypeOK'
  BY NodesAssumption DEF TypeOK
<1>5. Places'
  BY NodesAssumption DEF Places, TypeOK
<1>6. Family'
  BY <1>1, <1>3 DEF Family
<1>7. Sends'
  BY DEF Sends
<1>8. Sound'
  BY <1>3 DEF Sound
<1>9. Ends'
  BY DEF Ends
<1>10. Counts'
  BY <1>1, <1>2 DEF Counts
<1> QED BY <1>4, <1>5, <1>6, <1>7, <1>8, <1>9, <1>10

\* A path that waited becomes active and is counted.
LEMMA InvPop == \A n \in Nodes : WalkInv /\ Pop(n) => WalkInv'
<1> SUFFICES ASSUME NEW n \in Nodes, WalkInv, Pop(n) PROVE WalkInv'
  OBVIOUS
<1> USE DEF WalkInv, Pop, Receive, workVars
<1>1. Running' = Running /\ Done' = Done
  BY DEF Running, Done
<1>2. Active' = Active \cup {n} /\ n \notin Active
  <2>1. given = None
    BY DEF Places, TypeOK
  <2>2. n \notin Running
    BY DEF Places, Running
  <2> QED BY <1>1, <2>1, <2>2, NodesAssumption DEF Active
<1>3. Known' = Known
  BY <1>1, <1>2 DEF Known
<1>4. TypeOK'
  BY DEF TypeOK
<1>5. Places'
  BY NodesAssumption DEF Places, TypeOK
<1>6. Family'
  BY <1>1, <1>3 DEF Family
<1>7. Sends'
  BY DEF Sends
<1>8. Sound'
  BY <1>3 DEF Sound
<1>9. Ends'
  BY DEF Ends
<1>10. Counts'
  <2>1. Active \subseteq Nodes
    BY DEF Active, Running
  <2>2. Cardinality(Active') = Cardinality(Active) + 1
    BY <1>2, <2>1, CountOneMore
  <2> QED BY <1>1, <2>2 DEF Counts
<1> QED BY <1>4, <1>5, <1>6, <1>7, <1>8, <1>9, <1>10

\* A path is done, and what it sent waits; none of it was known before.
LEMMA InvPull == \A n \in Nodes : WalkInv /\ Pull(n) => WalkInv'
<1> SUFFICES ASSUME NEW n \in Nodes, WalkInv, Pull(n) PROVE WalkInv'
  OBVIOUS
<1> USE DEF WalkInv, Pull, callerVars
<1>1. /\ \A m \in Nodes : work'[m] = IF m = n THEN "done" ELSE work[m]
      /\ work[n] = "pull" /\ out' = out
  BY DEF TypeOK
<1>2. Running' = Running \ {n} /\ n \in Running /\ Done' = Done \cup {n}
  BY <1>1 DEF Running, Done
<1>3. Active' = Active \ {n} /\ n \in Active
  <2>1. given # n
    BY <1>1 DEF Places
  <2> QED BY <1>2, <2>1 DEF Active
<1>4. Known' = Known \cup out[n]
  BY <1>2, <1>3 DEF Known
<1>5. out[n] \subseteq Nodes \ {Root} /\ out[n] \subseteq Expand(n)
  BY ExpandIsBelow DEF Sends
<1>6. ASSUME NEW m \in out[n]
      PROVE  m \notin Known
  <2> SUFFICES ASSUME m \in Known PROVE FALSE
    OBVIOUS
  <2>1. PICK d \in Done : m \in out[d]
    BY <1>5 DEF Family
  <2>2. d \in Nodes /\ m \in Expand(d) /\ work[d] = "done"
    BY <2>1 DEF Done, Sends
  <2>3. d = n
    BY <1>5, <2>2, OneParent
  <2> QED BY <1>1, <2>2, <2>3
<1>7. TypeOK'
  <2>1. inflight' \in Nat
    <3>1. Active \subseteq Nodes
      BY DEF Active, Running
    <3>2. inflight # 0
      BY <1>3, <3>1, CountNone DEF Counts
    <3> QED BY <3>2 DEF TypeOK
  <2> QED BY <1>5, <2>1 DEF TypeOK
<1>8. Places'
  <2>1. \A m \in out[n] : work[m] = "no" /\ m # given
    <3>1. TAKE m \in out[n]
    <3>2. m \notin Known /\ m \in Nodes
      BY <1>5, <1>6
    <3>3. m \notin Running /\ m \notin Done /\ given # m
      BY <3>2 DEF Known, Active
    <3> QED BY <3>2, <3>3 DEF Running, Done, TypeOK
  <2>2. \A m \in nextup \cup out[n] : work[m] = "no" /\ m # given
    BY <2>1 DEF Places, TypeOK
  <2>3. \A m \in nextup \cup out[n] : m \in Nodes /\ m # n
    BY <1>1, <1>5, <2>2 DEF TypeOK
  <2>4. \A m \in nextup' : work'[m] = "no"
    BY <1>1, <2>2, <2>3
  <2>5. given \in Nodes => work'[given] = "no" /\ given \notin nextup'
    BY <1>1, <2>2 DEF Places
  <2> QED BY <2>4, <2>5 DEF Places
<1>9. Family'
  <2>1. \A m \in Known' : m # Root => \E d \in Done' : m \in out'[d]
    BY <1>1, <1>2, <1>4 DEF Family
  <2>2. \A d \in Done' : out'[d] \subseteq Known'
    BY <1>1, <1>2, <1>4 DEF Family
  <2> QED BY <1>4, <2>1, <2>2 DEF Family
<1>10. Sends'
  BY <1>1 DEF Sends
<1>11. Sound'
  <2>1. n \in Reachable
    BY <1>3 DEF Sound, Known
  <2>2. out[n] \subseteq Reachable
    BY <1>5, <2>1, ReachableClosed
  <2> QED BY <1>4, <2>2 DEF Sound
<1>12. Ends'
  BY DEF Ends
<1>13. Counts'
  <2>1. Active \subseteq Nodes /\ Running \subseteq Nodes
    BY DEF Active, Running
  <2>2. Cardinality(Active') = Cardinality(Active) - 1
    BY <1>3, <2>1, CountOneLess
  <2>3. Cardinality(Running') = Cardinality(Running) - 1
    BY <1>2, <2>1, CountOneLess
  <2>4. Cardinality(Running) \in Nat
    BY <2>1, PathsFinite
  <2> QED BY <2>2, <2>3, <2>4, WorkersAssumption DEF Counts, TypeOK
<1> QED BY <1>7, <1>8, <1>9, <1>10, <1>11, <1>12, <1>13

\* With nothing in flight no path is active.
LEMMA InvClose == WalkInv /\ Close => WalkInv'
<1> SUFFICES ASSUME WalkInv, Close PROVE WalkInv'
  OBVIOUS
<1> USE DEF WalkInv, Close, callerVars, workVars
<1>1. Running' = Running /\ Done' = Done
  BY DEF Running, Done
<1>2. Active' = Active
  BY <1>1 DEF Active
<1>3. Known' = Known
  BY <1>1, <1>2 DEF Known
<1>4. TypeOK'
  BY DEF TypeOK
<1>5. Places'
  BY DEF Places
<1>6. Family'
  BY <1>1, <1>3 DEF Family
<1>7. Sends'
  BY DEF Sends
<1>8. Sound'
  BY <1>3 DEF Sound
<1>9. Ends'
  BY DEF Ends
<1>10. Counts'
  BY <1>1, <1>2 DEF Counts
<1> QED BY <1>4, <1>5, <1>6, <1>7, <1>8, <1>9, <1>10

\* The path that the caller holds gets a goroutine, within the limit.
LEMMA InvGo == \A n \in Nodes : WalkInv /\ Go(n) => WalkInv'
<1> SUFFICES ASSUME NEW n \in Nodes, WalkInv, Go(n) PROVE WalkInv'
  OBVIOUS
<1> USE DEF WalkInv, Go, coordVars
<1>1. /\ \A m \in Nodes : work'[m] = IF m = n THEN "stat" ELSE work[m]
      /\ work[n] = "no" /\ given = n /\ given' = None
  BY DEF TypeOK, Places
<1>2. Running' = Running \cup {n} /\ n \notin Running /\ Done' = Done
  BY <1>1 DEF Running, Done
<1>3. Active' = Active
  BY <1>1, <1>2, NodesAssumption DEF Active
<1>4. Known' = Known
  BY <1>2, <1>3 DEF Known
<1>5. TypeOK'
  BY DEF TypeOK
<1>6. Places'
  BY <1>1, NodesAssumption DEF Places, TypeOK
<1>7. Family'
  BY <1>2, <1>4 DEF Family
<1>8. Sends'
  BY <1>1 DEF Sends
<1>9. Sound'
  BY <1>4 DEF Sound
<1>10. Ends'
  BY DEF Ends
<1>11. Counts'
  <2>1. Running \subseteq Nodes
    BY DEF Running
  <2>2. Cardinality(Running') = Cardinality(Running) + 1
    BY <1>2, <2>1, CountOneMore
  <2>3. Cardinality(Running) \in Nat
    BY <2>1, PathsFinite
  <2> QED BY <1>3, <2>2, <2>3, WorkersAssumption DEF Counts
<1> QED BY <1>5, <1>6, <1>7, <1>8, <1>9, <1>10, <1>11

\* The caller stops ranging, and later answers.
LEMMA InvCaller == WalkInv /\ (RangeEnds \/ Answer) => WalkInv'
<1> SUFFICES ASSUME WalkInv, RangeEnds \/ Answer PROVE WalkInv'
  OBVIOUS
<1> USE DEF WalkInv, RangeEnds, Answer, coordVars, workVars
<1>1. Running' = Running /\ Done' = Done
  BY DEF Running, Done
<1>2. Active' = Active
  BY <1>1 DEF Active
<1>3. Known' = Known
  BY <1>1, <1>2 DEF Known
<1>4. TypeOK'
  BY DEF TypeOK
<1>5. Places'
  BY DEF Places
<1>6. Family'
  BY <1>1, <1>3 DEF Family
<1>7. Sends'
  BY DEF Sends
<1>8. Sound'
  BY <1>3 DEF Sound
<1>9. Ends'
  BY DEF Ends
<1>10. Counts'
  BY <1>1, <1>2 DEF Counts
<1> QED BY <1>4, <1>5, <1>6, <1>7, <1>8, <1>9, <1>10

\* A goroutine moves on: its path stays active, and what it is about to send
\* follows from the path.
LEMMA InvWorker == \A n \in Nodes : WalkInv /\ Worker(n) => WalkInv'
<1> SUFFICES ASSUME NEW n \in Nodes, WalkInv, Worker(n) PROVE WalkInv'
  OBVIOUS
<1> USE DEF WalkInv, coordVars, callerVars
<1> DEFINE Phases == {"stat", "scan", "collect", "pull"}
<1>1. /\ work[n] \in Phases /\ work' \in [Nodes -> Phases \cup {"no", "done"}]
      /\ work'[n] \in Phases /\ \A m \in Nodes \ {n} : work'[m] = work[m]
      /\ UNCHANGED <<coordVars, callerVars>>
  BY DEF Worker, LStat, ScanDir, RequestFails, Collect, SendBack, TypeOK
<1>2. /\ out' \in [Nodes -> SUBSET Nodes]
      /\ \A m \in Nodes \ {n} : out'[m] = out[m]
      /\ results \subseteq results' /\ results' \subseteq results \cup {n}
      /\ failed \subseteq failed' /\ failed' \subseteq failed \cup {n}
      /\ n \in results' /\ n \notin results => IsFound(n)
  <2>1. CASE LStat(n)
    BY <2>1 DEF LStat, SendBack, TypeOK
  <2>2. CASE ScanDir(n)
    BY <2>2, TreeAssumption, NodesAssumption, <1>1 DEF ScanDir, SendBack, Scanned, TypeOK, Sends
  <2>3. CASE RequestFails(n)
    BY <2>3 DEF RequestFails, SendBack, TypeOK
  <2>4. CASE Collect(n)
    BY <2>4 DEF Collect, SendBack, TypeOK, Sends
  <2> QED BY <2>1, <2>2, <2>3, <2>4 DEF Worker
<1>3. Running' = Running /\ Done' = Done
  BY <1>1 DEF Running, Done
<1>4. Active' = Active
  BY <1>1, <1>3 DEF Active
<1>5. Known' = Known /\ n \in Known
  BY <1>1, <1>3, <1>4 DEF Known, Running, Active
<1>6. TypeOK'
  BY <1>1, <1>2 DEF TypeOK
<1>7. Places'
  BY <1>1, <1>2 DEF Places, TypeOK
<1>8. Family'
  <2>1. \A d \in Done : d # n /\ out'[d] = out[d]
    BY <1>1, <1>2 DEF Done
  <2> QED BY <1>3, <1>5, <2>1 DEF Family
<1>9. Sends'
  <2>1. ASSUME NEW m \in Nodes, m # n
        PROVE  /\ out'[m] \subseteq Expand(m)
               /\ work'[m] = "scan" => m \in Dirs \cap Matching
               /\ work'[m] = "collect" => IsFound(m)
               /\ work'[m] \in {"pull", "done"} /\ m \notin failed' =>
                    out'[m] = Expand(m) /\ (IsFound(m) => m \in results')
    BY <1>1, <1>2, <2>1 DEF Sends
  <2>2. /\ out'[n] \subseteq Expand(n)
        /\ work'[n] = "scan" => n \in Dirs \cap Matching
        /\ work'[n] = "collect" => IsFound(n)
        /\ work'[n] \in {"pull", "done"} /\ n \notin failed' =>
             out'[n] = Expand(n) /\ (IsFound(n) => n \in results')
    <3>1. CASE LStat(n)
      BY <3>1 DEF LStat, SendBack, TypeOK, Sends, Expand, IsFound
    <3>2. CASE ScanDir(n)
      BY <3>2 DEF ScanDir, SendBack, TypeOK, Sends, Expand, IsFound
    <3>3. CASE RequestFails(n)
      BY <3>3 DEF RequestFails, SendBack, TypeOK
    <3>4. CASE Collect(n)
      BY <3>4 DEF Collect, SendBack, TypeOK, Sends, Expand, IsFound
    <3> QED BY <3>1, <3>2, <3>3, <3>4 DEF Worker
  <2> QED BY <2>1, <2>2 DEF Sends
<1>10. Sound'
  BY <1>2, <1>5 DEF Sound
<1>11. Ends'
  <2>1. coord # "closed"
    <3>1. n \in Active /\ Active \subseteq Nodes
      BY <1>1 DEF Active, Running
    <3>2. inflight # 0
      BY <3>1, CountNone DEF Counts
    <3> QED BY <3>2 DEF Ends
  <2> QED BY <1>1, <2>1 DEF Ends, TypeOK
<1>12. Counts'
  BY <1>1, <1>3, <1>4 DEF Counts
<1> QED BY <1>6, <1>7, <1>8, <1>9, <1>10, <1>11, <1>12

LEMMA InvStutters == WalkInv /\ UNCHANGED vars => WalkInv'
<1> SUFFICES ASSUME WalkInv, UNCHANGED vars PROVE WalkInv'
  OBVIOUS
<1> USE DEF vars, coordVars, callerVars, workVars
<1>1. Running' = Running /\ Done' = Done
  BY DEF Running, Done
<1>2. Active' = Active
  BY <1>1 DEF Active
<1>3. Known' = Known
  BY <1>1, <1>2 DEF Known
<1> QED
  BY <1>1, <1>2, <1>3
  DEF WalkInv, TypeOK, Places, Family, Sends, Sound, Ends, Counts

\* The invariant of the walk, for every tree, limit and failure.
THEOREM WalkInvariant == Spec => []WalkInv
<1>1. WalkInv /\ [Next]_vars => WalkInv'
  <2> SUFFICES ASSUME WalkInv, [Next]_vars PROVE WalkInv'
    OBVIOUS
  <2>1. CASE Coordinator
    BY <2>1, InvPopFirst, InvClose, InvPop, InvPull DEF Coordinator
  <2>2. CASE Caller
    BY <2>2, InvCaller, InvGo DEF Caller
  <2>3. CASE \E n \in Nodes : Worker(n)
    BY <2>3, InvWorker
  <2>4. CASE UNCHANGED vars
    BY <2>4, InvStutters
  <2> QED BY <2>1, <2>2, <2>3, <2>4 DEF Next
<1> QED BY InvInit, <1>1, PTL DEF Spec

\* The types of the state hold (sftp.go:452-537).
THEOREM WalkTypes == Spec => []TypeOK
<1>1. WalkInv => TypeOK
  BY DEF WalkInv
<1> QED BY <1>1, WalkInvariant, PTL

\* The coordinator's count is exact and the channels are closed only when no
\* goroutine is left that could send on them (sftp.go:463-485).
LEMMA InvCounts == WalkInv => CountsExactly
<1> SUFFICES ASSUME WalkInv PROVE CountsExactly
  OBVIOUS
<1>1. coord = "closed" => Active = {}
  <2>1. Active \subseteq Nodes
    BY DEF Active, Running
  <2> QED BY <2>1, CountNone DEF WalkInv, Counts, Ends
<1> QED BY <1>1 DEF CountsExactly, WalkInv, Counts, Ends

\* The known paths are all done at the end: they are the paths that can be
\* reached, and their files were collected.
LEMMA InvFound == WalkInv => FoundExactly
<1> SUFFICES ASSUME WalkInv, answer = "ok"
             PROVE  results = {n \in Reachable : IsFound(n)}
  BY DEF FoundExactly
<1>1. Active = {} /\ nextup = {} /\ failed = {}
  BY InvCounts DEF WalkInv, Ends, CountsExactly, TypeOK
<1>2. Known = Done
  BY <1>1 DEF Known
<1>3. \A n \in Done : n \in Nodes /\ out[n] = Expand(n)
                        /\ (IsFound(n) => n \in results)
  BY <1>1 DEF Done, WalkInv, Sends
<1>4. Root \in Done /\ \A d \in Done : Expand(d) \subseteq Done
  BY <1>2, <1>3 DEF WalkInv, Family
<1>5. Done \in SUBSET Nodes
  BY DEF Done
<1>6. Reachable \subseteq Done
  BY <1>4, <1>5, ReachableClosed
<1> QED BY <1>2, <1>3, <1>6 DEF WalkInv, Sound

\* A successful walk found exactly the matching files it could reach, and the
\* count that closes its channels is exact.
THEOREM WalkFindsAll == Spec => [](FoundExactly /\ CountsExactly)
  BY WalkInvariant, InvFound, InvCounts, PTL

\* From a server that answers with the whole of a directory at once, scanDir does
\* return all its files, as its comment says (sftp.go:568), and a successful walk
\* names every matching file below the root.
THEOREM WholeDirectoriesSuffice ==
  Listed = Entries => (Spec => []FoundAll)
<1> SUFFICES ASSUME Listed = Entries PROVE Spec => []FoundAll
  OBVIOUS
<1>1. \A n \in Nodes : Below(n) = Expand(n)
  BY DEF Below, Expand, Scanned
<1>2. [m \in Nodes |-> Below(m)] = [m \in Nodes |-> Expand(m)]
  BY <1>1
<1>3. Closure([m \in Nodes |-> Below(m)]) = Reachable
  BY <1>2 DEF Reachable
<1>4. FoundExactly => FoundAll
  BY <1>3 DEF FoundExactly, FoundAll
<1> QED BY <1>4, WalkFindsAll, PTL

\* The walk implements its promise: one answer, which is an error or all of what
\* the first responses name.
THEOREM WalkKeepsPromise == Spec => ImplementsPromise
<1>1. Init => Promise!Init
  BY DEF Init, Promise!Init, Found
<1>2. WalkInv' => FoundExactly'
  BY InvFound, PTL
<1>3. WalkInv /\ WalkInv' /\ [Next]_vars => [Promise!Next]_<<answer, Found>>
  <2> SUFFICES ASSUME WalkInv, WalkInv', [Next]_vars
               PROVE  [Promise!Next]_<<answer, Found>>
    OBVIOUS
  <2>1. CASE Answer
    <3>1. answer = "none" /\ Found = {}
      BY <2>1 DEF Answer, WalkInv, Ends, Found
    <3>2. CASE failed = {}
      <4>1. answer' = "ok" /\ Found' = results'
        BY <2>1, <3>2 DEF Answer, Found
      <4>2. Found' = {n \in Reachable : IsFound(n)}
        BY <4>1, <1>2 DEF FoundExactly
      <4> QED BY <3>1, <4>1, <4>2 DEF Promise!Next, Promise!Succeed
    <3>3. CASE failed # {}
      BY <2>1, <3>1, <3>3
      DEF Answer, Found, Promise!Next, Promise!Fail
    <3> QED BY <3>2, <3>3
  <2>2. CASE UNCHANGED <<answer, results>>
    BY <2>2 DEF Found
  <2>3. CASE \E n \in Nodes : Collect(n)
    <3>1. UNCHANGED answer
      BY <2>3 DEF Collect, callerVars
    <3>2. coord # "closed"
      BY <2>3, InvCounts DEF Collect, CountsExactly, Active, Running
    <3>3. answer = "none"
      BY <3>2 DEF WalkInv, Ends
    <3> QED BY <3>1, <3>3 DEF Found
  <2> QED
    BY <2>1, <2>2, <2>3
    DEF Next, Coordinator, Caller, Worker, PopFirst, Close, Pop, Pull, RangeEnds,
        Go, LStat, ScanDir, RequestFails, vars, coordVars, callerVars, workVars, Receive
<1> QED BY <1>1, <1>3, WalkInvariant, PTL DEF Spec, ImplementsPromise, Promise!Spec
=============================================================================
