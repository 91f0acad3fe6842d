------------------------------- MODULE WalkDir ------------------------------
(***************************************************************************)
(* The walk of a remote directory tree over SFTP                           *)
(* (cells/logstream/sftp.go:452-667). A coordinator hands paths to the     *)
(* caller over the channel pop; the caller starts one goroutine for each,  *)
(* at most Workers at a time; the goroutine asks the server and sends the  *)
(* entries back over pull, while a collector gathers the files. The        *)
(* coordinator ends when nothing is in flight and nothing is left to do.   *)
(* The channels are unbuffered: a send and its receive are one step.       *)
(***************************************************************************)
EXTENDS Naturals, FiniteSets

CONSTANTS
  Nodes,     \* the paths
  Root,      \* where the walk starts
  Dirs,      \* the paths that are directories
  Entries,   \* per directory: its entries
  Listed,    \* per directory: those in the server's first response
  Matching,  \* the paths that agree with the pattern of the source
  Denied,    \* the directories that may not be read, below a pattern
  Flaky,     \* the paths on which a request may fail
  Workers,   \* goroutines at a time (16 in the code)
  None       \* no path

ASSUME NodesAssumption ==
  IsFiniteSet(Nodes) /\ Root \in Nodes /\ None \notin Nodes /\ Dirs \subseteq Nodes

\* The entries of different directories are different paths.
ASSUME TreeAssumption ==
  /\ Entries \in [Dirs -> SUBSET (Nodes \ {Root})]
  /\ Listed \in [Dirs -> SUBSET Nodes]
  /\ \A d \in Dirs : Listed[d] \subseteq Entries[d]
  /\ \A d, e \in Dirs : d # e => Entries[d] \cap Entries[e] = {}

ASSUME WorkersAssumption == Workers \in Nat \ {0}

VARIABLES
  coord,     \* the coordinator: "first", "loop" or "closed"
  nextup,    \* the paths that wait to be popped (nextup and l)
  inflight,  \* the coordinator's count of paths it has not heard of again
  caller,    \* WalkDir itself: "range", "go", "wait" or "over"
  given,     \* the path it has received from pop
  work,      \* per path: what its goroutine does
  out,       \* per path: the entries that its goroutine sends over pull
  failed,    \* the paths whose goroutine returns an error
  results,   \* the files that were collected
  collector, \* "open", or "done" once collect is closed
  answer     \* "none", "ok" or "error"

coordVars  == <<coord, nextup, inflight>>
callerVars == <<caller, given, answer, collector>>
workVars   == <<work, out, failed>>
vars       == <<coordVars, callerVars, workVars, results>>

\* What scanDir keeps of the entries of a directory: it returns at the first
\* response, and a directory that may not be read has none.
Scanned(d) == IF d \in Denied THEN {} ELSE Listed[d] \cap Matching

\* The paths that follow from n.
Expand(n) == IF n \in Dirs \cap Matching THEN Scanned(n) ELSE {}

\* The smallest set with the root that is closed under an expansion.
Closure(expansion) ==
  {n \in Nodes : \A S \in SUBSET Nodes :
     (Root \in S /\ \A d \in S : expansion[d] \subseteq S) => n \in S}

Reachable == Closure([n \in Nodes |-> Expand(n)])

IsFound(n) == n \in Matching /\ n \notin Dirs

-----------------------------------------------------------------------------
(* The coordinator                                                         *)

Receive(n) == caller = "range" /\ caller' = "go" /\ given' = n

PopFirst ==
  /\ coord = "first" /\ Receive(Root)
  /\ coord' = "loop"
  /\ UNCHANGED <<nextup, inflight, answer, collector, workVars, results>>

Pop(n) ==
  /\ coord = "loop" /\ n \in nextup /\ Receive(n)
  /\ nextup' = nextup \ {n}
  /\ inflight' = inflight + 1
  /\ UNCHANGED <<coord, answer, collector, workVars, results>>

Pull(n) ==
  /\ coord = "loop" /\ work[n] = "pull"
  /\ nextup' = nextup \cup out[n]
  /\ inflight' = inflight - 1
  /\ work' = [work EXCEPT ![n] = "done"]
  /\ UNCHANGED <<coord, callerVars, out, failed, results>>

\* Mutant of Close: paths in flight are not waited for.
CloseEarly ==
  /\ coord = "loop" /\ nextup = {}
  /\ coord' = "closed"
  /\ UNCHANGED <<nextup, inflight, callerVars, workVars, results>>

Close ==
  /\ coord = "loop" /\ inflight = 0 /\ nextup = {}
  /\ coord' = "closed"
  /\ UNCHANGED <<nextup, inflight, callerVars, workVars, results>>

-----------------------------------------------------------------------------
(* The caller                                                              *)

Running == {n \in Nodes : work[n] \in {"stat", "scan", "collect", "pull"}}

\* Mutant of Go: a goroutine that returns does not give its place back.
GoKeepsPlace(n) ==
  /\ caller = "go" /\ given = n
  /\ Cardinality({m \in Nodes : work[m] # "no"}) < Workers
  /\ work' = [work EXCEPT ![n] = "stat"]
  /\ caller' = "range" /\ given' = None
  /\ UNCHANGED <<coordVars, answer, collector, out, failed, results>>

\* Go of the errgroup waits for one of its places.
Go(n) ==
  /\ caller = "go" /\ given = n
  /\ Cardinality(Running) < Workers
  /\ work' = [work EXCEPT ![n] = "stat"]
  /\ caller' = "range" /\ given' = None
  /\ UNCHANGED <<coordVars, answer, collector, out, failed, results>>

RangeEnds ==
  /\ caller = "range" /\ coord = "closed"
  /\ caller' = "wait"
  /\ UNCHANGED <<coordVars, given, answer, collector, workVars, results>>

\* Mutant of Answer: the errors of the goroutines are not looked at.
AnswerAlways ==
  /\ caller = "wait" /\ Running = {}
  /\ caller' = "over"
  /\ answer' = "ok" /\ collector' = "done"
  /\ UNCHANGED <<coordVars, given, workVars, results>>

\* g.Wait, and then close(collect) and <-done, which an error skips.
Answer ==
  /\ caller = "wait" /\ Running = {}
  /\ caller' = "over"
  /\ IF failed = {} THEN answer' = "ok" /\ collector' = "done"
                    ELSE answer' = "error" /\ UNCHANGED collector
  /\ UNCHANGED <<coordVars, given, workVars, results>>

-----------------------------------------------------------------------------
(* The goroutines                                                          *)

\* Goroutine n goes on to send the entries over pull.
SendBack(n, entries) ==
  work' = [work EXCEPT ![n] = "pull"] /\ out' = [out EXCEPT ![n] = entries]

LStat(n) ==
  /\ work[n] = "stat"
  /\ IF n \in Matching
     THEN /\ work' = [work EXCEPT ![n] = IF n \in Dirs THEN "scan" ELSE "collect"]
          /\ UNCHANGED out
     ELSE SendBack(n, {})
  /\ UNCHANGED <<coordVars, callerVars, failed, results>>

ScanDir(n) ==
  /\ work[n] = "scan"
  /\ SendBack(n, Scanned(n))
  /\ UNCHANGED <<coordVars, callerVars, failed, results>>

\* lStat or scanDir fails: the goroutine sends no entry back, and then returns
\* the error.
RequestFails(n) ==
  /\ n \in Flaky /\ work[n] \in {"stat", "scan"}
  /\ SendBack(n, {})
  /\ failed' = failed \cup {n}
  /\ UNCHANGED <<coordVars, callerVars, results>>

Collect(n) ==
  /\ work[n] = "collect" /\ collector = "open"
  /\ results' = results \cup {n}
  /\ SendBack(n, {})
  /\ UNCHANGED <<coordVars, callerVars, failed>>

-----------------------------------------------------------------------------
Init ==
  /\ coord = "first" /\ nextup = {} /\ inflight = 1
  /\ caller = "range" /\ given = None /\ answer = "none" /\ collector = "open"
  /\ work = [n \in Nodes |-> "no"] /\ out = [n \in Nodes |-> {}]
  /\ failed = {} /\ results = {}

Coordinator == PopFirst \/ Close \/ \E n \in Nodes : Pop(n) \/ Pull(n)

Caller == RangeEnds \/ Answer \/ \E n \in Nodes : Go(n)

Worker(n) == LStat(n) \/ ScanDir(n) \/ RequestFails(n) \/ Collect(n)

Next == Coordinator \/ Caller \/ \E n \in Nodes : Worker(n)

Spec == Init /\ [][Next]_vars

\* Goroutines run, and the server answers each request or the connection
\* fails it.
FairSpec ==
  Spec /\ WF_vars(Coordinator) /\ WF_vars(Caller)
       /\ \A n \in Nodes : WF_vars(Worker(n))

-----------------------------------------------------------------------------
(* Properties                                                              *)

\* Type invariant of the module (sftp.go:452-500).
TypeOK ==
  /\ coord \in {"first", "loop", "closed"}
  /\ nextup \subseteq Nodes /\ inflight \in Nat
  /\ caller \in {"range", "go", "wait", "over"} /\ given \in Nodes \cup {None}
  /\ work \in [Nodes -> {"no", "stat", "scan", "collect", "pull", "done"}]
  /\ out \in [Nodes -> SUBSET Nodes]
  /\ failed \subseteq Nodes /\ results \subseteq Nodes
  /\ collector \in {"open", "done"} /\ answer \in {"none", "ok", "error"}

\* The paths that the coordinator counts: the root before it is popped, the
\* path the caller holds, and those of the goroutines that run.
Active ==
  {n \in Nodes : coord = "first" /\ n = Root}
    \cup {n \in Nodes : given = n} \cup Running

\* The count is exact, at most Workers goroutines run, and the channels are
\* closed only when nobody will send on them: a send on a closed channel
\* would stop the program (sftp.go:463-485, 498).
CountsExactly ==
  /\ inflight = Cardinality(Active)
  /\ Cardinality(Running) <= Workers
  /\ coord = "closed" => Active = {} /\ nextup = {}

\* A successful walk has found all the matching files that the first responses
\* to its requests name, and nothing else (sftp.go:452-537).
FoundExactly == answer = "ok" => results = {n \in Reachable : IsFound(n)}

\* What could be reached if scanDir listed the whole of a directory.
Below(n) ==
  IF n \in (Dirs \cap Matching) \ Denied THEN Entries[n] \cap Matching ELSE {}

\* What the comment of scanDir says of a directory that may be read, "scanDir
\* returns all files in dir" (sftp.go:568), for the walk: a success names all
\* the matching files below the root. It holds only of servers that list every
\* directory in one response.
FoundAll ==
  answer = "ok"
    => results = {n \in Closure([m \in Nodes |-> Below(m)]) : IsFound(n)}

\* The walk implements its promise about the files that the first responses of
\* the server name: all of them or an error, once (sftp.go:452-537). It does
\* not promise the files of a later response, see FoundAll.
Found == IF answer = "ok" THEN results ELSE {}

Promise == INSTANCE WalkResult
             WITH Files <- {n \in Reachable : IsFound(n)}, found <- Found

ImplementsPromise == Promise!Spec

\* Whatever the order of the goroutines, the limit and the errors, the walk
\* answers (sftp.go:500-536).
Answered == <>(answer # "none")
=============================================================================
