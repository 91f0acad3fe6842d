------------------------------- MODULE MCHub --------------------------------
(***************************************************************************)
(* Model checking of three parts of the server that share no state here:   *)
(* the schedules, in two settings (occurrences close to each other, with   *)
(* failures, crashes and handlers at any time; and occurrences far apart,  *)
(* under a prompt runner), the storage of a notebook, and the query        *)
(* engine.  A behaviour is one of one part, and the others rest.           *)
(***************************************************************************)
EXTENDS Schedule, TLC

CONSTANTS
  LongTime,                \* bound: the clock of the second setting stops here
  FarCalendars,            \* the calendars of the second setting
  t1, t2, t3, a, b,        \* of the storage: its tasks and cells
  Tasks, Conns, Cells, Gone, First, Kinds, MaxRetry,
  Queries, Records, NoTime, Missing, Over, Hop, MaxRecords \* of the query engine

ASSUME TasksAssumption == First \notin Tasks /\ Gone \notin Tasks
ASSUME ConnsAssumption == None \notin Conns
\* The occurrences come after the schedule was added, and far apart: the first one
\* may come before the next tick, and then runs up to an hour late.
ASSUME FarAssumption ==
  /\ FarCalendars \subseteq Seq(Nat)
  /\ \A occ \in FarCalendars :
       /\ \A i \in 1..Len(occ) : occ[i] > 1
       /\ \A i, k \in 1..Len(occ) : i < k => occ[i] + HalfDay + Hour <= occ[k]
ASSUME RetryAssumption == MaxRetry \in Nat
ASSUME KindsAssumption == Kinds \subseteq {"cell", "save", "editor", "result"}
ASSUME WindowAssumption == Over \in Nat /\ Hop \in Nat \ {0}
\* A record that is not later than the latest is 0 later, however old it is.
ASSUME RecordsAssumption ==
  \A r \in Records : r.after \in {NoTime} \cup Nat /\ r.hits \in Seq(BOOLEAN)
\* The absence of a time is not one, and a rule is of the right type.
ASSUME NoTimeAssumption == NoTime \notin Nat
ASSUME RulesAssumption ==
  Queries \subseteq [not : BOOLEAN, over : BOOLEAN, by : BOOLEAN, limits : Seq(Nat)]

VARIABLES
  part,
  db, ver, wlock, snap, open, free, kind, cell, todo, conn, view, retries, reply,
  busy, onOpen, stored, cut,
  query, state, wmax, wmin, win, groups, local, out, read, offered

storage == <<db, ver, wlock, snap, open, free, kind, cell, todo, conn, view, retries,
             reply, busy, onOpen, stored, cut>>
engine == <<query, state, wmax, wmin, win, groups, local, out, read, offered>>

-----------------------------------------------------------------------------
(* The schedules.                                                          *)

\* Two occurrences within the half day.
Close == {<<2, 4>>}

\* Occurrences at least HalfDay and an Hour apart.
Spaced == {<<3, 10, 17>>, <<2, 9, 16>>, <<5, 12>>, <<9>>}

Far == INSTANCE Schedule WITH
  Calendars <- FarCalendars, StopSchedule <- FALSE, Prompt <- TRUE, Failures <- {},
  MaxTime <- LongTime, MaxAdd <- 1, MaxCrashes <- 0

Symmetry == Permutations(Jobs \ {Zero})

\* Occurrences far apart are run once each, in their order and on time
\* (schedule.go:220-244): EachOnceOnTime of Schedule.
SpacedOnTime == part = "spaced" => EachOnceOnTime

-----------------------------------------------------------------------------
(* The storage.  The tasks, and the cells, are interchangeable, and only a *)
(* "cell" task has a cell: one initial state of each class is enough.      *)

Store == INSTANCE NotebookStore

\* No snapshot is not a snapshot.
ASSUME SnapshotsAssumption == None \notin [image : Store!Databases, at : Nat]

Rank == ("cell" :> 1) @@ ("save" :> 2) @@ ("editor" :> 3) @@ ("result" :> 4)

OneOfAClass ==
  /\ Rank[kind[t1]] <= Rank[kind[t2]] /\ Rank[kind[t2]] <= Rank[kind[t3]]
  /\ cell[t1] = a /\ \A t \in Tasks : kind[t] # "cell" => cell[t] = a

Resting == \A t \in Tasks : kind[t] = "result" /\ cell[t] = a

\* The search index follows the notebook and its text (search.go:84).
IndexFresh == Store!IndexFresh

\* Success means stored, or there is an excuse (store_notebook.go:77-224).
OkIsStoredOrExcused == Store!OkIsStoredOrExcused

\* What failed is not in the database, unless ServeHTTP committed it
\* (dispatch.go:143).
ErrorIsNotStored == Store!ErrorIsNotStored

\* A commit changes only what its operation is about (store_notebook.go:115-224).
OnlyItsOwn == Store!OnlyItsOwn

-----------------------------------------------------------------------------
(* The query engine.                                                       *)

Engine == INSTANCE Impeller

Rule(not, over, by, limits) == [not |-> not, over |-> over, by |-> by, limits |-> limits]

\* With and without a window, groups, and one limit or two; one rule has a limit
\* and no window.
Rules ==
  {Rule(FALSE, TRUE, by, limits) : by \in BOOLEAN, limits \in {<<>>, <<2>>}}
  \cup {Rule(TRUE, TRUE, TRUE, <<2>>), Rule(FALSE, TRUE, TRUE, <<2, 2>>),
        Rule(TRUE, FALSE, FALSE, <<>>), Rule(FALSE, FALSE, TRUE, <<2>>)}

Record(after, hits, k) == [after |-> after, hits |-> hits, key |-> k]

\* Later or not, of two groups; a miss, and a record without the filtered field,
\* with it twice, without the field of the group, without a time.
Yielded ==
  {Record(after, <<TRUE>>, k) : after \in 0..2, k \in {"a", "b"}}
  \cup {Record(1, <<FALSE>>, "a"), Record(1, <<>>, "b"), Record(1, <<TRUE, TRUE>>, "a"),
        Record(1, <<TRUE>>, Missing), Record(NoTime, <<TRUE>>, "a")}

\* What a rule has answered is what it means (impeller.go:119-217).
AnswersAreDefined == Engine!AnswersAreDefined

\* "only return once" (impeller.go:51)
ReturnedOnce == Engine!ReturnedOnce

\* "the operation has no effect" (doc.go:16)
PartialHasNoEffect == Engine!PartialHasNoEffect

-----------------------------------------------------------------------------
HubInit ==
  /\ Init /\ Store!Init /\ Engine!Init
  /\ \/ part \in {"close", "spaced"} /\ Resting /\ query = Rule(TRUE, FALSE, FALSE, <<>>)
     \/ part = "store" /\ OneOfAClass /\ query = Rule(TRUE, FALSE, FALSE, <<>>)
     \/ part = "engine" /\ Resting

\* Only the storage has to go on until all its operations are over.
HubNext ==
  \/ part = "close" /\ Next /\ UNCHANGED <<storage, engine, part>>
  \/ part = "spaced" /\ Far!Next /\ UNCHANGED <<storage, engine, part>>
  \/ part = "store" /\ Store!Next /\ UNCHANGED <<vars, engine, part>>
  \/ part = "engine" /\ Engine!Next /\ UNCHANGED <<vars, storage, part>>
  \/ part # "store" /\ UNCHANGED <<vars, storage, engine, part>>

HubSpec == HubInit /\ [][HubNext]_<<vars, storage, engine, part>>
=============================================================================
