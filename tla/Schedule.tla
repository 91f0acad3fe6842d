------------------------------ MODULE Schedule ------------------------------
(***************************************************************************)
(* Scheduled playbooks: the stored schedules with their results and lease, *)
(* the handlers that add, stop, start and remove them (hub/schedule.go),   *)
(* and the runner (hub/schedule_run.go): one goroutine woken up by an      *)
(* hourly ticker that lists the schedules to run, leases each and runs it  *)
(* in a goroutine of its own, on the copy it listed. A handler reads and   *)
(* writes a schedule in one transaction, the runner's two writes of its    *)
(* copy are blind.                                                         *)
(***************************************************************************)
EXTENDS Naturals, Sequences, FiniteSets, Functions

CONSTANTS
  Jobs,          \* the keys under /nbschedules
  Zero,          \* the zero key, of a schedule that was not found
  None,          \* no such entry
  Calendars,     \* the occurrences that a new schedule may have
  StopSchedule,  \* the feature flag of that name
  Hour,          \* one hour: the ticker, the lease, the next run
  HalfDay,       \* the twelve hours of NextRun
  Limit,         \* goroutines that run jobs (10 in the code)
  Prompt,        \* TRUE: the runner is fast and time waits for it
  Failures,      \* the runner's error paths taken: "list", "lease", "run"
  MaxTime,       \* bound: the clock stops here
  MaxAdd,        \* bound: schedules are added until this time
  MaxCrashes,    \* bound: crashes of the process
  Strays         \* bound: the statuses asked for schedules that are not found

ASSUME HourAssumption    == Hour \in Nat \ {0} /\ HalfDay \in Nat
ASSUME ZeroAssumption    == Zero \in Jobs
ASSUME BooleanAssumption == StopSchedule \in BOOLEAN /\ Prompt \in BOOLEAN

VARIABLES
  now,      \* the clock; 0 is Go's zero time
  nextTick, \* when the ticker fires next
  due,      \* the ticker's channel holds a tick
  phase,    \* the runner: "list", "work", "idle", "down" (no process)
  stage,    \* of each job in the runner: "none", "queued", "leased", "running"
  copy,     \* the runner's copy of the schedule
  sch,      \* the stored schedules
  crashes,
  asked,    \* history: the status that the last handler call stored
  raced,    \* history: the jobs for which a handler and the runner's copy
            \* overlapped
  ran       \* history: the occurrence that each result of the job is for

runnerVars == <<phase, stage, copy>>
clockVars  == <<now, nextTick, due>>
histVars   == <<asked, raced, ran>>
vars       == <<clockVars, runnerVars, sch, crashes, histVars>>

Statuses == {"running", "finished", "canceled", "archived"}

Schedules ==
  [occ : Seq(Nat), res : Seq({"executed", "skipped"}),
   status : Statuses, lease : Nat]

\* What the runner keeps of a schedule it listed: runJob has its own copy.
Picked == [s : Schedules, pick : Nat]

ASSUME StraysAssumption    == Strays \subseteq {"canceled", "running", "archived"}
ASSUME CalendarsAssumption == Calendars \subseteq Seq(Nat)
ASSUME NoneAssumption      == None \notin Schedules /\ None \notin Picked

-----------------------------------------------------------------------------
(* NextRun                                                                 *)

\* The occurrences left: one less for each result.
Left(s) == SubSeq(s.occ, Len(s.res) + 1, Len(s.occ))

\* The last of runs that comes before t, the first one if there is none.
LastBefore(runs, t) ==
  LET before == {i \in 2..Len(runs) : runs[i] < t}
  IN runs[IF before = {} THEN 1
          ELSE CHOOSE i \in before : \A k \in before : k <= i]

\* Mutant of NextRun: whether the occurrence is close is not tested.
NextRunEager(s, t) ==
  IF Len(s.occ) = Len(s.res) THEN 0 ELSE LastBefore(Left(s), t + HalfDay)

\* The occurrence to run at time t, 0 for none.
NextRun(s, t) ==
  IF Len(s.occ) = Len(s.res) THEN 0
  ELSE LET run == LastBefore(Left(s), t + HalfDay)
       IN IF run < t + Hour THEN run ELSE 0

-----------------------------------------------------------------------------
(* The runner                                                              *)

IsFree(s) == s.lease = 0 \/ now > s.lease

\* Mutant of Listed: a schedule with occurrences is listed whether or not one is due.
ListedAll(s) ==
  s.occ # <<>> /\ IsFree(s) /\ (StopSchedule => s.status # "archived")

\* listNextJobs.
Listed(s) ==
  /\ NextRun(s, now) # 0
  /\ IsFree(s)
  /\ StopSchedule => s.status # "archived"

List ==
  LET jobs == {j \in Jobs : sch[j] # None /\ Listed(sch[j])}
  IN /\ phase = "list"
     /\ stage' = [j \in Jobs |-> IF j \in jobs THEN "queued" ELSE "none"]
     /\ copy' = [j \in Jobs |->
          IF j \in jobs THEN [s |-> sch[j], pick |-> NextRun(sch[j], now)]
          ELSE None]
     /\ phase' = "work"
     /\ UNCHANGED <<clockVars, sch, crashes, histVars>>

ListFails ==
  /\ "list" \in Failures
  /\ phase = "list" /\ phase' = "idle"
  /\ UNCHANGED <<clockVars, stage, copy, sch, crashes, histVars>>

\* The runner is done with job j, for this round.
Drop(j) ==
  /\ stage' = [stage EXCEPT ![j] = "none"]
  /\ copy' = [copy EXCEPT ![j] = None]

\* The loop takes one job at a time: it leases it, then eg.Go blocks while
\* Limit jobs are running.
Loops == phase = "work" /\ \A j \in Jobs : stage[j] # "leased"

\* The lease is stored with the copy, over whatever is stored by now.
Lease(j) ==
  LET leased == [copy[j].s EXCEPT !.lease = now + Hour]
  IN /\ Loops /\ stage[j] = "queued"
     /\ sch' = [sch EXCEPT ![j] = leased]
     /\ copy' = [copy EXCEPT ![j].s = leased]
     /\ stage' = [stage EXCEPT ![j] = "leased"]
     /\ UNCHANGED <<clockVars, phase, crashes, histVars>>

LeaseFails(j) ==
  /\ "lease" \in Failures
  /\ Loops /\ stage[j] = "queued"
  /\ Drop(j)
  /\ UNCHANGED <<clockVars, phase, sch, crashes, histVars>>

Go(j) ==
  /\ stage[j] = "leased"
  /\ Cardinality({k \in Jobs : stage[k] = "running"}) < Limit
  /\ stage' = [stage EXCEPT ![j] = "running"]
  /\ UNCHANGED <<clockVars, phase, copy, sch, crashes, histVars>>

\* Whether runJob runs the playbook or only notes that it is skipped.
Executes(s) == StopSchedule => s.status = "running"

\* What runJob stores at its end, over whatever is stored by now. The result
\* tells whether the playbook was executed or skipped; the outcome of its
\* cells is left out.
StoreResult(j, result, status) ==
  /\ stage[j] = "running"
  /\ sch' = [sch EXCEPT ![j] =
       [copy[j].s EXCEPT !.res = Append(@, result), !.lease = 0,
                         !.status = status]]
  /\ ran' = [ran EXCEPT ![j] = Append(@, copy[j].pick)]
  /\ Drop(j)
  /\ UNCHANGED <<clockVars, phase, crashes, asked, raced>>

\* Mutant of StatusAfter: every job that is not finished goes on.
StatusAlways(s) ==
  IF Len(s.res) + 1 = Len(s.occ) THEN "finished" ELSE "running"

\* The last result of a schedule that runs makes it finished.
StatusAfter(s) ==
  IF StopSchedule /\ s.status = "running" /\ Len(s.res) + 1 = Len(s.occ)
  THEN "finished" ELSE s.status

RunDone(j) ==
  /\ stage[j] = "running" /\ Executes(copy[j].s)
  /\ StoreResult(j, "executed", StatusAfter(copy[j].s))

Skip(j) ==
  /\ stage[j] = "running" /\ ~Executes(copy[j].s)
  /\ StoreResult(j, "skipped", StatusAfter(copy[j].s))

\* No session, no playbook, or one of the writes failed: no result, and the
\* lease stays.
RunFails(j) ==
  /\ "run" \in Failures
  /\ stage[j] = "running"
  /\ Drop(j)
  /\ UNCHANGED <<clockVars, phase, sch, crashes, histVars>>

\* eg.Wait returns.
RoundDone ==
  /\ phase = "work" /\ \A j \in Jobs : stage[j] = "none"
  /\ phase' = "idle"
  /\ UNCHANGED <<clockVars, stage, copy, sch, crashes, histVars>>

Wake ==
  /\ phase = "idle" /\ due
  /\ phase' = "list" /\ due' = FALSE
  /\ UNCHANGED <<now, nextTick, stage, copy, sch, crashes, histVars>>

Crash ==
  /\ phase # "down" /\ crashes < MaxCrashes
  /\ phase' = "down" /\ crashes' = crashes + 1
  /\ stage' = [j \in Jobs |-> "none"] /\ copy' = [j \in Jobs |-> None]
  /\ UNCHANGED <<clockVars, sch, histVars>>

Restart ==
  /\ phase = "down" /\ phase' = "list"
  /\ nextTick' = now + Hour /\ due' = FALSE
  /\ UNCHANGED <<now, stage, copy, sch, crashes, histVars>>

\* Time passes; a tick that finds the channel full is lost.
Pass ==
  /\ now < MaxTime
  /\ Prompt => phase = "idle" /\ ~due
  /\ now' = now + 1
  /\ IF now' = nextTick
     THEN due' = TRUE /\ nextTick' = nextTick + Hour
     ELSE UNCHANGED <<due, nextTick>>
  /\ UNCHANGED <<runnerVars, sch, crashes, histVars>>

-----------------------------------------------------------------------------
(* The handlers                                                            *)

Race(j) == raced' = IF copy[j] # None THEN raced \cup {j} ELSE raced

Add(j) ==
  /\ phase # "down" /\ sch[j] = None /\ now <= MaxAdd
  /\ \E occ \in Calendars :
       sch' = [sch EXCEPT ![j] =
                 [occ |-> occ, res |-> <<>>, status |-> "running", lease |-> 0]]
  /\ asked' = [asked EXCEPT ![j] = "running"]
  /\ UNCHANGED <<clockVars, runnerVars, crashes, raced, ran>>

\* Mutants of SetStatus: the schedule starts afresh; the lease is dropped.
SetStatusAfresh(j, status) ==
  /\ phase # "down" /\ sch[j] # None
  /\ sch' = [sch EXCEPT ![j].status = status, ![j].res = <<>>]
  /\ asked' = [asked EXCEPT ![j] = status]
  /\ Race(j)
  /\ UNCHANGED <<clockVars, runnerVars, crashes, ran>>

SetStatusUnleased(j, status) ==
  /\ phase # "down" /\ sch[j] # None
  /\ sch' = [sch EXCEPT ![j].status = status, ![j].lease = 0]
  /\ asked' = [asked EXCEPT ![j] = status]
  /\ Race(j)
  /\ UNCHANGED <<clockVars, runnerVars, crashes, ran>>

\* The handler reads the schedule and stores it with another status; the
\* transaction fails if it is written in between.
SetStatus(j, status) ==
  /\ phase # "down" /\ sch[j] # None
  /\ sch' = [sch EXCEPT ![j].status = status]
  /\ asked' = [asked EXCEPT ![j] = status]
  /\ Race(j)
  /\ UNCHANGED <<clockVars, runnerVars, crashes, ran>>

\* The schedule is not found: the handler reports it and goes on, and stores
\* an empty schedule with the status under the zero key. A handler that is then
\* asked for the zero key does the same to it.
SetStatusStray(status) ==
  /\ phase # "down"
  /\ sch' = [sch EXCEPT ![Zero] =
               [occ |-> <<>>, res |-> <<>>, status |-> status, lease |-> 0]]
  /\ asked' = [asked EXCEPT ![Zero] = status]
  /\ UNCHANGED <<clockVars, runnerVars, crashes, raced, ran>>

Stop(j) == SetStatus(j, "canceled")

Start(j) == SetStatus(j, "running")

Remove(j) == SetStatus(j, "archived")

NotFound == \E status \in Strays : SetStatusStray(status)

-----------------------------------------------------------------------------
Init ==
  /\ now = 1 /\ nextTick = 1 + Hour /\ due = FALSE
  /\ phase = "list"
  /\ stage = [j \in Jobs |-> "none"] /\ copy = [j \in Jobs |-> None]
  /\ sch = [j \in Jobs |-> None]
  /\ crashes = 0
  /\ asked = [j \in Jobs |-> "running"] /\ raced = {}
  /\ ran = [j \in Jobs |-> <<>>]

RunJob(j) ==
  \/ Lease(j) \/ LeaseFails(j) \/ Go(j)
  \/ RunDone(j) \/ Skip(j) \/ RunFails(j)

Runner == List \/ ListFails \/ RoundDone \/ Wake \/ \E j \in Jobs : RunJob(j)

Handler(j) == Add(j) \/ Stop(j) \/ Start(j) \/ Remove(j)

Next ==
  \/ Runner \/ Crash \/ Restart \/ Pass \/ NotFound
  \/ \E j \in Jobs \ {Zero} : Handler(j)

Spec == Init /\ [][Next]_vars

-----------------------------------------------------------------------------
(* Properties                                                              *)

\* Type invariant (schedule.go:28-36).
TypeOK ==
  /\ now \in Nat /\ nextTick \in Nat /\ due \in BOOLEAN
  /\ phase \in {"list", "work", "idle", "down"}
  /\ stage \in [Jobs -> {"none", "queued", "leased", "running"}]
  /\ copy \in [Jobs -> Picked \cup {None}]
  /\ \A j \in Jobs : stage[j] = "none" <=> copy[j] = None
  /\ sch \in [Jobs -> Schedules \cup {None}]
  /\ crashes \in Nat
  /\ asked \in [Jobs -> Statuses] /\ raced \subseteq Jobs
  /\ ran \in [Jobs -> Seq(Nat)]

\* A schedule never has more results than occurrences, or NextRun would
\* slice out of range and panic at each tick (schedule.go:228).
NeverBeyond ==
  \A j \in Jobs : sch[j] # None => Len(sch[j].res) <= Len(sch[j].occ)

\* Although the runner stores a copy read up to hours before, over what the
\* handlers stored, and crashes at any time, no result is lost or rewritten
\* and every result is for a run of its own (schedule_run.go:230, 241).
ResultsGrow ==
  [][\A j \in Jobs : sch[j] # None =>
       /\ sch'[j].occ = sch[j].occ
       /\ sch'[j].res # sch[j].res =>
            /\ stage[j] = "running"
            /\ \E x \in {"executed", "skipped"} :
                 sch'[j].res = Append(sch[j].res, x)]_vars

\* While the runner may still store its copy of a schedule it has leased,
\* what is stored has the results of the copy and the lease it was given
\* (schedule_run.go:73), whatever the handlers do, so that until the lease runs
\* out the schedule would not be listed. The lease is not renewed: a job that
\* waits for its turn or runs for more than an hour is free for a list
\* (schedule_run.go:88), and only that the one runner waits for its jobs before
\* it lists again (line 80) keeps it from being run twice at a time.
LeasedWhileRunning ==
  \A j \in Jobs : stage[j] \in {"leased", "running"} =>
    /\ sch[j].res = copy[j].s.res
    /\ sch[j].lease = copy[j].s.lease
    /\ now <= copy[j].s.lease => ~Listed(sch[j])

\* The status that a handler stored is only lost to the runner when the two
\* overlapped (the handler call came between List and the last PutValue).
LostOnlyInRace ==
  \A j \in Jobs : sch[j] # None =>
    \/ sch[j].status = asked[j]
    \/ sch[j].status = "finished" /\ Len(sch[j].res) = Len(sch[j].occ)
    \/ j \in raced

\* A schedule whose occurrences are in the future when it is added and at
\* least thirteen hours apart (twelve, and one to the first tick), under a
\* runner that neither fails nor stops, runs each of its occurrences once, in
\* their order, and none of them late by more than an hour, or early by more
\* (schedule.go:220-244 with the hourly ticker).
EachOnceOnTime ==
  \A j \in Jobs : sch[j] # None =>
    /\ \A i \in DOMAIN ran[j] :
         ran[j][i] = sch[j].occ[i] /\ ran[j][i] < now + Hour
    /\ phase = "idle" /\ ~due =>
         \A i \in DOMAIN sch[j].occ :
           sch[j].occ[i] + Hour < now => i <= Len(sch[j].res)
=============================================================================
