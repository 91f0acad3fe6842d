----------------------------- MODULE Hub_proofs -----------------------------
(***************************************************************************)
(* Proofs about the schedules, for any jobs and calendars, any clock, with *)
(* or without failures, crashes and the StopSchedule flag; about the       *)
(* storage, for any tasks, operations, connections, cells and retries; and *)
(* about the query engine, for any rules, records and window.              *)
(*                                                                         *)
(* The schedules: the runner's two writes are blind, but the runner is the *)
(* only writer of the results, and a schedule is in the runner at most     *)
(* once; so its copy has the results that are stored until it stores one   *)
(* more, and that it was listed means that one more was due. When the      *)
(* occurrences are far apart and the runner prompt, the next one is never  *)
(* more than an hour late, and those after it are out of NextRun's reach.  *)
(*                                                                         *)
(* The storage: who gets the lock has the database as its snapshot, so     *)
(* what is read before a write in a transaction is what is overwritten;    *)
(* every program ends its writes with the search index; and what a task    *)
(* that failed has written is only seen by others when its connection kept *)
(* the lock, so that they cannot write, or was committed by ServeHTTP.     *)
(*                                                                         *)
(* The engine: the window has the records that the rule is about from its  *)
(* start on, the counts are their numbers, and what is marked was given;   *)
(* so each record adds to what is given what it adds to what is meant.     *)
(***************************************************************************)
EXTENDS MCHub, SequenceTheorems, FiniteSetTheorems, WellFoundedInduction, TLAPS

\* What the runner's copy of a schedule may rely on: the stored schedule has
\* the same occurrences and results, one result is missing, the lease stays the
\* copy's once it is written, and only a handler that raced makes the status
\* differ.
CopyOf(j) ==
  /\ phase = "work" /\ sch[j] # None
  /\ copy[j].s.occ = sch[j].occ /\ copy[j].s.res = sch[j].res
  /\ Len(sch[j].res) < Len(sch[j].occ)
  /\ stage[j] # "queued" => sch[j].lease = copy[j].s.lease /\ sch[j].lease # 0
  /\ j \notin raced => copy[j].s.status = sch[j].status

\* What LostOnlyInRace says of one schedule.
StatusKept(j) ==
  \/ sch[j].status = asked[j]
  \/ sch[j].status = "finished" /\ Len(sch[j].res) = Len(sch[j].occ)
  \/ j \in raced

JobInv(j) ==
  /\ sch[j] # None => Len(sch[j].res) <= Len(sch[j].occ) /\ StatusKept(j)
  /\ stage[j] # "none" => CopyOf(j)
  /\ j = Zero /\ sch[j] # None => sch[j].occ = <<>> /\ sch[j].res = <<>>

\* The inductive invariant.
ScheduleInv == TypeOK /\ \A j \in Jobs : JobInv(j)

-----------------------------------------------------------------------------
(* NextRun                                                                 *)

\* A bounded set of numbers that is not empty has a last one: the loop of
\* NextRun (schedule.go:230) that remembers the last occurrence returns one.
LEMMA LastExists ==
  ASSUME NEW n \in Nat, NEW S \in SUBSET (0..n), S # {}
  PROVE  \E i \in S : \A k \in S : k <= i
<1> DEFINE T == {n - i : i \in S}
<1>1. T \subseteq Nat /\ T # {}
  <2>1. \A i \in S : i \in 0..n /\ n - i \in Nat
    OBVIOUS
  <2>2. QED BY <2>1
<1> HIDE DEF T
<1>2. PICK x \in T : \A y \in T : ~(<<y, x>> \in OpToRel(<, Nat))
  BY <1>1, NatLessThanWellFounded, WFMin
<1>3. \A y \in T : x <= y
  <2>1. \A y \in T : ~(y < x)
    BY <1>1, <1>2, Zenon DEF OpToRel
  <2>2. QED BY <1>1, <2>1
<1>4. PICK i \in S : x = n - i
  BY DEF T
<1>5. \A k \in S : k <= i
  BY <1>3, <1>4 DEF T
<1>6. QED BY <1>5

\* The last occurrence before t is one of those given (schedule.go:230-238).
LEMMA LastBeforeType ==
  ASSUME NEW runs \in Seq(Nat), runs # <<>>, NEW t \in Nat
  PROVE  LastBefore(runs, t) \in Nat
<1> DEFINE before == {i \in 2..Len(runs) : runs[i] < t}
           last   == CHOOSE i \in before : \A k \in before : k <= i
<1>1. Len(runs) \in Nat \ {0} BY EmptySeq
<1>2. CASE before = {}
  <2>1. runs[1] \in Nat BY <1>1, ElementOfSeq
  <2>2. QED BY <1>2, <2>1 DEF LastBefore
<1>3. CASE before # {}
  <2>1. before \in SUBSET (0..Len(runs)) BY <1>1
  <2>2. last \in before BY <1>1, <1>3, <2>1, LastExists
  <2>3. runs[last] \in Nat
    <3>1. last \in 1..Len(runs) BY <1>1, <2>2
    <3> HIDE DEF last
    <3> QED  BY <1>1, <3>1, ElementOfSeq
  <2>4. QED BY <1>3, <2>3 DEF LastBefore
<1>4. QED BY <1>2, <1>3

\* A schedule with a next run has an occurrence for which it has no result,
\* and that slice is never out of range (schedule.go:223-228).
LEMMA NextRunType ==
  ASSUME NEW s \in Schedules, Len(s.res) <= Len(s.occ), NEW t \in Nat
  PROVE  /\ NextRun(s, t) \in Nat
         /\ NextRun(s, t) # 0 => Len(s.res) < Len(s.occ)
<1>1. /\ s.occ \in Seq(Nat) /\ s.res \in Seq({"executed", "skipped"})
      /\ Len(s.occ) \in Nat /\ Len(s.res) \in Nat
  BY LenProperties DEF Schedules
<1>2. CASE Len(s.occ) = Len(s.res)
  BY <1>1, <1>2 DEF NextRun
<1>3. CASE Len(s.occ) # Len(s.res)
  <2> DEFINE m == Len(s.res) + 1
             n == Len(s.occ)
  <2>1. m \in Int /\ n \in Int /\ m <= n /\ n - m + 1 > 0
    <3>1. \A p, q \in Nat : p <= q /\ q # p =>
            p + 1 \in Int /\ q \in Int /\ p + 1 <= q /\ q - (p + 1) + 1 > 0
      OBVIOUS
    <3>2. QED BY <1>1, <1>3, <3>1, Zenon
  <2>2. \A i \in m..n : s.occ[i] \in Nat
    BY <1>1, ElementOfSeq
  <2> HIDE DEF m, n
  <2>3. SubSeq(s.occ, m, n) \in Seq(Nat) /\ Len(SubSeq(s.occ, m, n)) > 0
    BY <2>1, <2>2, SubSeqProperties
  <2>4. Left(s) \in Seq(Nat) /\ Len(Left(s)) > 0
    BY <2>3 DEF Left, m, n
  <2>5. Left(s) # <<>>
    BY <2>4, EmptySeq
  <2>6. LastBefore(Left(s), t + HalfDay) \in Nat
    <3>1. t + HalfDay \in Nat BY HourAssumption
    <3>2. QED BY <2>4, <2>5, <3>1, LastBeforeType
  <2>7. QED BY <1>1, <1>3, <2>6 DEF NextRun
<1>4. QED BY <1>2, <1>3

-----------------------------------------------------------------------------
(* What a step does to one schedule                                        *)

Stages == {"none", "queued", "leased", "running"}

\* A job's part of the state is of the right type.
JobTypes(j) ==
  /\ stage[j] \in Stages /\ copy[j] \in Picked \cup {None}
  /\ stage[j] = "none" <=> copy[j] = None
  /\ sch[j] \in Schedules \cup {None}
  /\ asked[j] \in Statuses /\ ran[j] \in Seq(Nat)

\* Nothing but job j changes, and the clock and the phase do not.
OnlyJob(j) ==
  /\ UNCHANGED <<clockVars, phase, crashes>>
  /\ stage' = [stage EXCEPT ![j] = stage'[j]]
  /\ copy' = [copy EXCEPT ![j] = copy'[j]]
  /\ sch' = [sch EXCEPT ![j] = sch'[j]]
  /\ asked' = [asked EXCEPT ![j] = asked'[j]]
  /\ ran' = [ran EXCEPT ![j] = ran'[j]]
  /\ raced' \in {raced, raced \cup {j}}

\* A step of the runner or of a handler on job j need only be looked at for
\* that job.
LEMMA OneJob ==
  ASSUME ScheduleInv, NEW j \in Jobs, OnlyJob(j), JobTypes(j)', JobInv(j)'
  PROVE  ScheduleInv'
<1>1. \A k \in Jobs \ {j} :
        /\ stage'[k] = stage[k] /\ copy'[k] = copy[k] /\ sch'[k] = sch[k]
        /\ asked'[k] = asked[k] /\ ran'[k] = ran[k] /\ phase' = phase
        /\ k \in raced' <=> k \in raced
  BY DEF ScheduleInv, TypeOK, OnlyJob
<1>2. TypeOK'
  <2>1. /\ stage' \in [Jobs -> Stages] /\ copy' \in [Jobs -> Picked \cup {None}]
        /\ sch' \in [Jobs -> Schedules \cup {None}]
    BY ZenonT(30) DEF ScheduleInv, TypeOK, OnlyJob, JobTypes, Stages
  <2>2. asked' \in [Jobs -> Statuses] /\ ran' \in [Jobs -> Seq(Nat)] /\ raced' \subseteq Jobs
    BY DEF ScheduleInv, TypeOK, OnlyJob, JobTypes
  <2>3. \A k \in Jobs : stage'[k] = "none" <=> copy'[k] = None
    BY <1>1 DEF ScheduleInv, TypeOK, JobTypes
  <2>4. QED BY <2>1, <2>2, <2>3 DEF ScheduleInv, TypeOK, OnlyJob, Stages, clockVars
<1>3. \A k \in Jobs \ {j} : JobInv(k)'
  BY <1>1 DEF ScheduleInv, JobInv, CopyOf, StatusKept
<1>4. QED BY <1>2, <1>3 DEF ScheduleInv

\* The fields of a schedule and of the runner's copy of it.
LEMMA Fields ==
  /\ \A s \in Schedules :
       /\ s.occ \in Seq(Nat) /\ s.res \in Seq({"executed", "skipped"})
       /\ s.status \in Statuses /\ s.lease \in Nat
       /\ Len(s.occ) \in Nat /\ Len(s.res) \in Nat
       /\ s = [occ |-> s.occ, res |-> s.res, status |-> s.status, lease |-> s.lease]
  /\ \A c \in Picked : c.s \in Schedules /\ c.pick \in Nat
  BY LenProperties DEF Schedules, Picked

\* Lease (schedule_run.go:73): the copy with a lease.
LEMMA LeaseInv ==
  ASSUME ScheduleInv, NEW j \in Jobs, Lease(j)
  PROVE  ScheduleInv'
<1> DEFINE leased == [copy[j].s EXCEPT !.lease = now + Hour]
<1>1. /\ copy[j] \in Picked /\ CopyOf(j) /\ JobInv(j) /\ stage[j] = "queued"
      /\ now \in Nat
  BY DEF ScheduleInv, TypeOK, JobInv, Lease
<1>2. /\ leased \in Schedules /\ leased.occ = sch[j].occ /\ leased.res = sch[j].res
      /\ leased.status = copy[j].s.status /\ leased.lease # 0
  <2>1. now + Hour \in Nat \ {0} BY <1>1, HourAssumption
  <2>2. copy[j].s \in Schedules BY <1>1, Fields
  <2>3. /\ leased \in Schedules
        /\ leased.occ = copy[j].s.occ /\ leased.res = copy[j].s.res
        /\ leased.status = copy[j].s.status /\ leased.lease = now + Hour
    BY <2>1, <2>2 DEF Schedules
  <2>4. QED BY <1>1, <2>1, <2>3 DEF CopyOf
<1>3. /\ sch'[j] = leased /\ copy'[j] = [copy[j] EXCEPT !.s = leased]
      /\ stage'[j] = "leased"
  BY DEF Lease, ScheduleInv, TypeOK
<1>4. copy'[j] \in Picked /\ copy'[j].s = leased
  BY <1>1, <1>2, <1>3 DEF Picked
<1> HIDE DEF leased
<1>5. OnlyJob(j)
  <2>1. copy' = [copy EXCEPT ![j] = copy'[j]]
    BY <1>3 DEF Lease, leased
  <2>2. sch' = [sch EXCEPT ![j] = sch'[j]]
    BY <1>3 DEF Lease, leased
  <2>3. stage' = [stage EXCEPT ![j] = stage'[j]]
    BY <1>3 DEF Lease
  <2>4. asked' = [asked EXCEPT ![j] = asked'[j]] /\ ran' = [ran EXCEPT ![j] = ran'[j]]
    BY DEF Lease, histVars, ScheduleInv, TypeOK
  <2>5. QED BY <2>1, <2>2, <2>3, <2>4 DEF Lease, OnlyJob, histVars
<1>6. JobTypes(j)'
  BY <1>2, <1>3, <1>4, NoneAssumption DEF Lease, JobTypes, Stages, histVars, ScheduleInv, TypeOK
<1>7. JobInv(j)'
  <2>1. sch'[j].lease # 0 /\ CopyOf(j)'
    BY <1>1, <1>2, <1>3, <1>4, NoneAssumption DEF Lease, CopyOf, histVars
  <2>2. sch'[j] # None => Len(sch'[j].res) <= Len(sch'[j].occ) /\ StatusKept(j)'
    BY <1>1, <1>2, <1>3 DEF Lease, JobInv, StatusKept, CopyOf, histVars
  <2>3. j = Zero /\ sch'[j] # None => sch'[j].occ = <<>> /\ sch'[j].res = <<>>
    BY <1>1, <1>2, <1>3 DEF JobInv, CopyOf
  <2>4. QED BY <2>1, <2>2, <2>3 DEF JobInv
<1>8. QED BY <1>5, <1>6, <1>7, OneJob

\* A job that has a place in errgroup's limit starts (schedule_run.go:78).
LEMMA GoInv ==
  ASSUME ScheduleInv, NEW j \in Jobs, Go(j)
  PROVE  ScheduleInv'
<1>1. CopyOf(j) /\ JobInv(j) /\ stage[j] = "leased" /\ stage'[j] = "running"
  BY DEF ScheduleInv, TypeOK, JobInv, Go
<1>2. OnlyJob(j)
  BY <1>1 DEF Go, OnlyJob, histVars, ScheduleInv, TypeOK
<1>3. JobTypes(j)'
  BY <1>1 DEF Go, JobTypes, Stages, histVars, ScheduleInv, TypeOK
<1>4. JobInv(j)'
  BY <1>1 DEF Go, JobInv, CopyOf, StatusKept, histVars
<1>5. QED BY <1>2, <1>3, <1>4, OneJob

\* The runner gives job j up, with its lease stored or not
\* (schedule_run.go:75, 113-243).
LEMMA GiveUpInv ==
  ASSUME ScheduleInv, NEW j \in Jobs, Drop(j),
         UNCHANGED <<clockVars, phase, sch, crashes, histVars>>
  PROVE  ScheduleInv'
<1>1. stage'[j] = "none" /\ copy'[j] = None
  BY DEF ScheduleInv, TypeOK, Drop
<1>2. OnlyJob(j)
  BY <1>1 DEF Drop, OnlyJob, histVars, ScheduleInv, TypeOK
<1>3. JobTypes(j)'
  BY <1>1 DEF JobTypes, Stages, histVars, ScheduleInv, TypeOK
<1>4. JobInv(j)'
  BY <1>1 DEF JobInv, StatusKept, histVars, ScheduleInv
<1>5. QED BY <1>2, <1>3, <1>4, OneJob

\* The schedule that runJob stores at its end (schedule_run.go:230-241).
LEMMA StoreResultInv ==
  ASSUME ScheduleInv, NEW j \in Jobs, NEW result \in {"executed", "skipped"},
         StoreResult(j, result, StatusAfter(copy[j].s))
  PROVE  /\ ScheduleInv'
         /\ sch'[j].occ = sch[j].occ /\ sch'[j].res = Append(sch[j].res, result)
<1>0. j # Zero
  <2>1. JobInv(j) /\ CopyOf(j)
    BY DEF ScheduleInv, JobInv, StoreResult
  <2>2. j = Zero => Len(sch[j].res) = 0 /\ Len(sch[j].occ) = 0
    BY <2>1 DEF JobInv, CopyOf
  <2>3. QED BY <2>1, <2>2 DEF CopyOf
<1> DEFINE s == copy[j].s
           after == [s EXCEPT !.res = Append(@, result), !.lease = 0,
                              !.status = StatusAfter(s)]
<1>1. /\ copy[j] \in Picked /\ s \in Schedules /\ sch[j] \in Schedules
      /\ CopyOf(j) /\ JobInv(j) /\ stage[j] = "running"
  BY Fields DEF ScheduleInv, TypeOK, JobInv, StoreResult, CopyOf
<1>2. StatusAfter(s) \in Statuses
  BY <1>1, Fields DEF StatusAfter, Statuses
<1>3. /\ Append(s.res, result) \in Seq({"executed", "skipped"})
      /\ Len(Append(s.res, result)) = Len(s.res) + 1
  BY <1>1, Fields, AppendProperties
<1>4. /\ after \in Schedules
      /\ after.occ = s.occ /\ after.res = Append(s.res, result)
      /\ after.status = StatusAfter(s)
  BY <1>1, <1>2, <1>3 DEF Schedules
<1>5. stage'[j] = "none" /\ copy'[j] = None /\ sch'[j] = after
  BY DEF StoreResult, Drop, ScheduleInv, TypeOK
<1>6. ran'[j] = Append(ran[j], copy[j].pick) /\ ran'[j] \in Seq(Nat)
  BY <1>1, Fields, AppendProperties DEF StoreResult, ScheduleInv, TypeOK
<1>7. OnlyJob(j)
  <2>1. /\ stage' = [stage EXCEPT ![j] = stage'[j]]
        /\ copy' = [copy EXCEPT ![j] = copy'[j]]
    BY <1>5 DEF StoreResult, Drop
  <2>2. sch' = [sch EXCEPT ![j] = sch'[j]]
    BY <1>5 DEF StoreResult
  <2>3. ran' = [ran EXCEPT ![j] = ran'[j]]
    BY <1>6 DEF StoreResult
  <2>4. asked' = [asked EXCEPT ![j] = asked'[j]]
    BY DEF StoreResult, ScheduleInv, TypeOK
  <2>5. QED BY <2>1, <2>2, <2>3, <2>4 DEF StoreResult, OnlyJob
<1>8. JobTypes(j)'
  BY <1>4, <1>5, <1>6 DEF StoreResult, JobTypes, Stages, ScheduleInv, TypeOK
<1> HIDE DEF after
<1>9. JobInv(j)'
  <2>1. Len(sch[j].res) \in Nat /\ Len(sch[j].occ) \in Nat
    BY <1>1, Fields
  <2>2. Len(sch'[j].res) = Len(sch[j].res) + 1 /\ sch'[j].occ = sch[j].occ
    BY <1>1, <1>3, <1>4, <1>5 DEF CopyOf
  <2>3. Len(sch'[j].res) <= Len(sch'[j].occ)
    BY <1>1, <2>1, <2>2 DEF CopyOf
  <2>4. StatusKept(j)'
    <3>1. CASE j \in raced
      BY <3>1 DEF StatusKept, StoreResult
    <3>2. CASE j \notin raced
      <4>1. s.status = asked[j]
        BY <1>1, <2>1, <3>2 DEF CopyOf, JobInv, StatusKept
      <4>2. \/ StatusAfter(s) = s.status
            \/ StatusAfter(s) = "finished" /\ Len(s.res) + 1 = Len(s.occ)
        BY DEF StatusAfter
      <4>3. asked' = asked
        BY DEF StoreResult
      <4>4. QED BY <1>1, <1>3, <1>4, <1>5, <4>1, <4>2, <4>3 DEF StatusKept
    <3>3. QED BY <3>1, <3>2
  <2>5. QED BY <1>0, <1>5, <2>3, <2>4 DEF JobInv
<1>10. ScheduleInv'
  BY <1>7, <1>8, <1>9, OneJob
<1>11. QED BY <1>1, <1>4, <1>5, <1>10 DEF CopyOf

\* A new schedule (schedule.go:104-129): the runner does not know it.
LEMMA AddInv ==
  ASSUME ScheduleInv, NEW j \in Jobs \ {Zero}, Add(j)
  PROVE  ScheduleInv'
<1>1. PICK occ \in Calendars :
        sch' = [sch EXCEPT ![j] =
                  [occ |-> occ, res |-> <<>>, status |-> "running", lease |-> 0]]
  BY DEF Add
<1> DEFINE new == [occ |-> occ, res |-> <<>>, status |-> "running", lease |-> 0]
<1>2. sch[j] = None /\ stage[j] = "none" /\ copy[j] = None
  BY DEF Add, ScheduleInv, TypeOK, JobInv, CopyOf
<1>3. sch'[j] = new /\ asked'[j] = "running"
  BY <1>1 DEF Add, ScheduleInv, TypeOK
<1>4. new \in Schedules /\ Len(new.res) <= Len(new.occ)
  BY CalendarsAssumption, EmptySeq, LenProperties DEF Schedules, Statuses
<1>5. OnlyJob(j)
  BY <1>1, <1>3 DEF Add, OnlyJob, runnerVars, ScheduleInv, TypeOK
<1>6. JobTypes(j)'
  BY <1>2, <1>3, <1>4 DEF Add, JobTypes, Stages, Statuses, runnerVars, ScheduleInv, TypeOK
<1>7. JobInv(j)'
  BY <1>2, <1>3, <1>4 DEF Add, JobInv, StatusKept, runnerVars
<1>8. QED BY <1>5, <1>6, <1>7, OneJob

\* A handler stores another status (schedule.go:146-197): if the runner has a
\* copy, the two have raced.
LEMMA SetStatusInv ==
  ASSUME ScheduleInv, NEW j \in Jobs, NEW status \in Statuses, SetStatus(j, status)
  PROVE  /\ ScheduleInv'
         /\ sch'[j].occ = sch[j].occ /\ sch'[j].res = sch[j].res
<1> DEFINE new == [sch[j] EXCEPT !.status = status]
<1>1. sch[j] \in Schedules /\ JobInv(j)
  BY DEF SetStatus, ScheduleInv, TypeOK
<1>2. /\ new \in Schedules /\ new.occ = sch[j].occ /\ new.res = sch[j].res
      /\ new.lease = sch[j].lease /\ new.status = status
  BY <1>1 DEF Schedules
<1>3. sch'[j] = new /\ asked'[j] = status
  BY DEF SetStatus, ScheduleInv, TypeOK
<1>4. raced' = raced \/ raced' = raced \cup {j}
  BY DEF SetStatus, Race
<1>5. stage[j] # "none" => j \in raced'
  BY DEF SetStatus, Race, ScheduleInv, TypeOK
<1>6. OnlyJob(j)
  <2>1. sch' = [sch EXCEPT ![j] = sch'[j]]
    BY <1>3 DEF SetStatus
  <2>2. asked' = [asked EXCEPT ![j] = asked'[j]]
    BY <1>3 DEF SetStatus
  <2>3. /\ stage' = [stage EXCEPT ![j] = stage'[j]]
        /\ copy' = [copy EXCEPT ![j] = copy'[j]]
        /\ ran' = [ran EXCEPT ![j] = ran'[j]]
    BY DEF SetStatus, runnerVars, ScheduleInv, TypeOK
  <2>4. QED BY <1>4, <2>1, <2>2, <2>3 DEF SetStatus, OnlyJob, runnerVars
<1>7. JobTypes(j)'
  BY <1>2, <1>3 DEF SetStatus, JobTypes, Stages, runnerVars, ScheduleInv, TypeOK
<1> HIDE DEF new
<1>8. JobInv(j)'
  <2>1. sch'[j] # None => Len(sch'[j].res) <= Len(sch'[j].occ) /\ StatusKept(j)'
    BY <1>1, <1>2, <1>3 DEF SetStatus, JobInv, StatusKept
  <2>2. stage'[j] # "none" => CopyOf(j)'
    BY <1>1, <1>2, <1>3, <1>5, NoneAssumption DEF SetStatus, JobInv, CopyOf, runnerVars
  <2>3. j = Zero => sch'[j].occ = <<>> /\ sch'[j].res = <<>>
    BY <1>1, <1>2, <1>3 DEF SetStatus, JobInv
  <2>4. QED BY <2>1, <2>2, <2>3 DEF JobInv
<1>9. QED BY <1>2, <1>3, <1>6, <1>7, <1>8, OneJob

\* A schedule without occurrences is never run, so the runner knows nothing of
\* the one under the zero key.
LEMMA ZeroRests ==
  ASSUME ScheduleInv
  PROVE  stage[Zero] = "none" /\ copy[Zero] = None
<1>1. Zero \in Jobs /\ JobInv(Zero)
  BY ZeroAssumption DEF ScheduleInv
<1>2. ASSUME stage[Zero] # "none" PROVE FALSE
  <2>1. CopyOf(Zero) /\ sch[Zero] # None
    BY <1>1, <1>2 DEF JobInv, CopyOf
  <2>2. Len(sch[Zero].res) = 0 /\ Len(sch[Zero].occ) = 0
    BY <1>1, <2>1 DEF JobInv
  <2>3. QED BY <2>1, <2>2 DEF CopyOf
<1>3. QED BY <1>1, <1>2 DEF ScheduleInv, TypeOK

\* A handler that did not find its schedule (schedule.go:151-157, 180-186).
LEMMA NotFoundInv ==
  ASSUME ScheduleInv, NotFound
  PROVE  /\ ScheduleInv'
         /\ sch' = [sch EXCEPT ![Zero] = sch'[Zero]]
         /\ sch'[Zero].occ = <<>> /\ sch'[Zero].res = <<>>
<1>1. PICK status \in Strays : SetStatusStray(status)
  BY DEF NotFound
<1> DEFINE new == [occ |-> <<>>, res |-> <<>>, status |-> status, lease |-> 0]
<1>2. sch' = [sch EXCEPT ![Zero] = new] /\ asked' = [asked EXCEPT ![Zero] = status]
  BY <1>1 DEF SetStatusStray
<1>3. Zero \in Jobs /\ status \in Statuses
  BY ZeroAssumption, StraysAssumption DEF Statuses
<1>4. /\ new \in Schedules /\ new # None
      /\ new.occ = <<>> /\ new.res = <<>> /\ new.status = status
      /\ Len(new.res) <= Len(new.occ)
  <2>1. <<>> \in Seq(Nat) /\ <<>> \in Seq({"executed", "skipped"})
    BY EmptySeq
  <2>2. new \in Schedules
    BY <1>3, <2>1 DEF Schedules
  <2>. QED  BY <2>2, NoneAssumption
<1> HIDE DEF new
<1>5. sch'[Zero] = new /\ asked'[Zero] = status
  BY <1>2, <1>3 DEF ScheduleInv, TypeOK
<1>6. stage[Zero] = "none" /\ copy[Zero] = None
  BY ZeroRests
<1>7. OnlyJob(Zero)
  BY <1>1, <1>2, <1>3, <1>5 DEF SetStatusStray, OnlyJob, runnerVars, ScheduleInv, TypeOK
<1>8. JobTypes(Zero)'
  BY <1>1, <1>3, <1>4, <1>5, <1>6
     DEF SetStatusStray, JobTypes, Stages, runnerVars, ScheduleInv, TypeOK
<1>9. JobInv(Zero)'
  BY <1>1, <1>4, <1>5, <1>6 DEF SetStatusStray, JobInv, StatusKept, runnerVars
<1>10. ScheduleInv'
  BY <1>3, <1>7, <1>8, <1>9, OneJob
<1>11. QED BY <1>2, <1>4, <1>5, <1>10

\* What is listed (schedule_run.go:86-102) lacks a result: NextRun says so.
LEMMA ListInv ==
  ASSUME ScheduleInv, List
  PROVE  ScheduleInv'
<1> DEFINE listed(j) == sch[j] # None /\ Listed(sch[j])
           picked(j) == [s |-> sch[j], pick |-> NextRun(sch[j], now)]
<1>1. \A j \in Jobs :
        /\ stage'[j] = IF listed(j) THEN "queued" ELSE "none"
        /\ copy'[j] = IF listed(j) THEN picked(j) ELSE None
        /\ phase' = "work" /\ sch' = sch /\ asked' = asked /\ raced' = raced
  BY DEF List, histVars
<1>2. ASSUME NEW j \in Jobs, listed(j)
      PROVE  picked(j) \in Picked /\ Len(sch[j].res) < Len(sch[j].occ)
  <2>1. sch[j] \in Schedules /\ Len(sch[j].res) <= Len(sch[j].occ) /\ now \in Nat
    BY <1>2 DEF ScheduleInv, TypeOK, JobInv
  <2>2. NextRun(sch[j], now) \in Nat /\ Len(sch[j].res) < Len(sch[j].occ)
    BY <1>2, <2>1, NextRunType DEF Listed
  <2>3. QED BY <2>1, <2>2 DEF Picked
<1>3. /\ stage' \in [Jobs -> Stages] /\ copy' \in [Jobs -> Picked \cup {None}]
      /\ \A j \in Jobs : stage'[j] = "none" <=> copy'[j] = None
  <2>1. stage' \in [Jobs -> Stages]
    BY DEF List, Stages
  <2>2. copy' = [j \in Jobs |-> IF listed(j) THEN picked(j) ELSE None]
    BY DEF List
  <2>3. \A j \in Jobs : (IF listed(j) THEN picked(j) ELSE None) \in Picked \cup {None}
    BY <1>2
  <2> HIDE DEF listed, picked
  <2>4. copy' \in [Jobs -> Picked \cup {None}]
    BY <2>2, <2>3
  <2>5. \A j \in Jobs : stage'[j] = "none" <=> copy'[j] = None
    BY <1>1, <1>2, NoneAssumption
  <2>6. QED BY <2>1, <2>4, <2>5
<1>4. TypeOK'
  BY <1>3 DEF List, ScheduleInv, TypeOK, Stages, clockVars, histVars
<1>5. ASSUME NEW j \in Jobs PROVE JobInv(j)'
  <2>1. sch'[j] # None => Len(sch'[j].res) <= Len(sch'[j].occ) /\ StatusKept(j)'
    BY <1>1 DEF ScheduleInv, JobInv, StatusKept
  <2>2. ASSUME listed(j) PROVE CopyOf(j)'
    <3>1. picked(j).s = sch[j] /\ sch[j] # None
      BY <2>2
    <3> HIDE DEF listed, picked
    <3>2. copy'[j].s = sch[j] /\ stage'[j] = "queued"
      BY <1>1, <2>2, <3>1
    <3>3. QED BY <1>1, <1>2, <2>2, <3>1, <3>2 DEF CopyOf
  <2>3. stage'[j] # "none" => listed(j)
    BY <1>1
  <2>5. j = Zero /\ sch'[j] # None => sch'[j].occ = <<>> /\ sch'[j].res = <<>>
    BY <1>1 DEF ScheduleInv, JobInv
  <2>4. QED BY <2>1, <2>2, <2>3, <2>5 DEF JobInv
<1>6. QED BY <1>4, <1>5 DEF ScheduleInv

\* Nothing changes for the jobs but the clock, and the phase of a runner that
\* has no copies.
LEMMA QuietInv ==
  ASSUME ScheduleInv, UNCHANGED <<stage, copy, sch, histVars>>,
         now' \in Nat, nextTick' \in Nat, due' \in BOOLEAN, crashes' \in Nat,
         phase' \in {"list", "work", "idle", "down"},
         phase' = phase \/ \A j \in Jobs : stage[j] = "none"
  PROVE  ScheduleInv'
<1>1. TypeOK'
  BY DEF ScheduleInv, TypeOK, histVars
<1>2. ASSUME NEW j \in Jobs PROVE JobInv(j)'
  BY DEF ScheduleInv, JobInv, CopyOf, StatusKept, histVars
<1>3. QED BY <1>1, <1>2 DEF ScheduleInv

\* The process dies, and all copies with it.
LEMMA CrashInv ==
  ASSUME ScheduleInv, Crash
  PROVE  ScheduleInv'
<1>1. /\ \A j \in Jobs : stage'[j] = "none" /\ copy'[j] = None
      /\ stage' \in [Jobs -> Stages] /\ copy' \in [Jobs -> Picked \cup {None}]
      /\ phase' = "down" /\ crashes' \in Nat
  BY DEF Crash, Stages, ScheduleInv, TypeOK
<1>2. TypeOK'
  BY <1>1 DEF Crash, ScheduleInv, TypeOK, Stages, clockVars, histVars
<1>3. ASSUME NEW j \in Jobs PROVE JobInv(j)'
  BY <1>1 DEF Crash, ScheduleInv, JobInv, StatusKept, histVars
<1>4. QED BY <1>2, <1>3 DEF ScheduleInv

-----------------------------------------------------------------------------
(* The theorems                                                            *)

LEMMA ScheduleInit == Init => ScheduleInv
<1> SUFFICES ASSUME Init PROVE ScheduleInv
  OBVIOUS
<1>1. TypeOK
  <2>1. <<>> \in Seq(Nat)
    BY EmptySeq
  <2>2. now \in Nat /\ nextTick \in Nat
    BY HourAssumption DEF Init
  <2>3. ran \in [Jobs -> Seq(Nat)] /\ asked \in [Jobs -> Statuses]
    BY <2>1 DEF Init, Statuses
  <2>4. QED BY <2>2, <2>3 DEF Init, TypeOK
<1>2. ASSUME NEW j \in Jobs PROVE JobInv(j)
  BY DEF Init, JobInv
<1>3. QED BY <1>1, <1>2 DEF ScheduleInv

\* What a step of the runner or of a handler on one job may do.
LEMMA JobStep ==
  ASSUME ScheduleInv, NEW j \in Jobs, RunJob(j) \/ (j # Zero /\ Handler(j))
  PROVE  ScheduleInv'
<1>1. CASE Lease(j) BY <1>1, LeaseInv
<1>2. CASE LeaseFails(j) BY <1>2, GiveUpInv DEF LeaseFails
<1>3. CASE Go(j) BY <1>3, GoInv
<1>4. CASE RunDone(j) BY <1>4, StoreResultInv DEF RunDone
<1>5. CASE Skip(j) BY <1>5, StoreResultInv DEF Skip
<1>6. CASE RunFails(j) BY <1>6, GiveUpInv DEF RunFails
<1>7. CASE j # Zero /\ Add(j) BY <1>7, AddInv
<1>8. CASE Stop(j) \/ Start(j) \/ Remove(j)
  BY <1>8, SetStatusInv DEF Stop, Start, Remove, Statuses
<1>9. QED
  BY <1>1, <1>2, <1>3, <1>4, <1>5, <1>6, <1>7, <1>8 DEF RunJob, Handler

LEMMA ScheduleStep == ScheduleInv /\ [Next]_vars => ScheduleInv'
<1> SUFFICES ASSUME ScheduleInv, [Next]_vars PROVE ScheduleInv'
  OBVIOUS
<1>1. /\ now \in Nat /\ nextTick \in Nat /\ due \in BOOLEAN /\ crashes \in Nat
      /\ phase \in {"list", "work", "idle", "down"}
      /\ phase # "work" => \A j \in Jobs : stage[j] = "none"
  BY DEF ScheduleInv, TypeOK, JobInv, CopyOf
<1>2. CASE List BY <1>2, ListInv
<1>3. CASE ListFails \/ RoundDone \/ Wake
  BY <1>1, <1>3, QuietInv DEF ListFails, RoundDone, Wake, clockVars
<1>4. CASE Crash BY <1>4, CrashInv
<1>5. CASE Restart
  <2>1. nextTick' \in Nat /\ due' \in BOOLEAN
    <3>1. now + Hour \in Nat BY <1>1, HourAssumption
    <3>2. nextTick' = now + Hour /\ due' = FALSE BY <1>5 DEF Restart
    <3>3. QED BY <3>1, <3>2
  <2>2. UNCHANGED <<now, stage, copy, sch, crashes, histVars>> /\ phase' = "list"
    BY <1>5 DEF Restart
  <2>3. \A j \in Jobs : stage[j] = "none"
    BY <1>1, <1>5 DEF Restart
  <2>4. QED BY <1>1, <2>1, <2>2, <2>3, QuietInv
<1>6. CASE Pass
  <2>1. now' \in Nat /\ nextTick' \in Nat /\ due' \in BOOLEAN
    <3>1. now + 1 \in Nat /\ nextTick + Hour \in Nat BY <1>1, HourAssumption
    <3>2. /\ now' = now + 1
          /\ \/ due' = TRUE /\ nextTick' = nextTick + Hour
             \/ due' = due /\ nextTick' = nextTick
      BY <1>6 DEF Pass
    <3>3. QED BY <1>1, <3>1, <3>2
  <2>2. UNCHANGED <<phase, stage, copy, sch, crashes, histVars>>
    BY <1>6 DEF Pass, runnerVars
  <2>3. QED BY <1>1, <2>1, <2>2, QuietInv
<1>7. CASE UNCHANGED vars
  BY <1>1, <1>7, QuietInv DEF vars, clockVars, runnerVars
<1>8. ASSUME NEW j \in Jobs, RunJob(j) \/ (j # Zero /\ Handler(j)) PROVE ScheduleInv'
  BY <1>8, JobStep
<1>10. CASE NotFound BY <1>10, NotFoundInv
<1>9. QED
  BY <1>2, <1>3, <1>4, <1>5, <1>6, <1>7, <1>8, <1>10 DEF Next, Runner

LEMMA ScheduleHolds == Spec => []ScheduleInv
<1>1. QED BY ScheduleInit, ScheduleStep, PTL DEF Spec

\* The state of the schedules and of the runner has its type
\* (schedule.go:28-36).
THEOREM ScheduleTypes == Spec => []TypeOK
<1>1. ScheduleInv => TypeOK BY DEF ScheduleInv
<1>2. QED BY <1>1, ScheduleHolds, PTL

\* NextRun never slices out of range (schedule.go:228).
THEOREM NoResultTooMany == Spec => []NeverBeyond
<1>1. ScheduleInv => NeverBeyond BY DEF ScheduleInv, JobInv, NeverBeyond
<1>2. QED BY <1>1, ScheduleHolds, PTL

\* The lease is stored as long as the runner may store its copy, which has
\* the results that are stored, and until it runs out the schedule would not be
\* listed (schedule_run.go:73, 88).
THEOREM LeaseStays == Spec => []LeasedWhileRunning
<1>1. ASSUME ScheduleInv PROVE LeasedWhileRunning
  <2>1. SUFFICES ASSUME NEW j \in Jobs, stage[j] \in {"leased", "running"}
                 PROVE  /\ sch[j].res = copy[j].s.res
                        /\ sch[j].lease = copy[j].s.lease
                        /\ now <= copy[j].s.lease => ~Listed(sch[j])
    BY DEF LeasedWhileRunning
  <2>2. CopyOf(j) /\ sch[j] \in Schedules /\ now \in Nat
    BY <1>1, <2>1 DEF ScheduleInv, TypeOK, JobInv, CopyOf
  <2>3. /\ sch[j].res = copy[j].s.res
        /\ sch[j].lease = copy[j].s.lease /\ sch[j].lease # 0
    BY <2>1, <2>2 DEF CopyOf
  <2>4. sch[j].lease \in Nat
    BY <2>2, Fields
  <2>5. now <= sch[j].lease => ~IsFree(sch[j])
    BY <2>2, <2>3, <2>4 DEF IsFree
  <2>6. QED BY <2>3, <2>5 DEF Listed
<1>2. QED BY <1>1, ScheduleHolds, PTL

\* The runner only overwrites a status that a handler stored while it had a
\* copy (schedule_run.go:241).
THEOREM StatusLostOnlyInRace == Spec => []LostOnlyInRace
<1>1. ScheduleInv => LostOnlyInRace
  BY DEF ScheduleInv, JobInv, StatusKept, LostOnlyInRace
<1>2. QED BY <1>1, ScheduleHolds, PTL

\* What ResultsGrow says of one schedule in one step.
Grows(j) ==
  sch[j] # None =>
    /\ sch'[j].occ = sch[j].occ
    /\ sch'[j].res # sch[j].res =>
         /\ stage[j] = "running"
         /\ \E x \in {"executed", "skipped"} :
              sch'[j].res = Append(sch[j].res, x)

\* The blind writes of the runner are of a copy with the stored results, and
\* the handlers leave the results alone.
LEMMA GrowsStep ==
  ASSUME ScheduleInv, [Next]_vars, NEW j \in Jobs
  PROVE  Grows(j)
<1>0. CASE NotFound
  <2>1. /\ j # Zero => sch'[j] = sch[j]
        /\ sch'[Zero].occ = <<>> /\ sch'[Zero].res = <<>>
    BY <1>0, NotFoundInv DEF ScheduleInv, TypeOK
  <2>2. j = Zero /\ sch[j] # None => sch[j].occ = <<>> /\ sch[j].res = <<>>
    BY DEF ScheduleInv, JobInv
  <2>3. QED BY <2>1, <2>2 DEF Grows
<1>1. ASSUME NEW k \in Jobs, k # j, RunJob(k) \/ Handler(k)
      PROVE  sch'[j] = sch[j]
  BY <1>1 DEF RunJob, Lease, LeaseFails, Go, RunDone, Skip, RunFails, StoreResult,
              Handler, Add, Stop, Start, Remove, SetStatus, ScheduleInv, TypeOK
<1>2. CASE Lease(j)
  <2>1. /\ sch'[j] = [copy[j].s EXCEPT !.lease = now + Hour]
        /\ CopyOf(j) /\ copy[j] \in Picked
    BY <1>2 DEF Lease, ScheduleInv, JobInv, TypeOK
  <2>2. copy[j].s \in Schedules BY <2>1, Fields
  <2>3. sch'[j].occ = copy[j].s.occ /\ sch'[j].res = copy[j].s.res
    BY <2>1, <2>2 DEF Schedules
  <2>4. QED BY <2>1, <2>3 DEF CopyOf, Grows
<1>3. CASE RunDone(j) \/ Skip(j)
  <2>1. PICK x \in {"executed", "skipped"} : StoreResult(j, x, StatusAfter(copy[j].s))
    BY <1>3 DEF RunDone, Skip
  <2>2. sch'[j].occ = sch[j].occ /\ sch'[j].res = Append(sch[j].res, x)
    BY <2>1, StoreResultInv
  <2>3. stage[j] = "running" BY <2>1 DEF StoreResult
  <2>4. QED BY <2>2, <2>3 DEF Grows
<1>4. CASE Stop(j) \/ Start(j) \/ Remove(j)
  BY <1>4, SetStatusInv DEF Stop, Start, Remove, Statuses, Grows
<1>5. CASE Add(j)
  BY <1>5 DEF Add, Grows
<1>6. CASE LeaseFails(j) \/ Go(j) \/ RunFails(j)
  BY <1>6 DEF LeaseFails, Go, RunFails, Grows
<1>7. CASE \/ List \/ ListFails \/ RoundDone \/ Wake \/ Crash \/ Restart \/ Pass
           \/ UNCHANGED vars
  BY <1>7 DEF List, ListFails, RoundDone, Wake, Crash, Restart, Pass, vars, Grows
<1>8. QED
  BY <1>0, <1>1, <1>2, <1>3, <1>4, <1>5, <1>6, <1>7
     DEF Next, Runner, RunJob, Handler, Grows

\* No result is lost, rewritten or counted twice, whatever the handlers and
\* crashes do between the runner's reading and its writing
\* (schedule_run.go:230, 241).
THEOREM NoResultLost == Spec => ResultsGrow
<1>1. ScheduleInv /\ [Next]_vars => [\A j \in Jobs : Grows(j)]_vars
  BY GrowsStep
<1>2. ResultsGrow <=> [][\A j \in Jobs : Grows(j)]_vars
  BY DEF ResultsGrow, Grows
<1>3. QED BY <1>1, <1>2, ScheduleHolds, PTL DEF Spec

-----------------------------------------------------------------------------
(* The storage (NotebookStore)                                             *)

(***************************************************************************)
(* What is left of an operation is the end of its program.                 *)
(***************************************************************************)
Suffix(s, p) ==
  /\ Len(s) \in 1..Len(p)
  /\ \A i \in 1..Len(s) : s[i] = p[Len(p) - Len(s) + i]

Has(s, step) == \E i \in 1..Len(s) : s[i] = step

\* The step of an operation without which nothing of it is stored.
Main(k) == IF k = "editor" THEN "text" ELSE IF k = "result" THEN "result" ELSE "notebook"

\* Which operations make a step, and which step comes after another.
Makes(k, step) ==
  /\ step = "view" => k \in {"cell", "save"}
  /\ step = "read" => k \in {"cell", "editor"}
  /\ step = "text" => k = "editor"
  /\ step = "result" => k = "result"
  /\ step \in {"notebook", "look", "index"} => k # "result"

Follows(x, y) ==
  /\ y # "view" /\ (y = "begin" => x = "view") /\ (x = "view" => y = "begin")
  /\ x = "text" => y = "notebook"
  /\ x = "notebook" => y = "look"
  /\ x = "look" => y = "index"
  /\ x = "index" => y \in {"look", "release"}
  /\ x = "result" => y = "release"

Once == {"begin", "read", "text", "notebook", "result"}

\* What the proofs rely on in the program p of the operation k.
Shape(k, p) ==
  /\ p \in Seq(Store!Steps) /\ Len(p) > 1 /\ p[1] \in {"view", "begin"}
  /\ \A n \in 1..Len(p) : p[n] = "release" <=> n = Len(p)
  /\ \A n \in 1..Len(p) : Makes(k, p[n])
  /\ \A n \in 1..(Len(p) - 1) : Follows(p[n], p[n + 1])
  /\ \A n \in 1..Len(p) : p[n] \in {"text", "notebook", "look"} =>
       \E m \in (n + 1)..Len(p) : p[m] = "index"
  /\ \A n \in 1..Len(p) : p[n] = "notebook" => \A m \in n..Len(p) : p[m] # "read"
  /\ \A n, m \in 1..Len(p) : p[n] = p[m] /\ p[n] \in Once => n = m
  /\ \A n \in 1..Len(p) : p[n] = "begin" =>
       /\ \E m \in (n + 1)..Len(p) : p[m] = Main(k)
       /\ k \in {"cell", "editor"} => \E m \in (n + 1)..Len(p) : p[m] = "read"

\* The same, said of what is left of it.
Rest(k, s) ==
  /\ Head(s) \in Store!Steps /\ Makes(k, Head(s))
  /\ Head(s) # "release" => Follows(Head(s), Head(Tail(s)))
  /\ Head(s) = "release" => \A x : Has(s, x) => x = "release"
  /\ Head(s) \in {"text", "notebook", "look"} => Has(Tail(s), "index")
  /\ Head(s) = "notebook" => ~Has(s, "read")
  /\ Head(s) \in Once => ~Has(Tail(s), Head(s))
  /\ Head(s) = "begin" =>
       Has(Tail(s), Main(k)) /\ (k \in {"cell", "editor"} => Has(Tail(s), "read"))
  /\ \A x : Has(s, x) <=> Head(s) = x \/ Has(Tail(s), x)

(***************************************************************************)
(* The inductive invariant.                                                *)
(***************************************************************************)

\* Who uses a connection, and who does not.
ConnInv ==
  /\ \A t \in Tasks : Suffix(todo[t], Store!Program(kind[t]))
  /\ \A t \in Tasks :
       conn[t] = None <=> reply[t] # "none" \/ Head(todo[t]) \in {"view", "begin"}
  /\ \A t, u \in Tasks : conn[t] = conn[u] /\ conn[t] # None => t = u
  /\ \A t \in Tasks \ onOpen : conn[t] # None => ~open[conn[t]]

\* The snapshots: one that may still write, and has not yet, is the database.
SnapInv ==
  /\ \A c \in Conns : snap[c] # None => snap[c].at <= ver
  /\ \A c \in Conns : wlock = c => snap[c] # None
  /\ \A c \in Conns : ~open[c] =>
       /\ c \in free => snap[c] = None
       /\ snap[c] # None =>
            IF wlock = c THEN snap[c].at = ver
            ELSE snap[c].at = ver => snap[c].image = db

Fresh(d) == d.index = <<d.saved, d.text>>

\* How d, which t is about to commit, differs from the database.
Own(t, d) ==
  /\ d.saved # db.saved => kind[t] = "save"
  /\ d.text # db.text => kind[t] = "editor"
  /\ \A x \in Cells : d.cells[x] # db.cells[x] =>
       kind[t] = "save" \/ (kind[t] = "cell" /\ cell[t] = x)

\* A task in a transaction of its own: the index is fresh, or will be written;
\* what it read is what it sees; and it has written what it had to, unless a
\* write was refused.
TaskInv(t) ==
  conn[t] # None /\ ~open[conn[t]] =>
    /\ snap[conn[t]] # None =>
         Fresh(snap[conn[t]].image) \/ (wlock = conn[t] /\ Has(todo[t], "index"))
    /\ wlock = conn[t] => Own(t, snap[conn[t]].image)
    /\ kind[t] \in {"cell", "editor"} /\ Has(todo[t], "notebook") /\ ~Has(todo[t], "read") =>
         snap[conn[t]] # None /\ view[t] = snap[conn[t]].image.cells
    /\ t \notin busy /\ ~Has(todo[t], Main(kind[t])) => wlock = conn[t] /\ Store!Kept(t)

\* Task t left a mark in d.
InCells(t, cells) == \E x \in Cells : cells[x] = t
Marked(t, d) == t \in d.results \/ t = d.saved \/ t = d.text \/ InCells(t, d.cells)

\* What task t wrote was committed, and it is over.
Done(t) == reply[t] = "ok" \/ t \in cut

\* The lock was left to a transaction that nobody will end: nothing is
\* committed any more.
Stuck == wlock # None /\ open[wlock]

\* Task t has the lock, on connection c.
Holds(t, c) == reply[t] = "none" /\ conn[t] = c /\ wlock = c

\* The mark of a task is only seen on its connection until it is over, and
\* after that if it was committed, or if nothing is committed any more.
MarkInv ==
  \A t \in Tasks :
    /\ Marked(t, db) => Done(t)
    /\ \A c \in Conns : snap[c] # None /\ Marked(t, snap[c].image) =>
         Done(t) \/ Stuck \/ Holds(t, c)
    /\ \A u \in Tasks : reply[u] = "none" /\ InCells(t, view[u]) =>
         Done(t) \/ Stuck \/ (u = t /\ \E c \in Conns : Holds(t, c))

NotebookInv ==
  /\ Store!TypeOK /\ ConnInv /\ SnapInv /\ (\A t \in Tasks : TaskInv(t)) /\ MarkInv
  /\ Fresh(db) /\ Store!OkIsStoredOrExcused

\* The first step, and the rest, of the end of a program.
LEMMA SuffixTail ==
  ASSUME NEW p \in Seq(Store!Steps), NEW s \in Seq(Store!Steps), Suffix(s, p)
  PROVE  /\ Head(s) = p[Len(p) - Len(s) + 1]
         /\ Len(s) > 1 => Suffix(Tail(s), p)
         /\ Tail(s) \in Seq(Store!Steps) /\ Len(Tail(s)) = Len(s) - 1
         /\ \A x : Has(s, x) <=> \E n \in (Len(p) - Len(s) + 1)..Len(p) : p[n] = x
         /\ \A x : Has(s, x) <=> Head(s) = x \/ Has(Tail(s), x)
<1>0. Len(s) \in Nat /\ Len(p) \in Nat /\ Len(s) >= 1 /\ Len(s) <= Len(p)
  BY DEF Suffix
<1>1. Head(s) = s[1] /\ s[1] = p[Len(p) - Len(s) + 1]
  BY <1>0 DEF Suffix
<1>2. Tail(s) \in Seq(Store!Steps) /\ Len(Tail(s)) = Len(s) - 1
      /\ \A i \in 1..(Len(s) - 1) : Tail(s)[i] = s[i + 1]
  BY <1>0
<1>3. Len(s) > 1 => Suffix(Tail(s), p)
  <2>. SUFFICES ASSUME Len(s) > 1 PROVE Suffix(Tail(s), p)
    OBVIOUS
  <2>1. Len(Tail(s)) \in 1..Len(p)
    BY <1>0, <1>2
  <2>2. ASSUME NEW i \in 1..Len(Tail(s)) PROVE Tail(s)[i] = p[Len(p) - Len(Tail(s)) + i]
    <3>1. i + 1 \in 1..Len(s) /\ Tail(s)[i] = s[i + 1]
      BY <1>0, <1>2
    <3>2. s[i + 1] = p[Len(p) - Len(s) + (i + 1)]
      BY <3>1 DEF Suffix
    <3>3. Len(p) - Len(s) + (i + 1) = Len(p) - Len(Tail(s)) + i
      BY <1>0, <1>2
    <3>. QED  BY <3>1, <3>2, <3>3
  <2>. QED  BY <2>1, <2>2 DEF Suffix
<1>4. ASSUME NEW x
      PROVE  Has(s, x) <=> \E n \in (Len(p) - Len(s) + 1)..Len(p) : p[n] = x
  <2>1. ASSUME NEW i \in 1..Len(s), s[i] = x
        PROVE  \E n \in (Len(p) - Len(s) + 1)..Len(p) : p[n] = x
    <3>1. Len(p) - Len(s) + i \in (Len(p) - Len(s) + 1)..Len(p)
      BY <1>0
    <3>. QED  BY <2>1, <3>1 DEF Suffix
  <2>2. ASSUME NEW n \in (Len(p) - Len(s) + 1)..Len(p), p[n] = x
        PROVE  \E i \in 1..Len(s) : s[i] = x
    <3>. DEFINE i == n - (Len(p) - Len(s))
    <3>1. i \in 1..Len(s) /\ Len(p) - Len(s) + i = n
      BY <1>0
    <3>2. s[i] = x
      BY <2>2, <3>1 DEF Suffix
    <3>. QED  BY <3>1, <3>2
  <2>. QED  BY <2>1, <2>2 DEF Has
<1>5. ASSUME NEW x PROVE Has(s, x) <=> Head(s) = x \/ Has(Tail(s), x)
  <2>1. ASSUME NEW i \in 1..Len(s), s[i] = x PROVE Head(s) = x \/ Has(Tail(s), x)
    <3>1. CASE i = 1
      BY <1>1, <2>1, <3>1
    <3>2. CASE i # 1
      <4>1. i - 1 \in 1..(Len(s) - 1) /\ (i - 1) + 1 = i
        BY <1>0, <3>2
      <4>2. Tail(s)[i - 1] = x
        BY <1>2, <2>1, <4>1
      <4>. QED  BY <1>2, <4>1, <4>2 DEF Has
    <3>. QED  BY <3>1, <3>2
  <2>2. Head(s) = x => Has(s, x)
    BY <1>0, <1>1 DEF Has
  <2>3. Has(Tail(s), x) => Has(s, x)
    BY <1>0, <1>2 DEF Has
  <2>. QED  BY <2>1, <2>2, <2>3 DEF Has
<1>. QED  BY <1>1, <1>2, <1>3, <1>4, <1>5

\* The programs, step by step.
LEMMA CellProgram ==
  ASSUME NEW p, p = Store!Program("cell")
  PROVE  /\ p \in Seq(Store!Steps) /\ Len(p) = 7
         /\ p[1] = "view" /\ p[2] = "begin" /\ p[3] = "read" /\ p[4] = "notebook"
         /\ p[5] = "look" /\ p[6] = "index" /\ p[7] = "release"
<1>1. p = <<"view", "begin", "read", "notebook", "look", "index", "release">>
  BY DEF Store!Program
<1>2. p \in Seq(Store!Steps)
  <2>1. p \in [1..7 -> Store!Steps]
    BY <1>1 DEF Store!Steps
  <2>. QED  BY ONLY <2>1, SeqDef
<1>3. Len(p) = 7
  BY <1>1
<1>. QED  BY <1>1, <1>2, <1>3

LEMMA SaveProgram ==
  ASSUME NEW p, p = Store!Program("save")
  PROVE  /\ p \in Seq(Store!Steps) /\ Len(p) = 6
         /\ p[1] = "view" /\ p[2] = "begin" /\ p[3] = "notebook" /\ p[4] = "look"
         /\ p[5] = "index" /\ p[6] = "release"
<1>1. p = <<"view", "begin", "notebook", "look", "index", "release">>
  BY DEF Store!Program
<1>2. p \in Seq(Store!Steps)
  <2>1. p \in [1..6 -> Store!Steps]
    BY <1>1 DEF Store!Steps
  <2>. QED  BY ONLY <2>1, SeqDef
<1>3. Len(p) = 6
  BY <1>1
<1>. QED  BY <1>1, <1>2, <1>3

LEMMA EditorProgram ==
  ASSUME NEW p, p = Store!Program("editor")
  PROVE  /\ p \in Seq(Store!Steps) /\ Len(p) = 9
         /\ p[1] = "begin" /\ p[2] = "read" /\ p[3] = "text" /\ p[4] = "notebook"
         /\ p[5] = "look" /\ p[6] = "index" /\ p[7] = "look" /\ p[8] = "index"
         /\ p[9] = "release"
<1>1. p = <<"begin", "read", "text", "notebook", "look", "index", "look", "index", "release">>
  BY DEF Store!Program
<1>2. p \in Seq(Store!Steps)
  <2>1. p \in [1..9 -> Store!Steps]
    BY <1>1 DEF Store!Steps
  <2>. QED  BY ONLY <2>1, SeqDef
<1>3. Len(p) = 9
  BY <1>1
<1>. QED  BY <1>1, <1>2, <1>3

LEMMA ResultProgram ==
  ASSUME NEW p, p = Store!Program("result")
  PROVE  /\ p \in Seq(Store!Steps) /\ Len(p) = 3
         /\ p[1] = "begin" /\ p[2] = "result" /\ p[3] = "release"
<1>1. p = <<"begin", "result", "release">>
  BY DEF Store!Program
<1>2. p \in Seq(Store!Steps)
  <2>1. p \in [1..3 -> Store!Steps]
    BY <1>1 DEF Store!Steps
  <2>. QED  BY ONLY <2>1, SeqDef
<1>3. Len(p) = 3
  BY <1>1
<1>. QED  BY <1>1, <1>2, <1>3

\* Every program has the shape the proofs rely on.
LEMMA ProgramShape ==
  ASSUME NEW k \in Kinds
  PROVE  Shape(k, Store!Program(k))
<1>. DEFINE p == Store!Program(k)
<1>0. k \in {"cell", "save", "editor", "result"}
  BY KindsAssumption
<1>1. CASE k = "cell"
  <2>1. /\ p \in Seq(Store!Steps) /\ Len(p) = 7
        /\ p[1] = "view" /\ p[2] = "begin" /\ p[3] = "read" /\ p[4] = "notebook"
        /\ p[5] = "look" /\ p[6] = "index" /\ p[7] = "release"
    BY <1>1, CellProgram
  <2>. HIDE DEF p
  <2>2. Shape(k, p)
    BY <1>1, <2>1 DEF Shape, Makes, Follows, Once, Main
  <2>. QED  BY <2>2 DEF p
<1>2. CASE k = "save"
  <2>1. /\ p \in Seq(Store!Steps) /\ Len(p) = 6
        /\ p[1] = "view" /\ p[2] = "begin" /\ p[3] = "notebook"
        /\ p[4] = "look" /\ p[5] = "index" /\ p[6] = "release"
    BY <1>2, SaveProgram
  <2>. HIDE DEF p
  <2>2. Shape(k, p)
    BY <1>2, <2>1 DEF Shape, Makes, Follows, Once, Main
  <2>. QED  BY <2>2 DEF p
<1>3. CASE k = "editor"
  <2>1. /\ p \in Seq(Store!Steps) /\ Len(p) = 9
        /\ p[1] = "begin" /\ p[2] = "read" /\ p[3] = "text" /\ p[4] = "notebook"
        /\ p[5] = "look" /\ p[6] = "index" /\ p[7] = "look" /\ p[8] = "index"
        /\ p[9] = "release"
    BY <1>3, EditorProgram
  <2>. HIDE DEF p
  <2>2. Shape(k, p)
    BY <1>3, <2>1 DEF Shape, Makes, Follows, Once, Main
  <2>. QED  BY <2>2 DEF p
<1>4. CASE k = "result"
  <2>1. /\ p \in Seq(Store!Steps) /\ Len(p) = 3
        /\ p[1] = "begin" /\ p[2] = "result" /\ p[3] = "release"
    BY <1>4, ResultProgram
  <2>. HIDE DEF p
  <2>2. Shape(k, p)
    BY <1>4, <2>1 DEF Shape, Makes, Follows, Once, Main
  <2>. QED  BY <2>2 DEF p
<1>. QED  BY <1>0, <1>1, <1>2, <1>3, <1>4

\* A task starts with its whole program.
LEMMA ProgramSuffix ==
  ASSUME NEW k \in Kinds
  PROVE  /\ Store!Program(k) \in Seq(Store!Steps)
         /\ Suffix(Store!Program(k), Store!Program(k))
         /\ Head(Store!Program(k)) \in {"view", "begin"}
<1>1. Shape(k, Store!Program(k))
  BY ProgramShape
<1>2. /\ Store!Program(k) \in Seq(Store!Steps) /\ Len(Store!Program(k)) > 1
      /\ Store!Program(k)[1] \in {"view", "begin"}
  BY <1>1 DEF Shape
<1>3. \A p \in Seq(Store!Steps) : Len(p) > 1 => Suffix(p, p) /\ Head(p) = p[1]
  BY DEF Suffix
<1>. QED  BY <1>2, <1>3

\* What is left of a program has the shape that its steps need.
LEMMA SuffixRest ==
  ASSUME NEW k \in Kinds, NEW s \in Seq(Store!Steps), Suffix(s, Store!Program(k))
  PROVE  /\ Rest(k, s)
         /\ Head(s) # "release" => Suffix(Tail(s), Store!Program(k))
         /\ Tail(s) \in Seq(Store!Steps)
<1>. DEFINE p == Store!Program(k)
            n == Len(p) - Len(s) + 1
<1>0. Shape(k, p) /\ p \in Seq(Store!Steps) /\ Suffix(s, p)
  BY ProgramShape DEF Shape
<1>. HIDE DEF p
<1>1. /\ Len(s) \in Nat /\ Len(p) \in Nat /\ Len(s) >= 1 /\ Len(s) <= Len(p)
      /\ n \in 1..Len(p) /\ (n = Len(p) <=> Len(s) = 1)
  <2>1. Len(s) \in Nat /\ Len(p) \in Nat
    BY <1>0
  <2>2. Len(s) >= 1 /\ Len(s) <= Len(p)
    BY <1>0, <2>1 DEF Suffix
  <2>3. \A x, y \in Nat : x >= 1 /\ x <= y =>
          y - x + 1 \in 1..y /\ (y - x + 1 = y <=> x = 1)
    OBVIOUS
  <2>4. n \in 1..Len(p) /\ (n = Len(p) <=> Len(s) = 1)
    BY <2>1, <2>2, <2>3
  <2>. QED  BY <2>1, <2>2, <2>4
<1>2. /\ Head(s) = p[n]
      /\ Len(s) > 1 => Suffix(Tail(s), p)
      /\ Tail(s) \in Seq(Store!Steps) /\ Len(Tail(s)) = Len(s) - 1
      /\ \A x : Has(s, x) <=> \E m \in n..Len(p) : p[m] = x
      /\ \A x : Has(s, x) <=> Head(s) = x \/ Has(Tail(s), x)
  BY <1>0, SuffixTail
<1>3. Head(s) # "release" <=> Len(s) > 1
  BY <1>0, <1>1, <1>2 DEF Shape
<1>4. Len(s) > 1 =>
        /\ Head(Tail(s)) = p[n + 1]
        /\ \A x : Has(Tail(s), x) <=> \E m \in (n + 1)..Len(p) : p[m] = x
  <2>. SUFFICES ASSUME Len(s) > 1
                PROVE  /\ Head(Tail(s)) = p[n + 1]
                       /\ \A x : Has(Tail(s), x) <=> \E m \in (n + 1)..Len(p) : p[m] = x
    OBVIOUS
  <2>1. Suffix(Tail(s), p) /\ Tail(s) \in Seq(Store!Steps)
    BY <1>2
  <2>2. Len(p) - Len(Tail(s)) + 1 = n + 1
    BY <1>1, <1>2
  <2>3. /\ Head(Tail(s)) = p[Len(p) - Len(Tail(s)) + 1]
        /\ \A x : Has(Tail(s), x) <=>
             \E m \in (Len(p) - Len(Tail(s)) + 1)..Len(p) : p[m] = x
    BY <1>0, <2>1, SuffixTail
  <2>. QED  BY <2>2, <2>3
<1>. HIDE DEF n
<1>5. Len(s) = 1 => \A x : ~Has(Tail(s), x)
  <2>1. Len(s) = 1 => Len(Tail(s)) = 0
    BY <1>2
  <2>2. 1..0 = {}
    OBVIOUS
  <2>. QED  BY <2>1, <2>2, Zenon DEF Has
<1>6. Rest(k, s)
  <2>1. Head(s) \in Store!Steps /\ Makes(k, Head(s))
    BY <1>0, <1>1, <1>2 DEF Shape
  <2>2. Head(s) # "release" => Follows(Head(s), Head(Tail(s)))
    BY <1>0, <1>1, <1>2, <1>3, <1>4 DEF Shape
  <2>3. Head(s) = "release" => \A x : Has(s, x) => x = "release"
    BY <1>2, <1>3, <1>5, <1>1
  <2>4. Head(s) \in {"text", "notebook", "look"} => Has(Tail(s), "index")
    BY <1>0, <1>1, <1>2, <1>3, <1>4 DEF Shape
  <2>7. Head(s) = "notebook" => ~Has(s, "read")
    BY <1>0, <1>1, <1>2 DEF Shape
  <2>5. Head(s) \in Once => ~Has(Tail(s), Head(s))
    <3>. SUFFICES ASSUME Head(s) \in Once, Has(Tail(s), Head(s)) PROVE FALSE
      OBVIOUS
    <3>1. PICK m \in (n + 1)..Len(p) : p[m] = p[n]
      BY <1>2, <1>3, <1>4 DEF Once
    <3>2. m \in 1..Len(p) /\ m # n
      BY <1>1
    <3>. QED  BY <1>0, <1>1, <1>2, <3>1, <3>2 DEF Shape
  <2>6. Head(s) = "begin" =>
          Has(Tail(s), Main(k)) /\ (k \in {"cell", "editor"} => Has(Tail(s), "read"))
    BY <1>0, <1>1, <1>2, <1>3, <1>4 DEF Shape
  <2>. QED  BY <1>2, <2>1, <2>2, <2>3, <2>4, <2>5, <2>6, <2>7 DEF Rest
<1>. QED  BY <1>2, <1>3, <1>6 DEF p
(***************************************************************************)
(* The database and its snapshots.                                         *)
(***************************************************************************)
Snapshots == [image : Store!Databases, at : Nat]

\* No snapshot is not a snapshot.
LEMMA NoSnapshot == None \notin Snapshots
BY SnapshotsAssumption DEF Snapshots

\* What a connection sees is a database: the committed one, or its snapshot.
LEMMA VisibleType ==
  ASSUME Store!TypeOK, NEW c \in Conns
  PROVE  /\ Store!Visible(c) \in Store!Databases
         /\ snap[c] = None => Store!Visible(c) = db
         /\ snap[c] # None => snap[c] \in Snapshots /\ Store!Visible(c) = snap[c].image
BY DEF Store!TypeOK, Store!Visible, Snapshots

\* A read takes the snapshot, which is what was visible.
LEMMA ReadOnEffect ==
  ASSUME Store!TypeOK, NEW c \in Conns, Store!ReadOn(c)
  PROVE  /\ snap' \in [Conns -> Snapshots \cup {None}]
         /\ snap'[c] # None /\ snap'[c].image = Store!Visible(c)
         /\ snap[c] = None => snap'[c].at = ver
         /\ snap[c] # None => snap' = snap
         /\ \A e \in Conns : e # c => snap'[e] = snap[e]
<1>0. /\ snap \in [Conns -> Snapshots \cup {None}] /\ db \in Store!Databases /\ ver \in Nat
      /\ None \notin Snapshots
  BY NoSnapshot DEF Store!TypeOK, Snapshots
<1>1. CASE snap[c] # None
  BY <1>0, <1>1, VisibleType DEF Store!ReadOn
<1>2. CASE snap[c] = None
  <2>. DEFINE r == [image |-> db, at |-> ver]
  <2>1. r \in Snapshots /\ r.image = db /\ r.at = ver
    BY <1>0 DEF Snapshots
  <2>2. snap' = [snap EXCEPT ![c] = r]
    BY <1>2 DEF Store!ReadOn
  <2>. HIDE DEF r
  <2>. QED  BY <1>0, <1>2, <2>1, <2>2, VisibleType
<1>. QED  BY <1>1, <1>2

\* An accepted write changes what is visible, and nobody else may write.
LEMMA WriteOnEffect ==
  ASSUME Store!TypeOK, NEW c \in Conns, NEW d \in Store!Databases, Store!WriteOn(c, d)
  PROVE  /\ snap' \in [Conns -> Snapshots \cup {None}]
         /\ snap'[c] # None /\ snap'[c].image = d /\ snap'[c].at = ver
         /\ \A e \in Conns : e # c => snap'[e] = snap[e]
         /\ wlock' = c /\ wlock \in {None, c} /\ ~Store!Stale(c)
         /\ UNCHANGED <<db, ver>>
<1>0. /\ snap \in [Conns -> Snapshots \cup {None}] /\ ver \in Nat /\ None \notin Snapshots
  BY NoSnapshot DEF Store!TypeOK, Snapshots
<1>. DEFINE r == [image |-> d, at |-> ver]
<1>1. r \in Snapshots /\ r.image = d /\ r.at = ver
  BY <1>0 DEF Snapshots
<1>2. snap' = [snap EXCEPT ![c] = r]
  BY DEF Store!WriteOn
<1>. HIDE DEF r
<1>3. wlock' = c /\ wlock \in {None, c} /\ ~Store!Stale(c) /\ UNCHANGED <<db, ver>>
  BY DEF Store!WriteOn, Store!CanWrite
<1>. QED  BY <1>0, <1>1, <1>2, <1>3

\* A release commits what is visible, if there is anything to commit.
LEMMA CommitOnEffect ==
  ASSUME Store!TypeOK, NEW c \in Conns, Store!CommitOn(c)
  PROVE  /\ snap' \in [Conns -> Snapshots \cup {None}] /\ snap'[c] = None
         /\ \A e \in Conns : e # c => snap'[e] = snap[e]
         /\ wlock = c => db' = Store!Visible(c) /\ ver' = ver + 1 /\ wlock' = None
         /\ wlock # c => UNCHANGED <<db, ver, wlock>>
BY DEF Store!TypeOK, Store!CommitOn, Snapshots

\* What a write of task t makes of the database it sees.
LEMMA WrittenEffect ==
  ASSUME Store!TypeOK, NEW t \in Tasks, conn[t] \in Conns, Store!AtWrite(t),
         Makes(kind[t], Head(todo[t]))
  PROVE  LET d == Store!Visible(conn[t])  w == Store!Written(t)
             step == Head(todo[t])  k == kind[t] IN
         /\ w \in Store!Databases
         /\ w.saved = IF step = "notebook" /\ k = "save" THEN t ELSE d.saved
         /\ w.text = IF step = "text" THEN t ELSE d.text
         /\ w.index = IF step = "index" THEN <<d.saved, d.text>> ELSE d.index
         /\ w.results = IF step = "result" THEN d.results \cup {t} ELSE d.results
         /\ w.cells = IF step # "notebook" THEN d.cells
                      ELSE IF k = "cell" THEN [view[t] EXCEPT ![cell[t]] = t]
                      ELSE IF k = "save" THEN [view[t] EXCEPT ![cell[t]] = Gone]
                      ELSE view[t]
<1>. DEFINE d == Store!Visible(conn[t])  step == Head(todo[t])  k == kind[t]
<1>0. /\ d \in Store!Databases /\ k \in Kinds /\ cell[t] \in Cells
      /\ view[t] \in [Cells -> Store!Writers \cup {Gone}] /\ t \in Store!Writers
      /\ step \in {"text", "notebook", "index", "result"}
  BY VisibleType DEF Store!TypeOK, Store!Writers, Store!AtWrite, Store!At
<1>1. /\ d.saved \in Store!Writers /\ d.cells \in [Cells -> Store!Writers \cup {Gone}]
      /\ d.text \in Store!Writers /\ d.index \in Store!Writers \X Store!Writers
      /\ d.results \in SUBSET Tasks
  BY <1>0 DEF Store!Databases
<1>2. k \in {"cell", "save", "editor", "result"} /\ (step = "notebook" => k # "result")
  BY <1>0, KindsAssumption DEF Makes
<1>. HIDE DEF d
<1>3. CASE step = "text"
  <2>1. Store!Written(t) = [d EXCEPT !.text = t]
    BY <1>3 DEF Store!Written, d
  <2>. QED  BY <1>0, <1>1, <1>3, <2>1 DEF Store!Databases, d
<1>4. CASE step = "index"
  <2>1. Store!Written(t) = [d EXCEPT !.index = <<d.saved, d.text>>]
    BY <1>4 DEF Store!Written, d
  <2>. QED  BY <1>0, <1>1, <1>4, <2>1 DEF Store!Databases, d
<1>5. CASE step = "result"
  <2>1. Store!Written(t) = [d EXCEPT !.results = d.results \cup {t}]
    BY <1>5 DEF Store!Written, d
  <2>. QED  BY <1>0, <1>1, <1>5, <2>1 DEF Store!Databases, d
<1>6. CASE step = "notebook"
  <2>. DEFINE cells == IF k = "cell" THEN [view[t] EXCEPT ![cell[t]] = t]
                       ELSE IF k = "save" THEN [view[t] EXCEPT ![cell[t]] = Gone]
                       ELSE view[t]
  <2>1. cells \in [Cells -> Store!Writers \cup {Gone}]
    BY <1>0
  <2>2. /\ k \in {"cell", "editor"} => Store!Written(t) = [d EXCEPT !.cells = cells]
        /\ k = "save" => Store!Written(t) = [d EXCEPT !.saved = t, !.cells = cells]
    <3>1. ASSUME k = "cell" PROVE Store!Written(t) = [d EXCEPT !.cells = cells]
      BY <1>6, <3>1 DEF Store!Written, d
    <3>2. ASSUME k = "editor" PROVE Store!Written(t) = [d EXCEPT !.cells = cells]
      BY <1>6, <3>2 DEF Store!Written, d
    <3>3. ASSUME k = "save" PROVE Store!Written(t) = [d EXCEPT !.saved = t, !.cells = cells]
      <4>1. Store!Written(t) = [d EXCEPT !.saved = t, !.cells = [view[t] EXCEPT ![cell[t]] = Gone]]
        BY <1>6, <3>3, Zenon DEF Store!Written, d
      <4>. QED  BY <3>3, <4>1, Zenon
    <3>. QED  BY <3>1, <3>2, <3>3
  <2>. HIDE DEF cells
  <2>3. CASE k \in {"cell", "editor"}
    <3>1. Store!Written(t) = [d EXCEPT !.cells = cells]
      BY <2>2, <2>3
    <3>2. /\ Store!Written(t) \in Store!Databases /\ Store!Written(t).cells = cells
          /\ Store!Written(t).saved = d.saved /\ Store!Written(t).text = d.text
          /\ Store!Written(t).index = d.index /\ Store!Written(t).results = d.results
      BY <1>0, <1>1, <2>1, <3>1 DEF Store!Databases
    <3>. QED  BY <1>6, <2>3, <3>2 DEF d, cells
  <2>4. CASE k = "save"
    <3>1. Store!Written(t) = [d EXCEPT !.saved = t, !.cells = cells]
      BY <2>2, <2>4
    <3>2. [d EXCEPT !.saved = t, !.cells = cells]
            \in [saved : {t}, cells : {cells}, text : {d.text}, index : {d.index},
                 results : {d.results}]
      BY <1>0 DEF Store!Databases
    <3>3. /\ Store!Written(t) \in Store!Databases /\ Store!Written(t).cells = cells
          /\ Store!Written(t).saved = t /\ Store!Written(t).text = d.text
          /\ Store!Written(t).index = d.index /\ Store!Written(t).results = d.results
      BY <1>0, <1>1, <2>1, <3>1, <3>2 DEF Store!Databases
    <3>. QED  BY <1>6, <2>4, <3>3 DEF d, cells
  <2>. QED  BY <1>2, <1>6, <2>3, <2>4
<1>. QED  BY <1>0, <1>3, <1>4, <1>5, <1>6
(***************************************************************************)
(* What every step keeps.                                                  *)
(***************************************************************************)
\* What is known of a task that is not over.
LEMMA TaskFacts ==
  ASSUME NotebookInv, NEW t \in Tasks, reply[t] = "none"
  PROVE  /\ kind[t] \in Kinds /\ todo[t] \in Seq(Store!Steps)
         /\ Suffix(todo[t], Store!Program(kind[t])) /\ Rest(kind[t], todo[t])
         /\ conn[t] = None <=> Head(todo[t]) \in {"view", "begin"}
         /\ conn[t] # None =>
              conn[t] \in Conns /\ conn[t] \notin free
              /\ \A u \in Tasks : u # t => conn[u] # conn[t]
<1>1. kind[t] \in Kinds /\ todo[t] \in Seq(Store!Steps)
  BY DEF NotebookInv, Store!TypeOK
<1>2. Suffix(todo[t], Store!Program(kind[t]))
  BY DEF NotebookInv, ConnInv
<1>3. Rest(kind[t], todo[t])
  BY <1>1, <1>2, SuffixRest
<1>4. conn[t] = None <=> Head(todo[t]) \in {"view", "begin"}
  BY DEF NotebookInv, ConnInv
<1>5. conn[t] # None =>
        conn[t] \in Conns /\ conn[t] \notin free
        /\ \A u \in Tasks : u # t => conn[u] # conn[t]
  BY DEF NotebookInv, ConnInv, Store!TypeOK
<1>. QED  BY <1>1, <1>2, <1>3, <1>4, <1>5

\* A step leaves the end of the program to be done.
LEMMA AdvanceEffect ==
  ASSUME NotebookInv, NEW t \in Tasks, reply[t] = "none", Head(todo[t]) # "release",
         Store!Advance(t)
  PROVE  /\ todo' \in [Tasks -> Seq(Store!Steps)] /\ todo'[t] = Tail(todo[t])
         /\ \A u \in Tasks : u # t => todo'[u] = todo[u]
         /\ \A u \in Tasks : Suffix(todo'[u], Store!Program(kind[u]))
         /\ Follows(Head(todo[t]), Head(todo'[t]))
<1>1. /\ Rest(kind[t], todo[t]) /\ kind[t] \in Kinds /\ todo[t] \in Seq(Store!Steps)
      /\ Suffix(todo[t], Store!Program(kind[t]))
  BY TaskFacts
<1>2. Tail(todo[t]) \in Seq(Store!Steps) /\ Suffix(Tail(todo[t]), Store!Program(kind[t]))
  BY <1>1, SuffixRest
<1>3. /\ todo' \in [Tasks -> Seq(Store!Steps)] /\ todo'[t] = Tail(todo[t])
      /\ \A u \in Tasks : u # t => todo'[u] = todo[u]
  BY <1>2 DEF Store!Advance, NotebookInv, Store!TypeOK
<1>4. \A u \in Tasks : Suffix(todo'[u], Store!Program(kind[u]))
  BY <1>2, <1>3 DEF NotebookInv, ConnInv
<1>5. Follows(Head(todo[t]), Head(todo'[t]))
  BY <1>1, <1>3 DEF Rest
<1>. QED  BY <1>3, <1>4, <1>5

\* A task whose connection another task does not use.
LEMMA OthersKept ==
  ASSUME NotebookInv, NEW u \in Tasks,
         conn'[u] = conn[u], todo'[u] = todo[u], view'[u] = view[u], u \in busy' <=> u \in busy,
         UNCHANGED <<kind, cell>>,
         conn[u] # None =>
           /\ snap'[conn[u]] = snap[conn[u]] /\ open'[conn[u]] = open[conn[u]]
           /\ wlock' = conn[u] <=> wlock = conn[u]
           /\ wlock = conn[u] => db' = db
  PROVE  TaskInv(u)'
<1>. SUFFICES ASSUME conn[u] # None, ~open[conn[u]] PROVE TaskInv(u)'
  BY DEF TaskInv
<1>1. TaskInv(u)
  BY DEF NotebookInv
<1>2. wlock = conn[u] /\ Own(u, snap[conn[u]].image) => Own(u, snap[conn[u]].image)'
  BY DEF Own
<1>3. wlock = conn[u] /\ Store!Kept(u) => Store!Kept(u)'
  BY DEF Store!Kept, Store!Visible
<1>. QED  BY <1>1, <1>2, <1>3 DEF TaskInv, Fresh

\* The marks in what a connection sees.
LEMMA VisibleMarks ==
  ASSUME NotebookInv, NEW c \in Conns, NEW v \in Tasks, Marked(v, Store!Visible(c))
  PROVE  Done(v) \/ Stuck \/ Holds(v, c)
BY DEF NotebookInv, MarkInv, Store!Visible

\* Marks stay where they may be, if new ones are.
LEMMA MarksKept ==
  ASSUME NotebookInv,
         \A v \in Tasks : Done(v) => Done(v)',
         Stuck => Stuck',
         \A v \in Tasks, c \in Conns : Holds(v, c) => (Done(v) \/ Stuck \/ Holds(v, c))',
         db' # db => \A v \in Tasks : Marked(v, db') => Done(v)',
         \A c \in Conns : snap'[c] # snap[c] /\ snap'[c] # None =>
           \A v \in Tasks : Marked(v, snap'[c].image) => (Done(v) \/ Stuck \/ Holds(v, c))',
         \A u \in Tasks : reply'[u] = "none" => reply[u] = "none",
         \A u \in Tasks : view'[u] # view[u] /\ reply'[u] = "none" =>
           \A v \in Tasks : InCells(v, view'[u]) =>
             (Done(v) \/ Stuck \/ (u = v /\ \E c \in Conns : Holds(v, c)))'
  PROVE  MarkInv'
<1>. SUFFICES ASSUME NEW v \in Tasks
              PROVE  /\ Marked(v, db') => Done(v)'
                     /\ \A c \in Conns : snap'[c] # None /\ Marked(v, snap'[c].image) =>
                          (Done(v) \/ Stuck \/ Holds(v, c))'
                     /\ \A u \in Tasks : reply'[u] = "none" /\ InCells(v, view'[u]) =>
                          (Done(v) \/ Stuck \/ (u = v /\ \E c \in Conns : Holds(v, c)))'
  BY DEF MarkInv, Marked, InCells
<1>1. Marked(v, db') => Done(v)'
  BY DEF NotebookInv, MarkInv
<1>2. \A c \in Conns : snap'[c] # None /\ Marked(v, snap'[c].image) =>
        (Done(v) \/ Stuck \/ Holds(v, c))'
  BY DEF NotebookInv, MarkInv
<1>3. \A u \in Tasks : reply'[u] = "none" /\ InCells(v, view'[u]) =>
        (Done(v) \/ Stuck \/ (u = v /\ \E c \in Conns : Holds(v, c)))'
  BY DEF NotebookInv, MarkInv
<1>. QED  BY <1>1, <1>2, <1>3

\* The connection goes back.
LEMMA PutBackEffect ==
  ASSUME NotebookInv, NEW t \in Tasks, conn[t] # None, Store!PutBack(t)
  PROVE  /\ conn' \in [Tasks -> Conns \cup {None}] /\ conn'[t] = None
         /\ \A u \in Tasks : u # t => conn'[u] = conn[u] /\ conn[u] # conn[t]
         /\ free' = Conns \ {conn'[u] : u \in Tasks}
         /\ free' = free \cup {conn[t]}
<1>1. /\ conn \in [Tasks -> Conns \cup {None}] /\ None \notin Conns /\ conn[t] \in Conns
      /\ free = Conns \ {conn[u] : u \in Tasks}
  BY ConnsAssumption DEF NotebookInv, Store!TypeOK
<1>2. /\ conn' \in [Tasks -> Conns \cup {None}] /\ conn'[t] = None
      /\ \A u \in Tasks : u # t => conn'[u] = conn[u] /\ conn[u] # conn[t]
  BY <1>1 DEF Store!PutBack, NotebookInv, ConnInv
<1>3. \A e : e \in free' <=> e \in Conns \ {conn'[u] : u \in Tasks}
  BY <1>1, <1>2 DEF Store!PutBack
<1>. QED  BY <1>2, <1>3 DEF Store!PutBack
(***************************************************************************)
(* The steps of a task.                                                    *)
(***************************************************************************)
\* A read outside of a transaction, on any connection.
LEMMA ViewStep ==
  ASSUME NotebookInv, NEW t \in Tasks, Store!View(t)
  PROVE  NotebookInv'
<1>1. PICK c \in free :
         /\ view' = [view EXCEPT ![t] = Store!Visible(c).cells]
         /\ IF open[c] THEN Store!ReadOn(c) ELSE UNCHANGED snap
         /\ IF kind[t] = "cell" /\ Store!Visible(c).cells[cell[t]] = Gone
            THEN Store!Answer(t, "error") /\ UNCHANGED todo
            ELSE Store!Advance(t) /\ UNCHANGED reply
         /\ onOpen' = IF open[c] THEN onOpen \cup {t} ELSE onOpen
  BY DEF Store!View
<1>2. /\ UNCHANGED <<db, ver, wlock, open, free, conn, retries, busy, kind, cell, stored, cut>>
      /\ reply[t] = "none" /\ Head(todo[t]) = "view"
  BY DEF Store!View, Store!Keeps, Store!At
<1>3. /\ c \in Conns /\ conn[t] = None /\ \A u \in Tasks : conn[u] # c
      /\ Store!TypeOK /\ ver \in Nat
  BY <1>2, TaskFacts DEF NotebookInv, Store!TypeOK
<1>4. /\ Store!Visible(c) \in Store!Databases
      /\ Store!Visible(c).cells \in [Cells -> Store!Writers \cup {Gone}]
  BY <1>3, VisibleType DEF Store!Databases
<1>5. /\ view' \in [Tasks -> [Cells -> Store!Writers \cup {Gone}]]
      /\ view'[t] = Store!Visible(c).cells
      /\ \A u \in Tasks : u # t => view'[u] = view[u]
  BY <1>1, <1>4 DEF NotebookInv, Store!TypeOK
<1>6. /\ snap' \in [Conns -> Snapshots \cup {None}]
      /\ \A e \in Conns : e # c => snap'[e] = snap[e]
      /\ ~open[c] => snap' = snap
      /\ snap'[c] # snap[c] => snap[c] = None /\ snap'[c] # None /\ snap'[c].at = ver
                               /\ snap'[c].image = Store!Visible(c)
  <2>1. CASE open[c]
    BY <1>1, <1>3, <2>1, ReadOnEffect
  <2>2. CASE ~open[c]
    BY <1>1, <1>3, <2>2 DEF Store!TypeOK, Snapshots
  <2>. QED  BY <2>1, <2>2
<1>7. /\ todo' \in [Tasks -> Seq(Store!Steps)] /\ \A u \in Tasks : u # t => todo'[u] = todo[u]
      /\ \A u \in Tasks : Suffix(todo'[u], Store!Program(kind[u]))
      /\ reply' \in [Tasks -> {"none", "ok", "error"}]
      /\ \A u \in Tasks : u # t => reply'[u] = reply[u]
      /\ reply'[t] # "ok" /\ (reply'[t] = "none" => Head(todo'[t]) = "begin")
  <2>1. CASE Store!Answer(t, "error") /\ UNCHANGED todo
    BY <2>1 DEF Store!Answer, NotebookInv, Store!TypeOK, ConnInv
  <2>2. CASE Store!Advance(t) /\ UNCHANGED reply
    BY <1>2, <2>2, AdvanceEffect DEF Follows, NotebookInv, Store!TypeOK
  <2>. QED  BY <1>1, <2>1, <2>2
<1>8. Store!TypeOK'
  <2>1. onOpen' \subseteq Tasks
    BY <1>1 DEF NotebookInv, Store!TypeOK
  <2>2. snap' \in [Conns -> [image : Store!Databases, at : Nat] \cup {None}]
    BY <1>6 DEF Snapshots
  <2>3. (free = Conns \ {conn[u] : u \in Tasks})'
    BY <1>2 DEF NotebookInv, Store!TypeOK
  <2>4. /\ (db \in Store!Databases /\ ver \in Nat /\ wlock \in Conns \cup {None})'
        /\ (open \in [Conns -> BOOLEAN] /\ kind \in [Tasks -> Kinds])'
        /\ (cell \in [Tasks -> Cells] /\ conn \in [Tasks -> Conns \cup {None}])'
        /\ (retries \in [Tasks -> 0..MaxRetry] /\ stored \subseteq Tasks /\ busy \subseteq Tasks)'
        /\ (cut \subseteq Tasks)'
    BY <1>2 DEF NotebookInv, Store!TypeOK
  <2>. QED  BY <1>5, <1>7, <2>1, <2>2, <2>3, <2>4 DEF Store!TypeOK
<1>9. ConnInv'
  BY <1>1, <1>2, <1>3, <1>7 DEF NotebookInv, ConnInv
<1>10. SnapInv'
  BY <1>2, <1>3, <1>6 DEF NotebookInv, SnapInv
<1>11. ASSUME NEW u \in Tasks PROVE TaskInv(u)'
  <2>1. CASE u = t
    BY <1>2, <1>3, <2>1 DEF TaskInv
  <2>2. CASE u # t
    <3>1. conn[u] # None => conn[u] \in Conns /\ conn[u] # c
      BY <1>3 DEF Store!TypeOK
    <3>. QED  BY <1>2, <1>5, <1>6, <1>7, <2>2, <3>1, OthersKept
  <2>. QED  BY <2>1, <2>2
<1>12. MarkInv'
  <2>1. /\ \A v \in Tasks : Done(v) => Done(v)'
        /\ Stuck => Stuck'
        /\ \A v \in Tasks, e \in Conns : Holds(v, e) => Holds(v, e)'
        /\ \A v \in Tasks : ~Holds(v, c)
    BY <1>2, <1>3, <1>7, ConnsAssumption DEF Done, Stuck, Holds
  <2>2. \A v \in Tasks : Marked(v, Store!Visible(c)) => Done(v) \/ Stuck
    BY <1>3, <2>1, VisibleMarks
  <2>3. \A v \in Tasks : InCells(v, view'[t]) => Done(v) \/ Stuck
    BY <1>5, <2>2 DEF Marked
  <2>4. \A u \in Tasks : reply'[u] = "none" => reply[u] = "none"
    BY <1>2, <1>7
  <2>. QED  BY <1>2, <1>5, <1>6, <2>1, <2>2, <2>3, <2>4, MarksKept
<1>13. Fresh(db)' /\ Store!OkIsStoredOrExcused'
  BY <1>1, <1>2, <1>7 DEF NotebookInv, Fresh, Store!OkIsStoredOrExcused
<1>. QED  BY <1>8, <1>9, <1>10, <1>11, <1>12, <1>13 DEF NotebookInv

\* A connection that is not left open has no snapshot when it is taken.
LEMMA BeginStep ==
  ASSUME NotebookInv, NEW t \in Tasks, Store!Begin(t)
  PROVE  NotebookInv'
<1>1. PICK c \in free :
         /\ conn' = [conn EXCEPT ![t] = c] /\ free' = free \ {c}
         /\ onOpen' = IF open[c] THEN onOpen \cup {t} ELSE onOpen
  BY DEF Store!Begin
<1>2. /\ UNCHANGED <<db, ver, wlock, snap, open, view, retries, reply, busy, kind, cell, stored, cut>>
      /\ reply[t] = "none" /\ Head(todo[t]) = "begin" /\ Store!Advance(t)
  BY DEF Store!Begin, Store!Keeps, Store!At, Store!sqliteVars
<1>3. /\ c \in Conns /\ conn[t] = None /\ \A u \in Tasks : conn[u] # c
      /\ c # None /\ Rest(kind[t], todo[t])
  BY <1>2, TaskFacts, ConnsAssumption DEF NotebookInv, Store!TypeOK
<1>4. /\ conn' \in [Tasks -> Conns \cup {None}] /\ conn'[t] = c
      /\ \A u \in Tasks : u # t => conn'[u] = conn[u]
  BY <1>1, <1>3 DEF NotebookInv, Store!TypeOK
<1>5. /\ todo' \in [Tasks -> Seq(Store!Steps)] /\ todo'[t] = Tail(todo[t])
      /\ \A u \in Tasks : u # t => todo'[u] = todo[u]
      /\ \A u \in Tasks : Suffix(todo'[u], Store!Program(kind[u]))
      /\ Head(todo'[t]) \notin {"view", "begin"}
  BY <1>2, AdvanceEffect DEF Follows
<1>6. free' = Conns \ {conn'[u] : u \in Tasks}
  <2>1. free = Conns \ {conn[u] : u \in Tasks}
    BY DEF NotebookInv, Store!TypeOK
  <2>2. \A e : e \in free' <=> e \in Conns \ {conn'[u] : u \in Tasks}
    BY <1>1, <1>3, <1>4, <2>1, ConnsAssumption
  <2>. QED  BY <2>2
<1>7. Store!TypeOK'
  BY <1>1, <1>2, <1>4, <1>5, <1>6 DEF NotebookInv, Store!TypeOK
<1>8. ConnInv'
  BY <1>1, <1>2, <1>3, <1>4, <1>5 DEF NotebookInv, ConnInv
<1>9. SnapInv'
  BY <1>1, <1>2 DEF NotebookInv, SnapInv
<1>10. ASSUME NEW u \in Tasks PROVE TaskInv(u)'
  <2>1. CASE u = t
    <3>. SUFFICES ASSUME ~open[c] PROVE TaskInv(t)'
      BY <1>2, <1>4, <2>1 DEF TaskInv
    <3>1. snap[c] = None /\ wlock # c
      BY <1>3 DEF NotebookInv, SnapInv
    <3>2. /\ Has(todo'[t], Main(kind[t]))
          /\ kind[t] \in {"cell", "editor"} => Has(todo'[t], "read")
      BY <1>2, <1>3, <1>5 DEF Rest
    <3>. QED  BY <1>2, <1>4, <3>1, <3>2 DEF TaskInv
  <2>2. CASE u # t
    BY <1>2, <1>4, <1>5, <2>2, OthersKept
  <2>. QED  BY <2>1, <2>2
<1>11. MarkInv'
  <2>1. /\ \A v \in Tasks : Done(v) => Done(v)'
        /\ Stuck => Stuck'
        /\ \A v \in Tasks, e \in Conns : Holds(v, e) => Holds(v, e)'
    BY <1>2, <1>3, <1>4, ConnsAssumption DEF Done, Stuck, Holds
  <2>. QED  BY <1>2, <2>1, MarksKept
<1>12. Fresh(db)' /\ Store!OkIsStoredOrExcused'
  BY <1>1, <1>2 DEF NotebookInv, Fresh, Store!OkIsStoredOrExcused
<1>. QED  BY <1>7, <1>8, <1>9, <1>10, <1>11, <1>12 DEF NotebookInv

\* The reads of a transaction.
LEMMA ReadStep ==
  ASSUME NotebookInv, NEW t \in Tasks, Store!Read(t) \/ Store!Look(t)
  PROVE  NotebookInv'
<1>. DEFINE c == conn[t]
<1>1. /\ UNCHANGED <<db, ver, wlock, open, free, conn, retries, reply, busy, onOpen,
                     kind, cell, stored, cut>>
      /\ reply[t] = "none" /\ Head(todo[t]) \in {"read", "look"}
      /\ Store!Advance(t) /\ Store!ReadOn(c)
      /\ Head(todo[t]) = "read" => view' = [view EXCEPT ![t] = Store!Visible(c).cells]
      /\ Head(todo[t]) = "look" => view' = view
  BY DEF Store!Read, Store!Look, Store!Keeps, Store!At
<1>2. /\ c \in Conns /\ c \notin free /\ \A u \in Tasks : u # t => conn[u] # c
      /\ Rest(kind[t], todo[t]) /\ Store!TypeOK /\ ver \in Nat /\ c # None
  BY <1>1, TaskFacts DEF NotebookInv, Store!TypeOK
<1>. HIDE DEF c
<1>3. /\ Store!Visible(c) \in Store!Databases
      /\ Store!Visible(c).cells \in [Cells -> Store!Writers \cup {Gone}]
  BY <1>2, VisibleType DEF Store!Databases
<1>4. /\ view' \in [Tasks -> [Cells -> Store!Writers \cup {Gone}]]
      /\ Head(todo[t]) = "read" => view'[t] = Store!Visible(c).cells
      /\ \A u \in Tasks : u # t => view'[u] = view[u]
  BY <1>1, <1>3 DEF NotebookInv, Store!TypeOK
<1>5. /\ snap' \in [Conns -> Snapshots \cup {None}]
      /\ snap'[c] # None /\ snap'[c].image = Store!Visible(c)
      /\ snap[c] = None => snap'[c].at = ver /\ Store!Visible(c) = db
      /\ snap[c] # None => snap' = snap
      /\ \A e \in Conns : e # c => snap'[e] = snap[e]
  BY <1>1, <1>2, ReadOnEffect, VisibleType
<1>6. /\ todo' \in [Tasks -> Seq(Store!Steps)] /\ todo'[t] = Tail(todo[t])
      /\ \A u \in Tasks : u # t => todo'[u] = todo[u]
      /\ \A u \in Tasks : Suffix(todo'[u], Store!Program(kind[u]))
      /\ Follows(Head(todo[t]), Head(todo'[t]))
  BY <1>1, AdvanceEffect
<1>7. Store!TypeOK'
  BY <1>1, <1>4, <1>5, <1>6 DEF NotebookInv, Store!TypeOK, Snapshots
<1>8. ConnInv'
  BY <1>1, <1>6 DEF NotebookInv, ConnInv, Follows
<1>9. SnapInv'
  BY <1>1, <1>2, <1>5 DEF NotebookInv, SnapInv
<1>10. TaskInv(t)'
  <2>. SUFFICES ASSUME ~open[c] PROVE TaskInv(t)'
    BY <1>1 DEF TaskInv, c
  <2>0. /\ snap[c] # None =>
             Fresh(snap[c].image) \/ (wlock = c /\ Has(todo[t], "index"))
        /\ wlock = c => snap[c] # None /\ Own(t, snap[c].image)
        /\ kind[t] \in {"cell", "editor"} /\ Has(todo[t], "notebook") /\ ~Has(todo[t], "read") =>
             snap[c] # None /\ view[t] = snap[c].image.cells
        /\ t \notin busy /\ ~Has(todo[t], Main(kind[t])) => wlock = c /\ Store!Kept(t)
        /\ Fresh(db)
    BY <1>2 DEF NotebookInv, TaskInv, SnapInv, c
  <2>1. \A x : x \notin {"read", "look"} => (Has(todo[t], x) <=> Has(todo'[t], x))
    BY <1>1, <1>2, <1>6 DEF Rest
  <2>2. Fresh(snap'[c].image) \/ (wlock = c /\ Has(todo'[t], "index"))
    BY <1>5, <2>0, <2>1
  <2>3. wlock = c => Own(t, snap[conn[t]].image)'
    BY <1>1, <1>5, <2>0 DEF Own, c
  <2>4. kind[t] \in {"cell", "editor"} /\ Has(todo'[t], "notebook") /\ ~Has(todo'[t], "read") =>
          snap'[c] # None /\ view'[t] = snap'[c].image.cells
    <3>1. CASE Head(todo[t]) = "read"
      BY <1>4, <1>5, <3>1
    <3>2. CASE Head(todo[t]) = "look"
      <4>1. Has(todo'[t], "read") <=> Has(todo[t], "read")
        BY <1>2, <1>6, <3>2 DEF Rest
      <4>. QED  BY <1>1, <1>5, <2>0, <2>1, <3>2, <4>1
    <3>. QED  BY <1>1, <3>1, <3>2
  <2>5. t \notin busy /\ ~Has(todo'[t], Main(kind[t])) => wlock = c /\ Store!Kept(t)'
    <3>1. Main(kind[t]) \notin {"read", "look"}
      BY DEF Main
    <3>2. wlock = c /\ Store!Kept(t) => Store!Kept(t)'
      BY <1>1, <1>5, <2>0 DEF Store!Kept, Store!Visible, c
    <3>. QED  BY <2>0, <2>1, <3>1, <3>2
  <2>. QED  BY <1>1, <2>2, <2>3, <2>4, <2>5 DEF TaskInv, Fresh, c
<1>11. ASSUME NEW u \in Tasks, u # t PROVE TaskInv(u)'
  <2>1. conn[u] # None => conn[u] \in Conns /\ conn[u] # c
    BY <1>2, <1>11 DEF Store!TypeOK
  <2>. QED  BY <1>1, <1>4, <1>5, <1>6, <1>11, <2>1, OthersKept
<1>12. MarkInv'
  <2>1. /\ \A v \in Tasks : Done(v) => Done(v)'
        /\ Stuck => Stuck'
        /\ \A v \in Tasks, e \in Conns : Holds(v, e) => Holds(v, e)'
    BY <1>1 DEF Done, Stuck, Holds
  <2>2. \A v \in Tasks : Marked(v, Store!Visible(c)) => Done(v) \/ Stuck \/ Holds(v, c)
    BY <1>2, VisibleMarks
  <2>3. \A v \in Tasks : Holds(v, c) => v = t
    BY <1>2 DEF Holds
  <2>4. \A v \in Tasks : view'[t] # view[t] /\ InCells(v, view'[t]) =>
          Done(v) \/ Stuck \/ (t = v /\ Holds(v, c))
    BY <1>1, <1>4, <2>2, <2>3 DEF Marked
  <2>5. \A u \in Tasks : u # t => view'[u] = view[u]
    BY <1>4
  <2>. QED  BY <1>1, <1>2, <1>4, <1>5, <2>1, <2>2, <2>4, <2>5, MarksKept
<1>13. Fresh(db)' /\ Store!OkIsStoredOrExcused'
  BY <1>1 DEF NotebookInv, Fresh, Store!OkIsStoredOrExcused
<1>. QED  BY <1>7, <1>8, <1>9, <1>10, <1>11, <1>12, <1>13 DEF NotebookInv

\* A connection that goes back with a transaction: whoever has the lock on it
\* keeps it.
LEMMA LeavesOpenStep ==
  ASSUME NotebookInv, NEW t \in Tasks, reply[t] = "none", conn[t] # None,
         Store!LeavesOpen(t),
         snap' \in [Conns -> Snapshots \cup {None}],
         \A e \in Conns : e # conn[t] => snap'[e] = snap[e],
         snap[conn[t]] # None => snap'[conn[t]] # None,
         snap'[conn[t]] # None => snap'[conn[t]].at <= ver,
         snap'[conn[t]] # None => \A v \in Tasks : Marked(v, snap'[conn[t]].image) =>
           Done(v) \/ Stuck \/ Holds(v, conn[t])
  PROVE  NotebookInv'
<1>. DEFINE c == conn[t]
<1>1. /\ UNCHANGED <<db, ver, wlock, todo, view, retries, busy, onOpen, kind, cell, stored, cut>>
      /\ Store!PutBack(t)
      /\ open' = [open EXCEPT ![c] = TRUE] /\ reply' = [reply EXCEPT ![t] = "error"]
  BY DEF Store!LeavesOpen, Store!Keeps, Store!Answer
<1>2. c \in Conns /\ Store!TypeOK /\ ver \in Nat /\ c # None
  BY <1>1, TaskFacts DEF NotebookInv, Store!TypeOK
<1>3. /\ conn' \in [Tasks -> Conns \cup {None}] /\ conn'[t] = None
      /\ \A u \in Tasks : u # t => conn'[u] = conn[u] /\ conn[u] # c
      /\ free' = Conns \ {conn'[u] : u \in Tasks}
      /\ free' = free \cup {c}
  BY <1>1, <1>2, PutBackEffect
<1>4. /\ open' \in [Conns -> BOOLEAN] /\ open'[c] = TRUE
      /\ \A e \in Conns : e # c => open'[e] = open[e]
  BY <1>1, <1>2 DEF Store!TypeOK
<1>5. /\ \A e \in Conns : e # c => snap'[e] = snap[e]
      /\ snap[c] # None => snap'[c] # None
      /\ snap'[c] # None => snap'[c].at <= ver
      /\ snap'[c] # None => \A v \in Tasks : Marked(v, snap'[c].image) =>
           Done(v) \/ Stuck \/ Holds(v, c)
  OBVIOUS
<1>6. /\ reply' \in [Tasks -> {"none", "ok", "error"}] /\ reply'[t] = "error"
      /\ \A u \in Tasks : u # t => reply'[u] = reply[u]
  BY <1>1, <1>2 DEF Store!TypeOK
<1>. HIDE DEF c
<1>7. Store!TypeOK'
  <2>1. snap' \in [Conns -> [image : Store!Databases, at : Nat] \cup {None}]
    BY DEF Snapshots
  <2>2. /\ (db \in Store!Databases /\ ver \in Nat /\ wlock \in Conns \cup {None})'
        /\ (kind \in [Tasks -> Kinds] /\ cell \in [Tasks -> Cells])'
        /\ (todo \in [Tasks -> Seq(Store!Steps)])'
        /\ (view \in [Tasks -> [Cells -> Store!Writers \cup {Gone}]])'
        /\ (retries \in [Tasks -> 0..MaxRetry])'
        /\ (stored \subseteq Tasks /\ busy \subseteq Tasks /\ onOpen \subseteq Tasks)'
        /\ (cut \subseteq Tasks)'
    BY <1>1, <1>2 DEF Store!TypeOK
  <2>. QED  BY <1>3, <1>4, <1>6, <2>1, <2>2 DEF Store!TypeOK
<1>8. ConnInv'
  <2>1. \A u \in Tasks : conn'[u] # None =>
          u # t /\ conn'[u] = conn[u] /\ open'[conn[u]] = open[conn[u]]
    BY <1>3, <1>4 DEF Store!TypeOK
  <2>2. \A u \in Tasks : Suffix(todo'[u], Store!Program(kind'[u]))
    BY <1>1 DEF NotebookInv, ConnInv
  <2>3. \A u \in Tasks :
          conn'[u] = None <=> reply'[u] # "none" \/ Head(todo'[u]) \in {"view", "begin"}
    <3>1. conn'[t] = None /\ (reply'[t] # "none" \/ Head(todo'[t]) \in {"view", "begin"})
      BY <1>3, <1>6
    <3>. QED  BY <1>1, <1>3, <1>6, <3>1 DEF NotebookInv, ConnInv
  <2>4. \A u, v \in Tasks : conn'[u] = conn'[v] /\ conn'[u] # None => u = v
    BY <2>1 DEF NotebookInv, ConnInv
  <2>5. \A u \in Tasks \ onOpen' : conn'[u] # None => ~open'[conn'[u]]
    BY <1>1, <2>1 DEF NotebookInv, ConnInv
  <2>. QED  BY <2>2, <2>3, <2>4, <2>5 DEF ConnInv
<1>9. SnapInv'
  BY <1>1, <1>2, <1>3, <1>4, <1>5 DEF NotebookInv, SnapInv
<1>10. ASSUME NEW u \in Tasks PROVE TaskInv(u)'
  <2>1. CASE u = t
    BY <1>3, <2>1 DEF TaskInv
  <2>2. CASE u # t
    <3>1. conn[u] # None => conn[u] \in Conns /\ conn[u] # c
      BY <1>2, <1>3, <2>2 DEF Store!TypeOK
    <3>. QED  BY <1>1, <1>3, <1>4, <1>5, <2>2, <3>1, OthersKept
  <2>. QED  BY <2>1, <2>2
<1>11. MarkInv'
  <2>1. /\ \A v \in Tasks : Done(v) => Done(v)'
        /\ Stuck => Stuck'
        /\ \A v \in Tasks : v # t => \A e \in Conns : Holds(v, e) => Holds(v, e)'
    BY <1>1, <1>2, <1>3, <1>4, <1>6 DEF Done, Stuck, Holds, Store!TypeOK
  <2>2. \A e \in Conns : Holds(t, e) => Stuck'
    BY <1>1, <1>2, <1>4 DEF Holds, Stuck, c
  <2>3. \A u \in Tasks : reply'[u] = "none" => reply[u] = "none"
    BY <1>1, <1>6
  <2>. QED  BY <1>1, <1>2, <1>5, <2>1, <2>2, <2>3, MarksKept
<1>12. Fresh(db)' /\ Store!OkIsStoredOrExcused'
  BY <1>1, <1>6 DEF NotebookInv, Fresh, Store!OkIsStoredOrExcused
<1>. QED  BY <1>7, <1>8, <1>9, <1>10, <1>11, <1>12 DEF NotebookInv

\* The cell is gone: the connection is left open, with its snapshot.
LEMMA ReadFailsStep ==
  ASSUME NotebookInv, NEW t \in Tasks, Store!ReadFails(t)
  PROVE  NotebookInv'
<1>. DEFINE c == conn[t]
<1>1. /\ reply[t] = "none" /\ Head(todo[t]) = "read" /\ Store!ReadOn(c)
      /\ Store!LeavesOpen(t)
  BY DEF Store!ReadFails, Store!At
<1>2. c \in Conns /\ Store!TypeOK /\ ver \in Nat /\ c # None
  BY <1>1, TaskFacts DEF NotebookInv, Store!TypeOK
<1>. HIDE DEF c
<1>3. /\ snap' \in [Conns -> Snapshots \cup {None}]
      /\ snap'[c] # None /\ snap'[c].image = Store!Visible(c)
      /\ snap[c] = None => snap'[c].at = ver
      /\ snap[c] # None => snap' = snap
      /\ \A e \in Conns : e # c => snap'[e] = snap[e]
  BY <1>1, <1>2, ReadOnEffect
<1>4. snap'[c].at <= ver
  BY <1>2, <1>3 DEF NotebookInv, SnapInv
<1>5. \A v \in Tasks : Marked(v, snap'[c].image) => Done(v) \/ Stuck \/ Holds(v, c)
  BY <1>2, <1>3, VisibleMarks
<1>. QED  BY <1>1, <1>2, <1>3, <1>4, <1>5, LeavesOpenStep DEF c

\* A release that failed, with or without the writes undone.
LEMMA ReleaseFailsStep ==
  ASSUME NotebookInv, NEW t \in Tasks, Store!ReleaseFails(t) \/ Store!ReleaseUnwound(t)
  PROVE  NotebookInv'
<1>. DEFINE c == conn[t]
<1>1. reply[t] = "none" /\ Head(todo[t]) = "release" /\ Store!LeavesOpen(t)
  BY DEF Store!ReleaseFails, Store!ReleaseUnwound, Store!At
<1>2. /\ c \in Conns /\ Store!TypeOK /\ ver \in Nat /\ c # None
      /\ snap \in [Conns -> Snapshots \cup {None}]
      /\ view[t] \in [Cells -> Store!Writers \cup {Gone}]
  BY <1>1, TaskFacts DEF NotebookInv, Store!TypeOK, Snapshots
<1>3. /\ snap[c] # None => snap[c].at <= ver
      /\ \A v \in Tasks : snap[c] # None /\ Marked(v, snap[c].image) =>
           Done(v) \/ Stuck \/ Holds(v, c)
  BY <1>2 DEF NotebookInv, SnapInv, MarkInv
<1>4. CASE UNCHANGED snap
  BY <1>1, <1>2, <1>3, <1>4, LeavesOpenStep
<1>5. CASE snap' = [snap EXCEPT ![c].image.cells = view[t]] /\ snap[c] # None
  <2>. DEFINE d == [snap[c].image EXCEPT !.cells = view[t]]
              sn == [snap[c] EXCEPT !.image = d]
  <2>1. snap[c] \in Snapshots
    BY <1>2, <1>5
  <2>2. /\ d \in Store!Databases /\ d.cells = view[t] /\ d.saved = snap[c].image.saved
        /\ d.text = snap[c].image.text /\ d.results = snap[c].image.results
    BY <1>2, <2>1 DEF Snapshots, Store!Databases
  <2>3. snap' = [snap EXCEPT ![c] = sn]
    BY <1>5
  <2>. HIDE DEF d
  <2>4. sn \in Snapshots /\ sn.at = snap[c].at /\ sn.image = d
    BY <2>1, <2>2 DEF Snapshots
  <2>. HIDE DEF sn
  <2>5. /\ snap' \in [Conns -> Snapshots \cup {None}] /\ snap'[c] = sn
        /\ \A e \in Conns : e # c => snap'[e] = snap[e]
    BY <1>2, <2>3, <2>4
  <2>6. ASSUME NEW v \in Tasks, InCells(v, view[t])
        PROVE  Done(v) \/ Stuck \/ Holds(v, c)
    <3>1. Done(v) \/ Stuck \/ (v = t /\ \E e \in Conns : Holds(v, e))
      BY <1>1, <2>6 DEF NotebookInv, MarkInv
    <3>. QED  BY <3>1 DEF Holds, c
  <2>7. \A v \in Tasks : Marked(v, sn.image) => Done(v) \/ Stuck \/ Holds(v, c)
    BY <1>3, <1>5, <2>2, <2>4, <2>6 DEF Marked
  <2>8. sn # None
    BY <2>4, NoSnapshot
  <2>. QED  BY <1>1, <1>2, <1>3, <1>5, <2>4, <2>5, <2>7, <2>8, LeavesOpenStep
<1>6. \/ UNCHANGED snap
      \/ snap' = [snap EXCEPT ![c].image.cells = view[t]] /\ snap[c] # None
  BY DEF Store!ReleaseFails, Store!ReleaseUnwound
<1>. QED  BY <1>4, <1>5, <1>6

\* A result that was refused: the connection is left open, and the task begins
\* again or gives up.
LEMMA BusyRetriedStep ==
  ASSUME NotebookInv, NEW t \in Tasks, Store!BusyRetried(t)
  PROVE  NotebookInv'
<1>. DEFINE c == conn[t]
<1>1. /\ UNCHANGED <<db, ver, wlock, snap, view, onOpen, kind, cell, stored, cut>>
      /\ reply[t] = "none" /\ Head(todo[t]) = "result" /\ Store!PutBack(t)
      /\ open' = [open EXCEPT ![c] = TRUE] /\ busy' = busy \cup {t}
  BY DEF Store!BusyRetried, Store!Keeps, Store!At, Store!sqliteVars
<1>2. /\ c \in Conns /\ Store!TypeOK /\ ver \in Nat /\ c # None
      /\ kind[t] = "result" /\ kind[t] \in Kinds
  BY <1>1, TaskFacts DEF NotebookInv, Store!TypeOK, Rest, Makes
<1>3. /\ conn' \in [Tasks -> Conns \cup {None}] /\ conn'[t] = None
      /\ \A u \in Tasks : u # t => conn'[u] = conn[u] /\ conn[u] # c
      /\ free' = Conns \ {conn'[u] : u \in Tasks}
      /\ free' = free \cup {c}
  BY <1>1, <1>2, PutBackEffect
<1>4. /\ open' \in [Conns -> BOOLEAN] /\ open'[c] = TRUE
      /\ \A e \in Conns : e # c => open'[e] = open[e]
  BY <1>1, <1>2 DEF Store!TypeOK
<1>. HIDE DEF c
<1>5. /\ todo' \in [Tasks -> Seq(Store!Steps)] /\ \A u \in Tasks : u # t => todo'[u] = todo[u]
      /\ \A u \in Tasks : Suffix(todo'[u], Store!Program(kind[u]))
      /\ retries' \in [Tasks -> 0..MaxRetry]
      /\ reply' \in [Tasks -> {"none", "ok", "error"}]
      /\ \A u \in Tasks : u # t => reply'[u] = reply[u]
      /\ reply'[t] # "ok" /\ (reply'[t] = "none" => Head(todo'[t]) \in {"view", "begin"})
  <2>1. /\ todo \in [Tasks -> Seq(Store!Steps)]
        /\ \A u \in Tasks : Suffix(todo[u], Store!Program(kind[u]))
        /\ retries \in [Tasks -> 0..MaxRetry] /\ reply \in [Tasks -> {"none", "ok", "error"}]
    BY DEF NotebookInv, Store!TypeOK, ConnInv
  <2>2. CASE /\ retries[t] < MaxRetry
             /\ retries' = [retries EXCEPT ![t] = @ + 1]
             /\ todo' = [todo EXCEPT ![t] = Store!Program("result")]
             /\ UNCHANGED reply
    <3>1. /\ Store!Program(kind[t]) \in Seq(Store!Steps)
          /\ Suffix(Store!Program(kind[t]), Store!Program(kind[t]))
          /\ Head(Store!Program(kind[t])) \in {"view", "begin"}
      BY <1>2, ProgramSuffix
    <3>2. retries' \in [Tasks -> 0..MaxRetry]
      <4>1. retries[t] + 1 \in 0..MaxRetry
        BY <2>1, <2>2, RetryAssumption
      <4>. QED  BY <2>1, <2>2, <4>1
    <3>3. /\ todo' \in [Tasks -> Seq(Store!Steps)] /\ \A u \in Tasks : u # t => todo'[u] = todo[u]
          /\ todo'[t] = Store!Program(kind[t])
      BY <1>2, <2>1, <2>2, <3>1
    <3>. QED  BY <1>1, <2>1, <2>2, <3>1, <3>2, <3>3
  <2>3. CASE Store!Answer(t, "error") /\ UNCHANGED <<retries, todo>>
    BY <2>1, <2>3 DEF Store!Answer
  <2>. QED  BY <2>2, <2>3 DEF Store!BusyRetried
<1>6. Store!TypeOK'
  <2>1. /\ (db \in Store!Databases /\ ver \in Nat /\ wlock \in Conns \cup {None})'
        /\ (snap \in [Conns -> [image : Store!Databases, at : Nat] \cup {None}])'
        /\ (kind \in [Tasks -> Kinds] /\ cell \in [Tasks -> Cells])'
        /\ (view \in [Tasks -> [Cells -> Store!Writers \cup {Gone}]])'
        /\ (stored \subseteq Tasks /\ busy \subseteq Tasks /\ onOpen \subseteq Tasks)'
        /\ (cut \subseteq Tasks)'
    BY <1>1, <1>2 DEF Store!TypeOK
  <2>. QED  BY <1>3, <1>4, <1>5, <2>1 DEF Store!TypeOK
<1>7. ConnInv'
  <2>1. \A u \in Tasks : conn'[u] # None =>
          u # t /\ conn'[u] = conn[u] /\ open'[conn[u]] = open[conn[u]]
    BY <1>3, <1>4 DEF Store!TypeOK
  <2>2. \A u \in Tasks : Suffix(todo'[u], Store!Program(kind'[u]))
    BY <1>1, <1>5 DEF NotebookInv, ConnInv
  <2>3. \A u \in Tasks :
          conn'[u] = None <=> reply'[u] # "none" \/ Head(todo'[u]) \in {"view", "begin"}
    <3>1. conn'[t] = None /\ (reply'[t] # "none" \/ Head(todo'[t]) \in {"view", "begin"})
      BY <1>3, <1>5
    <3>. QED  BY <1>1, <1>3, <1>5, <3>1 DEF NotebookInv, ConnInv
  <2>4. \A u, v \in Tasks : conn'[u] = conn'[v] /\ conn'[u] # None => u = v
    BY <2>1 DEF NotebookInv, ConnInv
  <2>5. \A u \in Tasks \ onOpen' : conn'[u] # None => ~open'[conn'[u]]
    BY <1>1, <2>1 DEF NotebookInv, ConnInv
  <2>. QED  BY <2>2, <2>3, <2>4, <2>5 DEF ConnInv
<1>8. SnapInv'
  BY <1>1, <1>2, <1>3, <1>4 DEF NotebookInv, SnapInv
<1>9. ASSUME NEW u \in Tasks PROVE TaskInv(u)'
  <2>1. CASE u = t
    BY <1>3, <2>1 DEF TaskInv
  <2>2. CASE u # t
    <3>1. conn[u] # None => conn[u] \in Conns /\ conn[u] # c
      BY <1>2, <1>3, <2>2 DEF Store!TypeOK
    <3>. QED  BY <1>1, <1>3, <1>4, <1>5, <2>2, <3>1, OthersKept
  <2>. QED  BY <2>1, <2>2
<1>10. MarkInv'
  <2>1. /\ \A v \in Tasks : Done(v) => Done(v)'
        /\ Stuck => Stuck'
        /\ \A v \in Tasks : v # t => \A e \in Conns : Holds(v, e) => Holds(v, e)'
    BY <1>1, <1>2, <1>3, <1>4, <1>5 DEF Done, Stuck, Holds, Store!TypeOK
  <2>2. \A e \in Conns : Holds(t, e) => Stuck'
    BY <1>1, <1>2, <1>4 DEF Holds, Stuck, c
  <2>3. \A u \in Tasks : reply'[u] = "none" => reply[u] = "none"
    BY <1>1, <1>5
  <2>. QED  BY <1>1, <2>1, <2>2, <2>3, MarksKept
<1>11. Fresh(db)' /\ Store!OkIsStoredOrExcused'
  BY <1>1, <1>5 DEF NotebookInv, Fresh, Store!OkIsStoredOrExcused
<1>. QED  BY <1>6, <1>7, <1>8, <1>9, <1>10, <1>11 DEF NotebookInv

\* A refused write that nobody looks at.
LEMMA BusyIgnoredStep ==
  ASSUME NotebookInv, NEW t \in Tasks, Store!BusyIgnored(t)
  PROVE  NotebookInv'
<1>. DEFINE c == conn[t]
<1>1. /\ UNCHANGED <<db, ver, wlock, snap, open, free, conn, view, retries, reply, onOpen,
                     kind, cell, stored, cut>>
      /\ reply[t] = "none" /\ Head(todo[t]) \in {"text", "notebook", "index"} /\ Store!Advance(t)
      /\ Store!Refused(c) /\ busy' = busy \cup {t} /\ kind[t] # "result"
  BY TaskFacts DEF Store!BusyIgnored, Store!AtWrite, Store!Keeps, Store!At, Store!sqliteVars,
                   Rest, Makes
<1>2. /\ c \in Conns /\ \A u \in Tasks : u # t => conn[u] # c
      /\ Rest(kind[t], todo[t]) /\ Store!TypeOK /\ c # None
  BY <1>1, TaskFacts DEF NotebookInv, Store!TypeOK
<1>. HIDE DEF c
<1>3. /\ todo' \in [Tasks -> Seq(Store!Steps)] /\ todo'[t] = Tail(todo[t])
      /\ \A u \in Tasks : u # t => todo'[u] = todo[u]
      /\ \A u \in Tasks : Suffix(todo'[u], Store!Program(kind[u]))
      /\ Follows(Head(todo[t]), Head(todo'[t]))
  BY <1>1, AdvanceEffect
<1>4. Store!TypeOK'
  BY <1>1, <1>2, <1>3 DEF Store!TypeOK
<1>5. ConnInv'
  BY <1>1, <1>3 DEF NotebookInv, ConnInv, Follows
<1>6. SnapInv'
  BY <1>1 DEF NotebookInv, SnapInv
<1>7. TaskInv(t)'
  <2>. SUFFICES ASSUME ~open[c] PROVE TaskInv(t)'
    BY <1>1 DEF TaskInv, c
  <2>0. /\ snap[c] # None =>
             Fresh(snap[c].image) \/ (wlock = c /\ Has(todo[t], "index"))
        /\ kind[t] \in {"cell", "editor"} /\ Has(todo[t], "notebook") /\ ~Has(todo[t], "read") =>
             snap[c] # None /\ view[t] = snap[c].image.cells
    BY <1>2 DEF NotebookInv, TaskInv, c
  <2>1. wlock # c
    <3>1. wlock = c => ~Store!Stale(c)
      BY DEF Store!Stale
    <3>. QED  BY <1>1, <3>1 DEF Store!Refused
  <2>2. \A x : x # Head(todo[t]) => (Has(todo[t], x) <=> Has(todo'[t], x))
    BY <1>2, <1>3 DEF Rest
  <2>3. Has(todo'[t], "notebook") => Has(todo[t], "notebook")
    BY <1>2, <1>3 DEF Rest
  <2>4. Has(todo'[t], "read") <=> Has(todo[t], "read")
    BY <1>1, <2>2
  <2>. QED  BY <1>1, <2>0, <2>1, <2>3, <2>4 DEF TaskInv, Fresh, c
<1>8. ASSUME NEW u \in Tasks, u # t PROVE TaskInv(u)'
  BY <1>1, <1>2, <1>3, <1>8, OthersKept
<1>9. MarkInv'
  <2>1. /\ \A v \in Tasks : Done(v) => Done(v)'
        /\ Stuck => Stuck'
        /\ \A v \in Tasks, e \in Conns : Holds(v, e) => Holds(v, e)'
    BY <1>1 DEF Done, Stuck, Holds
  <2>. QED  BY <1>1, <2>1, MarksKept
<1>10. Fresh(db)' /\ Store!OkIsStoredOrExcused'
  BY <1>1 DEF NotebookInv, Fresh, Store!OkIsStoredOrExcused
<1>. QED  BY <1>4, <1>5, <1>6, <1>7, <1>8, <1>9, <1>10 DEF NotebookInv

\* A write. What is committed later is the database with what t writes, for t
\* saw the database when it got the lock.
LEMMA WriteStep ==
  ASSUME NotebookInv, NEW t \in Tasks, Store!Write(t)
  PROVE  NotebookInv'
<1>. DEFINE c == conn[t]  d == Store!Visible(c)  w == Store!Written(t)  step == Head(todo[t])
            k == kind[t]
<1>1. /\ UNCHANGED <<open, free, conn, view, retries, reply, busy, onOpen, kind, cell, stored, cut>>
      /\ reply[t] = "none" /\ step \in {"text", "notebook", "index", "result"}
      /\ Store!Advance(t) /\ Store!WriteOn(c, w) /\ Store!AtWrite(t)
  BY DEF Store!Write, Store!AtWrite, Store!Keeps, Store!At
<1>2. /\ c \in Conns /\ c \notin free /\ \A u \in Tasks : u # t => conn[u] # c
      /\ Rest(k, todo[t]) /\ Store!TypeOK /\ c # None /\ ver \in Nat
      /\ k \in {"cell", "save", "editor", "result"} /\ cell[t] \in Cells
      /\ view[t] \in [Cells -> Store!Writers \cup {Gone}]
  BY <1>1, TaskFacts, KindsAssumption DEF NotebookInv, Store!TypeOK
<1>3. /\ step = "text" => k = "editor"
      /\ step = "result" => k = "result"
      /\ step \in {"notebook", "index"} => k # "result"
      /\ step \in {"text", "notebook"} => Has(Tail(todo[t]), "index")
      /\ step = "notebook" => ~Has(todo[t], "read")
      /\ step = "notebook" => ~Has(Tail(todo[t]), "notebook")
      /\ \A x : Has(todo[t], x) <=> step = x \/ Has(Tail(todo[t]), x)
  BY <1>1, <1>2 DEF Rest, Makes, Once
<1>4. /\ w \in Store!Databases
      /\ w.saved = IF step = "notebook" /\ k = "save" THEN t ELSE d.saved
      /\ w.text = IF step = "text" THEN t ELSE d.text
      /\ w.index = IF step = "index" THEN <<d.saved, d.text>> ELSE d.index
      /\ w.results = IF step = "result" THEN d.results \cup {t} ELSE d.results
      /\ w.cells = IF step # "notebook" THEN d.cells
                   ELSE IF k = "cell" THEN [view[t] EXCEPT ![cell[t]] = t]
                   ELSE IF k = "save" THEN [view[t] EXCEPT ![cell[t]] = Gone]
                   ELSE view[t]
  <2>1. Makes(k, step)
    BY <1>2 DEF Rest
  <2>. QED  BY <1>1, <1>2, <2>1, WrittenEffect
<1>5. /\ d \in Store!Databases /\ d.cells \in [Cells -> Store!Writers \cup {Gone}]
      /\ snap[c] = None => d = db
      /\ snap[c] # None => d = snap[c].image
  BY <1>2, VisibleType DEF Store!Databases
<1>6. /\ todo' \in [Tasks -> Seq(Store!Steps)] /\ todo'[t] = Tail(todo[t])
      /\ \A u \in Tasks : u # t => todo'[u] = todo[u]
      /\ \A u \in Tasks : Suffix(todo'[u], Store!Program(kind[u]))
      /\ Follows(step, Head(todo'[t]))
  BY <1>1, AdvanceEffect
<1>7. \A v \in Tasks : Marked(v, d) => Done(v) \/ Stuck \/ Holds(v, c)
  BY <1>2, VisibleMarks
<1>8. Has(todo[t], "index") => k # "result"
  <2>1. CASE step = "result"
    <3>1. /\ kind[t] \in Kinds /\ todo'[t] \in Seq(Store!Steps)
          /\ Suffix(todo'[t], Store!Program(kind[t]))
          /\ Head(todo'[t]) = "release"
      BY <1>2, <1>6, <2>1 DEF Follows, Store!TypeOK
    <3>2. Rest(kind[t], todo'[t])
      BY <3>1, SuffixRest
    <3>. QED  BY <1>3, <1>6, <2>1, <3>1, <3>2 DEF Rest
  <2>2. CASE step # "result"
    BY <1>1, <1>3, <2>2
  <2>. QED  BY <2>1, <2>2
<1>. HIDE DEF w, d, step, k
<1>9. /\ snap' \in [Conns -> Snapshots \cup {None}]
      /\ snap'[c] # None /\ snap'[c].image = w /\ snap'[c].at = ver
      /\ \A e \in Conns : e # c => snap'[e] = snap[e]
      /\ wlock' = c /\ wlock \in {None, c} /\ ~Store!Stale(c)
      /\ UNCHANGED <<db, ver>>
  BY <1>1, <1>2, <1>4, WriteOnEffect
<1>. HIDE DEF c
<1>10. Store!TypeOK'
  <2>1. snap' \in [Conns -> [image : Store!Databases, at : Nat] \cup {None}]
    BY <1>9 DEF Snapshots
  <2>2. (free = Conns \ {conn[u] : u \in Tasks})'
    BY <1>1, <1>2 DEF Store!TypeOK
  <2>. QED  BY <1>1, <1>2, <1>6, <1>9, <2>1, <2>2 DEF Store!TypeOK
<1>11. ConnInv'
  BY <1>1, <1>6 DEF NotebookInv, ConnInv, Follows, step
<1>12. SnapInv'
  BY <1>1, <1>2, <1>9, ConnsAssumption DEF NotebookInv, SnapInv
<1>13. TaskInv(t)'
  <2>. SUFFICES ASSUME ~open[c] PROVE TaskInv(t)'
    BY <1>1 DEF TaskInv, c
  <2>1. /\ snap[c] # None =>
             Fresh(snap[c].image) \/ (wlock = c /\ Has(todo[t], "index"))
        /\ wlock = c => snap[c] # None /\ Own(t, snap[c].image)
        /\ k \in {"cell", "editor"} /\ Has(todo[t], "notebook") /\ ~Has(todo[t], "read") =>
             snap[c] # None /\ view[t] = snap[c].image.cells
        /\ t \notin busy /\ ~Has(todo[t], Main(k)) => wlock = c /\ Store!Kept(t)
        /\ Fresh(db)
    BY <1>2 DEF NotebookInv, TaskInv, SnapInv, c, k
  <2>2. Fresh(w) \/ Has(todo'[t], "index")
    <3>1. CASE step = "index"
      BY <1>4, <3>1 DEF Fresh
    <3>2. CASE step \in {"text", "notebook"}
      BY <1>3, <1>6, <3>2
    <3>3. CASE step = "result"
      <4>1. Fresh(d)
        BY <1>3, <1>5, <1>8, <2>1, <3>3
      <4>. QED  BY <1>4, <3>3, <4>1 DEF Fresh
    <3>. QED  BY <1>1, <3>1, <3>2, <3>3
  <2>3. Own(t, d)
    <3>1. CASE wlock = c
      BY <1>5, <2>1, <3>1
    <3>2. CASE wlock # c
      <4>1. d = db
        BY <1>2, <1>5, <1>9, <3>2 DEF NotebookInv, SnapInv, Store!Stale
      <4>. QED  BY <4>1 DEF Own
    <3>. QED  BY <3>1, <3>2
  <2>4. k \in {"cell", "editor"} /\ Has(todo[t], "notebook") /\ ~Has(todo[t], "read") =>
          view[t] = d.cells
    BY <1>5, <2>1
  <2>5. Own(t, w)
    <3>1. w.saved # db.saved => k = "save"
      BY <1>4, <2>3 DEF Own, k
    <3>2. w.text # db.text => k = "editor"
      BY <1>3, <1>4, <2>3 DEF Own, k
    <3>3. ASSUME NEW x \in Cells, w.cells[x] # db.cells[x]
          PROVE  k = "save" \/ (k = "cell" /\ cell[t] = x)
      <4>. SUFFICES ASSUME k # "save", ~(k = "cell" /\ cell[t] = x) PROVE FALSE
        OBVIOUS
      <4>1. d.cells[x] = db.cells[x]
        BY <2>3 DEF Own, k
      <4>2. CASE step = "notebook"
        <5>1. k \in {"cell", "editor"}
          BY <1>2, <1>3, <4>2
        <5>2. view[t] = d.cells
          BY <1>3, <2>4, <4>2, <5>1
        <5>. QED  BY <1>2, <1>4, <3>3, <4>1, <4>2, <5>1, <5>2
      <4>3. CASE step # "notebook"
        BY <1>4, <3>3, <4>1, <4>3
      <4>. QED  BY <4>2, <4>3
    <3>. QED  BY <3>1, <3>2, <3>3 DEF Own, k
  <2>6. k \in {"cell", "editor"} /\ Has(todo'[t], "notebook") /\ ~Has(todo'[t], "read") =>
          view[t] = w.cells
    <3>. SUFFICES ASSUME k \in {"cell", "editor"}, Has(todo'[t], "notebook"),
                         ~Has(todo'[t], "read")
                  PROVE  view[t] = w.cells
      OBVIOUS
    <3>1. step # "notebook" /\ Has(todo[t], "notebook") /\ ~Has(todo[t], "read")
      BY <1>1, <1>3, <1>6
    <3>. QED  BY <1>4, <2>4, <3>1
  <2>7. t \notin busy /\ ~Has(todo'[t], Main(k)) =>
          CASE k = "cell"   -> w.cells[cell[t]] = t
            [] k = "save"   -> w.saved = t
            [] k = "editor" -> w.text = t
            [] k = "result" -> t \in w.results
    <3>. SUFFICES ASSUME t \notin busy, ~Has(todo'[t], Main(k))
                  PROVE  /\ k = "cell" => w.cells[cell[t]] = t
                         /\ k = "save" => w.saved = t
                         /\ k = "editor" => w.text = t
                         /\ k = "result" => t \in w.results
      BY <1>2
    <3>1. CASE step = Main(k)
      BY <1>2, <1>4, <3>1 DEF Main
    <3>2. CASE step # Main(k)
      <4>1. Store!Kept(t)
        BY <1>3, <1>6, <2>1, <3>2
      <4>2. /\ k = "cell" => d.cells[cell[t]] = t
            /\ k = "save" => d.saved = t
            /\ k = "editor" => d.text = t
            /\ k = "result" => t \in d.results
        BY <4>1 DEF Store!Kept, d, c, k
      <4>. QED  BY <1>4, <3>2, <4>2 DEF Main
    <3>. QED  BY <3>1, <3>2
  <2>8. /\ conn'[t] = c /\ snap'[c].image = w /\ kind'[t] = k /\ view'[t] = view[t]
        /\ cell'[t] = cell[t]
    BY <1>1, <1>9 DEF c, k
  <2>9. Own(t, w) <=> Own(t, snap[conn[t]].image)'
    BY <1>1, <1>9, <2>8 DEF Own
  <2>10. Store!Visible(conn[t])' = w
    BY <1>9, <2>8 DEF Store!Visible
  <2>11. t \notin busy' /\ ~Has(todo'[t], Main(k)) => Store!Kept(t)'
    BY <1>1, <2>7, <2>8, <2>10 DEF Store!Kept
  <2>12. Fresh(w) <=> Fresh(snap[conn[t]].image)'
    BY <2>8 DEF Fresh
  <2>. QED  BY <1>9, <2>2, <2>5, <2>6, <2>8, <2>9, <2>11, <2>12 DEF TaskInv
<1>14. ASSUME NEW u \in Tasks, u # t PROVE TaskInv(u)'
  <2>1. conn[u] # None => conn[u] \in Conns /\ conn[u] # c
    BY <1>2, <1>14 DEF Store!TypeOK
  <2>. QED  BY <1>1, <1>6, <1>9, <1>14, <2>1, OthersKept
<1>15. MarkInv'
  <2>1. /\ \A v \in Tasks : Done(v) => Done(v)'
        /\ Stuck => Stuck'
        /\ \A v \in Tasks, e \in Conns : Holds(v, e) => Holds(v, e)'
    BY <1>1, <1>2, <1>9, ConnsAssumption DEF Done, Stuck, Holds
  <2>2. \A e \in Conns : e = c => Holds(t, e)'
    BY <1>1, <1>9 DEF Holds, c
  <2>3. ASSUME NEW v \in Tasks, Marked(v, w), v # t PROVE Done(v) \/ Stuck \/ Holds(v, c)
    <3>1. CASE InCells(v, w.cells)
      <4>1. PICK x \in Cells : w.cells[x] = v
        BY <3>1 DEF InCells
      <4>2. d.cells[x] = v \/ view[t][x] = v
        BY <1>2, <1>4, <2>3, <4>1, TasksAssumption
      <4>3. InCells(v, view[t]) => Done(v) \/ Stuck
        BY <1>1, <2>3 DEF NotebookInv, MarkInv
      <4>. QED  BY <1>7, <4>2, <4>3 DEF InCells, Marked
    <3>2. CASE v \in w.results \/ v = w.saved \/ v = w.text
      BY <1>4, <1>7, <2>3, <3>2 DEF Marked
    <3>. QED  BY <2>3, <3>1, <3>2 DEF Marked
  <2>4. \A v \in Tasks, e \in Conns : e = c /\ Marked(v, w) =>
          (Done(v) \/ Stuck \/ Holds(v, e))'
    BY <1>2, <2>1, <2>2, <2>3
  <2>5. \A e \in Conns : snap'[e] # snap[e] => e = c /\ snap'[e].image = w
    BY <1>9
  <2>. QED  BY <1>1, <1>9, <2>1, <2>4, <2>5, MarksKept
<1>16. Fresh(db)' /\ Store!OkIsStoredOrExcused'
  BY <1>1, <1>9 DEF NotebookInv, Fresh, Store!OkIsStoredOrExcused
<1>. QED  BY <1>10, <1>11, <1>12, <1>13, <1>14, <1>15, <1>16 DEF NotebookInv

\* What the release of a connection of its own commits.
LEMMA ReleaseCommits ==
  ASSUME NotebookInv, NEW t \in Tasks, Store!At(t, "release"), ~open[conn[t]]
  PROVE  /\ wlock = conn[t] => Fresh(Store!Visible(conn[t])) /\ Own(t, Store!Visible(conn[t]))
         /\ t \notin busy => wlock = conn[t] /\ Store!Kept(t)
<1>1. /\ conn[t] # None /\ conn[t] \in Conns
      /\ \A x : Has(todo[t], x) => x = "release"
  BY TaskFacts DEF Store!At, Rest
<1>2. ~Has(todo[t], "index") /\ ~Has(todo[t], Main(kind[t]))
  BY <1>1 DEF Main
<1>3. wlock = conn[t] => snap[conn[t]] # None
  BY <1>1 DEF NotebookInv, SnapInv
<1>. QED  BY <1>1, <1>2, <1>3 DEF NotebookInv, TaskInv, Store!Visible

\* What is committed has a fresh index.
LEMMA ReleaseStep ==
  ASSUME NotebookInv, NEW t \in Tasks, Store!Release(t) \/ Store!ReleaseCut(t)
  PROVE  NotebookInv'
<1>. DEFINE c == conn[t]
<1>1. /\ UNCHANGED <<open, todo, view, retries, busy, onOpen, kind, cell>>
      /\ reply[t] = "none" /\ Head(todo[t]) = "release"
      /\ Store!At(t, "release") /\ Store!PutBack(t)
      /\ \/ reply' = [reply EXCEPT ![t] = "ok"] /\ cut' = cut
         \/ reply' = [reply EXCEPT ![t] = "error"] /\ cut' = cut \cup {t}
      /\ open[c] => UNCHANGED <<db, ver, wlock, snap, stored>>
      /\ ~open[c] => /\ Store!CommitOn(c)
                     /\ stored' = IF wlock = c /\ Store!Kept(t) THEN stored \cup {t} ELSE stored
  BY DEF Store!Release, Store!ReleaseCut, Store!Commits, Store!At, Store!Answer,
         Store!sqliteVars
<1>2. c \in Conns /\ c \notin free /\ Store!TypeOK /\ ver \in Nat /\ c # None
  BY <1>1, TaskFacts DEF NotebookInv, Store!TypeOK
<1>3. /\ conn' \in [Tasks -> Conns \cup {None}] /\ conn'[t] = None
      /\ \A u \in Tasks : u # t => conn'[u] = conn[u] /\ conn[u] # c
      /\ free' = Conns \ {conn'[u] : u \in Tasks}
      /\ free' = free \cup {c}
  BY <1>1, <1>2, PutBackEffect
<1>4. /\ reply' \in [Tasks -> {"none", "ok", "error"}] /\ reply'[t] \in {"ok", "error"}
      /\ \A u \in Tasks : u # t => reply'[u] = reply[u]
  BY <1>1, <1>2 DEF Store!TypeOK
<1>5. ~open[c] => /\ wlock = c => Fresh(Store!Visible(c))
                  /\ t \notin busy => wlock = c /\ Store!Kept(t)
  BY <1>1, ReleaseCommits
<1>6. Store!Visible(c) \in Store!Databases
  BY <1>2, VisibleType
<1>. HIDE DEF c
<1>7. /\ snap' \in [Conns -> Snapshots \cup {None}]
      /\ ~open[c] => snap'[c] = None
      /\ \A e \in Conns : e # c => snap'[e] = snap[e]
      /\ open[c] => UNCHANGED <<db, ver, wlock, snap>>
      /\ ~open[c] /\ wlock = c => db' = Store!Visible(c) /\ ver' = ver + 1 /\ wlock' = None
      /\ wlock # c => UNCHANGED <<db, ver, wlock>>
  <2>1. CASE open[c]
    BY <1>1, <1>2, <2>1 DEF Store!TypeOK, Snapshots
  <2>2. CASE ~open[c]
    BY <1>1, <1>2, <2>2, CommitOnEffect
  <2>. QED  BY <2>1, <2>2
<1>8. Store!TypeOK'
  <2>1. snap' \in [Conns -> [image : Store!Databases, at : Nat] \cup {None}]
    BY <1>7 DEF Snapshots
  <2>2. db' \in Store!Databases /\ ver' \in Nat /\ wlock' \in Conns \cup {None}
    BY <1>2, <1>6, <1>7 DEF Store!TypeOK
  <2>3. stored' \subseteq Tasks /\ cut' \subseteq Tasks
    BY <1>1, <1>2 DEF Store!TypeOK
  <2>4. /\ (open \in [Conns -> BOOLEAN] /\ todo \in [Tasks -> Seq(Store!Steps)])'
        /\ (kind \in [Tasks -> Kinds] /\ cell \in [Tasks -> Cells])'
        /\ (view \in [Tasks -> [Cells -> Store!Writers \cup {Gone}]])'
        /\ (retries \in [Tasks -> 0..MaxRetry])'
        /\ (busy \subseteq Tasks /\ onOpen \subseteq Tasks)'
    BY <1>1, <1>2 DEF Store!TypeOK
  <2>. QED  BY <1>3, <1>4, <2>1, <2>2, <2>3, <2>4 DEF Store!TypeOK
<1>9. ConnInv'
  <2>1. \A u \in Tasks : conn'[u] # None => u # t /\ conn'[u] = conn[u]
    BY <1>3
  <2>2. \A u \in Tasks : Suffix(todo'[u], Store!Program(kind'[u]))
    BY <1>1 DEF NotebookInv, ConnInv
  <2>3. \A u \in Tasks :
          conn'[u] = None <=> reply'[u] # "none" \/ Head(todo'[u]) \in {"view", "begin"}
    BY <1>1, <1>3, <1>4 DEF NotebookInv, ConnInv
  <2>4. \A u, v \in Tasks : conn'[u] = conn'[v] /\ conn'[u] # None => u = v
    BY <2>1 DEF NotebookInv, ConnInv
  <2>5. \A u \in Tasks \ onOpen' : conn'[u] # None => ~open'[conn'[u]]
    BY <1>1, <2>1 DEF NotebookInv, ConnInv
  <2>. QED  BY <2>2, <2>3, <2>4, <2>5 DEF ConnInv
<1>10. SnapInv'
  <2>0. /\ SnapInv /\ \A e \in Conns : e # None
        /\ \A e \in Conns : snap[e] # None => snap[e].at \in Nat
    BY <1>2, ConnsAssumption DEF NotebookInv, Store!TypeOK
  <2>1. CASE open[c]
    BY <1>1, <1>3, <1>7, <2>0, <2>1 DEF SnapInv
  <2>2. CASE ~open[c] /\ wlock = c
    BY <1>1, <1>2, <1>3, <1>7, <2>0, <2>2 DEF SnapInv
  <2>3. CASE ~open[c] /\ wlock # c
    BY <1>1, <1>2, <1>3, <1>7, <2>0, <2>3 DEF SnapInv
  <2>. QED  BY <2>1, <2>2, <2>3
<1>11. ASSUME NEW u \in Tasks PROVE TaskInv(u)'
  <2>1. CASE u = t
    BY <1>3, <2>1 DEF TaskInv
  <2>2. CASE u # t
    <3>1. conn[u] # None => conn[u] \in Conns /\ conn[u] # c
      BY <1>2, <1>3, <2>2 DEF Store!TypeOK
    <3>2. conn[u] # None =>
            /\ snap'[conn[u]] = snap[conn[u]] /\ open'[conn[u]] = open[conn[u]]
            /\ wlock' = conn[u] <=> wlock = conn[u]
            /\ wlock = conn[u] => db' = db
      BY <1>1, <1>7, <3>1, ConnsAssumption
    <3>. QED  BY <1>1, <1>3, <2>2, <3>2, OthersKept
  <2>. QED  BY <2>1, <2>2
<1>12. MarkInv'
  <2>1. \A v \in Tasks : (Done(v) => Done(v)') /\ (v = t => Done(v)')
    BY <1>1, <1>4 DEF Done
  <2>2. Stuck => Stuck'
    BY <1>1, <1>7 DEF Stuck
  <2>3. \A v \in Tasks, e \in Conns : v # t /\ Holds(v, e) => Holds(v, e)'
    BY <1>1, <1>3, <1>4, <1>7 DEF Holds
  <2>4. ASSUME db' # db, NEW v \in Tasks, Marked(v, db') PROVE Done(v)'
    <3>1. db' = Store!Visible(c) /\ wlock = c /\ ~open[c]
      BY <1>7, <2>4
    <3>2. Done(v) \/ Holds(v, c)
      BY <1>2, <2>4, <3>1, VisibleMarks DEF Stuck
    <3>. QED  BY <1>3, <2>1, <3>2 DEF Holds
  <2>5. \A e \in Conns : snap'[e] # snap[e] => snap'[e] = None
    BY <1>7
  <2>6. \A u \in Tasks : reply'[u] = "none" => reply[u] = "none"
    BY <1>1, <1>4
  <2>. QED  BY <1>1, <2>1, <2>2, <2>3, <2>4, <2>5, <2>6, MarksKept
<1>13. Fresh(db)'
  <2>1. Fresh(db') <=> Fresh(db)'
    BY DEF Fresh
  <2>. QED  BY <1>5, <1>7, <2>1 DEF NotebookInv, Fresh
<1>14. Store!OkIsStoredOrExcused'
  <2>1. t \in stored' \cup busy' \cup onOpen'
    <3>1. CASE open[c]
      BY <1>1, <1>2, <3>1 DEF NotebookInv, ConnInv, c
    <3>2. CASE ~open[c]
      BY <1>1, <1>5, <3>2
    <3>. QED  BY <3>1, <3>2
  <2>2. stored \subseteq stored'
    BY <1>1
  <2>. QED  BY <1>1, <1>4, <2>1, <2>2 DEF NotebookInv, Store!OkIsStoredOrExcused
<1>. QED  BY <1>8, <1>9, <1>10, <1>11, <1>12, <1>13, <1>14 DEF NotebookInv

\* The invariant holds at first, and is kept.
LEMMA StoreInit == Store!Init => NotebookInv
<1>. SUFFICES ASSUME Store!Init PROVE NotebookInv
  OBVIOUS
<1>1. \A t \in Tasks : kind[t] \in Kinds /\ todo[t] = Store!Program(kind[t])
                       /\ conn[t] = None /\ reply[t] = "none"
  BY DEF Store!Init
<1>2. \A t \in Tasks : /\ todo[t] \in Seq(Store!Steps) /\ Suffix(todo[t], Store!Program(kind[t]))
                       /\ Head(todo[t]) \in {"view", "begin"}
  BY <1>1, ProgramSuffix
<1>3. Store!TypeOK
  <2>1. db \in Store!Databases
    BY DEF Store!Init, Store!Databases, Store!Writers
  <2>2. todo \in [Tasks -> Seq(Store!Steps)]
    BY <1>2 DEF Store!Init
  <2>3. view \in [Tasks -> [Cells -> Store!Writers \cup {Gone}]]
    BY DEF Store!Init, Store!Writers
  <2>4. free = Conns \ {conn[u] : u \in Tasks}
    BY <1>1, ConnsAssumption DEF Store!Init
  <2>5. retries \in [Tasks -> 0..MaxRetry]
    BY RetryAssumption DEF Store!Init
  <2>. QED  BY <2>1, <2>2, <2>3, <2>4, <2>5 DEF Store!Init, Store!TypeOK
<1>4. ConnInv
  BY <1>1, <1>2 DEF ConnInv
<1>5. SnapInv
  BY ConnsAssumption DEF Store!Init, SnapInv
<1>6. \A t \in Tasks : TaskInv(t)
  BY <1>1 DEF TaskInv
<1>7. MarkInv
  BY TasksAssumption DEF Store!Init, MarkInv, Marked, InCells
<1>8. Fresh(db) /\ Store!OkIsStoredOrExcused
  BY <1>1 DEF Store!Init, Fresh, Store!OkIsStoredOrExcused
<1>. QED  BY <1>3, <1>4, <1>5, <1>6, <1>7, <1>8 DEF NotebookInv

LEMMA StoreUnchanged == NotebookInv /\ UNCHANGED Store!vars => NotebookInv'
<1>. SUFFICES ASSUME NotebookInv, UNCHANGED Store!vars PROVE NotebookInv'
  OBVIOUS
<1>1. UNCHANGED <<db, ver, wlock, snap, open, free, kind, cell, todo, conn, view, retries,
                  reply, busy, onOpen, stored, cut>>
  BY DEF Store!vars, Store!sqliteVars, Store!taskVars, Store!histVars
<1>2. Store!TypeOK'
  BY <1>1, Zenon DEF NotebookInv, Store!TypeOK
<1>3. ConnInv' /\ SnapInv'
  BY <1>1 DEF NotebookInv, ConnInv, SnapInv
<1>4. ASSUME NEW t \in Tasks PROVE TaskInv(t)'
  BY <1>1, <1>4, OthersKept
<1>5. MarkInv'
  BY <1>1, MarksKept DEF Done, Stuck, Holds
<1>6. Fresh(db)' /\ Store!OkIsStoredOrExcused'
  BY <1>1 DEF NotebookInv, Fresh, Store!OkIsStoredOrExcused
<1>. QED  BY <1>2, <1>3, <1>4, <1>5, <1>6 DEF NotebookInv

LEMMA StoreNext == NotebookInv /\ Store!Next => NotebookInv'
<1>. SUFFICES ASSUME NotebookInv, Store!Next PROVE NotebookInv'
  OBVIOUS
<1>1. ASSUME NEW t \in Tasks, Store!Step(t) PROVE NotebookInv'
  BY <1>1, ViewStep, BeginStep, ReadStep, ReadFailsStep, WriteStep, BusyIgnoredStep,
     BusyRetriedStep, ReleaseStep, ReleaseFailsStep DEF Store!Step
<1>2. CASE Store!Finished
  BY <1>2, StoreUnchanged DEF Store!Finished
<1>. QED  BY <1>1, <1>2 DEF Store!Next

\* Who failed left no mark, unless it was committed all the same.
LEMMA StoreErrors == NotebookInv => Store!ErrorIsNotStored
BY DEF NotebookInv, MarkInv, Marked, InCells, Done, Store!ErrorIsNotStored

\* A commit is a release of a transaction of its own.
LEMMA CommitsOwn ==
  NotebookInv /\ Store!Next /\ db' # db =>
    \E t \in Tasks :
      /\ Store!At(t, "release")
      /\ db'.saved # db.saved => kind[t] = "save"
      /\ db'.text # db.text => kind[t] = "editor"
      /\ \A x \in Cells : db'.cells[x] # db.cells[x] =>
           kind[t] = "save" \/ (kind[t] = "cell" /\ cell[t] = x)
<1>. SUFFICES ASSUME NotebookInv, Store!Next, db' # db
              PROVE  \E t \in Tasks :
                       /\ Store!At(t, "release")
                       /\ db'.saved # db.saved => kind[t] = "save"
                       /\ db'.text # db.text => kind[t] = "editor"
                       /\ \A x \in Cells : db'.cells[x] # db.cells[x] =>
                            kind[t] = "save" \/ (kind[t] = "cell" /\ cell[t] = x)
  OBVIOUS
<1>1. PICK t \in Tasks : Store!Release(t) \/ Store!ReleaseCut(t)
  <2>1. ~Store!Finished
    BY DEF Store!Finished, Store!vars, Store!sqliteVars
  <2>. QED  BY <2>1 DEF Store!Next, Store!Step, Store!View, Store!Begin, Store!Read,
                        Store!ReadFails, Store!Look, Store!Write, Store!WriteOn,
                        Store!BusyIgnored, Store!BusyRetried, Store!ReleaseFails,
                        Store!ReleaseUnwound, Store!LeavesOpen, Store!sqliteVars
<1>2. Store!At(t, "release") /\ ~open[conn[t]] /\ wlock = conn[t] /\ db' = Store!Visible(conn[t])
  BY <1>1 DEF Store!Release, Store!ReleaseCut, Store!Commits, Store!CommitOn, Store!sqliteVars
<1>3. Own(t, db')
  BY <1>2, ReleaseCommits
<1>. QED  BY <1>2, <1>3 DEF Own

(***************************************************************************)
(* The theorems about the storage.                                         *)
(***************************************************************************)

\* The other parts leave the storage alone.
LEMMA HubStep ==
  ASSUME NotebookInv, [HubNext]_<<vars, storage, engine, part>>
  PROVE  NotebookInv' /\ (Store!Next \/ UNCHANGED storage)
<1>1. Store!Next \/ UNCHANGED storage
  BY DEF HubNext
<1>2. UNCHANGED storage => UNCHANGED Store!vars
  BY DEF storage, Store!vars, Store!sqliteVars, Store!taskVars, Store!histVars
<1>. QED  BY <1>1, <1>2, StoreNext, StoreUnchanged

LEMMA NotebookHolds == HubSpec => []NotebookInv
<1>1. HubInit => NotebookInv
  BY StoreInit DEF HubInit
<1>2. NotebookInv /\ [HubNext]_<<vars, storage, engine, part>> => NotebookInv'
  BY HubStep
<1>. QED  BY <1>1, <1>2, PTL DEF HubSpec

\* The state of the storage has its types, for any tasks, connections, cells,
\* operations and retries (store_notebook.go:77-224).
THEOREM NotebookTypes == HubSpec => []Store!TypeOK
<1>1. NotebookInv => Store!TypeOK
  BY DEF NotebookInv
<1>. QED  BY <1>1, NotebookHolds, PTL

\* Whatever writes were refused, the search index follows the notebook and its
\* text (search.go:84, store_notebook.go:86-88, 133-138).
THEOREM SearchIsFresh == HubSpec => []IndexFresh
<1>1. NotebookInv => IndexFresh
  BY DEF NotebookInv, Fresh, IndexFresh, Store!IndexFresh
<1>. QED  BY <1>1, NotebookHolds, PTL

\* An operation that reports success was committed, unless a write of it was
\* refused or its connection was left open (store_notebook.go:77-224).
THEOREM SuccessIsStored == HubSpec => []OkIsStoredOrExcused
<1>1. NotebookInv => OkIsStoredOrExcused
  BY DEF NotebookInv, OkIsStoredOrExcused
<1>. QED  BY <1>1, NotebookHolds, PTL

\* What an operation that reports failure wrote is not in the database, and does
\* not get there later, unless the failure came after its last write, in a
\* handler whose savepoint ServeHTTP released (store_notebook.go:77-224,
\* schedule_run.go:381-417, dispatch.go:143).
THEOREM FailureIsNotStored == HubSpec => []ErrorIsNotStored
<1>1. NotebookInv => ErrorIsNotStored
  BY StoreErrors DEF ErrorIsNotStored
<1>. QED  BY <1>1, NotebookHolds, PTL

\* Although the whole notebook is read and written back, a commit changes
\* nothing that its operation is not about (store_notebook.go:115-224).
THEOREM NoLostUpdate == HubSpec => OnlyItsOwn
<1>. DEFINE Owned ==
       db' # db =>
         \E t \in Tasks :
           /\ Store!At(t, "release")
           /\ db'.saved # db.saved => kind[t] = "save"
           /\ db'.text # db.text => kind[t] = "editor"
           /\ \A x \in Cells : db'.cells[x] # db.cells[x] =>
                kind[t] = "save" \/ (kind[t] = "cell" /\ cell[t] = x)
<1>1. NotebookInv /\ [HubNext]_<<vars, storage, engine, part>> => [Owned]_Store!vars
  <2>. SUFFICES ASSUME NotebookInv, [HubNext]_<<vars, storage, engine, part>>, db' # db
                PROVE  Owned
    BY DEF Owned
  <2>1. Store!Next
    BY HubStep DEF storage
  <2>. QED  BY <2>1, CommitsOwn
<1>2. OnlyItsOwn <=> [][Owned]_Store!vars
  BY DEF OnlyItsOwn, Store!OnlyItsOwn, Owned
<1>. QED  BY <1>1, <1>2, NotebookHolds, PTL DEF HubSpec

-----------------------------------------------------------------------------
(* The schedules far apart, under a prompt runner.                         *)

\* The next occurrence of a schedule.
NextOf(s) == s.occ[Len(s.res) + 1]

\* The round is over for job j, and the runner waits for the next tick.
Waits(j) == (phase = "idle" /\ ~due) \/ (phase = "work" /\ stage[j] = "none")

\* The clock of a prompt runner: while it works, the next tick is an hour away.
FarClock ==
  /\ now \in Nat /\ now > 0 /\ nextTick \in Nat /\ due \in BOOLEAN
  /\ phase \in {"list", "work", "idle"} /\ crashes \in Nat
  /\ now < nextTick /\ nextTick <= now + Hour
  /\ due => phase = "idle"
  /\ due \/ phase # "idle" => nextTick = now + Hour

\* The schedule under the zero key has no occurrences.
FarOccs == FarCalendars \cup {<<>>}

\* A schedule has run its first occurrences, and is in time for the next one.
FarSchedule(j) ==
  /\ sch[j] \in Far!Schedules /\ sch[j].occ \in FarOccs
  /\ Len(sch[j].res) <= Len(sch[j].occ) /\ Len(ran[j]) = Len(sch[j].res)
  /\ \A i \in 1..Len(ran[j]) : ran[j][i] = sch[j].occ[i] /\ ran[j][i] < now + Hour
  /\ stage[j] \in {"none", "queued"} => sch[j].lease = 0
  /\ Len(sch[j].res) < Len(sch[j].occ) =>
       IF Waits(j) THEN nextTick <= NextOf(sch[j]) + Hour ELSE now <= NextOf(sch[j]) + Hour

\* The runner has a copy of a schedule whose next occurrence is due.
FarCopy(j) ==
  /\ phase = "work" /\ sch[j] # None /\ copy[j] \in Far!Picked
  /\ copy[j].s.occ = sch[j].occ /\ copy[j].s.res = sch[j].res
  /\ Len(sch[j].res) < Len(sch[j].occ)
  /\ copy[j].pick = NextOf(sch[j]) /\ copy[j].pick < now + Hour

FarJob(j) ==
  /\ sch[j] # None => FarSchedule(j)
  /\ sch[j] = None => ran[j] = <<>>
  /\ stage[j] \in {"none", "queued", "leased", "running"}
  /\ stage[j] # "none" => FarCopy(j)
  /\ j = Zero /\ sch[j] # None => sch[j].occ = <<>>

FarInv ==
  /\ FarClock
  /\ DOMAIN stage = Jobs /\ DOMAIN copy = Jobs /\ DOMAIN sch = Jobs /\ DOMAIN ran = Jobs
  /\ ran \in [Jobs -> Seq(Nat)]
  /\ \A j \in Jobs : FarJob(j)

-----------------------------------------------------------------------------
\* The occurrences of every schedule are far apart.
LEMMA FarApart ==
  ASSUME NEW occ \in FarOccs
  PROVE  /\ occ \in Seq(Nat)
         /\ \A i \in 1..Len(occ) : occ[i] > 1
         /\ \A i, k \in 1..Len(occ) : i < k => occ[i] + HalfDay + Hour <= occ[k]
<1>1. CASE occ \in FarCalendars
  BY <1>1, FarAssumption
<1>2. CASE occ = <<>>
  <2>1. occ \in Seq(Nat) /\ Len(occ) = 0
    BY <1>2, EmptySeq
  <2>2. 1..0 = {}
    OBVIOUS
  <2>. QED  BY <2>1, <2>2, Zenon
<1>. QED  BY <1>1, <1>2 DEF FarOccs

\* In time, NextRun is the next occurrence if it is within the hour: the later
\* ones are out of its reach (schedule.go:220-244).
LEMMA FarNextRun ==
  ASSUME NEW s \in Far!Schedules, s.occ \in FarOccs, Len(s.res) <= Len(s.occ),
         NEW t \in Nat, Len(s.res) < Len(s.occ) => t <= NextOf(s) + Hour
  PROVE  /\ Far!NextRun(s, t) # 0 =>
              /\ Len(s.res) < Len(s.occ)
              /\ Far!NextRun(s, t) = NextOf(s) /\ NextOf(s) < t + Hour
         /\ Far!NextRun(s, t) = 0 /\ Len(s.res) < Len(s.occ) => t + Hour <= NextOf(s)
<1>1. /\ s.occ \in Seq(Nat) /\ s.res \in Seq({"executed", "skipped"})
      /\ Len(s.occ) \in Nat /\ Len(s.res) \in Nat /\ Hour \in Nat \ {0} /\ HalfDay \in Nat
  BY LenProperties, HourAssumption DEF Far!Schedules
<1>2. CASE Len(s.occ) = Len(s.res)
  BY <1>1, <1>2 DEF Far!NextRun
<1>3. CASE Len(s.occ) # Len(s.res)
  <2>. DEFINE m == Len(s.res) + 1  n == Len(s.occ)  L == Far!Left(s)
  <2>1. m \in Int /\ n \in Int /\ 1 <= m /\ m <= n
    BY <1>1, <1>3
  <2>2. \A i \in 1..n : s.occ[i] \in Nat
    BY <1>1, ElementOfSeq
  <2>3. \A i, k \in 1..n : i < k => s.occ[i] + HalfDay + Hour <= s.occ[k]
    BY FarApart
  <2>4. \A i \in 1..n : s.occ[i] > 1
    BY FarApart
  <2>5. NextOf(s) = s.occ[m] /\ t <= s.occ[m] + Hour /\ s.occ[m] \in Nat
    BY <1>1, <1>3, <2>1, <2>2 DEF NextOf
  <2>6. L = SubSeq(s.occ, m, n)
    BY DEF Far!Left
  <2>. HIDE DEF m, n
  <2>7. /\ Len(L) = n - m + 1
        /\ \A i \in 1..(n - m + 1) : L[i] = s.occ[m + i - 1]
    <3>1. \A i \in m..n : s.occ[i] \in Nat
      BY <2>1, <2>2
    <3>. HIDE DEF L
    <3>2. SubSeq(s.occ, m, n) = [i \in 1..(n - m + 1) |-> s.occ[i + m - 1]]
      BY <2>1
    <3>3. Len(L) = n - m + 1
      BY <2>1, <2>6, <3>1, SubSeqProperties
    <3>. QED  BY <2>1, <2>6, <3>2, <3>3
  <2>. HIDE DEF L
  <2>8. L[1] = NextOf(s)
    BY <2>1, <2>5, <2>7
  <2>9. \A i \in 2..Len(L) : ~(L[i] < t + HalfDay)
    <3>. SUFFICES ASSUME NEW i \in 2..Len(L) PROVE ~(L[i] < t + HalfDay)
      OBVIOUS
    <3>1. i \in 1..(n - m + 1) /\ m + i - 1 \in 1..n /\ m < m + i - 1 /\ m \in 1..n
      BY <2>1, <2>7
    <3>2. s.occ[m] + HalfDay + Hour <= s.occ[m + i - 1] /\ s.occ[m + i - 1] \in Nat
      BY <2>2, <2>3, <3>1
    <3>3. L[i] = s.occ[m + i - 1]
      BY <2>7, <3>1
    <3>4. \A x, y \in Nat : x + HalfDay + Hour <= y /\ t <= x + Hour => ~(y < t + HalfDay)
      BY <1>1
    <3>. QED  BY <2>5, <3>2, <3>3, <3>4
  <2>10. Far!LastBefore(L, t + HalfDay) = NextOf(s)
    BY <2>8, <2>9, Zenon DEF Far!LastBefore
  <2>11. Far!NextRun(s, t) = IF NextOf(s) < t + Hour THEN NextOf(s) ELSE 0
    BY <1>3, <2>10 DEF Far!NextRun, L
  <2>12. NextOf(s) \in Nat /\ NextOf(s) # 0
    BY <2>1, <2>2, <2>4, <2>5
  <2>. QED  BY <1>1, <1>3, <2>1, <2>11, <2>12
<1>. QED  BY <1>2, <1>3

\* A job that a step leaves alone.
LEMMA FarOther ==
  ASSUME FarInv, NEW j \in Jobs, UNCHANGED <<now, nextTick, due>>,
         Waits(j)' <=> Waits(j), phase = "work" => phase' = "work" \/ stage[j] = "none",
         sch'[j] = sch[j], ran'[j] = ran[j], copy'[j] = copy[j], stage'[j] = stage[j]
  PROVE  FarJob(j)'
<1>1. FarJob(j)
  BY DEF FarInv
<1>2. FarSchedule(j) /\ sch[j] # None => FarSchedule(j)'
  BY DEF FarSchedule, NextOf
<1>3. FarCopy(j) /\ stage[j] # "none" => FarCopy(j)'
  BY DEF FarCopy, NextOf
<1>. QED  BY <1>1, <1>2, <1>3 DEF FarJob

\* What is known of the next occurrence of a schedule, and of its results.
LEMMA FarFields ==
  ASSUME FarInv, NEW j \in Jobs, sch[j] # None
  PROVE  /\ FarSchedule(j) /\ sch[j] \in Far!Schedules
         /\ sch[j].occ \in Seq(Nat) /\ sch[j].res \in Seq({"executed", "skipped"})
         /\ Len(sch[j].occ) \in Nat /\ Len(sch[j].res) \in Nat
         /\ Len(sch[j].res) < Len(sch[j].occ) => NextOf(sch[j]) \in Nat
         /\ Len(sch[j].res) + 1 < Len(sch[j].occ) =>
              /\ sch[j].occ[Len(sch[j].res) + 2] \in Nat
              /\ NextOf(sch[j]) + HalfDay + Hour <= sch[j].occ[Len(sch[j].res) + 2]
<1>1. FarSchedule(j) /\ sch[j] \in Far!Schedules /\ sch[j].occ \in FarOccs
  BY DEF FarInv, FarJob, FarSchedule
<1>2. /\ sch[j].occ \in Seq(Nat) /\ sch[j].res \in Seq({"executed", "skipped"})
      /\ Len(sch[j].occ) \in Nat /\ Len(sch[j].res) \in Nat
  BY <1>1, LenProperties DEF Far!Schedules
<1>. DEFINE n == Len(sch[j].occ)  m == Len(sch[j].res)  occ == sch[j].occ
<1>3. /\ \A i \in 1..n : occ[i] \in Nat
      /\ \A i, k \in 1..n : i < k => occ[i] + HalfDay + Hour <= occ[k]
  BY <1>1, <1>2, FarApart, ElementOfSeq
<1>. HIDE DEF n, m, occ
<1>4. n \in Nat /\ m \in Nat /\ NextOf(sch[j]) = occ[m + 1]
  BY <1>2 DEF n, m, occ, NextOf
<1>5. m < n => occ[m + 1] \in Nat
  BY <1>3, <1>4
<1>6. m + 1 < n => occ[m + 2] \in Nat /\ occ[m + 1] + HalfDay + Hour <= occ[m + 2]
  <2>1. m + 1 < n => m + 1 \in 1..n /\ m + 2 \in 1..n /\ m + 1 < m + 2
    BY <1>4
  <2>. QED  BY <1>3, <2>1
<1>. QED  BY <1>1, <1>2, <1>4, <1>5, <1>6 DEF n, m, occ

LEMMA FarInit == Init => FarInv
<1>. SUFFICES ASSUME Init PROVE FarInv
  OBVIOUS
<1>1. FarClock
  <2>1. now = 1 /\ nextTick = 1 + Hour /\ due = FALSE /\ phase = "list" /\ crashes = 0
    BY DEF Init
  <2>2. Hour \in Nat /\ Hour > 0
    BY HourAssumption
  <2>3. /\ now \in Nat /\ now > 0 /\ nextTick \in Nat
        /\ now < nextTick /\ nextTick <= now + Hour /\ nextTick = now + Hour
    BY <2>1, <2>2
  <2>4. due \in BOOLEAN /\ crashes \in Nat /\ phase \in {"list", "work", "idle"}
    BY <2>1
  <2>. QED  BY <2>1, <2>3, <2>4 DEF FarClock
<1>2. \A j \in Jobs : FarJob(j)
  BY DEF Init, FarJob
<1>. QED  BY <1>1, <1>2, EmptySeq DEF Init, FarInv

\* The jobs that are listed are due within the hour, and no other one is.
LEMMA FarList == FarInv /\ Far!List => FarInv'
<1>. SUFFICES ASSUME FarInv, Far!List PROVE FarInv'
  OBVIOUS
<1>. DEFINE jobs == {j \in Jobs : sch[j] # None /\ Far!Listed(sch[j])}
<1>1. /\ phase = "list" /\ phase' = "work"
      /\ UNCHANGED <<now, nextTick, due, sch, crashes, ran>>
      /\ stage' = [j \in Jobs |-> IF j \in jobs THEN "queued" ELSE "none"]
      /\ copy' = [j \in Jobs |->
           IF j \in jobs THEN [s |-> sch[j], pick |-> Far!NextRun(sch[j], now)] ELSE None]
  BY DEF Far!List, Far!clockVars, Far!histVars
<1>. HIDE DEF jobs
<1>2. FarClock /\ FarClock'
  BY <1>1 DEF FarInv, FarClock
<1>3. ASSUME NEW j \in Jobs PROVE FarJob(j)'
  <2>1. stage[j] = "none"
    BY <1>1 DEF FarInv, FarJob, FarCopy
  <2>2. CASE sch[j] = None
    <3>1. j \notin jobs
      BY <2>2 DEF jobs
    <3>. QED  BY <1>1, <2>2, <3>1 DEF FarInv, FarJob
  <2>3. CASE sch[j] # None
    <3>. DEFINE s == sch[j]
    <3>1. /\ FarSchedule(j) /\ s \in Far!Schedules /\ s.lease = 0
          /\ s.occ \in FarOccs /\ Len(s.res) <= Len(s.occ)
      BY <2>1, <2>3, FarFields DEF FarSchedule
    <3>2. Len(s.res) < Len(s.occ) => now <= NextOf(s) + Hour /\ NextOf(s) \in Nat
      BY <1>1, <2>3, <3>1, FarFields DEF FarSchedule, Waits
    <3>3. now \in Nat /\ nextTick = now + Hour /\ due = FALSE
      BY <1>1, <1>2 DEF FarClock
    <3>4. /\ Far!NextRun(s, now) # 0 =>
               /\ Len(s.res) < Len(s.occ)
               /\ Far!NextRun(s, now) = NextOf(s) /\ NextOf(s) < now + Hour
          /\ Far!NextRun(s, now) = 0 /\ Len(s.res) < Len(s.occ) => now + Hour <= NextOf(s)
      BY <3>1, <3>2, <3>3, FarNextRun
    <3>5. j \in jobs <=> Far!NextRun(s, now) # 0
      BY <2>3, <3>1 DEF jobs, Far!Listed, Far!IsFree
    <3>. HIDE DEF s
    <3>6. Len(s.res) < Len(s.occ) =>
            IF j \in jobs THEN now <= NextOf(s) + Hour ELSE nextTick <= NextOf(s) + Hour
      BY <3>2, <3>3, <3>4, <3>5, HourAssumption
    <3>7. FarSchedule(j)'
      <4>1. Waits(j)' <=> j \notin jobs
        BY <1>1 DEF Waits
      <4>. QED  BY <1>1, <2>1, <3>1, <3>6, <4>1 DEF FarSchedule, NextOf, s
    <3>8. j \in jobs => FarCopy(j)'
      <4>. SUFFICES ASSUME j \in jobs PROVE FarCopy(j)'
        OBVIOUS
      <4>1. Far!NextRun(s, now) = NextOf(s) /\ NextOf(s) \in Nat /\ NextOf(s) < now + Hour
            /\ Len(s.res) < Len(s.occ)
        BY <3>2, <3>4, <3>5
      <4>2. copy'[j] = [s |-> s, pick |-> NextOf(s)]
        BY <1>1, <4>1 DEF s
      <4>3. copy'[j] \in Far!Picked /\ copy'[j].s = s /\ copy'[j].pick = NextOf(s)
        BY <3>1, <4>1, <4>2 DEF Far!Picked
      <4>. QED  BY <1>1, <2>3, <4>1, <4>3 DEF FarCopy, NextOf, s
    <3>9. j = Zero => sch'[j].occ = <<>>
      BY <1>1, <2>3 DEF FarInv, FarJob
    <3>. QED  BY <1>1, <2>3, <3>7, <3>8, <3>9 DEF FarJob
  <2>. QED  BY <2>2, <2>3
<1>. QED  BY <1>1, <1>2, <1>3 DEF FarInv

\* The fields of the runner's copy.
LEMMA FarCopyFields ==
  ASSUME FarInv, NEW j \in Jobs, stage[j] # "none"
  PROVE  /\ FarCopy(j) /\ phase = "work" /\ FarClock /\ FarSchedule(j) /\ ~Waits(j)
         /\ copy[j].s \in Far!Schedules /\ copy[j].pick \in Nat
         /\ copy[j].s.lease \in Nat /\ copy[j].s.status \in Far!Statuses
BY DEF FarInv, FarJob, FarCopy, Far!Picked, Far!Schedules, Waits

LEMMA FarLease ==
  ASSUME FarInv, NEW j \in Jobs, Far!Lease(j) \/ Far!Go(j)
  PROVE  FarInv'
<1>1. /\ UNCHANGED <<now, nextTick, due, phase, crashes, ran>>
      /\ stage[j] # "none" /\ stage' = [stage EXCEPT ![j] = stage'[j]]
      /\ stage'[j] \in {"leased", "running"}
  BY DEF Far!Lease, Far!Go, Far!clockVars, Far!histVars, FarInv
<1>2. /\ FarCopy(j) /\ phase = "work" /\ FarClock /\ FarSchedule(j) /\ ~Waits(j)
      /\ copy[j].s \in Far!Schedules /\ copy[j].pick \in Nat
  BY <1>1, FarCopyFields
<1>3. /\ DOMAIN sch' = Jobs /\ DOMAIN copy' = Jobs
      /\ \A k \in Jobs : k # j => sch'[k] = sch[k] /\ copy'[k] = copy[k]
      /\ sch'[j] \in Far!Schedules /\ sch'[j].occ = sch[j].occ /\ sch'[j].res = sch[j].res
      /\ copy'[j] \in Far!Picked /\ copy'[j].pick = copy[j].pick
      /\ copy'[j].s.occ = copy[j].s.occ /\ copy'[j].s.res = copy[j].s.res
  <2>1. CASE Far!Go(j)
    BY <1>2, <2>1 DEF Far!Go, FarInv, FarCopy, FarSchedule
  <2>2. CASE Far!Lease(j)
    <3>. DEFINE leased == [copy[j].s EXCEPT !.lease = now + Hour]
    <3>1. /\ leased \in Far!Schedules
          /\ leased.occ = copy[j].s.occ /\ leased.res = copy[j].s.res
      BY <1>2, HourAssumption DEF Far!Schedules, FarClock
    <3>2. sch' = [sch EXCEPT ![j] = leased] /\ copy' = [copy EXCEPT ![j].s = leased]
      BY <2>2 DEF Far!Lease
    <3>. HIDE DEF leased
    <3>3. /\ DOMAIN sch' = Jobs /\ DOMAIN copy' = Jobs /\ sch'[j] = leased
          /\ copy'[j] = [copy[j] EXCEPT !.s = leased]
          /\ \A k \in Jobs : k # j => sch'[k] = sch[k] /\ copy'[k] = copy[k]
      BY <3>2 DEF FarInv
    <3>4. copy'[j] \in Far!Picked /\ copy'[j].s = leased /\ copy'[j].pick = copy[j].pick
      BY <1>2, <3>1, <3>3 DEF FarCopy, Far!Picked
    <3>. QED  BY <1>2, <3>1, <3>3, <3>4 DEF FarCopy
  <2>. QED  BY <2>1, <2>2
<1>4. FarJob(j)'
  <2>1. ~Waits(j)'
    BY <1>1, <1>2 DEF Waits
  <2>2. sch'[j] # None
    BY <1>3, NoneAssumption DEF Far!Schedules, Schedules, Far!Statuses, Statuses
  <2>3. FarSchedule(j)'
    BY <1>1, <1>2, <1>3, <2>1 DEF FarSchedule, NextOf
  <2>4. FarCopy(j)'
    BY <1>1, <1>2, <1>3, <2>2 DEF FarCopy, NextOf
  <2>5. j = Zero => sch'[j].occ = <<>>
    BY <1>2, <1>3 DEF FarInv, FarJob, FarCopy
  <2>. QED  BY <1>1, <2>2, <2>3, <2>4, <2>5 DEF FarJob
<1>5. ASSUME NEW k \in Jobs, k # j PROVE FarJob(k)'
  <2>1. stage'[k] = stage[k]
    BY <1>1, <1>5 DEF FarInv
  <2>2. Waits(k)' <=> Waits(k)
    BY <1>1, <2>1 DEF Waits
  <2>. QED  BY <1>1, <1>3, <1>5, <2>1, <2>2, FarOther
<1>6. FarClock'
  BY <1>1, <1>2 DEF FarClock
<1>. QED  BY <1>1, <1>3, <1>4, <1>5, <1>6 DEF FarInv

\* A result: the next occurrence is far away.
LEMMA FarResult ==
  ASSUME FarInv, NEW j \in Jobs, Far!RunDone(j) \/ Far!Skip(j)
  PROVE  FarInv'
<1>1. PICK x \in {"executed", "skipped"} : Far!StoreResult(j, x, Far!StatusAfter(copy[j].s))
  BY DEF Far!RunDone, Far!Skip
<1>. DEFINE s == copy[j].s
            after == [s EXCEPT !.res = Append(@, x), !.lease = 0, !.status = Far!StatusAfter(s)]
<1>2. /\ UNCHANGED <<now, nextTick, due, phase, crashes>> /\ stage[j] # "none"
      /\ stage' = [stage EXCEPT ![j] = "none"] /\ copy' = [copy EXCEPT ![j] = None]
      /\ sch' = [sch EXCEPT ![j] = after] /\ ran' = [ran EXCEPT ![j] = Append(@, copy[j].pick)]
  BY <1>1 DEF Far!StoreResult, Far!Drop, Far!clockVars
<1>3. /\ FarCopy(j) /\ phase = "work" /\ FarClock /\ FarSchedule(j) /\ ~Waits(j)
      /\ s \in Far!Schedules /\ copy[j].pick \in Nat /\ s.status \in Far!Statuses
  BY <1>2, FarCopyFields
<1>4. Far!StatusAfter(s) \in Far!Statuses
  BY <1>3 DEF Far!StatusAfter, Far!Statuses
<1>5. /\ sch[j].res \in Seq({"executed", "skipped"}) /\ Len(sch[j].res) \in Nat
      /\ Len(sch[j].occ) \in Nat /\ sch[j] # None
      /\ s.res = sch[j].res /\ s.occ = sch[j].occ /\ ran[j] \in Seq(Nat)
  BY <1>3, FarFields DEF FarCopy, FarInv
<1>6. /\ Append(s.res, x) \in Seq({"executed", "skipped"})
      /\ Len(Append(s.res, x)) = Len(sch[j].res) + 1
  BY <1>5, AppendProperties
<1>7. /\ after \in Far!Schedules /\ after.occ = sch[j].occ /\ after.res = Append(s.res, x)
      /\ after.lease = 0
  BY <1>3, <1>4, <1>5, <1>6 DEF Far!Schedules
<1>. HIDE DEF after
<1>8. /\ DOMAIN sch' = Jobs /\ DOMAIN copy' = Jobs /\ DOMAIN stage' = Jobs /\ DOMAIN ran' = Jobs
      /\ \A k \in Jobs : k # j => /\ sch'[k] = sch[k] /\ copy'[k] = copy[k]
                                  /\ stage'[k] = stage[k] /\ ran'[k] = ran[k]
      /\ sch'[j] = after /\ stage'[j] = "none" /\ ran'[j] = Append(ran[j], copy[j].pick)
  BY <1>2 DEF FarInv
<1>9. /\ ran'[j] \in Seq(Nat) /\ Len(ran'[j]) = Len(ran[j]) + 1
      /\ \A i \in 1..Len(ran[j]) : ran'[j][i] = ran[j][i]
      /\ ran'[j][Len(ran[j]) + 1] = copy[j].pick
  BY <1>3, <1>5, <1>8, AppendProperties
<1>10. ran' \in [Jobs -> Seq(Nat)]
  BY <1>2, <1>8, <1>9 DEF FarInv
<1>11. FarJob(j)'
  <2>1. sch'[j] # None
    BY <1>7, <1>8, NoneAssumption DEF Far!Schedules, Schedules, Far!Statuses, Statuses
  <2>2. /\ Len(sch'[j].res) = Len(sch[j].res) + 1 /\ sch'[j].occ = sch[j].occ
        /\ sch'[j].lease = 0 /\ sch'[j] \in Far!Schedules
    BY <1>6, <1>7, <1>8
  <2>3. Len(sch[j].res) < Len(sch[j].occ) /\ copy[j].pick = NextOf(sch[j])
        /\ copy[j].pick < now + Hour /\ now <= NextOf(sch[j]) + Hour
    BY <1>3 DEF FarCopy, FarSchedule
  <2>4. Len(ran[j]) = Len(sch[j].res) /\ Len(ran'[j]) = Len(sch'[j].res)
    BY <1>3, <1>9, <2>2 DEF FarSchedule
  <2>5. ASSUME NEW i \in 1..Len(ran'[j])
        PROVE  ran'[j][i] = sch'[j].occ[i] /\ ran'[j][i] < now' + Hour
    <3>1. CASE i = Len(ran[j]) + 1
      BY <1>2, <1>9, <2>2, <2>3, <2>4, <3>1 DEF NextOf
    <3>2. CASE i # Len(ran[j]) + 1
      <4>1. i \in 1..Len(ran[j])
        BY <1>5, <1>9, <2>4, <3>2
      <4>. QED  BY <1>2, <1>3, <1>9, <2>2, <4>1 DEF FarSchedule
    <3>. QED  BY <3>1, <3>2
  <2>6. Len(sch'[j].res) < Len(sch'[j].occ) => nextTick <= NextOf(sch'[j]) + Hour
    <3>. SUFFICES ASSUME Len(sch'[j].res) < Len(sch'[j].occ)
                  PROVE  nextTick <= NextOf(sch'[j]) + Hour
      OBVIOUS
    <3>1. /\ sch[j].occ[Len(sch[j].res) + 2] \in Nat /\ NextOf(sch[j]) \in Nat
          /\ NextOf(sch[j]) + HalfDay + Hour <= sch[j].occ[Len(sch[j].res) + 2]
      BY <1>5, <2>2, <2>3, FarFields
    <3>2. NextOf(sch'[j]) = sch[j].occ[Len(sch[j].res) + 2]
      BY <1>5, <2>2 DEF NextOf
    <3>3. nextTick = now + Hour /\ now \in Nat
      BY <1>3 DEF FarClock
    <3>4. \A y, z \in Nat : now <= y + Hour /\ y + HalfDay + Hour <= z => now + Hour <= z + Hour
      BY <3>3, HourAssumption
    <3>. QED  BY <2>3, <3>1, <3>2, <3>3, <3>4
  <2>7. Waits(j)'
    BY <1>2, <1>3, <1>8 DEF Waits
  <2>8. Len(sch'[j].res) <= Len(sch'[j].occ)
    BY <1>5, <2>2, <2>3
  <2>9. FarSchedule(j)'
    BY <1>2, <1>3, <2>2, <2>4, <2>5, <2>6, <2>7, <2>8 DEF FarSchedule
  <2>10. j = Zero => sch'[j].occ = <<>>
    BY <1>5, <2>2 DEF FarInv, FarJob
  <2>. QED  BY <1>8, <2>1, <2>9, <2>10 DEF FarJob
<1>12. ASSUME NEW k \in Jobs, k # j PROVE FarJob(k)'
  <2>1. Waits(k)' <=> Waits(k)
    BY <1>2, <1>8, <1>12 DEF Waits
  <2>. QED  BY <1>2, <1>8, <1>12, <2>1, FarOther
<1>13. FarClock'
  BY <1>2, <1>3 DEF FarClock
<1>. QED  BY <1>8, <1>10, <1>11, <1>12, <1>13 DEF FarInv

\* The steps of the runner's round, and the tick.
LEMMA FarRound ==
  ASSUME FarInv,
         Far!RoundDone \/ Far!Wake \/ Far!Pass \/ UNCHANGED Far!vars
  PROVE  FarInv'
<1>1. UNCHANGED <<stage, copy, sch, ran, crashes>>
  BY DEF Far!RoundDone, Far!Wake, Far!Pass, Far!vars, Far!clockVars, Far!runnerVars, Far!histVars
<1>2. FarClock
  BY DEF FarInv
<1>3. CASE Far!RoundDone \/ Far!Wake \/ UNCHANGED Far!vars
  <2>1. UNCHANGED <<now, nextTick>>
    BY <1>3 DEF Far!RoundDone, Far!Wake, Far!vars, Far!clockVars
  <2>2. \/ /\ phase = "work" /\ phase' = "idle" /\ due' = due /\ due = FALSE
           /\ \A j \in Jobs : stage[j] = "none"
        \/ phase = "idle" /\ due = TRUE /\ phase' = "list" /\ due' = FALSE
        \/ phase' = phase /\ due' = due
    BY <1>2, <1>3 DEF Far!RoundDone, Far!Wake, Far!vars, Far!clockVars, Far!runnerVars, FarClock
  <2>3. ASSUME NEW j \in Jobs PROVE FarJob(j)'
    <3>1. Waits(j)' <=> Waits(j)
      BY <1>1, <2>2 DEF Waits
    <3>2. FarJob(j)
      BY DEF FarInv
    <3>3. FarSchedule(j) /\ sch[j] # None => FarSchedule(j)'
      BY <1>1, <2>1, <3>1 DEF FarSchedule, NextOf
    <3>4. FarCopy(j) /\ stage[j] # "none" => FarCopy(j)'
      BY <1>1, <2>1, <2>2 DEF FarCopy, NextOf
    <3>. QED  BY <1>1, <3>2, <3>3, <3>4 DEF FarJob
  <2>4. FarClock'
    <3>1. /\ now \in Nat /\ now > 0 /\ nextTick \in Nat /\ crashes \in Nat
          /\ now < nextTick /\ nextTick <= now + Hour
      BY <1>2 DEF FarClock
    <3>2. /\ phase' \in {"list", "work", "idle"} /\ due' \in BOOLEAN
          /\ due' => phase' = "idle"
          /\ due' \/ phase' # "idle" => nextTick = now + Hour
      <4>1. CASE phase = "work" /\ phase' = "idle" /\ due' = due /\ due = FALSE
        BY <1>2, <4>1 DEF FarClock
      <4>2. CASE phase = "idle" /\ due = TRUE /\ phase' = "list" /\ due' = FALSE
        BY <1>2, <4>2 DEF FarClock
      <4>3. CASE phase' = phase /\ due' = due
        BY <1>2, <4>3 DEF FarClock
      <4>. QED  BY <2>2, <4>1, <4>2, <4>3
    <3>. QED  BY <1>1, <2>1, <3>1, <3>2 DEF FarClock
  <2>. QED  BY <1>1, <2>3, <2>4 DEF FarInv
<1>4. CASE Far!Pass
  <2>1. /\ phase' = phase /\ phase = "idle" /\ due = FALSE /\ now' = now + 1
        /\ IF now' = nextTick THEN due' = TRUE /\ nextTick' = nextTick + Hour
           ELSE due' = due /\ nextTick' = nextTick
    BY <1>2, <1>4 DEF Far!Pass, Far!runnerVars, FarClock
  <2>2. now \in Nat /\ nextTick \in Nat /\ now < nextTick /\ nextTick <= now + Hour
        /\ Hour \in Nat /\ Hour > 0
    BY <1>2, HourAssumption DEF FarClock
  <2>3. FarClock'
    <3>1. CASE now' = nextTick
      <4>1. /\ now' \in Nat /\ now' > 0 /\ nextTick' \in Nat
            /\ now' < nextTick' /\ nextTick' <= now' + Hour /\ nextTick' = now' + Hour
        BY <2>1, <2>2, <3>1
      <4>2. due' \in BOOLEAN /\ phase' = "idle" /\ crashes' \in Nat
        BY <1>1, <1>2, <2>1, <3>1 DEF FarClock
      <4>. QED  BY <4>1, <4>2 DEF FarClock
    <3>2. CASE now' # nextTick
      <4>1. /\ now' \in Nat /\ now' > 0 /\ nextTick' \in Nat
            /\ now' < nextTick' /\ nextTick' <= now' + Hour
        BY <2>1, <2>2, <3>2
      <4>2. due' = FALSE /\ phase' = "idle" /\ crashes' \in Nat
        BY <1>1, <1>2, <2>1, <3>2 DEF FarClock
      <4>. QED  BY <4>1, <4>2 DEF FarClock
    <3>. QED  BY <3>1, <3>2
  <2>4. ASSUME NEW j \in Jobs PROVE FarJob(j)'
    <3>1. stage[j] = "none" /\ Waits(j) /\ FarJob(j)
      BY <2>1 DEF FarInv, FarJob, FarCopy, Waits
    <3>2. ASSUME sch[j] # None PROVE FarSchedule(j)'
      <4>1. /\ FarSchedule(j) /\ ran[j] \in Seq(Nat)
            /\ Len(sch[j].res) < Len(sch[j].occ) => NextOf(sch[j]) \in Nat
        BY <3>2, FarFields DEF FarInv
      <4>2. Len(sch[j].res) < Len(sch[j].occ) => nextTick <= NextOf(sch[j]) + Hour
        BY <3>1, <4>1 DEF FarSchedule
      <4>3. Waits(j)' <=> now' # nextTick
        BY <1>1, <2>1 DEF Waits
      <4>4. Len(sch[j].res) < Len(sch[j].occ) =>
              IF Waits(j)' THEN nextTick' <= NextOf(sch[j]) + Hour
              ELSE now' <= NextOf(sch[j]) + Hour
        BY <2>1, <4>2, <4>3
      <4>5. \A i \in 1..Len(ran[j]) : ran[j][i] = sch[j].occ[i] /\ ran[j][i] < now' + Hour
        <5>1. \A x \in Nat : x < now + Hour => x < now' + Hour
          BY <2>1, <2>2
        <5>2. \A i \in 1..Len(ran[j]) : ran[j][i] \in Nat
          BY <4>1, ElementOfSeq
        <5>. QED  BY <4>1, <5>1, <5>2 DEF FarSchedule
      <4>. QED  BY <1>1, <4>1, <4>4, <4>5 DEF FarSchedule, NextOf
    <3>. QED  BY <1>1, <3>1, <3>2 DEF FarJob
  <2>. QED  BY <1>1, <2>3, <2>4 DEF FarInv
<1>. QED  BY <1>3, <1>4

\* A schedule is added before the time passes, and its occurrences come later;
\* its status does not matter.
LEMMA FarHandler ==
  ASSUME FarInv, NEW j \in Jobs \ {Zero}, Far!Handler(j)
  PROVE  FarInv'
<1>1. /\ UNCHANGED <<now, nextTick, due, phase, crashes, stage, copy, ran>>
  BY DEF Far!Handler, Far!Add, Far!Stop, Far!Start, Far!Remove, Far!SetStatus, Far!clockVars,
         Far!runnerVars
<1>2. FarClock /\ FarClock'
  BY <1>1 DEF FarInv, FarClock
<1>3. \A k \in Jobs : Waits(k)' <=> Waits(k)
  BY <1>1 DEF Waits
<1>4. CASE Far!Add(j)
  <2>1. PICK occ \in FarCalendars :
          sch' = [sch EXCEPT ![j] =
                    [occ |-> occ, res |-> <<>>, status |-> "running", lease |-> 0]]
    BY <1>4 DEF Far!Add
  <2>. DEFINE s == [occ |-> occ, res |-> <<>>, status |-> "running", lease |-> 0]
  <2>2. sch[j] = None /\ now <= 1
    BY <1>4 DEF Far!Add
  <2>3. occ \in Seq(Nat) /\ Len(occ) \in Nat /\ \A i \in 1..Len(occ) : occ[i] > 1
    BY FarAssumption, LenProperties
  <2>4. /\ s \in Far!Schedules /\ s.occ = occ /\ s.res = <<>> /\ s.lease = 0
    BY <2>3 DEF Far!Schedules, Far!Statuses
  <2>. HIDE DEF s
  <2>5. DOMAIN sch' = Jobs /\ sch'[j] = s /\ \A k \in Jobs : k # j => sch'[k] = sch[k]
    BY <2>1 DEF FarInv, s
  <2>6. ran[j] = <<>> /\ stage[j] = "none"
    BY <2>2 DEF FarInv, FarJob, FarCopy
  <2>7. Len(s.res) = 0 /\ Len(ran[j]) = 0
    BY <2>4, <2>6
  <2>8. Len(s.res) < Len(s.occ) => nextTick <= NextOf(s) + Hour /\ now <= NextOf(s) + Hour
    <3>. SUFFICES ASSUME Len(occ) > 0 PROVE nextTick <= occ[1] + Hour /\ now <= occ[1] + Hour
      BY <2>4, <2>7 DEF NextOf
    <3>1. occ[1] \in Nat /\ occ[1] > 1
      BY <2>3, ElementOfSeq
    <3>2. now \in Nat /\ nextTick \in Nat /\ nextTick <= now + Hour /\ Hour \in Nat
      BY <1>2, HourAssumption DEF FarClock
    <3>. QED  BY <2>2, <3>1, <3>2
  <2>9. FarSchedule(j)'
    <3>1. 0 <= Len(occ) /\ \A i \in 1..0 : FALSE
      BY <2>3
    <3>2. sch'[j].occ = occ /\ sch'[j].res = <<>> /\ sch'[j].lease = 0 /\ sch'[j] = s /\ ran'[j] = ran[j]
      BY <1>1, <2>4, <2>5
    <3>. QED  BY <1>1, <2>4, <2>5, <2>6, <2>7, <2>8, <3>1, <3>2 DEF FarSchedule, FarOccs, NextOf
  <2>10. sch'[j] # None
    BY <2>4, <2>5, NoneAssumption DEF Far!Schedules, Schedules, Far!Statuses, Statuses
  <2>11. FarJob(j)'
    BY <1>1, <2>6, <2>9, <2>10 DEF FarJob
  <2>12. \A k \in Jobs : k # j => FarJob(k)'
    BY <1>1, <1>3, <2>5, FarOther
  <2>. QED  BY <1>1, <1>2, <2>5, <2>11, <2>12 DEF FarInv
<1>5. CASE Far!Stop(j) \/ Far!Start(j) \/ Far!Remove(j)
  <2>1. PICK status \in Far!Statuses : sch' = [sch EXCEPT ![j].status = status]
    BY <1>5 DEF Far!Stop, Far!Start, Far!Remove, Far!SetStatus, Far!Statuses
  <2>2. sch[j] # None
    BY <1>5 DEF Far!Stop, Far!Start, Far!Remove, Far!SetStatus
  <2>3. FarSchedule(j) /\ sch[j] \in Far!Schedules
    BY <2>2, FarFields
  <2>4. /\ DOMAIN sch' = Jobs /\ \A k \in Jobs : k # j => sch'[k] = sch[k]
        /\ sch'[j] = [sch[j] EXCEPT !.status = status]
    BY <2>1 DEF FarInv
  <2>5. /\ sch'[j] \in Far!Schedules /\ sch'[j].occ = sch[j].occ /\ sch'[j].res = sch[j].res
        /\ sch'[j].lease = sch[j].lease
    BY <2>3, <2>4 DEF Far!Schedules
  <2>6. sch'[j] # None
    BY <2>5, NoneAssumption DEF Far!Schedules, Schedules, Far!Statuses, Statuses
  <2>7. FarSchedule(j)'
    BY <1>1, <1>3, <2>3, <2>5 DEF FarSchedule, NextOf
  <2>8. stage[j] # "none" => FarCopy(j)'
    BY <1>1, <2>5, <2>6 DEF FarInv, FarJob, FarCopy, NextOf
  <2>9. FarJob(j)'
    BY <1>1, <2>2, <2>5, <2>6, <2>7, <2>8 DEF FarInv, FarJob
  <2>10. \A k \in Jobs : k # j => FarJob(k)'
    BY <1>1, <1>3, <2>4, FarOther
  <2>. QED  BY <1>1, <1>2, <2>4, <2>9, <2>10 DEF FarInv
<1>. QED  BY <1>4, <1>5 DEF Far!Handler

\* A schedule that was not found has no occurrences.
LEMMA FarNotFound ==
  ASSUME FarInv, Far!NotFound
  PROVE  FarInv'
<1>1. PICK status \in Strays : Far!SetStatusStray(status)
  BY DEF Far!NotFound
<1>. DEFINE s == [occ |-> <<>>, res |-> <<>>, status |-> status, lease |-> 0]
<1>2. /\ UNCHANGED <<now, nextTick, due, phase, crashes, stage, copy, ran>>
      /\ sch' = [sch EXCEPT ![Zero] = s]
  BY <1>1 DEF Far!SetStatusStray, Far!clockVars, Far!runnerVars
<1>3. /\ s \in Far!Schedules /\ s # None
      /\ s.occ = <<>> /\ s.res = <<>> /\ s.lease = 0 /\ Zero \in Jobs
      /\ Len(s.occ) = 0 /\ Len(s.res) = 0
  <2>1. <<>> \in Seq(Nat) /\ <<>> \in Seq({"executed", "skipped"})
    BY EmptySeq
  <2>2. s \in Far!Schedules /\ s \in Schedules
    BY <2>1, StraysAssumption DEF Far!Schedules, Far!Statuses, Schedules, Statuses
  <2>. QED  BY <2>2, ZeroAssumption, NoneAssumption
<1>. HIDE DEF s
<1>4. DOMAIN sch' = Jobs /\ sch'[Zero] = s /\ \A k \in Jobs : k # Zero => sch'[k] = sch[k]
  BY <1>2, <1>3 DEF FarInv
<1>5. ran[Zero] = <<>> /\ stage[Zero] = "none"
  <2>1. FarJob(Zero) /\ ran[Zero] \in Seq(Nat)
    BY <1>3 DEF FarInv
  <2>2. CASE sch[Zero] = None
    BY <2>1, <2>2 DEF FarJob, FarCopy
  <2>3. CASE sch[Zero] # None
    <3>1. sch[Zero].occ = <<>> /\ FarSchedule(Zero) /\ Len(sch[Zero].occ) = 0
      BY <2>1, <2>3 DEF FarJob
    <3>2. Len(sch[Zero].res) = 0
      BY <1>3, <2>3, <3>1, FarFields DEF FarSchedule
    <3>3. ran[Zero] = <<>>
      BY <2>1, <3>1, <3>2, EmptySeq DEF FarSchedule
    <3>4. ~FarCopy(Zero)
      BY <3>1, <3>2 DEF FarCopy
    <3>. QED  BY <2>1, <3>3, <3>4 DEF FarJob
  <2>. QED  BY <2>2, <2>3
<1>6. FarJob(Zero)'
  <2>1. Len(ran[Zero]) = 0 /\ \A i \in 1..0 : FALSE
    BY <1>5
  <2>2. FarSchedule(Zero)'
    BY <1>2, <1>3, <1>4, <1>5, <2>1 DEF FarSchedule, FarOccs
  <2>. QED  BY <1>2, <1>3, <1>4, <1>5, <2>2 DEF FarJob
<1>7. \A k \in Jobs : k # Zero => FarJob(k)'
  <2>1. \A k \in Jobs : Waits(k)' <=> Waits(k)
    BY <1>2 DEF Waits
  <2>. QED  BY <1>2, <1>4, <2>1, FarOther
<1>8. FarClock'
  BY <1>2 DEF FarInv, FarClock
<1>. QED  BY <1>2, <1>4, <1>6, <1>7, <1>8 DEF FarInv

LEMMA FarStep == FarInv /\ [Far!Next]_Far!vars => FarInv'
<1>. SUFFICES ASSUME FarInv, [Far!Next]_Far!vars PROVE FarInv'
  OBVIOUS
<1>1. ~Far!ListFails /\ ~Far!Crash /\ ~Far!Restart
  BY DEF Far!ListFails, Far!Crash, Far!Restart, FarInv, FarClock
<1>2. \A j \in Jobs : ~Far!LeaseFails(j) /\ ~Far!RunFails(j)
  BY DEF Far!LeaseFails, Far!RunFails
<1>. QED  BY <1>1, <1>2, FarList, FarLease, FarResult, FarRound, FarHandler,
             FarNotFound
          DEF Far!Next, Far!Runner, Far!RunJob

\* The invariant gives the property.
LEMMA FarOnTime == FarInv => Far!EachOnceOnTime
<1>. SUFFICES ASSUME FarInv, NEW j \in Jobs, sch[j] # None
              PROVE  /\ \A i \in DOMAIN ran[j] :
                          ran[j][i] = sch[j].occ[i] /\ ran[j][i] < now + Hour
                     /\ phase = "idle" /\ ~due =>
                          \A i \in DOMAIN sch[j].occ :
                            sch[j].occ[i] + Hour < now => i <= Len(sch[j].res)
  BY DEF Far!EachOnceOnTime
<1>1. /\ FarSchedule(j) /\ ran[j] \in Seq(Nat) /\ sch[j].occ \in Seq(Nat)
      /\ Len(sch[j].occ) \in Nat /\ Len(sch[j].res) \in Nat
      /\ Len(sch[j].res) < Len(sch[j].occ) => NextOf(sch[j]) \in Nat
  BY FarFields DEF FarInv
<1>2. DOMAIN ran[j] = 1..Len(ran[j]) /\ DOMAIN sch[j].occ = 1..Len(sch[j].occ)
  BY <1>1, LenProperties
<1>3. ASSUME phase = "idle" /\ ~due, NEW i \in 1..Len(sch[j].occ), i > Len(sch[j].res)
      PROVE  ~(sch[j].occ[i] + Hour < now)
  <2>. DEFINE occ == sch[j].occ  m == Len(sch[j].res) + 1
  <2>1. /\ m \in 1..Len(occ) /\ m <= i /\ occ[m] = NextOf(sch[j])
        /\ occ[m] \in Nat /\ occ[i] \in Nat
    <3>1. m \in 1..Len(occ) /\ m <= i /\ Len(sch[j].res) < Len(sch[j].occ)
      BY <1>1, <1>3
    <3>2. \A k \in 1..Len(sch[j].occ) : sch[j].occ[k] \in Nat
      BY <1>1, ElementOfSeq
    <3>. QED  BY <1>3, <3>1, <3>2 DEF NextOf
  <2>2. nextTick <= occ[m] + Hour
    BY <1>1, <1>3, <2>1 DEF FarSchedule, Waits
  <2>3. occ[m] <= occ[i]
    <3>1. m < i => occ[m] + HalfDay + Hour <= occ[i]
      BY <1>1, <1>3, <2>1, FarApart DEF FarSchedule
    <3>. HIDE DEF occ, m
    <3>. QED  BY <1>3, <2>1, <3>1, HourAssumption
  <2>4. now < nextTick /\ now \in Nat /\ nextTick \in Nat
    BY DEF FarInv, FarClock
  <2>. HIDE DEF occ, m
  <2>5. ~(occ[i] + Hour < now)
    BY <2>1, <2>2, <2>3, <2>4, HourAssumption
  <2>. QED  BY <2>5 DEF occ
<1>. QED  BY SMTT(30), <1>1, <1>2, <1>3 DEF FarSchedule

\* In the setting of occurrences far apart the invariant holds.
LEMMA FarHolds == HubSpec => [](part = "spaced" => FarInv)
<1>1. HubInit => (part = "spaced" => FarInv)
  BY FarInit DEF HubInit
<1>2. ASSUME part = "spaced" => FarInv, [HubNext]_<<vars, storage, engine, part>>
      PROVE  (part = "spaced" => FarInv)'
  <2>. SUFFICES ASSUME part' = "spaced" PROVE FarInv'
    OBVIOUS
  <2>1. part = "spaced" /\ (Far!Next \/ UNCHANGED vars)
    BY <1>2 DEF HubNext
  <2>2. UNCHANGED vars => UNCHANGED Far!vars
    BY DEF vars, clockVars, runnerVars, histVars, Far!vars, Far!clockVars, Far!runnerVars,
           Far!histVars
  <2>. QED  BY <1>2, <2>1, <2>2, FarStep
<1>. QED  BY <1>1, <1>2, PTL DEF HubSpec

\* Far apart: each occurrence once and on time.
THEOREM FarApartIsOnTime == HubSpec => []SpacedOnTime
<1>1. (part = "spaced" => FarInv) => SpacedOnTime
  <2>. SUFFICES ASSUME part = "spaced", FarInv PROVE EachOnceOnTime
    BY DEF SpacedOnTime
  <2>1. Far!EachOnceOnTime
    BY FarOnTime
  <2>. QED  BY <2>1 DEF EachOnceOnTime, Far!EachOnceOnTime
<1>. QED  BY <1>1, FarHolds, PTL

-----------------------------------------------------------------------------
(* The query engine.  What is given to the reader is numbered in the order *)
(* of the source.  A rule with groups answers from its window, in which no *)
(* record is twice, and marks what it answers: what is in the window and   *)
(* was given is marked.  A rule without groups answers with the record     *)
(* that was just read.                                                     *)

\* A set of numbers that is not empty has a least one.
LEMMA LeastExists ==
  ASSUME NEW S \in SUBSET Nat, S # {}
  PROVE  \E x \in S : \A y \in S : x <= y
<1>1. PICK x \in S : \A y \in S : ~(<<y, x>> \in OpToRel(<, Nat))
  BY NatLessThanWellFounded, WFMin
<1>2. \A y \in S : ~(y < x)
  BY <1>1, Zenon DEF OpToRel
<1>3. \A y \in S : x <= y
  BY <1>2
<1> QED  BY <1>3

\* The function by which At picks elements of a sequence exists ...
Picks(s, D, pick) ==
  pick = [i \in 0..Len(s) |->
    IF i = 0 THEN <<>>
    ELSE IF i \in D THEN Append(pick[i - 1], s[i]) ELSE pick[i - 1]]

LEMMA PickExists ==
  ASSUME NEW S, NEW s \in Seq(S), NEW D
  PROVE  \E pick : Picks(s, D, pick)
<1> DEFINE Then(k, i) == IF i \in D THEN Append(k, s[i]) ELSE k
           Upto(m, f) == f = [i \in 0..m |-> IF i = 0 THEN <<>> ELSE Then(f[i - 1], i)]
           Bad == {m \in 0..Len(s) : ~ \E f : Upto(m, f)}
<1>1. Len(s) \in Nat
  BY LenProperties
<1> HIDE DEF Then
<1>2. Upto(0, [i \in 0..0 |-> <<>>])
  OBVIOUS
<1>3. ASSUME NEW m \in Nat, NEW f, Upto(m, f)
      PROVE  \E g : Upto(m + 1, g)
  <2> DEFINE g == [i \in 0..(m + 1) |-> IF i = m + 1 THEN Then(f[m], m + 1) ELSE f[i]]
  <2>1. \A i \in 0..(m + 1) : g[i] = IF i = 0 THEN <<>> ELSE Then(g[i - 1], i)
    <3> SUFFICES ASSUME NEW i \in 0..(m + 1)
                 PROVE  g[i] = IF i = 0 THEN <<>> ELSE Then(g[i - 1], i)
      OBVIOUS
    <3>1. CASE i = m + 1
      BY <3>1
    <3>2. CASE i \in 0..m
      <4>1. f[i] = IF i = 0 THEN <<>> ELSE Then(f[i - 1], i)
        BY <1>3, <3>2
      <4>2. g[i] = f[i] /\ (i # 0 => g[i - 1] = f[i - 1])
        BY <3>2
      <4> QED  BY <4>1, <4>2
    <3> QED  BY <3>1, <3>2
  <2>2. g = [i \in 0..(m + 1) |-> g[i]]
    OBVIOUS
  <2> HIDE DEF g
  <2>3. Upto(m + 1, g)
    BY <2>1, <2>2
  <2> QED  BY <2>3
<1> HIDE DEF Upto
<1>4. Bad = {}
  <2> SUFFICES ASSUME Bad # {}  PROVE FALSE
    OBVIOUS
  <2>1. PICK m \in Bad : \A k \in Bad : m <= k
    <3>1. Bad \in SUBSET Nat
      BY <1>1
    <3> HIDE DEF Bad
    <3> QED  BY <3>1, LeastExists
  <2>2. m # 0
    BY <1>2, <2>1
  <2>3. m - 1 \in 0..Len(s) /\ m - 1 \notin Bad
    BY <1>1, <2>1, <2>2
  <2>4. PICK f : Upto(m - 1, f)
    BY <2>3
  <2>5. \E g : Upto(m, g)
    <3>1. m - 1 \in Nat /\ (m - 1) + 1 = m
      BY <1>1, <2>1, <2>3
    <3>2. \E g : Upto((m - 1) + 1, g)
      BY <1>3, <2>4, <3>1
    <3> QED  BY <3>1, <3>2
  <2> QED  BY <2>1, <2>5
<1>5. \E f : Upto(Len(s), f)
  BY <1>1, <1>4
<1> QED  BY <1>5 DEF Upto, Then, Picks

\* No record is in the window twice.
Distinct(w) == \A i, j \in DOMAIN w : i # j => w[i].n # w[j].n

\* ... and what it has picked of a prefix are elements of that prefix, each once.
LEMMA AtFacts ==
  ASSUME NEW S, NEW s \in Seq(S), NEW D
  PROVE  /\ Engine!At(s, D) \in Seq(S)
         /\ \A e \in DOMAIN Engine!At(s, D) :
              \E k \in DOMAIN s : k \in D /\ Engine!At(s, D)[e] = s[k]
         /\ \A k \in DOMAIN s : k \in D =>
              \E e \in DOMAIN Engine!At(s, D) : Engine!At(s, D)[e] = s[k]
         /\ Distinct(s) => Distinct(Engine!At(s, D))
<1> DEFINE pick == CHOOSE f : Picks(s, D, f)
           From(u, m) ==
             /\ u \in Seq(S)
             /\ \A e \in DOMAIN u : \E k \in 1..m : u[e] = s[k] /\ k \in D
             /\ \A k \in 1..m : k \in D => \E e \in DOMAIN u : u[e] = s[k]
             /\ Distinct(s) => Distinct(u)
           Bad == {m \in 0..Len(s) : ~From(pick[m], m)}
<1>1. Len(s) \in Nat /\ s \in [1..Len(s) -> S] /\ DOMAIN s = 1..Len(s)
  BY LenProperties
<1>2. Engine!At(s, D) = pick[Len(s)]
  BY DEF Engine!At, Picks
<1>3. Picks(s, D, pick)
  <2>1. \E f : Picks(s, D, f)
    BY PickExists
  <2> QED  BY <2>1, Zenon
<1> HIDE DEF pick
<1>4. /\ pick[0] = <<>>
      /\ \A i \in 1..Len(s) :
           pick[i] = IF i \in D THEN Append(pick[i - 1], s[i]) ELSE pick[i - 1]
  <2>1. \A i \in 0..Len(s) : pick[i] =
          IF i = 0 THEN <<>>
          ELSE IF i \in D THEN Append(pick[i - 1], s[i]) ELSE pick[i - 1]
    BY <1>3 DEF Picks
  <2> QED  BY <1>1, <2>1
<1>5. From(pick[0], 0)
  BY <1>4 DEF Distinct
<1>6. ASSUME NEW m \in 1..Len(s), From(pick[m - 1], m - 1)
      PROVE  From(pick[m], m)
  <2> DEFINE u == pick[m - 1]
  <2>1. s[m] \in S /\ m \in Nat /\ m - 1 \in Nat /\ \A k \in 1..(m - 1) : k \in 1..m
    BY <1>1
  <2> HIDE DEF u
  <2>2. /\ u \in Seq(S)
        /\ \A e \in DOMAIN u : \E k \in 1..(m - 1) : u[e] = s[k] /\ k \in D
        /\ \A k \in 1..(m - 1) : k \in D => \E e \in DOMAIN u : u[e] = s[k]
    BY <1>6 DEF u
  <2>3. CASE m \notin D
    <3>1. pick[m] = u
      BY <1>4, <2>3 DEF u
    <3>2. \A k \in 1..m : k \in D => k \in 1..(m - 1)
      BY <2>1, <2>3
    <3> QED  BY <1>6, <2>1, <2>2, <3>1, <3>2 DEF u
  <2>4. CASE m \in D
    <3> DEFINE v == Append(u, s[m])
    <3>1. pick[m] = v
      BY <1>4, <2>4 DEF u
    <3>2. /\ v \in Seq(S) /\ Len(u) \in Nat
          /\ DOMAIN v = 1..(Len(u) + 1) /\ DOMAIN u = 1..Len(u)
          /\ \A e \in 1..Len(u) : v[e] = u[e]
          /\ v[Len(u) + 1] = s[m]
      BY <2>1, <2>2, AppendProperties, LenProperties
    <3> HIDE DEF v
    <3>3. \A e \in DOMAIN v : e = Len(u) + 1 \/ e \in DOMAIN u
      BY <3>2
    <3>4. \A e \in DOMAIN v : \E k \in 1..m : v[e] = s[k] /\ k \in D
      <4> SUFFICES ASSUME NEW e \in DOMAIN v  PROVE \E k \in 1..m : v[e] = s[k] /\ k \in D
        OBVIOUS
      <4>1. CASE e = Len(u) + 1
        BY <2>1, <2>4, <3>2, <4>1
      <4>2. CASE e \in DOMAIN u
        BY <2>1, <2>2, <3>2, <4>2
      <4> QED  BY <3>3, <4>1, <4>2
    <3>5. ASSUME Distinct(s)  PROVE Distinct(v)
      <4>1. \A e \in DOMAIN u : u[e].n # s[m].n
        <5> SUFFICES ASSUME NEW e \in DOMAIN u  PROVE u[e].n # s[m].n
          OBVIOUS
        <5>1. PICK k \in 1..(m - 1) : u[e] = s[k]
          BY <2>2
        <5>2. k \in DOMAIN s /\ m \in DOMAIN s /\ k # m
          BY <1>1, <2>1
        <5> QED  BY <3>5, <5>1, <5>2 DEF Distinct
      <4>2. Distinct(u)
        BY <1>6, <3>5 DEF u
      <4>3. \A e \in DOMAIN u : v[e] = u[e]
        BY <3>2
      <4> QED  BY <3>2, <3>3, <4>1, <4>2, <4>3 DEF Distinct
    <3>6. \A k \in 1..m : k \in D => \E e \in DOMAIN v : v[e] = s[k]
      <4> SUFFICES ASSUME NEW k \in 1..m, k \in D  PROVE \E e \in DOMAIN v : v[e] = s[k]
        OBVIOUS
      <4>1. CASE k = m
        BY <3>2, <4>1
      <4>2. CASE k \in 1..(m - 1)
        BY <2>2, <3>2, <4>2
      <4> QED  BY <2>1, <4>1, <4>2
    <3> QED  BY <3>1, <3>2, <3>4, <3>5, <3>6
  <2> QED  BY <2>3, <2>4
<1>7. Bad = {}
  <2> SUFFICES ASSUME Bad # {}  PROVE FALSE
    OBVIOUS
  <2> HIDE DEF From
  <2>1. PICK m \in Bad : \A k \in Bad : m <= k
    <3>1. Bad \in SUBSET Nat
      BY <1>1
    <3> HIDE DEF Bad
    <3> QED  BY <3>1, LeastExists
  <2>2. m # 0
    BY <1>5, <2>1
  <2>3. m \in 1..Len(s) /\ m - 1 \in 0..Len(s) /\ m - 1 \notin Bad
    BY <1>1, <2>1, <2>2
  <2>4. From(pick[m - 1], m - 1)
    BY <2>3
  <2> QED  BY <1>6, <2>1, <2>3, <2>4
<1>8. From(pick[Len(s)], Len(s))
  <2> HIDE DEF From
  <2> QED  BY <1>1, <1>7
<1> QED  BY <1>1, <1>2, <1>8

\* What has been given to the reader, or is to be pushed.
Given == offered \cup {out[i] : i \in DOMAIN out}

\* The entries of a window: records, numbered in the order of the source.
IsEntry(e) ==
  /\ e = [rec |-> e.rec, n |-> e.n, ts |-> e.ts, ref |-> e.ref, ptn |-> e.ptn, unq |-> e.unq]
  /\ e.n \in Nat

\* A window, whose records were read before m.
IsWindow(w, m) ==
  /\ \E S : w \in Seq(S)
  /\ \A i \in DOMAIN w : IsEntry(w[i]) /\ w[i].n < m
  /\ Distinct(w)

\* A rule with groups has marked in the window what it gave.
IsMarked(w) == Engine!Grouped => \A i \in DOMAIN w : w[i].n \in Given => w[i].unq

EngineInv ==
  /\ \E S : read \in Seq(S)
  /\ wmax \in Nat /\ (wmax # 0 => win # <<>>)
  /\ IsWindow(win, Len(read) + 1)
  /\ IsMarked(win)
  /\ \A n \in Given : n \in Nat /\ n <= Len(read)
  /\ \E S : out \in Seq(S)
  /\ ReturnedOnce

LEMMA SequenceAppend ==
  ASSUME NEW S, NEW s \in Seq(S), NEW x
  PROVE  /\ Append(s, x) \in Seq(S \cup {x}) /\ Append(s, x) # <<>>
         /\ Len(s) \in Nat /\ Len(Append(s, x)) = Len(s) + 1
         /\ DOMAIN s = 1..Len(s) /\ DOMAIN Append(s, x) = 1..(Len(s) + 1)
         /\ \A i \in 1..Len(s) : Append(s, x)[i] = s[i]
         /\ Append(s, x)[Len(s) + 1] = x
<1>1. s \in Seq(S \cup {x})
  BY SeqMonotonic
<1> QED  BY <1>1, AppendProperties, LenProperties

\* One more record in the window.
LEMMA WindowAppend ==
  ASSUME NEW m \in Nat, NEW w, IsWindow(w, m), NEW e, IsEntry(e), e.n = m
  PROVE  /\ IsWindow(Append(w, e), m + 1) /\ Append(w, e) # <<>>
         /\ \A i \in DOMAIN Append(w, e) :
              Append(w, e)[i] = e \/ \E k \in DOMAIN w : Append(w, e)[i] = w[k]
<1> DEFINE u == Append(w, e)
<1>1. PICK S : w \in Seq(S)
  BY DEF IsWindow
<1>2. /\ u \in Seq(S \cup {e}) /\ u # <<>> /\ Len(w) \in Nat
      /\ DOMAIN w = 1..Len(w) /\ DOMAIN u = 1..(Len(w) + 1)
      /\ \A i \in 1..Len(w) : u[i] = w[i]
      /\ u[Len(w) + 1] = e
  BY <1>1, SequenceAppend
<1> HIDE DEF u
<1>3. \A i \in DOMAIN u : (i = Len(w) + 1 /\ u[i] = e) \/ (i \in DOMAIN w /\ u[i] = w[i])
  BY <1>2
<1>4. \A i \in DOMAIN w : IsEntry(w[i]) /\ w[i].n < m /\ w[i].n \in Nat
  BY DEF IsWindow, IsEntry
<1>5. \A i \in DOMAIN u : IsEntry(u[i]) /\ u[i].n < m + 1
  BY <1>3, <1>4
<1>6. Distinct(u)
  BY <1>3, <1>4 DEF Distinct, IsWindow
<1> QED  BY <1>2, <1>3, <1>5, <1>6 DEF IsWindow, u

\* One more record read, whatever it is, is later than the window.
LEMMA WindowLater ==
  ASSUME NEW m \in Nat, NEW w, IsWindow(w, m)
  PROVE  IsWindow(w, m + 1)
<1>1. \A i \in DOMAIN w : IsEntry(w[i]) /\ w[i].n < m + 1
  BY DEF IsWindow, IsEntry
<1> QED  BY <1>1 DEF IsWindow

\* What has been picked of a window is one, with its marks.
LEMMA StaysFacts ==
  ASSUME NEW t, EngineInv
  PROVE  /\ IsWindow(Engine!Stays(t), Len(read) + 1)
         /\ IsMarked(Engine!Stays(t))
<1> DEFINE D == {i \in DOMAIN win : win[i].ref /\ ~Engine!Leaves(win[i], t)}
           u == Engine!At(win, D)
<1>1. Engine!Stays(t) = u
  BY DEF Engine!Stays
<1>2. PICK S : win \in Seq(S)
  BY DEF EngineInv, IsWindow
<1> HIDE DEF D
<1>3. /\ u \in Seq(S)
      /\ \A e \in DOMAIN u : \E k \in DOMAIN win : k \in D /\ u[e] = win[k]
      /\ Distinct(win) => Distinct(u)
  BY <1>2, AtFacts
<1> HIDE DEF u
<1>4. /\ \A i \in DOMAIN win : IsEntry(win[i]) /\ win[i].n < Len(read) + 1
      /\ Distinct(win) /\ IsMarked(win)
  BY DEF EngineInv, IsWindow
<1>5. IsWindow(u, Len(read) + 1)
  BY <1>3, <1>4 DEF IsWindow
<1>6. IsMarked(u)
  BY <1>3, <1>4 DEF IsMarked
<1> QED  BY <1>1, <1>5, <1>6

\* Records are Records: those with a time come no earlier than the latest.
LEMMA TimeLater ==
  ASSUME NEW r \in Records, r.after # NoTime, wmax \in Nat
  PROVE  /\ Engine!Time(r) \in Nat
         /\ Engine!Time(r) <= wmax => wmax # 0
<1>1. r.after \in Nat
  BY RecordsAssumption
<1> QED  BY <1>1, WindowAssumption DEF Engine!Time

\* What a record finds when it comes into the window: it is numbered like nothing
\* that was given, and there is a last entry for it to count.
LEMMA SlidFacts ==
  ASSUME EngineInv, NEW r \in Records, query.over => r.after # NoTime
  PROVE  /\ IsWindow(Engine!Slid(r).win, Len(read) + 2)
         /\ IsMarked(Engine!Slid(r).win)
         /\ Engine!Slid(r).wmax \in Nat
         /\ Engine!Slid(r).wmax # 0 => Engine!Slid(r).win # <<>>
         /\ query.over => Engine!Slid(r).win # <<>>
<1> DEFINE t == Engine!Time(r)
           m == Len(read) + 1
           e == Engine!Entry(r, m, t)
           u == Append(Engine!Stays(t), e)
<1>1. m \in Nat /\ m + 1 = Len(read) + 2 /\ Len(read) \in Nat
  <2>1. PICK S : read \in Seq(S)
    BY DEF EngineInv
  <2> QED  BY <2>1, LenProperties
<1>2. wmax \in Nat /\ (wmax # 0 => win # <<>>) /\ IsMarked(win)
  BY DEF EngineInv
<1>3. CASE ~query.over \/ t <= wmax
  <2>1. /\ Engine!Slid(r).win = win /\ Engine!Slid(r).wmax = wmax
    BY <1>3 DEF Engine!Slid, Engine!Unslid
  <2>2. IsWindow(win, Len(read) + 2)
    BY <1>1, WindowLater DEF EngineInv
  <2>3. query.over => wmax # 0
    BY <1>2, <1>3, TimeLater
  <2> QED  BY <1>2, <2>1, <2>2, <2>3
<1>4. CASE query.over /\ ~(t <= wmax)
  <2>1. /\ Engine!Slid(r).win = u /\ Engine!Slid(r).wmax = t
    BY <1>4 DEF Engine!Slid
  <2>2. t \in Nat
    BY <1>2, <1>4, TimeLater
  <2>3. IsEntry(e) /\ e.n = m
    BY <1>1 DEF Engine!Entry, IsEntry
  <2>4. IsWindow(Engine!Stays(t), m) /\ IsMarked(Engine!Stays(t))
    BY StaysFacts
  <2> HIDE DEF e, t
  <2>5. /\ IsWindow(u, m + 1) /\ u # <<>>
        /\ \A i \in DOMAIN u :
             u[i] = e \/ \E k \in DOMAIN Engine!Stays(t) : u[i] = Engine!Stays(t)[k]
    BY <1>1, <2>3, <2>4, WindowAppend
  <2> HIDE DEF u
  <2>6. IsMarked(u)
    <3>1. m \notin Given
      BY <1>1 DEF EngineInv
    <3> QED  BY <2>3, <2>4, <2>5, <3>1 DEF IsMarked
  <2> QED  BY <1>1, <2>1, <2>2, <2>5, <2>6
<1> QED  BY <1>3, <1>4

\* The window whose last entry is counted in group k.
Counted(u, k) ==
  Append(Engine!Front(u), [u[Len(u)] EXCEPT !.ref = TRUE, !.ptn = k])

LEMMA CountedFacts ==
  ASSUME NEW m, NEW u, IsWindow(u, m), u # <<>>, NEW k
  PROVE  /\ IsWindow(Counted(u, k), m) /\ DOMAIN Counted(u, k) = DOMAIN u
         /\ Counted(u, k) # <<>>
         /\ \A i \in DOMAIN u : /\ Counted(u, k)[i].n = u[i].n
                                /\ Counted(u, k)[i].unq = u[i].unq
<1> DEFINE last == [u[Len(u)] EXCEPT !.ref = TRUE, !.ptn = k]
           w == Append(Engine!Front(u), last)
<1>1. PICK S : u \in Seq(S)
  BY DEF IsWindow
<1>2. Len(u) \in Nat /\ DOMAIN u = 1..Len(u) /\ Len(u) > 0 /\ \A i \in 1..Len(u) : u[i] \in S
  BY <1>1, EmptySeq, LenProperties
<1>3. /\ Engine!Front(u) \in Seq(S) /\ Len(Engine!Front(u)) = Len(u) - 1
      /\ \A i \in 1..(Len(u) - 1) : Engine!Front(u)[i] = u[i]
  <2>1. Engine!Front(u) = [i \in 1..(Len(u) - 1) |-> u[i]]
    BY <1>1, <1>2 DEF Engine!Front
  <2> QED  BY <1>2, <2>1
<1> HIDE DEF last
<1>4. /\ w \in Seq(S \cup {last}) /\ w # <<>>
      /\ DOMAIN w = 1..Len(u)
      /\ \A i \in 1..(Len(u) - 1) : w[i] = u[i]
      /\ w[Len(u)] = last
  <2>1. /\ w \in Seq(S \cup {last}) /\ w # <<>>
        /\ Len(Engine!Front(u)) \in Nat /\ DOMAIN w = 1..(Len(Engine!Front(u)) + 1)
        /\ \A i \in 1..Len(Engine!Front(u)) : w[i] = Engine!Front(u)[i]
        /\ w[Len(Engine!Front(u)) + 1] = last
    BY <1>3, SequenceAppend
  <2> HIDE DEF w
  <2> QED  BY <1>2, <1>3, <2>1
<1> HIDE DEF w
<1>5. \A i \in DOMAIN u : IsEntry(u[i]) /\ u[i].n < m
  BY DEF IsWindow
<1>6. IsEntry(last) /\ last.n = u[Len(u)].n /\ last.unq = u[Len(u)].unq
  <2> DEFINE e == u[Len(u)]
  <2>1. /\ e = [rec |-> e.rec, n |-> e.n, ts |-> e.ts, ref |-> e.ref, ptn |-> e.ptn, unq |-> e.unq]
        /\ e.n \in Nat
    BY <1>2, <1>5 DEF IsEntry
  <2>2. last = [e EXCEPT !.ref = TRUE, !.ptn = k]
    BY DEF last
  <2> HIDE DEF e
  <2>3. last = [rec |-> e.rec, n |-> e.n, ts |-> e.ts, ref |-> TRUE, ptn |-> k, unq |-> e.unq]
    BY <2>1, <2>2
  <2>4. last.n = e.n /\ last.unq = e.unq
    BY <2>3
  <2>5. IsEntry(last)
    BY <2>1, <2>3 DEF IsEntry
  <2> QED  BY <2>4, <2>5 DEF e
<1>7. \A i \in DOMAIN w : IsEntry(w[i]) /\ w[i].n = u[i].n /\ w[i].unq = u[i].unq
  <2> SUFFICES ASSUME NEW i \in DOMAIN w
               PROVE  IsEntry(w[i]) /\ w[i].n = u[i].n /\ w[i].unq = u[i].unq
    OBVIOUS
  <2>1. CASE i = Len(u)
    BY <1>4, <1>6, <2>1
  <2>2. CASE i # Len(u)
    BY <1>2, <1>4, <1>5, <2>2
  <2> QED  BY <2>1, <2>2
<1>8. Distinct(w)
  BY <1>2, <1>4, <1>7 DEF IsWindow, Distinct
<1>9. IsWindow(w, m)
  BY <1>2, <1>4, <1>5, <1>7, <1>8 DEF IsWindow
<1> QED  BY <1>2, <1>4, <1>7, <1>9 DEF w, last, Counted

\* The numbers of an answer: those of entries that were not marked, each once.
LEMMA NumbersFacts ==
  ASSUME NEW w, NEW m, IsWindow(w, m), NEW D
  PROVE  /\ \E S : Engine!Numbers(w, D) \in Seq(S)
         /\ \A i \in DOMAIN Engine!Numbers(w, D) :
              \E k \in DOMAIN w : k \in D /\ Engine!Numbers(w, D)[i] = w[k].n
         /\ \A i, j \in DOMAIN Engine!Numbers(w, D) :
              i # j => Engine!Numbers(w, D)[i] # Engine!Numbers(w, D)[j]
<1> DEFINE u == Engine!At(w, D)
           numbers == [i \in DOMAIN u |-> u[i].n]
<1>1. Engine!Numbers(w, D) = numbers
  BY DEF Engine!Numbers
<1>2. PICK S : w \in Seq(S)
  BY DEF IsWindow
<1>3. /\ u \in Seq(S) /\ Distinct(u)
      /\ \A e \in DOMAIN u : \E k \in DOMAIN w : k \in D /\ u[e] = w[k]
  BY <1>2, AtFacts DEF IsWindow
<1> HIDE DEF u
<1>4. DOMAIN u = 1..Len(u) /\ Len(u) \in Nat
  BY <1>3, LenProperties
<1>5. numbers \in Seq({u[i].n : i \in DOMAIN u})
  <2>1. numbers \in [1..Len(u) -> {u[i].n : i \in DOMAIN u}]
    BY <1>4
  <2> HIDE DEF numbers
  <2> QED  BY <1>4, <2>1, SeqDef
<1> QED  BY <1>1, <1>3, <1>5 DEF Distinct

\* What was given before an answer, and after it.
LEMMA AnswerGiven ==
  ASSUME EngineInv, out = <<>>, offered' = offered
  PROVE  Given = offered /\ Given' = Given \cup {out'[i] : i \in DOMAIN out'}
BY DEF Given

\* A record with its answer.
LEMMA StepInv ==
  ASSUME EngineInv, NEW r \in Records, query.over, r.after # NoTime,
         Engine!Grouped, Engine!Yields(r), Engine!Step(r), query' = query, offered' = offered
  PROVE  EngineInv'
<1> DEFINE s == Engine!Slid(r)
           u == s.win
           m == Len(read) + 2
           c == Engine!Captured(s.local, r)
           counts == Engine!Counts(s.groups, c)
           last == [u[Len(u)] EXCEPT !.ref = TRUE, !.ptn = c]
           w == Append(Engine!Front(u), last)
           answer == {j \in DOMAIN w : /\ Engine!AllReached(counts)
                                       /\ w[j].ref /\ ~w[j].unq /\ w[j].ptn = c}
<1>1. /\ out = <<>> /\ wmax' = s.wmax
      /\ win' = [j \in DOMAIN w |-> [w[j] EXCEPT !.unq = @ \/ j \in answer]]
      /\ out' = Engine!Numbers(w, answer)
  BY DEF Engine!Yields, Engine!Step
<1>2. /\ IsWindow(u, m) /\ IsMarked(u) /\ u # <<>> /\ s.wmax \in Nat
  BY SlidFacts
<1> HIDE DEF u, c, counts
<1>3. /\ IsWindow(w, m) /\ DOMAIN w = DOMAIN u /\ w # <<>>
      /\ \A i \in DOMAIN w : w[i].n = u[i].n /\ w[i].unq = u[i].unq
  <2>1. w = Counted(u, c)
    BY DEF Counted
  <2> HIDE DEF w
  <2> QED  BY <1>2, <2>1, CountedFacts
<1> HIDE DEF w
<1>4. \A j \in answer : j \in DOMAIN w /\ ~w[j].unq
  OBVIOUS
<1> HIDE DEF answer
<1>5. /\ \E S : out' \in Seq(S)
      /\ \A i \in DOMAIN out' : \E k \in DOMAIN w : k \in answer /\ out'[i] = w[k].n
      /\ \A i, j \in DOMAIN out' : i # j => out'[i] # out'[j]
  BY <1>1, <1>3, NumbersFacts
<1>6. \E S : read' \in Seq(S)
  <2>1. PICK S : read \in Seq(S)
    BY DEF EngineInv
  <2>2. PICK x : read' = Append(read, x)
    BY DEF Engine!Yields
  <2> QED  BY <2>1, <2>2, SequenceAppend
<1>7. Len(read') + 1 = m /\ Len(read) \in Nat
  BY SequenceAppend DEF Engine!Yields, EngineInv
<1>8. /\ \A n \in Given : n \in Nat /\ n <= Len(read)
      /\ Given = offered /\ Given' = Given \cup {out'[i] : i \in DOMAIN out'}
  BY <1>1, AnswerGiven DEF EngineInv
<1>9. \A i \in DOMAIN w : IsEntry(w[i]) /\ w[i].n < m
  BY <1>3 DEF IsWindow
<1>10. /\ DOMAIN win' = DOMAIN w
       /\ \A i \in DOMAIN w : /\ IsEntry(win'[i]) /\ win'[i].n = w[i].n
                              /\ win'[i].unq = (w[i].unq \/ i \in answer)
  <2> SUFFICES ASSUME NEW i \in DOMAIN w
               PROVE  /\ IsEntry(win'[i]) /\ win'[i].n = w[i].n
                      /\ win'[i].unq = (w[i].unq \/ i \in answer)
    BY <1>1
  <2> DEFINE e == w[i]
  <2>1. /\ e = [rec |-> e.rec, n |-> e.n, ts |-> e.ts, ref |-> e.ref, ptn |-> e.ptn, unq |-> e.unq]
        /\ e.n \in Nat
    BY <1>9 DEF IsEntry
  <2>2. win'[i] = [e EXCEPT !.unq = e.unq \/ i \in answer]
    BY <1>1
  <2> HIDE DEF e
  <2>3. win'[i] = [rec |-> e.rec, n |-> e.n, ts |-> e.ts, ref |-> e.ref, ptn |-> e.ptn,
                   unq |-> e.unq \/ i \in answer]
    BY <2>1, <2>2
  <2>4. win'[i].n = e.n /\ win'[i].unq = (e.unq \/ i \in answer)
    BY <2>3
  <2>5. IsEntry(win'[i])
    BY <2>1, <2>3 DEF IsEntry
  <2> QED  BY <2>4, <2>5 DEF e
<1>11. IsWindow(win', m)
  <2>1. \E S : win' \in Seq(S)
    <3>1. PICK S : w \in Seq(S)
      BY <1>3 DEF IsWindow
    <3>2. Len(w) \in Nat /\ DOMAIN w = 1..Len(w)
      BY <3>1, LenProperties
    <3>3. win' \in [1..Len(w) -> {win'[i] : i \in DOMAIN w}]
      BY <1>1, <3>2
    <3>4. win' \in Seq({win'[i] : i \in DOMAIN w})
      BY <3>2, <3>3, SeqDef
    <3> QED  BY <3>4
  <2>2. Distinct(win')
    BY <1>3, <1>10 DEF IsWindow, Distinct
  <2> QED  BY <1>9, <1>10, <2>1, <2>2 DEF IsWindow
<1>12. IsMarked(win)'
  <2> SUFFICES ASSUME query'.by \/ query'.limits # <<>>, NEW i \in DOMAIN win', win'[i].n \in Given'
               PROVE  win'[i].unq
    BY DEF IsMarked, Engine!Grouped
  <2>1. i \in DOMAIN w /\ win'[i].n = w[i].n /\ win'[i].unq = (w[i].unq \/ i \in answer)
    BY <1>10
  <2>2. CASE w[i].n \in Given
    BY <1>2, <1>3, <2>1, <2>2 DEF IsMarked, Engine!Grouped
  <2>3. CASE \E k \in DOMAIN out' : w[i].n = out'[k]
    <3>1. PICK k \in DOMAIN w : k \in answer /\ w[i].n = w[k].n
      BY <1>5, <2>3
    <3>2. k = i
      BY <1>3, <2>1, <3>1 DEF IsWindow, Distinct
    <3> QED  BY <2>1, <3>1, <3>2
  <2> QED  BY <1>8, <2>1, <2>2, <2>3
<1>13. \A i \in DOMAIN out' : out'[i] \in Nat /\ out'[i] < m /\ out'[i] \notin Given
  <2> SUFFICES ASSUME NEW i \in DOMAIN out'
               PROVE  out'[i] \in Nat /\ out'[i] < m /\ out'[i] \notin Given
    OBVIOUS
  <2>1. PICK k \in DOMAIN w : k \in answer /\ out'[i] = w[k].n
    BY <1>5
  <2>2. w[k].n = u[k].n /\ ~u[k].unq
    BY <1>3, <1>4, <2>1
  <2>3. w[k].n \notin Given
    BY <1>2, <1>3, <2>2 DEF IsMarked
  <2> QED  BY <1>9, <2>1, <2>3 DEF IsEntry
<1>14. \A n \in Given' : n \in Nat /\ n <= Len(read')
  BY <1>7, <1>8, <1>13
<1>15. ReturnedOnce'
  BY <1>5, <1>8, <1>13 DEF ReturnedOnce, Engine!ReturnedOnce
<1>16. wmax' \in Nat /\ (wmax' # 0 => win' # <<>>)
  BY <1>1, <1>2, <1>3, <1>10
<1> QED
  <2>1. m = Len(read') + 1
    BY <1>7
  <2>2. IsWindow(win', Len(read') + 1)
    BY <1>11, <2>1
  <2> HIDE DEF m
  <2> QED
  BY <1>5, <1>6, <1>12, <1>14, <1>15, <1>16, <2>2 DEF EngineInv

\* A record read is the last of those read.
LEMMA OneMoreRead ==
  ASSUME EngineInv, NEW r, Engine!Yields(r)
  PROVE  /\ \E S : read' \in Seq(S)
         /\ Len(read) \in Nat /\ Len(read') = Len(read) + 1
<1>1. PICK S : read \in Seq(S)
  BY DEF EngineInv
<1>2. PICK x : read' = Append(read, x)
  BY DEF Engine!Yields
<1> QED  BY <1>1, <1>2, SequenceAppend

\* A record that does not come to the windows.
LEMMA PassInv ==
  ASSUME EngineInv, NEW r \in Records, query.over => r.after # NoTime,
         ~(Engine!Grouped /\ Engine!Filtered(r)),
         Engine!Yields(r), Engine!Pass(r), query' = query, offered' = offered
  PROVE  EngineInv'
<1> DEFINE s == Engine!Slid(r)
           m == Len(read) + 1
<1>1. /\ out = <<>> /\ wmax' = s.wmax /\ win' = s.win
      /\ out' = IF Engine!Filtered(r) THEN <<m>> ELSE <<>>
  BY DEF Engine!Yields, Engine!Pass
<1>2. /\ IsWindow(s.win, Len(read) + 2) /\ IsMarked(s.win) /\ s.wmax \in Nat
      /\ s.wmax # 0 => s.win # <<>>
  BY SlidFacts
<1>3. /\ \E S : read' \in Seq(S)
      /\ Len(read) \in Nat /\ m \in Nat /\ Len(read') = m /\ Len(read') + 1 = Len(read) + 2
  BY OneMoreRead
<1>4. /\ \A n \in Given : n \in Nat /\ n <= Len(read)
      /\ Given = offered /\ Given' = Given \cup {out'[i] : i \in DOMAIN out'}
  BY <1>1, AnswerGiven DEF EngineInv
<1> HIDE DEF s, m
<1>5. CASE Engine!Filtered(r)
  <2>1. out' = <<m>> /\ out' \in Seq(Nat) /\ m \notin Given /\ Given' = Given \cup {m}
    <3>1. out' = <<m>>
      BY <1>1, <1>5
    <3>2. m \notin Given
      BY <1>3, <1>4 DEF m
    <3> QED  BY <1>3, <1>4, <3>1, <3>2
  <2>2. IsMarked(win)'
    BY <1>5 DEF IsMarked, Engine!Grouped
  <2>3. ReturnedOnce'
    BY <1>4, <2>1 DEF ReturnedOnce, Engine!ReturnedOnce
  <2>4. \A n \in Given' : n \in Nat /\ n <= Len(read')
    BY <1>3, <1>4, <2>1
  <2> QED  BY <1>1, <1>2, <1>3, <2>1, <2>2, <2>3, <2>4 DEF EngineInv
<1>6. CASE ~Engine!Filtered(r)
  <2>1. out' = <<>> /\ out' \in Seq(Nat) /\ Given' = Given
    <3>1. out' = <<>>
      BY <1>1, <1>6
    <3> QED  BY <1>4, <3>1
  <2>2. IsMarked(win)'
    BY <1>1, <1>2, <2>1 DEF IsMarked, Engine!Grouped
  <2>3. ReturnedOnce'
    BY <2>1 DEF ReturnedOnce, Engine!ReturnedOnce
  <2>4. \A n \in Given' : n \in Nat /\ n <= Len(read')
    BY <1>3, <1>4, <2>1
  <2> QED  BY <1>1, <1>2, <1>3, <2>1, <2>2, <2>3, <2>4 DEF EngineInv
<1> QED  BY <1>5, <1>6

\* A record that nothing is done about.
LEMMA UnmatchedInv ==
  ASSUME EngineInv, NEW r, Engine!Yields(r), UNCHANGED <<query, wmax, win, out, offered>>
  PROVE  EngineInv'
<1>1. /\ \E S : read' \in Seq(S)
      /\ Len(read) \in Nat /\ Len(read') = Len(read) + 1
  BY OneMoreRead
<1>2. IsWindow(win', Len(read') + 1)
  BY <1>1, WindowLater DEF EngineInv
<1>3. Given' = Given
  BY DEF Given
<1>4. IsMarked(win)'
  BY <1>3 DEF IsMarked, EngineInv, Engine!Grouped
<1>5. \A n \in Given' : n \in Nat /\ n <= Len(read')
  BY <1>1, <1>3 DEF EngineInv
<1>6. ReturnedOnce'
  BY DEF EngineInv, ReturnedOnce, Engine!ReturnedOnce
<1> QED  BY <1>1, <1>2, <1>4, <1>5, <1>6 DEF EngineInv

\* Pushing moves the next of the answer from one half of what is given to the other.
LEMMA PushInv ==
  ASSUME EngineInv, Engine!Push
  PROVE  EngineInv' /\ Given' = Given
<1>1. PICK S : out \in Seq(S)
  BY DEF EngineInv
<1>2. /\ out # <<>> /\ out' = Tail(out) /\ offered' = offered \cup {Head(out)}
      /\ UNCHANGED <<query, wmax, win, read>>
  BY DEF Engine!Push, Engine!engine
<1>3. /\ Len(out) \in Nat /\ Len(out) > 0 /\ DOMAIN out = 1..Len(out)
      /\ Head(out) = out[1] /\ Tail(out) \in Seq(S) /\ Len(Tail(out)) = Len(out) - 1
      /\ \A i \in 1..(Len(out) - 1) : Tail(out)[i] = out[i + 1]
  BY <1>1, <1>2, HeadTailProperties, EmptySeq, LenProperties
<1>4. /\ out' \in Seq(S) /\ DOMAIN out' = 1..(Len(out) - 1)
      /\ \A i \in 1..(Len(out) - 1) : out'[i] = out[i + 1] /\ i + 1 \in DOMAIN out
      /\ offered' = offered \cup {out[1]} /\ 1 \in DOMAIN out
  BY <1>2, <1>3, LenProperties
<1>5. {out[i] : i \in DOMAIN out} = {out[1]} \cup {out'[i] : i \in DOMAIN out'}
  <2>1. \A i \in DOMAIN out : i = 1 \/ (i - 1 \in DOMAIN out' /\ out'[i - 1] = out[i])
    BY <1>3, <1>4
  <2>2. \A i \in DOMAIN out : out[i] \in {out[1]} \cup {out'[k] : k \in DOMAIN out'}
    BY <2>1
  <2>3. \A i \in DOMAIN out' : out'[i] \in {out[k] : k \in DOMAIN out}
    BY <1>4
  <2> QED  BY <1>4, <2>2, <2>3
<1>6. Given' = Given
  BY <1>4, <1>5 DEF Given
<1>7. \A i, j \in DOMAIN out : out[i] \notin offered /\ (i # j => out[i] # out[j])
  BY DEF EngineInv, ReturnedOnce, Engine!ReturnedOnce
<1>8. ReturnedOnce'
  <2>1. \A i, j \in DOMAIN out' :
          out'[i] \notin offered' /\ (i # j => out'[i] # out'[j])
    <3> SUFFICES ASSUME NEW i \in DOMAIN out', NEW j \in DOMAIN out'
                 PROVE  out'[i] \notin offered' /\ (i # j => out'[i] # out'[j])
      OBVIOUS
    <3>1. /\ i \in Nat /\ j \in Nat /\ i >= 1 /\ out'[i] = out[i + 1] /\ out'[j] = out[j + 1]
          /\ i + 1 \in DOMAIN out /\ j + 1 \in DOMAIN out
      BY <1>3, <1>4
    <3> QED  BY <1>4, <1>7, <3>1
  <2> QED  BY <2>1 DEF ReturnedOnce, Engine!ReturnedOnce
<1>9. IsMarked(win)'
  BY <1>2, <1>6 DEF IsMarked, EngineInv, Engine!Grouped
<1> QED  BY <1>2, <1>4, <1>6, <1>8, <1>9 DEF EngineInv

LEMMA EngineInit == Engine!Init => EngineInv
<1> SUFFICES ASSUME Engine!Init  PROVE EngineInv
  OBVIOUS
<1>1. read = <<>> /\ out = <<>> /\ win = <<>> /\ wmax = 0 /\ offered = {}
  BY DEF Engine!Init
<1>2. Given = {} /\ DOMAIN win = {}
  BY <1>1 DEF Given
<1> QED
  BY <1>1, <1>2 DEF EngineInv, IsWindow, IsMarked, Distinct, ReturnedOnce, Engine!ReturnedOnce

LEMMA EngineUnchanged ==
  ASSUME EngineInv, UNCHANGED <<query, wmax, win, out, read, offered>>
  PROVE  EngineInv'
<1>1. Given' = Given
  BY DEF Given
<1>2. ReturnedOnce' = ReturnedOnce
  BY DEF ReturnedOnce, Engine!ReturnedOnce
<1>3. IsMarked(win)'
  BY <1>1 DEF EngineInv, IsMarked, Engine!Grouped
<1> QED  BY <1>1, <1>2, <1>3 DEF EngineInv

LEMMA EngineStep == EngineInv /\ Engine!Next => EngineInv'
<1> SUFFICES ASSUME EngineInv, Engine!Next  PROVE EngineInv'
  OBVIOUS
<1>1. ASSUME NEW r \in Records, Engine!Skip(r) \/ Engine!Crash(r)
      PROVE  EngineInv'
  BY <1>1, UnmatchedInv DEF Engine!Skip, Engine!Crash, Engine!engine
<1>2. ASSUME NEW r \in Records, Engine!Match(r)
      PROVE  EngineInv'
  <2>1. /\ query.over => r.after # NoTime
        /\ Engine!Yields(r) /\ query' = query /\ offered' = offered
    BY <1>2 DEF Engine!Match
  <2>2. CASE Engine!Grouped /\ Engine!Filtered(r)
    BY <1>2, <2>1, <2>2, StepInv DEF Engine!Match
  <2>3. CASE ~(Engine!Grouped /\ Engine!Filtered(r))
    BY <1>2, <2>1, <2>3, PassInv DEF Engine!Match
  <2> QED  BY <2>2, <2>3
<1>3. CASE Engine!Push
  BY <1>3, PushInv
<1>4. CASE Engine!Close
  BY <1>4, EngineUnchanged DEF Engine!Close
<1> QED  BY <1>1, <1>2, <1>3, <1>4 DEF Engine!Next

LEMMA EngineHolds == HubSpec => []EngineInv
<1>1. HubInit => EngineInv
  BY EngineInit DEF HubInit
<1>2. EngineInv /\ [HubNext]_<<vars, storage, engine, part>> => EngineInv'
  <2> SUFFICES ASSUME EngineInv, [HubNext]_<<vars, storage, engine, part>>
               PROVE  EngineInv'
    OBVIOUS
  <2>1. Engine!Next \/ UNCHANGED engine
    BY DEF HubNext
  <2>2. CASE Engine!Next
    BY <2>2, EngineStep
  <2>3. CASE UNCHANGED engine
    BY <2>3, EngineUnchanged DEF engine
  <2> QED  BY <2>1, <2>2, <2>3
<1> QED  BY <1>1, <1>2, PTL DEF HubSpec

\* "Only return once" (impeller.go:51): a record of the source is given to the reader
\* at most once, whatever the rule, the groups and the order of the records are.
THEOREM OnlyReturnOnce == HubSpec => []ReturnedOnce
<1>1. EngineInv => ReturnedOnce
  BY DEF EngineInv
<1> QED  BY <1>1, EngineHolds, PTL

-----------------------------------------------------------------------------
(* What the engine answers.  The meaning of a rule is stated again of any  *)
(* rule and records, so that it can be compared before and after a step:   *)
(* one record more adds nothing to it, itself, or the window and group     *)
(* that it fills.  The engine has these in its window and their number in  *)
(* its counts, if the source is tidy: what leaves the window is undone in  *)
(* the group it was counted in, and what is marked was given.              *)

\* The rule is about record x.
Passing(q, x) ==
  /\ q.over => x.ts # NoTime
  /\ IF q.not THEN \A i \in DOMAIN x.r.hits : ~x.r.hits[i]
     ELSE \E i \in DOMAIN x.r.hits : x.r.hits[i]

\* Without groups nothing is captured.
Nothing == ""

\* The group of a record that has the field of the group.
GroupIn(q, r) == IF q.by THEN r.key ELSE Nothing

\* The records of group k that pass, from a time on.
Holding(q, rd, from, k) ==
  {n \in DOMAIN rd : Passing(q, rd[n]) /\ rd[n].ts >= from /\ GroupIn(q, rd[n].r) = k}

\* Grouped, Tidy, InWindowOf, that it is full, and Defined, of the module of the engine.
Grouping(q) == q.by \/ q.limits # <<>>

TidyIn(q, rd) ==
  /\ q.over => \A i \in DOMAIN rd : rd[i].r.after # 0
  /\ q.by => \A i \in DOMAIN rd : Passing(q, rd[i]) => rd[i].r.key # Missing
  /\ \A i \in DOMAIN rd : Len(rd[i].r.hits) <= 1

UpTo(q, rd, j) ==
  {i \in 1..j : /\ Passing(q, rd[i]) /\ (q.by => rd[i].r.key = rd[j].r.key)
                /\ rd[i].ts >= Engine!Floor(rd[j].ts)}

Full(q, rd, j) == \A h \in DOMAIN q.limits : Cardinality(UpTo(q, rd, j)) >= q.limits[h]

Meant(q, rd) ==
  IF Grouping(q)
  THEN UNION {UpTo(q, rd, j) : j \in {p \in {i \in DOMAIN rd : Passing(q, rd[i])} : Full(q, rd, p)}}
  ELSE {i \in DOMAIN rd : Passing(q, rd[i])}

\* The module of the engine counts like this one.
LEMMA SameCount == \A S : Engine!Cardinality(S) = Cardinality(S)
BY Zenon DEF Cardinality, Engine!Cardinality

\* These say what the engine's module says.
LEMMA MeaningOfRule ==
  /\ Engine!Defined = Meant(query, read)
  /\ Engine!Tidy <=> TidyIn(query, read)
<1>1. \A x : Engine!Passes(x) <=> Passing(query, x)
  BY DEF Engine!Passes, Passing
<1>2. Engine!Grouped <=> Grouping(query)
  BY DEF Engine!Grouped, Grouping
<1>3. Engine!Tidy <=> TidyIn(query, read)
  BY <1>1 DEF Engine!Tidy, TidyIn
<1>4. \A j : Engine!InWindowOf(j) = UpTo(query, read, j)
  BY <1>1 DEF Engine!InWindowOf, UpTo, Engine!SameGroup
<1>5. {i \in DOMAIN read : Engine!Passes(read[i])} = {i \in DOMAIN read : Passing(query, read[i])}
  BY <1>1
<1>6. \A j : Full(query, read, j) <=>
        \A h \in DOMAIN query.limits : Engine!Cardinality(Engine!InWindowOf(j)) >= query.limits[h]
  BY <1>4, SameCount DEF Full
<1>7. Engine!Defined = Meant(query, read)
  <2> DEFINE ends == {p \in {i \in DOMAIN read : Engine!Passes(read[i])} :
                        \A h \in DOMAIN query.limits :
                          Engine!Cardinality(Engine!InWindowOf(p)) >= query.limits[h]}
             mine == {p \in {i \in DOMAIN read : Passing(query, read[i])} : Full(query, read, p)}
  <2>1. ends = mine
    BY <1>5, <1>6
  <2>2. {Engine!InWindowOf(j) : j \in ends} = {UpTo(query, read, j) : j \in mine}
    BY <1>4, <2>1
  <2>3. Engine!Defined = IF Engine!Grouped THEN UNION {Engine!InWindowOf(j) : j \in ends}
                         ELSE {i \in DOMAIN read : Engine!Passes(read[i])}
    BY DEF Engine!Defined
  <2>4. Meant(query, read) = IF Grouping(query) THEN UNION {UpTo(query, read, j) : j \in mine}
                             ELSE {i \in DOMAIN read : Passing(query, read[i])}
    BY DEF Meant
  <2> HIDE DEF ends, mine
  <2> QED  BY <1>2, <1>5, <2>2, <2>3, <2>4
<1> QED  BY <1>3, <1>7

\* What the last of the records, x at place m, adds.
Gain(q, rd, m, x) ==
  IF ~Passing(q, x) THEN {} ELSE IF ~Grouping(q) THEN {m}
  ELSE IF Full(q, rd, m) THEN UpTo(q, rd, m) ELSE {}

\* One more record makes what was meant no less, and nothing untidy tidy.
LEMMA MeantMore ==
  ASSUME NEW q, NEW S, NEW rd \in Seq(S), NEW x
  PROVE  /\ TidyIn(q, Append(rd, x)) => TidyIn(q, rd)
         /\ Meant(q, Append(rd, x)) =
              Meant(q, rd) \cup Gain(q, Append(rd, x), Len(rd) + 1, x)
<1> DEFINE m == Len(rd) + 1
           rd2 == Append(rd, x)
<1> SUFFICES /\ TidyIn(q, rd2) => TidyIn(q, rd)
             /\ Meant(q, rd2) = Meant(q, rd) \cup Gain(q, rd2, m, x)
  OBVIOUS
<1>1. /\ Len(rd) \in Nat /\ DOMAIN rd = 1..Len(rd) /\ DOMAIN rd2 = 1..m /\ m \in Nat /\ m = Len(rd) + 1
      /\ \A i \in 1..Len(rd) : rd2[i] = rd[i]
      /\ rd2[m] = x
  BY SequenceAppend
<1> HIDE DEF m, rd2
<1>2. \A i \in DOMAIN rd2 : i = m \/ (i \in DOMAIN rd /\ rd2[i] = rd[i])
  BY <1>1
<1>3. DOMAIN rd \subseteq DOMAIN rd2 /\ m \in DOMAIN rd2 /\ \A i \in DOMAIN rd : rd2[i] = rd[i]
  BY <1>1
<1>4. TidyIn(q, rd2) => TidyIn(q, rd)
  BY <1>3 DEF TidyIn
<1>5. \A j \in DOMAIN rd : UpTo(q, rd2, j) = UpTo(q, rd, j)
  <2> SUFFICES ASSUME NEW j \in DOMAIN rd  PROVE UpTo(q, rd2, j) = UpTo(q, rd, j)
    OBVIOUS
  <2>1. \A i \in 1..j : i \in DOMAIN rd
    BY <1>1
  <2>2. rd2[j] = rd[j] /\ \A i \in 1..j : rd2[i] = rd[i]
    BY <1>3, <2>1
  <2> QED  BY <2>2 DEF UpTo
<1>6. \A j \in DOMAIN rd : Full(q, rd2, j) <=> Full(q, rd, j)
  BY <1>5 DEF Full
<1>7. CASE ~Grouping(q)
  <2>1. Meant(q, rd2) = {i \in DOMAIN rd2 : Passing(q, rd2[i])}
        /\ Meant(q, rd) = {i \in DOMAIN rd : Passing(q, rd[i])}
    BY <1>7 DEF Meant
  <2>2. \A i : i \in Meant(q, rd2) <=> i \in Meant(q, rd) \/ (i = m /\ Passing(q, x))
    BY <1>1, <1>2, <1>3, <2>1
  <2> QED  BY <1>4, <1>7, <2>2 DEF Gain
<1>8. CASE Grouping(q)
  <2> DEFINE Ends(r) == {p \in {i \in DOMAIN r : Passing(q, r[i])} : Full(q, r, p)}
  <2>1. Meant(q, rd2) = UNION {UpTo(q, rd2, j) : j \in Ends(rd2)}
        /\ Meant(q, rd) = UNION {UpTo(q, rd, j) : j \in Ends(rd)}
    BY <1>8 DEF Meant
  <2>2. \A j : j \in Ends(rd2) <=> j \in Ends(rd) \/ (j = m /\ Passing(q, x) /\ Full(q, rd2, m))
    BY <1>1, <1>2, <1>3, <1>6
  <2>3. \A j \in Ends(rd) : UpTo(q, rd2, j) = UpTo(q, rd, j)
    BY <1>5
  <2> HIDE DEF Ends
  <2>4. \A i : i \in Meant(q, rd2) <=>
          i \in Meant(q, rd) \/ (Passing(q, x) /\ Full(q, rd2, m) /\ i \in UpTo(q, rd2, m))
    BY <2>1, <2>2, <2>3
  <2> QED  BY <1>4, <1>8, <2>4 DEF Gain
<1> QED  BY <1>7, <1>8

\* A number is between a multiple of h and the next ...
LEMMA Division ==
  ASSUME NEW c \in Nat, NEW h \in Nat \ {0}
  PROVE  /\ c \div h \in Nat
         /\ (c \div h) * h <= c
         /\ c < (c \div h) * h + h
OBVIOUS

\* ... and the multiple is no less for a larger one.
LEMMA DivisionMonotonic ==
  ASSUME NEW c \in Nat, NEW d \in Nat, c <= d, NEW h \in Nat \ {0}
  PROVE  (c \div h) * h <= (d \div h) * h
<1> DEFINE x == c \div h
           y == d \div h
<1>1. x \in Nat /\ y \in Nat /\ x * h <= c /\ d < y * h + h
  BY Division
<1> HIDE DEF x, y
<1>2. x * h < y * h + h
  <2>1. x * h \in Nat /\ y * h \in Nat
    BY <1>1
  <2> QED  BY <1>1, <2>1
<1>3. x <= y
  <2> SUFFICES ASSUME x >= y + 1  PROVE FALSE
    BY <1>1
  <2>1. x * h >= (y + 1) * h
    BY <1>1
  <2>2. (y + 1) * h = y * h + h
    BY <1>1
  <2> QED  BY <1>1, <1>2, <2>1, <2>2
<1>4. x * h <= y * h
  BY <1>1, <1>3
<1> QED  BY <1>4 DEF x, y

\* Windows start at multiples of Hop, at least Over before a record, and never earlier
\* for a later one.
LEMMA FloorFacts ==
  ASSUME NEW t \in Nat, t >= Over
  PROVE  /\ Engine!Floor(t) \in Nat
         /\ Engine!Floor(t) + Over <= t
         /\ \A u \in Nat : t <= u => Engine!Floor(t) <= Engine!Floor(u)
<1> DEFINE c == t - Over
<1>1. c \in Nat /\ Over \in Nat /\ Hop \in Nat \ {0}
  BY WindowAssumption
<1>2. (c \div Hop) \in Nat /\ (c \div Hop) * Hop <= c
  BY <1>1, Division
<1>3. (c \div Hop) * Hop \in Nat
  BY <1>1, <1>2
<1>4. Engine!Floor(t) = (c \div Hop) * Hop
  BY DEF Engine!Floor
<1>5. Engine!Floor(t) \in Nat /\ Engine!Floor(t) <= c
  BY <1>2, <1>3, <1>4
<1>6. \A u \in Nat : t <= u => Engine!Floor(t) <= Engine!Floor(u)
  <2> SUFFICES ASSUME NEW u \in Nat, t <= u
               PROVE  Engine!Floor(t) <= Engine!Floor(u)
    OBVIOUS
  <2>1. u - Over \in Nat /\ c <= u - Over
    BY <1>1
  <2>2. (c \div Hop) * Hop <= ((u - Over) \div Hop) * Hop
    BY <1>1, <2>1, DivisionMonotonic
  <2> QED  BY <1>4, <2>2 DEF Engine!Floor
<1> QED
  <2>1. \A f, v, o, p \in Nat : p = v - o /\ f <= p => f + o <= v
    OBVIOUS
  <2> QED  BY <1>1, <1>5, <1>6, <2>1

\* The bit of a filter whose field has one value, or none, is what the rule means.
LEMMA FilterFacts ==
  ASSUME NEW r \in Records, Len(r.hits) <= 1, query \in Queries,
         NEW x, x.r = r, query.over => x.ts # NoTime
  PROVE  Engine!Filtered(r) <=> Passing(query, x)
<1> DEFINE F(f) == f = [i \in 0..Len(r.hits) |->
             IF i = 0 THEN query.not
             ELSE IF query.not THEN r.hits[i] => ~f[i - 1] ELSE f[i - 1] \/ r.hits[i]]
           bit == CHOOSE f : F(f)
<1>1. r.hits \in Seq(BOOLEAN) /\ Len(r.hits) \in 0..1 /\ DOMAIN r.hits = 1..Len(r.hits)
  <2>1. r.hits \in Seq(BOOLEAN)
    BY RecordsAssumption
  <2>2. Len(r.hits) \in Nat /\ DOMAIN r.hits = 1..Len(r.hits)
    BY <2>1, LenProperties
  <2>3. \A n \in Nat : n <= 1 => n \in 0..1
    OBVIOUS
  <2> QED  BY <2>1, <2>2, <2>3, Zenon
<1>2. Engine!Filtered(r) <=> bit[Len(r.hits)]
  BY DEF Engine!Filtered
<1>3. query.not \in BOOLEAN
  BY RulesAssumption
<1>4. CASE Len(r.hits) = 0
  <2> DEFINE g == [i \in 0..0 |-> query.not]
  <2>1. F(g)
    BY <1>4
  <2>2. F(bit)
    <3> HIDE DEF F, g
    <3> QED  BY <2>1, Zenon
  <2>3. bit[0] = query.not
    <3> HIDE DEF bit
    <3> QED  BY <1>4, <2>2
  <2> HIDE DEF bit
  <2>4. DOMAIN r.hits = {}
    BY <1>1, <1>4
  <2> QED  BY <1>2, <1>4, <2>3, <2>4 DEF Passing
<1>5. CASE Len(r.hits) = 1
  <2> DEFINE g == [i \in 0..1 |-> IF i = 0 THEN query.not
                                  ELSE IF query.not THEN r.hits[1] => ~query.not
                                  ELSE query.not \/ r.hits[1]]
  <2>1. F(g)
    <3>1. \A i \in 0..1 : g[i] = IF i = 0 THEN query.not
             ELSE IF query.not THEN r.hits[i] => ~g[i - 1] ELSE g[i - 1] \/ r.hits[i]
      <4>1. g[0] = query.not /\ g[1] = IF query.not THEN r.hits[1] => ~query.not
                                  ELSE query.not \/ r.hits[1]
        OBVIOUS
      <4>2. \A i \in 0..1 : i = 0 \/ (i = 1 /\ i - 1 = 0)
        OBVIOUS
      <4> HIDE DEF g
      <4> QED  BY <4>1, <4>2
    <3>2. g = [i \in 0..1 |-> g[i]]
      OBVIOUS
    <3> HIDE DEF g
    <3> QED  BY <1>5, <3>1, <3>2
  <2>2. F(bit)
    <3> HIDE DEF F, g
    <3> QED  BY <2>1, Zenon
  <2> HIDE DEF bit
  <2>3. bit[0] = query.not /\ bit[1] = IF query.not THEN r.hits[1] => ~bit[0]
                                       ELSE bit[0] \/ r.hits[1]
    <3>1. \A i \in 0..1 : bit[i] = IF i = 0 THEN query.not
             ELSE IF query.not THEN r.hits[i] => ~bit[i - 1] ELSE bit[i - 1] \/ r.hits[i]
      BY <1>5, <2>2
    <3>2. bit[1] = IF query.not THEN r.hits[1] => ~bit[1 - 1] ELSE bit[1 - 1] \/ r.hits[1]
      BY <3>1
    <3> QED  BY <3>1, <3>2
  <2>4. DOMAIN r.hits = {1} /\ r.hits[1] \in BOOLEAN
    BY <1>1, <1>5
  <2>5. bit[1] <=> IF query.not THEN ~r.hits[1] ELSE r.hits[1]
    BY <1>3, <2>3, <2>4
  <2>6. Passing(query, x) <=> IF query.not THEN ~r.hits[1] ELSE r.hits[1]
    BY <2>4 DEF Passing
  <2> QED  BY <1>2, <1>5, <2>5, <2>6
<1> QED  BY <1>1, <1>4, <1>5

\* The counts of the groups G: for each limit the records of the group, without some.
Tally(G, q, rd, from, gone) ==
  [k \in G |-> [i \in DOMAIN q.limits |-> Cardinality(Holding(q, rd, from, k) \ gone)]]

\* There is a number of records in a group.
LEMMA HoldingFinite ==
  ASSUME NEW q, NEW S, NEW rd \in Seq(S), NEW from, NEW k, NEW gone
  PROVE  /\ IsFiniteSet(Holding(q, rd, from, k) \ gone)
         /\ Cardinality(Holding(q, rd, from, k) \ gone) \in Nat
<1>1. Len(rd) \in Nat /\ DOMAIN rd = 1..Len(rd)
  BY LenProperties
<1>2. IsFiniteSet(1..Len(rd))
  BY <1>1, FS_Interval
<1>3. Holding(q, rd, from, k) \ gone \subseteq 1..Len(rd)
  BY <1>1 DEF Holding
<1>4. IsFiniteSet(Holding(q, rd, from, k) \ gone)
  BY <1>2, <1>3, FS_Subset
<1> QED  BY <1>4, FS_CardinalityType

\* A record that leaves is one less in its group.
LEMMA TallyLess ==
  ASSUME NEW q, NEW S, NEW rd \in Seq(S), NEW from, NEW k, NEW gone,
         NEW n \in Holding(q, rd, from, k) \ gone,
         NEW G, NEW gs, gs = Tally(G, q, rd, from, gone)
  PROVE  Engine!Exited(gs, k) = Tally(G, q, rd, from, gone \cup {n})
<1> DEFINE H(x) == Holding(q, rd, from, x) \ gone
           K(x) == Holding(q, rd, from, x) \ (gone \cup {n})
<1>1. K(k) = H(k) \ {n}
  OBVIOUS
<1>2. Cardinality(K(k)) = Cardinality(H(k)) - 1
  <2>1. IsFiniteSet(H(k)) /\ n \in H(k)
    BY HoldingFinite
  <2> HIDE DEF H, K
  <2> QED  BY <1>1, <2>1, FS_RemoveElement
<1>3. \A x : x # k => K(x) = H(x)
  BY DEF Holding
<1>4. gs = [x \in G |-> [i \in DOMAIN q.limits |-> Cardinality(H(x))]]
  BY DEF Tally
<1>5. Tally(G, q, rd, from, gone \cup {n}) =
        [x \in G |-> [i \in DOMAIN q.limits |-> Cardinality(K(x))]]
  BY DEF Tally
<1> HIDE DEF H, K
<1>6. CASE k \notin G
  <2>1. Engine!Exited(gs, k) = gs
    BY <1>4, <1>6 DEF Engine!Exited
  <2>2. \A x \in G : K(x) = H(x)
    BY <1>3, <1>6
  <2> QED  BY <1>4, <1>5, <2>1, <2>2
<1>7. CASE k \in G
  <2>1. DOMAIN gs = G
    BY <1>4
  <2>2. Engine!Exited(gs, k) = [gs EXCEPT ![k] = [i \in DOMAIN gs[k] |-> gs[k][i] - 1]]
    BY <1>7, <2>1 DEF Engine!Exited
  <2>3. gs[k] = [i \in DOMAIN q.limits |-> Cardinality(H(k))]
    BY <1>4, <1>7
  <2>4. [i \in DOMAIN gs[k] |-> gs[k][i] - 1] = [i \in DOMAIN q.limits |-> Cardinality(K(k))]
    BY <1>2, <2>3
  <2>5. \A x \in G : x # k => gs[x] = [i \in DOMAIN q.limits |-> Cardinality(K(x))]
    BY <1>3, <1>4
  <2>6. Engine!Exited(gs, k) =
          [x \in G |-> IF x = k THEN [i \in DOMAIN q.limits |-> Cardinality(K(k))] ELSE gs[x]]
    BY <1>7, <2>1, <2>2, <2>4
  <2>7. \A x \in G : (IF x = k THEN [i \in DOMAIN q.limits |-> Cardinality(K(k))] ELSE gs[x])
                        = [i \in DOMAIN q.limits |-> Cardinality(K(x))]
    BY <2>5
  <2>8. Engine!Exited(gs, k) = [x \in G |-> [i \in DOMAIN q.limits |-> Cardinality(K(x))]]
    BY <2>6, <2>7
  <2> QED  BY <1>5, <2>8
<1> QED  BY <1>6, <1>7

\* Record n, and no other, has come to group k.
Joins(q, rd, rd2, from, k, n) ==
  \A x : Holding(q, rd2, from, x) = IF x = k THEN Holding(q, rd, from, x) \cup {n}
                                    ELSE Holding(q, rd, from, x)

\* gs are the counts of the groups G, and n is a new record of group k.
Counting(rd, rd2, from, k, n, G, gs) ==
  /\ \E S : rd \in Seq(S)
  /\ n \notin DOMAIN rd /\ Joins(query, rd, rd2, from, k, n)
  /\ query.limits \in Seq(Nat) /\ Len(query.limits) <= 1
  /\ gs = Tally(G, query, rd, from, {})
  /\ k \notin G => Holding(query, rd, from, k) = {}

\* A record that is counted is one more in its group.
LEMMA TallyMore ==
  ASSUME NEW rd, NEW rd2, NEW from, NEW k, NEW n, NEW G, NEW gs,
         Counting(rd, rd2, from, k, n, G, gs)
  PROVE  /\ Engine!Put(gs, k, Engine!Stepped(Engine!Counts(gs, k))) = Tally(G \cup {k}, query, rd2, from, {})
         /\ Engine!AllReached(Engine!Counts(gs, k)) <=>
              \A i \in DOMAIN query.limits : Cardinality(Holding(query, rd2, from, k)) >= query.limits[i]
<1>0. PICK S :
        /\ rd \in Seq(S)
        /\ n \notin DOMAIN rd /\ Joins(query, rd, rd2, from, k, n)
        /\ query.limits \in Seq(Nat) /\ Len(query.limits) <= 1
        /\ gs = Tally(G, query, rd, from, {})
        /\ k \notin G => Holding(query, rd, from, k) = {}
  BY DEF Counting
<1> DEFINE c == Cardinality(Holding(query, rd, from, k))
           d == Cardinality(Holding(query, rd2, from, k))
           counts == Engine!Counts(gs, k)
<1>1. Holding(query, rd, from, k) \ {} = Holding(query, rd, from, k)
      /\ Holding(query, rd2, from, k) \ {} = Holding(query, rd2, from, k)
  OBVIOUS
<1>2. c \in Nat /\ IsFiniteSet(Holding(query, rd, from, k)) /\ n \notin Holding(query, rd, from, k)
  <2>1. n \notin Holding(query, rd, from, k)
    BY <1>0 DEF Holding
  <2>2. /\ IsFiniteSet(Holding(query, rd, from, k) \ {})
        /\ Cardinality(Holding(query, rd, from, k) \ {}) \in Nat
    BY <1>0, HoldingFinite
  <2> QED  BY <1>1, <2>1, <2>2, Zenon
<1>3. d = c + 1
  <2>1. Holding(query, rd2, from, k) = Holding(query, rd, from, k) \cup {n}
    BY <1>0 DEF Joins
  <2>2. Cardinality(Holding(query, rd, from, k) \cup {n}) = Cardinality(Holding(query, rd, from, k)) + 1
    BY <1>2, FS_AddElement
  <2> QED  BY <2>1, <2>2
<1>4. gs = [x \in G |-> [i \in DOMAIN query.limits |-> Cardinality(Holding(query, rd, from, x) \ {})]]
  BY <1>0 DEF Tally
<1>5. counts = [i \in DOMAIN query.limits |-> c]
  <2>1. CASE k \in G
    BY <1>1, <1>4, <2>1 DEF Engine!Counts
  <2>2. CASE k \notin G
    <3>1. c = 0
      BY <1>0, <2>2, FS_EmptySet
    <3> QED  BY <1>4, <2>2, <3>1 DEF Engine!Counts
  <2> QED  BY <2>1, <2>2
<1>6. Len(query.limits) \in 0..1 /\ DOMAIN query.limits = 1..Len(query.limits)
  <2>1. Len(query.limits) \in Nat /\ DOMAIN query.limits = 1..Len(query.limits)
    BY <1>0, LenProperties
  <2>2. \A i \in Nat : i <= 1 => i \in 0..1
    OBVIOUS
  <2> QED  BY <1>0, <2>1, <2>2, Zenon
<1> HIDE DEF c, d, counts
<1>7. \A i \in DOMAIN query.limits : 1..(i - 1) = {}
  <2>1. \A l \in 0..1 : \A i \in 1..l : 1..(i - 1) = {}
    OBVIOUS
  <2> QED  BY <1>6, <2>1, Zenon
<1>8. Engine!Stepped(counts) = [i \in DOMAIN query.limits |-> d]
  <2>1. DOMAIN counts = DOMAIN query.limits /\ \A i \in DOMAIN query.limits : counts[i] = c
    BY <1>5
  <2>2. \A i \in DOMAIN query.limits :
          (IF \A h \in 1..(i - 1) : Engine!Reached(counts, h) THEN counts[i] + 1 ELSE counts[i]) = d
    BY <1>3, <1>7, <2>1
  <2> QED  BY <2>1, <2>2 DEF Engine!Stepped
<1>9. Engine!AllReached(counts) <=> \A i \in DOMAIN query.limits : d >= query.limits[i]
  BY <1>3, <1>5 DEF Engine!AllReached, Engine!Reached
<1>10. Engine!Put(gs, k, [i \in DOMAIN query.limits |-> d]) = Tally(G \cup {k}, query, rd2, from, {})
  <2>1. DOMAIN gs = G
    BY <1>4
  <2>2. \A x \in G : x # k => gs[x] = [i \in DOMAIN query.limits |-> Cardinality(Holding(query, rd2, from, x) \ {})]
    <3> SUFFICES ASSUME NEW x \in G, x # k
                 PROVE  gs[x] = [i \in DOMAIN query.limits |-> Cardinality(Holding(query, rd2, from, x) \ {})]
      OBVIOUS
    <3>1. Holding(query, rd2, from, x) = Holding(query, rd, from, x)
      BY <1>0 DEF Joins
    <3> QED  BY <1>4, <3>1
  <2>3. d = Cardinality(Holding(query, rd2, from, k) \ {})
    BY <1>1 DEF d
  <2>4. \A x \in G \cup {k} : (IF x = k THEN [i \in DOMAIN query.limits |-> d] ELSE gs[x]) =
          [i \in DOMAIN query.limits |-> Cardinality(Holding(query, rd2, from, x) \ {})]
    BY <2>2, <2>3
  <2> QED  BY <2>1, <2>4 DEF Engine!Put, Tally
<1> QED  BY <1>8, <1>9, <1>10 DEF counts, d

\* A window w that starts at from, of a rule q and the records rd: it has all of these
\* that the rule is about, in the groups they belong to.
WindowHas(q, rd, w, from) ==
  /\ \A j \in DOMAIN w :
       /\ w[j].n \in DOMAIN rd
       /\ w[j].rec = rd[w[j].n].r /\ w[j].ts = rd[w[j].n].ts
       /\ w[j].ref <=> Passing(q, rd[w[j].n])
       /\ w[j].ref => w[j].ptn = GroupIn(q, w[j].rec) /\ w[j].ts >= from
  /\ \A n \in DOMAIN rd :
       Passing(q, rd[n]) /\ rd[n].ts >= from => \E j \in DOMAIN w : w[j].n = n

\* The records of the first i entries that leave.
LeftBy(t, i) == {win[j].n : j \in {x \in 1..i : Engine!Leaves(win[x], t)}}

\* The function by which Undone walks the window exists.
Undoes(t, after) ==
  after = [i \in 0..Len(win) |->
    IF i = 0 THEN [local |-> local, groups |-> groups]
    ELSE IF Engine!Leaves(win[i], t) THEN Engine!Undo(after[i - 1], win[i]) ELSE after[i - 1]]

LEMMA UndoExists ==
  ASSUME NEW S, win \in Seq(S), NEW t
  PROVE  \E after : Undoes(t, after)
<1> DEFINE Then(v, i) == IF Engine!Leaves(win[i], t) THEN Engine!Undo(v, win[i]) ELSE v
           Begun == [local |-> local, groups |-> groups]
           Upto(m, f) == f = [i \in 0..m |-> IF i = 0 THEN Begun ELSE Then(f[i - 1], i)]
           Bad == {m \in 0..Len(win) : ~ \E f : Upto(m, f)}
<1>1. Len(win) \in Nat
  BY LenProperties
<1> HIDE DEF Then, Begun
<1>2. Upto(0, [i \in 0..0 |-> Begun])
  OBVIOUS
<1>3. ASSUME NEW m \in Nat, NEW f, Upto(m, f)
      PROVE  \E g : Upto(m + 1, g)
  <2> DEFINE g == [i \in 0..(m + 1) |-> IF i = m + 1 THEN Then(f[m], m + 1) ELSE f[i]]
  <2>1. \A i \in 0..(m + 1) : g[i] = IF i = 0 THEN Begun ELSE Then(g[i - 1], i)
    <3> SUFFICES ASSUME NEW i \in 0..(m + 1)
                 PROVE  g[i] = IF i = 0 THEN Begun ELSE Then(g[i - 1], i)
      OBVIOUS
    <3>1. CASE i = m + 1
      BY <3>1
    <3>2. CASE i \in 0..m
      <4>1. f[i] = IF i = 0 THEN Begun ELSE Then(f[i - 1], i)
        BY <1>3, <3>2
      <4>2. g[i] = f[i] /\ (i # 0 => g[i - 1] = f[i - 1])
        BY <3>2
      <4> QED  BY <4>1, <4>2
    <3> QED  BY <3>1, <3>2
  <2>2. g = [i \in 0..(m + 1) |-> g[i]]
    OBVIOUS
  <2> HIDE DEF g
  <2>3. Upto(m + 1, g)
    BY <2>1, <2>2
  <2> QED  BY <2>3
<1> HIDE DEF Upto
<1>4. Bad = {}
  <2> SUFFICES ASSUME Bad # {}  PROVE FALSE
    OBVIOUS
  <2>1. PICK m \in Bad : \A k \in Bad : m <= k
    <3>1. Bad \in SUBSET Nat
      BY <1>1
    <3> HIDE DEF Bad
    <3> QED  BY <3>1, LeastExists
  <2>2. m # 0
    BY <1>2, <2>1
  <2>3. m - 1 \in 0..Len(win) /\ m - 1 \notin Bad
    BY <1>1, <2>1, <2>2
  <2>4. PICK f : Upto(m - 1, f)
    BY <2>3
  <2>5. \E g : Upto(m, g)
    <3>1. m - 1 \in Nat /\ (m - 1) + 1 = m
      BY <1>1, <2>1, <2>3
    <3>2. \E g : Upto((m - 1) + 1, g)
      BY <1>3, <2>4, <3>1
    <3> QED  BY <3>1, <3>2
  <2> QED  BY <2>1, <2>5
<1>5. \E f : Upto(Len(win), f)
  BY <1>1, <1>4
<1> QED  BY <1>5 DEF Upto, Then, Begun, Undoes

\* What the walk undoes: each record that leaves is taken out of its group.
LEMMA UndoneFacts ==
  ASSUME NEW S, win \in Seq(S), Distinct(win), NEW R, read \in Seq(R),
         WindowHas(query, read, win, wmin), TidyIn(query, read),
         NEW G, groups = Tally(G, query, read, wmin, {}),
         ~query.by => local = Nothing, NEW t
  PROVE  /\ Engine!Undone(t).groups = Tally(G, query, read, wmin, LeftBy(t, Len(win)))
         /\ ~query.by => Engine!Undone(t).local = Nothing
<1> DEFINE after == CHOOSE f : Undoes(t, f)
           Good(m) == /\ after[m].groups = Tally(G, query, read, wmin, LeftBy(t, m))
                      /\ ~query.by => after[m].local = Nothing
           Bad == {m \in 0..Len(win) : ~Good(m)}
<1>1. Len(win) \in Nat /\ DOMAIN win = 1..Len(win)
  BY LenProperties
<1>2. Engine!Undone(t) = after[Len(win)]
  BY DEF Engine!Undone, Undoes
<1>3. Undoes(t, after)
  <2>1. \E f : Undoes(t, f)
    BY UndoExists
  <2> QED  BY <2>1, Zenon
<1> HIDE DEF after
<1>4. /\ after[0] = [local |-> local, groups |-> groups]
      /\ \A i \in 1..Len(win) : after[i] =
           IF Engine!Leaves(win[i], t) THEN Engine!Undo(after[i - 1], win[i]) ELSE after[i - 1]
  <2>1. \A i \in 0..Len(win) : after[i] =
          IF i = 0 THEN [local |-> local, groups |-> groups]
          ELSE IF Engine!Leaves(win[i], t) THEN Engine!Undo(after[i - 1], win[i]) ELSE after[i - 1]
    BY <1>3 DEF Undoes
  <2> QED  BY <1>1, <2>1
<1>5. Good(0)
  <2>1. LeftBy(t, 0) = {}
    BY DEF LeftBy
  <2>2. after[0].local = local /\ after[0].groups = groups
    BY <1>4
  <2> QED  BY <2>1, <2>2, Zenon
<1>6. ASSUME NEW m \in 1..Len(win), Good(m - 1)
      PROVE  Good(m)
  <2> DEFINE e == win[m]
             v == after[m - 1]
             gone == LeftBy(t, m - 1)
  <2>1. CASE ~Engine!Leaves(e, t)
    <3>1. after[m] = v
      BY <1>4, <2>1
    <3>2. \A x \in 1..m : Engine!Leaves(win[x], t) => x \in 1..(m - 1)
      BY <2>1
    <3>3. \A x \in 1..(m - 1) : x \in 1..m
      OBVIOUS
    <3>4. {x \in 1..m : Engine!Leaves(win[x], t)} = {x \in 1..(m - 1) : Engine!Leaves(win[x], t)}
      BY <3>2, <3>3
    <3>5. LeftBy(t, m) = gone
      BY <3>4 DEF LeftBy
    <3> QED  BY <1>6, <3>1, <3>5
  <2>2. CASE Engine!Leaves(e, t)
    <3> DEFINE k == Engine!Captured(v.local, e.rec)
    <3>1. after[m] = [local |-> k, groups |-> Engine!Exited(v.groups, k)]
      BY <1>4, <2>2 DEF Engine!Undo
    <3>2. e.ref /\ m \in DOMAIN win
      BY <1>1, <2>2 DEF Engine!Leaves
    <3>3. /\ e.n \in DOMAIN read /\ Passing(query, read[e.n]) /\ e.rec = read[e.n].r
          /\ e.ts = read[e.n].ts /\ e.ts >= wmin
      BY <3>2 DEF WindowHas
    <3>4. k = GroupIn(query, e.rec)
      <4>1. CASE query.by
        BY <3>3, <4>1 DEF Engine!Captured, GroupIn, TidyIn
      <4>2. CASE ~query.by
        BY <1>6, <4>2 DEF Engine!Captured, GroupIn
      <4> QED  BY <4>1, <4>2
    <3>5. e.n \in Holding(query, read, wmin, k)
      BY <3>3, <3>4 DEF Holding
    <3>6. e.n \notin gone
      <4>1. \A x \in 1..(m - 1) : x \in DOMAIN win /\ x # m
        BY <1>1
      <4>2. \A x \in 1..(m - 1) : win[x].n # e.n
        BY <3>2, <4>1 DEF Distinct
      <4> QED  BY <4>2 DEF LeftBy
    <3>7. LeftBy(t, m) = gone \cup {e.n}
      <4>1. \A x : x \in 1..m <=> x \in 1..(m - 1) \/ x = m
        BY <1>1
      <4>2. {x \in 1..m : Engine!Leaves(win[x], t)} =
              {x \in 1..(m - 1) : Engine!Leaves(win[x], t)} \cup {m}
        BY <2>2, <4>1
      <4> QED  BY <4>2 DEF LeftBy
    <3>8. v.groups = Tally(G, query, read, wmin, gone)
      BY <1>6
    <3> HIDE DEF k, e, v, gone
    <3>9. Engine!Exited(v.groups, k) = Tally(G, query, read, wmin, gone \cup {e.n})
      BY <3>5, <3>6, <3>8, TallyLess
    <3>10. ~query.by => k = Nothing
      BY <3>4 DEF GroupIn
    <3> QED  BY <3>1, <3>7, <3>9, <3>10
  <2> QED  BY <2>1, <2>2
<1>7. Bad = {}
  <2> SUFFICES ASSUME Bad # {}  PROVE FALSE
    OBVIOUS
  <2> HIDE DEF Good
  <2>1. PICK m \in Bad : \A k \in Bad : m <= k
    <3>1. Bad \in SUBSET Nat
      BY <1>1
    <3> HIDE DEF Bad
    <3> QED  BY <3>1, LeastExists
  <2>2. m # 0
    BY <1>5, <2>1
  <2>3. m \in 1..Len(win) /\ m - 1 \in 0..Len(win) /\ m - 1 \notin Bad
    BY <1>1, <2>1, <2>2
  <2>4. Good(m - 1)
    BY <2>3
  <2> QED  BY <1>6, <2>1, <2>3, <2>4
<1>8. Good(Len(win))
  <2> HIDE DEF Good
  <2> QED  BY <1>1, <1>7
<1> QED  BY <1>2, <1>8

\* The invariant of a rule with groups and a window.
WindowInv ==
  /\ wmin = IF wmax = 0 THEN 0 ELSE Engine!Floor(wmax)
  /\ wmin \in Nat /\ (wmax # 0 => wmax >= Over + Hop)
  /\ \A n \in DOMAIN read : read[n].r.after # NoTime => read[n].ts <= wmax
  /\ WindowHas(query, read, win, wmin)
  /\ \A j \in DOMAIN win : win[j].unq => win[j].n \in Given
  /\ groups = Tally(DOMAIN groups, query, read, wmin, {})
  /\ \A k : k \notin DOMAIN groups => Holding(query, read, wmin, k) = {}
  /\ ~query.by => local = Nothing

\* What was read: records, of which those with a time have one.
ReadsTimed ==
  /\ read \in Seq([r : Records, ts : Nat \cup {NoTime}])
  /\ \A n \in DOMAIN read : read[n].ts = NoTime <=> read[n].r.after = NoTime

\* Where the window starts for a record that is later than those before.
LEMMA StartFacts ==
  ASSUME WindowInv, wmax \in Nat, NEW t \in Nat, t > wmax, wmax = 0 => t >= Over + Hop
  PROVE  /\ Engine!From(t) = Engine!Floor(t) /\ wmin + Over <= t
         /\ Engine!Floor(t) \in Nat /\ wmin <= Engine!Floor(t) /\ Engine!Floor(t) <= t
         /\ t >= Over + Hop
<1>1. Over \in Nat /\ Hop \in Nat /\ wmin \in Nat
  BY WindowAssumption DEF WindowInv
<1>2. t >= Over + Hop /\ t >= Over
  <2>1. wmax # 0 => wmax >= Over + Hop
    BY DEF WindowInv
  <2> QED  BY <1>1, <2>1
<1>3. Engine!Floor(t) \in Nat /\ Engine!Floor(t) + Over <= t
  BY <1>2, FloorFacts
<1>4. wmin <= Engine!Floor(t)
  <2>1. CASE wmax = 0
    <3>1. wmin = 0
      BY <2>1 DEF WindowInv
    <3> QED  BY <1>3, <3>1
  <2>2. CASE wmax # 0
    <3>1. wmin = Engine!Floor(wmax) /\ wmax >= Over
      BY <1>1, <2>2 DEF WindowInv
    <3>2. wmax <= t
      OBVIOUS
    <3> QED  BY <3>1, <3>2, FloorFacts
  <2> QED  BY <2>1, <2>2
<1>5. wmin + Over <= t /\ Engine!Floor(t) <= t
  <2>1. \A f, w, o, u \in Nat : f + o <= u /\ w <= f => w + o <= u /\ f <= u
    OBVIOUS
  <2> QED  BY <1>1, <1>3, <1>4, <2>1
<1>6. Engine!From(t) = Engine!Floor(t)
  <2>1. ~(wmin + Over > t)
    BY <1>1, <1>5
  <2> QED  BY <2>1 DEF Engine!From
<1> QED  BY <1>2, <1>3, <1>4, <1>5, <1>6

\* A record of a tidy source that comes into a window: what leaves is undone.
LEMMA SlideFacts ==
  ASSUME WindowInv, EngineInv, ReadsTimed, TidyIn(query, read), query.over, query \in Queries,
         NEW t \in Nat, t > wmax, wmax = 0 => t >= Over + Hop
  PROVE  /\ WindowHas(query, read, Engine!Stays(t), Engine!Floor(t))
         /\ \A j \in DOMAIN Engine!Stays(t) : Engine!Stays(t)[j].unq => Engine!Stays(t)[j].n \in Given
         /\ Engine!Undone(t).groups = Tally(DOMAIN groups, query, read, Engine!Floor(t), {})
         /\ \A k : k \notin DOMAIN groups => Holding(query, read, Engine!Floor(t), k) = {}
         /\ ~query.by => Engine!Undone(t).local = Nothing
<1> DEFINE from == Engine!Floor(t)
           D == {i \in DOMAIN win : win[i].ref /\ ~Engine!Leaves(win[i], t)}
           u == Engine!At(win, D)
<1>1. /\ Engine!From(t) = from /\ wmin + Over <= t /\ from \in Nat /\ wmin <= from
      /\ wmin \in Nat
  BY StartFacts DEF WindowInv, EngineInv
<1> HIDE DEF from
<1>2. \A x : Engine!Leaves(x, t) <=> x.ref /\ x.ts < from
  BY <1>1 DEF Engine!Leaves
<1>3. \A n \in DOMAIN read : Passing(query, read[n]) => read[n].ts \in Nat
  <2>1. \A n \in DOMAIN read : read[n].ts \in Nat \cup {NoTime}
    <3>1. Len(read) \in Nat /\ DOMAIN read = 1..Len(read)
      BY LenProperties DEF ReadsTimed
    <3>2. \A n \in DOMAIN read : read[n] \in [r : Records, ts : Nat \cup {NoTime}]
      BY <3>1, ElementOfSeq DEF ReadsTimed
    <3> QED  BY <3>2
  <2> QED  BY <2>1 DEF Passing
<1>4. \A j \in DOMAIN win :
        /\ win[j].n \in DOMAIN read
        /\ win[j].rec = read[win[j].n].r /\ win[j].ts = read[win[j].n].ts
        /\ win[j].ref <=> Passing(query, read[win[j].n])
        /\ win[j].ref => win[j].ptn = GroupIn(query, win[j].rec) /\ win[j].ts >= wmin
        /\ win[j].ref => win[j].ts \in Nat
  BY <1>3 DEF WindowInv, WindowHas
<1>5. \A j \in DOMAIN win : j \in D <=> win[j].ref /\ win[j].ts >= from
  <2> SUFFICES ASSUME NEW j \in DOMAIN win
               PROVE  j \in D <=> win[j].ref /\ win[j].ts >= from
    OBVIOUS
  <2>1. j \in D <=> win[j].ref /\ ~(win[j].ts < from)
    BY <1>2
  <2>2. win[j].ref => win[j].ts \in Nat
    BY <1>4
  <2> HIDE DEF D
  <2> QED  BY <1>1, <2>1, <2>2
<1>6. PICK S : win \in Seq(S)
  BY DEF EngineInv, IsWindow
<1>7. PICK R : read \in Seq(R)
  BY DEF EngineInv
<1>8. Engine!Stays(t) = u
  BY DEF Engine!Stays
<1> HIDE DEF D
<1>9. /\ \A e \in DOMAIN u : \E k \in DOMAIN win : k \in D /\ u[e] = win[k]
      /\ \A k \in DOMAIN win : k \in D => \E e \in DOMAIN u : u[e] = win[k]
  <2>1. \A e \in DOMAIN u : \E k \in DOMAIN win : k \in D /\ u[e] = win[k]
    BY <1>6, AtFacts
  <2>0. u \in Seq(S)
    BY <1>6, AtFacts
  <2>2. ASSUME NEW k \in DOMAIN win, k \in D
        PROVE  \E e \in DOMAIN u : u[e] = win[k]
    BY <1>6, <2>0, <2>2, AtFacts
  <2> QED  BY <2>1, <2>2, Zenon
<1> HIDE DEF u
<1>10. WindowHas(query, read, u, from)
  <2>1. ASSUME NEW e \in DOMAIN u
        PROVE  /\ u[e].n \in DOMAIN read
               /\ u[e].rec = read[u[e].n].r /\ u[e].ts = read[u[e].n].ts
               /\ u[e].ref <=> Passing(query, read[u[e].n])
               /\ u[e].ref => u[e].ptn = GroupIn(query, u[e].rec) /\ u[e].ts >= from
    <3>1. PICK k \in DOMAIN win : k \in D /\ u[e] = win[k]
      BY <1>9
    <3> QED  BY <1>4, <1>5, <3>1
  <2>2. ASSUME NEW n \in DOMAIN read, Passing(query, read[n]), read[n].ts >= from
        PROVE  \E e \in DOMAIN u : u[e].n = n
    <3>1. read[n].ts >= wmin
      BY <1>1, <1>3, <2>2
    <3>2. PICK j \in DOMAIN win : win[j].n = n
      BY <2>2, <3>1 DEF WindowInv, WindowHas
    <3>3. j \in D
      BY <1>4, <1>5, <2>2, <3>2
    <3> QED  BY <1>9, <3>2, <3>3
  <2> QED  BY <2>1, <2>2 DEF WindowHas
<1>11. \A e \in DOMAIN u : u[e].unq => u[e].n \in Given
  BY <1>9 DEF WindowInv
<1>12. \A k : Holding(query, read, wmin, k) \ LeftBy(t, Len(win)) = Holding(query, read, from, k) \ {}
  <2> SUFFICES ASSUME NEW k, NEW n
               PROVE  n \in Holding(query, read, wmin, k) /\ n \notin LeftBy(t, Len(win)) <=>
                      n \in Holding(query, read, from, k)
    OBVIOUS
  <2>1. DOMAIN win = 1..Len(win)
    BY <1>6, LenProperties
  <2>2. n \in Holding(query, read, wmin, k) =>
          (n \in LeftBy(t, Len(win)) <=> read[n].ts < from)
    <3> SUFFICES ASSUME n \in Holding(query, read, wmin, k)
                 PROVE  n \in LeftBy(t, Len(win)) <=> read[n].ts < from
      OBVIOUS
    <3>1. n \in DOMAIN read /\ Passing(query, read[n]) /\ read[n].ts >= wmin
      BY DEF Holding
    <3>2. PICK j \in DOMAIN win : win[j].n = n
      BY <3>1 DEF WindowInv, WindowHas
    <3>3. win[j].ref /\ win[j].ts = read[n].ts
      BY <1>4, <3>1, <3>2
    <3>4. \A x \in DOMAIN win : win[x].n = n => x = j
      BY <3>2 DEF EngineInv, IsWindow, Distinct
    <3> QED  BY <1>2, <2>1, <3>2, <3>3, <3>4 DEF LeftBy
  <2>3. n \in Holding(query, read, from, k) =>
          n \in Holding(query, read, wmin, k) /\ read[n].ts >= from /\ read[n].ts \in Nat
    BY <1>1, <1>3 DEF Holding
  <2>4. n \in Holding(query, read, wmin, k) => read[n].ts \in Nat
    BY <1>3 DEF Holding
  <2>5. n \in Holding(query, read, wmin, k) /\ read[n].ts >= from => n \in Holding(query, read, from, k)
    BY DEF Holding
  <2>6. \A x \in Nat : x < from <=> ~(x >= from)
    BY <1>1
  <2> QED  BY <2>2, <2>3, <2>4, <2>5, <2>6, Zenon
<1>13. /\ Engine!Undone(t).groups = Tally(DOMAIN groups, query, read, wmin, LeftBy(t, Len(win)))
       /\ ~query.by => Engine!Undone(t).local = Nothing
  <2>1. WindowHas(query, read, win, wmin) /\ groups = Tally(DOMAIN groups, query, read, wmin, {})
    BY DEF WindowInv
  <2>3. ~query.by => local = Nothing
    BY DEF WindowInv
  <2>2. Distinct(win)
    BY DEF EngineInv, IsWindow
  <2> QED  BY <1>6, <1>7, <2>1, <2>2, <2>3, UndoneFacts
<1>14. Tally(DOMAIN groups, query, read, wmin, LeftBy(t, Len(win))) =
         Tally(DOMAIN groups, query, read, from, {})
  BY <1>12 DEF Tally
<1>15. \A k : k \notin DOMAIN groups => Holding(query, read, from, k) = {}
  <2>1. \A k : Holding(query, read, from, k) \subseteq Holding(query, read, wmin, k)
    BY <1>12
  <2> QED  BY <2>1 DEF WindowInv
<1> QED  BY <1>8, <1>10, <1>11, <1>13, <1>14, <1>15 DEF from

\* One more record, of those that the window is about or not.
LEMMA HoldingMore ==
  ASSUME NEW q, NEW S, NEW rd \in Seq(S), NEW x, NEW from, NEW k
  PROVE  Holding(q, Append(rd, x), from, k) = Holding(q, rd, from, k) \cup
           (IF Passing(q, x) /\ x.ts >= from /\ GroupIn(q, x.r) = k THEN {Len(rd) + 1} ELSE {})
<1> DEFINE m == Len(rd) + 1
           rd2 == Append(rd, x)
<1>1. /\ DOMAIN rd2 = DOMAIN rd \cup {m} /\ m \notin DOMAIN rd
      /\ \A i \in DOMAIN rd : rd2[i] = rd[i]
      /\ rd2[m] = x
  <2>1. /\ Len(rd) \in Nat /\ DOMAIN rd = 1..Len(rd) /\ DOMAIN rd2 = 1..(Len(rd) + 1)
        /\ \A i \in 1..Len(rd) : rd2[i] = rd[i]
        /\ rd2[m] = x
    BY SequenceAppend
  <2> QED  BY <2>1
<1> HIDE DEF m, rd2
<1>2. Holding(q, rd2, from, k) = Holding(q, rd, from, k) \cup
           (IF Passing(q, x) /\ x.ts >= from /\ GroupIn(q, x.r) = k THEN {m} ELSE {})
  BY <1>1 DEF Holding
<1> QED  BY <1>2 DEF m, rd2

\* The window and group of a record that passes are what is held for it.
LEMMA UpToHolding ==
  ASSUME NEW q, NEW S, NEW rd \in Seq(S), NEW x, Passing(q, x)
  PROVE  UpTo(q, Append(rd, x), Len(rd) + 1) =
           Holding(q, Append(rd, x), Engine!Floor(x.ts), GroupIn(q, x.r))
<1> DEFINE m == Len(rd) + 1
           rd2 == Append(rd, x)
<1>1. DOMAIN rd2 = 1..m /\ rd2[m] = x
  BY SequenceAppend
<1>2. \A i : (q.by => rd2[i].r.key = x.r.key) <=> GroupIn(q, rd2[i].r) = GroupIn(q, x.r)
  BY DEF GroupIn
<1> HIDE DEF m, rd2
<1>3. UpTo(q, rd2, m) = Holding(q, rd2, Engine!Floor(x.ts), GroupIn(q, x.r))
  BY <1>1, <1>2 DEF UpTo, Holding
<1> QED  BY <1>3 DEF m, rd2

\* A record that does not pass need not be in the window ...
LEMMA WindowKept ==
  ASSUME NEW q, NEW S, NEW rd \in Seq(S), NEW x, NEW rd2, rd2 = Append(rd, x),
         ~Passing(q, x), NEW w, NEW from, WindowHas(q, rd, w, from)
  PROVE  WindowHas(q, rd2, w, from)
<1> DEFINE m == Len(rd) + 1
<1>1. /\ DOMAIN rd2 = DOMAIN rd \cup {m}
      /\ \A i \in DOMAIN rd : rd2[i] = rd[i]
      /\ rd2[m] = x
  <2>1. /\ Len(rd) \in Nat /\ DOMAIN rd = 1..Len(rd) /\ DOMAIN rd2 = 1..(Len(rd) + 1)
        /\ \A i \in 1..Len(rd) : rd2[i] = rd[i]
        /\ rd2[m] = x
    BY SequenceAppend
  <2> QED  BY <2>1
<1> HIDE DEF m
<1> QED  BY <1>1 DEF WindowHas

\* ... and one that has an entry at its end is in it.
LEMMA WindowMore ==
  ASSUME NEW q, NEW S, NEW rd \in Seq(S), NEW x, NEW m, m = Len(rd) + 1,
         NEW rd2, rd2 = Append(rd, x),
         NEW T, NEW w \in Seq(T), NEW from, WindowHas(q, rd, w, from),
         NEW e, e.n = m, e.rec = x.r, e.ts = x.ts, e.ref <=> Passing(q, x),
         e.ref => e.ptn = GroupIn(q, e.rec) /\ e.ts >= from
  PROVE  WindowHas(q, rd2, Append(w, e), from)
<1> DEFINE u == Append(w, e)
           l == Len(w) + 1
<1>1. /\ DOMAIN rd2 = DOMAIN rd \cup {m} /\ m \notin DOMAIN rd
      /\ \A i \in DOMAIN rd : rd2[i] = rd[i]
      /\ rd2[m] = x
  <2>1. /\ Len(rd) \in Nat /\ DOMAIN rd = 1..Len(rd) /\ DOMAIN rd2 = 1..(Len(rd) + 1)
        /\ \A i \in 1..Len(rd) : rd2[i] = rd[i]
        /\ rd2[m] = x
    BY SequenceAppend
  <2> QED  BY <2>1
<1>2. /\ DOMAIN u = DOMAIN w \cup {l}
      /\ \A i \in DOMAIN w : u[i] = w[i]
      /\ u[l] = e
  <2>1. /\ Len(w) \in Nat /\ DOMAIN w = 1..Len(w) /\ DOMAIN u = 1..(Len(w) + 1)
        /\ \A i \in 1..Len(w) : u[i] = w[i]
        /\ u[l] = e
    BY SequenceAppend
  <2> HIDE DEF u
  <2> QED  BY <2>1
<1> HIDE DEF u, l
<1>3. ASSUME NEW j \in DOMAIN u
      PROVE  /\ u[j].n \in DOMAIN rd2
             /\ u[j].rec = rd2[u[j].n].r /\ u[j].ts = rd2[u[j].n].ts
             /\ u[j].ref <=> Passing(q, rd2[u[j].n])
             /\ u[j].ref => u[j].ptn = GroupIn(q, u[j].rec) /\ u[j].ts >= from
  <2>1. CASE j = l
    BY <1>1, <1>2, <2>1
  <2>2. CASE j \in DOMAIN w
    BY <1>1, <1>2, <2>2 DEF WindowHas
  <2> QED  BY <1>2, <2>1, <2>2
<1>4. ASSUME NEW n \in DOMAIN rd2, Passing(q, rd2[n]), rd2[n].ts >= from
      PROVE  \E j \in DOMAIN u : u[j].n = n
  <2>1. CASE n = m
    BY <1>2, <2>1
  <2>2. CASE n \in DOMAIN rd
    <3>1. PICK j \in DOMAIN w : w[j].n = n
      BY <1>1, <1>4, <2>2 DEF WindowHas
    <3> QED  BY <1>2, <3>1
  <2> QED  BY <1>1, <2>1, <2>2
<1> QED  BY <1>3, <1>4 DEF WindowHas, u

\* The window without the entry that was put at its end.
LEMMA FrontAppend ==
  ASSUME NEW S, NEW w \in Seq(S), NEW e
  PROVE  Engine!Front(Append(w, e)) = w /\ Append(w, e)[Len(Append(w, e))] = e
<1> DEFINE u == Append(w, e)
<1>1. /\ Len(w) \in Nat /\ Len(u) = Len(w) + 1 /\ w \in [1..Len(w) -> S]
      /\ \A i \in 1..Len(w) : u[i] = w[i]
      /\ u[Len(w) + 1] = e
  BY SequenceAppend, LenProperties
<1> HIDE DEF u
<1>2. Len(u) - 1 = Len(w)
  BY <1>1
<1>3. Engine!Front(u) = [i \in 1..Len(w) |-> u[i]]
  BY <1>2 DEF Engine!Front
<1>4. Engine!Front(u) = w
  BY <1>1, <1>3
<1> QED  BY <1>1, <1>4 DEF u

\* All the numbers that have been picked are given.
LEMMA NumbersGiven ==
  ASSUME NEW S, NEW w \in Seq(S), NEW D, D \subseteq DOMAIN w
  PROVE  {Engine!Numbers(w, D)[i] : i \in DOMAIN Engine!Numbers(w, D)} = {w[j].n : j \in D}
<1> DEFINE u == Engine!At(w, D)
<1>1. u \in Seq(S)
  BY AtFacts
<1>2. \A e \in DOMAIN u : \E k \in DOMAIN w : k \in D /\ u[e] = w[k]
  BY <1>1, AtFacts
<1>3. ASSUME NEW k \in DOMAIN w, k \in D
      PROVE  \E e \in DOMAIN u : u[e] = w[k]
  BY <1>1, <1>3, AtFacts
<1>4. Engine!Numbers(w, D) = [i \in DOMAIN u |-> u[i].n]
  BY DEF Engine!Numbers
<1> HIDE DEF u
<1>5. {Engine!Numbers(w, D)[i] : i \in DOMAIN Engine!Numbers(w, D)} = {u[i].n : i \in DOMAIN u}
  BY <1>4
<1>6. \A i \in DOMAIN u : u[i].n \in {w[j].n : j \in D}
  BY <1>2
<1>7. \A j \in D : w[j].n \in {u[i].n : i \in DOMAIN u}
  BY <1>3
<1> QED  BY <1>5, <1>6, <1>7

\* The inductive invariant: what is given is what is meant; and a rule with groups
\* has a window, or there is nothing to count.
MeaningInv ==
  /\ query \in Queries
  /\ ReadsTimed
  /\ state = "run" /\ TidyIn(query, read) /\ Len(query.limits) <= 1 =>
       /\ Given = Meant(query, read)
       /\ Grouping(query) /\ query.over => WindowInv
       /\ Grouping(query) /\ ~query.over => \A n \in DOMAIN read : ~Passing(query, read[n])

\* The record that is read.
Found(r) == [r |-> r, ts |-> IF r.after = NoTime THEN NoTime ELSE Engine!Time(r)]

\* It is the last of those that were read.
LEMMA FoundFacts ==
  ASSUME EngineInv, ReadsTimed, NEW r \in Records, Engine!Yields(r)
  PROVE  /\ read' = Append(read, Found(r)) /\ out = <<>> /\ state = "run"
         /\ Found(r).r = r /\ (Found(r).ts = NoTime <=> r.after = NoTime)
         /\ ReadsTimed'
         /\ Len(read) \in Nat /\ read'[Len(read) + 1] = Found(r)
         /\ Len(read) + 1 \in DOMAIN read'
<1> DEFINE x == Found(r)
           T == [r : Records, ts : Nat \cup {NoTime}]
<1>1. read' = Append(read, x) /\ out = <<>> /\ state = "run"
  BY DEF Engine!Yields, Found
<1>2. r.after # NoTime => Engine!Time(r) \in Nat
  BY TimeLater DEF EngineInv
<1>3. x \in T /\ x.r = r /\ (x.ts = NoTime <=> r.after = NoTime)
  BY <1>2, NoTimeAssumption DEF Found
<1>4. read \in Seq(T)
  BY DEF ReadsTimed
<1> HIDE DEF x, T
<1>5. /\ read' \in Seq(T) /\ Len(read) \in Nat /\ DOMAIN read = 1..Len(read)
      /\ DOMAIN read' = 1..(Len(read) + 1)
      /\ \A i \in 1..Len(read) : read'[i] = read[i]
      /\ read'[Len(read) + 1] = x
  <2>1. T \cup {x} = T
    BY <1>3
  <2> QED  BY <1>1, <1>4, <2>1, SequenceAppend
<1>6. \A n \in DOMAIN read' : n \in DOMAIN read \/ n = Len(read) + 1
  BY <1>5
<1>7. \A n \in DOMAIN read' : read'[n].ts = NoTime <=> read'[n].r.after = NoTime
  <2>1. \A n \in DOMAIN read : read[n].ts = NoTime <=> read[n].r.after = NoTime
    BY DEF ReadsTimed
  <2> QED  BY <1>3, <1>5, <1>6, <2>1
<1>8. ReadsTimed'
  BY <1>5, <1>7 DEF ReadsTimed, T
<1> QED  BY <1>1, <1>3, <1>5, <1>8 DEF x

\* A record of a tidy source is later than those before.
LEMMA LaterFacts ==
  ASSUME EngineInv, ReadsTimed, NEW r \in Records, Engine!Yields(r), r.after # NoTime,
         TidyIn(query, read'), query.over
  PROVE  /\ Engine!Time(r) \in Nat /\ Engine!Time(r) > wmax
         /\ wmax = 0 => Engine!Time(r) >= Over + Hop
         /\ Found(r).ts = Engine!Time(r)
<1>1. r.after # 0
  BY FoundFacts DEF TidyIn
<1>2. r.after \in Nat /\ r.after >= 1 /\ wmax \in Nat
  <2>1. r.after \in Nat
    BY RecordsAssumption
  <2> QED  BY <1>1, <2>1 DEF EngineInv
<1> QED  BY <1>2, WindowAssumption DEF Engine!Time, Found

\* A tidy source: the filter is about the values of the field.
LEMMA FilteredIsPassing ==
  ASSUME EngineInv, ReadsTimed, NEW r \in Records, Engine!Yields(r), query \in Queries,
         query.over => r.after # NoTime, TidyIn(query, read')
  PROVE  Engine!Filtered(r) <=> Passing(query, Found(r))
<1>1. Len(r.hits) <= 1
  BY FoundFacts DEF TidyIn
<1>2. Found(r).r = r /\ (query.over => Found(r).ts # NoTime)
  BY FoundFacts
<1> QED  BY <1>1, <1>2, FilterFacts

\* What was read before was tidy, too, and what the new record adds to what is meant.
LEMMA MeantAfter ==
  ASSUME EngineInv, ReadsTimed, NEW r \in Records, Engine!Yields(r), TidyIn(query, read')
  PROVE  /\ TidyIn(query, read)
         /\ Meant(query, read') = Meant(query, read) \cup
              Gain(query, read', Len(read) + 1, Found(r))
<1> DEFINE T == [r : Records, ts : Nat \cup {NoTime}]
           m == Len(read) + 1
           x == Found(r)
<1>1. read \in Seq(T)
  BY DEF ReadsTimed
<1>2. read' = Append(read, x)
  BY FoundFacts
<1> HIDE DEF x, T
<1>3. /\ TidyIn(query, Append(read, x)) => TidyIn(query, read)
      /\ Meant(query, Append(read, x)) =
           Meant(query, read) \cup Gain(query, Append(read, x), Len(read) + 1, x)
  BY <1>1, MeantMore
<1> QED  BY <1>2, <1>3 DEF x

\* No record is later than the latest.
LEMMA ReadsBefore ==
  ASSUME EngineInv, ReadsTimed, WindowInv, NEW r \in Records, Engine!Yields(r),
         NEW t \in Nat, wmax <= t, r.after # NoTime => Found(r).ts = t
  PROVE  \A n \in DOMAIN read' : read'[n].r.after # NoTime => read'[n].ts <= t
<1> DEFINE T == [r : Records, ts : Nat \cup {NoTime}]
           m == Len(read) + 1
           x == Found(r)
<1>1. read' = Append(read, x) /\ read \in Seq(T) /\ x.r = r
  BY FoundFacts DEF ReadsTimed
<1> HIDE DEF T, x
<1>2. /\ Len(read) \in Nat /\ DOMAIN read = 1..Len(read) /\ DOMAIN read' = 1..(Len(read) + 1)
      /\ \A i \in 1..Len(read) : read'[i] = read[i]
      /\ read'[m] = x
  BY <1>1, SequenceAppend
<1>3. \A n \in DOMAIN read' : n = m \/ (n \in DOMAIN read /\ read'[n] = read[n])
  BY <1>2
<1>4. \A n \in DOMAIN read : read[n].r.after # NoTime => read[n].ts \in Nat /\ read[n].ts <= wmax
  <2>1. \A n \in DOMAIN read : read[n] \in T
    BY <1>1, <1>2, ElementOfSeq
  <2>2. \A n \in DOMAIN read : read[n].ts = NoTime <=> read[n].r.after = NoTime
    BY DEF ReadsTimed
  <2> QED  BY <2>1, <2>2 DEF WindowInv, T
<1> HIDE DEF m
<1>5. wmax \in Nat
  BY DEF EngineInv
<1>6. \A d \in Nat : d <= wmax => d <= t
  BY <1>5
<1>7. t <= t
  OBVIOUS
<1> QED  BY <1>1, <1>2, <1>3, <1>4, <1>6, <1>7 DEF x

\* A record that passes and is counted.
LEMMA StepMeans ==
  ASSUME EngineInv, MeaningInv, NEW r \in Records, query.over, r.after # NoTime,
         Grouping(query), Engine!Filtered(r), Engine!Yields(r), Engine!Step(r),
         query' = query, offered' = offered, TidyIn(query, read'), Len(query.limits) <= 1
  PROVE  Given' = Meant(query', read') /\ WindowInv'
<1> DEFINE t == Engine!Time(r)
           s == Engine!Slid(r)
           from == Engine!Floor(t)
           m == Len(read) + 1
           x == Found(r)
           v == Engine!Stays(t)
           k == GroupIn(query, r)
           e0 == Engine!Entry(r, m, t)
           e1 == [e0 EXCEPT !.ref = TRUE, !.ptn = k]
           w == Append(v, e1)
           G == DOMAIN groups
           T == [r : Records, ts : Nat \cup {NoTime}]
<1>1. /\ read' = Append(read, x) /\ out = <<>> /\ state = "run"
      /\ x.r = r /\ ReadsTimed' /\ Len(read) \in Nat /\ read'[m] = x /\ m \in DOMAIN read'
      /\ read \in Seq(T) /\ query \in Queries
  BY FoundFacts DEF MeaningInv, ReadsTimed
<1>2. t \in Nat /\ t > wmax /\ (wmax = 0 => t >= Over + Hop) /\ x.ts = t /\ wmax \in Nat
  BY LaterFacts DEF MeaningInv, EngineInv
<1>3. Passing(query, x)
  BY FilteredIsPassing DEF MeaningInv
<1>4. TidyIn(query, read) /\ WindowInv /\ Given = Meant(query, read)
  <2>1. TidyIn(query, read)
    BY MeantAfter DEF MeaningInv
  <2> QED  BY <1>1, <2>1 DEF MeaningInv
<1>5. /\ WindowHas(query, read, v, from)
      /\ \A j \in DOMAIN v : v[j].unq => v[j].n \in Given
      /\ Engine!Undone(t).groups = Tally(G, query, read, from, {})
      /\ \A y : y \notin G => Holding(query, read, from, y) = {}
      /\ ~query.by => Engine!Undone(t).local = Nothing
  BY <1>1, <1>2, <1>4, SlideFacts DEF MeaningInv
<1>6. /\ Engine!From(t) = from /\ from \in Nat /\ from <= t /\ t >= Over + Hop
  BY <1>2, <1>4, StartFacts
<1>7. /\ s.win = Append(v, e0) /\ s.groups = Engine!Undone(t).groups
      /\ s.local = Engine!Undone(t).local /\ s.wmax = t /\ s.wmin = from
  <2>1. ~(t <= wmax)
    BY <1>2
  <2> QED  BY <1>6, <2>1 DEF Engine!Slid
<1>8. Engine!Captured(s.local, r) = k
  <2>1. CASE query.by
    <3>1. r.key # Missing
      BY <1>1, <1>3, <2>1 DEF TidyIn
    <3> QED  BY <2>1, <3>1 DEF Engine!Captured, GroupIn
  <2>2. CASE ~query.by
    BY <1>5, <1>7, <2>2 DEF Engine!Captured, GroupIn
  <2> QED  BY <2>1, <2>2
<1>9. /\ \E S : v \in Seq(S)
      /\ IsWindow(s.win, m + 1) /\ s.win # <<>>
  <2>1. IsWindow(v, Len(read) + 1)
    BY StaysFacts
  <2>2. Len(read) + 2 = m + 1
    BY <1>1
  <2>3. IsWindow(s.win, Len(read) + 2) /\ s.win # <<>>
    BY SlidFacts
  <2> QED  BY <2>1, <2>2, <2>3 DEF IsWindow
<1> HIDE DEF s, t, v, from
<1>10. /\ e1.n = m /\ e1.rec = r /\ e1.ts = t /\ e1.ref = TRUE /\ e1.ptn = k /\ e1.unq = FALSE
  BY DEF Engine!Entry
<1> HIDE DEF e0, e1
<1>11. Append(Engine!Front(s.win), [s.win[Len(s.win)] EXCEPT !.ref = TRUE, !.ptn = k]) = w
  <2>1. PICK S : v \in Seq(S)
    BY <1>9
  <2>2. Engine!Front(s.win) = v /\ s.win[Len(s.win)] = e0
    BY <1>7, <2>1, FrontAppend
  <2> QED  BY <2>2 DEF e1
<1>12. IsWindow(w, m + 1) /\ DOMAIN w = DOMAIN s.win /\ \A j \in DOMAIN w : w[j].unq = s.win[j].unq
  <2>1. w = Counted(s.win, k)
    BY <1>11 DEF Counted
  <2> HIDE DEF w, m, k
  <2> QED  BY <1>9, <2>1, CountedFacts
<1>13. WindowHas(query, read', w, from)
  <2>1. PICK S : v \in Seq(S)
    BY <1>9
  <2> HIDE DEF w, m, k, x, T
  <2>2. m = Len(read) + 1
    BY DEF m
  <2>3. /\ e1.ref <=> Passing(query, x)
        /\ e1.ref => e1.ptn = GroupIn(query, e1.rec) /\ e1.ts >= from
    BY <1>3, <1>6, <1>10, <1>2 DEF k
  <2>4. WindowHas(query, read', Append(v, e1), from)
    BY <1>1, <1>2, <1>5, <1>10, <2>1, <2>2, <2>3, WindowMore
  <2> QED  BY <2>4 DEF w
<1>14. /\ Joins(query, read, read', from, k, m)
       /\ UpTo(query, read', m) = Holding(query, read', from, k)
  <2> HIDE DEF w, k, x, T
  <2>1. \A y : Holding(query, Append(read, x), from, y) = Holding(query, read, from, y) \cup
              (IF Passing(query, x) /\ x.ts >= from /\ GroupIn(query, x.r) = y THEN {m} ELSE {})
    BY <1>1, HoldingMore
  <2>2. UpTo(query, Append(read, x), m) =
          Holding(query, Append(read, x), Engine!Floor(x.ts), GroupIn(query, x.r))
    BY <1>1, <1>3, UpToHolding
  <2>3. x.ts >= from /\ GroupIn(query, x.r) = k /\ Engine!Floor(x.ts) = from
    BY <1>1, <1>2, <1>6 DEF k, from
  <2> HIDE DEF m
  <2>4. Joins(query, read, read', from, k, m)
    <3> SUFFICES ASSUME NEW y
                 PROVE  Holding(query, read', from, y) =
                          IF y = k THEN Holding(query, read, from, y) \cup {m}
                          ELSE Holding(query, read, from, y)
      BY Zenon DEF Joins
    <3>1. Holding(query, read', from, y) = Holding(query, Append(read, x), from, y)
      BY <1>1
    <3>2. CASE y = k
      <4>1. Holding(query, Append(read, x), from, y) = Holding(query, read, from, y) \cup {m}
        BY <1>3, <2>1, <2>3, <3>2
      <4> QED  BY <3>1, <3>2, <4>1
    <3>3. CASE y # k
      <4>1. Holding(query, Append(read, x), from, y) = Holding(query, read, from, y) \cup {}
        BY <2>1, <2>3, <3>3
      <4>2. Holding(query, Append(read, x), from, y) = Holding(query, read, from, y)
        BY <4>1, Zenon
      <4> QED  BY <3>1, <3>3, <4>2
    <3> QED  BY <3>2, <3>3
  <2> QED  BY <1>1, <2>2, <2>3, <2>4
<1>15. /\ groups' = Tally(G \cup {k}, query, read', from, {})
       /\ Engine!AllReached(Engine!Counts(s.groups, k)) <=> Full(query, read', m)
  <2> HIDE DEF w, k, x, T, G
  <2>1. m \notin DOMAIN read
    BY <1>1, LenProperties
  <2> HIDE DEF m
  <2>2. query.limits \in Seq(Nat)
    BY <1>1, RulesAssumption
  <2> DEFINE gs == s.groups
  <2>5. gs = Tally(G, query, read, from, {}) /\ (k \notin G => Holding(query, read, from, k) = {})
    BY <1>5, <1>7
  <2>6. read \in Seq(T) /\ Len(query.limits) <= 1 /\ Joins(query, read, read', from, k, m)
    BY <1>1, <1>14
  <2> HIDE DEF gs
  <2>7. Counting(read, read', from, k, m, G, gs)
    BY <2>1, <2>2, <2>5, <2>6, Zenon DEF Counting
  <2>3. /\ Engine!Put(gs, k, Engine!Stepped(Engine!Counts(gs, k))) =
             Tally(G \cup {k}, query, read', from, {})
        /\ Engine!AllReached(Engine!Counts(gs, k)) <=>
             \A i \in DOMAIN query.limits :
               Cardinality(Holding(query, read', from, k)) >= query.limits[i]
    BY <2>7, TallyMore
  <2>4. groups' = Engine!Put(s.groups, k, Engine!Stepped(Engine!Counts(s.groups, k)))
    BY <1>8 DEF Engine!Step, s
  <2> QED  BY <1>14, <2>3, <2>4 DEF Full, gs
<1> DEFINE answer == {j \in DOMAIN w : /\ Engine!AllReached(Engine!Counts(s.groups, k))
                                       /\ w[j].ref /\ ~w[j].unq /\ w[j].ptn = k}
<1>16. /\ win' = [j \in DOMAIN w |-> [w[j] EXCEPT !.unq = @ \/ j \in answer]]
       /\ out' = Engine!Numbers(w, answer)
       /\ local' = k /\ wmax' = t /\ wmin' = from
  <2>1. /\ win' = [j \in DOMAIN w |-> [w[j] EXCEPT !.unq = @ \/ j \in answer]]
        /\ out' = Engine!Numbers(w, answer)
        /\ local' = k /\ wmax' = s.wmax /\ wmin' = s.wmin
    <3> HIDE DEF w, k
    <3> QED  BY <1>8, <1>11 DEF Engine!Step, s
  <2> QED  BY <1>7, <2>1
<1> DEFINE full == Engine!AllReached(Engine!Counts(s.groups, k))
<1>17. /\ \A j \in answer : full /\ j \in DOMAIN w /\ w[j].ref /\ ~w[j].unq /\ w[j].ptn = k
       /\ \A j \in DOMAIN w : full /\ w[j].ref /\ ~w[j].unq /\ w[j].ptn = k => j \in answer
       /\ answer \subseteq DOMAIN w
  OBVIOUS
<1> HIDE DEF answer
<1>18. Given' = Given \cup {w[j].n : j \in answer}
  <2>1. PICK S : w \in Seq(S)
    BY <1>12 DEF IsWindow
  <2>2. {out'[i] : i \in DOMAIN out'} = {w[j].n : j \in answer}
    <3> HIDE DEF w, full
    <3>1. {Engine!Numbers(w, answer)[i] : i \in DOMAIN Engine!Numbers(w, answer)} = {w[j].n : j \in answer}
      BY <1>17, <2>1, NumbersGiven
    <3> QED  BY <1>16, <3>1
  <2>3. Given = offered
    BY <1>1 DEF Given
  <2> QED  BY <2>2, <2>3 DEF Given
<1>19. \A j \in DOMAIN w : w[j].unq => w[j].n \in Given
  <2>1. PICK S : v \in Seq(S)
    BY <1>9
  <2>2. /\ Len(v) \in Nat /\ DOMAIN v = 1..Len(v) /\ DOMAIN w = 1..(Len(v) + 1)
        /\ \A i \in 1..Len(v) : w[i] = v[i]
        /\ w[Len(v) + 1] = e1
    BY <2>1, SequenceAppend
  <2> HIDE DEF w
  <2>3. \A j \in DOMAIN w : j = Len(v) + 1 \/ (j \in DOMAIN v /\ w[j] = v[j])
    BY <2>2
  <2> QED  BY <1>5, <1>10, <2>2, <2>3
<1> HIDE DEF full, w
<1>20. \A j \in DOMAIN w : w[j].ref /\ w[j].ptn = k <=> w[j].n \in UpTo(query, read', m)
  <2> SUFFICES ASSUME NEW j \in DOMAIN w
               PROVE  w[j].ref /\ w[j].ptn = k <=> w[j].n \in Holding(query, read', from, k)
    BY <1>14
  <2>1. /\ w[j].n \in DOMAIN read' /\ w[j].rec = read'[w[j].n].r /\ w[j].ts = read'[w[j].n].ts
        /\ w[j].ref <=> Passing(query, read'[w[j].n])
        /\ w[j].ref => w[j].ptn = GroupIn(query, w[j].rec) /\ w[j].ts >= from
    BY <1>13 DEF WindowHas
  <2> QED  BY <2>1 DEF Holding
<1>21. \A n \in UpTo(query, read', m) : \E j \in DOMAIN w : w[j].n = n
  <2>1. \A n \in Holding(query, read', from, k) :
          n \in DOMAIN read' /\ Passing(query, read'[n]) /\ read'[n].ts >= from
    BY DEF Holding
  <2> QED  BY <1>13, <1>14, <2>1 DEF WindowHas
<1>22. Given' = Given \cup (IF Full(query, read', m) THEN UpTo(query, read', m) ELSE {})
  <2>1. full <=> Full(query, read', m)
    BY <1>15 DEF full
  <2> HIDE DEF m, k
  <2>2. CASE ~full
    BY <1>17, <1>18, <2>1, <2>2
  <2>3. CASE full
    <3>1. \A n \in UpTo(query, read', m) : n \in Given'
      <4> SUFFICES ASSUME NEW n \in UpTo(query, read', m)  PROVE n \in Given'
        OBVIOUS
      <4>1. PICK j \in DOMAIN w : w[j].n = n
        BY <1>21
      <4>2. w[j].ref /\ w[j].ptn = k
        BY <1>20, <4>1
      <4>3. CASE w[j].unq
        BY <1>18, <1>19, <4>1, <4>3
      <4>4. CASE ~w[j].unq
        <5>1. j \in answer
          BY <1>17, <2>3, <4>2, <4>4
        <5> QED  BY <1>18, <4>1, <5>1
      <4> QED  BY <4>3, <4>4
    <3>2. \A j \in answer : w[j].n \in UpTo(query, read', m)
      BY <1>17, <1>20
    <3> QED  BY <1>18, <2>1, <2>3, <3>1, <3>2
  <2> QED  BY <2>2, <2>3
<1>23. Given' = Meant(query', read')
  <2>1. Meant(query, read') = Meant(query, read) \cup Gain(query, read', m, x)
    BY MeantAfter DEF MeaningInv
  <2> HIDE DEF x, m
  <2> QED  BY <1>3, <1>4, <1>22, <2>1 DEF Gain
<1>24. /\ DOMAIN win' = DOMAIN w
       /\ \A j \in DOMAIN w : /\ win'[j].n = w[j].n /\ win'[j].rec = w[j].rec /\ win'[j].ts = w[j].ts
                              /\ win'[j].ref = w[j].ref /\ win'[j].ptn = w[j].ptn
                              /\ win'[j].unq = (w[j].unq \/ j \in answer)
  <2> SUFFICES ASSUME NEW j \in DOMAIN w
               PROVE  /\ win'[j].n = w[j].n /\ win'[j].rec = w[j].rec /\ win'[j].ts = w[j].ts
                      /\ win'[j].ref = w[j].ref /\ win'[j].ptn = w[j].ptn
                      /\ win'[j].unq = (w[j].unq \/ j \in answer)
    BY <1>16
  <2> DEFINE e == w[j]
  <2>1. e = [rec |-> e.rec, n |-> e.n, ts |-> e.ts, ref |-> e.ref, ptn |-> e.ptn, unq |-> e.unq]
    BY <1>12 DEF IsWindow, IsEntry
  <2>2. win'[j] = [e EXCEPT !.unq = e.unq \/ j \in answer]
    BY <1>16
  <2> HIDE DEF e
  <2>3. win'[j] = [rec |-> e.rec, n |-> e.n, ts |-> e.ts, ref |-> e.ref, ptn |-> e.ptn,
                   unq |-> e.unq \/ j \in answer]
    BY <2>1, <2>2
  <2> QED  BY <2>3 DEF e
<1>25. WindowHas(query, read', win', from)
  BY <1>13, <1>24 DEF WindowHas
<1>26. \A j \in DOMAIN win' : win'[j].unq => win'[j].n \in Given'
  <2> SUFFICES ASSUME NEW j \in DOMAIN w, w[j].unq \/ j \in answer
               PROVE  w[j].n \in Given'
    BY <1>24
  <2> QED  BY <1>18, <1>19
<1>27. \A n \in DOMAIN read' : read'[n].r.after # NoTime => read'[n].ts <= t
  <2>1. wmax <= t
    BY <1>2
  <2> HIDE DEF x
  <2> QED  BY <1>2, <1>4, <2>1, ReadsBefore DEF MeaningInv, x
<1>28. DOMAIN groups' = G \cup {k} /\ groups' = Tally(DOMAIN groups', query, read', from, {})
  <2>1. DOMAIN groups' = G \cup {k}
    BY <1>15 DEF Tally
  <2> QED  BY <1>15, <2>1
<1>29. \A y : y \notin DOMAIN groups' => Holding(query, read', from, y) = {}
  BY <1>5, <1>14, <1>28 DEF Joins
<1>30. ~query.by => k = Nothing
  BY DEF GroupIn
<1>31. t # 0 /\ t >= Over + Hop
  BY <1>2, <1>6
<1> HIDE DEF k, G, m, x
<1>32. WindowInv'
  <2>1. wmin' = Engine!Floor(wmax')
    BY <1>16 DEF from
  <2>2. wmin' = from /\ wmax' = t /\ query' = query /\ local' = k
    BY <1>16
  <2> QED  BY <1>6, <1>25, <1>26, <1>27, <1>28, <1>29, <1>30, <1>31, <2>1, <2>2 DEF WindowInv
<1> QED  BY <1>23, <1>32

\* A record that does not pass leaves what is held as it is.
LEMMA HoldingKept ==
  ASSUME EngineInv, ReadsTimed, NEW r \in Records, Engine!Yields(r), ~Passing(query, Found(r)),
         NEW from
  PROVE  /\ \A k : Holding(query, read', from, k) = Holding(query, read, from, k)
         /\ \A G : Tally(G, query, read', from, {}) = Tally(G, query, read, from, {})
         /\ \A w : WindowHas(query, read, w, from) => WindowHas(query, read', w, from)
<1> DEFINE T == [r : Records, ts : Nat \cup {NoTime}]
           x == Found(r)
<1>1. read' = Append(read, x) /\ read \in Seq(T)
  BY FoundFacts DEF ReadsTimed
<1> HIDE DEF T, x
<1>2. ~Passing(query, x)
  BY DEF x
<1>3. \A k : Holding(query, Append(read, x), from, k) = Holding(query, read, from, k)
  <2> SUFFICES ASSUME NEW k
               PROVE  Holding(query, Append(read, x), from, k) = Holding(query, read, from, k)
    OBVIOUS
  <2>1. Holding(query, Append(read, x), from, k) = Holding(query, read, from, k) \cup
          (IF Passing(query, x) /\ x.ts >= from /\ GroupIn(query, x.r) = k THEN {Len(read) + 1} ELSE {})
    BY <1>1, HoldingMore
  <2> QED  BY <1>2, <2>1
<1>4. \A k : Holding(query, read', from, k) = Holding(query, read, from, k)
  BY <1>1, <1>3
<1>5. \A G : Tally(G, query, read', from, {}) = Tally(G, query, read, from, {})
  BY <1>4 DEF Tally
<1>6. ASSUME NEW w, WindowHas(query, read, w, from)
      PROVE  WindowHas(query, read', w, from)
  BY <1>1, <1>2, <1>6, WindowKept
<1> QED  BY <1>4, <1>5, <1>6

\* A record that the rule is not about, of a rule with groups and a window.
LEMMA MissMeans ==
  ASSUME EngineInv, MeaningInv, NEW r \in Records, query.over, r.after # NoTime,
         Grouping(query), ~Engine!Filtered(r), Engine!Yields(r), Engine!Pass(r),
         query' = query, offered' = offered, TidyIn(query, read'), Len(query.limits) <= 1
  PROVE  Given' = Meant(query', read') /\ WindowInv'
<1> DEFINE t == Engine!Time(r)
           s == Engine!Slid(r)
           from == Engine!Floor(t)
           m == Len(read) + 1
           x == Found(r)
           v == Engine!Stays(t)
           e0 == Engine!Entry(r, m, t)
           w == Append(v, e0)
           G == DOMAIN groups
           T == [r : Records, ts : Nat \cup {NoTime}]
<1>1. /\ read' = Append(read, x) /\ out = <<>> /\ state = "run"
      /\ x.r = r /\ ReadsTimed' /\ Len(read) \in Nat /\ read'[m] = x /\ m \in DOMAIN read'
      /\ read \in Seq(T) /\ query \in Queries
  BY FoundFacts DEF MeaningInv, ReadsTimed
<1>2. t \in Nat /\ t > wmax /\ (wmax = 0 => t >= Over + Hop) /\ x.ts = t /\ wmax \in Nat
  BY LaterFacts DEF MeaningInv, EngineInv
<1>3. ~Passing(query, x)
  BY FilteredIsPassing DEF MeaningInv
<1>4. TidyIn(query, read) /\ WindowInv /\ Given = Meant(query, read)
  <2>1. TidyIn(query, read)
    BY MeantAfter DEF MeaningInv
  <2> QED  BY <1>1, <2>1 DEF MeaningInv
<1>5. /\ WindowHas(query, read, v, from)
      /\ \A j \in DOMAIN v : v[j].unq => v[j].n \in Given
      /\ Engine!Undone(t).groups = Tally(G, query, read, from, {})
      /\ \A y : y \notin G => Holding(query, read, from, y) = {}
      /\ ~query.by => Engine!Undone(t).local = Nothing
  BY <1>1, <1>2, <1>4, SlideFacts DEF MeaningInv
<1>6. /\ Engine!From(t) = from /\ from \in Nat /\ from <= t /\ t >= Over + Hop
  BY <1>2, <1>4, StartFacts
<1>7. /\ s.win = w /\ s.groups = Engine!Undone(t).groups
      /\ s.local = Engine!Undone(t).local /\ s.wmax = t /\ s.wmin = from
  <2>1. ~(t <= wmax)
    BY <1>2
  <2> QED  BY <1>6, <2>1 DEF Engine!Slid
<1>8. PICK S : v \in Seq(S)
  <2>1. IsWindow(v, Len(read) + 1)
    BY StaysFacts
  <2> QED  BY <2>1 DEF IsWindow
<1> HIDE DEF s, t, v, from
<1>9. /\ out' = <<>> /\ win' = w /\ groups' = Engine!Undone(t).groups
      /\ wmax' = t /\ wmin' = from /\ local' = Engine!Captured(s.local, r)
  <2> HIDE DEF w
  <2>1. /\ out' = <<>> /\ win' = s.win /\ groups' = s.groups
        /\ wmax' = s.wmax /\ wmin' = s.wmin /\ local' = Engine!Captured(s.local, r)
    BY DEF Engine!Pass, s
  <2> QED  BY <1>7, <2>1
<1>10. /\ e0.n = m /\ e0.rec = r /\ e0.ts = t /\ e0.ref = FALSE /\ e0.unq = FALSE
  BY DEF Engine!Entry
<1> HIDE DEF e0
<1>11. WindowHas(query, read', w, from)
  <2> HIDE DEF w, m, x, T
  <2>1. m = Len(read) + 1
    BY DEF m
  <2>2. WindowHas(query, read', Append(v, e0), from)
    BY <1>1, <1>2, <1>3, <1>5, <1>8, <1>10, <2>1, WindowMore
  <2> QED  BY <2>2 DEF w
<1>12. \A j \in DOMAIN w : w[j].unq => w[j].n \in Given
  <2>1. /\ Len(v) \in Nat /\ DOMAIN v = 1..Len(v) /\ DOMAIN w = 1..(Len(v) + 1)
        /\ \A i \in 1..Len(v) : w[i] = v[i]
        /\ w[Len(v) + 1] = e0
    BY <1>8, SequenceAppend
  <2> HIDE DEF w
  <2>2. \A j \in DOMAIN w : j = Len(v) + 1 \/ (j \in DOMAIN v /\ w[j] = v[j])
    BY <2>1
  <2> QED  BY <1>5, <1>10, <2>1, <2>2
<1> HIDE DEF w
<1>13. Given' = Given
  BY <1>1, <1>9 DEF Given
<1>14. Given' = Meant(query', read')
  <2>1. Meant(query, read') = Meant(query, read) \cup Gain(query, read', m, x)
    BY MeantAfter DEF MeaningInv
  <2> HIDE DEF x, m
  <2> QED  BY <1>3, <1>4, <1>13, <2>1 DEF Gain
<1>15. /\ \A k : Holding(query, read', from, k) = Holding(query, read, from, k)
       /\ \A H : Tally(H, query, read', from, {}) = Tally(H, query, read, from, {})
  BY <1>3, HoldingKept DEF MeaningInv
<1>16. \A n \in DOMAIN read' : read'[n].r.after # NoTime => read'[n].ts <= t
  <2>1. wmax <= t
    BY <1>2
  <2> HIDE DEF x
  <2> QED  BY <1>2, <1>4, <2>1, ReadsBefore DEF MeaningInv, x
<1>17. DOMAIN groups' = G /\ groups' = Tally(G, query, read', from, {})
  <2>1. groups' = Tally(G, query, read', from, {})
    BY <1>5, <1>9, <1>15
  <2> QED  BY <2>1 DEF Tally
<1>18. ~query.by => local' = Nothing
  BY <1>5, <1>7, <1>9 DEF Engine!Captured
<1>19. t # 0 /\ t >= Over + Hop
  BY <1>2, <1>6
<1> HIDE DEF G, m, x
<1>20. WindowInv'
  <2>1. wmin' = Engine!Floor(wmax')
    BY <1>9 DEF from
  <2>2. wmin' = from /\ wmax' = t /\ query' = query /\ win' = w
    BY <1>9
  <2> QED  BY <1>5, <1>6, <1>11, <1>12, <1>13, <1>15, <1>16, <1>17, <1>18, <1>19, <2>1, <2>2
           DEF WindowInv
<1> QED  BY <1>14, <1>20

\* A step that changes nothing that the meaning of a rule is about.
LEMMA MeaningKept ==
  ASSUME MeaningInv, UNCHANGED <<query, wmax, wmin, win, groups, local, read>>, Given' = Given,
         state' = "run" => state = "run"
  PROVE  MeaningInv'
<1>1. ReadsTimed'
  BY DEF MeaningInv, ReadsTimed
<1>2. WindowInv => WindowInv'
  BY DEF WindowInv
<1> QED  BY <1>1, <1>2 DEF MeaningInv

\* The record is skipped.
LEMMA SkipMeans ==
  ASSUME EngineInv, MeaningInv, NEW r \in Records, Engine!Skip(r)
  PROVE  MeaningInv'
<1>1. /\ Engine!Yields(r) /\ query.over /\ r.after = NoTime
      /\ UNCHANGED <<query, state, wmax, wmin, win, groups, local, out, offered>>
  BY DEF Engine!Skip, Engine!engine
<1>2. ReadsTimed' /\ ReadsTimed
  BY <1>1, FoundFacts DEF MeaningInv
<1>3. ~Passing(query, Found(r))
  BY <1>1, <1>2, FoundFacts DEF Passing
<1>4. Given' = Given
  BY <1>1 DEF Given
<1>5. SUFFICES ASSUME state' = "run", TidyIn(query', read'), Len(query'.limits) <= 1
               PROVE  /\ Given' = Meant(query', read')
                      /\ Grouping(query') /\ query'.over => WindowInv'
                      /\ Grouping(query') /\ ~query'.over =>
                           \A n \in DOMAIN read' : ~Passing(query', read'[n])
  BY <1>1, <1>2 DEF MeaningInv
<1>6. TidyIn(query, read') /\ query' = query /\ state = "run"
  BY <1>1, <1>5
<1>7. /\ TidyIn(query, read)
      /\ Meant(query, read') = Meant(query, read) \cup Gain(query, read', Len(read) + 1, Found(r))
  BY <1>1, <1>2, <1>6, MeantAfter
<1>8. Meant(query, read') = Meant(query, read)
  BY <1>3, <1>7 DEF Gain
<1>9. Given = Meant(query, read) /\ (Grouping(query) => WindowInv)
  BY <1>1, <1>5, <1>6, <1>7 DEF MeaningInv
<1>10. ASSUME WindowInv  PROVE WindowInv'
  <2>1. /\ \A k : Holding(query, read', wmin, k) = Holding(query, read, wmin, k)
        /\ \A G : Tally(G, query, read', wmin, {}) = Tally(G, query, read, wmin, {})
        /\ \A w : WindowHas(query, read, w, wmin) => WindowHas(query, read', w, wmin)
    BY <1>1, <1>2, <1>3, HoldingKept
  <2>2. \A n \in DOMAIN read' : read'[n].r.after # NoTime => read'[n].ts <= wmax
    <3>1. wmax \in Nat /\ wmax <= wmax
      BY DEF EngineInv
    <3> QED  BY <1>1, <1>2, <1>10, <3>1, ReadsBefore
  <2>3. WindowHas(query, read', win, wmin)
    BY <1>10, <2>1 DEF WindowInv
  <2>4. groups = Tally(DOMAIN groups, query, read', wmin, {})
    BY <1>10, <2>1 DEF WindowInv
  <2>5. \A k : k \notin DOMAIN groups => Holding(query, read', wmin, k) = {}
    BY <1>10, <2>1 DEF WindowInv
  <2> QED  BY <1>1, <1>4, <1>10, <2>2, <2>3, <2>4, <2>5 DEF WindowInv
<1> QED  BY <1>1, <1>4, <1>6, <1>8, <1>9, <1>10

\* A record that comes to the filters.
LEMMA MatchMeans ==
  ASSUME EngineInv, MeaningInv, NEW r \in Records, Engine!Match(r)
  PROVE  MeaningInv'
<1>1. /\ Engine!Yields(r) /\ (query.over => r.after # NoTime)
      /\ query' = query /\ state' = state /\ offered' = offered
      /\ IF Engine!Grouped /\ Engine!Filtered(r) THEN query.over /\ Engine!Step(r) ELSE Engine!Pass(r)
  BY DEF Engine!Match
<1>2. ReadsTimed' /\ ReadsTimed /\ out = <<>> /\ Len(read) \in Nat
      /\ read'[Len(read) + 1] = Found(r)
  BY <1>1, FoundFacts DEF MeaningInv
<1>3. SUFFICES ASSUME state' = "run", TidyIn(query', read'), Len(query'.limits) <= 1
               PROVE  /\ Given' = Meant(query', read')
                      /\ Grouping(query') /\ query'.over => WindowInv'
                      /\ Grouping(query') /\ ~query'.over =>
                           \A n \in DOMAIN read' : ~Passing(query', read'[n])
  BY <1>1, <1>2 DEF MeaningInv
<1>4. TidyIn(query, read') /\ state = "run" /\ Len(query.limits) <= 1 /\ query \in Queries
  BY <1>1, <1>3 DEF MeaningInv
<1>5. Engine!Grouped <=> Grouping(query)
  BY DEF Engine!Grouped, Grouping
<1>6. Engine!Filtered(r) <=> Passing(query, Found(r))
  BY <1>1, <1>2, <1>4, FilteredIsPassing
<1>7. /\ TidyIn(query, read)
      /\ Meant(query, read') = Meant(query, read) \cup Gain(query, read', Len(read) + 1, Found(r))
  BY <1>1, <1>2, <1>4, MeantAfter
<1>8. Given = Meant(query, read)
  BY <1>4, <1>7 DEF MeaningInv
<1>9. CASE Grouping(query) /\ Engine!Filtered(r)
  BY <1>1, <1>4, <1>5, <1>9, StepMeans
<1>10. CASE Grouping(query) /\ ~Engine!Filtered(r) /\ query.over
  BY <1>1, <1>4, <1>5, <1>10, MissMeans
<1>11. CASE Grouping(query) /\ ~Engine!Filtered(r) /\ ~query.over
  <2>1. out' = <<>>
    BY <1>1, <1>11 DEF Engine!Pass
  <2>2. Given' = Given
    BY <1>1, <1>2, <2>1 DEF Given
  <2>3. Meant(query, read') = Meant(query, read)
    BY <1>6, <1>7, <1>11 DEF Gain
  <2>4. \A n \in DOMAIN read : ~Passing(query, read[n])
    BY <1>4, <1>7, <1>11 DEF MeaningInv
  <2>5. \A n \in DOMAIN read' : ~Passing(query, read'[n])
    <3>1. PICK S : read \in Seq(S)
      BY DEF EngineInv
    <3>2. read' = Append(read, Found(r))
      BY <1>1, <1>2, FoundFacts
    <3>3. /\ DOMAIN read = 1..Len(read) /\ DOMAIN read' = 1..(Len(read) + 1)
          /\ \A i \in 1..Len(read) : read'[i] = read[i]
      BY <3>1, <3>2, SequenceAppend
    <3>4. \A n \in DOMAIN read' : n = Len(read) + 1 \/ (n \in DOMAIN read /\ read'[n] = read[n])
      BY <1>2, <3>3
    <3> QED  BY <1>2, <1>6, <1>11, <2>4, <3>4
  <2> QED  BY <1>1, <1>8, <1>11, <2>2, <2>3, <2>5
<1>12. CASE ~Grouping(query)
  <2>1. out' = IF Engine!Filtered(r) THEN <<Len(read) + 1>> ELSE <<>>
    BY <1>1, <1>5, <1>12 DEF Engine!Pass
  <2>2. Given' = Given \cup (IF Engine!Filtered(r) THEN {Len(read) + 1} ELSE {})
    <3>1. Given = offered
      BY <1>2 DEF Given
    <3>2. CASE Engine!Filtered(r)
      <4>1. out' = <<Len(read) + 1>>
        BY <2>1, <3>2
      <4>2. {out'[i] : i \in DOMAIN out'} = {Len(read) + 1}
        BY <4>1
      <4> QED  BY <1>1, <3>1, <3>2, <4>2 DEF Given
    <3>3. CASE ~Engine!Filtered(r)
      <4>1. out' = <<>>
        BY <2>1, <3>3
      <4> QED  BY <1>1, <3>1, <3>3, <4>1 DEF Given
    <3> QED  BY <3>2, <3>3
  <2>3. Given' = Meant(query', read')
    BY <1>1, <1>6, <1>7, <1>8, <1>12, <2>2 DEF Gain
  <2> QED  BY <1>1, <1>12, <2>3
<1> QED  BY <1>9, <1>10, <1>11, <1>12

\* Each step keeps the invariant.
LEMMA MeaningStep ==
  ASSUME EngineInv, MeaningInv, Engine!Next
  PROVE  MeaningInv'
<1>1. ASSUME NEW r \in Records, Engine!Skip(r)
      PROVE  MeaningInv'
  BY <1>1, SkipMeans
<1>2. ASSUME NEW r \in Records, Engine!Crash(r)
      PROVE  MeaningInv'
  <2>1. state' = "crashed" /\ query' = query /\ Engine!Yields(r)
    BY <1>2 DEF Engine!Crash
  <2>2. ReadsTimed'
    BY <1>2, <2>1, FoundFacts DEF MeaningInv
  <2> QED  BY <2>1, <2>2 DEF MeaningInv
<1>3. ASSUME NEW r \in Records, Engine!Match(r)
      PROVE  MeaningInv'
  BY <1>3, MatchMeans
<1>4. CASE Engine!Push
  BY <1>4, PushInv, MeaningKept DEF Engine!Push, Engine!engine
<1>5. CASE Engine!Close
  <2>1. Given' = Given /\ state' = "closed"
    BY <1>5 DEF Engine!Close, Given
  <2> QED  BY <1>5, <2>1, MeaningKept DEF Engine!Close
<1> QED  BY <1>1, <1>2, <1>3, <1>4, <1>5 DEF Engine!Next

\* Before the first record nothing is meant, and nothing is held.
LEMMA MeaningInit ==
  ASSUME Engine!Init
  PROVE  MeaningInv
<1>1. /\ query \in Queries /\ read = <<>> /\ out = <<>> /\ win = <<>> /\ offered = {}
      /\ wmax = 0 /\ wmin = 0 /\ groups = Engine!NoGroups
  BY DEF Engine!Init
<1>2. local = Nothing
  BY Zenon DEF Engine!Init, Nothing
<1>3. ReadsTimed
  BY <1>1 DEF ReadsTimed
<1>4. Given = {}
  BY <1>1 DEF Given
<1>5. DOMAIN read = {} /\ DOMAIN win = {}
  BY <1>1
<1>6. Meant(query, read) = {}
  BY <1>5 DEF Meant
<1>7. \A k : Holding(query, read, wmin, k) = {}
  BY <1>5 DEF Holding
<1>8. DOMAIN groups = {} /\ groups = Tally({}, query, read, wmin, {})
  BY <1>1 DEF Engine!NoGroups, Tally
<1>9. WindowHas(query, read, win, wmin)
  BY <1>5 DEF WindowHas
<1>10. WindowInv
  BY <1>1, <1>2, <1>5, <1>7, <1>8, <1>9 DEF WindowInv
<1> QED  BY <1>1, <1>3, <1>4, <1>5, <1>6, <1>10 DEF MeaningInv

\* What a rule has answered, with what is still to be pushed, is what it means
\* (impeller.go:119-217): for any tidy source, any rule of one limit or none, and any
\* window.
THEOREM AnswersMeanTheRule == HubSpec => []AnswersAreDefined
<1>1. HubInit => MeaningInv
  BY MeaningInit DEF HubInit
<1>2. EngineInv /\ MeaningInv /\ [HubNext]_<<vars, storage, engine, part>> => MeaningInv'
  <2> SUFFICES ASSUME EngineInv, MeaningInv, [HubNext]_<<vars, storage, engine, part>>
               PROVE  MeaningInv'
    OBVIOUS
  <2>1. Engine!Next \/ UNCHANGED engine
    BY DEF HubNext
  <2>2. CASE Engine!Next
    BY <2>2, MeaningStep
  <2>3. CASE UNCHANGED engine
    <3>1. Given' = Given
      BY <2>3 DEF engine, Given
    <3> QED  BY <2>3, <3>1, MeaningKept DEF engine
  <2> QED  BY <2>1, <2>2, <2>3
<1>3. MeaningInv => AnswersAreDefined
  BY MeaningOfRule DEF MeaningInv, AnswersAreDefined, Engine!AnswersAreDefined, Given
<1> QED  BY <1>1, <1>2, <1>3, EngineHolds, PTL DEF HubSpec
=============================================================================
