------------------------------ MODULE Impeller ------------------------------
(***************************************************************************)
(* The query engine (internal/piql): the pivots of a cell are compiled to  *)
(* one rule (startQuery has one per evaluator), and Run walks once over    *)
(* the records of the source.  A rule has filters and, maybe, a window:    *)
(* "over" says how long it is, "by" what its groups are, "limit" how many  *)
(* records of a group have to be in it for the group to be returned.       *)
(*                                                                         *)
(* A record is what the rule looks at: how much later it is than the       *)
(* latest one before, whether the values of the filtered field are hits,   *)
(* and the value that the groups are made of.                              *)
(***************************************************************************)
EXTENDS Integers, Sequences, FiniteSets, SequencesExt

CONSTANTS
  Queries,   \* rules [not, over, by, limits]: one filter of a field, that has to hit
             \* or (not) must not; whether there is a window and a group; the limits
  Records,   \* what the source may yield [after, hits, key]: a field of a list has
             \* several values, each a hit or not
  NoTime, Missing, \* a record without a time (after), or without the field (key)
  Over, Hop, \* of the window, in ticks of the clock
  MaxRecords \* bound on the records of the source

VARIABLES
  query,   \* the compiled rule
  state,   \* Run: run, closed, or crashed (the process)
  wmax,    \* the time of the latest record
  wmin,    \* where the window starts
  win,     \* the window: records, with the group they were counted in
  groups,  \* opGroup.groups: the counts of the limits of each group
  local,   \* opGroup.locals: the value captured last
  out,     \* what is still to be pushed of the answer to the last record
  read,    \* the records of the source so far (history)
  offered  \* what was pushed (history)

engine == <<query, state, wmax, wmin, win, groups, local>>
vars == <<engine, out, read, offered>>

NoGroups == [k \in {} |-> <<>>]

\* the elements of s at the places in D, in their order
At(s, D) ==
  LET pick[i \in 0..Len(s)] ==
        IF i = 0 THEN <<>>
        ELSE IF i \in D THEN Append(pick[i - 1], s[i]) ELSE pick[i - 1]
  IN pick[Len(s)]

\* winops: the rule has a partition, its last clause
Grouped == query.by \/ query.limits # <<>>

Init ==
  /\ query \in Queries
  /\ state = "run"
  /\ wmax = 0 /\ wmin = 0 /\ win = <<>>
  /\ groups = NoGroups /\ local = ""
  /\ out = <<>>
  /\ read = <<>> /\ offered = {}

-----------------------------------------------------------------------------
(* The instructions.                                                       *)

\* The bit of the filter after the walk over the values of its field: a miss of
\* a Not flips it.
Filtered(r) ==
  LET bit[i \in 0..Len(r.hits)] ==
        IF i = 0 THEN query.not
        ELSE IF query.not THEN r.hits[i] => ~bit[i - 1] ELSE bit[i - 1] \/ r.hits[i]
  IN bit[Len(r.hits)]

\* opCapture: a record without the field leaves what the one before has left
Captured(before, r) == IF query.by /\ r.key # Missing THEN r.key ELSE before

Counts(gs, k) == IF k \in DOMAIN gs THEN gs[k] ELSE [i \in DOMAIN query.limits |-> 0]
Put(gs, k, counts) == [x \in DOMAIN gs \cup {k} |-> IF x = k THEN counts ELSE gs[x]]

\* opGroup.Step: a limit counts when those before it are reached
Reached(counts, i) == counts[i] + 1 >= query.limits[i]
Stepped(counts) ==
  [i \in DOMAIN counts |->
     IF \A h \in 1..(i - 1) : Reached(counts, h) THEN counts[i] + 1 ELSE counts[i]]
AllReached(counts) == \A i \in DOMAIN counts : Reached(counts, i)

\* opGroup.Exit: each of them counts down
Exited(gs, k) ==
  IF k \in DOMAIN gs THEN [gs EXCEPT ![k] = [i \in DOMAIN @ |-> @[i] - 1]] ELSE gs

-----------------------------------------------------------------------------
(* slidewindow.                                                            *)

\* the time of a record: the source yields late ones, too
Time(r) == IF wmax = 0 THEN Over + Hop + r.after ELSE wmax + r.after

Floor(t) == ((t - Over) \div Hop) * Hop
From(t) == IF wmin + Over > t THEN wmin ELSE Floor(t)

\* the records that the rule still counts and that are out of the window
Leaves(w, t) == w.ref /\ wmin + Over <= t /\ w.ts < From(t)

\* They are walked again, in the order of the window, to undo what they did.
Undo(acc, w) ==
  LET k == Captured(acc.local, w.rec) IN [local |-> k, groups |-> Exited(acc.groups, k)]

Undone(t) ==
  LET after[i \in 0..Len(win)] ==
        IF i = 0 THEN [local |-> local, groups |-> groups]
        ELSE IF Leaves(win[i], t) THEN Undo(after[i - 1], win[i]) ELSE after[i - 1]
  IN after[Len(win)]

\* The rest of what the rule counts stays.
Stays(t) == At(win, {i \in DOMAIN win : win[i].ref /\ ~Leaves(win[i], t)})

Entry(r, n, t) == [rec |-> r, n |-> n, ts |-> t, ref |-> FALSE, ptn |-> "", unq |-> FALSE]

\* What the record finds: a window in which it is the last, unless it is not later
\* than all before, or has no part in a window.
Unslid == [win |-> win, groups |-> groups, local |-> local, wmax |-> wmax, wmin |-> wmin]

\* mutant of Slid: what leaves the window is not undone
SlidUncounted(r) ==
  LET t == Time(r)
  IN IF ~query.over \/ t <= wmax THEN Unslid
     ELSE [win    |-> Append(Stays(t), Entry(r, Len(read) + 1, t)),
           groups |-> groups, local |-> local, wmax |-> t, wmin |-> From(t)]

Slid(r) ==
  LET t == Time(r)
  IN IF ~query.over \/ t <= wmax THEN Unslid
     ELSE [win    |-> Append(Stays(t), Entry(r, Len(read) + 1, t)),
           groups |-> Undone(t).groups, local |-> Undone(t).local,
           wmax |-> t, wmin |-> From(t)]

-----------------------------------------------------------------------------
(* Run.                                                                    *)

Yields(r) ==
  /\ state = "run" /\ out = <<>> /\ Len(read) < MaxRecords
  /\ read' = Append(read, [r |-> r, ts |-> IF r.after = NoTime THEN NoTime ELSE Time(r)])

\* slidewindow finds no time: the next record
Skip(r) ==
  /\ query.over /\ r.after = NoTime
  /\ Yields(r)
  /\ UNCHANGED <<engine, out, offered>>

\* the record is added to a window that does not exist: index out of range
Crash(r) ==
  /\ Grouped /\ ~query.over /\ Filtered(r)
  /\ Yields(r)
  /\ state' = "crashed"
  /\ UNCHANGED <<query, wmax, wmin, win, groups, local, out, offered>>

\* the records of an answer
Numbers(w, answer) ==
  LET picked == At(w, answer) IN [i \in DOMAIN picked |-> picked[i].n]

\* mutant of Step: what was returned is not marked
StepAgain(r) ==
  LET s == Slid(r)
      k == Captured(s.local, r)
      counts == Counts(s.groups, k)
      last == [s.win[Len(s.win)] EXCEPT !.ref = TRUE, !.ptn = k]
      w == Append(Front(s.win), last)
      answer == {j \in DOMAIN w : AllReached(counts) /\ w[j].ref /\ w[j].ptn = k}
  IN /\ local' = k /\ wmax' = s.wmax /\ wmin' = s.wmin
     /\ groups' = Put(s.groups, k, Stepped(counts))
     /\ win' = w
     /\ out' = Numbers(w, answer)

\* the record after the filters: it counts as the last of the window
Step(r) ==
  LET s == Slid(r)
      k == Captured(s.local, r)
      counts == Counts(s.groups, k)
      last == [s.win[Len(s.win)] EXCEPT !.ref = TRUE, !.ptn = k]
      w == Append(Front(s.win), last)
      answer == {j \in DOMAIN w : AllReached(counts) /\ w[j].ref /\ ~w[j].unq /\ w[j].ptn = k}
  IN /\ local' = k /\ wmax' = s.wmax /\ wmin' = s.wmin
     /\ groups' = Put(s.groups, k, Stepped(counts))
     /\ win' = [j \in DOMAIN w |-> [w[j] EXCEPT !.unq = @ \/ j \in answer]]
     /\ out' = Numbers(w, answer)

\* the rule has no windows, or the record is filtered out
Pass(r) ==
  LET s == Slid(r)
  IN /\ local' = Captured(s.local, r) /\ wmax' = s.wmax /\ wmin' = s.wmin
     /\ groups' = s.groups /\ win' = s.win
     /\ out' = IF Filtered(r) THEN <<Len(read) + 1>> ELSE <<>>

Match(r) ==
  /\ query.over => r.after # NoTime
  /\ Yields(r)
  /\ IF Grouped /\ Filtered(r) THEN query.over /\ Step(r) ELSE Pass(r)
  /\ UNCHANGED <<query, state, offered>>

\* The reader gets the next of the answer, or nobody does: after 400 milliseconds
\* without a reader it is dropped.
Push ==
  /\ out # <<>>
  /\ out' = Tail(out) /\ offered' = offered \cup {Head(out)}
  /\ UNCHANGED <<engine, read>>

\* the source ends
Close ==
  /\ state = "run" /\ out = <<>> /\ state' = "closed"
  /\ UNCHANGED <<query, wmax, wmin, win, groups, local, out, read, offered>>

Next ==
  \/ \E r \in Records : Skip(r) \/ Crash(r) \/ Match(r)
  \/ Push \/ Close

Spec == Init /\ [][Next]_vars

-----------------------------------------------------------------------------
(* What a rule means.                                                      *)

\* the rule is about the record
Passes(x) ==
  /\ query.over => x.ts # NoTime
  /\ LET hit == \E i \in DOMAIN x.r.hits : x.r.hits[i] IN IF query.not THEN ~hit ELSE hit

\* Each record is later than those before, those that are counted have a group, and
\* no field is repeated.
Tidy ==
  /\ query.over => \A i \in DOMAIN read : read[i].r.after # 0
  /\ query.by => \A i \in DOMAIN read : Passes(read[i]) => read[i].r.key # Missing
  /\ \A i \in DOMAIN read : Len(read[i].r.hits) <= 1

SameGroup(x, y) == query.by => x.r.key = y.r.key

\* the records up to j in the window and the group of j
InWindowOf(j) ==
  {i \in 1..j : /\ Passes(read[i]) /\ SameGroup(read[i], read[j])
                /\ read[i].ts >= Floor(read[j].ts)}

Defined ==
  LET passing == {i \in DOMAIN read : Passes(read[i])}
  IN IF Grouped
     THEN UNION {InWindowOf(j) : j \in {p \in passing :
                   \A h \in DOMAIN query.limits : Cardinality(InWindowOf(p)) >= query.limits[h]}}
     ELSE passing

\* What Run has pushed, with what it has still to push, is what the rule means: without
\* groups the records that pass, with groups those of a window whose group is full.
AnswersAreDefined ==
  (state = "run" /\ Tidy /\ Len(query.limits) <= 1) =>
    offered \cup {out[i] : i \in DOMAIN out} = Defined

\* A record is returned once ("only return once", impeller.go:51), whatever the order
\* and the groups are.
ReturnedOnce ==
  \A i \in DOMAIN out : out[i] \notin offered /\ \A j \in DOMAIN out : i # j => out[i] # out[j]

\* "It is syntaxically correct to only provide a partial specification of a multi-pill
\* pivot; in this case, the operation has no effect": the process goes on.
PartialHasNoEffect == ~query.over => state # "crashed"
=============================================================================
