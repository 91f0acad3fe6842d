--------------------------- MODULE DataCell_proofs ---------------------------
(***************************************************************************)
(* Proofs about DataCell: which events of the user reach a handler.        *)
(***************************************************************************)
EXTENDS DataCell, TLAPS

(***************************************************************************)
(* The inductive invariant.  After a crash this.gen and Engine.gen differ  *)
(* for good, since every drawing adds one to both; what keeps an event of  *)
(* an earlier run from its handler is then that it is alone with an engine *)
(* that waits, and is compared with this.gen before it is sent.            *)
(***************************************************************************)
IsIntent(a) == a.k = "intent"

\* A running program has drawn the view shown; no other has any state.
ProgramInv ==
  IF life = "on"
    THEN active /\ view = <<runs, ggen>> /\ ggen <= gen
    ELSE /\ acts = <<>> /\ eng = IdleEngine /\ ggen = 0
         /\ \A c \in Channels : chan[c] = <<>> /\ watch[c] = "recv"

\* A cell that waits for its program has runs left, and no module is active.
LoadingInv ==
  /\ life \in {"flags", "asking"} => runs = 0
  /\ life \in {"flags", "asking", "loading"} => ~active /\ runs < MaxRuns

\* Intent r was passed on view v, and raised on it but for the visual debugger.
Sees(r, v, dbg) == r.on = v /\ (dbg \/ r.saw = v)

\* Only the visual debugger takes a while to locate an entity.
LocatedInv == \A i \in Intents : intents[i].st = "located" => debugging

\* The event at the gate: as long as this.gen is its own, the view is too.
EventInv ==
  evt # NoEvent =>
    /\ intents[evt.i].st = "passed"
    /\ evt.gen <= evt.world /\ evt.world <= gen
    /\ evt.gen = gen => Sees(intents[evt.i], view, debugging)

CallInv == call # NoCall => intents[call].st \in {"sent", "run", "lost"}

RunInv == eng.pc # "recv" => intents[eng.i].st = "run"

\* The engine waits on a watcher's channel just when its handler sends there.
SenderInv ==
  \A c \in Channels : \A n \in DOMAIN chan[c] : chan[c][n] = "engine" =>
    /\ eng.pc = "send" /\ eng.chan = c
    /\ \A m \in DOMAIN chan[c] : chan[c][m] = "engine" => m = n

\* The intents that wait for the engine, each once.
SentInv ==
  \A n \in DOMAIN acts : IsIntent(acts[n]) =>
    /\ intents[acts[n].i].st = "sent"
    /\ acts[n].gen <= gen
    /\ acts[n].gen = gen => Sees(intents[acts[n].i], view, debugging)
    /\ \A m \in DOMAIN acts : IsIntent(acts[m]) /\ acts[m].i = acts[n].i => m = n

RestartInv ==
  life = "on" /\ gen # ggen =>
    /\ eng.pc = "recv"
    /\ \A n \in DOMAIN acts : IsIntent(acts[n]) => n = 1 /\ acts[n].gen = gen

\* The program of a cell that has been removed is about to end.
RemovedInv ==
  ~running =>
    /\ life \in {"flags", "asking", "loading", "on"} => killing
    /\ \A n \in DOMAIN acts : ~IsIntent(acts[n])

CellInv ==
  /\ TypeOK /\ ProgramInv /\ LoadingInv /\ EventInv /\ CallInv /\ RunInv
  /\ SenderInv /\ SentInv /\ RestartInv /\ RemovedInv

-----------------------------------------------------------------------------
LEMMA TypesKept ==
  /\ PageOK /\ UNCHANGED page => PageOK'
  /\ ShowOK /\ UNCHANGED show => ShowOK'
  /\ GateOK /\ UNCHANGED gate => GateOK'
  /\ GoOK /\ UNCHANGED go => GoOK'
<1>1. PageOK /\ UNCHANGED page => PageOK'
  BY DEF PageOK, page
<1>2. ShowOK /\ UNCHANGED show => ShowOK'
  BY DEF ShowOK, show
<1>3. GateOK /\ UNCHANGED gate => GateOK'
  BY DEF GateOK, gate
<1>4. GoOK /\ UNCHANGED go => GoOK'
  BY Zenon DEF GoOK, go
<1>. QED  BY <1>1, <1>2, <1>3, <1>4

LEMMA NoProgramType == NoProgram => GoOK
<1>. SUFFICES ASSUME NoProgram PROVE GoOK
  OBVIOUS
<1>1. acts \in Seq(Actions)
  BY DEF NoProgram
<1>2. eng \in {IdleEngine} /\ ggen \in Nat
  BY DEF NoProgram
<1>3. chan \in [Channels -> Seq(Senders)]
  BY DEF NoProgram
<1>4. watch \in [Channels -> {"recv", "post", "send", "stuck"}]
  BY DEF NoProgram
<1>6. job \in Handlers \cup Senders
  BY DEF NoProgram, Senders
<1>7. pill \in [unread : BOOLEAN, left : 0..MaxRefused]
  BY RefusedAssumption DEF NoProgram, NoPill
<1>5. ready \in BOOLEAN /\ err \in BOOLEAN
  BY Zenon DEF NoProgram
<1>. QED  BY <1>1, <1>2, <1>3, <1>4, <1>5, <1>6, <1>7 DEF GoOK

LEMMA InitInv == Init => CellInv
<1>. SUFFICES ASSUME Init PROVE CellInv
  OBVIOUS
<1>0. NoView \in Views /\ NoView = <<0, 0>>
  BY RunsAssumption DEF Views, NoView
<1>1. TypeOK
  <2>1. PageOK
    <3>1. active \in BOOLEAN /\ running \in BOOLEAN /\ attached \in BOOLEAN /\ killing \in BOOLEAN
      BY DEF Init
    <3>2. runs \in 0..MaxRuns
      BY RunsAssumption DEF Init
    <3>. QED  BY <3>1, <3>2 DEF Init, PageOK
  <2>2. ShowOK /\ GateOK
    BY <1>0 DEF Init, ShowOK, GateOK, Ended
  <2>3. GoOK
    BY NoProgramType DEF Init
  <2>. QED  BY <2>1, <2>2, <2>3 DEF TypeOK
<1>2. ProgramInv /\ LoadingInv
  BY RunsAssumption DEF Init, NoProgram, ProgramInv, LoadingInv
<1>3. EventInv /\ CallInv /\ RunInv /\ SenderInv
  BY DEF Init, NoProgram, EventInv, CallInv, RunInv, SenderInv, IdleEngine
<1>4. SentInv /\ RestartInv /\ RemovedInv
  BY DEF Init, NoProgram, SentInv, RestartInv, RemovedInv
<1>. QED  BY <1>1, <1>2, <1>3, <1>4 DEF CellInv

(***************************************************************************)
(* The life of the program.                                                *)
(***************************************************************************)

\* The steps of loopCell and of the flags while no program runs.
LEMMA LoopStep ==
  ASSUME CellInv,
         AskFlags \/ AwaitFlags \/ HaveFlags \/ FlagsAnswer \/ LoadFails \/ Again
  PROVE  CellInv'
<1>. USE DEF AskFlags, AwaitFlags, HaveFlags, FlagsAnswer, LoadFails, Again
<1>0. UNCHANGED <<debugging, runs, running, attached, killing, show, gate, go>>
  OBVIOUS
<1>1. TypeOK'
  <2>1. PageOK'
    BY <1>0 DEF CellInv, TypeOK, PageOK
  <2>. QED  BY <2>1, <1>0, TypesKept DEF CellInv, TypeOK
<1>2. ProgramInv'
  BY <1>0 DEF CellInv, ProgramInv, show, gate, go
<1>3. LoadingInv'
  BY <1>0, RunsAssumption DEF CellInv, TypeOK, PageOK, LoadingInv, ProgramInv
<1>4. EventInv' /\ CallInv' /\ RunInv' /\ SenderInv' /\ SentInv'
  BY <1>0 DEF CellInv, EventInv, CallInv, RunInv, SenderInv, SentInv, show, gate, go
<1>5. RestartInv' /\ RemovedInv'
  BY <1>0 DEF CellInv, RestartInv, RemovedInv, ProgramInv, show, gate, go
<1>. QED  BY <1>1, <1>2, <1>3, <1>4, <1>5 DEF CellInv

LEMMA StartStep ==
  ASSUME CellInv, Start
  PROVE  CellInv'
<1>0. life = "loading" /\ acts = <<>> /\ eng = IdleEngine
  BY DEF CellInv, ProgramInv, Start
<1>1. TypeOK'
  <2>1. runs + 1 \in 0..MaxRuns
    BY <1>0, RunsAssumption DEF CellInv, LoadingInv, TypeOK, PageOK
  <2>2. ShowOK'
    BY <2>1 DEF CellInv, TypeOK, ShowOK, Start, Views
  <2>3. PageOK' /\ GateOK'
    BY <2>1 DEF CellInv, TypeOK, PageOK, GateOK, Start, gate
  <2>4. GoOK'
    <3>1. pill' \in [unread : BOOLEAN, left : 0..MaxRefused]
      <4>1. pill' = NoPill \/ pill' = [unread |-> TRUE, left |-> MaxRefused]
        BY DEF Start
      <4>2. MaxRefused \in 0..MaxRefused /\ 0 \in 0..MaxRefused
        BY RefusedAssumption
      <4>3. /\ NoPill \in [unread : BOOLEAN, left : 0..MaxRefused]
            /\ [unread |-> TRUE, left |-> MaxRefused] \in [unread : BOOLEAN, left : 0..MaxRefused]
        BY <4>2 DEF NoPill
      <4>. QED  BY <4>1, <4>3
    <3>. QED  BY <3>1 DEF CellInv, TypeOK, GoOK, Start
  <2>. QED  BY <2>2, <2>3, <2>4 DEF TypeOK
<1>2. ProgramInv' /\ LoadingInv' /\ RunInv'
  BY <1>0 DEF CellInv, TypeOK, ShowOK, ProgramInv, LoadingInv, RunInv, Start, IdleEngine
<1>3. EventInv' /\ CallInv'
  BY DEF CellInv, TypeOK, ShowOK, GateOK, EventInv, CallInv, Start, gate
<1>4. SenderInv' /\ SentInv' /\ RestartInv' /\ RemovedInv'
  BY <1>0 DEF CellInv, SenderInv, SentInv, RestartInv, RemovedInv, Start, IdleEngine
<1>. QED  BY <1>1, <1>2, <1>3, <1>4 DEF CellInv

\* The program ends, for one reason or another.
LEMMA ExitStep ==
  ASSUME CellInv, Exit,
         UNCHANGED <<flags, debugging, runs, active, show, mxevent, evt>>,
         running' \in BOOLEAN, attached' \in BOOLEAN, killing' \in BOOLEAN
  PROVE  CellInv'
<1>1. TypeOK'
  <2>1. intents' \in [Intents ->
          [st : {"new", "located", "passed", "sent", "run", "done", "lost", "unanswered"},
           cont : BOOLEAN, saw : Views, on : Views]]
    <3>1. NoView \in Views
      BY RunsAssumption DEF NoView, Views
    <3>. QED  BY <3>1 DEF CellInv, TypeOK, GateOK, Exit, Ended
  <2>2. PageOK' /\ ShowOK' /\ GateOK'
    BY <2>1 DEF CellInv, TypeOK, PageOK, ShowOK, GateOK, Exit, show
  <2>3. GoOK'
    <3>1. NoProgram' => GoOK'
      BY NoProgramType, PTL
    <3>. QED  BY <3>1 DEF Exit, NoProgram
  <2>. QED  BY <2>2, <2>3 DEF TypeOK
<1>2. ProgramInv' /\ LoadingInv' /\ CallInv' /\ RunInv'
  BY DEF CellInv, ProgramInv, LoadingInv, CallInv, RunInv, Exit, IdleEngine
<1>3. EventInv'
  <2>. SUFFICES ASSUME evt # NoEvent PROVE EventInv'
    BY DEF EventInv
  <2>1. evt.i \in Intents /\ intents[evt.i].st = "passed"
    BY DEF CellInv, EventInv, TypeOK, GateOK
  <2>2. evt.i # call
    BY <2>1, IntentsAssumption DEF CellInv, CallInv
  <2>3. intents'[evt.i] = intents[evt.i]
    BY <2>1, <2>2 DEF Exit
  <2>. QED  BY <2>3 DEF CellInv, EventInv, show
<1>4. SenderInv' /\ SentInv' /\ RestartInv' /\ RemovedInv'
  BY DEF SenderInv, SentInv, RestartInv, RemovedInv, Exit
<1>. QED  BY <1>1, <1>2, <1>3, <1>4 DEF CellInv

LEMMA ExitSteps ==
  ASSUME CellInv, Crash \/ Fatal \/ Kill
  PROVE  CellInv'
BY ExitStep DEF Crash, Fatal, Kill, CellInv, TypeOK, PageOK

LEMMA DisconnectStep ==
  ASSUME CellInv, Disconnect
  PROVE  CellInv'
<1>. ~running' /\ attached' \in BOOLEAN
  BY DEF Disconnect
<1>1. CASE active /\ life = "on"
  BY <1>1, ExitStep DEF Disconnect, CellInv, TypeOK, PageOK
<1>2. CASE ~(active /\ life = "on")
  <2>1. /\ killing' = (killing \/ ~active)
        /\ UNCHANGED <<flags, debugging, life, runs, active, show, gate, go>>
    BY <1>2 DEF Disconnect, gate
  <2>2. life # "on"
    BY <1>2 DEF CellInv, ProgramInv
  <2>3. TypeOK'
    <3>1. PageOK'
      BY <2>1 DEF CellInv, TypeOK, PageOK, Disconnect
    <3>. QED  BY <3>1, <2>1, TypesKept DEF CellInv, TypeOK
  <2>4. ProgramInv' /\ LoadingInv'
    BY <2>1, <2>2 DEF CellInv, ProgramInv, LoadingInv, show, go
  <2>5. EventInv' /\ CallInv' /\ RunInv' /\ SenderInv' /\ SentInv'
    BY <2>1 DEF CellInv, EventInv, CallInv, RunInv, SenderInv, SentInv, show, gate, go
  <2>6. RestartInv'
    BY <2>1, <2>2 DEF RestartInv
  <2>7. RemovedInv'
    BY <2>1, <2>2 DEF CellInv, TypeOK, PageOK, RemovedInv, ProgramInv, LoadingInv, go
  <2>. QED  BY <2>3, <2>4, <2>5, <2>6, <2>7 DEF CellInv
<1>. QED  BY <1>1, <1>2

(***************************************************************************)
(* The gate of the page.                                                   *)
(***************************************************************************)
IntentSet ==
  [st : {"new", "located", "passed", "sent", "run", "done", "lost", "unanswered"},
   cont : BOOLEAN, saw : Views, on : Views]

LEMMA EndedType == \A st : Ended(st).st = st
BY DEF Ended

\* An intent that the program does not have yet changes, and the gate perhaps
\* with it.
LEMMA GateStep ==
  ASSUME CellInv, UNCHANGED <<page, show, call, go>>,
         NEW i \in Intents, intents[i].st \in {"new", "located"},
         NEW r \in IntentSet, intents' = [intents EXCEPT ![i] = r],
         \/ UNCHANGED <<mxevent, evt>>
         \/ /\ mxevent' = TRUE
            /\ \E at \in {"world", "module"} :
                 evt' = [i |-> i, gen |-> gen, world |-> gen, at |-> at]
            /\ r.st = "passed" /\ Sees(r, view, debugging)
  PROVE  CellInv'
<1>1. /\ intents'[i] = r
      /\ \A j \in Intents : j # i => intents'[j] = intents[j]
      /\ intents' \in [Intents -> IntentSet]
  BY DEF CellInv, TypeOK, GateOK, IntentSet
<1>2. /\ \A j \in Intents :
           intents[j].st \in {"passed", "sent", "run", "lost"} => intents'[j] = intents[j]
  BY <1>1
<1>3. TypeOK'
  <2>1. mxevent' \in BOOLEAN /\ call' \in Intents \cup {NoCall}
    BY DEF CellInv, TypeOK, GateOK
  <2>2. evt' = NoEvent \/ evt' \in [i : Intents, gen : Nat, world : Nat, at : {"world", "module"}]
    BY DEF CellInv, TypeOK, GateOK, ShowOK
  <2>3. GateOK'
    BY <1>1, <2>1, <2>2 DEF GateOK, IntentSet
  <2>. QED  BY <2>3, TypesKept DEF CellInv, TypeOK
<1>4. ProgramInv' /\ LoadingInv' /\ SenderInv'
  BY DEF CellInv, ProgramInv, LoadingInv, SenderInv, page, show, go
<1>5. EventInv'
  <2>1. CASE UNCHANGED <<mxevent, evt>>
    BY <2>1, <1>2 DEF CellInv, TypeOK, GateOK, EventInv, show, page
  <2>2. CASE \E at \in {"world", "module"} :
               evt' = [i |-> i, gen |-> gen, world |-> gen, at |-> at]
             /\ r.st = "passed" /\ Sees(r, view, debugging)
    BY <2>2, <1>1 DEF CellInv, TypeOK, ShowOK, EventInv, show, page
  <2>. QED  BY <2>1, <2>2
<1>6. CallInv' /\ RunInv'
  <2>1. CallInv'
    BY <1>2 DEF CellInv, TypeOK, GateOK, CallInv
  <2>2. RunInv'
    BY <1>2 DEF CellInv, TypeOK, GoOK, RunInv, go, IdleEngine
  <2>. QED  BY <2>1, <2>2
<1>7. SentInv' /\ RestartInv' /\ RemovedInv'
  <2>1. \A n \in DOMAIN acts : IsIntent(acts[n]) =>
          acts[n].i \in Intents /\ intents'[acts[n].i] = intents[acts[n].i]
    BY SMTT(30), <1>2 DEF CellInv, TypeOK, GoOK, SentInv, Actions, IsIntent
  <2>2. SentInv'
    BY <2>1 DEF CellInv, SentInv, show, go, page
  <2>. QED  BY <2>2 DEF CellInv, RestartInv, RemovedInv, page, show, go
<1>. QED  BY <1>3, <1>4, <1>5, <1>6, <1>7 DEF CellInv

LEMMA EventSteps ==
  ASSUME CellInv, LocatedInv, NEW i \in Intents, Raise(i) \/ Point(i) \/ Located(i)
  PROVE  CellInv'
<1>1. \A st \in {"located", "passed", "lost"}, cont \in BOOLEAN, v, w \in Views :
        [st |-> st, cont |-> cont, saw |-> v, on |-> w] \in IntentSet
  BY DEF IntentSet
<1>2. Ended("lost") \in IntentSet
  BY RunsAssumption DEF IntentSet, Ended, NoView, Views
<1>3. view \in Views /\ NoView \in Views
  BY RunsAssumption DEF CellInv, TypeOK, ShowOK, NoView, Views
<1>4. ASSUME NEW v \in Views, v = view \/ debugging, NEW cont \in BOOLEAN, NEW at \in {"world", "module"},
             intents[i].st \in {"new", "located"}, PassEvent(i, v, cont, at),
             UNCHANGED <<page, show, call, go>>
      PROVE  CellInv'
  <2>1. CASE Drop(i) /\ UNCHANGED <<mxevent, evt>>
    BY <2>1, <1>2, <1>4, GateStep DEF Drop
  <2>2. CASE /\ mxevent' = TRUE
             /\ evt' = [i |-> i, gen |-> gen, world |-> gen, at |-> at]
             /\ intents' = [intents EXCEPT ![i] =
                              [st |-> "passed", cont |-> cont, saw |-> v, on |-> view]]
    <3>. DEFINE r == [st |-> "passed", cont |-> cont, saw |-> v, on |-> view]
    <3>1. r \in IntentSet /\ r.st = "passed" /\ Sees(r, view, debugging)
      BY <1>1, <1>3, <1>4 DEF Sees
    <3>2. intents' = [intents EXCEPT ![i] = r]
      BY <2>2
    <3>. HIDE DEF r
    <3>. QED  BY <2>2, <3>1, <3>2, <1>4, GateStep
  <2>. QED  BY <2>1, <2>2, <1>4 DEF PassEvent
<1>5. CASE Raise(i)
  BY <1>5, <1>3, <1>4 DEF Raise, Reachable
<1>6. CASE Point(i)
  <2>1. CASE debugging
    <3>1. PICK cont \in BOOLEAN :
            /\ intents' = [intents EXCEPT ![i] =
                             [st |-> "located", cont |-> cont, saw |-> view, on |-> NoView]]
            /\ UNCHANGED <<mxevent, evt>>
      BY <2>1, <1>6 DEF Point
    <3>2. intents[i].st = "new" /\ UNCHANGED <<page, show, call, go>>
      BY <1>6 DEF Point, Reachable
    <3>. QED  BY <3>1, <3>2, <1>1, <1>3, GateStep
  <2>2. CASE ~debugging
    BY <2>2, <1>3, <1>6, <1>4 DEF Point, Reachable
  <2>. QED  BY <2>1, <2>2
<1>7. CASE Located(i)
  <2>1. intents[i].cont \in BOOLEAN /\ intents[i].saw \in Views
    BY DEF CellInv, TypeOK, GateOK
  <2>2. debugging
    BY <1>7 DEF Located, LocatedInv
  <2>. QED  BY <2>1, <2>2, <1>7, <1>4 DEF Located
<1>. QED  BY <1>5, <1>6, <1>7

LEMMA WorldStep ==
  ASSUME CellInv, WorldBuilt
  PROVE  CellInv'
<1>1. /\ evt # NoEvent
      /\ evt' \in [i : {evt.i}, gen : {evt.gen}, world : {gen}, at : {"module"}]
  <2>1. evt # NoEvent
    BY DEF WorldBuilt, NoEvent
  <2>2. evt \in [i : Intents, gen : Nat, world : Nat, at : {"world", "module"}]
    BY <2>1 DEF CellInv, TypeOK, GateOK
  <2>3. [evt EXCEPT !.at = "module", !.world = gen]
          \in [i : {evt.i}, gen : {evt.gen}, world : {gen}, at : {"module"}]
    BY <2>2
  <2>. QED  BY <2>1, <2>3 DEF WorldBuilt
<1>2. /\ evt'.i = evt.i /\ evt'.gen = evt.gen /\ evt'.world = gen
      /\ evt' \in [i : Intents, gen : Nat, world : Nat, at : {"world", "module"}]
  BY <1>1 DEF CellInv, TypeOK, GateOK, ShowOK
<1>3. UNCHANGED <<page, show, mxevent, intents, call, go>>
  BY DEF WorldBuilt
<1>4. TypeOK'
  <2>1. GateOK'
    BY <1>2, <1>3 DEF CellInv, TypeOK, GateOK
  <2>. QED  BY <2>1, <1>3, TypesKept DEF CellInv, TypeOK
<1>5. EventInv'
  BY <1>1, <1>2, <1>3 DEF CellInv, TypeOK, ShowOK, GateOK, EventInv, show, page
<1>6. ProgramInv' /\ LoadingInv' /\ CallInv' /\ RunInv' /\ SenderInv'
  BY <1>3 DEF CellInv, ProgramInv, LoadingInv, CallInv, RunInv, SenderInv, page, show, go
<1>7. SentInv' /\ RestartInv' /\ RemovedInv'
  BY <1>3 DEF CellInv, SentInv, RestartInv, RemovedInv, page, show, go
<1>. QED  BY <1>4, <1>5, <1>6, <1>7 DEF CellInv

(***************************************************************************)
(* The queue of the engine.                                                *)
(***************************************************************************)
LEMMA TailType ==
  ASSUME NEW s \in Seq(Actions), s # <<>>
  PROVE  /\ 1 \in DOMAIN s /\ Head(s) = s[1] /\ Head(s) \in Actions
         /\ Tail(s) \in Seq(Actions) /\ Len(Tail(s)) = Len(s) - 1
         /\ \A n \in DOMAIN Tail(s) :
              n \in Nat /\ n # 0 /\ n + 1 \in DOMAIN s /\ Tail(s)[n] = s[n + 1]
OBVIOUS

LEMMA AppendType ==
  ASSUME NEW s \in Seq(Actions), NEW a \in Actions
  PROVE  /\ Append(s, a) \in Seq(Actions) /\ Len(Append(s, a)) = Len(s) + 1
         /\ \A n \in DOMAIN Append(s, a) :
              \/ n \in DOMAIN s /\ Append(s, a)[n] = s[n]
              \/ n = Len(s) + 1 /\ Append(s, a)[n] = a
OBVIOUS

LEMMA IntentType ==
  ASSUME NEW a \in Actions, IsIntent(a)
  PROVE  a.i \in Intents /\ a.gen \in Nat
BY DEF Actions, IsIntent

\* What waits for the engine before its gate opens.
LEMMA QueueType ==
  ASSUME CellInv, NEW n \in DOMAIN acts, IsIntent(acts[n])
  PROVE  acts[n].i \in Intents /\ acts[n].gen \in Nat /\ intents[acts[n].i].st = "sent"
<1>1. acts[n] \in Actions
  BY DEF CellInv, TypeOK, GoOK
<1>. QED  BY <1>1, IntentType DEF CellInv, SentInv

\* A program that has anything to do runs.
LEMMA IsOn ==
  ASSUME CellInv,
         \/ acts # <<>> \/ eng.pc # "recv"
         \/ \E c \in Channels : chan[c] # <<>> \/ watch[c] # "recv"
  PROVE  life = "on"
BY DEF CellInv, ProgramInv, IdleEngine

LEMMA DeliverStep ==
  ASSUME CellInv, Deliver
  PROVE  CellInv'
<1>0. /\ evt # NoEvent /\ call = NoCall /\ active /\ ~killing
      /\ mxevent' = FALSE /\ evt' = NoEvent
      /\ UNCHANGED <<page, show, eng, ggen, chan, watch, job, pill, ready, err>>
  BY DEF Deliver, JSTurn, NoEvent
<1>1. /\ evt.i \in Intents /\ intents[evt.i].st = "passed"
      /\ evt.gen \in Nat /\ evt.world \in Nat
  BY <1>0 DEF CellInv, TypeOK, GateOK, EventInv
<1>2. /\ intents \in [Intents -> IntentSet]
      /\ Ended("lost") \in IntentSet /\ Ended("lost").st = "lost"
  BY RunsAssumption DEF CellInv, TypeOK, GateOK, IntentSet, Ended, NoView, Views
<1>3. \A n \in DOMAIN acts : IsIntent(acts[n]) => acts[n].i \in Intents /\ acts[n].i # evt.i
  BY <1>1, QueueType
<1>4. eng.pc # "recv" => eng.i \in Intents /\ eng.i # evt.i
  BY <1>1 DEF CellInv, TypeOK, GoOK, RunInv, IdleEngine
<1>5. acts \in Seq(Actions)
  BY DEF CellInv, TypeOK, GoOK
<1>6. CASE Drop(evt.i) /\ UNCHANGED <<acts, call>>
  <2>1. /\ \A j \in Intents : j # evt.i => intents'[j] = intents[j]
        /\ intents' \in [Intents -> IntentSet]
    BY <1>1, <1>2, <1>6 DEF Drop
  <2>2. GateOK'
    BY <1>0, <1>6, <2>1 DEF CellInv, TypeOK, GateOK, IntentSet
  <2>3. UNCHANGED <<page, show, go>>
    BY <1>0, <1>6 DEF go
  <2>4. TypeOK'
    BY <2>2, <2>3, TypesKept DEF CellInv, TypeOK
  <2>5. ProgramInv' /\ LoadingInv' /\ EventInv' /\ CallInv' /\ SenderInv'
    BY <1>0, <1>6, <2>3
    DEF CellInv, ProgramInv, LoadingInv, EventInv, CallInv, SenderInv, page, show, go
  <2>6. RunInv'
    BY <1>4, <2>1, <2>3 DEF CellInv, RunInv, go
  <2>7. SentInv'
    BY <1>3, <2>1, <2>3 DEF CellInv, SentInv, show, go, page
  <2>8. RestartInv' /\ RemovedInv'
    BY <2>3 DEF CellInv, RestartInv, RemovedInv, page, show, go
  <2>. QED  BY <2>4, <2>5, <2>6, <2>7, <2>8 DEF CellInv
<1>7. CASE /\ Current(evt) /\ life = "on"
           /\ acts' = Append(acts, [k |-> "intent", i |-> evt.i, gen |-> evt.world])
           /\ intents' = [intents EXCEPT ![evt.i].st = "sent"]
           /\ call' = IF intents[evt.i].cont THEN evt.i ELSE NoCall
  <2>. DEFINE a == [k |-> "intent", i |-> evt.i, gen |-> evt.world]
  <2>1. /\ \A j \in Intents : j # evt.i => intents'[j] = intents[j]
        /\ intents'[evt.i].st = "sent" /\ intents'[evt.i].saw = intents[evt.i].saw
        /\ intents'[evt.i].on = intents[evt.i].on
        /\ intents' \in [Intents -> IntentSet]
    BY <1>1, <1>2, <1>7 DEF IntentSet
  <2>2. /\ a \in Actions /\ a.i = evt.i
        /\ a.gen = gen /\ Sees(intents[evt.i], view, debugging)
    BY <1>0, <1>1, <1>7 DEF Actions, Current, CellInv, EventInv, TypeOK, ShowOK
  <2>3. acts' = Append(acts, a)
    BY <1>7
  <2>. HIDE DEF a
  <2>4. /\ acts' \in Seq(Actions) /\ Len(acts') = Len(acts) + 1
        /\ \A n \in DOMAIN acts' :
             \/ n \in DOMAIN acts /\ acts'[n] = acts[n]
             \/ n = Len(acts) + 1 /\ acts'[n] = a
    BY <1>5, <2>2, <2>3, AppendType
  <2>5. GateOK'
    BY <1>0, <1>1, <1>7, <2>1 DEF GateOK, IntentSet
  <2>6. GoOK'
    BY <1>0, <2>4 DEF CellInv, TypeOK, GoOK
  <2>7. TypeOK'
    BY <1>0, <2>5, <2>6, TypesKept DEF CellInv, TypeOK
  <2>8. ProgramInv' /\ LoadingInv' /\ EventInv' /\ SenderInv'
    BY <1>0, <1>7 DEF CellInv, ProgramInv, LoadingInv, EventInv, SenderInv, page, show
  <2>9. CallInv' /\ RunInv'
    BY <1>0, <1>4, <1>7, <2>1 DEF CellInv, CallInv, RunInv
  <2>10. SentInv'
    <3>. SUFFICES ASSUME NEW n \in DOMAIN acts', IsIntent(acts'[n])
                  PROVE  /\ intents'[acts'[n].i].st = "sent"
                         /\ acts'[n].gen <= gen
                         /\ acts'[n].gen = gen => Sees(intents'[acts'[n].i], view, debugging)
                         /\ \A m \in DOMAIN acts' :
                              IsIntent(acts'[m]) /\ acts'[m].i = acts'[n].i => m = n
      BY <1>0 DEF SentInv, show, page
    <3>1. CASE n \in DOMAIN acts /\ acts'[n] = acts[n]
      <4>1. acts[n].i # evt.i /\ intents'[acts[n].i] = intents[acts[n].i]
        BY <1>3, <2>1, <3>1
      <4>2. \A m \in DOMAIN acts' : IsIntent(acts'[m]) /\ acts'[m].i = acts'[n].i => m = n
        BY <2>2, <2>4, <3>1, <4>1 DEF CellInv, SentInv
      <4>. QED  BY <3>1, <4>1, <4>2 DEF CellInv, SentInv
    <3>2. CASE n = Len(acts) + 1 /\ acts'[n] = a
      <4>1. \A m \in DOMAIN acts' : IsIntent(acts'[m]) /\ acts'[m].i = acts'[n].i => m = n
        BY <1>3, <2>2, <2>4, <3>2
      <4>2. gen \in Nat
        BY DEF CellInv, TypeOK, ShowOK
      <4>. QED  BY <2>1, <2>2, <3>2, <4>1, <4>2 DEF Sees
    <3>. QED  BY <2>4, <3>1, <3>2
  <2>11. RestartInv'
    <3>. SUFFICES ASSUME gen # ggen PROVE RestartInv'
      BY <1>0 DEF RestartInv, show
    <3>1. eng.pc = "recv" /\ acts = <<>>
      BY <1>7 DEF CellInv, RestartInv, Deliver, JSTurn, GoIdle
    <3>. QED  BY <1>0, <2>2, <2>4, <3>1 DEF RestartInv, show
  <2>12. RemovedInv'
    BY <1>0, <1>7 DEF CellInv, RemovedInv, page
  <2>. QED  BY <2>7, <2>8, <2>9, <2>10, <2>11, <2>12 DEF CellInv
<1>. QED  BY <1>6, <1>7 DEF Deliver

(***************************************************************************)
(* The engine and the watchers.                                            *)
(***************************************************************************)

\* What every step of the running program leaves in order.
LEMMA GoKeeps ==
  ASSUME CellInv, life = "on", UNCHANGED <<page, mxevent, evt>>, DrawView \/ NoDraw,
         \A j \in Intents : intents[j].st \notin {"sent", "run"} => intents'[j] = intents[j]
  PROVE  /\ PageOK' /\ ShowOK' /\ ggen' \in Nat
         /\ ProgramInv' /\ LoadingInv' /\ EventInv'
<1>0. gen \in Nat /\ ggen \in Nat /\ runs \in 0..MaxRuns
  BY DEF CellInv, TypeOK, PageOK, ShowOK, GoOK
<1>1. PageOK'
  BY TypesKept DEF CellInv, TypeOK
<1>2. ShowOK' /\ ggen' \in Nat
  BY <1>0 DEF CellInv, TypeOK, ShowOK, Views, DrawView, NoDraw
<1>3. ProgramInv' /\ LoadingInv'
  BY <1>0 DEF CellInv, ProgramInv, LoadingInv, DrawView, NoDraw, page
<1>4. EventInv'
  <2>. SUFFICES ASSUME evt # NoEvent PROVE EventInv'
    BY DEF EventInv
  <2>1. /\ evt.i \in Intents /\ evt.gen \in Nat /\ evt.world \in Nat
        /\ intents[evt.i].st = "passed"
    BY DEF CellInv, TypeOK, GateOK, EventInv
  <2>2. intents'[evt.i] = intents[evt.i]
    BY <2>1
  <2>. QED  BY <1>0, <2>1, <2>2 DEF CellInv, EventInv, DrawView, NoDraw, page
<1>. QED  BY <1>1, <1>2, <1>3, <1>4

\* What every step of the running program leaves of its queue: the intents that
\* still wait are those that waited, perhaps one place behind.
LEMMA QueueKeeps ==
  ASSUME CellInv, UNCHANGED page, DrawView \/ NoDraw, NEW d \in {0, 1},
         acts' \in Seq(Actions),
         \A n \in DOMAIN acts' : IsIntent(acts'[n]) =>
           /\ n + d \in DOMAIN acts /\ acts'[n] = acts[n + d]
           /\ intents'[acts[n + d].i] = intents[acts[n + d].i]
  PROVE  SentInv' /\ RemovedInv'
<1>1. SentInv'
  <2>. SUFFICES ASSUME NEW n \in DOMAIN acts', IsIntent(acts'[n])
                PROVE  /\ intents'[acts'[n].i].st = "sent"
                       /\ acts'[n].gen <= gen'
                       /\ acts'[n].gen = gen' => Sees(intents'[acts'[n].i], view', debugging')
                       /\ \A m \in DOMAIN acts' :
                            IsIntent(acts'[m]) /\ acts'[m].i = acts'[n].i => m = n
    BY DEF SentInv
  <2>1. /\ n + d \in DOMAIN acts /\ acts'[n] = acts[n + d]
        /\ intents'[acts[n + d].i] = intents[acts[n + d].i]
    OBVIOUS
  <2>2. gen \in Nat /\ acts[n + d].gen \in Nat
    BY <2>1, QueueType DEF CellInv, TypeOK, ShowOK
  <2>3. acts'[n].gen <= gen' /\ (acts'[n].gen = gen' => Sees(intents'[acts'[n].i], view', debugging'))
    BY <2>1, <2>2 DEF CellInv, SentInv, DrawView, NoDraw, page
  <2>4. \A m \in DOMAIN acts' : IsIntent(acts'[m]) /\ acts'[m].i = acts'[n].i => m = n
    <3>. SUFFICES ASSUME NEW m \in DOMAIN acts', IsIntent(acts'[m]), acts'[m].i = acts'[n].i
                  PROVE  m = n
      OBVIOUS
    <3>1. m + d = n + d
      BY <2>1 DEF CellInv, SentInv
    <3>2. m \in Nat /\ n \in Nat
      OBVIOUS
    <3>. QED  BY <3>1, <3>2
  <2>. QED  BY <2>1, <2>3, <2>4 DEF CellInv, SentInv
<1>2. RemovedInv'
  BY DEF CellInv, RemovedInv, page
<1>. QED  BY <1>1, <1>2

\* The first of the queue is taken; if an intent, it is nowhere else in it.
LEMMA HeadTaken ==
  ASSUME CellInv, acts # <<>>
  PROVE  /\ life = "on" /\ Head(acts) \in Actions /\ Tail(acts) \in Seq(Actions)
         /\ \A n \in DOMAIN Tail(acts) : IsIntent(Tail(acts)[n]) =>
              /\ n + 1 \in DOMAIN acts /\ Tail(acts)[n] = acts[n + 1]
              /\ acts[n + 1].i \in Intents
              /\ IsIntent(Head(acts)) => acts[n + 1].i # Head(acts).i
         /\ IsIntent(Head(acts)) =>
              /\ Head(acts).i \in Intents /\ intents[Head(acts).i].st = "sent"
              /\ Head(acts).gen = gen => Sees(intents[Head(acts).i], view, debugging)
              /\ gen # ggen => Head(acts).gen = gen
         /\ gen # ggen => \A n \in DOMAIN Tail(acts) : ~IsIntent(Tail(acts)[n])
<1>0. acts \in Seq(Actions)
  BY DEF CellInv, TypeOK, GoOK
<1>1. /\ 1 \in DOMAIN acts /\ Head(acts) = acts[1] /\ Head(acts) \in Actions
      /\ Tail(acts) \in Seq(Actions) /\ Len(Tail(acts)) = Len(acts) - 1
      /\ \A n \in DOMAIN Tail(acts) :
           n \in Nat /\ n # 0 /\ n + 1 \in DOMAIN acts /\ Tail(acts)[n] = acts[n + 1]
  BY <1>0, TailType
<1>2. life = "on"
  BY IsOn
<1>3. \A n \in DOMAIN Tail(acts) : IsIntent(Tail(acts)[n]) =>
        /\ n + 1 \in DOMAIN acts /\ Tail(acts)[n] = acts[n + 1]
        /\ acts[n + 1].i \in Intents
        /\ IsIntent(Head(acts)) => acts[n + 1].i # Head(acts).i
  <2>. SUFFICES ASSUME NEW n \in DOMAIN Tail(acts), IsIntent(Tail(acts)[n])
                PROVE  /\ acts[n + 1].i \in Intents
                       /\ IsIntent(Head(acts)) => acts[n + 1].i # Head(acts).i
    BY <1>1
  <2>1. n + 1 \in DOMAIN acts /\ IsIntent(acts[n + 1]) /\ n + 1 # 1
    BY <1>1
  <2>. QED  BY <1>1, <2>1, QueueType DEF CellInv, SentInv
<1>4. IsIntent(Head(acts)) =>
        /\ Head(acts).i \in Intents /\ intents[Head(acts).i].st = "sent"
        /\ Head(acts).gen = gen => Sees(intents[Head(acts).i], view, debugging)
        /\ gen # ggen => Head(acts).gen = gen
  BY <1>1, <1>2, QueueType DEF CellInv, SentInv, RestartInv
<1>5. gen # ggen => \A n \in DOMAIN Tail(acts) : ~IsIntent(Tail(acts)[n])
  BY <1>0, <1>1, <1>2 DEF CellInv, RestartInv
<1>. QED  BY <1>1, <1>2, <1>3, <1>4, <1>5

\* The channels ch, and behind them goroutines that have come since.
Behind(ch, later) ==
  /\ later \in [Channels -> Seq(Senders)]
  /\ \A c \in Channels : \A n \in DOMAIN later[c] : later[c][n] = "engine" =>
       n \in DOMAIN ch[c] /\ ch[c][n] = "engine"

LEMMA BehindSame ==
  ASSUME CellInv
  PROVE  Behind(chan, chan) /\ "trans" \in Channels /\ "updates" \in Channels
BY DEF Behind, CellInv, TypeOK, GoOK, Channels

LEMMA BehindAppend ==
  ASSUME NEW ch, NEW later, Behind(ch, later),
         NEW c \in Channels, NEW s \in Senders \ {"engine"}
  PROVE  Behind(ch, [later EXCEPT ![c] = Append(@, s)])
<1>. DEFINE last == [later EXCEPT ![c] = Append(@, s)]
<1>1. later \in [Channels -> Seq(Senders)] /\ later[c] \in Seq(Senders)
  BY DEF Behind
<1>2. /\ last \in [Channels -> Seq(Senders)] /\ last[c] = Append(later[c], s)
      /\ \A d \in Channels : d # c => last[d] = later[d]
  BY <1>1
<1>. HIDE DEF last
<1>3. \A n \in DOMAIN last[c] : last[c][n] = "engine" =>
        n \in DOMAIN later[c] /\ later[c][n] = "engine"
  BY <1>1, <1>2
<1>4. Behind(ch, last)
  BY <1>2, <1>3 DEF Behind
<1>. QED  BY <1>4 DEF last

LEMMA BehindPills ==
  ASSUME NEW ch, NEW later, Behind(ch, later), NEW b, NEW u
  PROVE  Behind(ch, Pills(later, b, u))
<1>1. "updates" \in Channels /\ "pill" \in Senders \ {"engine"}
  BY DEF Channels, Senders
<1>2. Behind(ch, [later EXCEPT !["updates"] = Append(@, "pill")])
  BY <1>1, BehindAppend
<1>. QED  BY <1>2 DEF Pills

\* The engine keeps its place before the goroutines.
LEMMA SenderKept ==
  ASSUME CellInv, UNCHANGED eng, Behind(chan, chan')
  PROVE  SenderInv'
BY DEF CellInv, SenderInv, Behind

LEMMA IgnoreStep ==
  ASSUME CellInv, Ignore
  PROVE  CellInv'
<1>. DEFINE a == Head(acts)
<1>0. /\ eng.pc = "recv" /\ acts # <<>> /\ IsIntent(a)
      /\ acts' = Tail(acts) /\ DrawView /\ chan' = Pills(chan, ready /\ ~err, pill.unread)
      /\ intents' = [intents EXCEPT ![a.i] = Ended("lost")]
      /\ UNCHANGED <<page, mxevent, evt, call, eng, watch, job, pill, ready, err>>
  BY DEF Ignore, IsIntent, Draw
<1>1. /\ life = "on" /\ acts' \in Seq(Actions) /\ a.i \in Intents
      /\ intents[a.i].st = "sent"
  BY <1>0, HeadTaken
<1>2. /\ intents' \in [Intents -> IntentSet] /\ intents'[a.i].st = "lost"
      /\ \A j \in Intents : j # a.i => intents'[j] = intents[j]
  <2>1. intents \in [Intents -> IntentSet]
    BY DEF CellInv, TypeOK, GateOK, IntentSet
  <2>2. Ended("lost") \in IntentSet /\ Ended("lost").st = "lost"
    BY RunsAssumption DEF IntentSet, Ended, NoView, Views
  <2>. QED  BY <1>0, <1>1, <2>1, <2>2
<1>3. \A n \in DOMAIN acts' : IsIntent(acts'[n]) =>
        /\ n + 1 \in DOMAIN acts /\ acts'[n] = acts[n + 1]
        /\ intents'[acts[n + 1].i] = intents[acts[n + 1].i]
  BY <1>0, <1>2, HeadTaken
<1>. HIDE DEF a
<1>4. /\ PageOK' /\ ShowOK' /\ ggen' \in Nat
      /\ ProgramInv' /\ LoadingInv' /\ EventInv'
  BY <1>0, <1>1, <1>2, GoKeeps
<1>9. Behind(chan, chan')
  BY <1>0, BehindSame, BehindPills
<1>5. TypeOK'
  <2>1. GateOK'
    BY <1>0, <1>2 DEF CellInv, TypeOK, GateOK, IntentSet
  <2>2. GoOK'
    BY <1>0, <1>1, <1>4, <1>9 DEF CellInv, TypeOK, GoOK, Behind
  <2>. QED  BY <1>4, <2>1, <2>2 DEF TypeOK
<1>6. CallInv' /\ RunInv' /\ SenderInv'
  BY <1>0, <1>1, <1>2, <1>9, SenderKept DEF CellInv, TypeOK, GateOK, CallInv, RunInv
<1>7. SentInv' /\ RemovedInv'
  BY <1>0, <1>1, <1>3, QueueKeeps
<1>8. RestartInv'
  <2>. SUFFICES ASSUME gen # ggen PROVE RestartInv'
    BY <1>0 DEF RestartInv, DrawView
  <2>. QED  BY <1>0, HeadTaken DEF RestartInv
<1>. QED  BY <1>4, <1>5, <1>6, <1>7, <1>8 DEF CellInv

\* An intent whose action is over.
LEMMA Finished ==
  ASSUME CellInv, NEW i \in Intents, intents[i].st \in {"sent", "run"}, Finish(i)
  PROVE  /\ intents' \in [Intents -> IntentSet]
         /\ \A j \in Intents : j # i => intents'[j] = intents[j]
         /\ call' \in Intents \cup {NoCall} /\ CallInv'
<1>1. intents \in [Intents -> IntentSet]
  BY DEF CellInv, TypeOK, GateOK, IntentSet
<1>2. Ended("done") \in IntentSet
  BY RunsAssumption DEF IntentSet, Ended, NoView, Views
<1>3. /\ intents' \in [Intents -> IntentSet]
      /\ \A j \in Intents : j # i => intents'[j] = intents[j]
  BY <1>1, <1>2 DEF Finish
<1>4. call' \in Intents \cup {NoCall} /\ CallInv'
  BY <1>3 DEF CellInv, TypeOK, GateOK, CallInv, Finish
<1>. QED  BY <1>3, <1>4

LEMMA HandleStep ==
  ASSUME CellInv, Handle
  PROVE  CellInv'
<1>. DEFINE i == Head(acts).i
<1>0. /\ eng.pc = "recv" /\ acts # <<>> /\ IsIntent(Head(acts)) /\ acts' = Tail(acts)
      /\ Head(acts).gen = ggen
      /\ UNCHANGED <<page, mxevent, evt, watch, job, pill, ready, err>>
  BY DEF Handle, IsIntent, Stale
<1>1. /\ life = "on" /\ acts' \in Seq(Actions) /\ i \in Intents
      /\ intents[i].st = "sent"
      /\ gen = ggen
  BY <1>0, HeadTaken
<1>2. ASSUME DrawView \/ NoDraw,
             intents' \in [Intents -> IntentSet],
             \A j \in Intents : j # i => intents'[j] = intents[j],
             call' \in Intents \cup {NoCall}, CallInv',
             \/ eng' = eng
             \/ \E c \in Channels, h \in Handlers :
                  /\ eng' = [pc |-> "send", chan |-> c, i |-> i, h |-> h]
                  /\ intents'[i].st = "run",
             chan' \in [Channels -> Seq(Senders)], SenderInv'
      PROVE  CellInv'
  <2>1. \A n \in DOMAIN acts' : IsIntent(acts'[n]) =>
          /\ n + 1 \in DOMAIN acts /\ acts'[n] = acts[n + 1]
          /\ intents'[acts[n + 1].i] = intents[acts[n + 1].i]
    BY <1>0, <1>2, HeadTaken
  <2>. HIDE DEF i
  <2>2. /\ PageOK' /\ ShowOK' /\ ggen' \in Nat
        /\ ProgramInv' /\ LoadingInv' /\ EventInv'
    BY <1>0, <1>1, <1>2, GoKeeps
  <2>3. GateOK'
    BY <1>0, <1>2 DEF CellInv, TypeOK, GateOK, IntentSet
  <2>4. GoOK'
    <3>1. eng' \in {IdleEngine}
            \cup [pc : {"send", "resume"}, chan : Channels, i : Intents, h : Handlers]
      BY <1>1, <1>2 DEF CellInv, TypeOK, GoOK
    <3>. QED  BY <1>0, <1>1, <1>2, <2>2, <3>1 DEF CellInv, TypeOK, GoOK
  <2>5. RunInv'
    BY <1>0, <1>2 DEF RunInv
  <2>6. SentInv' /\ RemovedInv'
    BY <1>0, <1>1, <1>2, <2>1, QueueKeeps
  <2>7. RestartInv'
    BY <1>1, <1>2 DEF RestartInv, DrawView, NoDraw
  <2>. QED  BY <1>2, <2>2, <2>3, <2>4, <2>5, <2>6, <2>7 DEF CellInv, TypeOK
<1>3. chan \in [Channels -> Seq(Senders)] /\ "trans" \in Channels /\ "updates" \in Channels
  BY DEF CellInv, TypeOK, GoOK, Channels
<1>4. PICK h \in Meets :
         \/ h = "nothing" /\ NoDraw /\ Finish(i) /\ UNCHANGED <<chan, eng>>
         \/ h = "draw" /\ Draw(chan) /\ Finish(i) /\ UNCHANGED eng
         \/ /\ h = "save" /\ Finish(i) /\ UNCHANGED eng
            /\ Draw([chan EXCEPT !["trans"] = Append(@, "goroutine")])
         \/ /\ h = "create" /\ Finish(i) /\ UNCHANGED eng
            /\ Draw([chan EXCEPT !["updates"] = Append(@, "create")])
         \/ h \in {"edit", "apply"} /\ Send(i, "trans", h)
         \/ h \in {"pivot", "place", "root"} /\ Send(i, "updates", h)
  BY DEF Handle
<1>. HIDE DEF i
<1>5. ASSUME Finish(i), UNCHANGED eng,
             \/ NoDraw /\ UNCHANGED chan
             \/ Draw(chan)
             \/ Draw([chan EXCEPT !["trans"] = Append(@, "goroutine")])
             \/ Draw([chan EXCEPT !["updates"] = Append(@, "create")])
      PROVE  CellInv'
  <2>1. Behind(chan, chan')
    <3>1. /\ Behind(chan, [chan EXCEPT !["trans"] = Append(@, "goroutine")])
          /\ Behind(chan, [chan EXCEPT !["updates"] = Append(@, "create")])
      BY BehindSame, BehindAppend DEF Senders
    <3>. QED  BY <1>5, <3>1, BehindSame, BehindPills DEF Draw
  <2>2. chan' \in [Channels -> Seq(Senders)] /\ SenderInv'
    BY <1>5, <2>1, SenderKept DEF Behind
  <2>3. /\ intents' \in [Intents -> IntentSet]
        /\ \A j \in Intents : j # i => intents'[j] = intents[j]
        /\ call' \in Intents \cup {NoCall} /\ CallInv'
    BY <1>1, <1>5, Finished
  <2>. QED  BY <1>2, <1>5, <2>2, <2>3 DEF Draw
<1>6. ASSUME NEW c \in Channels, Send(i, c, h)
      PROVE  CellInv'
  <2>1. chan' \in [Channels -> Seq(Senders)]
    <3>1. [chan EXCEPT ![c] = Append(@, "engine")] \in [Channels -> Seq(Senders)]
      <4>1. Append(chan[c], "engine") \in Seq(Senders)
        BY <1>3 DEF Senders
      <4>. QED  BY <1>3, <4>1
    <3>. QED  BY <1>6, <3>1 DEF Send
  <2>2. /\ intents' \in [Intents -> IntentSet] /\ intents'[i].st = "run"
        /\ \A j \in Intents : j # i => intents'[j] = intents[j]
    BY <1>1, <1>6 DEF Send, CellInv, TypeOK, GateOK, IntentSet
  <2>3. call' = call /\ CallInv' /\ call' \in Intents \cup {NoCall}
    BY <1>6, <2>2 DEF Send, CellInv, TypeOK, GateOK, CallInv
  <2>4. /\ eng' = [pc |-> "send", chan |-> c, i |-> i, h |-> h]
        /\ h \in Handlers /\ NoDraw
    BY <1>6 DEF Send, Meets, Handlers
  <2>5. SenderInv'
    <3>1. \A d \in Channels : chan[d] \in Seq(Senders)
      BY <1>3
    <3>2. \A d \in Channels : \A n \in DOMAIN chan[d] : chan[d][n] # "engine"
      BY <1>0 DEF CellInv, SenderInv
    <3>3. \A d \in Channels : d # c => chan'[d] = chan[d]
      BY <1>3, <1>6 DEF Send
    <3>4. chan'[c] = Append(chan[c], "engine")
      BY <1>3, <1>6 DEF Send
    <3>5. eng'.pc = "send" /\ eng'.chan = c
      BY <1>6 DEF Send
    <3>. QED  BY SMTT(30), <3>1, <3>2, <3>3, <3>4, <3>5 DEF SenderInv
  <2>. QED  BY <1>2, <2>1, <2>2, <2>3, <2>4, <2>5
<1>. QED  BY <1>3, <1>4, <1>5, <1>6

LEMMA ResumeStep ==
  ASSUME CellInv, Resume
  PROVE  CellInv'
<1>. DEFINE i == eng.i
<1>0. /\ eng.pc = "resume" /\ (DrawView \/ NoDraw) /\ Finish(i) /\ eng' = IdleEngine
      /\ ready' = (ready /\ eng.h # "apply")
      /\ UNCHANGED <<page, mxevent, evt, acts, watch, job, pill, err>>
  BY DEF Resume
<1>9. Behind(chan, chan')
  BY BehindSame, BehindPills DEF Resume
<1>1. /\ life = "on" /\ i \in Intents /\ intents[i].st = "run" /\ acts \in Seq(Actions)
      /\ gen = ggen
  BY <1>0, IsOn DEF CellInv, TypeOK, GoOK, RunInv, RestartInv, IdleEngine
<1>2. /\ intents' \in [Intents -> IntentSet]
      /\ \A j \in Intents : j # i => intents'[j] = intents[j]
      /\ call' \in Intents \cup {NoCall} /\ CallInv'
  BY <1>0, <1>1, Finished
<1>3. \A n \in DOMAIN acts' : IsIntent(acts'[n]) =>
        /\ n + 0 \in DOMAIN acts /\ acts'[n] = acts[n + 0]
        /\ intents'[acts[n + 0].i] = intents[acts[n + 0].i]
  BY <1>0, <1>1, <1>2, QueueType
<1>. HIDE DEF i
<1>4. /\ PageOK' /\ ShowOK' /\ ggen' \in Nat
      /\ ProgramInv' /\ LoadingInv' /\ EventInv'
  BY <1>0, <1>1, <1>2, GoKeeps
<1>5. GateOK'
  BY <1>0, <1>2 DEF CellInv, TypeOK, GateOK, IntentSet
<1>6. GoOK'
  <2>1. ready' \in BOOLEAN
    BY <1>0
  <2>. QED  BY <1>0, <1>4, <1>9, <2>1 DEF CellInv, TypeOK, GoOK, Behind
<1>7. SentInv' /\ RemovedInv'
  BY <1>0, <1>1, <1>3, QueueKeeps
<1>8. RunInv' /\ RestartInv'
  BY <1>0, <1>1 DEF CellInv, TypeOK, ShowOK, RunInv, RestartInv, IdleEngine, DrawView, NoDraw
<1>10. SenderInv'
  <2>1. \A c \in Channels : \A n \in DOMAIN chan[c] : chan[c][n] # "engine"
    BY <1>0 DEF CellInv, SenderInv
  <2>. QED  BY <1>9, <2>1 DEF SenderInv, Behind
<1>. QED  BY <1>2, <1>4, <1>5, <1>6, <1>7, <1>8, <1>10 DEF CellInv, TypeOK

\* The steps that leave the queue as it is, or put an answer of the server at
\* its end.
LEMMA WatcherKeeps ==
  ASSUME CellInv, life = "on",
         UNCHANGED <<page, show, gate, ggen>>,
         acts' = acts \/ (\E a \in Actions : ~IsIntent(a) /\ acts' = Append(acts, a)),
         GoOK', SenderInv',
         eng' = eng \/ (eng.pc = "send" /\ eng' = [eng EXCEPT !.pc = "resume"])
  PROVE  CellInv'
<1>0. NoDraw /\ acts \in Seq(Actions)
  BY DEF NoDraw, show, CellInv, TypeOK, GoOK
<1>1. TypeOK'
  BY TypesKept DEF CellInv, TypeOK
<1>2. ProgramInv' /\ LoadingInv' /\ EventInv' /\ CallInv'
  BY DEF CellInv, ProgramInv, LoadingInv, EventInv, CallInv, page, show, gate
<1>3. \A n \in DOMAIN acts' : IsIntent(acts'[n]) =>
        n + 0 \in DOMAIN acts /\ acts'[n] = acts[n + 0]
  <2>1. CASE acts' = acts
    BY <1>0, <2>1
  <2>2. CASE \E a \in Actions : ~IsIntent(a) /\ acts' = Append(acts, a)
    BY <1>0, <2>2, AppendType
  <2>. QED  BY <2>1, <2>2
<1>4. SentInv' /\ RemovedInv'
  <2>1. intents' = intents /\ acts' \in Seq(Actions)
    BY DEF gate, GoOK
  <2>2. \A n \in DOMAIN acts' : IsIntent(acts'[n]) =>
          /\ n + 0 \in DOMAIN acts /\ acts'[n] = acts[n + 0]
          /\ intents'[acts[n + 0].i] = intents[acts[n + 0].i]
    BY <1>3, <2>1
  <2>. QED  BY <1>0, <2>1, <2>2, QueueKeeps
<1>5. (eng'.pc = "recv" <=> eng.pc = "recv") /\ (eng.pc # "recv" => eng'.i = eng.i)
  BY DEF CellInv, TypeOK, GoOK, IdleEngine
<1>6. RunInv'
  BY <1>5 DEF CellInv, RunInv, gate
<1>7. RestartInv'
  <2>. SUFFICES ASSUME gen # ggen PROVE RestartInv'
    BY DEF RestartInv, show
  <2>1. eng.pc = "recv"
    BY DEF CellInv, RestartInv
  <2>2. CASE acts' = acts
    BY <1>5, <2>1, <2>2 DEF CellInv, RestartInv, page, show
  <2>3. CASE acts' # acts
    <3>1. \A n \in DOMAIN acts' : n + 0 = n
      BY DEF GoOK
    <3>. QED  BY <1>3, <1>5, <2>1, <3>1 DEF CellInv, RestartInv, page, show
  <2>. QED  BY <2>2, <2>3
<1>. QED  BY <1>1, <1>2, <1>4, <1>6, <1>7 DEF CellInv

LEMMA AnswerType ==
  /\ \A k \in {"lioli", "manifest", "error", "insert"}, c \in Channels :
       Act(k, c) \in Actions /\ ~IsIntent(Act(k, c))
  /\ Act("rack", "none") \in Actions /\ ~IsIntent(Act("rack", "none"))
BY DEF Act, Actions, IsIntent

LEMMA ReceiveStep ==
  ASSUME CellInv, NEW c \in Channels, Receive(c)
  PROVE  CellInv'
<1>1. life = "on"
  BY IsOn DEF Receive
<1>2. /\ chan \in [Channels -> Seq(Senders)] /\ chan[c] # <<>>
      /\ chan' = [chan EXCEPT ![c] = Tail(@)]
      /\ eng' = IF Head(chan[c]) = "engine" THEN [eng EXCEPT !.pc = "resume"] ELSE eng
      /\ UNCHANGED <<page, show, gate, ggen, pill, err>>
      /\ watch' = [watch EXCEPT ![c] = "post"]
      /\ job' = IF c = "trans" THEN job
                ELSE IF Head(chan[c]) = "engine" THEN eng.h ELSE Head(chan[c])
      /\ ready' = (ready /\ Head(chan[c]) # "place")
      /\ acts' = acts \/ acts' = Append(acts, Act("rack", "none"))
  BY DEF Receive, CellInv, TypeOK, GoOK
<1>3. chan[c] \in Seq(Senders) /\ chan'[c] = Tail(chan[c])
  BY <1>2
<1>4. /\ \A d \in Channels : d # c => chan'[d] = chan[d]
      /\ chan' \in [Channels -> Seq(Senders)]
  BY <1>2, <1>3
<1>5. /\ 1 \in DOMAIN chan[c] /\ Head(chan[c]) = chan[c][1]
      /\ \A n \in DOMAIN chan'[c] :
           n + 1 \in DOMAIN chan[c] /\ n + 1 # 1 /\ chan'[c][n] = chan[c][n + 1]
      /\ Head(chan[c]) \in Senders
  BY <1>2, <1>3
<1>8. /\ acts' = acts \/ (\E a \in Actions : ~IsIntent(a) /\ acts' = Append(acts, a))
      /\ acts' \in Seq(Actions) /\ ready' \in BOOLEAN
  <2>1. acts \in Seq(Actions)
    BY DEF CellInv, TypeOK, GoOK
  <2>2. acts' = acts \/ (\E a \in Actions : ~IsIntent(a) /\ acts' = Append(acts, a))
    BY <1>2, AnswerType
  <2>. QED  BY <1>2, <2>1, <2>2, AppendType
<1>6. CASE Head(chan[c]) = "engine"
  <2>1. eng.pc = "send" /\ eng.chan = c
    BY <1>5, <1>6 DEF CellInv, SenderInv
  <2>2. \A d \in Channels : \A n \in DOMAIN chan'[d] : chan'[d][n] # "engine"
    BY <1>4, <1>5, <1>6, <2>1 DEF CellInv, SenderInv
  <2>3. SenderInv'
    BY <2>2 DEF SenderInv
  <2>4. eng \in [pc : {"send", "resume"}, chan : Channels, i : Intents, h : Handlers]
    BY <2>1 DEF CellInv, TypeOK, GoOK, IdleEngine
  <2>5. eng' = [eng EXCEPT !.pc = "resume"]
    BY <1>2, <1>6
  <2>6. eng' \in [pc : {"send", "resume"}, chan : Channels, i : Intents, h : Handlers]
    BY <2>4, <2>5
  <2>7. GoOK'
    BY <1>2, <1>4, <1>6, <1>8, <2>4, <2>6 DEF CellInv, TypeOK, GoOK
  <2>. QED  BY <1>1, <1>2, <1>8, <2>1, <2>3, <2>5, <2>7, WatcherKeeps
<1>7. CASE Head(chan[c]) # "engine"
  <2>1. eng' = eng
    BY <1>2, <1>7
  <2>2. SenderInv'
    BY <1>4, <1>5, <2>1 DEF CellInv, SenderInv
  <2>3. GoOK'
    BY <1>2, <1>4, <1>5, <1>7, <1>8, <2>1 DEF CellInv, TypeOK, GoOK
  <2>. QED  BY <1>1, <1>2, <1>8, <2>1, <2>2, <2>3, WatcherKeeps
<1>. QED  BY <1>6, <1>7

LEMMA ServeStep ==
  ASSUME CellInv, Serve
  PROVE  CellInv'
<1>1. ASSUME NEW c \in Channels, Respond(c)
      PROVE  CellInv'
  <2>1. life = "on"
    BY <1>1, IsOn DEF Respond
  <2>2. \E a \in Actions : ~IsIntent(a) /\ acts' = Append(acts, a)
    BY <1>1, AnswerType DEF Respond
  <2>3. acts' \in Seq(Actions)
    BY <2>2, AppendType DEF CellInv, TypeOK, GoOK
  <2>4. watch' \in [Channels -> {"recv", "post", "send", "stuck"}]
    BY <1>1 DEF Respond, CellInv, TypeOK, GoOK
  <2>5. UNCHANGED <<page, show, gate, eng, ggen, chan, job, pill, ready, err>>
    BY <1>1 DEF Respond
  <2>6. GoOK' /\ SenderInv'
    BY <2>3, <2>4, <2>5 DEF CellInv, TypeOK, GoOK, SenderInv
  <2>. QED  BY <2>1, <2>2, <2>5, <2>6, WatcherKeeps
<1>2. CASE Unread
  <2>0. "updates" \in Channels
    BY DEF Channels
  <2>1. life = "on"
    BY <1>2, <2>0, IsOn DEF Unread
  <2>2. watch' \in [Channels -> {"recv", "post", "send", "stuck"}]
    BY <1>2 DEF Unread, CellInv, TypeOK, GoOK
  <2>3. UNCHANGED <<page, show, gate, acts, eng, ggen, chan, pill, ready, err>> /\ job' = "pill"
    BY <1>2 DEF Unread
  <2>4. GoOK' /\ SenderInv'
    BY <2>2, <2>3 DEF CellInv, TypeOK, GoOK, SenderInv, Senders
  <2>. QED  BY <2>1, <2>3, <2>4, WatcherKeeps
<1>. QED  BY <1>1, <1>2 DEF Serve

LEMMA UpdateStep ==
  ASSUME CellInv, Update
  PROVE  CellInv'
<1>. DEFINE a == Head(acts)
<1>0. /\ eng.pc = "recv" /\ acts # <<>> /\ ~IsIntent(a) /\ After(a, Tail(acts))
      /\ DrawView /\ pill' \in Read(a)
      /\ ready' = (ready \/ a.k = "manifest") /\ err' = (err \/ a.k = "error")
      /\ job' = IF a.k = "insert" THEN "pill" ELSE job
      /\ UNCHANGED <<page, gate, eng>>
  BY DEF Update, IsIntent
<1>1. life = "on" /\ Tail(acts) \in Seq(Actions) /\ a \in Actions
  BY <1>0, HeadTaken
<1>3. \/ acts' = Tail(acts)
      \/ \E f \in Actions : ~IsIntent(f) /\ acts' = Append(Tail(acts), f)
  BY <1>0, AnswerType DEF After, Channels, Act
<1>4. watch' \in [Channels -> {"recv", "post", "send", "stuck"}]
  BY <1>0 DEF After, CellInv, TypeOK, GoOK
<1>5. Behind(chan, chan')
  <2>1. Behind(chan, Applied(a))
    <3>1. \A s \in {"place", "goroutine"} :
            Behind(chan, [chan EXCEPT !["trans"] = Append(@, s)])
      BY BehindSame, BehindAppend DEF Senders
    <3>. QED  BY <3>1, BehindSame DEF Applied
  <2>. QED  BY <2>1, BehindPills DEF Update
<1>2. pill' \in [unread : BOOLEAN, left : 0..MaxRefused]
  <2>. DEFINE P == [unread : BOOLEAN, left : 0..MaxRefused]
  <2>1. pill \in P /\ pill.left \in 0..MaxRefused
    BY DEF CellInv, TypeOK, GoOK
  <2>2. \/ pill' = NoPill \/ pill' = pill
        \/ pill.left > 0 /\ pill' = [unread |-> TRUE, left |-> pill.left - 1]
    BY <1>0 DEF Read
  <2>3. 0 \in 0..MaxRefused /\ (pill.left > 0 => pill.left - 1 \in 0..MaxRefused)
    BY <2>1, RefusedAssumption
  <2>4. NoPill \in P /\ \A k \in 0..MaxRefused : [unread |-> TRUE, left |-> k] \in P
    BY <2>3 DEF NoPill
  <2>. QED  BY <2>1, <2>2, <2>3, <2>4
<1>. HIDE DEF a
<1>6. /\ acts' \in Seq(Actions)
      /\ \A n \in DOMAIN acts' : IsIntent(acts'[n]) =>
           n \in DOMAIN Tail(acts) /\ acts'[n] = Tail(acts)[n]
  BY <1>1, <1>3, AppendType
<1>7. intents' = intents /\ UNCHANGED <<mxevent, evt, call>>
  BY <1>0 DEF gate
<1>8. \A n \in DOMAIN acts' : IsIntent(acts'[n]) =>
        /\ n + 1 \in DOMAIN acts /\ acts'[n] = acts[n + 1]
        /\ intents'[acts[n + 1].i] = intents[acts[n + 1].i]
  BY <1>0, <1>6, <1>7, HeadTaken
<1>9. /\ PageOK' /\ ShowOK' /\ ggen' \in Nat
      /\ ProgramInv' /\ LoadingInv' /\ EventInv'
  BY <1>0, <1>1, <1>7, GoKeeps
<1>10. TypeOK'
  <2>2. ready' \in BOOLEAN /\ err' \in BOOLEAN
    BY <1>0
  <2>3. GoOK'
    BY <1>0, <1>2, <1>4, <1>5, <1>6, <1>9, <2>2 DEF CellInv, TypeOK, GoOK, Behind, Senders
  <2>. QED  BY <1>0, <1>9, <2>3, TypesKept DEF CellInv, TypeOK
<1>11. CallInv' /\ RunInv'
  BY <1>0, <1>7 DEF CellInv, CallInv, RunInv
<1>12. SenderInv'
  BY <1>0, <1>5, SenderKept
<1>13. SentInv' /\ RemovedInv'
  BY <1>0, <1>6, <1>8, QueueKeeps
<1>14. RestartInv'
  <2>. SUFFICES ASSUME gen # ggen PROVE RestartInv'
    BY <1>0 DEF RestartInv, DrawView, CellInv, TypeOK, ShowOK, GoOK
  <2>1. \A n \in DOMAIN acts' : ~IsIntent(acts'[n])
    BY <1>0, <1>6, HeadTaken
  <2>. QED  BY <1>0, <2>1 DEF RestartInv
<1>. QED  BY <1>9, <1>10, <1>11, <1>12, <1>13, <1>14 DEF CellInv

(***************************************************************************)
(* The theorems.                                                           *)
(***************************************************************************)
LEMMA NextInv == CellInv /\ LocatedInv /\ [Next]_vars => CellInv'
<1>. SUFFICES ASSUME CellInv, LocatedInv, [Next]_vars PROVE CellInv'
  OBVIOUS
<1>1. CASE GoStep
  BY <1>1, IgnoreStep, HandleStep, ResumeStep, UpdateStep, ReceiveStep DEF GoStep
<1>2. CASE Loop
  BY <1>2, LoopStep, StartStep, ExitSteps DEF Loop
<1>3. CASE Serve
  BY <1>3, ServeStep
<1>4. CASE Task
  BY <1>4, WorldStep, DeliverStep, EventSteps DEF Task
<1>5. CASE LoadFails \/ Crash \/ Disconnect
  BY <1>5, LoopStep, ExitSteps, DisconnectStep
<1>6. CASE \E i \in Intents : Raise(i) \/ Point(i)
  BY <1>6, EventSteps
<1>7. CASE UNCHANGED vars
  <2>1. UNCHANGED <<page, show, gate, go>>
    BY <1>7 DEF vars
  <2>2. TypeOK'
    BY <2>1, TypesKept DEF CellInv, TypeOK
  <2>3. ProgramInv' /\ LoadingInv' /\ EventInv' /\ CallInv' /\ RunInv' /\ SenderInv'
    BY <2>1 DEF CellInv, ProgramInv, LoadingInv, EventInv, CallInv, RunInv, SenderInv,
                page, show, gate, go
  <2>4. SentInv' /\ RestartInv' /\ RemovedInv'
    BY <2>1 DEF CellInv, SentInv, RestartInv, RemovedInv, page, show, gate, go
  <2>. QED  BY <2>2, <2>3, <2>4 DEF CellInv
<1>. QED  BY <1>1, <1>2, <1>3, <1>4, <1>5, <1>6, <1>7 DEF Next

\* An entity is located only after a click or a drop with the visual debugger.
LEMMA LocatedStep == CellInv /\ LocatedInv /\ [Next]_vars => LocatedInv'
<1>. SUFFICES ASSUME CellInv, LocatedInv, [Next]_vars PROVE LocatedInv'
  OBVIOUS
<1>0. intents \in [Intents -> IntentSet]
  BY DEF CellInv, TypeOK, GateOK, IntentSet
<1>1. debugging' = debugging
  BY DEF Next, GoStep, Loop, Serve, Task, Ignore, Handle, Resume, Update, Receive, AskFlags,
         AwaitFlags, HaveFlags, FlagsAnswer, Start, Again, Kill, Fatal, Unread, Respond,
         WorldBuilt, Deliver, Located, LoadFails, Crash, Disconnect, Raise, Point, vars, page
<1>2. ASSUME NEW j \in Intents, NEW r, intents' = [intents EXCEPT ![j] = r],
             r.st # "located" \/ debugging
      PROVE  LocatedInv'
  BY <1>0, <1>1, <1>2 DEF LocatedInv
<1>3. CASE UNCHANGED intents
  BY <1>1, <1>3 DEF LocatedInv
<1>4. CASE Exit
  BY <1>0, <1>1, <1>4, EndedType DEF Exit, LocatedInv
<1>5. ASSUME NEW j \in Intents, Raise(j) \/ Point(j) \/ Located(j)
      PROVE  LocatedInv'
  <2>1. \E r : intents' = [intents EXCEPT ![j] = r] /\ (r.st # "located" \/ debugging)
    BY <1>5, EndedType DEF Raise, Point, Located, PassEvent, Drop
  <2>. QED  BY <1>2, <2>1
<1>6. CASE Deliver
  <2>1. evt.i \in Intents
    BY <1>6 DEF Deliver, NoEvent, CellInv, TypeOK, GateOK, EventInv
  <2>2. \E r : intents' = [intents EXCEPT ![evt.i] = r] /\ r.st # "located"
    BY <1>0, <1>6, <2>1, EndedType DEF Deliver, Drop, IntentSet
  <2>. QED  BY <1>2, <2>1, <2>2
<1>7. CASE Ignore
  <2>1. Head(acts).i \in Intents
    BY <1>7, HeadTaken DEF Ignore, IsIntent
  <2>. DEFINE j == Head(acts).i
  <2>2. \E r : intents' = [intents EXCEPT ![j] = r] /\ r.st # "located"
    BY <1>7, EndedType DEF Ignore
  <2>. QED  BY <1>2, <2>1, <2>2
<1>8. CASE Handle
  <2>1. Head(acts).i \in Intents
    BY <1>8, HeadTaken DEF Handle, IsIntent
  <2>. DEFINE j == Head(acts).i
  <2>2. \E r : intents' = [intents EXCEPT ![j] = r] /\ r.st # "located"
    BY <1>0, <1>8, <2>1, EndedType DEF Handle, Finish, Send, IntentSet
  <2>. QED  BY <1>2, <2>1, <2>2
<1>9. CASE Resume
  <2>1. eng.i \in Intents
    BY <1>9 DEF Resume, CellInv, TypeOK, GoOK, IdleEngine
  <2>. QED  BY <1>2, <1>9, <2>1, EndedType DEF Resume, Finish
<1>10. CASE GoStep
  BY <1>3, <1>7, <1>8, <1>9, <1>10 DEF GoStep, Update, Receive, gate
<1>11. CASE Loop
  BY <1>3, <1>4, <1>11
  DEF Loop, AskFlags, AwaitFlags, HaveFlags, FlagsAnswer, Start, Again, Kill, Fatal, gate
<1>12. CASE Serve
  BY <1>3, <1>12 DEF Serve, Respond, Unread, gate
<1>13. CASE Task
  BY <1>3, <1>5, <1>6, <1>13 DEF Task, WorldBuilt
<1>14. CASE LoadFails \/ Crash \/ Disconnect
  BY <1>3, <1>4, <1>14 DEF LoadFails, Crash, Disconnect, gate
<1>15. CASE \E j \in Intents : Raise(j) \/ Point(j)
  BY <1>5, <1>15
<1>16. CASE UNCHANGED vars
  BY <1>3, <1>16 DEF vars, gate
<1>. QED  BY <1>10, <1>11, <1>12, <1>13, <1>14, <1>15, <1>16 DEF Next

LEMMA SpecInv == Spec => []CellInv
<1>1. Init => LocatedInv
  BY DEF Init, LocatedInv, Ended
<1>. QED  BY <1>1, InitInv, NextInv, LocatedStep, PTL DEF Spec

\* The page and the program keep their types, whatever is raised, answered,
\* restarted or removed.
THEOREM CellTypes == Spec => []TypeOK
<1>1. CellInv => TypeOK
  BY DEF CellInv
<1>. QED  BY <1>1, SpecInv, PTL

\* Only the engine starts a handler, and only for the first of its queue.
LEMMA HandledByHandle ==
  ASSUME CellInv, [Next]_vars, NEW i \in Intents, Handled(i)
  PROVE  Handle /\ acts # <<>> /\ IsIntent(Head(acts)) /\ Head(acts).i = i
<1>0. /\ intents[i].st = "sent"
      /\ intents'[i].st \in {"run", "done"}
      /\ intents \in [Intents -> IntentSet]
  BY DEF Handled, CellInv, TypeOK, GateOK, IntentSet
<1>1. \A st : Ended(st).st = st
  BY EndedType
<1>2. intents' # intents
  BY <1>0
<1>3. ~Exit
  BY <1>0, <1>1 DEF Exit
<1>4. UNCHANGED intents => FALSE
  BY <1>2
<1>5. ASSUME NEW j \in Intents, Raise(j) \/ Point(j) \/ Located(j)
      PROVE  FALSE
  <2>1. intents[j].st \in {"new", "located"}
    BY <1>5 DEF Raise, Point, Located, Reachable
  <2>2. \E r : intents' = [intents EXCEPT ![j] = r]
    BY <1>5 DEF Raise, Point, Located, PassEvent, Drop
  <2>. QED  BY <1>0, <2>1, <2>2
<1>6. ~Deliver
  <2>. SUFFICES ASSUME Deliver PROVE FALSE
    OBVIOUS
  <2>1. evt.i \in Intents /\ intents[evt.i].st = "passed"
    BY DEF Deliver, NoEvent, CellInv, TypeOK, GateOK, EventInv
  <2>2. \E r : intents' = [intents EXCEPT ![evt.i] = r]
    BY DEF Deliver, Drop
  <2>. QED  BY <1>0, <2>1, <2>2
<1>7. ~Ignore
  <2>. SUFFICES ASSUME Ignore PROVE FALSE
    OBVIOUS
  <2>. DEFINE j == Head(acts).i
  <2>1. j \in Intents
    BY HeadTaken DEF Ignore, IsIntent
  <2>2. intents' = [intents EXCEPT ![j] = Ended("lost")]
    BY DEF Ignore
  <2>. HIDE DEF j
  <2>3. CASE j = i
    BY <1>0, <1>1, <2>1, <2>2, <2>3
  <2>4. CASE j # i
    BY <1>0, <2>2, <2>4
  <2>. QED  BY <2>3, <2>4
<1>8. ~Resume
  <2>. SUFFICES ASSUME Resume PROVE FALSE
    OBVIOUS
  <2>1. eng.i \in Intents /\ intents[eng.i].st = "run"
    BY DEF Resume, CellInv, TypeOK, GoOK, RunInv, IdleEngine
  <2>. DEFINE j == eng.i
  <2>2. intents' = [intents EXCEPT ![j] = Ended("done")] /\ j # i
    BY <1>0, <2>1 DEF Resume, Finish
  <2>. HIDE DEF j
  <2>. QED  BY <1>0, <2>2
<1>9. Handle
  <2>1. CASE GoStep
    BY <1>4, <1>7, <1>8, <2>1 DEF GoStep, Update, Receive, gate
  <2>2. CASE Loop
    BY <1>3, <1>4, <2>2
    DEF Loop, AskFlags, AwaitFlags, HaveFlags, FlagsAnswer, Start, Again, Kill, Fatal, gate
  <2>3. CASE Serve
    BY <1>4, <2>3 DEF Serve, Respond, Unread, gate
  <2>4. CASE Task
    BY <1>4, <1>5, <1>6, <2>4 DEF Task, WorldBuilt
  <2>5. CASE LoadFails \/ Crash \/ Disconnect
    BY <1>3, <1>4, <2>5 DEF LoadFails, Crash, Disconnect, gate
  <2>6. CASE \E j \in Intents : Raise(j) \/ Point(j)
    BY <1>5, <2>6
  <2>7. CASE UNCHANGED vars
    BY <1>4, <2>7 DEF vars, gate
  <2>. QED  BY <2>1, <2>2, <2>3, <2>4, <2>5, <2>6, <2>7 DEF Next
<1>10. acts # <<>> /\ IsIntent(Head(acts))
  BY <1>9 DEF Handle, IsIntent
<1>11. Head(acts).i = i
  <2>. DEFINE j == Head(acts).i
  <2>1. j \in Intents
    BY <1>10, HeadTaken
  <2>2. \E r : intents' = [intents EXCEPT ![j] = r]
    BY <1>0, <1>9, <2>1 DEF Handle, Finish, Send
  <2>. HIDE DEF j
  <2>3. j = i
    BY <1>0, <2>1, <2>2
  <2>. QED  BY <2>3 DEF j
<1>. QED  BY <1>9, <1>10, <1>11

\* "An event is only processed if from the current gen" (datacell.ts:43): a handler
\* meets the very view of passEvent, and the one the user saw but for the visual
\* debugger, whatever the number of events and of restarts, and although the two
\* generations part after a restart.
THEOREM EventsMeetTheirView == Spec => HandledOnItsView
<1>1. CellInv /\ [Next]_vars =>
        [\A i \in Intents : Handled(i) =>
           /\ intents[i].on = <<runs, ggen>>
           /\ debugging \/ intents[i].saw = <<runs, ggen>>]_vars
  <2>. SUFFICES ASSUME CellInv, [Next]_vars, NEW i \in Intents, Handled(i)
                PROVE  /\ intents[i].on = <<runs, ggen>>
                       /\ debugging \/ intents[i].saw = <<runs, ggen>>
    OBVIOUS
  <2>1. Handle /\ acts # <<>> /\ IsIntent(Head(acts)) /\ Head(acts).i = i
    BY HandledByHandle
  <2>2. Head(acts).gen = ggen
    BY <2>1 DEF Handle, Stale
  <2>3. life = "on" /\ Head(acts).gen = gen
    BY <2>1, <2>2, HeadTaken
  <2>4. Sees(intents[i], view, debugging)
    BY <2>1, <2>3, HeadTaken
  <2>. QED  BY <2>3, <2>4 DEF CellInv, ProgramInv, Sees
<1>. QED  BY <1>1, SpecInv, PTL DEF Spec, HandledOnItsView

\* A cell that has left its place in the page handles no more events: what it was
\* given is lost with its program (datacell.ts:118).
THEOREM RemovedStaysQuiet == Spec => RemovedIsQuiet
<1>1. CellInv /\ [Next]_vars => [~running => \A i \in Intents : ~Handled(i)]_vars
  <2>. SUFFICES ASSUME CellInv, [Next]_vars, ~running, NEW i \in Intents, Handled(i)
                PROVE  FALSE
    OBVIOUS
  <2>1. acts # <<>> /\ IsIntent(Head(acts))
    BY HandledByHandle
  <2>2. 1 \in DOMAIN acts /\ Head(acts) = acts[1]
    BY <2>1, TailType DEF CellInv, TypeOK, GoOK
  <2>. QED  BY <2>1, <2>2 DEF CellInv, RemovedInv
<1>. QED  BY <1>1, SpecInv, PTL DEF Spec, RemovedIsQuiet
=============================================================================
