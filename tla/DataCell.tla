------------------------------ MODULE DataCell ------------------------------
(***************************************************************************)
(* One data cell of a notebook page: the custom element wt-data            *)
(* (src/rx-browser/webc/datacell.ts) and the Go program it runs            *)
(* (src/rx-browser/rx/engine.go, src/rx-browser/datacell).                 *)
(*                                                                         *)
(* The page and the program share one thread: the program runs when the    *)
(* page calls it, until all its goroutines wait (GoIdle).  Inside the      *)
(* program, handlers run on the engine's goroutine; two watchers turn      *)
(* changes of the manifest ("trans") and of the pivots ("updates") into    *)
(* requests to the server, and the answers into actions of the engine.     *)
(* All these channels are unbuffered.                                      *)
(*                                                                         *)
(* A view is named by the run of the program that drew it and the engine's *)
(* generation; the entities of a view alternate between two ranges of      *)
(* identifiers (engine.go:122), so a view keeps those of the one before    *)
(* the last.                                                               *)
(***************************************************************************)
EXTENDS Naturals, Sequences, FiniteSets

CONSTANTS Intents,    \* the events of the user, numbered as they are raised
          MaxRuns,    \* how often loopCell starts the program (20 in the code)
          MaxRefused, \* bound: answers without the pivot, in a run
          MaxWaiting  \* bound: requests for a pivot that wait at once

ASSUME RunsAssumption == MaxRuns \in Nat \ {0}
ASSUME RefusedAssumption == MaxRefused \in Nat
ASSUME WaitingAssumption == MaxWaiting \in Nat

VARIABLES
  flags,     \* utils/flags.ts: the first HEAD /info and its answer
  debugging, \* the flag "visualdebug": locating an entity takes a while
  life,      \* where loopCell is
  runs,      \* how many programs it has started
  active,    \* activeModule is resolved
  running,   \* this.running
  attached,  \* the element is in the document
  killing,   \* disconnectedCallback waits for activeModule
  gen,       \* this.gen
  view,      \* the view shown
  mxevent,   \* an event is between passEvent and updateGo
  evt,       \* that event
  intents,   \* what became of each intent
  call,      \* the intent whose call of updateGo has not returned
  acts,      \* the senders waiting on Engine.Actions
  eng,       \* the engine's goroutine
  ggen,      \* Engine.gen
  chan,      \* the senders waiting on each watcher's channel
  watch,     \* the watchers
  job,       \* what the watcher of the pivots was asked for: by which handler, or
             \* by which goroutine
  pill,      \* a pivot of the manifest: unread, and how often it may be refused
  ready,     \* Cell.load = Ready
  err        \* ErrorKey is set in the context

page == <<flags, debugging, life, runs, active, running, attached, killing>>
show == <<gen, view>>
gate == <<mxevent, evt, intents, call>>
go == <<acts, eng, ggen, chan, watch, job, pill, ready, err>>
vars == <<page, show, gate, go>>

Channels == {"trans", "updates"}
NoView == <<0, 0>>
NoEvent == [at |-> "none"]
NoCall == 0

ASSUME IntentsAssumption == Intents \subseteq Nat \ {NoCall}

\* What a handler of the cell does with the engine's goroutine: draw again;
\* return NoAction; send a manifest change itself (title, pattern, removal of a
\* pivot, Refresh), or send one and show the placeholder; leave that sending, or
\* that of a new pivot, to a goroutine; send a pivot itself, for the manifest
\* ("pivot"), for a column ("place") or, at the root, for nothing.
Handlers ==
  {"draw", "nothing", "edit", "apply", "save", "create", "pivot", "place", "root"}

\* Who waits on a channel: the engine, or a goroutine of the kind given.
Senders == {"engine", "goroutine", "place", "create", "pill"}

Ended(st) == [st |-> st, cont |-> FALSE, saw |-> NoView, on |-> NoView]

IdleEngine == [pc |-> "recv"]

NoPill == [unread |-> FALSE, left |-> 0]

\* the program before it runs, and once it has exited
NoProgram ==
  /\ acts = <<>> /\ eng = IdleEngine /\ ggen = 0
  /\ chan = [c \in Channels |-> <<>>]
  /\ watch = [c \in Channels |-> "recv"] /\ job = "pill"
  /\ pill = NoPill
  /\ ready = FALSE /\ err = FALSE

Init ==
  /\ flags \in {"none", "asked", "known"} /\ debugging \in BOOLEAN
  /\ life = "flags" /\ runs = 0 /\ active = FALSE
  /\ running = TRUE /\ attached = TRUE /\ killing = FALSE
  /\ gen = 0 /\ view = NoView
  /\ mxevent = FALSE /\ evt = NoEvent
  /\ intents = [i \in Intents |-> Ended("new")] /\ call = NoCall
  /\ NoProgram

-----------------------------------------------------------------------------
\* The program has nothing to do: each goroutine waits for another, for the
\* server or for the page.
GoIdle ==
  /\ eng.pc = "recv" => acts = <<>>
  /\ eng.pc # "resume"
  /\ \A c \in Channels : watch[c] = "recv" => chan[c] = <<>>

\* The page runs its next task: the program is idle and has returned, and what
\* was waiting for activeModule has been served.
JSTurn == GoIdle /\ call = NoCall /\ ~(killing /\ active)

\* The program ends: nothing of it is left, and the continuations it held are
\* never called.
Exit ==
  /\ life' = "off" /\ call' = NoCall
  /\ acts' = <<>> /\ eng' = IdleEngine /\ ggen' = 0
  /\ chan' = [c \in Channels |-> <<>>]
  /\ watch' = [c \in Channels |-> "recv"] /\ job' = "pill"
  /\ pill' = NoPill
  /\ ready' = FALSE /\ err' = FALSE
  /\ intents' = [i \in Intents |->
                   IF i = call /\ GoIdle THEN Ended("unanswered")
                   ELSE IF intents[i].st \in {"sent", "run"} THEN Ended("lost")
                   ELSE intents[i]]

-----------------------------------------------------------------------------
(* Feature flags (utils/flags.ts) and the loop of the element.             *)

\* listFlags of a cell that is the first to ask
AskFlags ==
  /\ life = "flags" /\ flags = "none"
  /\ life' = "asking" /\ flags' = "asked"
  /\ UNCHANGED <<debugging, runs, active, running, attached, killing, show, gate, go>>

\* A cell that asks while the first request runs awaits singleflight, a promise
\* whose resolver is never called.
AwaitFlags ==
  /\ life = "flags" /\ flags \in {"asked", "broken"}
  /\ life' = "stuck"
  /\ UNCHANGED <<flags, debugging, runs, active, running, attached, killing, show, gate, go>>

HaveFlags ==
  /\ life = "flags" /\ flags = "known"
  /\ life' = "loading"
  /\ UNCHANGED <<flags, debugging, runs, active, running, attached, killing, show, gate, go>>

FlagsAnswer ==
  /\ flags = "asked"
  /\ \E ok \in BOOLEAN :
       /\ flags' = IF ok THEN "known" ELSE "broken"
       /\ life' = IF life # "asking" THEN life ELSE IF ok THEN "loading" ELSE "stuck"
  /\ UNCHANGED <<debugging, runs, active, running, attached, killing, show, gate, go>>

\* The program starts: its first action draws the root without the rack,
\* WireEngine asks for the data, and activeModule is resolved.  The manifest has
\* a pivot, or not.
Start ==
  /\ life = "loading"
  /\ life' = "on" /\ runs' = runs + 1 /\ active' = TRUE
  /\ ggen' = 1 /\ gen' = gen + 1 /\ view' = <<runs + 1, 1>>
  /\ watch' = [watch EXCEPT !["trans"] = "post"]
  /\ pill' \in {NoPill, [unread |-> TRUE, left |-> MaxRefused]}
  /\ UNCHANGED <<flags, debugging, running, attached, killing, gate, acts, eng, chan,
                 job, ready, err>>

\* The module cannot be compiled or instantiated: loopCell rejects.
LoadFails ==
  /\ life = "loading"
  /\ life' = "broken"
  /\ UNCHANGED <<flags, debugging, runs, active, running, attached, killing, show, gate, go>>

AgainNever ==
  /\ life = "off" /\ active' = FALSE /\ life' = "over"
  /\ UNCHANGED <<flags, debugging, runs, running, attached, killing, show, gate, go>>

\* After each run the promise is new; the loop goes on while this.running.
Again ==
  /\ life = "off"
  /\ active' = FALSE
  /\ life' = IF running /\ runs < MaxRuns THEN "loading" ELSE "over"
  /\ UNCHANGED <<flags, debugging, runs, running, attached, killing, show, gate, go>>

\* A panic in the program, while it works or as it reads an answer
Crash ==
  /\ life = "on"
  /\ ~GoIdle \/ (call = NoCall /\ \E c \in Channels : watch[c] = "post")
  /\ Exit
  /\ UNCHANGED <<flags, debugging, runs, active, running, attached, killing, show,
                 mxevent, evt>>

\* updateGo waits for a continuation while no goroutine can run: the event loop
\* of the page is blocked, and the runtime of Go gives up.
Fatal ==
  /\ life = "on" /\ GoIdle /\ call # NoCall
  /\ Exit
  /\ UNCHANGED <<flags, debugging, runs, active, running, attached, killing, show,
                 mxevent, evt>>

\* mutant of Disconnect: the program is not told to end
DisconnectLeaves ==
  /\ JSTurn /\ attached
  /\ running' = FALSE /\ attached' \in BOOLEAN
  /\ UNCHANGED <<flags, debugging, life, runs, active, killing, show, gate, go>>

\* disconnectedCallback, and connectedCallback at once when the page only moves
\* the element: the new loopCell finds this.running false and returns.
Disconnect ==
  /\ JSTurn /\ attached
  /\ running' = FALSE
  /\ attached' \in BOOLEAN
  /\ IF active /\ life = "on"
       THEN Exit /\ UNCHANGED killing
       ELSE /\ killing' = (killing \/ ~active)
            /\ UNCHANGED <<life, go, intents, call>>
  /\ UNCHANGED <<flags, debugging, runs, active, show, mxevent, evt>>

\* the event Seppuku, once the module is active
Kill ==
  /\ killing /\ active /\ life = "on" /\ GoIdle /\ call = NoCall
  /\ killing' = FALSE
  /\ Exit
  /\ UNCHANGED <<flags, debugging, runs, active, running, attached, show,
                 mxevent, evt>>

-----------------------------------------------------------------------------
(* Events: handleEvent, passEvent and its scheduled task.                  *)

Drop(i) == intents' = [intents EXCEPT ![i] = Ended("lost")]

\* passEvent with an entity of view v: the node must still be found by its
\* identifier, and no other event may be on its way.  The world of the event is
\* complete, or buildJSWorld locates the entity under the mouse first.
PassEvent(i, v, cont, at) ==
  IF v[2] % 2 # view[2] % 2 \/ mxevent
    THEN Drop(i) /\ UNCHANGED <<mxevent, evt>>
    ELSE /\ mxevent' = TRUE
         /\ evt' = [i |-> i, gen |-> gen, world |-> gen, at |-> at]
         /\ intents' = [intents EXCEPT ![i] =
                          [st |-> "passed", cont |-> cont, saw |-> v, on |-> view]]

\* The user can reach the view, and has raised the earlier events.
Reachable(i) ==
  /\ JSTurn /\ attached /\ gen > 0 /\ intents[i].st = "new"
  /\ \A j \in Intents : j < i => intents[j].st # "new"

\* Changes, keys, the wheel and drags go to passEvent at once; a drag that
\* starts waits for its payload in a continuation.
Raise(i) ==
  /\ Reachable(i)
  /\ \E cont \in BOOLEAN : PassEvent(i, view, cont, IF debugging THEN "world" ELSE "module")
  /\ UNCHANGED <<page, show, call, go>>

\* Clicks and drops await locateEntity first, which takes a while only with the
\* visual debugger; a click also waits for a continuation.
Point(i) ==
  /\ Reachable(i)
  /\ \E cont \in BOOLEAN :
       IF debugging
         THEN /\ intents' = [intents EXCEPT ![i] =
                               [st |-> "located", cont |-> cont, saw |-> view, on |-> NoView]]
              /\ UNCHANGED <<mxevent, evt>>
         ELSE PassEvent(i, view, cont, "module")
  /\ UNCHANGED <<page, show, call, go>>

\* locateEntity returns to handleEvent
Located(i) ==
  /\ JSTurn
  /\ intents[i].st = "located"
  /\ PassEvent(i, intents[i].saw, intents[i].cont, "module")
  /\ UNCHANGED <<page, show, call, go>>

\* locateEntity returns to buildJSWorld
WorldBuilt ==
  /\ JSTurn /\ evt.at = "world"
  /\ evt' = [evt EXCEPT !.at = "module", !.world = gen]
  /\ UNCHANGED <<page, show, mxevent, intents, call, go>>

\* mutant of Current: the event is not compared with the view
CurrentOrNot(e) == e.gen <= gen

\* The optimistic lock: the event goes to the program only if the view is still
\* the one of passEvent.
Current(e) == e.gen = gen

\* mutant of Deliver: no finally
DeliverNoFinally ==
  /\ JSTurn /\ evt.at = "module" /\ active
  /\ evt' = NoEvent
  /\ IF Current(evt) /\ life = "on"
       THEN /\ mxevent' = FALSE
            /\ acts' = Append(acts, [k |-> "intent", i |-> evt.i, gen |-> evt.world])
            /\ intents' = [intents EXCEPT ![evt.i].st = "sent"]
            /\ call' = IF intents[evt.i].cont THEN evt.i ELSE NoCall
       ELSE Drop(evt.i) /\ UNCHANGED <<mxevent, acts, call>>
  /\ UNCHANGED <<page, show, eng, ggen, chan, watch, job, pill, ready, err>>

\* activeModule is resolved; updateGo of a program that has exited throws.
Deliver ==
  /\ JSTurn /\ evt.at = "module" /\ active
  /\ mxevent' = FALSE /\ evt' = NoEvent
  /\ IF Current(evt) /\ life = "on"
       THEN /\ acts' = Append(acts, [k |-> "intent", i |-> evt.i, gen |-> evt.world])
            /\ intents' = [intents EXCEPT ![evt.i].st = "sent"]
            /\ call' = IF intents[evt.i].cont THEN evt.i ELSE NoCall
       ELSE Drop(evt.i) /\ UNCHANGED <<acts, call>>
  /\ UNCHANGED <<page, show, eng, ggen, chan, watch, job, pill, ready, err>>

-----------------------------------------------------------------------------
(* The engine (rx/engine.go) and the handlers of the cell.                 *)

\* The rack is drawn with the data.  pivotpill starts a goroutine that asks for
\* a pivot whenever it draws one that has not been read.
Pills(ch, rack, unread) ==
  IF rack /\ unread /\ Len(ch["updates"]) < MaxWaiting
  THEN [ch EXCEPT !["updates"] = Append(@, "pill")]
  ELSE ch

\* turncrank and buildView
DrawView == ggen' = ggen + 1 /\ gen' = gen + 1 /\ view' = <<runs, ggen + 1>>
Draw(ch) == DrawView /\ chan' = Pills(ch, ready /\ ~err, pill.unread)
NoDraw == UNCHANGED <<ggen, gen, view>>

\* ReactToIntent checks the generation again when its action runs.
Stale(a) == a.gen # ggen

\* the handlers an intent can meet: all of them, only Refresh, or none
Meets == IF err THEN {"edit", "nothing"} ELSE IF ready THEN Handlers ELSE {"nothing"}

\* The action is over: its continuation, if it has one, is called, also when
\* nothing was drawn.
Finish(i) ==
  /\ intents' = [intents EXCEPT ![i] = Ended("done")]
  /\ call' = IF call = i THEN NoCall ELSE call

\* An intent of another generation only draws the view again; its call frame is
\* not set, and its continuation is never called.
Ignore ==
  /\ eng.pc = "recv" /\ acts # <<>>
  /\ LET a == Head(acts) IN
       /\ a.k = "intent" /\ Stale(a)
       /\ intents' = [intents EXCEPT ![a.i] = Ended("lost")]
  /\ Draw(chan)
  /\ acts' = Tail(acts)
  /\ UNCHANGED <<page, mxevent, evt, call, eng, watch, job, pill, ready, err>>

\* The handler sends to a watcher, and waits until it is received.
Send(i, c, h) ==
  /\ chan' = [chan EXCEPT ![c] = Append(@, "engine")]
  /\ eng' = [pc |-> "send", chan |-> c, i |-> i, h |-> h]
  /\ intents' = [intents EXCEPT ![i].st = "run"]
  /\ NoDraw /\ UNCHANGED call

Handle ==
  /\ eng.pc = "recv" /\ acts # <<>>
  /\ acts' = Tail(acts)
  /\ Head(acts).k = "intent" /\ ~Stale(Head(acts))
  /\ LET i == Head(acts).i IN
       \E h \in Meets :
         \/ h = "nothing" /\ NoDraw /\ Finish(i) /\ UNCHANGED <<chan, eng>>
         \/ h = "draw" /\ Draw(chan) /\ Finish(i) /\ UNCHANGED eng
         \/ /\ h = "save" /\ Finish(i) /\ UNCHANGED eng
            /\ Draw([chan EXCEPT !["trans"] = Append(@, "goroutine")])
         \/ /\ h = "create" /\ Finish(i) /\ UNCHANGED eng
            /\ Draw([chan EXCEPT !["updates"] = Append(@, "create")])
         \/ h \in {"edit", "apply"} /\ Send(i, "trans", h)
         \/ h \in {"pivot", "place", "root"} /\ Send(i, "updates", h)
  /\ UNCHANGED <<page, mxevent, evt, watch, job, pill, ready, err>>

\* The handler's send was received: it returns, and the view is drawn.
Resume ==
  /\ eng.pc = "resume"
  /\ ready' = (ready /\ eng.h # "apply")
  /\ IF eng.h = "root" THEN NoDraw /\ UNCHANGED chan
     ELSE DrawView /\ chan' = Pills(chan, ready' /\ ~err, pill.unread)
  /\ Finish(eng.i)
  /\ eng' = IdleEngine
  /\ UNCHANGED <<page, mxevent, evt, acts, watch, job, pill, err>>

-----------------------------------------------------------------------------
(* The watchers: watchForManifest and watchForPivots.                      *)

Act(k, c) == [k |-> k, chan |-> c]

\* A goroutine that has stored a pivot for a column shows the placeholder, and
\* sends an action of its own.
Receive(c) ==
  /\ watch[c] = "recv" /\ chan[c] # <<>>
  /\ LET who == Head(chan[c]) IN
       /\ eng' = IF who = "engine" THEN [eng EXCEPT !.pc = "resume"] ELSE eng
       /\ job' = IF c = "trans" THEN job ELSE IF who = "engine" THEN eng.h ELSE who
       /\ ready' = (ready /\ who # "place")
       /\ acts' = IF who = "place" THEN Append(acts, Act("rack", "none")) ELSE acts
  /\ chan' = [chan EXCEPT ![c] = Tail(@)]
  /\ watch' = [watch EXCEPT ![c] = "post"]
  /\ UNCHANGED <<page, show, gate, ggen, pill, err>>

\* The server answers with data, with 204, or with an error; the watcher then
\* waits for the engine to take its action.
Respond(c) ==
  /\ JSTurn /\ watch[c] = "post"
  /\ \E k \in IF c = "trans" THEN {"lioli", "manifest", "error"} ELSE {"insert"} :
       acts' = Append(acts, Act(k, c))
  /\ watch' = [watch EXCEPT ![c] = "send"]
  /\ UNCHANGED <<page, show, gate, eng, ggen, chan, job, pill, ready, err>>

\* A pivot whose JSON cannot be read: the watcher continues, and "done" is not told.
Unread ==
  /\ JSTurn /\ watch["updates"] = "post"
  /\ watch' = [watch EXCEPT !["updates"] = "recv"] /\ job' = "pill"
  /\ UNCHANGED <<page, show, gate, acts, eng, ggen, chan, pill, ready, err>>

\* mutant of After: an error ends the loop
AfterReturn(a, rest) ==
  \/ /\ a.k = "lioli"
     /\ acts' = Append(rest, Act("manifest", "trans")) /\ UNCHANGED watch
  \/ a.k = "manifest" /\ acts' = rest /\ watch' = [watch EXCEPT !["trans"] = "recv"]
  \/ a.k = "error" /\ acts' = rest /\ UNCHANGED watch
  \/ /\ a.k = "insert" /\ acts' = rest
     /\ watch' = [watch EXCEPT !["updates"] = IF job = "root" THEN "stuck" ELSE "recv"]

\* What a watcher does once the engine has taken its action: the manifest
\* follows the data; who asked for a new pivot opens it; nobody waits for one
\* that was dropped on the root, and the watcher never gets past that.
After(a, rest) ==
  \/ /\ a.k = "lioli"
     /\ acts' = Append(rest, Act("manifest", "trans")) /\ UNCHANGED watch
  \/ /\ a.k \in {"manifest", "error"}
     /\ acts' = rest /\ watch' = [watch EXCEPT !["trans"] = "recv"]
  \/ /\ a.k = "insert"
     /\ acts' = IF job = "create" THEN Append(rest, Act("rack", "none")) ELSE rest
     /\ watch' = [watch EXCEPT !["updates"] = IF job = "root" THEN "stuck" ELSE "recv"]
  \/ a.k = "rack" /\ acts' = rest /\ UNCHANGED watch

\* A stored pivot is applied by a goroutine.
Applied(a) ==
  IF a.k = "insert" /\ job \in {"pivot", "place"}
  THEN [chan EXCEPT !["trans"] = Append(@, IF job = "place" THEN "place" ELSE "goroutine")]
  ELSE chan

\* The pivot of the manifest has been read, or refused: it is then drawn, and
\* asked for, again.
Read(a) ==
  IF a.k = "insert" /\ job = "pill"
  THEN {NoPill} \cup
       IF pill.left > 0 THEN {[unread |-> TRUE, left |-> pill.left - 1]} ELSE {}
  ELSE {pill}

\* updateLioLi, updateManifest, withErr, insertpivot, and the actions of the
\* goroutines that edit and place pivots
Update ==
  /\ eng.pc = "recv" /\ acts # <<>>
  /\ LET a == Head(acts) IN
       /\ a.k # "intent"
       /\ After(a, Tail(acts))
       /\ pill' \in Read(a) /\ job' = IF a.k = "insert" THEN "pill" ELSE job
       /\ ready' = (ready \/ a.k = "manifest")
       /\ err' = (err \/ a.k = "error")
       /\ DrawView /\ chan' = Pills(Applied(a), ready' /\ ~err', pill'.unread)
  /\ UNCHANGED <<page, gate, eng>>

-----------------------------------------------------------------------------
GoStep == Ignore \/ Handle \/ Resume \/ Update \/ \E c \in Channels : Receive(c)
Loop == AskFlags \/ AwaitFlags \/ HaveFlags \/ FlagsAnswer \/ Start \/ Again \/ Kill \/ Fatal
Serve == Unread \/ \E c \in Channels : Respond(c)
Task == WorldBuilt \/ Deliver \/ \E i \in Intents : Located(i)

Next ==
  \/ GoStep \/ Loop \/ Serve \/ Task
  \/ LoadFails \/ Crash \/ Disconnect
  \/ \E i \in Intents : Raise(i) \/ Point(i)

Spec == Init /\ [][Next]_vars

\* The goroutines that can run do, the tasks of the page run, and the server
\* answers.  Users, crashes and failed downloads are not fair.
Fairness == WF_vars(GoStep) /\ WF_vars(Loop) /\ WF_vars(Serve) /\ WF_vars(Task)

FairSpec == Spec /\ Fairness

-----------------------------------------------------------------------------
(* Properties.                                                             *)

Views == (0..MaxRuns) \X Nat

\* what the engine's goroutine takes from Engine.Actions
Actions ==
  [k : {"intent"}, i : Intents, gen : Nat]
    \cup [k : {"lioli", "manifest", "error", "insert"}, chan : Channels]
    \cup [k : {"rack"}, chan : {"none"}]

PageOK ==
  /\ flags \in {"none", "asked", "known", "broken"} /\ debugging \in BOOLEAN
  /\ life \in {"flags", "asking", "stuck", "loading", "on", "off", "broken", "over"}
  /\ runs \in 0..MaxRuns
  /\ active \in BOOLEAN /\ running \in BOOLEAN
  /\ attached \in BOOLEAN /\ killing \in BOOLEAN

ShowOK == gen \in Nat /\ view \in Views

GateOK ==
  /\ mxevent \in BOOLEAN
  /\ evt = NoEvent \/ evt \in [i : Intents, gen : Nat, world : Nat, at : {"world", "module"}]
  /\ intents \in [Intents ->
       [st : {"new", "located", "passed", "sent", "run", "done", "lost", "unanswered"},
        cont : BOOLEAN, saw : Views, on : Views]]
  /\ call \in Intents \cup {NoCall}

GoOK ==
  /\ acts \in Seq(Actions) /\ ggen \in Nat
  /\ eng \in {IdleEngine}
       \cup [pc : {"send", "resume"}, chan : Channels, i : Intents, h : Handlers]
  /\ chan \in [Channels -> Seq(Senders)]
  /\ watch \in [Channels -> {"recv", "post", "send", "stuck"}]
  /\ job \in Handlers \cup Senders
  /\ pill \in [unread : BOOLEAN, left : 0..MaxRefused]
  /\ ready \in BOOLEAN /\ err \in BOOLEAN

\* Type invariant of the page and of the program.
TypeOK == PageOK /\ ShowOK /\ GateOK /\ GoOK

\* In this step a handler starts for intent i.
Handled(i) == intents[i].st = "sent" /\ intents'[i].st \in {"run", "done"}

\* "An event is only processed if from the current gen" (datacell.ts:43): a
\* handler only runs on the very view of passEvent, whatever was drawn, restarted
\* or awaited since; and, except with the visual debugger, on the view that the
\* user saw. With it a click or a drop awaits its location before passEvent, and
\* a later view may take it, against datacell.ts:45.
HandledOnItsView ==
  [][\A i \in Intents : Handled(i) =>
       /\ intents[i].on = <<runs, ggen>>
       /\ debugging \/ intents[i].saw = <<runs, ggen>>]_vars

\* A cell that has left its place in the page handles no more events: the
\* program of a removed cell ends before any other task (datacell.ts:118).
RemovedIsQuiet == [][~running => \A i \in Intents : ~Handled(i)]_vars

\* The gate of passEvent opens again (the finally of datacell.ts:618): one event
\* that is never delivered would make the cell deaf.  After the last run of the
\* program nothing resolves activeModule any more.
GateReopens == mxevent ~> (~mxevent \/ life \in {"over", "broken"})

\* A cell in place gets its program, and gets it again after a crash
\* (datacell.ts:165), unless its flags never come (flags.ts:6) or the module
\* does not load.
ComesBack ==
  (running /\ runs < MaxRuns) ~> (life \in {"on", "stuck", "broken"} \/ ~running)

\* The engine waits for a watcher whose own action waits for the engine.
Crossed ==
  /\ eng.pc = "send"
  /\ \E n \in DOMAIN acts : acts[n].k # "intent" /\ acts[n].chan = eng.chan

\* A pivot was dropped on the root, and the watcher still waits for somebody to
\* receive it: no handler that sends a pivot ever returns (pivots.go:485).
Abandoned == eng.pc = "send" /\ watch[eng.chan] = "stuck"

\* An intent the program was given is done with, lost with its program, or
\* behind a handler that waits for a watcher, which waits for the engine or for
\* nobody: nothing else in the exchanges between engine and watchers can block.
Given(i) == intents[i].st \in {"sent", "run"}
IntentsEnd == \A i \in Intents : Given(i) ~> (~Given(i) \/ Crossed \/ Abandoned)

\* "We make sure that the continuation happens after the view is updated.  This
\* is also happening even if no rendering happens" (engine.go:64-66).
ContinuationHappens == \A i \in Intents : intents[i].st # "unanswered"
=============================================================================
