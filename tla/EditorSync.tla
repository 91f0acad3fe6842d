----------------------------- MODULE EditorSync -----------------------------
(***************************************************************************)
(* The text editor of a notebook (wt-editor): how what is typed gets from  *)
(* the pages that show the notebook to the one stored text.                *)
(*                                                                         *)
(* A text is the set of the edits it contains.  doSave is debounced: the   *)
(* call that starts the timer also closes the door for Timeout ticks, and  *)
(* the timer sends the text as it is when it fires.  Timers may be late,   *)
(* saves may overtake each other, and nobody looks at their answers.       *)
(***************************************************************************)
EXTENDS Naturals, FiniteSets

CONSTANTS
  Tabs,     \* the pages that show the notebook
  Timeout,  \* the ticks of a debounced save
  MaxEvents \* bound on the edits and blurs

ASSUME TimeoutAssumption == Timeout \in Nat \ {0}

VARIABLES
  stored, \* the text in the database
  mode,   \* each page: loading, answered, dummy, on or closed
  got,    \* the answer to its request, until it has arrived
  doc,    \* its text, edstate.doc
  sync,   \* needSync: the icon is shown
  age,    \* ticks since lastcall, at most Timeout + 1, which also stands for never
  timers, \* how many timers were started so many ticks ago
  posts,  \* the saves under way
  sent,   \* the text of the last save (history)
  count,  \* how many saves were sent (history)
  events, \* how many edits and blurs there were (history)
  missed, \* age of the call that found the door closed and no timer (history)
  behind  \* pages whose text need not be the stored one: see Agrees (history)

tab == <<mode, got, doc, sync, age, timers, sent, count, missed>>
vars == <<stored, tab, posts, events, behind>>

\* a stored text the editor cannot read
Unreadable == {0}
Empty == {}
Never == Timeout + 1
Ages == 0..Never
NoTimers == [a \in Ages |-> 0]
NotMissed == Never + 1

Pending(t) == timers[t] # NoTimers

Init ==
  /\ stored \in {Empty, Unreadable}
  /\ mode = [t \in Tabs |-> "loading"]
  /\ got = [t \in Tabs |-> Empty]
  /\ doc = [t \in Tabs |-> Empty]
  /\ sync = [t \in Tabs |-> FALSE]
  /\ age = [t \in Tabs |-> Never]
  /\ timers = [t \in Tabs |-> NoTimers]
  /\ posts = {}
  /\ sent = [t \in Tabs |-> Empty] /\ count = [t \in Tabs |-> 0]
  /\ events = 0
  /\ missed = [t \in Tabs |-> NotMissed]
  /\ behind = {}

-----------------------------------------------------------------------------
\* The page gets text x.
Show(t, x) ==
  /\ mode' = [mode EXCEPT ![t] = "on"]
  /\ doc' = [doc EXCEPT ![t] = x]
  /\ sent' = [sent EXCEPT ![t] = x]

\* EditorAPI, read: the answer has the text as it is stored now.
Read(t) ==
  /\ mode[t] = "loading"
  /\ mode' = [mode EXCEPT ![t] = "answered"]
  /\ got' = [got EXCEPT ![t] = stored]
  /\ behind' = behind \ {t}
  /\ UNCHANGED <<stored, doc, sync, age, timers, posts, sent, count, events, missed>>

\* mutant of Load: the editor is not given the text
LoadNothing(t) ==
  /\ mode[t] = "answered" /\ got[t] # Unreadable
  /\ Show(t, Empty)
  /\ UNCHANGED <<stored, got, sync, age, timers, posts, count, events, missed, behind>>

\* readDistant, the answer is a text, or says there is none
Load(t) ==
  /\ mode[t] = "answered" /\ got[t] # Unreadable
  /\ Show(t, got[t])
  /\ UNCHANGED <<stored, got, sync, age, timers, posts, count, events, missed, behind>>

\* readDistant, the text cannot be read, or its transfer breaks off: the editor
\* starts with an empty one
LoadUnreadable(t) ==
  /\ mode[t] = "answered" /\ got[t] # Empty
  /\ Show(t, Empty)
  /\ behind' = behind \cup {t}
  /\ UNCHANGED <<stored, got, sync, age, timers, posts, count, events, missed>>

\* readDistant, no answer or an error: the view stays the dummy one.  It was made
\* not editable ("we keep the initial dummy view, that is not editable"), but
\* ProseMirror computes that anew when it is first drawn (getEditable), so it takes
\* what is typed, and loses it when it is drawn again.  Nothing is ever saved.
LoadFails(t) ==
  /\ mode[t] \in {"loading", "answered"}
  /\ mode' = [mode EXCEPT ![t] = "dummy"]
  /\ UNCHANGED <<stored, got, doc, sync, age, timers, posts, sent, count, events, missed,
                 behind>>

-----------------------------------------------------------------------------
\* mutant of Open: the door stays closed for one more tick
OpenLate(t) == age[t] > Timeout + 1

\* debounce: lastcall + timeoutMS < performance.now(), or never called
Open(t) == age[t] > Timeout

\* doSave
Call(t) ==
  IF Open(t)
  THEN /\ age' = [age EXCEPT ![t] = 0]
       /\ timers' = [timers EXCEPT ![t][0] = @ + 1]
       /\ missed' = [missed EXCEPT ![t] = NotMissed]
  ELSE /\ missed' = [missed EXCEPT ![t] = IF Pending(t) THEN @ ELSE age[t]]
       /\ UNCHANGED <<age, timers>>

\* dispatchTransaction: typing, commands, pills that are refreshed
Edit(t) ==
  /\ mode[t] = "on" /\ events < MaxEvents
  /\ doc' = [doc EXCEPT ![t] = @ \cup {events + 1}]
  /\ sync' = [sync EXCEPT ![t] = TRUE]
  /\ Call(t)
  /\ events' = events + 1
  /\ UNCHANGED <<stored, mode, got, posts, sent, count, behind>>

\* handleBlur
Blur(t) ==
  /\ mode[t] = "on" /\ events < MaxEvents
  /\ sync' = [sync EXCEPT ![t] = TRUE]
  /\ Call(t)
  /\ events' = events + 1
  /\ UNCHANGED <<stored, mode, got, doc, posts, sent, count, behind>>

\* A timer fires, on time or late: saveDistant sends the text, and nobody waits.
Fire(t) ==
  /\ \E a \in Timeout..Never :
       /\ timers[t][a] > 0
       /\ timers' = [timers EXCEPT ![t][a] = @ - 1]
  /\ count' = [count EXCEPT ![t] = @ + 1]
  /\ sent' = [sent EXCEPT ![t] = doc[t]]
  /\ posts' = posts \cup {[tab |-> t, doc |-> doc[t], n |-> count[t] + 1]}
  /\ sync' = [sync EXCEPT ![t] = FALSE]
  /\ UNCHANGED <<stored, mode, got, doc, age, events, missed, behind>>

\* the time of a page goes on
Tick(t) ==
  /\ mode[t] = "on" /\ (age[t] < Never \/ Pending(t))
  /\ age' = [age EXCEPT ![t] = IF @ < Never THEN @ + 1 ELSE @]
  /\ timers' = [timers EXCEPT ![t] =
       [a \in Ages |-> (IF a > 0 THEN @[a - 1] ELSE 0) + (IF a = Never THEN @[a] ELSE 0)]]
  /\ UNCHANGED <<stored, mode, got, doc, sync, posts, sent, count, events, missed, behind>>

\* The page is left: what no timer has sent is gone.
Close(t) ==
  /\ mode[t] # "closed"
  /\ mode' = [mode EXCEPT ![t] = "closed"]
  /\ timers' = [timers EXCEPT ![t] = NoTimers]
  /\ UNCHANGED <<stored, got, doc, sync, age, posts, sent, count, events, missed, behind>>

-----------------------------------------------------------------------------
\* EditorAPI, save: the text is replaced
Store(r) ==
  /\ r \in posts
  /\ posts' = posts \ {r}
  /\ stored' = r.doc
  /\ behind' = IF r.n = count[r.tab] THEN Tabs \ {r.tab} ELSE Tabs
  /\ UNCHANGED <<tab, events>>

\* The transfer of the save breaks off: what has arrived is stored.
StoreCut(r) ==
  /\ r \in posts
  /\ posts' = posts \ {r}
  /\ stored' = Unreadable
  /\ behind' = Tabs
  /\ UNCHANGED <<tab, events>>

\* The save is lost or refused.
Refuse(r) ==
  /\ r \in posts
  /\ posts' = posts \ {r}
  /\ behind' = behind \cup {r.tab}
  /\ UNCHANGED <<stored, tab, events>>

Next ==
  \/ \E t \in Tabs : \/ Read(t) \/ Load(t) \/ LoadUnreadable(t) \/ LoadFails(t)
                     \/ Edit(t) \/ Blur(t) \/ Fire(t) \/ Tick(t) \/ Close(t)
  \/ \E r \in posts : Store(r) \/ StoreCut(r) \/ Refuse(r)

Spec == Init /\ [][Next]_vars

-----------------------------------------------------------------------------
(* Properties.                                                             *)

\* "Saving is debounced, it is safe to call this function rapidly"
\* (components.js:18698): an edit that was not sent yet is shown as such, and a
\* timer will send it.  Only the edit that comes in the very tick in which the
\* timer has fired gets none: it waits for the next edit or blur.
UnsentHasATimer ==
  \A t \in Tabs : mode[t] = "on" /\ doc[t] # sent[t] =>
    sync[t] /\ (Pending(t) \/ missed[t] = Timeout)

Quiet(t) == doc[t] = sent[t] /\ ~Pending(t) /\ \A r \in posts : r.tab # t

\* A page that has just loaded its text, or has sent all of it and has no save
\* under way, shows the stored one; unless another page has saved since, while
\* the text was on its way or later, an older save of its own came last, its last
\* save failed or was stored in part, or it could not read the text.  A page
\* whose editor got no answer is not among them: what it shows is never stored.
Agrees == \A t \in Tabs \ behind : mode[t] = "on" /\ Quiet(t) => doc[t] = stored
=============================================================================
