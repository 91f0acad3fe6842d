--------------------------- MODULE Browser_proofs ---------------------------
(***************************************************************************)
(* Proofs about what runs in a browser (MCBrowser): the text editor, for   *)
(* any pages, debounce time and number of events, the search panel, for    *)
(* any queries and any number of keystrokes, the notifications, for any    *)
(* pages, and any bounds on the channel and on what the user does, and the *)
(* drawing of a cell, for views of any size and any number of turns.       *)
(***************************************************************************)
EXTENDS MCBrowser, SequenceTheorems, FiniteSetTheorems, FunctionTheorems,
  WellFoundedInduction, TLAPS

-----------------------------------------------------------------------------
(* What was typed and not sent.                                            *)

Types ==
  /\ mode \in [Tabs -> {"loading", "answered", "dummy", "on", "closed"}]
  /\ DOMAIN got = Tabs
  /\ DOMAIN doc = Tabs /\ DOMAIN sent = Tabs /\ DOMAIN sync = Tabs
  /\ age \in [Tabs -> Ages]
  /\ timers \in [Tabs -> [Ages -> Nat]]
  /\ DOMAIN missed = Tabs

\* While the door is closed, the timer that its call has started is as old as that
\* call; it cannot have fired before the last tick.
DoorHasATimer(t) == mode[t] # "closed" /\ age[t] < Timeout => timers[t][age[t]] > 0

\* What is not sent is shown, and has a timer, or found the door still closed and
\* the timer gone.
UnsentIsPending(t) ==
  mode[t] = "on" /\ doc[t] # sent[t] => sync[t] /\ (Pending(t) \/ missed[t] = Timeout)

EditorInv == Types /\ \A t \in Tabs : DoorHasATimer(t) /\ UnsentIsPending(t)

-----------------------------------------------------------------------------
LEMMA Numbers ==
  /\ Timeout \in Nat \ {0} /\ Never = Timeout + 1 /\ Never \in Nat
  /\ Timeout \in Ages /\ Never \in Ages /\ 0 \in Ages
  /\ \A a \in Ages : a \in Nat /\ a <= Never
BY TimeoutAssumption DEF Ages, Never

\* A timer is pending when one of some age is.
LEMMA PendingHasAge ==
  ASSUME NEW t \in Tabs, timers[t] \in [Ages -> Nat]
  PROVE  Pending(t) <=> \E a \in Ages : timers[t][a] > 0
<1>1. NoTimers \in [Ages -> Nat] /\ \A a \in Ages : NoTimers[a] = 0
  BY DEF NoTimers
<1>2. timers[t] = NoTimers <=> \A a \in Ages : timers[t][a] = 0
  BY <1>1 DEF NoTimers
<1>3. \A a \in Ages : timers[t][a] \in Nat  OBVIOUS
<1> QED  BY <1>2, <1>3 DEF Pending

\* A call of doSave that finds no timer comes in the last tick of the closed door.
LEMMA NoTimerIsLast ==
  ASSUME EditorInv, NEW t \in Tabs, mode[t] = "on", ~Open(t), ~Pending(t)
  PROVE  age[t] = Timeout
<1>1. age[t] \in Ages /\ timers[t] \in [Ages -> Nat]  BY DEF EditorInv, Types
<1>2. ~(age[t] < Timeout)  BY <1>1, PendingHasAge DEF EditorInv, DoorHasATimer
<1>3. age[t] \in Nat /\ ~(age[t] > Timeout)  BY <1>1, Numbers DEF Open
<1> QED  BY <1>2, <1>3, Numbers

LEMMA EditorInit == Init => EditorInv
<1> SUFFICES ASSUME Init PROVE EditorInv  OBVIOUS
<1>1. Types  BY Numbers DEF Init, Types, NoTimers
<1>2. ASSUME NEW t \in Tabs  PROVE DoorHasATimer(t) /\ UnsentIsPending(t)
  BY Numbers DEF Init, DoorHasATimer, UnsentIsPending
<1> QED  BY <1>1, <1>2 DEF EditorInv

-----------------------------------------------------------------------------
\* A page that nothing happens to keeps its part of the invariant.
LEMMA Rest ==
  ASSUME EditorInv, NEW t \in Tabs,
         mode'[t] = mode[t], doc'[t] = doc[t], sync'[t] = sync[t], age'[t] = age[t],
         timers'[t] = timers[t], sent'[t] = sent[t], missed'[t] = missed[t]
  PROVE  DoorHasATimer(t)' /\ UnsentIsPending(t)'
BY DEF EditorInv, DoorHasATimer, UnsentIsPending, Pending

\* Loading, with or without success, starts no timer and leaves nothing unsent.
LEMMA LoadInv ==
  ASSUME EditorInv, NEW t \in Tabs,
         Read(t) \/ Load(t) \/ LoadUnreadable(t) \/ LoadFails(t)
  PROVE  EditorInv'
<1>1. /\ mode[t] \in {"loading", "answered"} /\ DOMAIN got' = DOMAIN got
      /\ UNCHANGED <<sync, age, timers, missed>>
      /\ \/ /\ UNCHANGED <<doc, sent>>
            /\ \E m \in {"answered", "dummy"} : mode' = [mode EXCEPT ![t] = m]
         \/ \E x : Show(t, x)
  BY DEF Read, Load, LoadUnreadable, LoadFails
<1>2. Types'  BY <1>1 DEF EditorInv, Types, Show
<1>3. ASSUME NEW u \in Tabs  PROVE DoorHasATimer(u)' /\ UnsentIsPending(u)'
  <2>1. CASE u = t
    <3>1. DoorHasATimer(t)'  BY <1>1, <1>2 DEF EditorInv, DoorHasATimer
    <3>2. mode'[t] = "on" => doc'[t] = sent'[t]  BY <1>1 DEF EditorInv, Types, Show
    <3> QED  BY <2>1, <3>1, <3>2 DEF UnsentIsPending
  <2>2. CASE u # t
    <3>1. /\ mode'[u] = mode[u] /\ doc'[u] = doc[u] /\ sent'[u] = sent[u]
      BY <1>1, <2>2 DEF EditorInv, Types, Show
    <3> QED  BY <1>1, <3>1, Rest
  <2> QED  BY <2>1, <2>2
<1> QED  BY <1>2, <1>3 DEF EditorInv

\* doSave after an edit or a blur: the door is closed by a new timer, or was
\* closed, and then there is a timer or it is the last tick.
LEMMA CallInv ==
  ASSUME EditorInv, NEW t \in Tabs, mode[t] = "on", Call(t),
         sync' = [sync EXCEPT ![t] = TRUE],
         DOMAIN doc' = Tabs, \A u \in Tabs \ {t} : doc'[u] = doc[u],
         UNCHANGED <<mode, got, sent>>
  PROVE  EditorInv'
<1>1. Types'
  <2>1. CASE Open(t)
    <3>1. age' \in [Tabs -> Ages]  BY <2>1, Numbers DEF EditorInv, Types, Call
    <3>2. timers[t][0] + 1 \in Nat  BY Numbers DEF EditorInv, Types
    <3>3. timers' \in [Tabs -> [Ages -> Nat]]
      <4> DEFINE started == [timers[t] EXCEPT ![0] = timers[t][0] + 1]
      <4>1. timers \in [Tabs -> [Ages -> Nat]]  BY DEF EditorInv, Types
      <4>2. started \in [Ages -> Nat]  BY <3>2, <4>1
      <4>3. timers' = [timers EXCEPT ![t] = started]  BY <2>1 DEF Call
      <4> HIDE DEF started
      <4> QED  BY <4>1, <4>2, <4>3
    <3>4. DOMAIN missed' = Tabs  BY <2>1 DEF EditorInv, Types, Call
    <3>5. mode' = mode /\ got' = got /\ sent' = sent /\ DOMAIN sync' = Tabs  BY DEF EditorInv, Types
    <3>6. Types  BY DEF EditorInv
    <3> QED  BY <3>1, <3>3, <3>4, <3>5, <3>6 DEF Types
  <2>2. CASE ~Open(t)
    BY <2>2 DEF EditorInv, Types, Call
  <2> QED  BY <2>1, <2>2
<1>2. DoorHasATimer(t)' /\ UnsentIsPending(t)'
  <2>0. timers[t] \in [Ages -> Nat] /\ timers'[t] \in [Ages -> Nat] /\ sync'[t]
    BY <1>1 DEF EditorInv, Types
  <2>1. CASE Open(t)
    <3>1. age'[t] = 0 /\ timers'[t][0] = timers[t][0] + 1
      BY <2>1, Numbers DEF EditorInv, Types, Call
    <3>2. timers'[t][0] > 0  BY <2>0, <3>1, Numbers
    <3>3. \E a \in Ages : timers'[t][a] > 0  BY <3>2, Numbers
    <3>4. timers'[t] # NoTimers  BY <3>2, Numbers DEF NoTimers
    <3> QED  BY <2>0, <3>1, <3>2, <3>4 DEF DoorHasATimer, UnsentIsPending, Pending
  <2>2. CASE ~Open(t)
    <3>1. UNCHANGED <<age, timers>>  BY <2>2 DEF Call
    <3>2. ~Pending(t) => missed'[t] = Timeout
      BY <2>2, NoTimerIsLast DEF EditorInv, Types, Call
    <3>3. DoorHasATimer(t)'  BY <3>1 DEF EditorInv, DoorHasATimer
    <3>4. UnsentIsPending(t)'  BY <2>0, <3>1, <3>2 DEF UnsentIsPending, Pending
    <3> QED  BY <3>3, <3>4
  <2> QED  BY <2>1, <2>2
<1>3. ASSUME NEW u \in Tabs \ {t}  PROVE DoorHasATimer(u)' /\ UnsentIsPending(u)'
  <2>1. /\ age'[u] = age[u] /\ timers'[u] = timers[u] /\ missed'[u] = missed[u]
        /\ sync'[u] = sync[u]
    BY DEF Call, EditorInv, Types
  <2> QED  BY <2>1, Rest
<1> QED  BY <1>1, <1>2, <1>3 DEF EditorInv

\* A timer that fires is not the one of a door that is still closed.
LEMMA FireInv ==
  ASSUME EditorInv, NEW t \in Tabs, Fire(t)
  PROVE  EditorInv'
<1>1. PICK a \in Timeout..Never :
        timers[t][a] > 0 /\ timers' = [timers EXCEPT ![t][a] = @ - 1]
  BY DEF Fire
<1>2. a \in Ages /\ a >= Timeout /\ timers[t][a] - 1 \in Nat
  BY <1>1, Numbers DEF EditorInv, Types, Ages
<1>3. Types'
  <2>1. timers' \in [Tabs -> [Ages -> Nat]]  BY <1>1, <1>2 DEF EditorInv, Types
  <2> QED  BY <2>1 DEF Fire, EditorInv, Types
<1>4. DoorHasATimer(t)'
  <2>1. age[t] < Timeout => timers'[t][age[t]] = timers[t][age[t]]
    BY <1>1, <1>2, Numbers DEF EditorInv, Types
  <2> QED  BY <2>1 DEF Fire, EditorInv, DoorHasATimer
<1>5. UnsentIsPending(t)'
  BY DEF Fire, EditorInv, Types, UnsentIsPending
<1>6. ASSUME NEW u \in Tabs \ {t}  PROVE DoorHasATimer(u)' /\ UnsentIsPending(u)'
  <2>1. timers'[u] = timers[u] /\ sync'[u] = sync[u] /\ sent'[u] = sent[u]
    BY <1>1 DEF Fire, EditorInv, Types
  <2> QED  BY <2>1, Rest DEF Fire
<1> QED  BY <1>3, <1>4, <1>5, <1>6 DEF EditorInv

\* A tick makes the timers and the call older alike.
LEMMA TickInv ==
  ASSUME EditorInv, NEW t \in Tabs, Tick(t)
  PROVE  EditorInv'
<1> DEFINE Older(a) == (IF a > 0 THEN timers[t][a - 1] ELSE 0)
                       + (IF a = Never THEN timers[t][a] ELSE 0)
<1>1. timers[t] \in [Ages -> Nat] /\ age[t] \in Ages  BY DEF EditorInv, Types
<1>2. timers' = [timers EXCEPT ![t] = [a \in Ages |-> Older(a)]]  BY DEF Tick
<1>3. \A a \in Ages : a > 0 => a - 1 \in Ages  BY Numbers DEF Ages
<1>4. \A a \in Ages : Older(a) \in Nat
  <2> SUFFICES ASSUME NEW a \in Ages  PROVE Older(a) \in Nat  OBVIOUS
  <2>1. timers[t][a] \in Nat  BY <1>1
  <2>2. a > 0 => timers[t][a - 1] \in Nat  BY <1>1, <1>3
  <2>3. (IF a > 0 THEN timers[t][a - 1] ELSE 0) \in Nat  BY <2>2
  <2>4. (IF a = Never THEN timers[t][a] ELSE 0) \in Nat  BY <2>1
  <2> QED  BY <2>3, <2>4
<1>5. timers'[t] = [a \in Ages |-> Older(a)]  BY <1>2 DEF EditorInv, Types
<1>6. age'[t] = IF age[t] < Never THEN age[t] + 1 ELSE age[t]
  BY DEF Tick, EditorInv, Types
<1>7. age'[t] \in Ages  BY <1>1, <1>6, Numbers DEF Ages
<1>8. Types'
  <2>1. timers' \in [Tabs -> [Ages -> Nat]]  BY <1>2, <1>4 DEF EditorInv, Types
  <2>2. age' \in [Tabs -> Ages]  BY <1>6, <1>7 DEF Tick, EditorInv, Types
  <2> QED  BY <2>1, <2>2 DEF Tick, EditorInv, Types
<1>9. DoorHasATimer(t)'
  <2> SUFFICES ASSUME age'[t] < Timeout, mode[t] # "closed"  PROVE timers'[t][age'[t]] > 0
    BY DEF Tick, DoorHasATimer
  <2>0. age[t] \in Nat /\ age[t] <= Never /\ Never = Timeout + 1 /\ Timeout \in Nat
    BY <1>1, Numbers
  <2>1. age[t] < Timeout /\ age'[t] = age[t] + 1 /\ age'[t] # Never
    BY <1>6, <2>0
  <2>2. timers[t][age[t]] > 0  BY <2>1 DEF EditorInv, DoorHasATimer
  <2>3. timers'[t][age'[t]] = Older(age'[t])  BY <1>5, <1>7
  <2>4. Older(age'[t]) = timers[t][age[t]] + 0  BY <2>0, <2>1
  <2>5. timers[t][age[t]] \in Nat  BY <1>1
  <2> QED  BY <2>2, <2>3, <2>4, <2>5
<1>10. Pending(t) => Pending(t)'
  <2> SUFFICES ASSUME Pending(t)  PROVE Pending(t)'  OBVIOUS
  <2>1. PICK a \in Ages : timers[t][a] > 0  BY <1>1, PendingHasAge
  <2>2. PICK b \in Ages : Older(b) > 0
    <3>1. CASE a = Never
      <4>1. Older(a) = timers[t][a - 1] + timers[t][a]  BY <3>1, Numbers
      <4>2. timers[t][a - 1] \in Nat /\ timers[t][a] \in Nat  BY <1>1, <1>3, <3>1, Numbers
      <4>3. Older(a) > 0  BY <2>1, <4>1, <4>2
      <4> QED  BY <4>3
    <3>2. CASE a # Never
      <4>1. a + 1 \in Ages /\ a + 1 > 0 /\ (a + 1) - 1 = a  BY <3>2, Numbers DEF Ages
      <4>2. \/ Older(a + 1) = timers[t][a] + 0
            \/ Older(a + 1) = timers[t][a] + timers[t][a + 1]
        BY <4>1
      <4>3. timers[t][a] \in Nat /\ timers[t][a + 1] \in Nat  BY <1>1, <4>1
      <4>4. Older(a + 1) > 0  BY <2>1, <4>2, <4>3
      <4> QED  BY <4>1, <4>4
    <3> QED  BY <3>1, <3>2
  <2>3. timers'[t][b] > 0  BY <1>5, <2>2
  <2>4. timers'[t] # NoTimers  BY <2>3, Numbers DEF NoTimers
  <2> QED  BY <2>4 DEF Pending
<1>11. UnsentIsPending(t)'  BY <1>10 DEF Tick, EditorInv, UnsentIsPending
<1>12. ASSUME NEW u \in Tabs \ {t}  PROVE DoorHasATimer(u)' /\ UnsentIsPending(u)'
  <2>1. age'[u] = age[u] /\ timers'[u] = timers[u]  BY <1>2 DEF Tick, EditorInv, Types
  <2> QED  BY <2>1, Rest DEF Tick
<1> QED  BY <1>8, <1>9, <1>11, <1>12 DEF EditorInv

\* A closed page has nothing left to send.
LEMMA CloseInv ==
  ASSUME EditorInv, NEW t \in Tabs, Close(t)
  PROVE  EditorInv'
<1>1. NoTimers \in [Ages -> Nat]  BY DEF NoTimers
<1>2. Types'  BY <1>1 DEF Close, EditorInv, Types
<1>3. mode'[t] = "closed"  BY DEF Close, EditorInv, Types
<1>4. ASSUME NEW u \in Tabs \ {t}  PROVE DoorHasATimer(u)' /\ UnsentIsPending(u)'
  <2>1. mode'[u] = mode[u] /\ timers'[u] = timers[u]  BY DEF Close, EditorInv, Types
  <2> QED  BY <2>1, Rest DEF Close
<1>5. DoorHasATimer(t)' /\ UnsentIsPending(t)'
  BY <1>3 DEF DoorHasATimer, UnsentIsPending
<1> QED  BY <1>2, <1>4, <1>5 DEF EditorInv

\* The server and the network do not touch the pages.
LEMMA QuietInv ==
  ASSUME EditorInv, UNCHANGED tab
  PROVE  EditorInv'
<1>1. Types'  BY DEF EditorInv, Types, tab
<1>2. ASSUME NEW u \in Tabs  PROVE DoorHasATimer(u)' /\ UnsentIsPending(u)'
  BY Rest DEF tab
<1> QED  BY <1>1, <1>2 DEF EditorInv

LEMMA EditorNext ==
  ASSUME EditorInv, [Next]_vars
  PROVE  EditorInv'
<1>1. ASSUME NEW t \in Tabs, Read(t) \/ Load(t) \/ LoadUnreadable(t) \/ LoadFails(t)
      PROVE  EditorInv'
  BY <1>1, LoadInv
<1>2. ASSUME NEW t \in Tabs, Edit(t)  PROVE EditorInv'
  <2>1. DOMAIN doc' = Tabs /\ \A u \in Tabs \ {t} : doc'[u] = doc[u]
    BY <1>2 DEF Edit, EditorInv, Types
  <2> QED  BY <1>2, <2>1, CallInv DEF Edit
<1>3. ASSUME NEW t \in Tabs, Blur(t)  PROVE EditorInv'
  <2>1. DOMAIN doc' = Tabs /\ \A u \in Tabs \ {t} : doc'[u] = doc[u]
    BY <1>3 DEF Blur, EditorInv, Types
  <2> QED  BY <1>3, <2>1, CallInv DEF Blur
<1>4. ASSUME NEW t \in Tabs, Fire(t)  PROVE EditorInv'  BY <1>4, FireInv
<1>5. ASSUME NEW t \in Tabs, Tick(t)  PROVE EditorInv'  BY <1>5, TickInv
<1>6. ASSUME NEW t \in Tabs, Close(t)  PROVE EditorInv'  BY <1>6, CloseInv
<1>7. ASSUME NEW r \in posts, Store(r) \/ StoreCut(r) \/ Refuse(r)  PROVE EditorInv'
  BY <1>7, QuietInv DEF Store, StoreCut, Refuse
<1>8. CASE UNCHANGED vars  BY <1>8, QuietInv DEF vars
<1> QED  BY <1>1, <1>2, <1>3, <1>4, <1>5, <1>6, <1>7, <1>8 DEF Next

\* An edit that was not sent yet is shown as such and will be sent by a timer,
\* unless it came in the tick in which the last timer had fired and the door was
\* still closed (debounce and doSave of components.js).
THEOREM EditsWillBeSent == Spec => []UnsentHasATimer
<1>1. EditorInv => UnsentHasATimer  BY DEF EditorInv, UnsentIsPending, UnsentHasATimer
<1>2. EditorInv /\ [Next]_vars => EditorInv'  BY EditorNext
<1> QED  BY EditorInit, <1>1, <1>2, PTL DEF Spec

-----------------------------------------------------------------------------
(* The text shown and the text stored                                      *)

\* The numbers of the saves: each is one of a page, at most its last one, and the
\* last one carries what the page has sent last.
Numbered ==
  /\ count \in [Tabs -> Nat]
  /\ \A r \in posts : /\ r.tab \in Tabs /\ r.n \in Nat \ {0} /\ r.n <= count[r.tab]
                      /\ r.n = count[r.tab] => r.doc = sent[r.tab]

\* A page that has no text yet has not saved, and no timer of it runs.
NotLoaded ==
  \A t \in Tabs :
    mode[t] \in {"loading", "answered"} => count[t] = 0 /\ timers[t] = NoTimers

\* What a page was answered is stored, and what it has sent last is on its way or
\* stored, or the page is known to be behind.
SentArrives(t) ==
  t \notin behind =>
    /\ mode[t] = "answered" => got[t] = stored
    /\ mode[t] = "on" =>
         \/ sent[t] = stored
         \/ \E r \in posts : r.tab = t /\ r.n = count[t] /\ r.doc = sent[t]

AgreeInv == Numbered /\ NotLoaded /\ \A t \in Tabs : SentArrives(t)

\* A page that nothing happens to, while the database and the saves stay.
LEMMA RestAgrees ==
  ASSUME AgreeInv, NEW t \in Tabs, mode'[t] = mode[t], got'[t] = got[t],
         sent'[t] = sent[t], count'[t] = count[t], t \in behind' <=> t \in behind, stored' = stored,
         posts \subseteq posts'
  PROVE  SentArrives(t)'
BY ZenonT(30) DEF AgreeInv, SentArrives

\* A page gets its text: what it shows is what was stored when its request was
\* answered (EditorAPI and readDistant).
LEMMA LoadAgrees ==
  ASSUME EditorInv, AgreeInv, NEW t \in Tabs,
         Read(t) \/ Load(t) \/ LoadUnreadable(t) \/ LoadFails(t)
  PROVE  AgreeInv'
<1>1. mode[t] \in {"loading", "answered"} /\ UNCHANGED <<stored, timers, posts, count>>
  BY DEF Read, Load, LoadUnreadable, LoadFails
<1>2. \A r \in posts : r.tab # t
  BY <1>1 DEF AgreeInv, Numbered, NotLoaded
<1>3. \A u \in Tabs \ {t} : /\ mode'[u] = mode[u] /\ sent'[u] = sent[u] /\ got'[u] = got[u]
                            /\ u \in behind' <=> u \in behind
  <2>1. CASE Read(t)  BY <2>1 DEF Read, EditorInv, Types
  <2>2. CASE Load(t)  BY <2>2 DEF Load, Show, EditorInv, Types
  <2>3. CASE LoadUnreadable(t)  BY <2>3 DEF LoadUnreadable, Show, EditorInv, Types
  <2>4. CASE LoadFails(t)  BY <2>4 DEF LoadFails, EditorInv, Types
  <2> QED  BY <2>1, <2>2, <2>3, <2>4
<1>4. Numbered'  BY <1>1, <1>2, <1>3 DEF AgreeInv, Numbered
<1>5. NotLoaded'  BY <1>1, <1>3 DEF AgreeInv, NotLoaded
<1>6. SentArrives(t)'
  <2>1. CASE Read(t)  BY <2>1 DEF Read, EditorInv, Types, SentArrives
  <2>2. CASE Load(t)
    <3>1. t \notin behind => got[t] = stored  BY <2>2 DEF Load, AgreeInv, SentArrives
    <3>2. mode'[t] = "on" /\ sent'[t] = got[t] /\ UNCHANGED <<stored, behind>>
      BY <2>2 DEF Load, Show, EditorInv, Types
    <3> QED  BY <3>1, <3>2 DEF SentArrives
  <2>3. CASE LoadUnreadable(t)  BY <2>3 DEF LoadUnreadable, SentArrives
  <2>4. CASE LoadFails(t)  BY <2>4 DEF LoadFails, EditorInv, Types, SentArrives
  <2> QED  BY <2>1, <2>2, <2>3, <2>4
<1>7. \A u \in Tabs \ {t} : SentArrives(u)'  BY <1>1, <1>3, RestAgrees
<1> QED  BY <1>4, <1>5, <1>6, <1>7 DEF AgreeInv

\* The timer sends the text of the page, as its last save (saveDistant).
LEMMA FireAgrees ==
  ASSUME EditorInv, AgreeInv, NEW t \in Tabs, Fire(t)
  PROVE  AgreeInv'
<1> DEFINE post == [tab |-> t, doc |-> doc[t], n |-> count[t] + 1]
<1>1. /\ posts' = posts \cup {post} /\ UNCHANGED <<stored, mode, got, behind>>
      /\ count'[t] = count[t] + 1 /\ sent'[t] = doc[t] /\ count[t] \in Nat
      /\ \A u \in Tabs \ {t} : count'[u] = count[u] /\ sent'[u] = sent[u]
      /\ \A u \in Tabs \ {t} : timers'[u] = timers[u]
      /\ count' \in [Tabs -> Nat]
  BY DEF Fire, EditorInv, Types, AgreeInv, Numbered
<1>2. mode[t] \notin {"loading", "answered"}
  <2>1. \A a \in Timeout..Never : NoTimers[a] = 0
    BY Numbers DEF NoTimers, Ages
  <2> QED  BY <2>1 DEF Fire, AgreeInv, NotLoaded
<1>3. post.tab = t /\ post.n = count'[t] /\ post.doc = sent'[t] /\ post.n \in Nat \ {0}
  BY <1>1
<1> HIDE DEF post
<1>4. Numbered'
  <2>1. ASSUME NEW r \in posts
        PROVE  /\ r.tab \in Tabs /\ r.n \in Nat \ {0} /\ r.n <= count'[r.tab]
               /\ r.n = count'[r.tab] => r.doc = sent'[r.tab]
    <3>1. r.tab \in Tabs /\ r.n \in Nat \ {0} /\ r.n <= count[r.tab]
      BY DEF AgreeInv, Numbered
    <3>2. CASE r.tab = t  BY <1>1, <3>1, <3>2
    <3>3. CASE r.tab # t  BY <1>1, <3>1, <3>3 DEF AgreeInv, Numbered
    <3> QED  BY <3>2, <3>3
  <2>2. post.n <= count'[t]  BY <1>3
  <2> QED  BY <1>1, <1>3, <2>1, <2>2 DEF Numbered
<1>5. NotLoaded'  BY <1>1, <1>2 DEF AgreeInv, NotLoaded
<1>6. SentArrives(t)'  BY <1>1, <1>2, <1>3 DEF SentArrives
<1>7. \A u \in Tabs \ {t} : SentArrives(u)'  BY <1>1, RestAgrees
<1> QED  BY <1>4, <1>5, <1>6, <1>7 DEF AgreeInv

\* Typing, blurs, ticks and leaving the page send nothing.
LEMMA LocalAgrees ==
  ASSUME EditorInv, AgreeInv, NEW t \in Tabs, Edit(t) \/ Blur(t) \/ Tick(t) \/ Close(t)
  PROVE  AgreeInv'
<1>1. UNCHANGED <<stored, posts, got, sent, count, behind>>
  BY DEF Edit, Blur, Tick, Close
<1>2. mode' = mode \/ mode' = [mode EXCEPT ![t] = "closed"]
  BY DEF Edit, Blur, Tick, Close
<1>3. mode[t] \notin {"loading", "answered"} \/ mode'[t] = "closed"
  BY DEF Edit, Blur, Tick, Close, EditorInv, Types
<1>4. \A u \in Tabs \ {t} : mode'[u] = mode[u] /\ timers'[u] = timers[u]
  BY DEF Edit, Blur, Tick, Close, Call, EditorInv, Types
<1>5. Numbered'  BY <1>1 DEF AgreeInv, Numbered
<1>6. NotLoaded'  BY <1>1, <1>2, <1>3, <1>4 DEF AgreeInv, NotLoaded, EditorInv, Types
<1>7. SentArrives(t)'
  BY <1>1, <1>2 DEF AgreeInv, SentArrives, EditorInv, Types
<1>8. \A u \in Tabs \ {t} : SentArrives(u)'  BY <1>1, <1>4, RestAgrees
<1> QED  BY <1>5, <1>6, <1>7, <1>8 DEF AgreeInv

\* A save arrives, in part or not at all; who may be behind is known (EditorAPI).
LEMMA ServerAgrees ==
  ASSUME AgreeInv, NEW r \in posts, Store(r) \/ StoreCut(r) \/ Refuse(r)
  PROVE  AgreeInv'
<1>1. posts' = posts \ {r} /\ UNCHANGED tab
  BY DEF Store, StoreCut, Refuse
<1>2. Numbered' /\ NotLoaded'
  BY <1>1 DEF AgreeInv, Numbered, NotLoaded, tab
<1>3. ASSUME NEW t \in Tabs  PROVE SentArrives(t)'
  <2>1. CASE Store(r)
    BY <1>1, <2>1 DEF Store, AgreeInv, Numbered, NotLoaded, SentArrives, tab
  <2>2. CASE StoreCut(r)
    BY <2>2 DEF StoreCut, SentArrives
  <2>3. CASE Refuse(r)
    BY <1>1, <2>3 DEF Refuse, AgreeInv, Numbered, SentArrives, tab
  <2> QED  BY <2>1, <2>2, <2>3
<1> QED  BY <1>2, <1>3 DEF AgreeInv

LEMMA NextAgrees ==
  ASSUME EditorInv, AgreeInv, [Next]_vars
  PROVE  AgreeInv'
<1>1. CASE UNCHANGED vars
  BY <1>1 DEF vars, tab, AgreeInv, Numbered, NotLoaded, SentArrives
<1> QED
  BY <1>1, LoadAgrees, FireAgrees, LocalAgrees, ServerAgrees DEF Next

\* A page that has sent all of its text, with no save of it under way, shows the
\* stored text, but for the pages that behind says (saveDistant and EditorAPI).
THEOREM ShownIsStored == Spec => []Agrees
<1>1. Init => AgreeInv
  BY DEF Init, AgreeInv, Numbered, NotLoaded, SentArrives
<1>2. AgreeInv => Agrees
  BY DEF AgreeInv, SentArrives, Agrees, Quiet
<1>3. EditorInv /\ AgreeInv /\ [Next]_vars => EditorInv' /\ AgreeInv'
  BY EditorNext, NextAgrees
<1> QED  BY EditorInit, <1>1, <1>2, <1>3, PTL DEF Spec

-----------------------------------------------------------------------------
(* The search panel                                                        *)

\* A behaviour of the browser is one of the panel: the other parts leave it alone.
LEMMA PanelBehaves == BrowserSpec => Search!Spec
<1>1. BrowserInit => Search!Init
  BY DEF BrowserInit
<1>2. [BrowserNext]_<<vars, panel, cell, notes, part>> => [Search!Next]_(Search!vars)
  <2>1. BrowserNext => Search!Next \/ panel' = panel
    BY DEF BrowserNext
  <2>2. UNCHANGED <<vars, panel, cell, notes, part>> => panel' = panel
    OBVIOUS
  <2>3. Search!vars = panel /\ Search!vars' = panel'
    BY DEF Search!vars, panel
  <2> QED  BY <2>1, <2>2, <2>3
<1> QED  BY <1>1, <1>2, PTL DEF BrowserSpec, Search!Spec

\* The text in the box, and the one in the session to be put there.
BoxTypes ==
  /\ input \in Queries \cup {Search!NoQuery}
  /\ session.query \in Queries \cup {Search!NoQuery}

\* A panel that is loading has a query in its box.  So its timeout sends a
\* search, not one for an empty box.
LoadingInv == BoxTypes /\ (loading => input # Search!NoQuery) /\ LoadingHasACause

USE DEF LoadingHasACause, ShownIsAsked, Search!Asked, Search!Nothing

\* A search for what was typed is not a request for the filters.
LEMMA AskedIsSearch ==
  ASSUME NEW q \in Queries, NEW f, Search!Ask(Search!Asked(q, f))
  PROVE  \E r \in searched' : r.a.q # Search!Filters
<1>1. [a |-> [q |-> q, f |-> f], n |-> asked + 1] \in searched'
  BY DEF Search!Ask
<1> QED  BY <1>1, QueriesAssumption

\* The answer to one request leaves the others alone.
LEMMA OthersRemain ==
  ASSUME NEW r \in searched, r.a.q = Search!Filters, searched' = searched \ {r},
         \E x \in searched : x.a.q # Search!Filters
  PROVE  \E x \in searched' : x.a.q # Search!Filters
<1>1. PICK x \in searched : x.a.q # Search!Filters
  OBVIOUS
<1>2. x \in searched'
  BY <1>1
<1> QED  BY <1>1, <1>2

LEMMA LoadingNext ==
  ASSUME LoadingInv, [Search!Next]_(Search!vars)
  PROVE  LoadingInv'
<1> USE DEF LoadingInv, BoxTypes, Search!LoadingHasACause
<1>1. ASSUME input' \in Queries \cup {Search!NoQuery}, Search!PerformSearch
      PROVE  LoadingInv'
  BY <1>1 DEF Search!PerformSearch, Search!NoSession
<1>2. ASSUME \/ \E q \in Queries \cup {Search!NoQuery} : Search!Type(q)
             \/ \E f \in Choices \cup {Search!All} : Search!Choose(f)
      PROVE  LoadingInv'
  BY <1>1, <1>2 DEF Search!Type, Search!Choose
<1>3. CASE Search!Fire
  <2>1. BoxTypes' /\ (loading' => input' # Search!NoQuery)
    BY <1>3 DEF Search!Fire
  <2>2. ASSUME loading'  PROVE \E r \in searched' : r.a.q # Search!Filters
    <3>1. input \in Queries /\ Search!Ask(Search!Asked(input, filter))
      BY <1>3, <2>2 DEF Search!Fire
    <3> QED  BY <3>1, AskedIsSearch
  <2> QED  BY <2>1, <2>2
<1>4. CASE Search!Reopen
  BY <1>4 DEF Search!Reopen
<1>5. ASSUME NEW r \in searched, Search!Answer(r)  PROVE LoadingInv'
  BY <1>5 DEF Search!Answer
<1>6. ASSUME NEW r \in searched, Search!Fail(r)  PROVE LoadingInv'
  BY <1>6 DEF Search!Fail
<1>7. ASSUME NEW r \in searched, Search!AnswerFilters(r)  PROVE LoadingInv'
  <2>1. BoxTypes' /\ (loading' => input' # Search!NoQuery)
    BY <1>7 DEF Search!AnswerFilters
  <2>2. LoadingHasACause'
    BY <1>7, OthersRemain DEF Search!AnswerFilters
  <2> QED  BY <2>1, <2>2
<1>8. CASE UNCHANGED Search!vars
  BY <1>8 DEF Search!vars
<1> QED  BY <1>2, <1>3, <1>4, <1>5, <1>6, <1>7, <1>8 DEF Search!Next

LEMMA LoadingAlways == Search!Spec => []LoadingInv
<1>1. Search!Init => LoadingInv
  BY DEF Search!Init, LoadingInv, BoxTypes, Search!LoadingHasACause, Search!NoSession
<1> QED  BY <1>1, LoadingNext, PTL DEF Search!Spec

\* The panel that says that it is loading waits for something that will end
\* it (performSearch and search of search.ts), whatever is typed and in whatever
\* order the answers come.
THEOREM LoadingEnds == BrowserSpec => []LoadingHasACause
<1>1. LoadingInv => LoadingHasACause
  BY DEF LoadingInv
<1> QED  BY <1>1, PanelBehaves, LoadingAlways, PTL

-----------------------------------------------------------------------------
(* What the panel shows at rest.                                           *)

\* a is the answer to text b and, if they are known, to filters w
Fits(a, b, w) ==
  \/ b = Search!NoQuery /\ a.q = Search!Filters
  \/ a.q = b /\ (w # Search!Unknown => a.f = w)

\* requests are numbered
Counted == asked \in Nat /\ \A r \in searched : r.n \in Nat /\ r.n <= asked

\* A timeout will send the filters that are wanted, unless an answer has changed
\* the boxes.
SendsWanted == timer => wanted \in {Search!Unknown, filter}

\* Without a timeout that waits, the newest request asks for what is in the box.
NewestFits == ~timer => \A r \in searched : r.n = asked => Fits(r.a, input, wanted)

\* Once it is answered, the panel shows its answer, or an older one or an error.
AnswerFits ==
  ~timer /\ ~error /\ ~astray /\ (\A r \in searched : r.n # asked) =>
    Fits(shown, input, wanted)

\* So it is, but for the filters, for what the panel will show when it is opened
\* again.
SessionFits ==
  \/ session = Search!NoSession \/ session.late
  \/ Fits(session.response, session.query, Search!Unknown)

ShownInv == Counted /\ SendsWanted /\ NewestFits /\ AnswerFits /\ SessionFits

\* One more request becomes the newest.
LEMMA AskFits ==
  ASSUME Counted, NEW a, Search!Ask(a), ~timer' => Fits(a, input', wanted')
  PROVE  Counted' /\ NewestFits' /\ AnswerFits'
<1> DEFINE s == [a |-> a, n |-> asked + 1]
<1>1. asked' = asked + 1 /\ searched' = searched \cup {s} /\ s.n = asked + 1 /\ s.a = a
  BY DEF Search!Ask
<1> HIDE DEF s
<1>2. \A r \in searched' : r.n \in Nat /\ r.n <= asked' /\ (r.n = asked' => r = s)
  BY <1>1 DEF Counted
<1>3. Counted'
  BY <1>1, <1>2 DEF Counted
<1>4. NewestFits'
  BY <1>1, <1>2 DEF NewestFits
<1>5. AnswerFits'
  BY <1>1 DEF AnswerFits
<1> QED  BY <1>3, <1>4, <1>5

\* Typing and choosing (performSearch): a timeout waits, or the filters are asked for.
LEMMA PerformFits ==
  ASSUME ShownInv, Search!PerformSearch
  PROVE  ShownInv'
<1>1. SessionFits' /\ SendsWanted'
  BY DEF Search!PerformSearch, SessionFits, SendsWanted
<1>2. CASE input' = Search!NoQuery
  <2> DEFINE a == [q |-> Search!Filters, f |-> Search!All]
  <2>1. Search!Ask(a) /\ Fits(a, input', wanted')
    BY <1>2 DEF Search!PerformSearch, Fits
  <2> HIDE DEF a
  <2> QED  BY <1>1, <2>1, AskFits DEF ShownInv
<1>3. CASE input' # Search!NoQuery
  <2>1. timer' /\ UNCHANGED <<searched, asked>>
    BY <1>3 DEF Search!PerformSearch
  <2> QED  BY <1>1, <2>1 DEF ShownInv, Counted, NewestFits, AnswerFits
<1> QED  BY <1>2, <1>3

LEMMA ShownNext ==
  ASSUME ShownInv, [Search!Next]_(Search!vars)
  PROVE  ShownInv'
<1> USE DEF Counted, SendsWanted, NewestFits, AnswerFits, SessionFits
<1>1. ASSUME \/ \E q \in Queries \cup {Search!NoQuery} : Search!Type(q)
             \/ \E f \in Choices \cup {Search!All} : Search!Choose(f)
      PROVE  ShownInv'
  BY <1>1, PerformFits DEF Search!Type, Search!Choose
<1>2. CASE Search!Fire
  <2> DEFINE a == [q |-> input, f |-> filter]
  <2>1. Search!Ask(a) /\ a.q = input /\ a.f = filter
    BY <1>2 DEF Search!Fire
  <2>2. /\ timer /\ ~timer' /\ UNCHANGED <<input, filter, wanted, session>>
    BY <1>2 DEF Search!Fire
  <2>3. Fits(a, input', wanted')
    BY <2>1, <2>2 DEF ShownInv, Fits
  <2> HIDE DEF a
  <2>4. Counted' /\ NewestFits' /\ AnswerFits'
    BY <2>1, <2>3, AskFits DEF ShownInv
  <2> QED  BY <2>2, <2>4 DEF ShownInv
<1>3. CASE Search!Reopen
  <2>1. /\ ~timer' /\ input' = session.query /\ shown' = session.response
        /\ astray' = session.late /\ wanted' = Search!Unknown /\ session' = session
    BY <1>3 DEF Search!Reopen
  <2>2. CASE session = Search!NoSession
    <3> DEFINE s == [a |-> [q |-> Search!Filters, f |-> Search!All], n |-> asked + 1]
    <3>1. searched' = {s} /\ asked' = asked + 1
      BY <1>3, <2>2 DEF Search!Reopen
    <3>2. Fits(s.a, input', wanted')
      BY <2>1, <2>2 DEF Fits, Search!NoSession
    <3>3. s.n = asked + 1
      OBVIOUS
    <3> HIDE DEF s
    <3> QED  BY <2>1, <3>1, <3>2, <3>3 DEF ShownInv
  <2>3. CASE session # Search!NoSession
    <3>1. searched' = {} /\ asked' = asked
      BY <1>3, <2>3 DEF Search!Reopen
    <3> QED  BY <2>1, <2>3, <3>1 DEF ShownInv
  <2> QED  BY <2>2, <2>3
<1>4. ASSUME NEW r \in searched, Search!Answer(r)  PROVE ShownInv'
  <2>1. /\ searched' = searched \ {r} /\ shown' = r.a /\ astray' = (r.n # asked)
        /\ UNCHANGED <<input, timer, error, asked>>
        /\ wanted' = IF timer THEN Search!Unknown ELSE wanted
    BY <1>4 DEF Search!Answer, Search!ApplyFacets
  <2>2. session'.response = r.a /\ session'.query = input
        /\ session'.late = (timer \/ r.n # asked)
    BY <1>4 DEF Search!Answer
  <2>3. Counted' /\ SendsWanted' /\ NewestFits' /\ AnswerFits'
    BY <2>1 DEF ShownInv
  <2>4. timer \/ r.n # asked \/ Fits(r.a, input, wanted)
    BY DEF ShownInv
  <2>5. SessionFits'
    BY <2>2, <2>4 DEF Fits
  <2> QED  BY <2>3, <2>5 DEF ShownInv
<1>5. ASSUME NEW r \in searched, Search!Fail(r)  PROVE ShownInv'
  BY <1>5 DEF Search!Fail, ShownInv
<1>6. ASSUME NEW r \in searched, Search!AnswerFilters(r)  PROVE ShownInv'
  <2>1. /\ searched' = searched \ {r} /\ UNCHANGED <<input, timer, error, session, asked>>
        /\ \/ /\ shown' = r.a /\ astray' = (r.n # asked)
              /\ wanted' = IF timer THEN Search!Unknown ELSE wanted
           \/ astray' /\ UNCHANGED <<filter, wanted>>
    BY <1>6 DEF Search!AnswerFilters, Search!ApplyFacets
  <2> QED  BY <2>1 DEF ShownInv
<1>7. CASE UNCHANGED Search!vars
  BY <1>7 DEF Search!vars, ShownInv
<1> QED  BY <1>1, <1>2, <1>3, <1>4, <1>5, <1>6, <1>7 DEF Search!Next

\* When nothing is on its way, the panel shows the answer to the text in its box,
\* and to the filters that were wanted, an error, or an answer of which it is
\* recorded that it came late (search.ts).
THEOREM ShownWasAsked == BrowserSpec => []ShownIsAsked
<1>1. Search!Init => ShownInv
  BY DEF Search!Init, ShownInv, Counted, SendsWanted, NewestFits, AnswerFits, SessionFits,
         Fits
<1>2. ShownInv => ShownIsAsked
  BY DEF ShownInv, AnswerFits, Fits, Search!ShownIsAsked
<1> QED  BY <1>1, <1>2, ShownNext, PanelBehaves, PTL DEF Search!Spec

-----------------------------------------------------------------------------
(* The notifications                                                       *)

Entries == [id : Nat, read : BOOLEAN]

\* The notifications of the server are listed newest first.
Descends(l) ==
  \A i, j \in DOMAIN l :
    i < j /\ Note!Here \notin {l[i].id, l[j].id} => l[i].id > l[j].id

\* A set of numbers that is not empty has a least one.
LEMMA LeastExists ==
  ASSUME NEW S \in SUBSET Nat, S # {}
  PROVE  \E x \in S : \A y \in S : x <= y
<1>1. PICK x \in S : \A y \in S : ~(<<y, x>> \in OpToRel(<, Nat))
  BY NatLessThanWellFounded, WFMin
<1>2. \A y \in S : ~(y < x)
  BY <1>1, Zenon DEF OpToRel
<1>3. \A y \in S : x <= y
  BY <1>2
<1> QED  BY <1>3

\* The function by which Without filters a list exists ...
Keeps(l, n, keep) ==
  keep = [i \in 0..Len(l) |->
    IF i = 0 THEN <<>>
    ELSE IF l[i].id = n THEN keep[i - 1] ELSE Append(keep[i - 1], l[i])]

LEMMA KeepExists ==
  ASSUME NEW l \in Seq(Entries), NEW n
  PROVE  \E keep : Keeps(l, n, keep)
<1> DEFINE Then(k, i) == IF l[i].id = n THEN k ELSE Append(k, l[i])
           Upto(m, f) == f = [i \in 0..m |-> IF i = 0 THEN <<>> ELSE Then(f[i - 1], i)]
           Bad == {m \in 0..Len(l) : ~ \E f : Upto(m, f)}
<1>1. Len(l) \in Nat
  BY LenProperties
<1> HIDE DEF Then
<1>2. Upto(0, [i \in 0..0 |-> <<>>])
  OBVIOUS
<1>3. ASSUME NEW m \in Nat, NEW f, Upto(m, f)
      PROVE  \E g : Upto(m + 1, g)
  <2> DEFINE g == [i \in 0..(m + 1) |-> IF i = m + 1 THEN Then(f[m], m + 1) ELSE f[i]]
  <2>1. \A i \in 0..(m + 1) : g[i] = IF i = 0 THEN <<>> ELSE Then(g[i - 1], i)
    <3> SUFFICES ASSUME NEW i \in 0..(m + 1)
                 PROVE  g[i] = IF i = 0 THEN <<>> ELSE Then(g[i - 1], i)
      OBVIOUS
    <3>1. CASE i = m + 1
      BY <3>1
    <3>2. CASE i \in 0..m
      <4>1. f[i] = IF i = 0 THEN <<>> ELSE Then(f[i - 1], i)
        BY <1>3, <3>2
      <4>2. g[i] = f[i] /\ (i # 0 => g[i - 1] = f[i - 1])
        BY <3>2
      <4> QED  BY <4>1, <4>2
    <3> QED  BY <3>1, <3>2
  <2>2. g = [i \in 0..(m + 1) |-> g[i]]
    OBVIOUS
  <2> HIDE DEF g
  <2>3. Upto(m + 1, g)
    BY <2>1, <2>2
  <2> QED  BY <2>3
<1> HIDE DEF Upto
<1>4. Bad = {}
  <2> SUFFICES ASSUME Bad # {}  PROVE FALSE
    OBVIOUS
  <2>1. PICK m \in Bad : \A k \in Bad : m <= k
    <3>1. Bad \in SUBSET Nat
      BY <1>1
    <3> HIDE DEF Bad
    <3> QED  BY <3>1, LeastExists
  <2>2. m # 0
    BY <1>2, <2>1
  <2>3. m - 1 \in 0..Len(l) /\ m - 1 \notin Bad
    BY <1>1, <2>1, <2>2
  <2>4. PICK f : Upto(m - 1, f)
    BY <2>3
  <2>5. \E g : Upto(m, g)
    <3>1. m - 1 \in Nat /\ (m - 1) + 1 = m
      BY <1>1, <2>1, <2>3
    <3>2. \E g : Upto((m - 1) + 1, g)
      BY <1>3, <2>4, <3>1
    <3> QED  BY <3>1, <3>2
  <2> QED  BY <2>1, <2>5
<1>5. \E f : Upto(Len(l), f)
  BY <1>1, <1>4
<1> QED  BY <1>5 DEF Upto, Then, Keeps

\* ... and what it keeps of a prefix are entries of that prefix, in their order.
LEMMA WithoutFacts ==
  ASSUME NEW l \in Seq(Entries), NEW n
  PROVE  /\ Note!Without(l, n) \in Seq(Entries)
         /\ Note!Ids(Note!Without(l, n)) \subseteq Note!Ids(l) \ {n}
         /\ Descends(l) => Descends(Note!Without(l, n))
<1> DEFINE keep == CHOOSE f : Keeps(l, n, f)
           From(s, m) ==
             /\ s \in Seq(Entries)
             /\ \A a \in DOMAIN s : \E k \in 1..m : s[a] = l[k] /\ l[k].id # n
             /\ Descends(l) => Descends(s)
           Bad == {m \in 0..Len(l) : ~From(keep[m], m)}
<1>1. Len(l) \in Nat /\ l \in [1..Len(l) -> Entries]
  BY LenProperties
<1>2. Note!Without(l, n) = keep[Len(l)]
  BY DEF Note!Without, Keeps
<1>3. Keeps(l, n, keep)
  <2>1. \E f : Keeps(l, n, f)
    BY KeepExists
  <2> QED  BY <2>1, Zenon
<1> HIDE DEF keep
<1>4. /\ keep[0] = <<>>
      /\ \A i \in 1..Len(l) :
           keep[i] = IF l[i].id = n THEN keep[i - 1] ELSE Append(keep[i - 1], l[i])
  <2>1. \A i \in 0..Len(l) : keep[i] =
          IF i = 0 THEN <<>> ELSE IF l[i].id = n THEN keep[i - 1] ELSE Append(keep[i - 1], l[i])
    BY <1>3 DEF Keeps
  <2> QED  BY <1>1, <2>1
<1>5. From(keep[0], 0)
  BY <1>4 DEF Descends
<1>6. ASSUME NEW m \in 1..Len(l), From(keep[m - 1], m - 1)
      PROVE  From(keep[m], m)
  <2> DEFINE s == keep[m - 1]
  <2>1. l[m] \in Entries /\ m \in Nat /\ m - 1 \in Nat
    BY <1>1
  <2> HIDE DEF s
  <2>2. /\ s \in Seq(Entries)
        /\ \A a \in DOMAIN s : \E k \in 1..(m - 1) : s[a] = l[k] /\ l[k].id # n
    BY <1>6 DEF s
  <2>3. CASE l[m].id = n
    <3>1. keep[m] = s
      BY <1>4, <2>3 DEF s
    <3>2. \A k \in 1..(m - 1) : k \in 1..m
      BY <2>1
    <3> QED  BY <1>6, <2>2, <3>1, <3>2 DEF s
  <2>4. CASE l[m].id # n
    <3> DEFINE u == Append(s, l[m])
    <3>1. keep[m] = u
      BY <1>4, <2>4 DEF s
    <3>2. /\ u \in Seq(Entries) /\ Len(s) \in Nat /\ Len(u) = Len(s) + 1
          /\ \A a \in 1..Len(s) : u[a] = s[a]
          /\ u[Len(s) + 1] = l[m]
          /\ DOMAIN u = 1..(Len(s) + 1) /\ DOMAIN s = 1..Len(s)
      BY <2>1, <2>2, AppendProperties, LenProperties
    <3> HIDE DEF u
    <3>3. \A a \in DOMAIN u : \E k \in 1..m : u[a] = l[k] /\ l[k].id # n
      <4> SUFFICES ASSUME NEW a \in DOMAIN u
                   PROVE  \E k \in 1..m : u[a] = l[k] /\ l[k].id # n
        OBVIOUS
      <4>1. CASE a = Len(s) + 1
        BY <2>1, <2>4, <3>2, <4>1
      <4>2. CASE a \in 1..Len(s)
        <5>1. PICK k \in 1..(m - 1) : s[a] = l[k] /\ l[k].id # n
          BY <2>2, <3>2, <4>2
        <5>2. k \in 1..m
          BY <2>1
        <5> QED  BY <3>2, <4>2, <5>1, <5>2
      <4> QED  BY <3>2, <4>1, <4>2
    <3>4. ASSUME Descends(l)  PROVE Descends(u)
      <4> SUFFICES ASSUME NEW i \in DOMAIN u, NEW j \in DOMAIN u, i < j,
                          Note!Here \notin {u[i].id, u[j].id}
                   PROVE  u[i].id > u[j].id
        BY DEF Descends
      <4>1. i \in 1..Len(s)
        BY <3>2
      <4>2. CASE j \in 1..Len(s)
        <5>1. Descends(s)
          BY <1>6, <3>4 DEF s
        <5> QED  BY <3>2, <4>1, <4>2, <5>1 DEF Descends
      <4>3. CASE j = Len(s) + 1
        <5>1. PICK k \in 1..(m - 1) : s[i] = l[k]
          BY <2>2, <3>2, <4>1
        <5>2. k \in DOMAIN l /\ m \in DOMAIN l /\ k < m
          BY <1>1
        <5>3. u[i] = l[k] /\ u[j] = l[m]
          BY <3>2, <4>1, <4>3, <5>1
        <5> QED  BY <3>4, <5>2, <5>3 DEF Descends
      <4> QED  BY <3>2, <4>2, <4>3
    <3> QED  BY <3>1, <3>2, <3>3, <3>4
  <2> QED  BY <2>3, <2>4
<1>7. Bad = {}
  <2> SUFFICES ASSUME Bad # {}  PROVE FALSE
    OBVIOUS
  <2> HIDE DEF From
  <2>1. PICK m \in Bad : \A k \in Bad : m <= k
    <3>1. Bad \in SUBSET Nat
      BY <1>1
    <3> HIDE DEF Bad
    <3> QED  BY <3>1, LeastExists
  <2>2. m # 0
    BY <1>5, <2>1
  <2>3. m \in 1..Len(l) /\ m - 1 \in 0..Len(l) /\ m - 1 \notin Bad
    BY <1>1, <2>1, <2>2
  <2>4. From(keep[m - 1], m - 1)
    BY <2>3
  <2> QED  BY <1>6, <2>1, <2>3, <2>4
<1>8. From(keep[Len(l)], Len(l))
  <2> HIDE DEF From
  <2> QED  BY <1>1, <1>7
<1>9. Note!Ids(keep[Len(l)]) \subseteq Note!Ids(l) \ {n}
  BY <1>1, <1>8 DEF Note!Ids
<1> QED  BY <1>2, <1>8, <1>9

\* What is in the channel, or waits for it, is in the order in which it was sent.
Coming == {queue[i] : i \in DOMAIN queue} \cup {waiting[i] : i \in DOMAIN waiting}

Ascends(q) == \A i, j \in DOMAIN q : i < j => q[i] < q[j]

QueueInv ==
  /\ sends \in Nat /\ queue \in Seq(Nat) /\ waiting \in Seq(Nat)
  /\ \A n \in Coming : 1 <= n /\ n <= sends
  /\ Ascends(queue) /\ Ascends(waiting)
  /\ \A i \in DOMAIN queue : \A j \in DOMAIN waiting : queue[i] < waiting[j]
  /\ waiting # <<>> => ~(Len(queue) < Capacity)

\* Notification n has left the channel: those that come are newer.
Past(n) == n \in Nat /\ n <= sends /\ \A m \in Coming : n < m

LEMMA RemoveAtFacts ==
  ASSUME NEW S, NEW s \in Seq(S), NEW i \in DOMAIN s
  PROVE  LET r == Note!RemoveAt(s, i)
         IN /\ r \in Seq(S) /\ Len(r) = Len(s) - 1
            /\ \A k \in 1..Len(r) : r[k] = IF k < i THEN s[k] ELSE s[k + 1]
<1>1. Len(s) \in Nat /\ i \in 1..Len(s)
  BY LenProperties
<1> DEFINE a == SubSeq(s, 1, i - 1)
           b == SubSeq(s, i + 1, Len(s))
<1>2. a \in Seq(S) /\ Len(a) = i - 1 /\ \A k \in 1..(i - 1) : a[k] = s[k]
  <2>1. \A k \in 1..(i - 1) : s[k] \in S
    BY <1>1, ElementOfSeq
  <2> QED  BY <1>1, <2>1, SubSeqProperties
<1>3. b \in Seq(S) /\ Len(b) = Len(s) - i /\ \A k \in 1..(Len(s) - i) : b[k] = s[i + k]
  <2>1. \A k \in (i + 1)..Len(s) : s[k] \in S
    BY <1>1, ElementOfSeq
  <2> QED  BY <1>1, <2>1, SubSeqProperties
<1> HIDE DEF a, b
<1>4. /\ a \o b \in Seq(S) /\ Len(a \o b) = Len(s) - 1
      /\ \A k \in 1..(Len(s) - 1) :
           (a \o b)[k] = IF k <= i - 1 THEN a[k] ELSE b[k - (i - 1)]
  BY SMTT(30), <1>1, <1>2, <1>3, ConcatProperties
<1>5. ASSUME NEW k \in 1..(Len(s) - 1)
      PROVE  (a \o b)[k] = IF k < i THEN s[k] ELSE s[k + 1]
  <2>1. CASE k < i
    <3>1. k \in 1..(i - 1) /\ k <= i - 1
      BY <1>1, <2>1
    <3> QED  BY <1>2, <1>4, <2>1, <3>1
  <2>2. CASE ~(k < i)
    <3>1. /\ k - (i - 1) \in 1..(Len(s) - i) /\ i + (k - (i - 1)) = k + 1
          /\ ~(k <= i - 1)
      BY <1>1, <2>2
    <3> QED  BY <1>3, <1>4, <2>2, <3>1
  <2> QED  BY <1>1, <2>1, <2>2
<1> QED  BY <1>4, <1>5 DEF Note!RemoveAt, a, b

\* A number greater than all is appended.
LEMMA AppendAscends ==
  ASSUME NEW q \in Seq(Nat), NEW n \in Nat, Ascends(q), \A i \in DOMAIN q : q[i] < n
  PROVE  /\ Append(q, n) \in Seq(Nat) /\ Ascends(Append(q, n)) /\ Append(q, n) # <<>>
         /\ \A i \in DOMAIN Append(q, n) :
              Append(q, n)[i] = n \/ \E k \in DOMAIN q : Append(q, n)[i] = q[k]
<1>1. /\ Append(q, n) \in Seq(Nat) /\ Append(q, n) # <<>> /\ Len(q) \in Nat
      /\ DOMAIN q = 1..Len(q) /\ DOMAIN Append(q, n) = 1..(Len(q) + 1)
      /\ \A i \in 1..Len(q) : q[i] \in Nat /\ Append(q, n)[i] = q[i]
      /\ Append(q, n)[Len(q) + 1] = n
  BY AppendProperties, LenProperties, ElementOfSeq
<1> DEFINE a == Append(q, n)
<1> HIDE DEF a
<1>2. \A i \in 1..(Len(q) + 1) : i \in 1..Len(q) \/ i = Len(q) + 1
  BY <1>1
<1>3. Ascends(a)
  BY <1>1, <1>2 DEF Ascends, a
<1> QED  BY <1>1, <1>2, <1>3 DEF a

\* The first is the least.
LEMMA TailAscends ==
  ASSUME NEW q \in Seq(Nat), q # <<>>, Ascends(q)
  PROVE  /\ Ascends(Tail(q))
         /\ \A i \in DOMAIN Tail(q) :
              Head(q) < Tail(q)[i] /\ \E k \in DOMAIN q : Tail(q)[i] = q[k]
<1> DEFINE t == Tail(q)
<1>1. /\ Len(q) \in Nat \ {0} /\ Head(q) = q[1] /\ DOMAIN q = 1..Len(q)
      /\ DOMAIN t = 1..(Len(q) - 1) /\ \A i \in 1..(Len(q) - 1) : t[i] = q[i + 1]
  BY EmptySeq, HeadTailProperties, LenProperties
<1> HIDE DEF t
<1>2. 1 \in DOMAIN q /\ \A i \in DOMAIN t :
        i \in Nat /\ i + 1 \in DOMAIN q /\ 1 < i + 1 /\ t[i] = q[i + 1]
  BY <1>1
<1>3. \A i, j \in DOMAIN t : i < j => t[i] < t[j]
  <2> SUFFICES ASSUME NEW i \in DOMAIN t, NEW j \in DOMAIN t, i < j  PROVE t[i] < t[j]
    OBVIOUS
  <2>1. i + 1 < j + 1
    BY <1>2
  <2> QED  BY <1>2, <2>1 DEF Ascends
<1>4. \A i \in DOMAIN t : q[1] < t[i]
  <2> SUFFICES ASSUME NEW i \in DOMAIN t  PROVE q[1] < t[i]
    OBVIOUS
  <2>1. 1 < i + 1 /\ i + 1 \in DOMAIN q /\ t[i] = q[i + 1]
    BY <1>2
  <2> QED  BY <1>2, <2>1 DEF Ascends
<1> QED  BY <1>1, <1>2, <1>3, <1>4 DEF Ascends, t

LEMMA SendStep ==
  ASSUME QueueInv, Note!Send
  PROVE  QueueInv' /\ \A n : Past(n) => Past(n)'
<1> DEFINE s == sends + 1
<1>1. sends' = s /\ s \in Nat /\ sends \in Nat /\ sends < s
  BY DEF Note!Send, QueueInv
<1>2. \/ queue' = Append(queue, s) /\ waiting' = waiting /\ waiting = <<>>
      \/ waiting' = Append(waiting, s) /\ queue' = queue /\ ~(Len(queue) < Capacity)
  BY <1>1 DEF Note!Send, QueueInv
<1>3. /\ queue \in Seq(Nat) /\ waiting \in Seq(Nat) /\ Ascends(queue) /\ Ascends(waiting)
      /\ \A n \in Coming : n \in Nat /\ 1 <= n /\ n < s
  <2>1. \A n \in Coming : n \in Nat
    BY ElementOfSeq, LenProperties DEF QueueInv, Coming
  <2> QED  BY <1>1, <2>1 DEF QueueInv
<1>4. \A i \in DOMAIN queue : queue[i] \in Nat /\ queue[i] < s
  BY <1>3 DEF Coming
<1>5. \A i \in DOMAIN waiting : waiting[i] \in Nat /\ waiting[i] < s
  BY <1>3 DEF Coming
<1> HIDE DEF s
<1>6. Coming' \subseteq Coming \cup {s}
  <2>1. \A i \in DOMAIN Append(queue, s) : Append(queue, s)[i] \in Coming \cup {s}
    BY <1>1, <1>3, <1>4, AppendAscends DEF Coming
  <2>2. \A i \in DOMAIN Append(waiting, s) : Append(waiting, s)[i] \in Coming \cup {s}
    BY <1>1, <1>3, <1>5, AppendAscends DEF Coming
  <2> QED  BY <1>2, <2>1, <2>2 DEF Coming
<1>7. \A n : Past(n) => Past(n)'
  BY <1>1, <1>6 DEF Past
<1>8. \A n \in Coming' : 1 <= n /\ n <= sends'
  BY <1>1, <1>3, <1>6
<1>9. CASE queue' = Append(queue, s) /\ waiting' = waiting /\ waiting = <<>>
  <2>1. queue' \in Seq(Nat) /\ Ascends(queue')
    BY <1>1, <1>3, <1>4, <1>9, AppendAscends
  <2>2. DOMAIN waiting' = {}
    BY <1>9
  <2> QED  BY <1>1, <1>3, <1>7, <1>8, <1>9, <2>1, <2>2 DEF QueueInv, Ascends
<1>10. CASE waiting' = Append(waiting, s) /\ queue' = queue /\ ~(Len(queue) < Capacity)
  <2>1. waiting' \in Seq(Nat) /\ Ascends(waiting')
        /\ \A i \in DOMAIN waiting' :
             waiting'[i] = s \/ \E k \in DOMAIN waiting : waiting'[i] = waiting[k]
    BY <1>1, <1>3, <1>5, <1>10, AppendAscends
  <2>2. \A i \in DOMAIN queue' : \A j \in DOMAIN waiting' : queue'[i] < waiting'[j]
    BY <1>4, <1>10, <2>1 DEF QueueInv
  <2> QED  BY <1>1, <1>3, <1>7, <1>8, <1>10, <2>1, <2>2 DEF QueueInv, Ascends
<1> QED  BY <1>2, <1>9, <1>10

LEMMA GiveUpStep ==
  ASSUME QueueInv, Note!GiveUp
  PROVE  QueueInv' /\ \A n : Past(n) => Past(n)'
<1>1. PICK i \in DOMAIN waiting : waiting' = Note!RemoveAt(waiting, i)
  BY DEF Note!GiveUp
<1>2. queue' = queue /\ sends' = sends /\ waiting \in Seq(Nat) /\ Len(waiting) \in Nat
      /\ DOMAIN waiting = 1..Len(waiting)
  BY LenProperties DEF Note!GiveUp, QueueInv
<1>3. /\ waiting' \in Seq(Nat) /\ Len(waiting') = Len(waiting) - 1
      /\ DOMAIN waiting' = 1..Len(waiting')
      /\ \A k \in 1..Len(waiting') : waiting'[k] = IF k < i THEN waiting[k] ELSE waiting[k + 1]
  BY <1>1, <1>2, RemoveAtFacts, LenProperties
<1> DEFINE at(k) == IF k < i THEN k ELSE k + 1
<1>4. \A k \in DOMAIN waiting' : at(k) \in DOMAIN waiting /\ waiting'[k] = waiting[at(k)]
  BY <1>1, <1>2, <1>3, Z3T(60)
<1>5. \A j, k \in DOMAIN waiting' : j < k => at(j) < at(k)
  BY SMTT(30), <1>1, <1>2, <1>3
<1> HIDE DEF at
<1>6. Coming' \subseteq Coming
  BY <1>2, <1>4 DEF Coming
<1>7. waiting' # <<>> => waiting # <<>>
  BY <1>2, <1>3, EmptySeq
<1> QED
  BY <1>2, <1>3, <1>4, <1>5, <1>6, <1>7 DEF QueueInv, Past, Ascends

LEMMA Leaves ==
  ASSUME NEW h \in Nat, h \in Coming, 1 <= h, h <= sends, sends' = sends,
         \A m \in Coming' : m \in Coming /\ h < m
  PROVE  /\ \A n : Past(n) => Past(n)' /\ n < h
         /\ Past(h)' /\ h # 0
<1>1. h # 0
  OBVIOUS
<1>2. Past(h)'
  BY DEF Past
<1>3. ASSUME NEW n, Past(n)  PROVE Past(n)'
  BY <1>3 DEF Past
<1>4. ASSUME NEW n, Past(n)  PROVE n < h
  BY <1>4 DEF Past
<1> QED  BY <1>1, <1>2, <1>3, <1>4

\* The oldest leaves the channel: it is newer than what has left it before.
LEMMA ReceiveStep ==
  ASSUME QueueInv, Note!Receive, NEW h, h = Head(queue)
  PROVE  /\ QueueInv' /\ \A n : Past(n) => Past(n)' /\ n < h
         /\ Past(h)' /\ h # 0
<1>1. /\ queue \in Seq(Nat) /\ queue # <<>> /\ Len(queue) \in Nat \ {0}
      /\ h = queue[1] /\ h \in Nat /\ sends' = sends /\ sends \in Nat
      /\ DOMAIN queue = 1..Len(queue) /\ waiting \in Seq(Nat)
      /\ Ascends(queue) /\ Ascends(waiting)
  BY EmptySeq, HeadTailProperties, LenProperties DEF QueueInv, Note!Receive
<1>2. /\ Tail(queue) \in Seq(Nat) /\ Len(Tail(queue)) = Len(queue) - 1
      /\ DOMAIN Tail(queue) = 1..(Len(queue) - 1)
      /\ \A i \in 1..(Len(queue) - 1) : Tail(queue)[i] = queue[i + 1]
  BY <1>1, HeadTailProperties, LenProperties
<1>3. Ascends(Tail(queue)) /\ \A i \in DOMAIN Tail(queue) :
        h < Tail(queue)[i] /\ \E k \in DOMAIN queue : Tail(queue)[i] = queue[k]
  BY <1>1, TailAscends
<1>4. \A n \in Coming : n \in Nat /\ 1 <= n /\ n <= sends
  <2>1. \A n \in Coming : n \in Nat
    BY ElementOfSeq, LenProperties DEF QueueInv, Coming
  <2> QED  BY <2>1 DEF QueueInv
<1>5. h \in Coming
  BY <1>1 DEF Coming
<1>6. \A j \in DOMAIN waiting : h < waiting[j] /\ waiting[j] \in Coming
  <2>1. 1 \in DOMAIN queue
    BY <1>1
  <2> QED  BY <1>1, <2>1 DEF QueueInv, Coming
<1>7. CASE waiting = <<>>
  <2>1. queue' = Tail(queue) /\ waiting' = waiting /\ DOMAIN waiting = {}
    BY <1>7 DEF Note!Receive
  <2>2. \A m \in Coming' : m \in Coming /\ h < m
    BY <1>3, <2>1 DEF Coming
  <2>3. \A i \in DOMAIN waiting' : FALSE
    BY <1>7, <2>1
  <2>4. QueueInv'
    BY <1>1, <1>2, <1>3, <1>4, <1>7, <2>1, <2>2, <2>3 DEF QueueInv, Ascends
  <2> QED
    BY <1>1, <1>4, <1>5, <2>2, <2>4, Leaves
<1>8. CASE waiting # <<>>
  <2> DEFINE w == Head(waiting)
             t == Tail(queue)
  <2>1. queue' = Append(t, w) /\ waiting' = Tail(waiting)
    BY <1>8 DEF Note!Receive
  <2>2. /\ Len(waiting) \in Nat \ {0} /\ w = waiting[1] /\ w \in Nat
        /\ DOMAIN waiting = 1..Len(waiting) /\ waiting' \in Seq(Nat)
        /\ DOMAIN waiting' = 1..(Len(waiting) - 1)
        /\ \A i \in 1..(Len(waiting) - 1) : waiting'[i] = waiting[i + 1]
    BY <1>1, <1>8, <2>1, EmptySeq, HeadTailProperties, LenProperties
  <2>3. Ascends(waiting') /\ \A i \in DOMAIN waiting' :
          w < waiting'[i] /\ \E k \in DOMAIN waiting : waiting'[i] = waiting[k]
    BY <1>1, <1>8, <2>1, TailAscends
  <2>4. w \in Coming /\ h < w
    <3>1. 1 \in DOMAIN waiting
      BY <2>2
    <3> QED  BY <1>6, <2>2, <3>1
  <2>5. \A i \in DOMAIN t : t[i] < w
    <3>1. 1 \in DOMAIN waiting
      BY <2>2
    <3>2. \A k \in DOMAIN queue : queue[k] < w
      BY <2>2, <3>1 DEF QueueInv
    <3> QED  BY <1>3, <3>2
  <2> HIDE DEF w, t
  <2>6. /\ queue' \in Seq(Nat) /\ Ascends(queue')
        /\ \A i \in DOMAIN queue' : queue'[i] = w \/ \E k \in DOMAIN t : queue'[i] = t[k]
    <3>1. t \in Seq(Nat) /\ Ascends(t)
      BY <1>2, <1>3 DEF t
    <3> QED  BY <2>1, <2>2, <2>5, <3>1, AppendAscends
  <2>7. \A i \in DOMAIN queue' : queue'[i] \in Coming /\ h < queue'[i] /\ queue'[i] <= w
    <3>1. \A k \in DOMAIN t : t[k] \in Coming /\ h < t[k] /\ t[k] < w
      BY <1>3, <2>5 DEF Coming, t
    <3>2. w \in Nat /\ \A k \in DOMAIN t : t[k] \in Nat
      BY <1>2, <2>2, LenProperties DEF t
    <3> SUFFICES ASSUME NEW i \in DOMAIN queue'
                 PROVE  queue'[i] \in Coming /\ h < queue'[i] /\ queue'[i] <= w
      OBVIOUS
    <3>3. CASE queue'[i] = w
      BY <2>4, <3>2, <3>3
    <3>4. CASE \E k \in DOMAIN t : queue'[i] = t[k]
      BY <3>1, <3>2, <3>4
    <3> QED  BY <2>6, <3>3, <3>4
  <2>8. \A i \in DOMAIN waiting' : waiting'[i] \in Coming /\ h < waiting'[i] /\ w < waiting'[i]
    BY <1>6, <2>3
  <2>9. \A m \in Coming' : m \in Coming /\ h < m
    BY <2>7, <2>8 DEF Coming
  <2>10. Len(queue') = Len(queue)
    BY <1>1, <1>2, <2>1, <2>2, AppendProperties DEF t
  <2>11. \A i \in DOMAIN queue' : \A j \in DOMAIN waiting' : queue'[i] < waiting'[j]
    BY <1>4, <2>2, <2>7, <2>8
  <2>12. QueueInv'
    BY <1>1, <1>4, <1>8, <2>2, <2>3, <2>6, <2>9, <2>10, <2>11 DEF QueueInv
  <2> QED
    BY <1>1, <1>4, <1>5, <2>9, <2>12, Leaves
<1> QED  BY <1>7, <1>8

\* The notifications that a page shows, or would show when it is opened.
Known == {Note!Here} \cup Note!Ids(local) \cup UNION {Note!Ids(list[p]) : p \in Tabs}

ListsInv ==
  /\ list \in [Tabs -> Seq(Entries)] /\ local \in Seq(Entries)
  /\ Descends(local) /\ \A p \in Tabs : Descends(list[p])

KnownInv ==
  /\ \A n \in Known \cup gone : Past(n)
  /\ \A n \in Known : n \in gone => n \in shared
  /\ Note!Here \notin gone

\* What a stream has in its hand is newer than what its page has, and nobody has
\* had it before.
HandInv(p) ==
  hand[p] # <<>> =>
    \E n \in Nat : /\ hand[p] = <<n>> /\ link[p] = "up"
                   /\ Past(n) /\ n \notin Known \cup gone
                   /\ \A m \in Note!Ids(list[p]) : m < n
                   /\ \A q \in Tabs \ {p} : hand[q] # <<n>>

NotesInv ==
  /\ QueueInv /\ ListsInv /\ KnownInv
  /\ DOMAIN hand = Tabs /\ hand = [p \in Tabs |-> hand[p]]
  /\ link \in [Tabs -> {"closed", "none", "up"}]
  /\ \A p \in Tabs : HandInv(p)

-----------------------------------------------------------------------------
(* Lists.                                                                  *)

LEMMA EmptyList == <<>> \in Seq(Entries) /\ Descends(<<>>) /\ Note!Ids(<<>>) = {}
BY EmptySeq DEF Descends, Note!Ids

\* notify puts a notification in front that is newer than the others, or the page's.
LEMMA PrependFacts ==
  ASSUME NEW l \in Seq(Entries), Descends(l), NEW e \in Entries,
         e.id = Note!Here \/ \A m \in Note!Ids(l) : m < e.id
  PROVE  /\ <<e>> \o l \in Seq(Entries) /\ Descends(<<e>> \o l)
         /\ Note!Ids(<<e>> \o l) = {e.id} \cup Note!Ids(l)
<1> DEFINE u == <<e>> \o l
<1>1. <<e>> \in Seq(Entries) /\ Len(<<e>>) = 1 /\ <<e>>[1] = e
  OBVIOUS
<1>2. /\ u \in Seq(Entries) /\ Len(l) \in Nat /\ DOMAIN l = 1..Len(l)
      /\ DOMAIN u = 1..(Len(l) + 1) /\ u[1] = e
      /\ \A i \in 2..(Len(l) + 1) : u[i] = l[i - 1]
  BY <1>1, ConcatProperties, LenProperties
<1> HIDE DEF u
<1>3. \A i \in DOMAIN u : \/ i = 1
                          \/ i \in 2..(Len(l) + 1) /\ i - 1 \in DOMAIN l /\ u[i] = l[i - 1]
  BY <1>2
<1>4. Descends(u)
  <2> SUFFICES ASSUME NEW i \in DOMAIN u, NEW j \in DOMAIN u, i < j,
                      Note!Here \notin {u[i].id, u[j].id}
               PROVE  u[i].id > u[j].id
    BY DEF Descends
  <2>1. j \in 2..(Len(l) + 1) /\ j - 1 \in DOMAIN l /\ u[j] = l[j - 1] /\ l[j - 1].id \in Nat
    <3>1. j # 1 /\ i \in Nat /\ j \in Nat
      BY <1>2
    <3>2. \A k \in DOMAIN l : l[k].id \in Nat
      <4>1. \A k \in DOMAIN l : l[k] \in Entries
        BY <1>2, ElementOfSeq
      <4> QED  BY <4>1 DEF Entries
    <3> QED  BY <1>3, <3>1, <3>2
  <2>2. CASE i = 1
    <3>1. l[j - 1].id \in Note!Ids(l)
      BY <2>1 DEF Note!Ids
    <3>2. l[j - 1].id < e.id
      BY <1>2, <2>2, <3>1
    <3> QED  BY <1>2, <2>1, <2>2, <3>2 DEF Entries
  <2>3. CASE i # 1
    <3>1. i - 1 \in DOMAIN l /\ u[i] = l[i - 1] /\ i - 1 < j - 1
      BY <1>2, <1>3, <2>1, <2>3
    <3> QED  BY <2>1, <3>1 DEF Descends
  <2> QED  BY <2>2, <2>3
<1>5. Note!Ids(u) \subseteq {e.id} \cup Note!Ids(l)
  BY <1>2, <1>3 DEF Note!Ids
<1>6. {e.id} \cup Note!Ids(l) \subseteq Note!Ids(u)
  <2>1. 1 \in DOMAIN u
    BY <1>2
  <2>2. \A k \in DOMAIN l : k + 1 \in DOMAIN u /\ u[k + 1] = l[k]
    BY <1>2
  <2> QED  BY <1>2, <2>1, <2>2 DEF Note!Ids
<1> QED  BY <1>2, <1>4, <1>5, <1>6 DEF u

\* A list in which notifications were marked as read.
LEMMA MarkedFacts ==
  ASSUME NEW l \in Seq(Entries), Descends(l), NEW ids
  PROVE  /\ Note!Marked(l, ids) \in Seq(Entries) /\ Descends(Note!Marked(l, ids))
         /\ Note!Ids(Note!Marked(l, ids)) = Note!Ids(l)
<1> DEFINE r == Note!Marked(l, ids)
<1>1. Len(l) \in Nat /\ DOMAIN l = 1..Len(l) /\ \A i \in DOMAIN l : l[i] \in Entries
  BY ElementOfSeq, LenProperties
<1>2. /\ r = [i \in DOMAIN l |-> r[i]]
      /\ \A i \in DOMAIN l : r[i] = [l[i] EXCEPT !.read = l[i].read \/ l[i].id \in ids]
  BY DEF Note!Marked
<1>3. \A i \in DOMAIN l : r[i] \in Entries /\ r[i].id = l[i].id
  BY <1>1, <1>2 DEF Entries
<1> HIDE DEF r
<1>4. r \in Seq(Entries)
  BY <1>1, <1>2, <1>3
<1>5. DOMAIN r = DOMAIN l
  BY <1>2
<1> QED  BY <1>3, <1>4, <1>5 DEF Note!Ids, Descends, r

-----------------------------------------------------------------------------
(* The steps of the notifications.                                         *)

\* The server and the streams of pages that are gone.
LEMMA ServerKeeps ==
  ASSUME NotesInv, QueueInv', \A n : Past(n) => Past(n)',
         UNCHANGED <<link, hand, list, local, gone, shared>>
  PROVE  NotesInv'
<1>1. Known' = Known
  BY DEF Known
<1>2. KnownInv'
  BY <1>1 DEF NotesInv, KnownInv
<1>3. ASSUME NEW p \in Tabs  PROVE HandInv(p)'
  BY <1>1 DEF NotesInv, HandInv
<1> QED  BY <1>1, <1>2, <1>3 DEF NotesInv, ListsInv

\* Pages that show, store and take what is known, and streams that drop what they
\* have in their hands.
LEMMA PagesKeep ==
  ASSUME NotesInv, ListsInv', UNCHANGED <<queue, waiting, sends>>,
         Known' \subseteq Known,
         gone' \subseteq gone \cup Known, Note!Here \notin gone',
         \A n \in Known' : n \in gone' => n \in shared',
         DOMAIN hand' = Tabs, hand' = [p \in Tabs |-> hand'[p]],
         link' \in [Tabs -> {"closed", "none", "up"}],
         \A p \in Tabs :
           \/ hand'[p] = <<>>
           \/ /\ hand'[p] = hand[p] /\ link'[p] = link[p]
              /\ Note!Ids(list'[p]) \subseteq Note!Ids(list[p]) \cup {Note!Here}
  PROVE  NotesInv'
<1>1. QueueInv' /\ \A n : Past(n) => Past(n)'
  BY DEF NotesInv, QueueInv, Coming, Past
<1>2. KnownInv'
  BY <1>1 DEF NotesInv, KnownInv
<1>3. ASSUME NEW p \in Tabs  PROVE HandInv(p)'
  <2> SUFFICES ASSUME hand'[p] # <<>>
               PROVE  \E n \in Nat : /\ hand'[p] = <<n>> /\ link'[p] = "up"
                                     /\ Past(n)' /\ n \notin Known' \cup gone'
                                     /\ \A m \in Note!Ids(list'[p]) : m < n
                                     /\ \A q \in Tabs \ {p} : hand'[q] # <<n>>
    BY DEF HandInv, Note!Ids
  <2>1. /\ hand'[p] = hand[p] /\ link'[p] = link[p] /\ hand[p] # <<>>
        /\ Note!Ids(list'[p]) \subseteq Note!Ids(list[p]) \cup {Note!Here}
    OBVIOUS
  <2>2. PICK n \in Nat : /\ hand[p] = <<n>> /\ link[p] = "up"
                         /\ Past(n) /\ n \notin Known \cup gone
                         /\ \A m \in Note!Ids(list[p]) : m < n
                         /\ \A q \in Tabs \ {p} : hand[q] # <<n>>
    BY <2>1 DEF NotesInv, HandInv
  <2>3. Note!Here < n
    BY <2>2 DEF Known, Note!Here
  <2>4. \A q \in Tabs \ {p} : hand'[q] # <<n>>
    BY <2>2
  <2> QED  BY <1>1, <2>1, <2>2, <2>3, <2>4
<1> QED  BY <1>1, <1>2, <1>3 DEF NotesInv

\* One page has another list of what is known, and maybe there is another one in
\* the storage.
LEMMA OneListKnown ==
  ASSUME ListsInv, NEW p \in Tabs, NEW l, Note!Ids(l) \subseteq Known,
         NEW k, Note!Ids(k) \subseteq Known,
         list' = [list EXCEPT ![p] = l], local' \in {local, k}
  PROVE  Known' \subseteq Known
<1>1. Note!Ids(local') \subseteq Known
  BY DEF Known
<1>2. \A q \in Tabs : Note!Ids(list'[q]) \subseteq Known
  <2>1. \A q \in Tabs : list'[q] = l \/ list'[q] = list[q]
    BY DEF ListsInv
  <2> QED  BY <2>1 DEF Known
<1>3. Known' = {Note!Here} \cup Note!Ids(local') \cup UNION {Note!Ids(list'[q]) : q \in Tabs}
  BY DEF Known, Note!Ids
<1>4. Note!Here \in Known
  BY DEF Known
<1> QED  BY <1>1, <1>2, <1>3, <1>4

LEMMA OneListKeeps ==
  ASSUME NotesInv, NEW p \in Tabs,
         NEW l \in Seq(Entries), Descends(l), Note!Ids(l) \subseteq Known,
         NEW k \in Seq(Entries), Descends(k), Note!Ids(k) \subseteq Known,
         list' = [list EXCEPT ![p] = l], local' \in {local, k},
         UNCHANGED <<queue, waiting, sends>>,
         gone' \subseteq gone \cup Known, Note!Here \notin gone',
         \A n \in Known' : n \in gone' => n \in shared',
         \/ /\ hand' = hand /\ link' = link
            /\ Note!Ids(l) \subseteq Note!Ids(list[p]) \cup {Note!Here}
         \/ /\ hand' = [hand EXCEPT ![p] = <<>>] \/ (hand' = hand /\ hand[p] = <<>>)
            /\ \E s \in {"closed", "up"} : link' = [link EXCEPT ![p] = s]
  PROVE  NotesInv'
<1>1. list'[p] = l /\ \A q \in Tabs \ {p} : list'[q] = list[q]
  BY DEF NotesInv, ListsInv
<1>2. ListsInv'
  BY <1>1 DEF NotesInv, ListsInv
<1>3. Known' \subseteq Known
  BY OneListKnown DEF NotesInv
<1>4. /\ DOMAIN hand' = Tabs /\ hand' = [q \in Tabs |-> hand'[q]]
      /\ link' \in [Tabs -> {"closed", "none", "up"}]
  BY DEF NotesInv
<1>5. \A q \in Tabs :
        \/ hand'[q] = <<>>
        \/ /\ hand'[q] = hand[q] /\ link'[q] = link[q]
           /\ Note!Ids(list'[q]) \subseteq Note!Ids(list[q]) \cup {Note!Here}
  BY <1>1 DEF NotesInv
<1> QED  BY <1>2, <1>3, <1>4, <1>5, PagesKeep

LEMMA OneListMoves ==
  ASSUME NotesInv, NEW p \in Tabs,
         NEW l \in Seq(Entries), Descends(l), Note!Ids(l) \subseteq Known,
         NEW k \in Seq(Entries), Descends(k), Note!Ids(k) \subseteq Known,
         list' = [list EXCEPT ![p] = l], local' \in {local, k},
         UNCHANGED <<queue, waiting, sends, gone, shared>>,
         \/ /\ hand' = hand /\ link' = link
            /\ Note!Ids(l) \subseteq Note!Ids(list[p]) \cup {Note!Here}
         \/ /\ hand' = [hand EXCEPT ![p] = <<>>] \/ (hand' = hand /\ hand[p] = <<>>)
            /\ \E s \in {"closed", "up"} : link' = [link EXCEPT ![p] = s]
  PROVE  NotesInv'
<1>1. Known' \subseteq Known
  BY OneListKnown DEF NotesInv
<1>2. Note!Here \notin gone' /\ \A n \in Known' : n \in gone' => n \in shared'
  BY <1>1 DEF NotesInv, KnownInv
<1> QED  BY <1>2, OneListKeeps

\* A stream takes the oldest notification: nobody has had it before.
LEMMA TakeKeeps ==
  ASSUME NotesInv, NEW p \in Tabs, Note!Take(p)
  PROVE  NotesInv'
<1>1. /\ link[p] = "up" /\ hand[p] = <<>> /\ Note!Receive
      /\ hand' = [hand EXCEPT ![p] = <<Head(queue)>>]
      /\ UNCHANGED <<link, list, local, gone, shared>>
  BY DEF Note!Take, Note!panel, Note!storage, Note!removals
<1>2. PICK h : h = Head(queue)
  OBVIOUS
<1>3. QueueInv' /\ (\A n : Past(n) => Past(n)' /\ n < h) /\ Past(h)' /\ h # 0
  BY <1>1, <1>2, ReceiveStep DEF NotesInv
<1>4. Known' = Known
  BY <1>1 DEF Known
<1>5. \A n \in Known \cup gone : n < h
  BY <1>3 DEF NotesInv, KnownInv
<1>6. KnownInv'
  BY <1>1, <1>3, <1>4 DEF NotesInv, KnownInv
<1>7. /\ hand'[p] = <<h>> /\ \A q \in Tabs \ {p} : hand'[q] = hand[q]
      /\ DOMAIN hand' = Tabs /\ hand' = [q \in Tabs |-> hand'[q]]
  BY <1>1, <1>2 DEF NotesInv
<1>8. h \in Nat
  BY <1>3 DEF Past
<1>9. HandInv(p)'
  <2>1. h \notin Known \cup gone
    BY <1>5, <1>8
  <2>2. \A m \in Note!Ids(list[p]) : m < h
    BY <1>5 DEF Known
  <2>3. \A q \in Tabs \ {p} : hand[q] # <<h>>
    <3>1. \A q \in Tabs : hand[q] # <<>> => \E n \in Nat : hand[q] = <<n>> /\ n < h
      BY <1>3 DEF NotesInv, HandInv
    <3> QED  BY SMTT(30), <1>8, <3>1
  <2> QED  BY <1>1, <1>3, <1>4, <1>7, <1>8, <2>1, <2>2, <2>3 DEF HandInv
<1>10. ASSUME NEW q \in Tabs \ {p}  PROVE HandInv(q)'
  <2> SUFFICES ASSUME hand'[q] # <<>>
               PROVE  \E n \in Nat : /\ hand'[q] = <<n>> /\ link'[q] = "up"
                                     /\ Past(n)' /\ n \notin Known' \cup gone'
                                     /\ \A m \in Note!Ids(list'[q]) : m < n
                                     /\ \A t \in Tabs \ {q} : hand'[t] # <<n>>
    BY DEF HandInv, Note!Ids
  <2>1. PICK n \in Nat : /\ hand[q] = <<n>> /\ link[q] = "up"
                         /\ Past(n) /\ n \notin Known \cup gone
                         /\ \A m \in Note!Ids(list[q]) : m < n
                         /\ \A t \in Tabs \ {q} : hand[t] # <<n>>
    BY <1>7 DEF NotesInv, HandInv
  <2>2. n < h /\ Past(n)'
    BY <1>3, <2>1
  <2>3. <<h>> # <<n>>
    BY <1>8, <2>2
  <2>4. \A t \in Tabs \ {q} : hand'[t] # <<n>>
    BY <1>7, <2>1, <2>3
  <2> QED  BY <1>1, <1>4, <1>7, <2>1, <2>2, <2>4
<1> QED  BY <1>1, <1>3, <1>6, <1>7, <1>9, <1>10 DEF NotesInv, ListsInv

\* What was in the hand of the stream comes to the page.
LEMMA ArriveKeeps ==
  ASSUME NotesInv, NEW p \in Tabs, hand[p] # <<>>, hand' = [hand EXCEPT ![p] = <<>>],
         Note!Notify(p, Head(hand[p])),
         link' \in [Tabs -> {"closed", "none", "up"}],
         \A q \in Tabs \ {p} : link'[q] = link[q],
         UNCHANGED <<queue, waiting, sends, gone, shared>>
  PROVE  NotesInv'
<1>1. PICK n \in Nat : /\ hand[p] = <<n>> /\ Past(n) /\ n \notin Known \cup gone
                       /\ \A m \in Note!Ids(list[p]) : m < n
                       /\ \A q \in Tabs \ {p} : hand[q] # <<n>>
  BY DEF NotesInv, HandInv
<1> DEFINE e == [id |-> n, read |-> FALSE]
           l == <<e>> \o list[p]
<1>2. e \in Entries /\ e.id = n
  BY DEF Entries
<1>3. Head(hand[p]) = n
  BY <1>1
<1>4. list' = [list EXCEPT ![p] = l] /\ local' = list'[p]
  BY <1>3 DEF Note!Notify, Note!Store
<1> HIDE DEF e
<1>5. l \in Seq(Entries) /\ Descends(l) /\ Note!Ids(l) = {n} \cup Note!Ids(list[p])
  BY <1>1, <1>2, PrependFacts DEF NotesInv, ListsInv
<1> HIDE DEF l
<1>6. list'[p] = l /\ local' = l /\ \A q \in Tabs \ {p} : list'[q] = list[q]
  BY <1>4 DEF NotesInv, ListsInv
<1>7. ListsInv'
  BY <1>4, <1>5, <1>6 DEF NotesInv, ListsInv
<1>8. Known' \subseteq Known \cup {n}
  <2>1. Known' = {Note!Here} \cup Note!Ids(local') \cup UNION {Note!Ids(list'[q]) : q \in Tabs}
    BY DEF Known, Note!Ids
  <2>2. \A q \in Tabs : Note!Ids(list'[q]) \subseteq Known \cup {n}
    BY <1>5, <1>6 DEF Known
  <2>3. Note!Here \in Known
    BY DEF Known
  <2> QED  BY <1>6, <2>1, <2>2, <2>3
<1>9. QueueInv' /\ \A m : Past(m) => Past(m)'
  BY DEF NotesInv, QueueInv, Coming, Past
<1>10. KnownInv'
  BY <1>1, <1>8, <1>9 DEF NotesInv, KnownInv
<1>11. /\ hand'[p] = <<>> /\ \A q \in Tabs \ {p} : hand'[q] = hand[q]
       /\ DOMAIN hand' = Tabs /\ hand' = [q \in Tabs |-> hand'[q]]
  BY DEF NotesInv
<1>12. ASSUME NEW q \in Tabs  PROVE HandInv(q)'
  <2> SUFFICES ASSUME hand'[q] # <<>>
               PROVE  \E m \in Nat : /\ hand'[q] = <<m>> /\ link'[q] = "up"
                                     /\ Past(m)' /\ m \notin Known' \cup gone'
                                     /\ \A x \in Note!Ids(list'[q]) : x < m
                                     /\ \A t \in Tabs \ {q} : hand'[t] # <<m>>
    BY DEF HandInv, Note!Ids
  <2>1. q # p /\ hand'[q] = hand[q]
    BY <1>11
  <2>2. PICK m \in Nat : /\ hand[q] = <<m>> /\ link[q] = "up"
                         /\ Past(m) /\ m \notin Known \cup gone
                         /\ \A x \in Note!Ids(list[q]) : x < m
                         /\ \A t \in Tabs \ {q} : hand[t] # <<m>>
    BY <2>1 DEF NotesInv, HandInv
  <2>3. m # n
    BY <1>1, <2>1, <2>2
  <2>4. \A t \in Tabs \ {q} : hand'[t] # <<m>>
    BY <1>11, <2>2
  <2> QED  BY <1>6, <1>8, <1>9, <2>1, <2>2, <2>3, <2>4
<1> QED  BY <1>7, <1>9, <1>10, <1>11, <1>12 DEF NotesInv

\* A page notifies itself.
LEMMA NotifyHereKeeps ==
  ASSUME NotesInv, NEW p \in Tabs, Note!NotifyHere(p)
  PROVE  NotesInv'
<1> DEFINE e == [id |-> Note!Here, read |-> FALSE]
           l == <<e>> \o list[p]
<1>1. e \in Entries /\ e.id = Note!Here
  BY DEF Entries, Note!Here
<1>2. list' = [list EXCEPT ![p] = l] /\ local' = list'[p]
  BY DEF Note!NotifyHere, Note!Notify, Note!Store
<1>3. UNCHANGED <<queue, waiting, sends, link, hand, gone, shared>>
  BY DEF Note!NotifyHere, Note!server, Note!streams, Note!removals
<1> HIDE DEF e
<1>4. l \in Seq(Entries) /\ Descends(l) /\ Note!Ids(l) = {Note!Here} \cup Note!Ids(list[p])
  BY <1>1, PrependFacts DEF NotesInv, ListsInv
<1> HIDE DEF l
<1>5. local' = l
  BY <1>2 DEF NotesInv, ListsInv
<1>6. Note!Ids(l) \subseteq Known
  BY <1>4 DEF Known
<1> QED  BY <1>2, <1>3, <1>4, <1>5, <1>6, OneListMoves

\* removeBanner
LEMMA RemoveBannerKeeps ==
  ASSUME NotesInv, NEW p \in Tabs, NEW ids, Note!RemoveBanner(p, ids),
         UNCHANGED <<queue, waiting, sends, link, hand, gone, shared>>
  PROVE  NotesInv'
<1> DEFINE l == Note!Marked(list[p], ids)
<1>1. list[p] \in Seq(Entries) /\ Descends(list[p]) /\ Note!Ids(list[p]) \subseteq Known
  BY DEF NotesInv, ListsInv, Known
<1>2. l \in Seq(Entries) /\ Descends(l) /\ Note!Ids(l) = Note!Ids(list[p])
  BY <1>1, MarkedFacts
<1>3. list' = [list EXCEPT ![p] = l] /\ local' \in {local, list'[p]}
  BY DEF Note!RemoveBanner
<1> HIDE DEF l
<1>4. local' \in {local, l}
  BY <1>3 DEF NotesInv, ListsInv
<1> QED  BY <1>1, <1>2, <1>3, <1>4, OneListMoves

\* removeNotification
LEMMA RemoveKeeps ==
  ASSUME NotesInv, NEW p \in Tabs, NEW n, Note!RemoveNotification(p, n)
  PROVE  NotesInv'
<1> DEFINE l == Note!Without(list[p], n)
<1>1. list[p] \in Seq(Entries) /\ Descends(list[p]) /\ Note!Ids(list[p]) \subseteq Known
  BY DEF NotesInv, ListsInv, Known
<1>2. l \in Seq(Entries) /\ Descends(l) /\ Note!Ids(l) \subseteq Note!Ids(list[p]) \ {n}
  BY <1>1, WithoutFacts
<1>3. /\ list' = [list EXCEPT ![p] = l] /\ local' = list'[p] /\ n \in Note!Ids(list[p])
      /\ gone' = gone \cup ({n} \cap Note!Sent)
      /\ shared' = IF Note!Others(p, n) THEN shared \cup {n} ELSE shared
      /\ UNCHANGED <<queue, waiting, sends, link, hand>>
  BY DEF Note!RemoveNotification, Note!Store, Note!server, Note!streams
<1> HIDE DEF l
<1>4. local' = l /\ list'[p] = l /\ \A q \in Tabs \ {p} : list'[q] = list[q]
  BY <1>3 DEF NotesInv, ListsInv
<1>5. Known' \subseteq Known
  BY <1>1, <1>2, <1>3, <1>4, OneListKnown DEF NotesInv
<1>6. gone' \subseteq gone \cup Known /\ Note!Here \notin gone'
  BY <1>1, <1>3 DEF NotesInv, KnownInv, Note!Sent, Note!Here
<1>7. ASSUME NEW x \in Known', x \in gone'  PROVE x \in shared'
  <2>1. CASE x # n
    BY <1>3, <1>5, <1>7, <2>1 DEF NotesInv, KnownInv
  <2>2. CASE x = n
    <3>1. n # Note!Here
      BY <1>6, <1>7, <2>2
    <3>2. Known' = {Note!Here} \cup Note!Ids(local')
                     \cup UNION {Note!Ids(list'[q]) : q \in Tabs}
      BY DEF Known, Note!Ids
    <3>3. \E q \in Tabs \ {p} : n \in Note!Ids(list[q])
      BY <1>2, <1>4, <1>7, <2>2, <3>1, <3>2
    <3> QED  BY <1>3, <2>2, <3>3 DEF Note!Others
  <2> QED  BY <2>1, <2>2
<1> QED  BY <1>1, <1>2, <1>3, <1>4, <1>6, <1>7, OneListKeeps

\* A page is opened, and has no stream yet.
LEMMA OpenKeeps ==
  ASSUME NotesInv, NEW p \in Tabs, Note!Open(p)
  PROVE  NotesInv'
<1>1. /\ list' = [list EXCEPT ![p] = local] /\ link[p] = "closed"
      /\ link' = [link EXCEPT ![p] = "up"]
      /\ UNCHANGED <<queue, waiting, sends, hand, local, gone, shared>>
  BY DEF Note!Open, Note!server, Note!storage, Note!removals
<1>2. hand[p] = <<>>
  BY <1>1 DEF NotesInv, HandInv
<1>3. local \in Seq(Entries) /\ Descends(local) /\ Note!Ids(local) \subseteq Known
  BY DEF NotesInv, ListsInv, Known
<1> QED  BY <1>1, <1>2, <1>3, OneListMoves

\* A page is left.
LEMMA LeaveKeeps ==
  ASSUME NotesInv, NEW p \in Tabs, Note!Leave(p)
  PROVE  NotesInv'
<1> DEFINE k == Note!Marked(list[p], Note!Ids(list[p]))
<1>1. /\ list' = [list EXCEPT ![p] = <<>>] /\ local' \in {local, k}
      /\ link' = [link EXCEPT ![p] = "closed"] /\ hand' = [hand EXCEPT ![p] = <<>>]
      /\ UNCHANGED <<queue, waiting, sends, gone, shared>>
  BY DEF Note!Leave, Note!server, Note!removals
<1>2. list[p] \in Seq(Entries) /\ Descends(list[p]) /\ Note!Ids(list[p]) \subseteq Known
  BY DEF NotesInv, ListsInv, Known
<1>3. k \in Seq(Entries) /\ Descends(k) /\ Note!Ids(k) = Note!Ids(list[p])
  BY <1>2, MarkedFacts
<1> HIDE DEF k
<1>4. /\ <<>> \in Seq(Entries) /\ Descends(<<>>) /\ Note!Ids(<<>>) \subseteq Known
  BY EmptyList
<1>5. \E s \in {"closed", "up"} : link' = [link EXCEPT ![p] = s]
  BY <1>1
<1>6. Note!Ids(k) \subseteq Known
  BY <1>2, <1>3
<1> QED  BY <1>1, <1>3, <1>4, <1>5, <1>6, OneListMoves

\* The stream of a page connects again, one without a page ends, the storage is
\* cleared, or a slow flush loses what it has.
LEMMA RestKeeps ==
  ASSUME NotesInv, UNCHANGED <<queue, waiting, sends, list, gone, shared>>,
         local' \in {local, <<>>},
         DOMAIN hand' = Tabs, hand' = [p \in Tabs |-> hand'[p]],
         link' \in [Tabs -> {"closed", "none", "up"}],
         \A p \in Tabs : hand'[p] = <<>> \/ (hand'[p] = hand[p] /\ link'[p] = link[p])
  PROVE  NotesInv'
<1>1. ListsInv'
  BY EmptyList DEF NotesInv, ListsInv
<1>2. Known' \subseteq Known
  BY EmptyList DEF Known
<1>3. \A n \in Known' : n \in gone' => n \in shared'
  BY <1>2 DEF NotesInv, KnownInv
<1>4. gone' \subseteq gone \cup Known /\ Note!Here \notin gone'
  BY DEF NotesInv, KnownInv
<1> QED  BY <1>1, <1>2, <1>3, <1>4, PagesKeep

-----------------------------------------------------------------------------
(* The invariant, and what follows from it.                                *)

LEMMA NotesInit == Note!Init => NotesInv
<1> SUFFICES ASSUME Note!Init  PROVE NotesInv
  OBVIOUS
<1>1. /\ queue = <<>> /\ waiting = <<>> /\ sends = 0
      /\ link = [p \in Tabs |-> "closed"] /\ hand = [p \in Tabs |-> <<>>]
      /\ list = [p \in Tabs |-> <<>>] /\ local = <<>> /\ gone = {} /\ shared = {}
  BY DEF Note!Init
<1>2. QueueInv /\ Coming = {}
  <2>1. <<>> \in Seq(Nat) /\ DOMAIN <<>> = {}
    BY EmptySeq
  <2> QED  BY <1>1, <2>1 DEF QueueInv, Coming, Ascends
<1>3. ListsInv
  BY <1>1, EmptyList DEF ListsInv
<1>4. Known = {Note!Here}
  BY <1>1, EmptyList DEF Known
<1>5. KnownInv
  BY <1>1, <1>2, <1>4 DEF KnownInv, Past, Note!Here
<1> QED  BY <1>1, <1>2, <1>3, <1>5 DEF NotesInv, HandInv

LEMMA NotesNext == NotesInv /\ [Note!Next]_(Note!vars) => NotesInv'
<1> SUFFICES ASSUME NotesInv, [Note!Next]_(Note!vars)  PROVE NotesInv'
  OBVIOUS
<1> USE DEF Note!server, Note!streams, Note!panel, Note!storage, Note!removals
<1>1. CASE Note!Send \/ Note!GiveUp
  <2>1. QueueInv' /\ \A n : Past(n) => Past(n)'
    BY <1>1, SendStep, GiveUpStep DEF NotesInv
  <2>2. UNCHANGED <<link, hand, list, local, gone, shared>>
    BY <1>1 DEF Note!Send, Note!GiveUp
  <2> QED  BY <2>1, <2>2, ServerKeeps
<1>2. CASE Note!TakeForNobody
  <2>1. Note!Receive /\ UNCHANGED <<link, hand, list, local, gone, shared>>
    BY <1>2 DEF Note!TakeForNobody
  <2>2. QueueInv' /\ \A n : Past(n) => Past(n)'
    <3>1. PICK h : h = Head(queue)
      OBVIOUS
    <3> QED  BY <2>1, <3>1, ReceiveStep DEF NotesInv
  <2> QED  BY <2>1, <2>2, ServerKeeps
<1>3. CASE Note!OrphanEnds
  BY <1>3, RestKeeps DEF Note!OrphanEnds, NotesInv
<1>4. CASE Note!Reset
  BY <1>4, RestKeeps DEF Note!Reset, NotesInv
<1>5. CASE UNCHANGED Note!vars
  BY <1>5, RestKeeps DEF Note!vars, NotesInv
<1>6. ASSUME NEW p \in Tabs, Note!Reconnect(p)  PROVE NotesInv'
  <2>1. /\ link[p] = "none" /\ link' = [link EXCEPT ![p] = "up"]
        /\ UNCHANGED <<queue, waiting, sends, hand, list, local, gone, shared>>
    BY <1>6 DEF Note!Reconnect
  <2>2. hand[p] = <<>>
    BY <2>1 DEF NotesInv, HandInv
  <2> QED  BY <2>1, <2>2, RestKeeps DEF NotesInv
<1>7. ASSUME NEW p \in Tabs, Note!Arrive(p)  PROVE NotesInv'
  BY <1>7, ArriveKeeps DEF Note!Arrive, NotesInv
<1>8. ASSUME NEW p \in Tabs, Note!FlushSlow(p)  PROVE NotesInv'
  <2>1. /\ hand[p] # <<>> /\ hand' = [hand EXCEPT ![p] = <<>>]
        /\ link' = [link EXCEPT ![p] = "none"]
        /\ UNCHANGED <<queue, waiting, sends, gone, shared>>
    BY <1>8 DEF Note!FlushSlow
  <2>2. CASE Note!Notify(p, Head(hand[p]))
    BY <2>1, <2>2, ArriveKeeps DEF NotesInv
  <2>3. CASE UNCHANGED <<list, local>>
    BY <2>1, <2>3, RestKeeps DEF NotesInv
  <2> QED  BY <1>8, <2>2, <2>3 DEF Note!FlushSlow
<1>9. ASSUME NEW p \in Tabs, NEW n, Note!Timer(p, n)  PROVE NotesInv'
  BY <1>9, RemoveBannerKeeps DEF Note!Timer
<1>10. ASSUME NEW p \in Tabs, Note!Dismiss(p)  PROVE NotesInv'
  BY <1>10, RemoveBannerKeeps DEF Note!Dismiss
<1> QED
  BY <1>1, <1>2, <1>3, <1>4, <1>5, <1>6, <1>7, <1>8, <1>9, <1>10, TakeKeeps,
     NotifyHereKeeps, OpenKeeps, LeaveKeeps, RemoveKeeps DEF Note!Next

\* A behaviour of the browser is one of the notifications: the other parts leave
\* them alone.
LEMMA NotesBehave == BrowserSpec => Note!Spec
<1>1. BrowserInit => Note!Init
  BY DEF BrowserInit
<1>2. [BrowserNext]_<<vars, panel, cell, notes, part>> => [Note!Next]_(Note!vars)
  <2>1. BrowserNext => Note!Next \/ notes' = notes
    BY DEF BrowserNext
  <2>2. UNCHANGED <<vars, panel, cell, notes, part>> => notes' = notes
    OBVIOUS
  <2>3. notes' = notes => Note!vars' = Note!vars
    BY DEF notes, Note!vars, Note!server, Note!streams, Note!panel, Note!storage, Note!removals
  <2> QED  BY <2>1, <2>2, <2>3
<1> QED  BY <1>1, <1>2, PTL DEF BrowserSpec, Note!Spec

LEMMA AlwaysNotesInv == BrowserSpec => []NotesInv
BY NotesInit, NotesNext, NotesBehave, PTL DEF Note!Spec

\* Whatever pages listen, leave, come back and store over each other's lists, a page
\* lists the notifications of the server newest first and none twice, so that the
\* first is the one in the banner (notification.ts:122).
THEOREM NewestFirst == BrowserSpec => []FirstIsNewest
<1>1. NotesInv => FirstIsNewest
  BY DEF NotesInv, ListsInv, Descends, FirstIsNewest, Note!FirstIsNewest
<1> QED  BY <1>1, AlwaysNotesInv, PTL

\* A notification that was removed in the only page that listed it does not come
\* back (removeNotification, notification.ts:142).
THEOREM RemovedNotificationStaysAway == BrowserSpec => []RemovedStaysAway
<1>1. NotesInv => RemovedStaysAway
  BY DEF NotesInv, KnownInv, Known, RemovedStaysAway, Note!RemovedStaysAway
<1> QED  BY <1>1, AlwaysNotesInv, PTL

-----------------------------------------------------------------------------
(* The drawing of a cell: trees of nodes as the page has them.             *)
(*                                                                         *)
(* Between two turns the engine and the page match (Matched): the entities *)
(* are the elements with an identifier, in order, with their handler and   *)
(* what is below them.  During a turn, the tree the engine builds and what *)
(* the program so far draws are kept together after each node (Sim): the   *)
(* elements that are open have no scope yet (Drawn), the identifiers are   *)
(* new (Ids), and of the old page what is left are whole trees (Remains).  *)
(* ViewInv says this between turns; ViewNext is its step.                  *)

\* a node of the page
Shown == [id : Nat, what : Nat \X Nat, depth : Nat]

\* node j is node i or below it
Below(s, i, j) == i <= j /\ \A k \in (i + 1)..j : s[k].depth > s[i].depth

\* The tree of a node ends with the last one below it.
LEMMA EndIs ==
  ASSUME NEW s \in Seq(Shown), NEW i \in 1..Len(s)
  PROVE  /\ View!End(s, i) \in i..Len(s)
         /\ \A j \in i..Len(s) : Below(s, i, j) <=> j <= View!End(s, i)
<1> DEFINE Ends(j) ==
             /\ \A k \in (i + 1)..j : s[k].depth > s[i].depth
             /\ j = Len(s) \/ s[j + 1].depth <= s[i].depth
           Outside == {k \in (i + 1)..Len(s) : ~(s[k].depth > s[i].depth)}
           e == View!End(s, i)
<1>0. Len(s) \in Nat /\ \A k \in 1..Len(s) : s[k] \in Shown
  BY LenProperties, ElementOfSeq
<1>1. /\ Len(s) \in Nat /\ i \in Nat
      /\ \A k \in 1..Len(s) : s[k].depth \in Nat
  BY <1>0, SMTT(60) DEF Shown
<1>2. \E j \in i..Len(s) : Ends(j)
  <2>1. CASE Outside = {}
    <3>1. Len(s) \in i..Len(s) /\ \A k \in (i + 1)..Len(s) : s[k].depth > s[i].depth
      BY <1>1, <2>1
    <3> QED  BY <3>1
  <2>2. CASE Outside # {}
    <3>1. PICK k \in Outside : \A y \in Outside : k <= y
      <4>1. Outside \in SUBSET Nat
        BY <1>1
      <4> HIDE DEF Outside
      <4> QED  BY <2>2, <4>1, LeastExists
    <3>2. k - 1 \in i..Len(s) /\ (k - 1) + 1 = k
      BY <1>1, <3>1
    <3>3. \A y \in (i + 1)..(k - 1) : y \notin Outside /\ y \in (i + 1)..Len(s)
      BY <1>1, <3>1
    <3>4. s[k].depth <= s[i].depth
      BY <1>1, <3>1
    <3>5. Ends(k - 1)
      BY <3>2, <3>3, <3>4
    <3> QED  BY <3>2, <3>5
  <2> QED  BY <2>1, <2>2
<1>3. e \in i..Len(s) /\ Ends(e)
  <2>1. e = CHOOSE j \in i..Len(s) : Ends(j)
    BY DEF View!End
  <2> HIDE DEF Ends, e
  <2> QED  BY <1>2, <2>1, Zenon
<1>4. ASSUME NEW j \in i..Len(s)  PROVE Below(s, i, j) <=> j <= e
  <2> HIDE DEF e
  <2>1. CASE j <= e
    <3>1. \A k \in (i + 1)..j : k \in (i + 1)..e
      BY <1>1, <1>3, <2>1
    <3> QED  BY <1>1, <1>3, <2>1, <3>1 DEF Below
  <2>2. CASE ~(j <= e)
    <3>1. e # Len(s) /\ e + 1 \in (i + 1)..j /\ e + 1 \in 1..Len(s)
      BY <1>1, <1>3, <2>2
    <3>2. ~(s[e + 1].depth > s[i].depth)
      BY <1>1, <1>3, <3>1
    <3> QED  BY <2>2, <3>1, <3>2 DEF Below
  <2> QED  BY <2>1, <2>2
<1> QED  BY <1>3, <1>4

\* getElementById finds an element with the identifier if there is one.
LEMMA ByIdIs ==
  ASSUME NEW s \in Seq(Shown), NEW e
  PROVE  /\ View!ById(s, e) \in 0..Len(s)
         /\ View!ById(s, e) # 0 => s[View!ById(s, e)].id = e
         /\ View!ById(s, e) = 0 => \A i \in 1..Len(s) : s[i].id # e
<1> DEFINE is == {i \in DOMAIN s : s[i].id = e}
           First(i) == \A j \in is : i <= j
           b == View!ById(s, e)
<1>1. Len(s) \in Nat /\ DOMAIN s = 1..Len(s) /\ is \in SUBSET Nat
  BY LenProperties
<1>2. b = IF is = {} THEN 0 ELSE CHOOSE i \in is : First(i)
  BY DEF View!ById
<1>3. CASE is = {}
  <2>1. b = 0
    BY <1>2, <1>3
  <2>2. \A i \in 1..Len(s) : s[i].id # e
    BY <1>1, <1>3
  <2> QED  BY <1>1, <2>1, <2>2
<1>4. CASE is # {}
  <2>1. \E i \in is : First(i)
    BY <1>1, <1>4, LeastExists
  <2>2. b \in is
    <3> HIDE DEF is, First, b
    <3> QED  BY <1>2, <1>4, <2>1, Zenon
  <2>3. b \in 1..Len(s) /\ s[b].id = e
    <3> HIDE DEF b
    <3> QED  BY <1>1, <2>2
  <2>4. b # 0 /\ b \in 0..Len(s)
    <3> HIDE DEF b
    <3> QED  BY <1>1, <2>3
  <2> QED  BY <2>3, <2>4
<1> QED  BY <1>3, <1>4

\* What is taken from the page is a tree of its own, at the depth it is put to.
LEMMA PartIs ==
  ASSUME NEW s \in Seq(Shown), NEW i \in 1..Len(s), NEW d \in Nat
  PROVE  LET n == View!End(s, i) - i + 1
             p == View!Part(s, i, d)
         IN /\ p \in Seq(Shown) /\ Len(p) = n /\ n \in Nat \ {0}
            /\ \A k \in 1..n : /\ i + k - 1 \in 1..Len(s)
                               /\ p[k].id = s[i + k - 1].id /\ p[k].what = s[i + k - 1].what
                               /\ p[k].depth = s[i + k - 1].depth - s[i].depth + d
<1> DEFINE n == View!End(s, i) - i + 1
           p == View!Part(s, i, d)
<1>1. Len(s) \in Nat /\ i \in Nat /\ n \in Nat \ {0}
      /\ \A k \in 1..n : i + k - 1 \in 1..Len(s) /\ i + k - 1 \in i..View!End(s, i)
  BY LenProperties, EndIs
<1>2. \A k \in 1..n : s[i + k - 1] \in Shown
  BY <1>1, ElementOfSeq
<1>3. \A k \in 1..n : s[i + k - 1].depth - s[i].depth + d \in Nat
  <2> SUFFICES ASSUME NEW k \in 1..n  PROVE s[i + k - 1].depth - s[i].depth + d \in Nat
    OBVIOUS
  <2>0. i + k - 1 \in i..Len(s) /\ i + k - 1 <= View!End(s, i)
    BY <1>1, EndIs
  <2>1. Below(s, i, i + k - 1)
    BY <2>0, EndIs
  <2>2. s[i].depth \in Nat /\ s[i + k - 1].depth \in Nat
    <3>1. s[i] \in Shown /\ s[i + k - 1] \in Shown
      BY <1>2, ElementOfSeq, LenProperties
    <3> HIDE DEF n
    <3> QED  BY <3>1 DEF Shown
  <2>3. CASE k = 1
    BY <1>1, <2>2, <2>3
  <2>4. CASE k # 1
    <3>0. k \in Nat /\ d \in Nat
      BY <1>1
    <3>1. i + k - 1 \in (i + 1)..(i + k - 1)
      BY <1>1, <2>4
    <3>2. s[i + k - 1].depth > s[i].depth
      BY <2>1, <3>1 DEF Below
    <3> HIDE DEF n
    <3> QED  BY <2>2, <3>0, <3>2
  <2> QED  BY <2>3, <2>4
<1>4. p = [k \in 1..n |-> [s[i + k - 1] EXCEPT !.depth = s[i + k - 1].depth - s[i].depth + d]]
  BY DEF View!Part
<1> HIDE DEF n, p
<1>5. \A k \in 1..n :
        /\ p[k] \in Shown
        /\ p[k].id = s[i + k - 1].id /\ p[k].what = s[i + k - 1].what
        /\ p[k].depth = s[i + k - 1].depth - s[i].depth + d
  BY <1>2, <1>3, <1>4 DEF Shown
<1>6. p \in [1..n -> Shown]
  BY <1>4, <1>5
<1>7. p \in Seq(Shown) /\ Len(p) = n
  BY <1>1, <1>6, IsASeq, LenProperties
<1> QED  BY <1>1, <1>5, <1>7 DEF n, p

\* The nodes without a tree.
LEMMA WithoutIs ==
  ASSUME NEW s \in Seq(Shown), NEW i \in 1..Len(s)
  PROVE  LET n == View!End(s, i) - i + 1
             r == View!Without(s, i)
         IN /\ r \in Seq(Shown) /\ Len(r) = Len(s) - n /\ n \in Nat \ {0} /\ Len(r) \in Nat
            /\ \A k \in 1..Len(r) : r[k] = IF k < i THEN s[k] ELSE s[k + n]
<1> DEFINE e == View!End(s, i)
           a == SubSeq(s, 1, i - 1)
           b == SubSeq(s, e + 1, Len(s))
<1>1. Len(s) \in Nat /\ i \in Nat /\ e \in Nat /\ i <= e /\ e <= Len(s)
  BY LenProperties, EndIs
<1>2. a \in Seq(Shown) /\ Len(a) = i - 1 /\ \A k \in 1..(i - 1) : a[k] = s[k]
  <2>1. \A k \in 1..(i - 1) : s[k] \in Shown
    BY <1>1, ElementOfSeq
  <2> QED  BY <1>1, <2>1, SubSeqProperties
<1> HIDE DEF e
<1>3. b \in Seq(Shown) /\ Len(b) = Len(s) - e /\ \A k \in 1..(Len(s) - e) : b[k] = s[e + k]
  <2>1. \A k \in (e + 1)..Len(s) : s[k] \in Shown
    BY <1>1, ElementOfSeq
  <2> QED  BY <1>1, <2>1, SubSeqProperties
<1> HIDE DEF a, b
<1> DEFINE r == a \o b
<1>4. /\ r \in Seq(Shown) /\ Len(r) = (i - 1) + (Len(s) - e)
      /\ \A k \in 1..((i - 1) + (Len(s) - e)) : r[k] = IF k <= i - 1 THEN a[k] ELSE b[k - (i - 1)]
  <2>1. /\ r \in Seq(Shown) /\ Len(r) = Len(a) + Len(b)
        /\ \A k \in 1..(Len(a) + Len(b)) : r[k] = IF k <= Len(a) THEN a[k] ELSE b[k - Len(a)]
    BY <1>2, <1>3, ConcatProperties
  <2> QED  BY <1>2, <1>3, <2>1
<1> HIDE DEF r
<1>5. ASSUME NEW k \in 1..((i - 1) + (Len(s) - e))
      PROVE  r[k] = IF k < i THEN s[k] ELSE s[k + (e - i + 1)]
  <2>1. CASE k < i
    <3>1. k \in 1..(i - 1) /\ k <= i - 1
      BY <1>1, <2>1
    <3> QED  BY <1>2, <1>4, <2>1, <3>1
  <2>2. CASE ~(k < i)
    <3>1. /\ k - (i - 1) \in 1..(Len(s) - e) /\ e + (k - (i - 1)) = k + (e - i + 1)
          /\ ~(k <= i - 1)
      BY <1>1, <2>2
    <3> QED  BY <1>3, <1>4, <2>2, <3>1
  <2> QED  BY <1>1, <2>1, <2>2
<1>6. (i - 1) + (Len(s) - e) = Len(s) - (e - i + 1) /\ e - i + 1 \in Nat \ {0}
      /\ (i - 1) + (Len(s) - e) \in Nat
  BY <1>1
<1>7. View!Without(s, i) = r
  BY DEF View!Without, r, a, b, e
<1> QED  BY <1>4, <1>5, <1>6, <1>7 DEF e

\* A bounded set of numbers that is not empty has a greatest one.
LEMMA GreatestExists ==
  ASSUME NEW n \in Nat, NEW S \in SUBSET (0..n), S # {}
  PROVE  \E x \in S : \A y \in S : y <= x
<1> DEFINE T == {m \in 0..n : n - m \in S}
<1>1. \A x \in S : x \in 0..n /\ n - x \in 0..n /\ n - (n - x) = x
  OBVIOUS
<1>2. T \in SUBSET Nat /\ T # {}
  <2>1. PICK x \in S : TRUE
    OBVIOUS
  <2>2. n - x \in T
    BY <1>1, <2>1
  <2>3. \A m \in T : m \in Nat
    OBVIOUS
  <2> HIDE DEF T
  <2> QED  BY <2>2, <2>3
<1>3. PICK m \in T : \A k \in T : m <= k
  BY <1>2, LeastExists
<1>4. \A y \in S : n - y \in T
  BY <1>1
<1>5. \A y \in S : y <= n - m
  BY <1>1, <1>3, <1>4
<1> QED  BY <1>3, <1>5

\* What is left of a page: the nodes p of it, with the nodes around each of them.
Left(s, t, p) ==
  /\ p \in [1..Len(t) -> 1..Len(s)]
  /\ \A x, y \in 1..Len(t) : x < y => p[x] < p[y]
  /\ \A x \in 1..Len(t) : t[x] = s[p[x]]
  /\ \A x \in 1..Len(t) : \A y \in 1..Len(s) :
       Below(s, y, p[x]) => \E z \in 1..Len(t) : p[z] = y

\* Of what is left, the same nodes are below one another.
LEMMA LeftBelow ==
  ASSUME NEW s \in Seq(Shown), NEW t \in Seq(Shown), NEW p, Left(s, t, p),
         NEW i \in 1..Len(t), NEW j \in 1..Len(t)
  PROVE  Below(t, i, j) <=> Below(s, p[i], p[j])
<1>1. /\ Len(s) \in Nat /\ Len(t) \in Nat /\ i \in Nat /\ j \in Nat
      /\ \A k \in 1..Len(s) : s[k] \in Shown
  BY LenProperties, ElementOfSeq
<1>2. \A k \in 1..Len(s) : s[k].depth \in Nat
  BY <1>1 DEF Shown
<1>3. /\ \A x \in 1..Len(t) : p[x] \in 1..Len(s) /\ p[x] \in Nat /\ t[x] = s[p[x]]
      /\ \A x, y \in 1..Len(t) : x < y => p[x] < p[y]
      /\ \A x \in 1..Len(t) : \A y \in 1..Len(s) :
           Below(s, y, p[x]) => \E z \in 1..Len(t) : p[z] = y
  BY SMTT(60) DEF Left
<1>4. ASSUME Below(s, p[i], p[j])  PROVE Below(t, i, j)
  <2>1. i <= j
    BY <1>1, <1>3, <1>4 DEF Below
  <2>2. ASSUME NEW k \in (i + 1)..j  PROVE t[k].depth > t[i].depth
    <3>1. k \in 1..Len(t) /\ i < k /\ (k < j \/ k = j)
      BY <1>1
    <3>2. p[k] \in (p[i] + 1)..p[j]
      BY <1>1, <1>3, <3>1
    <3> QED  BY <1>3, <1>4, <3>1, <3>2 DEF Below
  <2> QED  BY <2>1, <2>2 DEF Below
<1>5. ASSUME Below(t, i, j)  PROVE Below(s, p[i], p[j])
  <2>1. i <= j /\ p[i] <= p[j]
    BY <1>1, <1>3, <1>5 DEF Below
  <2> DEFINE S == {y \in (p[i] + 1)..p[j] : ~(s[y].depth > s[p[i]].depth)}
  <2>2. SUFFICES ASSUME S # {}  PROVE FALSE
    BY <2>1 DEF Below
  <2>3. S \in SUBSET (0..Len(s))
    BY <1>1, <1>3
  <2>4. PICK y \in S : \A z \in S : z <= y
    <3> HIDE DEF S
    <3> QED  BY <1>1, <2>2, <2>3, GreatestExists
  <2>5. y \in 1..Len(s) /\ y \in Nat /\ p[i] < y /\ y <= p[j] /\ s[y].depth <= s[p[i]].depth
    <3>1. p[i] \in 1..Len(s) /\ p[j] \in 1..Len(s)
      BY <1>3
    <3>2. y \in (p[i] + 1)..p[j] /\ ~(s[y].depth > s[p[i]].depth)
      BY <2>4
    <3>3. y \in 1..Len(s) /\ y \in Nat /\ p[i] < y /\ y <= p[j]
      <4> HIDE DEF S
      <4> QED  BY <1>1, <3>1, <3>2
    <3>4. s[y].depth \in Nat /\ s[p[i]].depth \in Nat
      BY <1>2, <3>1, <3>3
    <3>5. \A a, b \in Nat : ~(a > b) => a <= b
      OBVIOUS
    <3> QED  BY <3>2, <3>3, <3>4, <3>5, Zenon
  <2>6. Below(s, y, p[j])
    <3>1. ASSUME NEW k \in (y + 1)..p[j]  PROVE s[k].depth > s[y].depth
      <4>1. k \in (p[i] + 1)..p[j] /\ k \notin S /\ k \in 1..Len(s)
        BY <1>1, <1>3, <2>4, <2>5
      <4>2. s[k].depth > s[p[i]].depth
        BY <4>1
      <4>3. s[k].depth \in Nat /\ s[y].depth \in Nat /\ s[p[i]].depth \in Nat
        <5>1. p[i] \in 1..Len(s)
          BY <1>3
        <5> QED  BY <1>2, <2>5, <4>1, <5>1
      <4>4. \A a, b, c \in Nat : a > b /\ c <= b => a > c
        OBVIOUS
      <4> QED  BY <2>5, <4>2, <4>3, <4>4, Zenon
    <3> QED  BY <2>5, <3>1 DEF Below
  <2>7. PICK z \in 1..Len(t) : p[z] = y
    BY <1>3, <2>5, <2>6
  <2>8. z \in Nat /\ i < z /\ z <= j
    BY <1>1, <1>3, <2>5, <2>7
  <2>9. t[z].depth > t[i].depth
    BY <1>1, <1>5, <2>8 DEF Below
  <2>10. s[y].depth > s[p[i]].depth
    BY <1>3, <2>7, <2>9
  <2> QED  BY <2>4, <2>10
<1> QED  BY <1>4, <1>5

\* What is below a node is below those it is below.
LEMMA BelowTransitive ==
  ASSUME NEW s \in Seq(Shown), NEW i \in 1..Len(s), NEW j \in 1..Len(s), NEW k \in 1..Len(s),
         Below(s, i, j), Below(s, j, k)
  PROVE  Below(s, i, k)
<1>1. Len(s) \in Nat /\ i \in Nat /\ j \in Nat /\ k \in Nat /\ i <= j /\ j <= k
  BY LenProperties DEF Below
<1>0. \A x \in 1..Len(s) : s[x] \in Shown
  BY ElementOfSeq
<1>2. \A x \in 1..Len(s) : s[x].depth \in Nat
  BY <1>0 DEF Shown
<1>3. ASSUME NEW x \in (i + 1)..k  PROVE s[x].depth > s[i].depth
  <2>1. x \in 1..Len(s)
    BY <1>1
  <2>2. CASE x <= j
    BY <1>1, <2>2 DEF Below
  <2>3. CASE ~(x <= j)
    <3>1. x \in (j + 1)..k
      BY <1>1, <2>3
    <3>2. s[x].depth > s[j].depth
      BY <3>1 DEF Below
    <3>3. i = j \/ s[j].depth > s[i].depth
      BY <1>1 DEF Below
    <3> QED  BY <1>2, <2>1, <3>2, <3>3
  <2> QED  BY <2>2, <2>3
<1> QED  BY <1>1, <1>3 DEF Below

\* Of two nodes that a node is below, the second is below the first.
LEMMA BelowBoth ==
  ASSUME NEW s \in Seq(Shown), NEW i \in 1..Len(s), NEW j \in 1..Len(s), NEW k \in 1..Len(s),
         Below(s, i, k), Below(s, j, k), i <= j
  PROVE  Below(s, i, j)
BY DEF Below

-----------------------------------------------------------------------------
(* The page and the tree of the engine.                                    *)

\* an entity of the engine's tree
Entity == [ntt : Nat, scp : Nat, hdl : Nat \X Nat]

\* The entities of the engine are the elements with an identifier, in their order.
Places(g, s, mk) ==
  /\ mk \in [1..Len(g) -> 1..Len(s)]
  /\ \A x, y \in 1..Len(g) : x < y => mk[x] < mk[y]
  /\ \A i \in 1..Len(s) : s[i].id # View!None => \E k \in 1..Len(g) : mk[k] = i
  /\ \A k \in 1..Len(g) : /\ s[mk[k]].id # View!None
                          /\ g[k].ntt = s[mk[k]].id /\ g[k].hdl = s[mk[k]].what

\* The engine knows what is below an element.
Scoped(g, s, mk, h) ==
  /\ g[h].scp \in 1..(Len(g) - h + 1)
  /\ \A k \in 1..Len(g) : Below(s, mk[h], mk[k]) <=> h <= k /\ k < h + g[h].scp

\* Nothing more comes below a node when the next one is at most one deeper than d.
Settled(s, i, d) == ~Below(s, i, Len(s)) \/ s[i].depth > d

\* Some elements are open, one at each depth; of the others the engine knows what
\* is below them.
Drawn(g, open, s, mk) ==
  /\ Places(g, s, mk)
  /\ \A k \in 1..Len(open) : open[k] # 0 =>
       /\ open[k] \in 1..Len(g)
       /\ Below(s, mk[open[k]], Len(s)) /\ s[mk[open[k]]].depth = k
  /\ \A h \in 1..Len(g) :
       \/ \E k \in 1..Len(open) : open[k] = h
       \/ Scoped(g, s, mk, h) /\ Settled(s, mk[h], Len(open))

\* The elements from the n-th depth on are closed: all that came after is below them.
Closing(g, open, n, g2) ==
  /\ Len(g2) = Len(g)
  /\ \A h \in 1..Len(g) : /\ g2[h].ntt = g[h].ntt /\ g2[h].hdl = g[h].hdl
                          /\ g2[h].scp = IF \E k \in (n + 1)..Len(open) : open[k] = h
                                         THEN Len(g) - h + 1 ELSE g[h].scp

\* Closing the elements that are deeper than the next node keeps what is known.
LEMMA CloseDrawn ==
  ASSUME NEW g \in Seq(Entity), NEW s \in Seq(Shown), NEW open \in Seq(Nat), NEW mk,
         Drawn(g, open, s, mk),
         NEW n \in 0..Len(open), NEW g2 \in Seq(Entity), Closing(g, open, n, g2)
  PROVE  Drawn(g2, SubSeq(open, 1, n), s, mk)
<1> DEFINE o == SubSeq(open, 1, n)
<1>1. Len(g) \in Nat /\ Len(s) \in Nat /\ Len(open) \in Nat /\ n \in Nat
  BY LenProperties
<1>2. Len(o) = n /\ \A k \in 1..n : o[k] = open[k]
  <2>1. \A k \in 1..n : open[k] \in Nat
    BY <1>1, ElementOfSeq
  <2> QED  BY <1>1, <2>1, SubSeqProperties
<1> HIDE DEF o
<1>3. Places(g, s, mk) /\ Len(g2) = Len(g)
  BY DEF Drawn, Closing
<1>4. Places(g2, s, mk)
  BY <1>3 DEF Places, Closing
<1>5. ASSUME NEW k \in 1..n, o[k] # 0
      PROVE  /\ o[k] \in 1..Len(g2)
             /\ Below(s, mk[o[k]], Len(s)) /\ s[mk[o[k]]].depth = k
  <2>1. k \in 1..Len(open) /\ o[k] = open[k] /\ open[k] # 0
    BY <1>1, <1>2, <1>5
  <2>2. /\ open[k] \in 1..Len(g)
        /\ Below(s, mk[open[k]], Len(s)) /\ s[mk[open[k]]].depth = k
    BY <2>1 DEF Drawn
  <2> QED  BY <1>3, <2>1, <2>2
<1>6. ASSUME NEW h \in 1..Len(g2)
      PROVE  \/ \E k \in 1..n : o[k] = h
             \/ Scoped(g2, s, mk, h) /\ Settled(s, mk[h], n)
  <2>1. CASE \E k \in 1..n : open[k] = h
    BY <1>2, <2>1
  <2>2. CASE \E k \in (n + 1)..Len(open) : open[k] = h
    <3>1. PICK k \in (n + 1)..Len(open) : open[k] = h
      BY <2>2
    <3>2. k \in 1..Len(open) /\ k > n /\ h # 0 /\ h \in Nat /\ k \in Nat
      BY <1>1, <1>3, <3>1
    <3>3. Below(s, mk[h], Len(s)) /\ s[mk[h]].depth = k
      BY <3>1, <3>2 DEF Drawn
    <3>4. g2[h].scp = Len(g) - h + 1 /\ g2[h].scp \in 1..(Len(g2) - h + 1)
      <4>1. h \in 1..Len(g)
        BY <1>3
      <4>2. g2[h].scp = Len(g) - h + 1
        BY <2>2, <4>1 DEF Closing
      <4> QED  BY <1>1, <1>3, <4>1, <4>2
    <3>5. ASSUME NEW j \in 1..Len(g2)
          PROVE  Below(s, mk[h], mk[j]) <=> h <= j /\ j < h + g2[h].scp
      <4>1. j < h + g2[h].scp /\ j \in Nat
        BY <1>1, <1>3, <3>2, <3>4
      <4>2. mk[h] \in 1..Len(s) /\ mk[j] \in 1..Len(s) /\ mk[h] \in Nat /\ mk[j] \in Nat
            /\ (h < j => mk[h] < mk[j]) /\ (j < h => mk[j] < mk[h])
        <5>1. mk[h] \in 1..Len(s) /\ mk[j] \in 1..Len(s)
          BY <1>4 DEF Places
        <5>2. (h < j => mk[h] < mk[j]) /\ (j < h => mk[j] < mk[h])
          BY <1>4 DEF Places
        <5> QED  BY <1>1, <5>1, <5>2
      <4>3. h <= j => Below(s, mk[h], mk[j])
        <5>1. ASSUME h <= j  PROVE mk[h] <= mk[j]
          BY <3>2, <4>1, <4>2, <5>1
        <5> QED  BY <1>1, <3>3, <4>2, <5>1 DEF Below
      <4>4. Below(s, mk[h], mk[j]) => h <= j
        BY <3>2, <4>1, <4>2 DEF Below
      <4> QED  BY <4>1, <4>3, <4>4
    <3>6. Settled(s, mk[h], n)
      BY <3>2, <3>3 DEF Settled
    <3> QED  BY <3>4, <3>5, <3>6 DEF Scoped
  <2>3. CASE ~ \E k \in 1..Len(open) : open[k] = h
    <3>1. Scoped(g, s, mk, h) /\ Settled(s, mk[h], Len(open))
      BY <1>3, <2>3 DEF Drawn
    <3>2. ~ \E k \in (n + 1)..Len(open) : open[k] = h
      BY <1>1, <2>3
    <3>3. g2[h].scp = g[h].scp
      BY <1>3, <3>2 DEF Closing
    <3>4. Scoped(g2, s, mk, h)
      BY <1>3, <3>1, <3>3 DEF Scoped
    <3>5. s[mk[h]].depth > Len(open) => s[mk[h]].depth > n
      <4>1. mk[h] \in 1..Len(s)
        BY <1>4 DEF Places
      <4>2. s[mk[h]] \in Shown
        BY <4>1, ElementOfSeq
      <4> QED  BY <1>1, <4>2, SMTT(60) DEF Shown
    <3> QED  BY <3>1, <3>4, <3>5 DEF Settled
  <2> QED  BY <1>1, <2>1, <2>2, <2>3
<1>7. Drawn(g2, o, s, mk)
  BY <1>2, <1>4, <1>5, <1>6 DEF Drawn
<1> QED  BY <1>7 DEF o

\* s2 is s and then a
Follows(s, a, s2) ==
  /\ Len(s2) = Len(s) + Len(a)
  /\ \A i \in 1..Len(s) : s2[i] = s[i]
  /\ \A j \in 1..Len(a) : s2[Len(s) + j] = a[j]

\* A sequence and another one after it.
LEMMA ConcatFollows ==
  ASSUME NEW S, NEW s \in Seq(S), NEW a \in Seq(S)
  PROVE  s \o a \in Seq(S) /\ Follows(s, a, s \o a)
<1>1. Len(s) \in Nat /\ Len(a) \in Nat
  BY LenProperties
<1> DEFINE s2 == s \o a
<1>2. /\ s2 \in Seq(S) /\ Len(s2) = Len(s) + Len(a)
      /\ \A i \in 1..(Len(s) + Len(a)) : s2[i] = IF i <= Len(s) THEN s[i] ELSE a[i - Len(s)]
  BY ConcatProperties
<1> HIDE DEF s2
<1>3. ASSUME NEW i \in 1..Len(s)  PROVE s2[i] = s[i]
  <2>1. i \in 1..(Len(s) + Len(a)) /\ i <= Len(s)
    BY <1>1
  <2> QED  BY <1>2, <2>1
<1>4. ASSUME NEW j \in 1..Len(a)  PROVE s2[Len(s) + j] = a[j]
  <2>1. /\ Len(s) + j \in 1..(Len(s) + Len(a)) /\ ~(Len(s) + j <= Len(s))
        /\ (Len(s) + j) - Len(s) = j
    BY <1>1
  <2> QED  BY <1>2, <2>1
<1> QED  BY <1>2, <1>3, <1>4 DEF Follows, s2

\* What is drawn below depth d leaves the trees before it as they are, but for those
\* that are open.
Hangs(a, d) == Len(a) # 0 /\ a[1].depth = d + 1 /\ \A j \in 1..Len(a) : a[j].depth > d

\* What hangs below depth d changes nothing between the nodes before it.
LEMMA JoinBelow ==
  ASSUME NEW s \in Seq(Shown), NEW a \in Seq(Shown), NEW s2 \in Seq(Shown), NEW d \in Nat,
         Follows(s, a, s2), Hangs(a, d)
  PROVE  /\ \A i, j \in 1..Len(s) : Below(s2, i, j) <=> Below(s, i, j)
         /\ \A i, j \in 1..Len(a) : Below(s2, Len(s) + i, Len(s) + j) <=> Below(a, i, j)
         /\ \A i \in 1..Len(s) : \A j \in 1..Len(a) :
              /\ Settled(s, i, d) => ~Below(s2, i, Len(s) + j)
              /\ Below(s, i, Len(s)) /\ s[i].depth <= d => Below(s2, i, Len(s) + j)
              /\ ~Below(s2, Len(s) + j, i)
<1>1. Len(s) \in Nat /\ Len(a) \in Nat /\ Len(s2) = Len(s) + Len(a)
  BY LenProperties DEF Follows
<1>2. /\ \A i \in 1..Len(s) : s2[i] = s[i]
      /\ \A j \in 1..Len(a) : s2[Len(s) + j] = a[j]
      /\ Len(a) # 0 /\ a[1].depth = d + 1 /\ \A j \in 1..Len(a) : a[j].depth > d
  BY DEF Follows, Hangs
<1>3. /\ \A i \in 1..Len(s) : s[i] \in Shown
      /\ \A i \in 1..Len(a) : a[i] \in Shown
  BY ElementOfSeq
<1>4. /\ \A i \in 1..Len(s) : s[i].depth \in Nat
      /\ \A i \in 1..Len(a) : a[i].depth \in Nat
  BY <1>3 DEF Shown
<1>5. ASSUME NEW i \in 1..Len(s), NEW j \in 1..Len(s)
      PROVE  Below(s2, i, j) <=> Below(s, i, j)
  <2>1. \A k \in (i + 1)..j : k \in 1..Len(s)
    BY <1>1
  <2> QED  BY <1>2, <2>1 DEF Below
<1>6. ASSUME NEW i \in 1..Len(a), NEW j \in 1..Len(a)
      PROVE  Below(s2, Len(s) + i, Len(s) + j) <=> Below(a, i, j)
  <2>1. Len(s) + i <= Len(s) + j <=> i <= j
    BY <1>1
  <2>2. \A k \in (i + 1)..j : Len(s) + k \in (Len(s) + i + 1)..(Len(s) + j) /\ k \in 1..Len(a)
    BY <1>1
  <2>3. \A k \in (Len(s) + i + 1)..(Len(s) + j) :
          k - Len(s) \in (i + 1)..j /\ Len(s) + (k - Len(s)) = k /\ k - Len(s) \in 1..Len(a)
    BY <1>1
  <2>4. ASSUME Below(s2, Len(s) + i, Len(s) + j)  PROVE Below(a, i, j)
    <3>1. ASSUME NEW k \in (i + 1)..j  PROVE a[k].depth > a[i].depth
      <4>1. s2[Len(s) + k].depth > s2[Len(s) + i].depth
        BY <2>2, <2>4 DEF Below
      <4> QED  BY <1>2, <2>2, <4>1
    <3> QED  BY <2>1, <2>4, <3>1 DEF Below
  <2>5. ASSUME Below(a, i, j)  PROVE Below(s2, Len(s) + i, Len(s) + j)
    <3>1. ASSUME NEW k \in (Len(s) + i + 1)..(Len(s) + j)
          PROVE  s2[k].depth > s2[Len(s) + i].depth
      <4>1. a[k - Len(s)].depth > a[i].depth
        BY <2>3, <2>5 DEF Below
      <4>2. s2[Len(s) + (k - Len(s))] = a[k - Len(s)]
        BY <1>2, <2>3
      <4>3. s2[k] = a[k - Len(s)]
        BY <2>3, <4>2
      <4> QED  BY <1>2, <4>1, <4>3
    <3> QED  BY <2>1, <2>5, <3>1 DEF Below
  <2> QED  BY <2>4, <2>5
<1>7. ASSUME NEW i \in 1..Len(s), NEW j \in 1..Len(a)
      PROVE  /\ Settled(s, i, d) => ~Below(s2, i, Len(s) + j)
             /\ Below(s, i, Len(s)) /\ s[i].depth <= d => Below(s2, i, Len(s) + j)
             /\ ~Below(s2, Len(s) + j, i)
  <2>1. /\ i \in Nat /\ j \in Nat /\ 1 <= j /\ i <= Len(s)
        /\ Len(s) + 1 \in (i + 1)..(Len(s) + j) /\ 1 \in 1..Len(a)
        /\ \A k \in (i + 1)..Len(s) : k \in (i + 1)..(Len(s) + j) /\ k \in 1..Len(s)
        /\ \A k \in (i + 1)..(Len(s) + j) :
             \/ k \in (i + 1)..Len(s)
             \/ k - Len(s) \in 1..Len(a) /\ Len(s) + (k - Len(s)) = k
    BY <1>1
  <2>2. ASSUME Settled(s, i, d), Below(s2, i, Len(s) + j)  PROVE FALSE
    <3>1. Below(s, i, Len(s))
      <4>1. ASSUME NEW k \in (i + 1)..Len(s)  PROVE s[k].depth > s[i].depth
        <5>1. s2[k].depth > s2[i].depth
          BY <2>1, <2>2 DEF Below
        <5> QED  BY <1>2, <2>1, <5>1
      <4> QED  BY <2>1, <4>1 DEF Below
    <3>2. s[i].depth > d
      BY <2>2, <3>1 DEF Settled
    <3>3. s2[Len(s) + 1].depth > s2[i].depth
      BY <2>1, <2>2 DEF Below
    <3>4. d + 1 > s[i].depth
      BY <1>2, <2>1, <3>3
    <3> QED  BY <1>4, <3>2, <3>4
  <2>3. ASSUME Below(s, i, Len(s)), s[i].depth <= d  PROVE Below(s2, i, Len(s) + j)
    <3>1. ASSUME NEW k \in (i + 1)..(Len(s) + j)  PROVE s2[k].depth > s2[i].depth
      <4>1. CASE k \in (i + 1)..Len(s)
        <5>1. s[k].depth > s[i].depth
          BY <2>3, <4>1 DEF Below
        <5> QED  BY <1>2, <2>1, <4>1, <5>1
      <4>2. CASE k - Len(s) \in 1..Len(a) /\ Len(s) + (k - Len(s)) = k
        <5>1. s2[Len(s) + (k - Len(s))] = a[k - Len(s)] /\ a[k - Len(s)].depth > d
          BY <1>2, <4>2
        <5>2. s2[k].depth = a[k - Len(s)].depth /\ s2[i].depth = s[i].depth
          BY <1>2, <4>2, <5>1
        <5> QED  BY <1>4, <2>3, <4>2, <5>1, <5>2, SMTT(60)
      <4> QED  BY <2>1, <4>1, <4>2
    <3>2. i <= Len(s) + j
      BY <1>1, <2>1
    <3> QED  BY <3>1, <3>2 DEF Below
  <2>4. ~(Len(s) + j <= i)
    BY <1>1, <2>1
  <2> QED  BY <2>2, <2>3, <2>4 DEF Below
<1> QED  BY <1>5, <1>6, <1>7

-----------------------------------------------------------------------------
(* What is drawn after what is there.                                      *)

\* the places of the entities of both
PlacesOfBoth(g, ga, s, mk, ma) ==
  [k \in 1..(Len(g) + Len(ga)) |-> IF k <= Len(g) THEN mk[k] ELSE Len(s) + ma[k - Len(g)]]

\* The entities of both are the elements of both.
LEMMA JoinPlaces ==
  ASSUME NEW g \in Seq(Entity), NEW ga \in Seq(Entity), NEW g2, Follows(g, ga, g2),
         NEW s \in Seq(Shown), NEW a \in Seq(Shown), NEW s2, Follows(s, a, s2),
         NEW mk, NEW ma, Places(g, s, mk), Places(ga, a, ma)
  PROVE  LET mk2 == PlacesOfBoth(g, ga, s, mk, ma)
         IN /\ Places(g2, s2, mk2)
            /\ \A k \in 1..Len(g) : mk2[k] = mk[k] /\ mk[k] \in 1..Len(s)
            /\ \A k \in 1..Len(ga) : mk2[Len(g) + k] = Len(s) + ma[k] /\ ma[k] \in 1..Len(a)
<1> DEFINE mk2 == PlacesOfBoth(g, ga, s, mk, ma)
<1>1. /\ Len(g) \in Nat /\ Len(ga) \in Nat /\ Len(s) \in Nat /\ Len(a) \in Nat
      /\ Len(g2) = Len(g) + Len(ga) /\ Len(s2) = Len(s) + Len(a)
  BY LenProperties DEF Follows
<1>2. ASSUME NEW k \in 1..Len(g)
      PROVE  /\ mk2[k] = mk[k] /\ mk[k] \in 1..Len(s) /\ k \in 1..Len(g2)
             /\ g2[k] = g[k] /\ s2[mk[k]] = s[mk[k]]
  <2>1. k \in 1..(Len(g) + Len(ga)) /\ k <= Len(g)
    BY <1>1
  <2>2. mk2[k] = mk[k] /\ mk[k] \in 1..Len(s)
    BY <2>1 DEF PlacesOfBoth, Places
  <2> QED  BY <1>1, <2>1, <2>2 DEF Follows
<1>3. ASSUME NEW k \in 1..Len(ga)
      PROVE  /\ mk2[Len(g) + k] = Len(s) + ma[k] /\ ma[k] \in 1..Len(a)
             /\ Len(g) + k \in 1..Len(g2)
             /\ g2[Len(g) + k] = ga[k] /\ s2[Len(s) + ma[k]] = a[ma[k]]
  <2>1. /\ Len(g) + k \in 1..(Len(g) + Len(ga)) /\ ~(Len(g) + k <= Len(g))
        /\ (Len(g) + k) - Len(g) = k
    BY <1>1
  <2>2. mk2[Len(g) + k] = Len(s) + ma[k] /\ ma[k] \in 1..Len(a)
    BY <2>1 DEF PlacesOfBoth, Places
  <2> QED  BY <1>1, <2>1, <2>2 DEF Follows
<1>4. \A k \in 1..Len(g2) :
        \/ k \in 1..Len(g)
        \/ k - Len(g) \in 1..Len(ga) /\ Len(g) + (k - Len(g)) = k
  BY <1>1
<1>5. DOMAIN mk2 = 1..Len(g2) /\ mk2 = [k \in 1..Len(g2) |-> mk2[k]]
  BY <1>1 DEF PlacesOfBoth
<1> HIDE DEF mk2
<1>6. ASSUME NEW k \in 1..Len(g2)
      PROVE  /\ mk2[k] \in 1..Len(s2) /\ s2[mk2[k]].id # View!None
             /\ g2[k].ntt = s2[mk2[k]].id /\ g2[k].hdl = s2[mk2[k]].what
  <2>1. CASE k \in 1..Len(g)
    <3>1. /\ s[mk[k]].id # View!None
          /\ g[k].ntt = s[mk[k]].id /\ g[k].hdl = s[mk[k]].what
      BY <2>1 DEF Places
    <3>2. mk[k] \in 1..Len(s2)
      BY <1>1, <1>2, <2>1
    <3> QED  BY <1>2, <2>1, <3>1, <3>2
  <2>2. CASE k - Len(g) \in 1..Len(ga) /\ Len(g) + (k - Len(g)) = k
    <3> DEFINE i == k - Len(g)
    <3>1. /\ a[ma[i]].id # View!None
          /\ ga[i].ntt = a[ma[i]].id /\ ga[i].hdl = a[ma[i]].what
      BY <2>2 DEF Places
    <3>2. /\ mk2[Len(g) + i] = Len(s) + ma[i] /\ ma[i] \in 1..Len(a)
          /\ g2[Len(g) + i] = ga[i] /\ s2[Len(s) + ma[i]] = a[ma[i]]
      BY <1>3, <2>2
    <3>3. Len(s) + ma[i] \in 1..Len(s2)
      BY <1>1, <3>2
    <3>4. Len(g) + i = k
      BY <2>2
    <3> HIDE DEF i
    <3> QED  BY <3>1, <3>2, <3>3, <3>4
  <2> QED  BY <1>4, <2>1, <2>2
<1>7. ASSUME NEW x \in 1..Len(g2), NEW y \in 1..Len(g2), x < y
      PROVE  mk2[x] < mk2[y]
  <2>1. CASE x \in 1..Len(g) /\ y \in 1..Len(g)
    BY <1>2, <1>7, <2>1 DEF Places
  <2>2. CASE x \in 1..Len(g) /\ y - Len(g) \in 1..Len(ga) /\ Len(g) + (y - Len(g)) = y
    <3>1. mk2[x] \in 1..Len(s)
      BY <1>2, <2>2
    <3>2. mk2[y] = Len(s) + ma[y - Len(g)] /\ ma[y - Len(g)] \in 1..Len(a)
      BY <1>3, <2>2
    <3> QED  BY <1>1, <3>1, <3>2
  <2>3. CASE /\ x - Len(g) \in 1..Len(ga) /\ Len(g) + (x - Len(g)) = x
             /\ y - Len(g) \in 1..Len(ga) /\ Len(g) + (y - Len(g)) = y
    <3>1. /\ mk2[x] = Len(s) + ma[x - Len(g)] /\ ma[x - Len(g)] \in 1..Len(a)
          /\ mk2[y] = Len(s) + ma[y - Len(g)] /\ ma[y - Len(g)] \in 1..Len(a)
      BY <1>3, <2>3
    <3>2. x - Len(g) < y - Len(g)
      BY <1>1, <1>7
    <3>3. ma[x - Len(g)] < ma[y - Len(g)]
      BY <2>3, <3>2 DEF Places
    <3> QED  BY <1>1, <3>1, <3>3
  <2>4. ~(x - Len(g) \in 1..Len(ga) /\ y \in 1..Len(g))
    BY <1>1, <1>7
  <2> QED  BY <1>4, <2>1, <2>2, <2>3, <2>4
<1>8. ASSUME NEW i \in 1..Len(s2), s2[i].id # View!None
      PROVE  \E k \in 1..Len(g2) : mk2[k] = i
  <2>1. CASE i \in 1..Len(s)
    <3>1. s[i].id # View!None
      BY <1>8, <2>1 DEF Follows
    <3>2. PICK k \in 1..Len(g) : mk[k] = i
      BY <2>1, <3>1 DEF Places
    <3> QED  BY <1>2, <3>2
  <2>2. CASE i \notin 1..Len(s)
    <3> DEFINE j == i - Len(s)
    <3>1. j \in 1..Len(a) /\ Len(s) + j = i
      BY <1>1, <2>2
    <3> HIDE DEF j
    <3>2. a[j].id # View!None
      BY <1>8, <3>1 DEF Follows
    <3>3. PICK k \in 1..Len(ga) : ma[k] = j
      BY <3>1, <3>2 DEF Places
    <3>4. mk2[Len(g) + k] = i /\ Len(g) + k \in 1..Len(g2)
      BY <1>3, <3>1, <3>3
    <3> QED  BY <3>4
  <2> QED  BY <2>1, <2>2
<1>9. mk2 \in [1..Len(g2) -> 1..Len(s2)]
  BY <1>5, <1>6
<1>10. Places(g2, s2, mk2)
  BY <1>6, <1>7, <1>8, <1>9 DEF Places
<1> QED  BY <1>2, <1>3, <1>10 DEF mk2

\* What the engine knows to be below an element stays true when more is drawn.
LEMMA JoinScoped ==
  ASSUME NEW g \in Seq(Entity), NEW ga \in Seq(Entity), NEW g2, Follows(g, ga, g2),
         NEW s \in Seq(Shown), NEW a \in Seq(Shown), NEW s2 \in Seq(Shown), Follows(s, a, s2),
         NEW mk, NEW ma, Places(g, s, mk), Places(ga, a, ma),
         NEW d \in Nat, Hangs(a, d)
  PROVE  LET mk2 == PlacesOfBoth(g, ga, s, mk, ma)
         IN /\ \A h \in 1..Len(g) : Scoped(g, s, mk, h) /\ Settled(s, mk[h], d) =>
                 Scoped(g2, s2, mk2, h) /\ \A e : Settled(s2, mk2[h], e)
            /\ \A h \in 1..Len(ga) : Scoped(ga, a, ma, h) => Scoped(g2, s2, mk2, Len(g) + h)
<1> DEFINE mk2 == PlacesOfBoth(g, ga, s, mk, ma)
<1>1. /\ Len(g) \in Nat /\ Len(ga) \in Nat /\ Len(s) \in Nat /\ Len(a) \in Nat
      /\ Len(g2) = Len(g) + Len(ga) /\ Len(s2) = Len(s) + Len(a)
  BY LenProperties DEF Follows
<1>2. /\ \A k \in 1..Len(g) : mk2[k] = mk[k] /\ mk[k] \in 1..Len(s)
      /\ \A k \in 1..Len(ga) : mk2[Len(g) + k] = Len(s) + ma[k] /\ ma[k] \in 1..Len(a)
  BY JoinPlaces, ZenonT(60)
<1>3. \A k \in 1..Len(g2) :
        \/ k \in 1..Len(g)
        \/ k - Len(g) \in 1..Len(ga) /\ Len(g) + (k - Len(g)) = k
  BY <1>1
<1>4. /\ \A k \in 1..Len(g) : g2[k] = g[k]
      /\ \A k \in 1..Len(ga) : g2[Len(g) + k] = ga[k]
  BY DEF Follows
<1>5. /\ \A i, j \in 1..Len(s) : Below(s2, i, j) <=> Below(s, i, j)
      /\ \A i, j \in 1..Len(a) : Below(s2, Len(s) + i, Len(s) + j) <=> Below(a, i, j)
      /\ \A i \in 1..Len(s) : \A j \in 1..Len(a) :
           /\ Settled(s, i, d) => ~Below(s2, i, Len(s) + j)
           /\ Below(s, i, Len(s)) /\ s[i].depth <= d => Below(s2, i, Len(s) + j)
           /\ ~Below(s2, Len(s) + j, i)
  BY JoinBelow, Zenon
<1> HIDE DEF mk2
<1>6. ASSUME NEW h \in 1..Len(g), Scoped(g, s, mk, h), Settled(s, mk[h], d)
      PROVE  Scoped(g2, s2, mk2, h) /\ \A e : Settled(s2, mk2[h], e)
  <2> DEFINE c == g[h].scp
  <2>1. /\ c \in 1..(Len(g) - h + 1) /\ h \in Nat
        /\ \A k \in 1..Len(g) : Below(s, mk[h], mk[k]) <=> h <= k /\ k < h + c
    BY <1>1, <1>6 DEF Scoped
  <2>2. g2[h].scp = c
    BY <1>4
  <2> HIDE DEF c
  <2>3. c \in 1..(Len(g2) - h + 1)
    BY <1>1, <2>1
  <2>4. ASSUME NEW k \in 1..Len(g2)
        PROVE  Below(s2, mk2[h], mk2[k]) <=> h <= k /\ k < h + c
    <3>1. CASE k \in 1..Len(g)
      <4>1. Below(s2, mk2[h], mk2[k]) <=> Below(s, mk[h], mk[k])
        BY <1>2, <1>5, <3>1
      <4> QED  BY <2>1, <3>1, <4>1
    <3>2. CASE k - Len(g) \in 1..Len(ga) /\ Len(g) + (k - Len(g)) = k
      <4>1. mk2[k] = Len(s) + ma[k - Len(g)] /\ ma[k - Len(g)] \in 1..Len(a)
        BY <1>2, <3>2
      <4>2. ~Below(s2, mk2[h], mk2[k])
        BY <1>2, <1>5, <1>6, <4>1
      <4>3. ~(k < h + c)
        BY <1>1, <2>1, <3>2
      <4> QED  BY <4>2, <4>3
    <3> QED  BY <1>3, <3>1, <3>2
  <2>5. Scoped(g2, s2, mk2, h)
    BY <2>2, <2>3, <2>4 DEF Scoped
  <2>6. ~Below(s2, mk2[h], Len(s2))
    <3>1. Len(a) \in 1..Len(a)
      BY <1>1 DEF Hangs
    <3>2. mk2[h] = mk[h] /\ mk[h] \in 1..Len(s)
      BY <1>2
    <3>3. ~Below(s2, mk[h], Len(s) + Len(a))
      BY <1>5, <1>6, <3>1, <3>2
    <3>4. Len(s2) = Len(s) + Len(a)
      BY <1>1
    <3> QED  BY <3>2, <3>3, <3>4, Zenon
  <2> QED  BY <2>5, <2>6 DEF Settled
<1>7. ASSUME NEW h \in 1..Len(ga), Scoped(ga, a, ma, h)
      PROVE  Scoped(g2, s2, mk2, Len(g) + h)
  <2> DEFINE c == ga[h].scp
  <2>1. /\ c \in 1..(Len(ga) - h + 1) /\ h \in Nat
        /\ \A k \in 1..Len(ga) : Below(a, ma[h], ma[k]) <=> h <= k /\ k < h + c
    BY <1>1, <1>7, SMTT(60) DEF Scoped
  <2>2. g2[Len(g) + h].scp = c
    BY <1>4
  <2> HIDE DEF c
  <2>3. c \in 1..(Len(g2) - (Len(g) + h) + 1)
    BY <1>1, <2>1
  <2>4. ASSUME NEW k \in 1..Len(g2)
        PROVE  Below(s2, mk2[Len(g) + h], mk2[k]) <=> Len(g) + h <= k /\ k < (Len(g) + h) + c
    <3>1. CASE k \in 1..Len(g)
      <4>1. ~Below(s2, mk2[Len(g) + h], mk2[k])
        <5>1. mk2[k] \in 1..Len(s) /\ mk2[Len(g) + h] = Len(s) + ma[h] /\ ma[h] \in 1..Len(a)
          BY <1>2, <3>1
        <5> QED  BY <1>5, <5>1
      <4>2. ~(Len(g) + h <= k)
        BY <1>1, <2>1, <3>1
      <4> QED  BY <4>1, <4>2
    <3>2. CASE k - Len(g) \in 1..Len(ga) /\ Len(g) + (k - Len(g)) = k
      <4> DEFINE j == k - Len(g)
      <4>1. mk2[k] = Len(s) + ma[j] /\ j \in 1..Len(ga) /\ ma[j] \in 1..Len(a)
        BY <1>2, <3>2
      <4>2. Below(s2, mk2[Len(g) + h], mk2[k]) <=> Below(a, ma[h], ma[j])
        BY <1>2, <1>5, <4>1, SMTT(60)
      <4>3. Below(a, ma[h], ma[j]) <=> h <= j /\ j < h + c
        BY <2>1, <4>1
      <4>4. (h <= j <=> Len(g) + h <= k) /\ (j < h + c <=> k < (Len(g) + h) + c)
        BY <1>1, <2>1, <3>2
      <4> QED  BY <4>2, <4>3, <4>4
    <3> QED  BY <1>3, <3>1, <3>2
  <2> QED  BY <2>2, <2>3, <2>4 DEF Scoped
<1> QED  BY <1>6, <1>7 DEF mk2

\* A part of the old page is drawn, of which the engine knows everything.
LEMMA ReuseDrawn ==
  ASSUME NEW g \in Seq(Entity), NEW ga \in Seq(Entity), NEW g2, Follows(g, ga, g2),
         NEW s \in Seq(Shown), NEW a \in Seq(Shown), NEW s2 \in Seq(Shown), Follows(s, a, s2),
         NEW open \in Seq(Nat), NEW mk, NEW ma,
         Drawn(g, open, s, mk), Places(ga, a, ma), \A h \in 1..Len(ga) : Scoped(ga, a, ma, h),
         Hangs(a, Len(open))
  PROVE  Drawn(g2, open, s2, PlacesOfBoth(g, ga, s, mk, ma))
<1> DEFINE mk2 == PlacesOfBoth(g, ga, s, mk, ma)
           d == Len(open)
<1>1. /\ Len(g) \in Nat /\ Len(ga) \in Nat /\ Len(s) \in Nat /\ Len(a) \in Nat /\ d \in Nat
      /\ Len(g2) = Len(g) + Len(ga) /\ Len(s2) = Len(s) + Len(a)
  BY LenProperties DEF Follows
<1>2. Places(g, s, mk)
  BY DEF Drawn
<1>3. /\ Places(g2, s2, mk2)
      /\ \A k \in 1..Len(g) : mk2[k] = mk[k] /\ mk[k] \in 1..Len(s)
      /\ \A k \in 1..Len(ga) : mk2[Len(g) + k] = Len(s) + ma[k] /\ ma[k] \in 1..Len(a)
  BY <1>2, JoinPlaces, ZenonT(60)
<1>4. /\ \A h \in 1..Len(g) : Scoped(g, s, mk, h) /\ Settled(s, mk[h], d) =>
           Scoped(g2, s2, mk2, h) /\ \A e : Settled(s2, mk2[h], e)
      /\ \A h \in 1..Len(ga) : Scoped(ga, a, ma, h) => Scoped(g2, s2, mk2, Len(g) + h)
  BY <1>1, <1>2, JoinScoped
<1>5. \A i \in 1..Len(s) : \A j \in 1..Len(a) :
        /\ Settled(s, i, d) => ~Below(s2, i, Len(s) + j)
        /\ Below(s, i, Len(s)) /\ s[i].depth <= d => Below(s2, i, Len(s) + j)
        /\ ~Below(s2, Len(s) + j, i)
  <2>1. Len(open) \in Nat
    BY <1>1
  <2> HIDE DEF d, mk2
  <2>2. \A i \in 1..Len(s) : \A j \in 1..Len(a) :
          /\ Settled(s, i, Len(open)) => ~Below(s2, i, Len(s) + j)
          /\ Below(s, i, Len(s)) /\ s[i].depth <= Len(open) => Below(s2, i, Len(s) + j)
          /\ ~Below(s2, Len(s) + j, i)
    BY <2>1, JoinBelow, ZenonT(60)
  <2> QED  BY <2>2, Zenon DEF d
<1>6. Len(a) \in 1..Len(a) /\ \A j \in 1..Len(a) : a[j].depth > d
  BY <1>1 DEF Hangs
<1> HIDE DEF mk2, d
<1>7. ASSUME NEW k \in 1..Len(open), open[k] # 0
      PROVE  /\ open[k] \in 1..Len(g2)
             /\ Below(s2, mk2[open[k]], Len(s2)) /\ s2[mk2[open[k]]].depth = k
  <2>1. /\ open[k] \in 1..Len(g)
        /\ Below(s, mk[open[k]], Len(s)) /\ s[mk[open[k]]].depth = k
    BY <1>7 DEF Drawn
  <2>2. k <= d /\ open[k] \in 1..Len(g2)
    BY <1>1, <2>1 DEF d
  <2>3. mk2[open[k]] = mk[open[k]] /\ mk[open[k]] \in 1..Len(s)
    BY <1>3, <2>1
  <2>4. Below(s2, mk[open[k]], Len(s) + Len(a))
    BY <1>5, <1>6, <2>1, <2>2, <2>3
  <2> QED  BY <1>1, <2>1, <2>2, <2>3, <2>4 DEF Follows
<1>8. ASSUME NEW h \in 1..Len(g2)
      PROVE  \/ \E k \in 1..Len(open) : open[k] = h
             \/ Scoped(g2, s2, mk2, h) /\ Settled(s2, mk2[h], d)
  <2>1. CASE h \in 1..Len(g)
    BY <1>4, <2>1 DEF Drawn, d
  <2>2. CASE h \notin 1..Len(g)
    <3> DEFINE j == h - Len(g)
    <3>1. j \in 1..Len(ga) /\ Len(g) + j = h
      BY <1>1, <2>2
    <3> HIDE DEF j
    <3>2. Scoped(g2, s2, mk2, h)
      BY <1>4, <3>1
    <3>3. mk2[h] = Len(s) + ma[j] /\ ma[j] \in 1..Len(a)
      BY <1>3, <3>1
    <3>4. s2[mk2[h]].depth > d
      BY <1>6, <3>3 DEF Follows
    <3> QED  BY <3>2, <3>4 DEF Settled
  <2> QED  BY <2>1, <2>2
<1> QED  BY <1>3, <1>7, <1>8 DEF Drawn, mk2, d

\* An element is made; with an identifier it is an entity that is open.
OneMade(g, ga, a, x) ==
  /\ Len(a) = 1 /\ x \in Nat
  /\ \/ Len(ga) = 0 /\ x = 0
     \/ Len(ga) = 1 /\ x = Len(g) + 1

\* A created element is drawn below the open ones, and is open then.
LEMMA CreateDrawn ==
  ASSUME NEW g \in Seq(Entity), NEW ga \in Seq(Entity), NEW g2, Follows(g, ga, g2),
         NEW s \in Seq(Shown), NEW a \in Seq(Shown), NEW s2 \in Seq(Shown), Follows(s, a, s2),
         NEW open \in Seq(Nat), NEW mk, NEW ma,
         Drawn(g, open, s, mk), Places(ga, a, ma), Hangs(a, Len(open)),
         NEW x, OneMade(g, ga, a, x)
  PROVE  Drawn(g2, Append(open, x), s2, PlacesOfBoth(g, ga, s, mk, ma))
<1> DEFINE mk2 == PlacesOfBoth(g, ga, s, mk, ma)
           d == Len(open)
           o == Append(open, x)
<1>1. /\ Len(g) \in Nat /\ Len(ga) \in Nat /\ Len(s) \in Nat /\ Len(a) \in Nat /\ d \in Nat
      /\ Len(g2) = Len(g) + Len(ga) /\ Len(s2) = Len(s) + Len(a)
  BY LenProperties DEF Follows
<1>0. Len(a) = 1
  BY DEF OneMade
<1>2. Places(g, s, mk)
  BY DEF Drawn
<1>3. /\ Places(g2, s2, mk2)
      /\ \A k \in 1..Len(g) : mk2[k] = mk[k] /\ mk[k] \in 1..Len(s)
      /\ \A k \in 1..Len(ga) : mk2[Len(g) + k] = Len(s) + ma[k] /\ ma[k] \in 1..Len(a)
  BY <1>2, JoinPlaces, ZenonT(60)
<1>4. \A h \in 1..Len(g) : Scoped(g, s, mk, h) /\ Settled(s, mk[h], d) =>
        Scoped(g2, s2, mk2, h) /\ \A e : Settled(s2, mk2[h], e)
  BY <1>1, <1>2, JoinScoped
<1>5. \A i \in 1..Len(s) : \A j \in 1..Len(a) :
        /\ Settled(s, i, d) => ~Below(s2, i, Len(s) + j)
        /\ Below(s, i, Len(s)) /\ s[i].depth <= d => Below(s2, i, Len(s) + j)
        /\ ~Below(s2, Len(s) + j, i)
  <2>1. Len(open) \in Nat
    BY <1>1
  <2> HIDE DEF d, mk2
  <2>2. \A i \in 1..Len(s) : \A j \in 1..Len(a) :
          /\ Settled(s, i, Len(open)) => ~Below(s2, i, Len(s) + j)
          /\ Below(s, i, Len(s)) /\ s[i].depth <= Len(open) => Below(s2, i, Len(s) + j)
          /\ ~Below(s2, Len(s) + j, i)
    BY <2>1, JoinBelow, ZenonT(60)
  <2> QED  BY <2>2, Zenon DEF d
<1>6. 1 \in 1..Len(a) /\ a[1].depth = d + 1
  BY <1>0 DEF Hangs
<1>7. /\ Len(o) = d + 1 /\ o[d + 1] = x
      /\ \A k \in 1..d : o[k] = open[k]
  BY AppendProperties DEF OneMade
<1> HIDE DEF mk2, d, o
<1>8. ASSUME NEW k \in 1..(d + 1), o[k] # 0
      PROVE  /\ o[k] \in 1..Len(g2)
             /\ Below(s2, mk2[o[k]], Len(s2)) /\ s2[mk2[o[k]]].depth = k
  <2>1. CASE k \in 1..d
    <3>1. /\ o[k] \in 1..Len(g)
          /\ Below(s, mk[o[k]], Len(s)) /\ s[mk[o[k]]].depth = k
      BY <1>7, <1>8, <2>1 DEF Drawn, d
    <3>2. k <= d /\ o[k] \in 1..Len(g2)
      BY <1>1, <2>1, <3>1
    <3>3. mk2[o[k]] = mk[o[k]] /\ mk[o[k]] \in 1..Len(s)
      BY <1>3, <3>1
    <3>4. Below(s2, mk[o[k]], Len(s) + 1)
      BY <1>5, <1>6, <3>1, <3>2, <3>3
    <3> QED  BY <1>0, <1>1, <3>1, <3>2, <3>3, <3>4 DEF Follows
  <2>2. CASE k = d + 1
    <3>1. o[k] = Len(g) + 1 /\ Len(ga) = 1 /\ 1 \in 1..Len(ga)
      <4>1. o[k] = x /\ x # 0
        BY <1>7, <1>8, <2>2
      <4>2. Len(ga) = 1 /\ x = Len(g) + 1
        BY <4>1, Zenon DEF OneMade
      <4>3. 1 \in 1..1
        OBVIOUS
      <4> QED  BY <4>1, <4>2, <4>3, Zenon
    <3>2. mk2[o[k]] = Len(s) + ma[1] /\ ma[1] \in 1..Len(a)
      BY <1>3, <3>1
    <3>3. mk2[o[k]] = Len(s) + 1 /\ Len(s2) = Len(s) + 1 /\ o[k] \in 1..Len(g2)
      BY <1>0, <1>1, <3>1, <3>2
    <3>4. Below(s2, Len(s) + 1, Len(s) + 1)
      BY <1>1 DEF Below
    <3>5. s2[Len(s) + 1] = a[1]
      BY <1>6 DEF Follows
    <3> QED  BY <1>6, <2>2, <3>3, <3>4, <3>5
  <2> QED  BY <1>1, <2>1, <2>2
<1>9. ASSUME NEW h \in 1..Len(g2)
      PROVE  \/ \E k \in 1..(d + 1) : o[k] = h
             \/ Scoped(g2, s2, mk2, h) /\ Settled(s2, mk2[h], d + 1)
  <2>1. CASE h \in 1..Len(g)
    <3>1. CASE \E k \in 1..Len(open) : open[k] = h
      <4>1. PICK k \in 1..Len(open) : open[k] = h
        BY <3>1
      <4>2. k \in 1..(d + 1) /\ o[k] = h
        BY <1>1, <1>7, <4>1 DEF d
      <4> QED  BY <4>2
    <3>2. CASE Scoped(g, s, mk, h) /\ Settled(s, mk[h], d)
      BY <1>4, <2>1, <3>2
    <3> QED  BY <2>1, <3>1, <3>2 DEF Drawn, d
  <2>2. CASE h \notin 1..Len(g)
    <3>1. h = Len(g) + 1 /\ Len(ga) = 1
      <4>1. CASE Len(ga) = 0
        <5>1. h \in 1..Len(g)
          BY <1>1, <4>1
        <5> QED  BY <2>2, <5>1
      <4>2. CASE Len(ga) = 1
        <5>1. h \in 1..(Len(g) + 1)
          BY <1>1, <4>2
        <5>2. h = Len(g) + 1
          BY <1>1, <2>2, <5>1
        <5> QED  BY <4>2, <5>2
      <4> QED  BY <4>1, <4>2 DEF OneMade
    <3>2. o[d + 1] = h /\ d + 1 \in 1..(d + 1)
      <4>1. x = h
        <5>1. Len(ga) # 0
          BY <3>1
        <5> QED  BY <3>1, <5>1, Zenon DEF OneMade
      <4>2. d \in Nat
        BY <1>1 DEF d
      <4> QED  BY <1>7, <4>1, <4>2
    <3> QED  BY <3>2
  <2> QED  BY <2>1, <2>2
<1>10. Drawn(g2, o, s2, mk2)
  BY <1>3, <1>7, <1>8, <1>9 DEF Drawn
<1> QED  BY <1>10 DEF mk2, o

-----------------------------------------------------------------------------
(* The machine that draws.                                                 *)

\* the machine between two instructions
Machine == [out : Seq(Shown), old : Seq(Shown), d : Int, bad : BOOLEAN]

\* the machine before the first instruction
Begin == [out |-> <<>>, old |-> dom, d |-> 0, bad |-> FALSE]

\* The function by which Run executes a program exists ...
Runs(prog, f) ==
  f = [k \in 0..Len(prog) |-> IF k = 0 THEN Begin ELSE View!Exec(f[k - 1], prog[k])]

\* ... for any program, each step from the one before.
LEMMA RunsExists ==
  ASSUME NEW S, NEW prog \in Seq(S)
  PROVE  \E f : Runs(prog, f)
<1> DEFINE Upto(m, f) == f = [k \in 0..m |-> IF k = 0 THEN Begin ELSE View!Exec(f[k - 1], prog[k])]
           Bad == {m \in 0..Len(prog) : ~ \E f : Upto(m, f)}
<1>1. Len(prog) \in Nat
  BY LenProperties
<1>2. Upto(0, [k \in 0..0 |-> Begin])
  OBVIOUS
<1>3. ASSUME NEW m \in Nat, NEW f, Upto(m, f)
      PROVE  \E g : Upto(m + 1, g)
  <2> DEFINE g == [k \in 0..(m + 1) |-> IF k = m + 1 THEN View!Exec(f[m], prog[m + 1]) ELSE f[k]]
  <2>1. \A k \in 0..(m + 1) : g[k] = IF k = 0 THEN Begin ELSE View!Exec(g[k - 1], prog[k])
    <3> SUFFICES ASSUME NEW k \in 0..(m + 1)
                 PROVE  g[k] = IF k = 0 THEN Begin ELSE View!Exec(g[k - 1], prog[k])
      OBVIOUS
    <3>1. CASE k = m + 1
      BY <3>1
    <3>2. CASE k \in 0..m
      <4>1. f[k] = IF k = 0 THEN Begin ELSE View!Exec(f[k - 1], prog[k])
        BY <1>3, <3>2
      <4>2. g[k] = f[k] /\ (k # 0 => g[k - 1] = f[k - 1])
        BY <3>2
      <4> QED  BY <4>1, <4>2
    <3> QED  BY <3>1, <3>2
  <2>2. g = [k \in 0..(m + 1) |-> g[k]]
    OBVIOUS
  <2> HIDE DEF g
  <2>3. Upto(m + 1, g)
    BY <2>1, <2>2
  <2> QED  BY <2>3
<1> HIDE DEF Upto
<1>4. Bad = {}
  <2> SUFFICES ASSUME Bad # {}  PROVE FALSE
    OBVIOUS
  <2>1. PICK m \in Bad : \A k \in Bad : m <= k
    <3>1. Bad \in SUBSET Nat
      BY <1>1
    <3> HIDE DEF Bad
    <3> QED  BY <3>1, LeastExists
  <2>2. m # 0
    BY <1>2, <2>1
  <2>3. m - 1 \in 0..Len(prog) /\ m - 1 \notin Bad
    BY <1>1, <2>1, <2>2
  <2>4. PICK f : Upto(m - 1, f)
    BY <2>3
  <2>5. \E g : Upto(m, g)
    <3>1. m - 1 \in Nat /\ (m - 1) + 1 = m
      BY <1>1, <2>1, <2>3
    <3>2. \E g : Upto((m - 1) + 1, g)
      BY <1>3, <2>4, <3>1
    <3> QED  BY <3>1, <3>2
  <2> QED  BY <2>1, <2>5
<1>5. \E f : Upto(Len(prog), f)
  BY <1>1, <1>4
<1> QED  BY <1>5 DEF Upto, Runs

\* ... and ends with what Run returns.
LEMMA RunIs ==
  ASSUME NEW S, NEW prog \in Seq(S)
  PROVE  \E f : /\ f[0] = Begin /\ f[Len(prog)] = View!Run(prog)
                /\ \A k \in 1..Len(prog) : f[k] = View!Exec(f[k - 1], prog[k])
<1> DEFINE after == CHOOSE f : Runs(prog, f)
<1>1. View!Run(prog) = after[Len(prog)]
  BY DEF View!Run, Runs, Begin
<1>2. Runs(prog, after)
  <2>1. \E f : Runs(prog, f)
    BY RunsExists
  <2> QED  BY <2>1, Zenon
<1> HIDE DEF after
<1>3. Len(prog) \in Nat
  BY LenProperties
<1>4. \A k \in 0..Len(prog) : after[k] = IF k = 0 THEN Begin ELSE View!Exec(after[k - 1], prog[k])
  BY <1>2 DEF Runs
<1>5. after[0] = Begin
  BY <1>3, <1>4
<1>6. \A k \in 1..Len(prog) : after[k] = View!Exec(after[k - 1], prog[k])
  BY <1>3, <1>4
<1> QED  BY <1>1, <1>5, <1>6

\* A function that starts with a program runs it.
LEMMA RunFrom ==
  ASSUME NEW S, NEW prog \in Seq(S), NEW f, f[0] = Begin,
         \A k \in 1..Len(prog) : f[k] = View!Exec(f[k - 1], prog[k])
  PROVE  f[Len(prog)] = View!Run(prog)
<1>1. PICK h : /\ h[0] = Begin /\ h[Len(prog)] = View!Run(prog)
               /\ \A k \in 1..Len(prog) : h[k] = View!Exec(h[k - 1], prog[k])
  BY RunIs
<1>2. Len(prog) \in Nat
  BY LenProperties
<1> DEFINE Bad == {m \in 0..Len(prog) : f[m] # h[m]}
<1>3. Bad = {}
  <2> SUFFICES ASSUME Bad # {}  PROVE FALSE
    OBVIOUS
  <2>1. PICK m \in Bad : \A k \in Bad : m <= k
    <3>1. Bad \in SUBSET Nat
      BY <1>2
    <3> HIDE DEF Bad
    <3> QED  BY <3>1, LeastExists
  <2>2. m # 0
    BY <1>1, <2>1
  <2>3. m - 1 \in 0..Len(prog) /\ m - 1 \notin Bad /\ m \in 1..Len(prog)
    BY <1>2, <2>1, <2>2
  <2>4. f[m - 1] = h[m - 1]
    BY <2>3
  <2> QED  BY <1>1, <2>1, <2>3, <2>4
<1>4. Len(prog) \in 0..Len(prog)
  BY <1>2
<1> QED  BY <1>1, <1>3, <1>4

\* What comes after a program is executed from where that has ended.
LEMMA RunConcat ==
  ASSUME NEW S, NEW prog \in Seq(S), NEW more \in Seq(S)
  PROVE  \E f : /\ f[0] = View!Run(prog) /\ f[Len(more)] = View!Run(prog \o more)
                /\ \A k \in 1..Len(more) : f[k] = View!Exec(f[k - 1], more[k])
<1> DEFINE both == prog \o more
<1>1. both \in Seq(S) /\ Follows(prog, more, both)
  BY ConcatFollows
<1>2. Len(prog) \in Nat /\ Len(more) \in Nat /\ Len(both) = Len(prog) + Len(more)
  BY <1>1, LenProperties DEF Follows
<1> HIDE DEF both
<1>3. PICK h : /\ h[0] = Begin /\ h[Len(both)] = View!Run(both)
               /\ \A k \in 1..Len(both) : h[k] = View!Exec(h[k - 1], both[k])
  BY <1>1, RunIs
<1>4. h[Len(prog)] = View!Run(prog)
  <2>1. ASSUME NEW k \in 1..Len(prog)  PROVE h[k] = View!Exec(h[k - 1], prog[k])
    <3>1. k \in 1..Len(both) /\ both[k] = prog[k]
      BY <1>1, <1>2 DEF Follows
    <3> QED  BY <1>3, <3>1
  <2> QED  BY <1>3, <2>1, RunFrom
<1> DEFINE f == [k \in 0..Len(more) |-> h[Len(prog) + k]]
<1>5. ASSUME NEW k \in 1..Len(more)  PROVE f[k] = View!Exec(f[k - 1], more[k])
  <2>1. /\ Len(prog) + k \in 1..Len(both) /\ both[Len(prog) + k] = more[k]
        /\ k \in 0..Len(more) /\ k - 1 \in 0..Len(more)
        /\ (Len(prog) + k) - 1 = Len(prog) + (k - 1)
    BY <1>1, <1>2 DEF Follows
  <2>2. h[Len(prog) + k] = View!Exec(h[Len(prog) + (k - 1)], more[k])
    BY <1>3, <2>1
  <2> QED  BY <2>1, <2>2
<1>6. f[0] = View!Run(prog) /\ f[Len(more)] = View!Run(both)
  BY <1>2, <1>3, <1>4
<1> HIDE DEF f
<1> QED  BY <1>5, <1>6 DEF both

-----------------------------------------------------------------------------
(* Its instructions.                                                       *)

\* A machine that threw does nothing more.
LEMMA ExecBad ==
  ASSUME NEW m \in Machine, NEW c, m.bad
  PROVE  View!Exec(m, c) = m
BY DEF View!Exec, Machine

\* CreateElement puts a node below the open one, and opens it.
LEMMA ExecCreate ==
  ASSUME NEW m \in Machine, ~m.bad, m.d \in Nat, NEW w \in Nat \X Nat
  PROVE  LET x == View!Exec(m, [op |-> "create", what |-> w])
             n == [id |-> View!None, what |-> w, depth |-> m.d + 1]
         IN x \in Machine /\ ~x.bad /\ n \in Shown
            /\ x.out = Append(m.out, n) /\ x.old = m.old /\ x.d = m.d + 1
<1> DEFINE n == [id |-> View!None, what |-> w, depth |-> m.d + 1]
           c == [op |-> "create", what |-> w]
           x == View!Exec(m, c)
<1>1. n \in Shown
  BY DEF Shown, View!None
<1>2. Append(m.out, n) \in Seq(Shown)
  BY <1>1, AppendProperties DEF Machine
<1>3. m.d \in Int /\ ~(m.d < 0) /\ m.d + 1 \in Int /\ c.op = "create" /\ c.what = w
  BY DEF Machine
<1> HIDE DEF c
<1>4. x = [m EXCEPT !.out = Append(m.out, n), !.d = m.d + 1]
  BY <1>3 DEF View!Exec
<1> HIDE DEF n
<1> QED  BY <1>1, <1>2, <1>3, <1>4 DEF Machine, n, c

\* s2 is s, in which the i-th node has another identifier
Renames(s, i, e, s2) ==
  /\ Len(s2) = Len(s)
  /\ \A k \in 1..Len(s) : k # i => s2[k] = s[k]
  /\ s2[i].id = e /\ s2[i].what = s[i].what /\ s2[i].depth = s[i].depth

\* Only the identifier of the i-th node changes.
LEMMA NamedIs ==
  ASSUME NEW s \in Seq(Shown), NEW i \in 1..Len(s), NEW e \in Nat
  PROVE  View!Named(s, i, e) \in Seq(Shown) /\ Renames(s, i, e, View!Named(s, i, e))
<1> DEFINE n == [s[i] EXCEPT !.id = e]
           x == View!Named(s, i, e)
<1>1. Len(s) \in Nat /\ s \in [1..Len(s) -> Shown] /\ s[i] \in Shown
  BY LenProperties, ElementOfSeq
<1>2. n \in Shown /\ n.id = e /\ n.what = s[i].what /\ n.depth = s[i].depth
  BY <1>1 DEF Shown
<1>3. x = [s EXCEPT ![i] = n]
  BY DEF View!Named
<1> HIDE DEF n, x
<1>4. x \in [1..Len(s) -> Shown]
  BY <1>1, <1>2, <1>3
<1>5. x \in Seq(Shown) /\ Len(x) = Len(s)
  BY <1>1, <1>4, IsASeq, LenProperties
<1>6. x[i] = n /\ \A k \in 1..Len(s) : k # i => x[k] = s[k]
  BY <1>1, <1>3
<1> QED  BY <1>2, <1>5, <1>6 DEF Renames, x

\* SetID names the node that was made last.
LEMMA ExecSetid ==
  ASSUME NEW m \in Machine, ~m.bad, Len(m.out) # 0, NEW e \in Nat
  PROVE  LET x == View!Exec(m, [op |-> "setid", e |-> e])
         IN /\ x \in Machine /\ ~x.bad /\ x.old = m.old /\ x.d = m.d
            /\ Renames(m.out, Len(m.out), e, x.out)
<1> DEFINE c == [op |-> "setid", e |-> e]
           x == View!Exec(m, c)
           o == View!Named(m.out, Len(m.out), e)
<1>1. m.out \in Seq(Shown) /\ Len(m.out) \in 1..Len(m.out)
  <2>1. m.out \in Seq(Shown)
    BY DEF Machine
  <2> QED  BY <2>1, LenProperties
<1>2. o \in Seq(Shown) /\ Renames(m.out, Len(m.out), e, o)
  BY <1>1, NamedIs
<1>3. c.op = "setid" /\ c.e = e
  OBVIOUS
<1> HIDE DEF c
<1>4. x = [m EXCEPT !.out = o]
  BY <1>3 DEF View!Exec
<1> HIDE DEF o
<1>5. x \in Machine /\ ~x.bad /\ x.old = m.old /\ x.d = m.d /\ x.out = o
  BY <1>2, <1>4 DEF Machine
<1> QED  BY <1>2, <1>5 DEF c

\* Next closes the open node.
LEMMA ExecNext ==
  ASSUME NEW m \in Machine, ~m.bad
  PROVE  LET x == View!Exec(m, [op |-> "next"])
         IN /\ x \in Machine /\ ~x.bad /\ x.old = m.old /\ x.out = m.out
            /\ x.d = IF m.d = 1 THEN -1 ELSE m.d - 1
<1> DEFINE c == [op |-> "next"]
           x == View!Exec(m, c)
<1>1. m.d \in Int /\ c.op = "next"
  BY DEF Machine
<1> HIDE DEF c
<1>2. x = [m EXCEPT !.d = IF m.d = 1 THEN -1 ELSE m.d - 1]
  BY <1>1 DEF View!Exec
<1>3. (IF m.d = 1 THEN -1 ELSE m.d - 1) \in Int
  BY <1>1
<1> QED  BY <1>2, <1>3 DEF Machine, c

\* Reuse takes a part of the old page, or throws when there is none.
LEMMA ExecReuse ==
  ASSUME NEW m \in Machine, ~m.bad, m.d \in Nat, NEW e \in Nat
  PROVE  LET x == View!Exec(m, [op |-> "reuse", e |-> e])
             i == View!ById(m.old, e)
         IN /\ x \in Machine
            /\ i = 0 => x.bad
            /\ i # 0 =>
                 /\ ~x.bad /\ x.d = m.d
                 /\ x.out = m.out \o View!Part(m.old, i, m.d + 1)
                 /\ x.old = View!Without(m.old, i)
<1> DEFINE c == [op |-> "reuse", e |-> e]
           x == View!Exec(m, c)
           i == View!ById(m.old, e)
           o == m.out \o View!Part(m.old, i, m.d + 1)
           r == View!Without(m.old, i)
<1>1. /\ m.d \in Int /\ ~(m.d < 0) /\ c.op = "reuse" /\ c.e = e
      /\ m.out \in Seq(Shown) /\ m.old \in Seq(Shown)
  BY DEF Machine
<1>2. i \in 0..Len(m.old)
  BY <1>1, ByIdIs
<1> HIDE DEF c, i
<1>3. x = IF i = 0 THEN View!Threw(m) ELSE [m EXCEPT !.out = o, !.old = r]
  BY <1>1 DEF View!Exec, i
<1>4. CASE i = 0
  <2>1. x \in Machine /\ x.bad
    BY <1>3, <1>4 DEF Machine, View!Threw
  <2> QED  BY <1>4, <2>1 DEF c, i
<1>5. CASE i # 0
  <2>1. i \in 1..Len(m.old)
    BY <1>1, <1>2, <1>5, LenProperties
  <2>2. r \in Seq(Shown)
    BY <1>1, <2>1, WithoutIs
  <2>3. o \in Seq(Shown)
    <3>1. m.d + 1 \in Nat
      OBVIOUS
    <3>2. View!Part(m.old, i, m.d + 1) \in Seq(Shown)
      BY <1>1, <2>1, <3>1, PartIs
    <3> QED  BY <1>1, <3>2, ConcatFollows
  <2> HIDE DEF o, r
  <2>4. x \in Machine /\ ~x.bad /\ x.d = m.d /\ x.out = o /\ x.old = r
    BY <1>3, <1>5, <2>2, <2>3 DEF Machine
  <2> QED  BY <1>5, <2>4 DEF c, i, o, r
<1> QED  BY <1>4, <1>5

\* ReID renames an element of what is built, or throws when there is none.
LEMMA ExecReid ==
  ASSUME NEW m \in Machine, ~m.bad, NEW e \in Nat, NEW to \in Nat
  PROVE  LET x == View!Exec(m, [op |-> "reid", e |-> e, to |-> to])
             i == View!ById(m.out, e)
         IN /\ x \in Machine
            /\ i = 0 => x.bad
            /\ i # 0 => /\ ~x.bad /\ x.d = m.d /\ x.old = m.old
                        /\ i \in 1..Len(m.out) /\ Renames(m.out, i, to, x.out)
<1> DEFINE c == [op |-> "reid", e |-> e, to |-> to]
           x == View!Exec(m, c)
           i == View!ById(m.out, e)
           o == View!Named(m.out, i, to)
<1>1. c.op = "reid" /\ c.e = e /\ c.to = to /\ m.out \in Seq(Shown)
  BY DEF Machine
<1>2. i \in 0..Len(m.out)
  BY <1>1, ByIdIs
<1> HIDE DEF c, i
<1>3. x = IF i = 0 THEN View!Threw(m) ELSE [m EXCEPT !.out = o]
  BY <1>1 DEF View!Exec, i
<1>4. CASE i = 0
  <2>1. x \in Machine /\ x.bad
    BY <1>3, <1>4 DEF Machine, View!Threw
  <2> QED  BY <1>4, <2>1 DEF c, i
<1>5. CASE i # 0
  <2>1. i \in 1..Len(m.out)
    BY <1>1, <1>2, <1>5, LenProperties
  <2>2. o \in Seq(Shown) /\ Renames(m.out, i, to, o)
    BY <1>1, <2>1, NamedIs
  <2> HIDE DEF o
  <2>3. x \in Machine /\ ~x.bad /\ x.d = m.d /\ x.old = m.old /\ x.out = o
    BY <1>3, <1>5, <2>2 DEF Machine
  <2> QED  BY <1>5, <2>1, <2>2, <2>3 DEF c, i
<1> QED  BY <1>4, <1>5

\* In s the identifiers from[1] to from[h] have been changed to those of to.
RenamedTo(s, from, to, h, o) ==
  /\ Len(o) = Len(s)
  /\ \A x \in 1..Len(s) :
       /\ o[x].what = s[x].what /\ o[x].depth = s[x].depth
       /\ \A j \in 1..h : s[x].id = from[j] => o[x].id = to[j]
       /\ (\A j \in 1..h : s[x].id # from[j]) => o[x].id = s[x].id

\* Each is of one element at most, and none becomes another.
Renaming(s, from, to, n) ==
  /\ \A j \in 1..n : from[j] \in Nat /\ to[j] \in Nat
  /\ \A i, j \in 1..n : from[i] = from[j] => i = j
  /\ \A i, j \in 1..n : to[i] # from[j]
  /\ \A x, y \in 1..Len(s) : \A j \in 1..n : s[x].id = from[j] /\ s[y].id = from[j] => x = y

\* an element has the identifier
Present(s, e) == \E x \in 1..Len(s) : s[x].id = e

\* One more is renamed if the page has it; if not, the machine throws.
LEMMA RenameOne ==
  ASSUME NEW s \in Seq(Shown), NEW n \in Nat, NEW from, NEW to, Renaming(s, from, to, n),
         NEW h \in 1..n, NEW m \in Machine, ~m.bad, RenamedTo(s, from, to, h - 1, m.out)
  PROVE  LET x == View!Exec(m, [op |-> "reid", e |-> from[h], to |-> to[h]])
         IN /\ x \in Machine /\ (~x.bad <=> Present(s, from[h]))
            /\ ~x.bad => x.d = m.d /\ x.old = m.old /\ RenamedTo(s, from, to, h, x.out)
<1> DEFINE e == from[h]
           t == to[h]
           x == View!Exec(m, [op |-> "reid", e |-> e, to |-> t])
           i == View!ById(m.out, e)
<1>1. /\ e \in Nat /\ t \in Nat
      /\ \A j \in 1..n : from[j] = e => j = h
      /\ \A j \in 1..n : to[j] # e
      /\ \A y, z \in 1..Len(s) : s[y].id = e /\ s[z].id = e => y = z
  BY DEF Renaming
<1>2. m.out \in Seq(Shown) /\ Len(m.out) = Len(s) /\ Len(s) \in Nat /\ h \in Nat
      /\ \A j \in 1..(h - 1) : j \in 1..n /\ j # h
  BY LenProperties DEF Machine, RenamedTo
<1>3. ASSUME NEW y \in 1..Len(s)
      PROVE  m.out[y].id = e <=> s[y].id = e
  <2>1. CASE \E j \in 1..(h - 1) : s[y].id = from[j]
    <3>1. PICK j \in 1..(h - 1) : s[y].id = from[j]
      BY <2>1
    <3>2. m.out[y].id = to[j]
      BY <3>1 DEF RenamedTo
    <3> QED  BY <1>1, <1>2, <3>1, <3>2
  <2>2. CASE \A j \in 1..(h - 1) : s[y].id # from[j]
    BY <2>2 DEF RenamedTo
  <2> QED  BY <2>1, <2>2
<1>4. /\ i \in 0..Len(m.out)
      /\ i # 0 => m.out[i].id = e
      /\ i = 0 => \A y \in 1..Len(m.out) : m.out[y].id # e
  BY <1>2, ByIdIs
<1>5. /\ x \in Machine
      /\ i = 0 => x.bad
      /\ i # 0 => /\ ~x.bad /\ x.d = m.d /\ x.old = m.old
                  /\ i \in 1..Len(m.out) /\ Renames(m.out, i, t, x.out)
  BY <1>1, ExecReid
<1> HIDE DEF x, i, e, t
<1>6. CASE i = 0
  <2>1. ~Present(s, e)
    BY <1>2, <1>3, <1>4, <1>6 DEF Present
  <2> QED  BY <1>5, <1>6, <2>1 DEF x, e, t
<1>7. CASE i # 0
  <2>1. i \in 1..Len(s) /\ s[i].id = e
    BY <1>2, <1>3, <1>4, <1>5, <1>7
  <2>2. Present(s, e)
    BY <2>1 DEF Present
  <2>3. Len(x.out) = Len(s)
    BY <1>2, <1>5, <1>7 DEF Renames
  <2>4. ASSUME NEW y \in 1..Len(s)
        PROVE  /\ x.out[y].what = s[y].what /\ x.out[y].depth = s[y].depth
               /\ \A j \in 1..h : s[y].id = from[j] => x.out[y].id = to[j]
               /\ (\A j \in 1..h : s[y].id # from[j]) => x.out[y].id = s[y].id
    <3>1. /\ m.out[y].what = s[y].what /\ m.out[y].depth = s[y].depth
          /\ \A j \in 1..(h - 1) : s[y].id = from[j] => m.out[y].id = to[j]
          /\ (\A j \in 1..(h - 1) : s[y].id # from[j]) => m.out[y].id = s[y].id
      BY DEF RenamedTo
    <3>2. \A j \in 1..h : j \in 1..(h - 1) \/ j = h
      BY <1>2
    <3>3. CASE y = i
      <4>1. /\ x.out[y].id = t /\ x.out[y].what = m.out[y].what
            /\ x.out[y].depth = m.out[y].depth
        BY <1>5, <1>7, <3>3 DEF Renames
      <4>2. \A j \in 1..(h - 1) : s[y].id # from[j]
        BY <1>1, <1>2, <2>1, <3>3
      <4>3. h \in 1..h /\ s[y].id = from[h]
        BY <1>2, <2>1, <3>3 DEF e
      <4> QED  BY <3>1, <3>2, <4>1, <4>2, <4>3 DEF t
    <3>4. CASE y # i
      <4>1. x.out[y] = m.out[y]
        BY <1>2, <1>5, <1>7, <3>4 DEF Renames
      <4>2. s[y].id # from[h]
        BY <1>1, <2>1, <3>4 DEF e
      <4>3. \A j \in 1..(h - 1) : j \in 1..h
        BY <1>2
      <4> QED  BY <3>1, <3>2, <4>1, <4>2, <4>3
    <3> QED  BY <3>3, <3>4
  <2>5. RenamedTo(s, from, to, h, x.out)
    BY <2>3, <2>4 DEF RenamedTo
  <2> QED  BY <1>5, <1>7, <2>2, <2>5 DEF x, e, t
<1> QED  BY <1>6, <1>7

\* What is executed after a program that throws changes nothing.
LEMMA BadStays ==
  ASSUME NEW n \in Nat, NEW f, NEW c, f[0] \in Machine, f[0].bad,
         \A k \in 1..n : f[k] = View!Exec(f[k - 1], c[k])
  PROVE  f[n] = f[0]
<1> DEFINE Bad == {k \in 0..n : f[k] # f[0]}
<1>1. Bad = {}
  <2> SUFFICES ASSUME Bad # {}  PROVE FALSE
    OBVIOUS
  <2>1. PICK k \in Bad : \A j \in Bad : k <= j
    <3>1. Bad \in SUBSET Nat
      OBVIOUS
    <3> HIDE DEF Bad
    <3> QED  BY <3>1, LeastExists
  <2>2. k \in 1..n /\ k - 1 \in 0..n /\ k - 1 \notin Bad
    BY <2>1
  <2>3. f[k - 1] = f[0]
    BY <2>2
  <2>4. f[k] = View!Exec(f[0], c[k])
    BY <2>2, <2>3
  <2>5. f[k] = f[0]
    BY <2>4, ExecBad
  <2> QED  BY <2>1, <2>5
<1> QED  BY <1>1

\* All the renaming of a part.
LEMMA RenameAll ==
  ASSUME NEW s \in Seq(Shown), NEW n \in Nat, NEW from, NEW to, Renaming(s, from, to, n),
         NEW f, f[0] \in Machine, ~f[0].bad, f[0].out = s,
         \A h \in 1..n :
           f[h] = View!Exec(f[h - 1], [op |-> "reid", e |-> from[h], to |-> to[h]])
  PROVE  /\ f[n] \in Machine
         /\ ~f[n].bad <=> \A j \in 1..n : Present(s, from[j])
         /\ ~f[n].bad => /\ f[n].d = f[0].d /\ f[n].old = f[0].old
                         /\ RenamedTo(s, from, to, n, f[n].out)
<1> DEFINE Done(h) ==
             /\ f[h] \in Machine
             /\ ~f[h].bad <=> \A j \in 1..h : Present(s, from[j])
             /\ ~f[h].bad => /\ f[h].d = f[0].d /\ f[h].old = f[0].old
                             /\ RenamedTo(s, from, to, h, f[h].out)
           Bad == {h \in 0..n : ~Done(h)}
<1>1. Done(0)
  BY DEF RenamedTo
<1>2. ASSUME NEW h \in 1..n, Done(h - 1)  PROVE Done(h)
  <2>1. f[h] = View!Exec(f[h - 1], [op |-> "reid", e |-> from[h], to |-> to[h]])
    OBVIOUS
  <2>2. /\ f[h - 1] \in Machine
        /\ ~f[h - 1].bad <=> \A j \in 1..(h - 1) : Present(s, from[j])
        /\ ~f[h - 1].bad => /\ f[h - 1].d = f[0].d /\ f[h - 1].old = f[0].old
                            /\ RenamedTo(s, from, to, h - 1, f[h - 1].out)
    BY <1>2
  <2>3. \A j : j \in 1..h <=> j \in 1..(h - 1) \/ j = h
    OBVIOUS
  <2>4. CASE f[h - 1].bad
    <3>1. f[h] = f[h - 1]
      BY <2>1, <2>2, <2>4, ExecBad
    <3> QED  BY <2>2, <2>3, <2>4, <3>1
  <2>5. CASE ~f[h - 1].bad
    <3> DEFINE m == f[h - 1]
    <3>1. m \in Machine /\ ~m.bad /\ RenamedTo(s, from, to, h - 1, m.out)
      BY <2>2, <2>5
    <3> HIDE DEF m
    <3>2. LET x == View!Exec(m, [op |-> "reid", e |-> from[h], to |-> to[h]])
          IN /\ x \in Machine /\ (~x.bad <=> Present(s, from[h]))
             /\ ~x.bad => x.d = m.d /\ x.old = m.old /\ RenamedTo(s, from, to, h, x.out)
      BY <3>1, RenameOne
    <3>3. /\ f[h] \in Machine /\ (~f[h].bad <=> Present(s, from[h]))
          /\ ~f[h].bad => f[h].d = m.d /\ f[h].old = m.old /\ RenamedTo(s, from, to, h, f[h].out)
      BY <2>1, <3>2 DEF m
    <3> QED  BY <2>2, <2>3, <2>5, <3>3 DEF m
  <2> QED  BY <2>4, <2>5
<1>3. Bad = {}
  <2> SUFFICES ASSUME Bad # {}  PROVE FALSE
    OBVIOUS
  <2> HIDE DEF Done
  <2>1. PICK k \in Bad : \A j \in Bad : k <= j
    <3>1. Bad \in SUBSET Nat
      OBVIOUS
    <3> HIDE DEF Bad
    <3> QED  BY <3>1, LeastExists
  <2>2. k # 0
    BY <1>1, <2>1
  <2>3. k \in 1..n /\ k - 1 \in 0..n /\ k - 1 \notin Bad
    BY <2>1, <2>2
  <2>4. Done(k - 1)
    BY <2>3
  <2> QED  BY <1>2, <2>1, <2>3, <2>4
<1>4. Done(n)
  <2> HIDE DEF Done
  <2> QED  BY <1>3
<1> QED  BY <1>4

\* the node is left
IsLeft(t, p, y) == \E z \in 1..Len(t) : p[z] = y

\* What is left without the tree of a node.
LEMMA LeftWithout ==
  ASSUME NEW s \in Seq(Shown), NEW t \in Seq(Shown), NEW p, Left(s, t, p), NEW i \in 1..Len(t)
  PROVE  \E q : /\ Left(s, View!Without(t, i), q)
                /\ \A y \in 1..Len(s) : IsLeft(View!Without(t, i), q, y) <=>
                     IsLeft(t, p, y) /\ ~Below(s, p[i], y)
<1> DEFINE r == View!Without(t, i)
           n == View!End(t, i) - i + 1
           at(k) == IF k < i THEN k ELSE k + n
           q == [k \in 1..Len(r) |-> p[at(k)]]
<1>1. /\ Len(s) \in Nat /\ Len(t) \in Nat /\ i \in Nat /\ View!End(t, i) \in i..Len(t)
      /\ \A j \in i..Len(t) : Below(t, i, j) <=> j <= View!End(t, i)
  BY EndIs, LenProperties
<1>2. /\ r \in Seq(Shown) /\ Len(r) = Len(t) - n /\ n \in Nat \ {0} /\ Len(r) \in Nat
      /\ \A k \in 1..Len(r) : r[k] = IF k < i THEN t[k] ELSE t[k + n]
  BY WithoutIs
<1>3. i + n - 1 = View!End(t, i)
  BY <1>1
<1> HIDE DEF r, n
<1>4. /\ \A k \in 1..Len(r) : at(k) \in 1..Len(t) /\ (k < i \/ at(k) > i + n - 1)
      /\ \A k, l \in 1..Len(r) : k < l => at(k) < at(l)
      /\ \A z \in 1..Len(t) : z < i => z \in 1..Len(r) /\ at(z) = z
      /\ \A z \in 1..Len(t) : z > i + n - 1 => z - n \in 1..Len(r) /\ at(z - n) = z
  BY <1>1, <1>2, <1>3
<1>5. \A k \in 1..Len(r) : r[k] = t[at(k)]
  BY <1>2
<1> HIDE DEF at
<1>6. /\ \A x \in 1..Len(t) : p[x] \in 1..Len(s) /\ t[x] = s[p[x]]
      /\ \A x, y \in 1..Len(t) : x < y => p[x] < p[y]
      /\ \A x \in 1..Len(t) : \A y \in 1..Len(s) : Below(s, y, p[x]) => IsLeft(t, p, y)
  BY DEF Left, IsLeft
\* a node that is left is above or after the tree
<1>7. \A k \in 1..Len(r) : ~Below(s, p[i], p[at(k)])
  <2> SUFFICES ASSUME NEW k \in 1..Len(r), Below(s, p[i], p[at(k)])  PROVE FALSE
    OBVIOUS
  <2>1. at(k) \in 1..Len(t) /\ (k < i \/ at(k) > i + n - 1)
    BY <1>4
  <2>2. Below(t, i, at(k))
    BY <2>1, LeftBelow
  <2>3. i <= at(k)
    BY <2>2 DEF Below
  <2>4. at(k) <= View!End(t, i)
    <3>1. at(k) \in i..Len(t)
      BY <1>1, <2>1, <2>3
    <3> QED  BY <1>1, <2>2, <3>1
  <2>5. CASE k < i
    <3>1. k \in 1..Len(t) /\ k < i
      BY <1>1, <1>2, <2>5
    <3>2. at(k) = k
      BY <1>4, <3>1
    <3> QED  BY <1>1, <2>3, <3>1, <3>2
  <2>6. CASE at(k) > i + n - 1
    BY <1>1, <1>3, <2>1, <2>4, <2>6
  <2> QED  BY <2>1, <2>5, <2>6
<1>8. \A z \in 1..Len(t) : ~Below(s, p[i], p[z]) => \E k \in 1..Len(r) : at(k) = z
  <2> SUFFICES ASSUME NEW z \in 1..Len(t), ~Below(s, p[i], p[z])
               PROVE  \E k \in 1..Len(r) : at(k) = z
    OBVIOUS
  <2>1. ~Below(t, i, z)
    BY LeftBelow
  <2>2. CASE z < i
    BY <1>4, <2>2
  <2>3. CASE ~(z < i)
    <3>1. z \in i..Len(t)
      BY <1>1, <2>3
    <3>2. z > i + n - 1
      BY <1>1, <1>3, <2>1, <3>1
    <3> QED  BY <1>4, <3>2
  <2> QED  BY <2>2, <2>3
<1>9. \A k \in 1..Len(r) : q[k] = p[at(k)]
  OBVIOUS
<1>10. q \in [1..Len(r) -> 1..Len(s)]
  BY <1>4, <1>6
<1> HIDE DEF q
<1>11. \A y \in 1..Len(s) : IsLeft(r, q, y) <=> IsLeft(t, p, y) /\ ~Below(s, p[i], y)
  <2> SUFFICES ASSUME NEW y \in 1..Len(s)
               PROVE  IsLeft(r, q, y) <=> IsLeft(t, p, y) /\ ~Below(s, p[i], y)
    OBVIOUS
  <2>1. ASSUME IsLeft(r, q, y)  PROVE IsLeft(t, p, y) /\ ~Below(s, p[i], y)
    <3>1. PICK k \in 1..Len(r) : q[k] = y
      BY <2>1 DEF IsLeft
    <3>2. p[at(k)] = y /\ at(k) \in 1..Len(t)
      BY <1>4, <1>9, <3>1
    <3> QED  BY <1>7, <3>2 DEF IsLeft
  <2>2. ASSUME IsLeft(t, p, y), ~Below(s, p[i], y)  PROVE IsLeft(r, q, y)
    <3>1. PICK z \in 1..Len(t) : p[z] = y
      BY <2>2 DEF IsLeft
    <3>2. PICK k \in 1..Len(r) : at(k) = z
      BY <1>8, <2>2, <3>1
    <3> QED  BY <1>9, <3>1, <3>2 DEF IsLeft
  <2> QED  BY <2>1, <2>2
<1>12. ASSUME NEW x \in 1..Len(r), NEW y \in 1..Len(s), Below(s, y, q[x])
       PROVE  IsLeft(r, q, y)
  <2>1. q[x] = p[at(x)] /\ at(x) \in 1..Len(t) /\ q[x] \in 1..Len(s)
    BY <1>4, <1>6, <1>9
  <2>2. IsLeft(t, p, y)
    BY <1>6, <1>12, <2>1
  <2>3. ~Below(s, p[i], y)
    <3>1. ASSUME Below(s, p[i], y)  PROVE FALSE
      <4>1. p[i] \in 1..Len(s)
        BY <1>6
      <4>2. Below(s, p[i], q[x])
        BY <1>12, <2>1, <3>1, <4>1, BelowTransitive
      <4> QED  BY <1>7, <2>1, <4>2
    <3> QED  BY <3>1
  <2> QED  BY <1>11, <2>2, <2>3
<1>13. Left(s, r, q)
  <2>1. \A x, y \in 1..Len(r) : x < y => q[x] < q[y]
    <3> SUFFICES ASSUME NEW x \in 1..Len(r), NEW y \in 1..Len(r), x < y
                 PROVE  q[x] < q[y]
      OBVIOUS
    <3>1. at(x) \in 1..Len(t) /\ at(y) \in 1..Len(t) /\ at(x) < at(y)
      BY <1>4
    <3>2. q[x] = p[at(x)] /\ q[y] = p[at(y)]
      BY <1>9, Zenon
    <3> QED  BY <1>6, <3>1, <3>2
  <2>2. \A x \in 1..Len(r) : r[x] = s[q[x]]
    BY <1>4, <1>5, <1>6, <1>9
  <2>3. \A x \in 1..Len(r) : \A y \in 1..Len(s) :
          Below(s, y, q[x]) => \E z \in 1..Len(r) : q[z] = y
    BY <1>12 DEF IsLeft
  <2> QED  BY <1>10, <2>1, <2>2, <2>3 DEF Left
<1> QED  BY <1>11, <1>13 DEF r

-----------------------------------------------------------------------------
(* A part of the page that the engine knows.                               *)

\* The engine has the elements of the page, and no two have the same identifier.
Synced(s, g, mk) ==
  /\ Places(g, s, mk)
  /\ \A h \in 1..Len(g) : Scoped(g, s, mk, h)
  /\ \A i, j \in 1..Len(s) : s[i].id = s[j].id /\ s[i].id # View!None => i = j

\* a is the tree of the i-th node of t, at depth d, with the identifiers of ga, which
\* is what the engine keeps of the k-th entity and those below it
Renewed(g, k, ga, t, i, a, d) ==
  /\ Len(ga) = g[k].scp
  /\ \A h \in 1..Len(ga) : /\ ga[h].scp = g[k + h - 1].scp /\ ga[h].hdl = g[k + h - 1].hdl
                           /\ ga[h].ntt # View!None
  /\ Len(a) = View!End(t, i) - i + 1
  /\ \A y \in 1..Len(a) :
       /\ a[y].what = t[i + y - 1].what
       /\ a[y].depth = t[i + y - 1].depth - t[i].depth + d
       /\ \A h \in 1..Len(ga) : t[i + y - 1].id = g[k + h - 1].ntt => a[y].id = ga[h].ntt
       /\ (\A h \in 1..Len(ga) : t[i + y - 1].id # g[k + h - 1].ntt) =>
            a[y].id = t[i + y - 1].id

\* A part that is taken and renamed as the engine renames it is in sync by itself.
LEMMA RenewedDrawn ==
  ASSUME NEW s \in Seq(Shown), NEW g \in Seq(Entity), NEW mk, Synced(s, g, mk),
         NEW t \in Seq(Shown), NEW p, Left(s, t, p), NEW i \in 1..Len(t),
         NEW k \in 1..Len(g), p[i] = mk[k],
         NEW ga \in Seq(Entity), NEW a \in Seq(Shown), NEW d \in Nat,
         Renewed(g, k, ga, t, i, a, d + 1),
         \A h \in 1..Len(ga) : IsLeft(t, p, mk[k + h - 1])
  PROVE  /\ \E ma : Places(ga, a, ma) /\ \A h \in 1..Len(ga) : Scoped(ga, a, ma, h)
         /\ Hangs(a, d)
<1> DEFINE c == Len(ga)
           q(y) == p[i + y - 1]
           ma == [h \in 1..c |-> CHOOSE y \in 1..Len(a) : q(y) = mk[k + h - 1]]
<1>1. /\ Len(s) \in Nat /\ Len(t) \in Nat /\ i \in Nat /\ View!End(t, i) \in i..Len(t)
      /\ \A j \in i..Len(t) : Below(t, i, j) <=> j <= View!End(t, i)
      /\ Len(g) \in Nat /\ k \in Nat /\ c \in Nat /\ Len(a) = View!End(t, i) - i + 1
  BY EndIs, LenProperties DEF Renewed
<1>2. /\ Len(a) \in Nat \ {0}
      /\ \A y \in 1..Len(a) : i + y - 1 \in 1..Len(t) /\ Below(t, i, i + y - 1)
      /\ \A z \in 1..Len(t) : Below(t, i, z) => z - i + 1 \in 1..Len(a) /\ i + (z - i + 1) - 1 = z
  <2>1. /\ Len(a) \in Nat \ {0}
        /\ \A y \in 1..Len(a) : i + y - 1 \in i..Len(t) /\ i + y - 1 <= View!End(t, i)
    BY <1>1
  <2>2. \A y \in 1..Len(a) : i + y - 1 \in 1..Len(t) /\ Below(t, i, i + y - 1)
    <3> SUFFICES ASSUME NEW y \in 1..Len(a)
                 PROVE  i + y - 1 \in 1..Len(t) /\ Below(t, i, i + y - 1)
      OBVIOUS
    <3>1. i + y - 1 \in i..Len(t) /\ i + y - 1 <= View!End(t, i)
      BY <2>1
    <3> QED  BY <1>1, <3>1
  <2>3. \A z \in 1..Len(t) : Below(t, i, z) => z \in i..Len(t)
    BY <1>1 DEF Below
  <2>4. ASSUME NEW z \in 1..Len(t), Below(t, i, z)
        PROVE  z - i + 1 \in 1..Len(a) /\ i + (z - i + 1) - 1 = z
    <3>1. z \in i..Len(t)
      BY <2>3, <2>4
    <3>2. z <= View!End(t, i)
      BY <1>1, <2>4, <3>1
    <3> QED  BY <1>1, <3>1, <3>2
  <2> QED  BY <2>1, <2>2, <2>4
<1>3. /\ Places(g, s, mk) /\ \A h \in 1..Len(g) : Scoped(g, s, mk, h)
      /\ \A x, y \in 1..Len(s) : s[x].id = s[y].id /\ s[x].id # View!None => x = y
  BY DEF Synced
<1>4. /\ \A h \in 1..Len(g) : /\ mk[h] \in 1..Len(s) /\ s[mk[h]].id # View!None
                              /\ g[h].ntt = s[mk[h]].id /\ g[h].hdl = s[mk[h]].what
      /\ \A x, y \in 1..Len(g) : x < y => mk[x] < mk[y]
      /\ \A y \in 1..Len(s) : s[y].id # View!None => \E h \in 1..Len(g) : mk[h] = y
  BY <1>3 DEF Places
<1>5. /\ \A x \in 1..Len(t) : p[x] \in 1..Len(s) /\ t[x] = s[p[x]]
      /\ \A x, y \in 1..Len(t) : x < y => p[x] < p[y]
  BY DEF Left
<1>6. /\ c = g[k].scp /\ c \in 1..(Len(g) - k + 1)
      /\ \A h \in 1..Len(g) : Below(s, mk[k], mk[h]) <=> k <= h /\ h < k + c
  BY <1>3 DEF Renewed, Scoped
<1>7. /\ \A h \in 1..c : /\ ga[h].scp = g[k + h - 1].scp /\ ga[h].hdl = g[k + h - 1].hdl
                         /\ ga[h].ntt # View!None
      /\ \A y \in 1..Len(a) :
           /\ a[y].what = t[i + y - 1].what
           /\ a[y].depth = t[i + y - 1].depth - t[i].depth + (d + 1)
           /\ \A h \in 1..c : t[i + y - 1].id = g[k + h - 1].ntt => a[y].id = ga[h].ntt
           /\ (\A h \in 1..c : t[i + y - 1].id # g[k + h - 1].ntt) => a[y].id = t[i + y - 1].id
  BY DEF Renewed
<1>8. \A h \in 1..c : IsLeft(t, p, mk[k + h - 1])
  OBVIOUS
<1> HIDE DEF c
<1>9. \A h \in 1..c : k + h - 1 \in 1..Len(g) /\ Below(s, mk[k], mk[k + h - 1])
  <2> SUFFICES ASSUME NEW h \in 1..c
               PROVE  k + h - 1 \in 1..Len(g) /\ Below(s, mk[k], mk[k + h - 1])
    OBVIOUS
  <2>1. k + h - 1 \in 1..Len(g) /\ k <= k + h - 1 /\ k + h - 1 < k + c
    BY <1>1, <1>6, SMTT(60)
  <2> QED  BY <1>6, <2>1
<1>10. \A h \in 1..c : \E y \in 1..Len(a) : q(y) = mk[k + h - 1]
  <2> SUFFICES ASSUME NEW h \in 1..c  PROVE \E y \in 1..Len(a) : q(y) = mk[k + h - 1]
    OBVIOUS
  <2>1. PICK z \in 1..Len(t) : p[z] = mk[k + h - 1]
    BY <1>8 DEF IsLeft
  <2>2. Below(t, i, z)
    BY <1>9, <2>1, LeftBelow
  <2> QED  BY <1>2, <2>1, <2>2
<1>11. \A h \in 1..c : ma[h] \in 1..Len(a) /\ q(ma[h]) = mk[k + h - 1]
  <2> SUFFICES ASSUME NEW h \in 1..c  PROVE ma[h] \in 1..Len(a) /\ q(ma[h]) = mk[k + h - 1]
    OBVIOUS
  <2>1. ma[h] = CHOOSE y \in 1..Len(a) : q(y) = mk[k + h - 1]
    OBVIOUS
  <2>2. \E y \in 1..Len(a) : q(y) = mk[k + h - 1]
    BY <1>10
  <2> HIDE DEF ma, q
  <2> QED  BY <2>1, <2>2, Zenon
<1>12. ma \in [1..c -> 1..Len(a)]
  BY <1>11
<1> HIDE DEF ma
<1>13. \A y \in 1..Len(a) : q(y) \in 1..Len(s) /\ t[i + y - 1] = s[q(y)]
  BY <1>2, <1>5
<1>14. /\ \A x, y \in 1..Len(a) : x < y => q(x) < q(y)
       /\ \A x, y \in 1..Len(a) : q(x) = q(y) => x = y
       /\ \A x, y \in 1..Len(a) : q(x) < q(y) => x < y
  <2>1. ASSUME NEW x \in 1..Len(a), NEW y \in 1..Len(a), x < y  PROVE q(x) < q(y)
    <3>1. i + x - 1 < i + y - 1
      BY <1>1, <1>2, <2>1
    <3> QED  BY <1>2, <1>5, <3>1
  <2>2. ASSUME NEW x \in 1..Len(a)  PROVE q(x) \in Int /\ x \in Int
    <3>1. q(x) \in 1..Len(s)
      BY <1>13
    <3> HIDE DEF q
    <3> QED  BY <1>1, <1>2, <3>1
  <2> HIDE DEF q
  <2>3. \A x, y \in 1..Len(a) : x < y => q(x) < q(y)
    BY <2>1
  <2> QED  BY <2>2, <2>3
<1> HIDE DEF q
<1>15. \A y \in 1..Len(a) : s[q(y)].id # View!None => \E h \in 1..c : ma[h] = y
  <2> SUFFICES ASSUME NEW y \in 1..Len(a), s[q(y)].id # View!None
               PROVE  \E h \in 1..c : ma[h] = y
    OBVIOUS
  <2>1. PICK j \in 1..Len(g) : mk[j] = q(y)
    BY <1>4, <1>13
  <2>2. Below(s, p[i], p[i + y - 1])
    BY <1>2, LeftBelow
  <2>3. Below(s, mk[k], mk[j])
    BY <2>1, <2>2 DEF q
  <2>4. j - k + 1 \in 1..c /\ k + (j - k + 1) - 1 = j
    BY <1>1, <1>6, <2>3, SMTT(60)
  <2>5. q(ma[j - k + 1]) = q(y) /\ ma[j - k + 1] \in 1..Len(a)
    BY <1>11, <2>1, <2>4
  <2> QED  BY <1>14, <2>4, <2>5
<1>16. \A h \in 1..c : a[ma[h]].id = ga[h].ntt /\ a[ma[h]].what = ga[h].hdl
  <2> SUFFICES ASSUME NEW h \in 1..c
               PROVE  a[ma[h]].id = ga[h].ntt /\ a[ma[h]].what = ga[h].hdl
    OBVIOUS
  <2>1. t[i + ma[h] - 1] = s[mk[k + h - 1]]
    BY <1>11, <1>13
  <2>2. k + h - 1 \in 1..Len(g)
    BY <1>9
  <2>3. /\ t[i + ma[h] - 1].id = g[k + h - 1].ntt
        /\ t[i + ma[h] - 1].what = g[k + h - 1].hdl
    BY <1>4, <2>1, <2>2
  <2> QED  BY <1>7, <1>11, <2>3
<1>17. ASSUME NEW y \in 1..Len(a), a[y].id # View!None  PROVE \E h \in 1..c : ma[h] = y
  <2>1. ASSUME s[q(y)].id = View!None  PROVE FALSE
    <3>1. t[i + y - 1].id = View!None
      BY <1>13, <2>1
    <3>2. \A h \in 1..c : g[k + h - 1].ntt # View!None
      BY <1>4, <1>9
    <3> QED  BY <1>7, <1>17, <3>1, <3>2
  <2> QED  BY <1>15, <2>1
<1>18. ASSUME NEW x \in 1..c, NEW y \in 1..c, x < y  PROVE ma[x] < ma[y]
  <2>1. /\ k + x - 1 < k + y - 1 /\ k + x - 1 \in 1..Len(g) /\ k + y - 1 \in 1..Len(g)
    <3>1. k + x - 1 < k + y - 1
      BY <1>1, <1>18
    <3> QED  BY <1>9, <3>1
  <2>2. q(ma[x]) < q(ma[y])
    BY <1>4, <1>11, <2>1
  <2> QED  BY <1>11, <1>14, <2>2
<1>19. Places(ga, a, ma)
  <2>1. \A h \in 1..c : /\ a[ma[h]].id # View!None
                        /\ ga[h].ntt = a[ma[h]].id /\ ga[h].hdl = a[ma[h]].what
    BY <1>7, <1>16
  <2> QED  BY <1>12, <1>17, <1>18, <2>1 DEF Places, c
<1>20. \A y \in 1..Len(a) : t[i + y - 1].depth \in Nat /\ t[i].depth \in Nat
  <2>1. \A x \in 1..Len(t) : t[x] \in Shown
    BY <1>1, ElementOfSeq
  <2>2. \A x \in 1..Len(t) : t[x].depth \in Nat
    BY <2>1 DEF Shown
  <2> QED  BY <1>2, <2>2
<1>21. ASSUME NEW x \in 1..Len(a), NEW y \in 1..Len(a)
       PROVE  Below(a, x, y) <=> Below(s, q(x), q(y))
  <2>1. Below(t, i + x - 1, i + y - 1) <=> Below(s, q(x), q(y))
    BY <1>2, LeftBelow DEF q
  <2>2. x <= y <=> i + x - 1 <= i + y - 1
    BY <1>1, <1>2
  <2>3. \A z \in (x + 1)..y : z \in 1..Len(a) /\ i + z - 1 \in (i + x - 1 + 1)..(i + y - 1)
    BY <1>1, <1>2, SMTT(60)
  <2>4. \A z \in (i + x - 1 + 1)..(i + y - 1) :
          z - i + 1 \in (x + 1)..y /\ i + (z - i + 1) - 1 = z
    BY <1>1, <1>2
  <2>5. \A z \in 1..Len(a) :
          a[z].depth > a[x].depth <=> t[i + z - 1].depth > t[i + x - 1].depth
    <3> SUFFICES ASSUME NEW z \in 1..Len(a)
                 PROVE  a[z].depth > a[x].depth <=> t[i + z - 1].depth > t[i + x - 1].depth
      OBVIOUS
    <3>1. /\ a[z].depth = t[i + z - 1].depth - t[i].depth + (d + 1)
          /\ a[x].depth = t[i + x - 1].depth - t[i].depth + (d + 1)
      BY <1>7
    <3>2. /\ t[i + z - 1].depth \in Nat /\ t[i + x - 1].depth \in Nat /\ t[i].depth \in Nat
      BY <1>20
    <3>3. \A u, v, w \in Nat : u - w + (d + 1) > v - w + (d + 1) <=> u > v
      OBVIOUS
    <3>4. t[i + z - 1].depth - t[i].depth + (d + 1) > t[i + x - 1].depth - t[i].depth + (d + 1)
            <=> t[i + z - 1].depth > t[i + x - 1].depth
      BY <3>2, <3>3
    <3> QED  BY <3>1, <3>4, Zenon
  <2>6. ASSUME Below(a, x, y)  PROVE Below(t, i + x - 1, i + y - 1)
    <3>1. ASSUME NEW z \in (i + x - 1 + 1)..(i + y - 1)  PROVE t[z].depth > t[i + x - 1].depth
      <4> DEFINE j == z - i + 1
      <4>1. j \in (x + 1)..y /\ i + j - 1 = z
        BY <2>4
      <4> HIDE DEF j
      <4>2. a[j].depth > a[x].depth
        BY <2>6, <4>1 DEF Below
      <4> QED  BY <2>3, <2>5, <4>1, <4>2
    <3> QED  BY <2>2, <2>6, <3>1 DEF Below
  <2>7. ASSUME Below(t, i + x - 1, i + y - 1)  PROVE Below(a, x, y)
    <3>1. ASSUME NEW z \in (x + 1)..y  PROVE a[z].depth > a[x].depth
      <4>1. t[i + z - 1].depth > t[i + x - 1].depth
        BY <2>3, <2>7 DEF Below
      <4> QED  BY <2>3, <2>5, <4>1
    <3> QED  BY <2>2, <2>7, <3>1 DEF Below
  <2> QED  BY <2>1, <2>6, <2>7
<1>22. ASSUME NEW h \in 1..c  PROVE Scoped(ga, a, ma, h)
  <2> DEFINE j == k + h - 1
             w == g[j].scp
  <2>1. j \in 1..Len(g) /\ Below(s, mk[k], mk[j])
    BY <1>9
  <2>2. /\ w \in 1..(Len(g) - j + 1)
        /\ \A l \in 1..Len(g) : Below(s, mk[j], mk[l]) <=> j <= l /\ l < j + w
    BY <1>3, <2>1 DEF Scoped
  <2>3. ga[h].scp = w
    BY <1>7
  <2>4. j = k + h - 1 /\ h \in Nat
    BY <1>1
  <2> HIDE DEF j, w
  <2>5. j + w - 1 \in 1..Len(g) /\ j <= j + w - 1 /\ j + w - 1 < j + w
    BY <1>1, <2>1, <2>2
  <2>6. Below(s, mk[j], mk[j + w - 1])
    BY <2>2, <2>5
  <2>7. Below(s, mk[k], mk[j + w - 1])
    BY <1>4, <2>1, <2>5, <2>6, BelowTransitive
  <2>8. j + w - 1 < k + c
    BY <1>6, <2>5, <2>7
  <2>9. w \in 1..(c - h + 1)
    BY <1>1, <2>1, <2>2, <2>4, <2>8
  <2>10. ASSUME NEW l \in 1..c
         PROVE  Below(a, ma[h], ma[l]) <=> h <= l /\ l < h + w
    <3>1. Below(a, ma[h], ma[l]) <=> Below(s, mk[j], mk[k + l - 1])
      BY <1>11, <1>21, <2>4
    <3>2. k + l - 1 \in 1..Len(g) /\ l \in Nat
      <4>1. k + l - 1 \in 1..Len(g)
        BY <1>9
      <4> QED  BY <1>1, <4>1
    <3>3. Below(s, mk[j], mk[k + l - 1]) <=> j <= k + l - 1 /\ k + l - 1 < j + w
      BY <2>2, <3>2
    <3> QED  BY <1>1, <2>1, <2>2, <2>4, <3>1, <3>2, <3>3
  <2> QED  BY <2>3, <2>9, <2>10 DEF Scoped, c
<1>23. Hangs(a, d)
  <2>1. 1 \in 1..Len(a) /\ i + 1 - 1 = i
    BY <1>1, <1>2
  <2>2. a[1].depth = d + 1
    <3>1. a[1].depth = t[i].depth - t[i].depth + (d + 1)
      BY <1>7, <2>1
    <3> QED  BY <1>20, <2>1, <3>1
  <2>3. ASSUME NEW y \in 1..Len(a)  PROVE a[y].depth > d
    <3>1. CASE y = 1
      BY <2>2, <3>1
    <3>2. CASE y # 1
      <4>1. i + y - 1 \in (i + 1)..(i + y - 1)
        BY <1>1, <1>2, <3>2
      <4>2. t[i + y - 1].depth > t[i].depth
        BY <1>2, <4>1 DEF Below
      <4>3. a[y].depth = t[i + y - 1].depth - t[i].depth + (d + 1)
        BY <1>7
      <4>4. t[i + y - 1].depth \in Nat /\ t[i].depth \in Nat
        BY <1>20
      <4> QED  BY <4>2, <4>3, <4>4, SMTT(60)
    <3> QED  BY <3>1, <3>2
  <2> QED  BY <1>2, <2>2, <2>3 DEF Hangs
<1> QED  BY <1>19, <1>22, <1>23 DEF c

\* Nodes are equal when all about them is.
LEMMA SameNode ==
  ASSUME NEW u \in Shown, NEW v \in Shown,
         u.id = v.id, u.what = v.what, u.depth = v.depth
  PROVE  u = v
<1>1. u = [id |-> u.id, what |-> u.what, depth |-> u.depth]
  BY DEF Shown
<1>2. v = [id |-> v.id, what |-> v.what, depth |-> v.depth]
  BY DEF Shown
<1>3. [id |-> u.id, what |-> u.what, depth |-> u.depth]
      = [id |-> v.id, what |-> v.what, depth |-> v.depth]
  BY Zenon
<1> QED  BY <1>1, <1>2, <1>3

\* the entities of the k-th and those below it with names that are not on the page
Renews(s, g, k, ga) ==
  /\ Len(ga) = g[k].scp
  /\ \A h \in 1..Len(ga) :
       /\ ga[h].scp = g[k + h - 1].scp /\ ga[h].hdl = g[k + h - 1].hdl
       /\ ga[h].ntt # View!None /\ \A j \in 1..Len(s) : ga[h].ntt # s[j].id

\* No element of o has the identifier of one of s.
Apart(o, s) ==
  \A x \in 1..Len(o) : o[x].id # View!None => \A j \in 1..Len(s) : o[x].id # s[j].id

\* the machine gives the names to[1] to to[n] to those it has as from[1] to from[n]
Reids(f, from, to, n) ==
  \A h \in 1..n : f[h] = View!Exec(f[h - 1], [op |-> "reid", e |-> from[h], to |-> to[h]])

\* Nothing is renamed by a machine that has thrown.
LEMMA NoRenaming ==
  ASSUME NEW n \in Nat, NEW from, NEW to, NEW f, f[0] \in Machine, f[0].bad,
         Reids(f, from, to, n)
  PROVE  f[n] = f[0]
<1> DEFINE cs == [h \in 1..n |-> [op |-> "reid", e |-> from[h], to |-> to[h]]]
<1>1. \A h \in 1..n : f[h] = View!Exec(f[h - 1], cs[h])
  BY DEF Reids
<1> HIDE DEF cs
<1> QED  BY <1>1, BadStays

\* r is the tree of the i-th node of t, at depth d
IsPart(t, i, d, r) ==
  LET n == View!End(t, i) - i + 1
  IN /\ r \in Seq(Shown) /\ Len(r) = n /\ n \in Nat \ {0}
     /\ \A y \in 1..n : /\ i + y - 1 \in 1..Len(t)
                        /\ r[y].id = t[i + y - 1].id /\ r[y].what = t[i + y - 1].what
                        /\ r[y].depth = t[i + y - 1].depth - t[i].depth + d

\* What Reuse takes is such a part.
LEMMA PartTaken ==
  ASSUME NEW t \in Seq(Shown), NEW i \in 1..Len(t), NEW d \in Nat
  PROVE  IsPart(t, i, d, View!Part(t, i, d))
BY PartIs DEF IsPart

\* the machine takes the part of the k-th entity and gives it its new names
Reuses(f, m, g, k, ga) ==
  /\ f[0] = View!Exec(m, [op |-> "reuse", e |-> g[k].ntt])
  /\ \A h \in 1..Len(ga) :
       f[h] = View!Exec(f[h - 1], [op |-> "reid", e |-> g[k + h - 1].ntt, to |-> ga[h].ntt])

\* m has taken the part of the k-th entity and drawn it as ga says: then it is x. The
\* rest of the old page is left. If not all of the part was left, x has thrown.
Taken(s, mk, m, p, k, ga, x) ==
  /\ x \in Machine
  /\ ~x.bad <=> \A h \in 1..Len(ga) : IsLeft(m.old, p, mk[k + h - 1])
  /\ ~x.bad =>
       /\ x.d = m.d
       /\ \E a \in Seq(Shown) : \E ma :
            /\ Follows(m.out, a, x.out) /\ Hangs(a, m.d)
            /\ Places(ga, a, ma) /\ \A h \in 1..Len(ga) : Scoped(ga, a, ma, h)
       /\ \E q : /\ Left(s, x.old, q)
                 /\ \A y \in 1..Len(s) : IsLeft(x.old, q, y) <=>
                      IsLeft(m.old, p, y) /\ ~Below(s, mk[k], y)

\* A part is taken and renamed: all of it was there, or the machine throws.
LEMMA ReuseRun ==
  ASSUME NEW s \in Seq(Shown), NEW g \in Seq(Entity), NEW mk, Synced(s, g, mk),
         NEW m \in Machine, ~m.bad, m.d \in Nat, NEW p, Left(s, m.old, p),
         NEW k \in 1..Len(g), NEW ga \in Seq(Entity), Renews(s, g, k, ga), Apart(m.out, s),
         NEW f, Reuses(f, m, g, k, ga)
  PROVE  Taken(s, mk, m, p, k, ga, f[Len(ga)])
<1> SUFFICES
      LET x == f[Len(ga)]
      IN /\ x \in Machine
         /\ ~x.bad <=> \A h \in 1..Len(ga) : IsLeft(m.old, p, mk[k + h - 1])
         /\ ~x.bad =>
              /\ x.d = m.d
              /\ \E a \in Seq(Shown) : \E ma :
                   /\ Follows(m.out, a, x.out) /\ Hangs(a, m.d)
                   /\ Places(ga, a, ma) /\ \A h \in 1..Len(ga) : Scoped(ga, a, ma, h)
              /\ \E q : /\ Left(s, x.old, q)
                        /\ \A y \in 1..Len(s) : IsLeft(x.old, q, y) <=>
                             IsLeft(m.old, p, y) /\ ~Below(s, mk[k], y)
  BY Zenon DEF Taken
<1> DEFINE c == Len(ga)
           t == m.old
           i == View!ById(t, g[k].ntt)
           x == f[c]
           from == [h \in 1..c |-> g[k + h - 1].ntt]
           to == [h \in 1..c |-> ga[h].ntt]
<1>1. /\ t \in Seq(Shown) /\ m.out \in Seq(Shown)
      /\ Len(s) \in Nat /\ Len(t) \in Nat /\ Len(g) \in Nat /\ k \in Nat /\ c \in Nat
      /\ Len(m.out) \in Nat
  <2>1. t \in Seq(Shown) /\ m.out \in Seq(Shown)
    BY DEF Machine
  <2> QED  BY <2>1, LenProperties
<1>2. /\ Places(g, s, mk) /\ Scoped(g, s, mk, k)
      /\ \A y, z \in 1..Len(s) : s[y].id = s[z].id /\ s[y].id # View!None => y = z
  BY DEF Synced
<1>3. /\ \A h \in 1..Len(g) : /\ mk[h] \in 1..Len(s) /\ s[mk[h]].id # View!None
                              /\ g[h].ntt = s[mk[h]].id
      /\ \A y, z \in 1..Len(g) : y < z => mk[y] < mk[z]
  BY <1>2 DEF Places
<1>4. c \in 1..(Len(g) - k + 1) /\ \A h \in 1..c : k + h - 1 \in 1..Len(g)
  <2>1. c \in 1..(Len(g) - k + 1)
    BY <1>2 DEF Renews, Scoped
  <2> HIDE DEF c
  <2> QED  BY <1>1, <2>1
<1>5. /\ \A y \in 1..Len(t) : p[y] \in 1..Len(s) /\ t[y] = s[p[y]]
      /\ \A y, z \in 1..Len(t) : y < z => p[y] < p[z]
  BY DEF Left
<1>6. \A y, z \in 1..Len(t) : p[y] = p[z] => y = z
  <2> SUFFICES ASSUME NEW y \in 1..Len(t), NEW z \in 1..Len(t), p[y] = p[z]  PROVE y = z
    OBVIOUS
  <2>1. p[y] \in Nat /\ y \in Nat /\ z \in Nat
    BY <1>1, <1>5
  <2> QED  BY <1>5, <2>1
<1>7. \A y, z \in 1..Len(g) : mk[y] = mk[z] => y = z
  <2> SUFFICES ASSUME NEW y \in 1..Len(g), NEW z \in 1..Len(g), mk[y] = mk[z]  PROVE y = z
    OBVIOUS
  <2>1. mk[y] \in Nat /\ y \in Nat /\ z \in Nat
    BY <1>1, <1>3
  <2> QED  BY <1>3, <2>1
<1>8. \A h \in 1..c : /\ from[h] = g[k + h - 1].ntt /\ to[h] = ga[h].ntt
                      /\ from[h] \in Nat /\ to[h] \in Nat
  <2> SUFFICES ASSUME NEW h \in 1..c
               PROVE  /\ from[h] = g[k + h - 1].ntt /\ to[h] = ga[h].ntt
                      /\ from[h] \in Nat /\ to[h] \in Nat
    OBVIOUS
  <2>1. from[h] = g[k + h - 1].ntt /\ to[h] = ga[h].ntt
    OBVIOUS
  <2>2. g[k + h - 1] \in Entity /\ ga[h] \in Entity
    BY <1>4, ElementOfSeq
  <2> HIDE DEF from, to
  <2> QED  BY <2>1, <2>2 DEF Entity
<1>9. \A h \in 1..c : f[h] = View!Exec(f[h - 1], [op |-> "reid", e |-> from[h], to |-> to[h]])
  BY <1>8 DEF Reuses
<1>10. g[k].ntt \in Nat /\ k + 1 - 1 = k /\ 1 \in 1..c
  <2>1. k + 1 - 1 = k /\ 1 \in 1..c
    BY <1>1, <1>4
  <2>2. g[k] \in Entity
    BY ElementOfSeq
  <2> QED  BY <2>1, <2>2 DEF Entity
<1>11. /\ f[0] \in Machine
       /\ i = 0 => f[0].bad
       /\ i # 0 => /\ ~f[0].bad /\ f[0].d = m.d
                   /\ f[0].out = m.out \o View!Part(t, i, m.d + 1)
                   /\ f[0].old = View!Without(t, i)
  BY <1>10, ExecReuse DEF Reuses
<1>12. /\ i \in 0..Len(t)
       /\ i # 0 => t[i].id = g[k].ntt
       /\ i = 0 => \A y \in 1..Len(t) : t[y].id # g[k].ntt
  BY <1>1, ByIdIs
<1> HIDE DEF i, t, c, from, to
<1>13. CASE i = 0
  <2>1. x = f[0]
    <3>1. c \in Nat /\ f[0] \in Machine /\ f[0].bad
      BY <1>1, <1>11, <1>13
    <3> HIDE DEF x
    <3>2. f[c] = f[0]
      <4>1. Reids(f, from, to, c)
        BY <1>9 DEF Reids
      <4> QED  BY <3>1, <4>1, NoRenaming
    <3> QED  BY <3>2 DEF x
  <2>2. ~IsLeft(t, p, mk[k])
    <3> SUFFICES ASSUME NEW z \in 1..Len(t), p[z] = mk[k]  PROVE FALSE
      BY DEF IsLeft
    <3>1. t[z].id = g[k].ntt
      BY <1>3, <1>5
    <3> QED  BY <1>12, <1>13, <3>1
  <2>3. ~IsLeft(t, p, mk[k + 1 - 1])
    BY <1>10, <2>2
  <2> QED  BY <1>10, <1>11, <1>13, <2>1, <2>3 DEF c, t
<1>14. CASE i # 0
  <2>1. i \in 1..Len(t)
    BY <1>1, <1>12, <1>14
  <2>2. p[i] = mk[k]
    <3>1. s[p[i]].id = s[mk[k]].id /\ s[p[i]].id # View!None
      BY <1>3, <1>5, <1>12, <1>14, <2>1
    <3> QED  BY <1>2, <1>3, <1>5, <2>1, <3>1
  <2> DEFINE n == View!End(t, i) - i + 1
             part1 == View!Part(t, i, m.d + 1)
             o == m.out \o part1
             nm == Len(m.out)
  <2>3. /\ part1 \in Seq(Shown) /\ Len(part1) = n /\ n \in Nat \ {0}
        /\ \A y \in 1..n : /\ i + y - 1 \in 1..Len(t)
                           /\ part1[y].id = t[i + y - 1].id /\ part1[y].what = t[i + y - 1].what
                           /\ part1[y].depth = t[i + y - 1].depth - t[i].depth + (m.d + 1)
    <3>1. m.d + 1 \in Nat
      OBVIOUS
    <3> DEFINE d == m.d + 1
    <3> HIDE DEF d
    <3>2. d \in Nat /\ t \in Seq(Shown)
      BY <1>1, <3>1 DEF d
    <3>3. IsPart(t, i, d, View!Part(t, i, d))
      BY <2>1, <3>2, PartTaken
    <3> QED  BY <3>3 DEF d, IsPart
  <2>4. o \in Seq(Shown) /\ Follows(m.out, part1, o)
    BY <1>1, <2>3, ConcatFollows
  <2> HIDE DEF part1, n
  <2>5. /\ Len(o) = nm + n /\ \A y \in 1..nm : o[y] = m.out[y]
        /\ \A y \in 1..n : o[nm + y] = part1[y]
        /\ \A y \in 1..Len(o) : y \in 1..nm \/ (y - nm \in 1..n /\ nm + (y - nm) = y)
    <3>1. /\ Len(o) = nm + n /\ \A y \in 1..nm : o[y] = m.out[y]
          /\ \A y \in 1..n : o[nm + y] = part1[y]
      BY <2>3, <2>4 DEF Follows
    <3> HIDE DEF o
    <3> QED  BY <1>1, <2>3, <3>1
  <2> HIDE DEF o
  <2> DEFINE q(y) == p[i + y - 1]
\* an element that has the name of an entity of the page is in the part
  <2>6. \A h \in 1..c : \A y \in 1..Len(o) : o[y].id = from[h] =>
          /\ y - nm \in 1..n /\ nm + (y - nm) = y
          /\ i + (y - nm) - 1 \in 1..Len(t) /\ q(y - nm) = mk[k + h - 1]
    <3> SUFFICES ASSUME NEW h \in 1..c, NEW y \in 1..Len(o), o[y].id = from[h]
                 PROVE  /\ y - nm \in 1..n /\ nm + (y - nm) = y
                        /\ i + (y - nm) - 1 \in 1..Len(t) /\ q(y - nm) = mk[k + h - 1]
      OBVIOUS
    <3>1. /\ from[h] = s[mk[k + h - 1]].id /\ mk[k + h - 1] \in 1..Len(s)
          /\ from[h] # View!None
      BY <1>3, <1>4, <1>8
    <3>2. y \notin 1..nm
      <4>1. ASSUME y \in 1..nm  PROVE FALSE
        <5>1. m.out[y].id = from[h] /\ y \in 1..Len(m.out)
          BY <2>5, <4>1
        <5> QED  BY <3>1, <5>1 DEF Apart
      <4> QED  BY <4>1
    <3> DEFINE j == y - nm
    <3>3. j \in 1..n /\ nm + j = y
      BY <2>5, <3>2
    <3> HIDE DEF j
    <3>4. i + j - 1 \in 1..Len(t) /\ part1[j].id = t[i + j - 1].id
      BY <2>3, <3>3
    <3>5. o[y] = part1[j]
      BY <2>5, <3>3
    <3>6. s[p[i + j - 1]].id = from[h] /\ p[i + j - 1] \in 1..Len(s)
      BY <1>5, <3>4, <3>5
    <3>7. p[i + j - 1] = mk[k + h - 1]
      BY <1>2, <3>1, <3>6
    <3> QED  BY <3>3, <3>4, <3>7 DEF j
  <2>7. \A h \in 1..c : Present(o, from[h]) <=> IsLeft(t, p, mk[k + h - 1])
    <3> SUFFICES ASSUME NEW h \in 1..c
                 PROVE  Present(o, from[h]) <=> IsLeft(t, p, mk[k + h - 1])
      OBVIOUS
    <3>1. ASSUME Present(o, from[h])  PROVE IsLeft(t, p, mk[k + h - 1])
      <4>1. PICK y \in 1..Len(o) : o[y].id = from[h]
        BY <3>1 DEF Present
      <4>2. i + (y - nm) - 1 \in 1..Len(t) /\ p[i + (y - nm) - 1] = mk[k + h - 1]
        BY <2>6, <4>1
      <4> QED  BY <4>2 DEF IsLeft
    <3>2. ASSUME IsLeft(t, p, mk[k + h - 1])  PROVE Present(o, from[h])
      <4>1. PICK z \in 1..Len(t) : p[z] = mk[k + h - 1]
        BY <3>2 DEF IsLeft
      <4>2. Below(s, mk[k], mk[k + h - 1])
        <5>1. k + h - 1 \in 1..Len(g) /\ k <= k + h - 1 /\ k + h - 1 < k + g[k].scp
          <6>1. c = g[k].scp
            BY DEF Renews, c
          <6> QED  BY <1>1, <1>4, <6>1
        <5> QED  BY <1>2, <5>1 DEF Scoped
      <4>3. Below(t, i, z)
        BY <1>1, <2>1, <2>2, <4>1, <4>2, LeftBelow DEF t
      <4>4. z <= View!End(t, i) /\ i <= z
        <5>1. i <= z
          BY <4>3 DEF Below
        <5>2. z \in i..Len(t)
          BY <1>1, <2>1, <5>1
        <5> QED  BY <1>1, <2>1, <4>3, <5>1, <5>2, EndIs
      <4>5. View!End(t, i) \in Nat
        <5>1. View!End(t, i) \in i..Len(t)
          BY <1>1, <2>1, EndIs
        <5> QED  BY <1>1, <2>1, <5>1
      <4>6. z - i + 1 \in 1..n /\ i + (z - i + 1) - 1 = z
        BY <1>1, <2>1, <4>4, <4>5 DEF n
      <4>7. part1[z - i + 1].id = t[z].id
        BY <2>3, <4>6
      <4>8. t[z].id = from[h]
        BY <1>3, <1>4, <1>5, <1>8, <4>1, ZenonT(60)
      <4>9. o[nm + (z - i + 1)].id = from[h] /\ nm + (z - i + 1) \in 1..Len(o)
        <5>1. o[nm + (z - i + 1)] = part1[z - i + 1]
          BY <2>5, <4>6
        <5>2. nm + (z - i + 1) \in 1..Len(o)
          <6> DEFINE j == z - i + 1
          <6>1. j \in 1..n
            BY <4>6
          <6> HIDE DEF j
          <6>2. nm + j \in 1..(nm + n)
            BY <1>1, <2>3, <6>1
          <6> QED  BY <2>5, <6>2 DEF j
        <5> QED  BY <4>7, <4>8, <5>1, <5>2
      <4> QED  BY <4>9 DEF Present
    <3> QED  BY <3>1, <3>2
  <2>8. Renaming(o, from, to, c)
    <3>1. \A h, j \in 1..c : from[h] = from[j] => h = j
      <4> SUFFICES ASSUME NEW h \in 1..c, NEW j \in 1..c, from[h] = from[j]  PROVE h = j
        OBVIOUS
      <4>1. /\ k + h - 1 \in 1..Len(g) /\ k + j - 1 \in 1..Len(g)
            /\ from[h] = g[k + h - 1].ntt /\ from[j] = g[k + j - 1].ntt
        BY <1>4, <1>8
      <4>2. /\ s[mk[k + h - 1]].id = s[mk[k + j - 1]].id /\ s[mk[k + h - 1]].id # View!None
            /\ mk[k + h - 1] \in 1..Len(s) /\ mk[k + j - 1] \in 1..Len(s)
        BY <1>3, <4>1
      <4>3. mk[k + h - 1] = mk[k + j - 1]
        BY <1>2, <4>2
      <4>4. k + h - 1 = k + j - 1
        BY <1>7, <4>1, <4>3
      <4> QED  BY <1>1, <4>4
    <3>2. \A h, j \in 1..c : to[h] # from[j]
      <4> SUFFICES ASSUME NEW h \in 1..c, NEW j \in 1..c, to[h] = from[j]  PROVE FALSE
        OBVIOUS
      <4>1. /\ k + j - 1 \in 1..Len(g) /\ to[h] = ga[h].ntt
            /\ from[j] = g[k + j - 1].ntt
        BY <1>4, <1>8
      <4>2. from[j] = s[mk[k + j - 1]].id /\ mk[k + j - 1] \in 1..Len(s)
        BY <1>3, <4>1
      <4> QED  BY <4>1, <4>2 DEF Renews, c
    <3>3. \A y, z \in 1..Len(o) : \A h \in 1..c : o[y].id = from[h] /\ o[z].id = from[h] => y = z
      <4> SUFFICES ASSUME NEW y \in 1..Len(o), NEW z \in 1..Len(o), NEW h \in 1..c,
                          o[y].id = from[h], o[z].id = from[h]
                   PROVE  y = z
        OBVIOUS
      <4>1. /\ i + (y - nm) - 1 \in 1..Len(t) /\ i + (z - nm) - 1 \in 1..Len(t)
            /\ p[i + (y - nm) - 1] = p[i + (z - nm) - 1]
        BY <2>6
      <4>2. i + (y - nm) - 1 = i + (z - nm) - 1
        BY <1>6, <4>1
      <4>3. y \in Int /\ z \in Int
        BY <1>1, <2>3, <2>5
      <4>4. i \in Int /\ nm \in Int
        BY <1>1, <2>1
      <4> HIDE DEF nm
      <4> QED  BY <4>2, <4>3, <4>4
    <3>4. \A h \in 1..c : from[h] \in Nat /\ to[h] \in Nat
      BY <1>8
    <3> QED  BY <3>1, <3>2, <3>3, <3>4 DEF Renaming
  <2>9. /\ x \in Machine
        /\ ~x.bad <=> \A h \in 1..c : Present(o, from[h])
        /\ ~x.bad => /\ x.d = f[0].d /\ x.old = f[0].old
                     /\ RenamedTo(o, from, to, c, x.out)
    <3>1. f[0] \in Machine /\ ~f[0].bad /\ f[0].out = o
      BY <1>11, <1>14 DEF o, part1
    <3> QED  BY <1>1, <1>9, <2>4, <2>8, <3>1, RenameAll
  <2> HIDE DEF x
  <2>10. ~x.bad <=> \A h \in 1..c : IsLeft(t, p, mk[k + h - 1])
    BY <2>7, <2>9
  <2>11. ASSUME ~x.bad
         PROVE  /\ x.d = m.d
                /\ \E a \in Seq(Shown) : \E ma :
                     /\ Follows(m.out, a, x.out) /\ Hangs(a, m.d)
                     /\ Places(ga, a, ma) /\ \A h \in 1..c : Scoped(ga, a, ma, h)
                /\ \E r : /\ Left(s, x.old, r)
                          /\ \A y \in 1..Len(s) : IsLeft(x.old, r, y) <=>
                               IsLeft(t, p, y) /\ ~Below(s, mk[k], y)
    <3> DEFINE a == [y \in 1..n |-> x.out[nm + y]]
    <3>1. /\ x.d = m.d /\ x.old = View!Without(t, i)
          /\ x.out \in Seq(Shown) /\ RenamedTo(o, from, to, c, x.out) /\ Len(x.out) = nm + n
      BY <1>11, <1>14, <2>5, <2>9, <2>11 DEF Machine, RenamedTo
    <3>2. \A y \in 1..(nm + n) : x.out[y] \in Shown
      BY <3>1, ElementOfSeq
    <3>3. a \in Seq(Shown) /\ Len(a) = n /\ \A y \in 1..n : a[y] = x.out[nm + y]
      <4>1. \A y \in 1..n : nm + y \in 1..(nm + n)
        BY <1>1, <2>3
      <4>2. a \in [1..n -> Shown] /\ n \in Nat
        <5>1. \A y \in 1..n : x.out[nm + y] \in Shown
          BY <3>2, <4>1
        <5> QED  BY <2>3, <5>1
      <4>3. a \in Seq(Shown) /\ Len(a) = n
        <5> HIDE DEF a
        <5>1. a \in Seq(Shown)
          BY <4>2, IsASeq
        <5>2. DOMAIN a = 1..n
          BY <4>2
        <5>3. Len(a) \in Nat /\ DOMAIN a = 1..Len(a)
          BY <5>1, LenProperties
        <5>4. Len(a) = n
          <6> DEFINE l == Len(a)
          <6> HIDE DEF l
          <6>1. 1..l = 1..n /\ l \in Nat
            BY <5>2, <5>3 DEF l
          <6> QED  BY <4>2, <6>1 DEF l
        <5> QED  BY <5>1, <5>4
      <4> QED  BY <4>3
    <3> HIDE DEF a
    <3>4. \A y \in 1..(nm + n) :
            /\ x.out[y].what = o[y].what /\ x.out[y].depth = o[y].depth
            /\ \A h \in 1..c : o[y].id = from[h] => x.out[y].id = to[h]
            /\ (\A h \in 1..c : o[y].id # from[h]) => x.out[y].id = o[y].id
      BY <2>5, <3>1 DEF RenamedTo
    <3>5. Follows(m.out, a, x.out)
      <4>1. ASSUME NEW y \in 1..nm  PROVE x.out[y] = m.out[y]
        <5>1. y \in 1..(nm + n) /\ y \in 1..Len(o) /\ o[y] = m.out[y]
          BY <1>1, <2>3, <2>5
        <5>2. \A h \in 1..c : o[y].id # from[h]
          <6> SUFFICES ASSUME NEW h \in 1..c, o[y].id = from[h]  PROVE FALSE
            OBVIOUS
          <6>1. y - nm \in 1..n
            BY <2>6, <5>1
          <6> QED  BY <1>1, <2>3, <6>1
        <5>3. /\ x.out[y].id = m.out[y].id /\ x.out[y].what = m.out[y].what
              /\ x.out[y].depth = m.out[y].depth
          BY <3>4, <5>1, <5>2
        <5>4. x.out[y] \in Shown /\ m.out[y] \in Shown
          BY <1>1, <3>2, <5>1, ElementOfSeq
        <5> QED  BY <5>3, <5>4, SameNode
      <4> QED  BY <3>1, <3>3, <4>1 DEF Follows
    <3>6. Renewed(g, k, ga, t, i, a, m.d + 1)
      <4>1. ASSUME NEW y \in 1..n
            PROVE  /\ a[y].what = t[i + y - 1].what
                   /\ a[y].depth = t[i + y - 1].depth - t[i].depth + (m.d + 1)
                   /\ \A h \in 1..c : t[i + y - 1].id = g[k + h - 1].ntt => a[y].id = ga[h].ntt
                   /\ (\A h \in 1..c : t[i + y - 1].id # g[k + h - 1].ntt) =>
                        a[y].id = t[i + y - 1].id
        <5>1. nm + y \in 1..(nm + n) /\ a[y] = x.out[nm + y] /\ o[nm + y] = part1[y]
          BY <1>1, <2>3, <2>5, <3>3, SMTT(60)
        <5>2. /\ a[y].what = part1[y].what /\ a[y].depth = part1[y].depth
              /\ \A h \in 1..c : part1[y].id = from[h] => a[y].id = to[h]
              /\ (\A h \in 1..c : part1[y].id # from[h]) => a[y].id = part1[y].id
          BY <3>4, <5>1
        <5>3. /\ part1[y].id = t[i + y - 1].id /\ part1[y].what = t[i + y - 1].what
              /\ part1[y].depth = t[i + y - 1].depth - t[i].depth + (m.d + 1)
          BY <2>3
        <5>4. \A h \in 1..c : from[h] = g[k + h - 1].ntt /\ to[h] = ga[h].ntt
          BY <1>8
        <5> QED  BY <5>2, <5>3, <5>4
      <4> QED  BY <3>3, <4>1 DEF Renewed, Renews, n, c
    <3>7. \A h \in 1..Len(ga) : IsLeft(t, p, mk[k + h - 1])
      BY <2>10, <2>11 DEF c
    <3>8. /\ \E ma : Places(ga, a, ma) /\ \A h \in 1..Len(ga) : Scoped(ga, a, ma, h)
          /\ Hangs(a, m.d)
      <4>1. Left(s, t, p)
        BY DEF t
      <4> QED  BY <1>1, <2>1, <2>2, <3>3, <3>6, <3>7, <4>1, RenewedDrawn
    <3>9. \E r : /\ Left(s, x.old, r)
                 /\ \A y \in 1..Len(s) : IsLeft(x.old, r, y) <=>
                      IsLeft(t, p, y) /\ ~Below(s, mk[k], y)
      <4>1. Left(s, t, p)
        BY DEF t
      <4>2. \E r : /\ Left(s, View!Without(t, i), r)
                   /\ \A y \in 1..Len(s) : IsLeft(View!Without(t, i), r, y) <=>
                        IsLeft(t, p, y) /\ ~Below(s, p[i], y)
        BY <1>1, <2>1, <4>1, LeftWithout
      <4> QED  BY <2>2, <3>1, <4>2
    <3>10. PICK ma : Places(ga, a, ma) /\ \A h \in 1..c : Scoped(ga, a, ma, h)
      BY <3>8 DEF c
    <3> QED  BY <3>1, <3>3, <3>5, <3>8, <3>9, <3>10
  <2> QED  BY <2>9, <2>10, <2>11 DEF x, c, t
<1> QED  BY <1>13, <1>14

-----------------------------------------------------------------------------
(* What the engine writes.                                                 *)

\* the instructions of a program
Instr ==
  UNION {[op : {"next"}], [op : {"create"}, what : Nat \X Nat], [op : {"setid", "reuse"}, e : Nat],
         [op : {"reid"}, e : Nat, to : Nat]}

\* the instructions of the engine
LEMMA InstrIs ==
  /\ [op |-> "next"] \in Instr
  /\ \A w \in Nat \X Nat : [op |-> "create", what |-> w] \in Instr
  /\ \A e \in Nat : [op |-> "setid", e |-> e] \in Instr /\ [op |-> "reuse", e |-> e] \in Instr
  /\ \A e, to \in Nat : [op |-> "reid", e |-> e, to |-> to] \in Instr
<1>1. [op |-> "next"] \in Instr
  BY DEF Instr
<1>2. \A w \in Nat \X Nat : [op |-> "create", what |-> w] \in Instr
  BY DEF Instr
<1>3. \A e \in Nat : [op |-> "setid", e |-> e] \in Instr /\ [op |-> "reuse", e |-> e] \in Instr
  BY DEF Instr
<1>4. \A e, to \in Nat : [op |-> "reid", e |-> e, to |-> to] \in Instr
  BY DEF Instr
<1> QED  BY <1>1, <1>2, <1>3, <1>4

\* what the engine has written so far
Written == [g0 : Seq(Entity), prog : Seq(Instr), open : Seq(Nat), cnt : Int]

\* The steps by which Serialize writes exist ...
Start(v) ==
  [g0 |-> <<>>, prog |-> <<>>, open |-> <<>>, cnt |-> View!KeyOf(v, Len(v) + 1) - 2]

\* the function by which Serialize visits the nodes of v
Writes(v, f) ==
  f = [i \in 0..Len(v) |-> IF i = 0 THEN Start(v) ELSE View!Visit(f[i - 1], v, i)]

\* The function by which Serialize visits the nodes exists, for any view.
LEMMA WritesExists ==
  ASSUME NEW S, NEW v \in Seq(S)
  PROVE  \E f : Writes(v, f)
<1> DEFINE Upto(m, f) == f = [i \in 0..m |-> IF i = 0 THEN Start(v) ELSE View!Visit(f[i - 1], v, i)]
           Bad == {m \in 0..Len(v) : ~ \E f : Upto(m, f)}
<1>1. Len(v) \in Nat
  BY LenProperties
<1>2. Upto(0, [i \in 0..0 |-> Start(v)])
  OBVIOUS
<1>3. ASSUME NEW m \in Nat, NEW f, Upto(m, f)
      PROVE  \E g : Upto(m + 1, g)
  <2> DEFINE g == [i \in 0..(m + 1) |-> IF i = m + 1 THEN View!Visit(f[m], v, m + 1) ELSE f[i]]
  <2>1. \A i \in 0..(m + 1) : g[i] = IF i = 0 THEN Start(v) ELSE View!Visit(g[i - 1], v, i)
    <3> SUFFICES ASSUME NEW i \in 0..(m + 1)
                 PROVE  g[i] = IF i = 0 THEN Start(v) ELSE View!Visit(g[i - 1], v, i)
      OBVIOUS
    <3>1. CASE i = m + 1
      BY <3>1
    <3>2. CASE i \in 0..m
      <4>1. f[i] = IF i = 0 THEN Start(v) ELSE View!Visit(f[i - 1], v, i)
        BY <1>3, <3>2
      <4>2. g[i] = f[i] /\ (i # 0 => g[i - 1] = f[i - 1])
        BY <3>2
      <4> QED  BY <4>1, <4>2
    <3> QED  BY <3>1, <3>2
  <2>2. g = [i \in 0..(m + 1) |-> g[i]]
    OBVIOUS
  <2> HIDE DEF g
  <2>3. Upto(m + 1, g)
    BY <2>1, <2>2
  <2> QED  BY <2>3
<1> HIDE DEF Upto
<1>4. Bad = {}
  <2> SUFFICES ASSUME Bad # {}  PROVE FALSE
    OBVIOUS
  <2>1. PICK m \in Bad : \A i \in Bad : m <= i
    <3>1. Bad \in SUBSET Nat
      BY <1>1
    <3> HIDE DEF Bad
    <3> QED  BY <3>1, LeastExists
  <2>2. m # 0
    BY <1>2, <2>1
  <2>3. m - 1 \in 0..Len(v) /\ m - 1 \notin Bad
    BY <1>1, <2>1, <2>2
  <2>4. PICK f : Upto(m - 1, f)
    BY <2>3
  <2>5. \E g : Upto(m, g)
    <3>1. m - 1 \in Nat /\ (m - 1) + 1 = m
      BY <1>1, <2>1, <2>3
    <3>2. \E g : Upto((m - 1) + 1, g)
      BY <1>3, <2>4, <3>1
    <3> QED  BY <3>1, <3>2
  <2> QED  BY <2>1, <2>5
<1>5. \E f : Upto(Len(v), f)
  BY <1>1, <1>4
<1> QED  BY <1>5 DEF Upto, Writes

\* ... and end, when all is closed, with what Serialize returns.
LEMMA SerializeIs ==
  ASSUME NEW S, NEW v \in Seq(S)
  PROVE  \E f : /\ f[0] = Start(v) /\ View!Serialize(v) = View!CloseTo(f[Len(v)], 0)
                /\ \A i \in 1..Len(v) : f[i] = View!Visit(f[i - 1], v, i)
<1> DEFINE visited == CHOOSE f : Writes(v, f)
<1>1. View!Serialize(v) = View!CloseTo(visited[Len(v)], 0)
  BY DEF View!Serialize, Writes, Start
<1>2. Writes(v, visited)
  <2>1. \E f : Writes(v, f)
    BY WritesExists
  <2> QED  BY <2>1, Zenon
<1> HIDE DEF visited
<1>3. Len(v) \in Nat
  BY LenProperties
<1>4. \A i \in 0..Len(v) :
        visited[i] = IF i = 0 THEN Start(v) ELSE View!Visit(visited[i - 1], v, i)
  BY <1>2 DEF Writes
<1>5. visited[0] = Start(v)
  BY <1>3, <1>4
<1>6. \A i \in 1..Len(v) : visited[i] = View!Visit(visited[i - 1], v, i)
  BY <1>3, <1>4
<1> QED  BY <1>1, <1>5, <1>6

\* a program that closes n elements
Nexts(n) == [k \in 1..n |-> [op |-> "next"]]

\* A program that closes n elements.
LEMMA NextsAre ==
  ASSUME NEW n \in Nat
  PROVE  Nexts(n) \in Seq(Instr) /\ Len(Nexts(n)) = n /\ \A k \in 1..n : Nexts(n)[k] = [op |-> "next"]
<1> DEFINE c == [op |-> "next"]
<1>1. c \in Instr
  BY InstrIs
<1> HIDE DEF c
<1>2. [k \in 1..n |-> c] \in Seq(Instr) /\ Len([k \in 1..n |-> c]) = n
  BY <1>1
<1>3. \A k \in 1..n : [k1 \in 1..n |-> c][k] = c
  OBVIOUS
<1>4. Nexts(n) = [k \in 1..n |-> c]
  BY DEF Nexts, c
<1> HIDE DEF Nexts
<1>5. \A k \in 1..n : Nexts(n)[k] = c
  BY <1>3, <1>4
<1> QED  BY <1>2, <1>4, <1>5 DEF c

\* The elements that are deeper than d are closed.
LEMMA CloseIs ==
  ASSUME NEW s \in Written, NEW d \in 0..Len(s.open)
  PROVE  LET t == View!CloseTo(s, d)
         IN /\ t \in Written /\ t.cnt = s.cnt
            /\ t.open = SubSeq(s.open, 1, d) /\ Len(t.open) = d
            /\ t.prog = s.prog \o Nexts(Len(s.open) - d)
            /\ Closing(s.g0, s.open, d, t.g0)
<1> DEFINE closed == {s.open[k] : k \in (d + 1)..Len(s.open)}
           x == [i \in DOMAIN s.g0 |->
                   IF i \in closed THEN [s.g0[i] EXCEPT !.scp = Len(s.g0) - i + 1] ELSE s.g0[i]]
           o == SubSeq(s.open, 1, d)
           more == s.prog \o Nexts(Len(s.open) - d)
           t == View!CloseTo(s, d)
<1>1. /\ s.g0 \in Seq(Entity) /\ s.open \in Seq(Nat) /\ s.prog \in Seq(Instr) /\ s.cnt \in Int
  BY DEF Written
<1>2. /\ Len(s.g0) \in Nat /\ Len(s.open) \in Nat /\ d \in Nat /\ DOMAIN s.g0 = 1..Len(s.g0)
      /\ Len(s.open) - d \in Nat
  BY <1>1, LenProperties
<1>3. more \in Seq(Instr)
  BY <1>1, <1>2, NextsAre, ConcatProperties
<1>4. o \in Seq(Nat) /\ Len(o) = d
  <2>1. \A i \in 1..d : s.open[i] \in Nat
    BY <1>1, <1>2, ElementOfSeq
  <2> QED  BY <1>2, <2>1
<1>5. \A i \in 1..Len(s.g0) : s.g0[i] \in Entity
  BY <1>1, ElementOfSeq
<1>6. \A i \in 1..Len(s.g0) :
        /\ x[i] \in Entity /\ x[i].ntt = s.g0[i].ntt /\ x[i].hdl = s.g0[i].hdl
        /\ x[i].scp = IF i \in closed THEN Len(s.g0) - i + 1 ELSE s.g0[i].scp
  <2> SUFFICES ASSUME NEW i \in 1..Len(s.g0)
               PROVE  /\ x[i] \in Entity /\ x[i].ntt = s.g0[i].ntt /\ x[i].hdl = s.g0[i].hdl
                      /\ x[i].scp = IF i \in closed THEN Len(s.g0) - i + 1 ELSE s.g0[i].scp
    OBVIOUS
  <2>1. Len(s.g0) - i + 1 \in Nat
    BY <1>2
  <2>2. x[i] = IF i \in closed THEN [s.g0[i] EXCEPT !.scp = Len(s.g0) - i + 1] ELSE s.g0[i]
    BY <1>2
  <2>3. s.g0[i] \in Entity
    BY <1>5
  <2> HIDE DEF x, closed
  <2> QED  BY <2>1, <2>2, <2>3 DEF Entity
<1>7. x \in Seq(Entity) /\ Len(x) = Len(s.g0)
  <2>1. x = [i \in 1..Len(s.g0) |-> x[i]]
    BY <1>2
  <2> HIDE DEF x
  <2>2. x \in [1..Len(s.g0) -> Entity]
    BY <1>6, <2>1
  <2> QED  BY <1>2, <2>2
<1>8. t = [s EXCEPT !.open = o, !.prog = more, !.g0 = x]
  BY DEF View!CloseTo, Nexts
<1> HIDE DEF x, o, more, t
<1>9. /\ t \in Written /\ t.cnt = s.cnt /\ t.open = o /\ t.prog = more /\ t.g0 = x
  BY <1>1, <1>3, <1>4, <1>7, <1>8 DEF Written
<1>10. Closing(s.g0, s.open, d, x)
  <2>1. \A i \in 1..Len(s.g0) : i \in closed <=> \E k \in (d + 1)..Len(s.open) : s.open[k] = i
    OBVIOUS
  <2> HIDE DEF closed
  <2> QED  BY <1>6, <1>7, <2>1 DEF Closing
<1> QED  BY <1>4, <1>9, <1>10 DEF t, o, more

\* The machine goes up as many elements; it is not above the page before it has
\* closed the first.
LEMMA RunNexts ==
  ASSUME NEW prog \in Seq(Instr), NEW n \in Nat, View!Run(prog) \in Machine
  PROVE  LET m == View!Run(prog)
             x == View!Run(prog \o Nexts(n))
         IN /\ x \in Machine /\ x.bad = m.bad
            /\ ~m.bad => /\ x.out = m.out /\ x.old = m.old
                         /\ n = 0 \/ n < m.d => x.d = m.d - n
<1> DEFINE m == View!Run(prog)
           x == View!Run(prog \o Nexts(n))
<1>1. /\ Nexts(n) \in Seq(Instr) /\ Len(Nexts(n)) = n
      /\ \A k \in 1..n : Nexts(n)[k] = [op |-> "next"]
  BY NextsAre
<1>2. PICK f : /\ f[0] = m /\ f[n] = x
               /\ \A k \in 1..n : f[k] = View!Exec(f[k - 1], [op |-> "next"])
  <2> DEFINE more == Nexts(n)
  <2>3. more \in Seq(Instr)
    BY <1>1
  <2> HIDE DEF more
  <2>4. \E f : /\ f[0] = View!Run(prog) /\ f[Len(more)] = View!Run(prog \o more)
              /\ \A k \in 1..Len(more) : f[k] = View!Exec(f[k - 1], more[k])
    BY <2>3, RunConcat
  <2>1. PICK f : /\ f[0] = View!Run(prog) /\ f[Len(Nexts(n))] = View!Run(prog \o Nexts(n))
                 /\ \A k \in 1..Len(Nexts(n)) : f[k] = View!Exec(f[k - 1], Nexts(n)[k])
    BY <2>4, Zenon DEF more
  <2>2. /\ f[0] = m /\ f[n] = x
        /\ \A k \in 1..n : f[k] = View!Exec(f[k - 1], Nexts(n)[k])
    BY <1>1, <2>1, Zenon
  <2> HIDE DEF m, x
  <2> QED  BY <1>1, <2>2
<1>3. m \in Machine
  OBVIOUS
<1> HIDE DEF m, x
<1>4. CASE m.bad
  <2> DEFINE c == [k \in 1..n |-> [op |-> "next"]]
  <2>1. \A k \in 1..n : f[k] = View!Exec(f[k - 1], c[k])
    BY <1>2
  <2> HIDE DEF c
  <2>2. f[0] \in Machine /\ f[0].bad
    BY <1>2, <1>3, <1>4
  <2>3. f[n] = f[0]
    BY <2>1, <2>2, BadStays
  <2> QED  BY <1>2, <1>3, <1>4, <2>3 DEF m, x
<1>5. CASE ~m.bad
  <2> DEFINE Ok(k) == /\ f[k] \in Machine /\ ~f[k].bad
                      /\ f[k].out = m.out /\ f[k].old = m.old
                      /\ k = 0 \/ k < m.d => f[k].d = m.d - k
             Bad == {k \in 0..n : ~Ok(k)}
  <2>1. m.d \in Int
    BY <1>3 DEF Machine
  <2>2. Ok(0)
    BY <1>2, <1>3, <1>5, <2>1
  <2>3. ASSUME NEW k \in 1..n, Ok(k - 1)  PROVE Ok(k)
    <3>1. f[k] = View!Exec(f[k - 1], [op |-> "next"])
      BY <1>2
    <3>2. /\ f[k - 1] \in Machine /\ ~f[k - 1].bad
          /\ f[k - 1].out = m.out /\ f[k - 1].old = m.old
          /\ k - 1 = 0 \/ k - 1 < m.d => f[k - 1].d = m.d - (k - 1)
      BY <2>3
    <3>3. /\ f[k] \in Machine /\ ~f[k].bad
          /\ f[k].old = f[k - 1].old /\ f[k].out = f[k - 1].out
          /\ f[k].d = IF f[k - 1].d = 1 THEN -1 ELSE f[k - 1].d - 1
      BY <3>1, <3>2, ExecNext
    <3>4. k < m.d => f[k].d = m.d - k
      <4> DEFINE y == f[k].d
                 z == f[k - 1].d
      <4>1. y = IF z = 1 THEN -1 ELSE z - 1
        BY <3>3
      <4>2. k - 1 = 0 \/ k - 1 < m.d => z = m.d - (k - 1)
        BY <3>2
      <4> HIDE DEF y, z
      <4>3. k < m.d => y = m.d - k
        BY <2>1, <4>1, <4>2
      <4> QED  BY <4>3 DEF y
    <3>5. k # 0
      OBVIOUS
    <3> QED  BY <3>2, <3>3, <3>4, <3>5
  <2> HIDE DEF Ok
  <2>4. Bad = {}
    <3> SUFFICES ASSUME Bad # {}  PROVE FALSE
      OBVIOUS
    <3>1. PICK k \in Bad : \A j \in Bad : k <= j
      <4>1. Bad \in SUBSET Nat
        OBVIOUS
      <4> HIDE DEF Bad
      <4> QED  BY <4>1, LeastExists
    <3>2. k \in 1..n /\ k - 1 \in 0..n /\ k - 1 \notin Bad
      BY <2>2, <3>1
    <3>3. Ok(k - 1)
      BY <3>2
    <3> QED  BY <2>3, <3>1, <3>2, <3>3
  <2>5. Ok(n)
    BY <2>4
  <2>6. /\ x \in Machine /\ ~x.bad /\ x.out = m.out /\ x.old = m.old
        /\ n = 0 \/ n < m.d => x.d = m.d - n
    BY <1>2, <2>5 DEF Ok
  <2>7. x.bad = m.bad
    BY <1>3, <1>5, <2>6 DEF Machine
  <2> QED  BY <2>6, <2>7 DEF m, x
<1> QED  BY <1>4, <1>5

\* One more instruction.
LEMMA RunOne ==
  ASSUME NEW prog \in Seq(Instr), NEW c \in Instr
  PROVE  /\ prog \o <<c>> \in Seq(Instr)
         /\ View!Run(prog \o <<c>>) = View!Exec(View!Run(prog), c)
<1> DEFINE more == <<c>>
<1>1. more \in Seq(Instr) /\ Len(more) = 1 /\ more[1] = c
  OBVIOUS
<1> HIDE DEF more
<1>2. prog \o more \in Seq(Instr)
  BY <1>1, ConcatProperties
<1>3. \E f : /\ f[0] = View!Run(prog) /\ f[Len(more)] = View!Run(prog \o more)
             /\ \A k \in 1..Len(more) : f[k] = View!Exec(f[k - 1], more[k])
  BY <1>1, RunConcat
<1>4. View!Run(prog \o more) = View!Exec(View!Run(prog), c)
  <2>1. PICK f : /\ f[0] = View!Run(prog) /\ f[Len(more)] = View!Run(prog \o more)
                 /\ \A k \in 1..Len(more) : f[k] = View!Exec(f[k - 1], more[k])
    BY <1>3
  <2>2. 1 \in 1..Len(more) /\ 1 - 1 = 0
    BY <1>1
  <2> QED  BY <1>1, <2>1, <2>2
<1> QED  BY <1>2, <1>4 DEF more

\* the instructions that make an element, with its identifier if it has one
Making(prog, w, e) ==
  IF e = View!None THEN prog \o <<[op |-> "create", what |-> w]>>
  ELSE prog \o <<[op |-> "create", what |-> w]>> \o <<[op |-> "setid", e |-> e]>>

\* o is s with one more node
OneMore(s, id, w, depth, o) ==
  \E a \in Seq(Shown) : /\ Follows(s, a, o) /\ Len(a) = 1
                        /\ a[1].id = id /\ a[1].what = w /\ a[1].depth = depth

\* The program of a created node draws one node.
LEMMA CreateRun ==
  ASSUME NEW prog \in Seq(Instr), View!Run(prog) \in Machine,
         NEW w \in Nat \X Nat, NEW e \in Nat
  PROVE  LET m == View!Run(prog)
             r == View!Run(Making(prog, w, e))
         IN /\ Making(prog, w, e) \in Seq(Instr)
            /\ m.bad => r \in Machine /\ r.bad
            /\ ~m.bad /\ m.d \in Nat =>
                 /\ r \in Machine /\ ~r.bad /\ r.d = m.d + 1 /\ r.old = m.old
                 /\ OneMore(m.out, e, w, m.d + 1, r.out)
<1> DEFINE m == View!Run(prog)
           c1 == [op |-> "create", what |-> w]
           c2 == [op |-> "setid", e |-> e]
           p1 == prog \o <<c1>>
           x == View!Run(p1)
           y == View!Run(p1 \o <<c2>>)
           r == View!Run(Making(prog, w, e))
<1>1. c1 \in Instr /\ c2 \in Instr
  BY InstrIs
<1>2. /\ p1 \in Seq(Instr) /\ x = View!Exec(m, c1)
  <2> HIDE DEF c1
  <2> QED  BY <1>1, RunOne
<1>3. p1 \o <<c2>> \in Seq(Instr) /\ y = View!Exec(x, c2)
  <2> HIDE DEF c2, p1
  <2> QED  BY <1>1, <1>2, RunOne
<1>4. /\ Making(prog, w, e) \in Seq(Instr)
      /\ e = View!None => r = x
      /\ e # View!None => r = y
  BY <1>2, <1>3 DEF Making
<1>5. m \in Machine
  OBVIOUS
<1>6. CASE m.bad
  <2>1. x = m
    <3> HIDE DEF c1, m
    <3> QED  BY <1>2, <1>5, <1>6, ExecBad
  <2>2. y = m
    <3> HIDE DEF c2, m, x, y
    <3> QED  BY <1>3, <1>5, <1>6, <2>1, ExecBad
  <2>3. r = m
    <3> HIDE DEF m, x, y, r
    <3> QED  BY <1>4, <2>1, <2>2
  <2>4. m.bad => r \in Machine /\ r.bad
    <3> HIDE DEF m, r
    <3> QED  BY <1>5, <2>3
  <2> QED  BY <1>4, <1>6, <2>4
<1>7. CASE ~(m.bad) /\ m.d \in Nat
  <2> DEFINE n == [id |-> View!None, what |-> w, depth |-> m.d + 1]
  <2>1. /\ x \in Machine /\ ~x.bad /\ n \in Shown
        /\ x.out = Append(m.out, n) /\ x.old = m.old /\ x.d = m.d + 1
    <3>1. LET x1 == View!Exec(m, [op |-> "create", what |-> w])
              n1 == [id |-> View!None, what |-> w, depth |-> m.d + 1]
          IN x1 \in Machine /\ ~x1.bad /\ n1 \in Shown
             /\ x1.out = Append(m.out, n1) /\ x1.old = m.old /\ x1.d = m.d + 1
      <4> HIDE DEF m
      <4> QED  BY <1>5, <1>7, ExecCreate
    <3> QED  BY <1>2, <3>1
  <2>2. /\ n.id = View!None /\ n.what = w /\ n.depth = m.d + 1
    OBVIOUS
  <2> HIDE DEF m, x, n, c1, c2, p1, y, r
  <2>3. m.out \in Seq(Shown) /\ Len(m.out) \in Nat /\ x.out \in Seq(Shown)
    <3>1. m.out \in Seq(Shown) /\ x.out \in Seq(Shown)
      BY <1>5, <2>1 DEF Machine
    <3> QED  BY <3>1, LenProperties
  <2>4. /\ Len(x.out) = Len(m.out) + 1 /\ x.out[Len(m.out) + 1] = n
        /\ \A i \in 1..Len(m.out) : x.out[i] = m.out[i]
    BY <2>1, <2>3, AppendProperties
  <2>5. CASE e = View!None
    <3> DEFINE a == <<n>>
    <3>1. a \in Seq(Shown) /\ Len(a) = 1 /\ a[1] = n
      BY <2>1
    <3> HIDE DEF a
    <3>2. Follows(m.out, a, x.out)
      <4>1. \A j \in 1..Len(a) : j = 1
        BY <3>1
      <4>2. \A j \in 1..Len(a) : x.out[Len(m.out) + j] = a[j]
        BY <2>4, <3>1, <4>1
      <4>3. Len(x.out) = Len(m.out) + Len(a)
        BY <2>4, <3>1
      <4> QED  BY <2>4, <4>2, <4>3 DEF Follows
    <3>3. a[1].id = e /\ a[1].what = w /\ a[1].depth = m.d + 1
      BY <2>2, <2>5, <3>1
    <3>4. OneMore(m.out, e, w, m.d + 1, x.out)
      BY <3>1, <3>2, <3>3 DEF OneMore
    <3>5. r = x
      BY <1>4, <2>5
    <3> QED  BY <1>4, <1>7, <2>1, <3>4, <3>5 DEF m, r
  <2>6. CASE e # View!None
    <3>1. Len(x.out) # 0
      BY <2>3, <2>4
    <3>2. /\ y \in Machine /\ ~y.bad /\ y.old = x.old /\ y.d = x.d
          /\ Renames(x.out, Len(x.out), e, y.out)
      <4>1. LET y1 == View!Exec(x, [op |-> "setid", e |-> e])
            IN /\ y1 \in Machine /\ ~y1.bad /\ y1.old = x.old /\ y1.d = x.d
               /\ Renames(x.out, Len(x.out), e, y1.out)
        BY <2>1, <3>1, ExecSetid
      <4> QED  BY <1>3, <4>1 DEF c2
    <3>3. /\ Len(y.out) = Len(m.out) + 1
          /\ \A i \in 1..Len(m.out) : y.out[i] = m.out[i]
          /\ y.out[Len(m.out) + 1].id = e /\ y.out[Len(m.out) + 1].what = w
          /\ y.out[Len(m.out) + 1].depth = m.d + 1
      <4>1. /\ Len(y.out) = Len(x.out)
            /\ \A i \in 1..Len(x.out) : i # Len(x.out) => y.out[i] = x.out[i]
            /\ y.out[Len(x.out)].id = e
            /\ y.out[Len(x.out)].what = x.out[Len(x.out)].what
            /\ y.out[Len(x.out)].depth = x.out[Len(x.out)].depth
        BY <3>2 DEF Renames
      <4>2. \A i \in 1..Len(m.out) : i \in 1..Len(x.out) /\ i # Len(x.out)
        BY <2>3, <2>4
      <4>3. \A i \in 1..Len(m.out) : y.out[i] = m.out[i]
        BY <2>4, <4>1, <4>2
      <4> QED  BY <2>2, <2>4, <4>1, <4>3
    <3> DEFINE a == <<y.out[Len(m.out) + 1]>>
    <3>4. y.out[Len(m.out) + 1] \in Shown
      <4>1. y.out \in Seq(Shown) /\ Len(m.out) + 1 \in 1..Len(y.out)
        BY <2>3, <3>2, <3>3 DEF Machine
      <4> QED  BY <4>1, ElementOfSeq
    <3>5. a \in Seq(Shown) /\ Len(a) = 1 /\ a[1] = y.out[Len(m.out) + 1]
      BY <3>4
    <3> HIDE DEF a
    <3>6. Follows(m.out, a, y.out)
      <4>1. \A j \in 1..Len(a) : j = 1
        BY <3>5
      <4>2. \A j \in 1..Len(a) : y.out[Len(m.out) + j] = a[j]
        BY <3>5, <4>1
      <4>3. Len(y.out) = Len(m.out) + Len(a)
        BY <3>3, <3>5
      <4> QED  BY <3>3, <4>2, <4>3 DEF Follows
    <3>7. OneMore(m.out, e, w, m.d + 1, y.out)
      BY <3>3, <3>5, <3>6 DEF OneMore
    <3>8. r = y
      BY <1>4, <2>6
    <3> QED  BY <1>4, <1>7, <2>1, <3>2, <3>7, <3>8 DEF m, r
  <2> QED  BY <2>5, <2>6
<1> QED  BY <1>4, <1>6, <1>7

\* the identifier of a node that is made
NameOf(s, n, key) ==
  IF n.key THEN key ELSE IF n.hdl THEN s.cnt + 2 ELSE View!None

\* What the engine keeps of a node that is made.
Noted(g, e, w, open, g2, open2) ==
  \E ga \in Seq(Entity), x \in Nat :
    /\ Follows(g, ga, g2) /\ open2 = Append(open, x)
    /\ \/ e = View!None /\ Len(ga) = 0 /\ x = 0
       \/ e # View!None /\ Len(ga) = 1 /\ ga[1].ntt = e /\ ga[1].hdl = w /\ x = Len(g) + 1

\* What the engine writes for a created node, in its tree and in the program.
LEMMA CreateWrites ==
  ASSUME NEW s \in Written, NEW n, NEW i \in Nat, NEW key \in Nat, s.cnt + 2 \in Nat, gen \in Nat
  PROVE  LET e == NameOf(s, n, key)
             w == View!What(n, i)
             t == View!Created(s, n, i, key)
         IN /\ e \in Nat /\ w \in Nat \X Nat /\ t \in Written
            /\ t.prog = Making(s.prog, w, e)
            /\ t.cnt = IF e # View!None /\ ~n.key THEN e ELSE s.cnt
            /\ Noted(s.g0, e, w, s.open, t.g0, t.open)
<1> DEFINE e == NameOf(s, n, key)
           w == View!What(n, i)
           t == View!Created(s, n, i, key)
<1>1. /\ s.g0 \in Seq(Entity) /\ s.open \in Seq(Nat) /\ s.prog \in Seq(Instr) /\ s.cnt \in Int
      /\ Len(s.g0) \in Nat
  <2>1. s.g0 \in Seq(Entity) /\ s.open \in Seq(Nat) /\ s.prog \in Seq(Instr) /\ s.cnt \in Int
    BY DEF Written
  <2> QED  BY <2>1, LenProperties
<1>2. e \in Nat
  BY DEF NameOf, View!None
<1>3. w \in Nat \X Nat
  BY DEF View!What, View!NoHandler
<1> DEFINE p == Making(s.prog, w, e)
           o == Append(s.open, IF e = View!None THEN 0 ELSE Len(s.g0) + 1)
           n1 == [ntt |-> e, scp |-> 0, hdl |-> w]
           g == IF e = View!None THEN s.g0 ELSE Append(s.g0, n1)
           c == IF e # View!None /\ ~n.key THEN e ELSE s.cnt
<1>4. t = [s EXCEPT !.prog = p, !.open = o, !.g0 = g, !.cnt = c]
  <2>1. p = s.prog \o <<[op |-> "create", what |-> w]>>
             \o (IF e = View!None THEN <<>> ELSE <<[op |-> "setid", e |-> e]>>)
    <3> DEFINE q == s.prog \o <<[op |-> "create", what |-> w]>>
    <3>1. q \in Seq(Instr)
      <4> DEFINE c1 == [op |-> "create", what |-> w]
      <4>1. c1 \in Instr
        BY <1>3, InstrIs
      <4> HIDE DEF c1
      <4>2. s.prog \o <<c1>> \in Seq(Instr)
        BY <1>1, <4>1, RunOne
      <4> QED  BY <4>2 DEF c1
    <3>2. p = IF e = View!None THEN q ELSE q \o <<[op |-> "setid", e |-> e]>>
      BY DEF Making
    <3> HIDE DEF q, p, e
    <3>3. q \o <<>> = q
      BY <3>1, ConcatEmptySeq
    <3>4. p = q \o (IF e = View!None THEN <<>> ELSE <<[op |-> "setid", e |-> e]>>)
      BY <3>2, <3>3
    <3> QED  BY <3>4 DEF q
  <2> HIDE DEF w
  <2>2. t = [s EXCEPT !.prog = s.prog \o <<[op |-> "create", what |-> w]>>
                       \o (IF e = View!None THEN <<>> ELSE <<[op |-> "setid", e |-> e]>>),
                      !.open = o, !.g0 = g, !.cnt = c]
    BY DEF View!Created, NameOf, w
  <2> HIDE DEF p, o, g, c, e, t
  <2> QED  BY <2>1, <2>2, Zenon
<1> HIDE DEF w, e
<1>5. p \in Seq(Instr)
  <2>1. [op |-> "create", what |-> w] \in Instr /\ [op |-> "setid", e |-> e] \in Instr
    BY <1>2, <1>3, InstrIs
  <2> DEFINE c1 == [op |-> "create", what |-> w]
             c2 == [op |-> "setid", e |-> e]
             q == s.prog \o <<c1>>
  <2>2. q \in Seq(Instr)
    <3> HIDE DEF c1
    <3> QED  BY <1>1, <2>1, RunOne DEF c1
  <2>3. q \o <<c2>> \in Seq(Instr)
    <3> HIDE DEF c2, q
    <3> QED  BY <2>1, <2>2, RunOne DEF c2
  <2> QED  BY <2>2, <2>3 DEF Making
<1>6. o \in Seq(Nat) /\ c \in Int
  BY <1>1, <1>2
<1>7. n1 \in Entity /\ n1.ntt = e /\ n1.hdl = w
  BY <1>2, <1>3 DEF Entity
<1> HIDE DEF n1
<1>8. g \in Seq(Entity)
  BY <1>1, <1>7
<1> HIDE DEF p, o, c, g, t
<1>9. t \in Written /\ t.prog = p /\ t.open = o /\ t.g0 = g /\ t.cnt = c
  BY <1>1, <1>4, <1>5, <1>6, <1>8 DEF Written
<1>10. Noted(s.g0, e, w, s.open, g, o)
  <2>1. CASE e = View!None
    <3> DEFINE ga == <<>>
    <3>1. ga \in Seq(Entity) /\ Len(ga) = 0
      OBVIOUS
    <3> HIDE DEF ga
    <3>2. g = s.g0 /\ o = Append(s.open, 0)
      BY <2>1 DEF g, o
    <3>3. Follows(s.g0, ga, g)
      BY <1>1, <3>1, <3>2 DEF Follows
    <3> DEFINE x == 0
    <3>4. x \in Nat /\ x = 0
      OBVIOUS
    <3> HIDE DEF x
    <3>5. \/ e = View!None /\ Len(ga) = 0 /\ x = 0
          \/ e # View!None /\ Len(ga) = 1 /\ ga[1].ntt = e /\ ga[1].hdl = w
             /\ x = Len(s.g0) + 1
      BY <2>1, <3>1, <3>4, Zenon
    <3>6. o = Append(s.open, x)
      BY <3>2, <3>4
    <3> QED  BY <3>1, <3>3, <3>4, <3>5, <3>6, Zenon DEF Noted
  <2>2. CASE e # View!None
    <3> DEFINE ga == <<n1>>
               x == Len(s.g0) + 1
    <3>1. ga \in Seq(Entity) /\ Len(ga) = 1 /\ ga[1] = n1
      BY <1>7
    <3>0. x \in Nat
      BY <1>1
    <3> HIDE DEF ga
    <3>2. g = Append(s.g0, n1) /\ o = Append(s.open, x)
      BY <2>2 DEF g, o
    <3>3. /\ Len(g) = x /\ g[x] = n1 /\ \A j \in 1..Len(s.g0) : g[j] = s.g0[j]
      BY <1>1, <1>7, <3>2, AppendProperties
    <3>4. Follows(s.g0, ga, g)
      <4>1. \A j \in 1..Len(ga) : j = 1
        BY <3>1
      <4>2. \A j \in 1..Len(ga) : g[Len(s.g0) + j] = ga[j]
        BY <3>1, <3>3, <4>1
      <4>3. Len(g) = Len(s.g0) + Len(ga)
        BY <3>1, <3>3
      <4> QED  BY <3>3, <4>2, <4>3 DEF Follows
    <3>5. ga[1].ntt = e /\ ga[1].hdl = w
      BY <1>7, <3>1
    <3> HIDE DEF x
    <3>6. x = Len(s.g0) + 1
      BY DEF x
    <3>7. \/ e = View!None /\ Len(ga) = 0 /\ x = 0
          \/ e # View!None /\ Len(ga) = 1 /\ ga[1].ntt = e /\ ga[1].hdl = w
             /\ x = Len(s.g0) + 1
      BY <2>2, <3>1, <3>5, <3>6, Zenon
    <3>8. ga \in Seq(Entity) /\ o = Append(s.open, x)
      BY <3>1, <3>2
    <3> QED  BY <3>0, <3>4, <3>7, <3>8, Zenon DEF Noted
  <2> QED  BY <2>1, <2>2
<1>11. t.prog = Making(s.prog, w, e) /\ t.cnt = IF e # View!None /\ ~n.key THEN e ELSE s.cnt
  BY <1>9 DEF p, c
<1> QED  BY <1>2, <1>3, <1>9, <1>10, <1>11 DEF e, w, t

\* how much of the tree is copied
Much(k) == IF k = 0 THEN 0 ELSE g1[k].scp

\* ga is the copy of the k-th entity and those below it, more the renaming
Copied(k, e, cnt, ga, more) ==
  /\ ga \in Seq(Entity) /\ Len(ga) = Much(k)
  /\ more \in Seq(Instr) /\ Len(more) = Much(k)
  /\ \A h \in 1..Much(k) :
       /\ ga[h].scp = g1[k + h - 1].scp /\ ga[h].hdl = g1[k + h - 1].hdl
       /\ ga[h].ntt = IF h = 1 THEN e ELSE cnt + 2 * (h - 1)
       /\ more[h] = [op |-> "reid", e |-> g1[k + h - 1].ntt, to |-> ga[h].ntt]

\* What the engine writes for a reused node.
LEMMA ReuseWrites ==
  ASSUME NEW s \in Written, s.cnt \in Nat, g1 \in Seq(Entity), NEW old \in Nat, NEW e \in Nat,
         LET k == View!Locate(old)
         IN k # 0 => k \in 1..Len(g1) /\ g1[k].scp \in 1..(Len(g1) - k + 1)
  PROVE  LET k == View!Locate(old)
             t == View!Reused(s, old, e)
         IN /\ t \in Written /\ t.open = s.open
            /\ t.cnt = IF k = 0 THEN s.cnt ELSE s.cnt + 2 * (g1[k].scp - 1)
            /\ \E ga, more : /\ Copied(k, e, s.cnt, ga, more)
                             /\ t.g0 = s.g0 \o ga
                             /\ t.prog = s.prog \o <<[op |-> "reuse", e |-> old]>> \o more
<1> DEFINE k == View!Locate(old)
           t == View!Reused(s, old, e)
           sub == View!Subtree(old)
           c == Much(k)
           to(i) == IF i = 1 THEN e ELSE s.cnt + 2 * (i - 1)
           ga == [i \in DOMAIN sub |-> [sub[i] EXCEPT !.ntt = to(i)]]
           more == [i \in DOMAIN sub |-> [op |-> "reid", e |-> sub[i].ntt, to |-> to(i)]]
           cnt == IF sub = <<>> THEN s.cnt ELSE s.cnt + 2 * (Len(sub) - 1)
           p1 == s.prog \o <<[op |-> "reuse", e |-> old]>>
<1>1. /\ s.g0 \in Seq(Entity) /\ s.prog \in Seq(Instr)
  BY DEF Written
<1>2. k # 0 => k \in 1..Len(g1) /\ g1[k].scp \in 1..(Len(g1) - k + 1)
  OBVIOUS
<1>3. t = [s EXCEPT !.prog = p1 \o more, !.g0 = s.g0 \o ga, !.cnt = cnt]
  BY DEF View!Reused
<1>4. sub = IF k = 0 THEN <<>> ELSE SubSeq(g1, k, k + g1[k].scp - 1)
  BY DEF View!Subtree
<1> HIDE DEF k, sub, t
<1>5. Len(g1) \in Nat
  BY LenProperties
<1>6. /\ sub \in Seq(Entity) /\ Len(sub) = c /\ c \in Nat /\ DOMAIN sub = 1..c
      /\ \A i \in 1..c : k + i - 1 \in 1..Len(g1) /\ sub[i] = g1[k + i - 1]
      /\ cnt = IF k = 0 THEN s.cnt ELSE s.cnt + 2 * (g1[k].scp - 1)
  <2>1. CASE k = 0
    <3>1. c = 0
      BY <2>1 DEF Much
    <3>2. sub = <<>>
      BY <1>4, <2>1
    <3>3. sub \in Seq(Entity) /\ Len(sub) = 0
      BY <3>2
    <3>4. DOMAIN sub = 1..0
      BY <3>3, LenProperties
    <3> HIDE DEF c
    <3> QED  BY <2>1, <3>1, <3>2, <3>3, <3>4
  <2>2. CASE k # 0
    <3>1. c = g1[k].scp /\ k \in 1..Len(g1) /\ c \in 1..(Len(g1) - k + 1)
      BY <1>2, <2>2 DEF Much
    <3> HIDE DEF c
    <3>2. sub = SubSeq(g1, k, k + c - 1)
      BY <1>4, <2>2, <3>1
    <3>3. /\ k \in Int /\ k + c - 1 \in Int /\ k <= k + c - 1 /\ (k + c - 1) - k + 1 = c /\ c \in Nat
          /\ \A i \in k..(k + c - 1) : i \in 1..Len(g1)
          /\ \A i \in 1..c : k + i - 1 \in 1..Len(g1)
      BY <1>5, <3>1
    <3>4. \A i \in k..(k + c - 1) : g1[i] \in Entity
      BY <3>3, ElementOfSeq
    <3> DEFINE l == k + c - 1
    <3> HIDE DEF l
    <3>5. /\ SubSeq(g1, k, l) \in Seq(Entity)
          /\ Len(SubSeq(g1, k, l)) = IF k <= l THEN l - k + 1 ELSE 0
          /\ \A i \in 1..(l - k + 1) : SubSeq(g1, k, l)[i] = g1[k + i - 1]
      BY <3>3, <3>4, SubSeqProperties DEF l
    <3>6. sub \in Seq(Entity) /\ Len(sub) = c /\ \A i \in 1..c : sub[i] = g1[k + i - 1]
      BY <3>2, <3>3, <3>5 DEF l
    <3>7. DOMAIN sub = 1..c
      BY <3>6, LenProperties
    <3>8. sub # <<>>
      BY <3>1, <3>6
    <3>9. cnt = s.cnt + 2 * (c - 1)
      BY <3>6, <3>8
    <3> QED  BY <2>2, <3>1, <3>3, <3>6, <3>7, <3>9
  <2> QED  BY <2>1, <2>2
<1> HIDE DEF c, cnt
<1>7. \A i \in 1..c : /\ sub[i] \in Entity /\ sub[i].ntt \in Nat /\ to(i) \in Nat
                      /\ sub[i].ntt = g1[k + i - 1].ntt /\ sub[i].scp = g1[k + i - 1].scp
                      /\ sub[i].hdl = g1[k + i - 1].hdl
  <2> SUFFICES ASSUME NEW i \in 1..c
               PROVE  /\ sub[i] \in Entity /\ sub[i].ntt \in Nat /\ to(i) \in Nat
                      /\ sub[i].ntt = g1[k + i - 1].ntt /\ sub[i].scp = g1[k + i - 1].scp
                      /\ sub[i].hdl = g1[k + i - 1].hdl
    OBVIOUS
  <2>1. sub[i] \in Entity
    BY <1>6, ElementOfSeq
  <2>2. to(i) \in Nat
    BY <1>6
  <2> QED  BY <1>6, <2>1, <2>2 DEF Entity
<1> HIDE DEF to
<1>8. /\ ga \in Seq(Entity) /\ Len(ga) = c
      /\ \A i \in 1..c : ga[i].scp = sub[i].scp /\ ga[i].hdl = sub[i].hdl /\ ga[i].ntt = to(i)
  <2>1. ga = [i \in 1..c |-> [sub[i] EXCEPT !.ntt = to(i)]]
    BY <1>6
  <2>2. \A i \in 1..c : ga[i] = [sub[i] EXCEPT !.ntt = to(i)]
    BY <2>1
  <2>3. ga = [i \in 1..c |-> ga[i]]
    BY <2>1, <2>2
  <2> HIDE DEF ga
  <2>4. \A i \in 1..c : /\ ga[i] \in Entity /\ ga[i].scp = sub[i].scp /\ ga[i].hdl = sub[i].hdl
                        /\ ga[i].ntt = to(i)
    <3> SUFFICES ASSUME NEW i \in 1..c
                 PROVE  /\ ga[i] \in Entity /\ ga[i].scp = sub[i].scp /\ ga[i].hdl = sub[i].hdl
                        /\ ga[i].ntt = to(i)
      OBVIOUS
    <3> DEFINE x == sub[i]
               y == to(i)
    <3>1. x \in Entity /\ y \in Nat /\ ga[i] = [x EXCEPT !.ntt = y]
      BY <1>7, <2>2
    <3> HIDE DEF x, y
    <3>2. /\ ga[i] \in Entity /\ ga[i].scp = x.scp /\ ga[i].hdl = x.hdl /\ ga[i].ntt = y
      BY <3>1 DEF Entity
    <3> QED  BY <3>2 DEF x, y
  <2>5. ga \in [1..c -> Entity]
    BY <2>3, <2>4
  <2> QED  BY <1>6, <2>4, <2>5
<1>9. /\ more \in Seq(Instr) /\ Len(more) = c
      /\ \A i \in 1..c : more[i] = [op |-> "reid", e |-> sub[i].ntt, to |-> to(i)]
  <2>1. more = [i \in 1..c |-> [op |-> "reid", e |-> sub[i].ntt, to |-> to(i)]]
    BY <1>6
  <2>2. \A i \in 1..c : more[i] = [op |-> "reid", e |-> sub[i].ntt, to |-> to(i)]
    BY <2>1
  <2>3. more = [i \in 1..c |-> more[i]]
    BY <2>1, <2>2
  <2> HIDE DEF more
  <2>4. \A i \in 1..c : more[i] \in Instr
    <3>1. \A i \in 1..c : [op |-> "reid", e |-> sub[i].ntt, to |-> to(i)] \in Instr
      BY <1>7, InstrIs
    <3> QED  BY <2>2, <3>1
  <2>5. more \in [1..c -> Instr]
    BY <2>3, <2>4
  <2> QED  BY <1>6, <2>2, <2>5
<1>10. p1 \in Seq(Instr)
  <2> DEFINE c1 == [op |-> "reuse", e |-> old]
  <2>1. c1 \in Instr
    BY InstrIs
  <2> HIDE DEF c1
  <2>2. s.prog \o <<c1>> \in Seq(Instr)
    BY <1>1, <2>1, RunOne
  <2> QED  BY <2>2 DEF c1
<1>11. cnt \in Int
  <2>1. k # 0 => g1[k].scp \in Int
    BY <1>2, <1>5
  <2> QED  BY <1>6, <2>1, SMTT(60)
<1> HIDE DEF p1, ga, more
<1>12. p1 \o more \in Seq(Instr) /\ s.g0 \o ga \in Seq(Entity)
  BY <1>1, <1>8, <1>9, <1>10, ConcatProperties
<1>13. /\ t \in Written /\ t.open = s.open /\ t.cnt = cnt /\ t.g0 = s.g0 \o ga
       /\ t.prog = p1 \o more
  BY <1>3, <1>11, <1>12 DEF Written
<1>14. Copied(k, e, s.cnt, ga, more)
  <2>1. \A h \in 1..c :
          /\ ga[h].scp = g1[k + h - 1].scp /\ ga[h].hdl = g1[k + h - 1].hdl
          /\ ga[h].ntt = IF h = 1 THEN e ELSE s.cnt + 2 * (h - 1)
    BY <1>7, <1>8 DEF to
  <2>2. \A h \in 1..c : more[h] = [op |-> "reid", e |-> g1[k + h - 1].ntt, to |-> ga[h].ntt]
    BY <1>7, <1>8, <1>9
  <2> QED  BY <1>8, <1>9, <2>1, <2>2 DEF Copied, c
<1>15. \E ga1, more1 : /\ Copied(k, e, s.cnt, ga1, more1)
                       /\ t.g0 = s.g0 \o ga1 /\ t.prog = p1 \o more1
  BY <1>13, <1>14
<1> QED  BY <1>6, <1>13, <1>15 DEF k, t, p1

\* the program with which a part is taken
Taking(prog, old, more) == prog \o <<[op |-> "reuse", e |-> old]>> \o more

\* f executes it from m to r
Execs(f, m, old, more, r) ==
  /\ f[0] = View!Exec(m, [op |-> "reuse", e |-> old]) /\ f[Len(more)] = r
  /\ \A h \in 1..Len(more) : f[h] = View!Exec(f[h - 1], more[h])

\* It is run from where the part was taken.
LEMMA TakingRun ==
  ASSUME NEW prog \in Seq(Instr), NEW old \in Nat, NEW more \in Seq(Instr)
  PROVE  /\ Taking(prog, old, more) \in Seq(Instr)
         /\ \E f : Execs(f, View!Run(prog), old, more, View!Run(Taking(prog, old, more)))
<1> DEFINE c == [op |-> "reuse", e |-> old]
           p1 == prog \o <<c>>
<1>1. c \in Instr
  BY InstrIs
<1> HIDE DEF c
<1>2. p1 \in Seq(Instr) /\ View!Run(p1) = View!Exec(View!Run(prog), c)
  BY <1>1, RunOne
<1> HIDE DEF p1
<1>3. p1 \o more \in Seq(Instr)
  BY <1>2, ConcatProperties
<1>4. \E f : /\ f[0] = View!Run(p1) /\ f[Len(more)] = View!Run(p1 \o more)
             /\ \A h \in 1..Len(more) : f[h] = View!Exec(f[h - 1], more[h])
  BY <1>2, RunConcat
<1>5. Taking(prog, old, more) = p1 \o more
  BY DEF Taking, p1, c
<1>6. PICK f : /\ f[0] = View!Run(p1) /\ f[Len(more)] = View!Run(p1 \o more)
               /\ \A h \in 1..Len(more) : f[h] = View!Exec(f[h - 1], more[h])
  BY <1>4
<1>7. Execs(f, View!Run(prog), old, more, View!Run(Taking(prog, old, more)))
  BY <1>2, <1>5, <1>6 DEF Execs, c
<1> QED  BY <1>3, <1>5, <1>7

\* A machine that has thrown takes nothing, and one that does not find the element throws.
LEMMA TakingThrows ==
  ASSUME NEW prog \in Seq(Instr), NEW old \in Nat, NEW more \in Seq(Instr),
         View!Run(prog) \in Machine,
         LET m == View!Run(prog)
         IN m.bad \/ (m.d \in Nat /\ View!ById(m.old, old) = 0)
  PROVE  View!Run(Taking(prog, old, more)) \in Machine /\ View!Run(Taking(prog, old, more)).bad
<1> DEFINE m == View!Run(prog)
           r == View!Run(Taking(prog, old, more))
           c == [op |-> "reuse", e |-> old]
<1>0. PICK f : Execs(f, m, old, more, r)
  BY TakingRun
<1>1. /\ f[0] = View!Exec(m, c) /\ f[Len(more)] = r
      /\ \A h \in 1..Len(more) : f[h] = View!Exec(f[h - 1], more[h])
  BY <1>0 DEF Execs
<1>2. m \in Machine /\ (m.bad \/ (~m.bad /\ m.d \in Nat /\ View!ById(m.old, old) = 0))
  OBVIOUS
<1>3. f[0] \in Machine /\ f[0].bad
  <2>1. CASE m.bad
    <3> HIDE DEF m, c
    <3> QED  BY <1>1, <1>2, <2>1, ExecBad
  <2>2. CASE ~m.bad /\ m.d \in Nat /\ View!ById(m.old, old) = 0
    <3>1. LET x == View!Exec(m, [op |-> "reuse", e |-> old])
              i == View!ById(m.old, old)
          IN x \in Machine /\ (i = 0 => x.bad)
      <4> HIDE DEF m
      <4> QED  BY <1>2, <2>2, ExecReuse
    <3> HIDE DEF m, r
    <3> QED  BY <1>1, <2>2, <3>1
  <2> QED  BY <1>2, <2>1, <2>2
<1> HIDE DEF r, c, m
<1>4. f[Len(more)] = f[0]
  <2>1. Len(more) \in Nat
    BY LenProperties
  <2> DEFINE l == Len(more)
  <2> HIDE DEF l
  <2>2. l \in Nat /\ \A h \in 1..l : f[h] = View!Exec(f[h - 1], more[h])
    BY <1>1, <2>1 DEF l
  <2>3. f[l] = f[0]
    BY <1>3, <2>2, BadStays
  <2> QED  BY <2>3 DEF l
<1> QED  BY <1>1, <1>3, <1>4 DEF r

\* An element that the engine knows is taken if all that the engine knows below it is left.
LEMMA TakingTakes ==
  ASSUME dom \in Seq(Shown), g1 \in Seq(Entity), NEW mk, Synced(dom, g1, mk),
         NEW prog \in Seq(Instr), View!Run(prog) \in Machine,
         NEW k \in 1..Len(g1), NEW e, NEW cnt, NEW ga, NEW more, Copied(k, e, cnt, ga, more),
         Renews(dom, g1, k, ga), NEW p,
         LET m == View!Run(prog)
         IN ~m.bad /\ m.d \in Nat /\ Left(dom, m.old, p) /\ Apart(m.out, dom)
  PROVE  Taken(dom, mk, View!Run(prog), p, k, ga, View!Run(Taking(prog, g1[k].ntt, more)))
<1> DEFINE m == View!Run(prog)
           r == View!Run(Taking(prog, g1[k].ntt, more))
           n == Len(ga)
<1>1. m \in Machine /\ ~m.bad /\ m.d \in Nat /\ Left(dom, m.old, p) /\ Apart(m.out, dom)
  OBVIOUS
<1>2. g1[k].ntt \in Nat
  <2>1. g1[k] \in Entity
    BY ElementOfSeq
  <2> QED  BY <2>1 DEF Entity
<1>3. /\ ga \in Seq(Entity) /\ more \in Seq(Instr) /\ Len(more) = n /\ n \in Nat
      /\ \A h \in 1..n : more[h] = [op |-> "reid", e |-> g1[k + h - 1].ntt, to |-> ga[h].ntt]
  <2>1. ga \in Seq(Entity) /\ more \in Seq(Instr) /\ Len(more) = n /\ n = Much(k)
    BY DEF Copied
  <2>2. n \in Nat
    BY <2>1, LenProperties
  <2>3. \A h \in 1..n : more[h] = [op |-> "reid", e |-> g1[k + h - 1].ntt, to |-> ga[h].ntt]
    BY <2>1 DEF Copied
  <2> QED  BY <2>1, <2>2, <2>3
<1>7. PICK f : Execs(f, m, g1[k].ntt, more, r)
  BY <1>2, <1>3, TakingRun
<1>4. /\ f[0] = View!Exec(m, [op |-> "reuse", e |-> g1[k].ntt]) /\ f[Len(more)] = r
      /\ \A h \in 1..Len(more) : f[h] = View!Exec(f[h - 1], more[h])
  BY <1>7 DEF Execs
<1> HIDE DEF m, r
<1>5. Reuses(f, m, g1, k, ga) /\ f[Len(ga)] = r
  <2>1. \A h \in 1..n : f[h] = View!Exec(f[h - 1], [op |-> "reid", e |-> g1[k + h - 1].ntt, to |-> ga[h].ntt])
    BY <1>3, <1>4
  <2> QED  BY <1>3, <1>4, <2>1 DEF Reuses
<1>6. Taken(dom, mk, m, p, k, ga, f[Len(ga)])
  BY <1>1, <1>3, <1>5, ReuseRun
<1> QED  BY <1>5, <1>6 DEF m, r

-----------------------------------------------------------------------------
(* The identifiers.                                                        *)

\* the nodes of a view
Nodes == [depth : Nat \ {0}, key : BOOLEAN, hdl : BOOLEAN, old : Nat]

\* e is an identifier of the g-th turn: those of two turns in a row differ
OfTurn(g, e) == e \in Nat /\ e >= 2 /\ e % 2 = g % 2

\* Identifiers of a turn are not those of the next one; they may be those of the one
\* after it.
LEMMA TurnsDiffer ==
  ASSUME NEW g \in Nat
  PROVE  /\ \A e : OfTurn(g, e) => ~OfTurn(g + 1, e) /\ OfTurn(g + 2, e) /\ e # View!None
         /\ \A e, c \in Nat : OfTurn(g, e) => OfTurn(g, e + 2 * c)
         /\ OfTurn(g, 2 + (g % 2))
<1>1. g % 2 \in {0, 1} /\ (g + 1) % 2 # g % 2 /\ (g + 2) % 2 = g % 2
  OBVIOUS
<1>2. \A e : OfTurn(g, e) => ~OfTurn(g + 1, e) /\ OfTurn(g + 2, e) /\ e # View!None
  BY <1>1 DEF OfTurn, View!None
<1>3. \A e, c \in Nat : OfTurn(g, e) => OfTurn(g, e + 2 * c)
  <2> SUFFICES ASSUME NEW e \in Nat, NEW c \in Nat, OfTurn(g, e)  PROVE OfTurn(g, e + 2 * c)
    OBVIOUS
  <2>1. (e + 2 * c) % 2 = e % 2
    OBVIOUS
  <2> QED  BY <2>1 DEF OfTurn
<1>4. OfTurn(g, 2 + (g % 2))
  BY DEF OfTurn
<1> QED  BY <1>2, <1>3, <1>4

\* The keys of a view go up by two, and are of the turn.
LEMMA KeyOfIs ==
  ASSUME NEW v \in Seq(Nodes), gen \in Nat
  PROVE  /\ \A i \in 1..(Len(v) + 1) : /\ View!KeyOf(v, i) \in Nat
                                       /\ OfTurn(gen, View!KeyOf(v, i))
                                       /\ View!KeyOf(v, i) <= View!KeyOf(v, Len(v) + 1)
         /\ \A i \in 1..Len(v) :
              View!KeyOf(v, i + 1) = IF v[i].key THEN View!KeyOf(v, i) + 2 ELSE View!KeyOf(v, i)
<1> DEFINE K(i) == {j \in 1..(i - 1) : v[j].key}
           n == Len(v) + 1
           F == 2 + (gen % 2)
<1>1. Len(v) \in Nat /\ n \in Nat
  BY LenProperties
<1>2. \A i \in Int : View!KeyOf(v, i) = F + 2 * Cardinality(K(i))
  <2> SUFFICES ASSUME NEW i \in Int  PROVE View!KeyOf(v, i) = F + 2 * Cardinality(K(i))
    OBVIOUS
  <2>1. View!First = F
    BY DEF View!First
  <2>2. View!KeyOf(v, i) = View!First + 2 * Cardinality(K(i))
    BY Zenon DEF View!KeyOf, View!Cardinality, Cardinality
  <2> QED  BY <2>1, <2>2, Zenon
<1>3. \A i \in 1..n : IsFiniteSet(K(i)) /\ Cardinality(K(i)) \in Nat
  <2> SUFFICES ASSUME NEW i \in 1..n  PROVE IsFiniteSet(K(i)) /\ Cardinality(K(i)) \in Nat
    OBVIOUS
  <2>1. IsFiniteSet(1..(i - 1))
    <3>1. 1 \in Int /\ i - 1 \in Int
      BY <1>1
    <3> QED  BY <3>1, FS_Interval
  <2>3. K(i) \in SUBSET (1..(i - 1))
    OBVIOUS
  <2>2. IsFiniteSet(K(i))
    BY <2>1, <2>3, FS_Subset
  <2> HIDE DEF K
  <2> QED  BY <2>2, FS_CardinalityType
<1>4. F \in Nat /\ OfTurn(gen, F)
  <2>1. OfTurn(gen, F)
    BY TurnsDiffer
  <2> HIDE DEF F
  <2> QED  BY <2>1 DEF OfTurn
<1>5. ASSUME NEW i \in 1..n
      PROVE  /\ View!KeyOf(v, i) \in Nat /\ OfTurn(gen, View!KeyOf(v, i))
             /\ View!KeyOf(v, i) <= View!KeyOf(v, n)
  <2> DEFINE c == Cardinality(K(i))
             l == Cardinality(K(n))
  <2>1. n \in 1..n
    BY <1>1
  <2>2. c \in Nat /\ l \in Nat
    BY <1>3, <2>1
  <2>3. c <= l
    <3>1. K(i) \in SUBSET K(n)
      BY <1>1
    <3>2. IsFiniteSet(K(n))
      BY <1>3, <2>1
    <3> HIDE DEF K
    <3> QED  BY <3>1, <3>2, FS_Subset
  <2>4. View!KeyOf(v, i) = F + 2 * c /\ View!KeyOf(v, n) = F + 2 * l
    BY <1>2
  <2> HIDE DEF c, l, F
  <2>5. OfTurn(gen, F + 2 * c)
    BY <1>4, <2>2, TurnsDiffer
  <2>6. F + 2 * c \in Nat /\ F + 2 * c <= F + 2 * l
    BY <1>4, <2>2, <2>3
  <2> QED  BY <2>4, <2>5, <2>6
<1>6. ASSUME NEW i \in 1..Len(v)
      PROVE  View!KeyOf(v, i + 1) = IF v[i].key THEN View!KeyOf(v, i) + 2 ELSE View!KeyOf(v, i)
  <2> DEFINE c == Cardinality(K(i))
             l == Cardinality(K(i + 1))
  <2>0. i \in 1..n /\ i + 1 \in 1..n
    BY <1>1
  <2>1. c \in Nat /\ l \in Nat /\ IsFiniteSet(K(i))
    BY <1>3, <2>0
  <2>2. CASE v[i].key
    <3>1. K(i + 1) = K(i) \cup {i} /\ i \notin K(i)
      BY <1>1, <2>2
    <3>2. l = c + 1
      <4> HIDE DEF K
      <4> QED  BY <2>1, <3>1, FS_AddElement
    <3>3. View!KeyOf(v, i) = F + 2 * c /\ View!KeyOf(v, i + 1) = F + 2 * l
      BY <1>2
    <3> HIDE DEF c, l, F
    <3> QED  BY <1>4, <2>1, <2>2, <3>2, <3>3
  <2>3. CASE ~v[i].key
    <3>1. K(i + 1) = K(i)
      BY <1>1, <2>3
    <3>2. View!KeyOf(v, i) = View!KeyOf(v, i + 1)
      <4>1. i \in Int /\ i + 1 \in Int
        BY <1>1
      <4> QED  BY <1>2, <3>1, <4>1, Zenon
    <3> QED  BY <2>3, <3>2
  <2> QED  BY <2>2, <2>3
<1> QED  BY <1>5, <1>6

\* the first identifier that is given without a key
Keys(v) == View!KeyOf(v, Len(v) + 1)

\* e was given to one of the first i nodes: as a key, or from the counter
Given(v, i, cnt, e) ==
  OfTurn(gen, e) /\ (e < View!KeyOf(v, i + 1) \/ (Keys(v) <= e /\ e <= cnt))

\* The entities of the first i nodes have identifiers of their own.
Ids(v, i, g, cnt) ==
  /\ cnt \in Nat /\ OfTurn(gen, cnt + 2) /\ Keys(v) <= cnt + 2
  /\ \A h \in 1..Len(g) : Given(v, i, cnt, g[h].ntt)
  /\ \A h, j \in 1..Len(g) : g[h].ntt = g[j].ntt => h = j

\* e is given to the i-th node
GivenNow(v, i, cnt, cnt2, e) ==
  OfTurn(gen, e) /\ ((v[i].key /\ e = View!KeyOf(v, i)) \/ (cnt < e /\ Keys(v) <= e /\ e <= cnt2))

\* Identifiers that are given to one more node are new.
LEMMA IdsJoin ==
  ASSUME gen \in Nat, NEW v \in Seq(Nodes), NEW i \in 1..Len(v),
         NEW g \in Seq(Entity), NEW ga \in Seq(Entity), NEW g2, Follows(g, ga, g2),
         NEW cnt, Ids(v, i - 1, g, cnt), NEW cnt2 \in Nat, cnt <= cnt2, OfTurn(gen, cnt2 + 2),
         \A h \in 1..Len(ga) : GivenNow(v, i, cnt, cnt2, ga[h].ntt),
         \A h, j \in 1..Len(ga) : ga[h].ntt = ga[j].ntt => h = j
  PROVE  Ids(v, i, g2, cnt2)
<1>1. /\ Len(v) \in Nat /\ Len(g) \in Nat /\ Len(ga) \in Nat /\ i \in Nat
      /\ i \in 1..(Len(v) + 1) /\ i + 1 \in 1..(Len(v) + 1) /\ (i - 1) + 1 = i
      /\ Len(v) + 1 \in 1..(Len(v) + 1)
  BY LenProperties
<1>2. /\ View!KeyOf(v, i) \in Nat /\ View!KeyOf(v, i + 1) \in Nat /\ Keys(v) \in Nat
      /\ View!KeyOf(v, i) <= Keys(v) /\ View!KeyOf(v, i + 1) <= Keys(v)
      /\ View!KeyOf(v, i + 1) = IF v[i].key THEN View!KeyOf(v, i) + 2 ELSE View!KeyOf(v, i)
  BY <1>1, KeyOfIs DEF Keys
<1>3. /\ cnt \in Nat /\ Keys(v) <= cnt + 2
      /\ \A h \in 1..Len(g) : Given(v, i - 1, cnt, g[h].ntt)
      /\ \A h, j \in 1..Len(g) : g[h].ntt = g[j].ntt => h = j
  BY DEF Ids
<1>4. \A e : Given(v, i - 1, cnt, e) =>
         Given(v, i, cnt2, e) /\ ~GivenNow(v, i, cnt, cnt2, e)
  <2> SUFFICES ASSUME NEW e, Given(v, i - 1, cnt, e)
               PROVE  Given(v, i, cnt2, e) /\ ~GivenNow(v, i, cnt, cnt2, e)
    OBVIOUS
  <2> DEFINE k == View!KeyOf(v, i)
             k2 == View!KeyOf(v, i + 1)
             l == Keys(v)
  <2>1. OfTurn(gen, e) /\ e \in Nat /\ (e < k \/ (l <= e /\ e <= cnt))
    BY <1>1 DEF Given, OfTurn
  <2>2. k \in Nat /\ k2 \in Nat /\ l \in Nat /\ k <= k2 /\ k <= l /\ (v[i].key => k2 = k + 2) /\ k2 <= l
    BY <1>2
  <2> HIDE DEF k, k2, l
  <2>3. e < k2 \/ (l <= e /\ e <= cnt2)
    BY <1>3, <2>1, <2>2
  <2>4. ~((v[i].key /\ e = k) \/ (cnt < e /\ l <= e /\ e <= cnt2))
    BY <1>3, <2>1, <2>2
  <2> QED  BY <2>1, <2>3, <2>4 DEF Given, GivenNow, k, k2, l
<1>5. \A e : GivenNow(v, i, cnt, cnt2, e) => Given(v, i, cnt2, e)
  <2> SUFFICES ASSUME NEW e, GivenNow(v, i, cnt, cnt2, e)  PROVE Given(v, i, cnt2, e)
    OBVIOUS
  <2>1. OfTurn(gen, e) /\ ((v[i].key /\ e = View!KeyOf(v, i)) \/ (cnt < e /\ Keys(v) <= e /\ e <= cnt2))
    BY DEF GivenNow
  <2>2. e < View!KeyOf(v, i + 1) \/ (Keys(v) <= e /\ e <= cnt2)
    BY <1>2, <2>1
  <2> QED  BY <2>1, <2>2 DEF Given
<1>6. /\ Len(g2) = Len(g) + Len(ga)
      /\ \A h \in 1..Len(g2) : \/ h \in 1..Len(g) /\ g2[h] = g[h]
                               \/ h - Len(g) \in 1..Len(ga) /\ g2[h] = ga[h - Len(g)]
  <2>1. /\ Len(g2) = Len(g) + Len(ga)
        /\ \A h \in 1..Len(g) : g2[h] = g[h]
        /\ \A h \in 1..Len(ga) : g2[Len(g) + h] = ga[h]
    BY DEF Follows
  <2>2. ASSUME NEW h \in 1..Len(g2), h \notin 1..Len(g)
        PROVE  h - Len(g) \in 1..Len(ga) /\ g2[h] = ga[h - Len(g)]
    <3>1. h - Len(g) \in 1..Len(ga) /\ Len(g) + (h - Len(g)) = h
      BY <1>1, <2>1, <2>2
    <3> QED  BY <2>1, <3>1
  <2> QED  BY <2>1, <2>2
<1>7. \A h \in 1..Len(g2) : Given(v, i, cnt2, g2[h].ntt)
  BY <1>3, <1>4, <1>5, <1>6
<1>8. \A h, j \in 1..Len(g2) : g2[h].ntt = g2[j].ntt => h = j
  <2> SUFFICES ASSUME NEW h \in 1..Len(g2), NEW j \in 1..Len(g2), g2[h].ntt = g2[j].ntt
               PROVE  h = j
    OBVIOUS
  <2>1. CASE h \in 1..Len(g) /\ g2[h] = g[h] /\ j \in 1..Len(g) /\ g2[j] = g[j]
    BY <1>3, <2>1
  <2>2. CASE /\ h - Len(g) \in 1..Len(ga) /\ g2[h] = ga[h - Len(g)]
             /\ j - Len(g) \in 1..Len(ga) /\ g2[j] = ga[j - Len(g)]
    <3>1. h - Len(g) = j - Len(g)
      BY <2>2
    <3>2. h \in Int /\ j \in Int
      BY <1>1, <1>6
    <3> QED  BY <1>1, <3>1, <3>2
  <2>3. CASE /\ h \in 1..Len(g) /\ g2[h] = g[h]
             /\ j - Len(g) \in 1..Len(ga) /\ g2[j] = ga[j - Len(g)]
    BY <1>3, <1>4, <2>3
  <2>4. CASE /\ h - Len(g) \in 1..Len(ga) /\ g2[h] = ga[h - Len(g)]
             /\ j \in 1..Len(g) /\ g2[j] = g[j]
    BY <1>3, <1>4, <2>4
  <2> QED  BY <1>6, <2>1, <2>2, <2>3, <2>4
<1>9. Keys(v) <= cnt2 + 2
  BY <1>2, <1>3
<1> QED  BY <1>7, <1>8, <1>9 DEF Ids

\* The first identifier comes after the keys.
LEMMA StartIds ==
  ASSUME gen \in Nat, NEW v \in Seq(Nodes)
  PROVE  Start(v) \in Written /\ Ids(v, 0, Start(v).g0, Start(v).cnt)
<1> DEFINE s == Start(v)
<1>1. Len(v) \in Nat
  BY LenProperties
<1>2. Len(v) + 1 \in 1..(Len(v) + 1)
  BY <1>1
<1>3. Keys(v) \in Nat /\ OfTurn(gen, Keys(v))
  BY <1>2, KeyOfIs DEF Keys
<1>4. s.g0 = <<>> /\ s.prog = <<>> /\ s.open = <<>> /\ s.cnt = Keys(v) - 2
  BY DEF Start, Keys
<1>5. s \in Written
  BY <1>3 DEF Start, Written, Keys
<1> HIDE DEF s
<1>6. Keys(v) - 2 \in Nat /\ (Keys(v) - 2) + 2 = Keys(v)
  BY <1>3 DEF OfTurn
<1>7. s.cnt \in Nat /\ OfTurn(gen, s.cnt + 2) /\ Keys(v) <= s.cnt + 2
  BY <1>3, <1>4, <1>6
<1>8. Len(s.g0) = 0
  BY <1>4
<1>9. \A h \in 1..Len(s.g0) : FALSE
  BY <1>8
<1> QED  BY <1>5, <1>7, <1>9 DEF Ids, s

-----------------------------------------------------------------------------
(* A turn.                                                                 *)

\* a page has one root
OneTree(s) == \A j \in 1..Len(s) : s[j].depth >= 1 /\ (s[j].depth = 1 <=> j = 1)

\* Between two turns the engine and the page match.
Matched(mk) ==
  /\ gen \in Nat /\ dom \in Seq(Shown) /\ g1 \in Seq(Entity)
  /\ Synced(dom, g1, mk) /\ OneTree(dom)
  /\ \A x \in 1..Len(dom) :
       dom[x].id # View!None => OfTurn(gen + 1, dom[x].id) /\ dom[x].id \in View!Entities
  /\ sparse \in [View!Entities -> Nat \ {0}]
  /\ \A k \in 1..Len(g1) : sparse[g1[k].ntt] = k

\* locate finds the entities of the elements of the page, and no others.
LEMMA LocateIs ==
  ASSUME NEW mk, Matched(mk), NEW e \in View!Entities, e # View!None
  PROVE  LET k == View!Locate(e)
         IN /\ k # 0 => /\ k \in 1..Len(g1) /\ g1[k].ntt = e
                        /\ g1[k].scp \in 1..(Len(g1) - k + 1)
            /\ k = 0 => \A x \in 1..Len(dom) : dom[x].id # e
<1> DEFINE k == View!Locate(e)
<1>1. k = IF sparse[e] <= Len(g1) /\ g1[sparse[e]].ntt = e THEN sparse[e] ELSE 0
  BY DEF View!Locate
<1>2. /\ sparse[e] \in Nat \ {0} /\ g1 \in Seq(Entity) /\ Synced(dom, g1, mk)
      /\ \A h \in 1..Len(g1) : sparse[g1[h].ntt] = h
  BY DEF Matched
<1>3. Len(g1) \in Nat
  BY <1>2, LenProperties
<1> HIDE DEF k
<1>4. ASSUME k # 0
      PROVE  k \in 1..Len(g1) /\ g1[k].ntt = e /\ g1[k].scp \in 1..(Len(g1) - k + 1)
  <2>1. k \in 1..Len(g1) /\ g1[k].ntt = e
    BY <1>1, <1>2, <1>3, <1>4
  <2> QED  BY <1>2, <2>1 DEF Synced, Scoped
<1>5. ASSUME k = 0, NEW x \in 1..Len(dom), dom[x].id = e
      PROVE  FALSE
  <2>1. PICK h \in 1..Len(g1) : mk[h] = x /\ g1[h].ntt = dom[mk[h]].id
    BY <1>2, <1>5 DEF Synced, Places
  <2>2. sparse[e] = h /\ g1[h].ntt = e
    BY <1>2, <1>5, <2>1
  <2>3. k = h
    BY <1>1, <1>3, <2>2
  <2> QED  BY <1>3, <1>5, <2>3
<1> QED  BY <1>4, <1>5 DEF k

\* one of the first i nodes stands for a part of the old page that node y is in
Gone(v, i, y) ==
  \E j \in 1..i : /\ v[j].old # View!None
                  /\ \E z \in 1..Len(dom) : dom[z].id = v[j].old /\ Below(dom, z, y)

\* What a proper view reuses is there, and the parts are disjoint.
LEMMA ProperIs ==
  ASSUME NEW mk, Matched(mk), NEW v \in Seq(Nodes), View!Proper(v), NEW i \in 1..Len(v),
         v[i].old # View!None
  PROVE  /\ \E z \in 1..Len(dom) : dom[z].id = v[i].old
         /\ \A z, y \in 1..Len(dom) : dom[z].id = v[i].old /\ Below(dom, z, y) => ~Gone(v, i - 1, y)
<1> DEFINE olds == {j \in DOMAIN v : v[j].old # View!None}
           at(j) == View!ById(dom, v[j].old)
           part1(j) == at(j)..View!End(dom, at(j))
<1>1. /\ \A j \in olds : at(j) # 0
      /\ \A j, l \in olds : j # l => part1(j) \cap part1(l) = {}
  BY DEF View!Proper
<1>2. /\ dom \in Seq(Shown) /\ Len(dom) \in Nat /\ Len(v) \in Nat /\ DOMAIN v = 1..Len(v)
      /\ \A x, y \in 1..Len(dom) : dom[x].id = dom[y].id /\ dom[x].id # View!None => x = y
  <2>1. dom \in Seq(Shown) /\ Synced(dom, g1, mk)
    BY DEF Matched
  <2> QED  BY <2>1, LenProperties DEF Synced
<1>3. \A j \in olds : at(j) \in 1..Len(dom) /\ dom[at(j)].id = v[j].old
  <2> SUFFICES ASSUME NEW j \in olds
               PROVE  at(j) \in 1..Len(dom) /\ dom[at(j)].id = v[j].old
    OBVIOUS
  <2>1. at(j) \in 0..Len(dom) /\ (at(j) # 0 => dom[at(j)].id = v[j].old)
    BY <1>2, ByIdIs
  <2>2. at(j) # 0
    BY <1>1
  <2> HIDE DEF at
  <2> QED  BY <1>2, <2>1, <2>2
<1>4. \A j \in olds : \A z, y \in 1..Len(dom) :
        dom[z].id = v[j].old /\ Below(dom, z, y) => z = at(j) /\ y \in part1(j)
  <2> SUFFICES ASSUME NEW j \in olds, NEW z \in 1..Len(dom), NEW y \in 1..Len(dom),
                      dom[z].id = v[j].old, Below(dom, z, y)
               PROVE  z = at(j) /\ y \in part1(j)
    OBVIOUS
  <2>1. at(j) \in 1..Len(dom) /\ dom[at(j)].id = v[j].old
    BY <1>3
  <2>2. z = at(j)
    BY <1>2, <2>1
  <2> HIDE DEF at
  <2>3. z <= y
    BY DEF Below
  <2>4. y \in z..Len(dom)
    BY <1>2, <2>3
  <2>5. y <= View!End(dom, z)
    BY <1>2, <2>4, EndIs
  <2>6. View!End(dom, z) \in Int
    <3>1. View!End(dom, z) \in z..Len(dom)
      BY <1>2, EndIs
    <3> QED  BY <1>2, <3>1
  <2>7. y \in z..View!End(dom, z)
    BY <1>2, <2>3, <2>5, <2>6
  <2> QED  BY <2>2, <2>7
<1>5. i \in olds /\ i \in Int
  BY <1>2
<1> HIDE DEF olds, at, part1
<1>6. \E z \in 1..Len(dom) : dom[z].id = v[i].old
  BY <1>3, <1>5
<1>7. ASSUME NEW z \in 1..Len(dom), NEW y \in 1..Len(dom), dom[z].id = v[i].old, Below(dom, z, y),
             Gone(v, i - 1, y)
      PROVE  FALSE
  <2>1. PICK j \in 1..(i - 1) : /\ v[j].old # View!None
                                /\ \E u \in 1..Len(dom) : dom[u].id = v[j].old /\ Below(dom, u, y)
    BY <1>7 DEF Gone
  <2>2. j \in olds /\ j # i
    BY <1>2, <1>5, <2>1 DEF olds
  <2>3. y \in part1(i)
    BY <1>4, <1>5, <1>7
  <2>4. y \in part1(j)
    BY <1>4, <2>1, <2>2
  <2>5. part1(i) \cap part1(j) = {}
    BY <1>1, <1>5, <2>2
  <2> QED  BY <2>3, <2>4, <2>5
<1> QED  BY <1>6, <1>7

\* what is left of the old page when the first i nodes are drawn
Remains(v, i, old) ==
  \E p : Left(dom, old, p) /\ \A y \in 1..Len(dom) : IsLeft(old, p, y) <=> ~Gone(v, i, y)

\* The first i nodes are written, and the page that runs it is where the engine is,
\* if it has not thrown.
Sim(v, i, s) ==
  LET m == View!Run(s.prog)
  IN /\ s \in Written /\ m \in Machine /\ Ids(v, i, s.g0, s.cnt)
     /\ ~m.bad => /\ \E mk : Drawn(s.g0, s.open, m.out, mk)
                  /\ OneTree(m.out) /\ (Len(m.out) = 0 <=> i = 0)
                  /\ Remains(v, i, m.old)
     /\ View!Proper(v) => ~m.bad

\* the machine is at the element the engine has open last
InStep(s) == LET m == View!Run(s.prog) IN ~m.bad => m.d = Len(s.open)

\* Closing elements keeps program and tree together.
LEMMA CloseSim ==
  ASSUME NEW v, NEW i, NEW s, Sim(v, i, s), InStep(s), NEW d \in 0..Len(s.open)
  PROVE  LET t == View!CloseTo(s, d)
         IN /\ Sim(v, i, t) /\ Len(t.open) = d
            /\ d # 0 \/ Len(s.open) = 0 => InStep(t)
<1> DEFINE t == View!CloseTo(s, d)
           m == View!Run(s.prog)
           r == View!Run(t.prog)
           n == Len(s.open) - d
<1>1. /\ s \in Written /\ m \in Machine /\ Ids(v, i, s.g0, s.cnt)
      /\ ~m.bad => /\ \E mk : Drawn(s.g0, s.open, m.out, mk)
                   /\ OneTree(m.out) /\ (Len(m.out) = 0 <=> i = 0)
                   /\ Remains(v, i, m.old)
      /\ View!Proper(v) => ~m.bad
  BY DEF Sim
<1>2. ~m.bad => m.d = Len(s.open)
  BY DEF InStep
<1>3. /\ t \in Written /\ t.cnt = s.cnt
      /\ t.open = SubSeq(s.open, 1, d) /\ Len(t.open) = d
      /\ t.prog = s.prog \o Nexts(Len(s.open) - d)
      /\ Closing(s.g0, s.open, d, t.g0)
  BY <1>1, CloseIs
<1>4. /\ s.prog \in Seq(Instr) /\ s.g0 \in Seq(Entity) /\ s.open \in Seq(Nat)
      /\ t.g0 \in Seq(Entity)
  BY <1>1, <1>3 DEF Written
<1>5. Len(s.open) \in Nat /\ n \in Nat /\ d \in Nat
  <2>1. Len(s.open) \in Nat
    BY <1>4, LenProperties
  <2> QED  BY <2>1
<1>6. /\ r \in Machine /\ r.bad = m.bad
      /\ ~m.bad => /\ r.out = m.out /\ r.old = m.old
                   /\ n = 0 \/ n < m.d => r.d = m.d - n
  <2>1. LET m1 == View!Run(s.prog)
            x == View!Run(s.prog \o Nexts(n))
        IN /\ x \in Machine /\ x.bad = m1.bad
           /\ ~m1.bad => /\ x.out = m1.out /\ x.old = m1.old
                         /\ n = 0 \/ n < m1.d => x.d = m1.d - n
    <3> HIDE DEF n
    <3> QED  BY <1>1, <1>4, <1>5, RunNexts DEF m
  <2>2. r = View!Run(s.prog \o Nexts(n))
    BY <1>3
  <2> QED  BY <2>1, <2>2, Zenon
<1> HIDE DEF t, m, r
<1>7. Ids(v, i, t.g0, t.cnt)
  <2>1. Len(t.g0) = Len(s.g0) /\ \A h \in 1..Len(s.g0) : t.g0[h].ntt = s.g0[h].ntt
    BY <1>3 DEF Closing
  <2> QED  BY <1>1, <1>3, <2>1 DEF Ids
<1>8. ASSUME ~r.bad
      PROVE  /\ \E mk : Drawn(t.g0, t.open, r.out, mk)
             /\ OneTree(r.out) /\ (Len(r.out) = 0 <=> i = 0)
             /\ Remains(v, i, r.old)
  <2>1. ~m.bad /\ r.out = m.out /\ r.old = m.old
    BY <1>6, <1>8
  <2>2. PICK mk : Drawn(s.g0, s.open, m.out, mk)
    BY <1>1, <2>1
  <2>3. m.out \in Seq(Shown)
    BY <1>1 DEF Machine
  <2>4. Drawn(t.g0, SubSeq(s.open, 1, d), m.out, mk)
    BY <1>3, <1>4, <2>2, <2>3, CloseDrawn
  <2>5. Drawn(t.g0, t.open, r.out, mk)
    BY <1>3, <2>1, <2>4
  <2> QED  BY <1>1, <2>1, <2>5
<1>9. Sim(v, i, t)
  BY <1>1, <1>3, <1>6, <1>7, <1>8 DEF Sim, r
<1>10. ASSUME d # 0 \/ Len(s.open) = 0, ~r.bad  PROVE r.d = Len(t.open)
  <2>1. ~m.bad /\ m.d = Len(s.open)
    BY <1>2, <1>6, <1>10
  <2>2. n = 0 \/ n < m.d
    BY <1>5, <1>10, <2>1
  <2>3. r.d = m.d - n
    BY <1>6, <2>1, <2>2
  <2> QED  BY <1>3, <1>5, <2>1, <2>3
<1> QED  BY <1>3, <1>9, <1>10 DEF InStep, t, r

\* The identifier of a node that is made is its own.
LEMMA CreateIds ==
  ASSUME gen \in Nat, NEW v \in Seq(Nodes), NEW i \in 1..Len(v),
         NEW s \in Written, Ids(v, i - 1, s.g0, s.cnt), NEW t \in Written,
         NEW e, e = NameOf(s, v[i], View!KeyOf(v, i)),
         t.cnt = IF e # View!None /\ ~v[i].key THEN e ELSE s.cnt,
         NEW w, Noted(s.g0, e, w, s.open, t.g0, t.open)
  PROVE  Ids(v, i, t.g0, t.cnt)
<1>1. PICK ga \in Seq(Entity), x \in Nat :
        /\ Follows(s.g0, ga, t.g0) /\ t.open = Append(s.open, x)
        /\ \/ e = View!None /\ Len(ga) = 0 /\ x = 0
           \/ e # View!None /\ Len(ga) = 1 /\ ga[1].ntt = e /\ ga[1].hdl = w /\ x = Len(s.g0) + 1
  BY Zenon DEF Noted
<1>2. s.g0 \in Seq(Entity) /\ s.cnt \in Nat /\ OfTurn(gen, s.cnt + 2) /\ Keys(v) <= s.cnt + 2
  BY DEF Written, Ids
<1>3. OfTurn(gen, View!KeyOf(v, i)) /\ Keys(v) \in Nat
  <2>1. Len(v) \in Nat
    BY LenProperties
  <2>2. i \in 1..(Len(v) + 1) /\ Len(v) + 1 \in 1..(Len(v) + 1)
    BY <2>1
  <2> QED  BY <2>2, KeyOfIs DEF Keys
<1>4. OfTurn(gen, s.cnt + 4) /\ (s.cnt + 2) + 2 = s.cnt + 4 /\ s.cnt + 2 \in Nat
  <2>1. s.cnt + 2 \in Nat /\ 1 \in Nat /\ (s.cnt + 2) + 2 * 1 = s.cnt + 4 /\ (s.cnt + 2) + 2 = s.cnt + 4
    BY <1>2
  <2>2. OfTurn(gen, (s.cnt + 2) + 2 * 1)
    BY <1>2, <2>1, TurnsDiffer
  <2> QED  BY <2>1, <2>2
<1>5. v[i].key \in BOOLEAN
  <2>1. v[i] \in Nodes
    BY ElementOfSeq
  <2> QED  BY <2>1 DEF Nodes
<1>6. \/ t.cnt = s.cnt
      \/ e = s.cnt + 2 /\ t.cnt = s.cnt + 2 /\ ~v[i].key
  BY <1>5 DEF NameOf
<1>7. t.cnt \in Nat /\ s.cnt <= t.cnt /\ OfTurn(gen, t.cnt + 2)
  BY <1>2, <1>4, <1>6
<1>8. e # View!None => GivenNow(v, i, s.cnt, t.cnt, e)
  <2> SUFFICES ASSUME e # View!None  PROVE GivenNow(v, i, s.cnt, t.cnt, e)
    OBVIOUS
  <2>1. CASE v[i].key
    <3>1. e = View!KeyOf(v, i)
      BY <2>1 DEF NameOf
    <3> QED  BY <1>3, <2>1, <3>1 DEF GivenNow
  <2>2. CASE ~v[i].key
    <3>1. e = s.cnt + 2 /\ t.cnt = e
      BY <2>2 DEF NameOf
    <3>2. OfTurn(gen, e) /\ s.cnt < e /\ Keys(v) <= e /\ e <= t.cnt
      BY <1>2, <3>1
    <3> QED  BY <3>2 DEF GivenNow
  <2> QED  BY <2>1, <2>2
<1>9. \A h \in 1..Len(ga) : h = 1 /\ e # View!None /\ ga[h].ntt = e
  <2>1. CASE Len(ga) = 0
    BY <2>1
  <2>2. CASE e # View!None /\ Len(ga) = 1 /\ ga[1].ntt = e
    <3>1. \A h \in 1..Len(ga) : h = 1
      BY <2>2
    <3> QED  BY <2>2, <3>1
  <2> QED  BY <1>1, <2>1, <2>2
<1>10. \A h \in 1..Len(ga) : GivenNow(v, i, s.cnt, t.cnt, ga[h].ntt)
  BY <1>8, <1>9
<1>11. \A h, j \in 1..Len(ga) : ga[h].ntt = ga[j].ntt => h = j
  BY <1>9
<1> DEFINE g == s.g0
           g2 == t.g0
           c == s.cnt
           c2 == t.cnt
<1>12. /\ g \in Seq(Entity) /\ Follows(g, ga, g2) /\ Ids(v, i - 1, g, c)
       /\ c2 \in Nat /\ c <= c2 /\ OfTurn(gen, c2 + 2)
       /\ \A h \in 1..Len(ga) : GivenNow(v, i, c, c2, ga[h].ntt)
  BY <1>1, <1>2, <1>7, <1>10
<1> HIDE DEF g, g2, c, c2
<1>13. Ids(v, i, g2, c2)
  BY <1>11, <1>12, IdsJoin
<1> QED  BY <1>13 DEF g2, c2

\* The element that is made is an entity if it has an identifier.
LEMMA CreateOne ==
  ASSUME NEW g \in Seq(Entity), NEW s \in Seq(Shown), NEW open \in Seq(Nat),
         NEW mk, Drawn(g, open, s, mk),
         NEW e \in Nat, NEW w, NEW g2, NEW open2, Noted(g, e, w, open, g2, open2),
         NEW s2 \in Seq(Shown), OneMore(s, e, w, Len(open) + 1, s2)
  PROVE  \E mk2 : Drawn(g2, open2, s2, mk2)
<1>1. PICK ga \in Seq(Entity), x \in Nat :
        /\ Follows(g, ga, g2) /\ open2 = Append(open, x)
        /\ \/ e = View!None /\ Len(ga) = 0 /\ x = 0
           \/ e # View!None /\ Len(ga) = 1 /\ ga[1].ntt = e /\ ga[1].hdl = w /\ x = Len(g) + 1
  BY Zenon DEF Noted
<1>2. PICK a \in Seq(Shown) : /\ Follows(s, a, s2) /\ Len(a) = 1
                              /\ a[1].id = e /\ a[1].what = w /\ a[1].depth = Len(open) + 1
  BY DEF OneMore
<1>3. \A j \in 1..Len(a) : j = 1
  BY <1>2
<1>4. Len(open) \in Nat
  BY LenProperties
<1>5. Hangs(a, Len(open))
  <2>1. \A j \in 1..Len(a) : a[j].depth > Len(open)
    <3>1. a[1].depth > Len(open)
      BY <1>2, <1>4
    <3> QED  BY <1>3, <3>1
  <2>2. Len(a) # 0
    BY <1>2
  <2> QED  BY <1>2, <2>1, <2>2 DEF Hangs
<1>6. OneMade(g, ga, a, x)
  BY <1>1, <1>2, Zenon DEF OneMade
<1>7. \E ma : Places(ga, a, ma)
  <2>0. 1 \in 1..Len(a)
    BY <1>2
  <2>1. CASE e = View!None /\ Len(ga) = 0
    <3> DEFINE ma == [h \in 1..Len(ga) |-> 1]
    <3>1. \A h \in 1..Len(ga) : FALSE
      BY <2>1
    <3>2. ma \in [1..Len(ga) -> 1..Len(a)]
      BY <2>0
    <3>3. \A j \in 1..Len(a) : a[j].id = View!None
      BY <1>2, <1>3, <2>1
    <3> HIDE DEF ma
    <3>4. Places(ga, a, ma)
      BY <3>1, <3>2, <3>3, Zenon DEF Places
    <3> QED  BY <3>4
  <2>2. CASE e # View!None /\ Len(ga) = 1 /\ ga[1].ntt = e /\ ga[1].hdl = w
    <3> DEFINE ma == [h \in 1..Len(ga) |-> 1]
    <3>1. \A h \in 1..Len(ga) : h = 1
      BY <2>2
    <3>2. ma \in [1..Len(ga) -> 1..Len(a)] /\ \A h \in 1..Len(ga) : ma[h] = 1
      BY <2>0
    <3>3. 1 \in 1..Len(ga)
      BY <2>2
    <3> HIDE DEF ma
    <3>4. \A y, z \in 1..Len(ga) : y < z => ma[y] < ma[z]
      <4> SUFFICES ASSUME NEW y \in 1..Len(ga), NEW z \in 1..Len(ga), y < z  PROVE FALSE
        OBVIOUS
      <4>1. y = 1 /\ z = 1
        BY <3>1
      <4> QED  BY <4>1
    <3>5. \A j \in 1..Len(a) : \E h \in 1..Len(ga) : ma[h] = j
      BY <1>3, <3>2, <3>3
    <3>6. \A h \in 1..Len(ga) : /\ a[ma[h]].id # View!None
                                /\ ga[h].ntt = a[ma[h]].id /\ ga[h].hdl = a[ma[h]].what
      BY <1>2, <2>2, <3>1, <3>2
    <3>7. Places(ga, a, ma)
      BY <3>2, <3>4, <3>5, <3>6, Zenon DEF Places
    <3> QED  BY <3>7
  <2> QED  BY <1>1, <2>1, <2>2, Zenon
<1>8. PICK ma : Places(ga, a, ma)
  BY <1>7
<1>9. Drawn(g2, Append(open, x), s2, PlacesOfBoth(g, ga, s, mk, ma))
  <2>1. Follows(g, ga, g2)
    BY <1>1, Zenon
  <2>2. Follows(s, a, s2)
    BY <1>2, Zenon
  <2> QED  BY <1>5, <1>6, <1>8, <2>1, <2>2, CreateDrawn, Zenon
<1>10. open2 = Append(open, x)
  BY <1>1, Zenon
<1> QED  BY <1>9, <1>10, Zenon

\* What is drawn stays one tree.
LEMMA OneTreeGrows ==
  ASSUME NEW s \in Seq(Shown), OneTree(s), NEW a \in Seq(Shown), NEW d \in Nat,
         NEW s2 \in Seq(Shown), Follows(s, a, s2), Hangs(a, d),
         Len(s) = 0 => Len(a) = 1 /\ d = 0, Len(s) # 0 => d # 0
  PROVE  OneTree(s2) /\ Len(s2) # 0
<1>1. /\ Len(s) \in Nat /\ Len(a) \in Nat /\ Len(s2) \in Nat
  BY LenProperties
<1>2. /\ Len(s2) = Len(s) + Len(a) /\ Len(a) # 0
      /\ \A j \in 1..Len(s) : s2[j] = s[j]
      /\ \A j \in 1..Len(a) : s2[Len(s) + j] = a[j]
      /\ a[1].depth = d + 1 /\ \A j \in 1..Len(a) : a[j].depth > d
  BY DEF Follows, Hangs
<1>3. \A j \in 1..Len(s2) : s2[j].depth >= 1 /\ (s2[j].depth = 1 <=> j = 1)
  <2> SUFFICES ASSUME NEW j \in 1..Len(s2)
               PROVE  s2[j].depth >= 1 /\ (s2[j].depth = 1 <=> j = 1)
    OBVIOUS
  <2>1. CASE j \in 1..Len(s)
    BY <1>2, <2>1 DEF OneTree
  <2>2. CASE j \notin 1..Len(s)
    <3> DEFINE l == j - Len(s)
    <3>1. l \in 1..Len(a) /\ Len(s) + l = j
      BY <1>1, <1>2, <2>2
    <3> HIDE DEF l
    <3>2. s2[j].depth = a[l].depth /\ a[l] \in Shown
      BY <1>2, <3>1, ElementOfSeq
    <3>3. a[l].depth \in Nat /\ a[l].depth > d
      BY <1>2, <3>1, <3>2 DEF Shown
    <3>4. CASE Len(s) = 0
      <4>1. l = 1 /\ j = 1 /\ d = 0
        <5> DEFINE c == Len(a)
                   b == Len(s)
        <5> HIDE DEF b, c
        <5>1. c = 1 /\ d = 0 /\ b = 0
          BY <3>4, Zenon DEF b, c
        <5>2. l \in 1..c /\ b + l = j
          BY <3>1 DEF b, c
        <5> QED  BY <5>1, <5>2
      <4>2. a[l].depth = 1
        BY <1>2, <4>1
      <4> QED  BY <3>2, <4>1, <4>2
    <3>5. CASE Len(s) # 0
      <4>1. j # 1 /\ d # 0
        BY <1>1, <2>2, <3>1, <3>5
      <4> QED  BY <3>2, <3>3, <4>1
    <3> QED  BY <3>4, <3>5
  <2> QED  BY <2>1, <2>2
<1>4. Len(s2) # 0
  BY <1>1, <1>2
<1> QED  BY <1>3, <1>4 DEF OneTree

\* A node that is made.
LEMMA CreateSim ==
  ASSUME gen \in Nat, NEW v \in Seq(Nodes), NEW i \in 1..Len(v),
         NEW s, Sim(v, i - 1, s), InStep(s),
         v[i].old = View!None, Len(s.open) = v[i].depth - 1, v[i].depth = 1 <=> i = 1
  PROVE  LET t == View!Created(s, v[i], i, View!KeyOf(v, i))
         IN Sim(v, i, t) /\ InStep(t) /\ Len(t.open) = v[i].depth
<1> DEFINE key == View!KeyOf(v, i)
           n == v[i]
           e == NameOf(s, n, key)
           w == View!What(n, i)
           t == View!Created(s, n, i, key)
           m == View!Run(s.prog)
           r == View!Run(t.prog)
<1>1. /\ s \in Written /\ m \in Machine /\ Ids(v, i - 1, s.g0, s.cnt)
      /\ ~m.bad => /\ \E mk : Drawn(s.g0, s.open, m.out, mk)
                   /\ OneTree(m.out) /\ (Len(m.out) = 0 <=> i - 1 = 0)
                   /\ Remains(v, i - 1, m.old)
      /\ View!Proper(v) => ~m.bad
  BY DEF Sim
<1>2. ~m.bad => m.d = Len(s.open)
  BY DEF InStep
<1>3. /\ s.g0 \in Seq(Entity) /\ s.open \in Seq(Nat) /\ s.prog \in Seq(Instr)
      /\ s.cnt + 2 \in Nat
  BY <1>1 DEF Written, Ids
<1>4. /\ Len(s.open) \in Nat /\ Len(v) \in Nat /\ n \in Nodes /\ i \in Nat
  BY <1>3, LenProperties, ElementOfSeq
<1>5. key \in Nat
  <2>1. i \in 1..(Len(v) + 1)
    BY <1>4
  <2> QED  BY <2>1, KeyOfIs
<1>6. /\ e \in Nat /\ w \in Nat \X Nat /\ t \in Written
      /\ t.prog = Making(s.prog, w, e)
      /\ t.cnt = IF e # View!None /\ ~n.key THEN e ELSE s.cnt
      /\ Noted(s.g0, e, w, s.open, t.g0, t.open)
  <2> HIDE DEF key, n
  <2> QED  BY <1>1, <1>3, <1>4, <1>5, CreateWrites
<1>7. Ids(v, i, t.g0, t.cnt)
  <2>1. e = NameOf(s, v[i], View!KeyOf(v, i))
    OBVIOUS
  <2> HIDE DEF e, w, t
  <2> QED  BY <1>1, <1>6, <2>1, CreateIds
<1>8. Len(t.open) = v[i].depth
  <2>1. PICK x \in Nat : t.open = Append(s.open, x)
    BY <1>6 DEF Noted
  <2>2. Len(t.open) = Len(s.open) + 1
    BY <1>3, <2>1, AppendProperties
  <2>3. v[i].depth \in Nat
    BY <1>4 DEF Nodes
  <2> QED  BY <1>4, <2>2, <2>3
<1>9. /\ m.bad => r \in Machine /\ r.bad
      /\ ~m.bad => /\ r \in Machine /\ ~r.bad /\ r.d = m.d + 1 /\ r.old = m.old
                   /\ OneMore(m.out, e, w, m.d + 1, r.out)
  <2>1. LET m1 == View!Run(s.prog)
            x == View!Run(Making(s.prog, w, e))
        IN /\ Making(s.prog, w, e) \in Seq(Instr)
           /\ m1.bad => x \in Machine /\ x.bad
           /\ ~m1.bad /\ m1.d \in Nat =>
                /\ x \in Machine /\ ~x.bad /\ x.d = m1.d + 1 /\ x.old = m1.old
                /\ OneMore(m1.out, e, w, m1.d + 1, x.out)
    <3> HIDE DEF e, w
    <3> QED  BY <1>1, <1>3, <1>6, CreateRun, Zenon DEF m
  <2>2. ~m.bad => m.d \in Nat
    BY <1>2, <1>4
  <2>3. r = View!Run(Making(s.prog, w, e))
    BY <1>6
  <2> HIDE DEF e, w, t
  <2> QED  BY <2>1, <2>2, <2>3, Zenon DEF m
<1> HIDE DEF e, w, t, m, r, n, key
<1>10. r \in Machine /\ (r.bad <=> m.bad)
  BY <1>9
<1>11. ASSUME ~r.bad
       PROVE  /\ \E mk : Drawn(t.g0, t.open, r.out, mk)
              /\ OneTree(r.out) /\ (Len(r.out) = 0 <=> i = 0)
              /\ Remains(v, i, r.old) /\ r.d = Len(t.open)
  <2>1. /\ ~m.bad /\ m.d = Len(s.open) /\ r.d = m.d + 1 /\ r.old = m.old
        /\ OneMore(m.out, e, w, Len(s.open) + 1, r.out)
    BY <1>2, <1>9, <1>10, <1>11
  <2>2. m.out \in Seq(Shown) /\ r.out \in Seq(Shown)
    BY <1>1, <1>10 DEF Machine
  <2>3. PICK mk : Drawn(s.g0, s.open, m.out, mk)
    BY <1>1, <2>1
  <2>4. \E mk2 : Drawn(t.g0, t.open, r.out, mk2)
    BY <1>3, <1>6, <2>1, <2>2, <2>3, CreateOne
  <2>5. OneTree(r.out) /\ Len(r.out) # 0
    <3>1. PICK a \in Seq(Shown) : /\ Follows(m.out, a, r.out) /\ Len(a) = 1
                                  /\ a[1].depth = Len(s.open) + 1
      BY <2>1 DEF OneMore
    <3>2. Hangs(a, Len(s.open))
      <4>1. \A j \in 1..Len(a) : j = 1
        BY <3>1
      <4>2. a[1].depth > Len(s.open)
        BY <1>4, <3>1
      <4>3. Len(a) # 0
        BY <3>1
      <4> QED  BY <3>1, <4>1, <4>2, <4>3 DEF Hangs
    <3>3. OneTree(m.out) /\ (Len(m.out) = 0 <=> i = 1)
      BY <1>1, <1>4, <2>1
    <3>4. Len(s.open) = 0 <=> i = 1
      <4>1. v[i].depth \in Nat
        BY <1>4 DEF Nodes, n
      <4> QED  BY <4>1
    <3>5. (Len(m.out) = 0 => Len(a) = 1 /\ Len(s.open) = 0) /\ (Len(m.out) # 0 => Len(s.open) # 0)
      BY <3>1, <3>3, <3>4, Zenon
    <3>6. Follows(m.out, a, r.out)
      BY <3>1, Zenon
    <3> DEFINE d == Len(s.open)
    <3> HIDE DEF d
    <3>7. d \in Nat /\ Hangs(a, d) /\ (Len(m.out) = 0 => Len(a) = 1 /\ d = 0) /\ (Len(m.out) # 0 => d # 0)
      BY <1>4, <3>2, <3>5, Zenon DEF d
    <3>8. OneTree(m.out)
      BY <3>3, Zenon
    <3> QED  BY <2>2, <3>6, <3>7, <3>8, OneTreeGrows
  <2>6. Remains(v, i, r.old)
    <3>1. \A y : Gone(v, i, y) <=> Gone(v, i - 1, y)
      <4>1. \A j \in 1..i : j \in 1..(i - 1) \/ j = i
        BY <1>4
      <4>2. \A j \in 1..(i - 1) : j \in 1..i
        BY <1>4
      <4> QED  BY <4>1, <4>2 DEF Gone
    <3>2. PICK p : /\ Left(dom, m.old, p)
                   /\ \A y \in 1..Len(dom) : IsLeft(m.old, p, y) <=> ~Gone(v, i - 1, y)
      BY <1>1, <2>1 DEF Remains
    <3>3. \A y \in 1..Len(dom) : IsLeft(m.old, p, y) <=> ~Gone(v, i, y)
      BY <3>1, <3>2
    <3>4. Remains(v, i, m.old)
      BY <3>2, <3>3 DEF Remains
    <3> QED  BY <2>1, <3>4
  <2>7. r.d = Len(t.open)
    <3>1. v[i].depth \in Nat
      BY <1>4 DEF Nodes, n
    <3> QED  BY <1>8, <2>1, <3>1
  <2> QED  BY <1>4, <2>4, <2>5, <2>6, <2>7
<1>12. Sim(v, i, t)
  BY <1>1, <1>6, <1>7, <1>10, <1>11 DEF Sim, r
<1>13. InStep(t)
  BY <1>11 DEF InStep, r
<1> QED  BY <1>8, <1>12, <1>13 DEF t, n, key

\* The copies of the entities of a part have identifiers of their own.
LEMMA ReuseIds ==
  ASSUME gen \in Nat, NEW v \in Seq(Nodes), NEW i \in 1..Len(v), v[i].key,
         NEW g \in Seq(Entity), NEW cnt, Ids(v, i - 1, g, cnt),
         NEW k, k # 0 => g1[k].scp \in Nat \ {0},
         NEW ga, NEW more, Copied(k, View!KeyOf(v, i), cnt, ga, more),
         NEW g2, Follows(g, ga, g2),
         NEW cnt2, cnt2 = IF k = 0 THEN cnt ELSE cnt + 2 * (g1[k].scp - 1)
  PROVE  /\ Ids(v, i, g2, cnt2)
         /\ \A h \in 1..Len(ga) : OfTurn(gen, ga[h].ntt)
<1> DEFINE e == View!KeyOf(v, i)
           c == Much(k)
<1>1. /\ cnt \in Nat /\ OfTurn(gen, cnt + 2) /\ Keys(v) <= cnt + 2
  BY DEF Ids
<1>2. OfTurn(gen, e) /\ e \in Nat /\ Keys(v) \in Nat /\ e + 2 <= Keys(v)
  <2>1. Len(v) \in Nat
    BY LenProperties
  <2>2. i \in 1..(Len(v) + 1) /\ Len(v) + 1 \in 1..(Len(v) + 1) /\ i + 1 \in 1..(Len(v) + 1)
    BY <2>1
  <2>3. /\ OfTurn(gen, e) /\ e \in Nat /\ Keys(v) \in Nat
        /\ View!KeyOf(v, i + 1) <= Keys(v) /\ View!KeyOf(v, i + 1) = e + 2
    BY <2>2, KeyOfIs DEF Keys
  <2> QED  BY <2>3
<1>3. /\ ga \in Seq(Entity) /\ Len(ga) = c /\ c \in Nat
      /\ \A h \in 1..c : ga[h].ntt = IF h = 1 THEN e ELSE cnt + 2 * (h - 1)
  <2>1. /\ ga \in Seq(Entity) /\ Len(ga) = c
        /\ \A h \in 1..c : ga[h].ntt = IF h = 1 THEN e ELSE cnt + 2 * (h - 1)
    BY DEF Copied
  <2>2. Len(ga) \in Nat
    BY <2>1, LenProperties
  <2> QED  BY <2>1, <2>2
<1>4. cnt2 = IF c = 0 THEN cnt ELSE cnt + 2 * (c - 1)
  BY DEF Much
<1> HIDE DEF c, e
<1>5. \A l \in Nat : OfTurn(gen, cnt + 2 + 2 * l)
  <2> DEFINE b == cnt + 2
  <2>1. b \in Nat /\ OfTurn(gen, b)
    BY <1>1
  <2> HIDE DEF b
  <2>2. \A l \in Nat : OfTurn(gen, b + 2 * l)
    BY <2>1, TurnsDiffer
  <2> QED  BY <2>2 DEF b
<1>6. cnt2 \in Nat /\ cnt <= cnt2 /\ OfTurn(gen, cnt2 + 2)
  <2>1. CASE c = 0
    <3>1. cnt2 = cnt
      BY <1>4, <2>1
    <3>2. cnt \in Nat /\ cnt <= cnt /\ OfTurn(gen, cnt + 2)
      BY <1>1
    <3> QED  BY <3>1, <3>2, Zenon
  <2>2. CASE c # 0
    <3>1. cnt2 = cnt + 2 * (c - 1) /\ c - 1 \in Nat
      BY <1>3, <1>4, <2>2
    <3>2. OfTurn(gen, cnt + 2 + 2 * (c - 1))
      BY <1>5, <3>1
    <3>3. cnt2 + 2 = cnt + 2 + 2 * (c - 1) /\ cnt2 \in Nat /\ cnt <= cnt2
      <4> DEFINE d == c - 1
      <4>1. d \in Nat /\ cnt \in Nat /\ cnt2 = cnt + 2 * d
        BY <1>1, <3>1
      <4> HIDE DEF d
      <4>2. cnt2 + 2 = cnt + 2 + 2 * d /\ cnt2 \in Nat /\ cnt <= cnt2
        <5>1. \A x, y \in Nat : /\ (x + 2 * y) + 2 = x + 2 + 2 * y
                                 /\ x + 2 * y \in Nat /\ x <= x + 2 * y
          OBVIOUS
        <5>2. /\ (cnt + 2 * d) + 2 = cnt + 2 + 2 * d
              /\ cnt + 2 * d \in Nat /\ cnt <= cnt + 2 * d
          BY <4>1, <5>1, Zenon
        <5> QED  BY <4>1, <5>2, Zenon
      <4> QED  BY <4>2 DEF d
    <3> QED  BY <3>2, <3>3
  <2> QED  BY <2>1, <2>2
<1>7. \A h \in 1..c : GivenNow(v, i, cnt, cnt2, ga[h].ntt)
  <2> SUFFICES ASSUME NEW h \in 1..c  PROVE GivenNow(v, i, cnt, cnt2, ga[h].ntt)
    OBVIOUS
  <2>1. CASE h = 1
    <3>1. ga[h].ntt = e
      BY <1>3, <2>1
    <3> QED  BY <1>2, <3>1 DEF GivenNow, e
  <2>2. CASE h # 1
    <3>1. ga[h].ntt = cnt + 2 * (h - 1) /\ h - 2 \in Nat /\ h <= c /\ c # 0
      BY <1>3, <2>2
    <3>2. OfTurn(gen, cnt + 2 + 2 * (h - 2))
      BY <1>5, <3>1
    <3>3. cnt + 2 + 2 * (h - 2) = cnt + 2 * (h - 1)
      BY <1>1
    <3>4. cnt2 = cnt + 2 * (c - 1)
      BY <1>4, <3>1
    <3> DEFINE x == ga[h].ntt
    <3>5. x = cnt + 2 * (h - 1)
      BY <3>1
    <3> HIDE DEF x
    <3>6. cnt < x /\ Keys(v) <= x /\ x <= cnt2
      <4> DEFINE l == Keys(v)
      <4>1. l \in Nat /\ l <= cnt + 2 /\ cnt \in Nat /\ h \in Nat /\ c \in Nat
        BY <1>1, <1>2, <1>3
      <4>2. h - 2 \in Nat /\ h <= c
        BY <3>1
      <4> HIDE DEF l
      <4>3. cnt < x /\ l <= x /\ x <= cnt2
        BY <3>4, <3>5, <4>1, <4>2
      <4> QED  BY <4>3 DEF l
    <3>7. OfTurn(gen, x)
      BY <3>2, <3>3, <3>5
    <3> QED  BY <3>6, <3>7 DEF GivenNow, x
  <2> QED  BY <2>1, <2>2
<1>8. \A h, j \in 1..c : ga[h].ntt = ga[j].ntt => h = j
  <2> SUFFICES ASSUME NEW h \in 1..c, NEW j \in 1..c, ga[h].ntt = ga[j].ntt
               PROVE  h = j
    OBVIOUS
  <2> DEFINE x == ga[h].ntt
             y == ga[j].ntt
  <2>1. /\ x = IF h = 1 THEN e ELSE cnt + 2 * (h - 1)
        /\ y = IF j = 1 THEN e ELSE cnt + 2 * (j - 1)
        /\ x = y
    BY <1>3
  <2> HIDE DEF x, y
  <2> QED  BY <1>1, <1>2, <1>3, <2>1
<1>9. Ids(v, i, g2, cnt2)
  BY <1>3, <1>6, <1>7, <1>8, IdsJoin
<1> QED  BY <1>3, <1>7, <1>9 DEF GivenNow

\* The new identifiers are not on the old page.
LEMMA NewIds ==
  ASSUME NEW mk, Matched(mk)
  PROVE  /\ \A e : OfTurn(gen, e) => e # View!None /\ \A x \in 1..Len(dom) : dom[x].id # e
         /\ \A v, i, g, cnt, out, mk2 :
              Ids(v, i, g, cnt) /\ Places(g, out, mk2) => Apart(out, dom)
<1>1. gen \in Nat /\ \A x \in 1..Len(dom) : dom[x].id # View!None => OfTurn(gen + 1, dom[x].id)
  BY DEF Matched
<1>2. \A e : OfTurn(gen, e) => e # View!None /\ ~OfTurn(gen + 1, e)
  BY <1>1, TurnsDiffer
<1>3. \A e : OfTurn(gen, e) => e # View!None /\ \A x \in 1..Len(dom) : dom[x].id # e
  BY <1>1, <1>2
<1>4. ASSUME NEW v, NEW i, NEW g, NEW cnt, NEW out, NEW mk2, Ids(v, i, g, cnt), Places(g, out, mk2)
      PROVE  Apart(out, dom)
  <2> SUFFICES ASSUME NEW x \in 1..Len(out), out[x].id # View!None
               PROVE  \A j \in 1..Len(dom) : out[x].id # dom[j].id
    BY DEF Apart
  <2>1. PICK h \in 1..Len(g) : mk2[h] = x
    BY <1>4 DEF Places
  <2>2. g[h].ntt = out[x].id
    BY <1>4, <2>1 DEF Places
  <2>3. OfTurn(gen, out[x].id)
    BY <1>4, <2>2 DEF Ids, Given
  <2> QED  BY <1>3, <2>3
<1> QED  BY <1>3, <1>4

\* What is left of the old page has no identifier that the page has not.
LEMMA LeftIds ==
  ASSUME NEW s \in Seq(Shown), NEW t \in Seq(Shown), NEW p, Left(s, t, p), NEW e,
         \A x \in 1..Len(s) : s[x].id # e
  PROVE  View!ById(t, e) = 0
<1>1. \A x \in 1..Len(t) : t[x].id # e
  BY DEF Left
<1>2. View!ById(t, e) \in 0..Len(t) /\ (View!ById(t, e) # 0 => t[View!ById(t, e)].id = e)
  BY ByIdIs
<1>3. Len(t) \in Nat
  BY LenProperties
<1> DEFINE b == View!ById(t, e)
<1> HIDE DEF b
<1>4. b \in 0..Len(t) /\ (b # 0 => t[b].id = e)
  BY <1>2 DEF b
<1>5. b = 0
  BY <1>1, <1>3, <1>4
<1> QED  BY <1>5 DEF b

\* The part of the k-th entity is gone with those that were.
LEMMA GoneWith ==
  ASSUME NEW mk, Matched(mk), NEW v \in Seq(Nodes), NEW i \in 1..Len(v),
         NEW k \in 1..Len(g1), v[i].old = g1[k].ntt, v[i].old # View!None
  PROVE  \A y : Gone(v, i, y) <=> Gone(v, i - 1, y) \/ Below(dom, mk[k], y)
<1>1. /\ mk[k] \in 1..Len(dom) /\ dom[mk[k]].id = v[i].old
      /\ \A z \in 1..Len(dom) : dom[z].id = v[i].old => z = mk[k]
  <2>1. Synced(dom, g1, mk)
    BY DEF Matched
  <2>2. mk[k] \in 1..Len(dom) /\ dom[mk[k]].id = v[i].old
    BY <2>1 DEF Synced, Places
  <2> QED  BY <2>1, <2>2 DEF Synced
<1>2. Len(v) \in Nat
  BY LenProperties
<1>3. /\ \A j \in 1..i : j \in 1..(i - 1) \/ j = i
      /\ \A j \in 1..(i - 1) : j \in 1..i
      /\ i \in 1..i
  BY <1>2
<1> QED  BY <1>1, <1>3 DEF Gone

\* A node that stands for a part of the old page.
LEMMA ReuseSim ==
  ASSUME NEW mk, Matched(mk), NEW v \in Seq(Nodes), NEW i \in 1..Len(v), i # 1,
         NEW s, Sim(v, i - 1, s), InStep(s), Len(s.open) # 0,
         v[i].old # View!None, v[i].old \in View!Entities, v[i].key
  PROVE  LET t == View!Reused(s, v[i].old, View!KeyOf(v, i))
         IN Sim(v, i, t) /\ InStep(t) /\ Len(t.open) = Len(s.open)
<1> DEFINE e == View!KeyOf(v, i)
           old == v[i].old
           t == View!Reused(s, old, e)
           m == View!Run(s.prog)
           r == View!Run(t.prog)
           k == View!Locate(old)
<1>1. /\ s \in Written /\ m \in Machine /\ Ids(v, i - 1, s.g0, s.cnt)
      /\ ~m.bad => /\ \E mk1 : Drawn(s.g0, s.open, m.out, mk1)
                   /\ OneTree(m.out) /\ (Len(m.out) = 0 <=> i - 1 = 0)
                   /\ Remains(v, i - 1, m.old)
      /\ View!Proper(v) => ~m.bad
  BY DEF Sim
<1>2. ~m.bad => m.d = Len(s.open)
  BY DEF InStep
<1>3. /\ s.g0 \in Seq(Entity) /\ s.open \in Seq(Nat) /\ s.prog \in Seq(Instr) /\ s.cnt \in Nat
  BY <1>1 DEF Written, Ids
<1>4. /\ dom \in Seq(Shown) /\ g1 \in Seq(Entity) /\ Synced(dom, g1, mk) /\ gen \in Nat
  BY DEF Matched
<1>5. /\ Len(s.open) \in Nat /\ Len(v) \in Nat /\ i \in Nat /\ Len(g1) \in Nat
  BY <1>3, <1>4, LenProperties
<1>6. e \in Nat /\ old \in Nat
  <2>1. i \in 1..(Len(v) + 1)
    BY <1>5
  <2>2. v[i] \in Nodes
    BY ElementOfSeq
  <2> QED  BY <1>4, <2>1, <2>2, KeyOfIs DEF Nodes
<1>7. /\ k # 0 => k \in 1..Len(g1) /\ g1[k].ntt = old /\ g1[k].scp \in 1..(Len(g1) - k + 1)
      /\ k = 0 => \A x \in 1..Len(dom) : dom[x].id # old
  BY LocateIs
<1>8. /\ t \in Written /\ t.open = s.open
      /\ t.cnt = IF k = 0 THEN s.cnt ELSE s.cnt + 2 * (g1[k].scp - 1)
      /\ \E ga, more : /\ Copied(k, e, s.cnt, ga, more)
                       /\ t.g0 = s.g0 \o ga
                       /\ t.prog = s.prog \o <<[op |-> "reuse", e |-> old]>> \o more
  <2>1. k # 0 => k \in 1..Len(g1) /\ g1[k].scp \in 1..(Len(g1) - k + 1)
    BY <1>7
  <2> HIDE DEF e, old
  <2> QED  BY <1>1, <1>3, <1>4, <1>6, <2>1, ReuseWrites
<1>9. PICK ga, more : /\ Copied(k, e, s.cnt, ga, more)
                      /\ t.g0 = s.g0 \o ga
                      /\ t.prog = Taking(s.prog, old, more)
  <2> HIDE DEF t, k, e, old
  <2> QED  BY <1>8, Zenon DEF Taking
<1>10. /\ ga \in Seq(Entity) /\ more \in Seq(Instr) /\ Len(ga) = Much(k)
  BY <1>9 DEF Copied
<1>11. Follows(s.g0, ga, t.g0)
  BY <1>3, <1>9, <1>10, ConcatFollows
<1>12. t.g0 \in Seq(Entity)
  BY <1>8 DEF Written
<1> HIDE DEF t, k, e, old
<1>13. Ids(v, i, t.g0, t.cnt) /\ \A h \in 1..Len(ga) : OfTurn(gen, ga[h].ntt)
  <2>1. k # 0 => g1[k].scp \in Nat \ {0}
    BY <1>5, <1>7
  <2>2. Copied(k, View!KeyOf(v, i), s.cnt, ga, more)
    BY <1>9 DEF e
  <2> DEFINE g == s.g0
             g2 == t.g0
             c == s.cnt
             c2 == t.cnt
  <2>3. /\ g \in Seq(Entity) /\ Ids(v, i - 1, g, c) /\ Copied(k, View!KeyOf(v, i), c, ga, more)
        /\ Follows(g, ga, g2) /\ c2 = IF k = 0 THEN c ELSE c + 2 * (g1[k].scp - 1)
    BY <1>1, <1>3, <1>8, <1>11, <2>2
  <2> HIDE DEF g, g2, c, c2
  <2>4. Ids(v, i, g2, c2) /\ \A h \in 1..Len(ga) : OfTurn(gen, ga[h].ntt)
    BY <1>4, <2>1, <2>3, ReuseIds
  <2> QED  BY <2>4 DEF g2, c2
<1>14. r = View!Run(Taking(s.prog, old, more))
  BY <1>9
<1> HIDE DEF m, r
<1>15. ASSUME m.bad  PROVE r \in Machine /\ r.bad
  BY <1>1, <1>3, <1>6, <1>10, <1>14, <1>15, TakingThrows DEF m
<1>16. ASSUME ~m.bad  PROVE m.d \in Nat /\ m.d = Len(s.open)
  BY <1>2, <1>5, <1>16
<1>17. ASSUME ~m.bad, k = 0  PROVE r \in Machine /\ r.bad
  <2>1. PICK p : Left(dom, m.old, p)
    BY <1>1, <1>17 DEF Remains
  <2>2. m.old \in Seq(Shown)
    BY <1>1 DEF Machine
  <2>3. View!ById(m.old, old) = 0
    BY <1>4, <1>7, <1>17, <2>1, <2>2, LeftIds
  <2> QED  BY <1>1, <1>3, <1>6, <1>10, <1>14, <1>16, <1>17, <2>3, TakingThrows DEF m
<1>18. k = 0 => ~View!Proper(v)
  <2> SUFFICES ASSUME k = 0, View!Proper(v)  PROVE FALSE
    OBVIOUS
  <2>1. \E z \in 1..Len(dom) : dom[z].id = v[i].old
    BY ProperIs
  <2> QED  BY <1>7, <2>1 DEF old
<1>19. ASSUME ~m.bad, k # 0
       PROVE  /\ r \in Machine
              /\ View!Proper(v) => ~r.bad
              /\ ~r.bad => /\ \E mk1 : Drawn(t.g0, t.open, r.out, mk1)
                           /\ OneTree(r.out) /\ (Len(r.out) = 0 <=> i = 0)
                           /\ Remains(v, i, r.old) /\ r.d = Len(t.open)
  <2>1. k \in 1..Len(g1) /\ g1[k].ntt = old /\ g1[k].scp \in 1..(Len(g1) - k + 1)
    BY <1>7, <1>19
  <2>2. PICK p : /\ Left(dom, m.old, p)
                 /\ \A y \in 1..Len(dom) : IsLeft(m.old, p, y) <=> ~Gone(v, i - 1, y)
    BY <1>1, <1>19 DEF Remains
  <2>3. PICK mk1 : Drawn(s.g0, s.open, m.out, mk1)
    BY <1>1, <1>19
  <2>4. Apart(m.out, dom)
    <3>1. Places(s.g0, m.out, mk1)
      BY <2>3 DEF Drawn
    <3> QED  BY <1>1, <3>1, NewIds
  <2>5. Renews(dom, g1, k, ga)
    <3>1. Len(ga) = g1[k].scp
      BY <1>10, <1>19 DEF Much
    <3>2. \A h \in 1..Len(ga) : ga[h].scp = g1[k + h - 1].scp /\ ga[h].hdl = g1[k + h - 1].hdl
      BY <1>9, <1>10 DEF Copied
    <3>3. \A h \in 1..Len(ga) : ga[h].ntt # View!None /\ \A j \in 1..Len(dom) : ga[h].ntt # dom[j].id
      BY <1>13, NewIds
    <3> QED  BY <3>1, <3>2, <3>3 DEF Renews
  <2>6. Taken(dom, mk, m, p, k, ga, r)
    <3>1. ~m.bad /\ m.d \in Nat /\ Left(dom, m.old, p) /\ Apart(m.out, dom)
      BY <1>16, <1>19, <2>2, <2>4
    <3>2. r = View!Run(Taking(s.prog, g1[k].ntt, more))
      BY <1>14, <2>1
    <3>3. Taken(dom, mk, View!Run(s.prog), p, k, ga, View!Run(Taking(s.prog, g1[k].ntt, more)))
      BY <1>1, <1>3, <1>4, <1>9, <2>1, <2>5, <3>1, TakingTakes DEF m
    <3> QED  BY <3>2, <3>3 DEF m
  <2>7. /\ r \in Machine
        /\ ~r.bad <=> \A h \in 1..Len(ga) : IsLeft(m.old, p, mk[k + h - 1])
        /\ ~r.bad =>
             /\ r.d = m.d
             /\ \E a \in Seq(Shown) : \E ma :
                  /\ Follows(m.out, a, r.out) /\ Hangs(a, m.d)
                  /\ Places(ga, a, ma) /\ \A h \in 1..Len(ga) : Scoped(ga, a, ma, h)
             /\ \E q : /\ Left(dom, r.old, q)
                       /\ \A y \in 1..Len(dom) : IsLeft(r.old, q, y) <=>
                            IsLeft(m.old, p, y) /\ ~Below(dom, mk[k], y)
    BY <2>6, Zenon DEF Taken
  <2>8. \A y : Gone(v, i, y) <=> Gone(v, i - 1, y) \/ Below(dom, mk[k], y)
    BY <2>1, GoneWith DEF old
  <2>9. ASSUME View!Proper(v)  PROVE ~r.bad
    <3> SUFFICES ASSUME NEW h \in 1..Len(ga)  PROVE IsLeft(m.old, p, mk[k + h - 1])
      BY <2>7
    <3>1. /\ k + h - 1 \in 1..Len(g1) /\ k <= k + h - 1 /\ k + h - 1 < k + g1[k].scp
      <4>1. h \in 1..g1[k].scp
        BY <1>10, <1>19 DEF Much
      <4> QED  BY <1>5, <2>1, <4>1
    <3>2. /\ mk[k] \in 1..Len(dom) /\ mk[k + h - 1] \in 1..Len(dom) /\ dom[mk[k]].id = v[i].old
      BY <1>4, <2>1, <3>1 DEF Synced, Places, old
    <3>3. Below(dom, mk[k], mk[k + h - 1])
      BY <1>4, <2>1, <3>1 DEF Synced, Scoped
    <3>4. ~Gone(v, i - 1, mk[k + h - 1])
      BY <2>9, <3>2, <3>3, ProperIs
    <3> QED  BY <2>2, <3>2, <3>4
  <2>10. ASSUME ~r.bad
         PROVE  /\ \E mk2 : Drawn(t.g0, t.open, r.out, mk2)
                /\ OneTree(r.out) /\ (Len(r.out) = 0 <=> i = 0)
                /\ Remains(v, i, r.old) /\ r.d = Len(t.open)
    <3>1. PICK a \in Seq(Shown) : \E ma :
            /\ Follows(m.out, a, r.out) /\ Hangs(a, m.d)
            /\ Places(ga, a, ma) /\ \A h \in 1..Len(ga) : Scoped(ga, a, ma, h)
      BY <2>7, <2>10
    <3>2. PICK ma : /\ Follows(m.out, a, r.out) /\ Hangs(a, m.d)
                    /\ Places(ga, a, ma) /\ \A h \in 1..Len(ga) : Scoped(ga, a, ma, h)
      BY <3>1
    <3>3. m.out \in Seq(Shown) /\ r.out \in Seq(Shown)
      BY <1>1, <2>7 DEF Machine
    <3>4. Hangs(a, Len(s.open))
      BY <1>16, <1>19, <3>2
    <3>5. Drawn(t.g0, s.open, r.out, PlacesOfBoth(s.g0, ga, m.out, mk1, ma))
      BY <1>3, <1>10, <1>11, <2>3, <3>2, <3>3, <3>4, ReuseDrawn
    <3>6. Drawn(t.g0, t.open, r.out, PlacesOfBoth(s.g0, ga, m.out, mk1, ma))
      BY <1>8, <3>5
    <3>7. OneTree(r.out) /\ Len(r.out) # 0
      <4>1. OneTree(m.out) /\ Len(m.out) # 0
        BY <1>1, <1>5, <1>19
      <4>2. Len(s.open) \in Nat /\ Len(s.open) # 0 /\ Follows(m.out, a, r.out)
        BY <1>5, <3>2
      <4> DEFINE d == Len(s.open)
      <4> HIDE DEF d
      <4>3. d \in Nat /\ d # 0 /\ Hangs(a, d)
        BY <3>4, <4>2 DEF d
      <4> QED  BY <3>3, <4>1, <4>2, <4>3, OneTreeGrows
    <3>8. Remains(v, i, r.old)
      <4>1. PICK q : /\ Left(dom, r.old, q)
                     /\ \A y \in 1..Len(dom) : IsLeft(r.old, q, y) <=>
                          IsLeft(m.old, p, y) /\ ~Below(dom, mk[k], y)
        BY <2>7, <2>10
      <4>2. \A y \in 1..Len(dom) : IsLeft(r.old, q, y) <=> ~Gone(v, i, y)
        BY <2>2, <2>8, <4>1
      <4> QED  BY <4>1, <4>2 DEF Remains
    <3>9. r.d = Len(t.open)
      BY <1>8, <1>16, <1>19, <2>7, <2>10
    <3> QED  BY <1>5, <3>6, <3>7, <3>8, <3>9
  <2> QED  BY <2>7, <2>9, <2>10
<1>20. /\ r \in Machine
       /\ View!Proper(v) => ~r.bad
       /\ ~r.bad => /\ \E mk1 : Drawn(t.g0, t.open, r.out, mk1)
                    /\ OneTree(r.out) /\ (Len(r.out) = 0 <=> i = 0)
                    /\ Remains(v, i, r.old) /\ r.d = Len(t.open)
  BY <1>1, <1>15, <1>17, <1>18, <1>19
<1>21. Sim(v, i, t) /\ InStep(t)
  BY <1>8, <1>13, <1>20 DEF Sim, InStep, r
<1> QED  BY <1>8, <1>21 DEF t, old, e

\* What the engine is given to draw.
Drawable(v) ==
  /\ v \in Seq(Nodes) /\ Len(v) # 0
  /\ \A i \in 1..Len(v) : /\ v[i].depth = 1 <=> i = 1
                          /\ i = 1 => v[i].old = View!None
                          /\ v[i].old \in View!Entities
                          /\ v[i].old # View!None => v[i].key
  /\ \A i \in 2..Len(v) : v[i].depth <= IF v[i - 1].old = View!None THEN v[i - 1].depth + 1
                                                                     ELSE v[i - 1].depth

\* the elements that are open after the i-th node
OpenAt(v, i) ==
  IF i = 0 THEN 0 ELSE IF v[i].old = View!None THEN v[i].depth ELSE v[i].depth - 1

\* One more node.
LEMMA VisitSim ==
  ASSUME NEW mk, Matched(mk), NEW v, Drawable(v), NEW i \in 1..Len(v),
         NEW s, Sim(v, i - 1, s), InStep(s), Len(s.open) = OpenAt(v, i - 1)
  PROVE  LET t == View!Visit(s, v, i)
         IN Sim(v, i, t) /\ InStep(t) /\ Len(t.open) = OpenAt(v, i)
<1> DEFINE d == v[i].depth - 1
           x == View!CloseTo(s, d)
           t == View!Visit(s, v, i)
<1>1. /\ v \in Seq(Nodes) /\ Len(v) \in Nat /\ gen \in Nat
      /\ v[i].depth = 1 <=> i = 1
      /\ i = 1 => v[i].old = View!None
      /\ v[i].old \in View!Entities
      /\ v[i].old # View!None => v[i].key
  <2>1. v \in Seq(Nodes) /\ gen \in Nat
    BY DEF Drawable, Matched
  <2> QED  BY <2>1, LenProperties DEF Drawable
<1>2. \A j \in 1..Len(v) : v[j].depth \in Nat \ {0}
  <2> SUFFICES ASSUME NEW j \in 1..Len(v)  PROVE v[j].depth \in Nat \ {0}
    OBVIOUS
  <2>1. v[j] \in Nodes
    BY <1>1, ElementOfSeq
  <2> QED  BY <2>1 DEF Nodes
<1>3. d \in 0..Len(s.open) /\ d \in Nat /\ d + 1 = v[i].depth
  <2>1. d \in Nat /\ d + 1 = v[i].depth
    BY <1>2
  <2>2. CASE i = 1
    <3>1. d = 0 /\ Len(s.open) = 0
      BY <1>1, <2>2 DEF OpenAt
    <3> QED  BY <2>1, <3>1
  <2>3. CASE i # 1
    <3> DEFINE j == i - 1
    <3>1. j \in 1..Len(v) /\ j # 0 /\ i \in 2..Len(v)
      BY <1>1, <2>3
    <3>2. v[i].depth <= IF v[j].old = View!None THEN v[j].depth + 1 ELSE v[j].depth
      BY <3>1 DEF Drawable
    <3>3. Len(s.open) = IF v[j].old = View!None THEN v[j].depth ELSE v[j].depth - 1
      BY <3>1 DEF OpenAt
    <3> HIDE DEF j, d
    <3>4. v[j].depth \in Nat \ {0} /\ v[i].depth \in Nat
      BY <1>2, <3>1
    <3>5. Len(s.open) \in Nat /\ d <= Len(s.open)
      BY <2>1, <3>2, <3>3, <3>4, SMTT(60)
    <3> QED  BY <2>1, <3>5
  <2> QED  BY <2>2, <2>3
<1>4. d # 0 \/ Len(s.open) = 0
  <2>1. CASE i = 1
    BY <2>1 DEF OpenAt
  <2>2. CASE i # 1
    BY <1>1, <1>3, <2>2
  <2> QED  BY <2>1, <2>2
<1>5. Sim(v, i - 1, x) /\ InStep(x) /\ Len(x.open) = d
  <2> DEFINE l == i - 1
  <2>1. Sim(v, l, s)
    OBVIOUS
  <2> HIDE DEF d, l
  <2>2. /\ Sim(v, l, View!CloseTo(s, d)) /\ Len(View!CloseTo(s, d).open) = d
        /\ d # 0 \/ Len(s.open) = 0 => InStep(View!CloseTo(s, d))
    BY <1>3, <2>1, CloseSim
  <2> QED  BY <1>4, <2>2 DEF l
<1>6. t = IF v[i].old # View!None THEN View!Reused(x, v[i].old, View!KeyOf(v, i))
                                  ELSE View!Created(x, v[i], i, View!KeyOf(v, i))
  BY DEF View!Visit
<1> HIDE DEF x, t, d
<1>7. CASE v[i].old = View!None
  <2>1. Len(x.open) = v[i].depth - 1
    BY <1>2, <1>3, <1>5
  <2>2. LET y == View!Created(x, v[i], i, View!KeyOf(v, i))
        IN Sim(v, i, y) /\ InStep(y) /\ Len(y.open) = v[i].depth
    BY <1>1, <1>5, <1>7, <2>1, CreateSim
  <2>3. OpenAt(v, i) = v[i].depth
    BY <1>1, <1>7 DEF OpenAt
  <2> QED  BY <1>6, <1>7, <2>2, <2>3 DEF t
<1>8. CASE v[i].old # View!None
  <2>1. i # 1 /\ Len(x.open) # 0
    BY <1>1, <1>3, <1>5, <1>8
  <2>2. LET y == View!Reused(x, v[i].old, View!KeyOf(v, i))
        IN Sim(v, i, y) /\ InStep(y) /\ Len(y.open) = Len(x.open)
    BY <1>1, <1>5, <1>8, <2>1, ReuseSim
  <2>3. OpenAt(v, i) = Len(x.open)
    BY <1>1, <1>2, <1>3, <1>5, <1>8 DEF OpenAt
  <2> QED  BY <1>6, <1>8, <2>2, <2>3 DEF t
<1> QED  BY <1>7, <1>8

\* Before the first node nothing is drawn, and all of the old page is left.
LEMMA StartSim ==
  ASSUME NEW mk, Matched(mk), NEW v, Drawable(v)
  PROVE  Sim(v, 0, Start(v)) /\ InStep(Start(v)) /\ Len(Start(v).open) = 0
<1> DEFINE s == Start(v)
           m == View!Run(s.prog)
<1>1. /\ v \in Seq(Nodes) /\ gen \in Nat /\ dom \in Seq(Shown)
  BY DEF Drawable, Matched
<1>2. s \in Written /\ Ids(v, 0, s.g0, s.cnt)
  BY <1>1, StartIds
<1>3. s.g0 = <<>> /\ s.prog = <<>> /\ s.open = <<>>
  BY DEF Start
<1>4. m = Begin
  <2> DEFINE p == <<>>
  <2>1. p \in Seq(Instr) /\ Len(p) = 0
    OBVIOUS
  <2> HIDE DEF p
  <2>2. PICK f : /\ f[0] = Begin /\ f[Len(p)] = View!Run(p)
                 /\ \A k \in 1..Len(p) : f[k] = View!Exec(f[k - 1], p[k])
    BY <2>1, RunIs
  <2>3. View!Run(p) = Begin
    BY <2>1, <2>2
  <2> QED  BY <1>3, <2>3 DEF p
<1>5. /\ m \in Machine /\ ~m.bad /\ m.d = 0 /\ m.old = dom /\ m.out = <<>>
  BY <1>1, <1>4 DEF Begin, Machine
<1> HIDE DEF m, s
<1>6. Len(m.out) = 0 /\ Len(s.open) = 0 /\ Len(s.g0) = 0
  BY <1>3, <1>5
<1>7. \A x \in 1..0 : FALSE
  OBVIOUS
<1>8. Drawn(s.g0, s.open, m.out, <<>>)
  <2> DEFINE g == s.g0
             o == m.out
             op == s.open
             e == <<>>
  <2>1. Len(g) = 0 /\ Len(o) = 0 /\ Len(op) = 0
    BY <1>6
  <2>2. e \in [1..0 -> 1..0]
    <3>1. e \in Seq(1..0) /\ Len(e) = 0
      OBVIOUS
    <3> HIDE DEF e
    <3>2. e \in [1..Len(e) -> 1..0]
      BY <3>1, LenProperties
    <3> QED  BY <3>1, <3>2
  <2> HIDE DEF g, o, op, e
  <2>3. Places(g, o, e)
    BY <1>7, <2>1, <2>2, Zenon DEF Places
  <2>4. Drawn(g, op, o, e)
    BY <1>7, <2>1, <2>3, Zenon DEF Drawn
  <2> QED  BY <2>4 DEF g, o, op, e
<1>9. OneTree(m.out)
  BY <1>6, <1>7, Zenon DEF OneTree
<1>10. Remains(v, 0, m.old)
  <2> DEFINE p == [x \in 1..Len(dom) |-> x]
  <2>1. Len(dom) \in Nat
    BY <1>1, LenProperties
  <2>2. Left(dom, dom, p)
    BY <2>1 DEF Left
  <2>3. \A y \in 1..Len(dom) : IsLeft(dom, p, y)
    BY DEF IsLeft
  <2>4. \A y : ~Gone(v, 0, y)
    BY DEF Gone
  <2> HIDE DEF p
  <2>5. Remains(v, 0, dom)
    BY <2>2, <2>3, <2>4 DEF Remains
  <2> QED  BY <1>5, <2>5
<1>11. Sim(v, 0, s)
  BY <1>2, <1>5, <1>6, <1>8, <1>9, <1>10 DEF Sim, m
<1>12. InStep(s)
  BY <1>5, <1>6 DEF InStep, m
<1> QED  BY <1>6, <1>11, <1>12 DEF s

\* The whole view.
LEMMA SerializeSim ==
  ASSUME NEW mk, Matched(mk), NEW v, Drawable(v)
  PROVE  LET s == View!Serialize(v)
         IN Sim(v, Len(v), s) /\ Len(s.open) = 0
<1>1. v \in Seq(Nodes) /\ Len(v) \in Nat
  <2>1. v \in Seq(Nodes)
    BY DEF Drawable
  <2> QED  BY <2>1, LenProperties
<1>2. PICK f : /\ f[0] = Start(v) /\ View!Serialize(v) = View!CloseTo(f[Len(v)], 0)
               /\ \A i \in 1..Len(v) : f[i] = View!Visit(f[i - 1], v, i)
  BY <1>1, SerializeIs
<1> DEFINE Ok(i) == Sim(v, i, f[i]) /\ InStep(f[i]) /\ Len(f[i].open) = OpenAt(v, i)
           Bad == {i \in 0..Len(v) : ~Ok(i)}
<1>3. Ok(0)
  <2>1. OpenAt(v, 0) = 0
    BY DEF OpenAt
  <2> QED  BY <1>2, <2>1, StartSim
<1>4. ASSUME NEW i \in 1..Len(v), Ok(i - 1)  PROVE Ok(i)
  <2> DEFINE s == f[i - 1]
  <2>1. Sim(v, i - 1, s) /\ InStep(s) /\ Len(s.open) = OpenAt(v, i - 1)
    BY <1>4
  <2>2. f[i] = View!Visit(s, v, i)
    BY <1>2
  <2> HIDE DEF s
  <2>3. LET t == View!Visit(s, v, i)
        IN Sim(v, i, t) /\ InStep(t) /\ Len(t.open) = OpenAt(v, i)
    BY <2>1, VisitSim
  <2> QED  BY <2>2, <2>3, Zenon
<1> HIDE DEF Ok
<1>5. Bad = {}
  <2> SUFFICES ASSUME Bad # {}  PROVE FALSE
    OBVIOUS
  <2>1. PICK i \in Bad : \A j \in Bad : i <= j
    <3>1. Bad \in SUBSET Nat
      BY <1>1
    <3> HIDE DEF Bad
    <3> QED  BY <3>1, LeastExists
  <2>2. i \in 1..Len(v) /\ i - 1 \in 0..Len(v) /\ i - 1 \notin Bad
    BY <1>1, <1>3, <2>1
  <2>3. Ok(i - 1)
    BY <2>2
  <2> QED  BY <1>4, <2>1, <2>2, <2>3
<1>6. Ok(Len(v))
  BY <1>1, <1>5
<1> DEFINE s == f[Len(v)]
<1>7. Sim(v, Len(v), s) /\ InStep(s)
  BY <1>6 DEF Ok
<1>8. View!Serialize(v) = View!CloseTo(s, 0)
  BY <1>2
<1> HIDE DEF s
<1>9. 0 \in 0..Len(s.open)
  <2>1. s.open \in Seq(Nat)
    BY <1>7 DEF Sim, Written
  <2>2. Len(s.open) \in Nat
    BY <2>1, LenProperties
  <2> QED  BY <2>2
<1>10. Sim(v, Len(v), View!CloseTo(s, 0)) /\ Len(View!CloseTo(s, 0).open) = 0
  BY <1>7, <1>9, CloseSim
<1> QED  BY <1>8, <1>10

\* What is left of the old page is below its first node, and goes with it.
LEMMA NothingLeft ==
  ASSUME NEW s \in Seq(Shown), OneTree(s), NEW t \in Seq(Shown), NEW p, Left(s, t, p),
         NEW out \in Seq(Shown), NEW m, m.old = t, m.out = out
  PROVE  View!Term(m) = out
<1>1. Len(t) \in Nat /\ Len(s) \in Nat
  BY LenProperties
<1>2. CASE t = <<>>
  <2>1. View!Term(m) = <<>> \o out
    BY <1>2 DEF View!Term
  <2> QED  BY <2>1, ConcatEmptySeq
<1>3. CASE t # <<>>
  <2>1. Len(t) # 0
    BY <1>3, EmptySeq
  <2>2. 1 \in 1..Len(t)
    BY <1>1, <2>1
  <2>3. /\ \A x \in 1..Len(t) : p[x] \in 1..Len(s) /\ t[x] = s[p[x]]
        /\ \A x, y \in 1..Len(t) : x < y => p[x] < p[y]
        /\ \A x \in 1..Len(t) : \A y \in 1..Len(s) :
             Below(s, y, p[x]) => \E z \in 1..Len(t) : p[z] = y
    BY DEF Left
  <2>4. 1 \in 1..Len(s)
    BY <1>1, <2>2, <2>3
  <2>5. \A y \in 1..Len(s) : s[y].depth >= 1 /\ (s[y].depth = 1 <=> y = 1) /\ s[y].depth \in Nat
    <3> SUFFICES ASSUME NEW y \in 1..Len(s)
                 PROVE  s[y].depth >= 1 /\ (s[y].depth = 1 <=> y = 1) /\ s[y].depth \in Nat
      OBVIOUS
    <3>1. s[y] \in Shown
      BY ElementOfSeq
    <3> QED  BY <3>1 DEF OneTree, Shown
  <2>6. Below(s, 1, p[1])
    <3>1. \A y \in 2..p[1] : y \in 1..Len(s) /\ y # 1
      BY <1>1, <2>2, <2>3
    <3>2. \A y \in 2..p[1] : s[y].depth > s[1].depth
      BY <2>4, <2>5, <3>1
    <3>3. 1 <= p[1]
      BY <2>2, <2>3
    <3> QED  BY <3>2, <3>3 DEF Below
  <2>7. p[1] = 1
    <3>1. PICK z \in 1..Len(t) : p[z] = 1
      BY <2>2, <2>3, <2>4, <2>6
    <3>2. p[1] \in Nat /\ p[1] >= 1
      BY <1>1, <2>2, <2>3
    <3>3. z = 1
      <4>1. z > 1 => p[1] < p[z]
        BY <1>1, <2>2, <2>3
      <4> QED  BY <1>1, <3>1, <3>2, <4>1
    <3> QED  BY <3>1, <3>3
  <2>8. \A x \in 1..Len(t) : x # 1 => t[x].depth > t[1].depth
    <3> SUFFICES ASSUME NEW x \in 1..Len(t), x # 1  PROVE t[x].depth > t[1].depth
      OBVIOUS
    <3>1. p[1] < p[x] /\ p[x] \in 1..Len(s)
      BY <1>1, <2>2, <2>3
    <3>2. p[x] # 1
      BY <1>1, <2>7, <3>1
    <3>3. t[x] = s[p[x]] /\ t[1] = s[1]
      BY <2>2, <2>3, <2>7
    <3> QED  BY <2>4, <2>5, <3>1, <3>2, <3>3
  <2>9. Below(t, 1, Len(t))
    BY <1>1, <2>1, <2>8 DEF Below
  <2>10. View!End(t, 1) = Len(t)
    <3>1. Len(t) \in 1..Len(t)
      BY <1>1, <2>1
    <3>2. View!End(t, 1) \in 1..Len(t) /\ Len(t) <= View!End(t, 1)
      BY <2>2, <2>9, <3>1, EndIs
    <3> QED  BY <1>1, <3>2
  <2>11. View!Without(t, 1) = <<>>
    <3> DEFINE r == View!Without(t, 1)
    <3>1. r \in Seq(Shown) /\ Len(r) = Len(t) - (View!End(t, 1) - 1 + 1)
      BY <2>2, WithoutIs
    <3> HIDE DEF r
    <3>2. Len(r) = 0
      BY <1>1, <2>10, <3>1
    <3> QED  BY <3>1, <3>2, EmptySeq DEF r
  <2>12. View!Term(m) = <<>> \o out
    BY <1>3, <2>11 DEF View!Term
  <2> QED  BY <2>12, ConcatEmptySeq
<1> QED  BY <1>2, <1>3

\* The engine has seen the entities of the new tree where they are.
LEMMA NgenIs ==
  ASSUME NEW g \in Seq(Entity), \A h, j \in 1..Len(g) : g[h].ntt = g[j].ntt => h = j,
         View!Fits(g), sparse \in [View!Entities -> Nat \ {0}]
  PROVE  /\ View!Ngen(g) \in [View!Entities -> Nat \ {0}]
         /\ \A k \in 1..Len(g) : g[k].ntt \in View!Entities /\ View!Ngen(g)[g[k].ntt] = k
<1> DEFINE N(e) == IF \E i \in DOMAIN g : g[i].ntt = e
                   THEN CHOOSE i \in DOMAIN g : g[i].ntt = e ELSE sparse[e]
           f == View!Ngen(g)
<1>1. DOMAIN g = 1..Len(g) /\ Len(g) \in Nat
  BY LenProperties
<1>2. f = [e \in View!Entities |-> N(e)]
  BY DEF View!Ngen
<1>3. \A e : (\E i \in DOMAIN g : g[i].ntt = e) =>
        LET i == CHOOSE i \in DOMAIN g : g[i].ntt = e IN i \in DOMAIN g /\ g[i].ntt = e
  BY Zenon
<1>4. \A e : (\E i \in DOMAIN g : g[i].ntt = e) => N(e) \in DOMAIN g /\ g[N(e)].ntt = e
  BY <1>3, Zenon
<1>5. \A e : ~(\E i \in DOMAIN g : g[i].ntt = e) => N(e) = sparse[e]
  BY Zenon
<1> HIDE DEF N, f
<1>6. \A e \in View!Entities : N(e) \in Nat \ {0}
  BY <1>1, <1>4, <1>5
<1>7. f \in [View!Entities -> Nat \ {0}]
  BY <1>2, <1>6
<1>8. ASSUME NEW k \in 1..Len(g)  PROVE g[k].ntt \in View!Entities /\ f[g[k].ntt] = k
  <2>1. g[k].ntt \in View!Entities
    BY <1>1 DEF View!Fits
  <2> DEFINE e == g[k].ntt
  <2>2. f[e] = N(e)
    BY <1>2, <2>1
  <2>3. N(e) \in DOMAIN g /\ g[N(e)].ntt = e
    BY <1>1, <1>4
  <2>4. N(e) = k
    BY <1>1, <2>3
  <2> QED  BY <2>1, <2>2, <2>4
<1> QED  BY <1>7, <1>8 DEF f

\* The new page and the new tree match.
LEMMA DrawnMatched ==
  ASSUME NEW mk, Matched(mk), NEW v, Drawable(v), NEW s, s = View!Serialize(v),
         NEW m, m = View!Run(s.prog), ~m.bad, View!Fits(s.g0)
  PROVE  \E mk2 :
           /\ View!Term(m) \in Seq(Shown) /\ s.g0 \in Seq(Entity)
           /\ Synced(View!Term(m), s.g0, mk2) /\ OneTree(View!Term(m))
           /\ \A x \in 1..Len(View!Term(m)) :
                View!Term(m)[x].id # View!None =>
                  OfTurn(gen, View!Term(m)[x].id) /\ View!Term(m)[x].id \in View!Entities
           /\ View!Ngen(s.g0) \in [View!Entities -> Nat \ {0}]
           /\ \A k \in 1..Len(s.g0) : View!Ngen(s.g0)[s.g0[k].ntt] = k
<1> DEFINE n == Len(v)
           o == m.out
           g == s.g0
<1>1. Sim(v, n, s) /\ Len(s.open) = 0
  BY SerializeSim
<1>2. /\ s \in Written /\ m \in Machine /\ Ids(v, n, g, s.cnt)
      /\ \E mk2 : Drawn(g, s.open, o, mk2)
      /\ OneTree(o) /\ Remains(v, n, m.old)
  BY <1>1 DEF Sim
<1>3. g \in Seq(Entity) /\ o \in Seq(Shown) /\ m.old \in Seq(Shown) /\ s.open \in Seq(Nat)
  BY <1>2 DEF Written, Machine
<1>4. dom \in Seq(Shown) /\ OneTree(dom) /\ sparse \in [View!Entities -> Nat \ {0}]
  BY DEF Matched
<1> HIDE DEF n
<1>5. View!Term(m) = o
  <2>1. PICK p : Left(dom, m.old, p)
    BY <1>2 DEF Remains
  <2> DEFINE t == m.old
  <2>2. t \in Seq(Shown) /\ Left(dom, t, p) /\ m.old = t /\ m.out = o
    BY <1>3, <2>1
  <2> HIDE DEF t, o
  <2> QED  BY <1>3, <1>4, <2>2, NothingLeft
<1>6. PICK mk2 : Drawn(g, s.open, o, mk2)
  BY <1>2
<1> HIDE DEF o, g
<1>7. /\ \A h \in 1..Len(g) : Given(v, n, s.cnt, g[h].ntt)
      /\ \A h, j \in 1..Len(g) : g[h].ntt = g[j].ntt => h = j
  BY <1>2 DEF Ids
<1>8. Places(g, o, mk2) /\ \A h \in 1..Len(g) : Scoped(g, o, mk2, h)
  <2>1. \A k \in 1..Len(s.open) : FALSE
    BY <1>1
  <2> QED  BY <1>6, <2>1 DEF Drawn
<1>9. \A x \in 1..Len(o) : o[x].id # View!None => \E h \in 1..Len(g) : mk2[h] = x /\ g[h].ntt = o[x].id
  BY <1>8 DEF Places
<1>10. Synced(o, g, mk2)
  <2>1. \A x, y \in 1..Len(o) : o[x].id = o[y].id /\ o[x].id # View!None => x = y
    <3> SUFFICES ASSUME NEW x \in 1..Len(o), NEW y \in 1..Len(o), o[x].id = o[y].id,
                        o[x].id # View!None
                 PROVE  x = y
      OBVIOUS
    <3>1. PICK h \in 1..Len(g) : mk2[h] = x /\ g[h].ntt = o[x].id
      BY <1>9
    <3>2. PICK j \in 1..Len(g) : mk2[j] = y /\ g[j].ntt = o[y].id
      BY <1>9
    <3> QED  BY <1>7, <3>1, <3>2
  <2> QED  BY <1>8, <2>1 DEF Synced
<1>11. View!Fits(g)
  BY DEF g
<1>12. /\ View!Ngen(g) \in [View!Entities -> Nat \ {0}]
       /\ \A k \in 1..Len(g) : g[k].ntt \in View!Entities /\ View!Ngen(g)[g[k].ntt] = k
  BY <1>3, <1>4, <1>7, <1>11, NgenIs DEF g
<1>13. \A x \in 1..Len(o) : o[x].id # View!None =>
         OfTurn(gen, o[x].id) /\ o[x].id \in View!Entities
  BY <1>7, <1>9, <1>12 DEF Given
<1>14. OneTree(o) /\ o \in Seq(Shown) /\ g \in Seq(Entity)
  BY <1>2, <1>3 DEF o, g
<1> QED  BY <1>5, <1>10, <1>12, <1>13, <1>14, Zenon DEF g

\* The places are in order.
Rising(mk, n) == \A x, y \in 1..n : x < y => mk[x] < mk[y]

\* T has the c places from the a-th on
Holding(T, mk, a, c) == \A x : x \in T <=> \E h \in 1..c : mk[a + h - 1] = x

\* T has c of the n places
Chosen(T, n, l, mk, a, c) ==
  /\ n \in Nat /\ l \in Nat /\ mk \in [1..n -> 1..l] /\ Rising(mk, n)
  /\ a \in Nat \ {0} /\ c \in Nat /\ a + c <= n + 1
  /\ Holding(T, mk, a, c)

\* Of places that go up, as many are taken as there are numbers of them.
LEMMA CountPlaces ==
  ASSUME NEW T, NEW n, NEW l, NEW mk, NEW a, NEW c, Chosen(T, n, l, mk, a, c)
  PROVE  Cardinality(T) = c
<1>0. /\ n \in Nat /\ l \in Nat /\ mk \in [1..n -> 1..l] /\ Rising(mk, n)
      /\ a \in Nat \ {0} /\ c \in Nat /\ a + c <= n + 1 /\ Holding(T, mk, a, c)
  BY DEF Chosen
<1> DEFINE f == [h \in 1..c |-> mk[a + h - 1]]
<1>1. \A h \in 1..c : a + h - 1 \in 1..n
  BY <1>0
<1>2. \A h \in 1..c : f[h] = mk[a + h - 1]
  OBVIOUS
<1>3. f \in [1..c -> T]
  BY <1>0 DEF Holding
<1>4. ASSUME NEW x \in 1..c, NEW y \in 1..c, f[x] = f[y]  PROVE x = y
  <2> HIDE DEF f
  <2> DEFINE p == a + x - 1
             q == a + y - 1
  <2>1. p \in 1..n /\ q \in 1..n /\ mk[p] = mk[q]
    BY <1>1, <1>2, <1>4
  <2>2. mk[p] \in 1..l /\ mk[q] \in 1..l
    BY <1>0, <2>1
  <2>3. ~(p < q) /\ ~(q < p)
    <3> HIDE DEF p, q
    <3> QED  BY <1>0, <2>1, <2>2 DEF Rising
  <2> QED  BY <1>0, <2>3
<1>5. \A x \in T : \E h \in 1..c : f[h] = x
  BY <1>0, <1>2 DEF Holding
<1> HIDE DEF f
<1>6. f \in Bijection(1..c, T)
  BY <1>3, <1>4, <1>5, Fun_IsBij
<1>7. ExistsBijection(1..c, T)
  BY <1>6 DEF ExistsBijection
<1> QED  BY <1>0, <1>7, FS_CountingElements

\* The k-th element with an identifier is the k-th entity, and as many are below it
\* as the engine has it.
LEMMA MatchedSync == (\E mk : Matched(mk)) => View!InSync
<1> SUFFICES ASSUME NEW mk, Matched(mk)  PROVE View!InSync
  OBVIOUS
<1> DEFINE l == Len(dom)
           n == Len(g1)
           M == {i \in DOMAIN dom : dom[i].id # View!None}
<1>1. /\ dom \in Seq(Shown) /\ g1 \in Seq(Entity) /\ Synced(dom, g1, mk)
      /\ \A x \in 1..l : dom[x].id # View!None => dom[x].id \in View!Entities
      /\ sparse \in [View!Entities -> Nat \ {0}]
      /\ \A k \in 1..n : sparse[g1[k].ntt] = k
  BY DEF Matched
<1>2. l \in Nat /\ n \in Nat /\ DOMAIN dom = 1..l
  BY <1>1, LenProperties
<1>3. /\ mk \in [1..n -> 1..l]
      /\ \A x, y \in 1..n : x < y => mk[x] < mk[y]
      /\ \A i \in 1..l : dom[i].id # View!None => \E k \in 1..n : mk[k] = i
      /\ \A k \in 1..n : /\ dom[mk[k]].id # View!None
                         /\ g1[k].ntt = dom[mk[k]].id /\ g1[k].hdl = dom[mk[k]].what
  BY <1>1 DEF Synced, Places
<1>4. \A k \in 1..n : Scoped(g1, dom, mk, k)
  BY <1>1 DEF Synced
<1> HIDE DEF l, n
<1>0. Rising(mk, n)
  BY <1>3 DEF Rising
<1>5. \A x : x \in M <=> \E k \in 1..n : mk[k] = x
  BY <1>2, <1>3
<1>6. Cardinality(M) = n
  <2>1. \A h \in 1..n : 1 + h - 1 = h
    BY <1>2
  <2>2. Holding(M, mk, 1, n)
    BY <1>5, <2>1 DEF Holding
  <2>3. 1 + n <= n + 1 /\ 1 \in Nat \ {0}
    BY <1>2
  <2> HIDE DEF M
  <2>4. Chosen(M, n, l, mk, 1, n)
    BY <1>0, <1>2, <1>3, <2>2, <2>3 DEF Chosen
  <2> QED  BY <2>4, CountPlaces, Zenon
<1>7. ASSUME NEW i \in M
      PROVE  LET k == Cardinality(M \cap (1..i)) IN
               /\ View!Locate(dom[i].id) = k
               /\ g1[k].hdl = dom[i].what
               /\ g1[k].scp = Cardinality(M \cap (i..View!End(dom, i)))
  <2>1. PICK k \in 1..n : mk[k] = i
    BY <1>5
  <2>2. k \in Nat /\ k <= n /\ k # 0 /\ i \in 1..l /\ i \in Nat
    BY <1>2, <2>1
  <2>3. \A x, y \in 1..n : x <= y <=> mk[x] <= mk[y]
    <3> SUFFICES ASSUME NEW x \in 1..n, NEW y \in 1..n  PROVE x <= y <=> mk[x] <= mk[y]
      OBVIOUS
    <3>1. mk[x] \in 1..l /\ mk[y] \in 1..l
      BY <1>3
    <3>2. (x < y => mk[x] < mk[y]) /\ (y < x => mk[y] < mk[x])
      BY <1>3
    <3>3. x = y => mk[x] = mk[y]
      OBVIOUS
    <3> QED  BY <1>2, <3>1, <3>2, <3>3
  <2>4. Cardinality(M \cap (1..i)) = k
    <3> DEFINE T == M \cap (1..i)
    <3>1. \A h \in 1..k : h \in 1..n /\ 1 + h - 1 = h /\ h <= k
      BY <1>2, <2>2
    <3>2. \A x \in 1..l : x \in 1..i <=> x <= i
      BY <1>2, <2>2
    <3>3. \A x \in M : x \in 1..l
      BY <1>2
    <3>4. ASSUME NEW x, x \in T  PROVE \E h \in 1..k : mk[1 + h - 1] = x
      <4>1. PICK h \in 1..n : mk[h] = x
        BY <1>5, <3>4
      <4>2. x <= i
        BY <3>2, <3>3, <3>4
      <4>3. h <= k
        BY <2>1, <2>3, <4>1, <4>2
      <4>4. h \in 1..k
        BY <1>2, <2>2, <4>3
      <4> QED  BY <3>1, <4>1, <4>4
    <3>5. ASSUME NEW x, NEW h \in 1..k, mk[1 + h - 1] = x  PROVE x \in T
      <4>1. mk[h] = x /\ h \in 1..n /\ h <= k
        BY <3>1, <3>5
      <4>2. x \in M
        BY <1>5, <4>1
      <4>3. x <= i
        BY <2>1, <2>3, <4>1
      <4>4. x \in 1..i
        BY <3>2, <3>3, <4>2, <4>3
      <4> HIDE DEF M
      <4> QED  BY <4>2, <4>4
    <3>6. Holding(T, mk, 1, k)
      <4> HIDE DEF T
      <4> QED  BY <3>4, <3>5 DEF Holding
    <3>7. 1 + k <= n + 1 /\ 1 \in Nat \ {0}
      BY <1>2, <2>2
    <3> HIDE DEF T
    <3>8. Chosen(T, n, l, mk, 1, k)
      BY <1>0, <1>2, <1>3, <2>2, <3>6, <3>7 DEF Chosen
    <3>9. Cardinality(T) = k
      BY <3>8, CountPlaces, Zenon
    <3> QED  BY <3>9 DEF T
  <2>5. View!Locate(dom[i].id) = k
    <3>1. g1[k].ntt = dom[i].id /\ sparse[g1[k].ntt] = k
      BY <1>1, <1>3, <2>1 DEF n
    <3>2. k <= Len(g1)
      BY <2>2 DEF n
    <3> QED  BY <3>1, <3>2 DEF View!Locate
  <2>6. g1[k].hdl = dom[i].what
    BY <1>3, <2>1
  <2>7. g1[k].scp = Cardinality(M \cap (i..View!End(dom, i)))
    <3> DEFINE c == g1[k].scp
               e == View!End(dom, i)
               T == M \cap (i..e)
    <3>1. c \in 1..(n - k + 1)
          /\ \A h \in 1..n : Below(dom, mk[k], mk[h]) <=> k <= h /\ h < k + c
      BY <1>4, <2>1 DEF Scoped, n
    <3>2. /\ e \in i..l
          /\ \A j \in i..l : Below(dom, i, j) <=> j <= e
      BY <1>1, <2>2, EndIs DEF l
    <3> HIDE DEF c, e
    <3>3. c \in Nat /\ k + c <= n + 1 /\ \A h \in 1..c : /\ k + h - 1 \in 1..n
                                                         /\ k <= k + h - 1
                                                         /\ k + h - 1 < k + c
      BY <1>2, <2>2, <3>1
    <3>4. ASSUME NEW x, x \in T  PROVE \E h \in 1..c : mk[k + h - 1] = x
      <4>1. PICK h \in 1..n : mk[h] = x
        BY <1>5, <3>4
      <4>2. x \in i..l /\ x <= e
        BY <1>2, <2>2, <3>2, <3>4
      <4>3. k <= h /\ h < k + c
        BY <2>1, <3>1, <3>2, <4>1, <4>2
      <4>4. h - k + 1 \in 1..c /\ k + (h - k + 1) - 1 = h
        BY <1>2, <2>2, <3>3, <4>3
      <4>5. mk[k + (h - k + 1) - 1] = x
        BY <4>1, <4>4
      <4> QED  BY <4>4, <4>5
    <3>5. ASSUME NEW x, NEW h \in 1..c, mk[k + h - 1] = x  PROVE x \in T
      <4> DEFINE j == k + h - 1
      <4>1. j \in 1..n /\ k <= j /\ j < k + c /\ mk[j] = x
        BY <3>3, <3>5
      <4> HIDE DEF j
      <4>2. x \in M
        BY <1>5, <4>1
      <4>3. Below(dom, i, x)
        BY <2>1, <3>1, <4>1
      <4>4. x \in i..l
        <5>1. i <= x
          BY <4>3 DEF Below
        <5>2. x \in 1..l
          BY <1>3, <4>1
        <5> QED  BY <1>2, <2>2, <5>1, <5>2
      <4>5. x \in i..e
        <5>1. x <= e
          BY <3>2, <4>3, <4>4
        <5> QED  BY <1>2, <2>2, <3>2, <4>4, <5>1
      <4> HIDE DEF M
      <4> QED  BY <4>2, <4>5
    <3>6. Holding(T, mk, k, c)
      <4> HIDE DEF T
      <4> QED  BY <3>4, <3>5 DEF Holding
    <3> HIDE DEF T
    <3>7. Cardinality(T) = c
      <4>1. k \in Nat \ {0}
        BY <2>2
      <4>2. Chosen(T, n, l, mk, k, c)
        BY <1>0, <1>2, <1>3, <3>3, <3>6, <4>1 DEF Chosen
      <4> QED  BY <4>2, CountPlaces, Zenon
    <3> QED  BY <3>7 DEF T, c, e
  <2> QED  BY <2>4, <2>5, <2>6, <2>7
<1>8. View!Marked = M
  BY DEF View!Marked
<1> HIDE DEF M
<1>9. /\ Len(g1) = Cardinality(View!Marked)
      /\ \A i \in View!Marked :
           LET k == Cardinality(View!Marked \cap (1..i)) IN
             /\ View!Locate(dom[i].id) = k
             /\ g1[k].hdl = dom[i].what
             /\ g1[k].scp = Cardinality(View!Marked \cap (i..View!End(dom, i)))
  BY <1>6, <1>7, <1>8, Zenon DEF n
<1> QED  BY <1>9, Zenon DEF View!InSync, View!Cardinality, Cardinality

\* What is built of the choices of a turn can be serialised.
LEMMA ViewDrawable ==
  ASSUME NEW mk, Matched(mk), NEW n \in 1..MaxNodes, NEW d \in View!Shapes(n),
         NEW root \in View!Root, NEW k \in [2..n -> View!Made \cup View!Kept],
         View!IsView(d, k)
  PROVE  Drawable(View!View(d, [i \in 1..n |-> IF i = 1 THEN root ELSE k[i]]))
<1> DEFINE c == [i \in 1..n |-> IF i = 1 THEN root ELSE k[i]]
           v == View!View(d, c)
<1>1. n \in Nat /\ n # 0
  BY DrawingAssumption
<1>2. /\ d \in [1..n -> 1..n] /\ d[1] = 1
      /\ \A i \in 2..n : d[i] \in 2..(d[i - 1] + 1)
  BY DEF View!Shapes
<1>3. /\ \A x \in View!IDs : x \in View!Entities /\ x # View!None
      /\ \A x \in Stale : x \in View!Entities /\ x # View!None
      /\ View!None \in View!Entities /\ \A x \in View!Entities : x \in Nat
  <2>1. \A x \in Stale : x \in 1..MaxEntity
    BY DrawingAssumption
  <2>2. dom \in Seq(Shown)
    BY DEF Matched
  <2>3. DOMAIN dom = 1..Len(dom)
    BY <2>2, LenProperties
  <2>4. \A x \in View!IDs : x \in View!Entities /\ x # View!None
    BY <2>3 DEF View!IDs, Matched
  <2> QED  BY <2>1, <2>4, DrawingAssumption DEF View!Entities, View!None
<1>4. \A x \in View!Made \cup View!Kept :
        /\ x.key \in BOOLEAN /\ x.hdl \in BOOLEAN /\ x.old \in View!Entities
        /\ x.old # View!None => x.key
  BY <1>3 DEF View!Made, View!Kept
<1>5. root \in View!Made /\ root.old = View!None
  BY DEF View!Root, View!Made
<1>6. \A i \in 1..n : c[i] \in View!Made \cup View!Kept
  <2>1. \A i \in 1..n : i = 1 \/ i \in 2..n
    BY <1>1
  <2> QED  BY <1>5, <2>1
<1>7. c[1] = root /\ \A i \in 2..n : c[i] = k[i] /\ i \in 1..n
  BY <1>1
<1> HIDE DEF c
<1>8. v = [i \in 1..n |-> View!Node(d[i], c[i].key, c[i].hdl, c[i].old)]
  BY <1>2 DEF View!View
<1> HIDE DEF v
<1>9. \A i \in 1..n : /\ v[i] \in Nodes
                      /\ v[i].depth = d[i] /\ v[i].old = c[i].old /\ v[i].key = c[i].key
  <2> SUFFICES ASSUME NEW i \in 1..n
               PROVE  /\ v[i] \in Nodes
                      /\ v[i].depth = d[i] /\ v[i].old = c[i].old /\ v[i].key = c[i].key
    OBVIOUS
  <2>1. v[i] = [depth |-> d[i], key |-> c[i].key, hdl |-> c[i].hdl, old |-> c[i].old]
    BY <1>8 DEF View!Node
  <2>2. d[i] \in Nat \ {0}
    BY <1>1, <1>2
  <2>3. c[i].key \in BOOLEAN /\ c[i].hdl \in BOOLEAN /\ c[i].old \in Nat
    BY <1>3, <1>4, <1>6
  <2> QED  BY <2>1, <2>2, <2>3 DEF Nodes
<1>10. v \in [1..n -> Nodes]
  BY <1>8, <1>9
<1>11. v \in Seq(Nodes) /\ Len(v) = n
  BY <1>1, <1>10, IsASeq, LenProperties
<1>12. ASSUME NEW i \in 1..n
       PROVE  /\ v[i].depth = 1 <=> i = 1
              /\ i = 1 => v[i].old = View!None
              /\ v[i].old \in View!Entities
              /\ v[i].old # View!None => v[i].key
  <2>1. i # 1 => i \in 2..n
    BY <1>1
  <2>2. i # 1 => d[i] \in 2..(d[i - 1] + 1)
    BY <1>2, <2>1
  <2>3. v[i].depth = 1 <=> i = 1
    <3>1. v[i].depth = d[i]
      BY <1>9
    <3>2. i = 1 => d[i] = 1
      BY <1>2
    <3>3. i # 1 => i - 1 \in 1..n /\ d[i - 1] \in Nat /\ d[i] \in Nat
      <4>1. i # 1 => i - 1 \in 1..n
        BY <1>1
      <4>2. \A j \in 1..n : d[j] \in 1..n
        BY <1>2
      <4>3. \A j \in 1..n : d[j] \in Nat
        BY <1>1, <4>2
      <4> QED  BY <4>1, <4>3
    <3>4. i # 1 => d[i] # 1
      BY <2>2, <3>3
    <3> QED  BY <3>1, <3>2, <3>4
  <2>4. i = 1 => v[i].old = View!None
    BY <1>5, <1>7, <1>9
  <2>5. v[i].old \in View!Entities /\ (v[i].old # View!None => v[i].key)
    BY <1>4, <1>6, <1>9
  <2> QED  BY <2>3, <2>4, <2>5
<1>13. ASSUME NEW i \in 2..n
       PROVE  v[i].depth <= IF v[i - 1].old = View!None THEN v[i - 1].depth + 1
                                                        ELSE v[i - 1].depth
  <2>1. i - 1 \in 1..n /\ i \in 1..n /\ (i - 1) + 1 = i
    BY <1>1
  <2>2. v[i].depth = d[i] /\ v[i - 1].depth = d[i - 1] /\ v[i - 1].old = c[i - 1].old
    BY <1>9, <2>1
  <2>3. d[i] \in 2..(d[i - 1] + 1) /\ d[i - 1] \in 1..n /\ d[i] \in 1..n
    BY <1>2, <2>1
  <2>4. CASE v[i - 1].old = View!None
    BY <2>2, <2>3, <2>4
  <2>5. CASE v[i - 1].old # View!None
    <3>1. i - 1 # 1
      BY <1>5, <1>7, <2>2, <2>5
    <3>2. i - 1 \in 2..n /\ i - 1 < n
      BY <1>1, <3>1
    <3>3. c[i - 1] = k[i - 1] /\ i - 1 \in DOMAIN k /\ Len(d) = n
      <4>1. d \in Seq(1..n) /\ Len(d) = n
        <5> DEFINE S == 1..n
        <5>1. d \in [1..n -> S]
          BY <1>2
        <5> HIDE DEF S
        <5>2. d \in Seq(S)
          BY <1>1, <5>1, IsASeq
        <5>3. Len(d) = n
          BY <1>1, <5>1, <5>2, LenProperties
        <5> QED  BY <5>2, <5>3 DEF S
      <4> QED  BY <1>7, <3>2, <4>1
    <3>4. d[(i - 1) + 1] <= d[i - 1]
      BY <2>2, <2>5, <3>2, <3>3 DEF View!IsView
    <3> QED  BY <2>1, <2>2, <2>5, <3>4
  <2> QED  BY <2>4, <2>5
<1>14. Drawable(v)
  BY <1>1, <1>11, <1>12, <1>13 DEF Drawable
<1> QED  BY <1>14 DEF v, c

\* The engine and the page match unless the program has ended, and it ends only
\* when it reuses what it should not.
ViewInv ==
  /\ ~broken => \E mk : Matched(mk)
  /\ proper => ~broken

\* At first the page is empty, and so is the tree.
LEMMA ViewInit == View!Init => ViewInv
<1> SUFFICES ASSUME View!Init  PROVE ViewInv
  OBVIOUS
<1>1. /\ dom = <<>> /\ g1 = <<>> /\ sparse = [e \in View!Entities |-> 1]
      /\ gen = 0 /\ broken = FALSE /\ proper = TRUE
  BY DEF View!Init
<1>2. dom \in Seq(Shown) /\ g1 \in Seq(Entity) /\ Len(dom) = 0 /\ Len(g1) = 0
  BY <1>1, EmptySeq
<1> DEFINE mk == [k \in 1..0 |-> 1]
<1>3. Synced(dom, g1, mk) /\ OneTree(dom)
  <2>1. mk \in [1..Len(g1) -> 1..Len(dom)]
    BY <1>2
  <2>2. \A k \in 1..Len(dom) : FALSE
    BY <1>2
  <2>3. \A k \in 1..Len(g1) : FALSE
    BY <1>2
  <2> HIDE DEF mk
  <2> QED  BY <2>1, <2>2, <2>3 DEF Synced, Places, OneTree
<1>4. sparse \in [View!Entities -> Nat \ {0}]
  BY <1>1
<1>5. (\A k \in 1..Len(g1) : FALSE) /\ (\A k \in 1..Len(dom) : FALSE)
  BY <1>2
<1> HIDE DEF mk
<1>6. Matched(mk)
  BY <1>1, <1>2, <1>3, <1>4, <1>5 DEF Matched
<1> QED  BY <1>1, <1>6 DEF ViewInv

\* a turn that draws the view of these choices
TurnOf(n, d, root, k) ==
  /\ View!IsView(d, k)
  /\ LET v == View!View(d, [i \in 1..n |-> IF i = 1 THEN root ELSE k[i]])
         s == View!Serialize(v)
         m == View!Run(s.prog)
     IN  /\ View!Fits(s.g0)
         /\ g1' = s.g0
         /\ sparse' = View!Ngen(s.g0)
         /\ broken' = m.bad
         /\ dom' = IF m.bad THEN m.old ELSE View!Term(m)
         /\ proper' = View!Proper(v)

\* A turn keeps the page and the tree together.
LEMMA ViewNext == ViewInv /\ [View!Turn]_(View!vars) => ViewInv'
<1> SUFFICES ASSUME ViewInv, [View!Turn]_(View!vars)  PROVE ViewInv'
  OBVIOUS
<1>1. CASE View!Turn
  <2>1. ~broken /\ gen' = gen + 1
    BY <1>1 DEF View!Turn
  <2>2. PICK mk : Matched(mk)
    BY <2>1 DEF ViewInv
  <2>3. PICK n \in 1..MaxNodes :
         \E d \in View!Shapes(n), root \in View!Root,
            k \in [2..n -> View!Made \cup View!Kept] : TurnOf(n, d, root, k)
    BY <1>1, Zenon DEF View!Turn, TurnOf
  <2>4. PICK d \in View!Shapes(n), root \in View!Root,
             k \in [2..n -> View!Made \cup View!Kept] : TurnOf(n, d, root, k)
    BY <2>3
  <2>5. View!IsView(d, k)
    BY <2>4 DEF TurnOf
  <2> DEFINE v == View!View(d, [i \in 1..n |-> IF i = 1 THEN root ELSE k[i]])
             s == View!Serialize(v)
             m == View!Run(s.prog)
  <2>6. Drawable(v)
    BY <2>2, <2>5, ViewDrawable
  <2>7. /\ View!Fits(s.g0) /\ g1' = s.g0 /\ sparse' = View!Ngen(s.g0)
        /\ broken' = m.bad /\ dom' = IF m.bad THEN m.old ELSE View!Term(m)
        /\ proper' = View!Proper(v)
    BY <2>4, Zenon DEF TurnOf
  <2> HIDE DEF v
  <2>8. View!Proper(v) => ~m.bad
    <3>1. Sim(v, Len(v), s)
      BY <2>2, <2>6, SerializeSim
    <3> QED  BY <3>1, Zenon DEF Sim
  <2> HIDE DEF s, m
  <2>9. ASSUME ~broken'  PROVE \E mk2 : Matched(mk2)'
    <3>1. ~m.bad
      BY <2>7, <2>9
    <3>2. PICK mk2 :
           /\ View!Term(m) \in Seq(Shown) /\ s.g0 \in Seq(Entity)
           /\ Synced(View!Term(m), s.g0, mk2) /\ OneTree(View!Term(m))
           /\ \A x \in 1..Len(View!Term(m)) :
                View!Term(m)[x].id # View!None =>
                  OfTurn(gen, View!Term(m)[x].id) /\ View!Term(m)[x].id \in View!Entities
           /\ View!Ngen(s.g0) \in [View!Entities -> Nat \ {0}]
           /\ \A h \in 1..Len(s.g0) : View!Ngen(s.g0)[s.g0[h].ntt] = h
      BY <2>2, <2>6, <2>7, <3>1, DrawnMatched DEF s, m
    <3>3. dom' = View!Term(m)
      BY <2>7, <3>1
    <3>4. gen \in Nat
      BY <2>2 DEF Matched
    <3>5. gen' \in Nat /\ gen' + 1 = gen + 2
      BY <2>1, <3>4
    <3>6. \A e : OfTurn(gen, e) => OfTurn(gen' + 1, e)
      BY <3>4, <3>5, TurnsDiffer
    <3>7. \A x \in 1..Len(dom') : dom'[x].id # View!None =>
            OfTurn(gen' + 1, dom'[x].id) /\ dom'[x].id \in View!Entities
      BY <3>2, <3>3, <3>6
    <3>8. dom' \in Seq(Shown) /\ g1' \in Seq(Entity) /\ Synced(dom', g1', mk2) /\ OneTree(dom')
      BY <2>7, <3>2, <3>3
    <3>9. sparse' \in [View!Entities -> Nat \ {0}] /\ \A h \in 1..Len(g1') : sparse'[g1'[h].ntt] = h
      BY <2>7, <3>2
    <3>10. Matched(mk2)'
      BY <3>5, <3>7, <3>8, <3>9 DEF Matched
    <3> QED  BY <3>10
  <2> QED  BY <2>7, <2>8, <2>9 DEF ViewInv
<1>2. CASE UNCHANGED View!vars
  BY <1>2 DEF ViewInv, Matched, View!vars
<1> QED  BY <1>1, <1>2

\* A behaviour of the browser is one of the drawing: the other parts leave it alone.
LEMMA DrawingBehaves == BrowserSpec => View!Spec
<1>1. BrowserInit => View!Init
  BY DEF BrowserInit
<1>2. [BrowserNext]_<<vars, panel, cell, notes, part>> => [View!Turn]_(View!vars)
  <2>1. BrowserNext => View!Turn \/ cell' = cell
    BY DEF BrowserNext
  <2>2. UNCHANGED <<vars, panel, cell, notes, part>> => cell' = cell
    OBVIOUS
  <2>3. View!vars = cell /\ View!vars' = cell'
    BY DEF View!vars, cell
  <2> QED  BY <2>1, <2>2, <2>3
<1> QED  BY <1>1, <1>2, PTL DEF BrowserSpec, View!Spec

\* They stay together.
LEMMA AlwaysViewInv == BrowserSpec => []ViewInv
<1>1. View!Spec => []ViewInv
  BY ViewInit, ViewNext, PTL DEF View!Spec
<1> QED  BY <1>1, DrawingBehaves, PTL

\* The engine finds every element of the page by its identifier, at its place, with its
\* handler and the elements below it, after any number of turns that make, keep, move and
\* drop parts of the page (etree.go, buildView of datacell.ts).
THEOREM PageIsInSync == BrowserSpec => []InSync
<1>1. ViewInv => InSync
  <2>1. broken => View!InSync
    BY Zenon DEF View!InSync
  <2> QED  BY <2>1, MatchedSync DEF ViewInv, InSync
<1> QED  BY <1>1, AlwaysViewInv, PTL

\* The page draws to its end every program that reuses parts that are there, each once
\* (buildView of datacell.ts).
THEOREM ProperIsDrawn == BrowserSpec => []DrawnToTheEnd
<1>1. ViewInv => DrawnToTheEnd
  BY DEF ViewInv, DrawnToTheEnd, View!DrawnToTheEnd
<1> QED  BY <1>1, AlwaysViewInv, PTL
=============================================================================
