---------------------------- MODULE Notifications ----------------------------
(***************************************************************************)
(* Notifications of one session: SendNotification puts them into a channel *)
(* (hub/iam/notifications.go), the pages of the user listen to it, each    *)
(* with a stream of its own, and list what they get (wt-notif).  All pages *)
(* keep their list under one name in the browser's local storage.          *)
(*                                                                         *)
(* Notifications of the server are numbered in the order in which they     *)
(* come to the channel.  Two days, after which a page forgets them, are    *)
(* longer than a behaviour.                                                *)
(***************************************************************************)
EXTENDS Naturals, Sequences, SequencesExt

CONSTANTS
  Pages,
  Capacity, \* of the channel: 10 in login_common.go
  MaxSends, \* bound on the notifications of the server
  MaxEvents \* bound on what the user and the pages do

VARIABLES
  queue,    \* Session.Notifier
  waiting,  \* the calls of SendNotification that found it full
  link,     \* a page: closed, or its stream: none, up
  hand,     \* what the stream has taken and not flushed: at most one
  orphans,  \* streams of pages that are gone, which have not noticed yet
  list,     \* this.notifications
  banner,   \* this.banner
  timers,   \* the pending timeouts of each page, by notification
  stored,   \* the list in localStorage
  kept,     \* there is one
  sends,    \* how many notifications were sent (history)
  events,   \* (history)
  gone,     \* what the user has removed (history)
  shared    \* removed while another page listed it too (history)

server == <<queue, waiting, sends>>
streams == <<link, hand, orphans>>
panel == <<list, banner, timers>>
storage == <<stored, kept>>
removals == <<gone, shared>>
vars == <<server, streams, panel, storage, events, removals>>

Here == 0 \* what a page notifies itself: all have the same identifier
Sent == 1..MaxSends

Ids(l) == {l[i].id : i \in DOMAIN l}

\* the list with the given notifications read
Marked(l, ids) ==
  [i \in DOMAIN l |-> [l[i] EXCEPT !.read = l[i].read \/ l[i].id \in ids]]

\* the list without the notifications n (filter)
Without(l, n) ==
  LET keep[i \in 0..Len(l)] ==
        IF i = 0 THEN <<>>
        ELSE IF l[i].id = n THEN keep[i - 1] ELSE Append(keep[i - 1], l[i])
  IN keep[Len(l)]

Unread(l) == \E i \in DOMAIN l : ~l[i].read
NoTimers == [n \in Sent \cup {Here} |-> 0]

Happens == events < MaxEvents /\ events' = events + 1

Init ==
  /\ queue = <<>> /\ waiting = <<>> /\ sends = 0
  /\ link = [p \in Pages |-> "closed"]
  /\ hand = [p \in Pages |-> <<>>] /\ orphans = 0
  /\ list = [p \in Pages |-> <<>>]
  /\ banner = [p \in Pages |-> FALSE]
  /\ timers = [p \in Pages |-> NoTimers]
  /\ stored = <<>> /\ kept = FALSE
  /\ events = 0 /\ gone = {} /\ shared = {}

-----------------------------------------------------------------------------
(* The server.                                                             *)

\* SendNotification
Send ==
  /\ sends < MaxSends /\ sends' = sends + 1
  /\ IF Len(queue) < Capacity
     THEN queue' = Append(queue, sends') /\ UNCHANGED waiting
     ELSE waiting' = Append(waiting, sends') /\ UNCHANGED queue
  /\ UNCHANGED <<streams, panel, storage, events, removals>>

\* after 100 milliseconds: the notification is dropped
GiveUp ==
  /\ \E i \in DOMAIN waiting : waiting' = RemoveAt(waiting, i)
  /\ UNCHANGED <<queue, sends, streams, panel, storage, events, removals>>

\* A stream takes the oldest one, and the first that waits gets its place.
Receive ==
  /\ queue # <<>>
  /\ IF waiting = <<>>
     THEN queue' = Tail(queue) /\ UNCHANGED waiting
     ELSE queue' = Append(Tail(queue), Head(waiting)) /\ waiting' = Tail(waiting)
  /\ UNCHANGED sends

\* TransduceNotifications
Take(p) ==
  /\ link[p] = "up" /\ hand[p] = <<>>
  /\ Receive
  /\ hand' = [hand EXCEPT ![p] = <<Head(queue)>>]
  /\ UNCHANGED <<link, orphans, panel, storage, events, removals>>

\* the stream of a page that is gone: what it takes is lost, and it may notice
TakeForNobody ==
  /\ orphans > 0
  /\ Receive
  /\ orphans' \in {orphans - 1, orphans}
  /\ UNCHANGED <<link, hand, panel, storage, events, removals>>

OrphanEnds ==
  /\ orphans > 0 /\ orphans' = orphans - 1
  /\ UNCHANGED <<server, link, hand, panel, storage, events, removals>>

-----------------------------------------------------------------------------
(* The pages.                                                              *)

\* updateStorage
Store(l) == stored' = l /\ kept' = TRUE

\* mutant of Notify: the list is kept in the order of arrival
NotifyLast(p, n) ==
  /\ list' = [list EXCEPT ![p] = Append(@, [id |-> n, read |-> FALSE])]
  /\ banner' = [banner EXCEPT ![p] = TRUE]
  /\ timers' = [timers EXCEPT ![p][n] = @ + 1]
  /\ Store(list'[p])

\* notify of the panel
Notify(p, n) ==
  /\ list' = [list EXCEPT ![p] = <<[id |-> n, read |-> FALSE]>> \o @]
  /\ banner' = [banner EXCEPT ![p] = TRUE]
  /\ timers' = [timers EXCEPT ![p][n] = @ + 1]
  /\ Store(list'[p])

\* The notification is flushed and comes to the page.
Arrive(p) ==
  /\ hand[p] # <<>> /\ hand' = [hand EXCEPT ![p] = <<>>]
  /\ Notify(p, Head(hand[p]))
  /\ UNCHANGED <<server, link, orphans, events, removals>>

\* The flush takes more than four seconds: the server ends the stream, and the
\* notification arrives or not.
FlushSlow(p) ==
  /\ hand[p] # <<>> /\ hand' = [hand EXCEPT ![p] = <<>>]
  /\ link' = [link EXCEPT ![p] = "none"]
  /\ Notify(p, Head(hand[p])) \/ UNCHANGED <<panel, storage>>
  /\ UNCHANGED <<server, orphans, events, removals>>

\* EventSource (external) connects again.
Reconnect(p) ==
  /\ link[p] = "none" /\ link' = [link EXCEPT ![p] = "up"]
  /\ UNCHANGED <<server, hand, orphans, panel, storage, events, removals>>

\* notify of the page itself, when a request has failed
NotifyHere(p) ==
  /\ link[p] # "closed" /\ Happens
  /\ Notify(p, Here)
  /\ UNCHANGED <<server, streams, removals>>

\* removeBanner, for the given notifications: it does not restore a list that was
\* taken from the storage
RemoveBanner(p, ids) ==
  /\ banner' = [banner EXCEPT ![p] = FALSE]
  /\ list' = [list EXCEPT ![p] = Marked(list[p], ids)]
  /\ stored' = IF kept THEN list'[p] ELSE stored
  /\ UNCHANGED kept

\* after thirty seconds
Timer(p, n) ==
  /\ timers[p][n] > 0 /\ timers' = [timers EXCEPT ![p][n] = @ - 1]
  /\ RemoveBanner(p, {n})
  /\ UNCHANGED <<server, streams, events, removals>>

\* the user closes the banner
Dismiss(p) ==
  /\ banner[p] /\ Happens
  /\ RemoveBanner(p, Ids(list[p]))
  /\ UNCHANGED <<server, streams, timers, removals>>

Others(p, n) == \E q \in Pages \ {p} : n \in Ids(list[q])

\* mutant of RemoveNotification: the list is not stored
RemoveHere(p, n) ==
  /\ n \in Ids(list[p]) /\ Happens
  /\ list' = [list EXCEPT ![p] = Without(@, n)]
  /\ gone' = gone \cup ({n} \cap Sent)
  /\ shared' = IF Others(p, n) THEN shared \cup {n} ELSE shared
  /\ UNCHANGED <<server, streams, storage, banner, timers>>

\* removeNotification, in the panel
RemoveNotification(p, n) ==
  /\ n \in Ids(list[p]) /\ Happens
  /\ list' = [list EXCEPT ![p] = Without(@, n)]
  /\ Store(list'[p])
  /\ gone' = gone \cup ({n} \cap Sent)
  /\ shared' = IF Others(p, n) THEN shared \cup {n} ELSE shared
  /\ UNCHANGED <<server, streams, banner, timers>>

\* firstUpdated: the list comes from the storage, and with it the banner
Open(p) ==
  /\ link[p] = "closed" /\ Happens
  /\ link' = [link EXCEPT ![p] = "up"]
  /\ list' = [list EXCEPT ![p] = stored]
  /\ banner' = [banner EXCEPT ![p] = Unread(stored)]
  /\ UNCHANGED <<server, hand, orphans, timers, storage, removals>>

\* beforeunload: the stream is closed, and its request on the server goes on until
\* it notices
Leave(p) ==
  /\ link[p] # "closed" /\ Happens
  /\ link' = [link EXCEPT ![p] = "closed"]
  /\ hand' = [hand EXCEPT ![p] = <<>>]
  /\ orphans' = IF link[p] = "up" THEN orphans + 1 ELSE orphans
  /\ stored' = IF kept THEN Marked(list[p], Ids(list[p])) ELSE stored
  /\ list' = [list EXCEPT ![p] = <<>>]
  /\ banner' = [banner EXCEPT ![p] = FALSE]
  /\ timers' = [timers EXCEPT ![p] = NoTimers]
  /\ UNCHANGED <<server, kept, removals>>

\* "a hard reset for debugging purposes": somebody clears the storage
Reset ==
  /\ kept /\ Happens
  /\ stored' = <<>> /\ kept' = FALSE
  /\ UNCHANGED <<server, streams, panel, removals>>

Next ==
  \/ Send \/ GiveUp \/ TakeForNobody \/ OrphanEnds \/ Reset
  \/ \E p \in Pages :
       \/ Take(p) \/ Arrive(p) \/ FlushSlow(p) \/ Reconnect(p)
       \/ NotifyHere(p) \/ Dismiss(p) \/ Open(p) \/ Leave(p)
       \/ \E n \in Sent \cup {Here} : Timer(p, n) \/ RemoveNotification(p, n)

Spec == Init /\ [][Next]_vars

-----------------------------------------------------------------------------
(* Properties.                                                             *)

\* "assumption is that the first notification is the one that was displayed"
\* (notification.ts:122): whatever pages listen, leave, come back, and store over
\* each other's lists, a page lists the notifications of the server newest first,
\* and none of them twice.
FirstIsNewest ==
  \A p \in Pages : \A i, j \in DOMAIN list[p] :
    i < j /\ Here \notin {list[p][i].id, list[p][j].id} =>
      list[p][i].id > list[p][j].id

\* What the user has removed in the only page that lists it does not come back
\* (notification.ts:142).  A page that lists it too brings it back with whatever it
\* stores next.
RemovedStaysAway ==
  \A n \in gone \ shared :
    n \notin Ids(stored) /\ \A p \in Pages : n \notin Ids(list[p])
=============================================================================
