----------------------------- MODULE MCBrowser ------------------------------
(***************************************************************************)
(* Four parts of what runs in a browser: the text editor, the search       *)
(* panel, the drawing of a cell, and the notifications with their server.  *)
(* They share no state: a behaviour is one of one part, and the others     *)
(* rest.                                                                   *)
(***************************************************************************)
EXTENDS EditorSync

CONSTANTS
  Queries, Choices, MaxSearches, \* of the search panel
  MaxNodes, MaxGen, MaxEntity, Stale, \* of the drawing
  Capacity, MaxSends, MaxClicks \* of the notifications

VARIABLES
  part,
  input, filter, timer, loading, error, shown, session, searched, asked, searches, astray,
  wanted,
  dom, g1, sparse, gen, broken, proper,
  queue, waiting, link, hand, orphans, list, banner, dismissals, local, kept, sends,
  clicks, gone, shared

panel == <<input, filter, timer, loading, error, shown, session, searched, asked, searches,
           astray, wanted>>
cell == <<dom, g1, sparse, gen, broken, proper>>
notes == <<queue, waiting, link, hand, orphans, list, banner, dismissals, local, kept,
           sends, clicks, gone, shared>>

Search == INSTANCE SearchBox WITH
  MaxEvents <- MaxSearches, reqs <- searched, count <- asked, events <- searches
View == INSTANCE ViewPatch
Note == INSTANCE Notifications WITH
  Pages <- Tabs, MaxEvents <- MaxClicks, timers <- dismissals, stored <- local,
  events <- clicks

\* no text that is typed is taken for a request for the filters, or for none
ASSUME QueriesAssumption == Search!Filters \notin Queries /\ Search!NoQuery \notin Queries

\* The program remembers identifiers that the engine once gave.
ASSUME DrawingAssumption ==
  MaxNodes \in Nat /\ MaxEntity \in Nat /\ Stale \subseteq 1..MaxEntity

\* One initial state of each of the parts that rest is enough.
BrowserInit ==
  /\ Init /\ Search!Init /\ View!Init /\ Note!Init
  /\ part \in IF stored = Empty THEN {"editor", "search", "view", "notes"} ELSE {"editor"}

BrowserNext ==
  \/ part = "editor" /\ Next /\ UNCHANGED <<panel, cell, notes, part>>
  \/ part = "search" /\ Search!Next /\ UNCHANGED <<vars, cell, notes, part>>
  \/ part = "view" /\ View!Turn /\ UNCHANGED <<vars, panel, notes, part>>
  \/ part = "notes" /\ Note!Next /\ UNCHANGED <<vars, panel, cell, part>>

BrowserSpec == BrowserInit /\ [][BrowserNext]_<<vars, panel, cell, notes, part>>

-----------------------------------------------------------------------------
(* The properties of the instances: see their modules.                     *)

\* While the search panel shows that it is loading, something is on its way
\* that will end it (search.ts).
LoadingHasACause == Search!LoadingHasACause

\* At rest the search panel shows the answer to the text in the box (search.ts).
ShownIsAsked == Search!ShownIsAsked

\* The engine knows the elements of the page by their identifiers, with their
\* handlers and their place (etree.go, buildView of datacell.ts).
InSync == View!InSync

\* The page draws every program that reuses only what is there (buildView).
DrawnToTheEnd == View!DrawnToTheEnd

\* A page lists the notifications of the server newest first, each once
\* (notifications.go, notification.ts).
FirstIsNewest == Note!FirstIsNewest

\* A notification that was removed in the only page that listed it does not come
\* back (notification.ts).
RemovedStaysAway == Note!RemovedStaysAway
=============================================================================
