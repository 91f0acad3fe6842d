----------------------------- MODULE SearchBox ------------------------------
(***************************************************************************)
(* The search panel (wt-search): a text is typed or filters are chosen,    *)
(* the panel waits half a second for more, asks the server, and keeps the  *)
(* last answer, with the text, in the session for the next time it is      *)
(* opened.  Answers come in any order, and each may change the filters:    *)
(* applyFacets writes the dates of the answer into the boxes, and the      *)
(* author and the data source are lost if the answer does not list them.   *)
(***************************************************************************)
EXTENDS Naturals, FiniteSets

CONSTANTS
  Queries,  \* the texts that are typed
  Choices,  \* what the boxes for dates, author and data source may hold
  MaxEvents \* bound on the keystrokes, choices and reopenings

VARIABLES
  input,   \* the text in the box
  filter,  \* what is in the other boxes
  timer,   \* a timeout is pending
  loading, \* isLoading
  error,   \* error
  shown,   \* whose answer the panel shows
  session, \* searchResponse and searchQuery (the text) in sessionStorage; late:
           \* stored while a newer search was on its way (history)
  reqs,    \* the requests under way
  count,   \* how many requests were sent (history)
  events,  \* how many keystrokes, choices and reopenings there were (history)
  astray,  \* what is shown came late, or the filters failed (history)
  wanted   \* the filters of the last performSearch, as long as no answer has
           \* changed the boxes before they were sent (history)

vars == <<input, filter, timer, loading, error, shown, session, reqs, count, events,
          astray, wanted>>

NoQuery == "none"
All == "all"          \* no filter, as the boxes are drawn
Cleared == "cleared"  \* no answer is shown
Filters == "filters"  \* the answer of /search/filters
Unknown == "unknown"

\* what is asked for: the text and the filters
Asked(q, f) == [q |-> q, f |-> f]
Nothing == Asked(Cleared, All)
NoSession == [response |-> Nothing, query |-> NoQuery, late |-> FALSE]

\* one more request, for the answer to a
Ask(a) ==
  /\ count' = count + 1
  /\ reqs' = reqs \cup {[a |-> a, n |-> count + 1]}

Init ==
  /\ input = NoQuery /\ filter = All /\ shown = Nothing
  /\ timer = FALSE /\ loading = FALSE /\ error = FALSE
  /\ session = NoSession
  /\ reqs = {[a |-> Asked(Filters, All), n |-> 1]} /\ count = 1
  /\ events = 0 /\ astray = FALSE /\ wanted = Unknown

-----------------------------------------------------------------------------
\* performSearch: what is shown and what is stored is cleared; a text is sent
\* after a while; for an empty box, the filters are asked for at once, and a
\* pending timeout goes on.
PerformSearch ==
  /\ shown' = Nothing /\ error' = FALSE
  /\ session' = NoSession
  /\ loading' = (input' # NoQuery)
  /\ IF input' = NoQuery
       THEN Ask(Asked(Filters, All)) /\ UNCHANGED timer
       ELSE timer' = TRUE /\ UNCHANGED <<reqs, count>>
  /\ wanted' = filter'
  /\ UNCHANGED astray

Type(q) ==
  /\ events < MaxEvents /\ events' = events + 1
  /\ input' = q /\ UNCHANGED filter
  /\ PerformSearch

Choose(f) ==
  /\ events < MaxEvents /\ events' = events + 1
  /\ filter' = f /\ UNCHANGED input
  /\ PerformSearch

\* The timeout: search() sends what is in the boxes now.
Fire ==
  /\ timer /\ timer' = FALSE
  /\ Ask(Asked(input, filter))
  /\ UNCHANGED <<input, filter, loading, error, shown, session, events, astray, wanted>>

\* applyFacets: the boxes hold what they held or what the answer brings; a search
\* that waits for its timeout will send that.
ApplyFacets ==
  /\ filter' \in Choices \cup {All}
  /\ wanted' = IF timer THEN Unknown ELSE wanted

\* search(): the answer is shown, and stored with the text in the box now.
Answer(r) ==
  /\ r \in reqs /\ r.a.q # Filters
  /\ reqs' = reqs \ {r}
  /\ shown' = r.a
  /\ ApplyFacets
  /\ session' = [response |-> r.a, query |-> input, late |-> timer \/ r.n # count]
  /\ loading' = FALSE
  /\ astray' = (r.n # count)
  /\ UNCHANGED <<input, timer, error, count, events>>

\* mutant of Fail: the end of loading is left out
FailLoading(r) ==
  /\ r \in reqs /\ r.a.q # Filters
  /\ reqs' = reqs \ {r}
  /\ error' = TRUE
  /\ UNCHANGED <<input, filter, timer, loading, shown, session, count, events, astray,
                 wanted>>

Fail(r) ==
  /\ r \in reqs /\ r.a.q # Filters
  /\ reqs' = reqs \ {r}
  /\ error' = TRUE
  /\ loading' = FALSE
  /\ UNCHANGED <<input, filter, timer, shown, session, count, events, astray, wanted>>

\* getDefaultFilters
AnswerFilters(r) ==
  /\ r \in reqs /\ r.a.q = Filters
  /\ reqs' = reqs \ {r}
  /\ \/ shown' = r.a /\ astray' = (r.n # count) /\ ApplyFacets
     \/ astray' = TRUE /\ UNCHANGED <<shown, filter, wanted>> \* nobody handles a failure
  /\ UNCHANGED <<input, timer, loading, error, session, count, events>>

\* mutant of Reopen: the text is not restored
ReopenBlank ==
  /\ events < MaxEvents /\ events' = events + 1
  /\ timer' = FALSE /\ loading' = FALSE /\ error' = FALSE
  /\ input' = NoQuery /\ filter' = All /\ wanted' = Unknown
  /\ shown' = session.response
  /\ reqs' = IF session = NoSession THEN {[a |-> Asked(Filters, All), n |-> count]} ELSE {}
  /\ astray' = session.late
  /\ UNCHANGED <<session, count>>

\* The page is left and the panel opened again: firstUpdated restores the answer
\* and the text, and of the filters only what the answer brings.
Reopen ==
  /\ events < MaxEvents /\ events' = events + 1
  /\ timer' = FALSE /\ loading' = FALSE /\ error' = FALSE
  /\ input' = session.query
  /\ shown' = session.response
  /\ IF session = NoSession
     THEN /\ reqs' = {[a |-> Asked(Filters, All), n |-> count + 1]} /\ count' = count + 1
          /\ filter' = All
     ELSE /\ reqs' = {} /\ UNCHANGED count
          /\ filter' \in Choices \cup {All}
  /\ astray' = session.late /\ wanted' = Unknown
  /\ UNCHANGED session

Next ==
  \/ \E q \in Queries \cup {NoQuery} : Type(q)
  \/ \E f \in Choices \cup {All} : Choose(f)
  \/ Fire \/ Reopen
  \/ \E r \in reqs : Answer(r) \/ Fail(r) \/ AnswerFilters(r)

Spec == Init /\ [][Next]_vars

-----------------------------------------------------------------------------
(* Properties.                                                             *)

\* The panel waits for something: while it shows that it is loading, a timeout
\* or a search is on its way that will end it (search.ts:92).
LoadingHasACause == loading => timer \/ \E r \in reqs : r.a.q # Filters

\* When nothing is on its way, the answer that is shown is the one to the text in
\* the box, also after the panel was opened again, and, until then, to the filters
\* that were in their boxes when it was asked for; unless an error is shown, an
\* older answer came last, the session's was stored with a newer search on its
\* way, or (for the filters) an answer that came before the timeout has changed
\* the boxes.  What the boxes hold once the answer is there is another matter:
\* applyFacets changes them after the search, and only the text is kept in the
\* session (search.ts:149).
ShownIsAsked ==
  ~timer /\ reqs = {} /\ ~error /\ ~astray =>
    \/ input = NoQuery /\ shown.q = Filters
    \/ shown.q = input /\ (wanted # Unknown => shown.f = wanted)
=============================================================================
