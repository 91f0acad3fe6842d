------------------------ MODULE NotebookPage_proofs ------------------------
(***************************************************************************)
(* Proofs about NotebookPage.tla, for any number of pages, cells and       *)
(* edits: what a page shows once it has its answers, and removed cells.    *)
(***************************************************************************)
EXTENDS NotebookPage, TLAPS

-----------------------------------------------------------------------------
(* Notebooks and requests.                                                 *)

\* The notebook n after cell c was given manifest m
Changed(n, c, m) == [n EXCEPT !.cells[c] = m]

LEMMA EmptyFacts == IsNotebook(NoNotebook) /\ DOMAIN NoNotebook.cells = {}
BY EventsAssumption DEF NoNotebook, IsNotebook

LEMMA PutFacts ==
  ASSUME NEW f, NEW c, NEW m, NEW S, f \in [DOMAIN f -> S], m \in S
  PROVE  /\ DOMAIN Put(f, c, m) = DOMAIN f \cup {c}
         /\ Put(f, c, m) \in [DOMAIN f \cup {c} -> S]
         /\ Put(f, c, m)[c] = m
BY DEF Put

LEMMA RestrictFacts ==
  ASSUME NEW f, NEW D, NEW S, f \in [DOMAIN f -> S], D \subseteq DOMAIN f
  PROVE  DOMAIN Restrict(f, D) = D /\ Restrict(f, D) \in [D -> S]
BY DEF Restrict

LEMMA NotebookFacts ==
  ASSUME NEW t \in 0..MaxEvents, NEW f, f \in [DOMAIN f -> Manifests],
         DOMAIN f \subseteq Cells \cup Drafts
  PROVE  IsNotebook(Notebook(t, f)) /\ Notebook(t, f).cells = f
BY DEF Notebook, IsNotebook

LEMMA FieldFacts ==
  ASSUME NEW n, IsNotebook(n)
  PROVE  /\ n.title \in 0..MaxEvents /\ n.there \in BOOLEAN
         /\ DOMAIN n.cells \subseteq Cells \cup Drafts
         /\ n.cells \in [DOMAIN n.cells -> Manifests]
         /\ n = [title |-> n.title, cells |-> n.cells, there |-> n.there]
BY DEF IsNotebook

LEMMA ChangedFacts ==
  ASSUME NEW n, IsNotebook(n), NEW c \in DOMAIN n.cells, NEW m \in Manifests
  PROVE  /\ IsNotebook(Changed(n, c, m))
         /\ DOMAIN Changed(n, c, m).cells = DOMAIN n.cells
         /\ Changed(n, c, m).cells[c] = m
         /\ \A x \in DOMAIN n.cells \ {c} : Changed(n, c, m).cells[x] = n.cells[x]
         /\ m = n.cells[c] => Changed(n, c, m) = n
<1>1. n = [title |-> n.title, cells |-> n.cells, there |-> n.there]
  BY FieldFacts
<1> DEFINE f == [n.cells EXCEPT ![c] = m]
<1>2. Changed(n, c, m) = [title |-> n.title, cells |-> f, there |-> n.there]
  BY <1>1 DEF Changed
<1>3. DOMAIN f = DOMAIN n.cells /\ f \in [DOMAIN f -> Manifests] /\ f[c] = m
      /\ \A x \in DOMAIN n.cells \ {c} : f[x] = n.cells[x]
  BY FieldFacts
<1>4. m = n.cells[c] => f = n.cells
  BY FieldFacts
<1> HIDE DEF f
<1>5. IsNotebook([title |-> n.title, cells |-> f, there |-> n.there])
  BY <1>3, FieldFacts DEF IsNotebook
<1>6. m = n.cells[c] => Changed(n, c, m) = n
  BY <1>1, <1>2, <1>4
<1> QED BY <1>2, <1>3, <1>5, <1>6

LEMMA ReplacedFacts ==
  ASSUME NEW c \in DOMAIN stored.cells, NEW m \in Manifests, IsNotebook(stored)
  PROVE  Replaced(c, m) = Changed(stored, c, m)
<1>1. stored = [title |-> stored.title, cells |-> stored.cells, there |-> stored.there]
  BY FieldFacts
<1>2. stored.cells \in [DOMAIN stored.cells -> Manifests]
  BY FieldFacts
<1>3. [stored.cells EXCEPT ![c] = m] = Put(stored.cells, c, m)
  BY <1>2 DEF Put
<1>4. Changed(stored, c, m)
      = [title |-> stored.title, cells |-> [stored.cells EXCEPT ![c] = m], there |-> stored.there]
  BY <1>1 DEF Changed
<1>5. Replaced(c, m)
      = [title |-> stored.title, cells |-> Put(stored.cells, c, m), there |-> stored.there]
  BY <1>1 DEF Replaced
<1> QED BY <1>3, <1>4, <1>5

LEMMA SentFacts ==
  /\ \A p \in Pages : \A n : IsNotebook(n) => IsRequest(Request(p, "save", n))
  /\ \A p \in Pages : IsRequest(Request(p, "read", NoNotebook))
  /\ \A p \in Pages, c \in Cells, m \in Manifests :
        IsRequest(Request(p, "data", [cell |-> c, m |-> m]))
BY EmptyFacts DEF IsRequest, Request, Unnamed

\* Request r with its answer
Answered(r, st, b) == [r EXCEPT !.served = st, !.body = b]

LEMMA AnsweredFacts ==
  ASSUME NEW r, IsRequest(r), NEW st \in {"ok", "bad"}, NEW b,
         IF r.kind = "data" THEN b \in [cell : Cells, m : Manifests]
         ELSE IsNotebook(b) /\ (r.kind = "read" => Unnamed(b) = {})
  PROVE  /\ IsRequest(Answered(r, st, b))
         /\ Answered(r, st, b).page = r.page /\ Answered(r, st, b).kind = r.kind
         /\ Answered(r, st, b).body = b /\ Answered(r, st, b).served = st
         /\ Answered(r, st, b).late = r.late
<1>1. r \in [page : {r.page}, kind : {r.kind}, body : {r.body}, served : {r.served}, late : {r.late}]
  BY DEF IsRequest
<1>2. Answered(r, st, b)
      \in [page : {r.page}, kind : {r.kind}, body : {b}, served : {st}, late : {r.late}]
  BY <1>1 DEF Answered
<1>3. /\ r.page \in Pages /\ r.kind \in {"save", "read", "data"} /\ r.late \in BOOLEAN
  BY DEF IsRequest
<1> QED BY <1>2, <1>3 DEF IsRequest

\* Request r, after somebody else wrote
Aged(r) == [r EXCEPT !.late = r.served # "no"]

LEMMA AgedFacts ==
  ASSUME NEW r, IsRequest(r)
  PROVE  /\ IsRequest(Aged(r))
         /\ Aged(r).page = r.page /\ Aged(r).kind = r.kind
         /\ Aged(r).body = r.body /\ Aged(r).served = r.served
         /\ Aged(r).late = (r.served # "no")
<1>1. r = [page |-> r.page, kind |-> r.kind, body |-> r.body, served |-> r.served, late |-> r.late]
  BY DEF IsRequest
<1>2. Aged(r) = [page |-> r.page, kind |-> r.kind, body |-> r.body, served |-> r.served,
                 late |-> r.served # "no"]
  BY <1>1 DEF Aged
<1>3. /\ r.page \in Pages /\ r.kind \in {"save", "read", "data"}
      /\ r.served \in {"no", "ok", "bad"}
      /\ IF r.kind = "data" THEN r.body \in [cell : Cells, m : Manifests]
         ELSE IsNotebook(r.body) /\ (r.kind = "read" => Unnamed(r.body) = {})
  BY DEF IsRequest
<1> QED BY <1>2, <1>3 DEF IsRequest

\* Request r, answered although its write was dropped
Misled(r) == [r EXCEPT !.served = "ok", !.late = TRUE]

LEMMA MisledFacts ==
  ASSUME NEW r, IsRequest(r)
  PROVE  /\ IsRequest(Misled(r))
         /\ Misled(r).page = r.page /\ Misled(r).kind = r.kind /\ Misled(r).late
<1>1. r \in [page : {r.page}, kind : {r.kind}, body : {r.body}, served : {r.served}, late : {r.late}]
  BY DEF IsRequest
<1>2. Misled(r)
      \in [page : {r.page}, kind : {r.kind}, body : {r.body}, served : {"ok"}, late : {TRUE}]
  BY <1>1 DEF Misled
<1>3. /\ r.page \in Pages /\ r.kind \in {"save", "read", "data"}
      /\ IF r.kind = "data" THEN r.body \in [cell : Cells, m : Manifests]
         ELSE IsNotebook(r.body) /\ (r.kind = "read" => Unnamed(r.body) = {})
  BY DEF IsRequest
<1> QED BY <1>2, <1>3 DEF IsRequest

LEMMA StartedFacts ==
  ASSUME TypeOK, NEW p \in Pages, NEW n, IsNotebook(n)
  PROVE  /\ Started(p, n) = [q \in Pages |-> Started(p, n)[q]]
         /\ DOMAIN Started(p, n)[p] = Shown(n) /\ Shown(n) \subseteq Cells
         /\ Started(p, n)[p] \in [Shown(n) -> Manifests]
         /\ \A q \in Pages \ {p} : Started(p, n)[q] = prog[q]
<1>1. /\ prog = [q \in Pages |-> prog[q]]
      /\ prog[p] \in [DOMAIN prog[p] -> Manifests]
  BY DEF TypeOK
<1>2. n.cells \in [DOMAIN n.cells -> Manifests] /\ Shown(n) \subseteq DOMAIN n.cells
      /\ Shown(n) \subseteq Cells
  BY FieldFacts DEF Shown
<1> DEFINE f == [c \in Shown(n) |-> IF c \in DOMAIN prog[p] THEN prog[p][c] ELSE n.cells[c]]
<1>3. f \in [Shown(n) -> Manifests] /\ DOMAIN f = Shown(n)
  BY <1>1, <1>2
<1>4. Started(p, n) = [prog EXCEPT ![p] = f]
  BY Zenon DEF Started
<1> HIDE DEF f
<1>5. /\ [prog EXCEPT ![p] = f] = [q \in Pages |-> [prog EXCEPT ![p] = f][q]]
      /\ [prog EXCEPT ![p] = f][p] = f
      /\ \A q \in Pages \ {p} : [prog EXCEPT ![p] = f][q] = prog[q]
  BY <1>1
<1> QED BY ONLY <1>2, <1>3, <1>4, <1>5, Zenon

LEMMA FirstPostsFacts ==
  ASSUME NEW p \in Pages, NEW n, IsNotebook(n), NEW r \in FirstPosts(p, n)
  PROVE  IsRequest(r) /\ r.page = p /\ r.kind = "data" /\ r.served = "no"
<1>1. PICK c \in Shown(n) : r = Request(p, "data", [cell |-> c, m |-> n.cells[c]])
  BY DEF FirstPosts
<1>2. c \in Cells /\ n.cells[c] \in Manifests
  BY FieldFacts DEF Shown
<1>3. IsRequest(r)
  BY <1>1, <1>2, SentFacts, Zenon
<1>4. r.page = p /\ r.kind = "data" /\ r.served = "no"
  BY <1>1 DEF Request
<1> QED BY <1>3, <1>4

-----------------------------------------------------------------------------
(* The invariant.  A page that is not behind knows the stored notebook, or *)
(* has a request on its way that will tell.                                *)

Told(r) == r.kind = "data" /\ r.served = "ok"

\* An answer that nobody has overtaken says what is stored
AnswerHolds(r) ==
  r.served = "ok" /\ ~r.late =>
    /\ r.kind = "read" => r.body = stored
    /\ r.kind = "data" => r.body.cell \in DOMAIN stored.cells /\ stored.cells[r.body.cell] = r.body.m

AnswersHold == \A r \in reqs : AnswerHolds(r)

\* A save is followed by a read, and a read replaces the page's copy
WillRead(p) == \E r \in reqs : r.page = p /\ r.kind # "data"

ShowsNothing(p) == nb[p] = NoNotebook /\ DOMAIN prog[p] = {}

\* The page will be told of a write that somebody has overtaken
WillFallBehind(p) ==
  \E r \in reqs : /\ r.page = p /\ Told(r) /\ r.late
                  /\ r.body.cell \in DOMAIN prog[p] \cap Shown(nb[p])

\* The page has the stored notebook, but for one cell of which it will be told
ToBeTold(p, r) ==
  /\ r.page = p /\ Told(r) /\ ~r.late
  /\ r.body.cell \in Shown(nb[p])
  /\ stored = Changed(nb[p], r.body.cell, r.body.m)

UpToDate(p) ==
  /\ DOMAIN prog[p] = Shown(nb[p])
  /\ nb[p] = stored \/ \E r \in reqs : ToBeTold(p, r)

Knows(p) == WillRead(p) \/ ShowsNothing(p) \/ WillFallBehind(p) \/ UpToDate(p)

PageInv ==
  /\ TypeOK
  /\ AnswersHold
  /\ \A p \in Pages \ behind : Knows(p)

-----------------------------------------------------------------------------
(* What the steps that write nothing keep.                                 *)

LEMMA KnowsKept ==
  ASSUME NEW p \in Pages, Knows(p), stored' = stored, nb'[p] = nb[p],
         DOMAIN prog'[p] = DOMAIN prog[p],
         \A r \in reqs : r.page = p /\ (r.kind # "data" \/ Told(r)) => r \in reqs'
  PROVE  Knows(p)'
<1>1. CASE WillRead(p)
  BY <1>1 DEF Knows, WillRead
<1>2. CASE ShowsNothing(p)
  BY <1>2 DEF Knows, ShowsNothing
<1>3. CASE WillFallBehind(p)
  BY <1>3 DEF Knows, WillFallBehind, Told, Shown
<1>4. CASE UpToDate(p)
  BY <1>4 DEF Knows, UpToDate, ToBeTold, Told, Shown, Changed
<1> QED BY <1>1, <1>2, <1>3, <1>4 DEF Knows

LEMMA AnswersKept ==
  ASSUME AnswersHold, stored' = stored,
         \A r \in reqs' : r \in reqs \/ r.served # "ok" \/ r.late \/ AnswerHolds(r)
  PROVE  AnswersHold'
BY DEF AnswersHold, AnswerHolds

LEMMA EmptyRead ==
  ASSUME NEW p \in Pages
  PROVE  LET r == Request(p, "read", NoNotebook) IN
           IsRequest(r) /\ r.page = p /\ r.kind = "read" /\ r.served = "no"
<1>1. IsRequest(Request(p, "read", NoNotebook))
  BY SentFacts
<1> QED BY <1>1 DEF Request

LEMMA PageInit == Init => PageInv
<1> SUFFICES ASSUME Init PROVE PageInv
  OBVIOUS
<1>1. PICK cs \in SUBSET Cells : stored = Notebook(0, [x \in cs |-> Manifest(0, 0)])
  BY DEF Init
<1>2. IsNotebook(stored) /\ Unnamed(stored) = {}
  <2> DEFINE f == [x \in cs |-> Manifest(0, 0)]
  <2>1. f \in [DOMAIN f -> Manifests] /\ DOMAIN f = cs
    BY EventsAssumption DEF Manifest, Manifests
  <2>2. IsNotebook(Notebook(0, f)) /\ Notebook(0, f).cells = f
    BY <2>1, NotebookFacts, EventsAssumption
  <2> QED BY <1>1, <2>1, <2>2, CellsAssumption DEF Unnamed
<1>3. /\ nb = [p \in Pages |-> nb[p]] /\ prog = [p \in Pages |-> prog[p]]
      /\ \A p \in Pages : IsNotebook(nb[p])
      /\ \A p \in Pages : DOMAIN prog[p] = {} /\ prog[p] \in [DOMAIN prog[p] -> Manifests]
  BY EmptyFacts DEF Init
<1>4. \A r \in reqs : IsRequest(r) /\ r.served = "no"
  BY EmptyRead DEF Init
<1>5. \A p \in Pages : WillRead(p)
  BY EmptyRead DEF Init, WillRead
<1>6. edits = 0 /\ lost = 0 /\ behind = {}
  BY DEF Init
<1>7. AnswersHold
  BY <1>4 DEF AnswersHold, AnswerHolds
<1>8. TypeOK
  BY <1>2, <1>3, <1>4, <1>6, EventsAssumption DEF TypeOK
<1> QED BY <1>5, <1>7, <1>8 DEF PageInv, Knows

-----------------------------------------------------------------------------
(* The steps of a page.                                                    *)

LEMMA SaveStep ==
  ASSUME PageInv, NEW p \in Pages, NEW n, IsNotebook(n), edits + lost < MaxEvents,
         Save(p, n), prog' \in {prog, Started(p, nb[p])}
  PROVE  PageInv'
<1> DEFINE s == Request(p, "save", n)
<1>1. IsRequest(s) /\ s.page = p /\ s.kind = "save" /\ s.served = "no"
  BY SentFacts DEF Request
<1>2. nb' = [nb EXCEPT ![p] = n] /\ reqs' = reqs \cup {s} /\ edits' = edits + 1
      /\ UNCHANGED <<stored, lost, behind>>
  BY DEF Save
<1> HIDE DEF s
<1>3. /\ prog' = [q \in Pages |-> prog'[q]]
      /\ \A q \in Pages : DOMAIN prog'[q] \subseteq Cells /\ prog'[q] \in [DOMAIN prog'[q] -> Manifests]
      /\ \A q \in Pages \ {p} : prog'[q] = prog[q]
  <2>1. CASE prog' = prog
    BY <2>1 DEF PageInv, TypeOK
  <2>2. CASE prog' = Started(p, nb[p])
    <3>1. /\ \A q \in Pages : DOMAIN prog[q] \subseteq Cells /\ prog[q] \in [DOMAIN prog[q] -> Manifests]
          /\ TypeOK /\ IsNotebook(nb[p])
      BY DEF PageInv, TypeOK
    <3> QED BY ONLY p \in Pages, <2>2, <3>1, StartedFacts
  <2> QED BY <2>1, <2>2
<1>4. /\ nb' = [q \in Pages |-> nb'[q]] /\ \A q \in Pages : IsNotebook(nb'[q])
      /\ \A q \in Pages \ {p} : nb'[q] = nb[q]
  BY <1>2 DEF PageInv, TypeOK
<1>5. edits' \in Nat /\ lost' \in Nat /\ edits' + lost' <= MaxEvents
  BY <1>2, EventsAssumption DEF PageInv, TypeOK
<1>6. TypeOK'
  BY <1>1, <1>2, <1>3, <1>4, <1>5 DEF PageInv, TypeOK, IsNotebook, IsRequest, Manifests
<1>7. AnswersHold'
  BY <1>1, <1>2, AnswersKept DEF PageInv
<1>8. ASSUME NEW q \in Pages \ behind' PROVE Knows(q)'
  <2>1. CASE q = p
    BY <1>1, <1>2, <2>1 DEF Knows, WillRead
  <2>2. CASE q # p
    BY <1>2, <1>3, <1>4, <1>8, <2>2, KnowsKept DEF PageInv
  <2> QED BY <2>1, <2>2
<1> QED BY <1>6, <1>7, <1>8 DEF PageInv

\* What a page saves is what it had: cells may be gone, and one may be new
SavesItsOwn(p) ==
  /\ \E n : /\ IsNotebook(n) /\ DOMAIN n.cells \subseteq DOMAIN nb[p].cells \cup Drafts
           /\ Save(p, n)
  /\ edits + lost < MaxEvents
  /\ prog' \in {prog, Started(p, nb[p])}

LEMMA EditTitleSaves ==
  ASSUME TypeOK, NEW p \in Pages, EditTitle(p)
  PROVE  SavesItsOwn(p)
<1> DEFINE n == [nb[p] EXCEPT !.title = edits + 1]
<1>1. IsNotebook(nb[p]) /\ edits \in Nat /\ lost \in Nat /\ edits + lost < MaxEvents
  BY DEF TypeOK, EditTitle, CanEdit
<1>2. IsNotebook(n) /\ n.cells = nb[p].cells
  <2>1. nb[p] = [title |-> nb[p].title, cells |-> nb[p].cells, there |-> nb[p].there]
    BY <1>1, FieldFacts
  <2>2. n = [title |-> edits + 1, cells |-> nb[p].cells, there |-> nb[p].there]
    BY <2>1
  <2>3. edits + 1 \in 0..MaxEvents
    BY <1>1, EventsAssumption
  <2> HIDE DEF n
  <2> QED BY <1>1, <2>2, <2>3 DEF IsNotebook
<1>3. Save(p, n) /\ prog' \in {prog, Started(p, nb[p])}
  BY DEF EditTitle
<1> QED BY <1>1, <1>2, <1>3 DEF SavesItsOwn

LEMMA EditLayoutSaves ==
  ASSUME TypeOK, NEW p \in Pages, EditLayout(p)
  PROVE  SavesItsOwn(p)
<1>1. IsNotebook(nb[p]) /\ edits \in Nat /\ lost \in Nat /\ edits + lost < MaxEvents
  BY DEF TypeOK, EditLayout, CanEdit
<1>2. PICK c \in Shown(nb[p]) : Save(p, [nb[p] EXCEPT !.cells[c].lay = edits + 1])
  BY DEF EditLayout
<1> DEFINE m == [nb[p].cells[c] EXCEPT !.lay = edits + 1]
<1>3. m \in Manifests /\ c \in DOMAIN nb[p].cells
  BY <1>1, FieldFacts, EventsAssumption DEF Manifests, Shown
<1>4. Save(p, Changed(nb[p], c, m))
  BY <1>2 DEF Changed
<1> HIDE DEF m
<1>5. IsNotebook(Changed(nb[p], c, m)) /\ DOMAIN Changed(nb[p], c, m).cells = DOMAIN nb[p].cells
  BY <1>1, <1>3, ChangedFacts
<1>6. prog' \in {prog, Started(p, nb[p])}
  BY DEF EditLayout
<1> QED BY <1>1, <1>4, <1>5, <1>6 DEF SavesItsOwn

LEMMA CreateCellSaves ==
  ASSUME TypeOK, NEW p \in Pages, CreateCell(p)
  PROVE  SavesItsOwn(p)
<1>1. IsNotebook(nb[p]) /\ edits \in Nat /\ lost \in Nat /\ edits + lost < MaxEvents
  BY DEF TypeOK, CreateCell, CanEdit
<1>0. PICK d \in Drafts :
        Save(p, Notebook(nb[p].title, Put(nb[p].cells, d, Manifest(edits + 1, 0))))
  BY DEF CreateCell
<1> DEFINE f == Put(nb[p].cells, d, Manifest(edits + 1, 0))
<1>2. Manifest(edits + 1, 0) \in Manifests
  BY <1>1, EventsAssumption DEF Manifest, Manifests
<1>3. DOMAIN f \subseteq Cells \cup Drafts /\ DOMAIN f \subseteq DOMAIN nb[p].cells \cup Drafts
      /\ f \in [DOMAIN f -> Manifests]
  <2>1. DOMAIN nb[p].cells \subseteq Cells \cup Drafts /\ nb[p].cells \in [DOMAIN nb[p].cells -> Manifests]
    BY <1>1, FieldFacts
  <2>2. DOMAIN f = DOMAIN nb[p].cells \cup {d} /\ f \in [DOMAIN nb[p].cells \cup {d} -> Manifests]
    BY ONLY <2>1, <1>2, PutFacts
  <2> QED BY ONLY <2>1, <2>2
<1>4. Save(p, Notebook(nb[p].title, f)) /\ prog' \in {prog, Started(p, nb[p])}
  BY <1>0 DEF CreateCell
<1> HIDE DEF f
<1>5. IsNotebook(Notebook(nb[p].title, f)) /\ Notebook(nb[p].title, f).cells = f
  BY <1>1, <1>3, FieldFacts, NotebookFacts
<1> QED BY <1>1, <1>3, <1>4, <1>5 DEF SavesItsOwn

LEMMA RemoveCellSaves ==
  ASSUME TypeOK, NEW p \in Pages, RemoveCell(p)
  PROVE  SavesItsOwn(p)
<1>1. IsNotebook(nb[p]) /\ edits \in Nat /\ lost \in Nat /\ edits + lost < MaxEvents
  BY DEF TypeOK, RemoveCell, CanEdit
<1>2. PICK c \in Shown(nb[p]) :
        Save(p, Notebook(nb[p].title, Restrict(nb[p].cells, DOMAIN nb[p].cells \ {c})))
  BY DEF RemoveCell
<1> DEFINE f == Restrict(nb[p].cells, DOMAIN nb[p].cells \ {c})
<1>3. DOMAIN f \subseteq Cells \cup Drafts /\ DOMAIN f \subseteq DOMAIN nb[p].cells \cup Drafts
      /\ f \in [DOMAIN f -> Manifests]
  <2>1. DOMAIN nb[p].cells \subseteq Cells \cup Drafts /\ nb[p].cells \in [DOMAIN nb[p].cells -> Manifests]
    BY <1>1, FieldFacts
  <2>2. DOMAIN f = DOMAIN nb[p].cells \ {c} /\ f \in [DOMAIN nb[p].cells \ {c} -> Manifests]
    BY ONLY <2>1, RestrictFacts
  <2> QED BY ONLY <2>1, <2>2
<1>4. Save(p, Notebook(nb[p].title, f)) /\ prog' \in {prog, Started(p, nb[p])}
  BY <1>2 DEF RemoveCell
<1> HIDE DEF f
<1>5. IsNotebook(Notebook(nb[p].title, f)) /\ Notebook(nb[p].title, f).cells = f
  BY <1>1, <1>3, FieldFacts, NotebookFacts
<1> QED BY <1>1, <1>3, <1>4, <1>5 DEF SavesItsOwn

LEMMA EditSaves ==
  ASSUME TypeOK, NEW p \in Pages, Edit(p)
  PROVE  EditPivots(p) \/ SavesItsOwn(p)
BY EditTitleSaves, EditLayoutSaves, CreateCellSaves, RemoveCellSaves DEF Edit

LEMMA EditPivotsStep ==
  ASSUME PageInv, NEW p \in Pages, EditPivots(p)
  PROVE  PageInv'
<1>1. PICK c \in DOMAIN prog[p] :
        LET m == [prog[p][c] EXCEPT !.piv = edits + 1] IN
          /\ prog' = [prog EXCEPT ![p][c] = m]
          /\ reqs' = reqs \cup {Request(p, "data", [cell |-> c, m |-> m])}
  BY DEF EditPivots
<1> DEFINE m == [prog[p][c] EXCEPT !.piv = edits + 1]
           s == Request(p, "data", [cell |-> c, m |-> m])
<1>2. /\ edits \in Nat /\ lost \in Nat /\ edits + lost < MaxEvents /\ edits' = edits + 1
      /\ UNCHANGED <<stored, nb, lost, behind>>
  BY DEF PageInv, TypeOK, EditPivots
<1>3. c \in Cells /\ m \in Manifests
  BY <1>2, EventsAssumption DEF PageInv, TypeOK, Manifests
<1>4. prog' = [prog EXCEPT ![p][c] = m] /\ reqs' = reqs \cup {s}
  BY <1>1
<1> HIDE DEF m
<1>5. IsRequest(s) /\ s.served = "no"
  BY <1>3, SentFacts DEF Request
<1> HIDE DEF s
<1>6. /\ prog' = [q \in Pages |-> prog'[q]]
      /\ \A q \in Pages : DOMAIN prog'[q] = DOMAIN prog[q] /\ prog'[q] \in [DOMAIN prog[q] -> Manifests]
  BY <1>3, <1>4 DEF PageInv, TypeOK
<1>7. edits' \in Nat /\ lost' \in Nat /\ edits' + lost' <= MaxEvents
  BY <1>2, EventsAssumption
<1>8. TypeOK'
  BY <1>2, <1>4, <1>5, <1>6, <1>7 DEF PageInv, TypeOK, IsNotebook, IsRequest, Manifests
<1>9. AnswersHold'
  BY <1>2, <1>4, <1>5, AnswersKept DEF PageInv
<1>10. ASSUME NEW q \in Pages \ behind' PROVE Knows(q)'
  BY <1>2, <1>4, <1>6, <1>10, KnowsKept DEF PageInv
<1> QED BY <1>8, <1>9, <1>10 DEF PageInv

LEMMA SavedStep ==
  ASSUME PageInv, NEW r \in reqs, Saved(r)
  PROVE  PageInv'
<1> DEFINE s == Request(r.page, "read", NoNotebook)
<1>1. IsRequest(r) /\ r.page \in Pages
  BY DEF PageInv, TypeOK, IsRequest
<1>2. IsRequest(s) /\ s.page = r.page /\ s.kind = "read" /\ s.served = "no"
  BY <1>1, EmptyRead
<1>3. reqs' = (reqs \ {r}) \cup {s} /\ UNCHANGED <<stored, nb, prog, edits, lost, behind>>
  BY DEF Saved
<1> HIDE DEF s
<1>4. TypeOK'
  BY <1>2, <1>3 DEF PageInv, TypeOK, IsNotebook, IsRequest, Manifests
<1>5. AnswersHold'
  BY <1>2, <1>3, AnswersKept DEF PageInv
<1>6. ASSUME NEW q \in Pages \ behind' PROVE Knows(q)'
  <2>1. CASE q = r.page
    BY <1>2, <1>3, <2>1 DEF Knows, WillRead
  <2>2. CASE q # r.page
    BY <1>3, <1>6, <2>2, KnowsKept DEF PageInv
  <2> QED BY <2>1, <2>2
<1> QED BY <1>4, <1>5, <1>6 DEF PageInv

LEMMA LostStep ==
  ASSUME PageInv, NEW r \in reqs, Lost(r)
  PROVE  PageInv'
<1>1. /\ reqs' = reqs \ {r} /\ lost' = lost + 1 /\ behind' = behind \cup {r.page}
      /\ UNCHANGED <<stored, nb, prog, edits>> /\ edits + lost < MaxEvents
  BY DEF Lost
<1>2. edits' \in Nat /\ lost' \in Nat /\ edits' + lost' <= MaxEvents
  BY <1>1, EventsAssumption DEF PageInv, TypeOK
<1>3. r.page \in Pages
  BY DEF PageInv, TypeOK, IsRequest
<1>4. TypeOK'
  BY <1>1, <1>2, <1>3 DEF PageInv, TypeOK, IsNotebook, IsRequest, Manifests
<1>5. AnswersHold'
  BY <1>1, AnswersKept DEF PageInv
<1>6. ASSUME NEW q \in Pages \ behind' PROVE Knows(q)'
  BY <1>1, <1>6, KnowsKept DEF PageInv
<1> QED BY <1>4, <1>5, <1>6 DEF PageInv

\* The page draws notebook n, after an answer
LEMMA DrawTypes ==
  ASSUME TypeOK, NEW r \in reqs, NEW n, IsNotebook(n),
         nb' = [nb EXCEPT ![r.page] = n], prog' = Started(r.page, n),
         reqs' = (reqs \ {r}) \cup FirstPosts(r.page, n),
         behind' \subseteq Pages, UNCHANGED <<stored, edits, lost>>
  PROVE  /\ TypeOK'
         /\ r.page \in Pages /\ nb'[r.page] = n /\ DOMAIN prog'[r.page] = Shown(n)
         /\ \A q \in Pages \ {r.page} : nb'[q] = nb[q] /\ prog'[q] = prog[q]
         /\ \A s \in reqs' : s \in reqs \/ s.served = "no"
<1>1. r.page \in Pages
  BY DEF TypeOK, IsRequest
<1>2. /\ prog' = [q \in Pages |-> prog'[q]]
      /\ DOMAIN prog'[r.page] = Shown(n) /\ Shown(n) \subseteq Cells
      /\ prog'[r.page] \in [Shown(n) -> Manifests]
      /\ \A q \in Pages \ {r.page} : prog'[q] = prog[q]
  BY <1>1, StartedFacts
<1>3. /\ nb' = [q \in Pages |-> nb'[q]] /\ nb'[r.page] = n
      /\ \A q \in Pages \ {r.page} : nb'[q] = nb[q]
  BY <1>1 DEF TypeOK
<1>4. \A s \in FirstPosts(r.page, n) : IsRequest(s) /\ s.served = "no"
  BY <1>1, FirstPostsFacts
<1>5. \A q \in Pages : IsNotebook(nb'[q])
  BY <1>3 DEF TypeOK
<1>6. \A q \in Pages : DOMAIN prog'[q] \subseteq Cells /\ prog'[q] \in [DOMAIN prog'[q] -> Manifests]
  BY <1>2 DEF TypeOK
<1>7. \A s \in reqs' : IsRequest(s) /\ (s \in reqs \/ s.served = "no")
  BY <1>4 DEF TypeOK
<1>8. TypeOK'
  BY <1>2, <1>3, <1>5, <1>6, <1>7 DEF TypeOK, IsNotebook, IsRequest, Manifests
<1> QED BY <1>1, <1>2, <1>3, <1>7, <1>8

LEMMA FetchedStep ==
  ASSUME PageInv, NEW r \in reqs, Fetched(r)
  PROVE  PageInv'
<1> DEFINE n == IF r.served = "ok" THEN r.body ELSE NoNotebook
           p == r.page
<1>1. IsRequest(r) /\ r.kind = "read" /\ r.served # "no" /\ p \in Pages
  BY DEF PageInv, TypeOK, IsRequest, Fetched
<1>2. IsNotebook(n)
  BY <1>1, EmptyFacts DEF IsRequest
<1>3. /\ nb' = [nb EXCEPT ![p] = n] /\ prog' = Started(p, n)
      /\ reqs' = (reqs \ {r}) \cup FirstPosts(p, n)
      /\ behind' = IF r.late THEN behind \cup {p} ELSE behind \ {p}
      /\ UNCHANGED <<stored, edits, lost>>
  BY DEF Fetched
<1>4. n = stored \/ n = NoNotebook \/ r.late
  BY <1>1 DEF PageInv, AnswersHold, AnswerHolds
<1> HIDE DEF n
<1>5. behind' \subseteq Pages /\ (p \notin behind' => ~r.late)
  BY <1>1, <1>3 DEF PageInv, TypeOK
<1>6. /\ TypeOK'
      /\ nb'[p] = n /\ DOMAIN prog'[p] = Shown(n)
      /\ \A q \in Pages \ {p} : nb'[q] = nb[q] /\ prog'[q] = prog[q]
      /\ \A s \in reqs' : s \in reqs \/ s.served = "no"
  BY <1>2, <1>3, <1>5, DrawTypes DEF PageInv
<1>7. AnswersHold'
  BY <1>3, <1>6, AnswersKept DEF PageInv
<1>8. ASSUME NEW q \in Pages \ behind' PROVE Knows(q)'
  <2>1. CASE q = p
    <3>1. CASE n = stored
      BY <1>3, <1>6, <2>1, <3>1 DEF Knows, UpToDate, Shown
    <3>2. CASE n = NoNotebook
      BY <1>6, <2>1, <3>2, EmptyFacts DEF Knows, ShowsNothing, Shown
    <3> QED BY <1>4, <1>5, <1>8, <2>1, <3>1, <3>2
  <2>2. CASE q # p
    BY <1>3, <1>6, <1>8, <2>2, KnowsKept DEF PageInv
  <2> QED BY <2>1, <2>2
<1> QED BY <1>6, <1>7, <1>8 DEF PageInv

\* A page that is told what was stored, before somebody writes again: it has the
\* stored notebook, or still has what it had and waits for the same answers.
LEMMA ToldCell ==
  ASSUME TypeOK, AnswersHold, NEW r \in reqs, Told(r), ~r.late, UpToDate(r.page),
         r.body.cell \in Shown(nb[r.page])
  PROVE  LET n == Changed(nb[r.page], r.body.cell, r.body.m) IN
           \/ n = stored
           \/ n = nb[r.page] /\ \E s \in reqs \ {r} : ToBeTold(r.page, s)
<1> DEFINE p == r.page
           c == r.body.cell
           m == r.body.m
<1>1. p \in Pages /\ c \in Cells /\ m \in Manifests /\ IsNotebook(nb[p])
  BY DEF TypeOK, IsRequest, Told
<1>2. c \in DOMAIN nb[p].cells /\ stored.cells[c] = m
  BY DEF AnswersHold, AnswerHolds, Told, Shown
<1>3. m = nb[p].cells[c] => Changed(nb[p], c, m) = nb[p]
  BY <1>1, <1>2, ChangedFacts
<1>4. CASE nb[p] = stored
  BY <1>2, <1>3, <1>4
<1>5. ASSUME NEW s \in reqs, ToBeTold(p, s)
      PROVE  \/ Changed(nb[p], c, m) = stored
             \/ Changed(nb[p], c, m) = nb[p] /\ s # r
  <2>1. /\ s.body.cell \in DOMAIN nb[p].cells /\ s.body.m \in Manifests
        /\ stored = Changed(nb[p], s.body.cell, s.body.m)
    BY <1>5 DEF ToBeTold, Shown, TypeOK, IsRequest, Told
  <2>2. /\ stored.cells[s.body.cell] = s.body.m
        /\ \A x \in DOMAIN nb[p].cells \ {s.body.cell} : stored.cells[x] = nb[p].cells[x]
    BY <1>1, <2>1, ChangedFacts
  <2>3. CASE s.body.cell = c
    BY <1>2, <2>1, <2>2, <2>3
  <2>4. CASE s.body.cell # c
    BY <1>2, <1>3, <2>2, <2>4
  <2> QED BY <2>3, <2>4
<1> QED BY <1>4, <1>5 DEF UpToDate

LEMMA PostedStep ==
  ASSUME PageInv, NEW r \in reqs, Posted(r)
  PROVE  PageInv'
<1> DEFINE p == r.page
           c == r.body.cell
           told == r.served = "ok" /\ c \in DOMAIN prog[p]
           n == IF told /\ c \in Shown(nb[p]) THEN [nb[p] EXCEPT !.cells[c] = r.body.m] ELSE nb[p]
<1>1. IsRequest(r) /\ r.kind = "data" /\ p \in Pages /\ c \in Cells /\ r.body.m \in Manifests
      /\ IsNotebook(nb[p]) /\ TypeOK /\ AnswersHold /\ behind \subseteq Pages
  BY DEF PageInv, TypeOK, IsRequest, Posted
<1>2. /\ nb' = [nb EXCEPT ![p] = n]
      /\ prog' = IF told THEN Started(p, n) ELSE prog
      /\ reqs' = (reqs \ {r}) \cup (IF told THEN FirstPosts(p, n) ELSE {})
      /\ behind' = IF told /\ r.late THEN behind \cup {p} ELSE behind
      /\ UNCHANGED <<stored, edits, lost>>
  BY DEF Posted
<1>3. n = IF told /\ c \in Shown(nb[p]) THEN Changed(nb[p], c, r.body.m) ELSE nb[p]
  BY DEF Changed
<1>4. IsNotebook(n) /\ Shown(n) = Shown(nb[p])
  <2>1. CASE told /\ c \in Shown(nb[p])
    <3>1. c \in DOMAIN nb[p].cells
      BY <2>1 DEF Shown
    <3>2. n = Changed(nb[p], c, r.body.m)
      BY <1>3, <2>1
    <3> HIDE DEF n
    <3>3. /\ IsNotebook(Changed(nb[p], c, r.body.m))
          /\ DOMAIN Changed(nb[p], c, r.body.m).cells = DOMAIN nb[p].cells
      BY <1>1, <3>1, ChangedFacts
    <3> QED BY <3>2, <3>3 DEF Shown
  <2>2. CASE ~(told /\ c \in Shown(nb[p]))
    BY <1>1, <2>2
  <2> QED BY <2>1, <2>2
<1>5. told <=> Told(r) /\ c \in DOMAIN prog[p]
  BY <1>1 DEF Told
<1> HIDE DEF n
<1>6. CASE ~told
  <2>1. nb' = nb /\ prog' = prog /\ reqs' = reqs \ {r} /\ behind' = behind
    BY <1>1, <1>2, <1>3, <1>6 DEF TypeOK
  <2>2. TypeOK'
    BY <1>1, <1>2, <2>1 DEF TypeOK, IsNotebook, IsRequest, Manifests
  <2>3. AnswersHold'
    BY <1>1, <1>2, <2>1, AnswersKept
  <2>4. ASSUME NEW q \in Pages \ behind' PROVE Knows(q)'
    <3>1. Knows(q)
      BY <2>1, <2>4 DEF PageInv
    <3>2. CASE WillRead(q)
      BY <1>1, <2>1, <3>2 DEF Knows, WillRead
    <3>3. CASE ShowsNothing(q)
      BY <2>1, <3>3 DEF Knows, ShowsNothing
    <3>4. CASE WillFallBehind(q)
      BY <1>2, <1>5, <1>6, <2>1, <3>4 DEF Knows, WillFallBehind, Told, Shown
    <3>5. CASE UpToDate(q)
      BY <1>2, <1>5, <1>6, <2>1, <3>5 DEF Knows, UpToDate, ToBeTold, Told, Shown, Changed
    <3> QED BY <3>1, <3>2, <3>3, <3>4, <3>5 DEF Knows
  <2> QED BY <2>2, <2>3, <2>4 DEF PageInv
<1>7. CASE told
  <2> DEFINE b == IF r.late THEN behind \cup {p} ELSE behind
  <2>1. /\ nb' = [nb EXCEPT ![p] = n] /\ prog' = Started(p, n)
        /\ reqs' = (reqs \ {r}) \cup FirstPosts(p, n)
        /\ behind' = b /\ b \subseteq Pages /\ UNCHANGED <<stored, edits, lost>>
    BY <1>1, <1>2, <1>7
  <2>2. /\ TypeOK'
        /\ nb'[p] = n /\ DOMAIN prog'[p] = Shown(n)
        /\ \A q \in Pages \ {p} : nb'[q] = nb[q] /\ prog'[q] = prog[q]
        /\ \A s \in reqs' : s \in reqs \/ s.served = "no"
    BY <1>1, <1>4, <2>1, DrawTypes
  <2>3. AnswersHold'
    BY <1>1, <2>1, <2>2, AnswersKept
  <2>4. ASSUME NEW q \in Pages \ behind', q # p PROVE Knows(q)'
    BY <2>1, <2>2, <2>4, KnowsKept DEF PageInv
  <2>5. ASSUME p \notin behind' PROVE Knows(p)'
    <3>1. Knows(p) /\ ~r.late /\ Told(r) /\ c \in DOMAIN prog[p]
      BY <1>1, <1>5, <1>7, <2>1, <2>5 DEF PageInv
    <3>2. CASE WillRead(p)
      BY <1>1, <2>1, <3>2 DEF Knows, WillRead
    <3>3. CASE ShowsNothing(p)
      BY <3>1, <3>3 DEF ShowsNothing
    <3>4. CASE WillFallBehind(p)
      <4>1. PICK s \in reqs : /\ s.page = p /\ Told(s) /\ s.late
                              /\ s.body.cell \in DOMAIN prog[p] \cap Shown(nb[p])
        BY <3>4 DEF WillFallBehind
      <4>2. s \in reqs' /\ s.body.cell \in DOMAIN prog'[p] \cap Shown(nb'[p])
        BY <1>4, <2>1, <2>2, <3>1, <4>1
      <4>3. Told(s)' /\ s.page = p /\ s.late
        BY <4>1 DEF Told
      <4> QED BY <4>2, <4>3 DEF Knows, WillFallBehind, Shown
    <3>5. CASE UpToDate(p)
      <4>1. c \in Shown(nb[p]) /\ n = Changed(nb[p], c, r.body.m)
        BY <1>3, <1>7, <3>1, <3>5 DEF UpToDate
      <4>2. \/ n = stored
            \/ n = nb[p] /\ \E s \in reqs \ {r} : ToBeTold(p, s)
        BY <1>1, <3>1, <3>5, <4>1, ToldCell
      <4>3. CASE n = stored
        BY <2>1, <2>2, <4>3 DEF Knows, UpToDate, Shown
      <4>4. CASE n = nb[p] /\ \E s \in reqs \ {r} : ToBeTold(p, s)
        <5>1. PICK s \in reqs \ {r} : ToBeTold(p, s)
          BY <4>4
        <5>2. s \in reqs' /\ ToBeTold(p, s)'
          BY <2>1, <2>2, <4>4, <5>1 DEF ToBeTold, Told, Shown, Changed
        <5> QED BY <2>2, <5>2 DEF Knows, UpToDate, Shown
      <4> QED BY <4>2, <4>3, <4>4
    <3> QED BY <3>1, <3>2, <3>3, <3>4, <3>5 DEF Knows
  <2>6. ASSUME NEW q \in Pages \ behind' PROVE Knows(q)'
    BY <2>4, <2>5, <2>6
  <2> QED BY <2>2, <2>3, <2>6 DEF PageInv
<1> QED BY <1>6, <1>7

-----------------------------------------------------------------------------
(* The steps of the server.                                                *)

\* Request r gets its answer s, and nothing is written
LEMMA AnswerStep ==
  ASSUME PageInv, NEW r \in reqs, r.served = "no", NEW s, IsRequest(s),
         s.page = r.page, s.kind = r.kind, s.served # "ok" \/ s.late \/ AnswerHolds(s),
         reqs' = (reqs \ {r}) \cup {s},
         UNCHANGED <<stored, nb, prog, edits, lost, behind>>
  PROVE  PageInv'
<1>1. TypeOK'
  BY DEF PageInv, TypeOK, IsNotebook, IsRequest, Manifests
<1>2. AnswersHold'
  BY AnswersKept DEF PageInv
<1>3. ASSUME NEW q \in Pages \ behind' PROVE Knows(q)'
  <2>1. CASE r.page = q /\ r.kind # "data"
    BY <2>1 DEF Knows, WillRead
  <2>2. CASE ~(r.page = q /\ r.kind # "data")
    <3>1. \A x \in reqs : x.page = q /\ (x.kind # "data" \/ Told(x)) => x \in reqs'
      BY <2>2 DEF Told
    <3> QED BY <1>3, <3>1, KnowsKept DEF PageInv
  <2> QED BY <2>1, <2>2
<1> QED BY <1>1, <1>2, <1>3 DEF PageInv

\* Request r is answered by s, after a write that the pages ps cannot know
LEMMA WriteStep ==
  ASSUME PageInv, NEW r \in reqs, r.served = "no", NEW s, IsRequest(s),
         s.page = r.page, s.kind = r.kind, AnswerHolds(s)',
         IsNotebook(stored'), Unnamed(stored') = {},
         NEW ps \in {Pages, Pages \ {r.page}}, behind' = behind \cup ps,
         reqs' = {Aged(x) : x \in reqs \ {r}} \cup {s},
         UNCHANGED <<nb, prog, edits, lost>>,
         r.page \notin behind' => Knows(r.page)'
  PROVE  PageInv'
<1>1. \A x \in reqs : IsRequest(Aged(x)) /\ (Aged(x).served = "ok" => Aged(x).late)
  BY AgedFacts DEF PageInv, TypeOK
<1>2. \A x \in reqs' : IsRequest(x)
  BY <1>1
<1>3. TypeOK'
  BY <1>2 DEF PageInv, TypeOK, IsNotebook, IsRequest, Manifests
<1>4. AnswersHold'
  BY <1>1 DEF AnswersHold, AnswerHolds
<1>5. \A q \in Pages \ behind' : q = r.page
  OBVIOUS
<1> QED BY <1>3, <1>4, <1>5 DEF PageInv

LEMMA WroteFacts ==
  ASSUME NEW r, NEW st, NEW b, NEW ps, Wrote(r, st, b, ps)
  PROVE  /\ behind' = behind \cup ps
         /\ reqs' = {Aged(x) : x \in reqs \ {r}} \cup {Answered(r, st, b)}
BY DEF Wrote, Aged, Answered

LEMMA ServeReadStep ==
  ASSUME PageInv, NEW r \in reqs, ServeRead(r)
  PROVE  PageInv'
<1>1. IsRequest(r) /\ r.kind = "read" /\ r.served = "no" /\ IsNotebook(r.body)
      /\ Unnamed(r.body) = {} /\ IsNotebook(stored) /\ Unnamed(stored) = {}
      /\ UNCHANGED <<stored, nb, prog, edits, lost, behind>>
  BY DEF PageInv, TypeOK, IsRequest, ServeRead
<1>2. PICK st \in {"ok", "bad"}, b \in {stored, r.body} :
        /\ st = "ok" => b = stored
        /\ reqs' = (reqs \ {r}) \cup {Answered(r, st, b)}
  BY DEF ServeRead, Answer, Answered
<1> DEFINE s == Answered(r, st, b)
<1>3. /\ IsRequest(s) /\ s.page = r.page /\ s.kind = r.kind
      /\ s.served = st /\ s.body = b
  BY <1>1, AnsweredFacts
<1> HIDE DEF s
<1>4. s.served # "ok" \/ s.late \/ AnswerHolds(s)
  BY <1>1, <1>2, <1>3 DEF AnswerHolds
<1> QED BY <1>1, <1>2, <1>3, <1>4, AnswerStep DEF s

LEMMA NamedFacts ==
  ASSUME NEW n, IsNotebook(n), NEW id \in Injection(Unnamed(n), Fresh)
  PROVE  /\ IsNotebook(Named(n, id)) /\ Unnamed(Named(n, id)) = {}
         /\ \A c \in DOMAIN Named(n, id).cells : c \in DOMAIN n.cells \/ c \in Fresh
<1>1. /\ n.title \in 0..MaxEvents /\ DOMAIN n.cells \subseteq Cells \cup Drafts
      /\ n.cells \in [DOMAIN n.cells -> Manifests]
  BY FieldFacts
<1>2. id \in [Unnamed(n) -> Fresh] /\ Fresh \subseteq Cells
  BY DEF Injection, Fresh
<1>3. /\ Range(id) \subseteq Fresh
      /\ \A c \in Range(id) : \E d \in Unnamed(n) : id[d] = c
  BY <1>2 DEF Range
<1> DEFINE D == Shown(n) \cup Range(id)
           v(c) == IF c \in Range(id) THEN n.cells[CHOOSE d \in Unnamed(n) : id[d] = c]
                   ELSE n.cells[c]
           f == [c \in D |-> v(c)]
<1>4. \A c \in D : v(c) \in Manifests
  <2> SUFFICES ASSUME NEW c \in D PROVE v(c) \in Manifests
    OBVIOUS
  <2>1. CASE c \in Range(id)
    <3>1. (CHOOSE d \in Unnamed(n) : id[d] = c) \in Unnamed(n)
      BY <1>3, <2>1
    <3> QED BY <1>1, <2>1, <3>1 DEF Unnamed
  <2>2. CASE c \notin Range(id)
    BY <1>1, <2>2 DEF Shown
  <2> QED BY <2>1, <2>2
<1>5. DOMAIN f = D /\ f \in [D -> Manifests]
  BY ONLY <1>4
<1>6. Named(n, id) = Notebook(n.title, f)
  BY DEF Named
<1> HIDE DEF f, v
<1>7. D \subseteq Cells /\ D \cap Drafts = {} /\ D \subseteq Cells \cup Drafts
  BY <1>1, <1>2, <1>3, CellsAssumption DEF Shown
<1>8. \A c \in D : c \in DOMAIN n.cells \/ c \in Fresh
  BY <1>3 DEF Shown
<1> HIDE DEF D
<1>9. IsNotebook(Notebook(n.title, f)) /\ Notebook(n.title, f).cells = f
  BY <1>1, <1>5, <1>7, NotebookFacts
<1> QED BY <1>5, <1>6, <1>7, <1>8, <1>9 DEF Unnamed

LEMMA ServeSaveStep ==
  ASSUME PageInv, NEW r \in reqs, ServeSave(r)
  PROVE  PageInv'
<1>1. IsRequest(r) /\ r.kind = "save" /\ r.served = "no" /\ ~r.late /\ IsNotebook(r.body)
      /\ UNCHANGED <<nb, prog, edits, lost>>
  BY DEF PageInv, TypeOK, IsRequest, ServeSave
<1>2. ASSUME NEW st \in {"ok", "bad"}
      PROVE  LET s == Answered(r, st, NoNotebook) IN
               /\ IsRequest(s) /\ s.page = r.page /\ s.kind = "save"
  BY <1>1, EmptyFacts, AnsweredFacts
<1>3. CASE /\ \E id \in Injection(Unnamed(r.body), Fresh) : stored' = Named(r.body, id)
           /\ Wrote(r, "ok", NoNotebook, Pages \ {r.page})
  <2> DEFINE s == Answered(r, "ok", NoNotebook)
  <2>1. PICK id \in Injection(Unnamed(r.body), Fresh) : stored' = Named(r.body, id)
    BY <1>3
  <2>2. IsNotebook(stored') /\ Unnamed(stored') = {}
    BY <1>1, <2>1, NamedFacts
  <2>3. /\ behind' = behind \cup (Pages \ {r.page})
        /\ reqs' = {Aged(x) : x \in reqs \ {r}} \cup {s}
    BY <1>3, WroteFacts
  <2>4. IsRequest(s) /\ s.page = r.page /\ s.kind = "save"
    BY <1>2
  <2> HIDE DEF s
  <2>5. Knows(r.page)'
    BY <1>1, <2>3, <2>4 DEF Knows, WillRead
  <2>6. AnswerHolds(s)'
    BY <2>4 DEF AnswerHolds
  <2> QED BY <1>1, <2>2, <2>3, <2>4, <2>5, <2>6, WriteStep
<1>4. CASE /\ UNCHANGED <<stored, behind>>
           /\ \E st \in {"ok", "bad"} : Answer(r, st, NoNotebook)
  <2>1. PICK st \in {"ok", "bad"} : reqs' = (reqs \ {r}) \cup {Answered(r, st, NoNotebook)}
    BY <1>4 DEF Answer, Answered
  <2> DEFINE s == Answered(r, st, NoNotebook)
  <2>2. IsRequest(s) /\ s.page = r.page /\ s.kind = "save"
    BY <1>2
  <2>3. reqs' = (reqs \ {r}) \cup {s}
    BY <2>1
  <2> HIDE DEF s
  <2>4. AnswerHolds(s)
    BY <2>2 DEF AnswerHolds
  <2> QED BY <1>1, <1>4, <2>2, <2>3, <2>4, AnswerStep
<1> QED BY <1>3, <1>4 DEF ServeSave

\* A page whose own write of a cell is answered by s
LEMMA KnowsItsWrite ==
  ASSUME TypeOK, NEW r \in reqs, r.kind = "data", r.served = "no", Knows(r.page),
         NEW s, s.page = r.page, Told(s), ~s.late, s.body = r.body,
         r.body.cell \in DOMAIN stored.cells,
         stored' = Changed(stored, r.body.cell, r.body.m), UNCHANGED <<nb, prog>>,
         reqs' = {Aged(x) : x \in reqs \ {r}} \cup {s}
  PROVE  Knows(r.page)'
<1> DEFINE p == r.page
           c == r.body.cell
<1>1. ASSUME NEW x \in reqs, x # r
      PROVE  /\ Aged(x) \in reqs' /\ Aged(x).page = x.page /\ Aged(x).kind = x.kind
             /\ Aged(x).body = x.body /\ Aged(x).served = x.served
             /\ Aged(x).late = (x.served # "no")
  BY <1>1, AgedFacts DEF TypeOK
<1>2. CASE WillRead(p)
  <2>1. PICK x \in reqs : x.page = p /\ x.kind # "data"
    BY <1>2 DEF WillRead
  <2> QED BY <1>1, <2>1 DEF Knows, WillRead
<1>3. CASE ShowsNothing(p)
  BY <1>3 DEF Knows, ShowsNothing
<1>4. ASSUME NEW x \in reqs, x.page = p, Told(x), x.body.cell \in DOMAIN prog[p] \cap Shown(nb[p])
      PROVE  Knows(p)'
  <2>1. x # r
    BY <1>4 DEF Told
  <2>2. Aged(x) \in reqs' /\ Told(Aged(x)) /\ Aged(x).late /\ Aged(x).page = p
        /\ Aged(x).body.cell \in DOMAIN prog[p] \cap Shown(nb[p])
    BY <1>1, <1>4, <2>1 DEF Told
  <2> QED BY <2>2 DEF Knows, WillFallBehind, Told, Shown
<1>5. CASE UpToDate(p) /\ nb[p] = stored
  <2>1. c \in Shown(nb[p])
    BY <1>5 DEF TypeOK, Shown, Unnamed
  <2>2. ToBeTold(p, s)' /\ s \in reqs'
    BY <1>5, <2>1 DEF ToBeTold, Told, Shown, Changed
  <2> QED BY <1>5, <2>2 DEF Knows, UpToDate, Shown
<1>6. CASE UpToDate(p) /\ \E x \in reqs : ToBeTold(p, x)
  BY <1>4, <1>6 DEF UpToDate, ToBeTold
<1>7. CASE WillFallBehind(p)
  BY <1>4, <1>7 DEF WillFallBehind
<1> QED BY <1>2, <1>3, <1>5, <1>6, <1>7 DEF Knows, UpToDate

LEMMA ServeDataStep ==
  ASSUME PageInv, NEW r \in reqs, ServeData(r)
  PROVE  PageInv'
<1> DEFINE c == r.body.cell
           m == r.body.m
<1>1. /\ IsRequest(r) /\ r.kind = "data" /\ r.served = "no" /\ ~r.late
      /\ r.page \in Pages /\ r.body \in [cell : Cells, m : Manifests]
      /\ c \in Cells /\ m \in Manifests
      /\ TypeOK /\ IsNotebook(stored) /\ Unnamed(stored) = {}
      /\ UNCHANGED <<nb, prog, edits, lost>>
  BY DEF PageInv, TypeOK, IsRequest, ServeData
<1>2. ASSUME NEW st \in {"ok", "bad"}
      PROVE  LET s == Answered(r, st, r.body) IN
               /\ IsRequest(s) /\ s.page = r.page /\ s.kind = "data"
               /\ s.body = r.body /\ s.served = st /\ ~s.late
  BY <1>1, AnsweredFacts
<1>3. CASE /\ Known(c) /\ stored' = Replaced(c, m)
           /\ \/ Wrote(r, "ok", r.body, Pages \ {r.page})
              \/ Wrote(r, "bad", r.body, Pages)
  <2>1. c \in DOMAIN stored.cells /\ stored' = Changed(stored, c, m)
    BY <1>1, <1>3, ReplacedFacts DEF Known
  <2>2. /\ IsNotebook(stored') /\ DOMAIN stored'.cells = DOMAIN stored.cells
        /\ stored'.cells[c] = m /\ Unnamed(stored') = {}
    BY <1>1, <2>1, ChangedFacts DEF Unnamed
  <2>3. PICK st \in {"ok", "bad"}, ps \in {Pages, Pages \ {r.page}} :
          /\ Wrote(r, st, r.body, ps)
          /\ st = "bad" => ps = Pages
    BY <1>3
  <2> DEFINE s == Answered(r, st, r.body)
  <2>4. behind' = behind \cup ps /\ reqs' = {Aged(x) : x \in reqs \ {r}} \cup {s}
    BY <2>3, WroteFacts
  <2>5. /\ IsRequest(s) /\ s.page = r.page /\ s.kind = "data"
        /\ s.body = r.body /\ s.served = st /\ ~s.late
    BY <1>2
  <2> HIDE DEF s
  <2>6. AnswerHolds(s)'
    BY <2>1, <2>2, <2>5 DEF AnswerHolds
  <2>7. ASSUME r.page \notin behind' PROVE Knows(r.page)'
    <3>1. Knows(r.page) /\ Told(s)
      BY <1>1, <2>3, <2>4, <2>5, <2>7 DEF PageInv, Told
    <3> QED BY <1>1, <2>1, <2>4, <2>5, <3>1, KnowsItsWrite
  <2> QED BY <1>1, <2>2, <2>4, <2>5, <2>6, <2>7, WriteStep
<1>4. CASE UNCHANGED <<stored, behind>> /\ Answer(r, "bad", r.body)
  <2> DEFINE s == Answered(r, "bad", r.body)
  <2>1. reqs' = (reqs \ {r}) \cup {s}
    BY <1>4 DEF Answer, Answered
  <2>2. IsRequest(s) /\ s.page = r.page /\ s.kind = r.kind /\ s.served # "ok"
    BY <1>1, <1>2
  <2> HIDE DEF s
  <2> QED BY <1>1, <1>4, <2>1, <2>2, AnswerStep
<1>5. CASE /\ UNCHANGED <<stored, behind>>
           /\ reqs' = (reqs \ {r}) \cup {[r EXCEPT !.served = "ok", !.late = TRUE]}
  <2> DEFINE s == Misled(r)
  <2>1. reqs' = (reqs \ {r}) \cup {s}
    BY <1>5 DEF Misled
  <2>2. IsRequest(s) /\ s.page = r.page /\ s.kind = r.kind /\ s.late
    BY <1>1, MisledFacts
  <2> HIDE DEF s
  <2> QED BY <1>1, <1>5, <2>1, <2>2, AnswerStep
<1> QED BY <1>3, <1>4, <1>5 DEF ServeData

LEMMA PageNext == PageInv /\ [Next]_vars => PageInv'
<1> SUFFICES ASSUME PageInv, [Next]_vars PROVE PageInv'
  OBVIOUS
<1>1. ASSUME NEW p \in Pages, Edit(p) PROVE PageInv'
  <2>1. EditPivots(p) \/ SavesItsOwn(p)
    BY <1>1, EditSaves DEF PageInv
  <2>2. CASE SavesItsOwn(p)
    BY <2>2, SaveStep DEF SavesItsOwn
  <2> QED BY <2>1, <2>2, EditPivotsStep
<1>2. ASSUME NEW r \in reqs, Serve(r) PROVE PageInv'
  BY <1>2, ServeSaveStep, ServeReadStep, ServeDataStep DEF Serve
<1>3. ASSUME NEW r \in reqs, Arrive(r) PROVE PageInv'
  BY <1>3, SavedStep, FetchedStep, PostedStep, LostStep DEF Arrive
<1>4. CASE UNCHANGED vars
  <2>1. TypeOK'
    BY <1>4 DEF vars, PageInv, TypeOK, IsNotebook, IsRequest, Manifests
  <2>2. AnswersHold'
    BY <1>4, AnswersKept DEF vars, PageInv
  <2>3. ASSUME NEW q \in Pages \ behind' PROVE Knows(q)'
    BY <1>4, <2>3, KnowsKept DEF vars, PageInv
  <2> QED BY <2>1, <2>2, <2>3 DEF PageInv
<1> QED BY <1>1, <1>2, <1>3, <1>4 DEF Next

LEMMA AlwaysPageInv == Spec => []PageInv
BY PageInit, PageNext, PTL DEF Spec

\* Pages, requests and the store keep their types, and every stored cell has an
\* identifier, whatever is saved, told and answered (hub/notebook.go:480).
THEOREM PageTypes == Spec => []TypeOK
<1>1. PageInv => TypeOK
  BY DEF PageInv
<1> QED BY <1>1, AlwaysPageInv, PTL

\* A page whose requests are all answered shows the stored notebook or nothing,
\* unless somebody wrote after its last read, or an answer was late or lost
\* (saveNotebook and fetchNotebook of notebook-body.ts).
THEOREM QuietPageAgrees == Spec => []AgreeUnlessOvertaken
<1>1. PageInv => AgreeUnlessOvertaken
  BY DEF PageInv, AgreeUnlessOvertaken, Quiet, Knows, WillRead, ShowsNothing,
         WillFallBehind, UpToDate, ToBeTold
<1> QED BY <1>1, AlwaysPageInv, PTL

-----------------------------------------------------------------------------
(* A cell that nobody holds.                                               *)

LEMMA GoneKept ==
  ASSUME NEW c, Gone(c), c \notin DOMAIN stored'.cells,
         \A p \in Pages : c \notin DOMAIN nb'[p].cells,
         \A s \in reqs' : s \in reqs \/ s.kind = "data" \/ c \notin DOMAIN s.body.cells
  PROVE  Gone(c)'
BY DEF Gone

LEMMA GoneAfterEdit ==
  ASSUME TypeOK, NEW c \in Cells, Gone(c), NEW p \in Pages, Edit(p)
  PROVE  Gone(c)'
<1>1. CASE EditPivots(p)
  <2>1. PICK x, m : reqs' = reqs \cup {Request(p, "data", [cell |-> x, m |-> m])}
    BY <1>1 DEF EditPivots
  <2> QED BY <1>1, <2>1, GoneKept DEF EditPivots, Request, Gone
<1>2. CASE SavesItsOwn(p)
  <2>1. PICK n : DOMAIN n.cells \subseteq DOMAIN nb[p].cells \cup Drafts /\ Save(p, n)
    BY <1>2 DEF SavesItsOwn
  <2>2. c \notin DOMAIN n.cells
    BY <2>1, CellsAssumption DEF Gone
  <2>3. stored' = stored /\ reqs' = reqs \cup {Request(p, "save", n)}
        /\ \A q \in Pages : nb'[q] = IF q = p THEN n ELSE nb[q]
    BY <2>1 DEF Save, TypeOK
  <2>4. Request(p, "save", n).body = n
    BY DEF Request
  <2> QED BY <2>2, <2>3, <2>4, GoneKept DEF Gone
<1> QED BY <1>1, <1>2, EditSaves

LEMMA GoneAfterArrival ==
  ASSUME TypeOK, NEW c \in Cells, Gone(c), NEW r \in reqs, Arrive(r)
  PROVE  Gone(c)'
<1>1. r.page \in Pages /\ IsRequest(r)
  BY DEF TypeOK, IsRequest
<1>2. CASE Saved(r)
  <2>1. Request(r.page, "read", NoNotebook).body = NoNotebook
    BY DEF Request
  <2> QED BY <1>2, <2>1, EmptyFacts, GoneKept DEF Saved, Gone
<1>3. CASE Lost(r)
  BY <1>3, GoneKept DEF Lost, Gone
<1>4. CASE Fetched(r)
  <2> DEFINE n == IF r.served = "ok" THEN r.body ELSE NoNotebook
  <2>1. /\ nb' = [nb EXCEPT ![r.page] = n] /\ stored' = stored
        /\ reqs' = (reqs \ {r}) \cup FirstPosts(r.page, n)
    BY <1>4 DEF Fetched
  <2>2. IsNotebook(n) /\ c \notin DOMAIN n.cells
    BY <1>1, <1>4, EmptyFacts DEF Fetched, IsRequest, Gone
  <2> HIDE DEF n
  <2>3. \A q \in Pages : nb'[q] = IF q = r.page THEN n ELSE nb[q]
    BY <2>1 DEF TypeOK
  <2>4. \A s \in FirstPosts(r.page, n) : s.kind = "data"
    BY <1>1, <2>2, FirstPostsFacts
  <2> QED BY <2>1, <2>2, <2>3, <2>4, GoneKept DEF Gone
<1>5. CASE Posted(r)
  <2> DEFINE p == r.page
             x == r.body.cell
             told == r.served = "ok" /\ x \in DOMAIN prog[p]
             n == IF told /\ x \in Shown(nb[p]) THEN [nb[p] EXCEPT !.cells[x] = r.body.m] ELSE nb[p]
  <2>1. /\ nb' = [nb EXCEPT ![p] = n] /\ stored' = stored
        /\ reqs' = (reqs \ {r}) \cup (IF told THEN FirstPosts(p, n) ELSE {})
    BY <1>5 DEF Posted
  <2>2. IsNotebook(nb[p]) /\ r.body.m \in Manifests
    BY <1>1, <1>5 DEF TypeOK, Posted, IsRequest
  <2>3. IsNotebook(n) /\ DOMAIN n.cells = DOMAIN nb[p].cells
    BY <2>2, ChangedFacts DEF Changed, Shown
  <2> HIDE DEF n
  <2>4. \A q \in Pages : nb'[q] = IF q = p THEN n ELSE nb[q]
    BY <2>1 DEF TypeOK
  <2>5. \A s \in FirstPosts(p, n) : s.kind = "data"
    BY <1>1, <2>3, FirstPostsFacts
  <2> QED BY <1>1, <2>1, <2>3, <2>4, <2>5, GoneKept DEF Gone
<1> QED BY <1>2, <1>3, <1>4, <1>5 DEF Arrive

LEMMA GoneAfterAnswer ==
  ASSUME TypeOK, NEW c \in Cells, Gone(c), \E q \in reqs : q.kind = "data" /\ q.body.cell = c,
         NEW r \in reqs, Serve(r)
  PROVE  Gone(c)'
<1>1. IsRequest(r) /\ nb' = nb
  BY DEF TypeOK, Serve, ServeSave, ServeRead, ServeData
<1>2. \A x \in reqs : Aged(x).kind = x.kind /\ Aged(x).body = x.body
  BY AgedFacts DEF TypeOK
<1>3. \A st \in {"ok", "bad"} : \A n :
        IsNotebook(n) /\ (r.kind = "read" => Unnamed(n) = {}) /\ r.kind # "data" =>
          Answered(r, st, n).body = n
  BY <1>1, AnsweredFacts
<1>4. CASE ServeSave(r)
  <2>1. r.kind = "save" /\ IsNotebook(r.body) /\ c \notin DOMAIN r.body.cells
    BY <1>1, <1>4 DEF ServeSave, IsRequest, Gone
  <2>2. PICK st \in {"ok", "bad"} :
          \A s \in reqs' : s = Answered(r, st, NoNotebook) \/ s \in reqs
                           \/ \E x \in reqs : s = Aged(x)
    <3>1. CASE Wrote(r, "ok", NoNotebook, Pages \ {r.page})
      BY <3>1, WroteFacts
    <3>2. CASE \E st \in {"ok", "bad"} : Answer(r, st, NoNotebook)
      BY <3>2 DEF Answer, Answered
    <3> QED BY <1>4, <3>1, <3>2 DEF ServeSave
  <2>3. \A s \in reqs' : s \in reqs \/ s.kind = "data" \/ c \notin DOMAIN s.body.cells
    BY <1>2, <1>3, <2>1, <2>2, EmptyFacts DEF Gone
  <2>4. c \notin DOMAIN stored'.cells
    <3>1. CASE stored' = stored
      BY <3>1 DEF Gone
    <3>2. ASSUME NEW id \in Injection(Unnamed(r.body), Fresh), stored' = Named(r.body, id)
          PROVE  c \notin DOMAIN stored'.cells
      <4>1. c \notin Fresh
        BY DEF Fresh
      <4> QED BY <2>1, <3>2, <4>1, NamedFacts
    <3> QED BY <1>4, <3>1, <3>2 DEF ServeSave
  <2> QED BY <1>1, <2>3, <2>4, GoneKept DEF Gone
<1>5. CASE ServeRead(r)
  <2>1. PICK st \in {"ok", "bad"}, b \in {stored, r.body} :
          reqs' = (reqs \ {r}) \cup {Answered(r, st, b)}
    BY <1>5 DEF ServeRead, Answer, Answered
  <2>2. /\ r.kind = "read" /\ IsNotebook(b) /\ Unnamed(b) = {} /\ c \notin DOMAIN b.cells
        /\ stored' = stored
    BY <1>1, <1>5 DEF ServeRead, IsRequest, TypeOK, Gone
  <2> QED BY <1>1, <1>3, <2>1, <2>2, GoneKept DEF Gone
<1>6. CASE ServeData(r)
  <2>1. r.kind = "data" /\ r.body \in [cell : Cells, m : Manifests]
    BY <1>1, <1>6 DEF ServeData, IsRequest
  <2>2. /\ \A st \in {"ok", "bad"} : Answered(r, st, r.body).kind = "data"
        /\ Misled(r).kind = "data"
    BY <1>1, <2>1, AnsweredFacts, MisledFacts
  <2>3. \A s \in reqs' : s \in reqs \/ s.kind = "data" \/ \E x \in reqs : s = Aged(x)
    <3>1. CASE \E st \in {"ok", "bad"}, ps \in {Pages, Pages \ {r.page}} : Wrote(r, st, r.body, ps)
      BY <2>2, <3>1, WroteFacts
    <3>2. CASE Answer(r, "bad", r.body)
      BY <2>2, <3>2 DEF Answer, Answered
    <3>3. CASE reqs' = (reqs \ {r}) \cup {[r EXCEPT !.served = "ok", !.late = TRUE]}
      BY <2>2, <3>3 DEF Misled
    <3> QED BY <1>6, <3>1, <3>2, <3>3 DEF ServeData
  <2>4. \A s \in reqs' : s \in reqs \/ s.kind = "data" \/ c \notin DOMAIN s.body.cells
    BY <1>2, <2>3 DEF Gone
  <2>5. DOMAIN stored'.cells = DOMAIN stored.cells
    <3>1. CASE stored' = stored
      BY <3>1
    <3>2. CASE Known(r.body.cell) /\ stored' = Replaced(r.body.cell, r.body.m)
      BY <2>1, <3>2, ReplacedFacts, ChangedFacts DEF Known, TypeOK
    <3> QED BY <1>6, <3>1, <3>2 DEF ServeData
  <2> QED BY <1>1, <2>4, <2>5, GoneKept DEF Gone
<1> QED BY <1>4, <1>5, <1>6 DEF Serve

\* A removed cell that no page shows and no save or read carries stays away,
\* though its program goes on and sends its manifest: the server refuses the
\* manifest of a cell it does not have (_storeCell, store_notebook.go:202).
THEOREM RemovedStaysRemoved == Spec => GoneForGood
<1>1. TypeOK /\ [Next]_vars
      => [\A c \in Cells : Gone(c) /\ (\E r \in reqs : r.kind = "data" /\ r.body.cell = c) => Gone(c)']_vars
  BY GoneAfterEdit, GoneAfterArrival, GoneAfterAnswer DEF Next
<1> QED BY <1>1, PageTypes, PTL DEF Spec, GoneForGood
=============================================================================
