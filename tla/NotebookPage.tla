---------------------------- MODULE NotebookPage ----------------------------
(***************************************************************************)
(* The pages that show one notebook (wt-notebook-body), the programs of    *)
(* their cells (wt-data), and the stored notebook they all write.          *)
(*                                                                         *)
(* The page saves its whole copy of the notebook and reads it again; the   *)
(* program of a cell sends its own copy of the cell, which the server puts *)
(* into the stored notebook whole (StoreCell), and tells its page.  Every  *)
(* request is served at once (NotebookStore has the transactions), answers *)
(* come in any order or not at all.  Edits are numbered; a field holds the *)
(* number of its last edit.                                                *)
(***************************************************************************)
EXTENDS Naturals, FiniteSets, Functions

CONSTANTS
  Pages,    \* the pages that show the notebook
  Cells,    \* identifiers of cells
  Drafts,   \* stand for the cells of a page that have no identifier yet
  MaxEvents \* bound on the edits and the requests that get no answer

ASSUME EventsAssumption == MaxEvents \in Nat

VARIABLES
  stored, \* the notebook in the database
  nb,     \* this.notebook of each page
  prog,   \* the manifests held by the programs of each page
  reqs,   \* the requests that were sent and not answered yet
  edits,  \* how many edits were made (history)
  lost,   \* how many requests got no answer (history)
  behind  \* pages that cannot know what is stored: see AgreeUnlessOvertaken (history)

vars == <<stored, nb, prog, reqs, edits, lost, behind>>

\* a created cell has no identifier until the server has saved it
ASSUME CellsAssumption == Cells \cap Drafts = {}

NoNotebook == [title |-> 0, cells |-> <<>>, there |-> FALSE]

Notebook(title, cells) == [title |-> title, cells |-> cells, there |-> TRUE]
Manifest(lay, piv) == [lay |-> lay, piv |-> piv]

\* The cells with m under c, in the place of what was there
Put(cells, c, m) == [x \in DOMAIN cells \cup {c} |-> IF x = c THEN m ELSE cells[x]]

\* The cells that are drawn: those with an identifier
Shown(n) == DOMAIN n.cells \ Drafts

\* late: somebody wrote after the request was served
Request(p, kind, body) == [page |-> p, kind |-> kind, body |-> body, served |-> "no", late |-> FALSE]

Init ==
  /\ \E cs \in {{}} \cup {{c} : c \in Cells} :
       stored = Notebook(0, [x \in cs |-> Manifest(0, 0)])
  /\ nb = [p \in Pages |-> NoNotebook]
  /\ prog = [p \in Pages |-> <<>>]
  /\ reqs = {Request(p, "read", NoNotebook) : p \in Pages}
  /\ edits = 0 /\ lost = 0
  /\ behind = {}

-----------------------------------------------------------------------------
(* The page.                                                               *)

\* render(): the cells that are new start their program, which sends its manifest
\* at once to get its data; those that are gone end theirs.  The others keep the
\* manifest they started with.
Started(p, n) ==
  [prog EXCEPT ![p] =
     [c \in Shown(n) |-> IF c \in DOMAIN prog[p] THEN prog[p][c] ELSE n.cells[c]]]

FirstPosts(p, n) ==
  {Request(p, "data", [cell |-> c, m |-> n.cells[c]]) : c \in Shown(n) \ DOMAIN prog[p]}

\* saveNotebook: the whole copy is sent
Save(p, n) ==
  /\ nb' = [nb EXCEPT ![p] = n]
  /\ reqs' = reqs \cup {Request(p, "save", n)}
  /\ edits' = edits + 1
  /\ UNCHANGED <<stored, lost, behind>>

CanEdit(p) == nb[p].there /\ edits + lost < MaxEvents

\* the title, toggleUrgent, toggleResolved: only the last two draw the page
EditTitle(p) ==
  /\ CanEdit(p)
  /\ Save(p, [nb[p] EXCEPT !.title = edits + 1])
  /\ prog' \in {prog, Started(p, nb[p])}

\* adjustCell, which draws the page, and the menu entries Enforce and Snapshot
EditLayout(p) ==
  /\ CanEdit(p)
  /\ \E c \in Shown(nb[p]) : Save(p, [nb[p] EXCEPT !.cells[c].lay = edits + 1])
  /\ prog' \in {prog, Started(p, nb[p])}

\* createCell and removeCell change the cells inside this.notebook: the page is
\* drawn when the answer is there, and until then a removed cell goes on.
CreateCell(p) ==
  /\ CanEdit(p)
  /\ \E d \in Drafts \ DOMAIN nb[p].cells :
       Save(p, Notebook(nb[p].title, Put(nb[p].cells, d, Manifest(edits + 1, 0))))
  /\ UNCHANGED prog

RemoveCell(p) ==
  /\ CanEdit(p)
  /\ \E c \in Shown(nb[p]) :
       Save(p, Notebook(nb[p].title, Restrict(nb[p].cells, DOMAIN nb[p].cells \ {c})))
  /\ UNCHANGED prog

\* mutant of Saved: only a save that was not refused is read again
SavedTrusts(r) ==
  /\ r \in reqs /\ r.kind = "save" /\ r.served # "no"
  /\ reqs' = (reqs \ {r}) \cup (IF r.served = "bad" THEN {} ELSE {Request(r.page, "read", NoNotebook)})
  /\ UNCHANGED <<stored, nb, prog, edits, lost, behind>>

\* the answer to a save: whatever it says, the notebook is read again
Saved(r) ==
  /\ r \in reqs /\ r.kind = "save" /\ r.served # "no"
  /\ reqs' = (reqs \ {r}) \cup {Request(r.page, "read", NoNotebook)}
  /\ UNCHANGED <<stored, nb, prog, edits, lost, behind>>

\* fetchNotebook: the answer replaces the page's copy; after an error the page
\* has no notebook and renders nothing.
Fetched(r) ==
  /\ r \in reqs /\ r.kind = "read" /\ r.served # "no"
  /\ LET n == IF r.served = "ok" THEN r.body ELSE NoNotebook IN
       /\ nb' = [nb EXCEPT ![r.page] = n]
       /\ prog' = Started(r.page, n)
       /\ reqs' = (reqs \ {r}) \cup FirstPosts(r.page, n)
  /\ behind' = IF r.late THEN behind \cup {r.page} ELSE behind \ {r.page}
  /\ UNCHANGED <<stored, edits, lost>>

\* fetch() fails on its way to the server or back: the caller stops, and the page
\* goes on with what it has.
Lost(r) ==
  /\ r \in reqs /\ edits + lost < MaxEvents
  /\ reqs' = reqs \ {r}
  /\ lost' = lost + 1
  /\ behind' = behind \cup {r.page}
  /\ UNCHANGED <<stored, nb, prog, edits>>

-----------------------------------------------------------------------------
(* The programs of the cells.                                              *)

Posting(p, c) == \E r \in reqs : r.page = p /\ r.kind = "data" /\ r.body.cell = c

\* the manifest of a program changes (a pivot, the pattern, the title): the
\* program sends all of it
EditPivots(p) ==
  /\ edits + lost < MaxEvents
  /\ \E c \in DOMAIN prog[p] :
       /\ ~Posting(p, c)
       /\ LET m == [prog[p][c] EXCEPT !.piv = edits + 1] IN
            /\ prog' = [prog EXCEPT ![p][c] = m]
            /\ reqs' = reqs \cup {Request(p, "data", [cell |-> c, m |-> m])}
  /\ edits' = edits + 1
  /\ UNCHANGED <<stored, nb, lost, behind>>

\* updateManifest: the page puts the manifest into its copy and draws it.  A
\* program that has ended tells nobody.
Posted(r) ==
  /\ r \in reqs /\ r.kind = "data" /\ r.served # "no"
  /\ LET p == r.page
         c == r.body.cell
         told == r.served = "ok" /\ c \in DOMAIN prog[p]
         n == IF told /\ c \in Shown(nb[p]) THEN [nb[p] EXCEPT !.cells[c] = r.body.m] ELSE nb[p]
     IN  /\ nb' = [nb EXCEPT ![p] = n]
         /\ prog' = IF told THEN Started(p, n) ELSE prog
         /\ reqs' = (reqs \ {r}) \cup (IF told THEN FirstPosts(p, n) ELSE {})
         /\ behind' = IF told /\ r.late THEN behind \cup {p} ELSE behind
  /\ UNCHANGED <<stored, edits, lost>>

-----------------------------------------------------------------------------
(* The server.                                                             *)

Answer(r, st, body) ==
  reqs' = (reqs \ {r}) \cup {[r EXCEPT !.served = st, !.body = body]}

\* The write of request r makes the pages ps stale, and the answers that are on
\* their way.
Wrote(r, st, body, ps) ==
  /\ behind' = behind \cup ps
  /\ reqs' = {[x EXCEPT !.late = x.served # "no"] : x \in reqs \ {r}}
             \cup {[r EXCEPT !.served = st, !.body = body]}

\* each cell without an identifier gets a new one
Unnamed(n) == DOMAIN n.cells \cap Drafts
Named(n, id) ==
  Notebook(n.title,
    [c \in Shown(n) \cup Range(id) |->
       IF c \in Range(id) THEN n.cells[CHOOSE d \in Unnamed(n) : id[d] = c] ELSE n.cells[c]])

\* identifiers that were never used
Fresh ==
  {c \in Cells :
     /\ c \notin DOMAIN stored.cells
     /\ \A p \in Pages : c \notin DOMAIN nb[p].cells \cup DOMAIN prog[p]
     /\ \A r \in reqs :
          IF r.kind = "data" THEN c # r.body.cell ELSE c \notin DOMAIN r.body.cells}

\* NotebookAPI, save: the notebook is stored, refused, or dropped by a write whose
\* error is ignored (NotebookStore).
ServeSave(r) ==
  /\ r \in reqs /\ r.kind = "save" /\ r.served = "no"
  /\ \/ /\ \E id \in Injection(Unnamed(r.body), Fresh) : stored' = Named(r.body, id)
        /\ Wrote(r, "ok", NoNotebook, Pages \ {r.page})
     \/ /\ UNCHANGED <<stored, behind>>
        /\ \E st \in {"ok", "bad"} : Answer(r, st, NoNotebook)
  /\ UNCHANGED <<nb, prog, edits, lost>>

\* NotebookAPI, read
ServeRead(r) ==
  /\ r \in reqs /\ r.kind = "read" /\ r.served = "no"
  /\ Answer(r, "ok", stored) \/ Answer(r, "bad", r.body)
  /\ UNCHANGED <<stored, nb, prog, edits, lost, behind>>

\* mutant of Known: a cell that is missing is added
KnownOrNew(c) == stored.there \/ c \in Cells

\* _storeCell: the cell must be in the stored notebook, and is replaced whole.
Known(c) == c \in DOMAIN stored.cells
Replaced(c, m) == [stored EXCEPT !.cells = Put(stored.cells, c, m)]

\* ServeCellData: the manifest is stored, then the query runs, which may fail; or
\* the request is refused, or its write is dropped and its answer wrong.
ServeData(r) ==
  /\ r \in reqs /\ r.kind = "data" /\ r.served = "no"
  /\ \/ /\ Known(r.body.cell)
        /\ stored' = Replaced(r.body.cell, r.body.m)
        /\ \/ Wrote(r, "ok", r.body, Pages \ {r.page})
           \/ Wrote(r, "bad", r.body, Pages)
     \/ /\ UNCHANGED <<stored, behind>>
        /\ Answer(r, "bad", r.body)
     \/ /\ Known(r.body.cell)
        /\ UNCHANGED <<stored, behind>>
        /\ reqs' = (reqs \ {r}) \cup {[r EXCEPT !.served = "ok", !.late = TRUE]}
  /\ UNCHANGED <<nb, prog, edits, lost>>

-----------------------------------------------------------------------------
Edit(p) == EditTitle(p) \/ EditLayout(p) \/ CreateCell(p) \/ RemoveCell(p) \/ EditPivots(p)
Serve(r) == ServeSave(r) \/ ServeRead(r) \/ ServeData(r)
Arrive(r) == Saved(r) \/ Fetched(r) \/ Posted(r) \/ Lost(r)

Next == (\E p \in Pages : Edit(p)) \/ (\E r \in reqs : Serve(r) \/ Arrive(r))

Spec == Init /\ [][Next]_vars

-----------------------------------------------------------------------------
(* Properties.                                                             *)

Manifests == [lay : 0..MaxEvents, piv : 0..MaxEvents]

IsNotebook(n) ==
  /\ n \in [title : 0..MaxEvents, cells : {n.cells}, there : BOOLEAN]
  /\ DOMAIN n.cells \subseteq Cells \cup Drafts
  /\ n.cells \in [DOMAIN n.cells -> Manifests]

\* what a save sends is a notebook, what the program of a cell sends its manifest
IsRequest(r) ==
  /\ r \in [page : Pages, kind : {"save", "read", "data"}, body : {r.body},
            served : {"no", "ok", "bad"}, late : BOOLEAN]
  /\ r.late => r.served # "no"
  /\ IF r.kind = "data"
     THEN r.body \in [cell : Cells, m : Manifests]
     ELSE IsNotebook(r.body) /\ (r.kind = "read" => Unnamed(r.body) = {})

\* Type invariant of the pages, their requests and the store; a cell of the
\* stored notebook always has an identifier (hub/notebook.go:480).
TypeOK ==
  /\ IsNotebook(stored) /\ Unnamed(stored) = {}
  /\ nb = [p \in Pages |-> nb[p]] /\ prog = [p \in Pages |-> prog[p]]
  /\ \A p \in Pages : IsNotebook(nb[p])
  /\ \A p \in Pages : DOMAIN prog[p] \subseteq Cells /\ prog[p] \in [DOMAIN prog[p] -> Manifests]
  /\ \A r \in reqs : IsRequest(r)
  /\ edits \in Nat /\ lost \in Nat /\ edits + lost <= MaxEvents
  /\ behind \subseteq Pages

Quiet(p) == \A r \in reqs : r.page # p

\* "The UI state is already up to date" (notebook-body.ts:342): once the requests
\* of a page are answered, it shows the notebook as it is stored, also after
\* saves that were refused or dropped; or it shows nothing, or somebody else has
\* written since, or an answer was late, never came, or told a cell's program
\* otherwise than was stored.
AgreeUnlessOvertaken ==
  \A p \in Pages : Quiet(p) /\ p \notin behind => nb[p] \in {stored, NoNotebook}

\* nobody holds cell c any more
Gone(c) ==
  /\ c \notin DOMAIN stored.cells
  /\ \A p \in Pages : c \notin DOMAIN nb[p].cells
  /\ \A r \in reqs : r.kind # "data" => c \notin DOMAIN r.body.cells

\* A cell that was removed, and that no page shows or is about to store or to
\* read, does not come back, though its program goes on and sends its manifest
\* (store_notebook.go:202: "invalid notebook").
GoneForGood ==
  [][\A c \in Cells : Gone(c) /\ (\E r \in reqs : r.kind = "data" /\ r.body.cell = c) => Gone(c)']_vars
=============================================================================
