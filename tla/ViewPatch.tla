----------------------------- MODULE ViewPatch ------------------------------
(***************************************************************************)
(* How a cell's program draws: the engine (rx) serialises the view it has  *)
(* built into a program of the XAS machine and keeps the entities of the   *)
(* view in a tree (etree); the page (buildView) runs the program, which    *)
(* makes new elements and takes parts of the old page.  Handlers are found *)
(* in the tree, by the identifier of the element that was hit.             *)
(*                                                                         *)
(* A tree of nodes is the sequence of its nodes in preorder, each with its *)
(* depth.  Nothing nodes leave no trace and are left out; text, classes    *)
(* and attributes are the content of a node, which is named by the turn    *)
(* that made it and its place.                                             *)
(***************************************************************************)
EXTENDS Integers, Sequences, FiniteSets

CONSTANTS
  MaxNodes,  \* bound on the nodes of a view
  MaxGen,    \* bound on the turns
  MaxEntity, \* the engine keeps no identifier above this
  Stale      \* identifiers the program may remember of elements that are gone

VARIABLES
  dom,    \* what the page shows: nodes with their identifier (0: none), content and depth
  g1,     \* the engine's tree: entities with the size of their subtree and their handler
  sparse, \* where the engine last saw an entity
  gen,    \* the turns so far
  broken, \* the machine threw: the program ends
  proper  \* the last turn reused parts that are there, disjoint, each once (history)

vars == <<dom, g1, sparse, gen, broken, proper>>

None == 0
NoHandler == <<0, 0>>
Entities == 0..MaxEntity

\* A view: created nodes, with a key or not, with handlers or not, and nodes that
\* stand for a part of the last view (ReuseFrom), which have no children.
Node(depth, key, hdl, old) == [depth |-> depth, key |-> key, hdl |-> hdl, old |-> old]

Shapes(n) ==
  {d \in [1..n -> 1..n] : d[1] = 1 /\ \A i \in 2..n : d[i] \in 2..(d[i - 1] + 1)}

IDs == {dom[i].id : i \in DOMAIN dom} \ {None}

Made == [key : BOOLEAN, hdl : BOOLEAN, old : {None}]
Kept == [key : {TRUE}, hdl : {FALSE}, old : IDs \cup Stale]

\* The root is an element without a key, as those of Build are.
View(d, k) == [i \in DOMAIN d |-> Node(d[i], k[i].key, k[i].hdl, k[i].old)]
Root == {k \in Made : ~k.key}
IsView(d, k) == \A i \in DOMAIN k : k[i].old # None /\ i < Len(d) => d[i + 1] <= d[i]

Init ==
  /\ dom = <<>> /\ g1 = <<>>
  /\ sparse = [e \in Entities |-> 1]
  /\ gen = 0
  /\ broken = FALSE /\ proper = TRUE

-----------------------------------------------------------------------------
(* The engine's tree.                                                      *)

\* locate: 0 when the entity is not in the tree
Locate(e) ==
  IF sparse[e] <= Len(g1) /\ g1[sparse[e]].ntt = e THEN sparse[e] ELSE 0

\* children: the subtree of an entity, itself included
Subtree(e) ==
  IF Locate(e) = 0 THEN <<>> ELSE SubSeq(g1, Locate(e), Locate(e) + g1[Locate(e)].scp - 1)

-----------------------------------------------------------------------------
(* serialize: the tree of the new view, and the program.                   *)

\* The first identifier of a turn, two apart: those of two turns in a row differ.
First == 2 + (gen % 2)

\* GiveKey, while the view is built
KeyOf(v, i) == First + 2 * Cardinality({j \in 1..(i - 1) : v[j].key})

What(n, i) == IF n.hdl THEN <<gen + 1, i>> ELSE NoHandler

\* closeScope and OpNext for the elements that are deeper than d
CloseTo(s, d) ==
  LET closed == {s.open[k] : k \in (d + 1)..Len(s.open)}
  IN  [s EXCEPT
        !.open = SubSeq(s.open, 1, d),
        !.prog = s.prog \o [k \in 1..(Len(s.open) - d) |-> [op |-> "next"]],
        !.g0 = [i \in DOMAIN s.g0 |->
                  IF i \in closed THEN [s.g0[i] EXCEPT !.scp = Len(s.g0) - i + 1] ELSE s.g0[i]]]

\* mutant of Reused: the nodes of the subtree keep the last turn's identifiers
ReusedAsIs(s, old, e) ==
  LET sub == Subtree(old) IN
    [s EXCEPT
      !.prog = s.prog \o <<[op |-> "reuse", e |-> old]>>
               \o (IF sub = <<>> THEN <<>> ELSE <<[op |-> "reid", e |-> old, to |-> e]>>),
      !.g0 = s.g0 \o [i \in DOMAIN sub |-> IF i = 1 THEN [sub[i] EXCEPT !.ntt = e] ELSE sub[i]]]

\* mutant of Reused: the names are given before the part is there
ReusedLate(s, old, e) ==
  LET sub == Subtree(old)
      to(i) == IF i = 1 THEN e ELSE s.cnt + 2 * (i - 1)
  IN  [s EXCEPT
        !.prog = s.prog \o [i \in DOMAIN sub |-> [op |-> "reid", e |-> sub[i].ntt, to |-> to(i)]]
                 \o <<[op |-> "reuse", e |-> old]>>,
        !.g0 = s.g0 \o [i \in DOMAIN sub |-> [sub[i] EXCEPT !.ntt = to(i)]],
        !.cnt = IF sub = <<>> THEN s.cnt ELSE s.cnt + 2 * (Len(sub) - 1)]

\* a reuse node: its subtree is copied from the last tree and renamed
Reused(s, old, e) ==
  LET sub == Subtree(old)
      to(i) == IF i = 1 THEN e ELSE s.cnt + 2 * (i - 1)
  IN  [s EXCEPT
        !.prog = s.prog \o <<[op |-> "reuse", e |-> old]>>
                 \o [i \in DOMAIN sub |-> [op |-> "reid", e |-> sub[i].ntt, to |-> to(i)]],
        !.g0 = s.g0 \o [i \in DOMAIN sub |-> [sub[i] EXCEPT !.ntt = to(i)]],
        !.cnt = IF sub = <<>> THEN s.cnt ELSE s.cnt + 2 * (Len(sub) - 1)]

\* any other node: an element, with an identifier if it has a key or a handler
Created(s, n, i, key) ==
  LET e == IF n.key THEN key ELSE IF n.hdl THEN s.cnt + 2 ELSE None
  IN  [s EXCEPT
        !.prog = s.prog \o <<[op |-> "create", what |-> What(n, i)]>>
                 \o (IF e = None THEN <<>> ELSE <<[op |-> "setid", e |-> e]>>),
        !.open = Append(s.open, IF e = None THEN 0 ELSE Len(s.g0) + 1),
        !.g0 = IF e = None THEN s.g0
               ELSE Append(s.g0, [ntt |-> e, scp |-> 0, hdl |-> What(n, i)]),
        !.cnt = IF e # None /\ ~n.key THEN e ELSE s.cnt]

Visit(s, v, i) ==
  LET t == CloseTo(s, v[i].depth - 1) IN
    IF v[i].old # None THEN Reused(t, v[i].old, KeyOf(v, i))
                       ELSE Created(t, v[i], i, KeyOf(v, i))

Serialize(v) ==
  LET start == [g0 |-> <<>>, prog |-> <<>>, open |-> <<>>, cnt |-> KeyOf(v, Len(v) + 1) - 2]
      visited[i \in 0..Len(v)] == IF i = 0 THEN start ELSE Visit(visited[i - 1], v, i)
  IN  CloseTo(visited[Len(v)], 0)

-----------------------------------------------------------------------------
(* buildView: the XAS machine.  What it builds grows at its end only, below *)
(* the element at depth d (0: the fragment; -1: no element).                *)

\* the last node of the tree whose root is the i-th node
End(s, i) ==
  CHOOSE j \in i..Len(s) :
    /\ \A k \in (i + 1)..j : s[k].depth > s[i].depth
    /\ j = Len(s) \/ s[j + 1].depth <= s[i].depth

\* the nodes without that tree
Without(s, i) == SubSeq(s, 1, i - 1) \o SubSeq(s, End(s, i) + 1, Len(s))

\* getElementById: the first in document order, 0 if there is none
ById(s, e) == LET is == {i \in DOMAIN s : s[i].id = e} IN
                IF is = {} THEN 0 ELSE CHOOSE i \in is : \A j \in is : i <= j

Named(s, i, e) == [s EXCEPT ![i] = [s[i] EXCEPT !.id = e]]

\* the i-th node and those below it, as they are when its depth is d
Part(s, i, d) ==
  [k \in 1..(End(s, i) - i + 1) |->
     [s[i + k - 1] EXCEPT !.depth = s[i + k - 1].depth - s[i].depth + d]]

Threw(m) == [m EXCEPT !.bad = TRUE]

Exec(m, c) ==
  CASE m.bad -> m
    [] ~m.bad /\ c.op = "create" ->
         IF m.d < 0 THEN Threw(m)
         ELSE [m EXCEPT !.out = Append(m.out, [id |-> None, what |-> c.what, depth |-> m.d + 1]),
                        !.d = m.d + 1]
    [] ~m.bad /\ c.op = "setid" -> [m EXCEPT !.out = Named(m.out, Len(m.out), c.e)]
    [] ~m.bad /\ c.op = "next" -> [m EXCEPT !.d = IF m.d = 1 THEN -1 ELSE m.d - 1]
    [] ~m.bad /\ c.op = "reuse" ->
         LET i == ById(m.old, c.e) IN
           IF i = 0 \/ m.d < 0 THEN Threw(m)
           ELSE [m EXCEPT !.out = m.out \o Part(m.old, i, m.d + 1), !.old = Without(m.old, i)]
    [] ~m.bad /\ c.op = "reid" ->
         LET i == ById(m.out, c.e) IN
           IF i = 0 THEN Threw(m) ELSE [m EXCEPT !.out = Named(m.out, i, c.to)]

\* OpTerm: of the old page the first tree is removed, and the new nodes follow
Term(m) ==
  (IF m.old = <<>> THEN <<>> ELSE Without(m.old, 1)) \o m.out

Run(prog) ==
  LET after[k \in 0..Len(prog)] ==
        IF k = 0 THEN [out |-> <<>>, old |-> dom, d |-> 0, bad |-> FALSE]
                 ELSE Exec(after[k - 1], prog[k])
  IN  after[Len(prog)]

-----------------------------------------------------------------------------
\* each reused part is there, once, and in no other
Proper(v) ==
  LET olds == {i \in DOMAIN v : v[i].old # None}
      at(i) == ById(dom, v[i].old)
      part(i) == at(i)..End(dom, at(i))
  IN  /\ \A i \in olds : ById(dom, v[i].old) # 0
      /\ \A i, j \in olds : i # j => part(i) \cap part(j) = {}

\* ngen
Ngen(g0) ==
  [e \in Entities |-> IF \E i \in DOMAIN g0 : g0[i].ntt = e
                      THEN CHOOSE i \in DOMAIN g0 : g0[i].ntt = e ELSE sparse[e]]

\* the identifiers are in the bounds of sparse
Fits(g0) == \A i \in DOMAIN g0 : g0[i].ntt \in Entities

\* turncrank, and buildView of what it returns
Turn ==
  /\ ~broken /\ gen < MaxGen
  /\ gen' = gen + 1
  /\ \E n \in 1..MaxNodes : \E d \in Shapes(n), root \in Root, k \in [2..n -> Made \cup Kept] :
       /\ IsView(d, k)
       /\ LET v == View(d, [i \in 1..n |-> IF i = 1 THEN root ELSE k[i]])
              s == Serialize(v)
              m == Run(s.prog)
          IN  /\ Fits(s.g0)
              /\ g1' = s.g0
              /\ sparse' = Ngen(s.g0)
              /\ broken' = m.bad
              /\ dom' = IF m.bad THEN m.old ELSE Term(m)
              /\ proper' = Proper(v)

Spec == Init /\ [][Turn]_vars

-----------------------------------------------------------------------------
(* Properties.                                                             *)

\* the elements that have an identifier
Marked == {i \in DOMAIN dom : dom[i].id # None}

(* The engine finds every element of the page by its identifier where the  *)
(* element is, with its own handler and with the elements around it, or    *)
(* it would answer a click with the handler of another one.                *)
InSync ==
  ~broken =>
    /\ Len(g1) = Cardinality(Marked)
    /\ \A i \in Marked :
         LET k == Cardinality(Marked \cap (1..i)) IN
           /\ Locate(dom[i].id) = k
           /\ g1[k].hdl = dom[i].what
           /\ g1[k].scp = Cardinality(Marked \cap (i..End(dom, i)))

(* A program that reuses only what is there, no part twice, is drawn to    *)
(* its end.                                                                *)
DrawnToTheEnd == proper => ~broken
=============================================================================
