------------------------------ MODULE MCWalkDir -----------------------------
(***************************************************************************)
(* Model checking of WalkDir on a tree: the root with a file, a file that  *)
(* does not match, and three directories, one empty, one that may not be   *)
(* read, and one with two files, one of them in a second response.         *)
(***************************************************************************)
EXTENDS WalkDir, TLC

CONSTANTS root, f, odd, empty, locked, full, g, h, inside

Tree ==
  (root :> {f, odd, empty, locked, full}) @@ (empty :> {}) @@
  (locked :> {inside}) @@ (full :> {g, h})

FirstResponse == [Tree EXCEPT ![full] = {g}]
=============================================================================
