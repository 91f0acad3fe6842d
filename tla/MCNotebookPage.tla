--------------------------- MODULE MCNotebookPage ---------------------------
(* Pages, cells and drafts are interchangeable; no property is about       *)
(* fairness.                                                               *)
EXTENDS NotebookPage, TLC

Symmetry == Permutations(Pages) \cup Permutations(Cells) \cup Permutations(Drafts)
=============================================================================
