--------------------------- MODULE MCSyslogBuffer ---------------------------
(* Model checking of SyslogBuffer: symmetric readers and list nodes.       *)
EXTENDS SyslogBuffer, TLC

Symmetry == Permutations(Readers) \cup Permutations(Nodes)
=============================================================================
