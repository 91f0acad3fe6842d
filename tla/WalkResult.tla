----------------------------- MODULE WalkResult -----------------------------
(***************************************************************************)
(* What a directory walk promises (cells/logstream/sftp.go:452): one       *)
(* answer, which is an error or all of the files it is about. For WalkDir  *)
(* those are the matching files that the first responses of the server     *)
(* name, which may be less than the files below the root.                  *)
(***************************************************************************)
CONSTANTS Files  \* the files that a successful answer consists of

VARIABLES
  answer,  \* "none", "ok" or "error"
  found    \* the files of an "ok" answer

Init == answer = "none" /\ found = {}

Succeed == answer = "none" /\ answer' = "ok" /\ found' = Files

Fail == answer = "none" /\ answer' = "error" /\ found' = {}

Next == Succeed \/ Fail

Spec == Init /\ [][Next]_<<answer, found>>
=============================================================================
