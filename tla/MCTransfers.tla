----------------------------- MODULE MCTransfers ----------------------------
(***************************************************************************)
(* Model checking of two transfers that share no state: the walk of a      *)
(* remote directory tree, and the import of notebook archives. A behaviour *)
(* is one of one part, and the other rests.                                *)
(***************************************************************************)
EXTENDS MCWalkDir

CONSTANTS Imports, Edits, PoolSize \* of the import

VARIABLES
  part,
  idle, mutex, tasks, updates, import, waiter, got, edit, target, saved

imports == <<idle, mutex, tasks, updates, import, waiter, got, edit, target, saved>>

Import == INSTANCE NBarImport

ASSUME ImportAssumption == Import!ConstantsOK

MCInit == Init /\ Import!Init /\ part \in {"walk", "import"}

Walks == part = "walk" /\ UNCHANGED <<imports, part>>
Imported == part = "import" /\ UNCHANGED <<vars, part>>

MCNext == (Next /\ Walks) \/ (Import!Next /\ Imported)

all == <<vars, imports, part>>

\* The fairness of WalkDir for the one part and of NBarImport for the other.
MCFairness ==
  /\ WF_all(Coordinator /\ Walks) /\ WF_all(Caller /\ Walks)
  /\ \A n \in Nodes : WF_all(Worker(n) /\ Walks)
  /\ \A i \in Imports : /\ SF_all(Import!ImportStep(i) /\ Imported)
                        /\ SF_all(Import!WaiterStep(i) /\ Imported)
                        /\ WF_all(Import!Expire(i) /\ Imported)
  /\ \A e \in Edits : SF_all(Import!EditStep(e) /\ Imported)

MCSpec == MCInit /\ [][MCNext]_all /\ MCFairness

-----------------------------------------------------------------------------
(* The properties of the parts: see their modules.                         *)

\* The walk answers (sftp.go:500-536): Answered of WalkDir.
WalkAnswers == part = "walk" => Answered

\* An edit that was accepted is received, or there is an excuse
\* (nbar.go:305-331, 345).
AcceptedIsReceived == Import!AcceptedIsReceived

\* Every task is forgotten and every request is answered, as long as no edit
\* is late or repeated (nbar.go:305-331, 339-346).
AllEnd == Import!AllEnd
=============================================================================
