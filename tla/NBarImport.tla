----------------------------- MODULE NBarImport -----------------------------
(***************************************************************************)
(* The import of notebook archives (hub/nbar.go:176-347). The first        *)
(* request uploads the archive: a task is registered under the mutex of    *)
(* ProcessingTasks, and a goroutine waits for it. The second one, once the *)
(* user has chosen the data sources, sends the edited notebook to that     *)
(* goroutine, which stores it and forgets the task; after 120 seconds it   *)
(* forgets the task anyway. Each request holds a connection of the pool    *)
(* (dispatch.go:105), and the goroutine needs one of its own.              *)
(***************************************************************************)
EXTENDS Naturals, FiniteSets

CONSTANTS
  Imports,   \* the uploaded archives, one notebook each
  Edits,     \* the requests that replace a notebook (HTTPReplace)
  None,      \* nobody, nothing
  PoolSize   \* connections in the pool

\* What the constants have to be: the module that takes this one as a part
\* assumes it.
ConstantsOK ==
  /\ PoolSize \in Nat \ {0}
  /\ None \notin Edits \cup Imports
  /\ IsFiniteSet(Imports) /\ IsFiniteSet(Edits) /\ Imports \cap Edits = {}

VARIABLES
  idle,     \* how many connections are in the pool
  mutex,    \* who holds ProcessingTasks: an edit, or None
  tasks,    \* the imports registered in ProcessingTasks.tasks
  updates,  \* per import: the edit in its channel of capacity 1, or None
  import,   \* per import: where its upload is
  waiter,   \* per import: where its goroutine, notebookUpdates, is
  got,      \* per import: the edit its goroutine has received
  edit,     \* per edit: where its request is
  target,   \* per edit: the import it replaces
  saved     \* per import: the edit stored as its notebook, None before

vars == <<idle, mutex, tasks, updates, import, waiter, got, edit, target, saved>>

Uploads == {"new", "running", "answered", "failed"}
Waits   == {"none", "waiting", "received", "notebook", "stored", "expired", "over"}
Phases  == {"new", "running", "sending", "sent", "unknown", "ok", "failed"}

-----------------------------------------------------------------------------
(* The upload                                                              *)

\* ServeHTTP takes a connection for the request.
Upload(i) ==
  /\ import[i] = "new" /\ idle > 0
  /\ idle' = idle - 1
  /\ import' = [import EXCEPT ![i] = "running"]
  /\ UNCHANGED <<mutex, tasks, updates, waiter, got, edit, target, saved>>

\* ImportNBar registers the task, starts its goroutine and answers.
Register(i) ==
  /\ import[i] = "running" /\ mutex = None
  /\ tasks' = tasks \cup {i}
  /\ waiter' = [waiter EXCEPT ![i] = "waiting"]
  /\ import' = [import EXCEPT ![i] = "answered"]
  /\ idle' = idle + 1
  /\ UNCHANGED <<mutex, updates, got, edit, target, saved>>

\* The archive cannot be read: ImportNBar reports the error and returns.
UploadFails(i) ==
  /\ import[i] = "running"
  /\ import' = [import EXCEPT ![i] = "failed"]
  /\ idle' = idle + 1
  /\ UNCHANGED <<mutex, tasks, updates, waiter, got, edit, target, saved>>

-----------------------------------------------------------------------------
(* The edit                                                                *)

\* The user knows the notebook from the answer to the upload, and may edit it
\* twice (a second click, a retry).
Click(e) ==
  /\ edit[e] = "new" /\ idle > 0
  /\ \E i \in Imports :
       /\ import[i] = "answered"
       /\ target' = [target EXCEPT ![e] = i]
  /\ idle' = idle - 1
  /\ edit' = [edit EXCEPT ![e] = "running"]
  /\ UNCHANGED <<mutex, tasks, updates, import, waiter, got, saved>>

\* HTTPReplace takes the mutex and looks the task up.
Lookup(e) ==
  /\ edit[e] = "running" /\ mutex = None
  /\ mutex' = e
  /\ edit' = [edit EXCEPT ![e] =
                IF target[e] \in tasks THEN "sending" ELSE "unknown"]
  /\ UNCHANGED <<idle, tasks, updates, import, waiter, got, target, saved>>

\* Mutant of Send: the update overwrites the one in the channel.
SendOver(e) ==
  /\ edit[e] = "sending"
  /\ updates' = [updates EXCEPT ![target[e]] = e]
  /\ edit' = [edit EXCEPT ![e] = "sent"]
  /\ UNCHANGED <<idle, mutex, tasks, import, waiter, got, target, saved>>

\* The send blocks while the channel is full, with the mutex held.
Send(e) ==
  /\ edit[e] = "sending" /\ updates[target[e]] = None
  /\ updates' = [updates EXCEPT ![target[e]] = e]
  /\ edit' = [edit EXCEPT ![e] = "sent"]
  /\ UNCHANGED <<idle, mutex, tasks, import, waiter, got, target, saved>>

\* Mutant of Accept: without the Unlock.
AcceptLocked(e) ==
  /\ edit[e] = "sent"
  /\ edit' = [edit EXCEPT ![e] = "ok"]
  /\ idle' = idle + 1
  /\ UNCHANGED <<mutex, tasks, updates, import, waiter, got, target, saved>>

\* Unlock, and the request is over.
Accept(e) ==
  /\ edit[e] = "sent"
  /\ mutex' = None
  /\ edit' = [edit EXCEPT ![e] = "ok"]
  /\ idle' = idle + 1
  /\ UNCHANGED <<tasks, updates, import, waiter, got, target, saved>>

\* No such task: the request reports the error and returns without Unlock.
Refuse(e) ==
  /\ edit[e] = "unknown"
  /\ edit' = [edit EXCEPT ![e] = "failed"]
  /\ idle' = idle + 1
  /\ UNCHANGED <<mutex, tasks, updates, import, waiter, got, target, saved>>

-----------------------------------------------------------------------------
(* The goroutine of an import                                              *)

\* The 120 seconds are over.
Expire(i) ==
  /\ waiter[i] = "waiting"
  /\ waiter' = [waiter EXCEPT ![i] = "expired"]
  /\ UNCHANGED <<idle, mutex, tasks, updates, import, got, edit, target, saved>>

Receive(i) ==
  /\ waiter[i] = "waiting" /\ updates[i] # None
  /\ got' = [got EXCEPT ![i] = updates[i]]
  /\ updates' = [updates EXCEPT ![i] = None]
  /\ waiter' = [waiter EXCEPT ![i] = "received"]
  /\ UNCHANGED <<idle, mutex, tasks, import, edit, target, saved>>

\* StoreNotebook, in a savepoint on a connection of its own; when it fails
\* the goroutine goes on all the same.
StoreNotebook(i) ==
  /\ waiter[i] = "received" /\ idle > 0
  /\ \E done \in BOOLEAN :
       saved' = IF done THEN [saved EXCEPT ![i] = got[i]] ELSE saved
  /\ waiter' = [waiter EXCEPT ![i] = "notebook"]
  /\ UNCHANGED <<idle, mutex, tasks, updates, import, got, edit, target>>

\* StoreEditor, in another one; it rewrites the notebook it finds.
StoreEditor(i) ==
  /\ waiter[i] = "notebook" /\ idle > 0
  /\ waiter' = [waiter EXCEPT ![i] = "stored"]
  /\ UNCHANGED <<idle, mutex, tasks, updates, import, got, edit, target, saved>>

\* The task is deleted under the mutex.
Forget(i) ==
  /\ waiter[i] \in {"stored", "expired"} /\ mutex = None
  /\ tasks' = tasks \ {i}
  /\ waiter' = [waiter EXCEPT ![i] = "over"]
  /\ UNCHANGED <<idle, mutex, updates, import, got, edit, target, saved>>

-----------------------------------------------------------------------------
Init ==
  /\ idle = PoolSize /\ mutex = None /\ tasks = {}
  /\ updates = [i \in Imports |-> None]
  /\ import = [i \in Imports |-> "new"]
  /\ waiter = [i \in Imports |-> "none"]
  /\ got = [i \in Imports |-> None]
  /\ edit = [e \in Edits |-> "new"]
  /\ target = [e \in Edits |-> None]
  /\ saved = [i \in Imports |-> None]

ImportStep(i) == Upload(i) \/ UploadFails(i) \/ Register(i)

EditStep(e) == Lookup(e) \/ Send(e) \/ Accept(e) \/ Refuse(e)

WaiterStep(i) ==
  Receive(i) \/ StoreNotebook(i) \/ StoreEditor(i) \/ Forget(i)

Next ==
  \/ \E i \in Imports : ImportStep(i) \/ WaiterStep(i) \/ Expire(i)
  \/ \E e \in Edits : Click(e) \/ EditStep(e)

Spec == Init /\ [][Next]_vars

\* Goroutines run, a mutex and the pool serve everybody who asks again and
\* again, and the timer of a goroutine that still waits fires.
FairSpec ==
  /\ Spec
  /\ \A i \in Imports : SF_vars(ImportStep(i)) /\ SF_vars(WaiterStep(i))
                        /\ WF_vars(Expire(i))
  /\ \A e \in Edits : SF_vars(EditStep(e))

-----------------------------------------------------------------------------
(* Properties                                                              *)

Holding == {i \in Imports : import[i] = "running"}
             \cup {e \in Edits : edit[e] \in {"running", "sending", "sent", "unknown"}}

\* Type invariant of the module (nbar.go:176-187).
TypeOK ==
  /\ idle = PoolSize - Cardinality(Holding)
  /\ mutex \in Edits \cup {None}
  /\ tasks \subseteq Imports
  /\ updates \in [Imports -> Edits \cup {None}]
  /\ import \in [Imports -> Uploads]
  /\ waiter \in [Imports -> Waits]
  /\ got \in [Imports -> Edits \cup {None}]
  /\ edit \in [Edits -> Phases]
  /\ target \in [Edits -> Imports \cup {None}]
  /\ saved \in [Imports -> Edits \cup {None}]

\* The map of tasks, the mutex and the goroutines agree: a task is registered
\* exactly while its goroutine runs, and at most one edit is between the
\* lookup and the unlock (nbar.go:282-286, 312-314, 327-329, 339-346).
TasksHaveWaiters ==
  /\ \A i \in Imports : i \in tasks <=> waiter[i] \notin {"none", "over"}
  /\ \A e \in Edits : edit[e] \in {"sending", "sent", "unknown"} => mutex = e

\* A send does not race with the deletion of the task: what is sent goes to a
\* goroutine that has not ended (nbar.go:345, 326-329).
SendsToTheLiving ==
  \A e \in Edits : edit[e] \in {"sending", "sent"} => target[e] \in tasks

\* An edit that was accepted waits for a goroutine that will receive it or
\* has been received, unless another edit of the notebook was received
\* instead, or the time had run out (nbar.go:305-331, 345).
AcceptedIsReceived ==
  \A e \in Edits : edit[e] = "ok" =>
    LET i == target[e] IN
    \/ updates[i] = e /\ waiter[i] = "waiting"
    \/ got[i] # None
    \/ waiter[i] \in {"expired", "over"}

\* As long as no edit comes for a task that is gone and no notebook is edited
\* twice, every task is forgotten, every goroutine ends and every request is
\* answered (nbar.go:305-331, 339-346).
AllEnd ==
  /\ [](\A e \in Edits : edit[e] # "unknown")
  /\ [](\A e, f \in Edits : e # f /\ target[e] # None => target[e] # target[f])
  => /\ \A i \in Imports : i \in tasks ~> (waiter[i] = "over" /\ i \notin tasks)
     /\ \A e \in Edits : edit[e] = "running" ~> edit[e] = "ok"
=============================================================================
