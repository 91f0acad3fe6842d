-------------------------- MODULE NBarImport_proofs --------------------------
(***************************************************************************)
(* Whatever the users do, the registered tasks are the ones with a         *)
(* goroutine, what is sent goes to one of them, what was accepted is       *)
(* received or excused, and no connection is lost or invented: these hold  *)
(* together, since a task is deleted only while nobody holds the mutex,    *)
(* and an edit holds it from the lookup until after the send.              *)
(***************************************************************************)
EXTENDS MCTransfers, FiniteSetTheorems, TLAPS

\* The upload comes before the goroutine, and an edit after the upload.
Begins ==
  /\ \A i \in Imports : import[i] = "answered" <=> waiter[i] # "none"
  /\ \A e \in Edits : edit[e] # "new" => target[e] \in Imports

\* A goroutine has received an edit when it stores one.
Received ==
  \A i \in Imports : waiter[i] \in {"received", "notebook", "stored"} => got[i] # None

\* What was sent waits, or was received, or came too late.
Sent ==
  \A e \in Edits : edit[e] \in {"sent", "ok"} =>
    \/ updates[target[e]] = e /\ waiter[target[e]] = "waiting"
    \/ got[target[e]] # None
    \/ waiter[target[e]] \in {"expired", "over"}

NBarInv ==
  /\ Import!TypeOK /\ Begins /\ Import!TasksHaveWaiters /\ Import!SendsToTheLiving
  /\ Received /\ Sent

-----------------------------------------------------------------------------
\* The instance counts its sets as the library does.
LEMMA SameFinite == \A S : Import!IsFiniteSet(S) <=> IsFiniteSet(S)
  BY Zenon DEF Import!IsFiniteSet, IsFiniteSet

LEMMA SameCount == \A S : Import!Cardinality(S) = Cardinality(S)
  BY Zenon DEF Import!Cardinality, Cardinality

LEMMA HoldingFinite ==
  ASSUME NEW S, S \subseteq Imports \cup Edits
  PROVE  IsFiniteSet(S) /\ Cardinality(S) \in Nat
  BY FS_Union, FS_Subset, FS_CardinalityType, ImportAssumption, SameFinite
  DEF Import!ConstantsOK

LEMMA HoldOneMore ==
  ASSUME NEW S, S \subseteq Imports \cup Edits, NEW r \in Imports \cup Edits, r \notin S
  PROVE  Cardinality(S \cup {r}) = Cardinality(S) + 1
  BY HoldingFinite, FS_AddElement

LEMMA HoldOneLess ==
  ASSUME NEW S, S \subseteq Imports \cup Edits, NEW r \in S
  PROVE  Cardinality(S \ {r}) = Cardinality(S) - 1
  BY HoldingFinite, FS_RemoveElement

\* A request that starts takes a connection; one that ends gives it back.
LEMMA TakesOne ==
  ASSUME idle = PoolSize - Import!Cardinality(Import!Holding), idle' = idle - 1,
         NEW r \in Imports \cup Edits, r \notin Import!Holding,
         Import!Holding' = Import!Holding \cup {r}
  PROVE  idle' = PoolSize - Import!Cardinality(Import!Holding')
<1>1. Import!Holding \subseteq Imports \cup Edits
  BY DEF Import!Holding
<1> QED
  BY <1>1, HoldOneMore, HoldingFinite, SameCount, ImportAssumption DEF Import!ConstantsOK

LEMMA GivesOne ==
  ASSUME idle = PoolSize - Import!Cardinality(Import!Holding), idle' = idle + 1,
         NEW r \in Import!Holding, Import!Holding' = Import!Holding \ {r}
  PROVE  idle' = PoolSize - Import!Cardinality(Import!Holding')
<1>1. Import!Holding \subseteq Imports \cup Edits
  BY DEF Import!Holding
<1> QED
  BY <1>1, HoldOneLess, HoldingFinite, SameCount, ImportAssumption DEF Import!ConstantsOK

LEMMA NBarInit == Import!Init => NBarInv
<1> SUFFICES ASSUME Import!Init PROVE NBarInv
  OBVIOUS
<1> USE DEF Import!Init
<1>1. Import!Holding = {}
  BY DEF Import!Holding
<1>2. Import!TypeOK
  BY <1>1, FS_EmptySet, SameCount, ImportAssumption
   DEF Import!ConstantsOK, Import!TypeOK, Import!Uploads, Import!Waits, Import!Phases
<1>3. Begins /\ Import!TasksHaveWaiters /\ Import!SendsToTheLiving /\ Received /\ Sent
  BY DEF Begins, Import!TasksHaveWaiters, Import!SendsToTheLiving, Received, Sent
<1> QED BY <1>2, <1>3 DEF NBarInv

\* The steps of an upload.
LEMMA NBarImportStep ==
  \A i \in Imports : NBarInv /\ Import!ImportStep(i) => NBarInv'
<1> SUFFICES ASSUME NEW i \in Imports, NBarInv, Import!ImportStep(i)
             PROVE  NBarInv'
  OBVIOUS
<1> USE DEF NBarInv
<1>1. CASE Import!Upload(i)
  <2> USE <1>1 DEF Import!Upload
  <2>1. i \notin Import!Holding /\ Import!Holding' = Import!Holding \cup {i}
    BY ImportAssumption DEF Import!ConstantsOK, Import!Holding, Import!TypeOK
  <2>2. Import!TypeOK'
    BY <2>1, TakesOne DEF Import!TypeOK, Import!Uploads
  <2>3. (Begins /\ Import!TasksHaveWaiters /\ Import!SendsToTheLiving /\ Received /\ Sent)'
    BY DEF Begins, Import!TasksHaveWaiters, Import!SendsToTheLiving, Received, Sent,
           Import!TypeOK
  <2> QED BY <2>2, <2>3
<1>2. CASE Import!UploadFails(i)
  <2> USE <1>2 DEF Import!UploadFails
  <2>1. i \in Import!Holding /\ Import!Holding' = Import!Holding \ {i}
    BY ImportAssumption DEF Import!ConstantsOK, Import!Holding, Import!TypeOK
  <2>2. Import!TypeOK'
    BY <2>1, GivesOne DEF Import!TypeOK, Import!Uploads
  <2>3. (Begins /\ Import!TasksHaveWaiters /\ Import!SendsToTheLiving /\ Received /\ Sent)'
    BY DEF Begins, Import!TasksHaveWaiters, Import!SendsToTheLiving, Received, Sent,
           Import!TypeOK
  <2> QED BY <2>2, <2>3
<1>3. CASE Import!Register(i)
  <2> USE <1>3 DEF Import!Register
  <2>1. i \in Import!Holding /\ Import!Holding' = Import!Holding \ {i}
    BY ImportAssumption DEF Import!ConstantsOK, Import!Holding, Import!TypeOK
  <2>2. Import!TypeOK'
    BY <2>1, GivesOne DEF Import!TypeOK, Import!Uploads, Import!Waits
  <2>3. waiter[i] = "none"
    BY DEF Begins
  <2>4. Begins' /\ Received'
    BY DEF Begins, Received, Import!TypeOK
  <2>5. Import!TasksHaveWaiters' /\ Import!SendsToTheLiving'
    BY DEF Import!TasksHaveWaiters, Import!SendsToTheLiving, Import!TypeOK
  <2>6. Sent'
    BY <2>3 DEF Sent, Begins, Import!TypeOK
  <2> QED BY <2>2, <2>4, <2>5, <2>6
<1> QED BY <1>1, <1>2, <1>3 DEF Import!ImportStep

\* The steps of an edit.
LEMMA NBarEditStep ==
  \A e \in Edits : NBarInv /\ (Import!Click(e) \/ Import!EditStep(e)) => NBarInv'
<1> SUFFICES ASSUME NEW e \in Edits, NBarInv, Import!Click(e) \/ Import!EditStep(e)
             PROVE  NBarInv'
  OBVIOUS
<1> USE DEF NBarInv
<1>1. CASE Import!Click(e)
  <2> USE <1>1 DEF Import!Click
  <2>1. e \notin Import!Holding /\ Import!Holding' = Import!Holding \cup {e}
    BY ImportAssumption DEF Import!ConstantsOK, Import!Holding, Import!TypeOK
  <2>2. Import!TypeOK'
    BY <2>1, TakesOne DEF Import!TypeOK, Import!Phases
  <2>3. (Begins /\ Import!TasksHaveWaiters /\ Import!SendsToTheLiving /\ Received /\ Sent)'
    BY DEF Begins, Import!TasksHaveWaiters, Import!SendsToTheLiving, Received, Sent,
           Import!TypeOK
  <2> QED BY <2>2, <2>3
<1>2. CASE Import!Lookup(e)
  <2> USE <1>2 DEF Import!Lookup
  <2>1. Import!Holding' = Import!Holding
    BY DEF Import!Holding, Import!TypeOK
  <2>2. Import!TypeOK'
    BY <2>1 DEF Import!TypeOK, Import!Phases
  <2>3. (Begins /\ Import!TasksHaveWaiters /\ Import!SendsToTheLiving /\ Received /\ Sent)'
    BY ImportAssumption
     DEF Import!ConstantsOK, Begins, Import!TasksHaveWaiters, Import!SendsToTheLiving,
         Received, Sent, Import!TypeOK
  <2> QED BY <2>2, <2>3
<1>3. CASE Import!Send(e)
  <2> USE <1>3 DEF Import!Send
  <2>1. Import!Holding' = Import!Holding
    BY DEF Import!Holding, Import!TypeOK
  <2>2. Import!TypeOK'
    BY <2>1 DEF Import!TypeOK, Import!Phases
  <2>3. Begins' /\ Import!TasksHaveWaiters' /\ Import!SendsToTheLiving' /\ Received'
    BY DEF Begins, Import!TasksHaveWaiters, Import!SendsToTheLiving, Received,
           Import!TypeOK
  <2>4. target[e] \in tasks /\ target[e] \in Imports
    BY DEF Import!SendsToTheLiving, Begins
  <2>5. Sent'
    <3>1. \A d \in Edits \ {e} : updates[target[d]] = d => target[d] # target[e]
      BY ImportAssumption DEF Import!ConstantsOK
    <3>2. waiter[target[e]] \in Import!Waits \ {"none", "over"}
      BY <2>4 DEF Import!TasksHaveWaiters, Import!TypeOK
    <3>3. \/ waiter[target[e]] = "waiting" \/ got[target[e]] # None
          \/ waiter[target[e]] = "expired"
      BY <2>4, <3>2 DEF Received, Import!Waits
    <3> QED BY <3>1, <3>3, <2>4 DEF Sent, Begins, Import!TypeOK
  <2> QED BY <2>2, <2>3, <2>5
<1>4. CASE Import!Accept(e)
  <2> USE <1>4 DEF Import!Accept
  <2>1. e \in Import!Holding /\ Import!Holding' = Import!Holding \ {e}
    BY ImportAssumption DEF Import!ConstantsOK, Import!Holding, Import!TypeOK
  <2>2. Import!TypeOK'
    BY <2>1, GivesOne DEF Import!TypeOK, Import!Phases
  <2>3. (Begins /\ Import!TasksHaveWaiters /\ Import!SendsToTheLiving /\ Received /\ Sent)'
    BY ImportAssumption
     DEF Import!ConstantsOK, Begins, Import!TasksHaveWaiters, Import!SendsToTheLiving,
         Received, Sent, Import!TypeOK
  <2> QED BY <2>2, <2>3
<1>5. CASE Import!Refuse(e)
  <2> USE <1>5 DEF Import!Refuse
  <2>1. e \in Import!Holding /\ Import!Holding' = Import!Holding \ {e}
    BY ImportAssumption DEF Import!ConstantsOK, Import!Holding, Import!TypeOK
  <2>2. Import!TypeOK'
    BY <2>1, GivesOne DEF Import!TypeOK, Import!Phases
  <2>3. (Begins /\ Import!TasksHaveWaiters /\ Import!SendsToTheLiving /\ Received /\ Sent)'
    BY DEF Begins, Import!TasksHaveWaiters, Import!SendsToTheLiving, Received, Sent,
           Import!TypeOK
  <2> QED BY <2>2, <2>3
<1> QED BY <1>1, <1>2, <1>3, <1>4, <1>5 DEF Import!EditStep

\* The steps of the goroutine of an import.
LEMMA NBarWaiterStep ==
  \A i \in Imports : NBarInv /\ (Import!WaiterStep(i) \/ Import!Expire(i)) => NBarInv'
<1> SUFFICES ASSUME NEW i \in Imports, NBarInv, Import!WaiterStep(i) \/ Import!Expire(i)
             PROVE  NBarInv'
  OBVIOUS
<1> USE DEF NBarInv, Import!WaiterStep
<1>1. Import!Holding' = Import!Holding
  BY DEF Import!Holding, Import!Receive, Import!StoreNotebook, Import!StoreEditor,
         Import!Forget, Import!Expire
<1>2. Import!TypeOK'
  BY <1>1
   DEF Import!TypeOK, Import!Waits, Import!Receive, Import!StoreNotebook,
       Import!StoreEditor, Import!Forget, Import!Expire
<1>3. Begins'
  BY DEF Begins, Import!TypeOK, Import!Receive, Import!StoreNotebook,
         Import!StoreEditor, Import!Forget, Import!Expire
<1>4. Import!TasksHaveWaiters'
  BY DEF Import!TasksHaveWaiters, Import!TypeOK, Import!Receive, Import!StoreNotebook,
         Import!StoreEditor, Import!Forget, Import!Expire
<1>5. Import!SendsToTheLiving'
  <2>1. CASE Import!Forget(i)
    BY <2>1, ImportAssumption
     DEF Import!ConstantsOK, Import!Forget, Import!SendsToTheLiving,
         Import!TasksHaveWaiters
  <2>2. CASE \/ Import!Receive(i) \/ Import!StoreNotebook(i)
             \/ Import!StoreEditor(i) \/ Import!Expire(i)
    BY <2>2
     DEF Import!SendsToTheLiving, Import!Receive, Import!StoreNotebook,
         Import!StoreEditor, Import!Expire
  <2> QED BY <2>1, <2>2
<1>6. Received'
  BY DEF Received, Import!TypeOK, Import!Receive, Import!StoreNotebook,
         Import!StoreEditor, Import!Forget, Import!Expire
<1>7. Sent'
  <2>1. CASE Import!Receive(i)
    BY <2>1 DEF Import!Receive, Sent, Begins, Import!TypeOK
  <2>2. CASE \/ Import!StoreNotebook(i) \/ Import!StoreEditor(i)
             \/ Import!Forget(i) \/ Import!Expire(i)
    BY <2>2
     DEF Import!StoreNotebook, Import!StoreEditor, Import!Forget, Import!Expire, Sent,
         Begins, Import!TypeOK
  <2> QED BY <2>1, <2>2
<1> QED BY <1>2, <1>3, <1>4, <1>5, <1>6, <1>7

\* A step of the walk leaves the import alone.
LEMMA NBarRests == NBarInv /\ UNCHANGED imports => NBarInv'
<1> SUFFICES ASSUME NBarInv, UNCHANGED imports PROVE NBarInv'
  OBVIOUS
<1>1. Import!Holding' = Import!Holding
  BY DEF imports, Import!Holding
<1>2. Import!TypeOK'
  BY <1>1 DEF NBarInv, imports, Import!TypeOK
<1>3. (Begins /\ Import!TasksHaveWaiters /\ Import!SendsToTheLiving /\ Received /\ Sent)'
  BY DEF NBarInv, imports, Begins, Import!TasksHaveWaiters, Import!SendsToTheLiving,
         Received, Sent
<1> QED BY <1>2, <1>3 DEF NBarInv

\* The invariant of the import, for any number of imports and edits and any
\* size of the pool, late and repeated edits included.
THEOREM NBarInvariant == MCSpec => []NBarInv
<1>1. MCInit => NBarInv
  BY NBarInit DEF MCInit
<1>2. NBarInv /\ [MCNext]_all => NBarInv'
  <2> SUFFICES ASSUME NBarInv, [MCNext]_all PROVE NBarInv'
    OBVIOUS
  <2>1. UNCHANGED imports \/ Import!Next
    BY DEF MCNext, Walks, Imported, all
  <2> QED
    BY <2>1, NBarImportStep, NBarEditStep, NBarWaiterStep, NBarRests DEF Import!Next
<1> QED BY <1>1, <1>2, PTL DEF MCSpec

\* The types of the state hold, and exactly the connections of the requests
\* that run are out of the pool (dispatch.go:105-143).
THEOREM NBarTypes == MCSpec => []Import!TypeOK
<1>1. NBarInv => Import!TypeOK
  BY DEF NBarInv
<1> QED BY <1>1, NBarInvariant, PTL

\* A send does not race with the deletion of its task, and an edit that was
\* accepted is received unless another one was or the time had run out
\* (nbar.go:305-347).
THEOREM NothingSentIsLost ==
  MCSpec => [](Import!TasksHaveWaiters /\ Import!SendsToTheLiving /\ AcceptedIsReceived)
<1>1. NBarInv =>
        Import!TasksHaveWaiters /\ Import!SendsToTheLiving /\ AcceptedIsReceived
  BY DEF NBarInv, Sent, AcceptedIsReceived, Import!AcceptedIsReceived
<1> QED BY <1>1, NBarInvariant, PTL
=============================================================================
