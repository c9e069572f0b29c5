------------------------------ MODULE LabelStore ------------------------------
(***************************************************************************)
(* The compound commit of workspace labels: a label edit may rewrite the   *)
(* catalog file and the workspace registry file, and a transaction file    *)
(* beside them decides, whatever write fails and wherever the daemon       *)
(* stops, whether a restart finds the edit or not.                         *)
(*                                                                         *)
(* A file operation that rejects may or may not have taken effect.  A      *)
(* registry write outside a label edit that fails changes nothing, and is  *)
(* left out.                                                               *)
(***************************************************************************)
EXTENDS LabelEdits, Integers

CONSTANTS
  MaxFaults \* BOUND: file operations that reject

Transaction == [phase : {"prepared", "committed"}, labels : Catalog, workspaces : Assignments]

ASSUME LabelStoreAssumption == MaxFaults \in Nat /\ None \notin Transaction

VARIABLES
  catalogFile, workspaceFile, transactionFile, \* the three files
  labels,     \* the catalog store's memory
  workspaces, \* the workspace registry's memory: the labels of each workspace
  refusing,   \* whether the catalog and the registry refuse writes until a restart
  step,       \* what the label edit under way, or the recovery, does next
  starting,   \* whether the recovery is the one of the startup
  plan,       \* the staged edit
  faults,     \* rejected file operations so far
  overtaken   \* history: whether a registry mutation ran between a marker written
              \* by a rejecting write and the read that finds it

store == <<catalogFile, workspaceFile, transactionFile, labels, workspaces, refusing,
           step, starting, plan, faults, overtaken>>
files == <<catalogFile, workspaceFile, transactionFile>>
memory == <<labels, workspaces>>

\* The steps during which a label edit holds the registry's mutation queue.
Queued == {"prepare", "catalog", "workspaces", "mark", "undoCatalog", "undoWorkspaces",
           "undoRemove"}
Steps == Queued \cup {"idle", "cleanup", "resolve", "recover", "down"}

Memory == [labels |-> labels, workspaces |-> workspaces]

StoreInit ==
  /\ catalogFile = [n \in {} |-> None]
  /\ workspaceFile = [w \in Workspaces |-> {}]
  /\ transactionFile = None
  /\ labels = catalogFile
  /\ workspaces = workspaceFile
  /\ refusing = FALSE
  /\ step = "idle"
  /\ starting = FALSE
  /\ plan = None
  /\ faults = 0
  /\ overtaken = FALSE

-----------------------------------------------------------------------------
(* The edits, staged under the service's exclusive queue.                  *)

\* A plan that changes nothing skips the files; every commit ends by removing
\* a transaction file.
Stage(p) ==
  /\ step = "idle" /\ ~refusing
  /\ plan' = p
  /\ step' = IF p.labels = labels /\ p.updates = NoAssignments THEN "cleanup" ELSE "prepare"
  /\ UNCHANGED <<files, memory, refusing, starting, faults, overtaken>>

\* The planner rejects: the error takes the path of a failed commit.  A client
\* may always name a workspace that is not there.
Reject ==
  /\ step = "idle" /\ ~refusing
  /\ step' = "resolve"
  /\ UNCHANGED <<files, memory, refusing, starting, plan, faults, overtaken>>

-----------------------------------------------------------------------------
(* The commit.                                                             *)

\* What an operation that turns a file from old into new can do.
Outcomes(old, new) ==
  {[file |-> new, ok |-> TRUE]} \cup
    (IF faults < MaxFaults THEN [file : {old, new}, ok : {FALSE}] ELSE {})

CountFault(outcome) == faults' = IF outcome.ok THEN faults ELSE faults + 1

\* The registry records of the staged edit.
Staged == Overlay(workspaces, plan.updates)

Prepared == [phase |-> "prepared", labels |-> labels,
             workspaces |-> [w \in DOMAIN plan.updates |-> workspaces[w]]]

WritePrepared ==
  /\ step = "prepare"
  /\ \E o \in Outcomes(transactionFile, Prepared) :
       /\ transactionFile' = o.file
       /\ step' = IF o.ok THEN "catalog" ELSE "resolve"
       /\ CountFault(o)
  /\ UNCHANGED <<catalogFile, workspaceFile, memory, refusing, starting, plan, overtaken>>

WriteCatalog ==
  /\ step = "catalog"
  /\ \E o \in Outcomes(catalogFile, plan.labels) :
       /\ catalogFile' = o.file
       /\ step' = IF o.ok THEN "workspaces" ELSE "resolve"
       /\ CountFault(o)
  /\ UNCHANGED <<workspaceFile, transactionFile, memory, refusing, starting, plan, overtaken>>

\* The registry file is written only when some record changed.
WriteWorkspaces ==
  /\ step = "workspaces"
  /\ \E o \in IF plan.updates = NoAssignments THEN {[file |-> workspaceFile, ok |-> TRUE]}
              ELSE Outcomes(workspaceFile, Staged) :
       /\ workspaceFile' = o.file
       /\ step' = IF o.ok THEN "mark" ELSE "resolve"
       /\ CountFault(o)
  /\ UNCHANGED <<catalogFile, transactionFile, memory, refusing, starting, plan, overtaken>>

\* The commit point; both memories follow in the same turn of the event loop.
WriteCommitted ==
  /\ step = "mark"
  /\ \E o \in Outcomes(transactionFile, [Prepared EXCEPT !.phase = "committed"]) :
       /\ transactionFile' = o.file
       /\ step' = IF o.ok THEN "cleanup" ELSE "resolve"
       /\ labels' = IF o.ok THEN plan.labels ELSE labels
       /\ workspaces' = IF o.ok THEN Staged ELSE workspaces
       /\ CountFault(o)
  /\ UNCHANGED <<catalogFile, workspaceFile, refusing, starting, plan, overtaken>>

\* The edit is acknowledged whether or not its marker could be removed.
Acknowledge ==
  /\ step = "cleanup"
  /\ \E o \in Outcomes(transactionFile, None) : transactionFile' = o.file /\ CountFault(o)
  /\ step' = "idle"
  /\ plan' = None
  /\ UNCHANGED <<catalogFile, workspaceFile, memory, refusing, starting, overtaken>>

-----------------------------------------------------------------------------
(* Failure and recovery.                                                   *)

\* blockUntilRestart; of a startup, the daemon does not come up.
GiveUp ==
  /\ plan' = None
  /\ refusing' = ~starting
  /\ step' = IF starting THEN "down" ELSE "idle"

\* Mutant: a committed transaction is answered like a rejected one.
ResolveWithoutBlocking ==
  /\ step = "resolve"
  /\ \/ /\ transactionFile # None => transactionFile.phase = "committed"
        /\ step' = "idle" /\ plan' = None /\ refusing' = refusing
     \/ /\ transactionFile # None /\ transactionFile.phase = "prepared"
        /\ step' = "recover" /\ UNCHANGED <<plan, refusing>>
  /\ UNCHANGED <<files, memory, starting, faults, overtaken>>

\* resolveFailedCommit: what the transaction file says of the failed edit.  It
\* may be unreadable.
ResolveFailedCommit ==
  /\ step = "resolve"
  /\ \/ /\ transactionFile = None
        /\ step' = "idle" /\ plan' = None /\ refusing' = refusing
     \/ transactionFile # None /\ transactionFile.phase = "committed" /\ GiveUp
     \/ /\ transactionFile # None /\ transactionFile.phase = "prepared"
        /\ step' = "recover" /\ UNCHANGED <<plan, refusing>>
  /\ UNCHANGED <<files, memory, starting, faults, overtaken>>

TransactionUnreadable ==
  /\ step = "resolve" /\ faults < MaxFaults
  /\ faults' = faults + 1
  /\ GiveUp
  /\ UNCHANGED <<files, memory, starting, overtaken>>

\* Mutant: a rolled back workspace is written even when it is gone.
RolledBackAll ==
  [w \in DOMAIN workspaces \cup DOMAIN transactionFile.workspaces |->
     IF w \in DOMAIN transactionFile.workspaces THEN transactionFile.workspaces[w]
     ELSE workspaces[w]]

\* The records of the registry with the labels of the transaction put back.
RolledBack == Overlay(workspaces, transactionFile.workspaces)

\* recover, of a prepared transaction: it waits for the registry's queue.
StartRollback ==
  /\ step = "recover" /\ transactionFile # None /\ transactionFile.phase = "prepared"
  /\ step' = "undoCatalog"
  /\ UNCHANGED <<files, memory, refusing, starting, plan, faults, overtaken>>

UndoCatalog ==
  /\ step = "undoCatalog"
  /\ \E o \in Outcomes(catalogFile, transactionFile.labels) :
       /\ catalogFile' = o.file
       /\ CountFault(o)
       /\ IF o.ok THEN step' = "undoWorkspaces" /\ UNCHANGED <<plan, refusing>> ELSE GiveUp
  /\ UNCHANGED <<workspaceFile, transactionFile, memory, starting, overtaken>>

UndoWorkspaces ==
  /\ step = "undoWorkspaces"
  /\ \E o \in IF DOMAIN transactionFile.workspaces \cap DOMAIN workspaces = {}
              THEN {[file |-> workspaceFile, ok |-> TRUE]}
              ELSE Outcomes(workspaceFile, RolledBack) :
       /\ workspaceFile' = o.file
       /\ CountFault(o)
       /\ IF o.ok THEN step' = "undoRemove" /\ UNCHANGED <<plan, refusing>> ELSE GiveUp
  /\ UNCHANGED <<catalogFile, transactionFile, memory, starting, overtaken>>

\* The rejected edit is answered, or the startup goes on.
RemovePrepared ==
  /\ step = "undoRemove"
  /\ \E o \in Outcomes(transactionFile, None) :
       /\ transactionFile' = o.file
       /\ CountFault(o)
       /\ IF o.ok
          THEN /\ step' = "idle" /\ plan' = None /\ starting' = FALSE
               /\ labels' = transactionFile.labels
               /\ workspaces' = RolledBack
               /\ UNCHANGED refusing
          ELSE GiveUp /\ UNCHANGED <<starting, memory>>
  /\ UNCHANGED <<catalogFile, workspaceFile, overtaken>>

StoreCrash ==
  /\ step # "down"
  /\ step' = "down"
  /\ refusing' = FALSE
  /\ plan' = None
  /\ UNCHANGED <<files, memory, starting, faults, overtaken>>

\* The registry loads its file before the catalog store recovers.
StoreRestart ==
  /\ step = "down"
  /\ workspaces' = workspaceFile
  /\ labels' = [n \in {} |-> None]
  /\ starting' = TRUE
  /\ step' = "recover"
  /\ UNCHANGED <<files, refusing, plan, faults, overtaken>>

\* loadAndRecover without a prepared transaction: the marker of a committed one
\* is removed if it can be.
LoadCatalog ==
  /\ step = "recover"
  /\ transactionFile # None => transactionFile.phase = "committed"
  /\ \E o \in IF transactionFile = None THEN {[file |-> None, ok |-> TRUE]}
              ELSE Outcomes(transactionFile, None) :
       transactionFile' = o.file /\ CountFault(o)
  /\ labels' = catalogFile
  /\ starting' = FALSE
  /\ step' = "idle"
  /\ UNCHANGED <<catalogFile, workspaceFile, workspaces, refusing, plan, overtaken>>

\* The marker is written, and nobody has looked yet.
MarkerUnnoticed ==
  step = "resolve" /\ plan # None /\ transactionFile # None /\ transactionFile.phase = "committed"

\* A registry mutation that is no label edit: another field of a record, or the
\* removal of a workspace, writes the registry's memory over the file.  A failed
\* commit gives the queue back before resolveFailedCommit reads.
RegistryMutation(records) ==
  /\ step \notin Queued \cup {"down"} /\ ~starting /\ ~refusing
  /\ workspaceFile' = records
  /\ workspaces' = records
  /\ overtaken' = (overtaken \/ MarkerUnnoticed)
  /\ UNCHANGED <<catalogFile, transactionFile, labels, refusing, step, starting, plan, faults>>

UpsertWorkspace == RegistryMutation(workspaces)

RemoveRecord(w) ==
  /\ w \in DOMAIN workspaces
  /\ RegistryMutation(Without(Memory, w).workspaces)

Commit == WritePrepared \/ WriteCatalog \/ WriteWorkspaces \/ WriteCommitted
Recovery ==
  \/ ResolveFailedCommit \/ TransactionUnreadable
  \/ StartRollback \/ UndoCatalog \/ UndoWorkspaces \/ RemovePrepared
  \/ LoadCatalog
Request == Reject \/ \E p \in Plans(Memory) : Stage(p)
Registry == UpsertWorkspace \/ \E w \in Workspaces : RemoveRecord(w)

StoreNext == Request \/ Commit \/ Acknowledge \/ Recovery \/ StoreCrash \/ StoreRestart \/ Registry

StoreSpec == StoreInit /\ [][StoreNext]_store

-----------------------------------------------------------------------------
(* Properties.                                                             *)

StoreTypeOK ==
  /\ {catalogFile, labels} \subseteq Catalog
  /\ {workspaceFile, workspaces} \subseteq Assignments
  /\ transactionFile \in Transaction \cup {None}
  /\ {refusing, starting} \subseteq BOOLEAN
  /\ step \in Steps
  /\ plan \in Plan \cup {None}
  /\ faults \in 0..MaxFaults
  /\ overtaken \in BOOLEAN

\* What a restart that meets no fault would load.
Recovered ==
  IF transactionFile # None /\ transactionFile.phase = "prepared"
  THEN [labels |-> transactionFile.labels,
        workspaces |-> Overlay(workspaceFile, transactionFile.workspaces)]
  ELSE [labels |-> catalogFile, workspaces |-> workspaceFile]

\* Whenever the daemon serves labels and is not refusing, a restart would load
\* exactly what it serves: an acknowledged edit is durable, a rejected one never
\* comes back, and neither leaves half of itself.
ServedIsDurable == step = "idle" /\ ~refusing => Recovered = Memory

\* While an edit or its rollback is under way, the files never stand for anything
\* but the state before it or the state after it.
AllOrNothing ==
  step \in Queued \cup {"cleanup", "resolve"} /\ plan # None =>
    Recovered \in {Memory, [labels |-> plan.labels, workspaces |-> Staged]}

\* What the restart loads names no label that the catalog does not define.
LabelsExist ==
  \A w \in DOMAIN Recovered.workspaces : Recovered.workspaces[w] \subseteq DOMAIN Recovered.labels

\* Wherever the daemon stops, what the restart loads names no label that the
\* catalog does not define, unless a registry mutation has overtaken a committed
\* edit: it wrote the assignments of before the edit beside the edit's labels.
AssignedLabelsExist == ~overtaken => LabelsExist

\* The store implements the catalog it promises, with the hole the catalog names:
\* what a restart would load is the durable catalog, and a marker nobody has
\* noticed blocks edits from the start.
Serving == step # "down" /\ ~starting

Promise == INSTANCE LabelCatalog WITH
  durable <- Recovered,
  served <- IF Serving THEN Memory ELSE [labels |-> [n \in {} |-> None], workspaces |-> NoAssignments],
  blocked <- refusing \/ MarkerUnnoticed,
  unnoticed <- MarkerUnnoticed,
  up <- Serving

ImplementsCatalog == Promise!CatalogSpec

=============================================================================
