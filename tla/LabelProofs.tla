------------------------------ MODULE LabelProofs ------------------------------
(***************************************************************************)
(* Workspace labels, in two parts, for any labels, colours and workspaces. *)
(*                                                                         *)
(* The store: its compound commit keeps the promise of LabelCatalog, for   *)
(* any number of rejected file operations and a daemon that stops          *)
(* anywhere: an edit takes effect at once and whole or not at all, and     *)
(* what the daemon serves is what a restart loads.                         *)
(*                                                                         *)
(* The clients: for any limit of the journal and any number of changes and *)
(* daemon processes, what a client shows of the promised catalog.  The     *)
(* argument is a history of the process, the catalog at every number it    *)
(* gave out; each message, each cursor and the journal are read against    *)
(* it.                                                                     *)
(***************************************************************************)
EXTENDS LabelStore, WorkspaceLabels, SequenceTheorems, WellFoundedInduction, TLAPS


-----------------------------------------------------------------------------
(* The store: the invariant.                                               *)

Undoable == transactionFile # None /\ transactionFile.phase = "prepared"

\* The files hold what the daemon serves.
FilesCurrent == catalogFile = labels /\ workspaceFile = workspaces

\* The registry loaded its file and has not changed a record since.
RegistryLoaded == workspaces = workspaceFile

\* Undoing the transaction leads back to what the daemon serves, whichever of the
\* two files holds the edit and whatever workspaces went away since.
UndoLeadsBack ==
  /\ Undoable
  /\ transactionFile.labels = labels
  /\ DOMAIN workspaceFile = DOMAIN workspaces
  /\ \A w \in DOMAIN workspaces :
       IF w \in DOMAIN transactionFile.workspaces
       THEN transactionFile.workspaces[w] = workspaces[w]
       ELSE workspaceFile[w] = workspaces[w]

Undoing == {"undoCatalog", "undoWorkspaces", "undoRemove"}

\* How far the three files are at each step of a commit,
CommitInv ==
  /\ step \in {"prepare", "catalog", "workspaces", "mark"} => plan \in Plans(Memory)
  /\ step \in {"prepare", "cleanup"} => ~Undoable /\ FilesCurrent
  /\ step \in {"catalog", "workspaces", "mark"} => transactionFile = Prepared
  /\ step = "catalog" => FilesCurrent
  /\ step = "workspaces" => catalogFile = plan.labels /\ workspaceFile = workspaces
  /\ step = "mark" => catalogFile = plan.labels /\ workspaceFile = Staged

\* of a recovery,
RecoveryInv ==
  /\ step = "resolve" =>
       \/ UndoLeadsBack
       \/ ~Undoable /\ FilesCurrent
       \/ MarkerUnnoticed
  /\ step \in {"recover"} \cup Undoing /\ ~starting => UndoLeadsBack
  /\ step \in {"recover", "undoCatalog", "undoWorkspaces"} /\ starting => RegistryLoaded
  /\ step \in Undoing => Undoable
  /\ step \in {"undoWorkspaces", "undoRemove"} => catalogFile = transactionFile.labels
  /\ step = "undoRemove" => workspaceFile = RolledBack

\* and between edits.
RestInv ==
  /\ refusing => step = "idle"
  /\ starting => step \in {"recover", "down"} \cup Undoing
  /\ step \in {"idle", "down"} \/ starting => plan = None
  /\ step = "idle" /\ ~refusing => ~Undoable /\ FilesCurrent

\* The type invariant with the three parts.
StoreInv == StoreTypeOK /\ CommitInv /\ RecoveryInv /\ RestInv

-----------------------------------------------------------------------------
(* Catalogs, assignments and the edits.                                    *)

LEMMA CatalogFunction ==
  ASSUME NEW f \in Catalog
  PROVE  /\ f = [n \in DOMAIN f |-> f[n]]
         /\ DOMAIN f \subseteq Names
         /\ \A n \in DOMAIN f : f[n] \in Colors
<1>1. PICK S \in SUBSET Names : f \in [S -> Colors]
  BY DEF Catalog
<1> QED
  BY <1>1

LEMMA FunctionCatalog ==
  ASSUME NEW S \in SUBSET Names, NEW f \in [S -> Colors]
  PROVE  f \in Catalog
BY DEF Catalog

LEMMA AssignmentsFunction ==
  ASSUME NEW f \in Assignments
  PROVE  /\ f = [w \in DOMAIN f |-> f[w]]
         /\ DOMAIN f \subseteq Workspaces
         /\ \A w \in DOMAIN f : f[w] \subseteq Names
<1>1. PICK W \in SUBSET Workspaces : f \in [W -> SUBSET Names]
  BY DEF Assignments
<1> QED
  BY <1>1

LEMMA FunctionAssignments ==
  ASSUME NEW W \in SUBSET Workspaces, NEW f \in [W -> SUBSET Names]
  PROVE  f \in Assignments
BY DEF Assignments

LEMMA NothingAssigned == NoAssignments \in Assignments /\ DOMAIN NoAssignments = {}
<1>1. NoAssignments \in [{} -> SUBSET Names] /\ DOMAIN NoAssignments = {}
  BY DEF NoAssignments
<1> QED
  BY <1>1, FunctionAssignments

LEMMA OverlayAssignments ==
  ASSUME NEW f \in Assignments, NEW g \in Assignments
  PROVE  /\ Overlay(f, g) \in Assignments
         /\ DOMAIN Overlay(f, g) = DOMAIN f
         /\ \A w \in DOMAIN f : Overlay(f, g)[w] = IF w \in DOMAIN g THEN g[w] ELSE f[w]
<1>1. Overlay(f, g) \in [DOMAIN f -> SUBSET Names]
  BY AssignmentsFunction DEF Overlay
<1>2. Overlay(f, g) \in Assignments
  BY <1>1, AssignmentsFunction, FunctionAssignments
<1> QED
  BY <1>2 DEF Overlay

\* Two assignments that agree everywhere are the same.
LEMMA SameAssignments ==
  ASSUME NEW f \in Assignments, NEW g \in Assignments, DOMAIN f = DOMAIN g,
         \A w \in DOMAIN f : f[w] = g[w]
  PROVE  f = g
BY AssignmentsFunction

\* No record names a label that the catalog does not define.
Coherent(image) == \A w \in DOMAIN image.workspaces : image.workspaces[w] \subseteq DOMAIN image.labels

\* What every edit leaves: a catalog, records of workspaces that are there, and
\* no label that the catalog does not define.
Fits(image, p) ==
  /\ p \in Plan
  /\ DOMAIN p.updates \subseteq DOMAIN image.workspaces
  /\ Coherent(image) => Coherent(Applied(image, p))

\* An edit fits when each record it writes names only labels of the new catalog
\* and each one it leaves alone had only labels that stay.
LEMMA FitsIf ==
  ASSUME NEW image \in Image, NEW c \in Catalog, NEW u \in Assignments,
         NEW change \in Change \cup {None},
         DOMAIN u \subseteq DOMAIN image.workspaces,
         \A w \in DOMAIN image.workspaces :
           image.workspaces[w] \subseteq DOMAIN image.labels =>
             IF w \in DOMAIN u THEN u[w] \subseteq DOMAIN c
             ELSE image.workspaces[w] \subseteq DOMAIN c
  PROVE  Fits(image, [labels |-> c, updates |-> u, change |-> change])
<1> DEFINE p == [labels |-> c, updates |-> u, change |-> change]
<1>1. p \in Plan /\ p.labels = c /\ p.updates = u
  BY DEF Plan
<1>2. image.workspaces \in Assignments
  BY DEF Image
<1>3. Applied(image, p) = [labels |-> c, workspaces |-> Overlay(image.workspaces, u)]
  BY <1>1 DEF Applied
<1>4. ASSUME Coherent(image) PROVE Coherent(Applied(image, p))
  BY <1>2, <1>3, <1>4, OverlayAssignments DEF Coherent
<1> QED
  BY <1>1, <1>4 DEF Fits

LEMMA UnassignFits ==
  ASSUME NEW image \in Image, NEW w \in DOMAIN image.workspaces, NEW n \in Names
  PROVE  Fits(image, UnassignPlan(image, w, n))
<1> DEFINE d == Unassign(image, w, n)
<1>1. image.labels \in Catalog /\ image.workspaces \in Assignments
  BY DEF Image
<1>2. d \in Assignments /\ DOMAIN d \subseteq {w} /\ (w \in DOMAIN d => d[w] = image.workspaces[w] \ {n})
  <2>1. CASE n \notin image.workspaces[w]
    BY <2>1, NothingAssigned DEF Unassign
  <2>2. CASE n \in image.workspaces[w]
    <3>1. d = [v \in {w} |-> image.workspaces[v] \ {n}]
      BY <2>2 DEF Unassign
    <3>2. d \in [{w} -> SUBSET Names] /\ {w} \in SUBSET Workspaces
      BY <1>1, <3>1, AssignmentsFunction
    <3> QED
      BY <3>1, <3>2, FunctionAssignments
  <2> QED
    BY <2>1, <2>2
<1>3. UnassignPlan(image, w, n) = [labels |-> image.labels, updates |-> d, change |-> None]
  BY DEF UnassignPlan
<1> HIDE DEF d
<1> QED
  BY <1>1, <1>2, <1>3, FitsIf

LEMMA AssignFits ==
  ASSUME NEW image \in Image, NEW w \in DOMAIN image.workspaces, NEW n \in Names, NEW c \in Colors
  PROVE  Fits(image, AssignPlan(image, w, n, c))
<1> DEFINE u == Assign(image, w, n)
           grown == [k \in DOMAIN image.labels \cup {n} |-> IF k = n THEN c ELSE image.labels[k]]
<1>1. image.labels \in Catalog /\ image.workspaces \in Assignments
  BY DEF Image
<1>2. /\ DOMAIN image.labels \subseteq Names /\ \A k \in DOMAIN image.labels : image.labels[k] \in Colors
      /\ DOMAIN image.workspaces \subseteq Workspaces
      /\ \A v \in DOMAIN image.workspaces : image.workspaces[v] \subseteq Names
  BY <1>1, CatalogFunction, AssignmentsFunction
<1>3. /\ u \in Assignments /\ DOMAIN u \subseteq {w}
      /\ w \in DOMAIN u => u[w] = image.workspaces[w] \cup {n}
      /\ w \notin DOMAIN u => n \in image.workspaces[w]
  <2>1. CASE n \in image.workspaces[w]
    BY <2>1, NothingAssigned DEF Assign
  <2>2. CASE n \notin image.workspaces[w]
    <3>1. u = [v \in {w} |-> image.workspaces[v] \cup {n}]
      BY <2>2 DEF Assign
    <3>2. u \in [{w} -> SUBSET Names] /\ {w} \in SUBSET Workspaces
      BY <1>2, <3>1
    <3> QED
      BY <2>2, <3>1, <3>2, FunctionAssignments
  <2> QED
    BY <2>1, <2>2
<1>4. grown \in Catalog /\ DOMAIN grown = DOMAIN image.labels \cup {n}
  <2>1. grown \in [DOMAIN image.labels \cup {n} -> Colors]
    BY <1>2
  <2> QED
    BY <1>2, <2>1, FunctionCatalog
<1> HIDE DEF u
<1>5. CASE n \in DOMAIN image.labels
  <2>1. AssignPlan(image, w, n, c) = [labels |-> image.labels, updates |-> u, change |-> None]
    BY <1>5 DEF AssignPlan, u
  <2> QED
    BY <1>1, <1>3, <1>5, <2>1, FitsIf
<1>6. CASE n \notin DOMAIN image.labels
  <2> DEFINE change == [kind |-> "upsert", name |-> n, color |-> c, previous |-> None]
  <2>1. AssignPlan(image, w, n, c) = [labels |-> grown, updates |-> u, change |-> change]
    BY <1>6 DEF AssignPlan, u
  <2>2. change \in Change
    BY DEF Change
  <2> HIDE DEF grown, change
  <2> QED
    BY <1>1, <1>3, <1>4, <2>1, <2>2, FitsIf
<1> QED
  BY <1>5, <1>6

\* A renamed or removed label is replaced in every record that names it.
LEMMA RewriteRecords ==
  ASSUME NEW image \in Image, NEW n \in Names, NEW replacement \in SUBSET Names
  PROVE  /\ Rewrite(image, n, replacement) \in Assignments
         /\ DOMAIN Rewrite(image, n, replacement) \subseteq DOMAIN image.workspaces
         /\ \A w \in DOMAIN image.workspaces :
              IF w \in DOMAIN Rewrite(image, n, replacement)
              THEN Rewrite(image, n, replacement)[w] = (image.workspaces[w] \ {n}) \cup replacement
              ELSE n \notin image.workspaces[w]
<1> DEFINE W == {v \in DOMAIN image.workspaces : n \in image.workspaces[v]}
<1>1. image.workspaces \in Assignments
  BY DEF Image
<1>2. W \in SUBSET Workspaces /\ \A w \in W : (image.workspaces[w] \ {n}) \cup replacement \in SUBSET Names
  BY <1>1, AssignmentsFunction
<1>3. Rewrite(image, n, replacement) = [w \in W |-> (image.workspaces[w] \ {n}) \cup replacement]
  BY DEF Rewrite
<1> HIDE DEF W
<1>4. Rewrite(image, n, replacement) \in [W -> SUBSET Names]
  BY <1>2, <1>3
<1>5. Rewrite(image, n, replacement) \in Assignments
  BY <1>2, <1>4, FunctionAssignments
<1> QED
  BY <1>3, <1>5 DEF W

LEMMA UpdateFits ==
  ASSUME NEW image \in Image, NEW n \in Names, NEW m \in Names, NEW c \in Colors,
         CanRename(image, n, m)
  PROVE  Fits(image, UpdatePlan(image, n, m, c))
<1> DEFINE renamed == [k \in (DOMAIN image.labels \ {n}) \cup {m} |->
                         IF k = m THEN c ELSE image.labels[k]]
           u == IF m = n THEN NoAssignments ELSE Rewrite(image, n, {m})
           change == IF m = n /\ c = image.labels[n] THEN None
                     ELSE [kind |-> "upsert", name |-> m, color |-> c,
                           previous |-> IF m = n THEN None ELSE n]
<1>1. image.labels \in Catalog /\ image.workspaces \in Assignments
  BY DEF Image
<1>2. DOMAIN image.labels \subseteq Names /\ \A k \in DOMAIN image.labels : image.labels[k] \in Colors
  BY <1>1, CatalogFunction
<1>3. renamed \in Catalog /\ DOMAIN renamed = (DOMAIN image.labels \ {n}) \cup {m}
  <2>1. renamed \in [(DOMAIN image.labels \ {n}) \cup {m} -> Colors]
    BY <1>2
  <2> QED
    BY <1>2, <2>1, FunctionCatalog
<1>4. /\ u \in Assignments /\ DOMAIN u \subseteq DOMAIN image.workspaces
      /\ \A w \in DOMAIN image.workspaces :
           IF w \in DOMAIN u THEN u[w] = (image.workspaces[w] \ {n}) \cup {m}
           ELSE m = n \/ n \notin image.workspaces[w]
  <2>1. CASE m = n
    BY <2>1, NothingAssigned
  <2>2. CASE m # n
    <3>1. u = Rewrite(image, n, {m}) /\ {m} \in SUBSET Names
      BY <2>2
    <3> HIDE DEF u
    <3> QED
      BY <3>1, RewriteRecords
  <2> QED
    BY <2>1, <2>2
<1>5. change \in Change \cup {None}
  <2>1. CASE m = n /\ c = image.labels[n]
    BY <2>1
  <2>2. CASE ~(m = n /\ c = image.labels[n])
    <3>1. change = [kind |-> "upsert", name |-> m, color |-> c, previous |-> IF m = n THEN None ELSE n]
      BY <2>2
    <3>2. (IF m = n THEN None ELSE n) \in Names \cup {None}
      OBVIOUS
    <3> QED
      BY <3>1, <3>2 DEF Change
  <2> QED
    BY <2>1, <2>2
<1>6. UpdatePlan(image, n, m, c) = [labels |-> renamed, updates |-> u, change |-> change]
  BY DEF UpdatePlan
<1>7. n \in DOMAIN image.labels
  BY DEF CanRename
<1> HIDE DEF renamed, u, change
<1> QED
  BY <1>1, <1>3, <1>4, <1>5, <1>6, <1>7, FitsIf

LEMMA DeleteFits ==
  ASSUME NEW image \in Image, NEW n \in Names
  PROVE  Fits(image, DeletePlan(image, n))
<1>1. image.labels \in Catalog /\ image.workspaces \in Assignments
  BY DEF Image
<1>2. CASE n \notin DOMAIN image.labels
  <2>1. DeletePlan(image, n) = [labels |-> image.labels, updates |-> NoAssignments, change |-> None]
    BY <1>2 DEF DeletePlan
  <2> QED
    BY <1>1, <2>1, NothingAssigned, FitsIf
<1>3. CASE n \in DOMAIN image.labels
  <2> DEFINE rest == [k \in DOMAIN image.labels \ {n} |-> image.labels[k]]
             u == Rewrite(image, n, {})
             change == [kind |-> "remove", name |-> n]
  <2>1. DeletePlan(image, n) = [labels |-> rest, updates |-> u, change |-> change]
    BY <1>3 DEF DeletePlan
  <2>2. rest \in Catalog /\ DOMAIN rest = DOMAIN image.labels \ {n}
    <3>1. rest \in [DOMAIN image.labels \ {n} -> Colors] /\ DOMAIN image.labels \ {n} \in SUBSET Names
      BY <1>1, CatalogFunction
    <3> QED
      BY <3>1, FunctionCatalog
  <2>3. change \in Change
    BY DEF Change
  <2>4. /\ u \in Assignments /\ DOMAIN u \subseteq DOMAIN image.workspaces
        /\ \A w \in DOMAIN image.workspaces :
             IF w \in DOMAIN u THEN u[w] = (image.workspaces[w] \ {n}) \cup {}
             ELSE n \notin image.workspaces[w]
    <3>1. u = Rewrite(image, n, {}) /\ {} \in SUBSET Names
      OBVIOUS
    <3> HIDE DEF u
    <3> QED
      BY <3>1, RewriteRecords
  <2> HIDE DEF rest, u, change
  <2> QED
    BY <1>1, <2>1, <2>2, <2>3, <2>4, FitsIf
<1> QED
  BY <1>2, <1>3

\* Every request of a client makes a plan that fits.
LEMMA EditsFit ==
  ASSUME NEW image \in Image, NEW p \in Plans(image)
  PROVE  Fits(image, p)
<1>1. CASE \E w \in DOMAIN image.workspaces, n \in Names, c \in Colors : p = AssignPlan(image, w, n, c)
  BY <1>1, AssignFits
<1>2. CASE \E w \in DOMAIN image.workspaces, n \in Names : p = UnassignPlan(image, w, n)
  <2>1. PICK w \in DOMAIN image.workspaces, n \in Names : p = UnassignPlan(image, w, n)
    BY <1>2
  <2> QED
    BY <2>1, UnassignFits
<1>3. CASE \E r \in Names \X Names \X Colors :
             CanRename(image, r[1], r[2]) /\ p = UpdatePlan(image, r[1], r[2], r[3])
  BY <1>3, UpdateFits
<1>4. CASE \E n \in Names : p = DeletePlan(image, n)
  BY <1>4, DeleteFits
<1> QED
  BY <1>1, <1>2, <1>3, <1>4 DEF Plans

\* So does the removal of a workspace.
LEMMA RemovalFits ==
  ASSUME NEW image \in Image, NEW w
  PROVE  /\ Without(image, w).labels = image.labels
         /\ Without(image, w).workspaces \in Assignments
         /\ DOMAIN Without(image, w).workspaces = DOMAIN image.workspaces \ {w}
         /\ \A v \in DOMAIN image.workspaces \ {w} :
              Without(image, w).workspaces[v] = image.workspaces[v]
         /\ Coherent(image) => Coherent(Without(image, w))
<1> DEFINE rest == [v \in DOMAIN image.workspaces \ {w} |-> image.workspaces[v]]
<1>1. image = [labels |-> image.labels, workspaces |-> image.workspaces]
      /\ image.workspaces \in Assignments
  BY DEF Image
<1>2. Without(image, w) = [labels |-> image.labels, workspaces |-> rest]
  BY <1>1 DEF Without
<1>3. rest \in Assignments
  <2>1. /\ rest \in [DOMAIN image.workspaces \ {w} -> SUBSET Names]
        /\ DOMAIN image.workspaces \ {w} \in SUBSET Workspaces
    BY <1>1, AssignmentsFunction
  <2> QED
    BY <2>1, FunctionAssignments
<1> QED
  BY <1>2, <1>3 DEF Coherent

-----------------------------------------------------------------------------
(* What the daemon serves and what a restart loads.                        *)

LEMMA OutcomeKinds ==
  ASSUME NEW old, NEW new, NEW o \in Outcomes(old, new), faults \in 0..MaxFaults, CountFault(o)
  PROVE  /\ o.file \in {old, new} /\ (o.ok => o.file = new)
         /\ faults' \in 0..MaxFaults
<1>1. CASE o = [file |-> new, ok |-> TRUE]
  BY <1>1 DEF CountFault
<1>2. CASE faults < MaxFaults /\ o \in [file : {old, new}, ok : {FALSE}]
  <2>1. o.file \in {old, new} /\ o.ok = FALSE
    BY <1>2
  <2> QED
    BY <1>2, <2>1, LabelStoreAssumption DEF CountFault
<1> QED
  BY <1>1, <1>2 DEF Outcomes

LEMMA MemoryIsImage == StoreTypeOK => Memory \in Image
BY DEF StoreTypeOK, Memory, Image

\* The staged edit, and the records it rewrites.
LEMMA PlanStaged ==
  ASSUME StoreTypeOK, plan \in Plans(Memory)
  PROVE  /\ plan \in Plan /\ plan # None
         /\ DOMAIN plan.updates \subseteq DOMAIN workspaces
         /\ Staged \in Assignments /\ DOMAIN Staged = DOMAIN workspaces
         /\ \A w \in DOMAIN workspaces :
              Staged[w] = IF w \in DOMAIN plan.updates THEN plan.updates[w] ELSE workspaces[w]
         /\ Applied(Memory, plan) = [labels |-> plan.labels, workspaces |-> Staged]
<1>1. Memory \in Image /\ Memory.labels = labels /\ Memory.workspaces = workspaces
  BY MemoryIsImage DEF Memory
<1>2. plan \in Plan /\ DOMAIN plan.updates \subseteq DOMAIN workspaces
  BY <1>1, EditsFit DEF Fits
<1>3. workspaces \in Assignments /\ plan.updates \in Assignments
  BY <1>2 DEF StoreTypeOK, Plan
<1>4. plan # None
  BY <1>2, NoneAssumption
<1> QED
  BY <1>1, <1>2, <1>3, <1>4, OverlayAssignments DEF Staged, Applied


LEMMA PreparedIsTransaction ==
  ASSUME StoreTypeOK, plan \in Plans(Memory)
  PROVE  /\ Prepared \in Transaction
         /\ [Prepared EXCEPT !.phase = "committed"] \in Transaction
         /\ [Prepared EXCEPT !.phase = "committed"].phase = "committed"
         /\ Prepared.phase = "prepared" /\ Prepared.labels = labels
         /\ DOMAIN Prepared.workspaces = DOMAIN plan.updates
         /\ \A w \in DOMAIN plan.updates : Prepared.workspaces[w] = workspaces[w]
<1>1. /\ DOMAIN plan.updates \subseteq DOMAIN workspaces
      /\ workspaces \in Assignments /\ labels \in Catalog
  BY PlanStaged DEF StoreTypeOK
<1> DEFINE before == [w \in DOMAIN plan.updates |-> workspaces[w]]
<1>2. before \in Assignments
  <2>1. before \in [DOMAIN plan.updates -> SUBSET Names] /\ DOMAIN plan.updates \in SUBSET Workspaces
    BY <1>1, AssignmentsFunction
  <2> QED
    BY <2>1, FunctionAssignments
<1>3. Prepared = [phase |-> "prepared", labels |-> labels, workspaces |-> before]
  BY DEF Prepared
<1>4. DOMAIN before = DOMAIN plan.updates /\ \A w \in DOMAIN plan.updates : before[w] = workspaces[w]
  OBVIOUS
<1> HIDE DEF before
<1>5. [Prepared EXCEPT !.phase = "committed"] =
         [phase |-> "committed", labels |-> labels, workspaces |-> before]
  BY <1>3
<1> QED
  BY <1>1, <1>2, <1>3, <1>4, <1>5 DEF Transaction


\* Undoing the transaction leads to what the daemon serves, so a restart does too.
LEMMA OverlayBack ==
  ASSUME NEW f \in Assignments, NEW g \in Assignments, NEW before \in Assignments,
         DOMAIN f = DOMAIN g,
         \A w \in DOMAIN g : IF w \in DOMAIN before THEN before[w] = g[w] ELSE f[w] = g[w]
  PROVE  Overlay(f, before) = g /\ Overlay(g, before) = g
<1>1. /\ Overlay(f, before) \in Assignments /\ DOMAIN Overlay(f, before) = DOMAIN g
      /\ \A w \in DOMAIN g : Overlay(f, before)[w] = g[w]
  BY OverlayAssignments
<1>2. /\ Overlay(g, before) \in Assignments /\ DOMAIN Overlay(g, before) = DOMAIN g
      /\ \A w \in DOMAIN g : Overlay(g, before)[w] = g[w]
  BY OverlayAssignments
<1> QED
  BY <1>1, <1>2, SameAssignments

LEMMA UndoneIsServed ==
  ASSUME StoreTypeOK, UndoLeadsBack
  PROVE  Recovered = Memory /\ RolledBack = workspaces
<1>1. transactionFile \in Transaction
  BY DEF StoreTypeOK, UndoLeadsBack, Undoable
<1>2. transactionFile.workspaces \in Assignments
  BY <1>1 DEF Transaction
<1> QED
  BY <1>2, OverlayBack DEF StoreTypeOK, UndoLeadsBack, Undoable, Recovered, RolledBack, Memory

\* The same of the state after a step.
LEMMA UndoneWillBeServed ==
  ASSUME StoreTypeOK', UndoLeadsBack'
  PROVE  Recovered' = Memory' /\ RolledBack' = workspaces'
<1>1. transactionFile' \in Transaction
  BY DEF StoreTypeOK, UndoLeadsBack, Undoable
<1>2. transactionFile'.workspaces \in Assignments
  BY <1>1 DEF Transaction
<1> QED
  BY <1>2, OverlayBack DEF StoreTypeOK, UndoLeadsBack, Undoable, Recovered, RolledBack, Memory

\* From the first write of a commit to its marker, the transaction can be undone.
LEMMA CommitUndoable ==
  ASSUME StoreTypeOK, CommitInv, step \in {"catalog", "workspaces", "mark"}
  PROVE  UndoLeadsBack
<1>1. plan \in Plans(Memory) /\ transactionFile = Prepared
  BY DEF CommitInv
<1>2. Prepared \in Transaction /\ Prepared # None
  BY <1>1, PreparedIsTransaction, LabelStoreAssumption
<1>3. Undoable /\ transactionFile.labels = labels
  BY <1>1, <1>2, PreparedIsTransaction DEF Undoable
<1>4. CASE workspaceFile = workspaces
  BY <1>1, <1>3, <1>4, PreparedIsTransaction DEF UndoLeadsBack
<1>5. CASE workspaceFile = Staged
  BY <1>1, <1>3, <1>5, PreparedIsTransaction, PlanStaged DEF UndoLeadsBack
<1> QED
  BY <1>4, <1>5 DEF CommitInv, FilesCurrent


LEMMA FilesAreServed == ASSUME ~Undoable, FilesCurrent PROVE Recovered = Memory
BY DEF Recovered, Memory, Undoable, FilesCurrent


\* Unless writes are refused, what the daemon serves is what a restart loads.
LEMMA ServedWhatIsDurable ==
  ASSUME StoreInv, Serving, ~refusing, ~MarkerUnnoticed
  PROVE  Recovered = Memory
<1>1. step \in Steps /\ StoreTypeOK
  BY DEF StoreInv, StoreTypeOK
<1>2. CASE step \in {"idle", "prepare", "cleanup"}
  BY <1>2, FilesAreServed DEF StoreInv, CommitInv, RestInv
<1>3. CASE step \in {"catalog", "workspaces", "mark"}
  BY <1>1, <1>3, CommitUndoable, UndoneIsServed DEF StoreInv
<1>4. CASE step = "resolve"
  BY <1>1, <1>4, FilesAreServed, UndoneIsServed DEF StoreInv, RecoveryInv
<1>5. CASE step \in {"recover"} \cup Undoing
  BY <1>1, <1>5, UndoneIsServed DEF StoreInv, RecoveryInv, Serving
<1> QED
  BY <1>1, <1>2, <1>3, <1>4, <1>5 DEF Steps, Queued, Undoing, Serving

-----------------------------------------------------------------------------
(* What a step of the store is to the catalog it promises.                 *)

PromiseBlocked == refusing \/ MarkerUnnoticed

LEMMA SameEdits ==
  /\ \A image, p : Promise!Applied(image, p) = Applied(image, p)
  /\ \A image : Promise!Plans(image) = Plans(image)
  /\ \A image, w : Promise!Without(image, w) = Without(image, w)
BY DEF Promise!Applied, Promise!Overlay, Promise!Plans, Promise!Without,
       Promise!AssignPlan, Promise!UnassignPlan, Promise!UpdatePlan, Promise!DeletePlan,
       Promise!CanRename, Promise!Assign, Promise!Unassign, Promise!Rewrite, Promise!NoAssignments,
       Applied, Overlay, Plans, Without, AssignPlan, UnassignPlan, UpdatePlan, DeletePlan,
       CanRename, Assign, Unassign, Rewrite, NoAssignments

LEMMA Unnoticed == MarkerUnnoticed \in BOOLEAN /\ MarkerUnnoticed' \in BOOLEAN
BY DEF MarkerUnnoticed

LEMMA Stutter ==
  ASSUME Recovered' = Recovered, Serving' <=> Serving, PromiseBlocked' <=> PromiseBlocked,
         MarkerUnnoticed' <=> MarkerUnnoticed, Serving => Memory' = Memory
  PROVE  UNCHANGED Promise!catalogVars
BY Unnoticed DEF Promise!catalogVars, PromiseBlocked

LEMMA ServedEdit ==
  ASSUME Serving, ~PromiseBlocked, Serving', ~PromiseBlocked', plan \in Plans(Memory),
         Recovered' = Applied(Memory, plan), Memory' = Applied(Memory, plan)
  PROVE  Promise!AtomicNext
<1>1. Promise!Edit(plan)
  BY SameEdits, Unnoticed DEF Promise!Edit, PromiseBlocked
<1> QED
  BY <1>1, SameEdits DEF Promise!AtomicNext

LEMMA DoubtedEdit ==
  ASSUME Serving, ~PromiseBlocked, Serving', MarkerUnnoticed', plan \in Plans(Memory),
         Recovered' = Applied(Memory, plan), Memory' = Memory
  PROVE  Promise!AtomicNext
<1>1. Promise!EditInDoubt(plan)
  BY SameEdits, Unnoticed DEF Promise!EditInDoubt, PromiseBlocked
<1> QED
  BY <1>1, SameEdits DEF Promise!AtomicNext

LEMMA Blocking ==
  ASSUME Serving, ~PromiseBlocked, Serving', PromiseBlocked', Recovered' = Recovered, Memory' = Memory
  PROVE  Promise!AtomicNext
BY Unnoticed DEF Promise!AtomicNext, Promise!Block, PromiseBlocked

LEMMA Noticing ==
  ASSUME Serving, MarkerUnnoticed, Serving', PromiseBlocked', ~MarkerUnnoticed',
         Recovered' = Recovered, Memory' = Memory
  PROVE  Promise!AtomicNext
BY Unnoticed DEF Promise!AtomicNext, Promise!Notice, PromiseBlocked

LEMMA WorkspaceGone ==
  ASSUME Serving, ~PromiseBlocked, Serving', ~PromiseBlocked', NEW w \in Workspaces,
         Recovered' = Without(Memory, w), Memory' = Without(Memory, w)
  PROVE  Promise!AtomicNext
<1>1. Promise!RemoveWorkspace(w)
  BY SameEdits, Unnoticed DEF Promise!RemoveWorkspace, PromiseBlocked
<1> QED
  BY <1>1 DEF Promise!AtomicNext

LEMMA Stopping ==
  ASSUME Serving, ~Serving', ~PromiseBlocked', Recovered' = Recovered
  PROVE  Promise!AtomicNext
BY Unnoticed DEF Promise!AtomicNext, Promise!Crash, Promise!Nothing, Promise!NoAssignments, NoAssignments, PromiseBlocked

LEMMA Starting ==
  ASSUME ~Serving, Serving', ~PromiseBlocked, ~PromiseBlocked', Recovered' = Recovered, Memory' = Recovered
  PROVE  Promise!AtomicNext
BY Unnoticed DEF Promise!AtomicNext, Promise!Restart, PromiseBlocked

-----------------------------------------------------------------------------
(* Each step keeps the invariant and is a step of the promised catalog.    *)

Kept == StoreInv' /\ [Promise!AtomicNext]_(Promise!catalogVars)

LEMMA FilesUntouched == ASSUME UNCHANGED files PROVE Recovered' = Recovered /\ (Undoable' <=> Undoable)
BY DEF files, Recovered, Undoable

LEMMA MemoryUntouched == ASSUME UNCHANGED memory PROVE Memory' = Memory
BY DEF memory, Memory

LEMMA StageStep == ASSUME StoreInv, NEW p \in Plans(Memory), Stage(p) PROVE Kept
<1>1. /\ step = "idle" /\ ~refusing /\ plan' = p /\ step' \in {"cleanup", "prepare"}
      /\ UNCHANGED <<catalogFile, workspaceFile, transactionFile, labels, workspaces, refusing, starting, faults, overtaken>>
  BY DEF Stage, files, memory
<1>2. Recovered' = Recovered /\ (Undoable' <=> Undoable) /\ Memory' = Memory
  BY <1>1, FilesUntouched, MemoryUntouched DEF files, memory
<1>3. ~starting /\ ~Undoable /\ FilesCurrent
  BY <1>1 DEF StoreInv, RestInv, Undoing
<1>4. StoreTypeOK'
  <2>1. p \in Plan
    BY MemoryIsImage, EditsFit DEF Fits, StoreInv
  <2> QED
    BY <1>1, <2>1 DEF StoreInv, StoreTypeOK, Steps, Queued
<1>5. FilesCurrent'
  BY <1>1, <1>3 DEF FilesCurrent
<1>6. CommitInv' /\ RecoveryInv' /\ RestInv'
  BY <1>1, <1>2, <1>3, <1>5 DEF CommitInv, RecoveryInv, RestInv, Undoing
<1>7. UNCHANGED Promise!catalogVars
  BY <1>1, <1>2, Stutter DEF Serving, PromiseBlocked, MarkerUnnoticed
<1> QED
  BY <1>4, <1>6, <1>7 DEF Kept, StoreInv

LEMMA RejectStep == ASSUME StoreInv, Reject PROVE Kept
<1>1. /\ step = "idle" /\ ~refusing /\ step' = "resolve"
      /\ UNCHANGED <<catalogFile, workspaceFile, transactionFile, labels, workspaces, refusing, starting,
                     plan, faults, overtaken>>
  BY DEF Reject, files, memory
<1>2. Recovered' = Recovered /\ (Undoable' <=> Undoable) /\ Memory' = Memory
  BY <1>1, FilesUntouched, MemoryUntouched DEF files, memory
<1>3. ~starting /\ ~Undoable /\ FilesCurrent /\ plan = None
  BY <1>1 DEF StoreInv, RestInv, Undoing
<1>4. StoreTypeOK'
  BY <1>1 DEF StoreInv, StoreTypeOK, Steps
<1>5. FilesCurrent'
  BY <1>1, <1>3 DEF FilesCurrent
<1>6. CommitInv' /\ RecoveryInv' /\ RestInv'
  BY <1>1, <1>2, <1>3, <1>5 DEF CommitInv, RecoveryInv, RestInv, Undoing
<1>7. UNCHANGED Promise!catalogVars
  BY <1>1, <1>2, <1>3, Stutter DEF Serving, PromiseBlocked, MarkerUnnoticed
<1> QED
  BY <1>4, <1>6, <1>7 DEF Kept, StoreInv

LEMMA WritePreparedStep == ASSUME StoreInv, WritePrepared PROVE Kept
<1>1. PICK o \in Outcomes(transactionFile, Prepared) :
        transactionFile' = o.file /\ step' = (IF o.ok THEN "catalog" ELSE "resolve") /\ CountFault(o)
  BY DEF WritePrepared
<1>2. /\ step = "prepare" /\ transactionFile' \in {transactionFile, Prepared}
      /\ step' \in {"catalog", "resolve"} /\ (step' = "catalog" => transactionFile' = Prepared)
      /\ faults' \in 0..MaxFaults
      /\ UNCHANGED <<catalogFile, workspaceFile, labels, workspaces, refusing, starting, plan, overtaken>>
  BY <1>1, OutcomeKinds DEF WritePrepared, memory, StoreInv, StoreTypeOK
<1>3. /\ StoreTypeOK /\ plan \in Plans(Memory) /\ ~Undoable /\ FilesCurrent /\ ~starting /\ ~refusing
  BY <1>2 DEF StoreInv, CommitInv, RestInv, Undoing
<1>4. Memory' = Memory /\ Prepared' = Prepared
  BY <1>2, MemoryUntouched DEF memory, Prepared
<1>5. StoreTypeOK'
  BY <1>2, <1>3, PreparedIsTransaction DEF StoreTypeOK, Steps, Queued
<1>6. FilesCurrent'
  BY <1>2, <1>3 DEF FilesCurrent
<1>7. CASE transactionFile' = transactionFile /\ step' = "resolve"
  <2>1. Recovered' = Recovered /\ ~Undoable'
    BY <1>2, <1>3, <1>7 DEF Recovered, Undoable
  <2>2. CommitInv' /\ RecoveryInv' /\ RestInv'
    BY <1>2, <1>3, <1>6, <1>7, <2>1 DEF CommitInv, RecoveryInv, RestInv, Undoing
  <2>3. Serving /\ ~PromiseBlocked /\ ~MarkerUnnoticed /\ Serving' /\ (PromiseBlocked' <=> MarkerUnnoticed')
    BY <1>2, <1>3, <1>7 DEF Serving, PromiseBlocked, MarkerUnnoticed
  <2>4. [Promise!AtomicNext]_(Promise!catalogVars)
    BY <1>4, <2>1, <2>3, Blocking, Stutter
  <2> QED
    BY <1>5, <2>2, <2>4 DEF Kept, StoreInv
<1>8. CASE transactionFile' = Prepared
  <2>1. UndoLeadsBack'
    <3>1. Undoable' /\ transactionFile'.labels = labels
      BY <1>3, <1>8, PreparedIsTransaction, LabelStoreAssumption DEF Undoable
    <3> QED
      BY <1>2, <1>3, <1>6, <1>8, <3>1, PreparedIsTransaction DEF UndoLeadsBack, FilesCurrent
  <2>2. Recovered' = Recovered
    BY <1>3, <1>4, <1>5, <2>1, UndoneWillBeServed, FilesAreServed
  <2>3. CommitInv' /\ RecoveryInv' /\ RestInv'
    BY <1>2, <1>3, <1>4, <1>6, <1>8, <2>1 DEF CommitInv, RecoveryInv, RestInv, Undoing
  <2>4. UNCHANGED Promise!catalogVars
    BY <1>2, <1>3, <1>4, <2>1, <2>2, Stutter DEF Serving, PromiseBlocked, MarkerUnnoticed, UndoLeadsBack, Undoable
  <2> QED
    BY <1>5, <2>2, <2>3, <2>4 DEF Kept, StoreInv
<1> QED
  BY <1>2, <1>7, <1>8

LEMMA WriteCatalogStep == ASSUME StoreInv, WriteCatalog PROVE Kept
<1>1. PICK o \in Outcomes(catalogFile, plan.labels) :
        catalogFile' = o.file /\ step' = (IF o.ok THEN "workspaces" ELSE "resolve") /\ CountFault(o)
  BY DEF WriteCatalog
<1>2. /\ step = "catalog" /\ catalogFile' \in {catalogFile, plan.labels}
      /\ step' \in {"workspaces", "resolve"} /\ (step' = "workspaces" => catalogFile' = plan.labels)
      /\ faults' \in 0..MaxFaults
      /\ UNCHANGED <<workspaceFile, transactionFile, labels, workspaces, refusing, starting, plan, overtaken>>
  BY <1>1, OutcomeKinds DEF WriteCatalog, memory, StoreInv, StoreTypeOK
<1>3. /\ StoreTypeOK /\ plan \in Plans(Memory) /\ transactionFile = Prepared /\ FilesCurrent
      /\ ~starting /\ ~refusing /\ UndoLeadsBack
  BY <1>2, CommitUndoable DEF StoreInv, CommitInv, RestInv, Undoing
<1>4. Memory' = Memory /\ Prepared' = Prepared
  BY <1>2, MemoryUntouched DEF memory, Prepared
<1>5. StoreTypeOK'
  BY <1>2, <1>3, PlanStaged DEF StoreTypeOK, Steps, Queued, Plan
<1>6. UndoLeadsBack'
  BY <1>2, <1>3 DEF UndoLeadsBack, Undoable
<1>7. Recovered' = Recovered
  BY <1>3, <1>4, <1>5, <1>6, UndoneIsServed, UndoneWillBeServed
<1>8. CommitInv' /\ RecoveryInv' /\ RestInv'
  BY <1>2, <1>3, <1>4, <1>6 DEF CommitInv, RecoveryInv, RestInv, Undoing, FilesCurrent
<1>9. UNCHANGED Promise!catalogVars
  BY <1>2, <1>3, <1>4, <1>7, Stutter DEF Serving, PromiseBlocked, MarkerUnnoticed, UndoLeadsBack, Undoable
<1> QED
  BY <1>5, <1>7, <1>8, <1>9 DEF Kept, StoreInv

LEMMA WriteWorkspacesStep == ASSUME StoreInv, WriteWorkspaces PROVE Kept
<1>1. PICK o \in (IF plan.updates = NoAssignments THEN {[file |-> workspaceFile, ok |-> TRUE]}
                  ELSE Outcomes(workspaceFile, Staged)) :
        workspaceFile' = o.file /\ step' = (IF o.ok THEN "mark" ELSE "resolve") /\ CountFault(o)
  BY DEF WriteWorkspaces
<1>2. /\ step = "workspaces"
      /\ UNCHANGED <<catalogFile, transactionFile, labels, workspaces, refusing, starting, plan, overtaken>>
  BY DEF WriteWorkspaces, memory
<1>3. /\ StoreTypeOK /\ plan \in Plans(Memory) /\ transactionFile = Prepared
      /\ catalogFile = plan.labels /\ workspaceFile = workspaces
      /\ ~starting /\ ~refusing /\ UndoLeadsBack
  BY <1>2, CommitUndoable DEF StoreInv, CommitInv, RestInv, Undoing
<1>4. /\ workspaceFile' \in {workspaceFile, Staged}
      /\ step' \in {"mark", "resolve"} /\ (step' = "mark" => workspaceFile' = Staged)
      /\ faults' \in 0..MaxFaults
  <2>1. CASE plan.updates = NoAssignments
    <3>1. o = [file |-> workspaceFile, ok |-> TRUE]
      BY <1>1, <2>1
    <3>2. workspaceFile' = workspaces /\ step' = "mark" /\ faults' = faults
      BY <1>1, <1>3, <3>1 DEF CountFault
    <3>3. Staged = workspaces
      <4>1. workspaces \in Assignments /\ Staged \in Assignments
        BY <1>3, PlanStaged DEF StoreTypeOK
      <4> QED
        BY <1>3, <2>1, <4>1, PlanStaged, NothingAssigned, SameAssignments
    <3> QED
      BY <1>3, <3>2, <3>3 DEF StoreTypeOK
  <2>2. CASE plan.updates # NoAssignments
    <3>1. o \in Outcomes(workspaceFile, Staged)
      BY <1>1, <2>2
    <3> QED
      BY <1>1, <1>3, <3>1, OutcomeKinds DEF StoreTypeOK
  <2> QED
    BY <2>1, <2>2
<1>5. Memory' = Memory /\ Prepared' = Prepared /\ Staged' = Staged
  BY <1>2, MemoryUntouched DEF memory, Prepared, Staged
<1>6. StoreTypeOK'
  BY <1>2, <1>3, <1>4, PlanStaged DEF StoreTypeOK, Steps, Queued
<1>7. UndoLeadsBack'
  <2>1. CASE workspaceFile' = workspaceFile
    BY <1>2, <1>3, <2>1 DEF UndoLeadsBack, Undoable
  <2>2. CASE workspaceFile' = Staged
    BY <1>2, <1>3, <2>2, PlanStaged, PreparedIsTransaction DEF UndoLeadsBack, Undoable
  <2> QED
    BY <1>4, <2>1, <2>2
<1>8. Recovered' = Recovered
  BY <1>3, <1>5, <1>6, <1>7, UndoneIsServed, UndoneWillBeServed
<1>9. CommitInv' /\ RecoveryInv' /\ RestInv'
  BY <1>2, <1>3, <1>4, <1>5, <1>7 DEF CommitInv, RecoveryInv, RestInv, Undoing
<1>10. UNCHANGED Promise!catalogVars
  BY <1>2, <1>3, <1>4, <1>5, <1>8, Stutter DEF Serving, PromiseBlocked, MarkerUnnoticed, UndoLeadsBack, Undoable
<1> QED
  BY <1>6, <1>8, <1>9, <1>10 DEF Kept, StoreInv

LEMMA WriteCommittedStep == ASSUME StoreInv, WriteCommitted PROVE Kept
<1> DEFINE marker == [Prepared EXCEPT !.phase = "committed"]
<1>1. PICK o \in Outcomes(transactionFile, marker) :
        /\ transactionFile' = o.file
        /\ step' = (IF o.ok THEN "cleanup" ELSE "resolve")
        /\ labels' = (IF o.ok THEN plan.labels ELSE labels)
        /\ workspaces' = (IF o.ok THEN Staged ELSE workspaces)
        /\ CountFault(o)
  BY DEF WriteCommitted
<1>2. /\ step = "mark" /\ transactionFile' \in {transactionFile, marker} /\ faults' \in 0..MaxFaults
      /\ \/ /\ step' = "cleanup" /\ transactionFile' = marker
            /\ labels' = plan.labels /\ workspaces' = Staged
         \/ step' = "resolve" /\ labels' = labels /\ workspaces' = workspaces
      /\ UNCHANGED <<catalogFile, workspaceFile, refusing, starting, plan, overtaken>>
  BY <1>1, OutcomeKinds DEF WriteCommitted, memory, StoreInv, StoreTypeOK
<1>3. /\ StoreTypeOK /\ plan \in Plans(Memory) /\ transactionFile = Prepared
      /\ catalogFile = plan.labels /\ workspaceFile = Staged
      /\ ~starting /\ ~refusing /\ UndoLeadsBack /\ Recovered = Memory
  BY <1>2, CommitUndoable, UndoneIsServed DEF StoreInv, CommitInv, RestInv, Undoing
<1>4. marker \in Transaction /\ marker # None /\ marker.phase = "committed"
  BY <1>3, PreparedIsTransaction, LabelStoreAssumption
<1> HIDE DEF marker
<1>5. StoreTypeOK'
  BY <1>2, <1>3, <1>4, PlanStaged DEF StoreTypeOK, Steps, Queued, Plan
<1>6. CASE transactionFile' = transactionFile /\ step' = "resolve"
  <2>1. Recovered' = Recovered /\ Memory' = Memory
    BY <1>2, <1>6, FilesUntouched, MemoryUntouched DEF files, memory
  <2>2. UndoLeadsBack'
    BY <1>2, <1>3, <1>6 DEF UndoLeadsBack, Undoable
  <2>3. CommitInv' /\ RecoveryInv' /\ RestInv'
    BY <1>2, <1>3, <1>6, <2>2 DEF CommitInv, RecoveryInv, RestInv, Undoing
  <2>4. UNCHANGED Promise!catalogVars
    BY <1>2, <1>3, <1>6, <2>1, <2>2, Stutter DEF Serving, PromiseBlocked, MarkerUnnoticed, UndoLeadsBack, Undoable
  <2> QED
    BY <1>5, <2>1, <2>3, <2>4 DEF Kept, StoreInv
<1>7. CASE transactionFile' = marker
  <2>1. /\ Recovered' = [labels |-> plan.labels, workspaces |-> Staged]
        /\ ~Undoable'
    BY <1>2, <1>3, <1>4, <1>7 DEF Recovered, Undoable
  <2>2. Recovered' = Applied(Memory, plan)
    BY <1>3, <2>1, PlanStaged
  <2>3. CASE step' = "cleanup"
    <3>1. FilesCurrent' /\ Memory' = Applied(Memory, plan)
      BY <1>2, <1>3, <2>3, PlanStaged DEF FilesCurrent, Memory
    <3>2. CommitInv' /\ RecoveryInv' /\ RestInv'
      BY <1>2, <1>3, <2>1, <2>3, <3>1 DEF CommitInv, RecoveryInv, RestInv, Undoing
    <3>3. Promise!AtomicNext
      BY <1>2, <1>3, <2>2, <2>3, <3>1, ServedEdit DEF Serving, PromiseBlocked, MarkerUnnoticed
    <3> QED
      BY <1>5, <3>2, <3>3 DEF Kept, StoreInv
  <2>4. CASE step' = "resolve"
    <3>1. Memory' = Memory
      BY <1>2, <2>4 DEF Memory
    <3>2. MarkerUnnoticed'
      BY <1>2, <1>3, <1>4, <1>7, <2>4, PlanStaged DEF MarkerUnnoticed
    <3>3. CommitInv' /\ RecoveryInv' /\ RestInv'
      BY <1>2, <1>3, <2>4, <3>2 DEF CommitInv, RecoveryInv, RestInv, Undoing
    <3>4. Promise!AtomicNext
      <4>1. Serving /\ ~PromiseBlocked /\ Serving'
        BY <1>2, <1>3, <2>4, <3>2 DEF Serving, PromiseBlocked, MarkerUnnoticed
      <4> QED
        BY <1>3, <2>2, <3>1, <3>2, <4>1, DoubtedEdit
    <3> QED
      BY <1>5, <3>3, <3>4 DEF Kept, StoreInv
  <2> QED
    BY <1>2, <2>3, <2>4
<1> QED
  BY <1>2, <1>6, <1>7

LEMMA AcknowledgeStep == ASSUME StoreInv, Acknowledge PROVE Kept
<1>1. PICK o \in Outcomes(transactionFile, None) : transactionFile' = o.file /\ CountFault(o)
  BY DEF Acknowledge
<1>2. /\ step = "cleanup" /\ step' = "idle" /\ plan' = None
      /\ transactionFile' \in {transactionFile, None} /\ faults' \in 0..MaxFaults
      /\ UNCHANGED <<catalogFile, workspaceFile, labels, workspaces, refusing, starting, overtaken>>
  BY <1>1, OutcomeKinds DEF Acknowledge, memory, StoreInv, StoreTypeOK
<1>3. ~Undoable /\ FilesCurrent /\ ~starting /\ ~refusing /\ StoreTypeOK
  BY <1>2 DEF StoreInv, CommitInv, RestInv, Undoing
<1>4. ~Undoable' /\ Recovered' = Recovered /\ Memory' = Memory /\ FilesCurrent'
  BY <1>2, <1>3 DEF Undoable, Recovered, Memory, FilesCurrent
<1>5. StoreTypeOK'
  BY <1>2, <1>3 DEF StoreTypeOK, Steps
<1>6. CommitInv' /\ RecoveryInv' /\ RestInv'
  BY <1>2, <1>3, <1>4 DEF CommitInv, RecoveryInv, RestInv, Undoing
<1>7. UNCHANGED Promise!catalogVars
  BY <1>2, <1>4, Stutter DEF Serving, PromiseBlocked, MarkerUnnoticed
<1> QED
  BY <1>4, <1>5, <1>6, <1>7 DEF Kept, StoreInv

\* A recovery that gives up blocks the daemon, or keeps it from coming up.
LEMMA GivesUp ==
  ASSUME StoreInv, GiveUp, step \in {"resolve"} \cup Undoing, starting' = starting,
         StoreTypeOK', Recovered' = Recovered, Memory' = Memory
  PROVE  Kept
<1>1. ~refusing /\ (starting => step # "resolve") /\ StoreTypeOK
  BY DEF StoreInv, RestInv, Undoing
<1>2. CASE starting
  <2>1. step' = "down" /\ ~refusing' /\ starting' /\ plan' = None
    BY <1>2 DEF GiveUp
  <2>2. CommitInv' /\ RecoveryInv' /\ RestInv'
    BY <2>1 DEF CommitInv, RecoveryInv, RestInv, Undoing
  <2>3. UNCHANGED Promise!catalogVars
    BY <1>1, <1>2, <2>1, Stutter DEF Serving, PromiseBlocked, MarkerUnnoticed
  <2> QED
    BY <2>2, <2>3 DEF Kept, StoreInv
<1>3. CASE ~starting
  <2>1. step' = "idle" /\ refusing' = TRUE /\ ~starting' /\ plan' = None
    BY <1>1, <1>3 DEF GiveUp, StoreTypeOK
  <2>2. CommitInv' /\ RecoveryInv' /\ RestInv'
    BY <2>1 DEF CommitInv, RecoveryInv, RestInv, Undoing
  <2>3. Serving /\ Serving' /\ PromiseBlocked' /\ ~MarkerUnnoticed'
    BY <1>3, <2>1 DEF Serving, PromiseBlocked, MarkerUnnoticed, Undoing
  <2>4. [Promise!AtomicNext]_(Promise!catalogVars)
    BY <1>1, <2>3, Noticing, Blocking DEF PromiseBlocked
  <2> QED
    BY <2>2, <2>4 DEF Kept, StoreInv
<1> QED
  BY <1>2, <1>3

LEMMA ResolveStep == ASSUME StoreInv, ResolveFailedCommit PROVE Kept
<1>1. /\ step = "resolve"
      /\ UNCHANGED <<catalogFile, workspaceFile, transactionFile, labels, workspaces, starting, faults, overtaken>>
  BY DEF ResolveFailedCommit, files, memory
<1>2. Recovered' = Recovered /\ (Undoable' <=> Undoable) /\ Memory' = Memory
  BY <1>1, FilesUntouched, MemoryUntouched DEF files, memory
<1>3. ~starting /\ ~refusing /\ StoreTypeOK
  BY <1>1 DEF StoreInv, RestInv, Undoing
<1>4. CASE transactionFile = None /\ step' = "idle" /\ plan' = None /\ refusing' = refusing
  <2>1. ~Undoable /\ ~MarkerUnnoticed
    BY <1>4 DEF Undoable, MarkerUnnoticed
  <2>2. FilesCurrent
    BY <1>1, <2>1 DEF StoreInv, RecoveryInv, UndoLeadsBack
  <2>3. FilesCurrent'
    BY <1>1, <2>2 DEF FilesCurrent
  <2>4. StoreTypeOK'
    BY <1>1, <1>3, <1>4 DEF StoreTypeOK, Steps
  <2>5. CommitInv' /\ RecoveryInv' /\ RestInv'
    BY <1>1, <1>2, <1>3, <1>4, <2>1, <2>3 DEF CommitInv, RecoveryInv, RestInv, Undoing
  <2>6. UNCHANGED Promise!catalogVars
    BY <1>1, <1>2, <1>3, <1>4, <2>1, Stutter DEF Serving, PromiseBlocked, MarkerUnnoticed
  <2> QED
    BY <1>2, <2>4, <2>5, <2>6 DEF Kept, StoreInv
<1>5. CASE GiveUp
  <2>1. StoreTypeOK'
    BY <1>1, <1>3, <1>5 DEF StoreTypeOK, Steps, GiveUp
  <2> QED
    BY <1>1, <1>2, <1>5, <2>1, GivesUp
<1>6. CASE /\ transactionFile # None /\ transactionFile.phase = "prepared"
           /\ step' = "recover" /\ UNCHANGED <<plan, refusing>>
  <2>1. Undoable /\ ~MarkerUnnoticed
    BY <1>6 DEF Undoable, MarkerUnnoticed
  <2>2. UndoLeadsBack
    BY <1>1, <2>1 DEF StoreInv, RecoveryInv
  <2>3. UndoLeadsBack'
    BY <1>1, <2>2 DEF UndoLeadsBack, Undoable
  <2>4. StoreTypeOK'
    BY <1>1, <1>3, <1>6 DEF StoreTypeOK, Steps
  <2>5. CommitInv' /\ RecoveryInv' /\ RestInv'
    BY <1>1, <1>2, <1>3, <1>6, <2>3 DEF CommitInv, RecoveryInv, RestInv, Undoing
  <2>6. UNCHANGED Promise!catalogVars
    BY <1>1, <1>2, <1>3, <1>6, <2>1, Stutter DEF Serving, PromiseBlocked, MarkerUnnoticed
  <2> QED
    BY <1>2, <2>4, <2>5, <2>6 DEF Kept, StoreInv
<1> QED
  BY <1>4, <1>5, <1>6 DEF ResolveFailedCommit

LEMMA UnreadableStep == ASSUME StoreInv, TransactionUnreadable PROVE Kept
<1>1. /\ step = "resolve" /\ GiveUp /\ faults < MaxFaults /\ faults' = faults + 1
      /\ UNCHANGED <<catalogFile, workspaceFile, transactionFile, labels, workspaces, starting, overtaken>>
  BY DEF TransactionUnreadable, files, memory
<1>2. Recovered' = Recovered /\ Memory' = Memory
  BY <1>1, FilesUntouched, MemoryUntouched DEF files, memory
<1>3. StoreTypeOK'
  BY <1>1, LabelStoreAssumption DEF StoreInv, StoreTypeOK, Steps, GiveUp
<1> QED
  BY <1>1, <1>2, <1>3, GivesUp

LEMMA StartRollbackStep == ASSUME StoreInv, StartRollback PROVE Kept
<1>1. /\ step = "recover" /\ Undoable /\ step' = "undoCatalog"
      /\ UNCHANGED <<catalogFile, workspaceFile, transactionFile, labels, workspaces, refusing, starting,
                     plan, faults, overtaken>>
  BY DEF StartRollback, Undoable, files, memory
<1>2. Recovered' = Recovered /\ Undoable' /\ Memory' = Memory
  BY <1>1, FilesUntouched, MemoryUntouched DEF files, memory
<1>3. /\ ~refusing /\ StoreTypeOK /\ (~starting => UndoLeadsBack) /\ (starting => RegistryLoaded /\ plan = None)
  BY <1>1 DEF StoreInv, RestInv, RecoveryInv
<1>4. (~starting' => UndoLeadsBack') /\ (starting' => RegistryLoaded')
  BY <1>1, <1>3 DEF UndoLeadsBack, Undoable, RegistryLoaded
<1>5. StoreTypeOK'
  BY <1>1, <1>3 DEF StoreTypeOK, Steps, Queued
<1>6. CommitInv' /\ RecoveryInv' /\ RestInv'
  BY <1>1, <1>2, <1>3, <1>4 DEF CommitInv, RecoveryInv, RestInv, Undoing
<1>7. UNCHANGED Promise!catalogVars
  BY <1>1, <1>2, Stutter DEF Serving, PromiseBlocked, MarkerUnnoticed
<1> QED
  BY <1>2, <1>5, <1>6, <1>7 DEF Kept, StoreInv

LEMMA UndoCatalogStep == ASSUME StoreInv, UndoCatalog PROVE Kept
<1>1. PICK o \in Outcomes(catalogFile, transactionFile.labels) :
        /\ catalogFile' = o.file /\ CountFault(o)
        /\ IF o.ok THEN step' = "undoWorkspaces" /\ UNCHANGED <<plan, refusing>> ELSE GiveUp
  BY DEF UndoCatalog
<1>2. /\ step = "undoCatalog"
      /\ UNCHANGED <<workspaceFile, transactionFile, labels, workspaces, starting, overtaken>>
  BY DEF UndoCatalog, memory
<1>3. /\ Undoable /\ ~refusing /\ StoreTypeOK
      /\ (~starting => UndoLeadsBack) /\ (starting => RegistryLoaded /\ plan = None)
  BY <1>2 DEF StoreInv, RestInv, RecoveryInv, Undoing
<1>4. /\ catalogFile' \in {catalogFile, transactionFile.labels} /\ faults' \in 0..MaxFaults
      /\ \/ step' = "undoWorkspaces" /\ UNCHANGED <<plan, refusing>> /\ catalogFile' = transactionFile.labels
         \/ GiveUp
  BY <1>1, <1>3, OutcomeKinds DEF StoreTypeOK
<1>5. Undoable' /\ Recovered' = Recovered /\ Memory' = Memory
  BY <1>2, <1>3 DEF Undoable, Recovered, Memory
<1>6. StoreTypeOK'
  <2>1. transactionFile.labels \in Catalog
    BY <1>3 DEF StoreTypeOK, Undoable, Transaction
  <2> QED
    BY <1>2, <1>3, <1>4, <2>1 DEF StoreTypeOK, Steps, Queued, GiveUp
<1>7. CASE GiveUp
  BY <1>2, <1>5, <1>6, <1>7, GivesUp DEF Undoing
<1>8. CASE step' = "undoWorkspaces" /\ UNCHANGED <<plan, refusing>> /\ catalogFile' = transactionFile.labels
  <2>1. (~starting' => UndoLeadsBack') /\ (starting' => RegistryLoaded')
    BY <1>2, <1>3 DEF UndoLeadsBack, Undoable, RegistryLoaded
  <2>2. CommitInv' /\ RecoveryInv' /\ RestInv'
    BY <1>2, <1>3, <1>5, <1>8, <2>1 DEF CommitInv, RecoveryInv, RestInv, Undoing
  <2>3. UNCHANGED Promise!catalogVars
    BY <1>2, <1>5, <1>8, Stutter DEF Serving, PromiseBlocked, MarkerUnnoticed
  <2> QED
    BY <1>5, <1>6, <2>2, <2>3 DEF Kept, StoreInv
<1> QED
  BY <1>4, <1>7, <1>8

LEMMA OverlayTwice ==
  ASSUME NEW f \in Assignments, NEW g \in Assignments
  PROVE  Overlay(Overlay(f, g), g) = Overlay(f, g)
<1>1. /\ Overlay(f, g) \in Assignments /\ DOMAIN Overlay(f, g) = DOMAIN f
      /\ \A w \in DOMAIN f : Overlay(f, g)[w] = IF w \in DOMAIN g THEN g[w] ELSE f[w]
  BY OverlayAssignments
<1> HIDE DEF Overlay
<1>2. /\ Overlay(Overlay(f, g), g) \in Assignments /\ DOMAIN Overlay(Overlay(f, g), g) = DOMAIN f
      /\ \A w \in DOMAIN f : Overlay(Overlay(f, g), g)[w] = Overlay(f, g)[w]
  BY <1>1, OverlayAssignments
<1> QED
  BY <1>1, <1>2, SameAssignments

\* What the rollback writes is what a restart would load.
LEMMA RollbackIsRecovered ==
  ASSUME StoreTypeOK, Undoable, UndoLeadsBack \/ RegistryLoaded
  PROVE  /\ transactionFile.labels \in Catalog /\ transactionFile.workspaces \in Assignments
         /\ RolledBack \in Assignments
         /\ Recovered = [labels |-> transactionFile.labels, workspaces |-> RolledBack]
         /\ Overlay(RolledBack, transactionFile.workspaces) = RolledBack
         /\ DOMAIN transactionFile.workspaces \cap DOMAIN workspaces = {} => workspaceFile = RolledBack
<1>1. /\ transactionFile.labels \in Catalog /\ transactionFile.workspaces \in Assignments
      /\ workspaces \in Assignments /\ workspaceFile \in Assignments
  BY DEF StoreTypeOK, Undoable, Transaction
<1>2. /\ RolledBack \in Assignments
      /\ Overlay(RolledBack, transactionFile.workspaces) = RolledBack
  BY <1>1, OverlayAssignments, OverlayTwice DEF RolledBack
<1>3. Recovered = [labels |-> transactionFile.labels, workspaces |-> RolledBack]
  BY UndoneIsServed DEF Recovered, RolledBack, RegistryLoaded, UndoLeadsBack, Undoable, Memory
<1>4. ASSUME DOMAIN transactionFile.workspaces \cap DOMAIN workspaces = {}
      PROVE  workspaceFile = RolledBack
  <2>1. RolledBack = workspaces
    <3>1. DOMAIN RolledBack = DOMAIN workspaces /\ \A w \in DOMAIN workspaces : RolledBack[w] = workspaces[w]
      BY <1>1, <1>4, OverlayAssignments DEF RolledBack
    <3> QED
      BY <1>1, <1>2, <3>1, SameAssignments
  <2>2. workspaceFile = workspaces
    BY <1>1, <1>4, SameAssignments DEF UndoLeadsBack, RegistryLoaded
  <2> QED
    BY <2>1, <2>2
<1> QED
  BY <1>1, <1>2, <1>3, <1>4

LEMMA UndoWorkspacesStep == ASSUME StoreInv, UndoWorkspaces PROVE Kept
<1>1. PICK o \in (IF DOMAIN transactionFile.workspaces \cap DOMAIN workspaces = {}
                  THEN {[file |-> workspaceFile, ok |-> TRUE]}
                  ELSE Outcomes(workspaceFile, RolledBack)) :
        /\ workspaceFile' = o.file /\ CountFault(o)
        /\ IF o.ok THEN step' = "undoRemove" /\ UNCHANGED <<plan, refusing>> ELSE GiveUp
  BY DEF UndoWorkspaces
<1>2. /\ step = "undoWorkspaces"
      /\ UNCHANGED <<catalogFile, transactionFile, labels, workspaces, starting, overtaken>>
  BY DEF UndoWorkspaces, memory
<1>3. /\ Undoable /\ ~refusing /\ StoreTypeOK /\ catalogFile = transactionFile.labels
      /\ (~starting => UndoLeadsBack) /\ (starting => RegistryLoaded /\ plan = None)
  BY <1>2 DEF StoreInv, RestInv, RecoveryInv, Undoing
<1>4. /\ transactionFile.workspaces \in Assignments /\ RolledBack \in Assignments
      /\ Recovered = [labels |-> transactionFile.labels, workspaces |-> RolledBack]
      /\ Overlay(RolledBack, transactionFile.workspaces) = RolledBack
      /\ DOMAIN transactionFile.workspaces \cap DOMAIN workspaces = {} => workspaceFile = RolledBack
  BY <1>3, RollbackIsRecovered
<1>5. /\ workspaceFile' \in {workspaceFile, RolledBack} /\ faults' \in 0..MaxFaults
      /\ \/ step' = "undoRemove" /\ UNCHANGED <<plan, refusing>> /\ workspaceFile' = RolledBack
         \/ GiveUp
  <2>1. CASE DOMAIN transactionFile.workspaces \cap DOMAIN workspaces = {}
    <3>1. o = [file |-> workspaceFile, ok |-> TRUE]
      BY <1>1, <2>1
    <3> QED
      BY <1>1, <1>3, <1>4, <2>1, <3>1 DEF CountFault, StoreTypeOK
  <2>2. CASE DOMAIN transactionFile.workspaces \cap DOMAIN workspaces # {}
    <3>1. o \in Outcomes(workspaceFile, RolledBack)
      BY <1>1, <2>2
    <3> QED
      BY <1>1, <1>3, <3>1, OutcomeKinds DEF StoreTypeOK
  <2> QED
    BY <2>1, <2>2
<1>6. Undoable' /\ RolledBack' = RolledBack /\ Memory' = Memory
  BY <1>2, <1>3 DEF Undoable, RolledBack, Memory
<1>7. Recovered' = Recovered
  BY <1>2, <1>3, <1>4, <1>5 DEF Undoable, Recovered
<1>8. StoreTypeOK'
  BY <1>2, <1>3, <1>4, <1>5 DEF StoreTypeOK, Steps, Queued, GiveUp
<1>9. CASE GiveUp
  BY <1>2, <1>6, <1>7, <1>8, <1>9, GivesUp DEF Undoing
<1>10. CASE step' = "undoRemove" /\ UNCHANGED <<plan, refusing>> /\ workspaceFile' = RolledBack
  <2>1. ~starting' => UndoLeadsBack'
    BY <1>2, <1>3, <1>6, <1>10, UndoneIsServed DEF UndoLeadsBack
  <2>2. CommitInv' /\ RecoveryInv' /\ RestInv'
    BY <1>2, <1>3, <1>6, <1>10, <2>1 DEF CommitInv, RecoveryInv, RestInv, Undoing
  <2>3. UNCHANGED Promise!catalogVars
    BY <1>2, <1>6, <1>7, <1>10, Stutter DEF Serving, PromiseBlocked, MarkerUnnoticed
  <2> QED
    BY <1>7, <1>8, <2>2, <2>3 DEF Kept, StoreInv
<1> QED
  BY <1>5, <1>9, <1>10

LEMMA RemovePreparedStep == ASSUME StoreInv, RemovePrepared PROVE Kept
<1>1. PICK o \in Outcomes(transactionFile, None) :
        /\ transactionFile' = o.file /\ CountFault(o)
        /\ IF o.ok
           THEN /\ step' = "idle" /\ plan' = None /\ starting' = FALSE
                /\ labels' = transactionFile.labels
                /\ workspaces' = RolledBack
                /\ UNCHANGED refusing
           ELSE GiveUp /\ UNCHANGED <<starting, memory>>
  BY DEF RemovePrepared
<1>2. /\ step = "undoRemove" /\ UNCHANGED <<catalogFile, workspaceFile, overtaken>>
  BY DEF RemovePrepared
<1>3. /\ Undoable /\ ~refusing /\ StoreTypeOK /\ catalogFile = transactionFile.labels
      /\ workspaceFile = RolledBack /\ (~starting => UndoLeadsBack)
  BY <1>2 DEF StoreInv, RestInv, RecoveryInv, Undoing
<1>4. /\ transactionFile.labels \in Catalog /\ RolledBack \in Assignments
      /\ Recovered = [labels |-> transactionFile.labels, workspaces |-> RolledBack]
  <2>1. /\ transactionFile.labels \in Catalog /\ transactionFile.workspaces \in Assignments
        /\ workspaces \in Assignments
    BY <1>3 DEF StoreTypeOK, Undoable, Transaction
  <2>2. RolledBack \in Assignments /\ Overlay(RolledBack, transactionFile.workspaces) = RolledBack
    BY <2>1, OverlayAssignments, OverlayTwice DEF RolledBack
  <2> QED
    BY <1>3, <2>1, <2>2 DEF Recovered, Undoable
<1>5. /\ transactionFile' \in {transactionFile, None} /\ faults' \in 0..MaxFaults
      /\ \/ /\ step' = "idle" /\ plan' = None /\ starting' = FALSE /\ transactionFile' = None
            /\ labels' = transactionFile.labels /\ workspaces' = RolledBack /\ UNCHANGED refusing
         \/ GiveUp /\ UNCHANGED <<starting, labels, workspaces>>
  BY <1>1, <1>3, OutcomeKinds DEF StoreTypeOK, memory
<1>6. Recovered' = Recovered
  BY <1>2, <1>3, <1>4, <1>5 DEF Recovered, Undoable
<1>7. StoreTypeOK'
  BY <1>2, <1>3, <1>4, <1>5 DEF StoreTypeOK, Steps, GiveUp
<1>8. CASE GiveUp /\ UNCHANGED <<starting, labels, workspaces>>
  <2>1. Memory' = Memory
    BY <1>8 DEF Memory
  <2> QED
    BY <1>2, <1>6, <1>7, <1>8, <2>1, GivesUp DEF Undoing
<1>9. CASE /\ step' = "idle" /\ plan' = None /\ starting' = FALSE /\ transactionFile' = None
           /\ labels' = transactionFile.labels /\ workspaces' = RolledBack /\ UNCHANGED refusing
  <2>1. ~Undoable' /\ FilesCurrent' /\ Memory' = Recovered
    BY <1>2, <1>3, <1>4, <1>9 DEF Undoable, FilesCurrent, Memory
  <2>2. CommitInv' /\ RecoveryInv' /\ RestInv'
    BY <1>3, <1>9, <2>1 DEF CommitInv, RecoveryInv, RestInv, Undoing
  <2>3. ~PromiseBlocked /\ Serving' /\ ~PromiseBlocked' /\ (Serving <=> ~starting)
    BY <1>2, <1>3, <1>9 DEF Serving, PromiseBlocked, MarkerUnnoticed
  <2>4. ~starting => Recovered = Memory
    BY <1>3, UndoneIsServed
  <2>5. [Promise!AtomicNext]_(Promise!catalogVars)
    BY <1>6, <2>1, <2>3, <2>4, Stutter, Starting DEF PromiseBlocked
  <2> QED
    BY <1>6, <1>7, <2>2, <2>5 DEF Kept, StoreInv
<1> QED
  BY <1>5, <1>8, <1>9

LEMMA CrashStep == ASSUME StoreInv, StoreCrash PROVE Kept
<1>1. /\ step # "down" /\ step' = "down" /\ refusing' = FALSE /\ plan' = None
      /\ UNCHANGED <<catalogFile, workspaceFile, transactionFile, labels, workspaces, starting, faults, overtaken>>
  BY DEF StoreCrash, files, memory
<1>2. Recovered' = Recovered
  BY <1>1, FilesUntouched DEF files
<1>3. StoreTypeOK'
  BY <1>1 DEF StoreInv, StoreTypeOK, Steps
<1>4. CommitInv' /\ RecoveryInv' /\ RestInv'
  BY <1>1 DEF CommitInv, RecoveryInv, RestInv, Undoing
<1>5. ~Serving' /\ ~PromiseBlocked'
  BY <1>1 DEF Serving, PromiseBlocked, MarkerUnnoticed
<1>6. CASE Serving
  BY <1>2, <1>3, <1>4, <1>5, <1>6, Stopping DEF Kept, StoreInv
<1>7. CASE ~Serving
  <2>1. ~PromiseBlocked
    BY <1>1, <1>7 DEF StoreInv, RestInv, Undoing, Serving, PromiseBlocked, MarkerUnnoticed
  <2> QED
    BY <1>2, <1>3, <1>4, <1>5, <1>7, <2>1, Stutter DEF Kept, StoreInv, PromiseBlocked
<1> QED
  BY <1>6, <1>7

LEMMA RestartStep == ASSUME StoreInv, StoreRestart PROVE Kept
<1>1. /\ step = "down" /\ step' = "recover" /\ starting' = TRUE
      /\ workspaces' = workspaceFile /\ labels' = [n \in {} |-> None]
      /\ UNCHANGED <<catalogFile, workspaceFile, transactionFile, refusing, plan, faults, overtaken>>
  BY DEF StoreRestart, files
<1>2. Recovered' = Recovered
  BY <1>1, FilesUntouched DEF files
<1>3. StoreTypeOK'
  <2>1. [n \in {} |-> None] \in Catalog
    <3>1. [n \in {} |-> None] \in [{} -> Colors]
      OBVIOUS
    <3> QED
      BY <3>1, FunctionCatalog
  <2> QED
    BY <1>1, <2>1 DEF StoreInv, StoreTypeOK, Steps
<1>4. ~refusing /\ plan = None
  BY <1>1 DEF StoreInv, RestInv
<1>5. CommitInv' /\ RecoveryInv' /\ RestInv'
  BY <1>1, <1>4 DEF CommitInv, RecoveryInv, RestInv, Undoing, RegistryLoaded
<1>6. UNCHANGED Promise!catalogVars
  BY <1>1, <1>2, <1>4, Stutter DEF Serving, PromiseBlocked, MarkerUnnoticed
<1> QED
  BY <1>3, <1>5, <1>6 DEF Kept, StoreInv

LEMMA LoadCatalogStep == ASSUME StoreInv, LoadCatalog PROVE Kept
<1>1. PICK o \in (IF transactionFile = None THEN {[file |-> None, ok |-> TRUE]}
                  ELSE Outcomes(transactionFile, None)) :
        transactionFile' = o.file /\ CountFault(o)
  BY DEF LoadCatalog
<1>2. /\ step = "recover" /\ ~Undoable /\ step' = "idle" /\ labels' = catalogFile /\ starting' = FALSE
      /\ UNCHANGED <<catalogFile, workspaceFile, workspaces, refusing, plan, overtaken>>
  BY DEF LoadCatalog, Undoable
<1>3. starting /\ RegistryLoaded /\ ~refusing /\ plan = None /\ StoreTypeOK
  BY <1>2 DEF StoreInv, RecoveryInv, RestInv, UndoLeadsBack
<1>4. transactionFile' \in {transactionFile, None} /\ faults' \in 0..MaxFaults
  <2>1. CASE transactionFile = None
    <3>1. o = [file |-> None, ok |-> TRUE]
      BY <1>1, <2>1
    <3> QED
      BY <1>1, <1>3, <3>1 DEF CountFault, StoreTypeOK
  <2>2. CASE transactionFile # None
    <3>1. o \in Outcomes(transactionFile, None)
      BY <1>1, <2>2
    <3> QED
      BY <1>1, <1>3, <3>1, OutcomeKinds DEF StoreTypeOK
  <2> QED
    BY <2>1, <2>2
<1>5. ~Undoable' /\ FilesCurrent' /\ Recovered' = Recovered /\ Memory' = Recovered
  BY <1>2, <1>3, <1>4 DEF Undoable, FilesCurrent, Recovered, Memory, RegistryLoaded
<1>6. StoreTypeOK'
  BY <1>2, <1>3, <1>4 DEF StoreTypeOK, Steps
<1>7. CommitInv' /\ RecoveryInv' /\ RestInv'
  BY <1>2, <1>3, <1>5 DEF CommitInv, RecoveryInv, RestInv, Undoing
<1>8. [Promise!AtomicNext]_(Promise!catalogVars)
  BY <1>2, <1>3, <1>5, Starting DEF Serving, PromiseBlocked, MarkerUnnoticed
<1> QED
  BY <1>6, <1>7, <1>8 DEF Kept, StoreInv

\* A registry mutation writes over the labels of an edit only behind a marker that
\* nobody has noticed.
LEMMA MutationStep ==
  ASSUME StoreInv, NEW records \in Assignments, RegistryMutation(records),
         DOMAIN records \subseteq DOMAIN workspaces,
         \A w \in DOMAIN records : records[w] = workspaces[w]
  PROVE  /\ StoreInv'
         /\ Serving /\ Serving' /\ (MarkerUnnoticed' <=> MarkerUnnoticed)
         /\ (PromiseBlocked' <=> PromiseBlocked) /\ (PromiseBlocked <=> MarkerUnnoticed)
         /\ Memory' = [labels |-> labels, workspaces |-> records]
         /\ IF MarkerUnnoticed
            THEN Recovered' = [labels |-> Recovered.labels, workspaces |-> records] /\ overtaken' = TRUE
            ELSE Recovered = Memory /\ Recovered' = [labels |-> labels, workspaces |-> records]
<1>1. /\ step \notin Queued \cup {"down"} /\ ~starting /\ ~refusing
      /\ workspaceFile' = records /\ workspaces' = records
      /\ overtaken' = (overtaken \/ MarkerUnnoticed)
      /\ UNCHANGED <<catalogFile, transactionFile, labels, refusing, step, starting, plan, faults>>
  BY DEF RegistryMutation
<1>2. StoreTypeOK'
  BY <1>1, Unnoticed DEF StoreInv, StoreTypeOK
<1>3. (FilesCurrent => FilesCurrent') /\ (UndoLeadsBack => UndoLeadsBack')
  BY <1>1 DEF FilesCurrent, UndoLeadsBack, Undoable
<1>4. (Undoable' <=> Undoable) /\ (MarkerUnnoticed' <=> MarkerUnnoticed)
  BY <1>1 DEF Undoable, MarkerUnnoticed
<1>5. CommitInv' /\ RecoveryInv' /\ RestInv'
  BY <1>1, <1>3, <1>4 DEF StoreInv, CommitInv, RecoveryInv, RestInv, Queued, Undoing
<1>6. /\ Serving /\ Serving' /\ (PromiseBlocked' <=> PromiseBlocked) /\ (PromiseBlocked <=> MarkerUnnoticed)
      /\ Memory' = [labels |-> labels, workspaces |-> records]
  BY <1>1, <1>4 DEF Serving, PromiseBlocked, Memory
<1>7. ASSUME MarkerUnnoticed
      PROVE  Recovered' = [labels |-> Recovered.labels, workspaces |-> records] /\ overtaken' = TRUE
  BY <1>1, <1>7 DEF MarkerUnnoticed, Recovered
<1>8. ASSUME ~MarkerUnnoticed
      PROVE  Recovered = Memory /\ Recovered' = [labels |-> labels, workspaces |-> records]
  <2>1. Recovered = Memory
    BY <1>1, <1>6, <1>8, ServedWhatIsDurable
  <2>2. (~Undoable /\ FilesCurrent) \/ UndoLeadsBack
    BY <1>1, <1>8 DEF StoreInv, StoreTypeOK, CommitInv, RecoveryInv, RestInv, Steps, Queued, Undoing
  <2>3. Recovered' = Memory'
    <3>1. CASE ~Undoable' /\ FilesCurrent'
      BY <3>1 DEF Undoable, FilesCurrent, Recovered, Memory
    <3>2. CASE UndoLeadsBack'
      BY <1>2, <3>2, UndoneWillBeServed
    <3> QED
      BY <1>3, <1>4, <2>2, <3>1, <3>2
  <2> QED
    BY <1>6, <2>1, <2>3
<1> QED
  BY <1>2, <1>4, <1>5, <1>6, <1>7, <1>8 DEF StoreInv

\* The mutation writes over a doubted edit.
Overtakes == overtaken' = TRUE /\ Promise!Overtaking

LEMMA UpsertStep == ASSUME StoreInv, UpsertWorkspace PROVE Kept \/ (StoreInv' /\ Overtakes)
<1>1. workspaces \in Assignments /\ RegistryMutation(workspaces)
  BY DEF StoreInv, StoreTypeOK, UpsertWorkspace
<1>2. /\ StoreInv'
      /\ Serving /\ Serving' /\ (MarkerUnnoticed' <=> MarkerUnnoticed)
      /\ (PromiseBlocked' <=> PromiseBlocked) /\ (PromiseBlocked <=> MarkerUnnoticed)
      /\ Memory' = [labels |-> labels, workspaces |-> workspaces]
      /\ IF MarkerUnnoticed
         THEN Recovered' = [labels |-> Recovered.labels, workspaces |-> workspaces] /\ overtaken' = TRUE
         ELSE Recovered = Memory /\ Recovered' = [labels |-> labels, workspaces |-> workspaces]
  BY <1>1, MutationStep
<1>3. Memory = [labels |-> labels, workspaces |-> workspaces]
  BY DEF Memory
<1>4. CASE ~MarkerUnnoticed
  BY <1>2, <1>3, <1>4, Stutter DEF Kept
<1>5. CASE MarkerUnnoticed
  <2>1. Promise!Overtake(Memory.workspaces)
    BY <1>2, <1>3, <1>5, Unnoticed DEF Promise!Overtake, PromiseBlocked
  <2> QED
    BY <1>2, <1>5, <2>1 DEF Overtakes, Promise!Overtaking
<1> QED
  BY <1>4, <1>5

LEMMA RemoveStep ==
  ASSUME StoreInv, NEW w \in Workspaces, RemoveRecord(w) PROVE Kept \/ (StoreInv' /\ Overtakes)
<1> DEFINE image == Without(Memory, w)
<1>1. /\ image.labels = labels /\ image.workspaces \in Assignments
      /\ DOMAIN image.workspaces \subseteq DOMAIN workspaces
      /\ \A v \in DOMAIN image.workspaces : image.workspaces[v] = workspaces[v]
  BY MemoryIsImage, RemovalFits DEF Memory, StoreInv
<1>2. RegistryMutation(image.workspaces)
  BY DEF RemoveRecord
<1>3. image = [labels |-> labels, workspaces |-> image.workspaces] /\ Memory.labels = labels
  BY DEF Without, Memory
<1> HIDE DEF image
<1>4. /\ StoreInv'
      /\ Serving /\ Serving' /\ (MarkerUnnoticed' <=> MarkerUnnoticed)
      /\ (PromiseBlocked' <=> PromiseBlocked) /\ (PromiseBlocked <=> MarkerUnnoticed)
      /\ Memory' = image
      /\ IF MarkerUnnoticed
         THEN Recovered' = [labels |-> Recovered.labels, workspaces |-> image.workspaces] /\ overtaken' = TRUE
         ELSE Recovered = Memory /\ Recovered' = image
  BY <1>1, <1>2, <1>3, MutationStep
<1>5. CASE ~MarkerUnnoticed
  BY <1>4, <1>5, WorkspaceGone DEF Kept, image
<1>6. CASE MarkerUnnoticed
  <2>1. Promise!Overtake(image.workspaces)
    BY <1>3, <1>4, <1>6, Unnoticed DEF Promise!Overtake, PromiseBlocked
  <2> QED
    BY <1>4, <1>6, <2>1, SameEdits DEF Overtakes, Promise!Overtaking, image
<1> QED
  BY <1>5, <1>6

-----------------------------------------------------------------------------
(* The invariant, and what it gives.                                       *)

LEMMA Beginning == StoreInit => StoreInv /\ Promise!CatalogInit /\ Coherent(Recovered)
<1> SUFFICES ASSUME StoreInit PROVE StoreInv /\ Promise!CatalogInit /\ Coherent(Recovered)
  OBVIOUS
<1>1. [n \in {} |-> None] \in Catalog
  <2>1. [n \in {} |-> None] \in [{} -> Colors]
    OBVIOUS
  <2> QED
    BY <2>1, FunctionCatalog
<1>2. [w \in Workspaces |-> {}] \in Assignments
  <2>1. [w \in Workspaces |-> {}] \in [Workspaces -> SUBSET Names]
    OBVIOUS
  <2> QED
    BY <2>1, FunctionAssignments
<1>3. StoreTypeOK
  <2>1. catalogFile \in Catalog
    BY <1>1 DEF StoreInit
  <2>2. workspaceFile \in Assignments
    BY <1>2 DEF StoreInit
  <2>3. /\ labels = catalogFile /\ workspaces = workspaceFile /\ transactionFile = None /\ plan = None
        /\ refusing = FALSE /\ starting = FALSE /\ step = "idle" /\ faults = 0
        /\ overtaken = FALSE
    BY DEF StoreInit
  <2>4. {catalogFile, labels} \subseteq Catalog /\ {workspaceFile, workspaces} \subseteq Assignments
    BY <2>1, <2>2, <2>3
  <2>5. 0 \in 0..MaxFaults
    BY LabelStoreAssumption
  <2>6. step \in Steps /\ {refusing, starting} \subseteq BOOLEAN
    BY <2>3 DEF Steps
  <2> QED
    BY <2>3, <2>4, <2>5, <2>6 DEF StoreTypeOK
<1>4. CommitInv /\ RecoveryInv /\ RestInv
  BY DEF StoreInit, CommitInv, RecoveryInv, RestInv, Undoing, Undoable, FilesCurrent
<1>5. Recovered = Memory /\ Serving /\ ~PromiseBlocked
  BY DEF StoreInit, Recovered, Memory, Serving, PromiseBlocked, MarkerUnnoticed
<1>6. Promise!CatalogInit
  BY <1>5 DEF StoreInit, Promise!CatalogInit, Memory, PromiseBlocked
<1>7. Coherent(Recovered)
  BY <1>5 DEF StoreInit, Memory, Coherent
<1> QED
  BY <1>3, <1>4, <1>6, <1>7 DEF StoreInv

LEMMA StepKept ==
  ASSUME StoreInv, [StoreNext]_store
  PROVE  Kept \/ (StoreInv' /\ Overtakes)
<1>1. CASE Request
  BY <1>1, RejectStep, StageStep DEF Request
<1>2. CASE Commit
  BY <1>2, WritePreparedStep, WriteCatalogStep, WriteWorkspacesStep, WriteCommittedStep
     DEF Commit
<1>3. CASE Acknowledge
  BY <1>3, AcknowledgeStep
<1>4. CASE Recovery
  BY <1>4, ResolveStep, UnreadableStep, StartRollbackStep, UndoCatalogStep, UndoWorkspacesStep,
     RemovePreparedStep, LoadCatalogStep DEF Recovery
<1>5. CASE StoreCrash
  BY <1>5, CrashStep
<1>6. CASE StoreRestart
  BY <1>6, RestartStep
<1>7. CASE Registry
  BY <1>7, UpsertStep, RemoveStep DEF Registry
<1>8. CASE UNCHANGED store
  <2>1. StoreInv'
    BY <1>8 DEF store, StoreInv, StoreTypeOK, CommitInv, RecoveryInv, RestInv, Undoable, FilesCurrent,
                UndoLeadsBack, RegistryLoaded, MarkerUnnoticed, Memory, Prepared, Staged, RolledBack
  <2>2. UNCHANGED Promise!catalogVars
    BY <1>8, Stutter DEF store, Recovered, Memory, Serving, PromiseBlocked, MarkerUnnoticed
  <2> QED
    BY <2>1, <2>2 DEF Kept
<1> QED
  BY <1>1, <1>2, <1>3, <1>4, <1>5, <1>6, <1>7, <1>8 DEF StoreNext

\* At every point of a commit, a rollback, a stop and a recovery the three files
\* stand where the step says (WorkspaceLabelTransaction of catalog-store.ts).
THEOREM FilesFollowTheStep == StoreSpec => []StoreInv
<1>1. StoreInit => StoreInv
  BY Beginning
<1>2. StoreInv /\ [StoreNext]_store => StoreInv'
  BY StepKept DEF Kept
<1> QED
  BY <1>1, <1>2, PTL DEF StoreSpec

THEOREM TypeCorrect == StoreSpec => []StoreTypeOK
<1>1. StoreInv => StoreTypeOK
  BY DEF StoreInv
<1> QED
  BY <1>1, FilesFollowTheStep, PTL

\* Whenever the daemon takes edits, a restart would load exactly what it serves,
\* even where a registry mutation overtakes a doubted commit.
THEOREM ServedDurable == StoreSpec => []ServedIsDurable
<1>1. StoreInv => ServedIsDurable
  <2>1. ASSUME StoreInv, step = "idle", ~refusing PROVE Recovered = Memory
    BY <2>1, FilesAreServed DEF StoreInv, RestInv
  <2> QED
    BY <2>1 DEF ServedIsDurable
<1> QED
  BY <1>1, FilesFollowTheStep, PTL

\* The compound commit implements the catalog whose edits are atomic: every step
\* is an edit, an edit in doubt, a block, a notice, a removed workspace, a stop or
\* a start of the promised catalog, or changes nothing of it, or is a registry
\* mutation that overtakes an edit in doubt (mutateCache of workspace-registry.ts).
THEOREM CatalogKept == StoreSpec => ImplementsCatalog
<1>1. StoreInit => Promise!CatalogInit
  BY Beginning
<1>2. StoreInv /\ [StoreNext]_store => [Promise!CatalogNext]_(Promise!catalogVars)
  BY StepKept DEF Kept, Overtakes, Promise!CatalogNext
<1> QED
  BY <1>1, <1>2, FilesFollowTheStep, PTL DEF StoreSpec, ImplementsCatalog, Promise!CatalogSpec

\* An atomic edit keeps every assigned label defined.
LEMMA PromiseCoherent ==
  ASSUME StoreInv, Coherent(Recovered), [Promise!AtomicNext]_(Promise!catalogVars)
  PROVE  Coherent(Recovered)'
<1>1. Serving /\ ~PromiseBlocked => Recovered = Memory
  BY ServedWhatIsDurable DEF PromiseBlocked
<1>2. Memory \in Image
  BY MemoryIsImage DEF StoreInv
<1>3. ASSUME NEW p \in Plans(Memory), Serving, ~PromiseBlocked, Recovered' = Applied(Memory, p)
      PROVE  Coherent(Recovered)'
  BY <1>1, <1>2, <1>3, EditsFit DEF Fits
<1>4. ASSUME NEW w \in Workspaces, Promise!RemoveWorkspace(w) PROVE Coherent(Recovered)'
  BY <1>1, <1>2, <1>4, SameEdits, RemovalFits DEF Promise!RemoveWorkspace, PromiseBlocked
<1>5. ASSUME NEW p \in Promise!Plans(IF Serving THEN Memory ELSE [labels |-> [n \in {} |-> None], workspaces |-> NoAssignments]),
             Promise!Edit(p) \/ Promise!EditInDoubt(p)
      PROVE  Coherent(Recovered)'
  BY <1>3, <1>5, SameEdits DEF Promise!Edit, Promise!EditInDoubt, PromiseBlocked
<1>6. ASSUME Recovered' = Recovered PROVE Coherent(Recovered)'
  BY <1>6
<1>7. Promise!Block \/ Promise!Notice \/ Promise!Crash \/ Promise!Restart \/ UNCHANGED Promise!catalogVars
        => Recovered' = Recovered
  BY DEF Promise!Block, Promise!Notice, Promise!Crash, Promise!Restart, Promise!catalogVars
<1> QED
  BY <1>4, <1>5, <1>6, <1>7 DEF Promise!AtomicNext

LEMMA OvertakenStays == ASSUME [StoreNext]_store, overtaken PROVE overtaken'
BY DEF StoreNext, store, Request, Reject, Stage, Commit, WritePrepared, WriteCatalog, WriteWorkspaces,
       WriteCommitted, Acknowledge, Recovery, ResolveFailedCommit, TransactionUnreadable, StartRollback,
       UndoCatalog, UndoWorkspaces, RemovePrepared, LoadCatalog, StoreCrash, StoreRestart, Registry,
       UpsertWorkspace, RemoveRecord, RegistryMutation

\* Wherever the daemon stops, what the restart loads names no label that the
\* catalog does not define, unless a registry mutation has overtaken a committed
\* edit (commit of catalog-store.ts, mutateCache of workspace-registry.ts).
THEOREM LabelsDefined == StoreSpec => []AssignedLabelsExist
<1> DEFINE Defined == ~overtaken => Coherent(Recovered)
<1>1. StoreInit => StoreInv /\ Defined
  BY Beginning
<1>2. StoreInv /\ Defined /\ [StoreNext]_store => StoreInv' /\ Defined'
  BY StepKept, PromiseCoherent, OvertakenStays DEF Kept, Overtakes
<1>3. Defined => AssignedLabelsExist
  BY DEF Coherent, AssignedLabelsExist, LabelsExist
<1> QED
  BY <1>1, <1>2, <1>3, PTL DEF StoreSpec

-----------------------------------------------------------------------------
(* The clients: the history, and what is true of a piece of state relative *)
(* to it.                                                                  *)

\* The rows r become s by a published change.
Step(r, s, change) ==
  IF change.kind = "remove" THEN s = [r EXCEPT ![change.name] = None]
  ELSE /\ change.previous # change.name
       /\ s = [n \in Names |-> IF n = change.name THEN change.color
                               ELSE IF n = change.previous THEN None
                               ELSE r[n]]

\* past[k] are the rows of the catalog at number k of this process, and
\* changes[k] is what was published under it.
History(past, changes) ==
  /\ past \in [0..headSeq -> Replica]
  /\ changes \in [1..headSeq -> Change]
  /\ \A k \in 1..headSeq : Step(past[k - 1], past[k], changes[k])
  /\ past[headSeq] = CatalogRows
  /\ \A i \in DOMAIN journal : journal[i].change = changes[journal[i].seq]

\* Rows with every label of others, in its colour.
Holds(rows, others) == \A n \in Names : others[n] # None => rows[n] = others[n]

\* What the changes after number k up to number s come to: labels that are there at s,
\* names that are not, and together with the rows at k all there is at s.
CatchesUp(net, past, k, s) ==
  /\ net.upserts \in Replica /\ net.removals \subseteq Names
  /\ \A n \in Names :
       /\ net.upserts[n] # None => net.upserts[n] = past[s][n]
       /\ n \in net.removals => past[s][n] = None
       /\ past[s][n] # None /\ net.upserts[n] = None => past[k][n] = past[s][n]

Update == [kind : {"update"}, gen : Nat, seq : Nat, change : Change]
List == [kind : {"list"}, mode : {"snapshot", "changes"}, gen : Nat, seq : Nat,
         labels : Replica, removals : SUBSET Names]

\* Where a client at a cursor stands before message i of a wire, if it applies what
\* it is sent.
Before(w, cur, i) ==
  IF i = 1 THEN cur ELSE [gen |-> w[i - 1].gen, seq |-> w[i - 1].seq]

\* A message takes a client from where it stands to the number it carries; only the
\* answer a subscription resumes with skips numbers.
Turn(m, before, past, changes, again) ==
  /\ m.seq \in DOMAIN past
  /\ m.kind = "update" =>
       before = [gen |-> m.gen, seq |-> m.seq - 1] /\ m.seq > 0 /\ m.change = changes[m.seq]
  /\ m.kind = "list" /\ m.mode = "snapshot" => m.labels = past[m.seq]
  /\ m.kind = "list" /\ m.mode = "changes" =>
       /\ before.gen = m.gen /\ before.seq \in 0..m.seq
       /\ CatchesUp([upserts |-> m.labels, removals |-> m.removals], past, before.seq, m.seq)
       /\ ~again => before.seq = m.seq

InTurn(w, cur, gen, past, changes, again) ==
  \A i \in DOMAIN w :
    w[i].gen = gen /\ Turn(w[i], Before(w, cur, i), past, changes, again)

Types ==
  /\ served.labels \in Catalog /\ durable.labels \in Catalog
  /\ up \in BOOLEAN /\ subscribed \in BOOLEAN /\ resumed \in BOOLEAN
  /\ generation \in Nat \ {0} /\ headSeq \in Nat
  /\ journal \in Seq([seq : Nat, change : Change])
  /\ wire \in Seq(Update \cup List)
  /\ replica \in Replica /\ cursor \in Cursor
  /\ asked \in Cursor \cup {None}

\* The journal holds the last numbers; a lost connection leaves nothing in flight.
SequenceInv ==
  /\ Len(journal) <= headSeq
  /\ \A i \in DOMAIN journal : journal[i].seq = headSeq - Len(journal) + i
  /\ cursor.gen <= generation
  /\ cursor.gen = generation => cursor.seq <= headSeq
  /\ subscribed => up
  /\ ~subscribed => wire = <<>> /\ asked = None
  /\ asked # None => asked.gen = generation /\ asked.seq <= headSeq

ClientInv(past, changes) ==
  /\ cursor.gen = generation => Holds(replica, past[cursor.seq])
  /\ InTurn(wire, cursor, generation, past, changes, resumed)
  /\ subscribed =>
       Before(wire, cursor, Len(wire) + 1) = [gen |-> generation, seq |-> headSeq]
  /\ subscribed /\ ~resumed =>
       \/ wire # <<>> /\ wire[1].kind = "list" /\ wire[1].mode = "snapshot"
       \/ cursor.gen = generation /\ replica = past[cursor.seq]

SyncInv ==
  /\ Types /\ SequenceInv
  /\ up => \E past, changes : History(past, changes) /\ ClientInv(past, changes)

-----------------------------------------------------------------------------
(* What an edit publishes is what it makes of the catalog.                 *)

RowsOf(catalog) == [n \in Names |-> IF n \in DOMAIN catalog THEN catalog[n] ELSE None]

\* What a p publishes is the difference it makes to the catalog.
Publishes(catalog, p) ==
  /\ p.labels \in Catalog
  /\ p.change \in Change \cup {None}
  /\ IF p.change = None THEN RowsOf(p.labels) = RowsOf(catalog)
     ELSE Step(RowsOf(catalog), RowsOf(p.labels), p.change)

LEMMA RowsTyped == ASSUME NEW f \in Catalog PROVE RowsOf(f) \in Replica
BY CatalogFunction DEF RowsOf, Replica

LEMMA ChangeIsNotNone == None \notin Change
BY NoneAssumption

LEMMA AssignPublishes ==
  ASSUME NEW w \in DOMAIN served.workspaces, NEW n \in Names, NEW c \in Colors,
         served.labels \in Catalog
  PROVE  Publishes(served.labels, AssignPlan(served, w, n, c))
<1> DEFINE grown == [k \in DOMAIN served.labels \cup {n} |->
                       IF k = n THEN c ELSE served.labels[k]]
           change == [kind |-> "upsert", name |-> n, color |-> c, previous |-> None]
           p == AssignPlan(served, w, n, c)
<1>1. CASE n \in DOMAIN served.labels
  <2>1. p.labels = served.labels /\ p.change = None
    BY <1>1 DEF AssignPlan
  <2> QED
    BY <2>1 DEF Publishes
<1>2. CASE n \notin DOMAIN served.labels
  <2>1. p.labels = grown /\ p.change = change
    BY <1>2 DEF AssignPlan
  <2>2. grown \in Catalog
    BY CatalogFunction, FunctionCatalog
  <2>3. change \in Change
    BY DEF Change
  <2>4. Step(RowsOf(served.labels), RowsOf(grown), change)
    BY NoneAssumption DEF Step, RowsOf
  <2> HIDE DEF grown, change, p
  <2> QED
    BY <2>1, <2>2, <2>3, <2>4, ChangeIsNotNone DEF Publishes, p
<1> QED
  BY <1>1, <1>2

LEMMA UpdatePublishes ==
  ASSUME NEW n \in Names, NEW m \in Names, NEW c \in Colors,
         served.labels \in Catalog, CanRename(served, n, m)
  PROVE  Publishes(served.labels, UpdatePlan(served, n, m, c))
<1> DEFINE renamed == [k \in (DOMAIN served.labels \ {n}) \cup {m} |->
                         IF k = m THEN c ELSE served.labels[k]]
           change == [kind |-> "upsert", name |-> m, color |-> c,
                      previous |-> IF m = n THEN None ELSE n]
           p == UpdatePlan(served, n, m, c)
<1>1. n \in DOMAIN served.labels /\ (m = n \/ m \notin DOMAIN served.labels)
  BY DEF CanRename
<1>2. renamed \in Catalog
  BY CatalogFunction, FunctionCatalog
<1>3. p.labels = renamed
  BY DEF UpdatePlan
<1>4. CASE m = n /\ c = served.labels[n]
  <2>1. p.change = None
    BY <1>4 DEF UpdatePlan
  <2>2. RowsOf(renamed) = RowsOf(served.labels)
    BY <1>1, <1>4 DEF RowsOf
  <2> HIDE DEF renamed, p
  <2> QED
    BY <1>2, <1>3, <2>1, <2>2 DEF Publishes, p
<1>5. CASE ~(m = n /\ c = served.labels[n])
  <2>1. p.change = change
    BY <1>5 DEF UpdatePlan
  <2>2. change \in Change
    BY DEF Change
  <2>3. Step(RowsOf(served.labels), RowsOf(renamed), change)
    <3>1. change.previous # change.name /\ change.kind # "remove"
      BY NoneAssumption
    <3>2. RowsOf(renamed) = [k \in Names |-> IF k = m THEN c
                              ELSE IF k = n THEN None ELSE RowsOf(served.labels)[k]]
      BY <1>1 DEF RowsOf
    <3>3. \A k \in Names : k = change.previous <=> (k = n /\ m # n)
      BY NoneAssumption
    <3> QED
      BY <3>1, <3>2, <3>3 DEF Step
  <2> HIDE DEF renamed, change, p
  <2> QED
    BY <1>2, <1>3, <2>1, <2>2, <2>3, ChangeIsNotNone DEF Publishes, p
<1> QED
  BY <1>4, <1>5

LEMMA DeletePublishes ==
  ASSUME NEW n \in Names, served.labels \in Catalog
  PROVE  Publishes(served.labels, DeletePlan(served, n))
<1> DEFINE rest == [k \in DOMAIN served.labels \ {n} |-> served.labels[k]]
           change == [kind |-> "remove", name |-> n]
           p == DeletePlan(served, n)
<1>1. CASE n \notin DOMAIN served.labels
  <2>1. p.labels = served.labels /\ p.change = None
    BY <1>1 DEF DeletePlan
  <2> QED
    BY <2>1 DEF Publishes
<1>2. CASE n \in DOMAIN served.labels
  <2>1. p.labels = rest /\ p.change = change
    BY <1>2 DEF DeletePlan
  <2>2. rest \in Catalog
    BY CatalogFunction, FunctionCatalog
  <2>3. change \in Change
    BY DEF Change
  <2>4. Step(RowsOf(served.labels), RowsOf(rest), change)
    BY DEF Step, RowsOf
  <2> HIDE DEF rest, change, p
  <2> QED
    BY <2>1, <2>2, <2>3, <2>4, ChangeIsNotNone DEF Publishes, p
<1> QED
  BY <1>1, <1>2

LEMMA PlanPublishes ==
  ASSUME NEW p \in Plans(served), served.labels \in Catalog
  PROVE  Publishes(served.labels, p)
<1>1. ASSUME NEW w \in DOMAIN served.workspaces, NEW n \in Names,
             p = UnassignPlan(served, w, n)
      PROVE  Publishes(served.labels, p)
  BY <1>1 DEF UnassignPlan, Publishes
<1>2. ASSUME NEW r \in {q \in Names \X Names \X Colors : CanRename(served, q[1], q[2])},
             p = UpdatePlan(served, r[1], r[2], r[3])
      PROVE  Publishes(served.labels, p)
  BY <1>2, UpdatePublishes
<1>3. \/ \E w \in DOMAIN served.workspaces, n \in Names, c \in Colors :
           p = AssignPlan(served, w, n, c)
      \/ \E w \in DOMAIN served.workspaces, n \in Names : p = UnassignPlan(served, w, n)
      \/ \E r \in {q \in Names \X Names \X Colors : CanRename(served, q[1], q[2])} :
           p = UpdatePlan(served, r[1], r[2], r[3])
      \/ \E n \in Names : p = DeletePlan(served, n)
  BY DEF Plans
<1> QED
  BY <1>1, <1>2, <1>3, AssignPublishes, DeletePublishes

-----------------------------------------------------------------------------
(* What the journal's entries after a cursor come to.                      *)

LEMMA Least ==
  ASSUME NEW S \in SUBSET Nat, S # {}
  PROVE  \E s \in S : \A u \in S : s <= u
<1>1. PICK s \in S : \A u \in S : <<u, s>> \notin OpToRel(<, Nat)
  BY WFMin, NatLessThanWellFounded, Zenon
<1>2. \A u \in S : ~(u < s)
  BY <1>1 DEF OpToRel
<1> QED
  BY <1>2

\* The fold is well defined.
NetUpTo(net, cur) ==
  net = [i \in 0..Len(journal) |->
           IF i = 0 THEN NoChanges
           ELSE IF journal[i].seq > cur.seq THEN Fold(net[i - 1], journal[i])
           ELSE net[i - 1]]

LEMMA NetIsFold ==
  ASSUME NEW cur, Len(journal) \in Nat
  PROVE  \E net :
           /\ Net(cur) = net[Len(journal)]
           /\ net[0] = NoChanges
           /\ \A i \in 1..Len(journal) :
                net[i] = IF journal[i].seq > cur.seq THEN Fold(net[i - 1], journal[i])
                         ELSE net[i - 1]
<1> DEFINE Take(x, i) == IF journal[i].seq > cur.seq THEN Fold(x, journal[i]) ELSE x
           Good(f, n) == f = [i \in 0..n |-> IF i = 0 THEN NoChanges ELSE Take(f[i - 1], i)]
           Bad == {n \in 0..Len(journal) : ~\E f : Good(f, n)}
<1> HIDE DEF Take
<1>1. ASSUME Bad # {} PROVE FALSE
  <2>1. Bad \in SUBSET Nat
    OBVIOUS
  <2> HIDE DEF Bad
  <2>2. PICK m \in Bad : \A k \in Bad : m <= k
    BY <1>1, <2>1, Least
  <2>3. m \in 0..Len(journal) /\ ~\E f : Good(f, m)
    BY DEF Bad
  <2>4. m # 0
    <3>1. Good([i \in 0..0 |-> NoChanges], 0)
      OBVIOUS
    <3> QED
      BY <2>3, <3>1
  <2>5. m - 1 \in 0..Len(journal) /\ m - 1 \notin Bad
    BY <2>1, <2>2, <2>3, <2>4
  <2>6. PICK f : Good(f, m - 1)
    BY <2>5 DEF Bad
  <2>7. Good([i \in 0..m |-> IF i = m THEN Take(f[m - 1], m) ELSE f[i]], m)
    BY <2>3, <2>4, <2>6
  <2> QED
    BY <2>3, <2>7
<1>2. \E f : Good(f, Len(journal))
  BY <1>1
<1>3. \A f : Good(f, Len(journal)) <=> NetUpTo(f, cur)
  BY DEF NetUpTo, Take
<1>4. \E f : NetUpTo(f, cur)
  BY <1>2, <1>3
<1> HIDE DEF Good, Bad
<1>5. PICK net : NetUpTo(net, cur) /\ Net(cur) = net[Len(journal)]
  BY <1>4 DEF Net, NetUpTo
<1>6. ASSUME NEW i \in 0..Len(journal)
      PROVE  net[i] = IF i = 0 THEN NoChanges
                      ELSE IF journal[i].seq > cur.seq THEN Fold(net[i - 1], journal[i])
                      ELSE net[i - 1]
  <2> DEFINE g == [j \in 0..Len(journal) |->
                     IF j = 0 THEN NoChanges
                     ELSE IF journal[j].seq > cur.seq THEN Fold(net[j - 1], journal[j])
                     ELSE net[j - 1]]
  <2>1. net = g
    BY <1>5 DEF NetUpTo
  <2>2. g[i] = IF i = 0 THEN NoChanges
               ELSE IF journal[i].seq > cur.seq THEN Fold(net[i - 1], journal[i])
               ELSE net[i - 1]
    OBVIOUS
  <2> HIDE DEF g
  <2> QED
    BY <2>1, <2>2
<1> QED
  BY <1>5, <1>6

IsNet(net) == net = [upserts |-> net.upserts, removals |-> net.removals]

\* Folding one more change.
LEMMA FoldCatchesUp ==
  ASSUME NEW past, NEW k, NEW s, NEW t, past[s] \in Replica, past[t] \in Replica,
         NEW entry, entry.change \in Change,
         Step(past[s], past[t], entry.change),
         NEW net, CatchesUp(net, past, k, s), IsNet(net)
  PROVE  CatchesUp(Fold(net, entry), past, k, t) /\ IsNet(Fold(net, entry))
<1> DEFINE ch == entry.change
<1>1. net = [upserts |-> net.upserts, removals |-> net.removals]
  BY DEF IsNet
<1>2. net.upserts \in Replica /\ net.removals \subseteq Names
  BY DEF CatchesUp
<1>3. ASSUME NEW n \in Names
      PROVE  /\ Drop(net, n) = [upserts |-> Drop(net, n).upserts, removals |-> Drop(net, n).removals]
             /\ Drop(net, n).upserts = [net.upserts EXCEPT ![n] = None]
             /\ Drop(net, n).removals \subseteq net.removals \cup {n}
  BY <1>1, <1>2 DEF Drop, Replica
<1>4. CASE ch.kind = "remove"
  <2>1. ch.name \in Names
    BY <1>4 DEF Change
  <2>2. Fold(net, entry) = Drop(net, ch.name)
    BY <1>4 DEF Fold
  <2>3. past[t] = [past[s] EXCEPT ![ch.name] = None]
    BY <1>4 DEF Step
  <2> HIDE DEF ch
  <2> DEFINE d == Drop(net, ch.name)
  <2>4. /\ d = [upserts |-> d.upserts, removals |-> d.removals]
        /\ d.upserts = [net.upserts EXCEPT ![ch.name] = None]
        /\ d.removals \subseteq net.removals \cup {ch.name}
    BY <1>3, <2>1
  <2> HIDE DEF d
  <2>5. /\ d.upserts \in Replica /\ d.removals \subseteq Names
        /\ \A n \in Names : d.upserts[n] = IF n = ch.name THEN None ELSE net.upserts[n]
    BY <1>2, <2>1, <2>4 DEF Replica
  <2>6. \A n \in Names : past[t][n] = IF n = ch.name THEN None ELSE past[s][n]
    BY <2>3 DEF Replica
  <2>7. CatchesUp(d, past, k, t)
    BY <2>4, <2>5, <2>6 DEF CatchesUp
  <2> QED
    BY <2>2, <2>4, <2>7 DEF d, IsNet
<1>5. CASE ch.kind # "remove"
  <2>1. /\ ch.name \in Names /\ ch.color \in Colors /\ ch.previous \in Names \cup {None}
    BY <1>5 DEF Change
  <2> DEFINE base == IF ch.previous = None THEN net ELSE Drop(net, ch.previous)
  <2>2. Fold(net, entry) = [upserts |-> [base.upserts EXCEPT ![ch.name] = ch.color],
                            removals |-> base.removals \ {ch.name}]
    BY <1>5 DEF Fold
  <2>3. /\ ch.previous # ch.name
        /\ past[t] = [n \in Names |-> IF n = ch.name THEN ch.color
                               ELSE IF n = ch.previous THEN None
                               ELSE past[s][n]]
    BY <1>5 DEF Step
  <2>4. /\ base.upserts \in Replica
        /\ \A n \in Names : base.upserts[n] = IF n = ch.previous THEN None ELSE net.upserts[n]
        /\ base.removals \subseteq net.removals \cup {ch.previous} /\ base.removals \subseteq Names
    <3>1. CASE ch.previous = None
      BY <1>2, <2>1, <3>1, NoneAssumption
    <3>2. CASE ch.previous # None
      <4> DEFINE d == Drop(net, ch.previous)
      <4>1. /\ d.upserts = [net.upserts EXCEPT ![ch.previous] = None]
            /\ d.removals \subseteq net.removals \cup {ch.previous}
        BY <1>3, <2>1, <3>2
      <4>2. base = d
        BY <3>2
      <4> HIDE DEF d, base, ch
      <4> QED
        BY <1>2, <2>1, <3>2, <4>1, <4>2 DEF Replica
    <3> QED
      BY <3>1, <3>2
  <2> HIDE DEF ch, base
  <2> DEFINE f == Fold(net, entry)
  <2>5. /\ f.upserts \in Replica /\ f.removals \subseteq Names
        /\ \A n \in Names : f.upserts[n] = IF n = ch.name THEN ch.color ELSE base.upserts[n]
        /\ f.removals = base.removals \ {ch.name}
    BY <2>1, <2>2, <2>4 DEF Replica
  <2>6. f = [upserts |-> f.upserts, removals |-> f.removals]
    BY <2>2
  <2> HIDE DEF f
  <2>7. CatchesUp(f, past, k, t)
    BY <2>1, <2>3, <2>4, <2>5, NoneAssumption DEF CatchesUp
  <2> QED
    BY <2>6, <2>7 DEF f, IsNet
<1> QED
  BY <1>4, <1>5

\* Every entry after the cursor: the fold takes rows of the cursor's number to the catalog.
LEMMA NetCatchesUp ==
  ASSUME Types, SequenceInv, NEW past, NEW changes, History(past, changes),
         NEW cur \in Cursor, CanCatchUp(cur)
  PROVE  /\ CatchesUp(Net(cur), past, cur.seq, headSeq)
         /\ cur.gen = generation /\ cur.seq \in 0..headSeq
<1> DEFINE L == Len(journal)
           At(i) == IF headSeq - L + i > cur.seq THEN headSeq - L + i ELSE cur.seq
<1>1. /\ headSeq \in Nat /\ cur.seq \in 0..headSeq /\ cur.gen = generation
      /\ L \in 0..headSeq /\ cur.seq >= headSeq - L
      /\ \A i \in 1..L : /\ journal[i].seq = headSeq - L + i
                         /\ journal[i].change \in Change
                         /\ journal[i].change = changes[journal[i].seq]
  <2>1. L \in Nat /\ DOMAIN journal = 1..L /\ L <= headSeq /\ headSeq \in Nat /\ cur.seq \in Nat
    BY DEF Types, SequenceInv, Cursor
  <2>2. \A i \in 1..L : /\ journal[i].seq = headSeq - L + i
                        /\ journal[i].change \in Change
                        /\ journal[i].change = changes[journal[i].seq]
    <3> TAKE i \in 1..L
    <3>1. journal[i] \in [seq : Nat, change : Change]
      <4>1. journal \in Seq([seq : Nat, change : Change])
        BY DEF Types
      <4> HIDE DEF L
      <4> QED
        BY <2>1, <4>1, ElementOfSeq DEF L
    <3> QED
      BY <2>1, <3>1 DEF SequenceInv, History
  <2>3. journal = <<>> <=> L = 0
    BY DEF Types
  <2>4. cur.seq >= headSeq - L /\ cur.seq <= headSeq /\ cur.gen = generation
    BY <2>1, <2>2, <2>3 DEF CanCatchUp
  <2> QED
    BY <2>1, <2>2, <2>4
<1> HIDE DEF L
<1>2. PICK net :
        /\ Net(cur) = net[L]
        /\ net[0] = NoChanges
        /\ \A i \in 1..L : net[i] = IF journal[i].seq > cur.seq
                                    THEN Fold(net[i - 1], journal[i]) ELSE net[i - 1]
  BY <1>1, NetIsFold DEF L
<1>3. /\ past \in [0..headSeq -> Replica]
      /\ \A k \in 1..headSeq : Step(past[k - 1], past[k], changes[k])
  BY DEF History
<1> DEFINE Fine(i) == /\ CatchesUp(net[i], past, cur.seq, At(i))
                      /\ IsNet(net[i])
           Bad == {i \in 0..L : ~Fine(i)}
<1>4. ASSUME Bad # {} PROVE FALSE
  <2>1. Bad \in SUBSET Nat
    BY <1>1
  <2> HIDE DEF Bad
  <2>2. PICK m \in Bad : \A k \in Bad : m <= k
    BY <1>4, <2>1, Least
  <2>3. m \in 0..L /\ ~Fine(m)
    BY DEF Bad
  <2>4. Fine(0)
    <3>1. net[0] = NoChanges /\ At(0) = cur.seq
      BY <1>1, <1>2
    <3> HIDE DEF At
    <3>2. NoChanges.upserts \in Replica /\ NoChanges.removals = {}
          /\ \A n \in Names : NoChanges.upserts[n] = None
      BY DEF NoChanges, Replica
    <3>3. IsNet(NoChanges)
      BY DEF NoChanges, IsNet
    <3> QED
      BY <3>1, <3>2, <3>3 DEF CatchesUp
  <2> HIDE DEF Fine
  <2>5. m \in 1..L /\ m - 1 \in 0..L /\ m - 1 \notin Bad
    BY <1>1, <2>1, <2>2, <2>3, <2>4
  <2>6. Fine(m - 1)
    BY <2>5 DEF Bad
  <2>7. net[m] = IF journal[m].seq > cur.seq THEN Fold(net[m - 1], journal[m]) ELSE net[m - 1]
    BY <1>2, <2>5
  <2>8. CASE journal[m].seq > cur.seq
    <3> DEFINE s == At(m - 1)
    <3>1. headSeq - L + m > cur.seq /\ journal[m].seq = headSeq - L + m
      BY <1>1, <2>5, <2>8
    <3>2. s = headSeq - L + m - 1 /\ At(m) = s + 1 /\ s \in 0..(headSeq - 1)
      <4>1. /\ headSeq \in Nat /\ L \in 0..headSeq /\ m \in 1..L /\ cur.seq \in Nat
            /\ headSeq - L + (m - 1) = headSeq - L + m - 1
        BY <1>1, <2>5
      <4> QED
        BY <3>1, <4>1
    <3> HIDE DEF At
    <3>3. Step(past[s], past[s + 1], journal[m].change)
      <4> HIDE DEF s
      <4>1. s + 1 = journal[m].seq /\ s + 1 \in 1..headSeq /\ s = (s + 1) - 1
        <5>1. headSeq \in Nat /\ L \in 0..headSeq /\ m \in 1..L
          BY <1>1, <2>5
        <5> QED
          BY <5>1, <3>1, <3>2
      <4>2. Step(past[s], past[s + 1], changes[s + 1])
        BY <1>3, <4>1
      <4> QED
        BY <1>1, <2>5, <4>1, <4>2
    <3>4. s \in 0..(headSeq - 1)
      BY <3>2
    <3> HIDE DEF s
    <3>5. CatchesUp(net[m - 1], past, cur.seq, s) /\ IsNet(net[m - 1])
      BY <2>6 DEF Fine, s
    <3>6. past[s] \in Replica /\ past[s + 1] \in Replica /\ journal[m].change \in Change
      BY <1>1, <1>3, <2>5, <3>4
    <3>7. /\ CatchesUp(Fold(net[m - 1], journal[m]), past, cur.seq, s + 1)
          /\ IsNet(Fold(net[m - 1], journal[m]))
      BY <3>3, <3>5, <3>6, FoldCatchesUp, Zenon
    <3>8. Fine(m)
      BY <2>7, <2>8, <3>2, <3>7 DEF Fine
    <3> QED
      BY <2>3, <3>8
  <2>9. CASE ~(journal[m].seq > cur.seq)
    <3>1. At(m) = cur.seq /\ At(m - 1) = cur.seq
      BY <1>1, <2>5, <2>9
    <3> HIDE DEF At
    <3> QED
      BY <2>3, <2>6, <2>7, <2>9, <3>1 DEF Fine
  <2> QED
    BY <2>8, <2>9
<1>5. Fine(L) /\ At(L) = headSeq
  BY <1>1, <1>4
<1> HIDE DEF At
<1> QED
  BY <1>1, <1>2, <1>5


-----------------------------------------------------------------------------
(* The messages in flight.                                                 *)

Message == Update \cup List

LEMMA MessageFields ==
  ASSUME NEW m \in Message
  PROVE  /\ m.gen \in Nat /\ m.seq \in Nat /\ m.kind \in {"update", "list"}
         /\ m.kind = "update" => m.change \in Change
         /\ m.kind = "list" => /\ m.mode \in {"snapshot", "changes"}
                               /\ m.labels \in Replica /\ m.removals \subseteq Names
BY DEF Message, Update, List

\* One more message, from where the others lead.
LEMMA TurnsAppend ==
  ASSUME NEW w \in Seq(Message), NEW m \in Message, NEW cur, NEW gen, NEW past, NEW changes,
         NEW again, InTurn(w, cur, gen, past, changes, again),
         m.gen = gen, Turn(m, Before(w, cur, Len(w) + 1), past, changes, again)
  PROVE  /\ InTurn(Append(w, m), cur, gen, past, changes, again)
         /\ Before(Append(w, m), cur, Len(Append(w, m)) + 1) = [gen |-> m.gen, seq |-> m.seq]
<1> DEFINE v == Append(w, m)
           L == Len(w)
<1>1. /\ L \in Nat /\ Len(v) = L + 1 /\ DOMAIN v = 1..(L + 1) /\ DOMAIN w = 1..L
      /\ \A i \in 1..L : v[i] = w[i]
      /\ v[L + 1] = m
  OBVIOUS
<1> HIDE DEF v, L
<1>2. \A i \in 1..(L + 1) : Before(v, cur, i) = Before(w, cur, i)
  BY <1>1 DEF Before
<1>3. ASSUME NEW i \in DOMAIN v
      PROVE  v[i].gen = gen /\ Turn(v[i], Before(v, cur, i), past, changes, again)
  <2>1. i \in 1..L \/ i = L + 1
    BY <1>1
  <2>2. CASE i \in 1..L
    BY <1>1, <1>2, <2>2 DEF InTurn
  <2>3. CASE i = L + 1
    BY <1>1, <1>2, <2>3 DEF L
  <2> QED
    BY <2>1, <2>2, <2>3
<1>4. Before(v, cur, Len(v) + 1) = [gen |-> m.gen, seq |-> m.seq]
  BY <1>1 DEF Before
<1> QED
  BY <1>3, <1>4 DEF InTurn, v

\* The first message is applied.
LEMMA TurnsTail ==
  ASSUME NEW w \in Seq(Message), w # <<>>, NEW cur, NEW gen, NEW past, NEW changes,
         NEW again, InTurn(w, cur, gen, past, changes, again)
  PROVE  LET at == [gen |-> w[1].gen, seq |-> w[1].seq]
         IN /\ InTurn(Tail(w), at, gen, past, changes, again)
            /\ Before(Tail(w), at, Len(Tail(w)) + 1) = Before(w, cur, Len(w) + 1)
<1> DEFINE at == [gen |-> w[1].gen, seq |-> w[1].seq]
           v == Tail(w)
           L == Len(v)
<1>1. /\ L \in Nat /\ Len(w) = L + 1 /\ DOMAIN w = 1..(L + 1) /\ DOMAIN v = 1..L
      /\ \A i \in 1..L : v[i] = w[i + 1]
  OBVIOUS
<1> HIDE DEF v, L
<1>2. ASSUME NEW i \in 1..(L + 1) PROVE Before(v, at, i) = Before(w, cur, i + 1)
  <2>1. CASE i = 1
    BY <2>1 DEF Before
  <2>2. CASE i # 1
    <3>1. i - 1 \in 1..L /\ i + 1 # 1 /\ (i - 1) + 1 = i /\ (i + 1) - 1 = i
      BY <1>1, <2>2
    <3> QED
      BY <1>1, <2>2, <3>1 DEF Before
  <2> QED
    BY <2>1, <2>2
<1> HIDE DEF at
<1>3. ASSUME NEW i \in DOMAIN v
      PROVE  v[i].gen = gen /\ Turn(v[i], Before(v, at, i), past, changes, again)
  <2>1. i \in 1..(L + 1) /\ i + 1 \in DOMAIN w /\ v[i] = w[i + 1]
    BY <1>1
  <2>2. w[i + 1].gen = gen /\ Turn(w[i + 1], Before(w, cur, i + 1), past, changes, again)
    BY <2>1 DEF InTurn
  <2> QED
    BY <1>2, <2>1, <2>2
<1>4. L + 1 \in 1..(L + 1) /\ Len(w) + 1 = (L + 1) + 1
  BY <1>1
<1>5. Before(v, at, L + 1) = Before(w, cur, Len(w) + 1)
  BY <1>2, <1>4
<1> QED
  BY <1>3, <1>5 DEF InTurn, at, v, L

\* A longer history says the same of the messages already in flight.
LEMMA TurnsGrow ==
  ASSUME NEW w \in Seq(Message), NEW cur, NEW gen, NEW past, NEW changes, NEW again,
         InTurn(w, cur, gen, past, changes, again),
         NEW h \in Nat, DOMAIN past = 0..h, NEW past2, NEW changes2,
         0..h \subseteq DOMAIN past2,
         \A k \in 0..h : past2[k] = past[k],
         \A k \in 1..h : changes2[k] = changes[k]
  PROVE  InTurn(w, cur, gen, past2, changes2, again)
<1>1. ASSUME NEW m \in Message, NEW before, Turn(m, before, past, changes, again)
      PROVE  Turn(m, before, past2, changes2, again)
  <2>1. m.seq \in 0..h /\ past2[m.seq] = past[m.seq]
    BY <1>1 DEF Turn
  <2>2. m.kind = "update" => changes2[m.seq] = changes[m.seq]
    BY <1>1, <2>1 DEF Turn
  <2>3. ASSUME m.kind = "list", m.mode = "changes"
        PROVE  CatchesUp([upserts |-> m.labels, removals |-> m.removals], past2, before.seq, m.seq)
    <3>1. before.seq \in 0..h
      BY <1>1, <2>1, <2>3 DEF Turn
    <3>2. CatchesUp([upserts |-> m.labels, removals |-> m.removals], past, before.seq, m.seq)
      BY <1>1, <2>3 DEF Turn
    <3> QED
      BY <2>1, <3>1, <3>2 DEF CatchesUp
  <2> QED
    BY <1>1, <2>1, <2>2, <2>3 DEF Turn
<1>2. ASSUME NEW i \in DOMAIN w PROVE w[i] \in Message
  BY ElementOfSeq
<1> QED
  BY <1>1, <1>2 DEF InTurn

\* What the sequence answers to a cursor.
LEMMA SynchronizeAnswers ==
  ASSUME Types, SequenceInv, NEW past, NEW changes, History(past, changes), NEW cur \in Cursor
  PROVE  LET m == Synchronize(cur)
         IN /\ m \in List /\ m.gen = generation /\ m.seq = headSeq
            /\ m.mode = "snapshot" => m.labels = past[headSeq]
            /\ m.mode = "changes" =>
                 /\ cur.gen = generation /\ cur.seq \in 0..headSeq
                 /\ CatchesUp([upserts |-> m.labels, removals |-> m.removals],
                              past, cur.seq, headSeq)
<1>1. CatalogRows = past[headSeq] /\ CatalogRows \in Replica
      /\ headSeq \in Nat /\ generation \in Nat
  BY RowsTyped DEF History, Types, CatalogRows, RowsOf
<1>2. CASE CanCatchUp(cur)
  <2> DEFINE net == Net(cur)
  <2>1. CatchesUp(net, past, cur.seq, headSeq) /\ cur.gen = generation /\ cur.seq \in 0..headSeq
    BY <1>2, NetCatchesUp
  <2> HIDE DEF net
  <2>2. Synchronize(cur) = [kind |-> "list", mode |-> "changes", gen |-> generation,
                            seq |-> headSeq, labels |-> net.upserts, removals |-> net.removals]
    BY <1>2 DEF Synchronize, Answer, net
  <2>3. net.upserts \in Replica /\ net.removals \subseteq Names
    BY <2>1 DEF CatchesUp
  <2>4. CatchesUp([upserts |-> net.upserts, removals |-> net.removals], past, cur.seq, headSeq)
    BY <2>1 DEF CatchesUp
  <2> QED
    BY <1>1, <2>1, <2>2, <2>3, <2>4 DEF List
<1>3. CASE ~CanCatchUp(cur)
  <2>1. Synchronize(cur) = [kind |-> "list", mode |-> "snapshot", gen |-> generation,
                            seq |-> headSeq, labels |-> CatalogRows, removals |-> {}]
    BY <1>3 DEF Synchronize, Answer
  <2> QED
    BY <1>1, <2>1 DEF List
<1> QED
  BY <1>2, <1>3

-----------------------------------------------------------------------------
(* Every step preserves the invariant.                                     *)

LEMMA InitInv == Init => SyncInv
<1> SUFFICES ASSUME Init PROVE SyncInv
  OBVIOUS
<1> DEFINE past == [k \in 0..0 |-> CatalogRows]
           changes == [k \in 1..0 |-> 0]
<1>1. served.labels \in Catalog /\ durable.labels \in Catalog
  <2>1. [n \in {} |-> None] \in Catalog
    <3>1. [n \in {} |-> None] \in [{} -> Colors]
      OBVIOUS
    <3> QED
      BY <3>1, FunctionCatalog
  <2> QED
    BY <2>1 DEF Init, CatalogInit
<1>2. CatalogRows \in Replica
  BY <1>1, RowsTyped DEF CatalogRows, RowsOf
<1>3. Types
  <2>1. journal \in Seq([seq : Nat, change : Change]) /\ wire \in Seq(Update \cup List)
    BY DEF Init
  <2>2. replica \in Replica /\ cursor \in Cursor
    BY DEF Init, Replica, Cursor, NoCursor
  <2>3. up \in BOOLEAN /\ subscribed \in BOOLEAN /\ resumed \in BOOLEAN
    BY Zenon DEF Init, CatalogInit
  <2>4. generation \in Nat \ {0} /\ headSeq \in Nat /\ asked \in Cursor \cup {None}
    BY DEF Init
  <2> QED
    BY <1>1, <2>1, <2>2, <2>3, <2>4 DEF Types
<1>4. SequenceInv
  BY DEF Init, CatalogInit, SequenceInv, NoCursor
<1>5. History(past, changes)
  BY <1>2 DEF Init, History
<1>6. ClientInv(past, changes)
  BY DEF Init, ClientInv, InTurn, NoCursor
<1> QED
  BY <1>3, <1>4, <1>5, <1>6 DEF SyncInv

LEMMA HistoryFrame ==
  ASSUME UNCHANGED <<catalogVars, sequence>>, NEW past, NEW changes, History(past, changes)
  PROVE  History(past, changes)'
BY DEF History, CatalogRows, catalogVars, sequence

\* A new subscription, from a cursor or from none.
LEMMA Subscribed ==
  ASSUME SyncInv, ~subscribed, up, NEW cur \in {NoCursor, cursor},
         UNCHANGED <<catalogVars, sequence, asked, replica, cursor>>,
         subscribed' = TRUE, wire' = <<Synchronize(cur)>>,
         resumed' = (cur = cursor /\ cursor # NoCursor /\ Synchronize(cur).mode = "changes")
  PROVE  SyncInv'
<1>1. PICK past, changes : History(past, changes) /\ ClientInv(past, changes)
  BY DEF SyncInv
<1>2. Types /\ SequenceInv
  BY DEF SyncInv
<1>3. cur \in Cursor /\ headSeq \in Nat /\ generation \in Nat \ {0} /\ cursor \in Cursor
  BY <1>2 DEF Types, Cursor, NoCursor
<1> DEFINE m == Synchronize(cur)
<1>4. /\ m \in List /\ m.gen = generation /\ m.seq = headSeq
      /\ m.mode = "snapshot" => m.labels = past[headSeq]
      /\ m.mode = "changes" =>
           /\ cur.gen = generation /\ cur.seq \in 0..headSeq
           /\ CatchesUp([upserts |-> m.labels, removals |-> m.removals], past, cur.seq, headSeq)
  BY <1>1, <1>2, <1>3, SynchronizeAnswers
<1> HIDE DEF m
<1>5. m.kind = "list" /\ m.mode \in {"snapshot", "changes"}
  BY <1>4 DEF List
<1>6. m.mode = "changes" => cur = cursor /\ cursor # NoCursor
  BY <1>3, <1>4 DEF NoCursor
<1>7. wire' = <<m>> /\ resumed' = (m.mode = "changes")
  BY <1>6 DEF m
<1>8. Types'
  <2>1. <<m>> \in Seq(Update \cup List)
    BY <1>4
  <2> QED
    BY <1>2, <1>7, <2>1 DEF Types, catalogVars, sequence
<1>9. SequenceInv'
  BY <1>2, <1>7 DEF SequenceInv, catalogVars, sequence
<1>10. ClientInv(past, changes)'
  <2>1. DOMAIN past = 0..headSeq
    BY <1>1 DEF History
  <2>2. Turn(m, cursor, past, changes, m.mode = "changes")
    BY <1>3, <1>4, <1>5, <1>6, <2>1 DEF Turn
  <2>3. InTurn(<<m>>, cursor, generation, past, changes, m.mode = "changes")
    BY <1>4, <2>2 DEF InTurn, Before
  <2>4. Before(<<m>>, cursor, Len(<<m>>) + 1) = [gen |-> generation, seq |-> headSeq]
    BY <1>4 DEF Before
  <2>5. UNCHANGED <<generation, headSeq, cursor, replica>>
    BY DEF sequence
  <2> QED
    <3>1. (cursor.gen = generation => Holds(replica, past[cursor.seq]))'
      BY <1>1, <2>5 DEF ClientInv
    <3>2. InTurn(wire, cursor, generation, past, changes, resumed)'
      BY <1>7, <2>3, <2>5
    <3>3. (Before(wire, cursor, Len(wire) + 1) = [gen |-> generation, seq |-> headSeq])'
      BY <1>7, <2>4, <2>5
    <3>4. (~resumed => wire # <<>> /\ wire[1].kind = "list" /\ wire[1].mode = "snapshot")'
      <4>1. wire' # <<>> /\ wire'[1] = m
        BY <1>7
      <4>2. CASE m.mode = "changes"
        BY <1>7, <4>2
      <4>3. CASE m.mode # "changes"
        BY <1>5, <4>1, <4>3
      <4> QED
        BY <4>2, <4>3
    <3> QED
      BY <3>1, <3>2, <3>3, <3>4 DEF ClientInv
<1> QED
  BY <1>1, <1>8, <1>9, <1>10, HistoryFrame DEF SyncInv

LEMMA SubscribeInv == ASSUME SyncInv, Subscribe, UNCHANGED <<catalogVars, sequence>> PROVE SyncInv'
<1>1. PICK past, changes : History(past, changes)
  BY DEF SyncInv, Subscribe
<1>2. Types /\ SequenceInv
  BY DEF SyncInv
<1>3. NoCursor \in Cursor
  BY DEF NoCursor, Cursor
<1>4. Synchronize(NoCursor).mode # "changes"
  <2>1. ~CanCatchUp(NoCursor)
    BY <1>2 DEF CanCatchUp, NoCursor, Types
  <2> QED
    BY <2>1 DEF Synchronize, Answer
<1> QED
  BY <1>4, Subscribed DEF Subscribe

LEMMA ResumeInv == ASSUME SyncInv, Resume, UNCHANGED <<catalogVars, sequence>> PROVE SyncInv'
BY Subscribed DEF Resume

LEMMA RefreshInv == ASSUME SyncInv, Refresh, UNCHANGED <<catalogVars, sequence>> PROVE SyncInv'
<1>1. PICK past, changes : History(past, changes) /\ ClientInv(past, changes)
  BY DEF SyncInv, Refresh, SequenceInv
<1>2. Types /\ SequenceInv
  BY DEF SyncInv
<1>3. cursor.gen = generation /\ cursor.seq <= headSeq
  <2>1. CASE wire = <<>>
    <3>1. Before(wire, cursor, 1) = [gen |-> generation, seq |-> headSeq]
      BY <1>1, <2>1 DEF ClientInv, Refresh
    <3> QED
      BY <1>2, <3>1 DEF Before, Types
  <2>2. CASE wire # <<>>
    <3>1. 1 \in DOMAIN wire /\ wire[1] \in Message
      BY <1>2, <2>2, ElementOfSeq DEF Types, Message
    <3>2. wire[1].kind = "update"
      BY <3>1, MessageFields DEF Refresh
    <3>3. wire[1].gen = generation /\ Turn(wire[1], Before(wire, cursor, 1), past, changes, resumed)
      BY <1>1, <3>1 DEF ClientInv, InTurn
    <3> QED
      BY <1>2, <3>2, <3>3 DEF Turn, Before, SequenceInv
  <2> QED
    BY <2>1, <2>2
<1>4. Types' /\ SequenceInv'
  BY <1>2, <1>3 DEF Types, SequenceInv, Refresh, catalogVars, sequence
<1>5. ClientInv(past, changes)'
  BY <1>1 DEF ClientInv, Refresh, sequence
<1> QED
  BY <1>1, <1>4, <1>5, HistoryFrame DEF SyncInv

LEMMA AnswerRefreshInv ==
  ASSUME SyncInv, AnswerRefresh, UNCHANGED <<catalogVars, sequence>> PROVE SyncInv'
<1>1. PICK past, changes : History(past, changes) /\ ClientInv(past, changes)
  BY DEF SyncInv, AnswerRefresh
<1>2. Types /\ SequenceInv
  BY DEF SyncInv
<1>3. asked \in Cursor /\ subscribed /\ headSeq \in Nat
  BY <1>2 DEF Types, SequenceInv, AnswerRefresh
<1> DEFINE m == Synchronize(asked)
<1>4. /\ m \in List /\ m.gen = generation /\ m.seq = headSeq
      /\ m.mode = "snapshot" => m.labels = past[headSeq]
      /\ m.mode = "changes" =>
           /\ asked.gen = generation /\ asked.seq \in 0..headSeq
           /\ CatchesUp([upserts |-> m.labels, removals |-> m.removals], past, asked.seq, headSeq)
  BY <1>1, <1>2, <1>3, SynchronizeAnswers
<1>5. wire' = Append(wire, m)
  BY DEF AnswerRefresh
<1> HIDE DEF m
<1>6. wire \in Seq(Message) /\ m \in Message
  BY <1>2, <1>4 DEF Types, Message
<1>7. Types'
  <2>1. Append(wire, m) \in Seq(Update \cup List)
    BY <1>6 DEF Message
  <2> QED
    BY <1>2, <1>5, <2>1 DEF Types, AnswerRefresh, catalogVars, sequence
<1>8. SequenceInv'
  BY <1>2, <1>3 DEF SequenceInv, AnswerRefresh, catalogVars, sequence
<1>9. ClientInv(past, changes)'
  <2> DEFINE before == Before(wire, cursor, Len(wire) + 1)
  <2>1. before = [gen |-> generation, seq |-> headSeq]
    BY <1>1, <1>3 DEF ClientInv
  <2> HIDE DEF before
  <2>2. DOMAIN past = 0..headSeq
    BY <1>1 DEF History
  <2>3. m.mode = "changes" =>
          CatchesUp([upserts |-> m.labels, removals |-> m.removals], past, headSeq, headSeq)
    BY <1>4 DEF CatchesUp
  <2>4. m.kind = "list"
    BY <1>4 DEF List
  <2>5. Turn(m, before, past, changes, resumed)
    BY <1>3, <1>4, <2>1, <2>2, <2>3, <2>4 DEF Turn
  <2>6. InTurn(wire, cursor, generation, past, changes, resumed)
    BY <1>1 DEF ClientInv
  <2>7. /\ InTurn(Append(wire, m), cursor, generation, past, changes, resumed)
        /\ Before(Append(wire, m), cursor, Len(Append(wire, m)) + 1) = [gen |-> m.gen, seq |-> m.seq]
    BY <1>4, <1>6, <2>5, <2>6, TurnsAppend DEF before
  <2>8. wire # <<>> => wire' # <<>> /\ wire'[1] = wire[1]
    BY <1>5, <1>6
  <2>9. UNCHANGED <<subscribed, replica, cursor, resumed, generation, headSeq>>
    BY DEF AnswerRefresh, sequence
  <2> QED
    BY <1>1, <1>4, <1>5, <2>7, <2>8, <2>9 DEF ClientInv
<1> QED
  BY <1>1, <1>7, <1>8, <1>9, HistoryFrame DEF SyncInv

\* Applying the first message.
LEMMA ReceiveInv == ASSUME SyncInv, Receive, UNCHANGED <<catalogVars, sequence>> PROVE SyncInv'
<1>1. Types /\ SequenceInv
  BY DEF SyncInv
<1> DEFINE m == wire[1]
           at == [gen |-> m.gen, seq |-> m.seq]
<1>2. /\ wire \in Seq(Message) /\ wire # <<>> /\ Head(wire) = m /\ 1 \in DOMAIN wire /\ m \in Message
      /\ wire' = Tail(wire)
  <2>1. wire \in Seq(Message) /\ wire # <<>>
    BY <1>1 DEF Types, Message, Receive
  <2>2. 1 \in DOMAIN wire
    BY <2>1
  <2> QED
    BY <2>1, <2>2, ElementOfSeq DEF Receive
<1>3. subscribed /\ up
  BY <1>1, <1>2 DEF SequenceInv
<1>4. PICK past, changes : History(past, changes) /\ ClientInv(past, changes)
  BY <1>3 DEF SyncInv
<1> HIDE DEF m
<1>5. /\ m.gen \in Nat /\ m.seq \in Nat /\ m.kind \in {"update", "list"}
      /\ m.kind = "update" => m.change \in Change
      /\ m.kind = "list" => /\ m.mode \in {"snapshot", "changes"}
                            /\ m.labels \in Replica /\ m.removals \subseteq Names
  BY <1>2, MessageFields
<1>6. /\ m.gen = generation
      /\ m.seq \in DOMAIN past
      /\ m.kind = "update" =>
           cursor = [gen |-> m.gen, seq |-> m.seq - 1] /\ m.seq > 0 /\ m.change = changes[m.seq]
      /\ m.kind = "list" /\ m.mode = "snapshot" => m.labels = past[m.seq]
      /\ m.kind = "list" /\ m.mode = "changes" =>
           /\ cursor.gen = m.gen /\ cursor.seq \in 0..m.seq
           /\ CatchesUp([upserts |-> m.labels, removals |-> m.removals], past, cursor.seq, m.seq)
           /\ ~resumed => cursor.seq = m.seq
  <2>1. wire[1].gen = generation /\ Turn(wire[1], Before(wire, cursor, 1), past, changes, resumed)
    BY <1>2, <1>4 DEF ClientInv, InTurn
  <2>2. Before(wire, cursor, 1) = cursor
    BY DEF Before
  <2> QED
    BY <2>1, <2>2 DEF Turn, m
<1>7. /\ DOMAIN past = 0..headSeq /\ headSeq \in Nat
      /\ \A k \in 0..headSeq : past[k] \in Replica
      /\ \A k \in 1..headSeq : Step(past[k - 1], past[k], changes[k])
  BY <1>1, <1>4 DEF History, Types
<1>8. cursor.gen = m.gen => Holds(replica, past[cursor.seq])
  BY <1>4, <1>6 DEF ClientInv
<1>9. (m.kind = "list" /\ m.mode = "snapshot")
      \/ (~resumed => cursor.gen = generation /\ replica = past[cursor.seq])
  BY <1>3, <1>4 DEF ClientInv, m
<1>10. replica \in Replica /\ cursor \in Cursor
  BY <1>1 DEF Types
<1>11. ASSUME m.kind = "list"
       PROVE  /\ replica' \in Replica /\ cursor' = at /\ asked' = asked
              /\ Holds(replica', past[m.seq]) /\ (~resumed => replica' = past[m.seq])
  <2>1. /\ replica' = [n \in Names |->
             IF m.labels[n] # None THEN m.labels[n]
             ELSE IF m.mode = "snapshot" \/ n \in m.removals THEN None
             ELSE replica[n]]
        /\ cursor' = at /\ asked' = asked
    BY <1>2, <1>11 DEF Receive, ApplyList
  <2>2. replica' \in Replica
    BY <1>5, <1>10, <1>11, <2>1 DEF Replica
  <2>3. past[m.seq] \in Replica
    BY <1>6, <1>7
  <2>4. CASE m.mode = "snapshot"
    <3>1. replica' = past[m.seq]
      BY <1>6, <1>11, <2>1, <2>2, <2>3, <2>4 DEF Replica
    <3> QED
      BY <2>1, <2>2, <3>1 DEF Holds
  <2>5. CASE m.mode = "changes"
    <3> DEFINE k == cursor.seq
               s == m.seq
    <3>1. /\ k \in 0..s /\ (~resumed => k = s)
          /\ \A n \in Names :
               /\ m.labels[n] # None => m.labels[n] = past[s][n]
               /\ n \in m.removals => past[s][n] = None
               /\ past[s][n] # None /\ m.labels[n] = None => past[k][n] = past[s][n]
      BY <1>6, <1>11, <2>5 DEF CatchesUp
    <3>2. Holds(replica, past[k]) /\ (~resumed => replica = past[k])
      BY <1>6, <1>8, <1>9, <1>11, <2>5
    <3>3. \A n \in Names : replica'[n] = IF m.labels[n] # None THEN m.labels[n]
                                         ELSE IF n \in m.removals THEN None ELSE replica[n]
      BY <2>1, <2>5
    <3> HIDE DEF k, s
    <3>4. Holds(replica', past[s])
      BY <3>1, <3>2, <3>3 DEF Holds
    <3>5. ASSUME ~resumed PROVE replica' = past[s]
      <4>1. \A n \in Names : replica'[n] = past[s][n]
        BY <3>1, <3>2, <3>3, <3>5
      <4>2. past[s] \in Replica
        BY <2>3 DEF s
      <4> QED
        BY <2>2, <4>1, <4>2 DEF Replica
    <3> QED
      BY <2>1, <2>2, <3>4, <3>5 DEF s
  <2> QED
    BY <1>5, <1>11, <2>4, <2>5
<1>12. ASSUME m.kind = "update"
       PROVE  /\ replica' \in Replica /\ cursor' = at /\ asked' = asked
              /\ Holds(replica', past[m.seq]) /\ (~resumed => replica' = past[m.seq])
  <2>1. IsNext(m)
    BY <1>5, <1>6, <1>12 DEF IsNext
  <2>2. /\ replica' = IF m.change.kind = "remove" THEN [replica EXCEPT ![m.change.name] = None]
                      ELSE [n \in Names |-> IF n = m.change.name THEN m.change.color
                                            ELSE IF n = m.change.previous THEN None
                                            ELSE replica[n]]
        /\ cursor' = at /\ asked' = asked
    BY <1>2, <1>12, <2>1 DEF Receive, ApplyUpdate
  <2> DEFINE k == m.seq - 1
             s == m.seq
             ch == m.change
  <2>3. /\ k \in 0..headSeq /\ s \in 1..headSeq /\ s - 1 = k /\ cursor.seq = k /\ cursor.gen = m.gen
    BY <1>5, <1>6, <1>7, <1>12
  <2>4. Step(past[k], past[s], ch) /\ past[k] \in Replica /\ past[s] \in Replica /\ ch \in Change
    BY <1>5, <1>6, <1>7, <1>12, <2>3
  <2>5. Holds(replica, past[k]) /\ (~resumed => replica = past[k])
    BY <1>8, <1>9, <1>12, <2>3
  <2> HIDE DEF k, s, ch
  <2>6. /\ replica' \in Replica
        /\ \A n \in Names : replica'[n] = IF ch.kind = "remove"
                                          THEN IF n = ch.name THEN None ELSE replica[n]
                                          ELSE IF n = ch.name THEN ch.color
                                          ELSE IF n = ch.previous THEN None ELSE replica[n]
        /\ \A n \in Names : past[s][n] = IF ch.kind = "remove"
                                         THEN IF n = ch.name THEN None ELSE past[k][n]
                                         ELSE IF n = ch.name THEN ch.color
                                         ELSE IF n = ch.previous THEN None ELSE past[k][n]
    <3>1. CASE ch.kind = "remove"
      <4>1. replica' = [replica EXCEPT ![ch.name] = None] /\ past[s] = [past[k] EXCEPT ![ch.name] = None]
        BY <2>2, <2>4, <3>1 DEF Step, ch
      <4> QED
        BY <1>10, <2>4, <3>1, <4>1 DEF Replica
    <3>2. CASE ch.kind # "remove"
      <4>1. /\ replica' = [n \in Names |-> IF n = ch.name THEN ch.color
                             ELSE IF n = ch.previous THEN None ELSE replica[n]]
            /\ past[s] = [n \in Names |-> IF n = ch.name THEN ch.color
                             ELSE IF n = ch.previous THEN None ELSE past[k][n]]
        BY <2>2, <2>4, <3>2 DEF Step, ch
      <4>2. ch.color \in Colors
        BY <2>4, <3>2 DEF Change
      <4> QED
        BY <1>10, <3>2, <4>1, <4>2 DEF Replica
    <3> QED
      BY <3>1, <3>2
  <2>7. Holds(replica', past[s])
    <3>1. ASSUME NEW n \in Names, past[s][n] # None PROVE replica'[n] = past[s][n]
      BY <2>5, <2>6, <3>1 DEF Holds
    <3> QED
      BY <3>1 DEF Holds
  <2>8. ~resumed => replica' = past[s]
    BY <2>4, <2>5, <2>6 DEF Replica
  <2> QED
    BY <2>2, <2>6, <2>7, <2>8 DEF s
<1>13. /\ replica' \in Replica /\ cursor' = at /\ asked' = asked
       /\ Holds(replica', past[m.seq]) /\ (~resumed => replica' = past[m.seq])
  BY <1>5, <1>11, <1>12
<1>14. UNCHANGED <<subscribed, resumed>> /\ UNCHANGED <<catalogVars, sequence>>
  BY DEF Receive
<1>15. Types'
  <2>1. Tail(wire) \in Seq(Update \cup List) /\ at \in Cursor
    BY <1>2, <1>5 DEF Message, Cursor
  <2> QED
    BY <1>1, <1>2, <1>13, <1>14, <2>1 DEF Types, catalogVars, sequence
<1>16. SequenceInv'
  <2>1. m.seq <= headSeq
    BY <1>6, <1>7
  <2> QED
    <3>1. cursor'.gen = generation /\ cursor'.seq = m.seq /\ generation \in Nat
      BY <1>1, <1>6, <1>13 DEF Types
    <3>2. UNCHANGED <<subscribed, up, generation, headSeq, journal, asked>>
      BY <1>13, <1>14 DEF catalogVars, sequence
    <3> HIDE DEF at
    <3> QED
      BY <1>1, <1>3, <2>1, <3>1, <3>2 DEF SequenceInv
<1>17. ClientInv(past, changes)'
  <2>1. /\ InTurn(Tail(wire), at, generation, past, changes, resumed)
        /\ Before(Tail(wire), at, Len(Tail(wire)) + 1) = Before(wire, cursor, Len(wire) + 1)
    BY <1>2, <1>4, TurnsTail DEF ClientInv, m
  <2>2. UNCHANGED <<generation, headSeq>>
    BY <1>14 DEF sequence
  <2>3. InTurn(wire, cursor, generation, past, changes, resumed)'
    BY <1>2, <1>13, <1>14, <2>1, <2>2
  <2>4. (subscribed =>
           Before(wire, cursor, Len(wire) + 1) = [gen |-> generation, seq |-> headSeq])'
    BY <1>2, <1>4, <1>13, <1>14, <2>1, <2>2 DEF ClientInv
  <2>5. cursor'.gen = m.gen /\ cursor'.seq = m.seq
    BY <1>13
  <2> QED
    BY <1>6, <1>13, <1>14, <2>2, <2>3, <2>4, <2>5 DEF ClientInv
<1> QED
  BY <1>4, <1>14, <1>15, <1>16, <1>17, HistoryFrame DEF SyncInv

\* A connection that goes, and with it what is in flight.
LEMMA HangupInv ==
  ASSUME SyncInv, Hangup, UNCHANGED sequence, UNCHANGED durable,
         UNCHANGED <<served, up>> \/ (up' = FALSE /\ served'.labels \in Catalog)
  PROVE  SyncInv'
<1>1. Types /\ SequenceInv
  BY DEF SyncInv
<1>2. UNCHANGED <<generation, headSeq, journal, replica, cursor, resumed>>
      /\ subscribed' = FALSE /\ wire' = <<>> /\ asked' = None
  BY DEF Hangup, sequence
<1>3. Types'
  <2>1. wire' \in Seq(Update \cup List)
    BY <1>2
  <2> QED
    BY <1>1, <1>2, <2>1 DEF Types
<1>4. SequenceInv'
  BY <1>1, <1>2 DEF SequenceInv
<1>5. ASSUME up' PROVE (\E past, changes : History(past, changes) /\ ClientInv(past, changes))'
  <2>1. up /\ UNCHANGED served
    BY <1>5
  <2>2. PICK past, changes : History(past, changes) /\ ClientInv(past, changes)
    BY <2>1 DEF SyncInv
  <2>3. History(past, changes)'
    BY <1>2, <2>1, <2>2 DEF History, CatalogRows
  <2>4. ClientInv(past, changes)'
    BY <1>2, <2>2 DEF ClientInv, InTurn
  <2> QED
    BY <2>3, <2>4
<1> QED
  BY <1>3, <1>4, <1>5 DEF SyncInv

LEMMA DisconnectInv == ASSUME SyncInv, Disconnect, UNCHANGED <<catalogVars, sequence>> PROVE SyncInv'
BY HangupInv DEF Disconnect, catalogVars

LEMMA StopInv == ASSUME SyncInv, Stop PROVE SyncInv'
<1>1. Nothing.labels \in Catalog
  <2>1. [n \in {} |-> None] \in [{} -> Colors]
    OBVIOUS
  <2> QED
    BY <2>1, FunctionCatalog DEF Nothing
<1> QED
  BY <1>1, HangupInv DEF Stop, Crash

LEMMA DoubtInv == ASSUME SyncInv, Doubt PROVE SyncInv'
<1>1. UNCHANGED <<served, up>> /\ UNCHANGED <<sequence, client>>
  BY DEF Doubt, Block, Notice, EditInDoubt
<1>2. Types /\ SequenceInv
  BY DEF SyncInv
<1>3. durable'.labels \in Catalog
  <2>1. CASE Block \/ Notice
    BY <1>2, <2>1 DEF Types, Block, Notice
  <2>2. ASSUME NEW p \in Plans(served), EditInDoubt(p) PROVE durable'.labels \in Catalog
    BY <1>2, <2>2, PlanPublishes DEF Types, EditInDoubt, Applied, Publishes
  <2> QED
    BY <2>1, <2>2 DEF Doubt
<1>4. Types' /\ SequenceInv'
  BY <1>1, <1>2, <1>3 DEF Types, SequenceInv, sequence, client
<1>5. ASSUME NEW past, NEW changes, History(past, changes), ClientInv(past, changes)
      PROVE  History(past, changes)' /\ ClientInv(past, changes)'
  BY <1>1, <1>5 DEF History, CatalogRows, ClientInv, sequence, client
<1> QED
  BY <1>1, <1>4, <1>5 DEF SyncInv

LEMMA StartAgainInv == ASSUME SyncInv, StartAgain PROVE SyncInv'
<1>1. Types /\ SequenceInv
  BY DEF SyncInv
<1>2. /\ ~up /\ up' = TRUE /\ served' = durable /\ durable' = durable
      /\ generation' = generation + 1 /\ headSeq' = 0 /\ journal' = <<>>
      /\ UNCHANGED <<subscribed, wire, asked, replica, cursor, resumed>>
  BY DEF StartAgain, Restart, client
<1>3. ~subscribed /\ wire = <<>> /\ asked = None
  BY <1>1, <1>2 DEF SequenceInv
<1>4. generation \in Nat \ {0} /\ cursor.gen <= generation /\ cursor \in Cursor
  BY <1>1 DEF Types, SequenceInv
<1>5. Types'
  <2>1. journal' \in Seq([seq : Nat, change : Change])
    BY <1>2
  <2>2. generation' \in Nat \ {0} /\ headSeq' \in Nat
    BY <1>2, <1>4
  <2> QED
    BY <1>1, <1>2, <2>1, <2>2 DEF Types
<1>6. cursor'.gen # generation' /\ cursor'.gen <= generation'
  BY <1>2, <1>4 DEF Cursor
<1>7. SequenceInv'
  BY <1>2, <1>3, <1>6 DEF SequenceInv
<1>8. PICK rows : rows = CatalogRows' /\ rows \in Replica
  BY <1>5, RowsTyped DEF Types, CatalogRows, RowsOf
<1> DEFINE past == [k \in 0..0 |-> rows]
           changes == [k \in 1..0 |-> 0]
<1>9. History(past, changes)'
  <2>1. past[0] = CatalogRows' /\ past \in [0..0 -> Replica] /\ changes \in [1..0 -> Change]
    BY <1>8
  <2> HIDE DEF past, changes
  <2>2. DOMAIN journal' = {} /\ 1..0 = {}
    BY <1>2
  <2> QED
    BY <1>2, <2>1, <2>2 DEF History
<1>10. ClientInv(past, changes)'
  BY <1>2, <1>3, <1>6 DEF ClientInv, InTurn
<1> QED
  BY <1>5, <1>7, <1>9, <1>10 DEF SyncInv

\* An acknowledged edit that changes no label is not published.
LEMMA QuietEditInv ==
  ASSUME SyncInv, NEW p \in Plans(served), EditAndPublish(p), p.change = None
  PROVE  SyncInv'
<1>1. Types /\ SequenceInv
  BY DEF SyncInv
<1>2. /\ durable' = Applied(served, p) /\ served' = durable' /\ UNCHANGED up
      /\ UNCHANGED <<generation, headSeq, journal, subscribed, wire, asked, replica, cursor, resumed>>
  BY DEF EditAndPublish, Edit
<1>3. /\ served'.labels = p.labels /\ durable'.labels = p.labels /\ p.labels \in Catalog
      /\ RowsOf(p.labels) = RowsOf(served.labels)
  BY <1>1, <1>2, PlanPublishes DEF Types, Applied, Publishes
<1>4. CatalogRows' = CatalogRows
  BY <1>3 DEF CatalogRows, RowsOf
<1>5. Types' /\ SequenceInv'
  BY <1>1, <1>2, <1>3 DEF Types, SequenceInv
<1>6. ASSUME NEW past, NEW changes, History(past, changes), ClientInv(past, changes)
      PROVE  History(past, changes)' /\ ClientInv(past, changes)'
  BY <1>2, <1>4, <1>6 DEF History, ClientInv
<1> QED
  BY <1>2, <1>5, <1>6 DEF SyncInv

\* The journal after one more change: the numbers up to the next, and no change but
\* those it had and the new one.
OneMore(j, change) ==
  /\ j \in Seq([seq : Nat, change : Change])
  /\ Len(j) <= headSeq + 1
  /\ \A i \in DOMAIN j :
       /\ j[i].seq = (headSeq + 1) - Len(j) + i
       /\ \/ \E q \in DOMAIN journal : j[i] = journal[q]
          \/ j[i] = [seq |-> headSeq + 1, change |-> change]

LEMMA JournalGrows ==
  ASSUME Types, SequenceInv, NEW change \in Change
  PROVE  OneMore(Journaled(change), change)
<1> DEFINE j == Journaled(change)
           entry == [seq |-> headSeq + 1, change |-> change]
           grown == Append(journal, entry)
           Entry == [seq : Nat, change : Change]
           L == Len(journal)
<1>1. /\ journal \in Seq(Entry) /\ headSeq \in Nat /\ L \in Nat /\ L <= headSeq
      /\ \A i \in 1..L : journal[i].seq = headSeq - L + i
  BY DEF Types, SequenceInv
<1>2. entry \in Entry /\ entry.seq = headSeq + 1
  BY <1>1
<1>3. j = IF Len(grown) > JournalLimit THEN Tail(grown) ELSE grown
  BY DEF Journaled, j
<1> HIDE DEF entry, Entry, j
<1>4. /\ grown \in Seq(Entry) /\ Len(grown) = L + 1 /\ DOMAIN grown = 1..(L + 1)
      /\ \A i \in 1..L : grown[i] = journal[i]
      /\ grown[L + 1] = entry
  BY <1>1, <1>2
<1> HIDE DEF grown
<1>5. \A i \in 1..(L + 1) : /\ grown[i].seq = headSeq - L + i
                            /\ grown[i] = entry \/ \E q \in DOMAIN journal : grown[i] = journal[q]
  <2> TAKE i \in 1..(L + 1)
  <2>1. CASE i = L + 1
    BY <1>1, <1>2, <1>4, <2>1
  <2>2. CASE i # L + 1
    <3>1. i \in 1..L /\ DOMAIN journal = 1..L
      BY <1>1, <2>2
    <3> QED
      BY <1>1, <1>4, <3>1
  <2> QED
    BY <2>1, <2>2
<1> HIDE DEF L
<1>6. CASE Len(grown) > JournalLimit
  <2>1. /\ j = Tail(grown) /\ j \in Seq(Entry)
        /\ Len(j) = L /\ DOMAIN j = 1..L
        /\ \A i \in 1..L : j[i] = grown[i + 1]
    BY <1>1, <1>3, <1>4, <1>6
  <2>2. ASSUME NEW i \in 1..L
        PROVE  /\ j[i].seq = (headSeq + 1) - L + i
               /\ j[i] = entry \/ \E q \in DOMAIN journal : j[i] = journal[q]
    <3>1. i + 1 \in 1..(L + 1) /\ (headSeq + 1) - L + i = headSeq - L + (i + 1)
      BY <1>1
    <3> QED
      BY <1>5, <2>1, <3>1
  <2> QED
    <3>1. \A i \in DOMAIN j :
            /\ j[i].seq = (headSeq + 1) - Len(j) + i
            /\ j[i] = entry \/ \E q \in DOMAIN journal : j[i] = journal[q]
      BY <1>1, <2>1, <2>2
    <3>2. Len(j) <= headSeq + 1
      BY <1>1, <2>1
    <3> QED
      BY <2>1, <3>1, <3>2 DEF OneMore, entry, Entry, j
<1>7. CASE ~(Len(grown) > JournalLimit)
  <2>1. j = grown
    BY <1>3, <1>7
  <2>2. \A i \in 1..(L + 1) : (headSeq + 1) - (L + 1) + i = headSeq - L + i
    BY <1>1
  <2>3. /\ j \in Seq(Entry) /\ Len(j) = L + 1 /\ DOMAIN j = 1..(L + 1)
        /\ \A i \in 1..(L + 1) :
             /\ j[i].seq = (headSeq + 1) - (L + 1) + i
             /\ j[i] = entry \/ \E q \in DOMAIN journal : j[i] = journal[q]
    BY <1>4, <1>5, <2>1, <2>2
  <2> QED
    BY <1>1, <2>3 DEF OneMore, entry, Entry, j
<1> QED
  BY <1>6, <1>7

\* An acknowledged edit and its publication.
LEMMA PublishInv ==
  ASSUME SyncInv, NEW p \in Plans(served), EditAndPublish(p), p.change # None
  PROVE  SyncInv'
<1>1. Types /\ SequenceInv
  BY DEF SyncInv
<1>2. /\ up /\ durable' = Applied(served, p) /\ served' = durable' /\ UNCHANGED up
      /\ Publish(p.change) /\ headSeq' = headSeq + 1
      /\ UNCHANGED <<generation, subscribed, asked, replica, cursor, resumed>>
  BY DEF EditAndPublish, Edit, Publish
<1> DEFINE change == p.change
           rows == RowsOf(p.labels)
           h == headSeq + 1
<1>3. /\ served'.labels = p.labels /\ durable'.labels = p.labels /\ p.labels \in Catalog
      /\ change \in Change /\ Step(RowsOf(served.labels), rows, change)
  BY <1>1, <1>2, PlanPublishes DEF Types, Applied, Publishes
<1>4. rows \in Replica /\ CatalogRows' = rows /\ RowsOf(served.labels) = CatalogRows
  BY <1>3, RowsTyped DEF CatalogRows, RowsOf
<1> HIDE DEF rows, change
<1>5. PICK past0, changes0 : History(past0, changes0) /\ ClientInv(past0, changes0)
  BY <1>2 DEF SyncInv
<1>6. headSeq \in Nat /\ generation \in Nat \ {0} /\ wire \in Seq(Message) /\ cursor \in Cursor
  BY <1>1 DEF Types, Message
<1>7. PICK past, changes :
      /\ past \in [0..h -> Replica] /\ changes \in [1..h -> Change]
      /\ \A k \in 0..headSeq : past[k] = past0[k]
      /\ \A k \in 1..headSeq : changes[k] = changes0[k]
      /\ past[h] = rows /\ changes[h] = change
      /\ past0[headSeq] = CatalogRows /\ DOMAIN past0 = 0..headSeq
  <2> DEFINE rs == [k \in 0..h |-> IF k = h THEN rows ELSE past0[k]]
             cs == [k \in 1..h |-> IF k = h THEN change ELSE changes0[k]]
  <2>1. /\ rs \in [0..h -> Replica] /\ cs \in [1..h -> Change]
        /\ \A k \in 0..headSeq : rs[k] = past0[k]
        /\ \A k \in 1..headSeq : cs[k] = changes0[k]
        /\ rs[h] = rows /\ cs[h] = change
        /\ past0[headSeq] = CatalogRows /\ DOMAIN past0 = 0..headSeq
    BY <1>3, <1>4, <1>5, <1>6 DEF History
  <2> HIDE DEF rs, cs
  <2> QED
    BY <2>1
<1>8. \A k \in 1..h : Step(past[k - 1], past[k], changes[k])
  <2> TAKE k \in 1..h
  <2>1. CASE k = h
    <3>1. k - 1 = headSeq /\ headSeq \in 0..headSeq
      BY <1>6, <2>1
    <3> QED
      BY <1>3, <1>4, <1>7, <2>1, <3>1
  <2>2. CASE k # h
    <3>1. k \in 1..headSeq /\ k \in 0..headSeq /\ k - 1 \in 0..headSeq
      BY <1>6, <2>2
    <3>2. Step(past0[k - 1], past0[k], changes0[k])
      BY <1>5, <3>1 DEF History
    <3> QED
      BY <1>7, <3>1, <3>2
  <2> QED
    BY <2>1, <2>2
<1>9. /\ journal' \in Seq([seq : Nat, change : Change])
      /\ Len(journal') <= h
      /\ \A i \in DOMAIN journal' :
           /\ journal'[i].seq = h - Len(journal') + i
           /\ \/ \E j \in DOMAIN journal : journal'[i] = journal[j]
              \/ journal'[i] = [seq |-> h, change |-> change]
  <2>1. journal' = Journaled(change)
    BY <1>2 DEF Publish, change
  <2>2. OneMore(Journaled(change), change)
    BY <1>1, <1>3, JournalGrows
  <2> QED
    BY <2>1, <2>2 DEF OneMore
<1>10. \A i \in DOMAIN journal' : journal'[i].change = changes[journal'[i].seq]
  <2> TAKE i \in DOMAIN journal'
  <2>1. CASE journal'[i] = [seq |-> h, change |-> change]
    BY <1>7, <2>1
  <2>2. ASSUME NEW j \in DOMAIN journal, journal'[i] = journal[j]
        PROVE  journal'[i].change = changes[journal'[i].seq]
    <3>1. journal[j].seq = headSeq - Len(journal) + j /\ Len(journal) \in Nat
          /\ Len(journal) <= headSeq /\ j \in 1..Len(journal)
      BY <1>1 DEF Types, SequenceInv
    <3>2. journal[j].seq \in 1..headSeq
      BY <1>6, <3>1
    <3>3. journal[j].change = changes0[journal[j].seq]
      BY <1>5 DEF History
    <3> QED
      BY <1>7, <2>2, <3>2, <3>3
  <2> QED
    BY <1>9, <2>1, <2>2
<1>11. History(past, changes)'
  <2>1. headSeq' = h
    BY <1>2
  <2> HIDE DEF h
  <2>2. (past \in [0..headSeq -> Replica] /\ changes \in [1..headSeq -> Change]
         /\ past[headSeq] = CatalogRows)'
    BY <1>4, <1>7, <2>1
  <2>3. (\A k \in 1..headSeq : Step(past[k - 1], past[k], changes[k]))'
    BY <1>8, <2>1
  <2>4. (\A i \in DOMAIN journal : journal[i].change = changes[journal[i].seq])'
    BY <1>10
  <2> QED
    BY <2>2, <2>3, <2>4 DEF History
<1> DEFINE m == [kind |-> "update", gen |-> generation, seq |-> h, change |-> change]
<1>12. wire' = IF subscribed THEN Append(wire, m) ELSE wire
  BY <1>2 DEF Publish, change
<1>13. m \in Message /\ m.gen = generation /\ m.seq = h /\ m.kind = "update" /\ m.change = change
  BY <1>3, <1>6 DEF Message, Update
<1> HIDE DEF m
<1>14. Types'
  <2>1. Append(wire, m) \in Seq(Update \cup List)
    BY <1>6, <1>13 DEF Message
  <2>2. headSeq' \in Nat
    BY <1>2, <1>6
  <2>3. wire' \in Seq(Update \cup List)
    BY <1>1, <1>12, <2>1 DEF Types
  <2> QED
    BY <1>1, <1>2, <1>3, <1>9, <2>2, <2>3 DEF Types
<1>15. SequenceInv'
  <2>1. Len(journal') <= headSeq' /\ \A i \in DOMAIN journal' : journal'[i].seq = headSeq' - Len(journal') + i
    BY <1>2, <1>9
  <2>2. cursor.gen <= generation /\ (cursor.gen = generation => cursor.seq <= headSeq + 1)
    BY <1>1, <1>6 DEF SequenceInv, Cursor
  <2>3. asked # None => asked.gen = generation /\ asked.seq <= headSeq + 1
    BY <1>1, <1>6 DEF SequenceInv, Types, Cursor
  <2>4. (subscribed => up) /\ (~subscribed => wire' = <<>> /\ asked = None)
    BY <1>1, <1>12 DEF SequenceInv
  <2> QED
    BY <1>2, <2>1, <2>2, <2>3, <2>4 DEF SequenceInv
<1>16. ClientInv(past, changes)'
  <2>1. InTurn(wire, cursor, generation, past, changes, resumed)
    <3>1. InTurn(wire, cursor, generation, past0, changes0, resumed)
      BY <1>5 DEF ClientInv
    <3>2. 0..headSeq \subseteq DOMAIN past
      BY <1>6, <1>7
    <3> QED
      BY <1>6, <1>7, <3>1, <3>2, TurnsGrow
  <2>2. cursor.gen = generation => past[cursor.seq] = past0[cursor.seq]
    BY <1>1, <1>6, <1>7 DEF SequenceInv, Cursor
  <2>3. cursor.gen = generation => Holds(replica, past[cursor.seq])
    BY <1>5, <2>2 DEF ClientInv
  <2>4. subscribed /\ ~resumed =>
          \/ wire # <<>> /\ wire[1].kind = "list" /\ wire[1].mode = "snapshot"
          \/ cursor.gen = generation /\ replica = past[cursor.seq]
    BY <1>5, <2>2 DEF ClientInv
  <2>5. CASE ~subscribed
    <3>1. UNCHANGED <<generation, subscribed, replica, cursor, resumed, wire>>
      BY <1>2, <1>12, <2>5
    <3> QED
      BY <2>1, <2>3, <2>5, <3>1 DEF ClientInv
  <2>6. CASE subscribed
    <3> DEFINE before == Before(wire, cursor, Len(wire) + 1)
    <3>1. before = [gen |-> generation, seq |-> headSeq]
      BY <1>5, <2>6 DEF ClientInv
    <3> HIDE DEF before
    <3>2. h > 0 /\ h - 1 = headSeq /\ h \in DOMAIN past
      BY <1>6, <1>7
    <3>3. Turn(m, before, past, changes, resumed)
      BY <1>7, <1>13, <3>1, <3>2 DEF Turn
    <3>4. /\ InTurn(Append(wire, m), cursor, generation, past, changes, resumed)
          /\ Before(Append(wire, m), cursor, Len(Append(wire, m)) + 1) = [gen |-> m.gen, seq |-> m.seq]
      BY <1>6, <1>13, <2>1, <3>3, TurnsAppend DEF before
    <3>5. wire' = Append(wire, m) /\ (wire # <<>> => wire' # <<>> /\ wire'[1] = wire[1])
      BY <1>6, <1>12, <2>6
    <3>6. UNCHANGED <<generation, subscribed, replica, cursor, resumed>> /\ headSeq' = h
      BY <1>2
    <3> HIDE DEF h
    <3>7. (cursor.gen = generation => Holds(replica, past[cursor.seq]))'
      BY <2>3, <3>6
    <3>8. InTurn(wire, cursor, generation, past, changes, resumed)'
      BY <3>4, <3>5, <3>6
    <3>9. (Before(wire, cursor, Len(wire) + 1) = [gen |-> generation, seq |-> headSeq])'
      BY <1>13, <3>4, <3>5, <3>6
    <3>10. (~resumed =>
              \/ wire # <<>> /\ wire[1].kind = "list" /\ wire[1].mode = "snapshot"
              \/ cursor.gen = generation /\ replica = past[cursor.seq])'
      BY <2>4, <2>6, <3>5, <3>6
    <3> QED
      BY <3>7, <3>8, <3>9, <3>10 DEF ClientInv
  <2> QED
    BY <2>5, <2>6
<1> QED
  BY <1>11, <1>14, <1>15, <1>16 DEF SyncInv

LEMMA StepInv == SyncInv /\ [Next]_vars => SyncInv'
<1> SUFFICES ASSUME SyncInv, [Next]_vars PROVE SyncInv'
  OBVIOUS
<1>1. ASSUME NEW p \in Plans(served), EditAndPublish(p) PROVE SyncInv'
  BY <1>1, QuietEditInv, PublishInv
<1>2. CASE Doubt
  BY <1>2, DoubtInv
<1>3. CASE Stop
  BY <1>3, StopInv
<1>4. CASE StartAgain
  BY <1>4, StartAgainInv
<1>5. CASE Client
  BY <1>5, SubscribeInv, ResumeInv, RefreshInv, AnswerRefreshInv, ReceiveInv, DisconnectInv
     DEF Client
<1>6. CASE UNCHANGED vars
  <2>1. UNCHANGED <<catalogVars, sequence, client>>
    BY <1>6 DEF vars
  <2>2. Types' /\ SequenceInv'
    BY <2>1 DEF SyncInv, Types, SequenceInv, catalogVars, sequence, client
  <2>3. ASSUME NEW past, NEW changes, History(past, changes), ClientInv(past, changes)
        PROVE  History(past, changes)' /\ ClientInv(past, changes)'
    BY <2>1, <2>3, HistoryFrame DEF ClientInv, sequence, client
  <2> QED
    BY <2>1, <2>2, <2>3 DEF SyncInv, catalogVars
<1> QED
  BY <1>1, <1>2, <1>3, <1>4, <1>5, <1>6 DEF Next

LEMMA Invariance == Spec => []SyncInv
BY InitInv, StepInv, PTL DEF Spec

-----------------------------------------------------------------------------
(* The theorems.                                                           *)

\* A client with nothing in flight stands at the head of this process.
LEMMA Settled ==
  ASSUME SyncInv, AtRest
  PROVE  Holds(replica, CatalogRows) /\ (~resumed => replica = CatalogRows)
<1>1. up
  BY DEF SyncInv, SequenceInv, AtRest
<1>2. PICK past, changes : History(past, changes) /\ ClientInv(past, changes)
  BY <1>1 DEF SyncInv
<1>3. Before(wire, cursor, 1) = [gen |-> generation, seq |-> headSeq]
  BY <1>2 DEF AtRest, ClientInv
<1>4. cursor = [gen |-> generation, seq |-> headSeq]
  BY <1>3 DEF Before
<1>5. past[cursor.seq] = CatalogRows
  BY <1>2, <1>4 DEF History
<1> QED
  BY <1>2, <1>4, <1>5 DEF ClientInv, AtRest

\* A subscribed client with nothing on its way shows every label of the catalog in
\* its colour (applyList and applyUpdate of the client, synchronize and publish of
\* the sequence), whatever was lost, refreshed, resumed or restarted before.
THEOREM ReplicaHolds == Spec => []ReplicaHoldsCatalog
<1>1. SyncInv => ReplicaHoldsCatalog
  <2> SUFFICES ASSUME SyncInv, AtRest, NEW n \in DOMAIN served.labels
               PROVE  replica[n] = served.labels[n]
    BY DEF ReplicaHoldsCatalog
  <2>1. Holds(replica, CatalogRows)
    BY Settled
  <2>2. n \in Names /\ served.labels[n] \in Colors
    BY CatalogFunction DEF SyncInv, Types
  <2>3. CatalogRows[n] = served.labels[n] /\ CatalogRows[n] # None
    BY <2>2, NoneAssumption DEF CatalogRows
  <2> QED
    BY <2>1, <2>2, <2>3 DEF Holds
<1> QED
  BY <1>1, Invariance, PTL

\* A client that subscribed from a snapshot and has nothing on its way shows the
\* catalog and nothing else.
THEOREM LiveReplicaIsExact == Spec => []LiveReplicaExact
<1>1. SyncInv => LiveReplicaExact
  BY Settled DEF LiveReplicaExact
<1> QED
  BY <1>1, Invariance, PTL

\* The head of what is on its way to a client is a list or the very next change:
\* applyUpdate never refuses a published change.
THEOREM NoPublishedUpdateRefused == Spec => []NoUpdateRefused
<1>1. SyncInv => NoUpdateRefused
  <2> SUFFICES ASSUME SyncInv, wire # <<>>
               PROVE  Head(wire).kind = "list" \/ IsNext(Head(wire))
    BY DEF NoUpdateRefused
  <2>1. up /\ wire \in Seq(Message) /\ cursor \in Cursor
    BY DEF SyncInv, SequenceInv, Types, Message
  <2>2. PICK past, changes : History(past, changes) /\ ClientInv(past, changes)
    BY <2>1 DEF SyncInv
  <2>3. 1 \in DOMAIN wire /\ Head(wire) = wire[1] /\ wire[1] \in Message
    BY <2>1, ElementOfSeq
  <2>4. Turn(wire[1], Before(wire, cursor, 1), past, changes, resumed)
    BY <2>2, <2>3 DEF ClientInv, InTurn
  <2> HIDE DEF Message
  <2>5. wire[1].kind \in {"update", "list"} /\ wire[1].seq \in Nat
    BY <2>3, MessageFields
  <2>6. wire[1].kind = "update" => IsNext(wire[1])
    BY <2>4, <2>5 DEF Turn, Before, IsNext
  <2> QED
    BY <2>3, <2>5, <2>6
<1> QED
  BY <1>1, Invariance, PTL
================================================================================
