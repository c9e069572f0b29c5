------------------------------ MODULE LabelEdits ------------------------------
(***************************************************************************)
(* What each label edit makes of the catalog and of the labels of the      *)
(* workspaces, as the planners of the label service compute it.            *)
(*                                                                         *)
(* A label is its case-insensitive key; the order of labels and time       *)
(* stamps are left out.  A request that names an unknown workspace or      *)
(* label, or renames onto a name that is taken, has no plan.               *)
(***************************************************************************)
CONSTANTS
  Names,      \* label keys
  Colors,
  Workspaces, \* workspace ids
  None        \* no colour, no change, no plan, no file

Catalog == UNION {[S -> Colors] : S \in SUBSET Names}
Assignments == UNION {[W -> SUBSET Names] : W \in SUBSET Workspaces}
Image == [labels : Catalog, workspaces : Assignments]

\* What the service publishes of an edit.
Change == [kind : {"upsert"}, name : Names, color : Colors, previous : Names \cup {None}]
            \cup [kind : {"remove"}, name : Names]
Plan == [labels : Catalog, updates : Assignments, change : Change \cup {None}]

ASSUME NoneAssumption == None \notin Names \cup Colors \cup Change \cup Plan

NoAssignments == [w \in {} |-> {}]

\* The records with some of them replaced: a workspace that is gone stays gone.
Overlay(records, updates) ==
  [w \in DOMAIN records |-> IF w \in DOMAIN updates THEN updates[w] ELSE records[w]]

\* updateAssignmentLabels.
Assign(image, w, n) ==
  IF n \in image.workspaces[w] THEN NoAssignments
  ELSE [v \in {w} |-> image.workspaces[v] \cup {n}]

Unassign(image, w, n) ==
  IF n \in image.workspaces[w] THEN [v \in {w} |-> image.workspaces[v] \ {n}]
  ELSE NoAssignments

\* Mutant: a rename or a removal leaves the workspaces alone.
RewriteNothing(image, n, replacement) == NoAssignments

\* rewriteAssignments.
Rewrite(image, n, replacement) ==
  [w \in {v \in DOMAIN image.workspaces : n \in image.workspaces[v]} |->
     (image.workspaces[w] \ {n}) \cup replacement]

\* setAssignment creates a missing label when it assigns it.
AssignPlan(image, w, n, c) ==
  IF n \in DOMAIN image.labels
  THEN [labels |-> image.labels, updates |-> Assign(image, w, n), change |-> None]
  ELSE [labels |-> [k \in DOMAIN image.labels \cup {n} |->
                      IF k = n THEN c ELSE image.labels[k]],
        updates |-> Assign(image, w, n),
        change |-> [kind |-> "upsert", name |-> n, color |-> c, previous |-> None]]

UnassignPlan(image, w, n) ==
  [labels |-> image.labels, updates |-> Unassign(image, w, n), change |-> None]

\* Whether update may turn n into m.
CanRename(image, n, m) == n \in DOMAIN image.labels /\ (m = n \/ m \notin DOMAIN image.labels)

UpdatePlan(image, n, m, c) ==
  [labels |-> [k \in (DOMAIN image.labels \ {n}) \cup {m} |->
                 IF k = m THEN c ELSE image.labels[k]],
   updates |-> IF m = n THEN NoAssignments ELSE Rewrite(image, n, {m}),
   change |-> IF m = n /\ c = image.labels[n] THEN None
              ELSE [kind |-> "upsert", name |-> m, color |-> c,
                    previous |-> IF m = n THEN None ELSE n]]

DeletePlan(image, n) ==
  IF n \notin DOMAIN image.labels
  THEN [labels |-> image.labels, updates |-> NoAssignments, change |-> None]
  ELSE [labels |-> [k \in DOMAIN image.labels \ {n} |-> image.labels[k]],
        updates |-> Rewrite(image, n, {}),
        change |-> [kind |-> "remove", name |-> n]]

\* The plans of the requests that clients may make of an image.
Plans(image) ==
  LET present == DOMAIN image.workspaces
  IN {AssignPlan(image, w, n, c) : w \in present, n \in Names, c \in Colors}
       \cup {UnassignPlan(image, w, n) : w \in present, n \in Names}
       \cup {UpdatePlan(image, r[1], r[2], r[3]) :
               r \in {q \in Names \X Names \X Colors : CanRename(image, q[1], q[2])}}
       \cup {DeletePlan(image, n) : n \in Names}

\* What a plan makes of an image.
Applied(image, plan) ==
  [labels |-> plan.labels, workspaces |-> Overlay(image.workspaces, plan.updates)]

\* The image without a workspace.
Without(image, w) ==
  [image EXCEPT !.workspaces = [v \in DOMAIN @ \ {w} |-> @[v]]]

=============================================================================
