----------------------------- MODULE LabelCatalog -----------------------------
(***************************************************************************)
(* What the label store promises: an edit takes effect at once and whole   *)
(* or not at all, what is acknowledged is durable, and a daemon that does  *)
(* not know whether an edit took effect changes nothing more until it has  *)
(* been restarted.  One hole is left: a registry mutation may overtake an  *)
(* edit that took effect before the daemon has noticed that it did.        *)
(***************************************************************************)
EXTENDS LabelEdits

VARIABLES
  durable, \* what a restart loads
  served,  \* what the daemon reads from and plans with
  blocked, \* whether edits and registry mutations are refused
  unnoticed, \* whether the daemon has yet to notice that it does not know
  up       \* whether the daemon serves labels

catalogVars == <<durable, served, blocked, unnoticed, up>>

Nothing == [labels |-> [n \in {} |-> None], workspaces |-> NoAssignments]

CatalogInit ==
  /\ durable = [labels |-> [n \in {} |-> None], workspaces |-> [w \in Workspaces |-> {}]]
  /\ served = durable
  /\ blocked = FALSE
  /\ unnoticed = FALSE
  /\ up = TRUE

\* An edit is acknowledged.
Edit(plan) ==
  /\ up /\ ~blocked
  /\ durable' = Applied(served, plan)
  /\ served' = durable'
  /\ UNCHANGED <<blocked, unnoticed, up>>

\* An edit takes effect and the daemon does not know: it keeps serving what it
\* served.
EditInDoubt(plan) ==
  /\ up /\ ~blocked
  /\ durable' = Applied(served, plan)
  /\ blocked' = TRUE
  /\ unnoticed' = TRUE
  /\ UNCHANGED <<served, up>>

\* The daemon notices that it does not know what became of the edit.
Notice ==
  /\ up /\ unnoticed
  /\ unnoticed' = FALSE
  /\ UNCHANGED <<durable, served, blocked, up>>

\* A registry mutation writes the assignments served, or those without a
\* workspace, over those of the edit; the edit's labels stay.
Overtake(assigned) ==
  /\ up /\ unnoticed
  /\ served' = [labels |-> served.labels, workspaces |-> assigned]
  /\ durable' = [labels |-> durable.labels, workspaces |-> assigned]
  /\ UNCHANGED <<blocked, unnoticed, up>>

\* An edit does not take effect and the daemon does not know.  The marker an
\* earlier edit left may stand for it until the daemon looks.
Block ==
  /\ up /\ ~blocked
  /\ blocked' = TRUE
  /\ unnoticed' \in BOOLEAN
  /\ UNCHANGED <<durable, served, up>>

RemoveWorkspace(w) ==
  /\ up /\ ~blocked
  /\ durable' = Without(served, w)
  /\ served' = durable'
  /\ UNCHANGED <<blocked, unnoticed, up>>

Crash ==
  /\ up
  /\ up' = FALSE /\ blocked' = FALSE /\ unnoticed' = FALSE
  /\ served' = Nothing
  /\ UNCHANGED durable

Restart ==
  /\ ~up
  /\ up' = TRUE
  /\ served' = durable
  /\ UNCHANGED <<durable, blocked, unnoticed>>

\* A record written again, or a workspace removed.
Overtaking == Overtake(served.workspaces) \/ \E w \in Workspaces : Overtake(Without(served, w).workspaces)

\* The steps but for the hole.
AtomicNext ==
  \/ \E plan \in Plans(served) : Edit(plan) \/ EditInDoubt(plan)
  \/ Block \/ Notice
  \/ \E w \in Workspaces : RemoveWorkspace(w)
  \/ Crash \/ Restart

CatalogNext == AtomicNext \/ Overtaking

CatalogSpec == CatalogInit /\ [][CatalogNext]_catalogVars

=============================================================================
