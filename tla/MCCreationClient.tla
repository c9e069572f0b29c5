-------------------------- MODULE MCCreationClient --------------------------
EXTENDS CreationClient, TLC
CONSTANTS k1, k2
(* A workspace with an agent and its prompt, and a bare agent under the same id. *)
MCStages == (k1 :> AllStages) @@ (k2 :> {"agent"})
MCIdOf == [k \in Keys |-> [s \in {"workspace", "agent"} |-> IF s = "agent" THEN "a" ELSE k]]
=============================================================================
