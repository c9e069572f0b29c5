--------------------------- MODULE CreationClient ---------------------------
(* The client's side of a creation: CreationClient in                         *)
(* packages/client/src/creation/index.ts over a connection that drops and     *)
(* comes back, composed with the daemon's Creations. An operation submits its *)
(* request once; after a reconnection it only observes the journal, and       *)
(* submits again when the daemon has no record of it. Repeating an operation  *)
(* under the same key joins the one that is waiting.                          *)
EXTENDS Creations

CONSTANTS MaxStarts, MaxDrops
ASSUME ClientBoundsAssumption == {MaxStarts, MaxDrops} \subseteq Nat

VARIABLES op,         \* what each operation's promise came to
          intent,     \* the contents the client submits for a key
          recovering, \* the operations observed since a reconnection
          connected,
          starts, drops
client == <<op, intent, recovering, connected, starts, drops>>
vars == <<creationVars, client>>

Outcomes == {"none", "waiting", "completed", "failed", "unknown", "error"}

(* Every variable keeps its type. *)
TypeOK ==
    /\ CreationTypeOK
    /\ op \in [Keys -> Outcomes]
    /\ intent \in [Keys -> Intents \cup {Absent}]
    /\ recovering \subseteq Keys
    /\ connected \in BOOLEAN
    /\ starts \in 0..MaxStarts /\ drops \in 0..MaxDrops

Init ==
    /\ CreationInit
    /\ op = [k \in Keys |-> "none"]
    /\ intent = [k \in Keys |-> Absent]
    /\ recovering = {}
    /\ connected = TRUE
    /\ starts = 0 /\ drops = 0

Waiting(k) == op[k] = "waiting"

(* A new operation under a key, or its retry after it settled. *)
Start(k, i) ==
    /\ connected /\ ~Waiting(k) /\ starts < MaxStarts
    /\ starts' = starts + 1
    /\ op' = [op EXCEPT ![k] = "waiting"]
    /\ intent' = [intent EXCEPT ![k] = i]
    /\ recovering' = recovering \ {k}
    /\ call' = [call EXCEPT ![k] = "queued"]
    /\ reply' = [reply EXCEPT ![k] = "none"]
    /\ UNCHANGED <<service, watch, bounds, connected, drops>>

(* The answer of the call, or the state an observing operation hears of, ends *)
(* the operation and releases its subscription.                               *)
Settle(k) ==
    /\ connected /\ Waiting(k) /\ reply[k] \notin {"none", "missing"}
    /\ op' = [op EXCEPT ![k] = reply[k]]
    /\ recovering' = recovering \ {k}
    /\ call' = [call EXCEPT ![k] = "none"]
    /\ watch' = [watch EXCEPT ![k] = "none"]
    /\ reply' = [reply EXCEPT ![k] = "none"]
    /\ UNCHANGED <<service, bounds, intent, connected, starts, drops>>

(* The daemon never admitted the request: it is submitted again. *)
Resubmit(k) ==
    /\ connected /\ Waiting(k) /\ reply[k] = "missing"
    /\ call' = [call EXCEPT ![k] = IF @ = "none" THEN "queued" ELSE @]
    /\ reply' = [reply EXCEPT ![k] = "none"]
    /\ UNCHANGED <<service, watch, bounds, client>>

Disconnect ==
    /\ connected /\ drops < MaxDrops
    /\ drops' = drops + 1
    /\ connected' = FALSE
    /\ call' = [k \in Keys |-> "none"]
    /\ watch' = [k \in Keys |-> "none"]
    /\ reply' = [k \in Keys |-> "none"]
    /\ UNCHANGED <<service, bounds, op, intent, recovering, starts>>

(* Every unsettled operation observes its key: a first recovery subscribes,   *)
(* later ones are restored by the subscription's owner.                       *)
Reconnect ==
    /\ ~connected
    /\ connected' = TRUE
    /\ recovering' = {k \in Keys : Waiting(k)}
    /\ watch' = [k \in Keys |-> IF Waiting(k) THEN "asked" ELSE "none"]
    /\ UNCHANGED <<service, call, reply, bounds, op, intent, starts, drops>>

(* The contents of the client's queued call reach the daemon. *)
AdmitCall(k) == \E i \in Intents : intent[k] = i /\ AdmitClient(k, i)

DaemonStep ==
    /\ \E k \in Keys :
         \/ RunStep(k) \/ AdmissionStep(k) \/ SubscribeStep(k)
         \/ AdmitCall(k)
         \/ \E i \in Intents : AdmitOther(k, i)
         \/ \E s \in {"workspace", "agent"} : Delete(k, s)
    /\ UNCHANGED client

(* The connection of a client dies with the daemon. *)
DaemonCrash ==
    /\ Crash
    /\ connected' = FALSE
    /\ UNCHANGED <<op, intent, recovering, starts, drops>>

Next ==
    \/ \E k \in Keys, i \in Intents : Start(k, i)
    \/ \E k \in Keys : Settle(k) \/ Resubmit(k)
    \/ Disconnect \/ Reconnect
    \/ DaemonStep \/ DaemonCrash

Spec == Init /\ [][Next]_vars

(* Fairness: the daemon's promises and file operations settle, the admission  *)
(* chain serves its queue, the resource owners return, and the client's       *)
(* transport reconnects (scheduleReconnect) and delivers.                     *)
Fairness ==
    /\ \A k \in Keys :
         /\ WF_vars(RunStep(k) /\ UNCHANGED client)
         /\ WF_vars(AdmissionStep(k) /\ UNCHANGED client)
         /\ WF_vars(SubscribeStep(k) /\ UNCHANGED client)
         /\ WF_vars(AdmitCall(k) /\ UNCHANGED client)
         /\ WF_vars(Settle(k)) /\ WF_vars(Resubmit(k))
    /\ WF_vars(Reconnect)
FairSpec == Spec /\ Fairness
----------------------------------------------------------------------------
(* What an operation is told is durable: completed means that every stage took *)
(* effect, unknown that no later call will try any (receive and finish in      *)
(* client/src/creation/index.ts against the daemon's journal).                 *)
OutcomeIsDurable ==
    \A k \in Keys :
        /\ op[k] = "completed" =>
             journal[k].phase = "completed" /\ \A s \in Stages[k] : made[k][s] = 1
        /\ op[k] = "unknown" => journal[k].unknown /\ ~Running(k)

(* An observed record nobody runs: no call is left to resume it and nothing   *)
(* will be published of it.                                                    *)
Stranded(k) ==
    /\ journal[k] # Absent /\ ~Running(k) /\ ~Terminal(journal[k])
    /\ watch[k] = "live" /\ call[k] = "none"

(* Every operation settles, across drops, crashes and one failed write, unless *)
(* its record is left stranded (reconnect() and subscribe()).                  *)
OperationsSettle == \A k \in Keys : Waiting(k) ~> (~Waiting(k) \/ Stranded(k))

(* Every operation settles: "Reconnect subscribes to that key; retries join    *)
(* active work or reuse committed stages" (docs/architecture.md:353).          *)
CreationsReturn == \A k \in Keys : Waiting(k) ~> ~Waiting(k)
=============================================================================
