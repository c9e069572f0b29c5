----------------------------- MODULE AtMostOnce -----------------------------
(* What the daemon promises of a request that carries an idempotency key or   *)
(* a message id: each of its side effects is performed at most once, however  *)
(* often the request is repeated, and a verdict, once it is durable, is final *)
(* (docs/architecture.md, "Creation ownership"; docs/hub.md on message ids).  *)
(* Creations and MessageReceipts are shown to implement it.                   *)
EXTENDS Naturals

CONSTANTS Requests,
          Effects,
          Needs     \* the effects of each request: [Requests -> SUBSET Effects]

VARIABLES made,    \* how often each effect of a request was performed
          verdict  \* "open", "done", or "unknown": the durable outcome
abstractVars == <<made, verdict>>

Verdicts == {"open", "done", "unknown"}

AbstractTypeOK ==
    /\ made \in [Requests -> [Effects -> Nat]]
    /\ verdict \in [Requests -> Verdicts]

AbstractInit ==
    /\ made = [r \in Requests |-> [e \in Effects |-> 0]]
    /\ verdict = [r \in Requests |-> "open"]

(* An effect the request needs, not performed before, of an open request. *)
Perform(r, e) ==
    /\ verdict[r] = "open"
    /\ e \in Needs[r]
    /\ made[r][e] = 0
    /\ made' = [made EXCEPT ![r][e] = 1]
    /\ UNCHANGED verdict

(* Success is reported only of a request all of whose effects took place. *)
Conclude(r) ==
    /\ verdict[r] = "open"
    /\ \A e \in Needs[r] : made[r][e] = 1
    /\ verdict' = [verdict EXCEPT ![r] = "done"]
    /\ UNCHANGED made

(* The effects may or may not have taken place: nothing is tried again. *)
Doubt(r) ==
    /\ verdict[r] = "open"
    /\ verdict' = [verdict EXCEPT ![r] = "unknown"]
    /\ UNCHANGED made

AbstractNext ==
    \E r \in Requests :
        \/ \E e \in Effects : Perform(r, e)
        \/ Conclude(r)
        \/ Doubt(r)

AbstractSpec == AbstractInit /\ [][AbstractNext]_abstractVars
=============================================================================
