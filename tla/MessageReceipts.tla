--------------------------- MODULE MessageReceipts ---------------------------
(* Message delivery receipts: MessageReceipts in server/message-receipts and   *)
(* the request handler of session.ts that uses it. A message with a client id  *)
(* is sent at most once: a receipt is written before the prompt is handed to   *)
(* the agent and completed after it, and a receipt found pending is refused,   *)
(* not retried. The calls for one message run one after another. A client may  *)
(* call again at any time, with the same contents or others, also after the    *)
(* connection was lost. prepareAgentMessage and the sending itself belong to   *)
(* the agent run owner and are external: sending may throw before or after the *)
(* provider has the prompt. A message from another agent is acknowledged once  *)
(* it is queued; any other once it is sent.                                    *)
EXTENDS Naturals

CONSTANTS Messages,   \* agent id and client message id
          Intents,    \* request contents: their fingerprints
          Queued,     \* the messages that come from another agent
          Absent,
          MaxFaults, MaxCrashes
ASSUME MessageAssumption ==
    /\ Queued \subseteq Messages
    /\ MaxFaults \in Nat /\ MaxCrashes \in Nat
    /\ Absent \notin [intent : Intents, state : {"pending", "completed"}]

VARIABLES receipts,  \* the receipt file of each message
          sender,    \* the call that runs for each message, and its step
          made,      \* how often each message was handed to its agent
          answer,    \* the last answer to a call for the message
          faults, crashes
receiptsVars == <<receipts, sender, made, answer, faults, crashes>>

Receipts == [intent : Intents, state : {"pending", "completed"}]
CallSteps == {"idle", "prepare", "send", "queued", "finish"}
Answers == {"none", "accepted", "queued", "unknown", "conflict", "error"}

(* Every variable keeps its type. *)
ReceiptsTypeOK ==
    /\ receipts \in [Messages -> Receipts \cup {Absent}]
    /\ sender \in [Messages -> [step : CallSteps, intent : Intents \cup {Absent}]]
    /\ made \in [Messages -> [{"send"} -> Nat]]
    /\ answer \in [Messages -> Answers]
    /\ faults \in 0..MaxFaults /\ crashes \in 0..MaxCrashes

Idle == [step |-> "idle", intent |-> Absent]

ReceiptsInit ==
    /\ receipts = [m \in Messages |-> Absent]
    /\ sender = [m \in Messages |-> Idle]
    /\ made = [m \in Messages |-> [e \in {"send"} |-> 0]]
    /\ answer = [m \in Messages |-> "none"]
    /\ faults = 0 /\ crashes = 0

Goes(m, step, i) == sender' = [sender EXCEPT ![m] = [step |-> step, intent |-> i]]
Replies(m, a) == answer' = [answer EXCEPT ![m] = a]
Returns(m, a) == sender' = [sender EXCEPT ![m] = Idle] /\ Replies(m, a)
Throws == faults < MaxFaults /\ faults' = faults + 1

\* Mutant: a pending receipt counts as sent.
KnownRetried(r, i) == IF r.intent # i THEN "conflict" ELSE "accepted"
(* The next call of the message's chain reads the receipt: a conflict, a       *)
(* completed or a pending one answers at once.                                 *)
Known(r, i) ==
    IF r.intent # i THEN "conflict"
    ELSE IF r.state = "completed" THEN "accepted" ELSE "unknown"
\* Mutant: a pending receipt is sent again.
SendOnceAgain(m, i) ==
    /\ sender[m].step = "idle"
    /\ IF receipts[m] = Absent \/ receipts[m].state = "pending"
       THEN Goes(m, "prepare", i) /\ Replies(m, "none")
       ELSE Replies(m, Known(receipts[m], i)) /\ UNCHANGED sender
    /\ UNCHANGED <<receipts, made, faults, crashes>>
SendOnce(m, i) ==
    /\ sender[m].step = "idle"
    /\ IF receipts[m] = Absent
       THEN Goes(m, "prepare", i) /\ Replies(m, "none")
       ELSE Replies(m, Known(receipts[m], i)) /\ UNCHANGED sender
    /\ UNCHANGED <<receipts, made, faults, crashes>>

(* The agent is made ready (unarchived, loaded), then the pending receipt is   *)
(* written; a failure of either leaves no receipt.                             *)
Pending(i) == [intent |-> i, state |-> "pending"]
WritePending(m) ==
    /\ sender[m].step = "prepare"
    /\ receipts' = [receipts EXCEPT ![m] = Pending(sender[m].intent)]
    /\ Goes(m, "send", sender[m].intent)
    /\ UNCHANGED <<made, answer, faults, crashes>>
PrepareFails(m) ==
    /\ sender[m].step = "prepare"
    /\ Throws
    /\ Returns(m, "error")
    /\ UNCHANGED <<receipts, made, crashes>>

(* A message from another agent waits in the delivery queue; its caller is     *)
(* answered.                                                                   *)
Enqueue(m) ==
    /\ sender[m].step = "send" /\ m \in Queued
    /\ Goes(m, "queued", sender[m].intent)
    /\ Replies(m, "queued")
    /\ UNCHANGED <<receipts, made, faults, crashes>>

Ready(m) == sender[m].step = IF m \in Queued THEN "queued" ELSE "send"
Failure(m) == IF m \in Queued THEN "queued" ELSE "error"
SendMessage(m) ==
    /\ Ready(m)
    /\ made' = [made EXCEPT ![m]["send"] = @ + 1]
    /\ \/ Goes(m, "finish", sender[m].intent) /\ UNCHANGED <<answer, faults>>
       \/ Throws /\ Returns(m, Failure(m))
    /\ UNCHANGED <<receipts, crashes>>
SendFails(m) ==
    /\ Ready(m)
    /\ Throws /\ Returns(m, Failure(m))
    /\ UNCHANGED <<receipts, made, crashes>>

Completed(i) == [intent |-> i, state |-> "completed"]
Finish(m) ==
    /\ sender[m].step = "finish"
    /\ \/ /\ receipts' = [receipts EXCEPT ![m] = Completed(sender[m].intent)]
          /\ Returns(m, IF m \in Queued THEN "queued" ELSE "accepted")
          /\ UNCHANGED faults
       \/ Throws /\ Returns(m, Failure(m)) /\ UNCHANGED receipts
    /\ UNCHANGED <<made, crashes>>

(* The daemon dies; the receipts stay. *)
ReceiptsCrash ==
    /\ crashes < MaxCrashes
    /\ crashes' = crashes + 1
    /\ sender' = [m \in Messages |-> Idle]
    /\ UNCHANGED <<receipts, made, answer, faults>>

ReceiptsNext ==
    \/ \E m \in Messages :
         \/ \E i \in Intents : SendOnce(m, i)
         \/ WritePending(m) \/ PrepareFails(m) \/ Enqueue(m)
         \/ SendMessage(m) \/ SendFails(m) \/ Finish(m)
    \/ ReceiptsCrash

ReceiptsSpec == ReceiptsInit /\ [][ReceiptsNext]_receiptsVars
----------------------------------------------------------------------------
(* A caller that is told its message was accepted has had it sent exactly      *)
(* once, and no later call will send it again ("message retries survive        *)
(* reconstruction without submitting twice", message-receipts/index.test.ts).  *)
AcceptedIsSent ==
    \A m \in Messages :
        answer[m] = "accepted" =>
            made[m]["send"] = 1 /\ receipts[m] # Absent /\ receipts[m].state = "completed"

(* Without a receipt nothing was sent: a call that failed before its receipt   *)
(* may be repeated ("failed local message preparation does not leave an        *)
(* ambiguous receipt").                                                        *)
NoReceiptNothingSent ==
    \A m \in Messages : receipts[m] = Absent => made[m]["send"] = 0

(* The receipts implement AtMostOnce, crashes and failed writes included.      *)
DurableVerdict ==
    [m \in Messages |->
        IF receipts[m] # Absent /\ receipts[m].state = "completed" THEN "done" ELSE "open"]
Abstract == INSTANCE AtMostOnce WITH
    Requests <- Messages, Effects <- {"send"}, Needs <- [m \in Messages |-> {"send"}],
    verdict <- DurableVerdict
ImplementsAtMostOnce == Abstract!AbstractSpec
=============================================================================
