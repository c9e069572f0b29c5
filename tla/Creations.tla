------------------------------ MODULE Creations ------------------------------
(* The daemon's creation journal: CreationService in server/creation/index.ts *)
(* and the completion check of websocket-server.ts. A request creates a       *)
(* workspace, an agent and its first prompt, each a stage; the journal commits *)
(* the milestones, one admission at a time, so that a request repeated after  *)
(* a lost answer, a failed write or a crash repeats no stage. Every action is *)
(* the code between two awaits of a file or of a resource owner. The callers  *)
(* are one client per key (its call and its subscription) and anybody else.   *)
(* Time-ordered ids, error texts and the import of legacy receipts are left   *)
(* out. Provisioning, starting the agent and handing it the prompt are the    *)
(* resource owners' and external: they may fail before, or after, they act.   *)
EXTENDS Naturals, FiniteSets

CONSTANTS Keys,        \* kind and idempotency key of a request
          Intents,     \* request contents: their fingerprints
          Stages,      \* the stages a key needs: a set for each key
          IdOf,        \* the resource ids a key reserves, by stage
          Absent,
          MaxFaults, MaxRestarts, MaxCalls

AllStages == {"workspace", "agent", "prompt"}
Resources == {<<s, IdOf[k][s]>> : k \in Keys, s \in {"workspace", "agent"}}
ASSUME StagesAssumption ==
    /\ Stages \in [Keys -> SUBSET AllStages]
    /\ \A k \in Keys : Stages[k] \cap {"workspace", "agent"} # {}
    /\ \A k \in Keys : "prompt" \in Stages[k] => "agent" \in Stages[k]
ASSUME KeysAssumption == {"free", "torn"} \cap Keys = {}
ASSUME BoundsAssumption == {MaxFaults, MaxRestarts, MaxCalls} \subseteq Nat

VARIABLES journal,    \* the receipt file of each key
          claims,     \* the claim file of each resource id
          registered, \* the resources their registries know
          made,       \* how often each stage of a key took effect
          run,        \* the runner of each key, its record in memory
          admission,  \* the admitted call that holds the admission chain
          call,       \* where the client's call is: queued, held or running
          watch,      \* the client's subscription
          reply,      \* what the daemon last told the client
          faults, restarts, calls
service == <<journal, claims, registered, made, run, admission>>
edge == <<call, watch, reply>>
bounds == <<faults, restarts, calls>>
creationVars == <<service, edge, bounds>>

Phases == {"accepted", "workspace_ready", "agent_ready", "prompt_started",
           "completed", "failed"}
Steps == {"idle", "begin", "provision", "provisioned", "create", "registered",
          "prompt", "prompted", "silent", "failing", "rejected"}
Records == [intent : Intents, phase : Phases, workspace : BOOLEAN, agent : BOOLEAN,
            inFlight : AllStages \cup {"none"}, unknown : BOOLEAN]
ASSUME AbsentAssumption == Absent \notin Records
Replies == {"none", "missing", "completed", "failed", "unknown", "error"}

CreationTypeOK ==
    /\ journal \in [Keys -> Records \cup {Absent}]
    /\ claims \in [Resources -> Keys \cup {"free", "torn"}]
    /\ registered \subseteq Resources
    /\ made \in [Keys -> [AllStages -> Nat]]
    /\ run \in [Keys -> [step : Steps, record : Records \cup {Absent}]]
    /\ admission = Absent \/ admission \in
          [key : Keys, record : Records, left : SUBSET AllStages]
    /\ call \in [Keys -> {"none", "queued", "held", "running"}]
    /\ watch \in [Keys -> {"none", "asked", "reading", "live"}]
    /\ reply \in [Keys -> Replies]
    /\ faults \in 0..MaxFaults /\ restarts \in 0..MaxRestarts /\ calls \in 0..MaxCalls

InitialRecord(i) ==
    [intent |-> i, phase |-> "accepted", workspace |-> FALSE, agent |-> FALSE,
     inFlight |-> "none", unknown |-> FALSE]
Idle == [step |-> "idle", record |-> Absent]
Running(k) == run[k].step # "idle"
Resource(k, s) == <<s, IdOf[k][s]>>
Exists(k, s) == Resource(k, s) \in registered
\* Mutant: the outcome is reported as a failure that may be retried.
DoubtedForgetful(r) == [r EXCEPT !.phase = "failed"]
Doubted(r) == [r EXCEPT !.phase = "failed", !.unknown = TRUE]
Verdict(r) == IF r.unknown THEN "unknown" ELSE r.phase
Terminal(r) == r.phase \in {"completed", "failed"}

CreationInit ==
    /\ journal = [k \in Keys |-> Absent]
    /\ claims = [r \in Resources |-> "free"]
    /\ registered = {}
    /\ made = [k \in Keys |-> [s \in AllStages |-> 0]]
    /\ run = [k \in Keys |-> Idle]
    /\ admission = Absent
    /\ call = [k \in Keys |-> "none"]
    /\ watch = [k \in Keys |-> "none"]
    /\ reply = [k \in Keys |-> "none"]
    /\ faults = 0 /\ restarts = 0 /\ calls = 0

(* A write of the journal either lands or throws. *)
Lands(k, r) == journal' = [journal EXCEPT ![k] = r] /\ UNCHANGED faults
Throws == faults < MaxFaults /\ faults' = faults + 1 /\ UNCHANGED journal

(* The client's own call ends with v (which a publication also tells a live   *)
(* subscription), or leaves for another place.                                *)
Answer(k, mine, v) ==
    /\ call' = IF mine THEN [call EXCEPT ![k] = "none"] ELSE call
    /\ reply' = IF mine THEN [reply EXCEPT ![k] = v] ELSE reply
    /\ UNCHANGED watch
Announce(k, mine, v) ==
    /\ call' = IF mine THEN [call EXCEPT ![k] = "none"] ELSE call
    /\ reply' = IF mine \/ watch[k] = "live" THEN [reply EXCEPT ![k] = v] ELSE reply
    /\ UNCHANGED watch
Advance(k, mine, place) ==
    /\ call' = IF mine THEN [call EXCEPT ![k] = place] ELSE call
    /\ UNCHANGED <<watch, reply>>

----------------------------------------------------------------------------
(* Admission: one call at a time reads its receipt, settles what is known,    *)
(* or persists an identity and claims the resource ids before the runner.     *)

Gone(k, r) ==
    \/ r.workspace /\ ~Exists(k, "workspace")
    \/ "agent" \in Stages[k] /\ ~Exists(k, "agent")

Admits(k, i, mine) ==
    /\ admission = Absent
    /\ UNCHANGED <<claims, registered, made, run, restarts>>
    /\ \/ /\ journal[k] = Absent
          /\ \/ /\ Lands(k, InitialRecord(i))
                /\ admission' = [key |-> k, record |-> InitialRecord(i),
                                 left |-> Stages[k] \ {"prompt"}]
                /\ Advance(k, mine, "held")
             \/ Throws /\ Answer(k, mine, "error") /\ UNCHANGED admission
       \/ /\ journal[k] # Absent
          /\ LET r == journal[k] IN
             \/ /\ r.intent # i
                /\ Answer(k, mine, "error") /\ UNCHANGED <<journal, faults, admission>>
             \/ /\ r.intent = i /\ Running(k)
                /\ Advance(k, mine, "running") /\ UNCHANGED <<journal, faults, admission>>
             \/ /\ r.intent = i /\ ~Running(k)
                /\ r.phase = "completed" \/ r.unknown
                /\ Answer(k, mine, IF r.phase = "completed" /\ Gone(k, r) THEN "error"
                                                                         ELSE Verdict(r))
                /\ UNCHANGED <<journal, faults, admission>>
             \/ /\ r.intent = i /\ ~Running(k)
                /\ r.phase # "completed" /\ ~r.unknown /\ r.inFlight # "none"
                /\ \/ Lands(k, Doubted(r)) /\ Announce(k, mine, "unknown")
                   \/ Throws /\ Answer(k, mine, "error")
                /\ UNCHANGED admission
             \/ /\ r.intent = i /\ ~Running(k)
                /\ r.phase # "completed" /\ ~r.unknown /\ r.inFlight = "none"
                /\ admission' = [key |-> k, record |-> r,
                                 left |-> Stages[k] \ {"prompt"}]
                /\ Advance(k, mine, "held")
                /\ UNCHANGED <<journal, faults>>

(* The client's queued call is admitted; so is any other caller's. *)
AdmitClient(k, i) == call[k] = "queued" /\ Admits(k, i, TRUE) /\ UNCHANGED calls
AdmitOther(k, i) ==
    /\ calls < MaxCalls
    /\ calls' = calls + 1
    /\ Admits(k, i, FALSE)

\* Mutant: a claim file of another request is taken over.
ClaimAnyway(k, s) ==
    /\ admission # Absent /\ admission.key = k
    /\ s \in admission.left
    /\ s = "agent" => "workspace" \notin admission.left
    /\ claims' = [claims EXCEPT ![Resource(k, s)] = k]
    /\ admission' = [admission EXCEPT !.left = @ \ {s}]
    /\ UNCHANGED <<edge, faults, journal, registered, made, run, restarts, calls>>
(* claimResources: the workspace's claim file first, then the agent's. *)
Claim(k, s) ==
    /\ admission # Absent /\ admission.key = k
    /\ s \in admission.left
    /\ s = "agent" => "workspace" \notin admission.left
    /\ LET res == Resource(k, s)
           granted == claims[res] = k \/ (claims[res] = "free" /\ ~Exists(k, s))
       IN \/ /\ granted
             /\ claims' = [claims EXCEPT ![res] = k]
             /\ admission' = [admission EXCEPT !.left = @ \ {s}]
             /\ UNCHANGED <<edge, faults>>
          \/ /\ ~granted \/ (claims[res] = "free" /\ faults < MaxFaults)
             /\ faults' = IF granted THEN faults + 1 ELSE faults
             /\ admission' = Absent
             /\ Answer(k, call[k] = "held", "error")
             /\ UNCHANGED claims
    /\ UNCHANGED <<journal, registered, made, run, restarts, calls>>

(* A failed record is republished as accepted before its runner is installed. *)
Revived(r) ==
    IF r.phase = "failed"
    THEN [r EXCEPT !.phase = IF r.workspace THEN "workspace_ready" ELSE "accepted"]
    ELSE r
Install(k) ==
    /\ admission # Absent /\ admission.key = k
    /\ admission.left = {}
    /\ admission' = Absent
    /\ LET r == Revived(admission.record) IN
       \/ /\ IF r = admission.record THEN UNCHANGED <<journal, faults>> ELSE Lands(k, r)
          /\ run' = [run EXCEPT ![k] = [step |-> "begin", record |-> r]]
          /\ Advance(k, call[k] = "held", "running")
       \/ /\ r # admission.record /\ Throws
          /\ Answer(k, call[k] = "held", "error")
          /\ UNCHANGED run
    /\ UNCHANGED <<claims, registered, made, restarts, calls>>
----------------------------------------------------------------------------
(* The runner. A stage is marked in flight before its effect and its milestone *)
(* is published after it; a thrown write, like a failed stage, ends in catch.  *)

Goes(k, step, r) == run' = [run EXCEPT ![k] = [step |-> step, record |-> r]]
Commit(k, r, step) ==
    /\ \/ Lands(k, r) /\ Goes(k, step, r)
       \/ Throws /\ Goes(k, "failing", r)
    /\ UNCHANGED <<claims, registered, made, admission, edge, restarts, calls>>

NeedsWorkspace(k, r) == "workspace" \in Stages[k] /\ ~r.workspace
NeedsAgent(k, r) == "agent" \in Stages[k] /\ ~r.agent

BeginWorkspace(k) ==
    LET r == run[k].record IN
    /\ run[k].step = "begin" /\ NeedsWorkspace(k, r)
    /\ Commit(k, [r EXCEPT !.inFlight = "workspace"], "provision")

\* Mutant: the agent is created without its mark in the journal.
BeginAgentUnmarked(k) ==
    LET r == run[k].record IN
    /\ run[k].step = "begin" /\ ~NeedsWorkspace(k, r) /\ NeedsAgent(k, r)
    /\ Commit(k, r, "create")
BeginAgent(k) ==
    LET r == run[k].record IN
    /\ run[k].step = "begin" /\ ~NeedsWorkspace(k, r) /\ NeedsAgent(k, r)
    /\ Commit(k, [r EXCEPT !.inFlight = "agent"], "create")

Complete(k) ==
    LET r == [run[k].record EXCEPT !.inFlight = "none", !.phase = "completed"] IN
    /\ run[k].step = "begin"
    /\ ~NeedsWorkspace(k, run[k].record) /\ ~NeedsAgent(k, run[k].record)
    /\ \/ Lands(k, r) /\ run' = [run EXCEPT ![k] = Idle] /\ Announce(k, call[k] = "running", "completed")
       \/ Throws /\ Goes(k, "failing", r) /\ UNCHANGED edge
    /\ UNCHANGED <<claims, registered, made, admission, restarts, calls>>

(* External: a stage takes effect and returns, takes (some) effect and throws, *)
(* or throws without any. A throwing provision may have left a partial         *)
(* checkout that no registry knows; one refused by its code left nothing.      *)
Acts(k, s, registers) ==
    /\ made' = [made EXCEPT ![k][s] = @ + 1]
    /\ registered' = IF registers THEN registered \cup {Resource(k, s)} ELSE registered
Unacted == UNCHANGED <<made, registered>>
Only(k) == UNCHANGED <<journal, claims, admission, edge, bounds>>

Provision(k) ==
    LET r == run[k].record IN
    /\ run[k].step = "provision"
    /\ \/ Acts(k, "workspace", TRUE) /\ Goes(k, "provisioned", r)
       \/ \E registers \in BOOLEAN : Acts(k, "workspace", registers) /\ Goes(k, "failing", r)
       \/ \E step \in {"failing", "rejected"} : Unacted /\ Goes(k, step, r)
    /\ Only(k)

WorkspaceReady(k) ==
    /\ run[k].step = "provisioned"
    /\ Commit(k, [run[k].record EXCEPT !.inFlight = "none", !.workspace = TRUE,
                                       !.phase = "workspace_ready"], "begin")

(* A provider that fails to start leaves no registered agent; once registered, *)
(* the creation may still throw before it reports readiness.                   *)
CreateAgent(k) ==
    LET r == run[k].record IN
    /\ run[k].step = "create"
    /\ \/ \E step \in {"registered", "failing"} : Acts(k, "agent", TRUE) /\ Goes(k, step, r)
       \/ Unacted /\ Goes(k, "failing", r)
    /\ Only(k)

AgentReady(k) ==
    /\ run[k].step = "registered"
    /\ Commit(k, [run[k].record EXCEPT
                     !.inFlight = IF "prompt" \in Stages[k] THEN "prompt" ELSE "none",
                     !.agent = TRUE, !.phase = "agent_ready"], "prompt")

(* The first prompt is handed to the agent. A first turn that fails to start  *)
(* is the agent's error and returns ("silent"); later steps may still throw.  *)
Prompt(k) ==
    LET r == run[k].record IN
    /\ run[k].step = "prompt"
    /\ \E step \in {"prompted", "silent", "failing"} :
         /\ step = "prompted" => "prompt" \in Stages[k]
         /\ Goes(k, step, r)
    /\ IF "prompt" \in Stages[k]
       THEN made' = [made EXCEPT ![k]["prompt"] = @ + 1] /\ UNCHANGED registered
       ELSE Unacted
    /\ Only(k)

PromptStarted(k) ==
    /\ run[k].step = "prompted"
    /\ Commit(k, [run[k].record EXCEPT !.inFlight = "none",
                                       !.phase = "prompt_started"], "begin")

(* No turn was started: the record is only changed in memory. *)
PromptSilent(k) ==
    /\ run[k].step = "silent"
    /\ Goes(k, "begin", [run[k].record EXCEPT !.inFlight = "none"])
    /\ Unacted /\ Only(k)

(* catch: what the stage in flight left behind decides between a failure that *)
(* may be retried and an outcome nobody knows, which keeps its mark.          *)
FailedStage(r) == IF r.inFlight = "none" THEN "agent" ELSE r.inFlight
\* Mutant: a failed start is retried whether or not the agent is registered.
OutcomeUnknownUnchecked(k, r) ==
    \/ FailedStage(r) = "prompt"
    \/ FailedStage(r) = "workspace" /\ run[k].step # "rejected"
OutcomeUnknown(k, r) ==
    \/ FailedStage(r) = "prompt"
    \/ FailedStage(r) = "workspace" /\ run[k].step # "rejected"
    \/ FailedStage(r) \in Stages[k] /\ Exists(k, FailedStage(r))
Failed(k, r) ==
    [r EXCEPT !.phase = "failed", !.unknown = OutcomeUnknown(k, r),
              !.inFlight = IF OutcomeUnknown(k, r) THEN @ ELSE "none"]
Fail(k) ==
    LET r == Failed(k, run[k].record) IN
    /\ run[k].step \in {"failing", "rejected"}
    /\ run' = [run EXCEPT ![k] = Idle]
    /\ \/ Lands(k, r) /\ Announce(k, call[k] = "running", Verdict(r))
       \/ Throws /\ Answer(k, call[k] = "running", "error")
    /\ UNCHANGED <<claims, registered, made, admission, restarts, calls>>
----------------------------------------------------------------------------
(* subscribe waits for the admission of the moment, reads the receipt, and     *)
(* publishes an unknown outcome for a stage in flight that nobody runs.        *)
SubscribeWaited(k) ==
    /\ watch[k] = "asked" /\ admission = Absent
    /\ watch' = [watch EXCEPT ![k] = "reading"]
    /\ UNCHANGED <<service, call, reply, bounds>>

\* Mutant: a missing receipt reads like one in progress.
ObservedMissing(r) == IF r # Absent /\ Terminal(r) THEN Verdict(r) ELSE "none"
Observed(r) ==
    CASE r = Absent -> "missing"
      [] r # Absent /\ Terminal(r) -> Verdict(r)
      [] OTHER -> "none"
SubscribeRead(k) ==
    /\ watch[k] = "reading"
    /\ LET r == journal[k]
           orphan == r # Absent /\ r.inFlight # "none" /\ ~Running(k)
           gone == r # Absent /\ r.phase = "completed" /\ Gone(k, r)
           Sees(v, w) == /\ reply' = [reply EXCEPT ![k] = IF v = "none" THEN @ ELSE v]
                         /\ watch' = [watch EXCEPT ![k] = w]
       IN \/ orphan /\ Lands(k, Doubted(r)) /\ Sees("unknown", "live")
          \/ orphan /\ Throws /\ Sees("error", "none")
          \/ ~orphan /\ gone /\ Sees("error", "none") /\ UNCHANGED <<journal, faults>>
          \/ ~orphan /\ ~gone /\ Sees(Observed(r), "live") /\ UNCHANGED <<journal, faults>>
    /\ UNCHANGED <<claims, registered, made, run, admission, call, restarts, calls>>

(* A resource reported ready may be deleted by its user. *)
Delete(k, s) ==
    /\ journal[k] # Absent
    /\ IF s = "workspace" THEN journal[k].workspace ELSE journal[k].agent
    /\ Exists(k, s)
    /\ registered' = registered \ {Resource(k, s)}
    /\ UNCHANGED <<journal, claims, made, run, admission, edge, bounds>>

(* The daemon dies: memory and sockets are lost; a claim file being written    *)
(* may be left empty.                                                          *)
Crash ==
    /\ restarts < MaxRestarts
    /\ restarts' = restarts + 1
    /\ run' = [k \in Keys |-> Idle]
    /\ admission' = Absent
    /\ \/ UNCHANGED claims
       \/ /\ admission # Absent
          /\ \E s \in admission.left :
               /\ s = "agent" => "workspace" \notin admission.left
               /\ claims[Resource(admission.key, s)] = "free"
               /\ ~Exists(admission.key, s)
               /\ claims' = [claims EXCEPT ![Resource(admission.key, s)] = "torn"]
    /\ call' = [k \in Keys |-> "none"]
    /\ watch' = [k \in Keys |-> "none"]
    /\ reply' = [k \in Keys |-> "none"]
    /\ UNCHANGED <<journal, registered, made, faults, calls>>

RunStep(k) ==
    \/ BeginWorkspace(k) \/ Provision(k) \/ WorkspaceReady(k)
    \/ BeginAgent(k) \/ CreateAgent(k) \/ AgentReady(k)
    \/ Prompt(k) \/ PromptStarted(k) \/ PromptSilent(k)
    \/ Complete(k) \/ Fail(k)
AdmissionStep(k) == (\E s \in {"workspace", "agent"} : Claim(k, s)) \/ Install(k)
SubscribeStep(k) == SubscribeWaited(k) \/ SubscribeRead(k)
----------------------------------------------------------------------------
(* A record that a later call would run again says exactly which stages took  *)
(* effect: a resumed run repeats nothing, whatever crash or failed write left *)
(* the record behind (run() in index.ts, "a failed agent startup retries only *)
(* that stage").                                                              *)
Resumable(k) ==
    /\ journal[k] # Absent /\ ~Running(k)
    /\ journal[k].phase # "completed" /\ ~journal[k].unknown
    /\ journal[k].inFlight = "none"
ResumableIsExact ==
    \A k \in Keys : Resumable(k) =>
        LET r == journal[k] IN
        /\ (made[k]["workspace"] = 1) <=> r.workspace
        /\ (made[k]["agent"] = 1) <=> r.agent
        /\ (made[k]["prompt"] = 1) <=> (r.agent /\ "prompt" \in Stages[k])

(* A resource id is created for one request only, though several may reserve   *)
(* it and the claim files are written one at a time, across crashes (claim()). *)
OneMaker ==
    \A k, j \in Keys, s \in {"workspace", "agent"} :
        Resource(k, s) = Resource(j, s) /\ made[k][s] > 0 /\ made[j][s] > 0 => k = j

(* The journal implements AtMostOnce: no stage twice, completed only when all *)
(* took place, nothing after an unknown outcome.                              *)
DurableVerdict ==
    [k \in Keys |->
        IF journal[k] = Absent THEN "open"
        ELSE IF journal[k].unknown THEN "unknown"
        ELSE IF journal[k].phase = "completed" THEN "done" ELSE "open"]
Abstract == INSTANCE AtMostOnce WITH
    Requests <- Keys, Effects <- AllStages, Needs <- Stages, verdict <- DurableVerdict
ImplementsAtMostOnce == Abstract!AbstractSpec
=============================================================================
