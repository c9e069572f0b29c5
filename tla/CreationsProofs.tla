--------------------------- MODULE CreationsProofs ---------------------------
(* For every set of keys, whatever resources they share, and every number of   *)
(* crashes, failed writes and lost connections: the creation journal           *)
(* implements AtMostOnce, no resource id is created for two requests, and what *)
(* a client is told of an outcome is true for good. The argument is one        *)
(* inductive invariant. An open receipt with nothing in flight says exactly    *)
(* which stages took effect (JournalInv); a runner knows the same of its       *)
(* record, step by step (RunInv); the admitted call holds the receipt it read  *)
(* (AdmissionInv); and whoever created a resource, or is about to, owns its    *)
(* claim file (ClaimInv).                                                      *)
EXTENDS CreationClient, TLAPS

Open(r) == r.phase # "completed" /\ ~r.unknown
Exact(k, r) ==
    /\ made[k]["workspace"] = IF r.workspace THEN 1 ELSE 0
    /\ made[k]["agent"] = IF r.agent THEN 1 ELSE 0
    /\ made[k]["prompt"] = IF r.agent /\ "prompt" \in Stages[k] THEN 1 ELSE 0

ServiceType ==
    /\ journal \in [Keys -> Records \cup {Absent}]
    /\ claims \in [Resources -> Keys \cup {"free", "torn"}]
    /\ made \in [Keys -> [AllStages -> Nat]]
    /\ run \in [Keys -> [step : Steps, record : Records \cup {Absent}]]

JournalInv(k) ==
    /\ journal[k] = Absent => ~Running(k) /\ \A s \in AllStages : made[k][s] = 0
    /\ journal[k] # Absent =>
         /\ journal[k].phase = "completed" =>
              journal[k].inFlight = "none" /\ ~journal[k].unknown
         /\ Open(journal[k]) /\ journal[k].inFlight = "none" => Exact(k, journal[k])
         /\ journal[k].agent => made[k]["agent"] > 0

(* The milestones a runner is about to write, or must not repeat. *)
StepInv(k, step, r) ==
    /\ step # "failing" => Open(r)
    /\ step = "begin" => Exact(k, r) /\ r.inFlight = "none"
    /\ step \in {"provision", "rejected"} =>
         /\ journal[k].inFlight = "workspace" /\ r.inFlight = "workspace"
         /\ NeedsWorkspace(k, r) /\ Exact(k, r)
    /\ step = "provisioned" =>
         /\ journal[k].inFlight = "workspace"
         /\ Exact(k, [r EXCEPT !.workspace = TRUE])
    /\ step = "create" =>
         /\ journal[k].inFlight = "agent" /\ r.inFlight = "agent"
         /\ ~journal[k].agent /\ NeedsAgent(k, r) /\ Exact(k, r)
    /\ step = "registered" =>
         /\ journal[k].inFlight = "agent"
         /\ made[k]["workspace"] = IF r.workspace THEN 1 ELSE 0
         /\ made[k]["agent"] = 1 /\ made[k]["prompt"] = 0
    /\ step = "prompt" =>
         /\ r.agent /\ journal[k].inFlight = r.inFlight
         /\ r.inFlight = IF "prompt" \in Stages[k] THEN "prompt" ELSE "none"
         /\ made[k]["workspace"] = IF r.workspace THEN 1 ELSE 0
         /\ made[k]["agent"] = 1 /\ made[k]["prompt"] = 0
    /\ step \in {"prompted", "silent"} => r.agent /\ Exact(k, r)
    /\ step = "failing" =>
         /\ r.inFlight = "none" => Exact(k, r)
         /\ r.inFlight = "agent" =>
              /\ "agent" \in Stages[k]
              /\ \/ Exact(k, r)
                 \/ Exists(k, "agent") /\ made[k]["agent"] > 0 /\ ~journal[k].agent

RunInv(k) == Running(k) =>
    /\ run[k].record \in Records /\ ~run[k].record.unknown
    /\ journal[k] # Absent /\ Open(journal[k])
    /\ run[k].record.agent => made[k]["agent"] > 0
    /\ StepInv(k, run[k].step, run[k].record)

AdmissionInv == admission # Absent =>
    /\ admission \in [key : Keys, record : Records, left : SUBSET {"workspace", "agent"}]
    /\ journal[admission.key] # Absent
    /\ journal[admission.key] = admission.record
    /\ ~Running(admission.key)
    /\ Open(admission.record) /\ admission.record.inFlight = "none"

ClaimInv ==
    \A k \in Keys, s \in {"workspace", "agent"} :
        /\ made[k][s] > 0 => claims[Resource(k, s)] = k
        /\ Running(k) /\ s \in Stages[k] => claims[Resource(k, s)] = k
        /\ admission # Absent /\ admission.key = k /\ s \in Stages[k] \ admission.left =>
             claims[Resource(k, s)] = k

KeyInv(k) == JournalInv(k) /\ RunInv(k)
IInv == ServiceType /\ (\A k \in Keys : KeyInv(k)) /\ AdmissionInv /\ ClaimInv

LEMMA ResourceTyped == \A k \in Keys, s \in {"workspace", "agent"} : Resource(k, s) \in Resources
  BY DEF Resource, Resources

LEMMA ResourceStage ==
    ASSUME NEW k, NEW j, NEW s, NEW t, Resource(k, s) = Resource(j, t)
    PROVE  s = t
  BY DEF Resource

LEMMA InitIInv == Init => IInv
<1> SUFFICES ASSUME Init PROVE IInv
  OBVIOUS
<1> USE DEF Init, CreationInit
<1>1. ServiceType
  BY DEF ServiceType, Idle, Steps
<1>2. \A k \in Keys : KeyInv(k)
  BY DEF KeyInv, JournalInv, RunInv, Running, Idle
<1>3. AdmissionInv /\ ClaimInv
  BY DEF AdmissionInv, ClaimInv, Running, Idle, AllStages
<1> QED
  BY <1>1, <1>2, <1>3 DEF IInv

(* Another key's step that leaves this key's receipt, runner and effects alone *)
(* and deletes nothing keeps what is known of this key.                        *)
LEMMA OtherKey ==
    ASSUME NEW k \in Keys, KeyInv(k), registered \subseteq registered',
           journal'[k] = journal[k], run'[k] = run[k], made'[k] = made[k]
    PROVE  KeyInv(k)'
  BY DEF KeyInv, JournalInv, RunInv, StepInv, Running, Open, Exact, Exists, NeedsWorkspace, NeedsAgent

(* A runner's step keeps the invariant when it keeps what concerns its key: no *)
(* admission holds the key, and its claims are its own.                        *)
LEMMA RunnerKeeps ==
    ASSUME IInv, NEW k \in Keys, Running(k), ServiceType', KeyInv(k)',
           registered \subseteq registered', UNCHANGED <<claims, admission>>,
           \A n \in Keys \ {k} :
              journal'[n] = journal[n] /\ run'[n] = run[n] /\ made'[n] = made[n],
           \A s \in {"workspace", "agent"} :
              made'[k][s] > 0 => made[k][s] > 0 \/ s \in Stages[k]
    PROVE  IInv'
<1> USE DEF IInv
<1>1. ASSUME NEW n \in Keys PROVE KeyInv(n)'
  <2>1. CASE n = k
    BY <2>1
  <2>2. CASE n # k
    BY <2>2, OtherKey
  <2> QED
    BY <2>1, <2>2
<1>2. AdmissionInv'
  BY DEF AdmissionInv, Running
<1>3. ClaimInv'
  BY DEF ClaimInv, Running, Resource
<1> QED
  BY <1>1, <1>2, <1>3

(* A milestone changes one record of memory and, unless its write is lost, the *)
(* receipt.                                                                    *)
LEMMA CommitEffect ==
    ASSUME IInv, NEW k \in Keys, NEW r \in Records, NEW step \in Steps, Commit(k, r, step)
    PROVE  /\ ServiceType'
           /\ UNCHANGED <<claims, registered, made, admission>>
           /\ \A n \in Keys \ {k} : journal'[n] = journal[n] /\ run'[n] = run[n]
           /\ \/ journal'[k] = r /\ run'[k] = [step |-> step, record |-> r]
              \/ journal'[k] = journal[k] /\ run'[k] = [step |-> "failing", record |-> r]
<1> USE DEF IInv, ServiceType, Commit, Lands, Throws, Goes
<1>1. journal' \in [Keys -> Records \cup {Absent}]
  OBVIOUS
<1>2. run' \in [Keys -> [step : Steps, record : Records \cup {Absent}]]
  BY DEF Steps
<1>3. ServiceType'
  BY <1>1, <1>2
<1> HIDE DEF IInv
<1> QED
  BY <1>3 DEF IInv

LEMMA RecordsUpdated ==
    ASSUME NEW r \in Records, NEW p \in Phases, NEW s \in AllStages \cup {"none"}
    PROVE  /\ [r EXCEPT !.inFlight = s] \in Records
           /\ [r EXCEPT !.inFlight = s, !.phase = p] \in Records
           /\ [r EXCEPT !.inFlight = s, !.workspace = TRUE, !.phase = p] \in Records
           /\ [r EXCEPT !.inFlight = s, !.agent = TRUE, !.phase = p] \in Records
  BY DEF Records

LEMMA RunnerFacts ==
    ASSUME IInv, NEW k \in Keys, Running(k)
    PROVE  /\ run[k].record \in Records /\ ~run[k].record.unknown
           /\ journal[k] # Absent /\ Open(journal[k])
           /\ run[k].record.agent => made[k]["agent"] > 0
           /\ StepInv(k, run[k].step, run[k].record)
           /\ JournalInv(k)
  BY DEF IInv, KeyInv, RunInv

(* A milestone keeps the invariant when its record fits what took effect: as   *)
(* the receipt with the next step, and as the record of a failing runner.      *)
LEMMA MilestoneKeeps ==
    ASSUME IInv, NEW k \in Keys, Running(k),
           NEW q \in Records, NEW step \in Steps \ {"idle"}, Commit(k, q, step),
           Open(q), q.agent => made[k]["agent"] > 0,
           q.inFlight = "none" => Exact(k, q),
           q.inFlight = "agent" =>
             "agent" \in Stages[k] /\ Exact(k, q),
           journal'[k] = q /\ UNCHANGED <<made, registered>> => StepInv(k, step, q)'
    PROVE  IInv'
<1>1. /\ ServiceType'
      /\ UNCHANGED <<claims, registered, made, admission>>
      /\ \A n \in Keys \ {k} : journal'[n] = journal[n] /\ run'[n] = run[n]
      /\ \/ journal'[k] = q /\ run'[k] = [step |-> step, record |-> q]
         \/ journal'[k] = journal[k] /\ run'[k] = [step |-> "failing", record |-> q]
  BY CommitEffect
<1>2. journal[k] # Absent /\ Open(journal[k]) /\ JournalInv(k)
  BY RunnerFacts
<1>3. ~q.unknown /\ q # Absent
  BY AbsentAssumption DEF Open
<1>4. JournalInv(k)'
  BY <1>1, <1>2, <1>3 DEF JournalInv, Running, Open, Exact
<1>5. RunInv(k)'
  <2>1. CASE journal'[k] = q /\ run'[k] = [step |-> step, record |-> q]
    BY <2>1, <1>1, <1>3 DEF RunInv, Open
  <2>2. CASE journal'[k] = journal[k] /\ run'[k] = [step |-> "failing", record |-> q]
    <3>1. StepInv(k, "failing", q)'
      BY <2>2, <1>1 DEF StepInv, Exact
    <3> QED
      BY <2>2, <3>1, <1>1, <1>2, <1>3 DEF RunInv, Open
  <2> QED
    BY <1>1, <2>1, <2>2
<1> QED
  BY <1>1, <1>4, <1>5, RunnerKeeps DEF KeyInv

LEMMA BeginWorkspaceStep == ASSUME IInv, NEW k \in Keys, BeginWorkspace(k) PROVE IInv'
<1> DEFINE r == run[k].record
<1>1. /\ run[k].step = "begin" /\ NeedsWorkspace(k, r)
      /\ Commit(k, [r EXCEPT !.inFlight = "workspace"], "provision")
  BY DEF BeginWorkspace
<1>2. Running(k)
  BY <1>1 DEF Running
<1>3. r \in Records /\ (r.agent => made[k]["agent"] > 0) /\ StepInv(k, "begin", r)
  BY <1>1, <1>2, RunnerFacts
<1>4. PICK q \in Records : q = [r EXCEPT !.inFlight = "workspace"]
  BY <1>3, RecordsUpdated DEF AllStages, Phases
<1>5. Open(q) /\ Exact(k, q) /\ NeedsWorkspace(k, q) /\ q.inFlight = "workspace"
      /\ (q.agent => made[k]["agent"] > 0)
  BY <1>1, <1>3, <1>4 DEF StepInv, Open, Exact, Records, NeedsWorkspace
<1>6. journal'[k] = q /\ UNCHANGED <<made, registered>> => StepInv(k, "provision", q)'
  BY <1>5 DEF StepInv, Exact, Open, NeedsWorkspace
<1> QED
  BY <1>1, <1>2, <1>4, <1>5, <1>6, MilestoneKeeps DEF Steps

LEMMA BeginAgentStep == ASSUME IInv, NEW k \in Keys, BeginAgent(k) PROVE IInv'
<1> DEFINE r == run[k].record
<1>1. /\ run[k].step = "begin" /\ ~NeedsWorkspace(k, r) /\ NeedsAgent(k, r)
      /\ Commit(k, [r EXCEPT !.inFlight = "agent"], "create")
  BY DEF BeginAgent
<1>2. Running(k)
  BY <1>1 DEF Running
<1>3. r \in Records /\ StepInv(k, "begin", r)
  BY <1>1, <1>2, RunnerFacts
<1>4. PICK q \in Records : q = [r EXCEPT !.inFlight = "agent"]
  BY <1>3, RecordsUpdated DEF AllStages, Phases
<1>5. Open(q) /\ Exact(k, q) /\ NeedsAgent(k, q) /\ q.inFlight = "agent" /\ ~q.agent
      /\ "agent" \in Stages[k]
  BY <1>1, <1>3, <1>4 DEF StepInv, Open, Exact, Records, NeedsAgent
<1>6. journal'[k] = q /\ UNCHANGED <<made, registered>> => StepInv(k, "create", q)'
  BY <1>5 DEF StepInv, Exact, Open, NeedsAgent
<1> QED
  BY <1>1, <1>2, <1>4, <1>5, <1>6, MilestoneKeeps DEF Steps

LEMMA WorkspaceReadyStep == ASSUME IInv, NEW k \in Keys, WorkspaceReady(k) PROVE IInv'
<1> DEFINE r == run[k].record
<1>1. /\ run[k].step = "provisioned"
      /\ Commit(k, [r EXCEPT !.inFlight = "none", !.workspace = TRUE,
                              !.phase = "workspace_ready"], "begin")
  BY DEF WorkspaceReady
<1>2. Running(k)
  BY <1>1 DEF Running
<1>3. r \in Records /\ (r.agent => made[k]["agent"] > 0) /\ StepInv(k, "provisioned", r)
  BY <1>1, <1>2, RunnerFacts
<1>4. PICK q \in Records :
        q = [r EXCEPT !.inFlight = "none", !.workspace = TRUE, !.phase = "workspace_ready"]
  BY <1>3, RecordsUpdated DEF Phases
<1>5. Open(q) /\ Exact(k, q) /\ q.inFlight = "none" /\ (q.agent => made[k]["agent"] > 0)
  BY <1>3, <1>4 DEF StepInv, Open, Exact, Records
<1>6. journal'[k] = q /\ UNCHANGED <<made, registered>> => StepInv(k, "begin", q)'
  BY <1>5 DEF StepInv, Exact, Open
<1> QED
  BY <1>1, <1>2, <1>4, <1>5, <1>6, MilestoneKeeps DEF Steps

LEMMA AgentReadyStep == ASSUME IInv, NEW k \in Keys, AgentReady(k) PROVE IInv'
<1> DEFINE r == run[k].record
           mark == IF "prompt" \in Stages[k] THEN "prompt" ELSE "none"
<1>1. /\ run[k].step = "registered"
      /\ Commit(k, [r EXCEPT !.inFlight = mark, !.agent = TRUE, !.phase = "agent_ready"], "prompt")
  BY DEF AgentReady
<1>2. Running(k)
  BY <1>1 DEF Running
<1>3. r \in Records /\ StepInv(k, "registered", r)
  BY <1>1, <1>2, RunnerFacts
<1>4. PICK q \in Records : q = [r EXCEPT !.inFlight = mark, !.agent = TRUE, !.phase = "agent_ready"]
  BY <1>3, RecordsUpdated DEF Phases, AllStages
<1>5. /\ Open(q) /\ q.agent /\ q.inFlight = mark
      /\ made[k]["workspace"] = IF q.workspace THEN 1 ELSE 0
      /\ made[k]["agent"] = 1 /\ made[k]["prompt"] = 0
  BY <1>3, <1>4 DEF StepInv, Open, Records
<1>6. q.inFlight = "none" => Exact(k, q)
  BY <1>5 DEF Exact
<1>7. journal'[k] = q /\ UNCHANGED <<made, registered>> => StepInv(k, "prompt", q)'
  BY <1>5 DEF StepInv, Exact, Open
<1>8. q.inFlight # "agent"
  BY <1>5
<1>9. Commit(k, q, "prompt") /\ Open(q) /\ (q.agent => made[k]["agent"] > 0)
  BY <1>1, <1>4, <1>5
<1> QED
  BY <1>2, <1>4, <1>6, <1>7, <1>8, <1>9, MilestoneKeeps DEF Steps

LEMMA PromptStartedStep == ASSUME IInv, NEW k \in Keys, PromptStarted(k) PROVE IInv'
<1> DEFINE r == run[k].record
<1>1. /\ run[k].step = "prompted"
      /\ Commit(k, [r EXCEPT !.inFlight = "none", !.phase = "prompt_started"], "begin")
  BY DEF PromptStarted
<1>2. Running(k)
  BY <1>1 DEF Running
<1>3. r \in Records /\ (r.agent => made[k]["agent"] > 0) /\ StepInv(k, "prompted", r)
  BY <1>1, <1>2, RunnerFacts
<1>4. PICK q \in Records : q = [r EXCEPT !.inFlight = "none", !.phase = "prompt_started"]
  BY <1>3, RecordsUpdated DEF Phases
<1>5. Open(q) /\ Exact(k, q) /\ q.inFlight = "none" /\ (q.agent => made[k]["agent"] > 0)
  BY <1>3, <1>4 DEF StepInv, Open, Exact, Records
<1>6. journal'[k] = q /\ UNCHANGED <<made, registered>> => StepInv(k, "begin", q)'
  BY <1>5 DEF StepInv, Exact, Open
<1> QED
  BY <1>1, <1>2, <1>4, <1>5, <1>6, MilestoneKeeps DEF Steps

(* An external step changes the effects of its key and where its runner is. *)
LEMMA ExternalKeeps ==
    ASSUME IInv, NEW k \in Keys, Running(k), NEW s \in Stages[k] \cup {"none"}, NEW r \in Records,
           NEW step \in Steps \ {"idle"}, r.agent => made[k]["agent"] > 0,
           ~r.unknown, run' = [run EXCEPT ![k] = [step |-> step, record |-> r]],
           UNCHANGED <<journal, claims, admission>>, registered \subseteq registered',
           \/ UNCHANGED made
           \/ s # "none" /\ made' = [made EXCEPT ![k][s] = @ + 1],
           ~(Open(journal[k]) /\ journal[k].inFlight = "none") \/ UNCHANGED made,
           StepInv(k, step, r)'
    PROVE  IInv'
<1>1. /\ journal[k] # Absent /\ Open(journal[k]) /\ JournalInv(k)
  BY RunnerFacts
<1>2. Stages[k] \subseteq AllStages
  BY StagesAssumption
<1>3. ServiceType'
  <2> USE DEF ServiceType
  <2>1. ServiceType
    BY DEF IInv
  <2>2. run' \in [Keys -> [step : Steps, record : Records \cup {Absent}]]
    BY <2>1
  <2>3. CASE s # "none" /\ made' = [made EXCEPT ![k][s] = @ + 1]
    <3>1. s \in AllStages
      BY <1>2, <2>3
    <3>2. made[k] \in [AllStages -> Nat] /\ made[k][s] + 1 \in Nat
      BY <2>1, <3>1
    <3>3. [made[k] EXCEPT ![s] = made[k][s] + 1] \in [AllStages -> Nat]
      BY <3>2
    <3> QED
      BY <2>1, <2>2, <2>3, <3>3
  <2>4. CASE UNCHANGED made
    BY <2>1, <2>2, <2>4
  <2> QED
    BY <2>3, <2>4
<1>4. /\ \A t \in AllStages : made'[k][t] >= made[k][t]
      /\ \A t \in AllStages : made'[k][t] # made[k][t] => t = s /\ s # "none"
      /\ \A n \in Keys \ {k} : made'[n] = made[n]
      /\ run'[k] = [step |-> step, record |-> r]
      /\ \A n \in Keys \ {k} : run'[n] = run[n]
      /\ made \in [Keys -> [AllStages -> Nat]]
      /\ made' \in [Keys -> [AllStages -> Nat]]
  BY <1>2, <1>3 DEF IInv, ServiceType
<1>5. JournalInv(k)'
  BY <1>1, <1>4 DEF JournalInv, Running, Open, Exact, AllStages
<1>6. RunInv(k)'
  BY <1>1, <1>4 DEF RunInv, Open, AllStages
<1>7. \A t \in {"workspace", "agent"} : made'[k][t] > 0 => made[k][t] > 0 \/ t \in Stages[k]
  BY <1>4 DEF AllStages
<1> QED
  BY <1>3, <1>4, <1>5, <1>6, <1>7, RunnerKeeps DEF KeyInv

LEMMA ProvisionStep == ASSUME IInv, NEW k \in Keys, Provision(k) PROVE IInv'
<1>1. run[k].step = "provision" /\ Running(k)
  BY DEF Provision, Running
<1>2. PICK r \in Records : r = run[k].record
  BY <1>1, RunnerFacts
<1>3. /\ ~r.unknown /\ (r.agent => made[k]["agent"] > 0) /\ Open(r)
      /\ journal[k].inFlight = "workspace" /\ r.inFlight = "workspace"
      /\ NeedsWorkspace(k, r) /\ Exact(k, r)
  BY <1>1, <1>2, RunnerFacts DEF StepInv
<1>4. "workspace" \in Stages[k] /\ made \in [Keys -> [AllStages -> Nat]]
  BY <1>3 DEF NeedsWorkspace, IInv, ServiceType
<1>5. /\ UNCHANGED <<journal, claims, admission>> /\ registered \subseteq registered'
      /\ \/ /\ made' = [made EXCEPT ![k]["workspace"] = @ + 1]
            /\ \E step \in {"provisioned", "failing"} :
                 run' = [run EXCEPT ![k] = [step |-> step, record |-> r]]
         \/ /\ UNCHANGED <<made, registered>>
            /\ \E step \in {"failing", "rejected"} :
                 run' = [run EXCEPT ![k] = [step |-> step, record |-> r]]
  BY <1>2 DEF Provision, Only, Acts, Goes, Unacted
<1>6. CASE made' = [made EXCEPT ![k]["workspace"] = @ + 1]
  <2>1. PICK step \in {"provisioned", "failing"} :
          run' = [run EXCEPT ![k] = [step |-> step, record |-> r]]
    BY <1>5, <1>6, <1>4 DEF AllStages
  <2>2. StepInv(k, step, r)'
    BY <2>1, <1>3, <1>4, <1>5, <1>6 DEF StepInv, Exact, Open, AllStages, NeedsWorkspace, Records
  <2> QED
    BY <1>1, <1>3, <1>4, <1>5, <1>6, <2>1, <2>2, ExternalKeeps DEF Steps
<1>7. CASE UNCHANGED <<made, registered>>
  <2>1. PICK step \in {"failing", "rejected"} :
          run' = [run EXCEPT ![k] = [step |-> step, record |-> r]]
    BY <1>5, <1>7, <1>4 DEF AllStages
  <2>2. StepInv(k, step, r)'
    BY <2>1, <1>3, <1>5, <1>7 DEF StepInv, Exact, Open, NeedsWorkspace
  <2> QED
    BY <1>1, <1>3, <1>4, <1>5, <1>7, <2>1, <2>2, ExternalKeeps DEF Steps
<1> QED
  BY <1>5, <1>6, <1>7

LEMMA CreateAgentStep == ASSUME IInv, NEW k \in Keys, CreateAgent(k) PROVE IInv'
<1>1. run[k].step = "create" /\ Running(k)
  BY DEF CreateAgent, Running
<1>2. PICK r \in Records : r = run[k].record
  BY <1>1, RunnerFacts
<1>3. /\ ~r.unknown /\ (r.agent => made[k]["agent"] > 0) /\ Open(r)
      /\ journal[k].inFlight = "agent" /\ r.inFlight = "agent" /\ ~journal[k].agent
      /\ NeedsAgent(k, r) /\ Exact(k, r)
  BY <1>1, <1>2, RunnerFacts DEF StepInv
<1>4. "agent" \in Stages[k] /\ made \in [Keys -> [AllStages -> Nat]]
  BY <1>3 DEF NeedsAgent, IInv, ServiceType
<1>5. /\ UNCHANGED <<journal, claims, admission>> /\ registered \subseteq registered'
      /\ \/ /\ made' = [made EXCEPT ![k]["agent"] = @ + 1]
            /\ Resource(k, "agent") \in registered'
            /\ \E step \in {"registered", "failing"} :
                 run' = [run EXCEPT ![k] = [step |-> step, record |-> r]]
         \/ /\ UNCHANGED <<made, registered>>
            /\ run' = [run EXCEPT ![k] = [step |-> "failing", record |-> r]]
  BY <1>2 DEF CreateAgent, Only, Acts, Goes, Unacted
<1>6. CASE /\ made' = [made EXCEPT ![k]["agent"] = @ + 1]
           /\ Resource(k, "agent") \in registered'
           /\ \E step \in {"registered", "failing"} :
                run' = [run EXCEPT ![k] = [step |-> step, record |-> r]]
  <2>1. PICK step \in {"registered", "failing"} :
          run' = [run EXCEPT ![k] = [step |-> step, record |-> r]]
    BY <1>6
  <2>2. StepInv(k, step, r)'
    BY <2>1, <1>3, <1>4, <1>5, <1>6
    DEF StepInv, Exact, Open, AllStages, NeedsAgent, Exists, Records
  <2> QED
    BY <1>1, <1>3, <1>4, <1>5, <1>6, <2>1, <2>2, ExternalKeeps DEF Steps
<1>7. CASE /\ UNCHANGED <<made, registered>>
           /\ run' = [run EXCEPT ![k] = [step |-> "failing", record |-> r]]
  <2>1. StepInv(k, "failing", r)'
    BY <1>3, <1>4, <1>5, <1>7 DEF StepInv, Exact
  <2> QED
    BY <1>1, <1>3, <1>4, <1>5, <1>7, <2>1, ExternalKeeps DEF Steps
<1> QED
  BY <1>5, <1>6, <1>7

LEMMA PromptStep == ASSUME IInv, NEW k \in Keys, Prompt(k) PROVE IInv'
<1>1. run[k].step = "prompt" /\ Running(k)
  BY DEF Prompt, Running
<1>2. PICK r \in Records : r = run[k].record
  BY <1>1, RunnerFacts
<1>3. /\ ~r.unknown /\ r.agent /\ made[k]["agent"] > 0 /\ Open(r)
      /\ journal[k].inFlight = r.inFlight
      /\ r.inFlight = IF "prompt" \in Stages[k] THEN "prompt" ELSE "none"
      /\ made[k]["workspace"] = IF r.workspace THEN 1 ELSE 0
      /\ made[k]["agent"] = 1 /\ made[k]["prompt"] = 0
  BY <1>1, <1>2, RunnerFacts DEF StepInv
<1>4. made \in [Keys -> [AllStages -> Nat]]
  BY DEF IInv, ServiceType
<1>5. /\ UNCHANGED <<journal, claims, admission, registered>>
      /\ \E step \in {"prompted", "silent", "failing"} :
           /\ step = "prompted" => "prompt" \in Stages[k]
           /\ run' = [run EXCEPT ![k] = [step |-> step, record |-> r]]
      /\ IF "prompt" \in Stages[k] THEN made' = [made EXCEPT ![k]["prompt"] = @ + 1]
                                    ELSE UNCHANGED made
  BY <1>2 DEF Prompt, Only, Goes, Unacted
<1>6. PICK step \in {"prompted", "silent", "failing"} :
        run' = [run EXCEPT ![k] = [step |-> step, record |-> r]]
  BY <1>5
<1>7. CASE "prompt" \in Stages[k]
  <2>1. StepInv(k, step, r)'
    BY <1>3, <1>4, <1>5, <1>6, <1>7 DEF StepInv, Exact, Open, AllStages, Records
  <2> QED
    BY <1>1, <1>3, <1>4, <1>5, <1>6, <1>7, <2>1, ExternalKeeps DEF Steps
<1>8. CASE "prompt" \notin Stages[k]
  <2>1. StepInv(k, step, r)'
    BY <1>3, <1>4, <1>5, <1>6, <1>8 DEF StepInv, Exact, Open, Records
  <2> QED
    BY <1>1, <1>3, <1>4, <1>5, <1>6, <1>8, <2>1, ExternalKeeps DEF Steps
<1> QED
  BY <1>7, <1>8

LEMMA PromptSilentStep == ASSUME IInv, NEW k \in Keys, PromptSilent(k) PROVE IInv'
<1> DEFINE r == run[k].record
<1>1. run[k].step = "silent" /\ Running(k)
  BY DEF PromptSilent, Running
<1>2. /\ r \in Records /\ ~r.unknown /\ (r.agent => made[k]["agent"] > 0)
      /\ StepInv(k, "silent", r)
  BY <1>1, RunnerFacts
<1>3. PICK q \in Records : q = [r EXCEPT !.inFlight = "none"]
  BY <1>2, RecordsUpdated DEF Phases
<1>4. /\ run' = [run EXCEPT ![k] = [step |-> "begin", record |-> q]]
      /\ UNCHANGED <<journal, claims, admission, registered, made>>
  BY <1>3 DEF PromptSilent, Goes, Unacted, Only
<1>5. Open(q) /\ Exact(k, q) /\ q.inFlight = "none" /\ (q.agent => made[k]["agent"] > 0)
  BY <1>2, <1>3 DEF StepInv, Open, Exact, Records
<1>6. StepInv(k, "begin", q)'
  BY <1>4, <1>5 DEF StepInv, Exact
<1> QED
  BY <1>1, <1>4, <1>5, <1>6, ExternalKeeps DEF Steps, Open

LEMMA CompleteStep == ASSUME IInv, NEW k \in Keys, Complete(k) PROVE IInv'
<1>1. run[k].step = "begin" /\ Running(k)
  BY DEF Complete, Running
<1>2. PICK r \in Records : r = run[k].record
  BY <1>1, RunnerFacts
<1>3. /\ Open(r) /\ Exact(k, r) /\ (r.agent => made[k]["agent"] > 0)
      /\ journal[k] # Absent /\ Open(journal[k]) /\ JournalInv(k)
  BY <1>1, <1>2, RunnerFacts DEF StepInv
<1>4. PICK q \in Records : q = [r EXCEPT !.inFlight = "none", !.phase = "completed"]
  BY RecordsUpdated DEF Phases
<1>5. /\ q.phase = "completed" /\ ~q.unknown /\ q.inFlight = "none" /\ Exact(k, q)
      /\ (q.agent => made[k]["agent"] > 0) /\ ~Open(q) /\ q # Absent
  BY <1>3, <1>4, AbsentAssumption DEF Exact, Open, Records
<1>6. /\ UNCHANGED <<claims, registered, made, admission>>
      /\ \/ /\ journal' = [journal EXCEPT ![k] = q] /\ run' = [run EXCEPT ![k] = Idle]
         \/ /\ UNCHANGED journal
            /\ run' = [run EXCEPT ![k] = [step |-> "failing", record |-> q]]
  BY <1>2, <1>4 DEF Complete, Lands, Throws, Goes
<1>7. ServiceType
  BY DEF IInv
<1>8. CASE journal' = [journal EXCEPT ![k] = q] /\ run' = [run EXCEPT ![k] = Idle]
  <2>1. ServiceType'
    BY <1>6, <1>7, <1>8 DEF ServiceType, Idle, Steps
  <2>2. KeyInv(k)'
    BY <1>5, <1>6, <1>7, <1>8 DEF KeyInv, JournalInv, RunInv, Running, Idle, Open, Exact, ServiceType
  <2> QED
    BY <1>1, <1>6, <1>7, <1>8, <2>1, <2>2, RunnerKeeps DEF ServiceType
<1>9. CASE /\ UNCHANGED journal
           /\ run' = [run EXCEPT ![k] = [step |-> "failing", record |-> q]]
  <2>1. StepInv(k, "failing", q)'
    BY <1>5, <1>6, <1>9 DEF StepInv, Exact
  <2> QED
    BY <1>1, <1>5, <1>6, <1>9, <2>1, ExternalKeeps DEF Steps
<1> QED
  BY <1>6, <1>8, <1>9

(* Whatever ended the runner, a record that may be retried is exact. *)
LEMMA FailedRecord ==
    ASSUME IInv, NEW k \in Keys, run[k].step \in {"failing", "rejected"}
    PROVE  \E q \in Records :
             /\ q = Failed(k, run[k].record)
             /\ q.phase = "failed" /\ (q.agent => made[k]["agent"] > 0)
             /\ ~q.unknown => q.inFlight = "none" /\ Exact(k, q)
<1>1. Running(k)
  BY DEF Running
<1>2. PICK r \in Records : r = run[k].record
  BY <1>1, RunnerFacts
<1>3. (r.agent => made[k]["agent"] > 0) /\ StepInv(k, run[k].step, r)
  BY <1>1, <1>2, RunnerFacts
<1>4. Failed(k, r) \in Records
  BY DEF Failed, Records, OutcomeUnknown, Phases
<1>5. /\ Failed(k, r).phase = "failed" /\ Failed(k, r).agent = r.agent
      /\ Failed(k, r).workspace = r.workspace
      /\ Failed(k, r).unknown = OutcomeUnknown(k, r)
      /\ ~OutcomeUnknown(k, r) => Failed(k, r).inFlight = "none"
  BY DEF Failed, Records
<1>6. ASSUME ~OutcomeUnknown(k, r) PROVE Exact(k, r)
  <2>1. CASE run[k].step = "rejected"
    BY <1>3, <2>1 DEF StepInv
  <2>2. CASE run[k].step = "failing"
    BY <1>3, <1>6, <2>2 DEF StepInv, OutcomeUnknown, FailedStage, Records, AllStages
  <2> QED
    BY <2>1, <2>2
<1>7. OutcomeUnknown(k, r) \in BOOLEAN
  BY DEF OutcomeUnknown
<1> QED
  BY <1>2, <1>3, <1>4, <1>5, <1>6, <1>7 DEF Exact

LEMMA FailStep == ASSUME IInv, NEW k \in Keys, Fail(k) PROVE IInv'
<1>1. run[k].step \in {"failing", "rejected"} /\ Running(k)
  BY DEF Fail, Running
<1>2. PICK q \in Records :
        /\ q = Failed(k, run[k].record)
        /\ q.phase = "failed" /\ (q.agent => made[k]["agent"] > 0)
        /\ ~q.unknown => q.inFlight = "none" /\ Exact(k, q)
  BY <1>1, FailedRecord
<1>3. /\ UNCHANGED <<claims, registered, made, admission>> /\ run' = [run EXCEPT ![k] = Idle]
      /\ journal' = [journal EXCEPT ![k] = q] \/ UNCHANGED journal
  BY <1>2 DEF Fail, Lands, Throws
<1>4. ServiceType /\ JournalInv(k) /\ journal[k] # Absent /\ q # Absent
  BY <1>1, <1>2, RunnerFacts, AbsentAssumption DEF IInv
<1>5. ServiceType'
  BY <1>3, <1>4 DEF ServiceType, Idle, Steps
<1>6. KeyInv(k)'
  BY <1>2, <1>3, <1>4 DEF KeyInv, JournalInv, RunInv, Running, Idle, Open, Exact, ServiceType
<1> QED
  BY <1>1, <1>3, <1>4, <1>5, <1>6, RunnerKeeps DEF ServiceType

(* A receipt written while nobody runs its key: an admission's, or a doubt's. *)
LEMMA WriteKeeps ==
    ASSUME IInv, NEW k \in Keys, NEW q \in Records, ~Running(k),
           journal' = [journal EXCEPT ![k] = q],
           UNCHANGED <<claims, registered, made, run>>,
           admission = Absent \/ admission.key # k,
           \/ UNCHANGED admission
           \/ /\ admission' = [key |-> k, record |-> q, left |-> Stages[k] \ {"prompt"}]
              /\ Open(q) /\ q.inFlight = "none",
           q.phase # "completed",
           Open(q) => q.inFlight = "none" /\ Exact(k, q),
           q.agent => made[k]["agent"] > 0
    PROVE  IInv'
<1> USE DEF IInv
<1>1. ServiceType'
  BY DEF ServiceType
<1>2. q # Absent
  BY AbsentAssumption
<1>3. ASSUME NEW n \in Keys PROVE KeyInv(n)'
  <2>1. CASE n = k
    BY <1>2, <2>1 DEF ServiceType, KeyInv, JournalInv, RunInv, Running, Open, Exact
  <2>2. CASE n # k
    BY <2>2, OtherKey DEF ServiceType
  <2> QED
    BY <2>1, <2>2
<1>4. journal'[k] = q /\ \A n \in Keys \ {k} : journal'[n] = journal[n]
  BY DEF ServiceType
<1>5. CASE UNCHANGED admission
  <2>1. AdmissionInv'
    BY <1>4, <1>5 DEF AdmissionInv, Running, Open
  <2>2. ClaimInv'
    BY <1>5 DEF ClaimInv, Running, Resource
  <2> QED
    BY <1>1, <1>3, <2>1, <2>2
<1>6. CASE /\ admission' = [key |-> k, record |-> q, left |-> Stages[k] \ {"prompt"}]
           /\ Open(q) /\ q.inFlight = "none"
  <2>1. AdmissionInv'
    <3>1. admission' \in [key : Keys, record : Records, left : SUBSET {"workspace", "agent"}]
      BY <1>6, StagesAssumption DEF AllStages
    <3>2. admission'.key = k /\ admission'.record = q
      BY <1>6
    <3> QED
      BY <1>2, <1>4, <1>6, <3>1, <3>2 DEF AdmissionInv, Running, Open
  <2>2. ClaimInv'
    BY <1>6 DEF ClaimInv, Running, Resource
  <2> QED
    BY <1>1, <1>3, <2>1, <2>2
<1> QED
  BY <1>5, <1>6

LEMMA DoubtedRecord ==
    ASSUME NEW r \in Records
    PROVE  Doubted(r) \in Records /\ Doubted(r).unknown /\ Doubted(r).phase = "failed"
           /\ Doubted(r).agent = r.agent /\ ~Open(Doubted(r))
  BY DEF Doubted, Records, Phases, Open

LEMMA AdmitsKeeps ==
    ASSUME IInv, NEW k \in Keys, NEW i \in Intents, NEW mine \in BOOLEAN, Admits(k, i, mine)
    PROVE  IInv'
<1>1. admission = Absent /\ UNCHANGED <<claims, registered, made, run>>
  BY DEF Admits
<1>2. ServiceType /\ KeyInv(k) /\ ClaimInv
  BY DEF IInv
<1>3. CASE UNCHANGED <<journal, admission>>
  <2>1. ServiceType' /\ (\A n \in Keys : KeyInv(n)') /\ AdmissionInv' /\ ClaimInv'
    BY <1>1, <1>3, OtherKey DEF IInv, ServiceType, AdmissionInv, ClaimInv, Running, Resource
  <2> QED
    BY <2>1 DEF IInv
<1>4. CASE /\ journal[k] = Absent /\ journal' = [journal EXCEPT ![k] = InitialRecord(i)]
           /\ admission' = [key |-> k, record |-> InitialRecord(i), left |-> Stages[k] \ {"prompt"}]
  <2>1. PICK q \in Records : q = InitialRecord(i)
    BY DEF InitialRecord, Records, Phases
  <2>2. Open(q) /\ q.inFlight = "none" /\ Exact(k, q) /\ ~q.agent /\ ~Running(k)
        /\ q.phase # "completed"
    BY <1>2, <1>4, <2>1 DEF InitialRecord, Open, Exact, KeyInv, JournalInv, AllStages
  <2> QED
    BY <1>1, <1>4, <2>1, <2>2, WriteKeeps
<1>5. CASE /\ journal[k] # Absent /\ ~Running(k) /\ journal[k].inFlight # "none"
           /\ journal' = [journal EXCEPT ![k] = Doubted(journal[k])] /\ UNCHANGED admission
  <2>1. journal[k] \in Records
    BY <1>2, <1>5 DEF ServiceType
  <2>2. PICK q \in Records : q = Doubted(journal[k])
    BY <2>1, DoubtedRecord
  <2>3. ~Open(q) /\ q.phase # "completed" /\ (q.agent => made[k]["agent"] > 0)
    BY <1>2, <1>5, <2>1, <2>2, DoubtedRecord DEF KeyInv, JournalInv
  <2> QED
    BY <1>1, <1>5, <2>2, <2>3, WriteKeeps
<1>6. CASE /\ journal[k] # Absent /\ ~Running(k) /\ UNCHANGED journal
           /\ journal[k].phase # "completed" /\ ~journal[k].unknown
           /\ journal[k].inFlight = "none"
           /\ admission' = [key |-> k, record |-> journal[k], left |-> Stages[k] \ {"prompt"}]
  <2>1. ServiceType' /\ (\A n \in Keys : KeyInv(n)')
    BY <1>1, <1>6, OtherKey DEF IInv, ServiceType
  <2>2. AdmissionInv'
    BY <1>1, <1>2, <1>6, StagesAssumption DEF ServiceType, AdmissionInv, Running, Open, AllStages
  <2>3. ClaimInv'
    BY <1>1, <1>2, <1>6 DEF ClaimInv, Running, Resource
  <2> QED
    BY <2>1, <2>2, <2>3 DEF IInv
<1> QED
  BY <1>3, <1>4, <1>5, <1>6 DEF Admits, Lands, Throws

LEMMA ClaimKeeps ==
    ASSUME IInv, NEW k \in Keys, NEW s \in {"workspace", "agent"}, Claim(k, s)
    PROVE  IInv'
<1>1. /\ admission # Absent /\ admission.key = k /\ s \in admission.left
      /\ UNCHANGED <<journal, registered, made, run>>
  BY DEF Claim
<1>2. ServiceType /\ AdmissionInv /\ ClaimInv
  BY DEF IInv
<1>3. \A n \in Keys : KeyInv(n)'
  BY <1>1, OtherKey DEF IInv
<1>4. CASE /\ claims[Resource(k, s)] \in {k, "free"}
           /\ claims' = [claims EXCEPT ![Resource(k, s)] = k]
           /\ admission' = [admission EXCEPT !.left = @ \ {s}]
  <2>1. /\ claims'[Resource(k, s)] = k
        /\ \A r \in Resources : claims[r] \in Keys => claims'[r] = claims[r]
        /\ ServiceType'
    BY <1>1, <1>2, <1>4, ResourceTyped, KeysAssumption DEF ServiceType
  <2>2. AdmissionInv'
    BY <1>1, <1>2, <1>4 DEF AdmissionInv, Running, Open
  <2>3. ClaimInv'
    <3> SUFFICES ASSUME NEW n \in Keys, NEW t \in {"workspace", "agent"}
                 PROVE  /\ made[n][t] > 0 => claims'[Resource(n, t)] = n
                        /\ Running(n) /\ t \in Stages[n] => claims'[Resource(n, t)] = n
                        /\ n = k /\ t \in Stages[n] \ admission'.left =>
                             claims'[Resource(n, t)] = n
      <4>1. admission'.key = k
        BY <1>1, <1>2, <1>4 DEF AdmissionInv
      <4> QED
        BY <1>1, <4>1 DEF ClaimInv, Running, Resource
    <3>1. claims[Resource(n, t)] = n => claims'[Resource(n, t)] = n
      BY <2>1, ResourceTyped
    <3>2. admission'.left = admission.left \ {s}
      BY <1>1, <1>2, <1>4 DEF AdmissionInv
    <3> QED
      BY <1>1, <1>2, <2>1, <3>1, <3>2 DEF ClaimInv
  <2> QED
    BY <1>3, <2>1, <2>2, <2>3 DEF IInv
<1>5. CASE UNCHANGED claims /\ admission' = Absent
  BY <1>1, <1>2, <1>3, <1>5 DEF IInv, ServiceType, AdmissionInv, ClaimInv, Running, Resource
<1> QED
  BY <1>4, <1>5 DEF Claim

LEMMA InstallKeeps == ASSUME IInv, NEW k \in Keys, Install(k) PROVE IInv'
<1>1. /\ admission # Absent /\ admission.key = k /\ admission.left = {} /\ admission' = Absent
      /\ UNCHANGED <<claims, registered, made>>
  BY DEF Install
<1>2. ServiceType /\ KeyInv(k) /\ AdmissionInv /\ ClaimInv
  BY DEF IInv
<1>3. PICK r \in Records : r = admission.record
  BY <1>1, <1>2 DEF ServiceType, AdmissionInv
<1>4. /\ journal[k] = r /\ journal[k] # Absent /\ ~Running(k)
      /\ Open(r) /\ r.inFlight = "none" /\ Exact(k, r) /\ (r.agent => made[k]["agent"] > 0)
  BY <1>1, <1>2, <1>3 DEF AdmissionInv, KeyInv, JournalInv
<1>5. PICK q \in Records : q = Revived(r)
  BY DEF Revived, Records, Phases
<1>6. /\ Open(q) /\ q.inFlight = "none" /\ Exact(k, q) /\ (q.agent => made[k]["agent"] > 0)
      /\ q # Absent /\ ~q.unknown
  BY <1>4, <1>5, AbsentAssumption DEF Revived, Open, Exact, Records
<1>7. CASE /\ journal' = [journal EXCEPT ![k] = q]
           /\ run' = [run EXCEPT ![k] = [step |-> "begin", record |-> q]]
  <2>1. ServiceType'
    BY <1>1, <1>2, <1>7 DEF ServiceType, Steps
  <2>2. ASSUME NEW n \in Keys PROVE KeyInv(n)'
    <3>1. CASE n # k
      BY <1>1, <1>2, <1>7, <3>1, OtherKey DEF IInv, ServiceType
    <3>2. CASE n = k
      <4>1. JournalInv(k)' /\ StepInv(k, "begin", q)'
        BY <1>1, <1>2, <1>6, <1>7 DEF ServiceType, JournalInv, StepInv, Open, Exact
      <4>2. RunInv(k)'
        BY <1>1, <1>2, <1>6, <1>7, <4>1 DEF ServiceType, RunInv, Open
      <4> QED
        BY <3>2, <4>1, <4>2 DEF KeyInv
    <3> QED
      BY <3>1, <3>2
  <2>3. AdmissionInv'
    BY <1>1 DEF AdmissionInv
  <2>4. ClaimInv'
    <3>1. \A n \in Keys \ {k} : Running(n)' <=> Running(n)
      BY <1>2, <1>7 DEF ServiceType, Running
    <3>2. \A s \in {"workspace", "agent"} : s \in Stages[k] => claims[Resource(k, s)] = k
      BY <1>1, <1>2 DEF ClaimInv
    <3> QED
      BY <1>1, <1>2, <3>1, <3>2 DEF ClaimInv, Resource
  <2> QED
    BY <2>1, <2>2, <2>3, <2>4 DEF IInv
<1>8. CASE UNCHANGED <<journal, run>>
  <2>1. \A n \in Keys : KeyInv(n)'
    BY <1>1, <1>8, OtherKey DEF IInv
  <2> QED
    BY <1>1, <1>2, <1>8, <2>1 DEF IInv, ServiceType, AdmissionInv, ClaimInv, Running, Resource
<1>9. \/ q = r /\ UNCHANGED journal /\ run' = [run EXCEPT ![k] = [step |-> "begin", record |-> q]]
      \/ /\ journal' = [journal EXCEPT ![k] = q]
         /\ run' = [run EXCEPT ![k] = [step |-> "begin", record |-> q]]
      \/ UNCHANGED <<journal, run>>
  BY <1>3, <1>5 DEF Install, Lands, Throws
<1>10. q = r /\ UNCHANGED journal => journal' = [journal EXCEPT ![k] = q]
  BY <1>2, <1>4 DEF ServiceType
<1> QED
  BY <1>7, <1>8, <1>9, <1>10

LEMMA ServiceUnchanged == IInv /\ UNCHANGED service => IInv'
<1> SUFFICES ASSUME IInv, UNCHANGED service PROVE IInv'
  OBVIOUS
<1> USE DEF service, IInv
<1>1. \A n \in Keys : KeyInv(n)'
  BY OtherKey
<1>2. ServiceType' /\ AdmissionInv' /\ ClaimInv'
  BY DEF ServiceType, AdmissionInv, ClaimInv, Running, Resource
<1> QED
  BY <1>1, <1>2

LEMMA SubscribeKeeps == ASSUME IInv, NEW k \in Keys, SubscribeStep(k) PROVE IInv'
<1>1. CASE UNCHANGED service
  BY <1>1, ServiceUnchanged
<1>2. CASE /\ journal[k] # Absent /\ journal[k].inFlight # "none" /\ ~Running(k)
           /\ journal' = [journal EXCEPT ![k] = Doubted(journal[k])]
           /\ UNCHANGED <<claims, registered, made, run, admission>>
  <2>1. journal[k] \in Records /\ JournalInv(k) /\ (admission = Absent \/ admission.key # k)
    BY <1>2 DEF IInv, KeyInv, ServiceType, AdmissionInv
  <2>2. PICK q \in Records : q = Doubted(journal[k])
    BY <2>1, DoubtedRecord
  <2>3. ~Open(q) /\ q.phase # "completed" /\ (q.agent => made[k]["agent"] > 0)
    BY <1>2, <2>1, <2>2, DoubtedRecord DEF JournalInv
  <2> QED
    BY <1>2, <2>1, <2>2, <2>3, WriteKeeps
<1> QED
  BY <1>1, <1>2 DEF SubscribeStep, SubscribeWaited, SubscribeRead, Lands, Throws, service

(* A deletion reaches no agent whose readiness is not in its receipt yet: the *)
(* registry knows an agent of that id for one key only.                       *)
LEMMA DeleteKeeps ==
    ASSUME IInv, NEW k \in Keys, NEW s \in {"workspace", "agent"}, Delete(k, s)
    PROVE  IInv'
<1>1. /\ journal[k] # Absent /\ (s = "agent" => journal[k].agent)
      /\ registered' = registered \ {Resource(k, s)}
      /\ UNCHANGED <<journal, claims, made, run, admission>>
  BY DEF Delete
<1>2. ServiceType' /\ AdmissionInv' /\ ClaimInv'
  BY <1>1 DEF IInv, ServiceType, AdmissionInv, ClaimInv, Running, Resource
<1>3. ASSUME NEW n \in Keys PROVE KeyInv(n)'
  <2>1. JournalInv(n)'
    BY <1>1 DEF IInv, KeyInv, JournalInv, Running, Open, Exact
  <2>2. Running(n) /\ ~journal[n].agent /\ made[n]["agent"] > 0 =>
          Resource(n, "agent") # Resource(k, s)
    <3>1. made[k]["agent"] > 0 /\ Resource(n, "agent") = Resource(k, "agent")
            /\ made[n]["agent"] > 0 => n = k
      BY DEF IInv, ClaimInv
    <3>2. s = "agent" => made[k]["agent"] > 0
      BY <1>1 DEF IInv, KeyInv, JournalInv
    <3> QED
      BY <1>1, <3>1, <3>2, ResourceStage
  <2>3. RunInv(n)'
    <3> SUFFICES ASSUME Running(n) PROVE RunInv(n)'
      BY <1>1 DEF RunInv, Running
    <3>1. StepInv(n, run[n].step, run[n].record)
      BY RunnerFacts
    <3>2. StepInv(n, run[n].step, run[n].record)'
      BY <1>1, <2>2, <3>1 DEF StepInv, Open, Exact, Exists, NeedsWorkspace, NeedsAgent
    <3> QED
      BY <1>1, <3>2, RunnerFacts DEF RunInv, Open
  <2> QED
    BY <2>1, <2>3 DEF KeyInv
<1> QED
  BY <1>2, <1>3 DEF IInv

LEMMA CrashKeeps == ASSUME IInv, Crash PROVE IInv'
<1>1. /\ run' = [k \in Keys |-> Idle] /\ admission' = Absent
      /\ UNCHANGED <<journal, registered, made>>
  BY DEF Crash
<1>2. \/ UNCHANGED claims
      \/ \E r \in Resources : claims[r] = "free" /\ claims' = [claims EXCEPT ![r] = "torn"]
  <2>1. CASE UNCHANGED claims
    BY <2>1
  <2>2. CASE ~UNCHANGED claims
    <3>1. PICK s \in admission.left :
            /\ admission # Absent
            /\ claims[Resource(admission.key, s)] = "free"
            /\ claims' = [claims EXCEPT ![Resource(admission.key, s)] = "torn"]
      BY <2>2 DEF Crash
    <3>2. admission.key \in Keys /\ s \in {"workspace", "agent"}
      BY <3>1 DEF IInv, AdmissionInv
    <3> QED
      BY <3>1, <3>2, ResourceTyped
  <2> QED
    BY <2>1, <2>2
<1>3. /\ ServiceType'
      /\ \A r \in Resources : claims[r] \in Keys => claims'[r] = claims[r]
  BY <1>1, <1>2, KeysAssumption DEF IInv, ServiceType, Idle, Steps
<1>4. \A n \in Keys : KeyInv(n)'
  BY <1>1 DEF IInv, KeyInv, JournalInv, RunInv, Running, Idle, Open, Exact
<1>5. AdmissionInv' /\ ClaimInv'
  BY <1>1, <1>3, ResourceTyped DEF IInv, AdmissionInv, ClaimInv, Running, Idle
<1> QED
  BY <1>3, <1>4, <1>5 DEF IInv

LEMMA RunStepKeeps == ASSUME IInv, NEW k \in Keys, RunStep(k) PROVE IInv'
  BY BeginWorkspaceStep, ProvisionStep, WorkspaceReadyStep, BeginAgentStep, CreateAgentStep,
     AgentReadyStep, PromptStep, PromptStartedStep, PromptSilentStep, CompleteStep, FailStep
  DEF RunStep

LEMMA NextIInv == IInv /\ [Next]_vars => IInv'
<1> SUFFICES ASSUME IInv, [Next]_vars PROVE IInv'
  OBVIOUS
<1>1. CASE DaemonStep
  <2>1. PICK k \in Keys :
          \/ RunStep(k) \/ AdmissionStep(k) \/ SubscribeStep(k)
          \/ AdmitCall(k)
          \/ \E i \in Intents : AdmitOther(k, i)
          \/ \E s \in {"workspace", "agent"} : Delete(k, s)
    BY <1>1 DEF DaemonStep
  <2> QED
    BY <2>1, RunStepKeeps, ClaimKeeps, InstallKeeps, SubscribeKeeps, AdmitsKeeps, DeleteKeeps
    DEF AdmissionStep, AdmitCall, AdmitClient, AdmitOther
<1>2. CASE DaemonCrash
  BY <1>2, CrashKeeps DEF DaemonCrash
<1>3. CASE UNCHANGED service
  BY <1>3, ServiceUnchanged
<1>4. [Next]_vars => DaemonStep \/ DaemonCrash \/ UNCHANGED service
  BY DEF Next, Start, Settle, Resubmit, Disconnect, Reconnect, vars, creationVars
<1> QED
  BY <1>1, <1>2, <1>3, <1>4

(* The invariant of the journal, its runners and its claims, in every behaviour *)
(* with any number of keys, callers, drops and crashes (creation/index.ts).     *)
THEOREM JournalInvariant == Spec => []IInv
  BY InitIInv, NextIInv, PTL DEF Spec

(* A record that a later call would run again is exact: run() repeats no stage. *)
THEOREM ResumableIsExactAlways == Spec => []ResumableIsExact
<1>1. IInv => ResumableIsExact
  BY DEF IInv, KeyInv, JournalInv, ServiceType, Resumable, ResumableIsExact, Open, Exact, Records
<1> QED
  BY JournalInvariant, <1>1, PTL

(* A reserved resource id is created for one request only (claim()). *)
THEOREM OneMakerAlways == Spec => []OneMaker
<1>1. IInv => OneMaker
  BY DEF IInv, ClaimInv, OneMaker
<1> QED
  BY JournalInvariant, <1>1, PTL

(* The refinement: what a step does to the effects and to the durable verdicts. *)
VerdictOf(r) ==
    IF r = Absent THEN "open"
    ELSE IF r.unknown THEN "unknown"
    ELSE IF r.phase = "completed" THEN "done" ELSE "open"
Promised == Abstract!AbstractNext \/ UNCHANGED <<made, DurableVerdict>>

LEMMA VerdictWritten ==
    ASSUME ServiceType, NEW k \in Keys, NEW q \in Records,
           journal' = [journal EXCEPT ![k] = q]
    PROVE  /\ DurableVerdict[k] = VerdictOf(journal[k])
           /\ DurableVerdict' = [DurableVerdict EXCEPT ![k] = VerdictOf(q)]
           /\ VerdictOf(q) = VerdictOf(journal[k]) => UNCHANGED DurableVerdict
<1> DEFINE D == [n \in Keys |-> VerdictOf(journal[n])]
<1>1. DurableVerdict = D /\ DurableVerdict' = D'
  BY DEF DurableVerdict, VerdictOf
<1>2. \A n \in Keys : journal'[n] = IF n = k THEN q ELSE journal[n]
  BY DEF ServiceType
<1>3. \A n \in Keys : D'[n] = IF n = k THEN VerdictOf(q) ELSE D[n]
  BY <1>2 DEF VerdictOf
<1>4. D' = [D EXCEPT ![k] = VerdictOf(q)]
  BY <1>2, <1>3
<1>5. D[k] = VerdictOf(journal[k]) /\ (VerdictOf(q) = D[k] => D' = D)
  BY <1>4
<1> HIDE DEF D
<1> QED
  BY <1>1, <1>4, <1>5

LEMMA OpenVerdict ==
    ASSUME NEW r, r # Absent => Open(r)
    PROVE  VerdictOf(r) = "open"
  BY DEF VerdictOf, Open

(* A milestone writes an open record over an open one. *)
LEMMA MilestonePromised ==
    ASSUME IInv, NEW k \in Keys, Running(k), NEW q \in Records, NEW step \in Steps,
           Commit(k, q, step), Open(q)
    PROVE  Promised
<1>1. UNCHANGED made /\ Open(journal[k])
  BY RunnerFacts DEF Commit
<1>2. CASE journal' = [journal EXCEPT ![k] = q]
  <2>1. VerdictOf(q) = "open" /\ VerdictOf(journal[k]) = "open"
    BY <1>1, OpenVerdict
  <2> QED
    BY <1>1, <1>2, <2>1, VerdictWritten DEF IInv, Promised
<1>3. CASE UNCHANGED journal
  BY <1>1, <1>3 DEF DurableVerdict, Promised
<1> QED
  BY <1>2, <1>3 DEF Commit, Lands, Throws

LEMMA DoubtPromised ==
    ASSUME ServiceType, NEW k \in Keys, NEW q \in Records, UNCHANGED made,
           journal' = [journal EXCEPT ![k] = q], q.unknown,
           VerdictOf(journal[k]) # "done"
    PROVE  Promised
<1>1. VerdictOf(q) = "unknown"
  BY AbsentAssumption DEF VerdictOf
<1>2. CASE VerdictOf(journal[k]) = "unknown"
  BY <1>1, <1>2, VerdictWritten DEF Promised
<1>3. CASE VerdictOf(journal[k]) = "open"
  BY <1>1, <1>3, VerdictWritten DEF Promised, Abstract!AbstractNext, Abstract!Doubt
<1> QED
  BY <1>2, <1>3 DEF VerdictOf

LEMMA EffectPromised ==
    ASSUME IInv, NEW k \in Keys, Running(k), NEW s \in Stages[k], s \in AllStages,
           made[k][s] = 0, UNCHANGED journal, made' = [made EXCEPT ![k][s] = @ + 1]
    PROVE  Promised
<1>1. VerdictOf(journal[k]) = "open"
  BY RunnerFacts, OpenVerdict
<1>2. DurableVerdict[k] = "open" /\ UNCHANGED DurableVerdict
  BY <1>1 DEF DurableVerdict, VerdictOf
<1>3. made' = [made EXCEPT ![k][s] = 1]
  OBVIOUS
<1> QED
  BY <1>2, <1>3 DEF Promised, Abstract!AbstractNext, Abstract!Perform

LEMMA NothingPromised == UNCHANGED <<made, journal>> => Promised
  BY DEF Promised, DurableVerdict

LEMMA BeginPromised ==
    ASSUME IInv, NEW k \in Keys, BeginWorkspace(k) \/ BeginAgent(k)
    PROVE  Promised
<1> DEFINE r == run[k].record
<1>1. run[k].step = "begin" /\ Running(k)
  BY DEF BeginWorkspace, BeginAgent, Running
<1>2. r \in Records /\ Open(r)
  BY <1>1, RunnerFacts DEF StepInv
<1>3. PICK s \in {"workspace", "agent"}, step \in {"provision", "create"} :
        Commit(k, [r EXCEPT !.inFlight = s], step)
  BY DEF BeginWorkspace, BeginAgent
<1>4. PICK q \in Records : q = [r EXCEPT !.inFlight = s]
  BY <1>2, RecordsUpdated DEF AllStages, Phases
<1>5. Open(q)
  BY <1>2, <1>4 DEF Open, Records
<1> QED
  BY <1>1, <1>3, <1>4, <1>5, MilestonePromised DEF Steps

LEMMA ReadyPromised ==
    ASSUME IInv, NEW k \in Keys, WorkspaceReady(k) \/ AgentReady(k) \/ PromptStarted(k)
    PROVE  Promised
<1> DEFINE r == run[k].record
<1>1. run[k].step \in {"provisioned", "registered", "prompted"} /\ Running(k)
  BY DEF WorkspaceReady, AgentReady, PromptStarted, Running
<1>2. r \in Records /\ Open(r)
  BY <1>1, RunnerFacts DEF StepInv
<1>3. \E q \in Records, step \in Steps : Commit(k, q, step) /\ Open(q)
  <2>1. CASE WorkspaceReady(k)
    <3>1. PICK q \in Records :
            q = [r EXCEPT !.inFlight = "none", !.workspace = TRUE, !.phase = "workspace_ready"]
      BY <1>2, RecordsUpdated DEF Phases
    <3> QED
      BY <1>2, <2>1, <3>1 DEF WorkspaceReady, Open, Records, Steps
  <2>2. CASE AgentReady(k)
    <3>1. PICK s \in {"prompt", "none"} : s = IF "prompt" \in Stages[k] THEN "prompt" ELSE "none"
      OBVIOUS
    <3>2. PICK q \in Records : q = [r EXCEPT !.inFlight = s, !.agent = TRUE, !.phase = "agent_ready"]
      BY <1>2, RecordsUpdated DEF Phases, AllStages
    <3> QED
      BY <1>2, <2>2, <3>1, <3>2 DEF AgentReady, Open, Records, Steps
  <2>3. CASE PromptStarted(k)
    <3>1. PICK q \in Records : q = [r EXCEPT !.inFlight = "none", !.phase = "prompt_started"]
      BY <1>2, RecordsUpdated DEF Phases
    <3> QED
      BY <1>2, <2>3, <3>1 DEF PromptStarted, Open, Records, Steps
  <2> QED
    BY <2>1, <2>2, <2>3
<1> QED
  BY <1>1, <1>3, MilestonePromised

LEMMA CompletePromised == ASSUME IInv, NEW k \in Keys, Complete(k) PROVE Promised
<1> DEFINE r == run[k].record
<1>1. run[k].step = "begin" /\ Running(k)
  BY DEF Complete, Running
<1>2. r \in Records /\ Open(r) /\ Exact(k, r) /\ Open(journal[k])
  BY <1>1, RunnerFacts DEF StepInv
<1>3. PICK q \in Records : q = [r EXCEPT !.inFlight = "none", !.phase = "completed"]
  BY <1>2, RecordsUpdated DEF Phases
<1>4. VerdictOf(q) = "done" /\ VerdictOf(journal[k]) = "open" /\ UNCHANGED made
  BY <1>2, <1>3, OpenVerdict, AbsentAssumption DEF VerdictOf, Open, Records, Complete
<1>5. \A s \in Stages[k] : made[k][s] = 1
  BY <1>2, StagesAssumption DEF Complete, NeedsWorkspace, NeedsAgent, Exact, AllStages
<1>6. CASE journal' = [journal EXCEPT ![k] = q]
  <2>1. DurableVerdict[k] = "open" /\ DurableVerdict' = [DurableVerdict EXCEPT ![k] = "done"]
    BY <1>4, <1>6, VerdictWritten DEF IInv
  <2>2. Abstract!Conclude(k)
    BY <1>4, <1>5, <2>1 DEF Abstract!Conclude
  <2> QED
    BY <2>2 DEF Promised, Abstract!AbstractNext
<1>7. CASE UNCHANGED journal
  BY <1>4, <1>7, NothingPromised
<1> QED
  BY <1>3, <1>6, <1>7 DEF Complete, Lands, Throws

LEMMA FailPromised == ASSUME IInv, NEW k \in Keys, Fail(k) PROVE Promised
<1>1. run[k].step \in {"failing", "rejected"} /\ Running(k) /\ UNCHANGED made
  BY DEF Fail, Running
<1>2. PICK q \in Records : q = Failed(k, run[k].record) /\ q.phase = "failed"
  BY <1>1, FailedRecord
<1>3. VerdictOf(journal[k]) = "open"
  BY <1>1, RunnerFacts, OpenVerdict
<1>4. CASE journal' = [journal EXCEPT ![k] = q] /\ q.unknown
  BY <1>1, <1>3, <1>4, DoubtPromised DEF IInv
<1>5. CASE journal' = [journal EXCEPT ![k] = q] /\ ~q.unknown
  <2>1. VerdictOf(q) = "open"
    BY <1>2, <1>5, OpenVerdict DEF Open
  <2> QED
    BY <1>1, <1>3, <1>5, <2>1, VerdictWritten DEF IInv, Promised
<1>6. CASE UNCHANGED journal
  BY <1>1, <1>6, NothingPromised
<1> QED
  BY <1>2, <1>4, <1>5, <1>6 DEF Fail, Lands, Throws

LEMMA RunStepPromised == ASSUME IInv, NEW k \in Keys, RunStep(k) PROVE Promised
<1>1. CASE Provision(k)
  <2>1. run[k].step = "provision" /\ Running(k)
    BY <1>1 DEF Provision, Running
  <2>2. "workspace" \in Stages[k] /\ made[k]["workspace"] = 0
    BY <2>1, RunnerFacts DEF StepInv, NeedsWorkspace, Exact
  <2> QED
    BY <1>1, <2>1, <2>2, EffectPromised, NothingPromised
    DEF Provision, Acts, Unacted, Only, AllStages
<1>2. CASE CreateAgent(k)
  <2>1. run[k].step = "create" /\ Running(k)
    BY <1>2 DEF CreateAgent, Running
  <2>2. "agent" \in Stages[k] /\ made[k]["agent"] = 0
    BY <2>1, RunnerFacts DEF StepInv, NeedsAgent, Exact
  <2> QED
    BY <1>2, <2>1, <2>2, EffectPromised, NothingPromised
    DEF CreateAgent, Acts, Unacted, Only, AllStages
<1>3. CASE Prompt(k)
  <2>1. run[k].step = "prompt" /\ Running(k)
    BY <1>3 DEF Prompt, Running
  <2>2. made[k]["prompt"] = 0
    BY <2>1, RunnerFacts DEF StepInv
  <2> QED
    BY <1>3, <2>1, <2>2, EffectPromised, NothingPromised
    DEF Prompt, Unacted, Only, AllStages
<1>4. CASE PromptSilent(k)
  BY <1>4, NothingPromised DEF PromptSilent, Unacted, Only
<1> QED
  BY <1>1, <1>2, <1>3, <1>4, BeginPromised, ReadyPromised, CompletePromised, FailPromised
  DEF RunStep

LEMMA AdmitsPromised ==
    ASSUME IInv, NEW k \in Keys, NEW i \in Intents, NEW mine \in BOOLEAN, Admits(k, i, mine)
    PROVE  Promised
<1>1. UNCHANGED made /\ ServiceType
  BY DEF Admits, IInv
<1>2. CASE UNCHANGED journal
  BY <1>1, <1>2, NothingPromised
<1>3. CASE journal[k] = Absent /\ journal' = [journal EXCEPT ![k] = InitialRecord(i)]
  <2>1. PICK q \in Records : q = InitialRecord(i)
    BY DEF InitialRecord, Records, Phases
  <2>2. Open(q)
    BY <2>1 DEF InitialRecord, Open
  <2>3. VerdictOf(q) = "open" /\ VerdictOf(journal[k]) = "open"
    BY <1>3, <2>2, OpenVerdict
  <2> QED
    BY <1>1, <1>3, <2>1, <2>3, VerdictWritten DEF Promised
<1>4. CASE /\ journal[k] # Absent /\ journal[k].phase # "completed"
           /\ journal' = [journal EXCEPT ![k] = Doubted(journal[k])]
  <2>1. PICK q \in Records : q = Doubted(journal[k]) /\ q.unknown
    BY <1>1, <1>4, DoubtedRecord DEF ServiceType
  <2> QED
    BY <1>1, <1>4, <2>1, DoubtPromised DEF VerdictOf
<1> QED
  BY <1>2, <1>3, <1>4 DEF Admits, Lands, Throws

LEMMA InstallPromised == ASSUME IInv, NEW k \in Keys, Install(k) PROVE Promised
<1>1. /\ UNCHANGED made /\ ServiceType /\ admission # Absent /\ admission.key = k
  BY DEF Install, IInv
<1>2. admission.record = journal[k] /\ Open(journal[k]) /\ journal[k] \in Records
  BY <1>1 DEF IInv, AdmissionInv, ServiceType
<1>3. PICK q \in Records : q = Revived(journal[k])
  BY <1>2 DEF Revived, Records, Phases
<1>4. CASE journal' = [journal EXCEPT ![k] = q]
  <2>1. Open(q)
    BY <1>2, <1>3 DEF Revived, Open, Records
  <2>2. VerdictOf(q) = "open" /\ VerdictOf(journal[k]) = "open"
    BY <1>2, <2>1, OpenVerdict
  <2> QED
    BY <1>1, <1>4, <2>2, VerdictWritten DEF Promised
<1>5. CASE UNCHANGED journal
  BY <1>1, <1>5, NothingPromised
<1> QED
  BY <1>2, <1>3, <1>4, <1>5 DEF Install, Lands, Throws

LEMMA SubscribePromised == ASSUME IInv, NEW k \in Keys, SubscribeStep(k) PROVE Promised
<1>1. CASE UNCHANGED <<made, journal>>
  BY <1>1, NothingPromised
<1>2. CASE /\ journal[k] # Absent /\ journal[k].inFlight # "none" /\ UNCHANGED made
           /\ journal' = [journal EXCEPT ![k] = Doubted(journal[k])]
  <2>1. PICK q \in Records : q = Doubted(journal[k]) /\ q.unknown
    BY <1>2, DoubtedRecord DEF IInv, ServiceType
  <2>2. VerdictOf(journal[k]) # "done"
    BY <1>2 DEF IInv, KeyInv, JournalInv, VerdictOf
  <2> QED
    BY <1>2, <2>1, <2>2, DoubtPromised DEF IInv
<1> QED
  BY <1>1, <1>2 DEF SubscribeStep, SubscribeWaited, SubscribeRead, Lands, Throws, service

(* Every step of the journal, its client and its crashes is a step of the      *)
(* promise or changes nothing of it.                                           *)
LEMMA StepImplements == IInv /\ [Next]_vars => [Abstract!AbstractNext]_<<made, DurableVerdict>>
<1> SUFFICES ASSUME IInv, [Next]_vars PROVE Promised
  BY DEF Promised
<1>1. CASE DaemonStep
  <2>1. PICK k \in Keys :
          \/ RunStep(k) \/ AdmissionStep(k) \/ SubscribeStep(k)
          \/ AdmitCall(k)
          \/ \E i \in Intents : AdmitOther(k, i)
          \/ \E s \in {"workspace", "agent"} : Delete(k, s)
    BY <1>1 DEF DaemonStep
  <2>2. ASSUME NEW s, Claim(k, s) \/ Delete(k, s) PROVE Promised
    BY <2>2, NothingPromised DEF Claim, Delete
  <2> QED
    BY <2>1, <2>2, RunStepPromised, InstallPromised, SubscribePromised, AdmitsPromised
    DEF AdmissionStep, AdmitCall, AdmitClient, AdmitOther
<1>2. CASE DaemonCrash \/ UNCHANGED service
  BY <1>2, NothingPromised DEF DaemonCrash, Crash, service
<1>3. [Next]_vars => DaemonStep \/ DaemonCrash \/ UNCHANGED service
  BY DEF Next, Start, Settle, Resubmit, Disconnect, Reconnect, vars, creationVars
<1> QED
  BY <1>1, <1>2, <1>3

(* The creation journal implements the promise of AtMostOnce. *)
THEOREM CreationsImplement == Spec => ImplementsAtMostOnce
<1>1. Init => Abstract!AbstractInit
  BY DEF Init, CreationInit, Abstract!AbstractInit, DurableVerdict
<1> QED
  BY <1>1, JournalInvariant, StepImplements, PTL
     DEF Spec, ImplementsAtMostOnce, Abstract!AbstractSpec, Abstract!abstractVars

----------------------------------------------------------------------------
(* What clients are told. A verdict, once durable, is final, so that whoever   *)
(* was told of it was told for good.                                           *)

(* An answer v that holds of the receipt r. *)
Says(r, v) ==
    /\ v = "completed" => VerdictOf(r) = "done"
    /\ v = "unknown" => VerdictOf(r) = "unknown"

OutcomeInv ==
    /\ reply \in [Keys -> Replies] /\ op \in [Keys -> Outcomes]
    /\ \A k \in Keys :
         /\ VerdictOf(journal[k]) = "done" => \A s \in Stages[k] : made[k][s] = 1
         /\ Says(journal[k], reply[k]) /\ Says(journal[k], op[k])

(* A step of the promise changes no verdict, and concludes only what took     *)
(* effect.                                                                     *)
LEMMA FinalVerdict ==
    ASSUME Promised, NEW k \in Keys,
           VerdictOf(journal[k]) = "done" => \A s \in Stages[k] : made[k][s] = 1
    PROVE  /\ VerdictOf(journal[k]) # "open" => VerdictOf(journal'[k]) = VerdictOf(journal[k])
           /\ VerdictOf(journal'[k]) = "done" => \A s \in Stages[k] : made'[k][s] = 1
<1> DEFINE D == [n \in Keys |-> VerdictOf(journal[n])]
<1>1. /\ DurableVerdict = D /\ DurableVerdict' = D'
      /\ D[k] = VerdictOf(journal[k]) /\ D'[k] = VerdictOf(journal'[k])
      /\ DOMAIN D = Keys
  BY DEF DurableVerdict, VerdictOf
<1> HIDE DEF D
<1>2. CASE UNCHANGED <<made, DurableVerdict>>
  BY <1>1, <1>2
<1>3. ASSUME NEW n \in Keys, NEW e \in AllStages, Abstract!Perform(n, e)
      PROVE  /\ D' = D /\ (D[k] # "open" => made'[k] = made[k])
  BY <1>1, <1>3 DEF Abstract!Perform
<1>4. ASSUME NEW n \in Keys, Abstract!Conclude(n)
      PROVE  /\ D[k] # "open" => D'[k] = D[k]
             /\ D'[k] = "done" => \A s \in Stages[k] : made'[k][s] = 1
  <2>1. /\ D[n] = "open" /\ (\A s \in Stages[n] : made[n][s] = 1)
        /\ D' = [D EXCEPT ![n] = "done"] /\ made' = made
    BY <1>1, <1>4 DEF Abstract!Conclude
  <2>2. CASE k = n
    BY <2>1, <2>2
  <2>3. CASE k # n
    BY <1>1, <2>1, <2>3
  <2> QED
    BY <2>2, <2>3
<1>5. ASSUME NEW n \in Keys, Abstract!Doubt(n)
      PROVE  /\ D[k] # "open" => D'[k] = D[k]
             /\ D'[k] = "done" => D[k] = "done" /\ made' = made
  <2>1. D[n] = "open" /\ D' = [D EXCEPT ![n] = "unknown"] /\ made' = made
    BY <1>1, <1>5 DEF Abstract!Doubt
  <2> QED
    BY <1>1, <2>1
<1>6. CASE Abstract!AbstractNext
  BY <1>1, <1>3, <1>4, <1>5, <1>6 DEF Abstract!AbstractNext
<1> QED
  BY <1>2, <1>6 DEF Promised

(* What a receipt's own verdict says of it. *)
LEMMA VerdictSaid ==
    ASSUME NEW r \in Records
    PROVE  /\ Says(r, Verdict(r))
           /\ Terminal(r) \/ r.unknown => Verdict(r) \in Replies
  BY AbsentAssumption DEF Says, Verdict, VerdictOf, Terminal, Records, Phases, Replies

(* The step tells nobody anything, or what its receipt says after it. *)
Heard ==
    /\ reply' \in [Keys -> Replies]
    /\ \A n \in Keys : reply'[n] = reply[n] \/ Says(journal'[n], reply'[n])

LEMMA AnswerHeard ==
    ASSUME reply \in [Keys -> Replies], NEW k \in Keys, NEW mine, NEW v \in Replies,
           Answer(k, mine, v) \/ Announce(k, mine, v), Says(journal'[k], v)
    PROVE  Heard
  BY DEF Heard, Answer, Announce

LEMMA ErrorSaid == \A r : Says(r, "error") /\ Says(r, "none") /\ Says(r, "missing") /\ Says(r, "failed")
  BY DEF Says

LEMMA SilentHeard == reply \in [Keys -> Replies] /\ UNCHANGED reply => Heard
  BY DEF Heard

LEMMA DoubtSaid ==
    ASSUME ServiceType, NEW k \in Keys, journal[k] # Absent,
           journal' = [journal EXCEPT ![k] = Doubted(journal[k])]
    PROVE  Says(journal'[k], "unknown")
<1>1. journal[k] \in Records /\ journal'[k] = Doubted(journal[k])
  BY DEF ServiceType
<1>2. journal'[k] # Absent /\ journal'[k].unknown
  BY <1>1, DoubtedRecord, AbsentAssumption
<1> QED
  BY <1>2 DEF Says, VerdictOf

LEMMA AdmitsHeard ==
    ASSUME IInv, reply \in [Keys -> Replies], NEW k \in Keys, NEW i \in Intents,
           NEW mine \in BOOLEAN, Admits(k, i, mine)
    PROVE  Heard
<1> DEFINE r == journal[k]
<1>1. ServiceType
  BY DEF IInv
<1>2. CASE \E place : Advance(k, mine, place)
  BY <1>2, SilentHeard DEF Advance
<1>3. CASE Answer(k, mine, "error")
  BY <1>3, AnswerHeard, ErrorSaid DEF Replies
<1>4. CASE /\ r # Absent /\ (r.phase = "completed" \/ r.unknown) /\ UNCHANGED journal
           /\ Answer(k, mine, Verdict(r))
  <2>1. r \in Records
    BY <1>1, <1>4 DEF ServiceType
  <2>2. Says(journal'[k], Verdict(r)) /\ Verdict(r) \in Replies
    BY <1>4, <2>1, VerdictSaid DEF Terminal
  <2> QED
    BY <1>4, <2>2, AnswerHeard
<1>5. CASE r # Absent /\ Lands(k, Doubted(r)) /\ Announce(k, mine, "unknown")
  BY <1>1, <1>5, AnswerHeard, DoubtSaid DEF Lands, Replies
<1> QED
  BY <1>2, <1>3, <1>4, <1>5 DEF Admits

LEMMA RunStepHeard ==
    ASSUME IInv, reply \in [Keys -> Replies], NEW k \in Keys, RunStep(k)
    PROVE  Heard
<1>1. CASE UNCHANGED reply
  BY <1>1, SilentHeard
<1>2. CASE Complete(k)
  <2> DEFINE r == run[k].record
  <2>1. run[k].step = "begin" /\ Running(k)
    BY <1>2 DEF Complete, Running
  <2>2. r \in Records /\ ~r.unknown
    BY <2>1, RunnerFacts
  <2>3. PICK q \in Records : q = [r EXCEPT !.inFlight = "none", !.phase = "completed"]
    BY <2>2, RecordsUpdated DEF Phases
  <2>4. q # Absent /\ ~q.unknown /\ q.phase = "completed"
    BY <2>2, <2>3, AbsentAssumption DEF Records
  <2>5. CASE Lands(k, q) /\ Announce(k, call[k] = "running", "completed")
    <3>1. journal'[k] = q
      BY <2>5 DEF Lands, IInv, ServiceType
    <3>2. Says(journal'[k], "completed")
      BY <2>4, <3>1 DEF Says, VerdictOf
    <3> QED
      BY <2>5, <3>2, AnswerHeard DEF Replies
  <2> QED
    BY <1>1, <1>2, <2>3, <2>5 DEF Complete, edge
<1>3. CASE Fail(k)
  <2>1. PICK q \in Records : q = Failed(k, run[k].record) /\ q.phase = "failed"
    BY <1>3, FailedRecord DEF Fail
  <2>2. CASE Lands(k, q) /\ Announce(k, call[k] = "running", Verdict(q))
    <3>1. journal'[k] = q
      BY <2>2 DEF Lands, IInv, ServiceType
    <3> QED
      BY <2>1, <2>2, <3>1, VerdictSaid, AnswerHeard DEF Terminal
  <2>3. CASE Answer(k, call[k] = "running", "error")
    BY <2>3, AnswerHeard, ErrorSaid DEF Replies
  <2> QED
    BY <1>3, <2>1, <2>2, <2>3 DEF Fail
<1> QED
  BY <1>1, <1>2, <1>3
  DEF RunStep, BeginWorkspace, Provision, WorkspaceReady, BeginAgent, CreateAgent, AgentReady,
      Prompt, PromptStarted, PromptSilent, Commit, Only, edge

LEMMA AdmissionHeard ==
    ASSUME reply \in [Keys -> Replies], NEW k \in Keys, AdmissionStep(k)
    PROVE  Heard
<1>1. UNCHANGED reply \/ Answer(k, call[k] = "held", "error")
  BY DEF AdmissionStep, Claim, Install, Advance, edge
<1> QED
  BY <1>1, SilentHeard, AnswerHeard, ErrorSaid DEF Replies

LEMMA SubscribeHeard ==
    ASSUME IInv, reply \in [Keys -> Replies], NEW k \in Keys, SubscribeStep(k)
    PROVE  Heard
<1> DEFINE r == journal[k]
<1>1. CASE UNCHANGED reply
  BY <1>1, SilentHeard
<1>2. ASSUME NEW v \in Replies, reply' = [reply EXCEPT ![k] = v], Says(journal'[k], v)
      PROVE  Heard
  BY <1>2 DEF Heard
<1>3. CASE r # Absent /\ Lands(k, Doubted(r)) /\ reply' = [reply EXCEPT ![k] = "unknown"]
  BY <1>2, <1>3, DoubtSaid DEF IInv, Lands, Replies
<1>4. CASE reply' = [reply EXCEPT ![k] = "error"]
  BY <1>2, <1>4, ErrorSaid DEF Replies
<1>5. CASE UNCHANGED journal /\ Observed(r) # "none" /\ reply' = [reply EXCEPT ![k] = Observed(r)]
  <2>1. CASE r = Absent
    BY <1>2, <1>5, <2>1, ErrorSaid DEF Observed, Replies
  <2>2. CASE r # Absent
    <3>1. r \in Records
      BY <2>2 DEF IInv, ServiceType
    <3>2. Terminal(r) /\ Observed(r) = Verdict(r)
      BY <1>5, <2>2 DEF Observed
    <3> QED
      BY <1>2, <1>5, <3>1, <3>2, VerdictSaid
  <2> QED
    BY <2>1, <2>2
<1> QED
  BY <1>1, <1>3, <1>4, <1>5 DEF SubscribeStep, SubscribeWaited, SubscribeRead

LEMMA DaemonHeard ==
    ASSUME IInv, reply \in [Keys -> Replies], DaemonStep
    PROVE  Heard
<1>1. PICK k \in Keys :
        \/ RunStep(k) \/ AdmissionStep(k) \/ SubscribeStep(k)
        \/ AdmitCall(k)
        \/ \E i \in Intents : AdmitOther(k, i)
        \/ \E s \in {"workspace", "agent"} : Delete(k, s)
  BY DEF DaemonStep
<1>2. ASSUME NEW s, Delete(k, s) PROVE Heard
  BY <1>2, SilentHeard DEF Delete, edge
<1> QED
  BY <1>1, <1>2, RunStepHeard, AdmissionHeard, SubscribeHeard, AdmitsHeard
  DEF AdmitCall, AdmitClient, AdmitOther

(* The client's own steps end an operation with what it was told, or forget it. *)
LEMMA ClientHeard ==
    ASSUME OutcomeInv, [Next]_vars
    PROVE  /\ DaemonStep \/ Heard
           /\ op' \in [Keys -> Outcomes]
           /\ \A n \in Keys : op'[n] \in {op[n], reply[n], "waiting"}
<1> USE DEF OutcomeInv
<1>1. CASE \E k \in Keys, i \in Intents : Start(k, i)
  BY <1>1, ErrorSaid DEF Start, Heard, Replies, Outcomes
<1>2. CASE \E k \in Keys : Settle(k)
  <2>1. PICK k \in Keys : Settle(k)
    BY <1>2
  <2>2. reply[k] \in Outcomes
    BY <2>1 DEF Settle, Replies, Outcomes
  <2>3. Heard
    BY <2>1, ErrorSaid DEF Settle, Heard, Replies
  <2> QED
    BY <2>1, <2>2, <2>3 DEF Settle
<1>3. CASE \E k \in Keys : Resubmit(k)
  BY <1>3, ErrorSaid DEF Resubmit, Heard, Replies, client
<1>4. CASE Disconnect \/ DaemonCrash
  BY <1>4, ErrorSaid DEF Disconnect, DaemonCrash, Crash, Heard, Replies
<1>5. CASE Reconnect \/ UNCHANGED vars
  BY <1>5 DEF Reconnect, vars, creationVars, edge, client, Heard
<1>6. CASE DaemonStep
  BY <1>6 DEF DaemonStep, client
<1> QED
  BY <1>1, <1>2, <1>3, <1>4, <1>5, <1>6 DEF Next

LEMMA OutcomeStep == IInv /\ OutcomeInv /\ [Next]_vars => OutcomeInv'
<1> SUFFICES ASSUME IInv, OutcomeInv, [Next]_vars PROVE OutcomeInv'
  OBVIOUS
<1>1. Heard /\ op' \in [Keys -> Outcomes] /\ \A n \in Keys : op'[n] \in {op[n], reply[n], "waiting"}
  BY ClientHeard, DaemonHeard DEF OutcomeInv
<1>2. Promised
  BY StepImplements DEF Promised
<1>3. ASSUME NEW k \in Keys
      PROVE  /\ VerdictOf(journal[k]) # "open" => VerdictOf(journal'[k]) = VerdictOf(journal[k])
             /\ VerdictOf(journal'[k]) = "done" => \A s \in Stages[k] : made'[k][s] = 1
  BY <1>2, FinalVerdict DEF OutcomeInv
<1>4. ASSUME NEW k \in Keys
      PROVE  Says(journal'[k], reply'[k]) /\ Says(journal'[k], op'[k])
  <2>1. Says(journal'[k], reply[k]) /\ Says(journal'[k], op[k])
    BY <1>3 DEF OutcomeInv, Says
  <2>2. Says(journal'[k], "waiting")
    BY DEF Says
  <2> QED
    BY <1>1, <2>1, <2>2 DEF Heard
<1> QED
  BY <1>1, <1>3, <1>4 DEF OutcomeInv, Heard

THEOREM OutcomesHold == Spec => []OutcomeInv
<1>1. Init => OutcomeInv
  BY ErrorSaid DEF Init, CreationInit, OutcomeInv, VerdictOf, Replies, Outcomes
<1> QED
  BY <1>1, OutcomeStep, JournalInvariant, PTL DEF Spec

(* What a client's operation is told is true for good: completed means that   *)
(* every stage took effect once, unknown that no later call tries any          *)
(* (receive and finish in client/src/creation/index.ts).                       *)
THEOREM OutcomeDurable == Spec => []OutcomeIsDurable
<1>1. IInv /\ OutcomeInv => OutcomeIsDurable
  <2> SUFFICES ASSUME IInv, OutcomeInv, NEW k \in Keys
               PROVE  /\ op[k] = "completed" =>
                           /\ journal[k].phase = "completed"
                           /\ \A s \in Stages[k] : made[k][s] = 1
                      /\ op[k] = "unknown" => journal[k].unknown /\ ~Running(k)
    BY DEF OutcomeIsDurable
  <2>1. VerdictOf(journal[k]) = "done" => journal[k].phase = "completed"
    BY DEF VerdictOf
  <2>2. VerdictOf(journal[k]) = "unknown" => journal[k].unknown /\ ~Running(k)
    BY RunnerFacts DEF VerdictOf, Open
  <2> QED
    BY <2>1, <2>2 DEF OutcomeInv, Says
<1> QED
  BY <1>1, JournalInvariant, OutcomesHold, PTL
=============================================================================
