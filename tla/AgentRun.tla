------------------------------ MODULE AgentRun ------------------------------
(***************************************************************************)
(* The run of one agent inside AgentManager: the run map of AgentRunState, *)
(* the turn fields of the managed agent, the serialized queue of provider  *)
(* events, and the foreground-mutation lane in which Stop, replacement and *)
(* steering take their turns.  The daemon is single threaded, so an action *)
(* is the code between two awaits that wait for another actor.             *)
(***************************************************************************)
EXTENDS Naturals, Sequences

CONSTANTS
  Callers,          \* clients that send, steer or stop
  MaxRuns,          \* BOUND: tracked runs per behaviour
  MaxTurns,         \* BOUND: turn ids per behaviour
  MaxAnonymous,     \* BOUND: terminal events the provider sends without a turn id
  Endings,          \* BOUND: how the provider may end a turn, out of Terminal
  Operations,       \* BOUND: what the clients ask for, out of send, stop and steer
  FinalizedCap,     \* how many finished turn ids are remembered (50 in the code)
  CheckpointsTurns  \* FALSE for an internal agent, which takes no turn snapshot

ASSUME BoundsAssumption ==
  /\ MaxRuns \in Nat
  /\ MaxTurns \in Nat
  /\ MaxAnonymous \in Nat
  /\ Operations \subseteq {"send", "stop", "steer"}
  /\ Endings \subseteq {"turn_completed", "turn_failed", "turn_canceled"}
  /\ FinalizedCap \in Nat \ {0}
  /\ CheckpointsTurns \in BOOLEAN

VARIABLES
  agent,      \* the managed agent's lifecycle and turn fields
  cur,        \* the token of the run in AgentRunState.runs, or NoRun
  run,        \* token -> the run object
  settled,    \* tokens whose settledPromise has resolved
  gen,        \* token -> where its stream generator stands
  heard,      \* tokens whose stream has received a terminal event
  queue,      \* provider events waiting in the session event tail
  barrier,    \* the steer barrier and the events it holds
  lane,       \* foreground mutations, the head is the running one
  op,         \* progress of the running mutation
  pc,         \* caller -> where its request stands
  expected,   \* caller -> the turn its steer was admitted against
  prov,       \* turn -> what the provider does with it
  owner,      \* turn -> the run whose startTurn opened it, or NoRun
  announced,  \* turns whose turn_started has been emitted
  doomed,     \* runs whose startTurn predates an acknowledged interrupt
  anonymous,  \* terminal events sent without a turn id so far
  uncovered,  \* history: runs in their turn snapshot when an interrupt was acknowledged
  mistaken    \* history: runs that a terminal event without a turn id ended

managerVars == <<agent, cur, run, settled, gen, heard, queue, barrier>>
laneVars == <<lane, op, pc, expected>>
providerVars == <<prov, owner, announced, doomed, anonymous>>
vars == <<managerVars, laneVars, providerVars>>
histories == <<uncovered, mistaken>>

NoRun == 0
NoTurn == 0
Runs == 1..MaxRuns
Turns == 1..MaxTurns

Terminal == {"turn_completed", "turn_failed", "turn_canceled"}
Event == [type : Terminal \cup {"turn_started"}, turn : Turns \cup {NoTurn}]
NoBarrier == [held |-> FALSE, events |-> <<>>]
NoOp == [phase |-> "none", run |-> NoRun, acked |-> FALSE, accepted |-> FALSE]
UnusedRun == [kind |-> "none", start |-> "pending", turn |-> NoTurn,
              staged |-> <<>>, replacement |-> FALSE]
\* A run whose generator returned: nothing refers to the object any longer.
CollectedRun == [UnusedRun EXCEPT !.kind = "collected"]

-----------------------------------------------------------------------------
(* The turn fields of the agent, as functions of the agent record.         *)

\* applyActiveTurnTerminal: what a terminal event means for the active turn.
Disposition(a, t) ==
  CASE a.turn = NoTurn -> "untracked"
    [] a.turn # NoTurn /\ t # NoTurn /\ a.turn # t -> "stale"
    [] OTHER -> "closed_current"

CloseActiveTurn(a, t) ==
  IF Disposition(a, t) = "closed_current" THEN [a EXCEPT !.turn = NoTurn] ELSE a

IsFinalized(a, t) == \E i \in DOMAIN a.finalized : a.finalized[i] = t

\* Mutant: an event without a turn id is remembered too.
RememberAny(a, t) ==
  IF IsFinalized(a, t) THEN a.finalized ELSE Append(a.finalized, t)

\* rememberFinalizedTurn: a set in insertion order that forgets its oldest id.
Remember(a, t) ==
  IF t = NoTurn \/ IsFinalized(a, t) THEN a.finalized
  ELSE LET ids == Append(a.finalized, t)
       IN  IF Len(ids) > FinalizedCap THEN Tail(ids) ELSE ids

FinalizeForegroundTurn(a, t) ==
  LET b == CloseActiveTurn([a EXCEPT !.finalized = Remember(a, t), !.fg = NoTurn], t)
      held == b.replacing /\ ~b.lastError
  IN  [b EXCEPT !.lifecycle = IF held THEN "running"
                              ELSE IF b.lastError THEN "error" ELSE "idle"]

\* attachManagedTurnIdentity for a terminal event: one without a turn id
\* belongs to whatever turn is active.
IdentifiedTurn(a, e) ==
  IF e.turn # NoTurn THEN e.turn ELSE IF a.fg # NoTurn THEN a.fg ELSE a.turn

IsForegroundEvent(a, t) == t # NoTurn /\ a.fg = t

\* onStreamTurnCompleted, onStreamTurnFailed and onStreamTurnCanceled, after
\* the active turn was closed: d is the disposition of the event.
AfterTerminal(a, type, t, d) ==
  LET unowned == ~IsForegroundEvent(a, t) /\ a.fg = NoTurn
      ended == [a EXCEPT !.lastError = (type = "turn_failed")]
  IN  IF d = "stale" THEN a
      ELSE IF type = "turn_failed"
      THEN [ended EXCEPT !.lifecycle = IF unowned THEN "error" ELSE @]
      ELSE [ended EXCEPT !.lifecycle = IF unowned /\ ~a.replacing THEN "idle" ELSE @]

\* The agent after handleStreamEvent on a terminal event of turn t.
HandleTerminal(a, type, t) ==
  LET b == AfterTerminal(CloseActiveTurn(a, t), type, t, Disposition(a, t))
  IN  IF IsForegroundEvent(a, t) THEN FinalizeForegroundTurn(b, t) ELSE b

-----------------------------------------------------------------------------
(* AgentRunState.                                                          *)

HasRun == cur # NoRun
InForeground(r) == run[r].kind = "foreground"
FreshRuns == {r \in Runs : run[r].kind = "none"}
NextRun == CHOOSE r \in FreshRuns : \A s \in FreshRuns : r <= s

HasInFlightRun == agent.lifecycle = "running" \/ agent.fg # NoTurn \/ HasRun

TrackedTurn == IF ~HasRun THEN NoTurn ELSE run[cur].turn

\* Mutant: any turn's end ends the foreground run.
EndsAnyRun(t) == HasRun

\* Mutant: only foreground runs are ended by a terminal event.
EndsForegroundRun(t) ==
  HasRun /\ InForeground(cur) /\ run[cur].start = "started" /\ run[cur].turn = t

\* settleTerminalRun: does a terminal event of turn t end the tracked run?
EndsRun(t) ==
  /\ HasRun
  /\ IF InForeground(cur)
     THEN run[cur].start = "started" /\ run[cur].turn = t
     ELSE run[cur].turn = NoTurn \/ t = NoTurn \/ run[cur].turn = t

\* Mutant: the run is dropped without resolving its promise.
ClearUnsettled(r) == cur' = NoRun /\ UNCHANGED settled

\* clearRun
ClearRun(r) == cur' = NoRun /\ settled' = settled \cup {r}
KeepRun == UNCHANGED <<cur, settled>>

\* Mutant: the token is not compared.
SettleAnyRun(r) == IF HasRun THEN ClearRun(cur) ELSE KeepRun

\* settleForegroundRun: only the run that still holds the token is cleared.
SettleForegroundRun(r) == IF cur = r THEN ClearRun(r) ELSE KeepRun

\* dispatchSessionEvent on a terminal event: waiters are matched by the turn
\* id the provider put on the event, and are told only if it was not a
\* duplicate of a finished turn.
DispatchTerminal(type, turn) ==
  LET t == IdentifiedTurn(agent, [type |-> type, turn |-> turn])
  IN  IF t # NoTurn /\ IsFinalized(agent, t)
      THEN UNCHANGED <<agent, cur, settled, heard>>
      ELSE /\ agent' = HandleTerminal(agent, type, t)
           /\ IF EndsRun(t) THEN ClearRun(cur) ELSE KeepRun
           /\ heard' = heard \cup {r \in Runs : /\ turn # NoTurn
                                                 /\ gen[r] = "streaming"
                                                 /\ run[r].turn = turn}

\* enqueueSessionEvent: a steer barrier comes first, then the staging list of
\* a run that has no turn id yet, then the session event tail.
Enqueue(es) ==
  IF barrier.held
  THEN /\ barrier' = [barrier EXCEPT !.events = @ \o es]
       /\ UNCHANGED <<run, queue>>
  ELSE IF HasRun /\ InForeground(cur) /\ run[cur].start = "pending"
  THEN /\ run' = [run EXCEPT ![cur].staged = @ \o es]
       /\ UNCHANGED <<barrier, queue>>
  ELSE /\ queue' = queue \o es
       /\ UNCHANGED <<barrier, run>>

-----------------------------------------------------------------------------
StateTypes ==
  /\ agent \in [lifecycle : {"idle", "running", "error"}, fg : Turns \cup {NoTurn},
                turn : Turns \cup {NoTurn}, lastError : BOOLEAN,
                replacing : BOOLEAN, finalized : Seq(Turns)]
  /\ cur \in Runs \cup {NoRun}
  /\ run \in [Runs -> [kind : {"none", "foreground", "autonomous", "collected"},
                       start : {"pending", "started", "failed"},
                       turn : Turns \cup {NoTurn}, staged : Seq(Event),
                       replacement : BOOLEAN]]
  /\ settled \in SUBSET Runs
  /\ gen \in [Runs -> {"none", "checkpoint", "starting", "streaming", "ended"}]
  /\ heard \in SUBSET Runs
  /\ queue \in Seq(Event)
  /\ barrier \in [held : BOOLEAN, events : Seq(Event)]
  /\ lane \in Seq([caller : Callers, kind : {"cancel", "steer"}])
  /\ op \in [phase : {"none", "interrupting", "settling", "forced", "draining",
                      "admitting", "closing"},
             run : Runs \cup {NoRun}, acked : BOOLEAN, accepted : BOOLEAN]
  /\ pc \in [Callers -> {"idle", "stopping", "replacing", "proceed", "refused",
                         "steering", "declined"}]
  /\ expected \in [Callers -> Turns \cup {NoTurn}]
  /\ prov \in [Turns -> {"unused", "live", "stopped", "over"}]
  /\ owner \in [Turns -> Runs \cup {NoRun}]
  /\ announced \in SUBSET Turns
  /\ doomed \in SUBSET Runs
  /\ anonymous \in 0..MaxAnonymous
TypeOK == StateTypes /\ {uncovered, mistaken} \subseteq SUBSET Runs

Init ==
  /\ agent = [lifecycle |-> "idle", fg |-> NoTurn, turn |-> NoTurn,
              lastError |-> FALSE, replacing |-> FALSE, finalized |-> <<>>]
  /\ cur = NoRun
  /\ run = [r \in Runs |-> UnusedRun]
  /\ settled = {}
  /\ gen = [r \in Runs |-> "none"]
  /\ heard = {}
  /\ queue = <<>>
  /\ barrier = NoBarrier
  /\ lane = <<>>
  /\ op = NoOp
  /\ pc = [c \in Callers |-> "idle"]
  /\ expected = [c \in Callers |-> NoTurn]
  /\ prov = [t \in Turns |-> "unused"]
  /\ owner = [t \in Turns |-> NoRun]
  /\ announced = {}
  /\ doomed = {}
  /\ anonymous = 0
  /\ uncovered = {}
  /\ mistaken = {}

-----------------------------------------------------------------------------
(* Node runs every promise reaction before the next timer, message or       *)
(* provider callback.  The steps below that wait for one of those three are *)
(* guarded by Quiet: no reaction of the manager is left to run.             *)

Mutation == Head(lane)
RunSettled == op.run \in settled

LaneReacts ==
  /\ lane # <<>>
  /\ \/ op.phase \in {"none", "draining", "closing"}
     \/ op.phase \in {"settling", "forced"} /\ RunSettled

Quiet ==
  /\ queue = <<>>
  /\ heard = {}
  /\ ~LaneReacts
  /\ \A c \in Callers : pc[c] \notin {"proceed", "refused", "declined"}

-----------------------------------------------------------------------------
(* Requests of the clients.                                                *)

\* streamAgent admits a run only when nothing runs.
CanStream == agent.fg = NoTurn /\ ~HasRun

\* The synchronous part of streamAgent, and the consumer that starts pulling
\* the generator at once (startAgentRunInner).
StreamAgent ==
  /\ CanStream
  /\ FreshRuns # {}
  /\ run' = [run EXCEPT ![NextRun] =
       [UnusedRun EXCEPT !.kind = "foreground", !.replacement = agent.replacing]]
  /\ cur' = NextRun
  /\ agent' = [agent EXCEPT !.lastError = FALSE]
  /\ gen' = [gen EXCEPT ![NextRun] = IF CheckpointsTurns THEN "checkpoint" ELSE "starting"]
  /\ UNCHANGED <<settled, heard, queue, barrier>>

\* The part of replaceAgentRun before it waits for the cancellation.
BeginReplacement(c) ==
  /\ agent' = [agent EXCEPT !.replacing = TRUE, !.lifecycle = "running"]
  /\ lane' = Append(lane, [caller |-> c, kind |-> "cancel"])
  /\ pc' = [pc EXCEPT ![c] = "replacing"]
  /\ UNCHANGED <<cur, run, settled, gen, heard, queue, barrier, op>>

\* sendPromptToAgent with replaceRunning: start a run, or replace the run in
\* flight.
SendIdle(c) ==
  /\ Quiet
  /\ "send" \in Operations
  /\ pc[c] = "idle"
  /\ ~HasInFlightRun
  /\ StreamAgent
  /\ UNCHANGED <<laneVars, providerVars>>

SendBusy(c) ==
  /\ Quiet
  /\ "send" \in Operations
  /\ pc[c] = "idle"
  /\ HasInFlightRun
  /\ BeginReplacement(c)
  /\ expected' = [expected EXCEPT ![c] = NoTurn]
  /\ UNCHANGED providerVars

Stop(c) ==
  /\ Quiet
  /\ "stop" \in Operations
  /\ pc[c] = "idle"
  /\ lane' = Append(lane, [caller |-> c, kind |-> "cancel"])
  /\ pc' = [pc EXCEPT ![c] = "stopping"]
  /\ UNCHANGED <<managerVars, op, expected, providerVars>>

\* steerOrReplaceActiveTurn on a session that has steerActiveTurn.  With no
\* active turn, or no such operation, it is the send above.
Steer(c) ==
  LET t == IF agent.fg # NoTurn THEN agent.fg ELSE agent.turn IN
  /\ Quiet
  /\ "steer" \in Operations
  /\ pc[c] = "idle"
  /\ t # NoTurn
  /\ lane' = Append(lane, [caller |-> c, kind |-> "steer"])
  /\ pc' = [pc EXCEPT ![c] = "steering"]
  /\ expected' = [expected EXCEPT ![c] = t]
  /\ UNCHANGED <<managerVars, op, providerVars>>

\* A mutation that ends starts the next one three promise reactions later, one
\* before the request that ended goes on.
NextMutationStarted == lane # <<>> => op.phase # "none"

\* Mutant: the catch block does not clear pendingReplacement.
ReplaceRefusedUncleared(c) ==
  /\ NextMutationStarted
  /\ pc[c] = "refused"
  /\ pc' = [pc EXCEPT ![c] = "idle"]
  /\ UNCHANGED <<managerVars, lane, op, expected, providerVars>>

\* replaceAgentRun after cancelAgentRunBefore: refused, or start the new run.
ReplaceRefused(c) ==
  /\ NextMutationStarted
  /\ pc[c] = "refused"
  /\ agent' = [agent EXCEPT !.replacing = FALSE]
  /\ pc' = [pc EXCEPT ![c] = "idle"]
  /\ UNCHANGED <<cur, run, settled, gen, heard, queue, barrier, lane, op,
                 expected, providerVars>>

ReplaceStart(c) ==
  /\ NextMutationStarted
  /\ pc[c] = "proceed"
  /\ StreamAgent
  /\ pc' = [pc EXCEPT ![c] = "idle"]
  /\ UNCHANGED <<lane, op, expected, providerVars>>

\* streamAgent throws "already has an active run" inside the try block.
ReplaceOvertaken(c) ==
  /\ NextMutationStarted
  /\ pc[c] = "proceed"
  /\ ~CanStream
  /\ agent' = [agent EXCEPT !.replacing = FALSE]
  /\ pc' = [pc EXCEPT ![c] = "idle"]
  /\ UNCHANGED <<cur, run, settled, gen, heard, queue, barrier, lane, op,
                 expected, providerVars>>

\* steerOrReplaceActiveTurn after an unavailable answer: the expected turn is
\* replaced (directly, or through startOrReplaceRun when the turn is a tracked
\* autonomous one), and a newer turn is never touched.
SteerReplaces(c) ==
  /\ NextMutationStarted
  /\ pc[c] = "declined"
  /\ agent.turn = expected[c]
  /\ BeginReplacement(c)
  /\ UNCHANGED <<expected, providerVars>>

SteerOvertaken(c) ==
  /\ NextMutationStarted
  /\ pc[c] = "declined"
  /\ agent.turn # expected[c]
  /\ pc' = [pc EXCEPT ![c] = "idle"]
  /\ UNCHANGED <<managerVars, lane, op, expected, providerVars>>

-----------------------------------------------------------------------------
(* The foreground-mutation lane: cancelAgentRunNow and runSteerAdmission.  *)

\* The head leaves the lane and its caller goes on at step.
LeaveLane(step) ==
  /\ lane' = Tail(lane)
  /\ op' = NoOp
  /\ pc' = [pc EXCEPT ![Mutation.caller] = step]
  /\ UNCHANGED expected

AtHead(kind, phase) == lane # <<>> /\ Mutation.kind = kind /\ op.phase = phase

AfterCancel(c) == IF pc[c] = "replacing" THEN "proceed" ELSE "idle"
AfterRefusal(c) == IF pc[c] = "replacing" THEN "refused" ELSE "idle"

\* With nothing to cancel the answer is "not_running".
CancelNothing ==
  /\ AtHead("cancel", "none")
  /\ ~HasRun
  /\ agent.lifecycle # "running"
  /\ LeaveLane(AfterCancel(Mutation.caller))
  /\ UNCHANGED <<managerVars, providerVars>>

\* Capture the run, then ask the provider to interrupt.
CancelCapture ==
  /\ AtHead("cancel", "none")
  /\ HasRun
  /\ op' = [NoOp EXCEPT !.phase = "interrupting", !.run = cur]
  /\ UNCHANGED <<managerVars, lane, pc, expected, providerVars>>

\* trackAutonomousRun(agentId, null): an agent that shows running without a
\* tracked run gets a run that no turn id owns.
CancelUntracked ==
  /\ AtHead("cancel", "none")
  /\ ~HasRun
  /\ agent.lifecycle = "running"
  /\ FreshRuns # {}
  /\ run' = [run EXCEPT ![NextRun] = [UnusedRun EXCEPT !.kind = "autonomous"]]
  /\ cur' = NextRun
  /\ op' = [NoOp EXCEPT !.phase = "interrupting", !.run = NextRun]
  /\ UNCHANGED <<agent, settled, gen, heard, queue, barrier, lane, pc,
                 expected, providerVars>>

\* The provider acknowledges: no foreground turn that predates the call can
\* run any longer or become active.
InterruptAcknowledged ==
  /\ Quiet
  /\ AtHead("cancel", "interrupting")
  /\ op' = [op EXCEPT !.phase = "settling", !.acked = TRUE]
  /\ prov' = [t \in Turns |-> IF prov[t] = "live" /\ owner[t] # NoRun
                              THEN "stopped" ELSE prov[t]]
  /\ doomed' = doomed \cup {r \in Runs : gen[r] = "starting"}
  /\ UNCHANGED <<managerVars, lane, pc, expected, owner, announced, anonymous>>

\* interruptSession rejects or times out.
InterruptFailed ==
  /\ Quiet
  /\ AtHead("cancel", "interrupting")
  /\ op' = [op EXCEPT !.phase = "settling"]
  /\ UNCHANGED <<managerVars, lane, pc, expected, providerVars>>

CancelSettled ==
  /\ AtHead("cancel", "settling")
  /\ RunSettled
  /\ LeaveLane(AfterCancel(Mutation.caller))
  /\ UNCHANGED <<managerVars, providerVars>>

\* Mutant: an acknowledged interrupt gives up on the timeout as well.
CancelGivesUp ==
  /\ Quiet
  /\ AtHead("cancel", "settling")
  /\ ~RunSettled
  /\ LeaveLane(AfterRefusal(Mutation.caller))
  /\ UNCHANGED <<managerVars, providerVars>>

CancelRefused ==
  /\ Quiet
  /\ AtHead("cancel", "settling")
  /\ ~RunSettled
  /\ ~op.acked
  /\ LeaveLane(AfterRefusal(Mutation.caller))
  /\ UNCHANGED <<managerVars, providerVars>>

TimedOutAcknowledged ==
  /\ Quiet
  /\ AtHead("cancel", "settling")
  /\ ~RunSettled
  /\ op.acked

\* Mutant: the run is settled without the synthesized turn_canceled.
CancelForcesSilently ==
  /\ TimedOutAcknowledged
  /\ TrackedTurn # NoTurn
  /\ ClearRun(cur)
  /\ agent' = [agent EXCEPT !.fg = NoTurn, !.turn = NoTurn, !.lifecycle = "idle"]
  /\ op' = [op EXCEPT !.phase = "forced"]
  /\ UNCHANGED <<run, gen, heard, queue, barrier, lane, pc, expected, providerVars>>

\* The turn is known: synthesize its turn_canceled, then wait for the run.
CancelForcesTurn ==
  /\ TimedOutAcknowledged
  /\ TrackedTurn # NoTurn
  /\ DispatchTerminal("turn_canceled", TrackedTurn)
  /\ op' = [op EXCEPT !.phase = "forced"]
  /\ UNCHANGED <<run, gen, queue, barrier, lane, pc, expected, providerVars>>

CancelForcedDone ==
  /\ AtHead("cancel", "forced")
  /\ RunSettled
  /\ LeaveLane(AfterCancel(Mutation.caller))
  /\ UNCHANGED <<managerVars, providerVars>>

\* A foreground run still waiting for its turn id is settled by its token.
CancelForcesPending ==
  /\ TimedOutAcknowledged
  /\ TrackedTurn = NoTurn
  /\ InForeground(op.run)
  /\ SettleForegroundRun(op.run)
  /\ agent' = [agent EXCEPT !.lifecycle = IF agent.replacing THEN @ ELSE "idle"]
  /\ LeaveLane(AfterCancel(Mutation.caller))
  /\ UNCHANGED <<run, gen, heard, queue, barrier, providerVars>>

\* An autonomous run without a turn id gets a turn_canceled without one.
CancelForcesAutonomous ==
  /\ TimedOutAcknowledged
  /\ TrackedTurn = NoTurn
  /\ ~InForeground(op.run)
  /\ DispatchTerminal("turn_canceled", NoTurn)
  /\ LeaveLane(AfterCancel(Mutation.caller))
  /\ UNCHANGED <<run, gen, queue, barrier, providerVars>>

\* runSteerAdmission: drain the event tail, check that the expected turn is
\* still active, then hold provider events while the provider decides.
SteerDrain ==
  /\ AtHead("steer", "none")
  /\ op' = [NoOp EXCEPT !.phase = "draining"]
  /\ UNCHANGED <<managerVars, lane, pc, expected, providerVars>>

SteerAdmits ==
  /\ AtHead("steer", "draining")
  /\ queue = <<>>
  /\ agent.turn = expected[Mutation.caller]
  /\ barrier' = [held |-> TRUE, events |-> <<>>]
  /\ op' = [op EXCEPT !.phase = "admitting"]
  /\ UNCHANGED <<agent, cur, run, settled, gen, heard, queue, lane, pc,
                 expected, providerVars>>

SteerRejected ==
  /\ AtHead("steer", "draining")
  /\ queue = <<>>
  /\ agent.turn # expected[Mutation.caller]
  /\ LeaveLane("idle")
  /\ UNCHANGED <<managerVars, providerVars>>

\* Mutant: the held events are not enqueued again.
SteerAnsweredDropping(accepted) ==
  /\ Quiet
  /\ AtHead("steer", "admitting")
  /\ barrier' = NoBarrier
  /\ op' = [op EXCEPT !.phase = "closing", !.accepted = accepted]
  /\ UNCHANGED <<agent, cur, run, settled, gen, heard, queue, lane, pc,
                 expected, providerVars>>

\* steerActiveTurn answers: the barrier is lifted and its events re-enqueued.
SteerAnswered(accepted) ==
  /\ Quiet
  /\ AtHead("steer", "admitting")
  /\ IF HasRun /\ InForeground(cur) /\ run[cur].start = "pending"
     THEN /\ run' = [run EXCEPT ![cur].staged = @ \o barrier.events]
          /\ UNCHANGED queue
     ELSE /\ queue' = queue \o barrier.events
          /\ UNCHANGED run
  /\ barrier' = NoBarrier
  /\ op' = [op EXCEPT !.phase = "closing", !.accepted = accepted]
  /\ UNCHANGED <<agent, cur, settled, gen, heard, lane, pc, expected, providerVars>>

SteerDone ==
  /\ AtHead("steer", "closing")
  /\ queue = <<>>
  /\ LeaveLane(IF op.accepted THEN "idle" ELSE "declined")
  /\ UNCHANGED <<managerVars, providerVars>>

-----------------------------------------------------------------------------
(* The stream generator of a foreground run.                               *)

\* beginTurnCheckpoint resolves and session.startTurn is called.
CallStartTurn(r) ==
  /\ Quiet
  /\ gen[r] = "checkpoint"
  /\ gen' = [gen EXCEPT ![r] = "starting"]
  /\ UNCHANGED <<agent, cur, run, settled, heard, queue, barrier, laneVars, providerVars>>

OpenedTurns(r) == {t \in Turns : owner[t] = r}

\* The staged events without the accepted turn's own turn_started, which the
\* provider announces at most once.
Without(es, e) ==
  IF \E i \in DOMAIN es : es[i] = e
  THEN LET i == CHOOSE k \in DOMAIN es : es[k] = e
       IN  SubSeq(es, 1, i - 1) \o SubSeq(es, i + 1, Len(es))
  ELSE es

\* startTurn resolves and the run was not settled meanwhile: the turn becomes
\* the active foreground turn and the staged events follow it, except its own
\* turn_started.
StartResolved(r) ==
  \E t \in OpenedTurns(r) :
    LET own == [type |-> "turn_started", turn |-> t]
        staged == Without(run[r].staged, own) IN
    /\ Quiet
    /\ gen[r] = "starting"
    /\ r \notin settled
    /\ agent' = [agent EXCEPT !.replacing = @ /\ ~run[r].replacement,
                              !.fg = t, !.turn = t, !.lifecycle = "running"]
    /\ IF barrier.held
       THEN /\ barrier' = [barrier EXCEPT !.events = @ \o staged]
            /\ UNCHANGED queue
       ELSE /\ queue' = queue \o staged
            /\ UNCHANGED barrier
    /\ run' = [run EXCEPT ![r].start = "started", ![r].turn = t, ![r].staged = <<>>]
    /\ gen' = [gen EXCEPT ![r] = "streaming"]
    /\ UNCHANGED <<cur, settled, heard, laneVars, providerVars>>

\* "run was canceled before its turn started": the generator throws and
\* nothing else changes.
StartCanceled(r) ==
  /\ Quiet
  /\ gen[r] = "starting"
  /\ r \in settled
  /\ gen' = [gen EXCEPT ![r] = "ended"]
  /\ run' = [run EXCEPT ![r] = CollectedRun]
  /\ UNCHANGED <<agent, cur, settled, heard, queue, barrier, laneVars, providerVars>>

\* startTurn rejects: a turn_failed without a turn id goes through
\* handleStreamEvent, then the foreground turn is finalized and the run settled.
StartFailed(r) ==
  LET a == [agent EXCEPT !.replacing = FALSE]
      t == IdentifiedTurn(a, [type |-> "turn_failed", turn |-> NoTurn])
      b == IF t # NoTurn /\ IsFinalized(a, t) THEN a
           ELSE HandleTerminal(a, "turn_failed", t) IN
  /\ Quiet
  /\ gen[r] = "starting"
  /\ r \notin settled
  /\ OpenedTurns(r) = {}
  /\ agent' = FinalizeForegroundTurn(b, NoTurn)
  /\ run' = [run EXCEPT ![r] = CollectedRun]
  /\ SettleForegroundRun(r)
  /\ gen' = [gen EXCEPT ![r] = "ended"]
  /\ UNCHANGED <<heard, queue, barrier, laneVars, providerVars>>

\* startTurn rejects because the provider session is stale.
StartStale(r) ==
  /\ Quiet
  /\ gen[r] = "starting"
  /\ r \notin settled
  /\ OpenedTurns(r) = {}
  /\ agent' = [agent EXCEPT !.replacing = FALSE,
                            !.lifecycle = IF agent.fg = NoTurn THEN "idle" ELSE @]
  /\ run' = [run EXCEPT ![r] = CollectedRun]
  /\ SettleForegroundRun(r)
  /\ gen' = [gen EXCEPT ![r] = "ended"]
  /\ UNCHANGED <<heard, queue, barrier, laneVars, providerVars>>

\* The stream drains up to the terminal event, and its finally block settles
\* the run by token.
StreamEnds(r) ==
  /\ gen[r] = "streaming"
  /\ r \in heard
  /\ gen' = [gen EXCEPT ![r] = "ended"]
  /\ SettleForegroundRun(r)
  /\ run' = [run EXCEPT ![r] = CollectedRun]
  /\ heard' = heard \ {r}
  /\ UNCHANGED <<agent, queue, barrier, laneVars, providerVars>>

-----------------------------------------------------------------------------
(* The session event tail.                                                 *)

ProcessTerminal ==
  /\ queue # <<>>
  /\ Head(queue).type \in Terminal
  /\ DispatchTerminal(Head(queue).type, Head(queue).turn)
  /\ queue' = Tail(queue)
  /\ UNCHANGED <<run, gen, barrier, laneVars, providerVars>>

\* onStreamTurnStarted while a foreground turn is active is suppressed.
ProcessStartedSuppressed ==
  /\ queue # <<>>
  /\ Head(queue).type = "turn_started"
  /\ agent.fg # NoTurn
  /\ queue' = Tail(queue)
  /\ UNCHANGED <<agent, cur, run, settled, gen, heard, barrier, laneVars, providerVars>>

\* Otherwise the turn is tracked as an autonomous run, unless a run exists.
ProcessStarted ==
  /\ queue # <<>>
  /\ Head(queue).type = "turn_started"
  /\ agent.fg = NoTurn
  /\ HasRun \/ FreshRuns # {}
  /\ IF HasRun THEN UNCHANGED <<cur, run>>
     ELSE /\ cur' = NextRun
          /\ run' = [run EXCEPT ![NextRun] =
               [UnusedRun EXCEPT !.kind = "autonomous", !.turn = Head(queue).turn]]
  /\ agent' = [agent EXCEPT !.turn = Head(queue).turn, !.lifecycle = "running"]
  /\ queue' = Tail(queue)
  /\ UNCHANGED <<settled, gen, heard, barrier, laneVars, providerVars>>

-----------------------------------------------------------------------------
(* The provider session (external): what the AgentSession contract allows. *)

FreshTurns == {t \in Turns : prov[t] = "unused"}
NextTurn == CHOOSE t \in FreshTurns : \A u \in FreshTurns : t <= u
LiveForeground == {t \in Turns : prov[t] = "live" /\ owner[t] # NoRun}
Starting == {r \in Runs : gen[r] = "starting" /\ OpenedTurns(r) = {}}

\* startTurn opens a turn; one whose start predates an acknowledged interrupt
\* can never become active.
ProviderOpens(r) ==
  /\ Quiet
  /\ r \in Starting
  /\ FreshTurns # {}
  /\ LiveForeground = {}
  /\ prov' = [prov EXCEPT ![NextTurn] = IF r \in doomed THEN "stopped" ELSE "live"]
  /\ owner' = [owner EXCEPT ![NextTurn] = r]
  /\ UNCHANGED <<managerVars, laneVars, announced, doomed, anonymous>>

ProviderAnnounces(t) ==
  /\ Quiet
  /\ prov[t] = "live"
  /\ t \notin announced
  /\ announced' = announced \cup {t}
  /\ Enqueue(<<[type |-> "turn_started", turn |-> t]>>)
  /\ UNCHANGED <<agent, cur, settled, gen, heard, laneVars, prov, owner,
                 doomed, anonymous>>

\* The provider opens a turn of its own accord (a background task wakes it up).
ProviderWakes ==
  /\ Quiet
  /\ FreshTurns # {}
  /\ Starting = {}
  /\ \A t \in Turns : prov[t] # "live"
  /\ prov' = [prov EXCEPT ![NextTurn] = "live"]
  /\ announced' = announced \cup {NextTurn}
  /\ Enqueue(<<[type |-> "turn_started", turn |-> NextTurn]>>)
  /\ UNCHANGED <<agent, cur, settled, gen, heard, laneVars, owner, doomed, anonymous>>

\* A live turn ends; an interrupted one may still report its end late.
ProviderEnds(t, type) ==
  /\ Quiet
  /\ prov[t] \in {"live", "stopped"}
  /\ prov' = [prov EXCEPT ![t] = "over"]
  /\ Enqueue(<<[type |-> type, turn |-> t]>>)
  /\ UNCHANGED <<agent, cur, settled, gen, heard, laneVars, owner, announced,
                 doomed, anonymous>>

\* Between turns the provider process dies and reports it without a turn id.
ProviderDies ==
  /\ Quiet
  /\ anonymous < MaxAnonymous
  /\ \A t \in Turns : prov[t] \notin {"live", "stopped"}
  /\ Starting = {}
  /\ anonymous' = anonymous + 1
  /\ Enqueue(<<[type |-> "turn_failed", turn |-> NoTurn]>>)
  /\ UNCHANGED <<agent, cur, settled, gen, heard, laneVars, prov, owner,
                 announced, doomed>>

-----------------------------------------------------------------------------
CallerStep(c) ==
  \/ SendIdle(c) \/ SendBusy(c) \/ Stop(c) \/ Steer(c)
  \/ ReplaceRefused(c) \/ ReplaceStart(c) \/ ReplaceOvertaken(c)
  \/ SteerReplaces(c) \/ SteerOvertaken(c)

LaneStep ==
  \/ CancelNothing \/ CancelCapture \/ CancelUntracked
  \/ InterruptAcknowledged \/ InterruptFailed
  \/ CancelSettled \/ CancelRefused \/ CancelForcesTurn \/ CancelForcedDone
  \/ CancelForcesPending \/ CancelForcesAutonomous
  \/ SteerDrain \/ SteerAdmits \/ SteerRejected \/ SteerDone
  \/ \E accepted \in BOOLEAN : SteerAnswered(accepted)

GeneratorStep(r) ==
  \/ CallStartTurn(r) \/ StartResolved(r) \/ StartCanceled(r)
  \/ StartFailed(r) \/ StartStale(r) \/ StreamEnds(r)

QueueStep == ProcessTerminal \/ ProcessStartedSuppressed \/ ProcessStarted

ProviderStep ==
  \/ \E r \in Runs : ProviderOpens(r)
  \/ \E t \in Turns : ProviderAnnounces(t)
  \/ \E t \in Turns, type \in Endings : ProviderEnds(t, type)
  \/ ProviderWakes \/ ProviderDies

Step ==
  \/ \E c \in Callers : CallerStep(c)
  \/ LaneStep
  \/ \E r \in Runs : GeneratorStep(r)
  \/ QueueStep
  \/ ProviderStep

\* What the histories record.  No run has a turn while its snapshot is made, so
\* an interrupt acknowledged then covers none; and a terminal event without a turn
\* id ends the run whose turn happens to be active when it is processed.
Record ==
  /\ uncovered' = uncovered \cup {r \in Runs : ~op.acked /\ op'.acked /\ gen[r] = "checkpoint"}
  /\ mistaken' = mistaken \cup {r \in settled' \ settled :
                     /\ queue # <<>> /\ queue' = Tail(queue)
                     /\ Head(queue).turn = NoTurn}

Next == Step /\ Record

Spec == Init /\ [][Next]_<<vars, histories>>

CallerContinues(c) ==
  \/ ReplaceRefused(c) \/ ReplaceStart(c) \/ ReplaceOvertaken(c)
  \/ SteerReplaces(c) \/ SteerOvertaken(c)

\* Promise reactions run, the interrupt and settlement timers fire, and the
\* provider answers a steer (steerActiveTurn is awaited without a timeout).
FairSpec ==
  /\ Spec
  /\ WF_vars(LaneStep)
  /\ WF_vars(QueueStep)
  /\ \A c \in Callers : WF_vars(CallerContinues(c))
  /\ \A r \in Runs : WF_vars(StreamEnds(r))

-----------------------------------------------------------------------------
Replacing(c) == pc[c] \in {"replacing", "proceed", "refused"}

\* The turn of a run that an acknowledged interrupt did not cover, or that a
\* terminal event without a turn id ended.
Forsaken(t) == t # NoTurn /\ owner[t] \in uncovered \cup mistaken

Tracked(t) == agent.fg = t \/ (cur = owner[t] /\ run[cur].start = "pending")

\* A turn that the provider still runs on behalf of the daemon is the active
\* foreground turn or belongs to the run that waits for startTurn: settling by
\* token, the acknowledgement contract of interrupt and the refusal to replace
\* an unacknowledged run together never leave a turn running with no run to
\* report its end (cancelAgentRunNow, streamAgent, settleForegroundRun), except
\* the turn of a run that was stopped during its turn snapshot or that a failure
\* without a turn id ended.
NoOrphanTurn == \A t \in LiveForeground : Tracked(t) \/ Forsaken(t)

\* The same without the exceptions: "Accepting new work after an ambiguous
\* interruption would create a split-brain session" (docs/agent-lifecycle.md 88).
EveryTurnIsTracked == \A t \in LiveForeground : Tracked(t)

\* activeForegroundTurnId and the run map are written apart, in
\* finalizeForegroundTurn, settleTerminalRun and the generator's finally
\* block; no order of late events, forced cancellations and replacements makes
\* them name different turns.
ActiveTurnHasRun ==
  agent.fg # NoTurn =>
    /\ HasRun
    /\ InForeground(cur)
    /\ run[cur].start = "started"
    /\ run[cur].turn = agent.fg

\* cancelAgentRunNow captures the run before two awaits and reads the run map
\* again by agent id after them (getTurnId): the run it would then force is
\* still the one it captured.
CapturedRunIsTracked ==
  op.run # NoRun /\ op.run \notin settled => cur = op.run

\* A run that was settled while its stream was being read has been given a
\* terminal event, so the loop over the stream returns and the caller of the
\* run is not left waiting (streamAgent 2757-2776, waiters by turn id), unless
\* the event that settled it had no turn id.
StreamHearsTheEnd ==
  \A r \in settled \ mistaken : gen[r] = "streaming" => r \in heard

\* The same without the exception.
EveryStreamHears == \A r \in settled : gen[r] = "streaming" => r \in heard

\* The end of a turn is never lost on its way: until the stream has it, it
\* waits in the event tail or behind the steer barrier, whatever was staged
\* and re-enqueued in between.
EndIsOnTheWay ==
  \A r \in Runs :
    gen[r] = "streaming" /\ prov[run[r].turn] = "over" /\ r \notin settled =>
      \/ r \in heard
      \/ \E es \in {queue, barrier.events} :
           \E i \in DOMAIN es : es[i].turn = run[r].turn /\ es[i].type \in Terminal

\* pendingReplacement keeps the agent shown as running, so somebody has to be
\* there to clear it: a request that is replacing, or the replacement that
\* waits for its turn.
ReplacementIsOwned ==
  agent.replacing =>
    \/ \E c \in Callers : Replacing(c)
    \/ HasRun /\ run[cur].replacement /\ run[cur].start = "pending"

\* The only step that leaves pendingReplacement set with nobody to clear it is
\* the forced cancellation of a replacement that has no turn yet (which is what
\* StopLeavesNothing is about).
ReplacementLostOnlyByForce ==
  [][ReplacementIsOwned => ReplacementIsOwned' \/ CancelForcesPending]_vars

\* An acknowledged cancellation does not return before the run it captured is
\* settled: "settled" never means that the old run may still be tracked
\* (cancelAgentRunNow), unless the active turn is one whose run was stopped during
\* its snapshot or was ended by a failure without a turn id: its end is a
\* duplicate, and the synthesized one is dropped.
AcknowledgedCancelSettles ==
  [][op.acked /\ Len(lane') < Len(lane) /\ ~Forsaken(agent.turn)
       => op.run \in settled']_vars

\* When the cancellation of a run without a turn id returns and no replacement
\* is in progress, the agent has no run in flight: what the test "acknowledged
\* cancellation settles a pending run before it has a turn id" expects
\* (agent-manager.test.ts 8442-8444).
StopLeavesNothing ==
  [][CancelForcesPending /\ (\A c \in Callers : ~Replacing(c))
       => ~HasInFlightRun']_vars

\* A steer that was admitted against one turn and then declined does not
\* cancel a later one: "Never let an A admission replace a later B"
\* (agent-manager.ts 2899-2900).
SteerSparesLaterTurn ==
  [][CancelCapture /\ pc[Mutation.caller] = "replacing"
       /\ expected[Mutation.caller] # NoTurn
       => run[cur].turn \in {NoTurn, expected[Mutation.caller]}]_vars

\* Every send, stop and steer returns: no wait in the foreground-mutation lane
\* (settledPromise without a timeout in cancelAgentRunNow, the event tail in
\* runSteerAdmission) can block the requests queued behind it.  FreshRuns = {}
\* is the bound MaxRuns being used up.
RequestsReturn ==
  \A c \in Callers : pc[c] # "idle" ~> pc[c] = "idle" \/ FreshRuns = {}

=============================================================================
