-------------------------- MODULE InterruptedTurns --------------------------
(***************************************************************************)
(* The unfinished-turn marker of one agent's stored record: written while  *)
(* a turn runs, rewritten as interrupted when the daemon starts again, and *)
(* claimed or dismissed by clients.  Every write of the record is a job in *)
(* the per-agent queue of AgentStorage; a crash loses the queue, the       *)
(* running turn and the requests in progress, and keeps the record.        *)
(***************************************************************************)
EXTENDS Naturals, Sequences

CONSTANTS
  Clients,      \* clients, and the automatic continuation at startup
  Prompts,      \* BOUND: the prompts users send, each once
  Large,        \* prompts over 256 KB, which the record does not hold
  Continuation, \* "Continue where you left off."
  NoPrompt, NoClient,
  MaxIds,       \* BOUND: runs and continuation claims, which get fresh ids
  MaxStops,     \* BOUND: crashes and shutdowns
  MaxSteers     \* BOUND: accepted steers

ASSUME PromptAssumption ==
  /\ Large \subseteq Prompts
  /\ Continuation \notin Prompts
  /\ NoClient \notin Clients
  /\ NoPrompt \notin Prompts \cup {Continuation}
  /\ MaxIds \in Nat /\ MaxStops \in Nat /\ MaxSteers \in Nat

VARIABLES
  daemon,   \* up, closing or down
  record,   \* the stored record: its marker and last status
  writes,   \* jobs waiting in the record's write queue
  turn,     \* the foreground turn of the running agent
  pc,       \* client -> where its continuation or dismissal stands
  claim,    \* client -> the id and the interrupted prompt it claimed
  history,  \* user messages the provider's history holds
  unsent,   \* prompts that users have not sent yet
  ids,      \* ids handed out so far
  stops,    \* crashes and shutdowns so far
  steers,   \* steers so far
  cut       \* the prompt of the turn that the last stop cut short

vars == <<daemon, record, writes, turn, pc, claim, history, unsent, ids, stops,
          steers, cut>>

Messages == Prompts \cup {Continuation}
Stored == (Prompts \ Large) \cup {Continuation, NoPrompt}
Ids == 0..MaxIds

NoMarker == [state |-> "none", run |-> 0, prompt |-> NoPrompt]
Marker == [state : {"none", "running", "interrupted"}, run : Ids, prompt : Stored]
NoTurn == [phase |-> "none", run |-> 0, prompt |-> NoPrompt]
NoClaim == [id |-> 0, prompt |-> NoPrompt]

RunningMarker(id, p) == [state |-> "running", run |-> id, prompt |-> p]
InterruptedMarker(p) == [state |-> "interrupted", run |-> 0, prompt |-> p]

\* Mutant: the limit on the stored prompt is gone.
ToStoredUnlimited(p) == p

\* toStoredPrompt
ToStored(p) == IF p \in Large THEN NoPrompt ELSE p

\* resolveContinuationPrompt: the stored prompt, unless it is missing or is
\* already the last user message of the resumed history.
Resolve(p) ==
  IF p = NoPrompt \/ (history # <<>> /\ history[Len(history)] = p)
  THEN Continuation ELSE p

Job(kind, c, id, p) == [kind |-> kind, client |-> c, id |-> id, prompt |-> p]

Jobs == [kind : {"record", "clear", "claim", "restore", "dismiss",
                 "idle", "running", "error", "closed"},
         client : Clients \cup {NoClient}, id : Ids, prompt : Stored]

Snapshot(status) == [kind |-> status, client |-> NoClient, id |-> 0, prompt |-> NoPrompt]

TypeOK ==
  /\ daemon \in {"up", "closing", "down"}
  /\ record \in [marker : Marker, status : {"idle", "running", "error", "closed"}]
  /\ writes \in Seq(Jobs)
  /\ turn \in {NoTurn} \cup [phase : {"starting", "running"}, run : Ids, prompt : Messages]
  /\ pc \in [Clients -> {"idle", "claiming", "claimed", "waiting", "restoring", "dismissing"}]
  /\ claim \in [Clients -> [id : Ids, prompt : Stored]]
  /\ history \in Seq(Messages)
  /\ unsent \in SUBSET Prompts
  /\ ids \in Ids /\ stops \in 0..MaxStops /\ steers \in 0..MaxSteers
  /\ cut \in Stored

Init ==
  /\ daemon = "up"
  /\ record = [marker |-> NoMarker, status |-> "idle"]
  /\ writes = <<>>
  /\ turn = NoTurn
  /\ pc = [c \in Clients |-> "idle"]
  /\ claim = [c \in Clients |-> NoClaim]
  /\ history = <<>>
  /\ unsent = Prompts
  /\ ids = 0
  /\ stops = 0
  /\ steers = 0
  /\ cut = NoPrompt

-----------------------------------------------------------------------------
(* The turn.  How it is started, replaced and ended is module AgentRun; here *)
(* it is what the marker must follow.                                        *)

\* Starting a run ends the one it replaces, whose generator clears its marker.
StartRun(p) ==
  /\ ids < MaxIds
  /\ ids' = ids + 1
  /\ turn' = [phase |-> "starting", run |-> ids + 1, prompt |-> p]
  /\ writes' = writes \o IF turn.phase = "running"
                         THEN <<Job("clear", NoClient, turn.run, NoPrompt)>> ELSE <<>>

Send(p) ==
  /\ daemon = "up"
  /\ p \in unsent
  /\ unsent' = unsent \ {p}
  /\ StartRun(p)
  /\ UNCHANGED <<daemon, record, pc, claim, history, stops, steers, cut>>

\* recordRunningTurn, then the state snapshot; the continuations that wait
\* for the agent to start are answered.
Started ==
  /\ daemon = "up"
  /\ turn.phase = "starting"
  /\ turn' = [turn EXCEPT !.phase = "running"]
  /\ writes' = writes \o <<Job("record", NoClient, turn.run, ToStored(turn.prompt)),
                           Snapshot("running")>>
  /\ history' = Append(history, turn.prompt)
  /\ pc' = [c \in Clients |-> IF pc[c] = "waiting" THEN "idle" ELSE pc[c]]
  /\ UNCHANGED <<daemon, record, claim, unsent, ids, stops, steers, cut>>

Restore(c) == Job("restore", c, claim[c].id, claim[c].prompt)

\* continueInterruptedTurn's catch block, for the one client that waits.
GiveUp(c, more) ==
  /\ pc' = [pc EXCEPT ![c] = "restoring"]
  /\ writes' = writes \o more \o <<Restore(c)>>

\* Mutant: the continuation is answered without giving its claim back.
StartFailsForgetful ==
  /\ daemon = "up"
  /\ turn.phase = "starting"
  /\ turn' = NoTurn
  /\ writes' = Append(writes, Snapshot("error"))
  /\ pc' = [c \in Clients |-> IF pc[c] = "waiting" THEN "idle" ELSE pc[c]]
  /\ UNCHANGED <<daemon, record, claim, history, unsent, ids, stops, steers, cut>>

StartFails ==
  /\ daemon = "up"
  /\ turn.phase = "starting"
  /\ turn' = NoTurn
  /\ LET waiting == {c \in Clients : pc[c] = "waiting"} IN
     IF waiting = {} THEN writes' = Append(writes, Snapshot("error")) /\ UNCHANGED pc
     ELSE \E c \in waiting : GiveUp(c, <<Snapshot("error")>>)
  /\ UNCHANGED <<daemon, record, claim, history, unsent, ids, stops, steers, cut>>

\* waitForAgentRunStartWithTimeout times out, or finds the agent in no run.
WaitFails(c) ==
  /\ daemon = "up"
  /\ pc[c] = "waiting"
  /\ GiveUp(c, <<>>)
  /\ UNCHANGED <<daemon, record, turn, claim, history, unsent, ids, stops, steers, cut>>

Steered(p) ==
  /\ daemon = "up"
  /\ turn.phase = "running"
  /\ p \in unsent
  /\ steers < MaxSteers
  /\ steers' = steers + 1
  /\ unsent' = unsent \ {p}
  /\ history' = Append(history, p)
  /\ UNCHANGED <<daemon, record, writes, turn, pc, claim, ids, stops, cut>>

\* The state snapshot of the finished turn is queued before clearRunningTurn.
Ends ==
  /\ daemon = "up"
  /\ turn.phase = "running"
  /\ turn' = NoTurn
  /\ writes' = writes \o <<Snapshot("idle"), Job("clear", NoClient, turn.run, NoPrompt)>>
  /\ UNCHANGED <<daemon, record, pc, claim, history, unsent, ids, stops, steers, cut>>

-----------------------------------------------------------------------------
(* Requests about the interruption.                                         *)

Continue(c) ==
  /\ daemon = "up"
  /\ pc[c] = "idle"
  /\ ids < MaxIds
  /\ ids' = ids + 1
  /\ claim' = [claim EXCEPT ![c] = [id |-> ids + 1, prompt |-> NoPrompt]]
  /\ writes' = Append(writes, Job("claim", c, ids + 1, NoPrompt))
  /\ pc' = [pc EXCEPT ![c] = "claiming"]
  /\ UNCHANGED <<daemon, record, turn, history, unsent, stops, steers, cut>>

ContinueSends(c) ==
  /\ daemon = "up"
  /\ pc[c] = "claimed"
  /\ StartRun(Resolve(claim[c].prompt))
  /\ pc' = [pc EXCEPT ![c] = "waiting"]
  /\ UNCHANGED <<daemon, record, claim, history, unsent, stops, steers, cut>>

\* The agent does not take the prompt: it is not loaded, or it runs a turn that
\* does not stop for this one.
SendRejected(c) ==
  /\ daemon = "up"
  /\ pc[c] = "claimed"
  /\ GiveUp(c, <<>>)
  /\ UNCHANGED <<daemon, record, turn, claim, history, unsent, ids, stops, steers, cut>>

Dismiss(c) ==
  /\ daemon = "up"
  /\ pc[c] = "idle"
  /\ writes' = Append(writes, Job("dismiss", c, 0, NoPrompt))
  /\ pc' = [pc EXCEPT ![c] = "dismissing"]
  /\ UNCHANGED <<daemon, record, turn, claim, history, unsent, ids, stops, steers, cut>>

-----------------------------------------------------------------------------
(* AgentStorage.queueRecordMutation: one job at a time, on the record as it  *)
(* is when the job runs.                                                     *)

\* Mutant: the restore does not ask whose claim the record holds.
MarkerAfterBlindRestore(m, j) ==
  CASE j.kind = "record" -> RunningMarker(j.id, j.prompt)
    [] j.kind = "clear" /\ m.state = "running" /\ m.run = j.id -> NoMarker
    [] j.kind = "claim" /\ m.state = "interrupted" -> RunningMarker(j.id, m.prompt)
    [] j.kind = "restore" -> InterruptedMarker(j.prompt)
    [] j.kind = "dismiss" /\ m.state = "interrupted" -> NoMarker
    [] OTHER -> m

\* Mutant: the claim only looks for a marker.
MarkerAfterEagerClaim(m, j) ==
  CASE j.kind = "record" -> RunningMarker(j.id, j.prompt)
    [] j.kind = "clear" /\ m.state = "running" /\ m.run = j.id -> NoMarker
    [] j.kind = "claim" /\ m.state # "none" -> RunningMarker(j.id, m.prompt)
    [] j.kind = "restore" /\ m.state = "running" /\ m.run = j.id ->
         InterruptedMarker(j.prompt)
    [] j.kind = "dismiss" /\ m.state = "interrupted" -> NoMarker
    [] OTHER -> m

\* The mutate functions of recordRunningTurn, clearRunningTurn,
\* continueInterruptedTurn and dismissInterruptedTurn.
MarkerAfter(m, j) ==
  CASE j.kind = "record" -> RunningMarker(j.id, j.prompt)
    [] j.kind = "clear" /\ m.state = "running" /\ m.run = j.id -> NoMarker
    [] j.kind = "claim" /\ m.state = "interrupted" -> RunningMarker(j.id, m.prompt)
    [] j.kind = "restore" /\ m.state = "running" /\ m.run = j.id ->
         InterruptedMarker(j.prompt)
    [] j.kind = "dismiss" /\ m.state = "interrupted" -> NoMarker
    [] OTHER -> m

StatusAfter(s, j) ==
  IF j.kind \in {"idle", "running", "error", "closed"} THEN j.kind ELSE s

ExecuteWrite ==
  /\ daemon # "down"
  /\ writes # <<>>
  /\ LET j == Head(writes)
         changed == MarkerAfter(record.marker, j) # record.marker
     IN  /\ record' = [marker |-> MarkerAfter(record.marker, j),
                       status |-> StatusAfter(record.status, j)]
         /\ IF j.client = NoClient \/ daemon = "closing" THEN UNCHANGED <<pc, claim>>
            ELSE /\ pc' = [pc EXCEPT ![j.client] =
                       IF j.kind = "claim" /\ changed THEN "claimed" ELSE "idle"]
                 /\ claim' = [claim EXCEPT ![j.client] =
                       IF j.kind = "claim" /\ changed
                       THEN [@ EXCEPT !.prompt = record.marker.prompt] ELSE NoClaim]
  /\ writes' = Tail(writes)
  /\ UNCHANGED <<daemon, turn, history, unsent, ids, stops, steers, cut>>

-----------------------------------------------------------------------------
(* Stopping and starting.                                                   *)

Forget ==
  /\ turn' = NoTurn
  /\ pc' = [c \in Clients |-> "idle"]
  /\ claim' = [c \in Clients |-> NoClaim]

RecordPending == \E i \in DOMAIN writes : writes[i].kind = "record" /\ writes[i].id = turn.run

\* A starting turn may have reached the provider.
Crash ==
  /\ daemon # "down"
  /\ stops < MaxStops
  /\ stops' = stops + 1
  /\ daemon' = "down"
  /\ writes' = <<>>
  /\ \/ UNCHANGED history
     \/ turn.phase = "starting" /\ history' = Append(history, turn.prompt)
  /\ cut' = IF turn.phase = "running" /\ ~RecordPending THEN ToStored(turn.prompt)
            ELSE IF daemon = "closing" /\ writes = <<>> THEN cut ELSE NoPrompt
  /\ Forget
  /\ UNCHANGED <<record, unsent, ids, steers>>

\* Mutant: shutdown clears the marker of the turn it ends.
ShutdownFinishes ==
  /\ daemon = "up"
  /\ stops < MaxStops
  /\ stops' = stops + 1
  /\ daemon' = "closing"
  /\ writes' = writes \o <<Job("clear", NoClient, turn.run, NoPrompt), Snapshot("closed")>>
  /\ cut' = IF turn.phase = "running" THEN ToStored(turn.prompt) ELSE NoPrompt
  /\ Forget
  /\ UNCHANGED <<record, history, unsent, ids, steers>>

\* Closing the agents ends their turns without clearing the marker, and the
\* queued writes are flushed.
Shutdown ==
  /\ daemon = "up"
  /\ stops < MaxStops
  /\ stops' = stops + 1
  /\ daemon' = "closing"
  /\ writes' = Append(writes, Snapshot("closed"))
  /\ cut' = IF turn.phase = "running" THEN ToStored(turn.prompt) ELSE NoPrompt
  /\ Forget
  /\ UNCHANGED <<record, history, unsent, ids, steers>>

Exit ==
  /\ daemon = "closing"
  /\ writes = <<>>
  /\ daemon' = "down"
  /\ UNCHANGED <<record, writes, turn, pc, claim, history, unsent, ids, stops, steers, cut>>

\* wasRunningAtShutdown: a running marker, or a stale running status of a
\* record without one.
WasRunningAtShutdown(r) ==
  \/ r.marker.state = "running"
  \/ r.marker.state = "none" /\ r.status = "running"

\* markInterruptedTurns and closeStaleAgentRecords, before any client connects.
Restart ==
  /\ daemon = "down"
  /\ daemon' = "up"
  /\ record' = [marker |-> IF WasRunningAtShutdown(record)
                           THEN InterruptedMarker(record.marker.prompt) ELSE record.marker,
                status |-> IF record.status = "running" THEN "closed" ELSE record.status]
  /\ UNCHANGED <<writes, turn, pc, claim, history, unsent, ids, stops, steers, cut>>

Next ==
  \/ \E p \in Prompts : Send(p) \/ Steered(p)
  \/ Started \/ StartFails \/ Ends
  \/ \E c \in Clients : Continue(c) \/ ContinueSends(c) \/ SendRejected(c) \/ WaitFails(c) \/ Dismiss(c)
  \/ ExecuteWrite
  \/ Crash \/ Shutdown \/ Exit \/ Restart

Spec == Init /\ [][Next]_vars

-----------------------------------------------------------------------------
Continuing(c) == pc[c] \in {"claimed", "waiting", "restoring"}

\* Two continuations of one interruption never both own it, however their
\* claims, failures and restores interleave in the write queue ("A second
\* Continue then fails with InterruptedTurnNotFoundError").
OneContinuation ==
  \A c, d \in Clients : Continuing(c) /\ Continuing(d) => c = d

\* What makes OneContinuation inductive, see InterruptedTurnsProofs.  A client has at most one job in the
\* queue and waits for it, unless the daemon is stopping; while one continues,
\* the record shows no interruption that another could claim.
JobsAreAwaited ==
  \A i \in DOMAIN writes :
    /\ writes[i].kind \in {"claim", "restore"} => writes[i].client # NoClient
    /\ daemon = "up" /\ writes[i].client # NoClient =>
         /\ <<writes[i].kind, pc[writes[i].client]>> \in
              {<<"claim", "claiming">>, <<"restore", "restoring">>, <<"dismiss", "dismissing">>}
         /\ \A j \in DOMAIN writes : writes[j].client = writes[i].client => i = j

StopForgets ==
  /\ daemon # "up" => \A c \in Clients : pc[c] = "idle"
  /\ daemon = "down" => writes = <<>>

ClaimHidesInterruption ==
  \A c \in Clients : Continuing(c) => record.marker.state # "interrupted"

IInv ==
  /\ TypeOK
  /\ JobsAreAwaited
  /\ StopForgets
  /\ ClaimHidesInterruption
  /\ OneContinuation

\* Once its write is done, the record names the turn that runs and its prompt:
\* no late clear, claim, restore or dismissal replaces it.
RunningTurnIsMarked ==
  turn.phase = "running" /\ ~RecordPending =>
    record.marker = RunningMarker(turn.run, ToStored(turn.prompt))

\* A record keeps a running marker only on behalf of somebody: a stale one
\* would show a finished turn as interrupted after the next restart.
NoStaleMarker ==
  daemon = "up" /\ writes = <<>> /\ turn.phase # "running"
    /\ (\A c \in Clients : ~Continuing(c)) => record.marker.state # "running"

\* A turn that a crash or a shutdown cut short after it was recorded is offered
\* with its prompt after the restart.
CutShortIsOffered ==
  [][Restart /\ cut # NoPrompt => record'.marker = InterruptedMarker(cut)]_vars

\* "Continue never repeats a prompt the provider already has"
\* (docs/agent-lifecycle.md 69-72): no user prompt is twice in the history.
NoPromptRepeated ==
  \A i, j \in DOMAIN history : history[i] = history[j] /\ history[i] \in Prompts => i = j

=============================================================================
