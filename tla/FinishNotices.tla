----------------------------- MODULE FinishNotices -----------------------------
(***************************************************************************)
(* Finish notices between one calling agent and one child.  The caller     *)
(* sends the child prompts and, with each, registers to be told when the   *)
(* child is done.  Prompts and notices both travel through the message     *)
(* delivery, a lane per recipient that collects messages for a quiet while *)
(* and dispatches batches one after the other; only the registrations are  *)
(* kept in a file.                                                         *)
(*                                                                         *)
(* Permission requests, children on other hosts and detached children are  *)
(* left out: every result here is a final one.                             *)
(***************************************************************************)
EXTENDS Naturals, Sequences, SequencesExt

CONSTANTS
  Ids,          \* the registrations: one per prompt of the caller
  Boot,         \* the watch a restart makes of the registrations it finds
  MaxFailures,  \* BOUND: dispatches, removals and observations that fail
  MaxRestarts   \* BOUND: crashes and shutdowns

ASSUME FinishNoticesAssumption ==
  Boot \notin Ids /\ {MaxFailures, MaxRestarts} \subseteq Nat

Watches == Ids \cup {Boot}

\* A watch's way: its dispatch undecided, then observing, holding a result while
\* other dispatches are undecided, delivering, removing its records.
Live == {"pending", "observe", "opened", "decide", "deliver", "sent", "remove"}
Stage == Live \cup {"none", "stopped"}

VARIABLES
  store,       \* the file: the registrations not yet settled
  phase,       \* "up", "closing" or "down"
  stage, records, \* each watch: where it is, and its registrations
  predecessors, \* of a registration: the registrations it found when it was made
  removing,    \* superseded registrations the mutation queue has yet to remove
  rejecting,   \* registrations whose dispatch failed, yet to be withdrawn
  awaited,     \* of an observation: the prompts its initial wait waits for
  heard,       \* the open observations that heard a turn end
  toChild, toCaller, \* the lanes: messages collected, and batches being dispatched
  starting,    \* whether the child's batch in dispatch was accepted as a new turn
  turn,        \* the prompts of the child's running turn, {} when it is idle
  accepted, over, \* history: prompts the child accepted, and those whose turn ended
  sent,        \* history: the registrations made, whose ids are never used again
  withdrawn,   \* history: rejected registrations
  notified,    \* history: registrations a dispatched notice was about
  callerActive, failures, restarts

file == <<store, sent>>
watching == <<stage, records, predecessors, awaited, heard>>
queue == <<removing, rejecting>>
lanes == <<toChild, toCaller, starting>>
child == <<turn, accepted, over>>
told == <<withdrawn, notified>>
bounds == <<failures, restarts>>
vars == <<file, phase, watching, queue, lanes, child, told, callerActive, bounds>>

EmptyLane == [collected |-> <<>>, batches |-> <<>>]

\* The messages a lane holds.
InLane(lane) == ToSet(lane.collected) \cup UNION {ToSet(b) : b \in ToSet(lane.batches)}

Admit(lane, message) ==
  [collected |-> Append(lane.collected, message), batches |-> lane.batches]

\* The receipts of the first batch are settled, and the next one is dispatched.
Advance(lane) == [collected |-> lane.collected, batches |-> Tail(lane.batches)]

\* The quiet timer or the close of the delivery: one batch joins the chain.
Flushed(lane) ==
  [collected |-> <<>>, batches |-> Append(lane.batches, lane.collected)]

Fail == failures < MaxFailures /\ failures' = failures + 1

Init ==
  /\ store = {} /\ sent = {}
  /\ phase = "up"
  /\ stage = [w \in Watches |-> "none"]
  /\ records = [w \in Watches |-> IF w = Boot THEN {} ELSE {w}]
  /\ predecessors = [r \in Ids |-> {}]
  /\ removing = {} /\ rejecting = {}
  /\ awaited = [w \in Watches |-> {}]
  /\ heard = {}
  /\ toChild = EmptyLane /\ toCaller = EmptyLane
  /\ starting = FALSE
  /\ turn = {} /\ accepted = {} /\ over = {}
  /\ withdrawn = {} /\ notified = {}
  /\ callerActive = TRUE
  /\ failures = 0 /\ restarts = 0

\* The registrations that have a watch at work.
Group == UNION {records[w] : w \in {v \in Watches : stage[v] \in Live}}

-----------------------------------------------------------------------------
(* Sending a prompt.                                                       *)

\* Mutant: the registration counts as accepted before its prompt is dispatched.
RegisterAccepted(r) ==
  /\ phase = "up" /\ callerActive
  /\ r \notin sent /\ sent' = sent \cup {r}
  /\ store' = store \cup {r}
  /\ stage' = [stage EXCEPT ![r] = "observe"]
  /\ predecessors' = [predecessors EXCEPT ![r] = Group]
  /\ toChild' = Admit(toChild, r)
  /\ UNCHANGED <<phase, records, awaited, heard, queue, toCaller, starting, child, told,
                 callerActive, bounds>>

\* The registration is written before the prompt is enqueued.
Send(r) ==
  /\ phase = "up" /\ callerActive
  /\ r \notin sent /\ sent' = sent \cup {r}
  /\ store' = store \cup {r}
  /\ stage' = [stage EXCEPT ![r] = "pending"]
  /\ predecessors' = [predecessors EXCEPT ![r] = Group]
  /\ toChild' = Admit(toChild, r)
  /\ UNCHANGED <<phase, records, awaited, heard, queue, toCaller, starting, child, told,
                 callerActive, bounds>>

FlushChild ==
  /\ toChild.collected /= <<>>
  /\ toChild' = Flushed(toChild)
  /\ UNCHANGED <<file, phase, watching, queue, toCaller, starting, child, told,
                 callerActive, bounds>>

\* The registrations of the batch that accept() still takes, and what they supersede.
Accepting(batch) ==
  IF phase = "up" THEN {r \in ToSet(batch) : stage[r] = "pending"} ELSE {}
Superseding(rs) == UNION {predecessors[r] : r \in rs}

\* accept() of each registration, in the callback of the dispatch: a watch that
\* a later registration of the batch supersedes is stopped with the others.
Accept(rs) ==
  /\ stage' = [w \in Watches |->
       IF records[w] \cap Superseding(rs) /= {} /\ stage[w] \in Live THEN "stopped"
       ELSE IF w \in rs THEN "observe" ELSE stage[w]]
  /\ removing' = removing \cup Superseding(rs)

\* The child takes the batch into its running turn, or starts a turn for it.
AcceptBatch ==
  LET batch == Head(toChild.batches)
  IN /\ toChild.batches /= <<>> /\ ~starting /\ phase /= "down"
     /\ Accept(Accepting(batch))
     /\ accepted' = accepted \cup ToSet(batch)
     /\ turn' = turn \cup ToSet(batch)
     /\ IF turn = {} THEN starting' = TRUE /\ UNCHANGED toChild
        ELSE toChild' = Advance(toChild) /\ UNCHANGED starting
     /\ UNCHANGED <<file, phase, records, predecessors, awaited, heard, rejecting, toCaller,
                    over, told, callerActive, bounds>>

\* The receipts resolve once the run is seen to have started.
Started ==
  /\ starting
  /\ starting' = FALSE
  /\ toChild' = Advance(toChild)
  /\ UNCHANGED <<file, phase, watching, queue, toCaller, child, told, callerActive, bounds>>

\* The receipts reject, before the child accepted anything or, if its run does
\* not start, after; every registration of the batch is to be withdrawn.
DispatchFails ==
  /\ toChild.batches /= <<>>
  /\ Fail
  /\ starting' = FALSE
  /\ toChild' = Advance(toChild)
  /\ rejecting' = rejecting \cup ToSet(Head(toChild.batches))
  /\ withdrawn' = withdrawn \cup ToSet(Head(toChild.batches))
  /\ turn' = IF starting THEN {} ELSE turn
  /\ over' = IF starting THEN over \cup turn ELSE over
  /\ heard' = IF starting THEN {w \in Watches : stage[w] = "opened"} ELSE heard
  /\ UNCHANGED <<file, phase, stage, records, predecessors, awaited, removing, toCaller,
                 accepted, notified, callerActive, restarts>>

\* reject(), in the mutation queue.
Reject(r) ==
  /\ r \in rejecting /\ phase /= "down"
  /\ rejecting' = rejecting \ {r}
  /\ stage' = [stage EXCEPT ![r] = IF @ = "none" THEN @ ELSE "stopped"]
  /\ store' = store \ {r}
  /\ UNCHANGED <<sent, phase, records, predecessors, awaited, heard, removing, lanes, child, told,
                 callerActive, bounds>>

RemoveSuperseded(r) ==
  /\ r \in removing /\ phase /= "down"
  /\ removing' = removing \ {r}
  /\ store' = store \ {r}
  /\ UNCHANGED <<sent, phase, watching, rejecting, lanes, child, told, callerActive, bounds>>

\* The child's turn ends, and every open observation hears it.
TurnEnds ==
  /\ turn /= {} /\ ~starting
  /\ turn' = {}
  /\ over' = over \cup turn
  /\ heard' = {w \in Watches : stage[w] = "opened"}
  /\ UNCHANGED <<file, phase, stage, records, predecessors, awaited, queue, lanes, accepted,
                 told, callerActive, bounds>>

-----------------------------------------------------------------------------
(* A watch.                                                                *)

Move(w, to) == stage' = [stage EXCEPT ![w] = to]

\* A caller that is gone or archived ends the watch without a notice.
Suppress(w) ==
  /\ stage[w] \in {"observe", "decide", "deliver"} /\ ~callerActive /\ phase = "up"
  /\ Move(w, "remove")
  /\ UNCHANGED <<file, phase, records, predecessors, awaited, heard, queue, lanes, child, told,
                 callerActive, bounds>>

\* The observation listens, and asks once how the child is when the messages
\* admitted so far have been dispatched.
Open(w) ==
  /\ stage[w] = "observe" /\ callerActive
  /\ Move(w, "opened")
  /\ awaited' = [awaited EXCEPT ![w] = InLane(toChild)]
  /\ heard' = heard \ {w}
  /\ UNCHANGED <<file, phase, records, predecessors, queue, lanes, child, told, callerActive,
                 bounds>>

\* A turn has ended, or the child was idle when asked.
Result(w) ==
  /\ stage[w] = "opened"
  /\ w \in heard \/ (awaited[w] \cap InLane(toChild) = {} /\ turn = {})
  /\ Move(w, "decide")
  /\ UNCHANGED <<file, phase, records, predecessors, awaited, heard, queue, lanes, child, told,
                 callerActive, bounds>>

\* The wait rejects with a dispatch it awaited, or the host fails; the watch
\* starts its observation again.
ObservationFails(w) ==
  /\ stage[w] = "opened" /\ w \notin heard
  /\ Fail
  /\ Move(w, "observe")
  /\ UNCHANGED <<file, phase, records, predecessors, awaited, heard, queue, lanes, child, told,
                 callerActive, restarts>>

\* The result waits until no registration of the pair is undecided.
Decide(w) ==
  /\ stage[w] = "decide"
  /\ \A other \in Watches : stage[other] /= "pending"
  /\ Move(w, "deliver")
  /\ UNCHANGED <<file, phase, records, predecessors, awaited, heard, queue, lanes, child, told,
                 callerActive, bounds>>

Deliver(w) ==
  /\ stage[w] = "deliver" /\ callerActive
  /\ Move(w, "sent")
  /\ toCaller' = Admit(toCaller, w)
  /\ UNCHANGED <<file, phase, records, predecessors, awaited, heard, queue, toChild, starting,
                 child, told, callerActive, bounds>>

FlushCaller ==
  /\ toCaller.collected /= <<>>
  /\ toCaller' = Flushed(toCaller)
  /\ UNCHANGED <<file, phase, watching, queue, toChild, starting, child, told, callerActive,
                 bounds>>

\* The notices of the batch are dispatched; a stopped watch does not hear of it.
NoticeDispatched ==
  LET batch == ToSet(Head(toCaller.batches))
  IN /\ toCaller.batches /= <<>>
     /\ toCaller' = Advance(toCaller)
     /\ notified' = notified \cup UNION {records[w] : w \in batch}
     /\ stage' = [w \in Watches |-> IF w \in batch /\ stage[w] = "sent" THEN "remove"
                                    ELSE stage[w]]
     /\ UNCHANGED <<file, phase, records, predecessors, awaited, heard, queue, toChild, starting,
                    child, withdrawn, callerActive, bounds>>

\* Mutant: a watch whose notice was refused gives up.
GiveUp ==
  LET batch == ToSet(Head(toCaller.batches))
  IN /\ toCaller.batches /= <<>> /\ Fail
     /\ toCaller' = Advance(toCaller)
     /\ stage' = [w \in Watches |-> IF w \in batch /\ stage[w] = "sent" THEN "remove"
                                    ELSE stage[w]]
     /\ UNCHANGED <<file, phase, records, predecessors, awaited, heard, queue, toChild, starting,
                    child, told, callerActive, restarts>>

\* Each refused watch keeps its result and delivers it again.
NoticeRefused ==
  LET batch == ToSet(Head(toCaller.batches))
  IN /\ toCaller.batches /= <<>> /\ Fail
     /\ toCaller' = Advance(toCaller)
     /\ stage' = [w \in Watches |-> IF w \in batch /\ stage[w] = "sent" THEN "deliver"
                                    ELSE stage[w]]
     /\ UNCHANGED <<file, phase, records, predecessors, awaited, heard, queue, toChild, starting,
                    child, told, callerActive, restarts>>

\* Mutant: after a failed removal the notice is delivered again.
RedeliverAfterFailure(w) ==
  /\ stage[w] = "remove" /\ Fail
  /\ Move(w, "deliver")
  /\ UNCHANGED <<file, phase, records, predecessors, awaited, heard, queue, lanes, child, told,
                 callerActive, restarts>>

\* A removal that fails is tried again.
RemovalFails(w) ==
  /\ stage[w] = "remove" /\ Fail
  /\ UNCHANGED <<file, phase, watching, queue, lanes, child, told, callerActive, restarts>>

RemoveRecords(w) ==
  /\ stage[w] = "remove"
  /\ Move(w, "stopped")
  /\ store' = store \ records[w]
  /\ UNCHANGED <<sent, phase, records, predecessors, awaited, heard, queue, lanes, child, told,
                 callerActive, bounds>>

-----------------------------------------------------------------------------
(* The caller's archival, shutdown, crash and restart.                     *)

Archive ==
  /\ callerActive
  /\ callerActive' = FALSE
  /\ UNCHANGED <<file, phase, watching, queue, lanes, child, told, bounds>>

\* The watches stop first, with their records kept, and the removals under way
\* are carried through or fail; the lanes then drain.
Close ==
  /\ phase = "up" /\ restarts < MaxRestarts
  /\ restarts' = restarts + 1
  /\ phase' = "closing"
  /\ removing' = {} /\ rejecting' = {}
  /\ \E done \in SUBSET {w \in Watches : stage[w] = "remove"} :
       store' = store \ (removing \cup rejecting \cup UNION {records[w] : w \in done})
  /\ stage' = [w \in Watches |-> IF stage[w] = "none" THEN "none" ELSE "stopped"]
  /\ UNCHANGED <<sent, records, predecessors, awaited, heard, lanes, child, told, callerActive,
                 failures>>

\* The memory is gone, and a turn of the child with it.
Vanish ==
  /\ phase' = "down"
  /\ stage' = [w \in Watches |-> "none"]
  /\ heard' = {}
  /\ removing' = {} /\ rejecting' = {}
  /\ toChild' = EmptyLane /\ toCaller' = EmptyLane
  /\ starting' = FALSE
  /\ turn' = {}
  /\ over' = over \cup turn
  /\ UNCHANGED <<store, sent, records, predecessors, awaited, accepted, told, callerActive, failures>>

Exit ==
  /\ phase = "closing" /\ InLane(toChild) \cup InLane(toCaller) = {}
  /\ Vanish
  /\ UNCHANGED restarts

Crash ==
  /\ phase /= "down" /\ restarts < MaxRestarts
  /\ restarts' = restarts + 1
  /\ Vanish

\* Mutant: every record found gets a watch that waits for its prompt's dispatch.
StartPending ==
  /\ phase = "down"
  /\ phase' = "up"
  /\ records' = [records EXCEPT ![Boot] = store]
  /\ stage' = [stage EXCEPT ![Boot] = IF store = {} THEN "none" ELSE "pending"]
  /\ UNCHANGED <<file, predecessors, awaited, heard, queue, lanes, child, told, callerActive,
                 bounds>>

\* start(): one watch takes all records of the pair, as accepted.
Start ==
  /\ phase = "down"
  /\ phase' = "up"
  /\ records' = [records EXCEPT ![Boot] = store]
  /\ stage' = [stage EXCEPT ![Boot] = IF store = {} THEN "none" ELSE "observe"]
  /\ UNCHANGED <<file, predecessors, awaited, heard, queue, lanes, child, told, callerActive,
                 bounds>>

-----------------------------------------------------------------------------
Dispatch == FlushChild \/ AcceptBatch \/ Started
Notify == FlushCaller \/ NoticeDispatched
Settle == \E r \in Ids : Reject(r) \/ RemoveSuperseded(r)
Step(w) == Suppress(w) \/ Open(w) \/ Result(w) \/ Decide(w) \/ Deliver(w) \/ RemoveRecords(w)
Fault == DispatchFails \/ NoticeRefused
           \/ \E w \in Watches : ObservationFails(w) \/ RemovalFails(w)

Next ==
  \/ \E r \in Ids : Send(r)
  \/ Dispatch \/ Notify \/ Settle \/ TurnEnds \/ Fault
  \/ \E w \in Watches : Step(w)
  \/ Archive \/ Close \/ Exit \/ Crash \/ Start

\* Timers fire, dispatches end, every watch goes on, and a daemon that stopped is
\* started again.  Nothing makes a turn of the child end.
Fairness ==
  /\ WF_vars(Dispatch) /\ WF_vars(Notify) /\ WF_vars(Settle)
  /\ \A w \in Watches : WF_vars(Step(w))
  /\ WF_vars(Exit) /\ WF_vars(Start)

Spec == Init /\ [][Next]_vars /\ Fairness

-----------------------------------------------------------------------------
TypeOK ==
  /\ store \subseteq sent /\ sent \subseteq Ids
  /\ phase \in {"up", "closing", "down"}
  /\ stage \in [Watches -> Stage]
  /\ records \in [Watches -> SUBSET Ids]
  /\ predecessors \in [Ids -> SUBSET Ids]
  /\ removing \subseteq Ids /\ rejecting \subseteq Ids
  /\ InLane(toChild) \subseteq Ids /\ InLane(toCaller) \subseteq Watches
  /\ starting \in BOOLEAN
  /\ turn \subseteq accepted /\ over \subseteq accepted

\* A notice is owed for an accepted prompt until one was dispatched, or a later
\* prompt of the caller, accepted and not withdrawn, took its place.
Superseded(r) ==
  \E s \in accepted \ withdrawn : r \in predecessors[s]
Owed(r) == r \in accepted \ (withdrawn \cup notified) /\ ~Superseded(r)

\* Its registration gave way to a later one whose prompt was accepted, and whose
\* run then did not start (websocket-server.ts:731): both are withdrawn.
Forgone(r) == \E s \in accepted \cap withdrawn : r \in predecessors[s]

\* A notice that is owed is in the file, so that no crash can lose it: the
\* registrations before a rejected one are still owed their notices, unless the
\* rejected prompt had been accepted.
OwedNoticeIsDurable ==
  callerActive => \A r \in Ids : Owed(r) /\ ~Forgone(r) => r \in store

\* The same without exception: finish-subscriptions/index.ts:47, "Rejected
\* dispatch preserves preceding registrations."
RejectedPreservesPreceding == callerActive => \A r \in Ids : Owed(r) => r \in store

\* While the daemon runs, a registration in the file has a watch that is at work
\* for it, or is about to be removed: none is kept that nobody looks after.
EveryRecordIsWatched ==
  phase = "up" =>
    \A r \in store : r \in removing \cup rejecting
                       \/ \E w \in Watches : stage[w] \in Live /\ r \in records[w]

\* A notice on its way is never ahead of the work it reports: every prompt of
\* its registrations that the child accepted has been carried to its end.
NoEarlyNotice ==
  \A w \in InLane(toCaller) : records[w] \cap accepted \subseteq over

\* As long as the daemon does not restart the caller hears once of each prompt,
\* whatever dispatch or removal fails.
NoticeOnce ==
  restarts = 0 => \A w \in InLane(toCaller) : records[w] \cap notified = {}

\* A prompt is answered in the end: its notice is dispatched, or that of a later
\* prompt will be, also across restarts.  Nothing is said while the child works,
\* which may take as long as its provider does.
NoticeArrives ==
  \A r \in Ids : (Owed(r) /\ ~Forgone(r) /\ callerActive)
                  ~> (~Owed(r) \/ Forgone(r) \/ ~callerActive \/ turn # {})
=============================================================================
