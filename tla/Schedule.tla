------------------------------- MODULE Schedule -------------------------------
(***************************************************************************)
(* One schedule of the daemon: its stored record, the ticks that find it   *)
(* due, the runs they and run-once requests start, the edits users make    *)
(* meanwhile, and what a restart makes of a run that was under way.        *)
(*                                                                         *)
(* A tick judges a list it read earlier, at the time it read it, and stays *)
(* in its loop while it runs an earlier schedule: ticks overlap, and one   *)
(* may act long after it judged.  Every update of the record is a          *)
(* read-modify-write in the schedule's own queue, hence one step.          *)
(***************************************************************************)
EXTENDS Integers, Sequences, FiniteSets

CONSTANTS
  None,
  Periods,          \* the cadences: the distance from a slot to the next
  Limits, Expiries, \* values of maxRuns and expiresAt a user may give, None among them
  MaxTime,          \* BOUND: the clock
  MaxTicks,         \* BOUND: ticks in progress
  MaxEdits,         \* BOUND: requests of users
  MaxCrashes        \* BOUND: crashes

ASSUME ScheduleAssumption ==
  /\ Periods \subseteq Nat \ {0}
  /\ Limits \subseteq (Nat \ {0}) \cup {None}
  /\ Expiries \subseteq Nat \cup {None}
  /\ None \notin Nat
  /\ {MaxTime, MaxTicks, MaxEdits, MaxCrashes} \subseteq Nat

Time == 0..MaxTime
Cursor == (0..(2 * MaxTime + 10)) \cup {None}

\* A run in the record's history; a manual run is for no slot.
Run == [slot : Cursor, live : BOOLEAN]

Record == [status : {"active", "paused", "completed"}, period : Periods, next : Cursor,
           max : Limits, expires : Expiries, runs : Seq(Run)]

\* A runSchedule call, at a time: claiming its slot, or with its run in progress.
Execution == [at : Time, step : {"claim", "append", "run"}, run : Nat]

VARIABLES
  now,
  file,        \* the stored record, None once deleted
  phase,       \* "up", "down", or "sweep": recovered, orphans not yet swept
  ticks,       \* ticks that have judged the schedule and not yet acted on it
  reserved,    \* whether runningScheduleIds holds the schedule
  executions,  \* the runSchedule calls in progress
  latest,      \* history: the last slot claimed since the record was replaced
  raised,      \* history: whether the limit was edited while its final run was "live",
               \* and whether the cursor was "lost" with that run in a crash
  edits, crashes

vars == <<now, file, phase, ticks, reserved, executions, latest, raised, edits, crashes>>
daemon == <<phase, ticks, reserved, executions>>

Exists == file /= None
Active == Exists /\ file.status = "active"
Ended(runs) == {i \in DOMAIN runs : ~runs[i].live}
Live(runs) == {i \in DOMAIN runs : runs[i].live}

ShouldComplete(record, time) ==
  \/ record.expires /= None /\ record.expires <= time
  \/ record.max /= None /\ Cardinality(Ended(record.runs)) >= record.max

Completed(record) == [record EXCEPT !.status = "completed", !.next = None]

\* The first slot after time on the grid that starts at slot.
AdvancePast(period, slot, time) ==
  IF slot > time THEN slot ELSE slot + period * ((time - slot) \div period + 1)

Due(record, time) ==
  record.status = "active" /\ record.next /= None /\ record.next <= time

Init ==
  /\ now = 0
  /\ \E period \in Periods, max \in Limits, expires \in Expiries, onCreate \in BOOLEAN :
       file = [status |-> "active", period |-> period,
               next |-> IF onCreate THEN 0 ELSE period,
               max |-> max, expires |-> expires, runs |-> <<>>]
  /\ phase = "up"
  /\ ticks = {}
  /\ reserved = FALSE
  /\ executions = {}
  /\ latest = -1
  /\ raised = "no"
  /\ edits = 0
  /\ crashes = 0

Clock ==
  /\ now < MaxTime
  /\ now' = now + 1
  /\ UNCHANGED <<file, daemon, latest, raised, edits, crashes>>

-----------------------------------------------------------------------------
(* The tick.                                                               *)

\* The tick lists the schedules; one it passes over leaves nothing to do.
TickList ==
  /\ phase = "up" /\ Exists
  /\ Cardinality(ticks) < MaxTicks
  /\ Active /\ file.next /= None
  /\ \/ ShouldComplete(file, now) /\ ticks' = ticks \cup {[at |-> now, todo |-> "complete"]}
     \/ /\ ~ShouldComplete(file, now) /\ Due(file, now)
        /\ ticks' = ticks \cup {[at |-> now, todo |-> "run"]}
  /\ UNCHANGED <<now, file, phase, reserved, executions, latest, raised, edits, crashes>>

TickSkip(t) ==
  /\ reserved
  /\ ticks' = ticks \ {t}
  /\ UNCHANGED <<now, file, phase, reserved, executions, latest, raised, edits, crashes>>

\* completeScheduleIfDue asks again, of the record and at the tick's time.
TickComplete(t) ==
  /\ t.todo = "complete" /\ ~reserved
  /\ ticks' = ticks \ {t}
  /\ file' = IF Active /\ file.next /= None /\ ShouldComplete(file, t.at)
             THEN Completed(file) ELSE file
  /\ UNCHANGED <<now, phase, reserved, executions, latest, raised, edits, crashes>>

\* Mutant: the tick trusts the list and starts without looking for a reservation.
StartUnreserved(t) ==
  /\ t.todo = "run"
  /\ ticks' = ticks \ {t}
  /\ reserved' = TRUE
  /\ executions' = executions \cup {[at |-> t.at, step |-> "claim", run |-> 0]}
  /\ UNCHANGED <<now, file, phase, latest, raised, edits, crashes>>

TickReserve(t) ==
  /\ t.todo = "run" /\ ~reserved
  /\ ticks' = ticks \ {t}
  /\ reserved' = TRUE
  /\ executions' = executions \cup {[at |-> t.at, step |-> "claim", run |-> 0]}
  /\ UNCHANGED <<now, file, phase, latest, raised, edits, crashes>>

-----------------------------------------------------------------------------
(* A run.                                                                  *)

Release(e) ==
  /\ executions' = executions \ {e}
  /\ reserved' = FALSE

Started(e) ==
  /\ executions' = (executions \ {e}) \cup
                     {[e EXCEPT !.step = "run", !.run = Len(file.runs) + 1]}
  /\ reserved' = reserved

Claimable(e) == Exists /\ ~ShouldComplete(file, e.at) /\ Due(file, e.at)

\* Mutant: a claim that comes too late leaves the reservation behind.
KeepReservation(e) ==
  /\ e.step = "claim" /\ ~Claimable(e)
  /\ executions' = executions \ {e}
  /\ UNCHANGED <<now, file, phase, ticks, reserved, latest, raised, edits, crashes>>

\* The slot was taken, or the schedule changed, since the tick judged it.
ClaimNothing(e) ==
  /\ e.step = "claim" /\ ~Claimable(e)
  /\ Release(e)
  /\ UNCHANGED <<now, file, phase, ticks, latest, raised, edits, crashes>>

\* The run the limit allows last has no successor.
IsFinalRun == file.max /= None /\ Cardinality(Ended(file.runs)) + 1 >= file.max

\* Mutant: the cursor moves only when the run ends.
CursorKept(e) == file.next

CursorAfterClaim(e) ==
  IF IsFinalRun THEN None
  ELSE AdvancePast(file.period, file.next + file.period, e.at)

Claim(e) ==
  /\ e.step = "claim" /\ Claimable(e)
  /\ file' = [file EXCEPT !.next = CursorAfterClaim(e),
                          !.runs = Append(@, [slot |-> file.next, live |-> TRUE])]
  /\ latest' = file.next
  /\ raised' = "no"
  /\ Started(e)
  /\ UNCHANGED <<now, phase, ticks, edits, crashes>>

\* A manual run is appended whatever became of the schedule since the request
\* was checked, unless it was deleted.
AppendManual(e) ==
  /\ e.step = "append"
  /\ IF Exists
     THEN /\ file' = [file EXCEPT !.runs = Append(@, [slot |-> None, live |-> TRUE])]
          /\ Started(e)
     ELSE Release(e) /\ UNCHANGED file
  /\ UNCHANGED <<now, phase, ticks, latest, raised, edits, crashes>>

Outcome(run) == [file EXCEPT !.runs[run].live = FALSE]

\* Mutant: finishRun forgets that the schedule may have been paused or completed.
FinishedAsActive(record, slot) ==
  IF slot = None THEN record
  ELSE IF ShouldComplete(record, now) THEN Completed(record)
  ELSE [record EXCEPT !.next =
          AdvancePast(record.period,
                      IF record.next /= None THEN record.next ELSE slot + record.period, now)]

\* What finishRun makes of a record whose run for slot has just ended.
Finished(record, slot) ==
  IF record.status = "completed" \/ slot = None THEN record
  ELSE IF ShouldComplete(record, now) THEN Completed(record)
  ELSE IF record.status = "paused" THEN [record EXCEPT !.next = None]
  ELSE [record EXCEPT !.next =
          AdvancePast(record.period,
                      IF record.next /= None THEN record.next ELSE slot + record.period, now)]

\* The runner returns or throws; a target that is gone completes the schedule.
Finish(e) ==
  /\ e.step = "run"
  /\ Release(e)
  /\ \E gone \in BOOLEAN :
       file' = IF ~Exists THEN file
               ELSE IF gone THEN Completed(Outcome(e.run))
               ELSE Finished(Outcome(e.run), file.runs[e.run].slot)
  /\ raised' = IF raised = "live" THEN "no" ELSE raised
  /\ UNCHANGED <<now, phase, ticks, latest, edits, crashes>>

-----------------------------------------------------------------------------
(* Requests of users, and the archival of the schedule's agent.            *)

Edit == edits < MaxEdits /\ edits' = edits + 1 /\ phase = "up" /\ Exists

RunOnce ==
  /\ Edit
  /\ file.status /= "completed" /\ ~reserved
  /\ reserved' = TRUE
  /\ executions' = executions \cup {[at |-> now, step |-> "append", run |-> 0]}
  /\ UNCHANGED <<now, file, phase, ticks, latest, raised, crashes>>

Pause ==
  /\ Edit
  /\ file.status = "active"
  /\ file' = [file EXCEPT !.status = "paused", !.next = None]
  /\ UNCHANGED <<now, daemon, latest, raised, crashes>>

Resume ==
  /\ Edit
  /\ file.status = "paused"
  /\ file' = [file EXCEPT !.status = "active", !.next = now + file.period]
  /\ raised' = "no"
  /\ UNCHANGED <<now, daemon, latest, crashes>>

UpdateCadence ==
  /\ Edit
  /\ \E period \in Periods :
       file' = [file EXCEPT !.period = period,
                            !.next = IF file.status = "active" THEN now + period ELSE None]
  /\ raised' = "no"
  /\ UNCHANGED <<now, daemon, latest, crashes>>

UpdateLimit ==
  /\ Edit
  /\ \E max \in Limits : file' = [file EXCEPT !.max = max]
  /\ raised' = IF raised = "no" /\ file.next = None /\ Live(file.runs) /= {}
               THEN "live" ELSE raised
  /\ UNCHANGED <<now, daemon, latest, crashes>>

UpdateExpiry ==
  /\ Edit
  /\ \E expires \in Expiries : file' = [file EXCEPT !.expires = expires]
  /\ UNCHANGED <<now, daemon, latest, raised, crashes>>

\* A create with the name and target of a schedule that has not completed.
Replace ==
  /\ Edit
  /\ file.status /= "completed"
  /\ \E period \in Periods, max \in Limits, expires \in Expiries, onCreate \in BOOLEAN :
       file' = [file EXCEPT !.status = "active", !.period = period, !.max = max,
                            !.expires = expires,
                            !.next = IF onCreate THEN now ELSE now + period]
  /\ latest' = -1
  /\ raised' = "no"
  /\ UNCHANGED <<now, daemon, crashes>>

Delete ==
  /\ Edit
  /\ file' = None
  /\ UNCHANGED <<now, daemon, latest, raised, crashes>>

CompleteForAgent ==
  /\ Edit
  /\ file.status /= "completed"
  /\ file' = Completed(file)
  /\ UNCHANGED <<now, daemon, latest, raised, crashes>>

-----------------------------------------------------------------------------
(* Crash and restart.                                                      *)

Crash ==
  /\ crashes < MaxCrashes /\ phase /= "down"
  /\ crashes' = crashes + 1
  /\ phase' = "down"
  /\ ticks' = {}
  /\ reserved' = FALSE
  /\ executions' = {}
  /\ raised' = IF raised = "live" THEN "lost" ELSE raised
  /\ UNCHANGED <<now, file, latest, edits>>

\* Mutant: recovery leaves the history alone.
RecoveredHistory == file

\* The first run still live is failed.
Interrupted ==
  LET live == Live(file.runs)
      first == CHOOSE i \in live : \A j \in live : i <= j
      failed == Outcome(first)
  IN IF live = {} THEN file
     ELSE IF ShouldComplete(failed, now) THEN Completed(failed) ELSE failed

\* A slot missed while the daemon was down is passed over.
Recovered ==
  LET record == Interrupted
  IN IF Due(record, now)
     THEN [record EXCEPT !.next = AdvancePast(record.period, record.next + record.period, now)]
     ELSE record

Recover ==
  /\ phase = "down"
  /\ phase' = "sweep"
  /\ file' = IF Exists THEN Recovered ELSE file
  /\ UNCHANGED <<now, ticks, reserved, executions, latest, raised, edits, crashes>>

\* The schedule is completed if its agent is gone; ticks and requests follow.
Sweep ==
  /\ phase = "sweep"
  /\ phase' = "up"
  /\ \/ UNCHANGED file
     \/ Exists /\ file.status /= "completed" /\ file' = Completed(file)
  /\ UNCHANGED <<now, ticks, reserved, executions, latest, raised, edits, crashes>>

-----------------------------------------------------------------------------
TickStep == \E t \in ticks : TickSkip(t) \/ TickComplete(t) \/ TickReserve(t)
Execute == \E e \in executions : ClaimNothing(e) \/ Claim(e) \/ AppendManual(e)
End == \E e \in executions : Finish(e)
Start == Recover \/ Sweep

Next ==
  \/ Clock
  \/ TickList \/ TickStep \/ Execute \/ End
  \/ RunOnce \/ Pause \/ Resume \/ UpdateCadence \/ UpdateLimit \/ UpdateExpiry
  \/ Replace \/ Delete \/ CompleteForAgent
  \/ Crash \/ Start

\* The interval keeps firing, its ticks go on, and the daemon restarts.  Nothing
\* makes a run end: the runner waits for its agent without a timeout.
Fairness == WF_vars(TickList) /\ WF_vars(TickStep) /\ WF_vars(Execute) /\ WF_vars(Start)

Spec == Init /\ [][Next]_vars /\ Fairness

-----------------------------------------------------------------------------
TypeOK ==
  /\ now \in Time
  /\ file = None \/ file \in Record
  /\ phase \in {"up", "down", "sweep"}
  /\ ticks \subseteq [at : Time, todo : {"complete", "run"}]
  /\ reserved \in BOOLEAN
  /\ executions \subseteq Execution
  /\ latest \in -1..MaxTime
  /\ raised \in {"no", "live", "lost"}

\* While the daemon runs, the runs its history shows as running are the ones
\* whose runner is in progress, and there is at most one: two ticks, a tick and
\* a run-once request, or a restart never start a schedule twice at a time, and
\* no run stays shown as running once nobody runs it.
HistoryShowsTheRun ==
  /\ Cardinality(executions) <= 1
  /\ phase = "up" /\ Exists => Live(file.runs) = {e.run : e \in {x \in executions : x.step = "run"}}

\* A slot that was claimed is never due again, also when the daemon crashes
\* between the claim and the end of its run, or the schedule is paused and
\* resumed meanwhile: only a create that replaces the schedule starts afresh.
ClaimedSlotIsPast == Exists /\ file.next /= None => file.next > latest

\* A paused or completed schedule has no next run, whoever's late update comes
\* last.  An active one has a next run or a run in progress that will decide
\* about it, also after a crash or a raised limit, unless it was both: a limit
\* edited during the final run leaves the cursor to the end of that run
\* (service.ts:647), and a crash fails the run without setting one, until the
\* schedule is resumed, replaced or given a cadence.
CursorFollowsStatus ==
  /\ Exists /\ file.status /= "active" => file.next = None
  /\ Active /\ phase = "up" /\ file.next = None => Live(file.runs) /= {} \/ raised = "lost"

\* The same without the exception.
ActiveCanFire == Active /\ phase = "up" /\ file.next = None => Live(file.runs) /= {}

ScheduledRunStarts ==
  \E e \in executions : e.step = "claim" /\ Exists /\ file' /= file /\ file' /= None
                        /\ Len(file'.runs) > Len(file.runs)

\* A tick starts no run beyond the limit in force, the live run counted and
\* manual runs too: the limit is compared with the finished runs only.
LimitBoundsRuns == [][ScheduledRunStarts /\ file.max /= None => Len(file'.runs) <= file.max]_vars

\* A completed schedule stays completed, whatever run was in progress.
CompletedIsFinal ==
  [][Exists /\ file.status = "completed" => file' = None \/ file'.status = "completed"]_vars

Overdue == Active /\ (ShouldComplete(file, now) \/ Due(file, now))

\* A schedule that is due, has expired or has used up its runs does not stay so
\* unless a run of it is in progress, which may take as long as its agent does:
\* a tick or a restart takes the slot or completes it.  Ticks pass over a
\* schedule whose cursor was lost, which stays active even when it has expired.
OverdueIsServed ==
  Overdue ~> (~Overdue \/ raised = "lost" \/ \E e \in executions : e.step = "run")
=============================================================================
