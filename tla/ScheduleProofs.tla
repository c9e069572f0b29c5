---------------------------- MODULE ScheduleProofs ----------------------------
(* For every cadence, run limit, expiry and number of ticks, requests and     *)
(* crashes: what the history of a schedule says of its runs, where its cursor *)
(* stands, and how many runs its limit allows.                                *)
EXTENDS Schedule, FiniteSetTheorems, SequenceTheorems, TLAPS

AnyRun == [slot : Nat \cup {None}, live : BOOLEAN]

AnyRecord == [status : {"active", "paused", "completed"}, period : Nat \ {0},
              next : Nat \cup {None}, max : Limits, expires : Expiries, runs : Seq(AnyRun)]

Running == {e.run : e \in {x \in executions : x.step = "run"}}

(* TypeOK without the bounds of the model checker.                            *)
Types ==
  /\ now \in Nat
  /\ file = None \/ file \in AnyRecord
  /\ phase \in {"up", "down", "sweep"}
  /\ ticks \subseteq [at : Nat, todo : {"complete", "run"}]
  /\ \A t \in ticks : t.at <= now
  /\ reserved \in BOOLEAN
  /\ executions \subseteq [at : Nat, step : {"claim", "append", "run"}, run : Nat]
  /\ \A e \in executions : e.at <= now
  /\ latest \in Int /\ latest <= now

(* The reservation stands for one execution, which the live run belongs to.   *)
Reserved ==
  /\ phase /= "up" => executions = {} /\ ticks = {}
  /\ reserved <=> executions /= {}
  /\ \A e, f \in executions : e = f

LiveRuns ==
  /\ phase /= "down" /\ Exists => Live(file.runs) = Running
  /\ Exists => \A i, j \in Live(file.runs) : i = j

IInv == Types /\ Reserved /\ LiveRuns /\ ClaimedSlotIsPast

-------------------------------------------------------------------------------
(* The helpers.                                                               *)

(* The cursor lands after the given time, on or after the slot it starts at.  *)
LEMMA AdvanceIsLater ==
  ASSUME NEW period \in Nat \ {0}, NEW slot \in Nat, NEW time \in Nat
  PROVE  /\ AdvancePast(period, slot, time) \in Nat
         /\ AdvancePast(period, slot, time) > time
         /\ AdvancePast(period, slot, time) >= slot
<1>1. CASE slot > time
  BY <1>1 DEF AdvancePast
<1>2. CASE slot <= time
  <2> DEFINE d == (time - slot) \div period
  <2>1. d \in Nat /\ time - slot < period * (d + 1)
    BY <1>2
  <2> HIDE DEF d
  <2>2. period * (d + 1) \in Nat
    BY <2>1
  <2>3. AdvancePast(period, slot, time) = slot + period * (d + 1)
    BY <1>2 DEF AdvancePast, d
  <2> QED BY <2>1, <2>2, <2>3
<1> QED BY <1>1, <1>2

(* A run that ends is no longer live, and nothing else of the history moves.  *)
LEMMA OutcomeEnds ==
  ASSUME file \in AnyRecord, NEW i \in DOMAIN file.runs
  PROVE  /\ Outcome(i) \in AnyRecord
         /\ Outcome(i) = [file EXCEPT !.runs = Outcome(i).runs]
         /\ DOMAIN Outcome(i).runs = DOMAIN file.runs
         /\ Len(Outcome(i).runs) = Len(file.runs)
         /\ Live(Outcome(i).runs) = Live(file.runs) \ {i}
         /\ Ended(Outcome(i).runs) = Ended(file.runs) \cup {i}
<1> DEFINE run == [file.runs[i] EXCEPT !.live = FALSE]
           ended == [file.runs EXCEPT ![i] = run]
<1>1. file.runs \in Seq(AnyRun)
  BY DEF AnyRecord
<1>6. \A j \in DOMAIN file.runs : file.runs[j] \in AnyRun /\ file.runs[j].live \in BOOLEAN
  <2>1. \A j \in DOMAIN file.runs : file.runs[j] \in AnyRun
    BY <1>1, ElementOfSeq, LenProperties
  <2> QED BY <2>1 DEF AnyRun
<1>8. run \in AnyRun /\ run.live = FALSE
  BY <1>6 DEF AnyRun
<1>2. ended \in Seq(AnyRun) /\ DOMAIN ended = DOMAIN file.runs /\ Len(ended) = Len(file.runs)
  <2> HIDE DEF run
  <2>1. i \in 1..Len(file.runs)
    BY <1>1, LenProperties
  <2> QED BY <1>1, <1>8, <2>1, ExceptSeq, LenProperties
<1>3. Outcome(i) = [file EXCEPT !.runs = ended]
  BY DEF Outcome
<1>5. \A j \in DOMAIN file.runs :
        ended[j].live = (IF j = i THEN FALSE ELSE file.runs[j].live)
  BY <1>8
<1> HIDE DEF ended
<1>4. Outcome(i) \in AnyRecord /\ Outcome(i).runs = ended
  BY <1>2, <1>3 DEF AnyRecord
<1>7. Live(ended) = Live(file.runs) \ {i} /\ Ended(ended) = Ended(file.runs) \cup {i}
  BY <1>2, <1>5, <1>6 DEF Live, Ended
<1> QED BY <1>2, <1>3, <1>4, <1>7

(* A run that starts is live, and joins the history at its end.               *)
With(runs, slot) == Append(runs, [slot |-> slot, live |-> TRUE])

LEMMA AppendIsLive ==
  ASSUME NEW runs \in Seq(AnyRun), NEW slot \in Nat \cup {None}
  PROVE  /\ With(runs, slot) \in Seq(AnyRun)
         /\ Len(With(runs, slot)) = Len(runs) + 1
         /\ DOMAIN With(runs, slot) = 1..(Len(runs) + 1)
         /\ With(runs, slot)[Len(runs) + 1].slot = slot
         /\ \A j \in DOMAIN runs : With(runs, slot)[j] = runs[j]
         /\ Live(With(runs, slot)) = Live(runs) \cup {Len(runs) + 1}
         /\ Ended(With(runs, slot)) = Ended(runs)
<1> DEFINE more == With(runs, slot)
<1> USE DEF With
<1>1. more \in Seq(AnyRun) /\ Len(more) = Len(runs) + 1 /\ Len(runs) \in Nat
  BY DEF AnyRun
<1>2. more[Len(runs) + 1] = [slot |-> slot, live |-> TRUE]
  OBVIOUS
<1>3. \A j \in 1..Len(runs) : more[j] = runs[j]
  OBVIOUS
<1>4. DOMAIN runs = 1..Len(runs) /\ DOMAIN more = 1..(Len(runs) + 1)
  BY <1>1
<1> HIDE DEF more, With
<1>5. Live(more) = Live(runs) \cup {Len(runs) + 1}
  BY <1>1, <1>2, <1>3, <1>4 DEF Live
<1>6. Ended(more) = Ended(runs)
  BY <1>1, <1>2, <1>3, <1>4 DEF Ended
<1> QED BY <1>1, <1>2, <1>3, <1>4, <1>5, <1>6 DEF more

(* The runs that have ended are finitely many.                                *)
LEMMA EndedIsFinite ==
  ASSUME NEW runs \in Seq(AnyRun)
  PROVE  /\ IsFiniteSet(Ended(runs))
         /\ Cardinality(Ended(runs)) \in Nat
         /\ Live(runs) = {} => Cardinality(Ended(runs)) = Len(runs)
<1>1. DOMAIN runs = 1..Len(runs) /\ Len(runs) \in Nat
  OBVIOUS
<1>2. IsFiniteSet(1..Len(runs)) /\ Cardinality(1..Len(runs)) = Len(runs)
  <2> DEFINE n == Len(runs)
  <2>1. n \in Nat
    BY <1>1
  <2> HIDE DEF n
  <2>2. IsFiniteSet(1..n) /\ Cardinality(1..n) = n
    BY <2>1, FS_Interval
  <2> QED BY <2>2 DEF n
<1>3. Ended(runs) \subseteq 1..Len(runs)
  BY <1>1 DEF Ended
<1>4. IsFiniteSet(Ended(runs)) /\ Cardinality(Ended(runs)) \in Nat
  BY <1>2, <1>3, FS_Subset, FS_CardinalityType
<1>5. ASSUME Live(runs) = {} PROVE Ended(runs) = 1..Len(runs)
  BY <1>1, <1>5 DEF Live, Ended
<1> QED BY <1>2, <1>4, <1>5

(* The end of a run: the record it leaves has that run ended, and a cursor    *)
(* beyond the last slot that was claimed.                                     *)
LEMMA FinishLeaves ==
  ASSUME IInv, Exists, NEW e \in executions, e.step = "run",
         NEW record, \/ record = Completed(Outcome(e.run))
                     \/ record = Finished(Outcome(e.run), file.runs[e.run].slot)
  PROVE  /\ record \in AnyRecord
         /\ record.runs = Outcome(e.run).runs
         /\ Live(record.runs) = {}
         /\ record.next /= None => record.next > latest
<1> DEFINE o == Outcome(e.run)
           slot == file.runs[e.run].slot
<1>1. file \in AnyRecord /\ now \in Nat /\ latest \in Int /\ latest <= now
  BY DEF IInv, Types, Exists
<1>2. Live(file.runs) = {e.run} /\ e.run \in DOMAIN file.runs
  <2>1. phase = "up"
    BY DEF IInv, Reserved, Types
  <2>2. Live(file.runs) = Running
    BY <2>1 DEF IInv, LiveRuns
  <2>3. Running = {e.run}
    BY DEF IInv, Reserved, Running
  <2> QED BY <2>2, <2>3 DEF Live
<1>3. o \in AnyRecord /\ o = [file EXCEPT !.runs = o.runs] /\ Live(o.runs) = {}
  BY <1>1, <1>2, OutcomeEnds
<1>4. o.next = file.next /\ o.status = file.status /\ o.period = file.period
  <2> HIDE DEF o
  <2> QED BY <1>1, <1>3 DEF AnyRecord
<1>5. slot \in Nat \cup {None}
  <2>1. file.runs \in Seq(AnyRun)
    BY <1>1 DEF AnyRecord
  <2>2. file.runs[e.run] \in AnyRun
    BY <1>2, <2>1, ElementOfSeq, LenProperties
  <2> QED BY <2>2 DEF AnyRun
<1>6. o.next /= None => o.next > latest
  BY <1>4 DEF IInv, ClaimedSlotIsPast, Exists
<1>7. record = Completed(o) \/ record = Finished(o, slot)
  OBVIOUS
<1> SUFFICES /\ record \in AnyRecord
             /\ record.runs = o.runs
             /\ record.next /= None => record.next > latest
  BY <1>3
<1> HIDE DEF o, slot
<1>8. CASE record = Completed(o)
  BY <1>3, <1>8 DEF Completed, AnyRecord
<1>9. CASE record = o
  BY <1>3, <1>6, <1>9
<1>10. CASE record = [o EXCEPT !.next = None]
  BY <1>3, <1>10 DEF AnyRecord
<1> DEFINE base == IF o.next /= None THEN o.next ELSE slot + o.period
           next == AdvancePast(o.period, base, now)
<1>11. CASE slot /= None /\ record = [o EXCEPT !.next = next]
  <2>1. o.period \in Nat \ {0} /\ base \in Nat
    BY <1>3, <1>5, <1>11 DEF AnyRecord
  <2> HIDE DEF base
  <2>2. next \in Nat /\ next > now
    BY <1>1, <2>1, AdvanceIsLater
  <2> HIDE DEF next
  <2>3. record \in AnyRecord /\ record.runs = o.runs /\ record.next = next
    BY <1>3, <1>11, <2>2 DEF AnyRecord
  <2> QED BY <1>1, <2>2, <2>3
<1>12. CASE record = Finished(o, slot)
  <2>1. CASE o.status = "completed" \/ slot = None
    BY <1>9, <1>12, <2>1 DEF Finished
  <2>2. CASE o.status /= "completed" /\ slot /= None /\ ShouldComplete(o, now)
    BY <1>8, <1>12, <2>2 DEF Finished
  <2>3. CASE slot /= None /\ ~ShouldComplete(o, now) /\ o.status = "paused"
    BY <1>10, <1>12, <2>3 DEF Finished
  <2>4. CASE /\ o.status /= "completed" /\ o.status /= "paused"
             /\ slot /= None /\ ~ShouldComplete(o, now)
    <3>1. Finished(o, slot) = [o EXCEPT !.next = next]
      BY <2>4 DEF Finished
    <3> QED BY <1>11, <1>12, <2>4, <3>1
  <2> QED BY <2>1, <2>2, <2>3, <2>4
<1> QED BY <1>7, <1>8, <1>12

(* The interrupted run is failed, which completes a schedule on its final run. *)
LEMMA InterruptionLeaves ==
  ASSUME IInv, Exists
  PROVE  /\ Interrupted \in AnyRecord
         /\ Live(Interrupted.runs) = {}
         /\ \/ Interrupted.status = file.status /\ Interrupted.next = file.next
            \/ Interrupted.status = "completed" /\ Interrupted.next = None
         /\ Live(file.runs) /= {} /\ file.max /= None
              /\ Cardinality(Ended(file.runs)) + 1 >= file.max
            => Interrupted.status = "completed"
<1>1. file \in AnyRecord
  BY DEF IInv, Types, Exists
<1>2. CASE Live(file.runs) = {}
  BY <1>1, <1>2 DEF Interrupted
<1>3. CASE Live(file.runs) /= {}
  <2>1. PICK i \in Live(file.runs) : Live(file.runs) = {i}
    BY <1>3 DEF IInv, LiveRuns
  <2> DEFINE first == CHOOSE k \in Live(file.runs) : \A j \in Live(file.runs) : k <= j
  <2>2. i <= i
    <3>1. i \in Nat
      BY <1>1, <2>1, LenProperties DEF Live, AnyRecord
    <3> QED BY <3>1
  <2>3. first = i /\ i \in DOMAIN file.runs /\ i \notin Ended(file.runs)
    BY <2>1, <2>2 DEF Live, Ended
  <2>4. Interrupted = IF Live(file.runs) = {} THEN file
                      ELSE IF ShouldComplete(Outcome(first), now)
                           THEN Completed(Outcome(first)) ELSE Outcome(first)
    BY Zenon DEF Interrupted
  <2> HIDE DEF first
  <2> DEFINE o == Outcome(i)
  <2>5. /\ o \in AnyRecord /\ Live(o.runs) = {} /\ o = [file EXCEPT !.runs = o.runs]
        /\ Ended(o.runs) = Ended(file.runs) \cup {i}
    BY <1>1, <2>1, <2>3, OutcomeEnds
  <2>6. \/ Interrupted = Completed(o)
        \/ Interrupted = o /\ ~ShouldComplete(o, now)
    BY <1>3, <2>3, <2>4
  <2>7. Cardinality(Ended(o.runs)) = Cardinality(Ended(file.runs)) + 1
    <3>1. IsFiniteSet(Ended(file.runs))
      BY <1>1, EndedIsFinite DEF AnyRecord
    <3> HIDE DEF o
    <3> QED BY <2>3, <2>5, <3>1, FS_AddElement
  <2> HIDE DEF o
  <2>8. o.next = file.next /\ o.status = file.status /\ o.max = file.max
    BY <1>1, <2>5 DEF AnyRecord
  <2>9. CASE Interrupted = Completed(o)
    BY <2>5, <2>9 DEF Completed, AnyRecord
  <2>10. CASE Interrupted = o /\ ~ShouldComplete(o, now)
    BY <2>5, <2>7, <2>8, <2>10 DEF ShouldComplete
  <2> QED BY <2>6, <2>9, <2>10
<1> QED BY <1>2, <1>3

(* A restart: no run of the record is live any more, and the cursor stays     *)
(* where it was, moves to after the restart, or is gone with the schedule.    *)
LEMMA RecoveryLeaves ==
  ASSUME IInv, Exists
  PROVE  /\ Recovered \in AnyRecord
         /\ Live(Recovered.runs) = {}
         /\ Recovered.next /= None => Recovered.next > latest
         /\ Recovered.status = Interrupted.status
         /\ Recovered.next = None <=> Interrupted.next = None
<1>1. file \in AnyRecord /\ now \in Nat /\ latest \in Int /\ latest <= now
  BY DEF IInv, Types, Exists
<1>2. /\ Interrupted \in AnyRecord
      /\ Live(Interrupted.runs) = {}
      /\ Interrupted.next \in {file.next, None}
  BY InterruptionLeaves
<1>3. Interrupted.next /= None => Interrupted.next > latest
  BY <1>2 DEF IInv, ClaimedSlotIsPast
<1>4. CASE ~Due(Interrupted, now)
  BY <1>1, <1>2, <1>3, <1>4 DEF Recovered
<1>5. CASE Due(Interrupted, now)
  <2> DEFINE r == Interrupted
             next == AdvancePast(r.period, r.next + r.period, now)
  <2>1. r \in AnyRecord /\ Live(r.runs) = {} /\ r.next /= None /\ r.status = "active"
    BY <1>2, <1>5 DEF Due
  <2>2. Recovered = [r EXCEPT !.next = next]
    BY <1>5 DEF Recovered
  <2>3. r.period \in Nat \ {0} /\ r.next + r.period \in Nat
    BY <2>1 DEF AnyRecord
  <2>4. next \in Nat /\ next > now
    BY <1>1, <2>3, AdvanceIsLater
  <2> HIDE DEF next
  <2>5. /\ Recovered \in AnyRecord /\ Recovered.runs = r.runs
        /\ Recovered.status = r.status /\ Recovered.next = next
    BY <2>1, <2>2, <2>4 DEF AnyRecord
  <2> QED BY <1>1, <2>1, <2>4, <2>5, ScheduleAssumption
<1> QED BY <1>4, <1>5

-------------------------------------------------------------------------------
(* The invariant.                                                             *)

LEMMA InitIInv == Init => IInv
<1> SUFFICES ASSUME Init PROVE IInv
  OBVIOUS
<1>1. PICK period \in Periods, max \in Limits, expires \in Expiries, onCreate \in BOOLEAN :
        file = [status |-> "active", period |-> period,
                next |-> IF onCreate THEN 0 ELSE period,
                max |-> max, expires |-> expires, runs |-> <<>>]
  BY DEF Init
<1>2. period \in Nat \ {0} /\ <<>> \in Seq(AnyRun)
  BY ScheduleAssumption
<1>3. file \in AnyRecord
  BY <1>1, <1>2 DEF AnyRecord
<1>4. file.runs = <<>> /\ Live(file.runs) = {}
  BY <1>1 DEF Live
<1>5. Types
  <2>1. now = 0 /\ phase = "up" /\ ticks = {} /\ reserved = FALSE /\ executions = {} /\ latest = -1
    BY DEF Init
  <2>2. latest \in Int /\ latest <= now /\ now \in Nat
    BY <2>1
  <2>3. ticks \subseteq [at : Nat, todo : {"complete", "run"}] /\ \A t \in ticks : t.at <= now
    BY <2>1
  <2>4. /\ executions \subseteq [at : Nat, step : {"claim", "append", "run"}, run : Nat]
        /\ \A e \in executions : e.at <= now
    BY <2>1
  <2> QED BY <1>3, <2>1, <2>2, <2>3, <2>4 DEF Types
<1>6. Reserved /\ LiveRuns
  BY <1>4 DEF Init, Reserved, LiveRuns, Running
<1>7. ClaimedSlotIsPast
  BY <1>1, <1>2 DEF Init, ClaimedSlotIsPast
<1> QED BY <1>5, <1>6, <1>7 DEF IInv

(* A step that moves neither the runs nor the executions, and puts the cursor *)
(* after the last slot that was claimed.                                      *)
LEMMA RecordStep ==
  ASSUME IInv, UNCHANGED <<now, phase, ticks, reserved, executions>>,
         Exists, file' \in AnyRecord, file'.runs = file.runs,
         latest' \in Int, latest' <= now,
         file'.next /= None => file'.next > latest'
  PROVE  IInv'
<1>1. Types'
  BY DEF IInv, Types
<1>2. Reserved'
  BY DEF IInv, Reserved
<1>3. LiveRuns'
  BY DEF IInv, LiveRuns, Running, Live, Exists
<1>4. ClaimedSlotIsPast'
  BY DEF ClaimedSlotIsPast, Exists
<1> QED BY <1>1, <1>2, <1>3, <1>4 DEF IInv

LEMMA ClockIInv == IInv /\ Clock => IInv'
<1> SUFFICES ASSUME IInv, Clock PROVE IInv'
  OBVIOUS
<1>1. Types'
  BY DEF Clock, daemon, IInv, Types
<1>2. Reserved' /\ LiveRuns' /\ ClaimedSlotIsPast'
  BY DEF Clock, daemon, IInv, Reserved, LiveRuns, Running, Live, Exists, ClaimedSlotIsPast
<1> QED BY <1>1, <1>2 DEF IInv

LEMMA TickIInv == IInv /\ (TickList \/ TickStep) => IInv'
<1> SUFFICES ASSUME IInv, TickList \/ TickStep PROVE IInv'
  OBVIOUS
<1>1. CASE TickList
  <2>1. Types'
    BY <1>1 DEF TickList, IInv, Types
  <2>2. Reserved' /\ LiveRuns' /\ ClaimedSlotIsPast'
    BY <1>1 DEF TickList, IInv, Reserved, LiveRuns, Running, Live, Exists, ClaimedSlotIsPast
  <2> QED BY <2>1, <2>2 DEF IInv
<1>2. ASSUME NEW t \in ticks, TickSkip(t) PROVE IInv'
  <2>1. Types'
    BY <1>2 DEF TickSkip, IInv, Types
  <2>2. Reserved' /\ LiveRuns' /\ ClaimedSlotIsPast'
    BY <1>2 DEF TickSkip, IInv, Reserved, LiveRuns, Running, Live, Exists, ClaimedSlotIsPast
  <2> QED BY <2>1, <2>2 DEF IInv
<1>3. ASSUME NEW t \in ticks, TickComplete(t) PROVE IInv'
  <2>1. file' = file \/ (Exists /\ file' = Completed(file))
    <3>1. CASE Active /\ file.next /= None /\ ShouldComplete(file, t.at)
      BY <1>3, <3>1 DEF TickComplete, Active
    <3>2. CASE ~(Active /\ file.next /= None /\ ShouldComplete(file, t.at))
      BY <1>3, <3>2 DEF TickComplete
    <3> QED BY <3>1, <3>2
  <2>2. ASSUME Exists, file' = Completed(file)
        PROVE file' \in AnyRecord /\ file'.runs = file.runs /\ file'.next = None
    BY <2>2 DEF Completed, IInv, Types, Exists, AnyRecord
  <2>3. Types'
    BY <1>3, <2>1, <2>2 DEF TickComplete, IInv, Types
  <2>4. Reserved'
    BY <1>3 DEF TickComplete, IInv, Reserved
  <2>5. (Exists' => Exists /\ file'.runs = file.runs) /\ (Exists' => file'.next \in {file.next, None})
    BY <2>1, <2>2 DEF Exists
  <2>6. LiveRuns' /\ ClaimedSlotIsPast'
    BY <1>3, <2>5 DEF TickComplete, IInv, LiveRuns, Running, Live, Exists, ClaimedSlotIsPast
  <2> QED BY <2>3, <2>4, <2>6 DEF IInv
<1>4. ASSUME NEW t \in ticks, TickReserve(t) PROVE IInv'
  <2> DEFINE e == [at |-> t.at, step |-> "claim", run |-> 0]
  <2>1. executions = {} /\ executions' = {e} /\ e.step /= "run" /\ phase = "up"
    BY <1>4 DEF TickReserve, IInv, Reserved
  <2>2. e \in [at : Nat, step : {"claim", "append", "run"}, run : Nat] /\ e.at <= now
    BY <1>4 DEF IInv, Types
  <2>3. Types'
    BY <1>4, <2>1, <2>2 DEF TickReserve, IInv, Types
  <2> HIDE DEF e
  <2>4. Reserved' /\ Running' = {} /\ Running = {}
    BY <1>4, <2>1 DEF TickReserve, IInv, Reserved, Running
  <2>5. LiveRuns' /\ ClaimedSlotIsPast'
    BY <1>4, <2>4 DEF TickReserve, IInv, LiveRuns, Live, Exists, ClaimedSlotIsPast
  <2> QED BY <2>3, <2>4, <2>5 DEF IInv
<1> QED BY <1>1, <1>2, <1>3, <1>4 DEF TickStep

(* A run joins the history of an execution that had none.                     *)
LEMMA StartIInv ==
  ASSUME IInv, Exists, NEW e \in executions, e.step /= "run", Started(e),
         UNCHANGED <<now, phase, ticks>>,
         NEW slot \in Nat \cup {None},
         file' \in AnyRecord, file'.runs = With(file.runs, slot),
         latest' \in Int, latest' <= now,
         file'.next /= None => file'.next > latest'
  PROVE  IInv'
<1> DEFINE f == [e EXCEPT !.step = "run", !.run = Len(file.runs) + 1]
<1>1. file.runs \in Seq(AnyRun)
  BY DEF IInv, Types, Exists, AnyRecord
<1>2. executions = {e} /\ executions' = {f} /\ phase = "up" /\ phase' = "up"
  BY DEF Started, IInv, Reserved, Types
<1>3. /\ f \in [at : Nat, step : {"claim", "append", "run"}, run : Nat]
      /\ f.at <= now /\ f.step = "run" /\ f.run = Len(file.runs) + 1
  <2>1. e \in [at : Nat, step : {"claim", "append", "run"}, run : Nat] /\ e.at <= now
    BY DEF IInv, Types
  <2>2. Len(file.runs) + 1 \in Nat
    BY <1>1, LenProperties
  <2> QED BY <2>1, <2>2
<1> HIDE DEF f
<1>4. Live(file.runs) = {}
  BY <1>2 DEF IInv, LiveRuns, Running
<1>5. Live(file'.runs) = {f.run} /\ Running' = {f.run}
  <2>1. Live(With(file.runs, slot)) = Live(file.runs) \cup {Len(file.runs) + 1}
    BY <1>1, AppendIsLive
  <2>2. Live(file'.runs) = {f.run}
    BY <1>3, <1>4, <2>1
  <2> QED BY <1>2, <1>3, <2>2 DEF Running
<1>6. Types'
  BY <1>2, <1>3 DEF IInv, Types, Started
<1>7. Reserved'
  BY <1>2 DEF IInv, Reserved, Started
<1>8. LiveRuns' /\ ClaimedSlotIsPast'
  BY <1>5 DEF LiveRuns, Live, Exists, ClaimedSlotIsPast
<1> QED BY <1>6, <1>7, <1>8 DEF IInv

(* An execution ends that left no live run.                                   *)
LEMMA ReleaseIInv ==
  ASSUME IInv, NEW e \in executions, Release(e),
         UNCHANGED <<now, phase, ticks, latest>>,
         \/ file' = None
         \/ /\ file' \in AnyRecord /\ Live(file'.runs) = {}
            /\ file'.next /= None => file'.next > latest
  PROVE  IInv'
<1>1. executions' = {} /\ ~reserved'
  BY DEF Release, IInv, Reserved
<1>2. Types'
  BY <1>1 DEF Release, IInv, Types
<1>3. Reserved' /\ Running' = {}
  BY <1>1 DEF Release, IInv, Reserved, Running
<1>4. LiveRuns' /\ ClaimedSlotIsPast'
  BY <1>3 DEF LiveRuns, Live, Exists, ClaimedSlotIsPast
<1> QED BY <1>2, <1>3, <1>4 DEF IInv

(* Without a run in progress the history has no live run.                     *)
LEMMA ClaimIsQuiet ==
  ASSUME IInv, Exists, NEW e \in executions, e.step /= "run"
  PROVE  Live(file.runs) = {} /\ file \in AnyRecord
<1>1. executions = {e} /\ phase = "up"
  BY DEF IInv, Reserved, Types
<1> QED BY <1>1 DEF IInv, LiveRuns, Running, Types, Exists

(* A claim moves the cursor beyond the slot it claims, or takes it away.      *)
LEMMA ClaimMoves ==
  ASSUME IInv, NEW e \in executions, Claim(e)
  PROVE  /\ Exists /\ file.status = "active"
         /\ file.next \in Nat /\ file.next <= now
         /\ file'.next = IF IsFinalRun THEN None ELSE CursorAfterClaim(e)
         /\ ~IsFinalRun => CursorAfterClaim(e) \in Nat /\ CursorAfterClaim(e) > file.next
         /\ file' = [file EXCEPT !.next = file'.next, !.runs = file'.runs]
         /\ file' \in AnyRecord
         /\ file'.runs = With(file.runs, file.next)
<1>1. Exists /\ file.status = "active" /\ file.next /= None /\ file.next <= e.at
  BY DEF Claim, Claimable, Due
<1>2. file \in AnyRecord /\ now \in Nat /\ e.at \in Nat /\ e.at <= now
  BY <1>1 DEF IInv, Types, Exists
<1>3. file.next \in Nat /\ file.next <= now /\ file.period \in Nat \ {0}
      /\ file.runs \in Seq(AnyRun)
  BY <1>1, <1>2 DEF AnyRecord
<1>4. ASSUME ~IsFinalRun
      PROVE CursorAfterClaim(e) \in Nat /\ CursorAfterClaim(e) > file.next
  <2>1. file.next + file.period \in Nat
    BY <1>3
  <2>2. AdvancePast(file.period, file.next + file.period, e.at) \in Nat
        /\ AdvancePast(file.period, file.next + file.period, e.at) >= file.next + file.period
    BY <1>2, <1>3, <2>1, AdvanceIsLater
  <2> QED BY <1>3, <1>4, <2>1, <2>2 DEF CursorAfterClaim
<1> DEFINE next == CursorAfterClaim(e)
           runs == With(file.runs, file.next)
<1>5. file' = [file EXCEPT !.next = next, !.runs = runs]
  BY DEF Claim, With
<1>6. next = (IF IsFinalRun THEN None ELSE next)
  BY DEF CursorAfterClaim
<1>7. next \in Nat \cup {None}
  BY <1>4, <1>6
<1>8. runs \in Seq(AnyRun)
  BY <1>3, AppendIsLive
<1> HIDE DEF next, runs
<1>9. file'.next = next /\ file'.runs = runs /\ file' \in AnyRecord
  BY <1>2, <1>5, <1>7, <1>8 DEF AnyRecord
<1> QED BY <1>1, <1>3, <1>4, <1>5, <1>6, <1>9 DEF next, runs

LEMMA ExecuteIInv == IInv /\ Execute => IInv'
<1> SUFFICES ASSUME IInv, NEW e \in executions,
                    ClaimNothing(e) \/ Claim(e) \/ AppendManual(e)
             PROVE  IInv'
  BY DEF Execute
<1>1. file = None \/ (Exists /\ file \in AnyRecord)
  BY DEF IInv, Types, Exists
<1>2. latest \in Int /\ latest <= now
  BY DEF IInv, Types
<1>3. CASE ClaimNothing(e)
  <2>1. file' = None \/ (/\ file' \in AnyRecord /\ Live(file'.runs) = {}
                         /\ (file'.next /= None => file'.next > latest))
    BY <1>1, <1>3, ClaimIsQuiet DEF ClaimNothing, IInv, ClaimedSlotIsPast
  <2> QED BY <1>3, <2>1, ReleaseIInv DEF ClaimNothing
<1>4. CASE Claim(e)
  <2>1. file'.next /= None => file'.next > file.next
    BY <1>4, ClaimMoves
  <2>2. /\ e.step /= "run" /\ Started(e) /\ UNCHANGED <<now, phase, ticks>>
        /\ latest' = file.next
    BY <1>4 DEF Claim
  <2>3. /\ Exists /\ file.next \in Nat /\ file.next <= now
        /\ file' \in AnyRecord /\ file'.runs = With(file.runs, file.next)
    BY <1>4, ClaimMoves
  <2> QED BY <2>1, <2>2, <2>3, StartIInv
<1>5. CASE AppendManual(e) /\ Exists
  <2>1. /\ e.step /= "run" /\ Started(e) /\ UNCHANGED <<now, phase, ticks, latest>>
        /\ file' = [file EXCEPT !.runs = With(file.runs, None)]
    BY <1>5 DEF AppendManual, With
  <2>2. file \in AnyRecord /\ With(file.runs, None) \in Seq(AnyRun)
    BY <1>1, <1>5, AppendIsLive DEF AnyRecord, Exists
  <2>3. file' \in AnyRecord /\ file'.runs = With(file.runs, None) /\ file'.next = file.next
    BY <2>1, <2>2 DEF AnyRecord
  <2>4. file.next /= None => file.next > latest
    BY <1>5 DEF IInv, ClaimedSlotIsPast
  <2> QED BY <1>2, <1>5, <2>1, <2>3, <2>4, StartIInv
<1>6. CASE AppendManual(e) /\ ~Exists
  BY <1>6, ReleaseIInv DEF AppendManual, Exists
<1> QED BY <1>3, <1>4, <1>5, <1>6

LEMMA EndIInv == IInv /\ End => IInv'
<1> SUFFICES ASSUME IInv, NEW e \in executions, Finish(e) PROVE IInv'
  BY DEF End
<1>1. e.step = "run" /\ Release(e) /\ UNCHANGED <<now, phase, ticks, latest>>
  BY DEF Finish
<1>2. CASE ~Exists
  BY <1>1, <1>2, ReleaseIInv DEF Finish, Exists
<1>3. CASE Exists
  <2>1. \/ file' = Completed(Outcome(e.run))
        \/ file' = Finished(Outcome(e.run), file.runs[e.run].slot)
    BY <1>3 DEF Finish
  <2>2. /\ file' \in AnyRecord /\ Live(file'.runs) = {}
        /\ file'.next /= None => file'.next > latest
    BY <1>1, <1>3, <2>1, FinishLeaves
  <2> QED BY <1>1, <2>2, ReleaseIInv
<1> QED BY <1>2, <1>3

Request ==
  \/ Pause \/ Resume \/ UpdateCadence \/ UpdateLimit \/ UpdateExpiry
  \/ Replace \/ CompleteForAgent

(* What a request other than a run or a deletion leaves of the record.        *)
LEMMA RequestLeaves ==
  ASSUME IInv, Request
  PROVE  /\ UNCHANGED <<now, phase, ticks, reserved, executions>>
         /\ Exists /\ file' \in AnyRecord /\ file'.runs = file.runs
         /\ latest' \in Int /\ latest' <= now
         /\ file'.next /= None => file'.next > latest'
<1>1. Exists
  BY DEF Request, Edit, Pause, Resume, UpdateCadence, UpdateLimit, UpdateExpiry,
         Replace, CompleteForAgent
<1>2. UNCHANGED <<now, phase, ticks, reserved, executions>>
  BY DEF Request, daemon, Pause, Resume, UpdateCadence, UpdateLimit, UpdateExpiry,
         Replace, CompleteForAgent
<1>3. file \in AnyRecord /\ now \in Nat /\ latest \in Int /\ latest <= now
  BY <1>1 DEF IInv, Types, Exists
<1>4. file.next /= None => file.next > latest
  BY <1>1 DEF IInv, ClaimedSlotIsPast
<1>5. file.period \in Nat \ {0} /\ Periods \subseteq Nat \ {0}
  BY <1>3, ScheduleAssumption DEF AnyRecord
<1>6. ASSUME NEW period \in Nat \ {0}
      PROVE /\ now + period \in Nat /\ now + period > latest
            /\ now > -1 /\ now + period > -1 /\ -1 \in Int /\ -1 <= now
  BY <1>3
<1>7. CASE Pause
  BY <1>1, <1>2, <1>3, <1>7 DEF Pause, AnyRecord
<1>8. CASE Resume
  <2>1. file' = [file EXCEPT !.status = "active", !.next = now + file.period] /\ latest' = latest
    BY <1>8 DEF Resume
  <2>2. now + file.period \in Nat /\ now + file.period > latest
    BY <1>5, <1>6
  <2> QED BY <1>1, <1>2, <1>3, <2>1, <2>2 DEF AnyRecord
<1>9. CASE UpdateCadence
  <2>1. PICK period \in Periods :
          file' = [file EXCEPT !.period = period,
                               !.next = IF file.status = "active" THEN now + period ELSE None]
    BY <1>9 DEF UpdateCadence
  <2>2. now + period \in Nat /\ now + period > latest /\ period \in Nat \ {0}
    BY <1>5, <1>6
  <2>3. latest' = latest
    BY <1>9 DEF UpdateCadence
  <2> DEFINE next == IF file.status = "active" THEN now + period ELSE None
  <2>4. next \in Nat \cup {None} /\ (next /= None => next > latest)
    BY <2>2
  <2>5. file' = [file EXCEPT !.period = period, !.next = next]
    BY <2>1
  <2> HIDE DEF next
  <2> QED BY <1>1, <1>2, <1>3, <2>2, <2>3, <2>4, <2>5 DEF AnyRecord
<1>10. CASE UpdateLimit
  <2>1. PICK max \in Limits : file' = [file EXCEPT !.max = max]
    BY <1>10 DEF UpdateLimit
  <2>2. latest' = latest
    BY <1>10 DEF UpdateLimit
  <2> QED BY <1>1, <1>2, <1>3, <1>4, <2>1, <2>2 DEF AnyRecord
<1>11. CASE UpdateExpiry
  <2>1. PICK expires \in Expiries : file' = [file EXCEPT !.expires = expires]
    BY <1>11 DEF UpdateExpiry
  <2>2. latest' = latest
    BY <1>11 DEF UpdateExpiry
  <2> QED BY <1>1, <1>2, <1>3, <1>4, <2>1, <2>2 DEF AnyRecord
<1>12. CASE Replace
  <2>1. PICK period \in Periods, max \in Limits, expires \in Expiries, onCreate \in BOOLEAN :
          file' = [file EXCEPT !.status = "active", !.period = period, !.max = max,
                               !.expires = expires,
                               !.next = IF onCreate THEN now ELSE now + period]
    BY <1>12 DEF Replace
  <2>2. latest' = -1
    BY <1>12 DEF Replace
  <2> DEFINE next == IF onCreate THEN now ELSE now + period
  <2>3. next \in Nat /\ next > latest' /\ latest' \in Int /\ latest' <= now
    BY <1>3, <1>5, <1>6, <2>2
  <2>4. file' = [file EXCEPT !.status = "active", !.period = period, !.max = max,
                             !.expires = expires, !.next = next]
    BY <2>1
  <2> HIDE DEF next
  <2> QED BY <1>1, <1>2, <1>3, <1>5, <2>3, <2>4 DEF AnyRecord
<1>13. CASE CompleteForAgent
  BY <1>1, <1>2, <1>3, <1>13 DEF CompleteForAgent, Completed, AnyRecord
<1> QED BY <1>7, <1>8, <1>9, <1>10, <1>11, <1>12, <1>13 DEF Request

LEMMA RequestIInv == IInv /\ Request => IInv'
  BY RequestLeaves, RecordStep

LEMMA DeleteIInv == IInv /\ Delete => IInv'
<1> SUFFICES ASSUME IInv, Delete PROVE IInv'
  OBVIOUS
<1>1. Types'
  BY DEF Delete, daemon, IInv, Types
<1>2. Reserved' /\ LiveRuns' /\ ClaimedSlotIsPast'
  BY DEF Delete, daemon, IInv, Reserved, LiveRuns, Exists, ClaimedSlotIsPast
<1> QED BY <1>1, <1>2 DEF IInv

LEMMA RunOnceIInv == IInv /\ RunOnce => IInv'
<1> SUFFICES ASSUME IInv, RunOnce PROVE IInv'
  OBVIOUS
<1> DEFINE e == [at |-> now, step |-> "append", run |-> 0]
<1>1. executions = {} /\ executions' = {e} /\ e.step /= "run" /\ phase = "up"
  BY DEF RunOnce, Edit, IInv, Reserved
<1>2. e \in [at : Nat, step : {"claim", "append", "run"}, run : Nat] /\ e.at <= now
  BY DEF IInv, Types
<1>3. Types'
  BY <1>1, <1>2 DEF RunOnce, IInv, Types
<1> HIDE DEF e
<1>4. Reserved' /\ Running' = {} /\ Running = {}
  BY <1>1 DEF RunOnce, IInv, Reserved, Running
<1>5. LiveRuns' /\ ClaimedSlotIsPast'
  BY <1>4 DEF RunOnce, IInv, LiveRuns, Live, Exists, ClaimedSlotIsPast
<1> QED BY <1>3, <1>4, <1>5 DEF IInv

LEMMA CrashIInv == IInv /\ Crash => IInv'
<1> SUFFICES ASSUME IInv, Crash PROVE IInv'
  OBVIOUS
<1>1. Types' /\ Reserved'
  BY DEF Crash, IInv, Types, Reserved
<1>2. LiveRuns' /\ ClaimedSlotIsPast'
  BY DEF Crash, IInv, LiveRuns, Live, Exists, ClaimedSlotIsPast
<1> QED BY <1>1, <1>2 DEF IInv

LEMMA RestartIInv == IInv /\ (Recover \/ Sweep) => IInv'
<1> SUFFICES ASSUME IInv, Recover \/ Sweep PROVE IInv'
  OBVIOUS
<1>1. /\ UNCHANGED <<now, ticks, reserved, executions, latest>>
      /\ phase /= "up" /\ phase' \in {"sweep", "up"}
  BY DEF Recover, Sweep
<1>2. executions = {} /\ ticks = {} /\ ~reserved
  BY <1>1 DEF IInv, Reserved
<1>3. \/ file' = None
      \/ /\ file' \in AnyRecord /\ Live(file'.runs) = {}
         /\ file'.next /= None => file'.next > latest
  <2>1. CASE ~Exists
    BY <2>1 DEF Recover, Sweep, Exists
  <2>2. CASE Exists /\ Recover
    BY <2>2, RecoveryLeaves DEF Recover
  <2>3. CASE Exists /\ Sweep
    <3>1. file \in AnyRecord /\ Live(file.runs) = {} /\ (file.next /= None => file.next > latest)
      BY <1>2, <2>3 DEF Sweep, IInv, Types, LiveRuns, Running, ClaimedSlotIsPast, Exists
    <3>2. file' = file \/ file' = Completed(file)
      BY <2>3 DEF Sweep
    <3> QED BY <3>1, <3>2 DEF Completed, AnyRecord
  <2> QED BY <2>1, <2>2, <2>3
<1>4. Types'
  BY <1>1, <1>2, <1>3 DEF IInv, Types
<1>5. Reserved' /\ Running' = {}
  BY <1>1, <1>2 DEF Reserved, Running
<1>6. LiveRuns' /\ ClaimedSlotIsPast'
  BY <1>1, <1>3, <1>5 DEF LiveRuns, Live, Exists, ClaimedSlotIsPast
<1> QED BY <1>4, <1>5, <1>6 DEF IInv

LEMMA NextIInv == IInv /\ [Next]_vars => IInv'
<1> SUFFICES ASSUME IInv, [Next]_vars PROVE IInv'
  OBVIOUS
<1>1. CASE UNCHANGED vars
  <2>1. Types'
    BY <1>1 DEF vars, IInv, Types
  <2>2. Reserved' /\ LiveRuns' /\ ClaimedSlotIsPast'
    BY <1>1 DEF vars, IInv, Reserved, LiveRuns, Running, Live, Exists, ClaimedSlotIsPast
  <2> QED BY <2>1, <2>2 DEF IInv
<1>2. CASE Next
  BY <1>2, ClockIInv, TickIInv, ExecuteIInv, EndIInv, RequestIInv, DeleteIInv, RunOnceIInv,
     CrashIInv, RestartIInv
     DEF Next, Request, Start
<1> QED BY <1>1, <1>2

LEMMA Invariant == Spec => []IInv
<1>1. Init => IInv
  BY InitIInv
<1>2. IInv /\ [Next]_vars => IInv'
  BY NextIInv
<1> QED BY <1>1, <1>2, PTL DEF Spec

-------------------------------------------------------------------------------
(* The properties.                                                            *)

(* In every behaviour at most one run of a schedule is in progress, and its   *)
(* history shows as running exactly the run whose runner is (tick,            *)
(* runSchedule, runOnce and recoverInterruptedRuns).                          *)
THEOREM HistoryIsTrue == Spec => []HistoryShowsTheRun
<1>1. IInv => HistoryShowsTheRun
  <2> SUFFICES ASSUME IInv PROVE HistoryShowsTheRun
    OBVIOUS
  <2>1. Cardinality(executions) <= 1
    <3>1. CASE executions = {}
      BY <3>1, FS_EmptySet
    <3>2. CASE executions /= {}
      <4>1. PICK e \in executions : executions = {e}
        BY <3>2 DEF IInv, Reserved
      <4>2. Cardinality({e}) = 1
        BY FS_Singleton
      <4> QED BY <4>1, <4>2
    <3> QED BY <3>1, <3>2
  <2> QED BY <2>1 DEF IInv, LiveRuns, Running, HistoryShowsTheRun
<1> QED BY <1>1, Invariant, PTL

(* In every behaviour the cursor is beyond the last slot that was claimed, a  *)
(* crash, a pause or a late end of a run notwithstanding (runSchedule,        *)
(* finishRun and recoverInterruptedRuns).                                     *)
THEOREM SlotIsClaimedOnce == Spec => []ClaimedSlotIsPast
<1>1. IInv => ClaimedSlotIsPast
  BY DEF IInv
<1> QED BY <1>1, Invariant, PTL

(* In every step a completed schedule stays completed or is deleted, whatever *)
(* run of it ends late (finishRun, completeSchedule and the requests).        *)
THEOREM CompletionIsFinal == Spec => CompletedIsFinal
<1>1. IInv /\ [Next]_vars =>
        [Exists /\ file.status = "completed" => file' = None \/ file'.status = "completed"]_vars
  <2> SUFFICES ASSUME IInv, Next, Exists, file.status = "completed", file' /= None
               PROVE  file'.status = "completed"
    OBVIOUS
  <2>1. file \in AnyRecord
    BY DEF IInv, Types, Exists
  <2>2. CASE UNCHANGED file
    BY <2>2
  <2>3. ASSUME NEW e \in executions, Claim(e) \/ AppendManual(e) PROVE file'.status = "completed"
    <3>1. ~Claim(e)
      BY DEF Claim, Claimable, Due
    <3> QED BY <2>1, <2>3, <3>1 DEF AppendManual, AnyRecord
  <2>4. ASSUME NEW e \in executions, Finish(e) PROVE file'.status = "completed"
    <3> DEFINE o == Outcome(e.run)
    <3>1. e.run \in DOMAIN file.runs
      <4>1. phase = "up" /\ e.step = "run"
        BY <2>4 DEF Finish, IInv, Reserved, Types
      <4> QED BY <4>1 DEF IInv, LiveRuns, Running, Live
    <3>2. o \in AnyRecord /\ o = [file EXCEPT !.runs = o.runs]
      BY <2>1, <3>1, OutcomeEnds
    <3>3. file' = Completed(o) \/ file' = Finished(o, file.runs[e.run].slot)
      BY <2>4 DEF Finish
    <3> HIDE DEF o
    <3>4. o.status = "completed"
      BY <2>1, <3>2 DEF AnyRecord
    <3>5. file' = Completed(o) \/ file' = o
      BY <3>3, <3>4 DEF Finished
    <3> QED BY <3>2, <3>4, <3>5 DEF Completed, AnyRecord
  <2>5. ASSUME NEW t \in ticks, TickComplete(t) PROVE file'.status = "completed"
    BY <2>2, <2>5 DEF TickComplete, Active
  <2>6. CASE Request
    <3>1. UpdateCadence \/ UpdateLimit \/ UpdateExpiry
      BY <2>6 DEF Request, Pause, Resume, Replace, CompleteForAgent
    <3> QED BY <2>1, <3>1 DEF UpdateCadence, UpdateLimit, UpdateExpiry, AnyRecord
  <2>7. CASE Recover
    <3>1. file' = Recovered
      BY <2>7 DEF Recover
    <3>2. Recovered.status = "completed"
      BY InterruptionLeaves, RecoveryLeaves
    <3> QED BY <3>1, <3>2
  <2>8. CASE Sweep
    BY <2>1, <2>8 DEF Sweep
  <2> QED
    BY <2>2, <2>3, <2>4, <2>5, <2>6, <2>7, <2>8
       DEF Next, Clock, TickList, TickStep, TickSkip, TickReserve, Execute, ClaimNothing, End,
           RunOnce, Delete, Crash, Start, Request
<1> QED BY <1>1, Invariant, PTL DEF Spec, CompletedIsFinal

(* In every step in which a scheduled run starts, the history with that run   *)
(* in it is no longer than the limit in force (runSchedule compares the limit *)
(* with the finished runs, and no other run is live when it does).            *)
THEOREM LimitHolds == Spec => LimitBoundsRuns
<1>1. IInv /\ [Next]_vars =>
        [ScheduledRunStarts /\ file.max /= None => Len(file'.runs) <= file.max]_vars
  <2> SUFFICES ASSUME IInv, Next, NEW e \in executions, e.step = "claim", Exists, file' /= file,
                      file' /= None, Len(file'.runs) > Len(file.runs), file.max /= None
               PROVE  Len(file'.runs) <= file.max
    BY DEF ScheduledRunStarts
  <2>1. file \in AnyRecord /\ Live(file.runs) = {} /\ executions = {e} /\ phase = "up"
    BY ClaimIsQuiet DEF IInv, Reserved, Types
  <2>2. file.runs \in Seq(AnyRun) /\ Len(file.runs) \in Nat /\ file.max \in Nat
    <3>1. file.runs \in Seq(AnyRun) /\ file.max \in Limits
      BY <2>1 DEF AnyRecord
    <3>2. Limits \subseteq Nat \cup {None}
      BY ScheduleAssumption
    <3> QED BY <3>1, <3>2, LenProperties
  <2>3. ~(file'.runs = file.runs)
    BY <2>2
  <2>4. CASE Claim(e)
    <3>1. Cardinality(Ended(file.runs)) = Len(file.runs)
      BY <2>1, <2>2, EndedIsFinite
    <3>2. ~(Cardinality(Ended(file.runs)) >= file.max)
      BY <2>4 DEF Claim, Claimable, ShouldComplete
    <3>3. Len(file'.runs) = Len(file.runs) + 1
      <4>1. file.next \in Nat /\ file'.runs = With(file.runs, file.next)
        BY <2>4, ClaimMoves
      <4>2. Len(With(file.runs, file.next)) = Len(file.runs) + 1
        BY <2>2, <4>1, AppendIsLive
      <4> QED BY <4>1, <4>2
    <3> QED BY <2>2, <3>1, <3>2, <3>3
  <2>5. ~TickList /\ ~TickStep
    BY <2>1, <2>3 DEF TickList, TickStep, TickSkip, TickComplete, TickReserve, Completed, AnyRecord
  <2>6. ~AppendManual(e) /\ ~Finish(e) /\ ~ClaimNothing(e)
    BY DEF AppendManual, Finish, ClaimNothing
  <2>7. ~Request
    BY <2>3, RequestLeaves
  <2>8. ~Recover /\ ~Sweep
    BY <2>1 DEF Recover, Sweep
  <2> QED
    BY <2>1, <2>4, <2>5, <2>6, <2>7, <2>8
       DEF Next, Clock, Execute, End, RunOnce, Delete, Crash, Start, Request
<1> QED BY <1>1, Invariant, PTL DEF Spec, LimitBoundsRuns

(* A cursor that is missing although the schedule is active: its live run is  *)
(* a scheduled one, and the last the limit allowed before it was edited; or   *)
(* it was lost with that run.                                                 *)
ScheduledRun == \E i \in Live(file.runs) : file.runs[i].slot /= None

FinalRun ==
  /\ file.max /= None
  /\ Cardinality(Ended(file.runs)) + 1 >= file.max
  /\ ScheduledRun

Awaited == FinalRun \/ raised = "lost" \/ (raised = "live" /\ ScheduledRun)

CursorInv ==
  /\ raised \in {"no", "live", "lost"}
  /\ raised = "live" => phase = "up"
  /\ Exists => /\ file.status /= "active" => file.next = None
               /\ file.status = "active" /\ file.next = None => Awaited

LEMMA CompletedHasNoCursor ==
  ASSUME NEW record \in AnyRecord
  PROVE  Completed(record).status = "completed" /\ Completed(record).next = None
BY DEF Completed, AnyRecord

LEMMA InitCursorInv == Init => CursorInv
<1> SUFFICES ASSUME Init PROVE CursorInv
  OBVIOUS
<1>1. PICK period \in Periods, max \in Limits, expires \in Expiries, onCreate \in BOOLEAN :
        file = [status |-> "active", period |-> period,
                next |-> IF onCreate THEN 0 ELSE period,
                max |-> max, expires |-> expires, runs |-> <<>>]
  BY DEF Init
<1>2. file.status = "active" /\ file.next \in Nat
  BY <1>1, ScheduleAssumption
<1> QED BY <1>2, ScheduleAssumption DEF CursorInv, Init

(* A step that leaves the record and the history alone.                       *)
LEMMA SameCursor ==
  ASSUME CursorInv, UNCHANGED <<file, phase, raised>> PROVE CursorInv'
BY DEF CursorInv, Awaited, FinalRun, ScheduledRun, Exists, Ended, Live

LEMMA ExecuteCursorInv == IInv /\ CursorInv /\ Execute => CursorInv'
<1> SUFFICES ASSUME IInv, CursorInv, NEW e \in executions,
                    ClaimNothing(e) \/ Claim(e) \/ AppendManual(e)
             PROVE  CursorInv'
  BY DEF Execute
<1>1. CASE UNCHANGED <<file, phase, raised>>
  BY <1>1, SameCursor
<1>2. CASE Claim(e)
  <2>1. /\ Exists /\ file.status = "active" /\ file.next \in Nat /\ file \in AnyRecord
        /\ file' = [file EXCEPT !.next = file'.next, !.runs = file'.runs]
        /\ file'.runs = With(file.runs, file.next)
        /\ file'.next = IF IsFinalRun THEN None ELSE CursorAfterClaim(e)
        /\ ~IsFinalRun => CursorAfterClaim(e) \in Nat
    BY <1>2, ClaimMoves DEF IInv, Types, Exists
  <2>2. file'.status = "active" /\ file'.max = file.max /\ raised' = "no"
    BY <1>2, <2>1 DEF AnyRecord, Claim
  <2>3. ASSUME file'.next = None PROVE FinalRun'
    <3>1. IsFinalRun
      BY <2>1, <2>3, ScheduleAssumption
    <3>2. file.runs \in Seq(AnyRun)
      BY <2>1 DEF AnyRecord
    <3>3. /\ Ended(file'.runs) = Ended(file.runs)
          /\ Len(file.runs) + 1 \in Live(file'.runs)
          /\ file'.runs[Len(file.runs) + 1].slot = file.next
      BY <2>1, <3>2, AppendIsLive
    <3>4. file.next /= None
      BY <2>1, ScheduleAssumption
    <3> QED BY <2>2, <3>1, <3>3, <3>4 DEF FinalRun, ScheduledRun, IsFinalRun, Live, Ended
  <2> QED BY <2>2, <2>3 DEF CursorInv, Awaited
<1>3. CASE AppendManual(e) /\ Exists
  <2>1. Live(file.runs) = {} /\ file \in AnyRecord
    BY <1>3, ClaimIsQuiet DEF AppendManual
  <2>2. /\ file.status /= "active" => file.next = None
        /\ file.status = "active" /\ file.next = None => raised = "lost"
    BY <1>3, <2>1 DEF CursorInv, Awaited, FinalRun, ScheduledRun
  <2>3. /\ file'.status = file.status /\ file'.next = file.next
        /\ raised' = raised /\ phase' = phase
    BY <1>3, <2>1 DEF AppendManual, AnyRecord
  <2> QED BY <2>2, <2>3 DEF CursorInv, Awaited
<1> QED BY <1>1, <1>2, <1>3 DEF ClaimNothing, AppendManual

LEMMA EndCursorInv == IInv /\ CursorInv /\ End => CursorInv'
<1>a. ASSUME CursorInv, ~Exists, End PROVE CursorInv'
  BY <1>a DEF End, Finish, CursorInv, Exists
<1> SUFFICES ASSUME IInv, CursorInv, Exists, NEW e \in executions, Finish(e) PROVE CursorInv'
  BY <1>a DEF End
<1> DEFINE o == Outcome(e.run)
           slot == file.runs[e.run].slot
<1>1. file \in AnyRecord /\ e.step = "run" /\ phase = "up" /\ phase' = phase
  BY DEF Finish, IInv, Types, Reserved, Exists
<1>2. Live(file.runs) = {e.run} /\ e.run \in DOMAIN file.runs
  <2>1. Running = {e.run}
    BY <1>1 DEF IInv, Reserved, Running
  <2>2. Live(file.runs) = Running
    BY <1>1 DEF IInv, LiveRuns
  <2> QED BY <2>1, <2>2 DEF Live
<1>3. o \in AnyRecord /\ o = [file EXCEPT !.runs = o.runs]
  BY <1>1, <1>2, OutcomeEnds
<1>4. slot = None => ~ScheduledRun
  BY <1>2 DEF ScheduledRun
<1>5. slot \in Nat \cup {None} /\ now \in Nat
  <2>1. file.runs \in Seq(AnyRun)
    BY <1>1 DEF AnyRecord
  <2>2. file.runs[e.run] \in AnyRun
    BY <1>2, <2>1, ElementOfSeq, LenProperties
  <2> QED BY <2>2 DEF AnyRun, IInv, Types
<1>6. file' = Completed(o) \/ file' = Finished(o, slot)
  BY DEF Finish
<1>7. raised' \in {"no", "lost"} /\ (raised = "lost" => raised' = "lost")
  BY DEF Finish, CursorInv
<1> HIDE DEF o, slot
<1>8. o.status = file.status /\ o.next = file.next
  BY <1>1, <1>3 DEF AnyRecord
<1> SUFFICES /\ file'.status /= "active" => file'.next = None
             /\ file'.status = "active" /\ file'.next = None => raised = "lost"
  BY <1>7 DEF CursorInv, Awaited
<1>9. CASE file' = Completed(o)
  BY <1>3, <1>9, CompletedHasNoCursor
<1>10. CASE file' = o /\ (o.status = "completed" \/ slot = None)
  BY <1>4, <1>8, <1>10 DEF CursorInv, Awaited, FinalRun
<1>11. CASE file' = [o EXCEPT !.next = None] /\ o.status = "paused"
  BY <1>3, <1>11 DEF AnyRecord
<1> DEFINE base == IF o.next /= None THEN o.next ELSE slot + o.period
           next == AdvancePast(o.period, base, now)
<1>12. CASE slot /= None /\ file' = [o EXCEPT !.next = next] /\ o.status = "active"
  <2>1. o.period \in Nat \ {0} /\ base \in Nat
    BY <1>3, <1>5, <1>12 DEF AnyRecord
  <2> HIDE DEF base
  <2>2. next \in Nat
    BY <1>5, <2>1, AdvanceIsLater
  <2> HIDE DEF next
  <2>3. file'.next = next /\ file'.status = "active"
    BY <1>3, <1>12 DEF AnyRecord
  <2> QED BY <2>2, <2>3, ScheduleAssumption
<1>13. CASE file' = Finished(o, slot)
  <2>1. CASE o.status = "completed" \/ slot = None
    BY <1>10, <1>13, <2>1 DEF Finished
  <2>2. CASE o.status /= "completed" /\ slot /= None /\ ShouldComplete(o, now)
    BY <1>9, <1>13, <2>2 DEF Finished
  <2>3. CASE slot /= None /\ ~ShouldComplete(o, now) /\ o.status = "paused"
    BY <1>11, <1>13, <2>3 DEF Finished
  <2>4. CASE o.status = "active" /\ slot /= None /\ ~ShouldComplete(o, now)
    <3>1. Finished(o, slot) = [o EXCEPT !.next = next]
      BY <2>4 DEF Finished
    <3> QED BY <1>12, <1>13, <2>4, <3>1
  <2> QED BY <1>3, <2>1, <2>2, <2>3, <2>4 DEF AnyRecord
<1> QED BY <1>6, <1>9, <1>13

(* A limit edited while a run is live leaves the cursor to the end of it.     *)
LEMMA RequestCursorInv ==
  ASSUME IInv, CursorInv, Request PROVE CursorInv'
<1>1. Exists /\ file \in AnyRecord /\ now \in Nat
  BY RequestLeaves DEF IInv, Types, Exists
<1>2. None \notin Nat /\ Periods \subseteq Nat \ {0} /\ file.period \in Nat \ {0}
  BY <1>1, ScheduleAssumption DEF AnyRecord
<1>3. \A period \in Nat \ {0} : now + period /= None /\ now /= None
  BY <1>1, <1>2
<1>4. phase = "up" /\ phase' = "up"
  BY DEF Request, daemon, Edit, Pause, Resume, UpdateCadence, UpdateLimit, UpdateExpiry,
         Replace, CompleteForAgent
<1>5. CASE Pause
  BY <1>1, <1>4, <1>5 DEF Pause, CursorInv, AnyRecord
<1>6. CASE Resume
  BY <1>1, <1>2, <1>3, <1>6 DEF Resume, CursorInv, AnyRecord
<1>7. CASE UpdateCadence
  <2>1. PICK period \in Periods :
          file' = [file EXCEPT !.period = period,
                               !.next = IF file.status = "active" THEN now + period ELSE None]
    BY <1>7 DEF UpdateCadence
  <2>2. /\ file'.status = file.status
        /\ file'.next = IF file.status = "active" THEN now + period ELSE None
    BY <1>1, <2>1 DEF AnyRecord
  <2>3. raised' = "no"
    BY <1>7 DEF UpdateCadence
  <2> QED BY <1>2, <1>3, <2>2, <2>3 DEF CursorInv
<1>8. CASE UpdateLimit
  <2>1. \E max \in Limits : file' = [file EXCEPT !.max = max]
    BY <1>8 DEF UpdateLimit
  <2>2. file'.status = file.status /\ file'.next = file.next /\ file'.runs = file.runs
    BY <1>1, <2>1 DEF AnyRecord
  <2>3. ScheduledRun' <=> ScheduledRun
    BY <2>2 DEF ScheduledRun, Live
  <2>4. raised' = IF raised = "no" /\ file.next = None /\ Live(file.runs) /= {}
                  THEN "live" ELSE raised
    BY <1>8 DEF UpdateLimit
  <2>5. raised' \in {"no", "live", "lost"}
    BY <2>4 DEF CursorInv
  <2>6. ASSUME file.status = "active", file.next = None PROVE Awaited'
    <3>1. CASE raised = "lost"
      BY <2>4, <3>1 DEF Awaited
    <3>2. CASE ScheduledRun /\ raised /= "lost"
      <4>1. Live(file.runs) /= {}
        BY <3>2 DEF ScheduledRun
      <4>2. raised' = "live"
        BY <2>4, <2>6, <3>2, <4>1 DEF CursorInv
      <4> QED BY <2>3, <3>2, <4>2 DEF Awaited
    <3> QED BY <1>1, <2>6, <3>1, <3>2 DEF CursorInv, Awaited, FinalRun
  <2> QED BY <1>1, <1>4, <2>2, <2>5, <2>6 DEF CursorInv
<1>9. CASE UpdateExpiry
  <2>1. /\ file'.status = file.status /\ file'.next = file.next
        /\ file'.max = file.max /\ file'.runs = file.runs /\ raised' = raised
    BY <1>1, <1>9 DEF UpdateExpiry, AnyRecord
  <2> QED BY <1>1, <1>4, <2>1 DEF CursorInv, Awaited, FinalRun, ScheduledRun, Live, Ended
<1>10. CASE Replace
  <2>1. PICK period \in Periods, max \in Limits, expires \in Expiries, onCreate \in BOOLEAN :
          file' = [file EXCEPT !.status = "active", !.period = period, !.max = max,
                               !.expires = expires,
                               !.next = IF onCreate THEN now ELSE now + period]
    BY <1>10 DEF Replace
  <2>2. file'.status = "active" /\ file'.next = IF onCreate THEN now ELSE now + period
    BY <1>1, <2>1 DEF AnyRecord
  <2>3. raised' = "no"
    BY <1>10 DEF Replace
  <2> QED BY <1>2, <1>3, <2>2, <2>3 DEF CursorInv
<1>11. CASE CompleteForAgent
  BY <1>1, <1>4, <1>11, CompletedHasNoCursor DEF CompleteForAgent, CursorInv
<1> QED BY <1>5, <1>6, <1>7, <1>8, <1>9, <1>10, <1>11 DEF Request

LEMMA RestartCursorInv == IInv /\ CursorInv /\ (Recover \/ Sweep) => CursorInv'
<1> SUFFICES ASSUME IInv, CursorInv, Recover \/ Sweep PROVE CursorInv'
  OBVIOUS
<1>1. raised' = raised /\ raised \in {"no", "lost"}
  BY DEF Recover, Sweep, CursorInv
<1>2. CASE UNCHANGED file
  BY <1>1, <1>2 DEF CursorInv, Awaited, FinalRun, ScheduledRun, Exists, Ended, Live
<1>3. CASE Sweep
  <2>1. ASSUME Exists, file' = Completed(file) PROVE CursorInv'
    BY <1>1, <2>1, CompletedHasNoCursor DEF CursorInv, IInv, Types, Exists
  <2> QED BY <1>2, <1>3, <2>1 DEF Sweep
<1>4. CASE Recover /\ Exists
  <2>1. /\ file'.status = Interrupted.status
        /\ file'.next = None <=> Interrupted.next = None
    BY <1>4, RecoveryLeaves DEF Recover
  <2>2. \/ Interrupted.status = file.status /\ Interrupted.next = file.next
        \/ Interrupted.status = "completed" /\ Interrupted.next = None
    BY <1>4, InterruptionLeaves
  <2>3. FinalRun => Interrupted.status = "completed"
    BY <1>4, InterruptionLeaves DEF FinalRun, ScheduledRun
  <2>4. CASE Interrupted.status = "completed"
    BY <1>1, <1>4, <2>1, <2>2, <2>4 DEF CursorInv
  <2>5. CASE Interrupted.status /= "completed"
    <3>1. file'.status = file.status /\ (file'.next = None <=> file.next = None) /\ ~FinalRun
      BY <2>1, <2>2, <2>3, <2>5
    <3> QED BY <1>1, <1>4, <3>1 DEF CursorInv, Awaited
  <2> QED BY <2>4, <2>5
<1> QED BY <1>2, <1>3, <1>4 DEF Recover

LEMMA NextCursorInv == IInv /\ CursorInv /\ [Next]_vars => CursorInv'
<1> SUFFICES ASSUME IInv, CursorInv, [Next]_vars PROVE CursorInv'
  OBVIOUS
<1>1. CASE UNCHANGED <<file, phase, raised>>
  BY <1>1, SameCursor
<1>2. ASSUME NEW t \in ticks, TickComplete(t) PROVE CursorInv'
  <2>1. UNCHANGED <<phase, raised>>
    BY <1>2 DEF TickComplete
  <2>2. ASSUME Exists, file' = Completed(file) PROVE CursorInv'
    BY <2>1, <2>2, CompletedHasNoCursor DEF CursorInv, IInv, Types, Exists
  <2> QED BY <1>1, <1>2, <2>1, <2>2 DEF TickComplete, Active
<1>3. CASE Delete
  BY <1>3 DEF Delete, daemon, CursorInv, Exists
<1>4. CASE Crash
  <2>1. UNCHANGED file /\ phase' = "down"
        /\ raised' = IF raised = "live" THEN "lost" ELSE raised
    BY <1>4 DEF Crash
  <2> QED BY <2>1 DEF CursorInv, Awaited, FinalRun, ScheduledRun, Exists, Ended, Live
<1> QED
  BY <1>1, <1>2, <1>3, <1>4, ExecuteCursorInv, EndCursorInv, RequestCursorInv, RestartCursorInv
     DEF vars, Next, Clock, daemon, TickList, TickStep, TickSkip, TickReserve, RunOnce, Start,
         Request

(* In every behaviour a paused or completed schedule has no next run, and an  *)
(* active one has one or a run in progress, across crashes and edits of the   *)
(* limit, unless a crash ended a final run whose limit was edited (finishRun, *)
(* recoverInterruptedRuns).                                                   *)
THEOREM CursorIsRight == Spec => []CursorFollowsStatus
<1>1. Init => CursorInv
  BY InitCursorInv
<1>2. IInv /\ CursorInv /\ [Next]_vars => CursorInv'
  BY NextCursorInv
<1>3. CursorInv /\ IInv => CursorFollowsStatus
  <2>1. ScheduledRun => Live(file.runs) /= {}
    BY DEF ScheduledRun
  <2> QED BY <2>1 DEF CursorInv, Awaited, FinalRun, CursorFollowsStatus, Active
<1> QED BY <1>1, <1>2, <1>3, Invariant, PTL DEF Spec
===============================================================================
