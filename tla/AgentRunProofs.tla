---------------------------- MODULE AgentRunProofs ----------------------------
(* For every set of callers and every number of runs, turns and remembered    *)
(* turn ids: what the run map, the active foreground turn, the stream and the *)
(* provider's turns may be together.                                          *)
EXTENDS AgentRun, SequenceTheorems, WellFoundedInduction, TLAPS

IsEnd(e, t) == e.type \in Terminal /\ e.turn = t
IsStart(e, t) == e.type = "turn_started" /\ e.turn = t
Ends(es, t) == \E i \in DOMAIN es : IsEnd(es[i], t)
Starts(es, t) == \E i \in DOMAIN es : IsStart(es[i], t)

Pending == HasRun /\ InForeground(cur) /\ run[cur].start = "pending"
Streaming == HasRun /\ InForeground(cur) /\ run[cur].start = "started"

(* The types, and a start that failed is not recorded on the run.            *)
Types == StateTypes /\ \A r \in Runs : run[r].start # "failed"

(* A used run is the tracked one or settled, and its generator is where its   *)
(* kind and its turn id say.                                                  *)
RunFits(r) ==
  /\ run[r].kind = "none" => run[r] = UnusedRun /\ gen[r] = "none"
  /\ run[r].kind = "collected" => gen[r] = "ended"
  /\ run[r].kind = "autonomous" =>
       /\ gen[r] = "none" /\ run[r].start = "pending"
       /\ run[r].staged = <<>> /\ ~run[r].replacement
  /\ run[r].kind = "foreground" =>
       \/ /\ gen[r] \in {"checkpoint", "starting"}
          /\ run[r].start = "pending" /\ run[r].turn = NoTurn
       \/ /\ gen[r] = "streaming" /\ run[r].start = "started"
          /\ run[r].turn \in Turns /\ owner[run[r].turn] = r
RunInv ==
  /\ \A r \in Runs : run[r].kind # "none" <=> r = cur \/ r \in settled
  /\ HasRun => cur \notin settled /\ run[cur].kind \in {"foreground", "autonomous"}
  /\ \A r \in Runs : RunFits(r)
  /\ \A r \in heard : r \in settled /\ gen[r] = "streaming"

(* The active foreground turn is that of the tracked run.                     *)
ForegroundInv ==
  /\ agent.fg # NoTurn <=> Streaming
  /\ agent.fg # NoTurn => run[cur].turn = agent.fg

(* A run has one turn at most, opened after its startTurn was called.         *)
TurnInv ==
  \A t \in Turns :
    /\ prov[t] = "unused" => owner[t] = NoRun /\ t \notin announced
    /\ owner[t] # NoRun => gen[owner[t]] \in {"starting", "streaming", "ended"}
    /\ \A u \in Turns : owner[t] = owner[u] /\ owner[t] # NoRun => t = u

(* Events are of announced turns, and terminal events of turns that ended.    *)
Reported(p, told, es) ==
  \A t \in Turns : /\ Ends(es, t) => p[t] = "over"
                   /\ Starts(es, t) => t \in told
EventInv ==
  /\ Reported(prov, announced, queue) /\ Reported(prov, announced, barrier.events)
  /\ \A r \in Runs : Reported(prov, announced, run[r].staged)

(* Remembered turn ids are those of settled runs.                             *)
FinalizedInv ==
  \A t \in Turns : IsFinalized(agent, t) =>
    /\ owner[t] # NoRun /\ owner[t] \in settled
    /\ gen[owner[t]] \in {"streaming", "ended"}

(* The end of the tracked run's turn waits to be processed.                   *)
EndInv ==
  /\ Streaming /\ prov[run[cur].turn] = "over" =>
       Ends(queue, run[cur].turn) \/ Ends(barrier.events, run[cur].turn)
  /\ Pending => \A t \in OpenedTurns(cur) : prov[t] = "over" =>
       Ends(run[cur].staged, t) \/ Ends(barrier.events, t)

(* Every entry of the lane is a request that waits, and op is the head's.     *)
WaitersInv ==
  \A i \in DOMAIN lane :
    /\ lane[i].kind = "cancel" => pc[lane[i].caller] \in {"stopping", "replacing"}
    /\ lane[i].kind = "steer" => pc[lane[i].caller] = "steering" /\ "steer" \in Operations
    /\ \A j \in DOMAIN lane : lane[i].caller = lane[j].caller => i = j
OpInv ==
  /\ op.phase = "none" => op = NoOp
  /\ op.phase # "none" => lane # <<>>
  /\ op.phase \in {"interrupting", "settling", "forced"} =>
       Mutation.kind = "cancel" /\ op.run \in Runs /\ run[op.run].kind # "none"
  /\ op.phase \in {"draining", "admitting", "closing"} =>
       Mutation.kind = "steer" /\ op.run = NoRun
  /\ op.acked => op.phase \in {"settling", "forced"}
BarrierInv ==
  /\ barrier.held <=> op.phase = "admitting"
  /\ ~barrier.held => barrier.events = <<>>
LaneInv == WaitersInv /\ OpInv /\ BarrierInv

Structure ==
  /\ Types /\ RunInv /\ ForegroundInv /\ TurnInv /\ EventInv /\ FinalizedInv
  /\ EndInv /\ LaneInv


-------------------------------------------------------------------------------
(* What the operators return.                                                 *)

Agents == [lifecycle : {"idle", "running", "error"}, fg : Turns \cup {NoTurn},
           turn : Turns \cup {NoTurn}, lastError : BOOLEAN,
           replacing : BOOLEAN, finalized : Seq(Turns)]
RunObjects == [kind : {"none", "foreground", "autonomous", "collected"},
               start : {"pending", "started", "failed"},
               turn : Turns \cup {NoTurn}, staged : Seq(Event), replacement : BOOLEAN]

\* A set of positive numbers that is not empty has a least element.
LEMMA Least ==
  ASSUME NEW S \in SUBSET Nat, S # {}
  PROVE  \E s \in S : \A u \in S : s <= u
<1>1. PICK s \in S : \A u \in S : <<u, s>> \notin OpToRel(<, Nat)
  BY WFMin, NatLessThanWellFounded
<1>2. \A u \in S : ~(u < s)
  BY <1>1 DEF OpToRel
<1> QED
  BY <1>2

LEMMA NextRunIsFresh == FreshRuns # {} => NextRun \in FreshRuns
<1> SUFFICES ASSUME FreshRuns # {}
             PROVE  NextRun \in FreshRuns
  OBVIOUS
<1>1. FreshRuns \in SUBSET Nat
  BY BoundsAssumption DEF FreshRuns, Runs
<1>2. \E r \in FreshRuns : \A s \in FreshRuns : r <= s
  BY <1>1, Least
<1> QED
  BY <1>2 DEF NextRun

LEMMA NextTurnIsFresh == FreshTurns # {} => NextTurn \in FreshTurns
<1> SUFFICES ASSUME FreshTurns # {}
             PROVE  NextTurn \in FreshTurns
  OBVIOUS
<1>1. FreshTurns \in SUBSET Nat
  BY BoundsAssumption DEF FreshTurns, Turns
<1>2. \E t \in FreshTurns : \A u \in FreshTurns : t <= u
  BY <1>1, Least
<1> QED
  BY <1>2 DEF NextTurn

\* Remember adds the turn at the end, and may forget the oldest one.
LEMMA RememberEffect ==
  ASSUME NEW a \in Agents, NEW t \in Turns \cup {NoTurn}
  PROVE  /\ Remember(a, t) \in Seq(Turns)
         /\ \A i \in DOMAIN Remember(a, t) :
              \/ Remember(a, t)[i] = t /\ t # NoTurn
              \/ IsFinalized(a, Remember(a, t)[i])
<1> DEFINE ids == Append(a.finalized, t)
<1>1. a.finalized \in Seq(Turns)
  BY DEF Agents
<1>2. CASE t = NoTurn \/ IsFinalized(a, t)
  BY <1>1, <1>2 DEF Remember, IsFinalized
<1>3. CASE ~(t = NoTurn \/ IsFinalized(a, t))
  <2>1. /\ ids \in Seq(Turns) /\ Len(ids) = Len(a.finalized) + 1 /\ Len(ids) \in Nat
        /\ DOMAIN ids = 1..Len(ids) /\ ids # <<>>
    BY <1>1, <1>3
  <2>2. \A i \in DOMAIN ids : \/ ids[i] = t /\ t # NoTurn
                              \/ IsFinalized(a, ids[i])
    BY <1>1, <1>3 DEF IsFinalized
  <2>3. /\ Tail(ids) \in Seq(Turns) /\ Len(Tail(ids)) = Len(ids) - 1
        /\ DOMAIN Tail(ids) = 1..(Len(ids) - 1)
        /\ \A i \in DOMAIN Tail(ids) : Tail(ids)[i] = ids[i + 1] /\ i + 1 \in DOMAIN ids
    BY <2>1
  <2>4. \A i \in DOMAIN Tail(ids) : \/ Tail(ids)[i] = t /\ t # NoTurn
                                    \/ IsFinalized(a, Tail(ids)[i])
    BY <2>2, <2>3
  <2>5. Remember(a, t) = ids \/ Remember(a, t) = Tail(ids)
    BY <1>3 DEF Remember
  <2> HIDE DEF ids
  <2> QED
    BY <2>1, <2>2, <2>3, <2>4, <2>5
<1> QED
  BY <1>2, <1>3

LEMMA CloseEffect ==
  ASSUME NEW a \in Agents, NEW t \in Turns \cup {NoTurn}
  PROVE  /\ CloseActiveTurn(a, t) \in Agents
         /\ CloseActiveTurn(a, t).turn \in {a.turn, NoTurn}
         /\ t # NoTurn => CloseActiveTurn(a, t).turn # t
         /\ CloseActiveTurn(a, t).fg = a.fg
         /\ CloseActiveTurn(a, t).replacing = a.replacing
         /\ CloseActiveTurn(a, t).finalized = a.finalized
BY DEF CloseActiveTurn, Disposition, Agents

LEMMA AfterTerminalEffect ==
  ASSUME NEW a \in Agents, NEW type \in Terminal, NEW t, NEW d
  PROVE  /\ AfterTerminal(a, type, t, d) \in Agents
         /\ AfterTerminal(a, type, t, d).turn = a.turn
         /\ AfterTerminal(a, type, t, d).fg = a.fg
         /\ AfterTerminal(a, type, t, d).replacing = a.replacing
         /\ AfterTerminal(a, type, t, d).finalized = a.finalized
BY DEF AfterTerminal, Agents, Terminal

\* Finalizing a turn ends the foreground turn and closes that turn.
LEMMA FinalizeEffect ==
  ASSUME NEW a \in Agents, NEW t \in Turns \cup {NoTurn}
  PROVE  /\ FinalizeForegroundTurn(a, t) \in Agents
         /\ FinalizeForegroundTurn(a, t).fg = NoTurn
         /\ FinalizeForegroundTurn(a, t).turn \in {a.turn, NoTurn}
         /\ t # NoTurn => FinalizeForegroundTurn(a, t).turn # t
         /\ FinalizeForegroundTurn(a, t).replacing = a.replacing
         /\ FinalizeForegroundTurn(a, t).finalized = Remember(a, t)
<1> DEFINE c == [a EXCEPT !.finalized = Remember(a, t), !.fg = NoTurn]
           b == CloseActiveTurn(c, t)
<1>1. /\ c \in Agents /\ c.fg = NoTurn /\ c.turn = a.turn
      /\ c.replacing = a.replacing /\ c.finalized = Remember(a, t)
  BY RememberEffect DEF Agents
<1> HIDE DEF c
<1>2. /\ b \in Agents /\ b.fg = NoTurn /\ b.turn \in {a.turn, NoTurn}
      /\ t # NoTurn => b.turn # t
      /\ b.replacing = a.replacing /\ b.finalized = Remember(a, t)
  BY <1>1, CloseEffect
<1> HIDE DEF b
<1>3. \E l \in {"idle", "running", "error"} :
        FinalizeForegroundTurn(a, t) = [b EXCEPT !.lifecycle = l]
  <2>1. FinalizeForegroundTurn(a, t) =
          [b EXCEPT !.lifecycle = IF b.replacing /\ ~b.lastError THEN "running"
                                  ELSE IF b.lastError THEN "error" ELSE "idle"]
    BY Zenon DEF FinalizeForegroundTurn, b, c
  <2> QED
    BY <2>1
<1> QED
  BY <1>2, <1>3 DEF Agents

\* A terminal event of the foreground turn finalizes it; another changes
\* neither the foreground turn nor the remembered ones.
LEMMA HandleEffect ==
  ASSUME NEW a \in Agents, NEW type \in Terminal, NEW t \in Turns \cup {NoTurn}
  PROVE  /\ HandleTerminal(a, type, t) \in Agents
         /\ HandleTerminal(a, type, t).turn \in {a.turn, NoTurn}
         /\ t # NoTurn => HandleTerminal(a, type, t).turn # t
         /\ HandleTerminal(a, type, t).replacing = a.replacing
         /\ IF t # NoTurn /\ a.fg = t
            THEN /\ HandleTerminal(a, type, t).fg = NoTurn
                 /\ \A u : IsFinalized(HandleTerminal(a, type, t), u)
                             => u = t \/ IsFinalized(a, u)
            ELSE /\ HandleTerminal(a, type, t).fg = a.fg
                 /\ HandleTerminal(a, type, t).finalized = a.finalized
<1> DEFINE c == CloseActiveTurn(a, t)
           b == AfterTerminal(c, type, t, Disposition(a, t))
<1>1. /\ c \in Agents /\ c.fg = a.fg /\ c.turn \in {a.turn, NoTurn}
      /\ t # NoTurn => c.turn # t
      /\ c.replacing = a.replacing /\ c.finalized = a.finalized
  BY CloseEffect
<1> HIDE DEF c
<1>2. /\ b \in Agents /\ b.fg = a.fg /\ b.turn \in {a.turn, NoTurn}
      /\ t # NoTurn => b.turn # t
      /\ b.replacing = a.replacing /\ b.finalized = a.finalized
  BY <1>1, AfterTerminalEffect
<1> HIDE DEF b
<1>3. HandleTerminal(a, type, t) =
        IF IsForegroundEvent(a, t) THEN FinalizeForegroundTurn(b, t) ELSE b
  BY DEF HandleTerminal, b, c
<1>4. CASE IsForegroundEvent(a, t)
  <2> DEFINE f == FinalizeForegroundTurn(b, t)
  <2>1. /\ f \in Agents /\ f.fg = NoTurn /\ f.turn \in {a.turn, NoTurn} /\ f.turn # t
        /\ f.replacing = a.replacing /\ f.finalized = Remember(b, t)
    BY <1>2, <1>4, FinalizeEffect DEF IsForegroundEvent
  <2>2. \A u : IsFinalized(f, u) => u = t \/ IsFinalized(b, u)
    BY <1>2, <2>1, RememberEffect DEF IsFinalized
  <2>3. \A u : IsFinalized(b, u) <=> IsFinalized(a, u)
    BY <1>2 DEF IsFinalized
  <2> HIDE DEF f
  <2> QED
    BY <1>3, <1>4, <2>1, <2>2, <2>3 DEF IsForegroundEvent, f
<1>5. CASE ~IsForegroundEvent(a, t)
  BY <1>2, <1>3, <1>5 DEF IsForegroundEvent
<1> QED
  BY <1>4, <1>5

-------------------------------------------------------------------------------
(* Types.                                                                     *)

Entries == [caller : Callers, kind : {"cancel", "steer"}]
Lanes == Seq(Entries)
Ops == [phase : {"none", "interrupting", "settling", "forced", "draining",
                 "admitting", "closing"},
        run : Runs \cup {NoRun}, acked : BOOLEAN, accepted : BOOLEAN]
Waits == {"idle", "stopping", "replacing", "proceed", "refused", "steering", "declined"}

ManagerTypes ==
  /\ agent \in Agents /\ cur \in Runs \cup {NoRun}
  /\ run \in [Runs -> RunObjects] /\ \A r \in Runs : run[r].start # "failed"
  /\ settled \in SUBSET Runs
  /\ gen \in [Runs -> {"none", "checkpoint", "starting", "streaming", "ended"}]
  /\ heard \in SUBSET Runs /\ queue \in Seq(Event)
  /\ barrier \in [held : BOOLEAN, events : Seq(Event)]
LaneTypes ==
  /\ lane \in Lanes /\ op \in Ops /\ pc \in [Callers -> Waits]
  /\ expected \in [Callers -> Turns \cup {NoTurn}]
ProviderTypes ==
  /\ prov \in [Turns -> {"unused", "live", "stopped", "over"}]
  /\ owner \in [Turns -> Runs \cup {NoRun}]
  /\ announced \in SUBSET Turns /\ doomed \in SUBSET Runs
  /\ anonymous \in 0..MaxAnonymous

LEMMA TypesParts == Types <=> ManagerTypes /\ LaneTypes /\ ProviderTypes
BY DEF Types, StateTypes, ManagerTypes, LaneTypes, ProviderTypes, Agents, RunObjects,
       Entries, Lanes, Ops, Waits

LEMMA IdsArePositive == NoRun \notin Runs /\ NoTurn \notin Turns
BY BoundsAssumption DEF NoRun, NoTurn, Runs, Turns

LEMMA EnqueueTypes ==
  ASSUME ManagerTypes, NEW es \in Seq(Event), Enqueue(es)
  PROVE  /\ run' \in [Runs -> RunObjects] /\ \A r \in Runs : run'[r].start # "failed"
         /\ queue' \in Seq(Event) /\ barrier' \in [held : BOOLEAN, events : Seq(Event)]
<1>1. CASE barrier.held
  <2>1. barrier' = [barrier EXCEPT !.events = @ \o es]
    BY <1>1 DEF Enqueue
  <2>2. barrier.events \o es \in Seq(Event)
    BY DEF ManagerTypes
  <2> QED
    BY <1>1, <2>1, <2>2 DEF Enqueue, ManagerTypes
<1>2. CASE ~barrier.held /\ HasRun /\ InForeground(cur) /\ run[cur].start = "pending"
  <2>1. cur \in Runs
    BY <1>2 DEF ManagerTypes, HasRun
  <2>2. run[cur] \in RunObjects
    BY <2>1 DEF ManagerTypes
  <2>3. run[cur].staged \o es \in Seq(Event)
    BY <2>2 DEF RunObjects
  <2>4. [run[cur] EXCEPT !.staged = @ \o es] \in RunObjects
    BY <2>2, <2>3 DEF RunObjects
  <2>5. run' = [run EXCEPT ![cur] = [run[cur] EXCEPT !.staged = @ \o es]]
    BY <1>2, <2>1 DEF Enqueue, ManagerTypes
  <2> QED
    BY <1>2, <2>1, <2>2, <2>4, <2>5 DEF Enqueue, ManagerTypes, RunObjects
<1>3. CASE ~barrier.held /\ ~(HasRun /\ InForeground(cur) /\ run[cur].start = "pending")
  <2>1. run' = run /\ barrier' = barrier /\ queue' = queue \o es
    BY <1>3 DEF Enqueue
  <2> QED
    BY <2>1 DEF ManagerTypes
<1> QED
  BY <1>1, <1>2, <1>3

\* A terminal event that is not a duplicate is handled, and may end the run.
LEMMA IdentifiedIsTurn ==
  ASSUME NEW a \in Agents, NEW type, NEW turn \in Turns \cup {NoTurn}
  PROVE  IdentifiedTurn(a, [type |-> type, turn |-> turn]) \in Turns \cup {NoTurn}
BY DEF IdentifiedTurn, Agents

LEMMA DispatchTypes ==
  ASSUME ManagerTypes, NEW type \in Terminal, NEW turn \in Turns \cup {NoTurn},
         DispatchTerminal(type, turn)
  PROVE  /\ agent' \in Agents /\ cur' \in Runs \cup {NoRun}
         /\ settled' \in SUBSET Runs /\ heard' \in SUBSET Runs
<1> DEFINE t == IdentifiedTurn(agent, [type |-> type, turn |-> turn])
<1>1. t \in Turns \cup {NoTurn}
  BY IdentifiedIsTurn DEF ManagerTypes
<1>2. HandleTerminal(agent, type, t) \in Agents
  BY <1>1, HandleEffect DEF ManagerTypes
<1>3. agent' \in {agent, HandleTerminal(agent, type, t)}
  BY DEF DispatchTerminal
<1>4. \/ UNCHANGED <<cur, settled>>
      \/ HasRun /\ ClearRun(cur)
  BY DEF DispatchTerminal, KeepRun, EndsRun
<1>5. \/ heard' = heard
      \/ heard' = heard \cup {r \in Runs : /\ turn # NoTurn
                                            /\ gen[r] = "streaming"
                                            /\ run[r].turn = turn}
  BY Zenon DEF DispatchTerminal
<1>6. agent' \in Agents
  BY <1>2, <1>3 DEF ManagerTypes
<1>7. cur' \in Runs \cup {NoRun} /\ settled' \in SUBSET Runs
  BY <1>4 DEF ManagerTypes, ClearRun, HasRun
<1>8. heard' \in SUBSET Runs
  BY <1>5 DEF ManagerTypes
<1> QED
  BY <1>6, <1>7, <1>8

LEMMA HeadOfLane ==
  ASSUME LaneTypes, lane # <<>>
  PROVE  /\ Mutation \in Entries /\ Tail(lane) \in Lanes
BY HeadTailProperties, Zenon DEF LaneTypes, Lanes, Mutation

LEMMA LeaveLaneTypes ==
  ASSUME LaneTypes, lane # <<>>, NEW step \in Waits, LeaveLane(step)
  PROVE  LaneTypes'
<1>1. NoOp \in Ops
  BY DEF NoOp, Ops
<1>2. Mutation.caller \in Callers
  BY HeadOfLane DEF Entries
<1> QED
  BY <1>1, <1>2, HeadOfLane DEF LaneTypes, LeaveLane

LEMMA RecordTypes == /\ UnusedRun \in RunObjects /\ CollectedRun \in RunObjects
                     /\ UnusedRun.start = "pending" /\ CollectedRun.start = "pending"
                     /\ UnusedRun.kind = "none" /\ CollectedRun.kind = "collected"
<1>1. <<>> \in Seq(Event)
  OBVIOUS
<1> QED
  BY <1>1 DEF UnusedRun, CollectedRun, RunObjects

\* Without keeps the other events, in their order.
LEMMA WithoutEffect ==
  ASSUME NEW es \in Seq(Event), NEW e
  PROVE  /\ Without(es, e) \in Seq(Event)
         /\ \/ Without(es, e) = es /\ \A i \in DOMAIN es : es[i] # e
            \/ \E k \in DOMAIN es :
                 /\ es[k] = e
                 /\ DOMAIN Without(es, e) = 1..(Len(es) - 1)
                 /\ \A i \in 1..(Len(es) - 1) :
                      Without(es, e)[i] = IF i < k THEN es[i] ELSE es[i + 1]
<1> DEFINE At == {k \in DOMAIN es : es[k] = e}
           Cut(k) == SubSeq(es, 1, k - 1) \o SubSeq(es, k + 1, Len(es))
<1>1. CASE At = {}
  BY <1>1 DEF Without
<1>2. CASE At # {}
  <2>1. \E k \in At : Without(es, e) = Cut(k)
    <3>1. Without(es, e) = Cut(CHOOSE k \in DOMAIN es : es[k] = e)
      BY <1>2, Zenon DEF Without
    <3>2. (CHOOSE k \in DOMAIN es : es[k] = e) \in At
      BY <1>2
    <3> QED
      BY <3>1, <3>2
  <2>2. PICK k \in At : Without(es, e) = Cut(k)
    BY <2>1
  <2>3. /\ SubSeq(es, 1, k - 1) \in Seq(Event) /\ Len(SubSeq(es, 1, k - 1)) = k - 1
        /\ \A i \in 1..(k - 1) : SubSeq(es, 1, k - 1)[i] = es[i]
    OBVIOUS
  <2>4. /\ SubSeq(es, k + 1, Len(es)) \in Seq(Event)
        /\ Len(SubSeq(es, k + 1, Len(es))) = Len(es) - k
        /\ \A i \in 1..(Len(es) - k) : SubSeq(es, k + 1, Len(es))[i] = es[k + i]
    OBVIOUS
  <2>5. /\ Cut(k) \in Seq(Event) /\ DOMAIN Cut(k) = 1..(Len(es) - 1)
        /\ \A i \in 1..(Len(es) - 1) : Cut(k)[i] = IF i < k THEN es[i] ELSE es[i + 1]
    <3> DEFINE a == SubSeq(es, 1, k - 1)
               b == SubSeq(es, k + 1, Len(es))
    <3>1. k \in 1..Len(es) /\ Len(es) \in Nat
      OBVIOUS
    <3>2. /\ a \in Seq(Event) /\ Len(a) = k - 1 /\ b \in Seq(Event) /\ Len(b) = Len(es) - k
          /\ \A i \in 1..(k - 1) : a[i] = es[i]
          /\ \A i \in 1..(Len(es) - k) : b[i] = es[k + i]
      BY <2>3, <2>4
    <3>3. Cut(k) = a \o b
      OBVIOUS
    <3> HIDE DEF a, b, Cut
    <3>4. /\ a \o b \in Seq(Event) /\ Len(a \o b) = Len(es) - 1
          /\ DOMAIN (a \o b) = 1..(Len(es) - 1)
      BY <3>1, <3>2, ConcatProperties, LenProperties
    <3>5. \A i \in 1..(Len(es) - 1) :
            (a \o b)[i] = IF i <= k - 1 THEN a[i] ELSE b[i - (k - 1)]
      BY <3>1, <3>2, ConcatProperties
    <3>6. \A i \in 1..(Len(es) - 1) : i <= k - 1 => (a \o b)[i] = es[i]
      BY <3>1, <3>2, <3>5
    <3>7. \A i \in 1..(Len(es) - 1) : ~(i <= k - 1) => (a \o b)[i] = es[i + 1]
      <4> TAKE i \in 1..(Len(es) - 1)
      <4> HAVE ~(i <= k - 1)
      <4>1. i - (k - 1) \in 1..(Len(es) - k) /\ k + (i - (k - 1)) = i + 1
        BY <3>1
      <4>2. b[i - (k - 1)] = es[i + 1]
        BY <3>2, <4>1
      <4> QED
        BY <3>5, <4>2
    <3>8. \A i \in 1..(Len(es) - 1) : (a \o b)[i] = IF i < k THEN es[i] ELSE es[i + 1]
      <4> TAKE i \in 1..(Len(es) - 1)
      <4>1. i < k <=> i <= k - 1
        BY <3>1
      <4> QED
        BY <3>6, <3>7, <4>1, Zenon
    <3> QED
      BY <3>3, <3>4, <3>8, Zenon
  <2> QED
    BY <2>2, <2>5
<1> QED
  BY <1>1, <1>2

-------------------------------------------------------------------------------
(* The steps that leave the runs, the turns and their events as they are, and *)
(* those that do not.                                                         *)

View == <<agent.fg, agent.turn, agent.finalized, cur, run, settled, gen, heard, queue,
          barrier.events, prov, owner, announced, doomed>>

CallerMoves(c) ==
  \/ SendBusy(c) \/ Stop(c) \/ Steer(c) \/ ReplaceRefused(c) \/ ReplaceOvertaken(c)
  \/ SteerReplaces(c) \/ SteerOvertaken(c)
LaneMoves ==
  \/ CancelNothing \/ CancelCapture \/ InterruptFailed \/ CancelSettled \/ CancelRefused
  \/ CancelForcedDone \/ SteerDrain \/ SteerAdmits \/ SteerRejected \/ SteerDone
Moves == LaneMoves \/ \E c \in Callers : CallerMoves(c)

\* A new run of either kind.
RunStarts == (\E c \in Callers : SendIdle(c) \/ ReplaceStart(c)) /\ StreamAgent

LEMMA StepKinds ==
  ASSUME Step
  PROVE  \/ Moves \/ RunStarts \/ CancelUntracked \/ InterruptAcknowledged
         \/ CancelForcesTurn \/ CancelForcesPending \/ CancelForcesAutonomous
         \/ \E accepted \in BOOLEAN : SteerAnswered(accepted)
         \/ \E r \in Runs : GeneratorStep(r)
         \/ QueueStep \/ ProviderStep
BY DEF Step, CallerStep, LaneStep, Moves, CallerMoves, LaneMoves, RunStarts, SendIdle,
       ReplaceStart

LEMMA LaneMovesTypes ==
  ASSUME Types, LaneMoves
  PROVE  ManagerTypes' /\ LaneTypes' /\ ProviderTypes'
<1> USE TypesParts
<1>1. \A c \in Callers : AfterCancel(c) \in Waits /\ AfterRefusal(c) \in Waits
  BY DEF AfterCancel, AfterRefusal, Waits
<1>2. lane # <<>>
  BY DEF LaneMoves, CancelNothing, CancelCapture, InterruptFailed, CancelSettled,
         CancelRefused, CancelForcedDone, SteerDrain, SteerAdmits, SteerRejected,
         SteerDone, AtHead
<1>3. Mutation.caller \in Callers
  BY <1>2, HeadOfLane DEF Entries
<1>4. \A step \in Waits : LeaveLane(step) => LaneTypes'
  BY <1>2, LeaveLaneTypes
<1>5. {"idle", "declined"} \subseteq Waits
  BY DEF Waits
<1>6. CASE CancelNothing \/ CancelSettled \/ CancelForcedDone
  BY <1>1, <1>3, <1>4, <1>6 DEF CancelNothing, CancelSettled, CancelForcedDone,
     ManagerTypes, ProviderTypes, managerVars, providerVars
<1>7. CASE CancelRefused
  BY <1>1, <1>3, <1>4, <1>7 DEF CancelRefused, ManagerTypes, ProviderTypes, managerVars,
     providerVars
<1>8. CASE SteerRejected \/ SteerDone
  BY <1>4, <1>5, <1>8 DEF SteerRejected, SteerDone, ManagerTypes, ProviderTypes,
     managerVars, providerVars
<1>9. CASE CancelCapture \/ InterruptFailed \/ SteerDrain
  <2>1. op' \in Ops
    BY <1>9 DEF CancelCapture, InterruptFailed, SteerDrain, NoOp, Ops, LaneTypes,
       ManagerTypes
  <2> QED
    BY <1>9, <2>1 DEF CancelCapture, InterruptFailed, SteerDrain, LaneTypes,
       ManagerTypes, ProviderTypes, managerVars, providerVars
<1>10. CASE SteerAdmits
  <2>1. op' \in Ops
    BY <1>10 DEF SteerAdmits, Ops, LaneTypes
  <2>2. barrier' \in [held : BOOLEAN, events : Seq(Event)]
    BY <1>10 DEF SteerAdmits
  <2> QED
    BY <1>10, <2>1, <2>2 DEF SteerAdmits, LaneTypes,
       ManagerTypes, ProviderTypes, managerVars, providerVars
<1> QED
  BY <1>6, <1>7, <1>8, <1>9, <1>10 DEF LaneMoves

LEMMA LaneMovesView ==
  ASSUME LaneInv, LaneMoves
  PROVE  UNCHANGED View
<1>1. CASE SteerAdmits
  <2>1. ~barrier.held
    BY <1>1 DEF SteerAdmits, AtHead, LaneInv, OpInv, BarrierInv
  <2>2. barrier.events = <<>> /\ barrier'.events = <<>>
    BY <1>1, <2>1 DEF SteerAdmits, LaneInv, OpInv, BarrierInv
  <2> QED
    BY <1>1, <2>2 DEF SteerAdmits, providerVars, View
<1>2. CASE ~SteerAdmits
  BY <1>2 DEF LaneMoves, CancelNothing, CancelCapture, InterruptFailed, CancelSettled,
     CancelRefused, CancelForcedDone, SteerDrain, SteerRejected, SteerDone, managerVars,
     providerVars, View
<1> QED
  BY <1>1, <1>2

LEMMA CallerMovesTypes ==
  ASSUME Types, NEW c \in Callers, CallerMoves(c)
  PROVE  ManagerTypes' /\ LaneTypes' /\ ProviderTypes' /\ UNCHANGED View
<1> USE TypesParts
<1>1. ASSUME NEW kind \in {"cancel", "steer"}
      PROVE  Append(lane, [caller |-> c, kind |-> kind]) \in Lanes
  BY DEF Lanes, Entries, LaneTypes
<1>2. \A step \in Waits : [pc EXCEPT ![c] = step] \in [Callers -> Waits]
  BY DEF LaneTypes
<1>3. {"idle", "stopping", "replacing", "steering"} \subseteq Waits
  BY DEF Waits
<1>4. CASE SendBusy(c) \/ SteerReplaces(c)
  <2>1. agent' \in Agents /\ UNCHANGED <<agent.fg, agent.turn, agent.finalized>>
    BY <1>4 DEF SendBusy, SteerReplaces, BeginReplacement, Agents, ManagerTypes
  <2>2. expected' \in [Callers -> Turns \cup {NoTurn}]
    BY <1>4 DEF SendBusy, SteerReplaces, LaneTypes
  <2>3. lane' \in Lanes /\ pc' \in [Callers -> Waits]
    BY <1>1, <1>2, <1>3, <1>4 DEF SendBusy, SteerReplaces, BeginReplacement
  <2> QED
    BY <1>4, <2>1, <2>2, <2>3 DEF SendBusy, SteerReplaces, BeginReplacement, LaneTypes,
       ManagerTypes, ProviderTypes, providerVars, View
<1>5. CASE Stop(c)
  BY <1>1, <1>2, <1>3, <1>5 DEF Stop, LaneTypes, ManagerTypes, ProviderTypes, managerVars,
     providerVars, View
<1>6. CASE Steer(c)
  <2>1. expected' \in [Callers -> Turns \cup {NoTurn}]
    BY <1>6 DEF Steer, LaneTypes, ManagerTypes, Agents
  <2> QED
    BY <1>1, <1>2, <1>3, <1>6, <2>1 DEF Steer, LaneTypes, ManagerTypes, ProviderTypes,
       managerVars, providerVars, View
<1>7. CASE ReplaceRefused(c) \/ ReplaceOvertaken(c)
  <2>1. agent' \in Agents /\ UNCHANGED <<agent.fg, agent.turn, agent.finalized>>
    BY <1>7 DEF ReplaceRefused, ReplaceOvertaken, Agents, ManagerTypes
  <2>2. pc' \in [Callers -> Waits]
    BY <1>2, <1>3, <1>7 DEF ReplaceRefused, ReplaceOvertaken
  <2>3. UNCHANGED <<cur, run, settled, gen, heard, queue, barrier, lane, op, expected,
                    providerVars>>
    BY <1>7, Zenon DEF ReplaceRefused, ReplaceOvertaken
  <2> QED
    BY <2>1, <2>2, <2>3 DEF LaneTypes, ManagerTypes, ProviderTypes, providerVars, View
<1>8. CASE SteerOvertaken(c)
  BY <1>2, <1>3, <1>8 DEF SteerOvertaken, LaneTypes, ManagerTypes, ProviderTypes,
     managerVars, providerVars, View
<1> QED
  BY <1>4, <1>5, <1>6, <1>7, <1>8 DEF CallerMoves

LEMMA StreamAgentTypes ==
  ASSUME ManagerTypes, StreamAgent
  PROVE  ManagerTypes'
<1>1. NextRun \in Runs
  BY NextRunIsFresh DEF StreamAgent, FreshRuns
<1>2. /\ [UnusedRun EXCEPT !.kind = "foreground", !.replacement = agent.replacing]
           \in RunObjects
      /\ [UnusedRun EXCEPT !.kind = "foreground", !.replacement = agent.replacing].start
           = "pending"
  <2>1. agent.replacing \in BOOLEAN
    BY DEF ManagerTypes, Agents
  <2> QED
    BY <2>1, RecordTypes DEF RunObjects
<1>3. run' \in [Runs -> RunObjects] /\ \A r \in Runs : run'[r].start # "failed"
  BY <1>1, <1>2 DEF StreamAgent, ManagerTypes
<1>4. gen' \in [Runs -> {"none", "checkpoint", "starting", "streaming", "ended"}]
  BY <1>1 DEF StreamAgent, ManagerTypes
<1>5. agent' \in Agents
  BY DEF StreamAgent, ManagerTypes, Agents
<1> QED
  BY <1>1, <1>3, <1>4, <1>5 DEF StreamAgent, ManagerTypes

LEMMA SettleTypes ==
  ASSUME ManagerTypes, NEW r \in Runs, SettleForegroundRun(r)
  PROVE  cur' \in Runs \cup {NoRun} /\ settled' \in SUBSET Runs
BY DEF SettleForegroundRun, ClearRun, KeepRun, ManagerTypes

LEMMA CollectTypes ==
  ASSUME ManagerTypes, NEW r \in Runs
  PROVE  /\ [run EXCEPT ![r] = CollectedRun] \in [Runs -> RunObjects]
         /\ \A s \in Runs : [run EXCEPT ![r] = CollectedRun][s].start # "failed"
         /\ \A g \in {"starting", "streaming", "ended"} : [gen EXCEPT ![r] = g]
              \in [Runs -> {"none", "checkpoint", "starting", "streaming", "ended"}]
BY RecordTypes DEF ManagerTypes

LEMMA GeneratorTypes ==
  ASSUME Types, NEW r \in Runs, GeneratorStep(r)
  PROVE  ManagerTypes' /\ LaneTypes' /\ ProviderTypes'
<1> USE TypesParts
<1>1. CASE CallStartTurn(r)
  BY <1>1, CollectTypes DEF CallStartTurn, laneVars, providerVars, LaneTypes, ManagerTypes,
     ProviderTypes
<1>2. CASE StartResolved(r)
  <2> PICK t \in OpenedTurns(r) : StartResolved(r)!(t)
    BY <1>2 DEF StartResolved
  <2> DEFINE staged == Without(run[r].staged, [type |-> "turn_started", turn |-> t])
  <2>1. t \in Turns
    BY DEF OpenedTurns
  <2>2. run[r] \in RunObjects
    BY DEF ManagerTypes
  <2>3. staged \in Seq(Event)
    BY <2>2, WithoutEffect DEF RunObjects
  <2> HIDE DEF staged
  <2>4. agent' = [agent EXCEPT !.replacing = @ /\ ~run[r].replacement,
                               !.fg = t, !.turn = t, !.lifecycle = "running"]
    OBVIOUS
  <2>5. agent' \in Agents
    BY <2>1, <2>2, <2>4 DEF Agents, ManagerTypes, RunObjects
  <2>6. \/ barrier' = [barrier EXCEPT !.events = @ \o staged] /\ UNCHANGED queue
        \/ queue' = queue \o staged /\ UNCHANGED barrier
    BY DEF staged
  <2>7. queue' \in Seq(Event) /\ barrier' \in [held : BOOLEAN, events : Seq(Event)]
    <3>1. queue \o staged \in Seq(Event) /\ barrier.events \o staged \in Seq(Event)
      BY <2>3 DEF ManagerTypes
    <3> QED
      BY <2>6, <3>1 DEF ManagerTypes
  <2>8. run' = [run EXCEPT ![r] = [run[r] EXCEPT !.start = "started", !.turn = t,
                                                 !.staged = <<>>]]
    BY DEF ManagerTypes
  <2>9. run' \in [Runs -> RunObjects] /\ \A s \in Runs : run'[s].start # "failed"
    <3> DEFINE new == [run[r] EXCEPT !.start = "started", !.turn = t, !.staged = <<>>]
    <3>1. <<>> \in Seq(Event)
      OBVIOUS
    <3>2. new \in RunObjects /\ new.start = "started"
      BY <2>1, <2>2, <3>1 DEF RunObjects
    <3> HIDE DEF new
    <3>3. run' = [run EXCEPT ![r] = new]
      BY <2>8 DEF new
    <3>4. run \in [Runs -> RunObjects] /\ \A s \in Runs : run[s].start # "failed"
      BY DEF ManagerTypes
    <3> QED
      BY <3>2, <3>3, <3>4
  <2>10. UNCHANGED <<cur, settled, heard, laneVars, providerVars>>
         /\ gen' = [gen EXCEPT ![r] = "streaming"]
    OBVIOUS
  <2> QED
    BY <2>5, <2>7, <2>9, <2>10, CollectTypes DEF laneVars, providerVars, LaneTypes,
       ManagerTypes, ProviderTypes
<1>3. CASE StartCanceled(r)
  BY <1>3, CollectTypes DEF StartCanceled, laneVars, providerVars, LaneTypes, ManagerTypes,
     ProviderTypes
<1>4. CASE StartFailed(r)
  <2> DEFINE a == [agent EXCEPT !.replacing = FALSE]
             t == IdentifiedTurn(a, [type |-> "turn_failed", turn |-> NoTurn])
             b == IF t # NoTurn /\ IsFinalized(a, t) THEN a
                  ELSE HandleTerminal(a, "turn_failed", t)
  <2>1. a \in Agents
    BY DEF ManagerTypes, Agents
  <2>2. t \in Turns \cup {NoTurn}
    BY <2>1, IdentifiedIsTurn
  <2>3. b \in Agents
    BY <2>1, <2>2, HandleEffect DEF Terminal
  <2>4. agent' = FinalizeForegroundTurn(b, NoTurn)
    BY <1>4, Zenon DEF StartFailed
  <2>5. agent' \in Agents
    BY <2>3, <2>4, FinalizeEffect
  <2>6. /\ run' = [run EXCEPT ![r] = CollectedRun] /\ SettleForegroundRun(r)
        /\ gen' = [gen EXCEPT ![r] = "ended"]
        /\ UNCHANGED <<heard, queue, barrier, laneVars, providerVars>>
    BY <1>4, Zenon DEF StartFailed
  <2> QED
    BY <2>5, <2>6, CollectTypes, SettleTypes DEF laneVars, providerVars, LaneTypes,
       ManagerTypes, ProviderTypes
<1>5. CASE StartStale(r)
  <2>1. agent' \in Agents
    BY <1>5 DEF StartStale, ManagerTypes, Agents
  <2> QED
    BY <1>5, <2>1, CollectTypes, SettleTypes DEF StartStale, laneVars, providerVars,
       LaneTypes, ManagerTypes, ProviderTypes
<1>6. CASE StreamEnds(r)
  BY <1>6, CollectTypes, SettleTypes DEF StreamEnds, laneVars, providerVars, LaneTypes,
     ManagerTypes, ProviderTypes
<1> QED
  BY <1>1, <1>2, <1>3, <1>4, <1>5, <1>6 DEF GeneratorStep

LEMMA HeadOfQueue ==
  ASSUME ManagerTypes, queue # <<>>
  PROVE  Head(queue) \in Event /\ Tail(queue) \in Seq(Event)
BY HeadTailProperties, Zenon DEF ManagerTypes

LEMMA QueueTypes ==
  ASSUME Types, QueueStep
  PROVE  ManagerTypes' /\ LaneTypes' /\ ProviderTypes'
<1> USE TypesParts
<1>1. queue # <<>> /\ queue' = Tail(queue)
  BY DEF QueueStep, ProcessTerminal, ProcessStartedSuppressed, ProcessStarted
<1>2. Head(queue) \in Event /\ Tail(queue) \in Seq(Event)
  BY <1>1, HeadOfQueue
<1>3. Head(queue).turn \in Turns \cup {NoTurn}
  BY <1>2 DEF Event
<1>4. CASE ProcessTerminal
  BY <1>1, <1>2, <1>3, <1>4, DispatchTypes DEF ProcessTerminal, laneVars, providerVars,
     LaneTypes, ManagerTypes, ProviderTypes
<1>5. CASE ProcessStartedSuppressed
  BY <1>1, <1>2, <1>5 DEF ProcessStartedSuppressed, laneVars, providerVars, LaneTypes,
     ManagerTypes, ProviderTypes
<1>6. CASE ProcessStarted
  <2>1. agent' \in Agents
    BY <1>3, <1>6 DEF ProcessStarted, ManagerTypes, Agents
  <2>2. /\ cur' \in Runs \cup {NoRun} /\ run' \in [Runs -> RunObjects]
        /\ \A r \in Runs : run'[r].start # "failed"
    <3>1. CASE HasRun
      BY <1>6, <3>1 DEF ProcessStarted, ManagerTypes
    <3>2. CASE ~HasRun
      <4> DEFINE new == [UnusedRun EXCEPT !.kind = "autonomous", !.turn = Head(queue).turn]
      <4>1. new \in RunObjects /\ new.start = "pending"
        BY <1>3, RecordTypes DEF RunObjects
      <4>2. NextRun \in Runs
        BY <1>6, <3>2, NextRunIsFresh DEF ProcessStarted, FreshRuns
      <4>3. cur' = NextRun /\ run' = [run EXCEPT ![NextRun] = new]
        BY <1>6, <3>2 DEF ProcessStarted
      <4> HIDE DEF new
      <4> QED
        BY <4>1, <4>2, <4>3 DEF ManagerTypes
    <3> QED
      BY <3>1, <3>2
  <2>3. UNCHANGED <<settled, gen, heard, barrier, laneVars, providerVars>>
    BY <1>6 DEF ProcessStarted
  <2> QED
    BY <1>1, <1>2, <2>1, <2>2, <2>3 DEF laneVars, providerVars, LaneTypes, ManagerTypes,
       ProviderTypes
<1> QED
  BY <1>4, <1>5, <1>6 DEF QueueStep

LEMMA EventTypes ==
  \A type \in Terminal \cup {"turn_started"}, t \in Turns \cup {NoTurn} :
    <<[type |-> type, turn |-> t]>> \in Seq(Event)
<1>1. \A e \in Event : <<e>> \in Seq(Event)
  OBVIOUS
<1>2. \A type \in Terminal \cup {"turn_started"}, t \in Turns \cup {NoTurn} :
        [type |-> type, turn |-> t] \in Event
  BY DEF Event
<1> QED
  BY <1>1, <1>2, Zenon

LEMMA ProviderStepTypes ==
  ASSUME Types, ProviderStep
  PROVE  ManagerTypes' /\ LaneTypes' /\ ProviderTypes'
<1> USE TypesParts
<1>1. ASSUME NEW r \in Runs, ProviderOpens(r)
      PROVE  ManagerTypes' /\ LaneTypes' /\ ProviderTypes'
  BY <1>1 DEF ProviderOpens, managerVars, laneVars, LaneTypes, ManagerTypes, ProviderTypes
<1>2. ASSUME NEW es \in Seq(Event), Enqueue(es),
             UNCHANGED <<agent, cur, settled, gen, heard>>
      PROVE  ManagerTypes'
  BY <1>2, EnqueueTypes DEF ManagerTypes
<1>3. ASSUME NEW t \in Turns, ProviderAnnounces(t)
      PROVE  ManagerTypes' /\ LaneTypes' /\ ProviderTypes'
  <2>1. ManagerTypes'
    BY <1>2, <1>3, EventTypes DEF ProviderAnnounces
  <2> QED
    BY <1>3, <2>1 DEF ProviderAnnounces, laneVars, LaneTypes, ProviderTypes
<1>4. CASE ProviderWakes
  <2>1. NextTurn \in Turns
    BY <1>4, NextTurnIsFresh DEF ProviderWakes, FreshTurns
  <2>2. ManagerTypes'
    BY <1>2, <1>4, <2>1, EventTypes DEF ProviderWakes
  <2> QED
    BY <1>4, <2>1, <2>2 DEF ProviderWakes, laneVars, LaneTypes, ProviderTypes
<1>5. ASSUME NEW t \in Turns, NEW type \in Endings, ProviderEnds(t, type)
      PROVE  ManagerTypes' /\ LaneTypes' /\ ProviderTypes'
  <2>1. type \in Terminal
    BY BoundsAssumption DEF Terminal
  <2>2. ManagerTypes'
    BY <1>2, <1>5, <2>1, EventTypes DEF ProviderEnds
  <2> QED
    BY <1>5, <2>2 DEF ProviderEnds, laneVars, LaneTypes, ProviderTypes
<1>6. CASE ProviderDies
  <2>1. ManagerTypes'
    BY <1>2, <1>6, EventTypes DEF ProviderDies, Terminal
  <2>2. anonymous' \in 0..MaxAnonymous
    BY <1>6, BoundsAssumption DEF ProviderDies, ProviderTypes
  <2> QED
    BY <1>6, <2>1, <2>2 DEF ProviderDies, laneVars, LaneTypes, ProviderTypes
<1> QED
  BY <1>1, <1>3, <1>4, <1>5, <1>6 DEF ProviderStep

\* The steps that give up a run, and those of the lane that touch the manager.
LEMMA ForceTypes ==
  ASSUME Types, LaneInv, CancelForcesTurn \/ CancelForcesPending \/ CancelForcesAutonomous
  PROVE  ManagerTypes' /\ LaneTypes' /\ ProviderTypes'
<1> USE TypesParts
<1>1. lane # <<>> /\ op.phase = "settling" /\ ~RunSettled
  BY DEF CancelForcesTurn, CancelForcesPending, CancelForcesAutonomous,
     TimedOutAcknowledged, AtHead
<1>2. ASSUME LeaveLane(AfterCancel(Mutation.caller))
      PROVE  LaneTypes'
  <2>1. AfterCancel(Mutation.caller) \in Waits
    BY DEF AfterCancel, Waits
  <2> QED
    BY <1>1, <1>2, <2>1, LeaveLaneTypes
<1>3. CASE CancelForcesTurn
  <2>1. TrackedTurn \in Turns \cup {NoTurn}
    BY DEF TrackedTurn, HasRun, ManagerTypes, RunObjects
  <2>2. DispatchTerminal("turn_canceled", TrackedTurn)
    BY <1>3 DEF CancelForcesTurn
  <2>3. op' \in Ops
    BY <1>3 DEF CancelForcesTurn, LaneTypes, Ops
  <2> QED
    BY <1>3, <2>1, <2>2, <2>3, DispatchTypes DEF CancelForcesTurn, Terminal, LaneTypes,
       ManagerTypes, ProviderTypes, providerVars
<1>4. CASE CancelForcesPending
  <2>1. agent' \in Agents
    BY <1>4 DEF CancelForcesPending, ManagerTypes, Agents
  <2>2. cur' \in Runs \cup {NoRun} /\ settled' \in SUBSET Runs
    <3>1. op.run \in Runs
      BY <1>1 DEF LaneInv, OpInv, BarrierInv
    <3> QED
      BY <1>4, <3>1, SettleTypes DEF CancelForcesPending
  <2>3. LaneTypes' /\ UNCHANGED <<run, gen, heard, queue, barrier, providerVars>>
    BY <1>2, <1>4 DEF CancelForcesPending
  <2> QED
    BY <2>1, <2>2, <2>3 DEF ManagerTypes, ProviderTypes, providerVars
<1>5. CASE CancelForcesAutonomous
  <2>1. DispatchTerminal("turn_canceled", NoTurn)
    BY <1>5 DEF CancelForcesAutonomous
  <2>2. LaneTypes' /\ UNCHANGED <<run, gen, queue, barrier, providerVars>>
    BY <1>2, <1>5 DEF CancelForcesAutonomous
  <2> QED
    BY <2>1, <2>2, DispatchTypes DEF Terminal, ManagerTypes, ProviderTypes, providerVars
<1> QED
  BY <1>3, <1>4, <1>5

LEMMA CancelUntrackedTypes ==
  ASSUME Types, CancelUntracked
  PROVE  ManagerTypes' /\ LaneTypes' /\ ProviderTypes'
<1> USE TypesParts
<1> DEFINE new == [UnusedRun EXCEPT !.kind = "autonomous"]
<1>1. NextRun \in Runs
  BY NextRunIsFresh DEF CancelUntracked, FreshRuns
<1>2. new \in RunObjects /\ new.start = "pending"
  BY RecordTypes DEF RunObjects
<1>3. run' = [run EXCEPT ![NextRun] = new]
  BY DEF CancelUntracked
<1>4. op' \in Ops
  BY <1>1 DEF CancelUntracked, NoOp, Ops
<1> HIDE DEF new
<1>5. run' \in [Runs -> RunObjects] /\ \A r \in Runs : run'[r].start # "failed"
  <2>1. run \in [Runs -> RunObjects] /\ \A r \in Runs : run[r].start # "failed"
    BY DEF ManagerTypes
  <2> QED
    BY <1>1, <1>2, <1>3, <2>1
<1> QED
  BY <1>1, <1>4, <1>5 DEF CancelUntracked, LaneTypes, ManagerTypes, ProviderTypes,
     providerVars

LEMMA SteerAnsweredTypes ==
  ASSUME Types, NEW accepted \in BOOLEAN, SteerAnswered(accepted)
  PROVE  ManagerTypes' /\ LaneTypes' /\ ProviderTypes'
<1> USE TypesParts
<1>1. barrier.events \in Seq(Event)
  BY DEF ManagerTypes
<1>2. barrier' \in [held : BOOLEAN, events : Seq(Event)]
  <2>1. <<>> \in Seq(Event)
    OBVIOUS
  <2> QED
    BY <2>1 DEF SteerAnswered, NoBarrier
<1>3. op' \in Ops
  BY DEF SteerAnswered, LaneTypes, Ops
<1>4. UNCHANGED <<agent, cur, settled, gen, heard, lane, pc, expected, providerVars>>
  BY Zenon DEF SteerAnswered
<1>5. CASE Pending
  <2>1. cur \in Runs
    BY <1>5 DEF ManagerTypes, HasRun, Pending
  <2>2. run[cur] \in RunObjects
    BY <2>1 DEF ManagerTypes
  <2>3. run[cur].staged \o barrier.events \in Seq(Event)
    BY <1>1, <2>2 DEF RunObjects
  <2> DEFINE new == [run[cur] EXCEPT !.staged = @ \o barrier.events]
  <2>4. new \in RunObjects /\ new.start = run[cur].start
    BY <2>2, <2>3 DEF RunObjects
  <2>5. run' = [run EXCEPT ![cur] = new] /\ queue' = queue
    BY <1>5, <2>1 DEF SteerAnswered, ManagerTypes, Pending
  <2> HIDE DEF new
  <2>6. run' \in [Runs -> RunObjects] /\ \A r \in Runs : run'[r].start # "failed"
    <3>1. run \in [Runs -> RunObjects] /\ \A r \in Runs : run[r].start # "failed"
      BY DEF ManagerTypes
    <3> QED
      BY <2>1, <2>4, <2>5, <3>1
  <2> QED
    BY <1>2, <1>3, <1>4, <2>5, <2>6 DEF LaneTypes, ManagerTypes, ProviderTypes, providerVars
<1>6. CASE ~Pending
  <2>1. run' = run /\ queue' = queue \o barrier.events
    BY <1>6 DEF SteerAnswered, Pending
  <2>2. queue' \in Seq(Event)
    BY <1>1, <2>1 DEF ManagerTypes
  <2> QED
    BY <1>2, <1>3, <1>4, <2>1, <2>2 DEF LaneTypes, ManagerTypes, ProviderTypes, providerVars
<1> QED
  BY <1>5, <1>6

LEMMA TypesStep ==
  ASSUME Types, LaneInv, Step
  PROVE  Types'
<1> USE TypesParts
<1> SUFFICES ManagerTypes' /\ LaneTypes' /\ ProviderTypes'
  BY DEF Types, StateTypes, ManagerTypes, LaneTypes, ProviderTypes, Agents, RunObjects,
         Entries, Lanes, Ops, Waits
<1>1. CASE Moves
  BY <1>1, LaneMovesTypes, CallerMovesTypes DEF Moves
<1>2. CASE RunStarts
  <2>1. LaneTypes' /\ ProviderTypes'
    <3>1. UNCHANGED <<lane, op, expected, providerVars>>
      BY <1>2 DEF RunStarts, SendIdle, ReplaceStart, laneVars
    <3>2. pc' = pc \/ \E c \in Callers : pc' = [pc EXCEPT ![c] = "idle"]
      BY <1>2 DEF RunStarts, SendIdle, ReplaceStart, laneVars
    <3>3. pc' \in [Callers -> Waits]
      BY <3>2 DEF LaneTypes, Waits
    <3> QED
      BY <3>1, <3>3 DEF LaneTypes, ProviderTypes, providerVars
  <2> QED
    BY <1>2, <2>1, StreamAgentTypes DEF RunStarts
<1>3. CASE CancelUntracked
  BY <1>3, CancelUntrackedTypes
<1>4. CASE InterruptAcknowledged
  <2>1. op' \in Ops
    BY <1>4 DEF InterruptAcknowledged, LaneTypes, Ops
  <2> QED
    BY <1>4, <2>1 DEF InterruptAcknowledged, managerVars, LaneTypes, ManagerTypes,
       ProviderTypes
<1>5. CASE CancelForcesTurn \/ CancelForcesPending \/ CancelForcesAutonomous
  BY <1>5, ForceTypes
<1>6. CASE \E accepted \in BOOLEAN : SteerAnswered(accepted)
  BY <1>6, SteerAnsweredTypes
<1>7. CASE \E r \in Runs : GeneratorStep(r)
  BY <1>7, GeneratorTypes
<1>8. CASE QueueStep
  BY <1>8, QueueTypes
<1>9. CASE ProviderStep
  BY <1>9, ProviderStepTypes
<1> QED
  BY <1>1, <1>2, <1>3, <1>4, <1>5, <1>6, <1>7, <1>8, <1>9, StepKinds

-------------------------------------------------------------------------------
(* Runs, the active foreground turn, and the turns of the runs.               *)

RunsInv == RunInv /\ ForegroundInv /\ TurnInv

\* The run objects may gain staged events while the tracked run is pending.
StagingOnly ==
  /\ \A r \in Runs : run'[r] = run[r] \/ (Pending /\ r = cur)
  /\ \A r \in Runs : /\ run'[r].kind = run[r].kind /\ run'[r].start = run[r].start
                     /\ run'[r].turn = run[r].turn
                     /\ run'[r].replacement = run[r].replacement

LEMMA UsedRuns ==
  ASSUME Types, RunInv, NEW r \in Runs
  PROVE  /\ run[r].kind # "none" /\ r \notin settled => r = cur
         /\ gen[r] \in {"checkpoint", "starting"} =>
              run[r].kind = "foreground" /\ run[r].start = "pending" /\ run[r].turn = NoTurn
         /\ gen[r] = "streaming" =>
              /\ run[r].kind = "foreground" /\ run[r].start = "started"
              /\ run[r].turn \in Turns /\ owner[run[r].turn] = r
         /\ run[r].kind = "foreground" /\ run[r].start = "started" => gen[r] = "streaming"
         /\ run[r].kind = "foreground" /\ run[r].start = "pending" =>
              gen[r] \in {"checkpoint", "starting"} /\ run[r].turn = NoTurn
<1>1. run[r].kind \in {"none", "foreground", "autonomous", "collected"}
  BY DEF Types, StateTypes
<1> QED
  BY <1>1 DEF RunInv, RunFits

LEMMA TrackedRuns ==
  ASSUME Types, RunInv, HasRun
  PROVE  /\ cur \in Runs /\ cur \notin settled /\ run[cur] \in RunObjects
         /\ run[cur].kind \in {"foreground", "autonomous"}
         /\ InForeground(cur) => Pending \/ Streaming
BY TypesParts DEF RunInv, RunFits, HasRun, ManagerTypes, InForeground, Pending, Streaming, RunObjects

\* What a terminal event that the manager handles does to the tracked run: it
\* is a duplicate, it ends the foreground turn, it ends an autonomous run, or
\* it ends nothing.
Identified(type, turn) == IdentifiedTurn(agent, [type |-> type, turn |-> turn])
Duplicate(t) == t # NoTurn /\ IsFinalized(agent, t) /\ UNCHANGED <<agent, cur, settled, heard>>
Heard(turn) ==
  heard' = heard \cup {r \in Runs : turn # NoTurn /\ gen[r] = "streaming" /\ run[r].turn = turn}
EndsForeground(t) ==
  /\ Streaming /\ t \in Turns /\ agent.fg = t /\ ~IsFinalized(agent, t)
  /\ agent'.fg = NoTurn /\ cur' = NoRun /\ settled' = settled \cup {cur}
  /\ \A u : IsFinalized(agent', u) => u = t \/ IsFinalized(agent, u)
KeepsForeground(t) ==
  /\ t # NoTurn => ~IsFinalized(agent, t) /\ agent.fg # t
  /\ agent'.fg = agent.fg /\ agent'.finalized = agent.finalized
EndsAutonomous(t) ==
  /\ HasRun /\ ~InForeground(cur)
  /\ KeepsForeground(t) /\ cur' = NoRun /\ settled' = settled \cup {cur}
EndsNothing(t) ==
  /\ KeepsForeground(t) /\ UNCHANGED <<cur, settled>>
  /\ HasRun /\ ~InForeground(cur) => t # NoTurn /\ run[cur].turn \notin {t, NoTurn}
Handled(t) ==
  /\ agent'.turn \in {agent.turn, NoTurn} /\ agent'.replacing = agent.replacing
  /\ t # NoTurn => agent'.turn # t

LEMMA DispatchEffect ==
  ASSUME Types, RunInv, ForegroundInv,
         NEW type \in Terminal, NEW turn \in Turns \cup {NoTurn},
         DispatchTerminal(type, turn), NEW t, t = Identified(type, turn)
  PROVE  \/ Duplicate(t)
         \/ /\ Handled(t) /\ Heard(turn)
            /\ (EndsForeground(t) \/ EndsAutonomous(t) \/ EndsNothing(t))
<1> USE TypesParts
<1>1. t \in Turns \cup {NoTurn} /\ agent \in Agents
  BY IdentifiedIsTurn DEF ManagerTypes, Identified
<1>2. CASE t # NoTurn /\ IsFinalized(agent, t)
  BY <1>2 DEF DispatchTerminal, Duplicate, Identified
<1>3. CASE ~(t # NoTurn /\ IsFinalized(agent, t))
  <2> DEFINE b == HandleTerminal(agent, type, t)
  <2>1. /\ agent' = b /\ Heard(turn)
        /\ IF EndsRun(t) THEN ClearRun(cur) ELSE KeepRun
    BY <1>3 DEF DispatchTerminal, Identified, Heard
  <2>2. Handled(t)
    BY <1>1, <2>1, HandleEffect DEF Handled
  <2>3. CASE t # NoTurn /\ agent.fg = t
    <3>1. Streaming /\ run[cur].turn = t
      BY <2>3 DEF ForegroundInv
    <3>2. ClearRun(cur)
      BY <2>1, <3>1 DEF EndsRun, Streaming
    <3>3. b.fg = NoTurn /\ \A u : IsFinalized(b, u) => u = t \/ IsFinalized(agent, u)
      BY <1>1, <2>3, HandleEffect
    <3>4. EndsForeground(t)
      BY <1>1, <1>3, <2>1, <2>3, <3>1, <3>2, <3>3 DEF EndsForeground, ClearRun
    <3> QED
      BY <2>1, <2>2, <3>4
  <2>4. CASE ~(t # NoTurn /\ agent.fg = t)
    <3>1. KeepsForeground(t)
      <4>1. b.fg = agent.fg /\ b.finalized = agent.finalized
        BY <1>1, <2>4, HandleEffect
      <4> QED
        BY <1>3, <2>1, <2>4, <4>1 DEF KeepsForeground
    <3>2. CASE EndsRun(t)
      <4>1. ~InForeground(cur)
        <5> SUFFICES ASSUME InForeground(cur)
                     PROVE  FALSE
          OBVIOUS
        <5>1. Streaming /\ run[cur].turn = t
          BY <3>2 DEF EndsRun, Streaming
        <5> QED
          BY <2>4, <5>1 DEF ForegroundInv
      <4>2. EndsAutonomous(t)
        BY <2>1, <3>1, <3>2, <4>1 DEF EndsAutonomous, ClearRun, EndsRun
      <4> QED
        BY <2>1, <2>2, <4>2
    <3>3. CASE ~EndsRun(t)
      <4>1. HasRun /\ ~InForeground(cur) => t # NoTurn /\ run[cur].turn \notin {t, NoTurn}
        BY <3>3 DEF EndsRun
      <4>2. EndsNothing(t)
        BY <2>1, <3>1, <3>3, <4>1 DEF EndsNothing, KeepRun
      <4> QED
        BY <2>1, <2>2, <4>2
    <3> QED
      BY <3>2, <3>3
  <2> QED
    BY <2>3, <2>4
<1> QED
  BY <1>2, <1>3

LEMMA RunFrame ==
  ASSUME Types, RunInv, ForegroundInv, StagingOnly,
         UNCHANGED <<cur, settled, gen, heard, owner>>, agent'.fg = agent.fg
  PROVE  RunInv' /\ ForegroundInv'
<1>1. RunInv'
  <2>1. (\A r \in Runs : run[r].kind # "none" <=> r = cur \/ r \in settled)'
    BY DEF RunInv, RunFits, StagingOnly
  <2>2. (HasRun => cur \notin settled /\ run[cur].kind \in {"foreground", "autonomous"})'
    BY TrackedRuns DEF RunInv, RunFits, StagingOnly, HasRun
  <2> SUFFICES ASSUME NEW r \in Runs
               PROVE  /\ run'[r].kind = "none" => run'[r] = UnusedRun /\ gen[r] = "none"
                      /\ run'[r].kind = "collected" => gen[r] = "ended"
                      /\ run'[r].kind = "autonomous" =>
                           /\ gen[r] = "none" /\ run'[r].start = "pending"
                           /\ run'[r].staged = <<>> /\ ~run'[r].replacement
                      /\ run'[r].kind = "foreground" =>
                           \/ /\ gen[r] \in {"checkpoint", "starting"}
                              /\ run'[r].start = "pending" /\ run'[r].turn = NoTurn
                           \/ /\ gen[r] = "streaming" /\ run'[r].start = "started"
                              /\ run'[r].turn \in Turns /\ owner[run'[r].turn] = r
    BY <2>1, <2>2 DEF RunInv, RunFits
  <2>3. CASE run'[r] = run[r]
    BY <2>3 DEF RunInv, RunFits
  <2>4. CASE Pending /\ r = cur
    BY <2>4, UsedRuns DEF StagingOnly, Pending, InForeground
  <2> QED
    BY <2>3, <2>4 DEF StagingOnly
<1>2. ForegroundInv'
  BY TrackedRuns DEF ForegroundInv, Streaming, HasRun, InForeground, StagingOnly
<1> QED
  BY <1>1, <1>2

LEMMA RunEnds ==
  ASSUME Types, RunInv, HasRun, UNCHANGED <<run, gen, owner>>,
         cur' = NoRun, settled' = settled \cup {cur}, agent'.fg = NoTurn,
         \A r \in heard' : r \in settled' /\ gen[r] = "streaming"
  PROVE  RunInv' /\ ForegroundInv'
<1>1. RunInv'
  BY TrackedRuns, IdsArePositive DEF RunInv, RunFits, HasRun
<1> QED
  BY <1>1 DEF ForegroundInv, Streaming, HasRun

LEMMA DispatchRuns ==
  ASSUME Types, RunInv, ForegroundInv,
         NEW type \in Terminal, NEW turn \in Turns \cup {NoTurn},
         DispatchTerminal(type, turn), UNCHANGED <<run, gen, owner>>
  PROVE  RunInv' /\ ForegroundInv'
<1> DEFINE t == Identified(type, turn)
<1>1. CASE Duplicate(t)
  BY <1>1, RunFrame DEF Duplicate, StagingOnly
<1>2. ASSUME Heard(turn), EndsForeground(t) \/ EndsAutonomous(t) \/ EndsNothing(t),
             NEW r \in heard'
      PROVE  r \in settled' /\ gen[r] = "streaming"
  <2>1. settled \subseteq settled'
    BY <1>2 DEF EndsForeground, EndsAutonomous, EndsNothing
  <2>2. CASE r \in heard
    BY <2>1, <2>2 DEF RunInv, RunFits
  <2>3. CASE r \in Runs /\ turn # NoTurn /\ gen[r] = "streaming" /\ run[r].turn = turn
    <3>1. r = cur \/ r \in settled
      BY <2>3, UsedRuns
    <3>2. CASE r = cur
      <4>1. Streaming /\ agent.fg = turn /\ t = turn
        <5>1. Streaming
          BY <2>3, <3>2, UsedRuns, IdsArePositive DEF Streaming, HasRun, InForeground
        <5> QED
          BY <2>3, <3>2, <5>1 DEF ForegroundInv, Identified, IdentifiedTurn
      <4>2. ~EndsNothing(t) /\ ~EndsAutonomous(t)
        BY <2>3, <4>1 DEF EndsNothing, EndsAutonomous, KeepsForeground
      <4> QED
        BY <1>2, <2>3, <3>2, <4>2 DEF EndsForeground
    <3> QED
      BY <2>1, <2>3, <3>1, <3>2
  <2> QED
    BY <1>2, <2>2, <2>3 DEF Heard
<1>3. CASE Heard(turn) /\ EndsForeground(t)
  BY <1>2, <1>3, RunEnds DEF EndsForeground, Streaming
<1>4. CASE Heard(turn) /\ EndsAutonomous(t)
  <2>1. agent.fg = NoTurn
    BY <1>4 DEF EndsAutonomous, ForegroundInv, Streaming
  <2> QED
    BY <1>2, <1>4, <2>1, RunEnds DEF EndsAutonomous, KeepsForeground
<1>5. CASE Heard(turn) /\ EndsNothing(t)
  <2>1. \A r \in heard' : r \in settled /\ gen[r] = "streaming"
    BY <1>2, <1>5 DEF EndsNothing
  <2>2. RunInv'
    BY <1>5, <2>1 DEF RunInv, RunFits, EndsNothing, HasRun
  <2> QED
    BY <1>5, <2>2 DEF EndsNothing, KeepsForeground, ForegroundInv, Streaming, HasRun,
       InForeground
<1> QED
  BY <1>1, <1>3, <1>4, <1>5, DispatchEffect

\* What a step may do to the turns and the generators without a run getting a
\* second turn.
LEMMA TurnFrame ==
  ASSUME Types, TurnInv, owner' = owner, announced' \in SUBSET Turns,
         \A t \in Turns : /\ prov'[t] = "unused" => prov[t] = "unused" /\ t \notin announced'
                          /\ owner[t] # NoRun /\ gen[owner[t]] \in {"starting", "streaming", "ended"}
                               => gen'[owner[t]] \in {"starting", "streaming", "ended"}
  PROVE  TurnInv'
BY DEF TurnInv

LEMMA NewRuns ==
  ASSUME Types, RunInv, ForegroundInv, cur = NoRun, FreshRuns # {}, NEW new \in RunObjects,
         cur' = NextRun, run' = [run EXCEPT ![NextRun] = new],
         \/ /\ new.kind = "foreground" /\ new.start = "pending" /\ new.turn = NoTurn
            /\ \E g \in {"checkpoint", "starting"} : gen' = [gen EXCEPT ![NextRun] = g]
         \/ /\ new.kind = "autonomous" /\ new.start = "pending" /\ new.staged = <<>>
            /\ ~new.replacement /\ gen' = gen,
         UNCHANGED <<settled, heard, owner>>, agent'.fg = agent.fg
  PROVE  RunInv' /\ ForegroundInv'
<1> USE TypesParts
<1>1. /\ NextRun \in Runs /\ NextRun # NoRun /\ run[NextRun].kind = "none"
      /\ NextRun \notin settled /\ gen[NextRun] = "none"
  BY NextRunIsFresh, IdsArePositive DEF FreshRuns, RunInv, RunFits
<1>2. NextRun \notin heard
  BY <1>1 DEF RunInv, RunFits
<1>3. /\ run'[NextRun] = new /\ \A r \in Runs : r # NextRun => run'[r] = run[r]
      /\ \A r \in Runs : r # NextRun => gen'[r] = gen[r]
      /\ new.kind = "foreground" => gen'[NextRun] \in {"checkpoint", "starting"}
      /\ new.kind = "autonomous" => gen'[NextRun] = "none"
  BY <1>1 DEF ManagerTypes
<1>4. (\A r \in Runs : run[r].kind # "none" <=> r = cur \/ r \in settled)'
  <2>1. \A r \in Runs : run[r].kind # "none" <=> r \in settled
    BY IdsArePositive DEF RunInv, RunFits
  <2> QED
    BY <1>1, <1>3, <2>1
<1>5. (HasRun => cur \notin settled /\ run[cur].kind \in {"foreground", "autonomous"})'
  BY <1>1, <1>3
<1>6. (\A r \in heard : r \in settled /\ gen[r] = "streaming")'
  BY <1>2, <1>3, TypesParts DEF RunInv, RunFits, ManagerTypes
<1>7. ASSUME NEW r \in Runs, r # NextRun
      PROVE  RunFits(r)'
  BY <1>3, <1>7 DEF RunInv, RunFits
<1>8. ASSUME NEW r \in Runs, r = NextRun
      PROVE  RunFits(r)'
  BY <1>3, <1>8 DEF RunFits
<1>9. \A r \in Runs : RunFits(r)'
  BY <1>7, <1>8
<1>10. RunInv'
  BY <1>4, <1>5, <1>6, <1>9 DEF RunInv
<1>11. agent.fg = NoTurn
  BY DEF ForegroundInv, Streaming, HasRun
<1>12. ~Streaming'
  BY <1>1, <1>3 DEF Streaming, InForeground
<1> QED
  BY <1>10, <1>11, <1>12 DEF ForegroundInv

LEMMA CollectRuns ==
  ASSUME Types, RunInv, ForegroundInv, NEW r \in Runs, run[r].kind # "none",
         run' = [run EXCEPT ![r] = CollectedRun], gen' = [gen EXCEPT ![r] = "ended"],
         \/ r # cur /\ UNCHANGED <<cur, settled>> /\ agent'.fg = agent.fg
         \/ r = cur /\ cur' = NoRun /\ settled' = settled \cup {r} /\ agent'.fg = NoTurn,
         \A s \in heard' : s \in heard /\ s # r,
         UNCHANGED owner
  PROVE  RunInv' /\ ForegroundInv'
<1> USE TypesParts
<1>1. /\ run'[r].kind = "collected" /\ \A s \in Runs : s # r => run'[s] = run[s]
      /\ gen'[r] = "ended" /\ \A s \in Runs : s # r => gen'[s] = gen[s]
  BY RecordTypes DEF ManagerTypes
<1>2. (\A s \in Runs : run[s].kind # "none" <=> s = cur \/ s \in settled)'
  BY <1>1, IdsArePositive DEF RunInv, RunFits
<1>3. (HasRun => cur \notin settled /\ run[cur].kind \in {"foreground", "autonomous"})'
  BY <1>1, TrackedRuns DEF HasRun
<1>4. (\A s \in heard : s \in settled /\ gen[s] = "streaming")'
  BY <1>1 DEF RunInv, RunFits, ManagerTypes
<1>5. ASSUME NEW s \in Runs, s # r
      PROVE  RunFits(s)'
  BY <1>1, <1>5 DEF RunInv, RunFits
<1>6. RunFits(r)'
  BY <1>1 DEF RunFits
<1>7. \A s \in Runs : RunFits(s)'
  BY <1>5, <1>6
<1>8. RunInv'
  BY <1>2, <1>3, <1>4, <1>7 DEF RunInv
<1>9. ForegroundInv'
  BY <1>1, TrackedRuns DEF ForegroundInv, Streaming, HasRun, InForeground
<1> QED
  BY <1>8, <1>9

\* The run a mutation captured is the tracked one until it is settled.
LEMMA CapturedRun ==
  ASSUME Types, RunInv, LaneInv, op.phase \in {"interrupting", "settling", "forced"}
  PROVE  op.run \in Runs /\ (op.run \notin settled => op.run = cur)
BY UsedRuns DEF LaneInv, OpInv, BarrierInv

LEMMA EnqueueRuns ==
  ASSUME Types, NEW es \in Seq(Event), Enqueue(es)
  PROVE  StagingOnly
<1> USE TypesParts
<1>1. CASE ~barrier.held /\ Pending
  <2>1. cur \in Runs /\ run[cur] \in RunObjects
    BY <1>1 DEF ManagerTypes, HasRun, Pending
  <2> DEFINE new == [run[cur] EXCEPT !.staged = @ \o es]
  <2>2. /\ new.kind = run[cur].kind /\ new.start = run[cur].start
        /\ new.turn = run[cur].turn /\ new.replacement = run[cur].replacement
    BY <2>1 DEF RunObjects
  <2>3. run' = [run EXCEPT ![cur] = new]
    BY <1>1, <2>1 DEF Enqueue, Pending, ManagerTypes
  <2> HIDE DEF new
  <2> QED
    BY <1>1, <2>1, <2>2, <2>3 DEF StagingOnly, ManagerTypes
<1>2. CASE barrier.held \/ ~Pending
  <2>1. run' = run
    BY <1>2 DEF Enqueue, Pending
  <2> QED
    BY <2>1 DEF StagingOnly
<1> QED
  BY <1>1, <1>2

LEMMA AnsweredRuns ==
  ASSUME Types, NEW accepted, SteerAnswered(accepted)
  PROVE  StagingOnly
<1> USE TypesParts
<1>1. CASE Pending
  <2>1. cur \in Runs /\ run[cur] \in RunObjects
    BY <1>1 DEF ManagerTypes, HasRun, Pending
  <2> DEFINE new == [run[cur] EXCEPT !.staged = @ \o barrier.events]
  <2>2. /\ new.kind = run[cur].kind /\ new.start = run[cur].start
        /\ new.turn = run[cur].turn /\ new.replacement = run[cur].replacement
    BY <2>1 DEF RunObjects
  <2>3. run' = [run EXCEPT ![cur] = new]
    BY <1>1, <2>1 DEF SteerAnswered, Pending, ManagerTypes
  <2> HIDE DEF new
  <2> QED
    BY <1>1, <2>1, <2>2, <2>3 DEF StagingOnly, ManagerTypes
<1>2. CASE ~Pending
  <2>1. run' = run
    BY <1>2 DEF SteerAnswered, Pending
  <2> QED
    BY <2>1 DEF StagingOnly
<1> QED
  BY <1>1, <1>2

\* A run whose startTurn has not answered is the tracked one or settled.
LEMMA StartingRun ==
  ASSUME Types, RunInv, NEW r \in Runs, gen[r] = "starting", r \notin settled
  PROVE  /\ r = cur /\ Pending /\ cur # NoRun
         /\ run[r].kind = "foreground" /\ run[r].start = "pending" /\ run[r].turn = NoTurn
BY UsedRuns, IdsArePositive DEF Pending, HasRun, InForeground

LEMMA ResolvedRuns ==
  ASSUME Types, RunInv, ForegroundInv, NEW r \in Runs, StartResolved(r)
  PROVE  \E t \in OpenedTurns(r) :
           /\ agent'.fg = t /\ agent'.turn = t /\ UNCHANGED agent.finalized
           /\ run'[r].kind = "foreground" /\ run'[r].start = "started" /\ run'[r].turn = t
           /\ run'[r].staged = <<>> /\ run'[r].replacement = run[r].replacement
           /\ agent'.replacing = (agent.replacing /\ ~run[r].replacement)
           /\ \A s \in Runs : s # r => run'[s] = run[s]
           /\ gen'[r] = "streaming" /\ \A s \in Runs : s # r => gen'[s] = gen[s]
           /\ UNCHANGED <<cur, settled, heard, laneVars, providerVars>>
<1> USE TypesParts
<1> PICK t \in OpenedTurns(r) : StartResolved(r)!(t)
  BY DEF StartResolved
<1>1. run[r] \in RunObjects /\ agent \in Agents
  BY DEF ManagerTypes
<1>2. run[r].kind = "foreground"
  BY StartingRun
<1>3. agent' = [agent EXCEPT !.replacing = @ /\ ~run[r].replacement,
                             !.fg = t, !.turn = t, !.lifecycle = "running"]
  OBVIOUS
<1>4. /\ agent'.fg = t /\ agent'.turn = t /\ agent'.finalized = agent.finalized
      /\ agent'.replacing = (agent.replacing /\ ~run[r].replacement)
  BY <1>1, <1>3 DEF Agents
<1> DEFINE new == [run[r] EXCEPT !.start = "started", !.turn = t, !.staged = <<>>]
<1>5. /\ new.kind = "foreground" /\ new.start = "started" /\ new.turn = t
      /\ new.staged = <<>> /\ new.replacement = run[r].replacement
  BY <1>1, <1>2 DEF RunObjects
<1>6. run' = [run EXCEPT ![r] = new]
  BY DEF ManagerTypes
<1> HIDE DEF new
<1>7. run'[r] = new /\ \A s \in Runs : s # r => run'[s] = run[s]
  BY <1>6 DEF ManagerTypes
<1>8. /\ gen'[r] = "streaming" /\ \A s \in Runs : s # r => gen'[s] = gen[s]
      /\ UNCHANGED <<cur, settled, heard, laneVars, providerVars>>
  BY DEF ManagerTypes
<1> QED
  BY <1>4, <1>5, <1>7, <1>8

LEMMA ResolvedInv ==
  ASSUME Types, RunInv, ForegroundInv, NEW r \in Runs, StartResolved(r)
  PROVE  RunInv' /\ ForegroundInv'
<1> PICK t \in OpenedTurns(r) :
           /\ agent'.fg = t
           /\ run'[r].kind = "foreground" /\ run'[r].start = "started" /\ run'[r].turn = t
           /\ \A s \in Runs : s # r => run'[s] = run[s]
           /\ gen'[r] = "streaming" /\ \A s \in Runs : s # r => gen'[s] = gen[s]
           /\ UNCHANGED <<cur, settled, heard, providerVars>>
  BY ResolvedRuns
<1>1. r = cur /\ run[r].kind = "foreground" /\ r \notin settled
  BY StartingRun DEF StartResolved
<1>2. t \in Turns /\ owner[t] = r /\ owner' = owner
  BY DEF OpenedTurns, providerVars
<1>3. \A s \in Runs : run'[s].kind = run[s].kind
  BY <1>1
<1>4. (\A s \in Runs : run[s].kind # "none" <=> s = cur \/ s \in settled)'
  BY <1>3 DEF RunInv, RunFits
<1>5. (HasRun => cur \notin settled /\ run[cur].kind \in {"foreground", "autonomous"})'
  BY <1>1
<1>6. (\A s \in heard : s \in settled /\ gen[s] = "streaming")'
  BY <1>1, TypesParts DEF RunInv, RunFits, ManagerTypes
<1>7. ASSUME NEW s \in Runs, s # r
      PROVE  RunFits(s)'
  BY <1>2, <1>7 DEF RunInv, RunFits
<1>8. RunFits(r)'
  BY <1>2 DEF RunFits
<1>9. \A s \in Runs : RunFits(s)'
  BY <1>7, <1>8
<1>10. RunInv'
  BY <1>2, <1>4, <1>5, <1>6, <1>9 DEF RunInv
<1>11. ForegroundInv'
  BY <1>1, <1>2, IdsArePositive DEF ForegroundInv, Streaming, HasRun, InForeground
<1> QED
  BY <1>10, <1>11

LEMMA TurnStep ==
  ASSUME Types, Types', RunInv, TurnInv, Step
  PROVE  TurnInv'
<1> USE TypesParts
<1>1. ASSUME UNCHANGED <<owner, prov, announced>>,
             \A r \in Runs : gen[r] \in {"starting", "streaming", "ended"}
                               => gen'[r] \in {"starting", "streaming", "ended"}
      PROVE  TurnInv'
  BY <1>1 DEF TurnInv, ProviderTypes
<1>2. CASE Moves
  <2>1. UNCHANGED <<owner, prov, announced, gen>>
    BY <1>2 DEF Moves, LaneMoves, CallerMoves, CancelNothing, CancelCapture,
       InterruptFailed, CancelSettled, CancelRefused, CancelForcedDone, SteerDrain,
       SteerAdmits, SteerRejected, SteerDone, SendBusy, Stop, Steer, ReplaceRefused,
       ReplaceOvertaken, SteerReplaces, SteerOvertaken, BeginReplacement, managerVars,
       providerVars
  <2> QED
    BY <1>1, <2>1
<1>3. CASE RunStarts
  <2>1. UNCHANGED <<owner, prov, announced>>
    BY <1>3 DEF RunStarts, SendIdle, ReplaceStart, providerVars
  <2>2. NextRun \in Runs /\ gen[NextRun] = "none"
    BY <1>3, NextRunIsFresh DEF RunStarts, StreamAgent, FreshRuns, RunInv, RunFits
  <2>3. \A r \in Runs : r # NextRun => gen'[r] = gen[r]
    BY <1>3, <2>2 DEF RunStarts, StreamAgent, ManagerTypes
  <2> QED
    BY <1>1, <2>1, <2>2, <2>3
<1>4. CASE InterruptAcknowledged
  <2>1. \A t \in Turns : prov'[t] = "unused" => prov[t] = "unused"
    BY <1>4 DEF InterruptAcknowledged
  <2> QED
    BY <1>4, <2>1 DEF InterruptAcknowledged, managerVars, TurnInv
<1>5. CASE \/ CancelUntracked \/ CancelForcesTurn \/ CancelForcesPending
           \/ CancelForcesAutonomous
           \/ \E accepted \in BOOLEAN : SteerAnswered(accepted)
           \/ QueueStep
  <2>1. UNCHANGED <<owner, prov, announced, gen>>
    BY <1>5 DEF CancelUntracked, CancelForcesTurn, CancelForcesPending,
       CancelForcesAutonomous, SteerAnswered, QueueStep, ProcessTerminal,
       ProcessStartedSuppressed, ProcessStarted, providerVars
  <2> QED
    BY <1>1, <2>1
<1>6. ASSUME NEW r \in Runs, GeneratorStep(r)
      PROVE  TurnInv'
  <2>1. UNCHANGED <<owner, prov, announced>>
    BY <1>6 DEF GeneratorStep, CallStartTurn, StartResolved, StartCanceled, StartFailed,
       StartStale, StreamEnds, providerVars
  <2>2. \E g \in {"starting", "streaming", "ended"} : gen' = [gen EXCEPT ![r] = g]
    BY <1>6 DEF GeneratorStep, CallStartTurn, StartResolved, StartCanceled, StartFailed,
       StartStale, StreamEnds
  <2>3. \A s \in Runs : s # r => gen'[s] = gen[s]
    BY <2>2 DEF ManagerTypes
  <2>4. gen'[r] \in {"starting", "streaming", "ended"}
    BY <2>2 DEF ManagerTypes
  <2> QED
    BY <1>1, <2>1, <2>3, <2>4
<1>7. ASSUME NEW r \in Runs, ProviderOpens(r)
      PROVE  TurnInv'
  <2>1. NextTurn \in Turns /\ prov[NextTurn] = "unused" /\ owner[NextTurn] = NoRun
    BY <1>7, NextTurnIsFresh DEF ProviderOpens, FreshTurns, TurnInv
  <2>2. gen[r] = "starting" /\ \A t \in Turns : owner[t] # r
    BY <1>7 DEF ProviderOpens, Starting, OpenedTurns
  <2>3. /\ owner'[NextTurn] = r /\ \A t \in Turns : t # NextTurn => owner'[t] = owner[t]
        /\ prov'[NextTurn] # "unused" /\ \A t \in Turns : t # NextTurn => prov'[t] = prov[t]
        /\ gen' = gen /\ announced' = announced
    BY <1>7, <2>1 DEF ProviderOpens, managerVars, ProviderTypes
  <2> QED
    BY <2>1, <2>2, <2>3 DEF TurnInv
<1>8. ASSUME NEW t \in Turns, ProviderAnnounces(t)
      PROVE  TurnInv'
  BY <1>8 DEF ProviderAnnounces, TurnInv
<1>9. CASE ProviderWakes
  <2>1. NextTurn \in Turns
    BY <1>9, NextTurnIsFresh DEF ProviderWakes, FreshTurns
  <2>2. /\ prov'[NextTurn] = "live" /\ \A t \in Turns : t # NextTurn => prov'[t] = prov[t]
        /\ announced' = announced \cup {NextTurn} /\ UNCHANGED <<owner, gen>>
    BY <1>9, <2>1 DEF ProviderWakes, ProviderTypes
  <2> QED
    BY <2>1, <2>2 DEF TurnInv
<1>10. ASSUME NEW t \in Turns, NEW type, ProviderEnds(t, type)
       PROVE  TurnInv'
  <2>1. /\ prov'[t] = "over" /\ \A u \in Turns : u # t => prov'[u] = prov[u]
        /\ UNCHANGED <<owner, gen, announced>>
    BY <1>10 DEF ProviderEnds, ProviderTypes
  <2> QED
    BY <2>1 DEF TurnInv
<1>11. CASE ProviderDies
  BY <1>1, <1>11 DEF ProviderDies
<1> QED
  BY <1>2, <1>3, <1>4, <1>5, <1>6, <1>7, <1>8, <1>9, <1>10, <1>11, StepKinds
     DEF ProviderStep

LEMMA RunStep ==
  ASSUME Types, Types', RunInv, ForegroundInv, TurnInv, LaneInv, Step
  PROVE  RunInv' /\ ForegroundInv'
<1> USE TypesParts
<1>1. CASE Moves
  <2>1. UNCHANGED View
    BY <1>1, LaneMovesView, CallerMovesTypes DEF Moves
  <2> QED
    BY <2>1, RunFrame DEF View, StagingOnly
<1>2. CASE RunStarts
  <2> DEFINE new == [UnusedRun EXCEPT !.kind = "foreground", !.replacement = agent.replacing]
  <2>1. /\ new \in RunObjects /\ new.kind = "foreground" /\ new.start = "pending"
        /\ new.turn = NoTurn
    <3>1. agent.replacing \in BOOLEAN
      BY DEF ManagerTypes, Agents
    <3> QED
      BY <3>1, RecordTypes DEF RunObjects, UnusedRun
  <2>2. agent'.fg = agent.fg
    BY <1>2 DEF RunStarts, StreamAgent, ManagerTypes, Agents
  <2>3. /\ cur = NoRun /\ FreshRuns # {} /\ cur' = NextRun
        /\ run' = [run EXCEPT ![NextRun] = new]
        /\ \E g \in {"checkpoint", "starting"} : gen' = [gen EXCEPT ![NextRun] = g]
        /\ UNCHANGED <<settled, heard>>
    BY <1>2 DEF RunStarts, StreamAgent, CanStream, HasRun
  <2>4. UNCHANGED owner
    BY <1>2 DEF RunStarts, SendIdle, ReplaceStart, providerVars
  <2> HIDE DEF new
  <2> QED
    BY <2>1, <2>2, <2>3, <2>4, NewRuns
<1>3. CASE CancelUntracked
  <2> DEFINE new == [UnusedRun EXCEPT !.kind = "autonomous"]
  <2>1. /\ new \in RunObjects /\ new.kind = "autonomous" /\ new.start = "pending"
        /\ new.staged = <<>> /\ ~new.replacement
    BY RecordTypes DEF RunObjects, UnusedRun
  <2>2. /\ cur = NoRun /\ FreshRuns # {} /\ cur' = NextRun
        /\ run' = [run EXCEPT ![NextRun] = new]
        /\ UNCHANGED <<settled, heard, gen, agent, owner>>
    BY <1>3 DEF CancelUntracked, HasRun, providerVars
  <2> HIDE DEF new
  <2> QED
    BY <2>1, <2>2, NewRuns
<1>4. CASE InterruptAcknowledged
  BY <1>4, RunFrame DEF InterruptAcknowledged, managerVars, StagingOnly
<1>5. CASE CancelForcesTurn
  <2>1. TrackedTurn \in Turns \cup {NoTurn}
    BY DEF TrackedTurn, HasRun, ManagerTypes, RunObjects
  <2>2. DispatchTerminal("turn_canceled", TrackedTurn) /\ UNCHANGED <<run, gen, owner>>
    BY <1>5 DEF CancelForcesTurn, providerVars
  <2> QED
    BY <2>1, <2>2, DispatchRuns DEF Terminal
<1>6. CASE CancelForcesAutonomous
  <2>1. DispatchTerminal("turn_canceled", NoTurn) /\ UNCHANGED <<run, gen, owner>>
    BY <1>6 DEF CancelForcesAutonomous, providerVars
  <2> QED
    BY <2>1, DispatchRuns DEF Terminal
<1>7. CASE CancelForcesPending
  <2>1. op.run = cur /\ HasRun
    <3>1. op.phase = "settling" /\ op.run \notin settled
      BY <1>7 DEF CancelForcesPending, TimedOutAcknowledged, AtHead, RunSettled
    <3> QED
      BY <3>1, CapturedRun, IdsArePositive DEF HasRun
  <2>2. agent.fg = NoTurn /\ agent'.fg = agent.fg
    <3>1. run[cur].turn = NoTurn
      BY <1>7, <2>1 DEF CancelForcesPending, TrackedTurn
    <3>2. agent.fg = NoTurn
      BY <3>1 DEF ForegroundInv
    <3> QED
      BY <1>7, <3>2 DEF CancelForcesPending, ManagerTypes, Agents
  <2>3. /\ cur' = NoRun /\ settled' = settled \cup {cur}
        /\ UNCHANGED <<run, gen, heard, owner>>
    BY <1>7, <2>1 DEF CancelForcesPending, SettleForegroundRun, ClearRun, providerVars
  <2>4. \A r \in heard' : r \in settled' /\ gen[r] = "streaming"
    BY <2>3 DEF RunInv
  <2> QED
    BY <2>1, <2>2, <2>3, <2>4, RunEnds
<1>8. CASE \E accepted \in BOOLEAN : SteerAnswered(accepted)
  <2>1. UNCHANGED <<agent, cur, settled, gen, heard, owner>>
    BY <1>8 DEF SteerAnswered, providerVars
  <2> QED
    BY <1>8, <2>1, AnsweredRuns, RunFrame
<1>9. ASSUME NEW r \in Runs, GeneratorStep(r)
      PROVE  RunInv' /\ ForegroundInv'
  <2>1. UNCHANGED owner
    BY <1>9 DEF GeneratorStep, CallStartTurn, StartResolved, StartCanceled, StartFailed,
       StartStale, StreamEnds, providerVars
  <2>2. CASE CallStartTurn(r)
    <3>1. /\ gen[r] = "checkpoint" /\ gen'[r] = "starting"
          /\ \A s \in Runs : s # r => gen'[s] = gen[s]
          /\ UNCHANGED <<agent, cur, run, settled, heard>>
      BY <2>2 DEF CallStartTurn, ManagerTypes
    <3>2. \A s \in heard : s \in Runs /\ s # r
      BY <3>1 DEF RunInv, ManagerTypes
    <3>3. ASSUME NEW s \in Runs
          PROVE  RunFits(s)'
      BY <2>1, <3>1 DEF RunInv, RunFits
    <3>4. RunInv'
      BY <3>1, <3>2, <3>3 DEF RunInv, HasRun
    <3> QED
      BY <3>1, <3>4 DEF ForegroundInv, Streaming, HasRun, InForeground
  <2>3. CASE StartResolved(r)
    BY <2>3, ResolvedInv
  <2>4. CASE StartCanceled(r)
    <3>1. run[r].kind # "none" /\ r # cur
      BY <2>4, UsedRuns, IdsArePositive DEF StartCanceled, RunInv, HasRun
    <3>2. \A s \in heard' : s \in heard /\ s # r
      BY <2>4 DEF StartCanceled, RunInv
    <3> QED
      BY <2>1, <2>4, <3>1, <3>2, CollectRuns DEF StartCanceled
  <2>5. CASE StartFailed(r) \/ StartStale(r)
    <3>1. r = cur /\ run[r].kind # "none" /\ agent.fg = NoTurn
      BY <2>5, StartingRun DEF StartFailed, StartStale, ForegroundInv, Streaming
    <3>2. agent'.fg = NoTurn
      <4>1. CASE StartFailed(r)
        <5> DEFINE a == [agent EXCEPT !.replacing = FALSE]
                   t == IdentifiedTurn(a, [type |-> "turn_failed", turn |-> NoTurn])
                   b == IF t # NoTurn /\ IsFinalized(a, t) THEN a
                        ELSE HandleTerminal(a, "turn_failed", t)
        <5>1. a \in Agents
          BY DEF ManagerTypes, Agents
        <5>2. t \in Turns \cup {NoTurn}
          BY <5>1, IdentifiedIsTurn
        <5>3. b \in Agents
          BY <5>1, <5>2, HandleEffect DEF Terminal
        <5>4. agent' = FinalizeForegroundTurn(b, NoTurn)
          BY <4>1, Zenon DEF StartFailed
        <5> QED
          BY <5>3, <5>4, FinalizeEffect
      <4>2. CASE StartStale(r)
        BY <3>1, <4>2 DEF StartStale, ManagerTypes, Agents
      <4> QED
        BY <2>5, <4>1, <4>2
    <3>3. \A s \in heard' : s \in heard /\ s # r
      BY <2>5 DEF StartFailed, StartStale, RunInv
    <3>4. cur' = NoRun /\ settled' = settled \cup {r}
      BY <2>5, <3>1 DEF StartFailed, StartStale, SettleForegroundRun, ClearRun
    <3>5. run' = [run EXCEPT ![r] = CollectedRun] /\ gen' = [gen EXCEPT ![r] = "ended"]
      BY <2>5 DEF StartFailed, StartStale
    <3> QED
      BY <2>1, <3>1, <3>2, <3>3, <3>4, <3>5, CollectRuns
  <2>6. CASE StreamEnds(r)
    <3>1. r \in settled /\ r # cur /\ run[r].kind # "none"
      BY <2>6, UsedRuns, IdsArePositive DEF StreamEnds, RunInv, HasRun
    <3>2. UNCHANGED <<cur, settled, agent>>
      BY <2>6, <3>1 DEF StreamEnds, SettleForegroundRun, KeepRun
    <3> QED
      BY <2>1, <2>6, <3>1, <3>2, CollectRuns DEF StreamEnds
  <2> QED
    BY <1>9, <2>2, <2>3, <2>4, <2>5, <2>6 DEF GeneratorStep
<1>10. CASE QueueStep
  <2>1. UNCHANGED <<gen, owner>> /\ queue # <<>>
    BY <1>10 DEF QueueStep, ProcessTerminal, ProcessStartedSuppressed, ProcessStarted,
       providerVars
  <2>2. Head(queue).turn \in Turns \cup {NoTurn} /\ Head(queue) \in Event
    BY <2>1, HeadOfQueue DEF Event
  <2>3. CASE ProcessTerminal
    BY <2>1, <2>2, <2>3, DispatchRuns DEF ProcessTerminal
  <2>4. CASE ProcessStartedSuppressed
    BY <2>1, <2>4, RunFrame DEF ProcessStartedSuppressed, StagingOnly
  <2>5. CASE ProcessStarted
    <3>1. agent'.fg = agent.fg
      BY <2>5 DEF ProcessStarted, ManagerTypes, Agents
    <3>2. CASE HasRun
      BY <2>1, <2>5, <3>1, <3>2, RunFrame DEF ProcessStarted, StagingOnly
    <3>3. CASE ~HasRun
      <4> DEFINE new == [UnusedRun EXCEPT !.kind = "autonomous", !.turn = Head(queue).turn]
      <4>1. /\ new \in RunObjects /\ new.kind = "autonomous" /\ new.start = "pending"
            /\ new.staged = <<>> /\ ~new.replacement
        BY <2>2, RecordTypes DEF RunObjects, UnusedRun
      <4>2. /\ cur = NoRun /\ FreshRuns # {} /\ cur' = NextRun
            /\ run' = [run EXCEPT ![NextRun] = new]
            /\ UNCHANGED <<settled, heard>>
        BY <2>5, <3>3 DEF ProcessStarted, HasRun
      <4> HIDE DEF new
      <4> QED
        BY <2>1, <3>1, <4>1, <4>2, NewRuns
    <3> QED
      BY <3>2, <3>3
  <2> QED
    BY <1>10, <2>3, <2>4, <2>5 DEF QueueStep
<1>11. CASE ProviderStep
  <2>1. ASSUME NEW r \in Runs, ProviderOpens(r)
        PROVE  RunInv' /\ ForegroundInv'
    <3>1. NextTurn \in Turns /\ owner[NextTurn] = NoRun
      BY <2>1, NextTurnIsFresh DEF ProviderOpens, FreshTurns, TurnInv
    <3>2. \A t \in Turns : owner[t] # NoRun => owner'[t] = owner[t]
      BY <2>1, <3>1 DEF ProviderOpens, ProviderTypes
    <3>3. ASSUME NEW s \in Runs
          PROVE  RunFits(s)'
      <4>1. s # NoRun
        BY IdsArePositive
      <4> QED
        BY <2>1, <3>2, <4>1 DEF RunInv, RunFits, ProviderOpens, managerVars
    <3>4. UNCHANGED <<agent, cur, run, settled, gen, heard>>
      BY <2>1 DEF ProviderOpens, managerVars
    <3> QED
      BY <3>3, <3>4 DEF RunInv, HasRun, ForegroundInv, Streaming, InForeground
  <2>2. ASSUME NEW es \in Seq(Event), Enqueue(es),
               UNCHANGED <<agent, cur, settled, gen, heard, owner>>
        PROVE  RunInv' /\ ForegroundInv'
    BY <2>2, EnqueueRuns, RunFrame
  <2>3. ASSUME NEW t \in Turns, ProviderAnnounces(t)
        PROVE  RunInv' /\ ForegroundInv'
    BY <2>2, <2>3, EventTypes DEF ProviderAnnounces
  <2>4. CASE ProviderWakes
    <3>1. NextTurn \in Turns
      BY <2>4, NextTurnIsFresh DEF ProviderWakes, FreshTurns
    <3> QED
      BY <2>2, <2>4, <3>1, EventTypes DEF ProviderWakes
  <2>5. ASSUME NEW t \in Turns, NEW type \in Endings, ProviderEnds(t, type)
        PROVE  RunInv' /\ ForegroundInv'
    <3>1. type \in Terminal
      BY BoundsAssumption DEF Terminal
    <3> QED
      BY <2>2, <2>5, <3>1, EventTypes DEF ProviderEnds
  <2>6. CASE ProviderDies
    BY <2>2, <2>6, EventTypes DEF ProviderDies, Terminal
  <2> QED
    BY <1>11, <2>1, <2>3, <2>4, <2>5, <2>6 DEF ProviderStep
<1> QED
  BY <1>1, <1>2, <1>3, <1>4, <1>5, <1>6, <1>7, <1>8, <1>9, <1>10, <1>11, StepKinds

-------------------------------------------------------------------------------
(* The lane of foreground mutations.                                          *)

\* A used run stays used.
LEMMA UsedStay ==
  ASSUME Types, RunInv, ForegroundInv, Step, NEW r \in Runs, run[r].kind # "none"
  PROVE  run'[r].kind # "none"
<1> USE TypesParts
<1>1. ASSUME StagingOnly
      PROVE  run'[r].kind # "none"
  BY <1>1 DEF StagingOnly
<1>2. ASSUME run' = run
      PROVE  run'[r].kind # "none"
  BY <1>2
<1>3. ASSUME FreshRuns # {}, NEW new, run' = [run EXCEPT ![NextRun] = new]
      PROVE  run'[r].kind # "none"
  <2>1. NextRun # r
    BY <1>3, NextRunIsFresh DEF FreshRuns
  <2> QED
    BY <1>3, <2>1 DEF ManagerTypes
<1>4. CASE Moves
  BY <1>2, <1>4 DEF Moves, LaneMoves, CallerMoves, CancelNothing, CancelCapture,
     InterruptFailed, CancelSettled, CancelRefused, CancelForcedDone, SteerDrain,
     SteerAdmits, SteerRejected, SteerDone, SendBusy, Stop, Steer, ReplaceRefused,
     ReplaceOvertaken, SteerReplaces, SteerOvertaken, BeginReplacement, managerVars
<1>5. CASE RunStarts
  BY <1>3, <1>5 DEF RunStarts, StreamAgent
<1>6. CASE CancelUntracked
  BY <1>3, <1>6 DEF CancelUntracked
<1>7. CASE \/ InterruptAcknowledged \/ CancelForcesTurn \/ CancelForcesPending
           \/ CancelForcesAutonomous
  BY <1>2, <1>7 DEF InterruptAcknowledged, CancelForcesTurn, CancelForcesPending,
     CancelForcesAutonomous, managerVars
<1>8. CASE \E accepted \in BOOLEAN : SteerAnswered(accepted)
  BY <1>1, <1>8, AnsweredRuns
<1>9. ASSUME NEW s \in Runs, GeneratorStep(s)
      PROVE  run'[r].kind # "none"
  <2>1. CASE CallStartTurn(s)
    BY <1>2, <2>1 DEF CallStartTurn
  <2>2. CASE StartResolved(s)
    BY <2>2, ResolvedRuns
  <2>3. CASE StartCanceled(s) \/ StartFailed(s) \/ StartStale(s) \/ StreamEnds(s)
    <3>1. run' = [run EXCEPT ![s] = CollectedRun]
      BY <2>3 DEF StartCanceled, StartFailed, StartStale, StreamEnds
    <3> QED
      BY <3>1, RecordTypes DEF ManagerTypes
  <2> QED
    BY <1>9, <2>1, <2>2, <2>3 DEF GeneratorStep
<1>10. CASE QueueStep
  <2>1. CASE run' = run
    BY <1>2, <2>1
  <2>2. CASE run' # run
    BY <1>3, <1>10, <2>2 DEF QueueStep, ProcessTerminal, ProcessStartedSuppressed,
       ProcessStarted
  <2> QED
    BY <2>1, <2>2
<1>11. CASE ProviderStep
  <2>1. ASSUME NEW es \in Seq(Event), Enqueue(es)
        PROVE  run'[r].kind # "none"
    BY <1>1, <2>1, EnqueueRuns
  <2>2. CASE \E s \in Runs : ProviderOpens(s)
    BY <1>2, <2>2 DEF ProviderOpens, managerVars
  <2>3. CASE \E t \in Turns : ProviderAnnounces(t)
    BY <2>1, <2>3, EventTypes DEF ProviderAnnounces
  <2>4. CASE ProviderWakes
    BY <2>1, <2>4, EventTypes, NextTurnIsFresh DEF ProviderWakes, FreshTurns
  <2>5. CASE \E t \in Turns, type \in Endings : ProviderEnds(t, type)
    BY <2>1, <2>5, EventTypes, BoundsAssumption DEF ProviderEnds, Terminal
  <2>6. CASE ProviderDies
    BY <2>1, <2>6, EventTypes DEF ProviderDies, Terminal
  <2> QED
    BY <1>11, <2>2, <2>3, <2>4, <2>5, <2>6 DEF ProviderStep
<1> QED
  BY <1>4, <1>5, <1>6, <1>7, <1>8, <1>9, <1>10, <1>11, StepKinds

\* A request that joins the lane waits in it once.
LEMMA Joins ==
  ASSUME Types, WaitersInv, OpInv, NEW c \in Callers, pc[c] \in {"idle", "declined"},
         NEW kind \in {"cancel", "steer"}, NEW step \in Waits,
         kind = "cancel" => step \in {"stopping", "replacing"},
         kind = "steer" => step = "steering" /\ "steer" \in Operations,
         lane' = Append(lane, [caller |-> c, kind |-> kind]),
         pc' = [pc EXCEPT ![c] = step]
  PROVE  WaitersInv' /\ (lane # <<>> => Mutation' = Mutation) /\ lane' # <<>>
<1> USE TypesParts
<1> DEFINE entry == [caller |-> c, kind |-> kind]
<1>1. lane \in Seq(Entries) /\ entry \in Entries /\ entry.caller = c /\ entry.kind = kind
  BY DEF LaneTypes, Lanes, Entries
<1> HIDE DEF entry
<1>2. lane' = Append(lane, entry)
  BY DEF entry
<1>3. \A i \in DOMAIN lane : lane[i] \in Entries /\ lane[i].caller # c
  <2>1. \A i \in DOMAIN lane : lane[i] \in Entries
    BY <1>1
  <2> QED
    BY <2>1 DEF WaitersInv, Entries
<1>4. /\ DOMAIN lane' = DOMAIN lane \cup {Len(lane) + 1} /\ lane'[Len(lane) + 1] = entry
      /\ \A i \in DOMAIN lane : lane'[i] = lane[i] /\ i # Len(lane) + 1
      /\ lane' # <<>> /\ (lane # <<>> => Head(lane') = Head(lane))
  BY <1>1, <1>2
<1>5. pc'[c] = step /\ \A d \in Callers : d # c => pc'[d] = pc[d]
  BY DEF LaneTypes
<1>6. WaitersInv'
  <2> SUFFICES ASSUME NEW i \in DOMAIN lane'
      PROVE /\ lane'[i].kind = "cancel" => pc'[lane'[i].caller] \in {"stopping", "replacing"}
            /\ lane'[i].kind = "steer" => pc'[lane'[i].caller] = "steering" /\ "steer" \in Operations
            /\ \A j \in DOMAIN lane' : lane'[i].caller = lane'[j].caller => i = j
    BY DEF WaitersInv
  <2>1. CASE i \in DOMAIN lane
    BY <1>1, <1>3, <1>4, <1>5, <2>1 DEF WaitersInv, Entries
  <2>2. CASE i = Len(lane) + 1
    BY <1>1, <1>3, <1>4, <1>5, <2>2
  <2> QED
    BY <1>4, <2>1, <2>2
<1> QED
  BY <1>4, <1>6 DEF Mutation

\* A client that waits for nothing in the lane goes on.
LEMMA GoesOn ==
  ASSUME Types, WaitersInv, NEW c \in Callers, pc[c] \in {"idle", "refused", "proceed", "declined"},
         lane' = lane, \/ pc' = pc
                       \/ \E step : pc' = [pc EXCEPT ![c] = step]
  PROVE  WaitersInv' /\ Mutation' = Mutation
<1> USE TypesParts
<1>1. \A i \in DOMAIN lane : lane[i] \in Entries /\ lane[i].caller # c
  <2>1. \A i \in DOMAIN lane : lane[i] \in Entries
    BY DEF LaneTypes, Lanes
  <2> QED
    BY <2>1 DEF WaitersInv, Entries
<1>2. \A d \in Callers : d # c => pc'[d] = pc[d]
  BY DEF LaneTypes
<1> QED
  BY <1>1, <1>2 DEF WaitersInv, Entries, Mutation

LEMMA Leaves ==
  ASSUME Types, WaitersInv, lane # <<>>, NEW step, LeaveLane(step)
  PROVE  WaitersInv' /\ op' = NoOp
<1> USE TypesParts
<1>1. lane \in Seq(Entries)
  BY DEF LaneTypes, Lanes
<1>2. /\ Len(lane) \in Nat \ {0} /\ DOMAIN lane = 1..Len(lane)
      /\ DOMAIN Tail(lane) = 1..(Len(lane) - 1)
      /\ \A i \in 1..(Len(lane) - 1) : Tail(lane)[i] = lane[i + 1]
      /\ Head(lane) = lane[1]
  BY <1>1
<1>3. \A i \in DOMAIN lane : lane[i] \in Entries
  BY <1>1
<1>4. lane' = Tail(lane) /\ pc' = [pc EXCEPT ![lane[1].caller] = step]
  BY <1>2 DEF LeaveLane, Mutation
<1>5. \A i \in 1..(Len(lane) - 1) :
        /\ i + 1 \in DOMAIN lane /\ lane'[i] = lane[i + 1]
        /\ pc'[lane[i + 1].caller] = pc[lane[i + 1].caller]
  <2> TAKE i \in 1..(Len(lane) - 1)
  <2>1. i + 1 \in DOMAIN lane /\ i + 1 # 1 /\ 1 \in DOMAIN lane
    BY <1>2
  <2>2. lane[i + 1].caller # lane[1].caller /\ lane[i + 1].caller \in Callers
    BY <1>3, <2>1 DEF WaitersInv, Entries
  <2> QED
    BY <1>2, <1>4, <2>1, <2>2 DEF LaneTypes
<1>6. \A i, j \in 1..(Len(lane) - 1) : i + 1 = j + 1 => i = j
  BY <1>2
<1>7. DOMAIN lane' = 1..(Len(lane) - 1)
  BY <1>2, <1>4
<1> QED
  BY <1>5, <1>6, <1>7 DEF WaitersInv, LeaveLane

\* The steps that leave the lane, its operation and the barrier's hold alone.
LEMMA OpKept ==
  ASSUME OpInv, BarrierInv, op' = op, lane # <<>> => lane' # <<>> /\ Mutation' = Mutation,
         \A r \in Runs : run[r].kind # "none" => run'[r].kind # "none",
         barrier'.held = barrier.held, ~barrier.held => barrier'.events = barrier.events
  PROVE  OpInv' /\ BarrierInv'
BY DEF OpInv, BarrierInv

LEMMA EnqueueBarrier ==
  ASSUME Types, NEW es \in Seq(Event), Enqueue(es)
  PROVE  barrier'.held = barrier.held /\ (~barrier.held => barrier'.events = barrier.events)
BY TypesParts DEF Enqueue, ManagerTypes

LEMMA LaneStepInv ==
  ASSUME Types, Types', RunInv, ForegroundInv, LaneInv, Step
  PROVE  LaneInv'
<1> USE TypesParts DEF LaneInv
<1>1. \A r \in Runs : run[r].kind # "none" => run'[r].kind # "none"
  BY UsedStay
<1>2. ASSUME UNCHANGED laneVars, barrier'.held = barrier.held,
             ~barrier.held => barrier'.events = barrier.events
      PROVE  LaneInv'
  <2>1. Mutation' = Mutation /\ WaitersInv'
    BY <1>2 DEF laneVars, Mutation, WaitersInv
  <2> QED
    BY <1>1, <1>2, <2>1, OpKept DEF laneVars
<1>3. ASSUME NEW c \in Callers, CallerMoves(c)
      PROVE  LaneInv'
  <2>1. op' = op /\ barrier' = barrier
    BY <1>3 DEF CallerMoves, SendBusy, Stop, Steer, ReplaceRefused, ReplaceOvertaken,
       SteerReplaces, SteerOvertaken, BeginReplacement, managerVars
  <2>2. CASE SendBusy(c) \/ SteerReplaces(c)
    <3>1. /\ pc[c] \in {"idle", "declined"} /\ pc' = [pc EXCEPT ![c] = "replacing"]
          /\ lane' = Append(lane, [caller |-> c, kind |-> "cancel"])
      BY <2>2 DEF SendBusy, SteerReplaces, BeginReplacement
    <3>2. WaitersInv' /\ (lane # <<>> => Mutation' = Mutation) /\ lane' # <<>>
      BY <3>1, Joins DEF Waits
    <3> QED
      BY <1>1, <2>1, <3>2, OpKept
  <2>3. CASE Stop(c)
    <3>1. /\ pc[c] \in {"idle", "declined"} /\ pc' = [pc EXCEPT ![c] = "stopping"]
          /\ lane' = Append(lane, [caller |-> c, kind |-> "cancel"])
      BY <2>3 DEF Stop
    <3>2. WaitersInv' /\ (lane # <<>> => Mutation' = Mutation) /\ lane' # <<>>
      BY <3>1, Joins DEF Waits
    <3> QED
      BY <1>1, <2>1, <3>2, OpKept
  <2>4. CASE Steer(c)
    <3>1. /\ pc[c] \in {"idle", "declined"} /\ pc' = [pc EXCEPT ![c] = "steering"]
          /\ lane' = Append(lane, [caller |-> c, kind |-> "steer"])
          /\ "steer" \in Operations
      BY <2>4 DEF Steer
    <3>2. WaitersInv' /\ (lane # <<>> => Mutation' = Mutation) /\ lane' # <<>>
      BY <3>1, Joins DEF Waits
    <3> QED
      BY <1>1, <2>1, <3>2, OpKept
  <2>5. CASE ReplaceRefused(c) \/ ReplaceOvertaken(c) \/ SteerOvertaken(c)
    <3>1. /\ pc[c] \in {"refused", "proceed", "declined"} /\ lane' = lane
          /\ pc' = [pc EXCEPT ![c] = "idle"]
      BY <2>5 DEF ReplaceRefused, ReplaceOvertaken, SteerOvertaken
    <3>2. WaitersInv' /\ Mutation' = Mutation
      BY <3>1, GoesOn
    <3> QED
      BY <1>1, <2>1, <3>1, <3>2, OpKept
  <2> QED
    BY <1>3, <2>2, <2>3, <2>4, <2>5 DEF CallerMoves
<1>4. CASE RunStarts
  <2>1. PICK c \in Callers : SendIdle(c) \/ ReplaceStart(c)
    BY <1>4 DEF RunStarts
  <2>2. /\ pc[c] \in {"idle", "proceed"} /\ lane' = lane /\ op' = op
        /\ pc' = pc \/ pc' = [pc EXCEPT ![c] = "idle"]
    BY <2>1 DEF SendIdle, ReplaceStart, laneVars
  <2>3. WaitersInv' /\ Mutation' = Mutation
    BY <2>2, GoesOn
  <2>4. barrier' = barrier
    BY <1>4 DEF RunStarts, StreamAgent
  <2> QED
    BY <1>1, <2>2, <2>3, <2>4, OpKept
<1>5. ASSUME lane # <<>>, NEW step, LeaveLane(step), ~barrier.held, barrier' = barrier
      PROVE  LaneInv'
  <2>1. WaitersInv' /\ op' = NoOp
    BY <1>5, Leaves
  <2> QED
    BY <1>5, <2>1 DEF OpInv, BarrierInv, NoOp
<1>6. CASE \/ CancelNothing \/ CancelSettled \/ CancelRefused \/ CancelForcedDone
           \/ SteerRejected \/ SteerDone \/ CancelForcesPending \/ CancelForcesAutonomous
  <2>1. lane # <<>> /\ ~barrier.held /\ barrier' = barrier
    BY <1>6 DEF CancelNothing, CancelSettled, CancelRefused, CancelForcedDone,
       SteerRejected, SteerDone, CancelForcesPending, CancelForcesAutonomous,
       TimedOutAcknowledged, AtHead, managerVars, BarrierInv
  <2>2. \E step : LeaveLane(step)
    BY <1>6 DEF CancelNothing, CancelSettled, CancelRefused, CancelForcedDone,
       SteerRejected, SteerDone, CancelForcesPending, CancelForcesAutonomous
  <2> QED
    BY <1>5, <2>1, <2>2
<1>7. ASSUME lane # <<>>, UNCHANGED <<lane, pc>>
      PROVE  WaitersInv' /\ Mutation' = Mutation /\ lane' # <<>>
  BY <1>7 DEF WaitersInv, Mutation
<1>8. CASE CancelCapture \/ CancelUntracked
  <2>1. /\ AtHead("cancel", "none") /\ UNCHANGED <<lane, pc, barrier>>
        /\ op' = [NoOp EXCEPT !.phase = "interrupting", !.run = cur']
    BY <1>8 DEF CancelCapture, CancelUntracked, managerVars
  <2>2. cur' \in Runs /\ run'[cur'].kind # "none"
    <3>1. CASE CancelCapture
      BY <3>1, TrackedRuns DEF CancelCapture, managerVars
    <3>2. CASE CancelUntracked
      <4>1. NextRun \in Runs
        BY <3>2, NextRunIsFresh DEF CancelUntracked, FreshRuns
      <4>2. [UnusedRun EXCEPT !.kind = "autonomous"].kind = "autonomous"
        BY DEF UnusedRun
      <4> QED
        BY <3>2, <4>1, <4>2 DEF CancelUntracked, ManagerTypes
    <3> QED
      BY <1>8, <3>1, <3>2
  <2>3. op'.phase = "interrupting" /\ op'.run = cur' /\ op'.acked = FALSE
    BY <2>1 DEF NoOp
  <2>4. Mutation.kind = "cancel" /\ lane # <<>> /\ op.phase = "none"
    BY <2>1 DEF AtHead
  <2> QED
    BY <1>7, <2>1, <2>2, <2>3, <2>4 DEF OpInv, BarrierInv
<1>9. CASE InterruptAcknowledged \/ InterruptFailed \/ CancelForcesTurn
  <2>1. /\ AtHead("cancel", op.phase) /\ op.phase \in {"interrupting", "settling"}
        /\ UNCHANGED <<lane, pc, barrier>>
        /\ \E p \in {"settling", "forced"}, a \in BOOLEAN : op' = [op EXCEPT !.phase = p, !.acked = a]
    <3>1. CASE InterruptAcknowledged
      BY <3>1 DEF InterruptAcknowledged, AtHead, managerVars
    <3>2. CASE InterruptFailed \/ CancelForcesTurn
      <4>1. op = [op EXCEPT !.acked = op.acked] /\ op.acked \in BOOLEAN
        BY DEF LaneTypes, Ops
      <4>2. \A p : [op EXCEPT !.phase = p] = [op EXCEPT !.phase = p, !.acked = op.acked]
        BY DEF LaneTypes, Ops
      <4> QED
        BY <3>2, <4>1, <4>2 DEF InterruptFailed, CancelForcesTurn, TimedOutAcknowledged,
           AtHead, managerVars
    <3> QED
      BY <1>9, <3>1, <3>2
  <2>2. op'.phase \in {"settling", "forced"} /\ op'.run = op.run
    BY <2>1 DEF LaneTypes, Ops
  <2>3. Mutation.kind = "cancel" /\ lane # <<>>
    BY <2>1 DEF AtHead
  <2>4. op.run \in Runs /\ run[op.run].kind # "none"
    BY <2>1 DEF OpInv
  <2>5. run'[op.run].kind # "none"
    BY <1>1, <2>4
  <2>6. op' = NoOp => FALSE
    BY <2>2 DEF NoOp
  <2> QED
    BY <1>7, <2>1, <2>2, <2>3, <2>4, <2>5 DEF OpInv, BarrierInv
<1>10. CASE SteerDrain
  <2>1. /\ AtHead("steer", "none") /\ UNCHANGED <<lane, pc, barrier>>
        /\ op' = [NoOp EXCEPT !.phase = "draining"]
    BY <1>10 DEF SteerDrain, managerVars
  <2>2. op'.phase = "draining" /\ op'.run = NoRun /\ op'.acked = FALSE
    BY <2>1 DEF NoOp
  <2> QED
    BY <1>7, <2>1, <2>2 DEF OpInv, BarrierInv, AtHead
<1>11. CASE SteerAdmits \/ \E accepted \in BOOLEAN : SteerAnswered(accepted)
  <2>1. /\ AtHead("steer", op.phase) /\ op.phase \in {"draining", "admitting"}
        /\ UNCHANGED <<lane, pc>>
        /\ op'.run = op.run /\ op'.acked = op.acked
        /\ \/ op'.phase = "admitting" /\ barrier' = [held |-> TRUE, events |-> <<>>]
           \/ op'.phase = "closing" /\ barrier' = NoBarrier
    BY <1>11 DEF SteerAdmits, SteerAnswered, AtHead, LaneTypes, Ops
  <2> QED
    BY <1>7, <2>1 DEF OpInv, BarrierInv, AtHead, NoBarrier
<1>12. ASSUME NEW r \in Runs, GeneratorStep(r)
       PROVE  LaneInv'
  <2>1. UNCHANGED laneVars
    BY <1>12 DEF GeneratorStep, CallStartTurn, StartResolved, StartCanceled, StartFailed,
       StartStale, StreamEnds
  <2>2. barrier'.held = barrier.held /\ (~barrier.held => barrier' = barrier)
    <3>1. CASE StartResolved(r)
      BY <3>1 DEF StartResolved, ManagerTypes
    <3>2. CASE ~StartResolved(r)
      BY <1>12, <3>2 DEF GeneratorStep, CallStartTurn, StartCanceled, StartFailed,
         StartStale, StreamEnds
    <3> QED
      BY <3>1, <3>2
  <2> QED
    BY <1>2, <2>1, <2>2
<1>13. CASE QueueStep
  BY <1>2, <1>13 DEF QueueStep, ProcessTerminal, ProcessStartedSuppressed, ProcessStarted
<1>14. CASE ProviderStep
  <2>1. ASSUME NEW es \in Seq(Event), Enqueue(es), UNCHANGED laneVars
        PROVE  LaneInv'
    BY <1>2, <2>1, EnqueueBarrier
  <2>2. CASE \E s \in Runs : ProviderOpens(s)
    BY <1>2, <2>2 DEF ProviderOpens, managerVars
  <2>3. CASE \E t \in Turns : ProviderAnnounces(t)
    BY <2>1, <2>3, EventTypes DEF ProviderAnnounces
  <2>4. CASE ProviderWakes
    BY <2>1, <2>4, EventTypes, NextTurnIsFresh DEF ProviderWakes, FreshTurns
  <2>5. CASE \E t \in Turns, type \in Endings : ProviderEnds(t, type)
    BY <2>1, <2>5, EventTypes, BoundsAssumption DEF ProviderEnds, Terminal
  <2>6. CASE ProviderDies
    BY <2>1, <2>6, EventTypes DEF ProviderDies, Terminal
  <2> QED
    BY <1>14, <2>2, <2>3, <2>4, <2>5, <2>6 DEF ProviderStep
<1> QED
  BY <1>3, <1>4, <1>6, <1>8, <1>9, <1>10, <1>11, <1>12, <1>13, <1>14, StepKinds
     DEF Moves, LaneMoves

-------------------------------------------------------------------------------
(* Lists of events.                                                           *)

LEMMA ConcatEvents ==
  ASSUME NEW a \in Seq(Event), NEW b \in Seq(Event), NEW t
  PROVE  /\ Ends(a \o b, t) <=> Ends(a, t) \/ Ends(b, t)
         /\ Starts(a \o b, t) <=> Starts(a, t) \/ Starts(b, t)
<1> DEFINE c == a \o b
<1>1. /\ Len(a) \in Nat /\ Len(b) \in Nat
      /\ DOMAIN a = 1..Len(a) /\ DOMAIN b = 1..Len(b)
      /\ DOMAIN c = 1..(Len(a) + Len(b))
      /\ \A i \in 1..(Len(a) + Len(b)) : c[i] = IF i <= Len(a) THEN a[i] ELSE b[i - Len(a)]
  OBVIOUS
<1> HIDE DEF c
<1>2. \A i \in DOMAIN c : \/ i \in DOMAIN a /\ c[i] = a[i]
                          \/ i - Len(a) \in DOMAIN b /\ c[i] = b[i - Len(a)]
  BY <1>1
<1>3. \A i \in DOMAIN a : i \in DOMAIN c /\ c[i] = a[i]
  BY <1>1
<1>4. \A i \in DOMAIN b : i + Len(a) \in DOMAIN c /\ c[i + Len(a)] = b[i]
  BY <1>1
<1>5. /\ Ends(c, t) <=> Ends(a, t) \/ Ends(b, t)
      /\ Starts(c, t) <=> Starts(a, t) \/ Starts(b, t)
  BY <1>2, <1>3, <1>4 DEF Ends, Starts
<1> QED
  BY <1>5 DEF c

LEMMA OneEvent ==
  ASSUME NEW type, NEW turn, NEW t
  PROVE  /\ Ends(<<[type |-> type, turn |-> turn]>>, t) <=> type \in Terminal /\ turn = t
         /\ Starts(<<[type |-> type, turn |-> turn]>>, t) <=> type = "turn_started" /\ turn = t
BY DEF Ends, Starts, IsEnd, IsStart

LEMMA NoEvents == \A t : ~Ends(<<>>, t) /\ ~Starts(<<>>, t)
BY DEF Ends, Starts

LEMMA TailEvents ==
  ASSUME NEW es \in Seq(Event), es # <<>>, NEW t
  PROVE  /\ Ends(es, t) <=> IsEnd(Head(es), t) \/ Ends(Tail(es), t)
         /\ Starts(es, t) <=> IsStart(Head(es), t) \/ Starts(Tail(es), t)
<1> DEFINE b == Tail(es)
<1>1. /\ Len(es) \in Nat \ {0} /\ DOMAIN es = 1..Len(es) /\ Head(es) = es[1]
      /\ DOMAIN b = 1..(Len(es) - 1) /\ \A i \in 1..(Len(es) - 1) : b[i] = es[i + 1]
  OBVIOUS
<1> HIDE DEF b
<1>2. \A i \in DOMAIN es : i = 1 \/ (i - 1 \in DOMAIN b /\ es[i] = b[i - 1])
  BY <1>1
<1>3. \A i \in DOMAIN b : i + 1 \in DOMAIN es /\ b[i] = es[i + 1]
  BY <1>1
<1>4. 1 \in DOMAIN es
  BY <1>1
<1>5. /\ Ends(es, t) <=> IsEnd(es[1], t) \/ Ends(b, t)
      /\ Starts(es, t) <=> IsStart(es[1], t) \/ Starts(b, t)
  BY <1>2, <1>3, <1>4 DEF Ends, Starts
<1> QED
  BY <1>1, <1>5 DEF b

\* Without drops no terminal event and adds no turn_started.
LEMMA WithoutEvents ==
  ASSUME NEW es \in Seq(Event), NEW t \in Turns, NEW u
  PROVE  LET w == Without(es, [type |-> "turn_started", turn |-> t])
         IN  /\ Ends(w, u) <=> Ends(es, u)
             /\ Starts(w, u) => Starts(es, u)
             /\ u # t => (Starts(w, u) <=> Starts(es, u))
             /\ w \in Seq(Event)
<1> DEFINE e == [type |-> "turn_started", turn |-> t]
           w == Without(es, e)
<1>1. CASE w = es
  BY <1>1
<1>2. ASSUME NEW k \in DOMAIN es, es[k] = e, DOMAIN w = 1..(Len(es) - 1),
             \A i \in 1..(Len(es) - 1) : w[i] = IF i < k THEN es[i] ELSE es[i + 1]
      PROVE  /\ Ends(w, u) <=> Ends(es, u)
             /\ Starts(w, u) => Starts(es, u)
             /\ u # t => (Starts(w, u) <=> Starts(es, u))
  <2>1. DOMAIN es = 1..Len(es) /\ Len(es) \in Nat
    OBVIOUS
  <2>2. e.type \notin Terminal /\ e.turn = t
    BY DEF Terminal
  <2> HIDE DEF w, e
  <2>3. \A i \in DOMAIN w : \E j \in DOMAIN es : w[i] = es[j]
    <3> TAKE i \in DOMAIN w
    <3>1. i \in DOMAIN es /\ i + 1 \in DOMAIN es
      BY <1>2, <2>1
    <3> QED
      BY <1>2, <3>1
  <2>4. \A j \in DOMAIN es : j # k => \E i \in DOMAIN w : w[i] = es[j]
    <3> TAKE j \in DOMAIN es
    <3> HAVE j # k
    <3>1. CASE j < k
      <4>1. j \in DOMAIN w /\ w[j] = es[j]
        BY <1>2, <2>1, <3>1
      <4> QED
        BY <4>1
    <3>2. CASE ~(j < k)
      <4>1. j - 1 \in DOMAIN w /\ ~(j - 1 < k) /\ (j - 1) + 1 = j
        BY <1>2, <2>1, <3>2
      <4>2. w[j - 1] = es[j]
        BY <1>2, <4>1
      <4> QED
        BY <4>1, <4>2
    <3> QED
      BY <3>1, <3>2
  <2> QED
    BY <1>2, <2>2, <2>3, <2>4 DEF Ends, Starts, IsEnd, IsStart
<1>3. w \in Seq(Event)
  BY WithoutEffect
<1> QED
  BY <1>1, <1>2, <1>3, WithoutEffect

LEMMA ReportedMore ==
  ASSUME NEW p, NEW told, NEW es, Reported(p, told, es), NEW q, NEW more,
         \A t \in Turns : p[t] = "over" => q[t] = "over", told \subseteq more
  PROVE  Reported(q, more, es)
BY DEF Reported

LEMMA ReportedConcat ==
  ASSUME NEW p, NEW told, NEW a \in Seq(Event), NEW b \in Seq(Event),
         Reported(p, told, a), Reported(p, told, b)
  PROVE  Reported(p, told, a \o b)
BY ConcatEvents DEF Reported

\* Where enqueued events go: behind the barrier, to the pending run, or into
\* the event tail.
LEMMA EnqueueEffect ==
  ASSUME Types, NEW es \in Seq(Event), Enqueue(es)
  PROVE  \/ /\ barrier.held /\ barrier'.events = barrier.events \o es
            /\ UNCHANGED <<run, queue>>
         \/ /\ ~barrier.held /\ Pending /\ run'[cur].staged = run[cur].staged \o es
            /\ \A r \in Runs : r # cur => run'[r] = run[r]
            /\ UNCHANGED <<barrier, queue>>
         \/ /\ ~barrier.held /\ ~Pending /\ queue' = queue \o es
            /\ UNCHANGED <<barrier, run>>
<1> USE TypesParts
<1>1. CASE barrier.held
  BY <1>1 DEF Enqueue, ManagerTypes
<1>2. CASE ~barrier.held /\ Pending
  <2>1. cur \in Runs /\ run[cur] \in RunObjects
    BY <1>2 DEF ManagerTypes, HasRun, Pending
  <2> DEFINE new == [run[cur] EXCEPT !.staged = @ \o es]
  <2>2. new.staged = run[cur].staged \o es
    BY <2>1 DEF RunObjects
  <2>3. run' = [run EXCEPT ![cur] = new] /\ UNCHANGED <<barrier, queue>>
    BY <1>2, <2>1 DEF Enqueue, Pending, ManagerTypes
  <2> HIDE DEF new
  <2> QED
    BY <1>2, <2>1, <2>2, <2>3 DEF ManagerTypes
<1>3. CASE ~barrier.held /\ ~Pending
  BY <1>3 DEF Enqueue, Pending
<1> QED
  BY <1>1, <1>2, <1>3

LEMMA AnsweredEffect ==
  ASSUME Types, NEW accepted, SteerAnswered(accepted)
  PROVE  /\ barrier' = NoBarrier
         /\ \/ /\ Pending /\ run'[cur].staged = run[cur].staged \o barrier.events
               /\ \A r \in Runs : r # cur => run'[r] = run[r]
               /\ queue' = queue
            \/ /\ ~Pending /\ queue' = queue \o barrier.events
               /\ run' = run
<1> USE TypesParts
<1>1. CASE Pending
  <2>1. cur \in Runs /\ run[cur] \in RunObjects
    BY <1>1 DEF ManagerTypes, HasRun, Pending
  <2> DEFINE new == [run[cur] EXCEPT !.staged = @ \o barrier.events]
  <2>2. new.staged = run[cur].staged \o barrier.events
    BY <2>1 DEF RunObjects
  <2>3. run' = [run EXCEPT ![cur] = new] /\ queue' = queue /\ barrier' = NoBarrier
    BY <1>1, <2>1 DEF SteerAnswered, Pending, ManagerTypes
  <2> HIDE DEF new
  <2> QED
    BY <1>1, <2>1, <2>2, <2>3 DEF ManagerTypes
<1>2. CASE ~Pending
  BY <1>2 DEF SteerAnswered, Pending
<1> QED
  BY <1>1, <1>2

\* The staged events of a resolved run go where new events go.
LEMMA ResolvedEvents ==
  ASSUME Types, NEW r \in Runs, StartResolved(r)
  PROVE  \E t \in OpenedTurns(r), staged \in Seq(Event) :
           /\ staged = Without(run[r].staged, [type |-> "turn_started", turn |-> t])
           /\ agent'.fg = t /\ agent'.turn = t /\ run'[r].turn = t
           /\ \/ /\ barrier.held /\ barrier'.events = barrier.events \o staged
                 /\ queue' = queue
              \/ /\ ~barrier.held /\ queue' = queue \o staged
                 /\ barrier' = barrier
<1> USE TypesParts
<1> PICK t \in OpenedTurns(r) : StartResolved(r)!(t)
  BY DEF StartResolved
<1> DEFINE staged == Without(run[r].staged, [type |-> "turn_started", turn |-> t])
<1>1. run[r] \in RunObjects /\ agent \in Agents
  BY DEF ManagerTypes
<1>2. staged \in Seq(Event)
  BY <1>1, WithoutEffect DEF RunObjects
<1>3. agent' = [agent EXCEPT !.replacing = @ /\ ~run[r].replacement,
                             !.fg = t, !.turn = t, !.lifecycle = "running"]
  OBVIOUS
<1>4. agent'.fg = t /\ agent'.turn = t
  BY <1>1, <1>3 DEF Agents
<1>5. run'[r].turn = t
  BY <1>1 DEF ManagerTypes, RunObjects
<1>6. IF barrier.held
      THEN barrier' = [barrier EXCEPT !.events = @ \o staged] /\ UNCHANGED queue
      ELSE queue' = queue \o staged /\ UNCHANGED barrier
  OBVIOUS
<1> HIDE DEF staged
<1>7. \/ /\ barrier.held /\ barrier'.events = barrier.events \o staged
         /\ queue' = queue
      \/ /\ ~barrier.held /\ queue' = queue \o staged
         /\ barrier' = barrier
  BY <1>6 DEF ManagerTypes
<1> QED
  BY <1>2, <1>4, <1>5, <1>7 DEF staged

LEMMA EventLists ==
  ASSUME Types
  PROVE  /\ queue \in Seq(Event) /\ barrier.events \in Seq(Event)
         /\ \A r \in Runs : run[r].staged \in Seq(Event)
BY TypesParts DEF ManagerTypes, RunObjects

LEMMA EventStep ==
  ASSUME Types, Types', RunInv, ForegroundInv, TurnInv, LaneInv, EventInv, Step
  PROVE  EventInv'
<1> USE TypesParts
<1>1. ASSUME UNCHANGED <<prov, announced, queue, barrier.events>>,
             \A r \in Runs : run'[r] = run[r] \/ run'[r].staged = <<>>
      PROVE  EventInv'
  <2>1. Reported(prov, announced, <<>>)
    BY NoEvents DEF Reported
  <2> QED
    BY <1>1, <2>1 DEF EventInv
<1>2. CASE Moves
  <2>1. UNCHANGED View
    BY <1>2, LaneMovesView, CallerMovesTypes DEF Moves
  <2> QED
    BY <1>1, <2>1 DEF View
<1>3. ASSUME FreshRuns # {}, NEW new, run' = [run EXCEPT ![NextRun] = new], new.staged = <<>>
      PROVE  \A r \in Runs : run'[r] = run[r] \/ run'[r].staged = <<>>
  BY <1>3 DEF ManagerTypes
<1>4. CASE RunStarts
  <2> DEFINE new == [UnusedRun EXCEPT !.kind = "foreground", !.replacement = agent.replacing]
  <2>1. FreshRuns # {} /\ run' = [run EXCEPT ![NextRun] = new] /\ new.staged = <<>>
    BY <1>4 DEF RunStarts, StreamAgent, UnusedRun
  <2>2. UNCHANGED <<prov, announced, queue, barrier>>
    BY <1>4 DEF RunStarts, StreamAgent, SendIdle, ReplaceStart, providerVars
  <2> HIDE DEF new
  <2> QED
    BY <1>1, <1>3, <2>1, <2>2
<1>5. CASE CancelUntracked
  <2> DEFINE new == [UnusedRun EXCEPT !.kind = "autonomous"]
  <2>1. FreshRuns # {} /\ run' = [run EXCEPT ![NextRun] = new] /\ new.staged = <<>>
    BY <1>5 DEF CancelUntracked, UnusedRun
  <2>2. UNCHANGED <<prov, announced, queue, barrier>>
    BY <1>5 DEF CancelUntracked, providerVars
  <2> HIDE DEF new
  <2> QED
    BY <1>1, <1>3, <2>1, <2>2
<1>6. CASE InterruptAcknowledged
  <2>1. \A t \in Turns : prov[t] = "over" => prov'[t] = "over"
    BY <1>6 DEF InterruptAcknowledged
  <2>2. UNCHANGED <<queue, barrier, run, announced>>
    BY <1>6 DEF InterruptAcknowledged, managerVars
  <2> QED
    BY <2>1, <2>2, ReportedMore DEF EventInv
<1>7. CASE CancelForcesTurn \/ CancelForcesPending \/ CancelForcesAutonomous
  BY <1>1, <1>7 DEF CancelForcesTurn, CancelForcesPending, CancelForcesAutonomous,
     providerVars
<1>8. ASSUME NEW accepted, SteerAnswered(accepted)
      PROVE  EventInv'
  <2>1. UNCHANGED <<prov, announced, cur>>
    BY <1>8 DEF SteerAnswered, providerVars
  <2>2. barrier'.events = <<>> /\ Reported(prov, announced, <<>>)
    <3>1. barrier' = NoBarrier
      BY <1>8, AnsweredEffect
    <3>2. barrier'.events = <<>>
      BY <3>1 DEF NoBarrier
    <3>3. Reported(prov, announced, <<>>)
      BY NoEvents DEF Reported
    <3> QED
      BY <3>2, <3>3
  <2>3. /\ Pending => Reported(prov, announced, run[cur].staged \o barrier.events)
        /\ Reported(prov, announced, queue \o barrier.events)
    BY ReportedConcat, EventLists, TrackedRuns DEF EventInv, Pending
  <2> QED
    BY <1>8, <2>1, <2>2, <2>3, AnsweredEffect DEF EventInv
<1>9. ASSUME NEW r \in Runs, GeneratorStep(r)
      PROVE  EventInv'
  <2>1. UNCHANGED <<prov, announced>>
    BY <1>9 DEF GeneratorStep, CallStartTurn, StartResolved, StartCanceled, StartFailed,
       StartStale, StreamEnds, providerVars
  <2>2. CASE CallStartTurn(r)
    BY <1>1, <2>1, <2>2 DEF CallStartTurn
  <2>3. CASE StartResolved(r)
    <3> PICK t \in OpenedTurns(r), staged \in Seq(Event) :
           /\ staged = Without(run[r].staged, [type |-> "turn_started", turn |-> t])
           /\ \/ /\ barrier.held /\ barrier'.events = barrier.events \o staged
                 /\ queue' = queue
              \/ /\ ~barrier.held /\ queue' = queue \o staged
                 /\ barrier' = barrier
      BY <2>3, ResolvedEvents
    <3>1. Reported(prov, announced, staged)
      BY EventLists, WithoutEvents DEF EventInv, Reported, OpenedTurns
    <3>2. /\ Reported(prov, announced, queue \o staged)
          /\ Reported(prov, announced, barrier.events \o staged)
      BY <3>1, ReportedConcat, EventLists DEF EventInv
    <3>3. Reported(prov, announced, <<>>)
      BY NoEvents DEF Reported
    <3>4. \A s \in Runs : run'[s] = run[s] \/ run'[s].staged = <<>>
      BY <2>3, ResolvedRuns
    <3> QED
      BY <2>1, <3>2, <3>3, <3>4 DEF EventInv
  <2>4. CASE StartCanceled(r) \/ StartFailed(r) \/ StartStale(r) \/ StreamEnds(r)
    <3>1. run' = [run EXCEPT ![r] = CollectedRun] /\ UNCHANGED <<queue, barrier>>
      BY <2>4 DEF StartCanceled, StartFailed, StartStale, StreamEnds
    <3>2. CollectedRun.staged = <<>>
      BY DEF CollectedRun, UnusedRun
    <3>3. \A s \in Runs : run'[s] = run[s] \/ run'[s].staged = <<>>
      BY <3>1, <3>2 DEF ManagerTypes
    <3> QED
      BY <1>1, <2>1, <3>1, <3>3
  <2> QED
    BY <1>9, <2>2, <2>3, <2>4 DEF GeneratorStep
<1>10. CASE QueueStep
  <2>1. UNCHANGED <<prov, announced, barrier>> /\ queue # <<>> /\ queue' = Tail(queue)
    BY <1>10 DEF QueueStep, ProcessTerminal, ProcessStartedSuppressed, ProcessStarted,
       providerVars
  <2>2. Reported(prov, announced, Tail(queue))
    BY <2>1, EventLists, TailEvents DEF EventInv, Reported
  <2>3. \A s \in Runs : run'[s] = run[s] \/ run'[s].staged = <<>>
    <3>1. CASE run' = run
      BY <3>1
    <3>2. CASE run' # run
      <4> DEFINE new == [UnusedRun EXCEPT !.kind = "autonomous", !.turn = Head(queue).turn]
      <4>1. /\ FreshRuns # {} /\ run' = [run EXCEPT ![NextRun] = new]
            /\ new.staged = <<>>
        BY <1>10, <3>2 DEF QueueStep, ProcessTerminal, ProcessStartedSuppressed,
           ProcessStarted, UnusedRun
      <4> HIDE DEF new
      <4> QED
        BY <1>3, <4>1
    <3> QED
      BY <3>1, <3>2
  <2>4. Reported(prov, announced, <<>>)
    BY NoEvents DEF Reported
  <2> QED
    BY <2>1, <2>2, <2>3, <2>4 DEF EventInv
<1>11. CASE ProviderStep
  <2>1. ASSUME NEW es \in Seq(Event), Enqueue(es), Reported(prov', announced', es),
               \A t \in Turns : prov[t] = "over" => prov'[t] = "over",
               announced \subseteq announced'
        PROVE  EventInv'
    <3>1. /\ Reported(prov', announced', queue) /\ Reported(prov', announced', barrier.events)
          /\ \A r \in Runs : Reported(prov', announced', run[r].staged)
      BY <2>1, ReportedMore DEF EventInv
    <3>2. /\ Reported(prov', announced', queue \o es)
          /\ Reported(prov', announced', barrier.events \o es)
          /\ Pending => Reported(prov', announced', run[cur].staged \o es)
      BY <2>1, <3>1, ReportedConcat, EventLists, TrackedRuns DEF Pending
    <3> QED
      BY <2>1, <3>1, <3>2, EnqueueEffect DEF EventInv
  <2>2. ASSUME NEW r \in Runs, ProviderOpens(r)
        PROVE  EventInv'
    <3>1. NextTurn \in Turns /\ prov[NextTurn] = "unused"
      BY <2>2, NextTurnIsFresh DEF ProviderOpens, FreshTurns
    <3>2. \A t \in Turns : prov[t] = "over" => prov'[t] = "over"
      BY <2>2, <3>1 DEF ProviderOpens, ProviderTypes
    <3>3. UNCHANGED <<announced, queue, barrier, run>>
      BY <2>2 DEF ProviderOpens, managerVars
    <3> QED
      BY <3>2, <3>3, ReportedMore DEF EventInv
  <2>3. ASSUME NEW t \in Turns, ProviderAnnounces(t)
        PROVE  EventInv'
    <3> DEFINE es == <<[type |-> "turn_started", turn |-> t]>>
    <3>1. /\ Enqueue(es) /\ prov' = prov /\ announced' = announced \cup {t}
      BY <2>3 DEF ProviderAnnounces
    <3>2. es \in Seq(Event) /\ Reported(prov', announced', es)
      BY <3>1, EventTypes, OneEvent DEF Reported, Terminal
    <3> QED
      BY <2>1, <3>1, <3>2
  <2>4. CASE ProviderWakes
    <3> DEFINE es == <<[type |-> "turn_started", turn |-> NextTurn]>>
    <3>1. NextTurn \in Turns /\ prov[NextTurn] = "unused"
      BY <2>4, NextTurnIsFresh DEF ProviderWakes, FreshTurns
    <3>2. /\ Enqueue(es) /\ announced' = announced \cup {NextTurn}
          /\ \A t \in Turns : prov[t] = "over" => prov'[t] = "over"
      BY <2>4, <3>1 DEF ProviderWakes, ProviderTypes
    <3>3. es \in Seq(Event) /\ Reported(prov', announced', es)
      BY <3>1, <3>2, EventTypes, OneEvent DEF Reported, Terminal
    <3> QED
      BY <2>1, <3>2, <3>3
  <2>5. ASSUME NEW t \in Turns, NEW type \in Endings, ProviderEnds(t, type)
        PROVE  EventInv'
    <3> DEFINE es == <<[type |-> type, turn |-> t]>>
    <3>1. type \in Terminal
      BY BoundsAssumption DEF Terminal
    <3>2. /\ Enqueue(es) /\ announced' = announced /\ prov'[t] = "over"
          /\ \A u \in Turns : prov[u] = "over" => prov'[u] = "over"
      BY <2>5 DEF ProviderEnds, ProviderTypes
    <3>3. es \in Seq(Event) /\ Reported(prov', announced', es)
      BY <3>1, <3>2, EventTypes, OneEvent DEF Reported, Terminal
    <3> QED
      BY <2>1, <3>2, <3>3
  <2>6. CASE ProviderDies
    <3> DEFINE es == <<[type |-> "turn_failed", turn |-> NoTurn]>>
    <3>1. Enqueue(es) /\ announced' = announced /\ prov' = prov
      BY <2>6 DEF ProviderDies
    <3>2. es \in Seq(Event) /\ Reported(prov', announced', es)
      BY <3>1, EventTypes, OneEvent, IdsArePositive DEF Reported, Terminal
    <3> QED
      BY <2>1, <3>1, <3>2
  <2> QED
    BY <1>11, <2>2, <2>3, <2>4, <2>5, <2>6 DEF ProviderStep
<1> QED
  BY <1>2, <1>4, <1>5, <1>6, <1>7, <1>8, <1>9, <1>10, <1>11, StepKinds

-------------------------------------------------------------------------------
(* Remembered turns, and the end of the tracked run's turn.                   *)

LEMMA DispatchFinalized ==
  ASSUME Types, RunInv, ForegroundInv, FinalizedInv, UNCHANGED <<gen, owner>>,
         NEW type \in Terminal, NEW turn \in Turns \cup {NoTurn}, DispatchTerminal(type, turn)
  PROVE  FinalizedInv'
<1> DEFINE t == Identified(type, turn)
<1>1. CASE Duplicate(t)
  BY <1>1 DEF Duplicate, FinalizedInv, IsFinalized
<1>2. CASE EndsForeground(t)
  <2>1. owner[t] = cur /\ cur \in Runs /\ gen[cur] = "streaming"
    BY <1>2, TrackedRuns, UsedRuns DEF EndsForeground, ForegroundInv, Streaming, InForeground
  <2>2. cur # NoRun
    BY <1>2 DEF EndsForeground, Streaming, HasRun
  <2>3. \A u \in Turns : IsFinalized(agent', u) => u = t \/ IsFinalized(agent, u)
    BY <1>2 DEF EndsForeground
  <2>4. settled' = settled \cup {cur}
    BY <1>2 DEF EndsForeground
  <2> SUFFICES ASSUME NEW u \in Turns, IsFinalized(agent', u)
               PROVE  /\ owner[u] # NoRun /\ owner[u] \in settled'
                      /\ gen[owner[u]] \in {"streaming", "ended"}
    BY DEF FinalizedInv, IsFinalized
  <2> HIDE DEF t
  <2> QED
    BY <2>1, <2>2, <2>3, <2>4 DEF FinalizedInv
<1>3. CASE EndsAutonomous(t) \/ EndsNothing(t)
  <2>1. agent'.finalized = agent.finalized /\ settled \subseteq settled'
    BY <1>3 DEF EndsAutonomous, EndsNothing, KeepsForeground
  <2> QED
    BY <2>1 DEF FinalizedInv, IsFinalized
<1> QED
  BY <1>1, <1>2, <1>3, DispatchEffect

LEMMA FinalizedFrame ==
  ASSUME Types, FinalizedInv, agent'.finalized = agent.finalized, settled \subseteq settled',
         \A t \in Turns : owner[t] # NoRun => owner'[t] = owner[t],
         \A r \in Runs : gen[r] \in {"streaming", "ended"} => gen'[r] \in {"streaming", "ended"}
  PROVE  FinalizedInv'
<1> SUFFICES ASSUME NEW t \in Turns, IsFinalized(agent', t)
             PROVE  /\ owner'[t] # NoRun /\ owner'[t] \in settled'
                    /\ gen'[owner'[t]] \in {"streaming", "ended"}
  BY DEF FinalizedInv, IsFinalized
<1>1. IsFinalized(agent, t)
  BY DEF IsFinalized
<1>2. owner[t] \in Runs
  BY <1>1, TypesParts DEF FinalizedInv, ManagerTypes
<1> QED
  BY <1>1, <1>2 DEF FinalizedInv

\* A rejected startTurn finalizes no turn.
LEMMA FailedEffect ==
  ASSUME Types, RunInv, ForegroundInv, NEW r \in Runs, StartFailed(r) \/ StartStale(r)
  PROVE  /\ agent'.fg = NoTurn /\ agent'.finalized = agent.finalized
         /\ agent'.turn \in {agent.turn, NoTurn} /\ agent'.replacing = FALSE
         /\ r = cur /\ Pending /\ cur' = NoRun /\ settled' = settled \cup {r}
         /\ run' = [run EXCEPT ![r] = CollectedRun] /\ gen' = [gen EXCEPT ![r] = "ended"]
         /\ UNCHANGED <<heard, queue, barrier, laneVars, providerVars>>
         /\ gen[r] = "starting" /\ OpenedTurns(r) = {}
<1> USE TypesParts
<1>1. r = cur /\ Pending
  BY StartingRun DEF StartFailed, StartStale
<1>2. agent.fg = NoTurn
  BY <1>1, TrackedRuns, UsedRuns DEF ForegroundInv, Streaming, Pending
<1>3. /\ agent'.fg = NoTurn /\ agent'.finalized = agent.finalized
      /\ agent'.turn \in {agent.turn, NoTurn} /\ agent'.replacing = FALSE
  <2>1. CASE StartFailed(r)
    <3> DEFINE a == [agent EXCEPT !.replacing = FALSE]
               t == IdentifiedTurn(a, [type |-> "turn_failed", turn |-> NoTurn])
               b == IF t # NoTurn /\ IsFinalized(a, t) THEN a
                    ELSE HandleTerminal(a, "turn_failed", t)
    <3>1. /\ a \in Agents /\ a.fg = NoTurn /\ a.turn = agent.turn /\ a.replacing = FALSE
          /\ a.finalized = agent.finalized
      BY <1>2 DEF ManagerTypes, Agents
    <3> HIDE DEF a
    <3>2. t \in Turns \cup {NoTurn}
      BY <3>1, IdentifiedIsTurn
    <3>3. /\ b \in Agents /\ b.fg = NoTurn /\ b.turn \in {agent.turn, NoTurn}
          /\ b.replacing = FALSE /\ b.finalized = agent.finalized
      BY <3>1, <3>2, HandleEffect DEF Terminal
    <3>4. agent' = FinalizeForegroundTurn(b, NoTurn)
      BY <2>1, Zenon DEF StartFailed, a
    <3> HIDE DEF b
    <3>5. Remember(b, NoTurn) = b.finalized
      BY DEF Remember
    <3> QED
      BY <3>3, <3>4, <3>5, FinalizeEffect
  <2>2. CASE StartStale(r)
    BY <1>2, <2>2 DEF StartStale, ManagerTypes, Agents
  <2> QED
    BY <2>1, <2>2
<1>4. cur' = NoRun /\ settled' = settled \cup {r}
  BY <1>1 DEF StartFailed, StartStale, SettleForegroundRun, ClearRun
<1>5. /\ run' = [run EXCEPT ![r] = CollectedRun] /\ gen' = [gen EXCEPT ![r] = "ended"]
      /\ UNCHANGED <<heard, queue, barrier, laneVars, providerVars>>
      /\ gen[r] = "starting" /\ OpenedTurns(r) = {}
  BY DEF StartFailed, StartStale
<1> QED
  BY <1>1, <1>3, <1>4, <1>5

LEMMA FinalizedStep ==
  ASSUME Types, Types', RunInv, ForegroundInv, TurnInv, LaneInv, FinalizedInv, Step
  PROVE  FinalizedInv'
<1> USE TypesParts
<1>1. ASSUME agent'.finalized = agent.finalized, UNCHANGED <<gen, owner>>,
             settled \subseteq settled'
      PROVE  FinalizedInv'
  BY <1>1, FinalizedFrame
<1>2. CASE Moves
  <2>1. UNCHANGED View
    BY <1>2, LaneMovesView, CallerMovesTypes DEF Moves
  <2> QED
    BY <1>1, <2>1 DEF View
<1>3. CASE RunStarts
  <2>1. NextRun \in Runs /\ gen[NextRun] = "none"
    BY <1>3, NextRunIsFresh DEF RunStarts, StreamAgent, FreshRuns, RunInv, RunFits
  <2>2. \A r \in Runs : r # NextRun => gen'[r] = gen[r]
    BY <1>3, <2>1 DEF RunStarts, StreamAgent, ManagerTypes
  <2>3. agent'.finalized = agent.finalized /\ UNCHANGED <<owner, settled>>
    BY <1>3 DEF RunStarts, StreamAgent, SendIdle, ReplaceStart, providerVars, ManagerTypes,
       Agents
  <2> QED
    BY <2>1, <2>2, <2>3, FinalizedFrame
<1>4. CASE CancelUntracked \/ InterruptAcknowledged \/ \E accepted \in BOOLEAN : SteerAnswered(accepted)
  BY <1>1, <1>4 DEF CancelUntracked, InterruptAcknowledged, SteerAnswered, managerVars,
     providerVars
<1>5. CASE CancelForcesTurn
  <2>1. TrackedTurn \in Turns \cup {NoTurn}
    BY DEF TrackedTurn, HasRun, ManagerTypes, RunObjects
  <2>2. DispatchTerminal("turn_canceled", TrackedTurn) /\ UNCHANGED <<gen, owner>>
    BY <1>5 DEF CancelForcesTurn, providerVars
  <2> QED
    BY <2>1, <2>2, DispatchFinalized DEF Terminal
<1>6. CASE CancelForcesAutonomous
  <2>1. DispatchTerminal("turn_canceled", NoTurn) /\ UNCHANGED <<gen, owner>>
    BY <1>6 DEF CancelForcesAutonomous, providerVars
  <2> QED
    BY <2>1, DispatchFinalized DEF Terminal
<1>7. CASE CancelForcesPending
  BY <1>1, <1>7 DEF CancelForcesPending, SettleForegroundRun, ClearRun, KeepRun,
     providerVars, ManagerTypes, Agents
<1>8. ASSUME NEW r \in Runs, GeneratorStep(r)
      PROVE  FinalizedInv'
  <2>1. UNCHANGED owner
    BY <1>8 DEF GeneratorStep, CallStartTurn, StartResolved, StartCanceled, StartFailed,
       StartStale, StreamEnds, providerVars
  <2>2. ASSUME agent'.finalized = agent.finalized, settled \subseteq settled',
               NEW g \in {"starting", "streaming", "ended"}, gen' = [gen EXCEPT ![r] = g],
               g = "starting" => gen[r] = "checkpoint"
        PROVE  FinalizedInv'
    <3>1. \A s \in Runs : gen[s] \in {"streaming", "ended"} => gen'[s] \in {"streaming", "ended"}
      BY <2>2 DEF ManagerTypes
    <3> QED
      BY <2>1, <2>2, <3>1, FinalizedFrame
  <2>3. CASE CallStartTurn(r)
    BY <2>2, <2>3 DEF CallStartTurn
  <2>4. CASE StartResolved(r)
    <3>1. agent'.finalized = agent.finalized /\ settled' = settled
      BY <2>4, ResolvedRuns
    <3>2. gen' = [gen EXCEPT ![r] = "streaming"]
      BY <2>4 DEF StartResolved
    <3> QED
      BY <2>2, <3>1, <3>2
  <2>5. CASE StartCanceled(r)
    BY <2>2, <2>5 DEF StartCanceled
  <2>6. CASE StartFailed(r) \/ StartStale(r)
    BY <2>2, <2>6, FailedEffect
  <2>7. CASE StreamEnds(r)
    BY <2>2, <2>7 DEF StreamEnds, SettleForegroundRun, ClearRun, KeepRun
  <2> QED
    BY <1>8, <2>3, <2>4, <2>5, <2>6, <2>7 DEF GeneratorStep
<1>9. CASE QueueStep
  <2>1. UNCHANGED <<gen, owner>> /\ queue # <<>>
    BY <1>9 DEF QueueStep, ProcessTerminal, ProcessStartedSuppressed, ProcessStarted,
       providerVars
  <2>2. Head(queue).turn \in Turns \cup {NoTurn} /\ Head(queue) \in Event
    BY <2>1, HeadOfQueue DEF Event
  <2>3. CASE ProcessTerminal
    BY <2>1, <2>2, <2>3, DispatchFinalized DEF ProcessTerminal
  <2>4. CASE ProcessStartedSuppressed \/ ProcessStarted
    BY <1>1, <2>1, <2>4 DEF ProcessStartedSuppressed, ProcessStarted, ManagerTypes, Agents
  <2> QED
    BY <1>9, <2>3, <2>4 DEF QueueStep
<1>10. CASE ProviderStep
  <2>1. CASE \E r \in Runs : ProviderOpens(r)
    <3>1. NextTurn \in Turns /\ owner[NextTurn] = NoRun
      BY <2>1, NextTurnIsFresh DEF ProviderOpens, FreshTurns, TurnInv
    <3>2. \A t \in Turns : owner[t] # NoRun => owner'[t] = owner[t]
      BY <2>1, <3>1 DEF ProviderOpens, ProviderTypes
    <3>3. UNCHANGED <<agent, settled, gen>>
      BY <2>1 DEF ProviderOpens, managerVars
    <3> QED
      BY <3>2, <3>3, FinalizedFrame
  <2>2. CASE ~\E r \in Runs : ProviderOpens(r)
    BY <1>1, <1>10, <2>2 DEF ProviderStep, ProviderAnnounces, ProviderWakes, ProviderEnds,
       ProviderDies
  <2> QED
    BY <2>1, <2>2
<1> QED
  BY <1>2, <1>3, <1>4, <1>5, <1>6, <1>7, <1>8, <1>9, <1>10, StepKinds

\* What is needed of a step for the end of the tracked run's turn to stay on
\* its way.
LEMMA EndFrame ==
  ASSUME Types, EndInv, cur' = cur, HasRun, run'[cur].kind = run[cur].kind,
         run'[cur].start = run[cur].start, run'[cur].turn = run[cur].turn,
         run[cur].turn \in Turns \cup {NoTurn}, run[cur].turn \in Turns \/ ~Streaming,
         \A t \in Turns : prov'[t] = "over" => prov[t] = "over", owner' = owner,
         \A t \in Turns : /\ Streaming => (Ends(queue, t) => Ends(queue', t))
                          /\ Pending => (Ends(run[cur].staged, t) => Ends(run'[cur].staged, t))
                          /\ Ends(barrier.events, t) => Ends(barrier'.events, t)
  PROVE  EndInv'
BY DEF EndInv, Streaming, Pending, HasRun, InForeground, OpenedTurns

LEMMA NoRunNoEnd == ASSUME cur' = NoRun PROVE EndInv'
BY DEF EndInv, Streaming, Pending, HasRun

\* An event in the tail that ends the foreground turn ends the tracked run.
LEMMA DispatchEnds ==
  ASSUME Types, RunInv, ForegroundInv, FinalizedInv,
         NEW type \in Terminal, NEW turn \in Turns \cup {NoTurn}, DispatchTerminal(type, turn)
  PROVE  \/ cur' = NoRun
         \/ cur' = cur /\ (turn \in Turns => agent.fg # turn)
<1> DEFINE t == Identified(type, turn)
<1>1. CASE Duplicate(t)
  <2>1. agent.fg # t
    <3> SUFFICES ASSUME agent.fg = t
                 PROVE  FALSE
      OBVIOUS
    <3>1. Streaming /\ run[cur].turn = t /\ t # NoTurn
      BY <1>1 DEF Duplicate, ForegroundInv
    <3>2. cur \in Runs /\ owner[t] = cur /\ t \in Turns
      BY <3>1, TrackedRuns, UsedRuns DEF Streaming, InForeground
    <3>3. owner[t] \in settled
      BY <1>1, <3>2 DEF Duplicate, FinalizedInv
    <3> QED
      BY <3>1, <3>2, <3>3, TrackedRuns DEF Streaming
  <2>2. turn \in Turns => t = turn
    BY IdsArePositive DEF Identified, IdentifiedTurn
  <2> QED
    BY <1>1, <2>1, <2>2 DEF Duplicate
<1>2. CASE EndsForeground(t) \/ EndsAutonomous(t)
  BY <1>2 DEF EndsForeground, EndsAutonomous
<1>3. CASE EndsNothing(t)
  <2>1. turn \in Turns => t = turn /\ t # NoTurn
    BY IdsArePositive DEF Identified, IdentifiedTurn
  <2> QED
    BY <1>3, <2>1 DEF EndsNothing, KeepsForeground
<1> QED
  BY <1>1, <1>2, <1>3, DispatchEffect

LEMMA EndStep ==
  ASSUME Types, Types', RunInv, RunInv', ForegroundInv, TurnInv, LaneInv, EventInv,
         FinalizedInv, EndInv, Step
  PROVE  EndInv'
<1> USE TypesParts
<1>1. ASSUME UNCHANGED <<run, cur, owner, barrier.events>>,
             \A t \in Turns : prov'[t] = "over" => prov[t] = "over",
             Streaming => \A t \in Turns : Ends(queue, t) => Ends(queue', t)
      PROVE  EndInv'
  <2>1. CASE HasRun
    <3>1. run[cur].turn \in Turns \cup {NoTurn} /\ (run[cur].turn \in Turns \/ ~Streaming)
      BY <2>1, TrackedRuns, UsedRuns DEF RunObjects, Streaming, InForeground
    <3> QED
      BY <1>1, <2>1, <3>1, EndFrame
  <2>2. CASE ~HasRun
    BY <1>1, <2>2, NoRunNoEnd DEF HasRun
  <2> QED
    BY <2>1, <2>2
<1>2. CASE Moves
  <2>1. UNCHANGED View
    BY <1>2, LaneMovesView, CallerMovesTypes DEF Moves
  <2> QED
    BY <1>1, <2>1 DEF View
<1>3. CASE RunStarts
  <2>1. NextRun \in Runs /\ gen[NextRun] = "none" /\ cur' = NextRun
    BY <1>3, NextRunIsFresh DEF RunStarts, StreamAgent, FreshRuns, RunInv, RunFits
  <2>2. [UnusedRun EXCEPT !.kind = "foreground", !.replacement = agent.replacing].start = "pending"
    BY DEF UnusedRun
  <2>3. run'[NextRun].start = "pending"
    BY <1>3, <2>1, <2>2 DEF RunStarts, StreamAgent, ManagerTypes
  <2>4. owner' = owner
    BY <1>3 DEF RunStarts, SendIdle, ReplaceStart, providerVars
  <2>5. \A t \in Turns : owner'[t] # NextRun
    BY <2>1, <2>4, IdsArePositive DEF TurnInv
  <2> QED
    BY <2>1, <2>3, <2>5 DEF EndInv, Streaming, Pending, OpenedTurns
<1>4. ASSUME ~InForeground(cur)'
      PROVE  EndInv'
  BY <1>4 DEF EndInv, Streaming, Pending
<1>5. CASE CancelUntracked
  <2>1. NextRun \in Runs /\ cur' = NextRun
    BY <1>5, NextRunIsFresh DEF CancelUntracked, FreshRuns
  <2>2. [UnusedRun EXCEPT !.kind = "autonomous"].kind = "autonomous"
    BY DEF UnusedRun
  <2>3. run'[cur'].kind = "autonomous"
    BY <1>5, <2>1, <2>2 DEF CancelUntracked, ManagerTypes
  <2> QED
    BY <1>4, <2>3 DEF InForeground
<1>6. CASE InterruptAcknowledged
  BY <1>1, <1>6 DEF InterruptAcknowledged, managerVars
<1>7. CASE CancelForcesTurn \/ CancelForcesAutonomous
  <2>1. TrackedTurn \in Turns \cup {NoTurn}
    BY DEF TrackedTurn, HasRun, ManagerTypes, RunObjects
  <2>2. \E turn \in Turns \cup {NoTurn} : DispatchTerminal("turn_canceled", turn)
    BY <1>7, <2>1 DEF CancelForcesTurn, CancelForcesAutonomous
  <2>3. cur' = cur \/ cur' = NoRun
    BY <2>2, DispatchEnds DEF Terminal
  <2>4. UNCHANGED <<run, owner, barrier, prov, queue>>
    BY <1>7 DEF CancelForcesTurn, CancelForcesAutonomous, providerVars
  <2> QED
    BY <1>1, <2>3, <2>4, NoRunNoEnd
<1>8. CASE CancelForcesPending
  BY <1>1, <1>8, NoRunNoEnd DEF CancelForcesPending, SettleForegroundRun, ClearRun, KeepRun,
     providerVars
<1>9. ASSUME NEW accepted, SteerAnswered(accepted)
      PROVE  EndInv'
  <2>1. UNCHANGED <<prov, owner, cur>>
    BY <1>9 DEF SteerAnswered, providerVars
  <2>2. StagingOnly
    BY <1>9, AnsweredRuns
  <2>3. CASE Pending
    <3>1. cur \in Runs /\ run[cur].staged \in Seq(Event) /\ barrier.events \in Seq(Event)
      BY <2>3, TrackedRuns, EventLists DEF Pending
    <3>2. run'[cur].staged = run[cur].staged \o barrier.events
      BY <1>9, <2>3, AnsweredEffect
    <3>3. \A t : Ends(run'[cur].staged, t) <=> Ends(run[cur].staged, t) \/ Ends(barrier.events, t)
      BY <3>1, <3>2, ConcatEvents
    <3>4. ~Streaming'
      BY <2>1, <2>2, <2>3, <3>1 DEF StagingOnly, Pending, Streaming
    <3> QED
      BY <2>1, <2>3, <3>3, <3>4 DEF EndInv, OpenedTurns
  <2>4. CASE ~Pending
    <3>1. run' = run /\ queue' = queue \o barrier.events
      BY <1>9, <2>4, AnsweredEffect
    <3>2. \A t : Ends(queue', t) <=> Ends(queue, t) \/ Ends(barrier.events, t)
      BY <3>1, EventLists, ConcatEvents
    <3>3. ~Pending' /\ (Streaming' <=> Streaming)
      BY <2>1, <2>4, <3>1 DEF Pending, Streaming, HasRun, InForeground
    <3> QED
      BY <2>1, <3>1, <3>2, <3>3 DEF EndInv
  <2> QED
    BY <2>3, <2>4
<1>10. ASSUME NEW r \in Runs, GeneratorStep(r)
       PROVE  EndInv'
  <2>1. UNCHANGED <<owner, prov>>
    BY <1>10 DEF GeneratorStep, CallStartTurn, StartResolved, StartCanceled, StartFailed,
       StartStale, StreamEnds, providerVars
  <2>2. CASE CallStartTurn(r)
    BY <1>1, <2>1, <2>2 DEF CallStartTurn
  <2>3. CASE StartResolved(r)
    <3> PICK t \in OpenedTurns(r), staged \in Seq(Event) :
           /\ staged = Without(run[r].staged, [type |-> "turn_started", turn |-> t])
           /\ run'[r].turn = t
           /\ \/ /\ barrier.held /\ barrier'.events = barrier.events \o staged
                 /\ queue' = queue
              \/ /\ ~barrier.held /\ queue' = queue \o staged
                 /\ barrier' = barrier
      BY <2>3, ResolvedEvents
    <3>1. r = cur /\ Pending
      BY <2>3, StartingRun DEF StartResolved
    <3>2. cur' = cur /\ run'[r].start = "started"
      BY <2>3, ResolvedRuns
    <3>3. Ends(staged, t) <=> Ends(run[r].staged, t)
      BY EventLists, WithoutEvents DEF OpenedTurns
    <3>4. /\ Ends(queue \o staged, t) <=> Ends(queue, t) \/ Ends(staged, t)
          /\ Ends(barrier.events \o staged, t) <=> Ends(barrier.events, t) \/ Ends(staged, t)
      BY EventLists, ConcatEvents
    <3>5. prov[t] = "over" => Ends(run[cur].staged, t) \/ Ends(barrier.events, t)
      BY <3>1 DEF EndInv
    <3>6. prov[t] = "over" => Ends(queue', t) \/ Ends(barrier'.events, t)
      BY <3>1, <3>3, <3>4, <3>5
    <3> QED
      BY <2>1, <3>1, <3>2, <3>6 DEF EndInv, Pending
  <2>4. CASE StartCanceled(r) \/ StreamEnds(r)
    <3>1. r \in settled /\ run' = [run EXCEPT ![r] = CollectedRun] /\ UNCHANGED <<queue, barrier>>
      BY <2>4 DEF StartCanceled, StreamEnds, RunInv
    <3>2. CASE HasRun
      <4>1. r # cur /\ cur \in Runs
        BY <3>1, <3>2, TrackedRuns
      <4>2. cur' = cur
        BY <2>4, <4>1 DEF StartCanceled, StreamEnds, SettleForegroundRun, KeepRun
      <4>3. run'[cur] = run[cur]
        BY <3>1, <4>1 DEF ManagerTypes
      <4>4. run[cur].turn \in Turns \cup {NoTurn} /\ (run[cur].turn \in Turns \/ ~Streaming)
        BY <3>2, TrackedRuns, UsedRuns DEF RunObjects, Streaming, InForeground
      <4> QED
        BY <2>1, <3>1, <3>2, <4>2, <4>3, <4>4, EndFrame
    <3>3. CASE ~HasRun
      <4>1. cur' = NoRun
        BY <2>4, <3>3 DEF StartCanceled, StreamEnds, SettleForegroundRun, KeepRun, ClearRun,
           HasRun
      <4> QED
        BY <4>1, NoRunNoEnd
    <3> QED
      BY <3>2, <3>3
  <2>5. CASE StartFailed(r) \/ StartStale(r)
    BY <2>5, FailedEffect, NoRunNoEnd
  <2> QED
    BY <1>10, <2>2, <2>3, <2>4, <2>5 DEF GeneratorStep
<1>11. CASE QueueStep
  <2>1. UNCHANGED <<owner, prov, barrier>> /\ queue # <<>> /\ queue' = Tail(queue)
    BY <1>11 DEF QueueStep, ProcessTerminal, ProcessStartedSuppressed, ProcessStarted,
       providerVars
  <2>2. Head(queue).turn \in Turns \cup {NoTurn} /\ Head(queue) \in Event
    BY <2>1, HeadOfQueue DEF Event
  <2>3. \A t : Ends(queue, t) => IsEnd(Head(queue), t) \/ Ends(queue', t)
    BY <2>1, EventLists, TailEvents
  <2>4. CASE ProcessTerminal
    <3>1. \/ cur' = NoRun
          \/ cur' = cur /\ (Head(queue).turn \in Turns => agent.fg # Head(queue).turn)
      BY <2>2, <2>4, DispatchEnds DEF ProcessTerminal
    <3>2. CASE cur' = cur /\ (Head(queue).turn \in Turns => agent.fg # Head(queue).turn)
      <4>1. run' = run
        BY <2>4 DEF ProcessTerminal
      <4>2. Streaming => run[cur].turn = agent.fg /\ run[cur].turn \in Turns
        BY TrackedRuns, UsedRuns DEF ForegroundInv, Streaming, InForeground
      <4>3. Streaming => (Ends(queue, run[cur].turn) => Ends(queue', run[cur].turn))
        BY <2>3, <3>2, <4>2 DEF IsEnd
      <4> QED
        BY <2>1, <3>2, <4>1, <4>3 DEF EndInv, Streaming, Pending, HasRun, InForeground,
           OpenedTurns
    <3> QED
      BY <3>1, <3>2, NoRunNoEnd
  <2>5. CASE ProcessStartedSuppressed
    <3>1. \A t : ~IsEnd(Head(queue), t)
      BY <2>5 DEF ProcessStartedSuppressed, IsEnd, Terminal
    <3> QED
      BY <1>1, <2>1, <2>3, <2>5, <3>1 DEF ProcessStartedSuppressed
  <2>6. CASE ProcessStarted
    <3>1. CASE HasRun
      <4>1. ~Streaming
        BY <2>6 DEF ProcessStarted, ForegroundInv
      <4> QED
        BY <1>1, <2>1, <2>6, <3>1, <4>1 DEF ProcessStarted
    <3>2. CASE ~HasRun
      <4> DEFINE new == [UnusedRun EXCEPT !.kind = "autonomous", !.turn = Head(queue).turn]
      <4>1. NextRun \in Runs /\ cur' = NextRun /\ run' = [run EXCEPT ![NextRun] = new]
        BY <2>6, <3>2, NextRunIsFresh DEF ProcessStarted, FreshRuns
      <4>2. new.kind = "autonomous"
        BY DEF UnusedRun
      <4> HIDE DEF new
      <4>3. run'[cur'].kind = "autonomous"
        BY <4>1, <4>2 DEF ManagerTypes
      <4> QED
        BY <1>4, <4>3 DEF InForeground
    <3> QED
      BY <3>1, <3>2
  <2> QED
    BY <1>11, <2>4, <2>5, <2>6 DEF QueueStep
<1>12. CASE ProviderStep
  <2>1. ASSUME NEW es \in Seq(Event), Enqueue(es), UNCHANGED <<cur, owner>>,
               \A t \in Turns : prov'[t] = "over" => prov[t] = "over" \/ Ends(es, t)
        PROVE  EndInv'
    <3>1. CASE ~HasRun
      BY <2>1, <3>1, NoRunNoEnd DEF HasRun
    <3>2. CASE HasRun
      <4>1. StagingOnly /\ cur \in Runs
        BY <2>1, <3>2, EnqueueRuns, TrackedRuns
      <4>2. /\ Pending' <=> Pending
            /\ Streaming' <=> Streaming
            /\ run'[cur].turn = run[cur].turn
        BY <2>1, <4>1 DEF StagingOnly, Pending, Streaming, HasRun, InForeground
      <4>3. \A t : /\ Ends(queue \o es, t) <=> Ends(queue, t) \/ Ends(es, t)
                   /\ Ends(barrier.events \o es, t) <=> Ends(barrier.events, t) \/ Ends(es, t)
                   /\ Ends(run[cur].staged \o es, t) <=> Ends(run[cur].staged, t) \/ Ends(es, t)
        BY <4>1, EventLists, ConcatEvents
      <4>4. \A t : \/ Pending /\ ((Ends(run[cur].staged, t) \/ Ends(barrier.events, t) \/ Ends(es, t))
                                   => (Ends(run'[cur].staged, t) \/ Ends(barrier'.events, t)))
                   \/ ~Pending /\ ((Ends(queue, t) \/ Ends(barrier.events, t) \/ Ends(es, t))
                                   => (Ends(queue', t) \/ Ends(barrier'.events, t)))
        BY <2>1, <4>3, EnqueueEffect
      <4>5. Pending => ~Streaming
        BY DEF Pending, Streaming
      <4>6. Streaming => run[cur].turn \in Turns
        BY <4>1, UsedRuns DEF Streaming, InForeground
      <4>7. Streaming' /\ prov'[run[cur].turn] = "over" =>
              Ends(queue', run[cur].turn) \/ Ends(barrier'.events, run[cur].turn)
        BY <2>1, <4>2, <4>4, <4>5, <4>6 DEF EndInv
      <4>8. Pending' => \A t \in OpenedTurns(cur) : prov'[t] = "over" =>
              Ends(run'[cur].staged, t) \/ Ends(barrier'.events, t)
        BY <2>1, <4>2, <4>4 DEF EndInv, OpenedTurns
      <4> QED
        BY <2>1, <4>2, <4>7, <4>8 DEF EndInv, OpenedTurns
    <3> QED
      BY <3>1, <3>2
  <2>2. ASSUME NEW r \in Runs, ProviderOpens(r)
        PROVE  EndInv'
    <3>1. NextTurn \in Turns /\ prov[NextTurn] = "unused" /\ owner[NextTurn] = NoRun
      BY <2>2, NextTurnIsFresh DEF ProviderOpens, FreshTurns, TurnInv
    <3>2. /\ \A t \in Turns : prov'[t] = "over" => prov[t] = "over" /\ t # NextTurn
          /\ \A t \in Turns : t # NextTurn => owner'[t] = owner[t]
      BY <2>2, <3>1 DEF ProviderOpens, ProviderTypes
    <3>3. UNCHANGED <<run, cur, queue, barrier>>
      BY <2>2 DEF ProviderOpens, managerVars
    <3>4. Streaming => run[cur].turn \in Turns
      BY TrackedRuns, UsedRuns DEF Streaming, InForeground
    <3> QED
      BY <3>2, <3>3, <3>4 DEF EndInv, Streaming, Pending, HasRun, InForeground, OpenedTurns
  <2>3. ASSUME NEW t \in Turns, ProviderAnnounces(t)
        PROVE  EndInv'
    BY <2>1, <2>3, EventTypes DEF ProviderAnnounces
  <2>4. CASE ProviderWakes
    <3>1. NextTurn \in Turns
      BY <2>4, NextTurnIsFresh DEF ProviderWakes, FreshTurns
    <3>2. \A t \in Turns : prov'[t] = "over" => prov[t] = "over"
      BY <2>4, <3>1 DEF ProviderWakes, ProviderTypes
    <3> QED
      BY <2>1, <2>4, <3>1, <3>2, EventTypes DEF ProviderWakes
  <2>5. ASSUME NEW t \in Turns, NEW type \in Endings, ProviderEnds(t, type)
        PROVE  EndInv'
    <3> DEFINE es == <<[type |-> type, turn |-> t]>>
    <3>1. type \in Terminal
      BY BoundsAssumption DEF Terminal
    <3>2. Enqueue(es) /\ UNCHANGED <<cur, owner>> /\ prov' = [prov EXCEPT ![t] = "over"]
      BY <2>5 DEF ProviderEnds
    <3>3. es \in Seq(Event) /\ Ends(es, t)
      BY <3>1, EventTypes, OneEvent
    <3>4. \A u \in Turns : prov'[u] = "over" => prov[u] = "over" \/ Ends(es, u)
      BY <3>2, <3>3 DEF ProviderTypes
    <3> HIDE DEF es
    <3> QED
      BY <2>1, <3>2, <3>3, <3>4
  <2>6. CASE ProviderDies
    BY <2>1, <2>6, EventTypes DEF ProviderDies, Terminal
  <2> QED
    BY <1>12, <2>2, <2>3, <2>4, <2>5, <2>6 DEF ProviderStep
<1> QED
  BY <1>2, <1>3, <1>5, <1>6, <1>7, <1>8, <1>9, <1>10, <1>11, <1>12, StepKinds

-------------------------------------------------------------------------------
(* The structure is an invariant, for every value of the constants.           *)

LEMMA StructureInit == Init => Structure
<1> SUFFICES ASSUME Init
             PROVE  Structure
  OBVIOUS
<1> USE DEF Init
<1>1. Types
  <2>1. /\ <<>> \in Seq(Turns) /\ <<>> \in Seq(Event) /\ <<>> \in Lanes
    BY DEF Lanes
  <2>2. agent \in Agents
    BY <2>1 DEF Agents
  <2>3. run \in [Runs -> RunObjects] /\ \A r \in Runs : run[r].start # "failed"
    BY RecordTypes
  <2>4. barrier \in [held : BOOLEAN, events : Seq(Event)] /\ op \in Ops
    BY <2>1 DEF NoBarrier, NoOp, Ops
  <2>5. anonymous \in 0..MaxAnonymous
    BY BoundsAssumption
  <2> QED
    BY <2>1, <2>2, <2>3, <2>4, <2>5, TypesParts DEF ManagerTypes, LaneTypes, ProviderTypes,
       Waits
<1>2. RunInv
  BY IdsArePositive, RecordTypes DEF RunInv, RunFits, HasRun
<1>3. ForegroundInv
  BY DEF ForegroundInv, Streaming, HasRun
<1>4. TurnInv
  BY DEF TurnInv
<1>5. EventInv
  <2>1. Reported(prov, announced, <<>>)
    BY NoEvents DEF Reported
  <2>2. \A r \in Runs : run[r].staged = <<>>
    BY DEF UnusedRun
  <2> QED
    BY <2>1, <2>2 DEF EventInv, NoBarrier
<1>6. FinalizedInv
  BY DEF FinalizedInv, IsFinalized
<1>7. EndInv
  BY DEF EndInv, Streaming, Pending, HasRun
<1>8. LaneInv
  BY DEF LaneInv, WaitersInv, OpInv, BarrierInv, NoOp, NoBarrier
<1> QED
  BY <1>1, <1>2, <1>3, <1>4, <1>5, <1>6, <1>7, <1>8 DEF Structure

LEMMA StructureStep == Structure /\ [Step]_vars => Structure'
<1> SUFFICES ASSUME Structure, [Step]_vars
             PROVE  Structure'
  OBVIOUS
<1>1. CASE Step
  <2>1. Types'
    BY <1>1, TypesStep DEF Structure
  <2>2. TurnInv'
    BY <1>1, <2>1, TurnStep DEF Structure
  <2>3. RunInv' /\ ForegroundInv'
    BY <1>1, <2>1, RunStep DEF Structure
  <2>4. LaneInv'
    BY <1>1, <2>1, LaneStepInv DEF Structure
  <2>5. EventInv'
    BY <1>1, <2>1, EventStep DEF Structure
  <2>6. FinalizedInv'
    BY <1>1, <2>1, FinalizedStep DEF Structure
  <2>7. EndInv'
    BY <1>1, <2>1, <2>3, EndStep DEF Structure
  <2> QED
    BY <2>1, <2>2, <2>3, <2>4, <2>5, <2>6, <2>7 DEF Structure
<1>2. CASE UNCHANGED vars
  <2>1. Types' /\ RunInv'
    BY <1>2 DEF vars, managerVars, laneVars, providerVars, Structure, Types, StateTypes, RunInv,
       RunFits, HasRun
  <2>2. ForegroundInv' /\ TurnInv' /\ EventInv' /\ FinalizedInv'
    BY <1>2 DEF vars, managerVars, laneVars, providerVars, Structure, ForegroundInv, TurnInv,
       EventInv, FinalizedInv, IsFinalized, Streaming, HasRun, InForeground
  <2>3. EndInv' /\ LaneInv'
    BY <1>2 DEF vars, managerVars, laneVars, providerVars, Structure, EndInv, LaneInv,
       WaitersInv, OpInv, BarrierInv, Mutation, Streaming, Pending, HasRun, InForeground,
       OpenedTurns
  <2> QED
    BY <2>1, <2>2, <2>3 DEF Structure
<1> QED
  BY <1>1, <1>2

LEMMA StepOrStutter == [Next]_<<vars, histories>> => [Step]_vars
BY DEF Next

\* The run map, the generators, the active turn, the lane and the provider's
\* events always fit together.
THEOREM Structured == Spec => []Structure
<1>1. Init => Structure
  BY StructureInit
<1>2. Structure /\ [Next]_<<vars, histories>> => Structure'
  BY StructureStep, StepOrStutter
<1> QED
  BY <1>1, <1>2, PTL DEF Spec

\* Every variable keeps its type.
THEOREM TypeCorrect == Spec => []TypeOK
<1> DEFINE Histories == {uncovered, mistaken} \subseteq SUBSET Runs
<1>1. Init => Histories
  BY DEF Init
<1>2. Structure' /\ Histories /\ [Next]_<<vars, histories>> => Histories'
  BY DEF Structure, Types, StateTypes, histories, Record, Next
<1>3. Structure /\ Histories => TypeOK
  BY DEF Structure, Types, StateTypes, TypeOK
<1> QED
  BY <1>1, <1>2, <1>3, Structured, PTL DEF Spec

\* The active foreground turn is always that of the tracked run: no order of
\* late events, forced cancellations and replacements pulls them apart.
THEOREM ActiveTurnHasRunAlways == Spec => []ActiveTurnHasRun
<1>1. Structure => ActiveTurnHasRun
  BY DEF Structure, ForegroundInv, Streaming, ActiveTurnHasRun
<1> QED
  BY <1>1, Structured, PTL

\* The run a cancellation captured is the tracked run until it is settled.
THEOREM CapturedRunStaysTracked == Spec => []CapturedRunIsTracked
<1>1. Structure => CapturedRunIsTracked
  <2> SUFFICES ASSUME Structure, op.run # NoRun, op.run \notin settled
               PROVE  cur = op.run
    BY DEF CapturedRunIsTracked
  <2>1. op.phase \in {"interrupting", "settling", "forced"}
    <3>1. op \in Ops
      BY TypesParts DEF Structure, LaneTypes
    <3>2. op.phase \in {"none", "interrupting", "settling", "forced", "draining",
                        "admitting", "closing"}
      BY <3>1 DEF Ops
    <3> QED
      BY <3>2 DEF Structure, LaneInv, OpInv, NoOp
  <2> QED
    BY <2>1, CapturedRun DEF Structure
<1> QED
  BY <1>1, Structured, PTL

\* The end of a turn that a stream waits for is in the event tail or behind the
\* steer barrier until it is processed.
THEOREM EndAlwaysOnTheWay == Spec => []EndIsOnTheWay
<1>1. Structure => EndIsOnTheWay
  <2> SUFFICES ASSUME Structure, NEW r \in Runs, gen[r] = "streaming",
                      prov[run[r].turn] = "over", r \notin settled
               PROVE  \E es \in {queue, barrier.events} :
                        \E i \in DOMAIN es : es[i].turn = run[r].turn /\ es[i].type \in Terminal
    BY DEF EndIsOnTheWay
  <2>1. r = cur /\ Streaming
    BY UsedRuns, IdsArePositive DEF Structure, Streaming, HasRun, InForeground
  <2>2. Ends(queue, run[r].turn) \/ Ends(barrier.events, run[r].turn)
    BY <2>1 DEF Structure, EndInv
  <2> QED
    BY <2>2 DEF Ends, IsEnd
<1> QED
  BY <1>1, Structured, PTL

-------------------------------------------------------------------------------
(* Replacements.                                                              *)

Waiting == \E c \in Callers : Replacing(c)
Replaced == HasRun /\ run[cur].replacement /\ run[cur].start = "pending"

\* A client that waits to replace still waits after a step, unless it is
\* refused or starts its run.
LEMMA StillReplacing ==
  ASSUME Types, NEW c \in Callers, Replacing(c),
         \/ pc' = pc
         \/ \E d \in Callers : \E step : d # c /\ pc' = [pc EXCEPT ![d] = step]
         \/ \E d \in Callers, step \in {"replacing", "proceed", "refused"} :
              pc' = [pc EXCEPT ![d] = step]
  PROVE  Waiting'
BY TypesParts DEF LaneTypes, Replacing, Waiting

LEMMA LeavingReplaces ==
  ASSUME Types, LaneInv, lane # <<>>, Waiting,
         \/ LeaveLane(AfterCancel(Mutation.caller))
         \/ LeaveLane(AfterRefusal(Mutation.caller))
         \/ Mutation.kind = "steer" /\ \E step : LeaveLane(step)
  PROVE  Waiting'
<1> USE TypesParts
<1> PICK c \in Callers : Replacing(c)
  BY DEF Waiting
<1>1. Mutation.caller \in Callers
  BY HeadOfLane DEF Entries
<1>2. \E step : pc' = [pc EXCEPT ![Mutation.caller] = step]
  BY DEF LeaveLane
<1>3. CASE c # Mutation.caller
  BY <1>1, <1>2, <1>3, StillReplacing
<1>4. CASE c = Mutation.caller
  <2>1. Mutation = lane[1] /\ 1 \in DOMAIN lane
    BY DEF Mutation, LaneTypes, Lanes
  <2>2. Mutation.kind = "steer" => pc[c] = "steering"
    BY <1>4, <2>1 DEF LaneInv, WaitersInv
  <2>3. Mutation.kind = "cancel" => pc[c] = "replacing"
    BY <1>4, <2>1 DEF LaneInv, WaitersInv, Replacing
  <2>4. Mutation.kind \in {"cancel", "steer"}
    BY HeadOfLane DEF Entries
  <2>5. pc[c] = "replacing"
    BY <2>2, <2>3, <2>4 DEF Replacing
  <2>6. ~(Mutation.kind = "steer")
    BY <2>2, <2>5
  <2>7. AfterCancel(c) = "proceed" /\ AfterRefusal(c) = "refused"
    BY <2>5 DEF AfterCancel, AfterRefusal
  <2>8. \E step \in {"proceed", "refused"} : pc' = [pc EXCEPT ![c] = step]
    BY <1>4, <2>6, <2>7 DEF LeaveLane
  <2> QED
    BY <2>8, StillReplacing
<1> QED
  BY <1>3, <1>4

LEMMA DispatchReplaced ==
  ASSUME Types, RunInv, ForegroundInv, Replaced, run' = run,
         NEW type \in Terminal, NEW turn \in Turns \cup {NoTurn}, DispatchTerminal(type, turn)
  PROVE  Replaced'
<1> DEFINE t == Identified(type, turn)
<1>1. Pending /\ InForeground(cur)
  BY TrackedRuns DEF Replaced, RunInv, RunFits, InForeground, Pending
<1>2. ~EndsForeground(t) /\ ~EndsAutonomous(t)
  BY <1>1 DEF EndsForeground, EndsAutonomous, Streaming, Pending
<1>3. cur' = cur
  BY <1>2, DispatchEffect DEF Duplicate, EndsNothing
<1> QED
  BY <1>3 DEF Replaced, HasRun

LEMMA DispatchReplacing ==
  ASSUME Types, RunInv, ForegroundInv,
         NEW type \in Terminal, NEW turn \in Turns \cup {NoTurn}, DispatchTerminal(type, turn)
  PROVE  agent'.replacing = agent.replacing
BY DispatchEffect DEF Duplicate, Handled

LEMMA ReplacementStep ==
  ASSUME Structure, Step, ReplacementIsOwned
  PROVE  ReplacementIsOwned' \/ CancelForcesPending
<1> USE TypesParts DEF Structure
<1> SUFFICES ASSUME agent'.replacing, ~CancelForcesPending
             PROVE  Waiting' \/ Replaced'
  BY DEF ReplacementIsOwned, Waiting, Replaced
<1>1. agent.replacing => Waiting \/ Replaced
  BY DEF ReplacementIsOwned, Waiting, Replaced
<1>2. ASSUME NEW c \in Callers, CallerMoves(c)
      PROVE  Waiting' \/ Replaced'
  <2>1. run' = run /\ cur' = cur
    BY <1>2 DEF CallerMoves, SendBusy, Stop, Steer, ReplaceRefused, ReplaceOvertaken,
       SteerReplaces, SteerOvertaken, BeginReplacement, managerVars
  <2>2. Replaced => Replaced'
    BY <2>1 DEF Replaced, HasRun
  <2>3. CASE SendBusy(c) \/ SteerReplaces(c)
    <3>1. pc' = [pc EXCEPT ![c] = "replacing"]
      BY <2>3 DEF SendBusy, SteerReplaces, BeginReplacement
    <3> QED
      BY <3>1 DEF LaneTypes, Waiting, Replacing
  <2>4. CASE Stop(c) \/ Steer(c) \/ SteerOvertaken(c)
    <3>1. /\ agent' = agent /\ pc[c] \in {"idle", "declined"}
          /\ \E step : pc' = [pc EXCEPT ![c] = step]
      BY <2>4 DEF Stop, Steer, SteerOvertaken, managerVars
    <3>2. Waiting => Waiting'
      <4> SUFFICES ASSUME NEW d \in Callers, Replacing(d)
                   PROVE  Waiting'
        BY DEF Waiting
      <4>1. d # c
        BY <3>1 DEF Replacing
      <4> QED
        BY <3>1, <4>1, StillReplacing
    <3> QED
      BY <1>1, <2>2, <3>1, <3>2
  <2>5. CASE ReplaceRefused(c) \/ ReplaceOvertaken(c)
    BY <2>5 DEF ReplaceRefused, ReplaceOvertaken, ManagerTypes, Agents
  <2> QED
    BY <1>2, <2>3, <2>4, <2>5 DEF CallerMoves
<1>3. CASE \/ CancelNothing \/ CancelSettled \/ CancelRefused \/ CancelForcedDone
           \/ SteerRejected \/ SteerDone
  <2>1. UNCHANGED <<agent, run, cur>> /\ lane # <<>>
    BY <1>3 DEF CancelNothing, CancelSettled, CancelRefused, CancelForcedDone, SteerRejected,
       SteerDone, AtHead, managerVars
  <2>2. \/ LeaveLane(AfterCancel(Mutation.caller))
        \/ LeaveLane(AfterRefusal(Mutation.caller))
        \/ Mutation.kind = "steer" /\ \E step : LeaveLane(step)
    BY <1>3 DEF CancelNothing, CancelSettled, CancelRefused, CancelForcedDone, SteerRejected,
       SteerDone, AtHead
  <2> QED
    BY <1>1, <2>1, <2>2, LeavingReplaces DEF Replaced, HasRun
<1>4. ASSUME agent'.replacing = agent.replacing, pc' = pc, Replaced => Replaced'
      PROVE  Waiting' \/ Replaced'
  BY <1>1, <1>4 DEF Waiting, Replacing
<1>5. CASE CancelCapture \/ InterruptFailed \/ InterruptAcknowledged \/ SteerDrain \/ SteerAdmits
  BY <1>4, <1>5 DEF CancelCapture, InterruptFailed, InterruptAcknowledged, SteerDrain,
     SteerAdmits, managerVars, Replaced, HasRun
<1>6. CASE CancelUntracked
  BY <1>4, <1>6 DEF CancelUntracked, Replaced, HasRun
<1>7. CASE RunStarts
  <2>1. PICK c \in Callers : SendIdle(c) \/ ReplaceStart(c)
    BY <1>7 DEF RunStarts
  <2>2. ~Replaced /\ agent'.replacing = agent.replacing
    BY <1>7 DEF RunStarts, StreamAgent, CanStream, Replaced, ManagerTypes, Agents
  <2> DEFINE new == [UnusedRun EXCEPT !.kind = "foreground", !.replacement = agent.replacing]
  <2>3. new.replacement = agent.replacing /\ new.start = "pending"
    BY DEF UnusedRun
  <2>4. NextRun \in Runs /\ cur' = NextRun /\ run' = [run EXCEPT ![NextRun] = new]
    BY <1>7, NextRunIsFresh DEF RunStarts, StreamAgent, FreshRuns
  <2> HIDE DEF new
  <2>5. Replaced'
    BY <2>2, <2>3, <2>4, IdsArePositive DEF Replaced, HasRun, ManagerTypes
  <2> QED
    BY <2>5
<1>8. CASE CancelForcesTurn
  <2>1. TrackedTurn \in Turns \cup {NoTurn}
    BY DEF TrackedTurn, HasRun, ManagerTypes, RunObjects
  <2>2. DispatchTerminal("turn_canceled", TrackedTurn) /\ UNCHANGED <<run, pc>>
    BY <1>8 DEF CancelForcesTurn
  <2> QED
    BY <1>4, <2>1, <2>2, DispatchReplaced, DispatchReplacing DEF Terminal
<1>9. CASE CancelForcesAutonomous
  <2>1. DispatchTerminal("turn_canceled", NoTurn) /\ run' = run /\ lane # <<>>
    BY <1>9 DEF CancelForcesAutonomous, TimedOutAcknowledged, AtHead
  <2>2. LeaveLane(AfterCancel(Mutation.caller))
    BY <1>9 DEF CancelForcesAutonomous
  <2>3. agent'.replacing = agent.replacing /\ (Replaced => Replaced')
    BY <2>1, DispatchReplaced, DispatchReplacing DEF Terminal
  <2> QED
    BY <1>1, <2>1, <2>2, <2>3, LeavingReplaces
<1>10. CASE \E accepted \in BOOLEAN : SteerAnswered(accepted)
  <2>1. UNCHANGED <<agent, cur, pc>>
    BY <1>10 DEF SteerAnswered
  <2>2. Replaced => Replaced'
    BY <1>10, <2>1, AnsweredRuns, TrackedRuns DEF StagingOnly, Replaced, HasRun
  <2> QED
    BY <1>4, <2>1, <2>2
<1>11. ASSUME NEW r \in Runs, GeneratorStep(r)
       PROVE  Waiting' \/ Replaced'
  <2>1. pc' = pc
    BY <1>11 DEF GeneratorStep, CallStartTurn, StartResolved, StartCanceled, StartFailed,
       StartStale, StreamEnds, laneVars
  <2>2. CASE CallStartTurn(r)
    BY <1>4, <2>1, <2>2 DEF CallStartTurn, Replaced, HasRun
  <2>3. CASE StartResolved(r)
    <3>1. agent.replacing /\ ~run[r].replacement
      BY <2>3, ResolvedRuns
    <3>2. r = cur
      BY <2>3, StartingRun DEF StartResolved
    <3> QED
      BY <1>1, <2>1, <3>1, <3>2 DEF Replaced, Waiting, Replacing
  <2>4. CASE StartFailed(r) \/ StartStale(r)
    BY <2>4, FailedEffect
  <2>5. CASE StartCanceled(r) \/ StreamEnds(r)
    <3>1. /\ r \in settled /\ run' = [run EXCEPT ![r] = CollectedRun]
          /\ agent' = agent
      BY <2>5 DEF StartCanceled, StreamEnds, RunInv
    <3>2. Replaced => cur \in Runs /\ r # cur
      BY <3>1, TrackedRuns DEF Replaced
    <3>3. Replaced => cur' = cur
      BY <2>5, <3>2 DEF StartCanceled, StreamEnds, SettleForegroundRun, KeepRun
    <3>4. Replaced => Replaced'
      BY <3>1, <3>2, <3>3 DEF Replaced, HasRun, ManagerTypes
    <3> QED
      BY <1>4, <2>1, <3>1, <3>4
  <2> QED
    BY <1>11, <2>2, <2>3, <2>4, <2>5 DEF GeneratorStep
<1>12. CASE QueueStep
  <2>1. pc' = pc /\ queue # <<>>
    BY <1>12 DEF QueueStep, ProcessTerminal, ProcessStartedSuppressed, ProcessStarted,
       laneVars
  <2>2. Head(queue).turn \in Turns \cup {NoTurn}
    BY <2>1, HeadOfQueue DEF Event
  <2>3. CASE ProcessTerminal
    BY <1>4, <2>1, <2>2, <2>3, DispatchReplaced, DispatchReplacing DEF ProcessTerminal
  <2>4. CASE ProcessStartedSuppressed
    BY <1>4, <2>1, <2>4 DEF ProcessStartedSuppressed, Replaced, HasRun
  <2>5. CASE ProcessStarted
    <3>1. agent'.replacing = agent.replacing
      BY <2>5 DEF ProcessStarted, ManagerTypes, Agents
    <3>2. Replaced => Replaced'
      BY <2>5 DEF ProcessStarted, Replaced, HasRun
    <3> QED
      BY <1>4, <2>1, <3>1, <3>2
  <2> QED
    BY <1>12, <2>3, <2>4, <2>5 DEF QueueStep
<1>13. CASE ProviderStep
  <2>1. ASSUME NEW es \in Seq(Event), Enqueue(es), UNCHANGED <<agent, cur, pc>>
        PROVE  Waiting' \/ Replaced'
    <3>1. Replaced => Replaced'
      BY <2>1, EnqueueRuns, TrackedRuns DEF StagingOnly, Replaced, HasRun
    <3> QED
      BY <1>4, <2>1, <3>1
  <2>2. CASE \E s \in Runs : ProviderOpens(s)
    BY <1>4, <2>2 DEF ProviderOpens, managerVars, laneVars, Replaced, HasRun
  <2>3. CASE \E t \in Turns : ProviderAnnounces(t)
    BY <2>1, <2>3, EventTypes DEF ProviderAnnounces, laneVars
  <2>4. CASE ProviderWakes
    BY <2>1, <2>4, EventTypes, NextTurnIsFresh DEF ProviderWakes, FreshTurns, laneVars
  <2>5. CASE \E t \in Turns, type \in Endings : ProviderEnds(t, type)
    BY <2>1, <2>5, EventTypes, BoundsAssumption DEF ProviderEnds, Terminal, laneVars
  <2>6. CASE ProviderDies
    BY <2>1, <2>6, EventTypes DEF ProviderDies, Terminal, laneVars
  <2> QED
    BY <1>13, <2>2, <2>3, <2>4, <2>5, <2>6 DEF ProviderStep
<1> QED
  BY <1>2, <1>3, <1>5, <1>6, <1>7, <1>8, <1>9, <1>10, <1>11, <1>12, <1>13, StepKinds
     DEF Moves, LaneMoves

\* Whoever sets pendingReplacement is there to clear it, except after the
\* forced cancellation of a replacement that has no turn yet.
THEOREM ReplacementOwnedOrForced == Spec => ReplacementLostOnlyByForce
<1>1. Structure /\ [Next]_<<vars, histories>> => [ReplacementIsOwned => ReplacementIsOwned' \/ CancelForcesPending]_vars
  BY ReplacementStep, StepOrStutter
<1> QED
  BY <1>1, Structured, PTL DEF Spec, ReplacementLostOnlyByForce

-------------------------------------------------------------------------------
(* The turns that run for the daemon, and the streams that wait for them. Two  *)
(* histories record where the code lets one go: an interrupt acknowledged while *)
(* a run is in its turn snapshot covers no turn, and a failure without a turn   *)
(* id is taken for the end of whatever turn is active when it is processed.     *)

\* Events that may still be processed: those of a settled run never are.
EndsInSight(t) ==
  Ends(queue, t) \/ Ends(barrier.events, t) \/ (Pending /\ Ends(run[cur].staged, t))
StartsInSight(t) ==
  Starts(queue, t) \/ Starts(barrier.events, t) \/ (Pending /\ Starts(run[cur].staged, t))

\* Only the provider makes events; every other step moves or drops them.
LEMMA NoNewEvents ==
  ASSUME Types, RunInv, ForegroundInv, LaneInv, Step, ~ProviderStep, NEW t
  PROVE  /\ EndsInSight(t)' => EndsInSight(t)
         /\ StartsInSight(t)' => StartsInSight(t)
<1> USE TypesParts
<1> DEFINE Goal == /\ EndsInSight(t)' => EndsInSight(t)
                   /\ StartsInSight(t)' => StartsInSight(t)
<1>1. ASSUME /\ Ends(queue', t) => Ends(queue, t)
             /\ Starts(queue', t) => Starts(queue, t),
             UNCHANGED barrier.events,
             \/ ~Pending'
             \/ cur' = NoRun
             \/ run'[cur'].staged = <<>>
             \/ cur' = cur /\ run'[cur] = run[cur]
      PROVE  Goal
  BY <1>1, NoEvents DEF EndsInSight, StartsInSight, Pending, HasRun, InForeground
<1>2. CASE Moves
  <2>1. UNCHANGED View
    BY <1>2, LaneMovesView, CallerMovesTypes DEF Moves
  <2> QED
    BY <1>1, <2>1 DEF View
<1>3. CASE RunStarts
  <2> DEFINE new == [UnusedRun EXCEPT !.kind = "foreground", !.replacement = agent.replacing]
  <2>1. /\ FreshRuns # {} /\ run' = [run EXCEPT ![NextRun] = new] /\ new.staged = <<>>
        /\ cur' = NextRun
    BY <1>3 DEF RunStarts, StreamAgent, UnusedRun
  <2>2. UNCHANGED <<queue, barrier>>
    BY <1>3 DEF RunStarts, StreamAgent, SendIdle, ReplaceStart
  <2>3. NextRun \in Runs
    BY <2>1, NextRunIsFresh DEF FreshRuns
  <2> HIDE DEF new
  <2>4. run'[cur'].staged = <<>>
    BY <2>1, <2>3 DEF ManagerTypes
  <2> QED
    BY <1>1, <2>2, <2>4
<1>4. CASE CancelUntracked
  <2> DEFINE new == [UnusedRun EXCEPT !.kind = "autonomous"]
  <2>1. /\ FreshRuns # {} /\ run' = [run EXCEPT ![NextRun] = new] /\ new.staged = <<>>
        /\ cur' = NextRun
    BY <1>4 DEF CancelUntracked, UnusedRun
  <2>2. UNCHANGED <<queue, barrier>>
    BY <1>4 DEF CancelUntracked
  <2>3. NextRun \in Runs
    BY <2>1, NextRunIsFresh DEF FreshRuns
  <2> HIDE DEF new
  <2>4. run'[cur'].staged = <<>>
    BY <2>1, <2>3 DEF ManagerTypes
  <2> QED
    BY <1>1, <2>2, <2>4
<1>5. CASE InterruptAcknowledged
  BY <1>1, <1>5 DEF InterruptAcknowledged, managerVars
<1>6. CASE CancelForcesTurn \/ CancelForcesPending \/ CancelForcesAutonomous
  <2>1. UNCHANGED <<queue, barrier, run>>
    BY <1>6 DEF CancelForcesTurn, CancelForcesPending, CancelForcesAutonomous
  <2>2. cur' = cur \/ cur' = NoRun
    BY <1>6 DEF CancelForcesTurn, CancelForcesPending, CancelForcesAutonomous,
       DispatchTerminal, SettleForegroundRun, ClearRun, KeepRun
  <2> QED
    BY <1>1, <2>1, <2>2
<1>7. ASSUME NEW accepted, SteerAnswered(accepted)
      PROVE  Goal
  <2>1. cur' = cur
    BY <1>7 DEF SteerAnswered
  <2>2. barrier'.events = <<>>
    <3>1. barrier' = NoBarrier
      BY <1>7, AnsweredEffect
    <3> QED
      BY <3>1 DEF NoBarrier
  <2>3. StagingOnly
    BY <1>7, AnsweredRuns
  <2>4. CASE Pending
    <3>1. /\ cur \in Runs /\ run[cur].staged \in Seq(Event) /\ barrier.events \in Seq(Event)
      BY <2>4, TrackedRuns, EventLists DEF Pending
    <3>2. run'[cur].staged = run[cur].staged \o barrier.events /\ queue' = queue
      BY <1>7, <2>4, AnsweredEffect
    <3>3. /\ Ends(run'[cur].staged, t) <=> Ends(run[cur].staged, t) \/ Ends(barrier.events, t)
          /\ Starts(run'[cur].staged, t) <=> Starts(run[cur].staged, t) \/ Starts(barrier.events, t)
      BY <3>1, <3>2, ConcatEvents
    <3> QED
      BY <2>1, <2>2, <2>4, <3>2, <3>3, NoEvents DEF EndsInSight, StartsInSight
  <2>5. CASE ~Pending
    <3>1. run' = run /\ queue' = queue \o barrier.events
      BY <1>7, <2>5, AnsweredEffect
    <3>2. /\ Ends(queue', t) <=> Ends(queue, t) \/ Ends(barrier.events, t)
          /\ Starts(queue', t) <=> Starts(queue, t) \/ Starts(barrier.events, t)
      BY <3>1, EventLists, ConcatEvents
    <3>3. ~Pending'
      BY <2>1, <2>5, <3>1 DEF Pending, HasRun, InForeground
    <3> QED
      BY <2>2, <3>2, <3>3, NoEvents DEF EndsInSight, StartsInSight
  <2> QED
    BY <2>4, <2>5
<1>8. ASSUME NEW r \in Runs, GeneratorStep(r)
      PROVE  Goal
  <2>1. CASE CallStartTurn(r)
    BY <1>1, <2>1 DEF CallStartTurn
  <2>2. CASE StartResolved(r)
    <3> PICK u \in OpenedTurns(r), staged \in Seq(Event) :
           /\ staged = Without(run[r].staged, [type |-> "turn_started", turn |-> u])
           /\ \/ /\ barrier.held /\ barrier'.events = barrier.events \o staged
                 /\ queue' = queue
              \/ /\ ~barrier.held /\ queue' = queue \o staged
                 /\ barrier' = barrier
      BY <2>2, ResolvedEvents
    <3>1. r = cur /\ Pending
      BY <2>2, StartingRun DEF StartResolved
    <3>2. ~Pending'
      BY <2>2, <3>1, ResolvedRuns DEF Pending
    <3>3. /\ Ends(staged, t) => Ends(run[cur].staged, t)
          /\ Starts(staged, t) => Starts(run[cur].staged, t)
      BY <3>1, EventLists, WithoutEvents DEF OpenedTurns
    <3>4. /\ Ends(queue \o staged, t) <=> Ends(queue, t) \/ Ends(staged, t)
          /\ Starts(queue \o staged, t) <=> Starts(queue, t) \/ Starts(staged, t)
          /\ Ends(barrier.events \o staged, t) <=> Ends(barrier.events, t) \/ Ends(staged, t)
          /\ Starts(barrier.events \o staged, t) <=> Starts(barrier.events, t) \/ Starts(staged, t)
      BY EventLists, ConcatEvents
    <3> QED
      BY <3>1, <3>2, <3>3, <3>4 DEF EndsInSight, StartsInSight
  <2>3. CASE StartCanceled(r) \/ StreamEnds(r)
    <3>1. r \in settled /\ run' = [run EXCEPT ![r] = CollectedRun] /\ UNCHANGED <<queue, barrier>>
      BY <2>3 DEF StartCanceled, StreamEnds, RunInv
    <3>2. cur' = cur \/ cur' = NoRun
      BY <2>3 DEF StartCanceled, StreamEnds, SettleForegroundRun, ClearRun, KeepRun
    <3>3. HasRun => run'[cur] = run[cur]
      BY <3>1, TrackedRuns DEF ManagerTypes
    <3> QED
      BY <1>1, <3>1, <3>2, <3>3 DEF HasRun
  <2>4. CASE StartFailed(r) \/ StartStale(r)
    BY <1>1, <2>4, FailedEffect
  <2> QED
    BY <1>8, <2>1, <2>2, <2>3, <2>4 DEF GeneratorStep
<1>9. CASE QueueStep
  <2>1. UNCHANGED barrier /\ queue # <<>> /\ queue' = Tail(queue)
    BY <1>9 DEF QueueStep, ProcessTerminal, ProcessStartedSuppressed, ProcessStarted
  <2>2. /\ Ends(queue', t) => Ends(queue, t)
        /\ Starts(queue', t) => Starts(queue, t)
    BY <2>1, EventLists, TailEvents
  <2>3. CASE ProcessTerminal \/ ProcessStartedSuppressed \/ (ProcessStarted /\ HasRun)
    <3>1. run' = run /\ (cur' = cur \/ cur' = NoRun)
      BY <2>3 DEF ProcessTerminal, ProcessStartedSuppressed, ProcessStarted, DispatchTerminal,
         ClearRun, KeepRun
    <3> QED
      BY <1>1, <2>1, <2>2, <3>1
  <2>4. CASE ProcessStarted /\ ~HasRun
    <3> DEFINE new == [UnusedRun EXCEPT !.kind = "autonomous", !.turn = Head(queue).turn]
    <3>1. NextRun \in Runs /\ cur' = NextRun /\ run' = [run EXCEPT ![NextRun] = new]
      BY <2>4, NextRunIsFresh DEF ProcessStarted, FreshRuns
    <3>2. new.staged = <<>>
      BY DEF UnusedRun
    <3> HIDE DEF new
    <3>3. run'[cur'].staged = <<>>
      BY <3>1, <3>2 DEF ManagerTypes
    <3> QED
      BY <1>1, <2>1, <2>2, <3>3
  <2> QED
    BY <1>9, <2>3, <2>4 DEF QueueStep
<1> QED
  BY <1>2, <1>3, <1>4, <1>5, <1>6, <1>7, <1>8, <1>9, StepKinds

LEMMA EnqueuedInSight ==
  ASSUME Types, RunInv, NEW es \in Seq(Event), Enqueue(es), cur' = cur, NEW t
  PROVE  /\ EndsInSight(t)' => EndsInSight(t) \/ Ends(es, t)
         /\ StartsInSight(t)' => StartsInSight(t) \/ Starts(es, t)
<1>1. /\ queue \in Seq(Event) /\ barrier.events \in Seq(Event)
      /\ Pending => cur \in Runs /\ run[cur].staged \in Seq(Event)
  BY EventLists, TrackedRuns DEF Pending
<1>2. StagingOnly
  BY EnqueueRuns
<1>3. Pending' => Pending
  BY <1>2, TypesParts DEF StagingOnly, Pending, HasRun, InForeground, ManagerTypes
<1>4. CASE barrier.held /\ barrier'.events = barrier.events \o es /\ UNCHANGED <<run, queue>>
  BY <1>1, <1>3, <1>4, ConcatEvents DEF EndsInSight, StartsInSight
<1>5. CASE Pending /\ run'[cur].staged = run[cur].staged \o es /\ UNCHANGED <<barrier, queue>>
  BY <1>1, <1>5, ConcatEvents DEF EndsInSight, StartsInSight
<1>6. CASE queue' = queue \o es /\ UNCHANGED <<barrier, run>>
  BY <1>1, <1>3, <1>6, ConcatEvents DEF EndsInSight, StartsInSight
<1> QED
  BY <1>4, <1>5, <1>6, EnqueueEffect

\* What the provider puts into sight.
LEMMA ProvidedEvents ==
  ASSUME Types, RunInv, TurnInv, ProviderStep, NEW t
  PROVE  /\ EndsInSight(t)' => \/ EndsInSight(t)
                               \/ t \in Turns /\ prov[t] \in {"live", "stopped"} /\ prov'[t] = "over"
                               \/ t = NoTurn /\ ProviderDies
         /\ StartsInSight(t)' => \/ StartsInSight(t)
                                 \/ t \in Turns /\ prov[t] \in {"unused", "live"} /\ t \notin announced
<1> USE TypesParts
<1>1. ASSUME NEW r \in Runs, ProviderOpens(r)
      PROVE  /\ EndsInSight(t)' => EndsInSight(t)
             /\ StartsInSight(t)' => StartsInSight(t)
  BY <1>1 DEF ProviderOpens, managerVars, EndsInSight, StartsInSight, Pending, HasRun,
     InForeground
<1>2. ASSUME NEW u \in Turns, ProviderAnnounces(u)
      PROVE  /\ EndsInSight(t)' => EndsInSight(t)
             /\ StartsInSight(t)' => StartsInSight(t) \/ t = u
  <2> DEFINE es == <<[type |-> "turn_started", turn |-> u]>>
  <2>1. es \in Seq(Event) /\ Enqueue(es) /\ cur' = cur
    BY <1>2, EventTypes DEF ProviderAnnounces
  <2>2. ~Ends(es, t) /\ (Starts(es, t) => t = u)
    BY OneEvent DEF Terminal
  <2> HIDE DEF es
  <2> QED
    BY <2>1, <2>2, EnqueuedInSight
<1>3. CASE ProviderWakes
  <2> DEFINE es == <<[type |-> "turn_started", turn |-> NextTurn]>>
  <2>1. NextTurn \in Turns /\ prov[NextTurn] = "unused" /\ NextTurn \notin announced
    BY <1>3, NextTurnIsFresh DEF ProviderWakes, FreshTurns, TurnInv
  <2>2. es \in Seq(Event) /\ Enqueue(es) /\ cur' = cur
    BY <1>3, <2>1, EventTypes DEF ProviderWakes
  <2>3. ~Ends(es, t) /\ (Starts(es, t) => t = NextTurn)
    BY OneEvent DEF Terminal
  <2> HIDE DEF es
  <2> QED
    BY <2>1, <2>2, <2>3, EnqueuedInSight
<1>4. ASSUME NEW u \in Turns, NEW type \in Endings, ProviderEnds(u, type)
      PROVE  /\ EndsInSight(t)' => EndsInSight(t) \/ t = u
             /\ StartsInSight(t)' => StartsInSight(t)
  <2> DEFINE es == <<[type |-> type, turn |-> u]>>
  <2>1. type \in Terminal
    BY BoundsAssumption DEF Terminal
  <2>2. es \in Seq(Event) /\ Enqueue(es) /\ cur' = cur
    BY <1>4, <2>1, EventTypes DEF ProviderEnds
  <2>3. ~Starts(es, t) /\ (Ends(es, t) => t = u)
    BY <2>1, OneEvent DEF Terminal
  <2> HIDE DEF es
  <2> QED
    BY <2>2, <2>3, EnqueuedInSight
<1>5. CASE ProviderDies
  <2> DEFINE es == <<[type |-> "turn_failed", turn |-> NoTurn]>>
  <2>1. es \in Seq(Event) /\ Enqueue(es) /\ cur' = cur
    BY <1>5, EventTypes DEF ProviderDies, Terminal
  <2>2. ~Starts(es, t) /\ (Ends(es, t) => t = NoTurn)
    BY OneEvent DEF Terminal
  <2> HIDE DEF es
  <2> QED
    BY <1>5, <2>1, <2>2, EnqueuedInSight
<1>6. ASSUME NEW u \in Turns, ProviderAnnounces(u)
      PROVE  prov[u] \in {"unused", "live"} /\ u \notin announced
  BY <1>6 DEF ProviderAnnounces
<1>7. ASSUME NEW u \in Turns, NEW type \in Endings, ProviderEnds(u, type)
      PROVE  prov[u] \in {"live", "stopped"} /\ prov'[u] = "over"
  BY <1>7 DEF ProviderEnds, ProviderTypes
<1> QED
  BY <1>1, <1>2, <1>3, <1>4, <1>5, <1>6, <1>7 DEF ProviderStep

\* A terminal event ends the tracked run, or leaves it and the foreground turn.
LEMMA DispatchKeeps ==
  ASSUME Types, RunInv, ForegroundInv,
         NEW type \in Terminal, NEW turn \in Turns \cup {NoTurn}, DispatchTerminal(type, turn)
  PROVE  \/ cur' = NoRun /\ agent'.fg = NoTurn
         \/ cur' = cur /\ agent'.fg = agent.fg
<1> DEFINE t == Identified(type, turn)
<1>1. CASE EndsAutonomous(t)
  BY <1>1 DEF EndsAutonomous, KeepsForeground, ForegroundInv, Streaming
<1> QED
  BY <1>1, DispatchEffect DEF Duplicate, EndsForeground, EndsNothing, KeepsForeground

LEMMA AckedStays ==
  ASSUME Types, LaneInv, Step, ~InterruptAcknowledged
  PROVE  op'.acked => op.acked /\ op'.run = op.run
<1> USE TypesParts
<1>1. CASE op' = op
  BY <1>1
<1>2. CASE op' = NoOp
  BY <1>2 DEF NoOp
<1>3. CASE \/ CancelCapture \/ CancelUntracked \/ InterruptFailed \/ CancelForcesTurn
           \/ SteerDrain \/ SteerAdmits \/ \E accepted \in BOOLEAN : SteerAnswered(accepted)
  BY <1>3 DEF CancelCapture, CancelUntracked, InterruptFailed, CancelForcesTurn, SteerDrain,
     SteerAdmits, SteerAnswered, NoOp, LaneTypes, Ops
<1>4. CASE \/ CancelNothing \/ CancelSettled \/ CancelRefused \/ CancelForcedDone
           \/ CancelForcesPending \/ CancelForcesAutonomous \/ SteerRejected \/ SteerDone
  BY <1>2, <1>4 DEF CancelNothing, CancelSettled, CancelRefused, CancelForcedDone,
     CancelForcesPending, CancelForcesAutonomous, SteerRejected, SteerDone, LeaveLane
<1>5. CASE QueueStep \/ ProviderStep \/ \E r \in Runs : GeneratorStep(r)
  BY <1>1, <1>5 DEF QueueStep, ProviderStep, GeneratorStep, ProcessTerminal,
     ProcessStartedSuppressed, ProcessStarted, ProviderOpens, ProviderAnnounces, ProviderWakes,
     ProviderEnds, ProviderDies, CallStartTurn, StartResolved, StartCanceled, StartFailed,
     StartStale, StreamEnds, laneVars
<1>6. ASSUME NEW c \in Callers, CallerStep(c)
      PROVE  op' = op
  BY <1>6 DEF CallerStep, SendIdle, SendBusy, Stop, Steer, ReplaceRefused, ReplaceStart,
     ReplaceOvertaken, SteerReplaces, SteerOvertaken, BeginReplacement, laneVars, managerVars
<1> QED
  BY <1>1, <1>3, <1>4, <1>5, <1>6 DEF Step, LaneStep

(* After an acknowledgement the captured run has no live turn and gets none,  *)
(* unless it was in its turn snapshot.                                        *)
Covered(r) ==
  /\ gen[r] # "checkpoint"
  /\ gen[r] = "starting" => r \in doomed
  /\ \A t \in OpenedTurns(r) : prov[t] # "live"
AckInv ==
  /\ \A r \in Runs : gen[r] \in {"checkpoint", "starting"} /\ r \in settled =>
       r \in doomed \/ r \in uncovered
  /\ op.acked => op.run \in uncovered \/ Covered(op.run)

LEMMA HistoriesGrow ==
  ASSUME Record
  PROVE  uncovered \subseteq uncovered' /\ mistaken \subseteq mistaken'
BY DEF Record

\* A terminal event settles no run that waits for its snapshot or for startTurn.
LEMMA DispatchSettles ==
  ASSUME Types, RunInv, ForegroundInv,
         NEW type \in Terminal, NEW turn \in Turns \cup {NoTurn}, DispatchTerminal(type, turn)
  PROVE  \A r \in settled' : r \in settled \/ gen[r] \notin {"checkpoint", "starting"}
<1> DEFINE t == Identified(type, turn)
<1>1. CASE EndsForeground(t)
  BY <1>1, TrackedRuns, UsedRuns DEF EndsForeground, Streaming, InForeground
<1>2. CASE EndsAutonomous(t)
  BY <1>2, TrackedRuns, UsedRuns DEF EndsAutonomous, InForeground
<1> QED
  BY <1>1, <1>2, DispatchEffect DEF Duplicate, EndsNothing

LEMMA AckStep ==
  ASSUME Structure, AckInv, Step, Record
  PROVE  AckInv'
<1> USE TypesParts DEF Structure
<1>1. op.acked => /\ op.run \in Runs /\ op.run # NoRun /\ run[op.run].kind # "none"
                  /\ op.phase \in {"settling", "forced"}
  BY IdsArePositive DEF LaneInv, OpInv
<1>0. uncovered \subseteq uncovered'
  BY HistoriesGrow
<1>2. ASSUME UNCHANGED <<prov, owner, gen, doomed>>, op'.acked => op.acked /\ op'.run = op.run,
             \A r \in settled' : \/ r \in settled \/ gen[r] \notin {"checkpoint", "starting"}
                                 \/ r \in doomed \/ r \in uncovered
      PROVE  AckInv'
  <2>1. \A r \in Runs : gen'[r] \in {"checkpoint", "starting"} /\ r \in settled' =>
          r \in doomed' \/ r \in uncovered'
    BY <1>0, <1>2 DEF AckInv
  <2>2. op'.acked => op'.run \in uncovered' \/ Covered(op.run)
    BY <1>0, <1>2 DEF AckInv
  <2>3. Covered(op.run) /\ op'.run = op.run => Covered(op.run)'
    BY <1>2 DEF Covered, OpenedTurns
  <2> QED
    BY <1>2, <2>1, <2>2, <2>3 DEF AckInv, Covered, OpenedTurns
<1>3. CASE Moves
  <2>1. UNCHANGED View
    BY <1>3, LaneMovesView, CallerMovesTypes DEF Moves
  <2>3. op'.acked => op.acked /\ op'.run = op.run
    <3>1. CASE LaneMoves
      <4>1. ~InterruptAcknowledged \/ InterruptFailed
        BY <3>1 DEF LaneMoves, InterruptAcknowledged, CancelNothing, CancelCapture, CancelSettled,
           CancelRefused, CancelForcedDone, SteerDrain, SteerAdmits, SteerRejected, SteerDone,
           AtHead
      <4>2. CASE InterruptFailed
        BY <4>2 DEF InterruptFailed, LaneTypes, Ops
      <4> QED
        BY <4>1, <4>2, AckedStays
    <3>2. CASE \E c \in Callers : CallerMoves(c)
      BY <3>2 DEF CallerMoves, SendBusy, Stop, Steer, ReplaceRefused, ReplaceOvertaken,
         SteerReplaces, SteerOvertaken, BeginReplacement, managerVars
    <3> QED
      BY <1>3, <3>1, <3>2 DEF Moves
  <2> QED
    BY <1>2, <2>1, <2>3 DEF View
<1>4. CASE RunStarts
  <2>1. /\ NextRun \in Runs /\ run[NextRun].kind = "none" /\ NextRun \notin settled
    BY <1>4, NextRunIsFresh DEF RunStarts, StreamAgent, FreshRuns, RunInv
  <2>2. \A r \in Runs : r # NextRun => gen'[r] = gen[r]
    BY <1>4 DEF RunStarts, StreamAgent, ManagerTypes
  <2>3. UNCHANGED <<settled, op, prov, owner, doomed>>
    BY <1>4 DEF RunStarts, StreamAgent, SendIdle, ReplaceStart, laneVars, providerVars
  <2>4. op.acked => op.run # NextRun
    BY <1>1, <2>1
  <2>5. op.acked /\ Covered(op.run) => Covered(op.run)'
    BY <1>1, <2>2, <2>3, <2>4 DEF Covered, OpenedTurns
  <2>6. \A r \in Runs : gen'[r] \in {"checkpoint", "starting"} /\ r \in settled' =>
          r \in doomed' \/ r \in uncovered'
    BY <1>0, <2>1, <2>2, <2>3 DEF AckInv
  <2>7. op'.acked => op'.run \in uncovered' \/ Covered(op.run)'
    BY <1>0, <2>3, <2>5 DEF AckInv
  <2> QED
    BY <2>3, <2>6, <2>7 DEF AckInv, Covered, OpenedTurns
<1>5. CASE CancelUntracked
  <2>1. UNCHANGED <<prov, owner, gen, doomed, settled>> /\ op'.acked = FALSE
    BY <1>5 DEF CancelUntracked, NoOp, providerVars
  <2> QED
    BY <1>2, <2>1
<1>6. CASE InterruptAcknowledged
  <2>1. /\ UNCHANGED <<gen, settled, owner>> /\ op'.run = op.run /\ op.run \in Runs
        /\ doomed' = doomed \cup {r \in Runs : gen[r] = "starting"}
        /\ op'.acked /\ ~op.acked
    BY <1>6 DEF InterruptAcknowledged, AtHead, managerVars, LaneTypes, Ops, LaneInv, OpInv
  <2>2. \A t \in Turns : owner[t] # NoRun => prov'[t] # "live"
    BY <1>6 DEF InterruptAcknowledged
  <2>3. \A t \in OpenedTurns(op.run)' : prov'[t] # "live"
    BY <2>1, <2>2, IdsArePositive DEF OpenedTurns
  <2>4. \A r \in Runs : gen[r] = "checkpoint" => r \in uncovered'
    BY <2>1 DEF Record
  <2>5. op'.run \in uncovered' \/ Covered(op.run)'
    BY <2>1, <2>3, <2>4 DEF Covered, OpenedTurns
  <2>6. \A r \in Runs : gen'[r] \in {"checkpoint", "starting"} /\ r \in settled' =>
          r \in doomed' \/ r \in uncovered'
    BY <2>1, <2>4
  <2> QED
    BY <2>1, <2>5, <2>6 DEF AckInv, Covered, OpenedTurns
<1>7. CASE CancelForcesTurn \/ CancelForcesAutonomous
  <2>1. TrackedTurn \in Turns \cup {NoTurn}
    BY DEF TrackedTurn, HasRun, ManagerTypes, RunObjects
  <2>2. \E turn \in Turns \cup {NoTurn} : DispatchTerminal("turn_canceled", turn)
    BY <1>7, <2>1 DEF CancelForcesTurn, CancelForcesAutonomous
  <2>3. \A r \in settled' : r \in settled \/ gen[r] \notin {"checkpoint", "starting"}
    BY <2>2, DispatchSettles DEF Terminal
  <2>4. UNCHANGED <<prov, owner, gen, doomed>>
    BY <1>7 DEF CancelForcesTurn, CancelForcesAutonomous, providerVars
  <2>5. op'.acked => op.acked /\ op'.run = op.run
    BY <1>7 DEF CancelForcesTurn, CancelForcesAutonomous, LeaveLane, NoOp, LaneTypes, Ops
  <2> QED
    BY <1>2, <2>3, <2>4, <2>5
<1>8. CASE CancelForcesPending
  <2>1. op.acked /\ op'.acked = FALSE /\ UNCHANGED <<prov, owner, gen, doomed>>
    BY <1>8 DEF CancelForcesPending, TimedOutAcknowledged, LeaveLane, NoOp, providerVars
  <2>2. settled' \subseteq settled \cup {op.run}
    BY <1>8 DEF CancelForcesPending, SettleForegroundRun, ClearRun, KeepRun
  <2>3. gen[op.run] \notin {"checkpoint", "starting"} \/ op.run \in doomed \/ op.run \in uncovered
    BY <2>1 DEF AckInv, Covered
  <2> QED
    BY <1>2, <2>1, <2>2, <2>3
<1>9. ASSUME NEW accepted, SteerAnswered(accepted)
      PROVE  AckInv'
  <2>1. UNCHANGED <<prov, owner, gen, doomed, settled>> /\ op'.acked = op.acked /\ op'.run = op.run
    BY <1>9 DEF SteerAnswered, providerVars, LaneTypes, Ops
  <2> QED
    BY <1>2, <2>1
<1>10. ASSUME NEW r \in Runs, GeneratorStep(r)
       PROVE  AckInv'
  <2>2. UNCHANGED <<prov, owner, doomed, op>>
    BY <1>10 DEF GeneratorStep, CallStartTurn, StartResolved, StartCanceled, StartFailed,
       StartStale, StreamEnds, laneVars, providerVars
  <2>3. \A s \in Runs : s # r => gen'[s] = gen[s]
    BY <1>10 DEF GeneratorStep, CallStartTurn, StartResolved, StartCanceled, StartFailed,
       StartStale, StreamEnds, ManagerTypes
  <2>4. gen'[r] \notin {"checkpoint", "starting"} \/ (gen[r] = "checkpoint" /\ settled' = settled)
    BY <1>10 DEF GeneratorStep, CallStartTurn, StartResolved, StartCanceled, StartFailed,
       StartStale, StreamEnds, ManagerTypes
  <2>5. settled' \subseteq settled \cup {r}
    BY <1>10 DEF GeneratorStep, CallStartTurn, StartResolved, StartCanceled, StartFailed,
       StartStale, StreamEnds, SettleForegroundRun, ClearRun, KeepRun
  <2>6. \A s \in Runs : gen'[s] \in {"checkpoint", "starting"} /\ s \in settled' =>
          s \in doomed' \/ s \in uncovered'
    <3> SUFFICES ASSUME NEW s \in Runs, gen'[s] \in {"checkpoint", "starting"}, s \in settled'
                 PROVE  s \in doomed' \/ s \in uncovered'
      OBVIOUS
    <3>1. s \in settled /\ gen[s] \in {"checkpoint", "starting"}
      BY <2>3, <2>4, <2>5
    <3> QED
      BY <1>0, <2>2, <3>1 DEF AckInv
  <2>7. op.acked /\ Covered(op.run) => Covered(op.run)'
    <3> SUFFICES ASSUME op.acked, Covered(op.run)
                 PROVE  Covered(op.run)'
      OBVIOUS
    <3>1. gen'[op.run] # "checkpoint" /\ (gen'[op.run] = "starting" => gen[op.run] = "starting")
      BY <1>1, <2>3, <2>4 DEF Covered
    <3> QED
      BY <2>2, <3>1 DEF Covered, OpenedTurns
  <2>8. op'.acked => op'.run \in uncovered' \/ Covered(op.run)'
    BY <1>0, <2>2, <2>7 DEF AckInv
  <2> QED
    BY <2>2, <2>6, <2>8 DEF AckInv, Covered, OpenedTurns
<1>11. CASE QueueStep
  <2>1. UNCHANGED <<prov, owner, gen, doomed, op>>
    BY <1>11 DEF QueueStep, ProcessTerminal, ProcessStartedSuppressed, ProcessStarted,
       laneVars, providerVars
  <2>2. CASE ProcessTerminal
    <3>1. /\ Head(queue).type \in Terminal /\ Head(queue).turn \in Turns \cup {NoTurn}
          /\ DispatchTerminal(Head(queue).type, Head(queue).turn)
      BY <2>2, HeadOfQueue DEF ProcessTerminal, Event
    <3> QED
      BY <1>2, <2>1, <3>1, DispatchSettles
  <2>3. CASE ProcessStartedSuppressed \/ ProcessStarted
    BY <1>2, <2>1, <2>3 DEF ProcessStartedSuppressed, ProcessStarted
  <2> QED
    BY <1>11, <2>2, <2>3 DEF QueueStep
<1>12. CASE ProviderStep
  <2>1. UNCHANGED <<gen, settled, doomed, op>>
    BY <1>12 DEF ProviderStep, ProviderOpens, ProviderAnnounces, ProviderWakes, ProviderEnds,
       ProviderDies, managerVars, laneVars
  <2>2. ASSUME \A t \in Turns :
                 owner'[t] = op.run /\ op.acked /\ Covered(op.run) =>
                   \/ owner[t] = op.run /\ (prov'[t] = "live" => prov[t] = "live")
                   \/ prov'[t] # "live"
        PROVE  AckInv'
    <3>1. op.acked /\ Covered(op.run) => Covered(op.run)'
      BY <2>1, <2>2 DEF Covered, OpenedTurns
    <3>2. \A r \in Runs : gen'[r] \in {"checkpoint", "starting"} /\ r \in settled' =>
            r \in doomed' \/ r \in uncovered'
      BY <1>0, <2>1 DEF AckInv
    <3>3. op'.acked => op'.run \in uncovered' \/ Covered(op.run)'
      BY <1>0, <2>1, <3>1 DEF AckInv
    <3> QED
      BY <2>1, <3>2, <3>3 DEF AckInv, Covered, OpenedTurns
  <2>3. ASSUME NEW r \in Runs, ProviderOpens(r)
        PROVE  AckInv'
    <3>1. NextTurn \in Turns
      BY <2>3, NextTurnIsFresh DEF ProviderOpens, FreshTurns
    <3>2. /\ \A t \in Turns : t # NextTurn => prov'[t] = prov[t] /\ owner'[t] = owner[t]
          /\ owner'[NextTurn] = r
          /\ prov'[NextTurn] = IF r \in doomed THEN "stopped" ELSE "live"
          /\ gen[r] = "starting"
      BY <2>3, <3>1 DEF ProviderOpens, Starting, ProviderTypes
    <3>3. r = op.run /\ Covered(op.run) => prov'[NextTurn] # "live"
      BY <3>2 DEF Covered
    <3> QED
      BY <2>2, <3>2, <3>3
  <2>4. CASE ProviderWakes
    <3>1. NextTurn \in Turns /\ owner[NextTurn] = NoRun
      BY <2>4, NextTurnIsFresh DEF ProviderWakes, FreshTurns, TurnInv
    <3>2. owner' = owner /\ \A t \in Turns : t # NextTurn => prov'[t] = prov[t]
      BY <2>4 DEF ProviderWakes, ProviderTypes
    <3> QED
      BY <1>1, <2>2, <3>1, <3>2
  <2>5. CASE \/ \E t \in Turns : ProviderAnnounces(t)
             \/ \E t \in Turns, type \in Endings : ProviderEnds(t, type)
             \/ ProviderDies
    <3>1. owner' = owner /\ \A t \in Turns : prov'[t] \in {prov[t], "over"}
      BY <2>5 DEF ProviderAnnounces, ProviderEnds, ProviderDies, ProviderTypes
    <3> QED
      BY <2>2, <3>1
  <2> QED
    BY <1>12, <2>3, <2>4, <2>5 DEF ProviderStep
<1> QED
  BY <1>3, <1>4, <1>5, <1>6, <1>7, <1>8, <1>9, <1>10, <1>11, <1>12, StepKinds

\* A terminal event that names its turn, or that meets no foreground turn, is
\* heard by the stream of the run it settles.
LEMMA DispatchHears ==
  ASSUME Types, RunInv, ForegroundInv, NEW type \in Terminal, NEW turn \in Turns \cup {NoTurn},
         DispatchTerminal(type, turn)
  PROVE  /\ heard \subseteq heard'
         /\ turn # NoTurn \/ ~Streaming =>
              \A r \in settled' : gen[r] = "streaming" => r \in settled \/ r \in heard'
<1> DEFINE t == Identified(type, turn)
<1>1. CASE Duplicate(t)
  BY <1>1 DEF Duplicate
<1>2. CASE Heard(turn) /\ EndsForeground(t)
  <2>1. turn # NoTurn => t = turn
    BY DEF Identified, IdentifiedTurn
  <2>2. turn # NoTurn => run[cur].turn = turn
    BY <1>2, <2>1 DEF EndsForeground, ForegroundInv
  <2>3. turn # NoTurn /\ cur \in Runs /\ gen[cur] = "streaming" => cur \in heard'
    BY <1>2, <2>2 DEF Heard
  <2> QED
    BY <1>2, <2>3, TrackedRuns DEF EndsForeground, Heard, Streaming
<1>3. CASE Heard(turn) /\ EndsAutonomous(t)
  BY <1>3, TrackedRuns, UsedRuns DEF EndsAutonomous, Heard, InForeground
<1>4. CASE Heard(turn) /\ EndsNothing(t)
  BY <1>4 DEF EndsNothing, Heard
<1> QED
  BY <1>1, <1>2, <1>3, <1>4, DispatchEffect

\* The run that a terminal event without a turn id ends is recorded.
LEMMA MistakenRuns ==
  ASSUME Types, ProcessTerminal, Head(queue).turn = NoTurn, Record
  PROVE  \A r \in settled' : r \in settled \/ r \in mistaken'
BY DEF ProcessTerminal, Record

LEMMA HearsStep ==
  ASSUME Structure, StreamHearsTheEnd, Step, Record
  PROVE  StreamHearsTheEnd'
<1> USE TypesParts DEF Structure
<1>0. mistaken \subseteq mistaken'
  BY HistoriesGrow
<1>1. ASSUME heard \subseteq heard',
             \A r \in settled' : gen'[r] = "streaming" =>
               gen[r] = "streaming" /\ (r \in settled \/ r \in heard' \/ r \in mistaken')
      PROVE  StreamHearsTheEnd'
  BY <1>0, <1>1 DEF StreamHearsTheEnd
<1>2. CASE Moves
  <2>1. UNCHANGED View
    BY <1>2, LaneMovesView, CallerMovesTypes DEF Moves
  <2> QED
    BY <1>1, <2>1 DEF View
<1>3. CASE RunStarts
  <2>1. UNCHANGED <<settled, heard>> /\ \A r \in Runs : gen'[r] \in {gen[r], "checkpoint", "starting"}
    BY <1>3 DEF RunStarts, StreamAgent, ManagerTypes
  <2> QED
    BY <1>1, <2>1 DEF ManagerTypes
<1>4. CASE \/ CancelUntracked \/ InterruptAcknowledged \/ ProviderStep
           \/ \E accepted \in BOOLEAN : SteerAnswered(accepted)
  <2>1. UNCHANGED <<settled, gen, heard>>
    BY <1>4 DEF CancelUntracked, InterruptAcknowledged, managerVars, ProviderStep,
       ProviderOpens, ProviderAnnounces, ProviderWakes, ProviderEnds, ProviderDies, SteerAnswered
  <2> QED
    BY <1>1, <2>1
<1>5. ASSUME NEW type \in Terminal, NEW turn \in Turns \cup {NoTurn},
             DispatchTerminal(type, turn), turn # NoTurn \/ ~Streaming, gen' = gen
      PROVE  StreamHearsTheEnd'
  <2>1. /\ heard \subseteq heard'
        /\ \A r \in settled' : gen[r] = "streaming" => r \in settled \/ r \in heard'
    BY <1>5, DispatchHears
  <2> QED
    BY <1>1, <1>5, <2>1
<1>6. CASE CancelForcesTurn \/ CancelForcesAutonomous
  <2>1. TrackedTurn \in Turns \cup {NoTurn} /\ "turn_canceled" \in Terminal
    BY DEF TrackedTurn, HasRun, ManagerTypes, RunObjects, Terminal
  <2>2. TrackedTurn # NoTurn \/ ~Streaming
    BY TrackedRuns, UsedRuns, IdsArePositive DEF TrackedTurn, Streaming, InForeground
  <2>3. DispatchTerminal("turn_canceled", TrackedTurn) /\ gen' = gen
    BY <1>6 DEF CancelForcesTurn, CancelForcesAutonomous
  <2> QED
    BY <1>5, <2>1, <2>2, <2>3
<1>7. CASE CancelForcesPending
  <2>1. /\ settled' = settled \/ (settled' = settled \cup {op.run} /\ cur = op.run)
        /\ UNCHANGED <<gen, heard>>
    BY <1>7 DEF CancelForcesPending, SettleForegroundRun, ClearRun, KeepRun
  <2>2. op.run \in Runs /\ TrackedTurn = NoTurn
    BY <1>7, CapturedRun DEF CancelForcesPending, TimedOutAcknowledged, AtHead
  <2>3. cur = op.run => gen[op.run] # "streaming"
    BY <2>2, UsedRuns, IdsArePositive DEF TrackedTurn, HasRun
  <2> QED
    BY <1>1, <2>1, <2>3
<1>8. ASSUME NEW r \in Runs, GeneratorStep(r)
      PROVE  StreamHearsTheEnd'
  <2>1. CASE StartResolved(r)
    <3>1. /\ UNCHANGED <<settled, heard>> /\ r \notin settled
          /\ \A s \in Runs : s # r => gen'[s] = gen[s]
      BY <2>1 DEF StartResolved, ManagerTypes
    <3> QED
      BY <1>1, <3>1 DEF ManagerTypes
  <2>2. CASE ~StartResolved(r)
    <3>1. /\ settled' \subseteq settled \cup {r} /\ heard \ {r} \subseteq heard'
          /\ gen'[r] # "streaming" /\ \A s \in Runs : s # r => gen'[s] = gen[s]
      BY <1>8, <2>2 DEF GeneratorStep, CallStartTurn, StartCanceled, StartFailed, StartStale,
         StreamEnds, SettleForegroundRun, ClearRun, KeepRun, ManagerTypes
    <3> QED
      BY <1>0, <3>1 DEF StreamHearsTheEnd, ManagerTypes
  <2> QED
    BY <2>1, <2>2
<1>9. CASE QueueStep
  <2>1. CASE ProcessTerminal
    <3>1. /\ Head(queue).type \in Terminal /\ Head(queue).turn \in Turns \cup {NoTurn}
          /\ DispatchTerminal(Head(queue).type, Head(queue).turn) /\ gen' = gen /\ queue # <<>>
      BY <2>1, HeadOfQueue DEF ProcessTerminal, Event
    <3>2. CASE Head(queue).turn # NoTurn
      BY <1>5, <3>1, <3>2
    <3>3. CASE Head(queue).turn = NoTurn
      <4>1. heard \subseteq heard'
        BY <3>1, DispatchHears
      <4>2. \A s \in settled' : s \in settled \/ s \in mistaken'
        BY <2>1, <3>3, MistakenRuns
      <4> QED
        BY <1>1, <3>1, <4>1, <4>2
    <3> QED
      BY <3>2, <3>3
  <2>2. CASE ProcessStartedSuppressed \/ ProcessStarted
    <3>1. UNCHANGED <<settled, gen, heard>>
      BY <2>2 DEF ProcessStartedSuppressed, ProcessStarted
    <3> QED
      BY <1>1, <3>1
  <2> QED
    BY <1>9, <2>1, <2>2 DEF QueueStep
<1> QED
  BY <1>2, <1>3, <1>4, <1>6, <1>7, <1>8, <1>9, StepKinds

\* A forsaken turn stays one.
LEMMA ForsakenStays ==
  ASSUME Record, NEW t, Forsaken(t), owner'[t] = owner[t]
  PROVE  Forsaken(t)'
BY HistoriesGrow DEF Forsaken

\* An acknowledged cancellation leaves its run no live turn, but a forsaken one.
LEMMA AckedRun ==
  ASSUME Structure, AckInv, op.acked, NEW t \in Turns, owner[t] = op.run, prov[t] = "live"
  PROVE  Forsaken(t)
BY IdsArePositive DEF AckInv, Covered, OpenedTurns, Forsaken

LEMMA OrphanStep ==
  ASSUME Structure, AckInv, NoOrphanTurn, Step, Record
  PROVE  NoOrphanTurn'
<1> USE TypesParts DEF Structure
<1>0. \A t : Forsaken(t) /\ owner'[t] = owner[t] => Forsaken(t)'
  BY ForsakenStays
<1>1. ASSUME UNCHANGED <<cur, owner>>, agent'.fg = agent.fg, HasRun => run'[cur].start = run[cur].start,
             \A t \in LiveForeground' : t \in LiveForeground
      PROVE  NoOrphanTurn'
  <2> SUFFICES ASSUME NEW t \in LiveForeground'
               PROVE  Tracked(t)' \/ Forsaken(t)'
    BY DEF NoOrphanTurn
  <2>1. t \in LiveForeground /\ owner[t] # NoRun
    BY <1>1 DEF LiveForeground
  <2>2. CASE Tracked(t)
    BY <1>1, <2>1, <2>2 DEF Tracked, HasRun
  <2>3. CASE Forsaken(t)
    BY <1>0, <1>1, <2>3
  <2> QED
    BY <2>1, <2>2, <2>3 DEF NoOrphanTurn
<1>2. ASSUME \A t \in LiveForeground' : Forsaken(t)'
      PROVE  NoOrphanTurn'
  BY <1>2 DEF NoOrphanTurn
<1> DEFINE Lone == \A t \in LiveForeground : Forsaken(t)
<1>21. ASSUME Lone, owner' = owner, \A t \in LiveForeground' : t \in LiveForeground
       PROVE  NoOrphanTurn'
  BY <1>0, <1>2, <1>21
<1>3. ~HasRun => Lone
  <2> SUFFICES ASSUME ~HasRun, NEW t \in LiveForeground
               PROVE  Forsaken(t)
    OBVIOUS
  <2>1. agent.fg = NoTurn /\ t # NoTurn /\ owner[t] # NoRun
    BY IdsArePositive DEF ForegroundInv, Streaming, LiveForeground
  <2> QED
    BY <2>1 DEF NoOrphanTurn, Tracked, HasRun
<1>4. op.acked /\ op.run = cur => Lone
  <2> SUFFICES ASSUME op.acked, op.run = cur, NEW t \in LiveForeground
               PROVE  Forsaken(t)
    OBVIOUS
  <2>1. t \in Turns /\ prov[t] = "live" /\ t # NoTurn
    BY IdsArePositive DEF LiveForeground
  <2>2. CASE owner[t] = cur
    BY <2>1, <2>2, AckedRun
  <2>3. CASE agent.fg = t
    <3>1. Streaming /\ run[cur].turn = t
      BY <2>1, <2>3 DEF ForegroundInv
    <3>2. owner[t] = cur
      BY <3>1, TrackedRuns, UsedRuns DEF Streaming, InForeground
    <3> QED
      BY <2>1, <3>2, AckedRun
  <2> QED
    BY <2>2, <2>3 DEF NoOrphanTurn, Tracked
<1>5. CASE Moves
  <2>1. UNCHANGED View
    BY <1>5, LaneMovesView, CallerMovesTypes DEF Moves
  <2> QED
    BY <1>1, <2>1 DEF View, LiveForeground
<1>6. CASE RunStarts \/ CancelUntracked
  <2>1. UNCHANGED <<prov, owner>> /\ ~HasRun
    BY <1>6 DEF RunStarts, StreamAgent, CanStream, SendIdle, ReplaceStart, CancelUntracked,
       providerVars
  <2> QED
    BY <1>21, <1>3, <2>1 DEF LiveForeground
<1>7. CASE InterruptAcknowledged
  <2>1. owner' = owner /\ \A t \in Turns : owner[t] # NoRun => prov'[t] # "live"
    BY <1>7 DEF InterruptAcknowledged
  <2> QED
    BY <1>2, <2>1 DEF LiveForeground
<1>8. CASE CancelForcesTurn \/ CancelForcesAutonomous \/ CancelForcesPending
  <2>1. TimedOutAcknowledged /\ UNCHANGED <<prov, owner>>
    BY <1>8 DEF CancelForcesTurn, CancelForcesAutonomous, CancelForcesPending, providerVars
  <2>2. op.acked /\ op.run = cur
    BY <2>1, CapturedRun DEF TimedOutAcknowledged, AtHead, RunSettled
  <2> QED
    BY <1>21, <1>4, <2>1, <2>2 DEF LiveForeground
<1>9. ASSUME StagingOnly, UNCHANGED <<agent, cur, owner>>,
             \A t \in Turns : prov'[t] = "live" /\ owner[t] # NoRun => prov[t] = "live"
      PROVE  NoOrphanTurn'
  BY <1>1, <1>9, TrackedRuns DEF StagingOnly, LiveForeground
<1>10. ASSUME NEW accepted, SteerAnswered(accepted)
       PROVE  NoOrphanTurn'
  <2>1. StagingOnly /\ UNCHANGED <<agent, cur, owner, prov>>
    BY <1>10, AnsweredRuns DEF SteerAnswered, providerVars
  <2> QED
    BY <1>9, <2>1
<1>11. Pending => \A t \in LiveForeground : t \in OpenedTurns(cur) \/ Forsaken(t)
  <2>1. Pending => agent.fg = NoTurn
    BY DEF ForegroundInv, Pending, Streaming
  <2> QED
    BY <2>1, IdsArePositive DEF NoOrphanTurn, Tracked, LiveForeground, OpenedTurns
<1>12. ASSUME NEW r \in Runs, GeneratorStep(r)
       PROVE  NoOrphanTurn'
  <2>1. UNCHANGED <<prov, owner>>
    BY <1>12 DEF GeneratorStep, CallStartTurn, StartResolved, StartCanceled, StartFailed,
       StartStale, StreamEnds, providerVars
  <2>2. CASE CallStartTurn(r)
    BY <1>1, <2>1, <2>2 DEF CallStartTurn, LiveForeground
  <2>3. CASE StartResolved(r)
    <3>1. PICK t \in OpenedTurns(r) : agent'.fg = t
      BY <2>3, ResolvedRuns
    <3>2. r = cur /\ Pending /\ cur # NoRun
      BY <2>3, StartingRun DEF StartResolved
    <3>3. \A u \in LiveForeground : u = t \/ Forsaken(u)
      BY <1>11, <3>1, <3>2 DEF TurnInv, OpenedTurns, LiveForeground
    <3>4. \A u \in LiveForeground' : Tracked(u)' \/ Forsaken(u)
      BY <2>1, <3>1, <3>3 DEF LiveForeground, Tracked
    <3> QED
      BY <1>0, <2>1, <3>4 DEF NoOrphanTurn
  <2>4. CASE StartCanceled(r) \/ StreamEnds(r)
    <3>1. r \in settled /\ run' = [run EXCEPT ![r] = CollectedRun] /\ UNCHANGED <<queue, agent>>
      BY <2>4 DEF StartCanceled, StreamEnds, RunInv
    <3>2. r # cur
      BY <3>1, TrackedRuns, IdsArePositive DEF HasRun
    <3>3. cur' = cur
      BY <2>4, <3>2 DEF StartCanceled, StreamEnds, SettleForegroundRun, KeepRun
    <3>4. HasRun => run'[cur] = run[cur]
      BY <3>1, <3>2, TrackedRuns DEF ManagerTypes
    <3> QED
      BY <1>1, <2>1, <3>1, <3>3, <3>4 DEF LiveForeground
  <2>5. CASE StartFailed(r) \/ StartStale(r)
    <3>1. Pending /\ OpenedTurns(cur) = {}
      BY <2>5, FailedEffect
    <3>2. Lone
      BY <1>11, <3>1
    <3> QED
      BY <1>21, <2>1, <3>2 DEF LiveForeground
  <2> QED
    BY <1>12, <2>2, <2>3, <2>4, <2>5 DEF GeneratorStep
<1>13. CASE QueueStep
  <2>1. UNCHANGED <<prov, owner>>
    BY <1>13 DEF QueueStep, ProcessTerminal, ProcessStartedSuppressed, ProcessStarted, providerVars
  <2>2. CASE ProcessTerminal
    <3> DEFINE type == Head(queue).type
               turn == Head(queue).turn
               t == Identified(type, turn)
    <3>1. /\ Head(queue) \in Event /\ type \in Terminal /\ turn \in Turns \cup {NoTurn}
          /\ DispatchTerminal(type, turn) /\ run' = run /\ queue # <<>>
      BY <2>2, HeadOfQueue DEF ProcessTerminal, Event
    <3>2. CASE cur' = cur /\ agent'.fg = agent.fg
      BY <1>1, <2>1, <3>1, <3>2 DEF LiveForeground
    <3>3. CASE EndsForeground(t)
      <4>1. CASE turn # NoTurn
        <5>1. t = turn /\ agent.fg = turn /\ turn \in Turns
          BY <3>3, <4>1 DEF Identified, IdentifiedTurn, EndsForeground
        <5>2. Ends(queue, turn)
          BY <3>1, <5>1, EventLists, TailEvents DEF IsEnd
        <5>3. prov[turn] = "over"
          BY <5>1, <5>2 DEF EventInv, Reported
        <5>4. Lone
          BY <3>3, <5>1, <5>3 DEF NoOrphanTurn, Tracked, LiveForeground, EndsForeground, Streaming
        <5> QED
          BY <1>21, <2>1, <5>4 DEF LiveForeground
      <4>2. CASE turn = NoTurn
        <5>1. cur \in settled' /\ cur \notin settled /\ Streaming
          BY <3>3, TrackedRuns DEF EndsForeground, Streaming
        <5>2. cur \in mistaken'
          BY <2>2, <4>2, <5>1, MistakenRuns
        <5>3. \A u \in LiveForeground : owner[u] = cur => Forsaken(u)'
          BY <2>1, <5>2, IdsArePositive DEF Forsaken, LiveForeground
        <5>4. \A u \in LiveForeground : agent.fg = u => owner[u] = cur
          BY <5>1, IdsArePositive, TrackedRuns, UsedRuns DEF Streaming, InForeground,
             ForegroundInv, LiveForeground
        <5>5. \A u \in LiveForeground : Forsaken(u)'
          BY <1>0, <2>1, <5>3, <5>4 DEF NoOrphanTurn, Tracked
        <5> QED
          BY <1>2, <2>1, <5>5 DEF LiveForeground
      <4> QED
        BY <4>1, <4>2
    <3>4. CASE EndsAutonomous(t)
      <4>1. cur \in Runs /\ gen[cur] = "none" /\ agent.fg = NoTurn
        BY <3>4, TrackedRuns DEF EndsAutonomous, InForeground, ForegroundInv, Streaming, RunInv,
           RunFits
      <4>2. \A u \in Turns : owner[u] = cur => owner[u] = NoRun
        BY <4>1 DEF TurnInv
      <4>3. Lone
        BY <4>1, <4>2, IdsArePositive DEF NoOrphanTurn, Tracked, LiveForeground
      <4> QED
        BY <1>21, <2>1, <4>3 DEF LiveForeground
    <3> HIDE DEF type, turn
    <3>5. \/ EndsForeground(t) \/ EndsAutonomous(t)
          \/ cur' = cur /\ agent'.fg = agent.fg
      BY <3>1, DispatchEffect DEF Duplicate, EndsNothing, KeepsForeground
    <3> QED
      BY <3>2, <3>3, <3>4, <3>5
  <2>3. CASE ProcessStartedSuppressed
    BY <1>1, <2>1, <2>3 DEF ProcessStartedSuppressed, LiveForeground
  <2>4. CASE ProcessStarted
    <3>1. HasRun => cur' = cur /\ run' = run
      BY <2>4 DEF ProcessStarted
    <3>2. agent'.fg = agent.fg
      BY <2>4 DEF ProcessStarted, ManagerTypes, Agents
    <3>3. CASE HasRun
      BY <1>1, <2>1, <3>1, <3>2, <3>3 DEF LiveForeground
    <3>4. CASE ~HasRun
      BY <1>21, <1>3, <2>1, <3>4 DEF LiveForeground
    <3> QED
      BY <3>3, <3>4
  <2> QED
    BY <1>13, <2>2, <2>3, <2>4 DEF QueueStep
<1>14. CASE ProviderStep
  <2>1. ASSUME NEW r \in Runs, ProviderOpens(r)
        PROVE  NoOrphanTurn'
    <3>1. /\ NextTurn \in Turns /\ LiveForeground = {} /\ gen[r] = "starting"
          /\ UNCHANGED <<agent, cur, run>>
      BY <2>1, NextTurnIsFresh DEF ProviderOpens, FreshTurns, Starting, managerVars
    <3>2. /\ \A t \in Turns : t # NextTurn => prov'[t] = prov[t] /\ owner'[t] = owner[t]
          /\ owner'[NextTurn] = r
          /\ prov'[NextTurn] = IF r \in doomed THEN "stopped" ELSE "live"
      BY <2>1, <3>1 DEF ProviderOpens, ProviderTypes
    <3>3. r \notin doomed => (r = cur /\ run[cur].start = "pending") \/ r \in uncovered
      BY <3>1, StartingRun DEF AckInv
    <3> PICK t \in Turns : t = NextTurn
      BY <3>1
    <3>4. \A u \in LiveForeground' : u = t /\ r \notin doomed
      BY <3>1, <3>2 DEF LiveForeground
    <3>5. r \in uncovered => Forsaken(t)'
      BY <3>1, <3>2, IdsArePositive, HistoriesGrow DEF Forsaken
    <3>6. (r = cur /\ run[cur].start = "pending") => Tracked(t)'
      BY <3>1, <3>2 DEF Tracked
    <3> QED
      BY <3>3, <3>4, <3>5, <3>6 DEF NoOrphanTurn
  <2>2. CASE ProviderWakes
    <3>1. NextTurn \in Turns /\ owner[NextTurn] = NoRun
      BY <2>2, NextTurnIsFresh DEF ProviderWakes, FreshTurns, TurnInv
    <3>2. \A t \in Turns : t # NextTurn => prov'[t] = prov[t]
      BY <2>2 DEF ProviderWakes, ProviderTypes
    <3>3. StagingOnly /\ UNCHANGED <<agent, cur, owner>>
      BY <2>2, <3>1, EnqueueRuns, EventTypes DEF ProviderWakes
    <3> QED
      BY <1>9, <3>1, <3>2, <3>3
  <2>3. CASE \/ \E t \in Turns : ProviderAnnounces(t)
             \/ \E t \in Turns, type \in Endings : ProviderEnds(t, type)
             \/ ProviderDies
    <3>1. UNCHANGED <<agent, cur, owner>> /\ \A t \in Turns : prov'[t] = "live" => prov[t] = "live"
      BY <2>3 DEF ProviderAnnounces, ProviderEnds, ProviderDies, ProviderTypes
    <3>2. \A type \in Endings : type \in Terminal
      BY BoundsAssumption DEF Terminal
    <3>3. \E es \in Seq(Event) : Enqueue(es)
      BY <2>3, <3>2, EventTypes DEF ProviderAnnounces, ProviderEnds, ProviderDies, Terminal
    <3> QED
      BY <1>9, <3>1, <3>3, EnqueueRuns
  <2> QED
    BY <1>14, <2>1, <2>2, <2>3 DEF ProviderStep
<1> QED
  BY <1>5, <1>6, <1>7, <1>8, <1>10, <1>12, <1>13, <1>14, StepKinds

LEMMA AckInit == Init => AckInv /\ StreamHearsTheEnd /\ NoOrphanTurn
BY DEF Init, AckInv, NoOp, StreamHearsTheEnd, NoOrphanTurn, LiveForeground

\* A run settled while its stream is read has been given a terminal event, so the
\* caller of the run is not left waiting, unless the event that settled it had no
\* turn id: late, duplicate and synthesized terminal events all reach the stream.
THEOREM StreamHears == Spec => []StreamHearsTheEnd
<1>1. Structure /\ StreamHearsTheEnd /\ [Next]_<<vars, histories>> => StreamHearsTheEnd'
  <2> SUFFICES ASSUME Structure, StreamHearsTheEnd, [Next]_<<vars, histories>>
               PROVE  StreamHearsTheEnd'
    OBVIOUS
  <2>1. CASE UNCHANGED <<vars, histories>>
    BY <2>1 DEF vars, managerVars, histories, StreamHearsTheEnd
  <2>2. CASE Step /\ Record
    BY <2>2, HearsStep
  <2> QED
    BY <2>1, <2>2 DEF Next
<1> QED
  BY <1>1, AckInit, Structured, PTL DEF Spec

\* A turn that the provider runs for the daemon is the active foreground turn, or
\* that of the run that waits for startTurn, or one of the two the code lets go:
\* its run was stopped during its turn snapshot, or ended by a failure without a
\* turn id.
THEOREM NoOrphan == Spec => []NoOrphanTurn
<1>1. Structure /\ AckInv /\ NoOrphanTurn /\ [Next]_<<vars, histories>> => AckInv' /\ NoOrphanTurn'
  <2> SUFFICES ASSUME Structure, AckInv, NoOrphanTurn, [Next]_<<vars, histories>>
               PROVE  AckInv' /\ NoOrphanTurn'
    OBVIOUS
  <2>1. CASE UNCHANGED <<vars, histories>>
    <3>1. UNCHANGED <<agent, cur, run, settled, gen, op, prov, owner, doomed, uncovered, mistaken>>
      BY <2>1 DEF vars, managerVars, laneVars, providerVars, histories
    <3> QED
      BY <3>1 DEF AckInv, Covered, NoOrphanTurn, Tracked, Forsaken, OpenedTurns, LiveForeground
  <2>2. CASE Step /\ Record
    BY <2>2, AckStep, OrphanStep
  <2> QED
    BY <2>1, <2>2 DEF Next
<1> QED
  BY <1>1, AckInit, Structured, PTL DEF Spec

-------------------------------------------------------------------------------
(* A finished turn is not started again: turn_started is announced before the  *)
(* turn's end, and no detour by the staging list and the barrier swaps them.   *)

StartsOnce(es, t) ==
  \A i, j \in DOMAIN es : IsStart(es[i], t) /\ IsStart(es[j], t) => i = j
StartsFirst(es, t) ==
  \A i, j \in DOMAIN es : IsStart(es[i], t) /\ IsEnd(es[j], t) => i < j
OrderInv ==
  /\ barrier.held => queue = <<>>
  /\ agent.fg # NoTurn => /\ StartsFirst(queue, agent.fg)
                          /\ StartsFirst(barrier.events, agent.fg)
  /\ Pending => \A t \in OpenedTurns(cur) :
       /\ StartsOnce(run[cur].staged, t) /\ StartsOnce(barrier.events, t)
       /\ ~Starts(run[cur].staged, t) \/ ~Starts(barrier.events, t)
       /\ StartsFirst(barrier.events, t)

LEMMA NoStartFirst == ASSUME NEW es, NEW t, ~Starts(es, t) PROVE StartsFirst(es, t) /\ StartsOnce(es, t)
BY DEF Starts, StartsFirst, StartsOnce

LEMMA OrderConcat ==
  ASSUME NEW a \in Seq(Event), NEW b \in Seq(Event), NEW t
  PROVE  /\ StartsFirst(a, t) /\ StartsFirst(b, t) /\ (~Ends(a, t) \/ ~Starts(b, t))
              => StartsFirst(a \o b, t)
         /\ StartsOnce(a, t) /\ StartsOnce(b, t) /\ (~Starts(a, t) \/ ~Starts(b, t))
              => StartsOnce(a \o b, t)
<1> DEFINE c == a \o b
<1>1. /\ Len(a) \in Nat /\ Len(b) \in Nat
      /\ DOMAIN a = 1..Len(a) /\ DOMAIN b = 1..Len(b)
      /\ DOMAIN c = 1..(Len(a) + Len(b))
      /\ \A i \in 1..(Len(a) + Len(b)) : c[i] = IF i <= Len(a) THEN a[i] ELSE b[i - Len(a)]
  OBVIOUS
<1> HIDE DEF c
<1>2. \A i \in DOMAIN c : \/ i \in DOMAIN a /\ c[i] = a[i] /\ i <= Len(a)
                          \/ i - Len(a) \in DOMAIN b /\ c[i] = b[i - Len(a)] /\ ~(i <= Len(a))
  BY <1>1
<1>3. ASSUME StartsFirst(a, t), StartsFirst(b, t), ~Ends(a, t) \/ ~Starts(b, t)
      PROVE  StartsFirst(c, t)
  <2> SUFFICES ASSUME NEW i \in DOMAIN c, NEW j \in DOMAIN c, IsStart(c[i], t), IsEnd(c[j], t)
               PROVE  i < j
    BY DEF StartsFirst
  <2>1. i \in Nat /\ j \in Nat
    BY <1>1
  <2>2. CASE i <= Len(a) /\ j <= Len(a)
    BY <1>2, <1>3, <2>2 DEF StartsFirst
  <2>3. CASE i <= Len(a) /\ ~(j <= Len(a))
    BY <1>1, <2>1, <2>3
  <2>4. CASE ~(i <= Len(a)) /\ j <= Len(a)
    BY <1>2, <1>3, <2>4 DEF Starts, Ends
  <2>5. CASE ~(i <= Len(a)) /\ ~(j <= Len(a))
    <3>1. i - Len(a) < j - Len(a)
      BY <1>2, <1>3, <2>5 DEF StartsFirst
    <3> QED
      BY <1>1, <2>1, <3>1
  <2> QED
    BY <2>2, <2>3, <2>4, <2>5
<1>4. ASSUME StartsOnce(a, t), StartsOnce(b, t), ~Starts(a, t) \/ ~Starts(b, t)
      PROVE  StartsOnce(c, t)
  <2> SUFFICES ASSUME NEW i \in DOMAIN c, NEW j \in DOMAIN c, IsStart(c[i], t), IsStart(c[j], t)
               PROVE  i = j
    BY DEF StartsOnce
  <2>1. CASE i <= Len(a) /\ j <= Len(a)
    BY <1>2, <1>4, <2>1 DEF StartsOnce
  <2>2. CASE ~(i <= Len(a)) /\ ~(j <= Len(a))
    <3>1. i - Len(a) = j - Len(a)
      BY <1>2, <1>4, <2>2 DEF StartsOnce
    <3> QED
      BY <1>1, <3>1
  <2>3. CASE ~((i <= Len(a)) <=> (j <= Len(a)))
    BY <1>2, <1>4, <2>3 DEF Starts
  <2> QED
    BY <2>1, <2>2, <2>3
<1> QED
  BY <1>3, <1>4 DEF c

LEMMA OrderTail ==
  ASSUME NEW es \in Seq(Event), es # <<>>, NEW t, StartsFirst(es, t)
  PROVE  /\ StartsFirst(Tail(es), t)
         /\ IsEnd(Head(es), t) => ~Starts(Tail(es), t)
<1> DEFINE b == Tail(es)
<1>1. /\ Len(es) \in Nat \ {0} /\ DOMAIN es = 1..Len(es) /\ Head(es) = es[1]
      /\ DOMAIN b = 1..(Len(es) - 1) /\ \A i \in 1..(Len(es) - 1) : b[i] = es[i + 1]
  OBVIOUS
<1> HIDE DEF b
<1>2. \A i \in DOMAIN b : i + 1 \in DOMAIN es /\ b[i] = es[i + 1] /\ i \in Nat /\ 1 \in DOMAIN es
  BY <1>1
<1>3. ASSUME NEW i \in DOMAIN b, NEW j \in DOMAIN b, IsStart(b[i], t), IsEnd(b[j], t)
      PROVE  i < j
  <2>1. i + 1 < j + 1
    BY <1>2, <1>3 DEF StartsFirst
  <2> QED
    BY <1>2, <2>1
<1>4. ASSUME IsEnd(es[1], t), NEW i \in DOMAIN b, IsStart(b[i], t)
      PROVE  FALSE
  <2>1. i + 1 < 1
    BY <1>2, <1>4 DEF StartsFirst
  <2> QED
    BY <1>2, <2>1
<1> QED
  BY <1>1, <1>3, <1>4 DEF b, StartsFirst, Starts

\* Without drops the only turn_started of its turn.
LEMMA WithoutStart ==
  ASSUME NEW es \in Seq(Event), NEW t \in Turns, StartsOnce(es, t)
  PROVE  ~Starts(Without(es, [type |-> "turn_started", turn |-> t]), t)
<1> DEFINE e == [type |-> "turn_started", turn |-> t]
           w == Without(es, e)
<1>1. \A i \in DOMAIN es : IsStart(es[i], t) <=> es[i] = e
  <2>1. \A x \in Event : x.type = "turn_started" /\ x.turn = t => x = e
    BY DEF Event
  <2>2. e.type = "turn_started" /\ e.turn = t
    OBVIOUS
  <2>3. \A i \in DOMAIN es : es[i] \in Event
    OBVIOUS
  <2> HIDE DEF e
  <2> QED
    BY <2>1, <2>2, <2>3 DEF IsStart
<1>2. CASE w = es /\ \A i \in DOMAIN es : es[i] # e
  BY <1>1, <1>2 DEF Starts
<1>3. ASSUME NEW k \in DOMAIN es, es[k] = e, DOMAIN w = 1..(Len(es) - 1),
             \A i \in 1..(Len(es) - 1) : w[i] = IF i < k THEN es[i] ELSE es[i + 1]
      PROVE  ~Starts(w, t)
  <2>1. DOMAIN es = 1..Len(es) /\ Len(es) \in Nat
    OBVIOUS
  <2> HIDE DEF w, e
  <2> SUFFICES ASSUME NEW i \in DOMAIN w, IsStart(w[i], t)
               PROVE  FALSE
    BY DEF Starts
  <2>2. PICK m \in DOMAIN es : w[i] = es[m] /\ m = IF i < k THEN i ELSE i + 1
    <3>1. i \in DOMAIN es /\ i + 1 \in DOMAIN es
      BY <1>3, <2>1
    <3> QED
      BY <1>3, <3>1
  <2>3. m = k
    BY <1>1, <1>3, <2>2 DEF StartsOnce
  <2> QED
    BY <1>3, <2>1, <2>2, <2>3
<1> QED
  BY <1>2, <1>3, WithoutEffect

\* What the provider adds comes after everything of its turn, and a turn is
\* announced once.
LEMMA ProvidedOrder ==
  ASSUME Types, RunInv, TurnInv, EventInv, ProviderStep, ~\E r \in Runs : ProviderOpens(r)
  PROVE  \E es \in Seq(Event) :
           /\ Enqueue(es) /\ UNCHANGED <<agent, cur, owner>>
           /\ \A t : StartsFirst(es, t) /\ StartsOnce(es, t)
           /\ \A t \in Turns : Starts(es, t) =>
                /\ ~Ends(queue, t) /\ ~Ends(barrier.events, t)
                /\ \A r \in Runs : ~Starts(run[r].staged, t)
                /\ ~Starts(barrier.events, t)
<1> DEFINE One(type, turn) == <<[type |-> type, turn |-> turn]>>
<1>1. ASSUME NEW type \in Terminal \cup {"turn_started"}, NEW turn \in Turns \cup {NoTurn},
             Enqueue(One(type, turn)), UNCHANGED <<agent, cur, owner>>,
             type = "turn_started" /\ turn \in Turns => prov[turn] # "over" /\ turn \notin announced
      PROVE  \E es \in Seq(Event) :
               /\ Enqueue(es) /\ UNCHANGED <<agent, cur, owner>>
               /\ \A t : StartsFirst(es, t) /\ StartsOnce(es, t)
               /\ \A t \in Turns : Starts(es, t) =>
                    /\ ~Ends(queue, t) /\ ~Ends(barrier.events, t)
                    /\ \A r \in Runs : ~Starts(run[r].staged, t)
                    /\ ~Starts(barrier.events, t)
  <2>1. One(type, turn) \in Seq(Event) /\ DOMAIN One(type, turn) = 1..1
    BY EventTypes
  <2>2. \A t : StartsOnce(One(type, turn), t)
    BY <2>1 DEF StartsOnce
  <2>3. \A t : StartsFirst(One(type, turn), t)
    BY OneEvent DEF StartsFirst, IsStart, IsEnd, Terminal
  <2>4. \A t \in Turns : Starts(One(type, turn), t) => type = "turn_started" /\ turn = t
    BY OneEvent
  <2>5. \A t \in Turns : prov[t] # "over" /\ t \notin announced =>
          /\ ~Ends(queue, t) /\ ~Ends(barrier.events, t)
          /\ \A r \in Runs : ~Starts(run[r].staged, t)
          /\ ~Starts(barrier.events, t)
    BY DEF EventInv, Reported
  <2> HIDE DEF One
  <2> QED
    BY <1>1, <2>1, <2>2, <2>3, <2>4, <2>5
<1>2. ASSUME NEW t \in Turns, ProviderAnnounces(t)
      PROVE  Enqueue(One("turn_started", t)) /\ UNCHANGED <<agent, cur, owner>>
             /\ prov[t] # "over" /\ t \notin announced
  BY <1>2 DEF ProviderAnnounces
<1>3. CASE ProviderWakes
  <2>1. NextTurn \in Turns /\ prov[NextTurn] # "over" /\ NextTurn \notin announced
    BY <1>3, NextTurnIsFresh DEF ProviderWakes, FreshTurns, TurnInv
  <2>2. Enqueue(One("turn_started", NextTurn)) /\ UNCHANGED <<agent, cur, owner>>
    BY <1>3 DEF ProviderWakes
  <2> HIDE DEF One
  <2> QED
    BY <1>1, <2>1, <2>2
<1>4. ASSUME NEW t \in Turns, NEW type \in Endings, ProviderEnds(t, type)
      PROVE  Enqueue(One(type, t)) /\ UNCHANGED <<agent, cur, owner>> /\ type \in Terminal
  BY <1>4, BoundsAssumption DEF ProviderEnds, Terminal
<1>5. CASE ProviderDies
  <2>1. Enqueue(One("turn_failed", NoTurn)) /\ UNCHANGED <<agent, cur, owner>>
    BY <1>5 DEF ProviderDies
  <2>2. "turn_failed" \in Terminal /\ "turn_failed" # "turn_started"
    BY DEF Terminal
  <2> HIDE DEF One
  <2> QED
    BY <1>1, <2>1, <2>2
<1>6. \A type \in Terminal : type # "turn_started"
  BY DEF Terminal
<1> HIDE DEF One
<1> QED
  BY <1>1, <1>2, <1>3, <1>4, <1>5, <1>6 DEF ProviderStep

LEMMA OrderStep ==
  ASSUME Structure, OrderInv, Step
  PROVE  OrderInv'
<1> USE TypesParts DEF Structure
<1>1. ASSUME UNCHANGED <<run, cur, owner, queue, barrier.events>>, agent'.fg = agent.fg,
             barrier'.held => queue = <<>>
      PROVE  OrderInv'
  BY <1>1 DEF OrderInv, Pending, HasRun, InForeground, OpenedTurns
<1>2. ASSUME UNCHANGED <<queue, barrier>>, agent'.fg = NoTurn,
             Pending' => OpenedTurns(cur)' = {}
      PROVE  OrderInv'
  BY <1>2 DEF OrderInv
<1>3. CASE Moves
  <2>1. UNCHANGED View
    BY <1>3, LaneMovesView, CallerMovesTypes DEF Moves
  <2>2. CASE SteerAdmits
    BY <1>1, <2>1, <2>2 DEF SteerAdmits, View
  <2>3. CASE ~SteerAdmits
    <3>1. barrier' = barrier
      BY <1>3, <2>3 DEF Moves, LaneMoves, CallerMoves, CancelNothing, CancelCapture,
         InterruptFailed, CancelSettled, CancelRefused, CancelForcedDone, SteerDrain,
         SteerRejected, SteerDone, SendBusy, Stop, Steer, ReplaceRefused, ReplaceOvertaken,
         SteerReplaces, SteerOvertaken, BeginReplacement, managerVars
    <3> QED
      BY <1>1, <2>1, <3>1 DEF View, OrderInv
  <2> QED
    BY <2>2, <2>3
<1>4. CASE RunStarts \/ CancelUntracked
  <2>1. /\ FreshRuns # {} /\ cur' = NextRun /\ ~HasRun
        /\ UNCHANGED <<queue, barrier, owner>> /\ agent'.fg = agent.fg
    BY <1>4 DEF RunStarts, StreamAgent, CanStream, SendIdle, ReplaceStart, CancelUntracked,
       providerVars, ManagerTypes, Agents
  <2>2. NextRun \in Runs /\ gen[NextRun] = "none"
    BY <2>1, NextRunIsFresh DEF FreshRuns, RunInv, RunFits
  <2>3. OpenedTurns(cur)' = {}
    BY <2>1, <2>2, IdsArePositive DEF OpenedTurns, TurnInv
  <2>4. agent'.fg = NoTurn
    BY <2>1 DEF ForegroundInv, Streaming
  <2> QED
    BY <1>2, <2>1, <2>3, <2>4
<1>5. CASE InterruptAcknowledged
  BY <1>1, <1>5 DEF InterruptAcknowledged, managerVars, OrderInv
<1>6. ASSUME \/ cur' = NoRun /\ agent'.fg = NoTurn
             \/ cur' = cur /\ agent'.fg = agent.fg,
             UNCHANGED <<run, owner, queue, barrier>>
      PROVE  OrderInv'
  <2>1. cur' = NoRun => ~Pending'
    BY DEF Pending, HasRun
  <2> QED
    BY <1>1, <1>2, <1>6, <2>1 DEF OrderInv
<1>7. CASE CancelForcesTurn \/ CancelForcesAutonomous
  <2>1. TrackedTurn \in Turns \cup {NoTurn}
    BY DEF TrackedTurn, HasRun, ManagerTypes, RunObjects
  <2>2. \E turn \in Turns \cup {NoTurn} : DispatchTerminal("turn_canceled", turn)
    BY <1>7, <2>1 DEF CancelForcesTurn, CancelForcesAutonomous
  <2>3. UNCHANGED <<run, owner, queue, barrier>>
    BY <1>7 DEF CancelForcesTurn, CancelForcesAutonomous, providerVars
  <2> QED
    BY <1>6, <2>2, <2>3, DispatchKeeps DEF Terminal
<1>8. CASE CancelForcesPending
  <2>1. agent.fg = NoTurn
    <3>1. TrackedTurn = NoTurn
      BY <1>8 DEF CancelForcesPending
    <3> QED
      BY <3>1 DEF ForegroundInv, Streaming, TrackedTurn
  <2>2. agent'.fg = agent.fg /\ UNCHANGED <<run, owner, queue, barrier>>
    BY <1>8 DEF CancelForcesPending, ManagerTypes, Agents, providerVars
  <2>3. cur' = cur \/ cur' = NoRun
    BY <1>8 DEF CancelForcesPending, SettleForegroundRun, ClearRun, KeepRun
  <2> QED
    BY <1>6, <2>1, <2>2, <2>3
<1>9. ASSUME NEW accepted, SteerAnswered(accepted)
      PROVE  OrderInv'
  <2>1. UNCHANGED <<agent, cur, owner>> /\ queue = <<>>
    BY <1>9 DEF SteerAnswered, providerVars, Quiet
  <2>2. barrier'.events = <<>> /\ ~barrier'.held
    <3>1. barrier' = NoBarrier
      BY <1>9, AnsweredEffect
    <3> QED
      BY <3>1 DEF NoBarrier
  <2>3. StagingOnly /\ barrier.events \in Seq(Event) /\ queue \in Seq(Event)
    BY <1>9, AnsweredRuns, EventLists
  <2>4. CASE Pending
    <3>1. /\ cur \in Runs /\ run[cur].staged \in Seq(Event)
          /\ run'[cur].staged = run[cur].staged \o barrier.events
      BY <1>9, <2>4, AnsweredEffect, TrackedRuns, EventLists DEF Pending
    <3>2. agent.fg = NoTurn
      BY <2>4 DEF ForegroundInv, Pending, Streaming
    <3>3. \A t \in OpenedTurns(cur) : StartsOnce(run'[cur].staged, t)
      BY <2>3, <2>4, <3>1, OrderConcat DEF OrderInv
    <3>4. \A t : StartsOnce(<<>>, t) /\ StartsFirst(<<>>, t) /\ ~Starts(<<>>, t)
      BY NoEvents, NoStartFirst
    <3> QED
      BY <2>1, <2>2, <2>4, <3>2, <3>3, <3>4 DEF OrderInv, OpenedTurns
  <2>5. CASE ~Pending
    <3>1. run' = run /\ queue' = queue \o barrier.events
      BY <1>9, <2>5, AnsweredEffect
    <3>2. ~Pending'
      BY <2>1, <2>5, <3>1 DEF Pending, HasRun, InForeground
    <3>3. agent.fg # NoTurn => StartsFirst(queue', agent.fg)
      BY <2>1, <2>3, <3>1, NoEvents, NoStartFirst, OrderConcat DEF OrderInv
    <3>4. \A t : StartsFirst(<<>>, t)
      BY NoEvents, NoStartFirst
    <3> QED
      BY <2>1, <2>2, <3>2, <3>3, <3>4 DEF OrderInv
  <2> QED
    BY <2>4, <2>5
<1>10. ASSUME NEW r \in Runs, GeneratorStep(r)
       PROVE  OrderInv'
  <2>1. UNCHANGED owner
    BY <1>10 DEF GeneratorStep, CallStartTurn, StartResolved, StartCanceled, StartFailed,
       StartStale, StreamEnds, providerVars
  <2>2. CASE CallStartTurn(r)
    BY <1>1, <2>1, <2>2 DEF CallStartTurn, OrderInv
  <2>3. CASE StartResolved(r)
    <3> PICK t \in OpenedTurns(r), staged \in Seq(Event) :
           /\ staged = Without(run[r].staged, [type |-> "turn_started", turn |-> t])
           /\ agent'.fg = t
           /\ \/ /\ barrier.held /\ barrier'.events = barrier.events \o staged
                 /\ queue' = queue
              \/ /\ ~barrier.held /\ queue' = queue \o staged
                 /\ barrier' = barrier
      BY <2>3, ResolvedEvents
    <3>1. r = cur /\ Pending /\ t \in Turns
      BY <2>3, StartingRun DEF StartResolved, OpenedTurns
    <3>2. ~Pending'
      BY <2>3, <3>1, ResolvedRuns DEF Pending
    <3>3. queue = <<>> /\ run[r].staged \in Seq(Event) /\ barrier.events \in Seq(Event)
      BY <2>3, EventLists DEF StartResolved, Quiet
    <3>4. ~Starts(staged, t) /\ StartsFirst(staged, t) /\ StartsFirst(barrier.events, t)
      BY <3>1, <3>3, WithoutStart, NoStartFirst DEF OrderInv
    <3>5. CASE barrier.held
      <4>1. StartsFirst(barrier'.events, t)
        BY <3>3, <3>4, <3>5, OrderConcat
      <4> QED
        BY <3>2, <3>3, <3>5, <4>1, NoEvents, NoStartFirst DEF OrderInv
    <3>6. CASE ~barrier.held
      <4>1. queue \in Seq(Event) /\ StartsFirst(queue, t) /\ ~Ends(queue, t)
        BY <3>3, NoEvents, NoStartFirst, EventLists
      <4>2. StartsFirst(queue', t)
        BY <3>4, <3>6, <4>1, OrderConcat
      <4> QED
        BY <3>2, <3>4, <3>6, <4>2 DEF OrderInv
    <3> QED
      BY <3>5, <3>6
  <2>4. CASE StartCanceled(r) \/ StreamEnds(r)
    <3>1. /\ r \in settled /\ run' = [run EXCEPT ![r] = CollectedRun]
          /\ UNCHANGED <<queue, agent, barrier>>
      BY <2>4 DEF StartCanceled, StreamEnds, RunInv
    <3>2. r # cur
      BY <3>1, TrackedRuns, IdsArePositive DEF HasRun
    <3>3. cur' = cur
      BY <2>4, <3>2 DEF StartCanceled, StreamEnds, SettleForegroundRun, KeepRun
    <3>4. HasRun => run'[cur] = run[cur]
      BY <3>1, <3>2, TrackedRuns DEF ManagerTypes
    <3> QED
      BY <2>1, <3>1, <3>3, <3>4 DEF OrderInv, Pending, HasRun, InForeground, OpenedTurns
  <2>5. CASE StartFailed(r) \/ StartStale(r)
    <3>1. cur' = NoRun /\ agent'.fg = NoTurn /\ UNCHANGED <<queue, barrier>>
      BY <2>5, FailedEffect
    <3> QED
      BY <1>2, <3>1 DEF Pending, HasRun
  <2> QED
    BY <1>10, <2>2, <2>3, <2>4, <2>5 DEF GeneratorStep
<1>11. CASE QueueStep
  <2>1. /\ UNCHANGED <<owner, barrier>> /\ queue # <<>> /\ queue' = Tail(queue)
        /\ queue \in Seq(Event) /\ ~barrier.held
    BY <1>11, EventLists DEF QueueStep, ProcessTerminal, ProcessStartedSuppressed,
       ProcessStarted, providerVars, OrderInv
  <2>2. ASSUME UNCHANGED <<cur, run>>, agent'.fg = agent.fg
        PROVE  OrderInv'
    <3>1. agent.fg # NoTurn => StartsFirst(Tail(queue), agent.fg)
      BY <2>1, OrderTail DEF OrderInv
    <3> QED
      BY <2>1, <2>2, <3>1 DEF OrderInv, Pending, HasRun, InForeground, OpenedTurns
  <2>3. CASE ProcessTerminal
    <3>1. /\ Head(queue).type \in Terminal /\ Head(queue).turn \in Turns \cup {NoTurn}
          /\ DispatchTerminal(Head(queue).type, Head(queue).turn) /\ run' = run
      BY <2>1, <2>3, HeadOfQueue DEF ProcessTerminal, Event
    <3>2. CASE cur' = NoRun /\ agent'.fg = NoTurn
      BY <2>1, <3>2 DEF OrderInv, Pending, HasRun
    <3> QED
      BY <2>2, <3>1, <3>2, DispatchKeeps
  <2>4. CASE ProcessStartedSuppressed
    BY <2>2, <2>4 DEF ProcessStartedSuppressed
  <2>5. CASE ProcessStarted
    <3>1. agent.fg = NoTurn /\ agent'.fg = NoTurn
      BY <2>5 DEF ProcessStarted, ManagerTypes, Agents
    <3>2. CASE HasRun
      BY <2>2, <2>5, <3>1, <3>2 DEF ProcessStarted
    <3>3. CASE ~HasRun
      <4> DEFINE new == [UnusedRun EXCEPT !.kind = "autonomous", !.turn = Head(queue).turn]
      <4>1. NextRun \in Runs /\ cur' = NextRun /\ run' = [run EXCEPT ![NextRun] = new]
        BY <2>5, <3>3, NextRunIsFresh DEF ProcessStarted, FreshRuns
      <4>2. new.kind = "autonomous"
        BY DEF UnusedRun
      <4> HIDE DEF new
      <4>3. ~Pending'
        BY <4>1, <4>2 DEF ManagerTypes, Pending, InForeground
      <4> QED
        BY <2>1, <3>1, <4>3 DEF OrderInv
    <3> QED
      BY <3>2, <3>3
  <2> QED
    BY <1>11, <2>3, <2>4, <2>5 DEF QueueStep
<1>12. ASSUME NEW r \in Runs, ProviderOpens(r)
       PROVE  OrderInv'
  <2>1. /\ NextTurn \in Turns /\ prov[NextTurn] = "unused" /\ NextTurn \notin announced
        /\ owner[NextTurn] = NoRun
    BY <1>12, NextTurnIsFresh DEF ProviderOpens, FreshTurns, TurnInv
  <2>2. \A t \in Turns : t # NextTurn => owner'[t] = owner[t]
    BY <1>12, <2>1 DEF ProviderOpens, ProviderTypes
  <2>3. UNCHANGED <<agent, run, cur, queue, barrier>>
    BY <1>12 DEF ProviderOpens, managerVars
  <2>4. ~Starts(barrier.events, NextTurn) /\ (HasRun => ~Starts(run[cur].staged, NextTurn))
    BY <2>1, TrackedRuns DEF EventInv, Reported
  <2>5. Pending => \A t \in OpenedTurns(cur)' : t = NextTurn \/ t \in OpenedTurns(cur)
    BY <2>2, <2>3 DEF OpenedTurns
  <2> QED
    BY <2>3, <2>4, <2>5, NoStartFirst DEF OrderInv, Pending, HasRun, InForeground
<1>13. CASE ProviderStep /\ ~\E r \in Runs : ProviderOpens(r)
  <2> PICK es \in Seq(Event) :
         /\ Enqueue(es) /\ UNCHANGED <<agent, cur, owner>>
         /\ \A t : StartsFirst(es, t) /\ StartsOnce(es, t)
         /\ \A t \in Turns : Starts(es, t) =>
              /\ ~Ends(queue, t) /\ ~Ends(barrier.events, t)
              /\ \A r \in Runs : ~Starts(run[r].staged, t)
              /\ ~Starts(barrier.events, t)
    BY <1>13, ProvidedOrder
  <2>1. /\ queue \in Seq(Event) /\ barrier.events \in Seq(Event)
        /\ HasRun => cur \in Runs /\ run[cur].staged \in Seq(Event)
    BY EventLists, TrackedRuns
  <2>2. HasRun => /\ run'[cur].kind = run[cur].kind /\ run'[cur].start = run[cur].start
    BY EnqueueRuns, TrackedRuns DEF StagingOnly
  <2>3. Pending' <=> Pending
    BY <2>2 DEF Pending, HasRun, InForeground
  <2>4. OpenedTurns(cur)' = OpenedTurns(cur) /\ OpenedTurns(cur) \subseteq Turns
    BY DEF OpenedTurns
  <2>5. agent.fg # NoTurn => agent.fg \in Turns /\ ~Pending
    BY DEF ForegroundInv, Streaming, Pending, ManagerTypes, Agents
  <2>6. CASE barrier.held /\ barrier'.events = barrier.events \o es /\ UNCHANGED <<run, queue>>
    <3>1. \A t \in Turns : /\ StartsFirst(barrier.events, t) => StartsFirst(barrier'.events, t)
                           /\ StartsOnce(barrier.events, t) => StartsOnce(barrier'.events, t)
                           /\ Starts(barrier'.events, t) => Starts(barrier.events, t) \/ Starts(es, t)
      BY <2>1, <2>6, OrderConcat, ConcatEvents
    <3>2. Pending => \A t \in Turns : Starts(es, t) => ~Starts(run[cur].staged, t)
      BY <2>1 DEF Pending
    <3> QED
      BY <2>3, <2>4, <2>5, <2>6, <3>1, <3>2 DEF OrderInv
  <2>7. CASE ~barrier.held /\ Pending /\ run'[cur].staged = run[cur].staged \o es
             /\ UNCHANGED <<barrier, queue>>
    <3>1. cur \in Runs /\ run[cur].staged \in Seq(Event)
      BY <2>1, <2>7 DEF Pending
    <3>2. \A t \in Turns :
            /\ StartsOnce(run[cur].staged, t) => StartsOnce(run'[cur].staged, t)
            /\ Starts(run'[cur].staged, t) => Starts(run[cur].staged, t) \/ Starts(es, t)
      BY <2>7, <3>1, OrderConcat, ConcatEvents
    <3> QED
      BY <2>3, <2>4, <2>5, <2>7, <3>2 DEF OrderInv
  <2>8. CASE ~barrier.held /\ ~Pending /\ queue' = queue \o es /\ UNCHANGED <<barrier, run>>
    <3>1. \A t \in Turns : StartsFirst(queue, t) => StartsFirst(queue', t)
      BY <2>1, <2>8, OrderConcat
    <3> QED
      BY <2>3, <2>5, <2>8, <3>1 DEF OrderInv
  <2> QED
    BY <2>6, <2>7, <2>8, EnqueueEffect
<1> QED
  BY <1>3, <1>4, <1>5, <1>7, <1>8, <1>9, <1>10, <1>11, <1>12, <1>13, StepKinds

Finished(t) == prov[t] \notin {"unused", "live"} /\ agent.turn # t /\ ~StartsInSight(t)
FinishedInv == \A t \in Turns : IsFinalized(agent, t) => Finished(t) \/ Forsaken(t)

\* A turn keeps the run that opened it.
LEMMA OwnerStays ==
  ASSUME Structure, Step, NEW t \in Turns, prov[t] # "unused"
  PROVE  owner'[t] = owner[t]
<1> USE TypesParts DEF Structure
<1>1. ASSUME NEW r \in Runs, ProviderOpens(r)
      PROVE  owner'[t] = owner[t]
  <2>1. NextTurn \in Turns /\ prov[NextTurn] = "unused"
    BY <1>1, NextTurnIsFresh DEF ProviderOpens, FreshTurns
  <2> QED
    BY <1>1, <2>1 DEF ProviderOpens, ProviderTypes
<1>2. CASE Moves
  <2>1. UNCHANGED View
    BY <1>2, LaneMovesView, CallerMovesTypes DEF Moves
  <2> QED
    BY <2>1 DEF View
<1>3. CASE \/ RunStarts \/ CancelUntracked \/ InterruptAcknowledged \/ CancelForcesTurn
           \/ CancelForcesPending \/ CancelForcesAutonomous \/ QueueStep
           \/ \E accepted \in BOOLEAN : SteerAnswered(accepted)
           \/ \E r \in Runs : GeneratorStep(r)
  BY <1>3 DEF RunStarts, SendIdle, ReplaceStart, CancelUntracked, InterruptAcknowledged,
     CancelForcesTurn, CancelForcesPending, CancelForcesAutonomous, QueueStep, ProcessTerminal,
     ProcessStartedSuppressed, ProcessStarted, SteerAnswered, GeneratorStep, CallStartTurn,
     StartResolved, StartCanceled, StartFailed, StartStale, StreamEnds, providerVars
<1>4. CASE \/ ProviderWakes \/ \E u \in Turns : ProviderAnnounces(u)
           \/ \E u \in Turns, type \in Endings : ProviderEnds(u, type)
           \/ ProviderDies
  BY <1>4 DEF ProviderWakes, ProviderAnnounces, ProviderEnds, ProviderDies
<1> QED
  BY <1>1, <1>2, <1>3, <1>4, StepKinds DEF ProviderStep

\* The owner of a finished turn is known.
LEMMA FinishedOwner ==
  ASSUME Structure, Step, Record, NEW t \in Turns, IsFinalized(agent, t), Forsaken(t)
  PROVE  Forsaken(t)'
<1>1. prov[t] # "unused"
  BY DEF Structure, FinalizedInv, TurnInv
<1> QED
  BY <1>1, OwnerStays, ForsakenStays DEF Structure

LEMMA FinishedFrame ==
  ASSUME Structure, FinishedInv, Step, Record,
         \A t \in Turns : IsFinalized(agent', t) => IsFinalized(agent, t),
         \A t \in Turns : prov'[t] = prov[t] \/ prov'[t] \in {"stopped", "over"}
                            \/ prov[t] \in {"unused", "live"},
         \/ agent'.turn \in {agent.turn, NoTurn} \/ ~IsFinalized(agent, agent'.turn)
         \/ Forsaken(agent'.turn)
  PROVE  FinishedInv'
<1> USE DEF Structure
<1> SUFFICES ASSUME NEW t \in Turns, IsFinalized(agent', t)
             PROVE  Finished(t)' \/ Forsaken(t)'
  BY DEF FinishedInv
<1>1. IsFinalized(agent, t) /\ t # NoTurn
  BY IdsArePositive
<1>2. CASE Forsaken(t)
  BY <1>1, <1>2, FinishedOwner
<1>3. CASE ~Forsaken(t)
  <2>1. prov[t] \notin {"unused", "live"} /\ agent.turn # t /\ ~StartsInSight(t)
    BY <1>1, <1>3 DEF FinishedInv, Finished
  <2>2. ~StartsInSight(t)'
    BY <2>1, NoNewEvents, ProvidedEvents
  <2>3. prov'[t] \notin {"unused", "live"} /\ agent'.turn # t
    BY <1>1, <1>3, <2>1
  <2> QED
    BY <2>2, <2>3 DEF Finished
<1> QED
  BY <1>2, <1>3

\* The terminal event of the foreground turn leaves nothing of it to process.
LEMMA FinishedNow ==
  ASSUME Structure, FinishedInv, Step, Record, NEW u \in Turns, EndsForeground(u),
         agent'.turn # u, agent'.turn \in {agent.turn, NoTurn}, prov' = prov,
         (prov[u] \notin {"unused", "live"} /\ ~StartsInSight(u)') \/ Forsaken(u)'
  PROVE  FinishedInv'
<1> USE DEF Structure
<1> SUFFICES ASSUME NEW t \in Turns, IsFinalized(agent', t), t # u
             PROVE  Finished(t)' \/ Forsaken(t)'
  BY DEF FinishedInv, Finished
<1>1. IsFinalized(agent, t) /\ t # NoTurn
  BY IdsArePositive DEF EndsForeground
<1>2. CASE Forsaken(t)
  BY <1>1, <1>2, FinishedOwner
<1>3. CASE ~Forsaken(t)
  <2>1. prov[t] \notin {"unused", "live"} /\ agent.turn # t /\ ~StartsInSight(t)
    BY <1>1, <1>3 DEF FinishedInv, Finished
  <2>2. ~StartsInSight(t)'
    BY <2>1, NoNewEvents, ProvidedEvents
  <2> QED
    BY <1>1, <2>1, <2>2 DEF Finished
<1> QED
  BY <1>2, <1>3

LEMMA FinishedDispatch ==
  ASSUME Structure, FinishedInv, Step, Record,
         NEW type \in Terminal, NEW turn \in Turns \cup {NoTurn}, DispatchTerminal(type, turn),
         UNCHANGED prov,
         \A u \in Turns : Streaming /\ agent.fg = u /\ cur' = NoRun /\ cur \in settled' =>
           Forsaken(u)' \/ (prov[u] \notin {"unused", "live"} /\ ~StartsInSight(u)')
  PROVE  FinishedInv'
<1> USE DEF Structure
<1> DEFINE t == Identified(type, turn)
<1>1. \A u \in Turns : prov'[u] = prov[u]
  OBVIOUS
<1>2. CASE Duplicate(t)
  BY <1>1, <1>2, FinishedFrame DEF Duplicate
<1>3. CASE Handled(t) /\ EndsForeground(t)
  <2>1. t \in Turns /\ agent.fg = t /\ cur' = NoRun /\ cur \in settled' /\ Streaming
    BY <1>3 DEF EndsForeground
  <2> PICK u \in Turns : u = t
    BY <2>1
  <2>3. agent'.turn # u /\ agent'.turn \in {agent.turn, NoTurn} /\ EndsForeground(u)
    BY <1>3, IdsArePositive DEF Handled
  <2> HIDE DEF t
  <2>2. Forsaken(u)' \/ (prov[u] \notin {"unused", "live"} /\ ~StartsInSight(u)')
    BY <2>1
  <2> QED
    BY <2>2, <2>3, FinishedNow
<1>4. CASE Handled(t) /\ (EndsAutonomous(t) \/ EndsNothing(t))
  <2>1. \A u \in Turns : IsFinalized(agent', u) => IsFinalized(agent, u)
    BY <1>4 DEF EndsAutonomous, EndsNothing, KeepsForeground, IsFinalized
  <2> QED
    BY <1>1, <1>4, <2>1, FinishedFrame DEF Handled
<1> QED
  BY <1>2, <1>3, <1>4, DispatchEffect

LEMMA FinishedStep ==
  ASSUME Structure, AckInv, OrderInv, FinishedInv, Step, Record
  PROVE  FinishedInv'
<1> USE TypesParts DEF Structure
<1>1. ASSUME agent'.finalized = agent.finalized, agent'.turn \in {agent.turn, NoTurn},
             \A t \in Turns : prov'[t] = prov[t] \/ prov'[t] \in {"stopped", "over"}
                                \/ prov[t] \in {"unused", "live"}
      PROVE  FinishedInv'
  BY <1>1, FinishedFrame DEF IsFinalized
<1>2. CASE Moves
  <2>1. UNCHANGED View
    BY <1>2, LaneMovesView, CallerMovesTypes DEF Moves
  <2> QED
    BY <1>1, <2>1 DEF View
<1>3. CASE \/ RunStarts \/ CancelUntracked \/ InterruptAcknowledged \/ CancelForcesPending
           \/ \E accepted \in BOOLEAN : SteerAnswered(accepted)
  <2>1. /\ agent'.finalized = agent.finalized /\ agent'.turn = agent.turn
        /\ prov' = prov \/ InterruptAcknowledged
    BY <1>3 DEF RunStarts, StreamAgent, SendIdle, ReplaceStart, CancelUntracked,
       InterruptAcknowledged, CancelForcesPending, SteerAnswered, managerVars, providerVars,
       ManagerTypes, Agents
  <2>2. InterruptAcknowledged =>
          \A t \in Turns : prov'[t] = prov[t] \/ prov'[t] = "stopped"
    BY DEF InterruptAcknowledged
  <2> QED
    BY <1>1, <2>1, <2>2
<1>4. CASE CancelForcesTurn \/ CancelForcesAutonomous
  <2> PICK turn \in Turns \cup {NoTurn} : turn = TrackedTurn
    BY DEF TrackedTurn, HasRun, ManagerTypes, RunObjects
  <2>1. "turn_canceled" \in Terminal
    BY DEF Terminal
  <2>2. /\ DispatchTerminal("turn_canceled", turn) /\ UNCHANGED <<prov, run, queue, barrier>>
        /\ TimedOutAcknowledged
    BY <1>4 DEF CancelForcesTurn, CancelForcesAutonomous, providerVars
  <2>3. op.acked /\ op.run = cur
    BY <2>2, CapturedRun DEF TimedOutAcknowledged, AtHead, RunSettled
  <2>4. queue = <<>> /\ barrier.events = <<>>
    BY <2>2 DEF TimedOutAcknowledged, Quiet, AtHead, LaneInv, BarrierInv
  <2>5. ASSUME NEW u \in Turns, Streaming, agent.fg = u, cur' = NoRun
        PROVE  Forsaken(u)' \/ (prov[u] \notin {"unused", "live"} /\ ~StartsInSight(u)')
    <3>0. u = run[cur].turn
      BY <2>5, IdsArePositive DEF ForegroundInv
    <3>1. owner[u] = cur /\ cur # NoRun
      BY <2>5, <3>0, TrackedRuns, UsedRuns DEF Streaming, InForeground, HasRun
    <3>2. prov[u] # "unused" /\ (prov[u] = "live" => Forsaken(u))
      BY <2>3, <3>1, AckedRun DEF TurnInv
    <3>3. Forsaken(u) => Forsaken(u)'
      BY <3>2, OwnerStays, ForsakenStays
    <3>4. ~StartsInSight(u)'
      BY <2>2, <2>4, <2>5, NoEvents DEF StartsInSight, Pending, HasRun
    <3> QED
      BY <3>2, <3>3, <3>4
  <2> QED
    BY <2>1, <2>2, <2>5, FinishedDispatch
<1>5. ASSUME NEW r \in Runs, GeneratorStep(r)
      PROVE  FinishedInv'
  <2>1. UNCHANGED prov
    BY <1>5 DEF GeneratorStep, CallStartTurn, StartResolved, StartCanceled, StartFailed,
       StartStale, StreamEnds, providerVars
  <2>2. CASE StartResolved(r)
    <3> PICK t \in OpenedTurns(r) : agent'.turn = t /\ agent'.finalized = agent.finalized
      BY <2>2, ResolvedRuns
    <3>1. ~IsFinalized(agent, t)
      BY <2>2 DEF StartResolved, FinalizedInv, OpenedTurns
    <3> QED
      BY <2>1, <3>1, FinishedFrame DEF IsFinalized
  <2>3. CASE StartFailed(r) \/ StartStale(r)
    BY <1>1, <2>1, <2>3, FailedEffect
  <2>4. CASE CallStartTurn(r) \/ StartCanceled(r) \/ StreamEnds(r)
    BY <1>1, <2>1, <2>4 DEF CallStartTurn, StartCanceled, StreamEnds
  <2> QED
    BY <1>5, <2>2, <2>3, <2>4 DEF GeneratorStep
<1>6. CASE QueueStep
  <2>1. /\ UNCHANGED <<prov, barrier>> /\ queue # <<>> /\ queue' = Tail(queue)
        /\ queue \in Seq(Event) /\ ~barrier.held
    BY <1>6, EventLists DEF QueueStep, ProcessTerminal, ProcessStartedSuppressed,
       ProcessStarted, providerVars, OrderInv
  <2>2. CASE ProcessTerminal
    <3> PICK type \in Terminal, turn \in Turns \cup {NoTurn} :
           type = Head(queue).type /\ turn = Head(queue).turn
      BY <2>1, <2>2, HeadOfQueue DEF ProcessTerminal, Event
    <3>1. DispatchTerminal(type, turn)
      BY <2>2 DEF ProcessTerminal
    <3>2. ASSUME NEW u \in Turns, Streaming, agent.fg = u, cur' = NoRun, cur \in settled',
                 turn = NoTurn
          PROVE  Forsaken(u)'
      <4>0. u = run[cur].turn
        BY <3>2, IdsArePositive DEF ForegroundInv
      <4>1. owner[u] = cur /\ cur \notin settled /\ prov[u] # "unused"
        BY <3>2, <4>0, TrackedRuns, UsedRuns, IdsArePositive DEF Streaming, InForeground, HasRun,
           TurnInv
      <4>2. cur \in mistaken' /\ owner'[u] = owner[u]
        BY <2>2, <3>2, <4>1, MistakenRuns, OwnerStays
      <4> QED
        BY <4>1, <4>2, IdsArePositive DEF Forsaken
    <3>3. ASSUME NEW u \in Turns, Streaming, agent.fg = u, cur' = NoRun, cur \in settled',
                 turn # NoTurn
          PROVE  prov[u] \notin {"unused", "live"} /\ ~StartsInSight(u)'
      <4>1. u = turn
        <5> DEFINE t == Identified(type, turn)
        <5>1. EndsForeground(t)
          BY <3>1, <3>3, DispatchEffect, TrackedRuns DEF Duplicate, EndsAutonomous, EndsNothing,
             Streaming
        <5> QED
          BY <3>3, <5>1 DEF EndsForeground, Identified, IdentifiedTurn
      <4>2. IsEnd(Head(queue), turn)
        BY <3>1 DEF IsEnd
      <4>3. prov[turn] = "over"
        BY <2>1, <3>1, <3>3, <4>2, TailEvents DEF EventInv, Reported
      <4>4. ~Starts(Tail(queue), turn)
        BY <2>1, <3>3, <4>1, <4>2, OrderTail DEF OrderInv
      <4>5. barrier.events = <<>>
        BY <2>1 DEF LaneInv, BarrierInv
      <4>6. ~StartsInSight(turn)'
        BY <2>1, <3>3, <4>4, <4>5, NoEvents DEF StartsInSight, Pending, HasRun
      <4> QED
        BY <4>1, <4>3, <4>6
    <3> QED
      BY <2>1, <3>1, <3>2, <3>3, FinishedDispatch
  <2>3. CASE ProcessStartedSuppressed
    BY <1>1, <2>1, <2>3 DEF ProcessStartedSuppressed
  <2>4. CASE ProcessStarted
    <3>1. agent'.turn = Head(queue).turn /\ agent'.finalized = agent.finalized
      BY <2>4 DEF ProcessStarted, ManagerTypes, Agents
    <3>2. Head(queue).turn \in Turns \cup {NoTurn}
      BY <2>1, HeadOfQueue DEF Event
    <3>3. StartsInSight(Head(queue).turn)
      BY <2>1, <2>4, TailEvents DEF ProcessStarted, StartsInSight, IsStart
    <3>4. agent'.turn = NoTurn \/ ~IsFinalized(agent, agent'.turn) \/ Forsaken(agent'.turn)
      BY <3>1, <3>2, <3>3 DEF FinishedInv, Finished
    <3> QED
      BY <2>1, <3>1, <3>4, FinishedFrame DEF IsFinalized
  <2> QED
    BY <1>6, <2>2, <2>3, <2>4 DEF QueueStep
<1>7. CASE ProviderStep
  <2>1. agent' = agent
    BY <1>7 DEF ProviderStep, ProviderOpens, ProviderAnnounces, ProviderWakes, ProviderEnds,
       ProviderDies, managerVars
  <2>2. NextTurn \in FreshTurns \/ FreshTurns = {}
    BY NextTurnIsFresh
  <2>3. \A t \in Turns : prov'[t] = prov[t] \/ prov'[t] \in {"stopped", "over"}
                           \/ prov[t] \in {"unused", "live"}
    BY <1>7, <2>2 DEF ProviderStep, ProviderOpens, ProviderAnnounces, ProviderWakes,
       ProviderEnds, ProviderDies, FreshTurns, ProviderTypes
  <2> QED
    BY <1>1, <2>1, <2>3
<1> QED
  BY <1>2, <1>3, <1>4, <1>5, <1>6, <1>7, StepKinds

\* An acknowledged cancellation never returns before the run it captured is
\* settled: neither the run it forces nor the event it makes up can miss it,
\* unless the active turn is forsaken.
THEOREM AcknowledgedSettles == Spec => AcknowledgedCancelSettles
<1>1. Init => OrderInv /\ FinishedInv
  BY NoEvents, NoStartFirst DEF Init, OrderInv, FinishedInv, IsFinalized, Pending, HasRun, NoBarrier
<1>3. Structure /\ AckInv /\ OrderInv /\ FinishedInv /\ [Next]_<<vars, histories>>
        => AckInv' /\ OrderInv' /\ FinishedInv'
  <2> SUFFICES ASSUME Structure, AckInv, OrderInv, FinishedInv, [Next]_<<vars, histories>>
               PROVE  AckInv' /\ OrderInv' /\ FinishedInv'
    OBVIOUS
  <2>1. CASE UNCHANGED <<vars, histories>>
    <3>1. UNCHANGED <<agent, cur, run, settled, gen, queue, barrier, op, prov, owner, doomed,
                      announced, uncovered, mistaken>>
      BY <2>1 DEF vars, managerVars, laneVars, providerVars, histories
    <3> QED
      BY <3>1 DEF AckInv, Covered, OrderInv, FinishedInv, Finished, Forsaken, OpenedTurns,
         StartsInSight, Pending, HasRun, InForeground, IsFinalized
  <2>2. CASE Step /\ Record
    BY <2>2, AckStep, OrderStep, FinishedStep
  <2> QED
    BY <2>1, <2>2 DEF Next
<1>4. Structure /\ FinishedInv /\ [Next]_<<vars, histories>>
        => [op.acked /\ Len(lane') < Len(lane) /\ ~Forsaken(agent.turn)
              => op.run \in settled']_vars
  <2> SUFFICES ASSUME Structure, FinishedInv, Step, op.acked, Len(lane') < Len(lane),
                      ~Forsaken(agent.turn)
               PROVE  op.run \in settled'
    BY StepOrStutter
  <2> USE TypesParts DEF Structure
  <2>1. op.phase \in {"settling", "forced"} /\ lane \in Lanes
    BY DEF LaneInv, OpInv, LaneTypes
  <2>2. op.run \in Runs /\ (op.run \notin settled => op.run = cur)
    BY <2>1, CapturedRun
  <2>3. \/ CancelSettled \/ CancelForcedDone \/ CancelForcesPending \/ CancelForcesAutonomous
    <3>1. lane' # lane
      OBVIOUS
    <3>2. ASSUME NEW c \in Callers, CallerStep(c)
          PROVE  FALSE
      <4>1. lane' = lane \/ \E e \in Entries : lane' = Append(lane, e)
        BY <3>2 DEF CallerStep, SendIdle, SendBusy, Stop, Steer, ReplaceRefused, ReplaceStart,
           ReplaceOvertaken, SteerReplaces, SteerOvertaken, BeginReplacement, laneVars, Entries
      <4>2. \A e \in Entries : Len(Append(lane, e)) = Len(lane) + 1 /\ Len(lane) \in Nat
        BY <2>1 DEF Lanes
      <4> QED
        BY <4>1, <4>2
    <3>3. ~QueueStep /\ ~ProviderStep /\ \A r \in Runs : ~GeneratorStep(r)
      BY <3>1 DEF QueueStep, ProviderStep, GeneratorStep, ProcessTerminal,
         ProcessStartedSuppressed, ProcessStarted, ProviderOpens, ProviderAnnounces,
         ProviderWakes, ProviderEnds, ProviderDies, CallStartTurn, StartResolved,
         StartCanceled, StartFailed, StartStale, StreamEnds, laneVars
    <3>4. LaneStep
      BY <3>2, <3>3 DEF Step
    <3> QED
      BY <2>1, <3>1, <3>4 DEF LaneStep, CancelNothing, CancelCapture, CancelUntracked,
         InterruptAcknowledged, InterruptFailed, CancelRefused, CancelForcesTurn, SteerDrain,
         SteerAdmits, SteerRejected, SteerDone, SteerAnswered, AtHead
  <2>4. CASE CancelSettled \/ CancelForcedDone
    BY <2>4 DEF CancelSettled, CancelForcedDone, RunSettled, managerVars
  <2>5. CASE CancelForcesPending
    BY <2>2, <2>5 DEF CancelForcesPending, TimedOutAcknowledged, RunSettled,
       SettleForegroundRun, ClearRun
  <2>6. CASE CancelForcesAutonomous
    <3> DEFINE t == Identified("turn_canceled", NoTurn)
    <3>1. /\ op.run = cur /\ ~InForeground(cur) /\ TrackedTurn = NoTurn
          /\ DispatchTerminal("turn_canceled", NoTurn) /\ "turn_canceled" \in Terminal
      BY <2>2, <2>6 DEF CancelForcesAutonomous, TimedOutAcknowledged, RunSettled, Terminal
    <3>2. HasRun /\ run[cur].turn = NoTurn
      BY <2>2, <3>1, IdsArePositive DEF TrackedTurn, HasRun
    <3>3. agent.fg = NoTurn
      BY <3>1 DEF ForegroundInv, Streaming
    <3>4. t = agent.turn /\ agent.turn \in Turns \cup {NoTurn}
      BY <3>3 DEF Identified, IdentifiedTurn, ManagerTypes, Agents
    <3>5. ~Duplicate(t)
      BY <3>4 DEF Duplicate, FinishedInv, Finished
    <3>6. ~EndsForeground(t) /\ ~EndsNothing(t)
      BY <3>1, <3>2 DEF EndsForeground, Streaming, EndsNothing
    <3> HIDE DEF t
    <3>7. EndsAutonomous(t)
      BY <3>1, <3>5, <3>6, DispatchEffect DEF t
    <3> QED
      BY <3>1, <3>7 DEF EndsAutonomous
  <2> QED
    BY <2>3, <2>4, <2>5, <2>6
<1> QED
  BY <1>1, <1>3, <1>4, AckInit, Structured, PTL DEF Spec, AcknowledgedCancelSettles

===============================================================================
