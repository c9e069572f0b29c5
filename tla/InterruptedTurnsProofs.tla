----------------------- MODULE InterruptedTurnsProofs -----------------------
(***************************************************************************)
(* One interruption has one continuation, and the marker is that of the    *)
(* turn that runs or was cut short, for every set of clients and prompts   *)
(* and every number of runs, steers and stops.                             *)
(***************************************************************************)
EXTENDS InterruptedTurns, SequenceTheorems, TLAPS

-----------------------------------------------------------------------------
(* The write queue, by itself: d is the daemon, w the queue and p where the  *)
(* clients stand.                                                            *)

States == {"idle", "claiming", "claimed", "waiting", "restoring", "dismissing"}
Awaiting == {"claiming", "restoring", "dismissing"}

Awaits(job, p) ==
  <<job.kind, p[job.client]>> \in
    {<<"claim", "claiming">>, <<"restore", "restoring">>, <<"dismiss", "dismissing">>}

Awaited(d, w, p) ==
  \A i \in DOMAIN w :
    /\ w[i].kind \in {"claim", "restore"} => w[i].client # NoClient
    /\ d = "up" /\ w[i].client # NoClient =>
         /\ Awaits(w[i], p)
         /\ \A j \in DOMAIN w : w[j].client = w[i].client => i = j

\* Awaited is JobsAreAwaited with its variables as parameters.
LEMMA AwaitedIsIt == JobsAreAwaited <=> Awaited(daemon, writes, pc)
BY DEF JobsAreAwaited, Awaited, Awaits

\* Clients that wait for no job may go anywhere.
LEMMA OthersMove ==
  ASSUME NEW d, NEW w \in Seq(Jobs), NEW p \in [Clients -> States], Awaited(d, w, p),
         NEW q, \A c \in Clients : p[c] \in Awaiting => q[c] = p[c]
  PROVE  Awaited(d, w, q)
<1> SUFFICES ASSUME NEW i \in DOMAIN w, d = "up", w[i].client # NoClient
             PROVE  Awaits(w[i], q)
  BY DEF Awaited
<1>1. w[i] \in Jobs
  OBVIOUS
<1>2. w[i].client \in Clients
  BY <1>1 DEF Jobs
<1>3. Awaits(w[i], p)
  BY DEF Awaited
<1> QED
  BY <1>2, <1>3 DEF Awaits, Awaiting

\* Jobs that no client waits for may be added.
LEMMA MoreUnawaited ==
  ASSUME NEW d, NEW w \in Seq(Jobs), NEW p, Awaited(d, w, p), NEW more \in Seq(Jobs),
         \A i \in DOMAIN more : more[i].client = NoClient /\ more[i].kind \notin {"claim", "restore"}
  PROVE  Awaited(d, w \o more, p)
<1> DEFINE v == w \o more
<1>1. \A i \in DOMAIN v :
        \/ i \in DOMAIN w /\ v[i] = w[i]
        \/ v[i].client = NoClient /\ v[i].kind \notin {"claim", "restore"}
  <2> SUFFICES ASSUME NEW i \in DOMAIN v, i \notin DOMAIN w
               PROVE  v[i].client = NoClient /\ v[i].kind \notin {"claim", "restore"}
    OBVIOUS
  <2>1. i - Len(w) \in DOMAIN more /\ v[i] = more[i - Len(w)]
    OBVIOUS
  <2> QED
    BY <2>1
<1> HIDE DEF v
<1> QED
  BY <1>1 DEF Awaited, v

\* A client that waits for no job may queue one and wait for it.
LEMMA Request ==
  ASSUME NEW w \in Seq(Jobs), NEW p \in [Clients -> States], Awaited("up", w, p),
         NEW c \in Clients, p[c] \notin Awaiting,
         NEW job \in Jobs, job.client = c, NEW q, Awaits(job, [p EXCEPT ![c] = q])
  PROVE  Awaited("up", Append(w, job), [p EXCEPT ![c] = q])
<1> DEFINE v == Append(w, job)
           r == [p EXCEPT ![c] = q]
<1>1. Awaited("up", w, r)
  BY OthersMove
<1>2. \A i \in DOMAIN w : w[i].client # c
  BY PromptAssumption DEF Awaited, Awaits, Awaiting
<1>3. \A i \in DOMAIN v : \/ i \in DOMAIN w /\ v[i] = w[i]
                          \/ i = Len(w) + 1 /\ v[i] = job
  OBVIOUS
<1>4. c # NoClient
  BY PromptAssumption
<1>5. Awaits(job, r)
  OBVIOUS
<1> HIDE DEF v, r
<1>6. Awaited("up", v, r)
  BY <1>1, <1>2, <1>3, <1>4, <1>5 DEF Awaited
<1> QED
  BY <1>6 DEF v, r

\* The first job may be done and answered.
LEMMA FirstDone ==
  ASSUME NEW d, NEW w \in Seq(Jobs), w # <<>>, NEW p \in [Clients -> States],
         Awaited(d, w, p), NEW q,
         \A c \in Clients : c # Head(w).client => q[c] = p[c]
  PROVE  Awaited(d, Tail(w), q)
<1> DEFINE v == Tail(w)
<1>1. \A i \in DOMAIN v : i \in Nat /\ i + 1 \in DOMAIN w /\ i + 1 # 1 /\ v[i] = w[i + 1]
  OBVIOUS
<1>2. 1 \in DOMAIN w /\ Head(w) = w[1]
  OBVIOUS
<1>3. \A i \in DOMAIN w : w[i].client \in Clients \cup {NoClient}
  <2>1. \A i \in DOMAIN w : w[i] \in Jobs
    OBVIOUS
  <2> QED
    BY <2>1 DEF Jobs
<1> HIDE DEF v
<1> SUFFICES Awaited(d, v, q)
  BY DEF v
<1>4. ASSUME NEW i \in DOMAIN v, d = "up", v[i].client # NoClient
      PROVE  Awaits(v[i], q)
  <2>1. w[i + 1].client # w[1].client
    BY <1>1, <1>2, <1>4 DEF Awaited
  <2>2. q[v[i].client] = p[v[i].client]
    BY <2>1, <1>1, <1>2, <1>3, <1>4
  <2>3. Awaits(v[i], p)
    BY <1>1, <1>4 DEF Awaited
  <2> QED
    BY <2>2, <2>3 DEF Awaits
<1>5. ASSUME NEW i \in DOMAIN v, d = "up", v[i].client # NoClient,
             NEW j \in DOMAIN v, v[j].client = v[i].client
      PROVE  i = j
  <2>1. i + 1 = j + 1
    BY <1>1, <1>5 DEF Awaited
  <2> QED
    BY <2>1, <1>1
<1>6. \A i \in DOMAIN v : v[i].kind \in {"claim", "restore"} => v[i].client # NoClient
  BY <1>1 DEF Awaited
<1> QED
  BY <1>4, <1>5, <1>6 DEF Awaited

-----------------------------------------------------------------------------
(* The operators of the record.                                             *)

\* What is stored of a prompt is a stored prompt, and what continues from a
\* stored prompt is a message.
LEMMA PromptTypes ==
  /\ \A p \in Messages : ToStored(p) \in Stored
  /\ \A p \in Stored : Resolve(p) \in Messages
BY PromptAssumption DEF ToStored, Resolve, Messages, Stored

LEMMA MarkerType ==
  ASSUME NEW m \in Marker, NEW j \in Jobs
  PROVE  MarkerAfter(m, j) \in Marker
<1>1. MarkerAfter(m, j) \in {m, NoMarker, RunningMarker(j.id, j.prompt),
                             RunningMarker(j.id, m.prompt), InterruptedMarker(j.prompt)}
  BY DEF MarkerAfter
<1>2. j.id \in Ids /\ j.prompt \in Stored /\ m.prompt \in Stored /\ 0 \in Ids /\ NoPrompt \in Stored
  BY PromptAssumption DEF Jobs, Marker, Ids, Stored
<1>3. \A id \in Ids, p \in Stored :
        RunningMarker(id, p) \in Marker /\ InterruptedMarker(p) \in Marker
  BY <1>2 DEF RunningMarker, InterruptedMarker, Marker
<1>4. NoMarker \in Marker
  BY <1>2 DEF NoMarker, Marker
<1> QED
  BY <1>1, <1>2, <1>3, <1>4

\* Jobs that no client waits for.
Unawaited(jobs) ==
  /\ jobs \in Seq(Jobs)
  /\ \A i \in DOMAIN jobs :
       jobs[i].client = NoClient /\ jobs[i].kind \notin {"claim", "restore"}

LEMMA UnawaitedJobs ==
  /\ Unawaited(<<>>)
  /\ \A s \in {"idle", "running", "error", "closed"} : Unawaited(<<Snapshot(s)>>)
  /\ \A k \in {"clear", "record"}, id \in Ids, p \in Stored :
       Unawaited(<<Job(k, NoClient, id, p)>>)
  /\ \A a, b : Unawaited(<<a>>) /\ Unawaited(<<b>>) => Unawaited(<<a, b>>)
<1>1. 0 \in Ids /\ NoPrompt \in Stored
  BY PromptAssumption DEF Ids, Stored
<1>2. \A s \in {"idle", "running", "error", "closed"} : Unawaited(<<Snapshot(s)>>)
  BY <1>1 DEF Unawaited, Snapshot, Jobs
<1>3. \A k \in {"clear", "record"}, id \in Ids, p \in Stored :
        Unawaited(<<Job(k, NoClient, id, p)>>)
  BY DEF Unawaited, Job, Jobs
<1>4. ASSUME NEW a, NEW b, Unawaited(<<a>>), Unawaited(<<b>>) PROVE Unawaited(<<a, b>>)
  <2>1. a \in Jobs /\ b \in Jobs
    BY <1>4 DEF Unawaited
  <2>2. <<a>>[1] = a /\ <<b>>[1] = b /\ 1 \in DOMAIN <<a>> /\ 1 \in DOMAIN <<b>>
    OBVIOUS
  <2>3. \A j \in {a, b} : j.client = NoClient /\ j.kind \notin {"claim", "restore"}
    BY <1>4, <2>2 DEF Unawaited
  <2> QED
    BY <2>1, <2>3 DEF Unawaited
<1>5. Unawaited(<<>>)
  BY DEF Unawaited
<1> QED
  BY <1>2, <1>3, <1>4, <1>5

-----------------------------------------------------------------------------
(* The steps.                                                               *)

\* A step of the running daemon that writes no record and lets nobody else
\* continue has only types and the queue to answer for.
LEMMA UpStep ==
  ASSUME IInv, daemon = "up", daemon' = "up", record' = record,
         \A c \in Clients : Continuing(c)' => Continuing(c),
         TypeOK', Awaited("up", writes', pc')
  PROVE  IInv'
<1>1. JobsAreAwaited'
  BY DEF JobsAreAwaited, Awaited, Awaits
<1>2. StopForgets'
  BY DEF StopForgets
<1>3. ClaimHidesInterruption'
  BY DEF IInv, ClaimHidesInterruption
<1>4. OneContinuation'
  BY DEF IInv, OneContinuation
<1> QED
  BY <1>1, <1>2, <1>3, <1>4 DEF IInv

\* What the invariant says of the queue and the clients of a running daemon.
LEMMA UpFacts ==
  ASSUME IInv, daemon = "up"
  PROVE  /\ writes \in Seq(Jobs) /\ pc \in [Clients -> States]
         /\ Awaited("up", writes, pc)
BY AwaitedIsIt DEF IInv, TypeOK, States

\* Starting a run gives it a fresh id and leaves the clients' jobs alone.
LEMMA StartRunStep ==
  ASSUME IInv, daemon = "up", NEW p \in Messages, StartRun(p)
  PROVE  /\ ids' \in Ids
         /\ turn' \in [phase : {"starting", "running"}, run : Ids, prompt : Messages]
         /\ writes' \in Seq(Jobs)
         /\ Awaited("up", writes', pc)
<1>1. ids \in Ids /\ turn.run \in Ids /\ NoPrompt \in Stored
  BY PromptAssumption DEF IInv, TypeOK, NoTurn, Ids, Stored
<1>2. ids' \in Ids /\ ids' = ids + 1
  BY <1>1, PromptAssumption DEF StartRun, Ids
<1>3. turn' = [phase |-> "starting", run |-> ids', prompt |-> p]
  BY <1>2 DEF StartRun
<1> DEFINE more == IF turn.phase = "running"
                   THEN <<Job("clear", NoClient, turn.run, NoPrompt)>> ELSE <<>>
<1>4. Unawaited(more)
  BY <1>1, UnawaitedJobs
<1>5. writes' = writes \o more
  BY DEF StartRun
<1> HIDE DEF more
<1>6. writes' \in Seq(Jobs)
  BY <1>4, <1>5, UpFacts DEF Unawaited
<1>7. Awaited("up", writes', pc)
  BY <1>4, <1>5, UpFacts, MoreUnawaited DEF Unawaited
<1> QED
  BY <1>2, <1>3, <1>6, <1>7

\* A client whose run did not start queues the restoring of its claim.
LEMMA GiveUpStep ==
  ASSUME IInv, daemon = "up", NEW c \in Clients, pc[c] \in {"claimed", "waiting"},
         NEW more, Unawaited(more), GiveUp(c, more)
  PROVE  /\ writes' \in Seq(Jobs)
         /\ pc' \in [Clients -> States]
         /\ Awaited("up", writes', pc')
         /\ \A d \in Clients : Continuing(d)' => Continuing(d)
<1>1. Restore(c) \in Jobs /\ Restore(c).client = c /\ Restore(c).kind = "restore"
  BY DEF IInv, TypeOK, Restore, Job, Jobs
<1> DEFINE w == writes \o more
<1>2. w \in Seq(Jobs)
  BY UpFacts DEF Unawaited
<1>3. Awaited("up", w, pc)
  BY UpFacts, MoreUnawaited DEF Unawaited
<1>4. writes' = w \o <<Restore(c)>> /\ pc' = [pc EXCEPT ![c] = "restoring"]
  BY DEF GiveUp
<1> HIDE DEF w
<1>5. writes' = Append(w, Restore(c))
  BY <1>1, <1>2, <1>4
<1>6. Awaits(Restore(c), [pc EXCEPT ![c] = "restoring"])
  BY <1>1, UpFacts DEF Awaits
<1>7. Awaited("up", writes', pc')
  <2>1. pc[c] \notin Awaiting
    BY DEF Awaiting
  <2>2. Awaited("up", Append(w, Restore(c)), [pc EXCEPT ![c] = "restoring"])
    BY <1>1, <1>2, <1>3, <1>6, <2>1, UpFacts, Request
  <2> QED
    BY <1>4, <1>5, <2>2
<1>8. writes' \in Seq(Jobs) /\ pc' \in [Clients -> States]
  BY <1>1, <1>2, <1>4, <1>5, UpFacts DEF States
<1>9. \A d \in Clients : Continuing(d)' => Continuing(d)
  BY <1>4, UpFacts DEF Continuing
<1> QED
  BY <1>7, <1>8, <1>9

LEMMA SendPreserves ==
  ASSUME IInv, NEW p \in Prompts, Send(p)
  PROVE  IInv'
<1>1. daemon = "up" /\ p \in Messages /\ StartRun(p)
  BY DEF Send, Messages
<1>2. TypeOK'
  BY <1>1, StartRunStep DEF Send, IInv, TypeOK
<1>3. Awaited("up", writes', pc')
  BY <1>1, StartRunStep DEF Send
<1>4. \A c \in Clients : Continuing(c)' => Continuing(c)
  BY DEF Send, Continuing
<1> QED
  BY <1>1, <1>2, <1>3, <1>4, UpStep DEF Send

LEMMA StartedPreserves ==
  ASSUME IInv, Started
  PROVE  IInv'
<1>1. daemon = "up" /\ turn \in [phase : {"starting", "running"}, run : Ids, prompt : Messages]
  BY DEF Started, IInv, TypeOK, NoTurn
<1> DEFINE more == <<Job("record", NoClient, turn.run, ToStored(turn.prompt)), Snapshot("running")>>
<1>2. Unawaited(more)
  BY <1>1, UnawaitedJobs, PromptTypes
<1>3. writes' = writes \o more
  BY DEF Started
<1> HIDE DEF more
<1>4. writes' \in Seq(Jobs) /\ Awaited("up", writes', pc)
  BY <1>1, <1>2, <1>3, UpFacts, MoreUnawaited DEF Unawaited
<1>5. pc' = [c \in Clients |-> IF pc[c] = "waiting" THEN "idle" ELSE pc[c]]
  BY DEF Started
<1>6. pc' \in [Clients -> States]
  BY <1>1, <1>5, UpFacts DEF States
<1>7. \A c \in Clients : pc[c] \in Awaiting => pc'[c] = pc[c]
  BY <1>5 DEF Awaiting
<1>8. Awaited("up", writes', pc')
  BY <1>1, <1>4, <1>7, UpFacts, OthersMove
<1>9. \A c \in Clients : Continuing(c)' => Continuing(c)
  BY <1>5 DEF Continuing
<1>10. turn' \in [phase : {"starting", "running"}, run : Ids, prompt : Messages]
  BY <1>1 DEF Started
<1>11. history' \in Seq(Messages)
  BY <1>1 DEF Started, IInv, TypeOK
<1>12. TypeOK'
  BY <1>4, <1>6, <1>10, <1>11 DEF Started, IInv, TypeOK, States
<1> QED
  BY <1>1, <1>8, <1>9, <1>12, UpStep DEF Started

LEMMA StartFailsPreserves ==
  ASSUME IInv, StartFails
  PROVE  IInv'
<1> DEFINE waiting == {c \in Clients : pc[c] = "waiting"}
<1> DEFINE more == <<Snapshot("error")>>
<1>1. daemon = "up" /\ Unawaited(more)
  BY UnawaitedJobs DEF StartFails
<1>2. /\ writes' \in Seq(Jobs)
      /\ pc' \in [Clients -> States]
      /\ Awaited("up", writes', pc')
      /\ \A d \in Clients : Continuing(d)' => Continuing(d)
  <2>1. CASE waiting = {}
    <3>1. writes' = Append(writes, Snapshot("error")) /\ pc' = pc
      BY <2>1 DEF StartFails
    <3>2. writes' = writes \o more
      BY <1>1, <3>1, UpFacts
    <3> HIDE DEF more
    <3>3. writes' \in Seq(Jobs) /\ Awaited("up", writes', pc)
      BY <1>1, <3>2, UpFacts, MoreUnawaited DEF Unawaited
    <3> QED
      BY <1>1, <3>1, <3>3, UpFacts DEF Continuing
  <2>2. CASE waiting # {}
    <3>1. PICK c \in waiting : GiveUp(c, more)
      BY <2>2 DEF StartFails
    <3> HIDE DEF more
    <3> QED
      BY <1>1, <3>1, GiveUpStep
  <2> QED
    BY <2>1, <2>2
<1>3. TypeOK'
  BY <1>2 DEF StartFails, IInv, TypeOK, States
<1> QED
  BY <1>1, <1>2, <1>3, UpStep DEF StartFails

LEMMA WaitFailsPreserves ==
  ASSUME IInv, NEW c \in Clients, WaitFails(c) \/ SendRejected(c)
  PROVE  IInv'
<1>1. daemon = "up" /\ pc[c] \in {"claimed", "waiting"} /\ GiveUp(c, <<>>)
  BY DEF WaitFails, SendRejected
<1>2. /\ writes' \in Seq(Jobs)
      /\ pc' \in [Clients -> States]
      /\ Awaited("up", writes', pc')
      /\ \A d \in Clients : Continuing(d)' => Continuing(d)
  BY <1>1, GiveUpStep, UnawaitedJobs
<1>3. UNCHANGED <<daemon, record, turn, claim, history, unsent, ids, stops, steers, cut>>
  BY DEF WaitFails, SendRejected
<1>4. TypeOK'
  BY <1>2, <1>3 DEF IInv, TypeOK, States
<1> QED
  BY <1>1, <1>2, <1>3, <1>4, UpStep

LEMMA SteeredPreserves ==
  ASSUME IInv, NEW p \in Prompts, Steered(p)
  PROVE  IInv'
<1>1. daemon = "up" /\ p \in Messages
  BY DEF Steered, Messages
<1>2. steers' \in 0..MaxSteers
  BY PromptAssumption DEF Steered, IInv, TypeOK
<1>3. history' \in Seq(Messages)
  BY <1>1 DEF Steered, IInv, TypeOK
<1>4. TypeOK'
  BY <1>2, <1>3 DEF Steered, IInv, TypeOK
<1>5. Awaited("up", writes', pc')
  BY <1>1, UpFacts DEF Steered
<1> QED
  BY <1>1, <1>4, <1>5, UpStep DEF Steered, Continuing

LEMMA EndsPreserves ==
  ASSUME IInv, Ends
  PROVE  IInv'
<1> DEFINE more == <<Snapshot("idle"), Job("clear", NoClient, turn.run, NoPrompt)>>
<1>1. daemon = "up" /\ writes' = writes \o more
  BY DEF Ends
<1>2. turn.run \in Ids /\ NoPrompt \in Stored
  BY DEF Ends, IInv, TypeOK, NoTurn, Stored
<1>3. Unawaited(more)
  BY <1>2, UnawaitedJobs
<1> HIDE DEF more
<1>4. writes' \in Seq(Jobs) /\ Awaited("up", writes', pc)
  BY <1>1, <1>3, UpFacts, MoreUnawaited DEF Unawaited
<1>5. TypeOK'
  BY <1>4 DEF Ends, IInv, TypeOK
<1> QED
  BY <1>1, <1>4, <1>5, UpStep DEF Ends, Continuing

\* A client asks to continue, or to dismiss.
LEMMA RequestPreserves ==
  ASSUME IInv, NEW c \in Clients, Continue(c) \/ Dismiss(c)
  PROVE  IInv'
<1>1. daemon = "up" /\ pc[c] = "idle" /\ c \in Clients \cup {NoClient}
  BY DEF Continue, Dismiss
<1>2. ids \in Ids /\ 0 \in Ids /\ NoPrompt \in Stored
  BY PromptAssumption DEF IInv, TypeOK, Ids, Stored
<1>3. /\ ids' \in Ids /\ claim' \in [Clients -> [id : Ids, prompt : Stored]]
      /\ UNCHANGED <<daemon, record, turn, history, unsent, stops, steers, cut>>
      /\ \E job \in Jobs, q \in {"claiming", "dismissing"} :
           /\ job.client = c
           /\ <<job.kind, q>> \in {<<"claim", "claiming">>, <<"dismiss", "dismissing">>}
           /\ writes' = Append(writes, job)
           /\ pc' = [pc EXCEPT ![c] = q]
  <2>1. CASE Continue(c)
    <3>1. ids + 1 \in Ids
      BY <1>2, <2>1, PromptAssumption DEF Continue, Ids
    <3>2. /\ Job("claim", c, ids + 1, NoPrompt) \in Jobs
          /\ Job("claim", c, ids + 1, NoPrompt).client = c
          /\ Job("claim", c, ids + 1, NoPrompt).kind = "claim"
      BY <1>1, <1>2, <3>1 DEF Job, Jobs
    <3>3. claim' \in [Clients -> [id : Ids, prompt : Stored]]
      BY <1>2, <2>1, <3>1 DEF Continue, IInv, TypeOK
    <3> QED
      BY <2>1, <3>1, <3>2, <3>3 DEF Continue
  <2>2. CASE Dismiss(c)
    <3>1. /\ Job("dismiss", c, 0, NoPrompt) \in Jobs
          /\ Job("dismiss", c, 0, NoPrompt).client = c
          /\ Job("dismiss", c, 0, NoPrompt).kind = "dismiss"
      BY <1>1, <1>2 DEF Job, Jobs
    <3> QED
      BY <1>2, <2>2, <3>1 DEF Dismiss, IInv, TypeOK
  <2> QED
    BY <2>1, <2>2
<1>4. PICK job \in Jobs, q \in {"claiming", "dismissing"} :
        /\ job.client = c
        /\ <<job.kind, q>> \in {<<"claim", "claiming">>, <<"dismiss", "dismissing">>}
        /\ writes' = Append(writes, job)
        /\ pc' = [pc EXCEPT ![c] = q]
  BY <1>3
<1>5. Awaits(job, [pc EXCEPT ![c] = q])
  BY <1>1, <1>4, UpFacts DEF Awaits
<1>6. Awaited("up", writes', pc')
  BY <1>1, <1>4, <1>5, UpFacts, Request DEF Awaiting
<1>7. writes' \in Seq(Jobs) /\ pc' \in [Clients -> States]
  BY <1>1, <1>4, UpFacts DEF States
<1>8. \A d \in Clients : Continuing(d)' => Continuing(d)
  BY <1>1, <1>4, UpFacts DEF Continuing
<1>9. TypeOK'
  BY <1>3, <1>7 DEF IInv, TypeOK, States
<1> QED
  BY <1>1, <1>3, <1>6, <1>8, <1>9, UpStep

LEMMA ContinueSendsPreserves ==
  ASSUME IInv, NEW c \in Clients, ContinueSends(c)
  PROVE  IInv'
<1>1. daemon = "up" /\ pc[c] = "claimed" /\ pc' = [pc EXCEPT ![c] = "waiting"]
  BY DEF ContinueSends
<1>2. claim[c].prompt \in Stored
  BY DEF IInv, TypeOK
<1>3. /\ ids' \in Ids
      /\ turn' \in [phase : {"starting", "running"}, run : Ids, prompt : Messages]
      /\ writes' \in Seq(Jobs)
      /\ Awaited("up", writes', pc)
  BY <1>1, <1>2, PromptTypes, StartRunStep DEF ContinueSends
<1>4. pc' \in [Clients -> States]
  BY <1>1, UpFacts DEF States
<1>5. Awaited("up", writes', pc')
  BY <1>1, <1>3, UpFacts, OthersMove DEF Awaiting
<1>6. \A d \in Clients : Continuing(d)' => Continuing(d)
  BY <1>1, UpFacts DEF Continuing
<1>7. TypeOK'
  BY <1>3, <1>4 DEF ContinueSends, IInv, TypeOK, States
<1> QED
  BY <1>1, <1>5, <1>6, <1>7, UpStep DEF ContinueSends

\* What the first job changes in the record: it hides an interruption, or it
\* is a restore, or it leaves a marker that no claim can take.
LEMMA MarkerSteps ==
  ASSUME NEW m \in Marker, NEW j \in Jobs
  PROVE  /\ j.kind = "claim" /\ MarkerAfter(m, j) # m =>
              m.state = "interrupted" /\ MarkerAfter(m, j).state = "running"
         /\ MarkerAfter(m, j).state = "interrupted" => m.state = "interrupted" \/ j.kind = "restore"
<1>1. CASE j.kind = "record"
  BY <1>1 DEF MarkerAfter, RunningMarker
<1>2. CASE j.kind = "clear"
  BY <1>2 DEF MarkerAfter, NoMarker
<1>3. CASE j.kind = "claim"
  BY <1>3 DEF MarkerAfter, RunningMarker
<1>4. CASE j.kind = "restore"
  BY <1>4
<1>5. CASE j.kind = "dismiss"
  BY <1>5 DEF MarkerAfter, NoMarker
<1>6. CASE j.kind \notin {"record", "clear", "claim", "restore", "dismiss"}
  BY <1>6 DEF MarkerAfter
<1> QED
  BY <1>1, <1>2, <1>3, <1>4, <1>5, <1>6

LEMMA ExecuteWritePreserves ==
  ASSUME IInv, ExecuteWrite
  PROVE  IInv'
<1> DEFINE j == Head(writes)
           m == record.marker
           n == MarkerAfter(m, j)
           won == j.kind = "claim" /\ n # m
<1>1. /\ writes \in Seq(Jobs) /\ writes # <<>> /\ daemon \in {"up", "closing"}
      /\ m \in Marker /\ pc \in [Clients -> States]
      /\ claim \in [Clients -> [id : Ids, prompt : Stored]]
  BY DEF ExecuteWrite, IInv, TypeOK, States
<1>2. j \in Jobs /\ j.client \in Clients \cup {NoClient}
  <2>1. j \in Jobs
    BY <1>1
  <2> QED
    BY <2>1 DEF Jobs
<1>3. /\ record' = [marker |-> n, status |-> StatusAfter(record.status, j)]
      /\ writes' = Tail(writes)
      /\ UNCHANGED <<daemon, turn, history, unsent, ids, stops, steers, cut>>
  BY DEF ExecuteWrite
<1>4. /\ j.client = NoClient \/ daemon = "closing" => pc' = pc /\ claim' = claim
      /\ ~(j.client = NoClient \/ daemon = "closing") =>
           /\ pc' = [pc EXCEPT ![j.client] = IF won THEN "claimed" ELSE "idle"]
           /\ claim' = [claim EXCEPT ![j.client] =
                          IF won THEN [@ EXCEPT !.prompt = m.prompt] ELSE NoClaim]
  BY DEF ExecuteWrite
<1>5. n \in Marker
  BY <1>1, <1>2, MarkerType
<1>6. /\ won => m.state = "interrupted" /\ n.state = "running"
      /\ n.state = "interrupted" => m.state = "interrupted" \/ j.kind = "restore"
  BY <1>1, <1>2, MarkerSteps
<1>7. record'.marker = n
  BY <1>3
<1>8. TypeOK'
  <2>1. StatusAfter(record.status, j) \in {"idle", "running", "error", "closed"}
    BY DEF StatusAfter, IInv, TypeOK
  <2>2. record' \in [marker : Marker, status : {"idle", "running", "error", "closed"}]
    BY <1>3, <1>5, <2>1
  <2>3. writes' \in Seq(Jobs)
    BY <1>1, <1>3
  <2>4. pc' \in [Clients -> States]
    BY <1>1, <1>2, <1>4 DEF States
  <2>5. m.prompt \in Stored /\ 0 \in Ids /\ NoPrompt \in Stored
    BY <1>1, PromptAssumption DEF Marker, Ids, Stored
  <2>6. claim' \in [Clients -> [id : Ids, prompt : Stored]]
    BY <1>1, <1>2, <1>4, <2>5 DEF NoClaim
  <2> QED
    BY <1>3, <2>2, <2>3, <2>4, <2>6 DEF IInv, TypeOK, States
<1> HIDE DEF n, won
<1>9. JobsAreAwaited'
  <2>1. Awaited(daemon, writes, pc)
    BY AwaitedIsIt DEF IInv
  <2>2. \A c \in Clients : c # j.client => pc'[c] = pc[c]
    BY <1>1, <1>4
  <2>3. Awaited(daemon, Tail(writes), pc')
    BY <1>1, <2>1, <2>2, FirstDone
  <2> QED
    BY <1>3, <2>3 DEF JobsAreAwaited, Awaited, Awaits
<1>10. StopForgets'
  BY <1>1, <1>3, <1>4 DEF IInv, StopForgets
<1>11. CASE daemon = "closing"
  <2>1. \A c \in Clients : ~Continuing(c)'
    BY <1>1, <1>4, <1>11 DEF IInv, StopForgets, Continuing
  <2> QED
    BY <1>8, <1>9, <1>10, <2>1 DEF IInv, ClaimHidesInterruption, OneContinuation
<1>12. CASE daemon = "up" /\ won
  \* An interruption was there to claim, so that nobody continued.
  <2>1. \A c \in Clients : ~Continuing(c)
    BY <1>6, <1>12 DEF IInv, ClaimHidesInterruption
  <2>2. \A c \in Clients : Continuing(c)' => c = j.client
    BY <1>1, <1>4, <2>1 DEF Continuing
  <2>3. record'.marker.state # "interrupted"
    BY <1>6, <1>7, <1>12
  <2> QED
    BY <1>8, <1>9, <1>10, <2>2, <2>3 DEF IInv, ClaimHidesInterruption, OneContinuation
<1>13. CASE daemon = "up" /\ ~won
  <2>1. \A c \in Clients : Continuing(c)' => Continuing(c) /\ c # j.client
    <3>1. CASE j.client = NoClient
      BY <1>4, <3>1, PromptAssumption DEF Continuing
    <3>2. CASE j.client # NoClient
      BY <1>1, <1>2, <1>4, <1>13, <3>2 DEF Continuing
    <3> QED
      BY <3>1, <3>2
  <2>2. OneContinuation'
    BY <2>1 DEF IInv, OneContinuation
  \* Only the restore of the one who continues shows the interruption again.
  <2>3. ASSUME NEW c \in Clients, Continuing(c)', record'.marker.state = "interrupted"
        PROVE  FALSE
    <3>1. m.state = "interrupted" \/ j.kind = "restore"
      BY <1>6, <1>7, <2>3
    <3>2. CASE m.state = "interrupted"
      BY <2>1, <2>3, <3>2 DEF IInv, ClaimHidesInterruption
    <3>3. CASE j.kind = "restore"
      <4>1. 1 \in DOMAIN writes /\ j = writes[1]
        BY <1>1
      <4>2. j.client # NoClient
        BY <3>3, <4>1 DEF IInv, JobsAreAwaited
      <4>3. pc[j.client] = "restoring"
        BY <1>13, <3>3, <4>1, <4>2 DEF IInv, JobsAreAwaited
      <4>4. j.client \in Clients /\ Continuing(j.client)
        BY <1>2, <4>2, <4>3 DEF Continuing
      <4> QED
        BY <2>1, <2>3, <4>4 DEF IInv, OneContinuation
    <3> QED
      BY <3>1, <3>2, <3>3
  <2>4. ClaimHidesInterruption'
    BY <2>3 DEF ClaimHidesInterruption
  <2> QED
    BY <1>8, <1>9, <1>10, <2>2, <2>4 DEF IInv
<1> QED
  BY <1>1, <1>11, <1>12, <1>13

\* A stop or a start leaves nobody continuing.
LEMMA StopStep ==
  ASSUME IInv, TypeOK', \A c \in Clients : pc'[c] = "idle",
         daemon' = "up" \/ daemon' = "down" => writes' = <<>>,
         \A i \in DOMAIN writes' :
           writes'[i].kind \in {"claim", "restore"} => writes'[i].client # NoClient
  PROVE  IInv'
<1>1. JobsAreAwaited'
  BY DEF JobsAreAwaited
<1>2. StopForgets'
  BY DEF StopForgets
<1>3. ClaimHidesInterruption' /\ OneContinuation'
  BY DEF ClaimHidesInterruption, OneContinuation, Continuing
<1> QED
  BY <1>1, <1>2, <1>3 DEF IInv

\* What a stop makes of the clients and the turn has its type.
LEMMA ForgetTypes ==
  ASSUME Forget
  PROVE  /\ turn' = NoTurn
         /\ pc' \in [Clients -> States]
         /\ claim' \in [Clients -> [id : Ids, prompt : Stored]]
         /\ \A c \in Clients : pc'[c] = "idle"
BY PromptAssumption DEF Forget, NoClaim, Ids, Stored, States

LEMMA CrashPreserves ==
  ASSUME IInv, Crash
  PROVE  IInv'
<1>1. writes' = <<>> /\ Forget /\ daemon' = "down"
  BY DEF Crash
<1>2. stops' \in 0..MaxStops
  BY PromptAssumption DEF Crash, IInv, TypeOK
<1>3. history' \in Seq(Messages)
  <2>1. CASE UNCHANGED history
    BY <2>1 DEF IInv, TypeOK
  <2>2. CASE turn.phase = "starting" /\ history' = Append(history, turn.prompt)
    BY <2>2 DEF IInv, TypeOK, NoTurn
  <2> QED
    BY <2>1, <2>2 DEF Crash
<1>4. cut' \in Stored
  <2>1. turn.phase = "running" => turn.prompt \in Messages
    BY DEF IInv, TypeOK, NoTurn
  <2>2. NoPrompt \in Stored /\ cut \in Stored
    BY DEF IInv, TypeOK, Stored
  <2> QED
    BY <2>1, <2>2, PromptTypes DEF Crash
<1>5. TypeOK'
  BY <1>1, <1>2, <1>3, <1>4, ForgetTypes DEF Crash, IInv, TypeOK, States
<1> QED
  BY <1>1, <1>5, ForgetTypes, StopStep

LEMMA ShutdownPreserves ==
  ASSUME IInv, Shutdown
  PROVE  IInv'
<1> DEFINE more == <<Snapshot("closed")>>
<1>1. Forget /\ daemon = "up" /\ daemon' = "closing" /\ writes' = Append(writes, Snapshot("closed"))
  BY DEF Shutdown
<1>2. Unawaited(more)
  BY UnawaitedJobs
<1>3. writes' = writes \o more
  BY <1>1, <1>2, UpFacts DEF Unawaited
<1> HIDE DEF more
<1>4. writes' \in Seq(Jobs) /\ Awaited("up", writes', pc)
  <2>1. writes \in Seq(Jobs) /\ Awaited("up", writes, pc)
    BY <1>1, UpFacts
  <2> QED
    BY <1>2, <1>3, <2>1, MoreUnawaited DEF Unawaited
<1>5. stops' \in 0..MaxStops
  BY PromptAssumption DEF Shutdown, IInv, TypeOK
<1>6. cut' \in Stored
  <2>1. turn.phase = "running" => turn.prompt \in Messages
    BY DEF IInv, TypeOK, NoTurn
  <2> QED
    BY <2>1, PromptTypes DEF Shutdown, Stored
<1>7. TypeOK'
  BY <1>1, <1>4, <1>5, <1>6, ForgetTypes DEF Shutdown, IInv, TypeOK, States
<1> QED
  BY <1>1, <1>4, <1>7, ForgetTypes, StopStep DEF Awaited

LEMMA RestPreserves ==
  ASSUME IInv, Exit \/ Restart
  PROVE  IInv'
<1>1. writes = <<>> /\ writes' = writes /\ pc' = pc /\ \A c \in Clients : pc[c] = "idle"
  BY DEF Exit, Restart, IInv, StopForgets
<1>2. record' \in [marker : Marker, status : {"idle", "running", "error", "closed"}]
  <2>1. CASE Exit
    BY <2>1 DEF Exit, IInv, TypeOK
  <2>2. CASE Restart
    <3>1. record.marker \in Marker /\ 0 \in Ids
      BY PromptAssumption DEF IInv, TypeOK, Ids
    <3>2. InterruptedMarker(record.marker.prompt) \in Marker
      BY <3>1 DEF InterruptedMarker, Marker
    <3> QED
      BY <2>2, <3>1, <3>2 DEF Restart, IInv, TypeOK
  <2> QED
    BY <2>1, <2>2
<1>3. TypeOK'
  BY <1>1, <1>2 DEF Exit, Restart, IInv, TypeOK
<1> QED
  BY <1>1, <1>3, StopStep

-----------------------------------------------------------------------------
LEMMA InitEstablishes == Init => IInv
<1> SUFFICES ASSUME Init PROVE IInv
  OBVIOUS
<1>1. 0 \in Ids /\ NoPrompt \in Stored /\ 0 \in 0..MaxStops /\ 0 \in 0..MaxSteers
  BY PromptAssumption DEF Ids, Stored
<1>2. TypeOK
  BY <1>1 DEF Init, TypeOK, Marker, NoMarker, NoClaim
<1> QED
  BY <1>2 DEF Init, IInv, JobsAreAwaited, StopForgets, ClaimHidesInterruption,
              OneContinuation, Continuing

LEMMA StepPreserves == IInv /\ [Next]_vars => IInv'
<1> SUFFICES ASSUME IInv, [Next]_vars PROVE IInv'
  OBVIOUS
<1>1. CASE Next
  BY <1>1, SendPreserves, SteeredPreserves, StartedPreserves, StartFailsPreserves,
     EndsPreserves, RequestPreserves, ContinueSendsPreserves, WaitFailsPreserves,
     ExecuteWritePreserves, CrashPreserves, ShutdownPreserves, RestPreserves
     DEF Next
<1>2. CASE UNCHANGED vars
  BY <1>2 DEF vars, IInv, TypeOK, JobsAreAwaited, StopForgets, ClaimHidesInterruption,
              OneContinuation, Continuing
<1> QED
  BY <1>1, <1>2

THEOREM InvariantHolds == Spec => []IInv
BY InitEstablishes, StepPreserves, PTL DEF Spec

\* The record's marker, the queue, the turn and the clients keep their types.
THEOREM TypeCorrect == Spec => []TypeOK
<1>1. IInv => TypeOK
  BY DEF IInv
<1> QED
  BY <1>1, InvariantHolds, PTL

\* However claims, failed starts, restores and stops interleave in the write
\* queue of AgentStorage, at most one client continues an interruption.
THEOREM ContinuationCorrect == Spec => []OneContinuation
<1>1. IInv => OneContinuation
  BY DEF IInv
<1> QED
  BY <1>1, InvariantHolds, PTL

-----------------------------------------------------------------------------
(* What the marker follows: the turn that runs, the turn that a stop cut     *)
(* short, and whoever answers for a marker that says running.                *)

\* Once the queue w is written over the marker m, the marker is that of run r with
\* prompt p: its record job is the last one, or done, and nobody undoes it.
Lands(w, m, r, p) ==
  /\ \A i \in DOMAIN w : w[i].kind \in {"clear", "restore"} => w[i].id # r
  /\ \/ (\A i \in DOMAIN w : w[i].kind # "record") /\ m = RunningMarker(r, p)
     \/ \E i \in DOMAIN w :
          /\ w[i].kind = "record" /\ w[i].id = r /\ w[i].prompt = p
          /\ \A j \in DOMAIN w : j > i => w[j].kind # "record"

\* Runs and claims have ids of their own, below the next one, n + 1.
OwnIds(w, t, cl, n) ==
  /\ t.run <= n
  /\ \A c \in Clients : cl[c].id <= n
  /\ \A i \in DOMAIN w : w[i].id <= n
  /\ t.phase # "none" =>
       /\ t.run # 0
       /\ \A c \in Clients : cl[c].id # t.run
       /\ \A i \in DOMAIN w : w[i].kind \in {"clear", "claim", "restore"} => w[i].id # t.run

\* The job a client waits for carries the id of its claim.
Matches(w, cl) ==
  \A i \in DOMAIN w : w[i].kind \in {"claim", "restore"} => w[i].id = cl[w[i].client].id

RunningLands ==
  turn.phase = "running" => Lands(writes, record.marker, turn.run, ToStored(turn.prompt))

\* A turn that was cut short is in the record, or will be once the queue is flushed.
CutLands ==
  daemon # "up" /\ cut # NoPrompt => \E r \in Ids : Lands(writes, record.marker, r, cut)

\* The turn of a record job runs, or a later job clears what it records.
RecordsAnswered(w, t) ==
  \A i \in DOMAIN w : w[i].kind = "record" =>
    \/ t.phase = "running" /\ t.run = w[i].id
    \/ \E j \in DOMAIN w : j > i /\ w[j].kind = "clear" /\ w[j].id = w[i].id

\* A running marker is that of the turn that runs or of a claim that somebody
\* continues, or a job will replace it.
MarkerAnswered ==
  record.marker.state = "running" =>
    \/ turn.phase = "running" /\ turn.run = record.marker.run
    \/ \E i \in DOMAIN writes :
         \/ writes[i].kind = "record"
         \/ writes[i].kind = "clear" /\ writes[i].id = record.marker.run
    \/ \E c \in Clients : Continuing(c) /\ claim[c].id = record.marker.run

MarkerInv ==
  /\ OwnIds(writes, turn, claim, ids)
  /\ RunningLands
  /\ CutLands
  /\ daemon # "up" => turn = NoTurn
  /\ daemon = "up" => Matches(writes, claim) /\ RecordsAnswered(writes, turn) /\ MarkerAnswered

-----------------------------------------------------------------------------
(* These, as the queue grows at its end and shrinks at its head.             *)

LEMMA JobTypes ==
  ASSUME NEW w \in Seq(Jobs)
  PROVE  \A i \in DOMAIN w :
           /\ i \in Nat /\ w[i] \in Jobs /\ w[i].id \in Ids /\ w[i].id \in Nat
           /\ w[i].prompt \in Stored /\ w[i].client \in Clients \cup {NoClient}
<1>1. \A i \in DOMAIN w : i \in Nat /\ w[i] \in Jobs
  OBVIOUS
<1>2. \A j \in Jobs : /\ j.id \in Ids /\ j.id \in Nat
                      /\ j.prompt \in Stored /\ j.client \in Clients \cup {NoClient}
  BY PromptAssumption DEF Jobs, Ids
<1> QED
  BY <1>1, <1>2

LEMMA Grown ==
  ASSUME NEW w \in Seq(Jobs), NEW more \in Seq(Jobs)
  PROVE  /\ w \o more \in Seq(Jobs)
         /\ \A i \in DOMAIN w : i \in DOMAIN (w \o more) /\ (w \o more)[i] = w[i]
         /\ \A k \in DOMAIN more :
              /\ Len(w) + k \in DOMAIN (w \o more) /\ (w \o more)[Len(w) + k] = more[k]
              /\ \A i \in DOMAIN w : Len(w) + k > i
         /\ \A i \in DOMAIN (w \o more) :
              i \in DOMAIN w \/ \E k \in DOMAIN more : i = Len(w) + k
<1> DEFINE v == w \o more
<1>1. /\ v \in Seq(Jobs) /\ Len(w) \in Nat /\ Len(more) \in Nat
      /\ DOMAIN v = 1..(Len(w) + Len(more)) /\ DOMAIN w = 1..Len(w) /\ DOMAIN more = 1..Len(more)
      /\ \A i \in 1..(Len(w) + Len(more)) : v[i] = IF i <= Len(w) THEN w[i] ELSE more[i - Len(w)]
  OBVIOUS
<1> HIDE DEF v
<1>2. \A i \in DOMAIN w : i \in DOMAIN v /\ v[i] = w[i]
  BY <1>1
<1>3. ASSUME NEW k \in DOMAIN more
      PROVE  /\ Len(w) + k \in DOMAIN v /\ v[Len(w) + k] = more[k]
             /\ \A i \in DOMAIN w : Len(w) + k > i
  <2>1. /\ Len(w) + k \in 1..(Len(w) + Len(more)) /\ ~(Len(w) + k <= Len(w))
        /\ (Len(w) + k) - Len(w) = k
    BY <1>1
  <2> QED
    BY <1>1, <2>1
<1>4. ASSUME NEW i \in DOMAIN v, i \notin DOMAIN w
      PROVE  \E k \in DOMAIN more : i = Len(w) + k
  <2>1. i - Len(w) \in DOMAIN more /\ i = Len(w) + (i - Len(w))
    BY <1>1, <1>4
  <2> QED
    BY <2>1
<1>5. /\ \A i \in DOMAIN w : i \in DOMAIN v /\ v[i] = w[i]
      /\ \A k \in DOMAIN more :
              /\ Len(w) + k \in DOMAIN v /\ v[Len(w) + k] = more[k]
              /\ \A i \in DOMAIN w : Len(w) + k > i
      /\ \A i \in DOMAIN v : i \in DOMAIN w \/ \E k \in DOMAIN more : i = Len(w) + k
  BY <1>2, <1>3, <1>4
<1> QED
  BY <1>1, <1>5 DEF v

LEMMA Shrunk ==
  ASSUME NEW w \in Seq(Jobs), w # <<>>
  PROVE  /\ Tail(w) \in Seq(Jobs) /\ 1 \in DOMAIN w /\ Head(w) = w[1]
         /\ \A i \in DOMAIN Tail(w) : i \in Nat /\ i >= 1 /\ i + 1 \in DOMAIN w /\ Tail(w)[i] = w[i + 1]
         /\ \A i \in DOMAIN w : i # 1 => /\ i - 1 \in DOMAIN Tail(w)
                                         /\ Tail(w)[i - 1] = w[i]
<1>1. /\ Len(w) \in Nat \ {0} /\ DOMAIN w = 1..Len(w) /\ DOMAIN Tail(w) = 1..(Len(w) - 1)
      /\ Tail(w) \in Seq(Jobs) /\ Head(w) = w[1]
      /\ \A i \in 1..(Len(w) - 1) : Tail(w)[i] = w[i + 1]
  OBVIOUS
<1>2. \A i \in DOMAIN Tail(w) : i \in Nat /\ i >= 1 /\ i + 1 \in DOMAIN w /\ Tail(w)[i] = w[i + 1]
  BY <1>1
<1>3. ASSUME NEW i \in DOMAIN w, i # 1 PROVE i - 1 \in DOMAIN Tail(w) /\ Tail(w)[i - 1] = w[i]
  <2>1. i - 1 \in 1..(Len(w) - 1) /\ (i - 1) + 1 = i
    BY <1>1, <1>3
  <2> QED
    BY <1>1, <2>1
<1> QED
  BY <1>1, <1>2, <1>3

LEMMA LandsMore ==
  ASSUME NEW w \in Seq(Jobs), NEW more \in Seq(Jobs), NEW m, NEW r, NEW p, Lands(w, m, r, p),
         \A k \in DOMAIN more : /\ more[k].kind # "record"
                                /\ more[k].kind \in {"clear", "restore"} => more[k].id # r
  PROVE  Lands(w \o more, m, r, p)
<1> DEFINE v == w \o more
<1>1. /\ \A i \in DOMAIN w : i \in DOMAIN v /\ v[i] = w[i]
      /\ \A i \in DOMAIN v : i \in DOMAIN w \/ \E k \in DOMAIN more : i = Len(w) + k /\ v[i] = more[k]
  BY Grown
<1> HIDE DEF v
<1>2. \A i \in DOMAIN v : v[i].kind \in {"clear", "restore"} => v[i].id # r
  BY <1>1 DEF Lands
<1>3. \A i \in DOMAIN v : v[i].kind = "record" => i \in DOMAIN w /\ v[i] = w[i]
  BY <1>1
<1> QED
  BY <1>1, <1>2, <1>3 DEF Lands, v

\* The record job of a run that nobody undoes lands.
LEMMA LandsRecord ==
  ASSUME NEW w \in Seq(Jobs), NEW m, NEW r \in Ids, NEW p \in Stored,
         \A i \in DOMAIN w : w[i].kind \in {"clear", "restore"} => w[i].id # r
  PROVE  Lands(w \o <<Job("record", NoClient, r, p), Snapshot("running")>>, m, r, p)
<1> DEFINE more == <<Job("record", NoClient, r, p), Snapshot("running")>>
           v == w \o more
<1>1. /\ more \in Seq(Jobs) /\ DOMAIN more = {1, 2}
      /\ more[1].kind = "record" /\ more[1].id = r /\ more[1].prompt = p
      /\ more[2].kind = "running"
  BY PromptAssumption DEF Job, Snapshot, Jobs, Ids, Stored
<1> HIDE DEF more
<1>2. /\ \A i \in DOMAIN w : i \in DOMAIN v /\ v[i] = w[i]
      /\ \A k \in DOMAIN more :
              /\ Len(w) + k \in DOMAIN v /\ v[Len(w) + k] = more[k]
              /\ \A i \in DOMAIN w : Len(w) + k > i
      /\ \A i \in DOMAIN v : i \in DOMAIN w \/ \E k \in DOMAIN more : i = Len(w) + k
  BY <1>1, Grown
<1> HIDE DEF v
<1>3. Len(w) \in Nat /\ \A i \in DOMAIN w : i \in Nat
  OBVIOUS
<1>4. /\ Len(w) + 1 \in DOMAIN v /\ v[Len(w) + 1] = more[1]
      /\ \A i \in DOMAIN v : \/ i \in DOMAIN w /\ v[i] = w[i] /\ ~(i > Len(w) + 1)
                             \/ i = Len(w) + 1 /\ v[i] = more[1] /\ ~(i > Len(w) + 1)
                             \/ v[i] = more[2]
  BY <1>1, <1>2, <1>3
<1>5. \A i \in DOMAIN v : v[i].kind \in {"clear", "restore"} => v[i].id # r
  BY <1>1, <1>4
<1>6. \A i \in DOMAIN v : i > Len(w) + 1 => v[i].kind # "record"
  BY <1>1, <1>4
<1> QED
  BY <1>1, <1>4, <1>5, <1>6 DEF Lands, v, more

\* The first job is executed.
LEMMA LandsExecuted ==
  ASSUME NEW w \in Seq(Jobs), w # <<>>, NEW m \in Marker, NEW r, NEW p, Lands(w, m, r, p)
  PROVE  Lands(Tail(w), MarkerAfter(m, Head(w)), r, p)
<1> DEFINE v == Tail(w)
           n == MarkerAfter(m, w[1])
<1>1. /\ 1 \in DOMAIN w /\ Head(w) = w[1]
      /\ \A i \in DOMAIN v : i \in Nat /\ i >= 1 /\ i + 1 \in DOMAIN w /\ v[i] = w[i + 1]
      /\ \A i \in DOMAIN w : i # 1 => i - 1 \in DOMAIN v /\ v[i - 1] = w[i]
      /\ \A i \in DOMAIN w : i \in Nat
  BY Shrunk, JobTypes
<1> HIDE DEF v, n
<1>2. \A i \in DOMAIN v : v[i].kind \in {"clear", "restore"} => v[i].id # r
  BY <1>1 DEF Lands
<1>3. CASE (\A i \in DOMAIN w : w[i].kind # "record") /\ m = RunningMarker(r, p)
  <2>1. \A i \in DOMAIN v : v[i].kind # "record"
    BY <1>1, <1>3
  <2>2. /\ w[1].kind # "record" /\ (w[1].kind \in {"clear", "restore"} => w[1].id # r)
        /\ m.state = "running" /\ m.run = r
    BY <1>1, <1>3 DEF Lands, RunningMarker
  <2>3. n = m
    BY <2>2 DEF n, MarkerAfter
  <2> QED
    BY <1>1, <1>2, <1>3, <2>1, <2>3 DEF Lands, v, n
<1>4. CASE \E i \in DOMAIN w :
             /\ w[i].kind = "record" /\ w[i].id = r /\ w[i].prompt = p
             /\ \A j \in DOMAIN w : j > i => w[j].kind # "record"
  <2>1. PICK i \in DOMAIN w :
             /\ w[i].kind = "record" /\ w[i].id = r /\ w[i].prompt = p
             /\ \A j \in DOMAIN w : j > i => w[j].kind # "record"
    BY <1>4
  <2>2. CASE i = 1
    <3>1. n = RunningMarker(r, p)
      BY <2>1, <2>2 DEF n, MarkerAfter
    <3>2. \A j \in DOMAIN v : v[j].kind # "record"
      BY <1>1, <2>1, <2>2
    <3> QED
      BY <1>1, <1>2, <3>1, <3>2 DEF Lands, v, n
  <2>3. CASE i # 1
    <3>1. i - 1 \in DOMAIN v /\ v[i - 1] = w[i]
      BY <1>1, <2>3
    <3>2. ASSUME NEW j \in DOMAIN v, j > i - 1 PROVE v[j].kind # "record"
      <4>1. j + 1 \in DOMAIN w /\ j + 1 > i /\ v[j] = w[j + 1]
        BY <1>1, <3>2
      <4> QED
        BY <2>1, <4>1
    <3> QED
      BY <1>1, <1>2, <2>1, <3>1, <3>2 DEF Lands, v, n
  <2> QED
    BY <2>2, <2>3
<1> QED
  BY <1>3, <1>4 DEF Lands

LEMMA LandsWritten ==
  ASSUME NEW w \in Seq(Jobs), NEW m, NEW r, NEW p, Lands(w, m, r, p),
         ~\E i \in DOMAIN w : w[i].kind = "record" /\ w[i].id = r
  PROVE  m = RunningMarker(r, p)
BY DEF Lands

LEMMA IdsMore ==
  ASSUME NEW w \in Seq(Jobs), NEW more \in Seq(Jobs), NEW t, NEW cl, NEW n, OwnIds(w, t, cl, n),
         \A k \in DOMAIN more :
           /\ more[k].id <= n
           /\ t.phase # "none" /\ more[k].kind \in {"clear", "claim", "restore"} => more[k].id # t.run
  PROVE  OwnIds(w \o more, t, cl, n)
<1> DEFINE v == w \o more
<1>1. \A i \in DOMAIN v : \/ i \in DOMAIN w /\ v[i] = w[i]
                          \/ \E k \in DOMAIN more : v[i] = more[k]
  BY Grown
<1> HIDE DEF v
<1> QED
  BY <1>1 DEF OwnIds, v

\* A turn that ends, and one that starts with the next id.
LEMMA IdsStop ==
  ASSUME NEW w, NEW t, NEW cl, NEW n \in Nat, OwnIds(w, t, cl, n)
  PROVE  OwnIds(w, NoTurn, cl, n)
BY DEF OwnIds, NoTurn

LEMMA IdsStart ==
  ASSUME NEW w \in Seq(Jobs), NEW t, NEW cl \in [Clients -> [id : Ids, prompt : Stored]],
         NEW n \in Nat, OwnIds(w, t, cl, n), NEW u, u.run = n + 1
  PROVE  OwnIds(w, u, cl, n + 1)
<1>1. /\ \A i \in DOMAIN w : w[i].id \in Nat /\ w[i].id <= n
      /\ \A c \in Clients : cl[c].id \in Nat /\ cl[c].id <= n
  BY JobTypes DEF OwnIds, Ids
<1> QED
  BY <1>1 DEF OwnIds

LEMMA IdsClaim ==
  ASSUME NEW w \in Seq(Jobs), NEW t, t.run \in Nat, NEW cl \in [Clients -> [id : Ids, prompt : Stored]],
         NEW n \in Nat, OwnIds(w, t, cl, n), NEW c \in Clients
  PROVE  OwnIds(w, t, [cl EXCEPT ![c] = [id |-> n + 1, prompt |-> NoPrompt]], n + 1)
<1> DEFINE cl2 == [cl EXCEPT ![c] = [id |-> n + 1, prompt |-> NoPrompt]]
<1>1. \A d \in Clients : cl2[d].id = IF d = c THEN n + 1 ELSE cl[d].id
  OBVIOUS
<1>2. /\ \A i \in DOMAIN w : w[i].id \in Nat /\ w[i].id <= n
      /\ \A d \in Clients : cl[d].id \in Nat /\ cl[d].id <= n
      /\ t.run <= n
  BY JobTypes DEF OwnIds, Ids
<1> HIDE DEF cl2
<1> QED
  BY <1>1, <1>2 DEF OwnIds, cl2

LEMMA MatchesMore ==
  ASSUME NEW w \in Seq(Jobs), NEW more \in Seq(Jobs), NEW cl, Matches(w, cl),
         \A k \in DOMAIN more :
           more[k].kind \in {"claim", "restore"} => more[k].id = cl[more[k].client].id
  PROVE  Matches(w \o more, cl)
<1> DEFINE v == w \o more
<1>1. \A i \in DOMAIN v : \/ i \in DOMAIN w /\ v[i] = w[i]
                          \/ \E k \in DOMAIN more : v[i] = more[k]
  BY Grown
<1> HIDE DEF v
<1> QED
  BY <1>1 DEF Matches, v

\* A turn that ends or is replaced queues the job that clears its marker.
LEMMA RecordsMore ==
  ASSUME NEW w \in Seq(Jobs), NEW more \in Seq(Jobs), NEW t, NEW u, RecordsAnswered(w, t),
         \A k \in DOMAIN more : more[k].kind # "record",
         t.phase = "running" =>
           \/ u.phase = "running" /\ u.run = t.run
           \/ \E k \in DOMAIN more : more[k].kind = "clear" /\ more[k].id = t.run
  PROVE  RecordsAnswered(w \o more, u)
<1> DEFINE v == w \o more
<1>1. /\ \A i \in DOMAIN w : i \in DOMAIN v /\ v[i] = w[i]
      /\ \A k \in DOMAIN more :
           /\ Len(w) + k \in DOMAIN v /\ v[Len(w) + k] = more[k]
           /\ \A i \in DOMAIN w : Len(w) + k > i
      /\ \A i \in DOMAIN v : i \in DOMAIN w \/ \E k \in DOMAIN more : i = Len(w) + k
  BY Grown
<1> HIDE DEF v
<1> SUFFICES ASSUME NEW i \in DOMAIN v, v[i].kind = "record"
             PROVE  \/ u.phase = "running" /\ u.run = v[i].id
                    \/ \E j \in DOMAIN v : j > i /\ v[j].kind = "clear" /\ v[j].id = v[i].id
  BY DEF RecordsAnswered, v
<1>2. i \in DOMAIN w /\ w[i] = v[i]
  BY <1>1
<1>3. CASE t.phase = "running" /\ t.run = w[i].id
  BY <1>1, <1>2, <1>3
<1>4. CASE \E j \in DOMAIN w : j > i /\ w[j].kind = "clear" /\ w[j].id = w[i].id
  BY <1>1, <1>2, <1>4
<1> QED
  BY <1>2, <1>3, <1>4 DEF RecordsAnswered

LEMMA RecordsStarted ==
  ASSUME NEW w \in Seq(Jobs), NEW t, t.phase # "running", RecordsAnswered(w, t),
         NEW r \in Ids, NEW p \in Stored, NEW u, u.phase = "running", u.run = r
  PROVE  RecordsAnswered(w \o <<Job("record", NoClient, r, p), Snapshot("running")>>, u)
<1> DEFINE more == <<Job("record", NoClient, r, p), Snapshot("running")>>
           v == w \o more
<1>1. /\ more \in Seq(Jobs) /\ DOMAIN more = {1, 2}
      /\ more[1].kind = "record" /\ more[1].id = r /\ more[2].kind = "running"
  BY PromptAssumption DEF Job, Snapshot, Jobs, Ids, Stored
<1> HIDE DEF more
<1>2. /\ \A i \in DOMAIN w : i \in DOMAIN v /\ v[i] = w[i]
      /\ \A i \in DOMAIN v : i \in DOMAIN w \/ \E k \in DOMAIN more : i = Len(w) + k /\ v[i] = more[k]
  BY <1>1, Grown
<1> HIDE DEF v
<1> SUFFICES ASSUME NEW i \in DOMAIN v, v[i].kind = "record"
             PROVE  \/ u.phase = "running" /\ u.run = v[i].id
                    \/ \E j \in DOMAIN v : j > i /\ v[j].kind = "clear" /\ v[j].id = v[i].id
  BY DEF RecordsAnswered, v, more
<1>3. CASE i \in DOMAIN w
  BY <1>2, <1>3 DEF RecordsAnswered
<1>4. CASE i \notin DOMAIN w
  BY <1>1, <1>2, <1>4
<1> QED
  BY <1>3, <1>4

LEMMA RecordsExecuted ==
  ASSUME NEW w \in Seq(Jobs), w # <<>>, NEW t, RecordsAnswered(w, t)
  PROVE  /\ RecordsAnswered(Tail(w), t)
         /\ Head(w).kind = "record" =>
              \/ t.phase = "running" /\ t.run = Head(w).id
              \/ \E j \in DOMAIN Tail(w) : Tail(w)[j].kind = "clear" /\ Tail(w)[j].id = Head(w).id
<1> DEFINE v == Tail(w)
<1>1. /\ 1 \in DOMAIN w /\ Head(w) = w[1]
      /\ \A i \in DOMAIN v : i \in Nat /\ i >= 1 /\ i + 1 \in DOMAIN w /\ v[i] = w[i + 1]
      /\ \A i \in DOMAIN w : i # 1 => i - 1 \in DOMAIN v /\ v[i - 1] = w[i]
      /\ \A i \in DOMAIN w : i \in Nat
  BY Shrunk, JobTypes
<1> HIDE DEF v
<1>2. ASSUME NEW i \in DOMAIN w, NEW j \in DOMAIN w, j > i, i >= 1
      PROVE  j - 1 \in DOMAIN v /\ v[j - 1] = w[j] /\ j - 1 > i - 1
  BY <1>1, <1>2
<1>3. ASSUME NEW i \in DOMAIN v, v[i].kind = "record"
      PROVE  \/ t.phase = "running" /\ t.run = v[i].id
             \/ \E j \in DOMAIN v : j > i /\ v[j].kind = "clear" /\ v[j].id = v[i].id
  <2>1. i + 1 \in DOMAIN w /\ w[i + 1] = v[i] /\ i + 1 >= 1 /\ (i + 1) - 1 = i
    BY <1>1
  <2>2. CASE \E j \in DOMAIN w : j > i + 1 /\ w[j].kind = "clear" /\ w[j].id = v[i].id
    BY <1>2, <2>1, <2>2
  <2> QED
    BY <1>3, <2>1, <2>2 DEF RecordsAnswered
<1>4. ASSUME w[1].kind = "record"
      PROVE  \/ t.phase = "running" /\ t.run = w[1].id
             \/ \E j \in DOMAIN v : v[j].kind = "clear" /\ v[j].id = w[1].id
  <2>1. CASE \E j \in DOMAIN w : j > 1 /\ w[j].kind = "clear" /\ w[j].id = w[1].id
    <3>1. PICK j \in DOMAIN w : j > 1 /\ w[j].kind = "clear" /\ w[j].id = w[1].id
      BY <2>1
    <3>2. j - 1 \in DOMAIN v /\ v[j - 1] = w[j]
      BY <1>1, <3>1
    <3> QED
      BY <3>1, <3>2
  <2> QED
    BY <1>1, <1>4, <2>1 DEF RecordsAnswered
<1> QED
  BY <1>1, <1>3, <1>4 DEF RecordsAnswered, v

-----------------------------------------------------------------------------
(* The steps of the daemon keep the marker true.                            *)

\* The types that the steps need.
LEMMA Typed ==
  ASSUME IInv
  PROVE  /\ writes \in Seq(Jobs) /\ record.marker \in Marker /\ ids \in Nat /\ ids \in Ids
         /\ turn.run \in Nat /\ turn.run \in Ids
         /\ claim \in [Clients -> [id : Ids, prompt : Stored]]
         /\ pc \in [Clients -> States]
         /\ turn.phase # "none" => turn.prompt \in Messages
         /\ turn.phase = "none" => turn = NoTurn
         /\ turn.phase \in {"none", "starting", "running"}
BY PromptAssumption DEF IInv, TypeOK, NoTurn, Ids, States

\* A client that continues is still the one that answers for its marker.
LEMMA AnsweredStill ==
  ASSUME IInv, MarkerAnswered, NEW more \in Seq(Jobs), writes' = writes \o more, record' = record,
         turn.phase = "running" =>
           \/ turn'.phase = "running" /\ turn'.run = turn.run
           \/ \E k \in DOMAIN more : more[k].kind = "clear" /\ more[k].id = turn.run,
         \/ \A c \in Clients : Continuing(c) => Continuing(c)' /\ claim'[c].id = claim[c].id
         \/ \E k \in DOMAIN more : more[k].kind = "record"
  PROVE  MarkerAnswered'
<1>1. /\ \A i \in DOMAIN writes : i \in DOMAIN writes' /\ writes'[i] = writes[i]
      /\ \A k \in DOMAIN more : Len(writes) + k \in DOMAIN writes' /\ writes'[Len(writes) + k] = more[k]
  BY Grown, Typed
<1> SUFFICES ASSUME record.marker.state = "running"
             PROVE  \/ turn'.phase = "running" /\ turn'.run = record.marker.run
                    \/ \E i \in DOMAIN writes' :
                         \/ writes'[i].kind = "record"
                         \/ writes'[i].kind = "clear" /\ writes'[i].id = record.marker.run
                    \/ \E c \in Clients : Continuing(c)' /\ claim'[c].id = record.marker.run
  BY DEF MarkerAnswered
<1>2. CASE turn.phase = "running" /\ turn.run = record.marker.run
  BY <1>1, <1>2
<1>3. CASE \E i \in DOMAIN writes :
             \/ writes[i].kind = "record"
             \/ writes[i].kind = "clear" /\ writes[i].id = record.marker.run
  BY <1>1, <1>3
<1>4. CASE \E c \in Clients : Continuing(c) /\ claim[c].id = record.marker.run
  BY <1>1, <1>4
<1> QED
  BY <1>2, <1>3, <1>4 DEF MarkerAnswered

\* A step of the running daemon that starts, fails or goes on with a turn.
LEMMA QueueStep ==
  ASSUME daemon' = "up", OwnIds(writes', turn', claim', ids'), RunningLands',
         Matches(writes', claim'), RecordsAnswered(writes', turn'), MarkerAnswered'
  PROVE  MarkerInv'
BY DEF MarkerInv, CutLands

LEMMA UpMarker ==
  ASSUME MarkerInv, daemon = "up"
  PROVE  /\ OwnIds(writes, turn, claim, ids) /\ RunningLands /\ Matches(writes, claim)
         /\ RecordsAnswered(writes, turn) /\ MarkerAnswered
BY DEF MarkerInv

\* Starting a run clears the marker of the one it replaces.
LEMMA StartRunMarker ==
  ASSUME IInv, MarkerInv, daemon = "up", NEW p, StartRun(p), UNCHANGED <<daemon, record, claim>>,
         \A c \in Clients : Continuing(c) => Continuing(c)'
  PROVE  MarkerInv'
<1> DEFINE more == IF turn.phase = "running"
                   THEN <<Job("clear", NoClient, turn.run, NoPrompt)>> ELSE <<>>
<1>1. /\ writes' = writes \o more /\ ids' = ids + 1
      /\ turn' = [phase |-> "starting", run |-> ids + 1, prompt |-> p]
  BY DEF StartRun
<1>2. /\ more \in Seq(Jobs)
      /\ turn.phase = "running" => DOMAIN more = {1} /\ more[1].kind = "clear" /\ more[1].id = turn.run
      /\ turn.phase # "running" => DOMAIN more = {}
  <2>1. CASE turn.phase = "running"
    <3> DEFINE job == Job("clear", NoClient, turn.run, NoPrompt)
    <3>1. job \in Jobs /\ job.kind = "clear" /\ job.id = turn.run
      BY Typed DEF Job, Jobs, Stored
    <3>2. more = <<job>>
      BY <2>1
    <3> HIDE DEF job, more
    <3>3. more \in Seq(Jobs) /\ DOMAIN more = {1} /\ more[1] = job
      BY <3>1, <3>2
    <3> QED
      BY <2>1, <3>1, <3>3
  <2>2. CASE turn.phase # "running"
    BY <2>2
  <2> QED
    BY <2>1, <2>2
<1> HIDE DEF more
<1>3. OwnIds(writes', turn', claim', ids')
  <2>1. OwnIds(writes, NoTurn, claim, ids)
    BY Typed, UpMarker, IdsStop
  <2>2. \A k \in DOMAIN more : more[k].id <= ids
    BY <1>2, UpMarker, Typed DEF OwnIds
  <2>3. OwnIds(writes \o more, NoTurn, claim, ids)
    BY <1>2, <2>1, <2>2, Typed, IdsMore DEF NoTurn
  <2>4. writes \o more \in Seq(Jobs) /\ turn'.run = ids + 1
    BY <1>1, <1>2, Typed
  <2> QED
    BY <1>1, <2>3, <2>4, Typed, IdsStart
<1>4. RunningLands'
  BY <1>1 DEF RunningLands
<1>5. Matches(writes', claim')
  BY <1>1, <1>2, UpMarker, Typed, MatchesMore
<1>6. RecordsAnswered(writes', turn')
  BY <1>1, <1>2, UpMarker, Typed, RecordsMore
<1>7. MarkerAnswered'
  BY <1>1, <1>2, UpMarker, AnsweredStill
<1> QED
  BY <1>3, <1>4, <1>5, <1>6, <1>7, QueueStep

\* A step of the running daemon that leaves the turn and the claims alone.
LEMMA MoreJobsMarker ==
  ASSUME IInv, MarkerInv, daemon = "up", NEW more \in Seq(Jobs), writes' = writes \o more,
         UNCHANGED <<daemon, record, turn, claim, ids>>,
         \A c \in Clients : Continuing(c) => Continuing(c)',
         \A k \in DOMAIN more :
           /\ more[k].kind \notin {"record", "clear"}
           /\ more[k].id <= ids
           /\ more[k].kind \in {"claim", "restore"} =>
                more[k].client \in Clients /\ more[k].id = claim[more[k].client].id
  PROVE  MarkerInv'
<1>1. \A k \in DOMAIN more :
        turn.phase # "none" /\ more[k].kind \in {"clear", "claim", "restore"} => more[k].id # turn.run
  BY UpMarker DEF OwnIds
<1>2. OwnIds(writes', turn', claim', ids')
  BY <1>1, UpMarker, Typed, IdsMore
<1>3. RunningLands'
  BY <1>1, UpMarker, Typed, LandsMore DEF RunningLands
<1>4. Matches(writes', claim')
  BY UpMarker, Typed, MatchesMore
<1>5. RecordsAnswered(writes', turn')
  BY UpMarker, Typed, RecordsMore
<1>6. MarkerAnswered'
  BY UpMarker, AnsweredStill
<1> QED
  BY <1>2, <1>3, <1>4, <1>5, <1>6, QueueStep

LEMMA StartedMarker == ASSUME IInv, MarkerInv, Started PROVE MarkerInv'
<1> DEFINE more == <<Job("record", NoClient, turn.run, ToStored(turn.prompt)), Snapshot("running")>>
<1>1. /\ daemon = "up" /\ turn.phase = "starting" /\ writes' = writes \o more
      /\ turn' = [turn EXCEPT !.phase = "running"]
      /\ UNCHANGED <<daemon, record, claim, ids>>
  BY DEF Started
<1>2. turn.run \in Ids /\ ToStored(turn.prompt) \in Stored
  BY <1>1, Typed, PromptTypes
<1>3. /\ more \in Seq(Jobs) /\ DOMAIN more = {1, 2}
      /\ more[1].kind = "record" /\ more[1].id = turn.run
      /\ more[2].kind = "running" /\ more[2].id = 0
  BY <1>2, PromptAssumption DEF Job, Snapshot, Jobs, Ids, Stored
<1>4. turn'.phase = "running" /\ turn'.run = turn.run /\ turn'.prompt = turn.prompt
  <2>1. turn \in [phase : {"starting", "running"}, run : Ids, prompt : Messages]
    BY <1>1 DEF IInv, TypeOK, NoTurn
  <2> QED
    BY <1>1, <2>1
<1>5. OwnIds(writes, turn, claim, ids)
  BY <1>1, UpMarker
<1>6. RunningLands'
  <2>1. \A i \in DOMAIN writes : writes[i].kind \in {"clear", "restore"} => writes[i].id # turn.run
    BY <1>1, <1>5 DEF OwnIds
  <2>2. Lands(writes', record.marker, turn.run, ToStored(turn.prompt))
    BY <1>1, <1>2, <2>1, Typed, LandsRecord
  <2> QED
    BY <1>1, <1>4, <2>2 DEF RunningLands
<1>7. RecordsAnswered(writes', turn')
  BY <1>1, <1>2, <1>4, Typed, UpMarker, RecordsStarted
<1> HIDE DEF more
<1>8. OwnIds(writes', turn', claim', ids')
  <2>1. \A k \in DOMAIN more : more[k].id <= ids
    BY <1>3, <1>5, Typed DEF OwnIds
  <2>2. OwnIds(writes \o more, turn, claim, ids)
    BY <1>3, <1>5, <2>1, Typed, IdsMore
  <2> QED
    BY <1>1, <1>4, <2>2 DEF OwnIds
<1>9. Matches(writes', claim')
  BY <1>1, <1>3, UpMarker, Typed, MatchesMore
<1>10. MarkerAnswered'
  BY <1>1, <1>3, UpMarker, AnsweredStill
<1> QED
  BY <1>1, <1>6, <1>7, <1>8, <1>9, <1>10, QueueStep

\* A turn that ends queues the job that clears its marker, and one that does not
\* start has none.
LEMMA TurnEnds ==
  ASSUME IInv, MarkerInv, daemon = "up", turn' = NoTurn, UNCHANGED <<daemon, record, claim, ids>>,
         NEW more \in Seq(Jobs), writes' = writes \o more,
         \A c \in Clients : Continuing(c) => Continuing(c)',
         \A k \in DOMAIN more :
           /\ more[k].kind # "record"
           /\ more[k].id <= ids
           /\ more[k].kind \in {"claim", "restore"} => more[k].id = claim[more[k].client].id,
         turn.phase = "running" => \E k \in DOMAIN more : more[k].kind = "clear" /\ more[k].id = turn.run
  PROVE  MarkerInv'
<1>1. OwnIds(writes', turn', claim', ids')
  BY UpMarker, Typed, IdsStop, IdsMore DEF NoTurn
<1>2. RunningLands'
  BY DEF RunningLands, NoTurn
<1>3. Matches(writes', claim')
  BY UpMarker, Typed, MatchesMore
<1>4. RecordsAnswered(writes', turn')
  BY UpMarker, Typed, RecordsMore
<1>5. MarkerAnswered'
  BY UpMarker, AnsweredStill
<1> QED
  BY <1>1, <1>2, <1>3, <1>4, <1>5, QueueStep

-----------------------------------------------------------------------------
(* The actions.                                                             *)

\* The jobs of snapshots and of clients.
LEMMA SnapshotJob ==
  ASSUME NEW s \in {"idle", "running", "error", "closed"}
  PROVE  /\ Snapshot(s) \in Jobs /\ Snapshot(s).kind = s /\ Snapshot(s).id = 0
BY PromptAssumption DEF Snapshot, Jobs, Ids, Stored

LEMMA RestoreJob ==
  ASSUME IInv, NEW c \in Clients
  PROVE  /\ Restore(c) \in Jobs /\ Restore(c).kind = "restore"
         /\ Restore(c).client = c /\ Restore(c).id = claim[c].id
BY Typed DEF Restore, Job, Jobs

LEMMA SendMarker ==
  ASSUME IInv, MarkerInv, NEW p, Send(p) PROVE MarkerInv'
<1>1. /\ daemon = "up" /\ StartRun(p) /\ UNCHANGED <<daemon, record, claim>>
      /\ \A c \in Clients : Continuing(c) => Continuing(c)'
  BY DEF Send, Continuing
<1> QED
  BY <1>1, StartRunMarker

LEMMA ContinueSendsMarker ==
  ASSUME IInv, MarkerInv, NEW c \in Clients, ContinueSends(c) PROVE MarkerInv'
<1>1. /\ daemon = "up" /\ StartRun(Resolve(claim[c].prompt)) /\ UNCHANGED <<daemon, record, claim>>
      /\ pc' = [pc EXCEPT ![c] = "waiting"]
  BY DEF ContinueSends
<1>2. \A d \in Clients : Continuing(d) => Continuing(d)'
  BY <1>1, Typed DEF Continuing
<1> QED
  BY <1>1, <1>2, StartRunMarker

LEMMA SteeredMarker ==
  ASSUME IInv, MarkerInv, NEW p, Steered(p) PROVE MarkerInv'
<1> DEFINE more == <<>>
<1>1. /\ daemon = "up" /\ UNCHANGED <<daemon, record, turn, claim, ids, writes, pc>>
      /\ \A c \in Clients : Continuing(c) => Continuing(c)'
  BY DEF Steered, Continuing
<1>2. more \in Seq(Jobs) /\ DOMAIN more = {} /\ writes' = writes \o more
  BY <1>1, Typed
<1> HIDE DEF more
<1> QED
  BY <1>1, <1>2, MoreJobsMarker

\* A client that gives up queues the restoring of its claim and goes on owning it.
LEMMA GiveUpMarker ==
  ASSUME IInv, MarkerInv, NEW c \in Clients, WaitFails(c) \/ SendRejected(c) PROVE MarkerInv'
<1>1. /\ daemon = "up" /\ UNCHANGED <<daemon, record, turn, claim, ids>>
      /\ pc' = [pc EXCEPT ![c] = "restoring"] /\ writes' = writes \o <<>> \o <<Restore(c)>>
  BY DEF WaitFails, SendRejected, GiveUp
<1>2. /\ Restore(c) \in Jobs /\ Restore(c).kind = "restore"
      /\ Restore(c).client = c /\ Restore(c).id = claim[c].id
  BY RestoreJob
<1> DEFINE more == <<Restore(c)>>
<1>3. more \in Seq(Jobs) /\ DOMAIN more = {1} /\ more[1] = Restore(c)
  BY <1>2
<1>4. writes' = writes \o more
  BY <1>1, Typed
<1>5. \A d \in Clients : Continuing(d) => Continuing(d)'
  BY <1>1, Typed DEF Continuing
<1>6. claim[c].id <= ids
  BY <1>1, UpMarker DEF OwnIds
<1> HIDE DEF more
<1> QED
  BY <1>1, <1>2, <1>3, <1>4, <1>5, <1>6, MoreJobsMarker

LEMMA DismissMarker ==
  ASSUME IInv, MarkerInv, NEW c \in Clients, Dismiss(c) PROVE MarkerInv'
<1> DEFINE job == Job("dismiss", c, 0, NoPrompt)
           more == <<job>>
<1>1. /\ daemon = "up" /\ UNCHANGED <<daemon, record, turn, claim, ids>> /\ pc[c] = "idle"
      /\ pc' = [pc EXCEPT ![c] = "dismissing"] /\ writes' = Append(writes, job)
  BY DEF Dismiss
<1>2. job \in Jobs /\ job.kind = "dismiss" /\ job.id = 0
  BY PromptAssumption DEF Job, Jobs, Ids, Stored
<1> HIDE DEF job
<1>3. more \in Seq(Jobs) /\ DOMAIN more = {1} /\ more[1] = job /\ writes' = writes \o more
  BY <1>1, <1>2, Typed
<1>4. \A d \in Clients : Continuing(d) => Continuing(d)'
  BY <1>1, Typed DEF Continuing
<1>5. 0 <= ids
  BY Typed
<1> HIDE DEF more
<1> QED
  BY <1>1, <1>2, <1>3, <1>4, <1>5, MoreJobsMarker

\* A claim job has the next id, which is the one its client will answer for.
LEMMA ContinueMarker ==
  ASSUME IInv, MarkerInv, NEW c \in Clients, Continue(c) PROVE MarkerInv'
<1> DEFINE job == Job("claim", c, ids + 1, NoPrompt)
           more == <<job>>
<1>1. /\ daemon = "up" /\ UNCHANGED <<daemon, record, turn>> /\ pc[c] = "idle"
      /\ ids < MaxIds /\ ids' = ids + 1
      /\ claim' = [claim EXCEPT ![c] = [id |-> ids + 1, prompt |-> NoPrompt]]
      /\ pc' = [pc EXCEPT ![c] = "claiming"] /\ writes' = Append(writes, job)
  BY DEF Continue
<1>2. job \in Jobs /\ job.kind = "claim" /\ job.id = ids + 1 /\ job.client = c
  BY <1>1, Typed, PromptAssumption DEF Job, Jobs, Ids, Stored
<1> HIDE DEF job
<1>3. more \in Seq(Jobs) /\ DOMAIN more = {1} /\ more[1] = job /\ writes' = writes \o more
  BY <1>1, <1>2, Typed
<1> HIDE DEF more
<1>4. claim'[c].id = ids + 1 /\ \A d \in Clients : d # c => claim'[d] = claim[d]
  BY <1>1, Typed
<1>5. OwnIds(writes', turn', claim', ids')
  <2>1. OwnIds(writes, turn, claim, ids)
    BY <1>1, UpMarker
  <2>2. OwnIds(writes, turn, claim', ids + 1)
    BY <1>1, <2>1, Typed, IdsClaim
  <2>3. turn.phase # "none" => ids + 1 # turn.run
    BY <2>1, Typed DEF OwnIds
  <2>4. \A k \in DOMAIN more :
          /\ more[k].id <= ids + 1
          /\ turn.phase # "none" /\ more[k].kind \in {"clear", "claim", "restore"} => more[k].id # turn.run
    BY <1>2, <1>3, <2>3, Typed
  <2>5. OwnIds(writes \o more, turn, claim', ids + 1)
    BY <1>3, <2>2, <2>4, Typed, IdsMore
  <2> QED
    BY <1>1, <1>3, <2>5
<1>6. RunningLands'
  <2>1. \A k \in DOMAIN more : more[k].kind \notin {"record", "clear", "restore"}
    BY <1>2, <1>3
  <2> QED
    BY <1>1, <1>3, <2>1, UpMarker, Typed, LandsMore DEF RunningLands
<1>7. Matches(writes', claim')
  <2>1. ASSUME NEW i \in DOMAIN writes, writes[i].kind \in {"claim", "restore"}
        PROVE  writes[i].id = claim'[writes[i].client].id
    <3>1. writes[i].client \in Clients \cup {NoClient}
      BY Typed, JobTypes
    <3>2. /\ writes[i].client # NoClient
          /\ <<writes[i].kind, pc[writes[i].client]>> \in
               {<<"claim", "claiming">>, <<"restore", "restoring">>, <<"dismiss", "dismissing">>}
      BY <1>1, <2>1 DEF IInv, JobsAreAwaited
    <3>3. writes[i].client # c
      BY <1>1, <3>2
    <3>4. writes[i].id = claim[writes[i].client].id
      BY <1>1, <2>1, UpMarker DEF Matches
    <3> QED
      BY <1>4, <3>1, <3>2, <3>3, <3>4
  <2>2. Matches(writes, claim')
    BY <2>1 DEF Matches
  <2>3. \A k \in DOMAIN more :
          more[k].kind \in {"claim", "restore"} => more[k].id = claim'[more[k].client].id
    BY <1>2, <1>3, <1>4
  <2> QED
    BY <1>3, <2>2, <2>3, Typed, MatchesMore
<1>8. RecordsAnswered(writes', turn')
  <2>1. \A k \in DOMAIN more : more[k].kind # "record"
    BY <1>2, <1>3
  <2> QED
    BY <1>1, <1>3, <2>1, UpMarker, Typed, RecordsMore
<1>9. MarkerAnswered'
  <2>1. \A d \in Clients : Continuing(d) => Continuing(d)' /\ claim'[d].id = claim[d].id
    BY <1>1, <1>4, Typed DEF Continuing
  <2> QED
    BY <1>1, <1>3, <2>1, UpMarker, AnsweredStill
<1>10. daemon' = "up"
  BY <1>1
<1> QED
  BY <1>5, <1>6, <1>7, <1>8, <1>9, <1>10, QueueStep

LEMMA EndsMarker == ASSUME IInv, MarkerInv, Ends PROVE MarkerInv'
<1> DEFINE job == Job("clear", NoClient, turn.run, NoPrompt)
           more == <<Snapshot("idle"), job>>
<1>1. /\ daemon = "up" /\ turn.phase = "running" /\ turn' = NoTurn
      /\ UNCHANGED <<daemon, record, claim, ids, pc>> /\ writes' = writes \o more
  BY DEF Ends
<1>2. job \in Jobs /\ job.kind = "clear" /\ job.id = turn.run
  BY Typed DEF Job, Jobs, Stored
<1> HIDE DEF job
<1>3. /\ more \in Seq(Jobs) /\ DOMAIN more = {1, 2} /\ more[1] = Snapshot("idle") /\ more[2] = job
  BY <1>2, SnapshotJob
<1>4. \A k \in DOMAIN more :
        /\ more[k].kind \notin {"record", "claim", "restore"}
        /\ more[k].id <= ids
  BY <1>1, <1>2, <1>3, SnapshotJob, UpMarker, Typed DEF OwnIds
<1>5. \A d \in Clients : Continuing(d) => Continuing(d)'
  BY <1>1 DEF Continuing
<1> HIDE DEF more
<1> QED
  BY <1>1, <1>2, <1>3, <1>4, <1>5, TurnEnds

LEMMA StartFailsMarker == ASSUME IInv, MarkerInv, StartFails PROVE MarkerInv'
<1> DEFINE waiting == {c \in Clients : pc[c] = "waiting"}
<1>1. /\ daemon = "up" /\ turn.phase = "starting" /\ turn' = NoTurn
      /\ UNCHANGED <<daemon, record, claim, ids>>
      /\ \/ waiting = {} /\ writes' = Append(writes, Snapshot("error")) /\ UNCHANGED pc
         \/ \E c \in waiting : GiveUp(c, <<Snapshot("error")>>)
  BY DEF StartFails
<1>2. Snapshot("error") \in Jobs /\ Snapshot("error").kind = "error" /\ Snapshot("error").id = 0
  BY SnapshotJob
<1>3. 0 <= ids
  BY Typed
<1>4. CASE waiting = {} /\ writes' = Append(writes, Snapshot("error")) /\ UNCHANGED pc
  <2> DEFINE more == <<Snapshot("error")>>
  <2>1. more \in Seq(Jobs) /\ DOMAIN more = {1} /\ more[1] = Snapshot("error") /\ writes' = writes \o more
    BY <1>2, <1>4, Typed
  <2>2. \A d \in Clients : Continuing(d) => Continuing(d)'
    BY <1>4 DEF Continuing
  <2> HIDE DEF more
  <2> QED
    BY <1>1, <1>2, <1>3, <2>1, <2>2, TurnEnds
<1>5. CASE \E c \in waiting : GiveUp(c, <<Snapshot("error")>>)
  <2>1. PICK c \in waiting : GiveUp(c, <<Snapshot("error")>>)
    BY <1>5
  <2>2. c \in Clients /\ pc' = [pc EXCEPT ![c] = "restoring"]
    BY <2>1 DEF GiveUp
  <2>3. /\ Restore(c) \in Jobs /\ Restore(c).kind = "restore"
        /\ Restore(c).client = c /\ Restore(c).id = claim[c].id
    BY <2>2, RestoreJob
  <2> DEFINE more == <<Snapshot("error"), Restore(c)>>
  <2>4. /\ more \in Seq(Jobs) /\ DOMAIN more = {1, 2}
        /\ more[1] = Snapshot("error") /\ more[2] = Restore(c)
    BY <1>2, <2>3
  <2>5. writes' = writes \o more
    <3>1. writes' = writes \o <<Snapshot("error")>> \o <<Restore(c)>>
      BY <2>1 DEF GiveUp
    <3> QED
      BY <1>2, <2>3, <3>1, Typed
  <2>6. \A d \in Clients : Continuing(d) => Continuing(d)'
    BY <2>2, Typed DEF Continuing
  <2>7. claim[c].id <= ids
    BY <1>1, <2>2, UpMarker DEF OwnIds
  <2>8. \A k \in DOMAIN more :
          /\ more[k].kind # "record"
          /\ more[k].id <= ids
          /\ more[k].kind \in {"claim", "restore"} => more[k].id = claim[more[k].client].id
    BY <1>2, <1>3, <2>3, <2>4, <2>7
  <2> HIDE DEF more
  <2> QED
    BY <1>1, <2>4, <2>5, <2>6, <2>8, TurnEnds
<1> QED
  BY <1>1, <1>4, <1>5

\* The first job of a queue, and the marker that a job leaves when it still says
\* running.
LEMMA MarkerKept ==
  ASSUME NEW m \in Marker, NEW j \in Jobs, MarkerAfter(m, j).state = "running"
  PROVE  \/ j.kind = "record" /\ MarkerAfter(m, j).run = j.id
         \/ j.kind = "claim" /\ MarkerAfter(m, j) # m /\ MarkerAfter(m, j).run = j.id
         \/ /\ MarkerAfter(m, j) = m /\ j.kind # "record"
            /\ j.kind \in {"clear", "restore"} => j.id # m.run
<1>1. CASE j.kind = "record"
  BY <1>1 DEF MarkerAfter, RunningMarker
<1>2. CASE j.kind = "clear"
  BY <1>2 DEF MarkerAfter, NoMarker
<1>3. CASE j.kind = "claim"
  BY <1>3 DEF MarkerAfter, RunningMarker
<1>4. CASE j.kind = "restore"
  BY <1>4 DEF MarkerAfter, InterruptedMarker
<1>5. CASE j.kind = "dismiss"
  BY <1>5 DEF MarkerAfter, NoMarker
<1>6. CASE j.kind \notin {"record", "clear", "claim", "restore", "dismiss"}
  BY <1>6 DEF MarkerAfter
<1> QED
  BY <1>1, <1>2, <1>3, <1>4, <1>5, <1>6

LEMMA ExecuteFacts ==
  ASSUME IInv, ExecuteWrite
  PROVE  /\ writes # <<>> /\ Head(writes) \in Jobs
         /\ Head(writes).client \in Clients \cup {NoClient}
         /\ writes' = Tail(writes) /\ UNCHANGED <<daemon, turn, ids, cut>>
         /\ daemon \in {"up", "closing"}
         /\ record'.marker = MarkerAfter(record.marker, Head(writes))
         /\ \A c \in Clients :
              /\ c # Head(writes).client => pc'[c] = pc[c] /\ claim'[c] = claim[c]
              /\ claim'[c].id \in {0, claim[c].id}
         /\ daemon = "up" /\ Head(writes).kind = "claim" /\ record'.marker # record.marker =>
              LET c == Head(writes).client
              IN c \in Clients => pc'[c] = "claimed" /\ claim'[c].id = claim[c].id
<1> DEFINE j == Head(writes)
           won == j.kind = "claim" /\ MarkerAfter(record.marker, j) # record.marker
<1>1. writes # <<>> /\ j \in Jobs /\ j.client \in Clients \cup {NoClient}
  <2>1. writes # <<>> /\ j \in Jobs
    BY Typed DEF ExecuteWrite
  <2> QED
    BY <2>1 DEF Jobs
<1>2. /\ record'.marker = MarkerAfter(record.marker, j)
      /\ writes' = Tail(writes) /\ UNCHANGED <<daemon, turn, ids, cut>>
      /\ daemon \in {"up", "closing"}
  BY DEF ExecuteWrite, IInv, TypeOK
<1>3. /\ j.client = NoClient \/ daemon = "closing" => pc' = pc /\ claim' = claim
      /\ ~(j.client = NoClient \/ daemon = "closing") =>
           /\ pc' = [pc EXCEPT ![j.client] = IF won THEN "claimed" ELSE "idle"]
           /\ claim' = [claim EXCEPT ![j.client] =
                          IF won THEN [@ EXCEPT !.prompt = record.marker.prompt] ELSE NoClaim]
  BY DEF ExecuteWrite
<1>4. CASE j.client = NoClient \/ daemon = "closing"
  BY <1>1, <1>2, <1>3, <1>4, PromptAssumption
<1>5. CASE ~(j.client = NoClient \/ daemon = "closing")
  <2>1. j.client \in Clients
    BY <1>1, <1>5
  <2>2. \A c \in Clients : c # j.client => pc'[c] = pc[c] /\ claim'[c] = claim[c]
    BY <1>3, <1>5, Typed
  <2>3. /\ pc'[j.client] = IF won THEN "claimed" ELSE "idle"
        /\ won => claim'[j.client] = [claim[j.client] EXCEPT !.prompt = record.marker.prompt]
        /\ ~won => claim'[j.client] = NoClaim
    BY <1>3, <1>5, <2>1, Typed
  <2>4. claim[j.client] \in [id : Ids, prompt : Stored] /\ NoClaim.id = 0
    BY <2>1, Typed DEF NoClaim
  <2>5. won => claim'[j.client].id = claim[j.client].id
    BY <2>3, <2>4
  <2>6. ~won => claim'[j.client].id = 0
    BY <2>3, <2>4
  <2> HIDE DEF won
  <2>7. \A c \in Clients : claim'[c].id \in {0, claim[c].id}
    BY <2>2, <2>5, <2>6
  <2>8. won => pc'[j.client] = "claimed" /\ claim'[j.client].id = claim[j.client].id
    BY <2>3, <2>5
  <2> QED
    BY <1>1, <1>2, <2>2, <2>7, <2>8 DEF won
<1> QED
  BY <1>4, <1>5

\* Executing a job keeps the ids apart and the claims with their jobs.
LEMMA ExecuteIds ==
  ASSUME IInv, MarkerInv, ExecuteWrite
  PROVE  /\ OwnIds(writes', turn', claim', ids')
         /\ daemon = "up" => Matches(writes', claim')
<1>1. /\ writes \in Seq(Jobs) /\ writes # <<>> /\ writes' = Tail(writes)
      /\ UNCHANGED <<daemon, turn, ids>>
      /\ \A c \in Clients : /\ c # Head(writes).client => claim'[c] = claim[c]
                            /\ claim'[c].id \in {0, claim[c].id}
  BY Typed, ExecuteFacts
<1>2. /\ 1 \in DOMAIN writes /\ Head(writes) = writes[1]
      /\ \A i \in DOMAIN writes' : i \in Nat /\ i >= 1 /\ i + 1 \in DOMAIN writes /\ writes'[i] = writes[i + 1]
  BY <1>1, Shrunk
<1>3. OwnIds(writes, turn, claim, ids)
  BY DEF MarkerInv
<1>4. OwnIds(writes', turn', claim', ids')
  <2>1. \A c \in Clients : claim'[c].id <= ids /\ (turn.phase # "none" => claim'[c].id # turn.run)
    BY <1>1, <1>3, Typed DEF OwnIds
  <2>2. \A i \in DOMAIN writes' :
          /\ writes'[i].id <= ids
          /\ turn.phase # "none" /\ writes'[i].kind \in {"clear", "claim", "restore"} =>
               writes'[i].id # turn.run
    BY <1>2, <1>3 DEF OwnIds
  <2>3. turn.run <= ids /\ (turn.phase # "none" => turn.run # 0)
    BY <1>3 DEF OwnIds
  <2> QED
    BY <1>1, <2>1, <2>2, <2>3 DEF OwnIds
<1>5. ASSUME daemon = "up", NEW i \in DOMAIN writes', writes'[i].kind \in {"claim", "restore"}
      PROVE  writes'[i].id = claim'[writes'[i].client].id
  <2>1. /\ i + 1 \in DOMAIN writes /\ writes'[i] = writes[i + 1] /\ i + 1 # 1
    BY <1>2, <1>5
  <2>2. writes[i + 1].client \in Clients
    <3>1. writes[i + 1].client \in Clients \cup {NoClient}
      BY <1>1, <2>1, JobTypes
    <3> QED
      BY <1>5, <2>1, <3>1 DEF IInv, JobsAreAwaited
  <2>3. writes[i + 1].client # writes[1].client
    BY <1>2, <1>5, <2>1, <2>2, PromptAssumption DEF IInv, JobsAreAwaited
  <2>4. writes[i + 1].id = claim[writes[i + 1].client].id
    BY <1>5, <2>1, UpMarker DEF Matches
  <2> QED
    BY <1>1, <1>2, <2>1, <2>2, <2>3, <2>4
<1>6. daemon = "up" => Matches(writes', claim')
  BY <1>5 DEF Matches
<1> QED
  BY <1>4, <1>6

\* Whoever answered for the marker still does once the first job is executed, or
\* the job has replaced it.
LEMMA ExecuteAnswered ==
  ASSUME IInv, MarkerInv, ExecuteWrite, daemon = "up"
  PROVE  MarkerAnswered'
<1> DEFINE j == Head(writes)
           m == record.marker
           n == record'.marker
<1>1. /\ writes \in Seq(Jobs) /\ writes # <<>> /\ writes' = Tail(writes)
      /\ j \in Jobs /\ m \in Marker /\ turn' = turn
      /\ n = MarkerAfter(m, j) /\ j.client \in Clients \cup {NoClient}
      /\ \A c \in Clients : c # j.client => pc'[c] = pc[c] /\ claim'[c] = claim[c]
  BY Typed, ExecuteFacts
<1>2. /\ 1 \in DOMAIN writes /\ j = writes[1]
      /\ \A i \in DOMAIN writes : i # 1 => i - 1 \in DOMAIN writes' /\ writes'[i - 1] = writes[i]
  BY <1>1, Shrunk
<1>3. /\ j.kind \in {"claim", "restore"} => j.client # NoClient
      /\ j.client # NoClient =>
           <<j.kind, pc[j.client]>> \in
              {<<"claim", "claiming">>, <<"restore", "restoring">>, <<"dismiss", "dismissing">>}
  BY <1>2 DEF IInv, JobsAreAwaited
<1>4. j.kind \in {"claim", "restore"} => j.client \in Clients /\ j.id = claim[j.client].id
  <2>1. Matches(writes, claim)
    BY UpMarker
  <2> QED
    BY <1>1, <1>2, <1>3, <2>1 DEF Matches
<1>5. j.kind = "claim" /\ n # m =>
        j.client \in Clients /\ pc'[j.client] = "claimed" /\ claim'[j.client].id = j.id
  BY <1>1, <1>4, ExecuteFacts
<1>6. j.kind = "record" =>
        \/ turn.phase = "running" /\ turn.run = j.id
        \/ \E i \in DOMAIN writes' : writes'[i].kind = "clear" /\ writes'[i].id = j.id
  BY <1>1, UpMarker, RecordsExecuted
<1> HIDE DEF j, m, n
<1> SUFFICES ASSUME n.state = "running"
             PROVE  \/ turn'.phase = "running" /\ turn'.run = n.run
                    \/ \E i \in DOMAIN writes' :
                         \/ writes'[i].kind = "record"
                         \/ writes'[i].kind = "clear" /\ writes'[i].id = n.run
                    \/ \E c \in Clients : Continuing(c)' /\ claim'[c].id = n.run
  BY DEF MarkerAnswered, n
<1>7. \/ j.kind = "record" /\ n.run = j.id
      \/ j.kind = "claim" /\ n # m /\ n.run = j.id
      \/ n = m /\ j.kind # "record" /\ (j.kind \in {"clear", "restore"} => j.id # m.run)
  BY <1>1, MarkerKept
<1>8. CASE j.kind = "record" /\ n.run = j.id
  BY <1>1, <1>6, <1>8
<1>9. CASE j.kind = "claim" /\ n # m /\ n.run = j.id
  BY <1>5, <1>9 DEF Continuing
<1>10. CASE n = m /\ j.kind # "record" /\ (j.kind \in {"clear", "restore"} => j.id # m.run)
  <2>1. \/ turn.phase = "running" /\ turn.run = m.run
        \/ \E i \in DOMAIN writes :
             \/ writes[i].kind = "record"
             \/ writes[i].kind = "clear" /\ writes[i].id = m.run
        \/ \E c \in Clients : Continuing(c) /\ claim[c].id = m.run
    BY <1>10, UpMarker DEF MarkerAnswered, m
  <2>2. CASE turn.phase = "running" /\ turn.run = m.run
    BY <1>1, <1>10, <2>2
  <2>3. CASE \E i \in DOMAIN writes :
               \/ writes[i].kind = "record"
               \/ writes[i].kind = "clear" /\ writes[i].id = m.run
    <3>1. PICK i \in DOMAIN writes :
               \/ writes[i].kind = "record"
               \/ writes[i].kind = "clear" /\ writes[i].id = m.run
      BY <2>3
    <3>2. i # 1
      BY <1>2, <1>10, <3>1
    <3> QED
      BY <1>2, <1>10, <3>1, <3>2
  <2>4. CASE \E c \in Clients : Continuing(c) /\ claim[c].id = m.run
    <3>1. PICK c \in Clients : Continuing(c) /\ claim[c].id = m.run
      BY <2>4
    <3>2. c # j.client
      <4>1. CASE c = NoClient
        BY <4>1, PromptAssumption
      <4>2. CASE c # NoClient /\ c = j.client
        <5>1. j.kind = "restore"
          BY <1>3, <3>1, <4>2 DEF Continuing
        <5> QED
          BY <1>4, <1>10, <3>1, <4>2, <5>1
      <4> QED
        BY <4>1, <4>2
    <3>3. pc'[c] = pc[c] /\ claim'[c] = claim[c]
      BY <1>1, <3>2
    <3> QED
      BY <1>10, <3>1, <3>3 DEF Continuing
  <2> QED
    BY <2>1, <2>2, <2>3, <2>4
<1> QED
  BY <1>7, <1>8, <1>9, <1>10

LEMMA ExecuteWriteMarker == ASSUME IInv, MarkerInv, ExecuteWrite PROVE MarkerInv'
<1>1. /\ writes \in Seq(Jobs) /\ writes # <<>> /\ writes' = Tail(writes)
      /\ UNCHANGED <<daemon, turn, ids, cut>> /\ record.marker \in Marker
      /\ record'.marker = MarkerAfter(record.marker, Head(writes))
  BY Typed, ExecuteFacts
<1>2. RunningLands'
  <2> SUFFICES ASSUME turn.phase = "running"
               PROVE  Lands(writes', record'.marker, turn.run, ToStored(turn.prompt))
    BY <1>1 DEF RunningLands
  <2>1. Lands(writes, record.marker, turn.run, ToStored(turn.prompt))
    BY DEF MarkerInv, RunningLands
  <2> QED
    BY <1>1, <2>1, LandsExecuted
<1>3. CutLands'
  <2> SUFFICES ASSUME daemon # "up", cut # NoPrompt
               PROVE  \E r \in Ids : Lands(writes', record'.marker, r, cut)
    BY <1>1 DEF CutLands
  <2>1. PICK r \in Ids : Lands(writes, record.marker, r, cut)
    BY DEF MarkerInv, CutLands
  <2>2. Lands(writes', record'.marker, r, cut)
    BY <1>1, <2>1, LandsExecuted
  <2> QED
    BY <2>2
<1>4. daemon # "up" => turn' = NoTurn
  BY <1>1 DEF MarkerInv
<1>5. daemon = "up" => RecordsAnswered(writes', turn')
  BY <1>1, UpMarker, RecordsExecuted
<1>6. daemon = "up" => MarkerAnswered'
  BY ExecuteAnswered
<1> QED
  BY <1>1, <1>2, <1>3, <1>4, <1>5, <1>6, ExecuteIds DEF MarkerInv

\* A stop forgets the turn and the claims, which keeps the ids apart.
LEMMA ForgetIds ==
  ASSUME IInv, NEW w, \A i \in DOMAIN w : w[i].id <= ids, Forget
  PROVE  OwnIds(w, turn', claim', ids)
<1>1. turn' = NoTurn /\ \A c \in Clients : claim'[c].id = 0
  BY DEF Forget, NoClaim
<1>2. 0 <= ids
  BY Typed
<1> QED
  BY <1>1, <1>2 DEF OwnIds, NoTurn

\* Of the turn that a crash cut short, the record has the marker already: cut
\* says so of no other.
LEMMA CrashMarker == ASSUME IInv, MarkerInv, Crash PROVE MarkerInv'
<1>1. /\ daemon' = "down" /\ writes' = <<>> /\ Forget /\ UNCHANGED <<record, ids>>
      /\ cut' = IF turn.phase = "running" /\ ~RecordPending THEN ToStored(turn.prompt)
                ELSE IF daemon = "closing" /\ writes = <<>> THEN cut ELSE NoPrompt
  BY DEF Crash
<1>2. turn' = NoTurn
  BY <1>1 DEF Forget
<1>3. OwnIds(writes', turn', claim', ids')
  BY <1>1, ForgetIds
<1>4. ASSUME cut' # NoPrompt PROVE \E r \in Ids : Lands(writes', record.marker, r, cut')
  <2>1. CASE turn.phase = "running" /\ ~RecordPending
    <3>1. Lands(writes, record.marker, turn.run, cut')
      BY <1>1, <2>1 DEF MarkerInv, RunningLands
    <3>2. record.marker = RunningMarker(turn.run, cut')
      BY <2>1, <3>1, Typed, LandsWritten DEF RecordPending
    <3>3. Lands(<<>>, record.marker, turn.run, cut')
      BY <3>2 DEF Lands
    <3> QED
      BY <1>1, <3>3, Typed
  <2>2. CASE ~(turn.phase = "running" /\ ~RecordPending)
    <3>1. daemon = "closing" /\ writes = <<>> /\ cut' = cut
      BY <1>1, <1>4, <2>2
    <3> QED
      BY <1>1, <1>4, <3>1 DEF MarkerInv, CutLands
  <2> QED
    BY <2>1, <2>2
<1>5. CutLands' /\ RunningLands'
  BY <1>1, <1>2, <1>4 DEF CutLands, RunningLands, NoTurn
<1> QED
  BY <1>1, <1>2, <1>3, <1>5 DEF MarkerInv

\* A shutdown flushes the queue, which leaves the marker of the turn it cuts.
LEMMA ShutdownMarker == ASSUME IInv, MarkerInv, Shutdown PROVE MarkerInv'
<1> DEFINE more == <<Snapshot("closed")>>
<1>1. /\ daemon = "up" /\ daemon' = "closing" /\ Forget /\ UNCHANGED <<record, ids>>
      /\ writes' = Append(writes, Snapshot("closed"))
      /\ cut' = IF turn.phase = "running" THEN ToStored(turn.prompt) ELSE NoPrompt
  BY DEF Shutdown
<1>2. Snapshot("closed") \in Jobs /\ Snapshot("closed").kind = "closed" /\ Snapshot("closed").id = 0
  BY SnapshotJob
<1>3. /\ more \in Seq(Jobs) /\ DOMAIN more = {1} /\ more[1] = Snapshot("closed")
      /\ writes' = writes \o more
  BY <1>1, <1>2, Typed
<1> HIDE DEF more
<1>4. turn' = NoTurn
  BY <1>1 DEF Forget
<1>5. OwnIds(writes', turn', claim', ids')
  <2>1. OwnIds(writes, NoTurn, claim, ids)
    BY <1>1, UpMarker, Typed, IdsStop
  <2>2. \A k \in DOMAIN more : more[k].id <= ids
    BY <1>2, <1>3, Typed
  <2>3. OwnIds(writes \o more, NoTurn, claim, ids)
    BY <1>3, <2>1, <2>2, Typed, IdsMore DEF NoTurn
  <2>4. \A i \in DOMAIN writes' : writes'[i].id <= ids
    BY <1>3, <2>3 DEF OwnIds
  <2> QED
    BY <1>1, <2>4, ForgetIds
<1>6. ASSUME cut' # NoPrompt PROVE \E r \in Ids : Lands(writes', record.marker, r, cut')
  <2>1. Lands(writes, record.marker, turn.run, cut')
    BY <1>1, <1>6 DEF MarkerInv, RunningLands
  <2>2. Lands(writes \o more, record.marker, turn.run, cut')
    BY <1>2, <1>3, <2>1, Typed, LandsMore
  <2> QED
    BY <1>3, <2>2, Typed
<1>7. CutLands' /\ RunningLands'
  BY <1>1, <1>4, <1>6 DEF CutLands, RunningLands, NoTurn
<1> QED
  BY <1>1, <1>4, <1>5, <1>7 DEF MarkerInv

LEMMA ExitMarker == ASSUME MarkerInv, Exit PROVE MarkerInv'
<1>1. /\ daemon # "up" /\ daemon' # "up"
      /\ UNCHANGED <<record, writes, turn, claim, ids, cut>>
  BY DEF Exit
<1> QED
  BY <1>1 DEF MarkerInv, RunningLands, CutLands

\* A daemon that starts finds no turn, no job and no running marker.
LEMMA RestartMarker == ASSUME IInv, MarkerInv, Restart PROVE MarkerInv'
<1>1. /\ daemon = "down" /\ daemon' = "up" /\ UNCHANGED <<writes, turn, claim, ids>>
      /\ record'.marker = IF WasRunningAtShutdown(record)
                          THEN InterruptedMarker(record.marker.prompt) ELSE record.marker
  BY DEF Restart
<1>2. writes = <<>> /\ turn = NoTurn
  BY <1>1 DEF IInv, StopForgets, MarkerInv
<1>3. record'.marker.state # "running"
  BY <1>1 DEF WasRunningAtShutdown, InterruptedMarker
<1>4. Matches(writes', claim') /\ RecordsAnswered(writes', turn')
  BY <1>1, <1>2 DEF Matches, RecordsAnswered
<1>5. OwnIds(writes', turn', claim', ids')
  BY <1>1 DEF MarkerInv
<1>6. RunningLands' /\ MarkerAnswered'
  BY <1>1, <1>2, <1>3 DEF RunningLands, MarkerAnswered, NoTurn
<1> QED
  BY <1>1, <1>4, <1>5, <1>6, QueueStep

LEMMA InitMarker == Init => MarkerInv
<1> SUFFICES ASSUME Init PROVE MarkerInv
  OBVIOUS
<1>1. /\ daemon = "up" /\ writes = <<>> /\ turn = NoTurn /\ ids = 0
      /\ record.marker.state = "none" /\ \A c \in Clients : claim[c].id = 0
  BY DEF Init, NoMarker, NoClaim
<1>2. OwnIds(writes, turn, claim, ids) /\ RunningLands
  BY <1>1 DEF OwnIds, RunningLands, NoTurn
<1>3. Matches(writes, claim) /\ RecordsAnswered(writes, turn) /\ MarkerAnswered
  BY <1>1 DEF Matches, RecordsAnswered, MarkerAnswered
<1> QED
  BY <1>1, <1>2, <1>3 DEF MarkerInv, CutLands

LEMMA MarkerStep == IInv /\ MarkerInv /\ [Next]_vars => MarkerInv'
<1> SUFFICES ASSUME IInv, MarkerInv, [Next]_vars PROVE MarkerInv'
  OBVIOUS
<1>1. CASE Next
  BY <1>1, SendMarker, SteeredMarker, StartedMarker, StartFailsMarker, EndsMarker,
     ContinueMarker, ContinueSendsMarker, GiveUpMarker, DismissMarker, ExecuteWriteMarker,
     CrashMarker, ShutdownMarker, ExitMarker, RestartMarker
     DEF Next
<1>2. CASE UNCHANGED vars
  BY <1>2 DEF vars, MarkerInv, RunningLands, CutLands, MarkerAnswered, Continuing
<1> QED
  BY <1>1, <1>2

\* Every running marker is answered for, and every turn that runs, or was cut
\* short once recorded, has the record's last word.
THEOREM MarkerHolds == Spec => []MarkerInv
BY InvariantHolds, InitMarker, MarkerStep, PTL DEF Spec

\* No late clear, claim, restore or dismissal in the write queue of AgentStorage
\* replaces the marker of the turn that runs.
THEOREM RunningMarked == Spec => []RunningTurnIsMarked
<1>1. IInv /\ MarkerInv => RunningTurnIsMarked
  <2> SUFFICES ASSUME IInv, MarkerInv, turn.phase = "running", ~RecordPending
               PROVE  record.marker = RunningMarker(turn.run, ToStored(turn.prompt))
    BY DEF RunningTurnIsMarked
  <2>1. Lands(writes, record.marker, turn.run, ToStored(turn.prompt))
    BY DEF MarkerInv, RunningLands
  <2> QED
    BY <2>1, Typed, LandsWritten DEF RecordPending
<1> QED
  BY <1>1, InvariantHolds, MarkerHolds, PTL

\* Once the queue is empty, a marker says running only of a turn that runs or for
\* a client that continues.
THEOREM NoneStale == Spec => []NoStaleMarker
<1>1. MarkerInv => NoStaleMarker
  BY DEF MarkerInv, MarkerAnswered, NoStaleMarker
<1> QED
  BY <1>1, MarkerHolds, PTL

\* markInterruptedTurns offers the turn that the last stop cut short, with the
\* prompt that recordRunningTurn stored.
THEOREM CutOffered == Spec => CutShortIsOffered
<1>1. IInv /\ MarkerInv /\ [Next]_vars =>
        [Restart /\ cut # NoPrompt => record'.marker = InterruptedMarker(cut)]_vars
  <2> SUFFICES ASSUME IInv, MarkerInv, Restart, cut # NoPrompt
               PROVE  record'.marker = InterruptedMarker(cut)
    OBVIOUS
  <2>1. /\ daemon = "down" /\ writes = <<>>
        /\ record'.marker = IF WasRunningAtShutdown(record)
                            THEN InterruptedMarker(record.marker.prompt) ELSE record.marker
    BY DEF Restart, IInv, StopForgets
  <2>2. PICK r \in Ids : Lands(writes, record.marker, r, cut)
    BY <2>1 DEF MarkerInv, CutLands
  <2>3. record.marker = RunningMarker(r, cut)
    BY <2>1, <2>2 DEF Lands
  <2> QED
    BY <2>1, <2>3 DEF WasRunningAtShutdown, RunningMarker
<1> QED
  BY <1>1, InvariantHolds, MarkerHolds, PTL DEF Spec, CutShortIsOffered

=============================================================================
