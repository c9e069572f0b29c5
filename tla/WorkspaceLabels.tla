---------------------------- MODULE WorkspaceLabels ----------------------------
(***************************************************************************)
(* Workspace labels from the catalog to the client: the catalog that       *)
(* LabelStore implements, the sequence that numbers the published changes  *)
(* and keeps a bounded journal of them, and a client with a replica.       *)
(*                                                                         *)
(* The app subscribes without a cursor and refreshes with one; the client  *)
(* library may also list with the cursor of an earlier connection.  A      *)
(* connection delivers in order and loses everything in flight when it     *)
(* goes.  At most one refresh, or its answer, is in flight.                *)
(***************************************************************************)
EXTENDS LabelCatalog, Integers, Sequences

CONSTANTS
  JournalLimit,   \* changes the journal keeps
  MaxChanges,     \* BOUND: published changes of one daemon process
  MaxGenerations  \* BOUND: daemon processes

ASSUME WorkspaceLabelsAssumption ==
  JournalLimit \in Nat \ {0} /\ MaxChanges \in Nat /\ MaxGenerations \in Nat \ {0}

VARIABLES
  generation,  \* of the daemon process
  headSeq,     \* the number of the last published change
  journal,     \* the last changes with their numbers
  subscribed,  \* whether the client is connected and hears changes
  wire,        \* messages to the client, in order
  asked,       \* the cursor of a refresh in flight
  replica,     \* the client's labels
  cursor,      \* the client's cursor
  resumed      \* history: whether the subscription began at an earlier cursor

sequence == <<generation, headSeq, journal>>
client == <<subscribed, wire, asked, replica, cursor, resumed>>
vars == <<catalogVars, sequence, client>>

Replica == [Names -> Colors \cup {None}]
Cursor == [gen : Nat, seq : Nat]
NoCursor == [gen |-> 0, seq |-> 0]

Init ==
  /\ CatalogInit
  /\ generation = 1 /\ headSeq = 0 /\ journal = <<>>
  /\ subscribed = FALSE
  /\ wire = <<>>
  /\ asked = None
  /\ replica = [n \in Names |-> None]
  /\ cursor = NoCursor
  /\ resumed = FALSE

-----------------------------------------------------------------------------
(* The daemon.                                                             *)

\* The journal with one more change; at its limit it forgets its oldest.
Journaled(change) ==
  LET grown == Append(journal, [seq |-> headSeq + 1, change |-> change])
  IN IF Len(grown) > JournalLimit THEN Tail(grown) ELSE grown

\* publish: subscribers hear the change.
Publish(change) ==
  /\ headSeq' = headSeq + 1
  /\ journal' = Journaled(change)
  /\ wire' = IF subscribed
             THEN Append(wire, [kind |-> "update", gen |-> generation, seq |-> headSeq + 1,
                                change |-> change])
             ELSE wire

\* The changes after a cursor, folded into labels to set and names to remove.
Drop(net, n) ==
  IF net.upserts[n] # None THEN [net EXCEPT !.upserts[n] = None]
  ELSE [net EXCEPT !.removals = @ \cup {n}]

Fold(net, entry) ==
  IF entry.change.kind = "remove" THEN Drop(net, entry.change.name)
  ELSE LET base == IF entry.change.previous = None THEN net ELSE Drop(net, entry.change.previous)
       IN [upserts |-> [base.upserts EXCEPT ![entry.change.name] = entry.change.color],
           removals |-> base.removals \ {entry.change.name}]

\* Mutant: a cursor older than the journal is caught up too.
CanAlwaysCatchUp(cur) == cur.gen = generation /\ cur.seq <= headSeq

CanCatchUp(cur) ==
  LET oldest == IF journal = <<>> THEN headSeq + 1 ELSE journal[1].seq
  IN cur.gen = generation /\ cur.seq <= headSeq /\ cur.seq >= oldest - 1

Answer(mode, net) ==
  [kind |-> "list", mode |-> mode, gen |-> generation, seq |-> headSeq,
   labels |-> net.upserts, removals |-> net.removals]

CatalogRows == [n \in Names |-> IF n \in DOMAIN served.labels THEN served.labels[n] ELSE None]

NoChanges == [upserts |-> [n \in Names |-> None], removals |-> {}]

\* The entries after a cursor, folded in their order.
Net(cur) ==
  LET net[i \in 0..Len(journal)] ==
        IF i = 0 THEN NoChanges
        ELSE IF journal[i].seq > cur.seq THEN Fold(net[i - 1], journal[i])
        ELSE net[i - 1]
  IN net[Len(journal)]

Synchronize(cur) ==
  IF CanCatchUp(cur) THEN Answer("changes", Net(cur))
  ELSE Answer("snapshot", [upserts |-> CatalogRows, removals |-> {}])

-----------------------------------------------------------------------------
(* The client.                                                             *)

\* connect: a subscription with the snapshot it starts from.  Lists and
\* subscriptions wait for the service's exclusive queue.
Subscribe ==
  /\ ~subscribed /\ up
  /\ subscribed' = TRUE
  /\ wire' = <<Synchronize(NoCursor)>>
  /\ resumed' = FALSE
  /\ UNCHANGED <<asked, replica, cursor>>

\* A subscription that catches up from the cursor of an earlier connection.
Resume ==
  /\ ~subscribed /\ up /\ cursor # NoCursor
  /\ subscribed' = TRUE
  /\ wire' = <<Synchronize(cursor)>>
  /\ resumed' = (Synchronize(cursor).mode = "changes")
  /\ UNCHANGED <<asked, replica, cursor>>

Refresh ==
  /\ subscribed /\ asked = None /\ cursor # NoCursor
  /\ \A i \in DOMAIN wire : wire[i].kind # "list"
  /\ asked' = cursor
  /\ UNCHANGED <<subscribed, wire, replica, cursor, resumed>>

AnswerRefresh ==
  /\ asked # None /\ up
  /\ wire' = Append(wire, Synchronize(asked))
  /\ asked' = None
  /\ UNCHANGED <<subscribed, replica, cursor, resumed>>

\* Mutant: a list does not move the cursor of an earlier one.
ApplyListAtCursor(m) ==
  /\ replica' = [n \in Names |->
       IF m.labels[n] # None THEN m.labels[n]
       ELSE IF m.mode = "snapshot" \/ n \in m.removals THEN None
       ELSE replica[n]]
  /\ cursor' = IF cursor = NoCursor THEN [gen |-> m.gen, seq |-> m.seq] ELSE cursor
  /\ UNCHANGED asked

\* applyList.
ApplyList(m) ==
  /\ replica' = [n \in Names |->
       IF m.labels[n] # None THEN m.labels[n]
       ELSE IF m.mode = "snapshot" \/ n \in m.removals THEN None
       ELSE replica[n]]
  /\ cursor' = [gen |-> m.gen, seq |-> m.seq]
  /\ UNCHANGED asked

IsNext(m) == m.gen = cursor.gen /\ m.seq = cursor.seq + 1

\* Mutant: a rename keeps the label under its previous name.
ApplyUpdateOnly(m) ==
  IF IsNext(m)
  THEN /\ replica' = IF m.change.kind = "remove" THEN [replica EXCEPT ![m.change.name] = None]
                     ELSE [replica EXCEPT ![m.change.name] = m.change.color]
       /\ cursor' = [gen |-> m.gen, seq |-> m.seq]
       /\ UNCHANGED asked
  ELSE /\ asked' = IF asked = None THEN cursor ELSE asked
       /\ UNCHANGED <<replica, cursor>>

\* applyUpdate; a change that is not the next one is refused and refreshes.
ApplyUpdate(m) ==
  IF IsNext(m)
  THEN /\ replica' = IF m.change.kind = "remove" THEN [replica EXCEPT ![m.change.name] = None]
                     ELSE [n \in Names |-> IF n = m.change.name THEN m.change.color
                                           ELSE IF n = m.change.previous THEN None
                                           ELSE replica[n]]
       /\ cursor' = [gen |-> m.gen, seq |-> m.seq]
       /\ UNCHANGED asked
  ELSE /\ asked' = IF asked = None THEN cursor ELSE asked
       /\ UNCHANGED <<replica, cursor>>

Receive ==
  /\ wire # <<>>
  /\ wire' = Tail(wire)
  /\ IF Head(wire).kind = "list" THEN ApplyList(Head(wire)) ELSE ApplyUpdate(Head(wire))
  /\ UNCHANGED <<subscribed, resumed>>

Hangup ==
  /\ subscribed' = FALSE /\ wire' = <<>> /\ asked' = None
  /\ UNCHANGED <<replica, cursor, resumed>>

Disconnect == subscribed /\ Hangup

-----------------------------------------------------------------------------
\* The service publishes once the commit has returned.
EditAndPublish(plan) ==
  /\ headSeq < MaxChanges
  /\ Edit(plan)
  /\ IF plan.change = None THEN UNCHANGED <<headSeq, journal, wire>> ELSE Publish(plan.change)
  /\ UNCHANGED <<generation, subscribed, asked, replica, cursor, resumed>>

\* An edit that is not acknowledged is not published.
Doubt ==
  /\ Block \/ Notice \/ \E plan \in Plans(served) : EditInDoubt(plan)
  /\ UNCHANGED <<sequence, client>>

Stop == Crash /\ generation < MaxGenerations /\ Hangup /\ UNCHANGED sequence

StartAgain ==
  /\ Restart
  /\ generation' = generation + 1 /\ headSeq' = 0 /\ journal' = <<>>
  /\ UNCHANGED client

Client ==
  /\ Subscribe \/ Resume \/ Refresh \/ AnswerRefresh \/ Receive \/ Disconnect
  /\ UNCHANGED <<catalogVars, sequence>>

Next ==
  \/ \E plan \in Plans(served) : EditAndPublish(plan)
  \/ Doubt \/ Stop \/ StartAgain \/ Client

Spec == Init /\ [][Next]_vars

-----------------------------------------------------------------------------
(* Properties.                                                             *)

TypeOK ==
  /\ {durable, served} \subseteq Image
  /\ {blocked, unnoticed, up} \subseteq BOOLEAN
  /\ headSeq \in 0..MaxChanges /\ generation \in 1..MaxGenerations
  /\ Len(journal) <= JournalLimit
  /\ \A i \in DOMAIN journal :
       journal[i].seq = headSeq - Len(journal) + i /\ journal[i].change \in Change
  /\ replica \in Replica /\ cursor \in Cursor
  /\ asked \in Cursor \cup {None}

AtRest == subscribed /\ wire = <<>>

\* A client with nothing on its way shows every label of the catalog in its
\* colour, however it came to its subscription.
ReplicaHoldsCatalog == AtRest => \A n \in DOMAIN served.labels : replica[n] = served.labels[n]

\* A client that subscribed from a snapshot shows the catalog and nothing else,
\* whatever refreshes it made while changes were on their way.
LiveReplicaExact == AtRest /\ ~resumed => replica = CatalogRows

\* A client that catches up from a cursor shows the catalog and nothing else: the
\* "coherent catch-up changes" of workspace-labels/index.test.ts:154.
CatchUpExact == AtRest => replica = CatalogRows

\* No published change reaches a subscribed client out of turn, so that none is
\* refused: neither refreshes in flight nor a restart leave a gap.
NoUpdateRefused ==
  wire # <<>> => Head(wire).kind = "list" \/ IsNext(Head(wire))

=============================================================================
