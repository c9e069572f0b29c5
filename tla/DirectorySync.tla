---------------------------- MODULE DirectorySync ----------------------------
(***************************************************************************)
(* The project directory between one daemon and the apps connected to it:  *)
(* the registry is the truth, each session queues the updates it must      *)
(* publish, the daemon numbers changes as sessions and lists pass them to  *)
(* the versioned collection, and an app keeps a replica with a cursor that *)
(* survives its connections.                                               *)
(*                                                                         *)
(* A connection delivers in order and fails with everything in flight.     *)
(* Connecting stands for the event subscription and the list request sent  *)
(* on one socket.  A refresh may fail on a live connection: its list is    *)
(* refused, or an answer is late.  The app process is not restarted.       *)
(***************************************************************************)
EXTENDS VersionedCollection, Sequences

CONSTANTS
  Clients,      \* the apps, with one session each
  Others,       \* more sessions, of apps that are left out
  ListOrder,    \* the ids in the order in which the registry lists them
  MaxEdits,     \* BOUND: registry mutations
  MaxFaults,    \* BOUND: lost connections, daemon restarts and refreshes that fail
  MaxLists      \* BOUND: refreshes on a live connection and lists of other sessions

ASSUME DirectorySyncAssumption ==
  /\ Clients \cap Others = {}
  /\ ListOrder \in Seq(Ids) /\ {ListOrder[i] : i \in DOMAIN ListOrder} = Ids
  /\ {MaxEdits, MaxFaults, MaxLists} \subseteq Nat

VARIABLES
  registry,    \* the project records on disk
  generation,  \* of the daemon process: counts from 1
  coll,        \* the daemon's versioned collection
  updates,     \* s -> projectUpdateQueue of the session
  request,     \* c -> the list request the daemon is handling
  abandoned,   \* what was listed for requests whose answer no app here waits for
  wire,        \* c -> messages to the app, in order
  online,      \* c -> whether it is connected and subscribed
  replica,     \* c -> the app's rows
  cursor,      \* c -> the app's cursor, of generation 0 before the first
  transaction, \* c -> the app's refresh in progress and the deltas it recorded
  standing,    \* history, c -> whether rows and cursor fit each other: deltas were
               \* "replayed" over an answer, or the cursor is "torn" from the rows
  link,        \* history, c -> whether an answer has "covered" what this connection
               \* of the app missed, or never will for sure: it was resumed "late"
  used         \* how much of each bound is used

vars == <<registry, generation, coll, updates, request, abandoned, wire, online,
          replica, cursor, transaction, standing, link, used>>
daemon == <<registry, generation, coll>>
lists == <<request, abandoned>>
Sessions == Clients \cup Others
app == <<replica, cursor, transaction, standing, link>>

Change == [id : Ids, value : Values \cup {Absent}]
\* The number 0 stands for an update without a version.
Delta == [kind : {"delta"}, id : Ids, value : Values \cup {Absent}, gen : Nat, seq : Nat]
Answer == [kind : {"answer"}, mode : {"snapshot", "changes"}, gen : Nat, head : Nat,
           touched : SUBSET Ids, value : Directory]
LateAnswer == [kind |-> "late"]
Message == Delta \cup Answer \cup {LateAnswer}
Cursor == [gen : Nat, seq : Nat]

Empty == [id \in Ids |-> Absent]
NoRequest == [phase |-> "none", snapshot |-> Empty]
NoTransaction == [open |-> FALSE, deltas |-> <<>>]
NoUse == [edits |-> 0, faults |-> 0, lists |-> 0]

TypeOK ==
  /\ registry \in Directory
  /\ generation \in 1..(MaxFaults + 1)
  /\ coll \in Collection /\ coll.expired <= coll.head
  /\ abandoned \subseteq Directory
  /\ online \in [Clients -> BOOLEAN]
  /\ updates \in [Sessions -> Seq(Change)]
  /\ replica \in [Clients -> Directory]
  /\ cursor \in [Clients -> Cursor]
  /\ standing \in [Clients -> {"sound", "replayed", "torn"}]
  /\ link \in [Clients -> {"fresh", "late", "covered"}]
  /\ \A c \in Clients :
       /\ request[c] \in [phase : {"none", "sent", "listed"}, snapshot : Directory]
       /\ wire[c] \in Seq(Message)
       /\ transaction[c].open \in BOOLEAN
       /\ transaction[c].deltas \in Seq(Delta)
       \* A cursor is never ahead of the daemon that gave it.
       /\ cursor[c].gen <= generation
       /\ cursor[c].gen = generation => cursor[c].seq <= coll.head

Init ==
  /\ registry \in Directory
  /\ generation = 1
  /\ coll = EmptyCollection
  /\ updates = [s \in Sessions |-> <<>>]
  /\ request = [c \in Clients |-> NoRequest]
  /\ abandoned = {}
  /\ wire = [c \in Clients |-> <<>>]
  /\ online = [c \in Clients |-> FALSE]
  /\ replica = [c \in Clients |-> Empty]
  /\ cursor = [c \in Clients |-> [gen |-> 0, seq |-> 0]]
  /\ transaction = [c \in Clients |-> NoTransaction]
  /\ standing = [c \in Clients |-> "sound"]
  /\ link = [c \in Clients |-> "fresh"]
  /\ used = NoUse

-----------------------------------------------------------------------------
(* The daemon.                                                             *)

\* wantsEvent: whether anybody listens to the project updates of the session.
Wants(s) == s \in Others \/ online[s]

\* A project is added, renamed, archived or removed; the mutation listener
\* hands the change to every session that wants it.
Edit(id, v) ==
  /\ used.edits < MaxEdits
  /\ registry[id] # v
  /\ registry' = [registry EXCEPT ![id] = v]
  /\ updates' = [s \in Sessions |->
       IF Wants(s) THEN Append(updates[s], [id |-> id, value |-> v]) ELSE updates[s]]
  /\ used' = [used EXCEPT !.edits = @ + 1]
  /\ UNCHANGED <<generation, coll, lists, wire, online, app>>

\* sequenceProjectUpdate: the number the update is published under.
Sequence(change) ==
  IF change.value = Absent THEN Remove(coll, change.id)
  ELSE Replace(coll, change.id, change.value)

\* publishProjectUpdate.
PublishUpdate(c) ==
  /\ updates[c] # <<>> /\ online[c]
  /\ LET change == Head(updates[c])
     IN  /\ coll' = Sequence(change)
         /\ wire' = [wire EXCEPT ![c] = Append(@,
              [kind |-> "delta", id |-> change.id, value |-> change.value,
               gen |-> generation, seq |-> coll'.seq[change.id]])]
  /\ updates' = [updates EXCEPT ![c] = Tail(@)]
  /\ UNCHANGED <<registry, generation, lists, online, app, used>>

\* publishProjectUpdate of another session.
PublishOther(s) ==
  /\ updates[s] # <<>>
  /\ coll' = Sequence(Head(updates[s]))
  /\ updates' = [updates EXCEPT ![s] = Tail(@)]
  /\ UNCHANGED <<registry, generation, lists, wire, online, app, used>>

\* publishProjectUpdate of a session that nobody listens to any more.
SkipUpdate(c) ==
  /\ updates[c] # <<>> /\ ~online[c]
  /\ updates' = [updates EXCEPT ![c] = Tail(@)]
  /\ UNCHANGED <<daemon, lists, wire, online, app, used>>

\* handleProjectListRequest reads the registry, then builds the descriptors.
List(c) ==
  /\ request[c].phase = "sent"
  /\ request' = [request EXCEPT ![c] = [phase |-> "listed", snapshot |-> registry]]
  /\ UNCHANGED <<daemon, updates, abandoned, wire, online, app, used>>

\* A list for another session, or for a request that was given up before.
ListOther ==
  /\ used.lists < MaxLists
  /\ abandoned' = abandoned \cup {registry}
  /\ used' = [used EXCEPT !.lists = @ + 1]
  /\ UNCHANGED <<daemon, updates, request, wire, online, app>>

\* handleProjectListRequest when the registry or a descriptor cannot be read: the
\* collection is left alone.  The error it answers ends the refresh: FailRefresh.
RefuseList(c) ==
  /\ request[c].phase # "none"
  /\ used.faults < MaxFaults
  /\ request' = [request EXCEPT ![c] = NoRequest]
  /\ UNCHANGED <<daemon, updates, abandoned, wire, online, app, used>>

\* replaceAll: an update for every project that is listed, in their order, then a
\* removal for every one that is not.
Upserted(c, directory) ==
  LET after[i \in 0..Len(ListOrder)] ==
        IF i = 0 THEN c
        ELSE LET id == ListOrder[i]
             IN IF directory[id] = Absent THEN after[i - 1]
                ELSE Replace(after[i - 1], id, directory[id])
  IN after[Len(ListOrder)]

Retained(c, directory) ==
  LET after[i \in 0..Len(ListOrder)] ==
        IF i = 0 THEN c
        ELSE LET id == ListOrder[i]
             IN IF directory[id] = Absent THEN Remove(after[i - 1], id) ELSE after[i - 1]
  IN after[Len(ListOrder)]

ReplaceAll(c, directory) == Retained(Upserted(c, directory), directory)

\* read: a cursor of another generation is answered with a snapshot.
Read(c, after) ==
  IF after.gen = generation THEN ReadAfter(c, after.seq) ELSE ReadSnapshot(c)

\* synchronizeProjects, with the descriptors of the list.  The cursor was sent
\* with the request; it cannot change while the transaction is open.
Synchronize(c) ==
  /\ request[c].phase = "listed"
  /\ coll' = ReplaceAll(coll, request[c].snapshot)
  /\ LET read == Read(coll', cursor[c])
     IN  wire' = [wire EXCEPT ![c] = Append(@,
           [kind |-> "answer", mode |-> read.mode, gen |-> generation, head |-> read.head,
            touched |-> read.touched, value |-> read.value])]
  /\ request' = [request EXCEPT ![c] = NoRequest]
  /\ UNCHANGED <<registry, generation, updates, abandoned, online, app, used>>

\* The same when nobody here waits for the answer.
SynchronizeAbandoned(snapshot) ==
  /\ coll' = ReplaceAll(coll, snapshot)
  /\ abandoned' = abandoned \ {snapshot}
  /\ UNCHANGED <<registry, generation, updates, request, wire, online, app, used>>

-----------------------------------------------------------------------------
(* The app.                                                                *)

\* writeCursor: within a generation only forwards.
WriteCursor(old, new) == IF old.gen = new.gen /\ old.seq >= new.seq THEN old ELSE new

\* noteLiveCursor: an update without a version moves no cursor.
NoteCursor(old, delta) ==
  IF delta.seq = 0 THEN old ELSE WriteCursor(old, [gen |-> delta.gen, seq |-> delta.seq])

Patch(rows, delta) == [rows EXCEPT ![delta.id] = delta.value]
PatchAll(rows, deltas) ==
  LET after[i \in 0..Len(deltas)] ==
        IF i = 0 THEN rows ELSE Patch(after[i - 1], deltas[i])
  IN after[Len(deltas)]

NoteAll(old, deltas) ==
  LET after[i \in 0..Len(deltas)] ==
        IF i = 0 THEN old ELSE NoteCursor(after[i - 1], deltas[i])
  IN after[Len(deltas)]

\* begin, and the list request with the cursor of the rows it starts from.
Begin(c) ==
  /\ transaction' = [transaction EXCEPT ![c] = [open |-> TRUE, deltas |-> <<>>]]
  /\ request' = [request EXCEPT ![c] = [phase |-> "sent", snapshot |-> Empty]]

\* resumeSession, observeDirectoryEvents and the first refresh.  It is late when
\* the session has yet to publish updates of its earlier connection.
Connect(c) ==
  /\ ~online[c]
  /\ online' = [online EXCEPT ![c] = TRUE]
  /\ link' = [link EXCEPT ![c] = IF updates[c] = <<>> THEN "fresh" ELSE "late"]
  /\ Begin(c)
  /\ UNCHANGED <<daemon, updates, abandoned, wire, replica, cursor, standing, used>>

Refresh(c) ==
  /\ online[c] /\ ~transaction[c].open
  /\ used.lists < MaxLists
  /\ Begin(c)
  /\ used' = [used EXCEPT !.lists = @ + 1]
  /\ UNCHANGED <<daemon, updates, abandoned, wire, online, replica, cursor, standing, link>>

\* A number that is neither passed already nor the next one.
Skips(old, delta) ==
  delta.seq # 0 /\ ~(delta.gen = old.gen /\ delta.seq <= old.seq + 1)

\* receiveWorkspaceDelta: recorded while a refresh is in progress.  A cursor that
\* skips a number is torn from the rows.
ReceiveDelta(c) ==
  /\ wire[c] # <<>> /\ Head(wire[c]).kind = "delta"
  /\ LET delta == Head(wire[c])
     IN  IF transaction[c].open
         THEN /\ transaction' = [transaction EXCEPT ![c].deltas = Append(@, delta)]
              /\ UNCHANGED <<replica, cursor, standing>>
         ELSE /\ replica' = [replica EXCEPT ![c] = Patch(@, delta)]
              /\ cursor' = [cursor EXCEPT ![c] = NoteCursor(@, delta)]
              /\ standing' =
                   IF Skips(cursor[c], delta) THEN [standing EXCEPT ![c] = "torn"] ELSE standing
              /\ UNCHANGED transaction
  /\ wire' = [wire EXCEPT ![c] = Tail(@)]
  /\ UNCHANGED <<daemon, updates, lists, online, link, used>>

\* Mutant: the deltas recorded meanwhile are forgotten.
CompleteWithoutDeltas(rows, answer, deltas) == Apply(rows, answer)

\* fetchProjectSnapshot and commitSnapshot: the rows of the answer, then the
\* deltas recorded meanwhile.
Complete(rows, answer, deltas) == PatchAll(Apply(rows, answer), deltas)

\* completeWorkspaceRefresh.
ReceiveAnswer(c) ==
  /\ wire[c] # <<>> /\ Head(wire[c]).kind = "answer"
  /\ LET answer == Head(wire[c])
         deltas == transaction[c].deltas
         read == WriteCursor(cursor[c], [gen |-> answer.gen, seq |-> answer.head])
     IN  /\ replica' = [replica EXCEPT ![c] = Complete(@, answer, deltas)]
         /\ cursor' = [cursor EXCEPT ![c] = NoteAll(read, deltas)]
         /\ standing' = [standing EXCEPT ![c] =
              IF answer.mode = "changes" /\ @ = "torn" THEN "torn"
              ELSE IF deltas # <<>> THEN "replayed"
              ELSE IF answer.mode = "snapshot" THEN "sound" ELSE @]
         /\ link' = [link EXCEPT ![c] =
              IF @ = "fresh" /\ (answer.mode = "snapshot" \/ standing[c] # "torn")
              THEN "covered" ELSE @]
  /\ transaction' = [transaction EXCEPT ![c] = NoTransaction]
  /\ wire' = [wire EXCEPT ![c] = Tail(@)]
  /\ UNCHANGED <<daemon, updates, lists, online, used>>

-----------------------------------------------------------------------------
(* Failures.                                                               *)

\* What goes on being synchronized when nobody waits for the list any more.
Listed(c) == IF request[c].phase = "listed" THEN {request[c].snapshot} ELSE {}

\* A refresh fails on a live connection, for the list's error, a time-out or the
\* other requests that it makes: the deltas recorded so far are applied, the
\* cursor is left alone, and nothing tries again.
FailRefresh(c) ==
  /\ transaction[c].open
  /\ used.faults < MaxFaults
  /\ replica' = [replica EXCEPT ![c] = PatchAll(@, transaction[c].deltas)]
  /\ transaction' = [transaction EXCEPT ![c] = NoTransaction]
  /\ wire' = [wire EXCEPT ![c] =
       [i \in DOMAIN @ |-> IF @[i].kind = "answer" THEN LateAnswer ELSE @[i]]]
  /\ request' = [request EXCEPT ![c] = NoRequest]
  /\ abandoned' = abandoned \cup Listed(c)
  /\ used' = [used EXCEPT !.faults = @ + 1]
  /\ UNCHANGED <<daemon, updates, online, cursor, standing, link>>

\* The answer of a request that was given up.
IgnoreAnswer(c) ==
  /\ wire[c] # <<>> /\ Head(wire[c]).kind = "late"
  /\ wire' = [wire EXCEPT ![c] = Tail(@)]
  /\ UNCHANGED <<daemon, updates, lists, online, app, used>>

\* Mutant: the cursors of the recorded deltas are kept, the deltas are not.
AbortNoting(lost) ==
  /\ online' = [c \in Clients |-> online[c] /\ c \notin lost]
  /\ wire' = [c \in Clients |-> IF c \in lost THEN <<>> ELSE wire[c]]
  /\ request' = [c \in Clients |-> IF c \in lost THEN NoRequest ELSE request[c]]
  /\ cursor' = [c \in Clients |->
       IF c \in lost THEN NoteAll(cursor[c], transaction[c].deltas) ELSE cursor[c]]
  /\ transaction' = [c \in Clients |-> IF c \in lost THEN NoTransaction ELSE transaction[c]]
  /\ standing' = [c \in Clients |->
       IF c \in lost /\ standing[c] = "replayed" THEN "torn" ELSE standing[c]]
  /\ UNCHANGED <<replica, link>>

\* The connections of the apps in lost end: connectionChanged keeps the deltas
\* recorded so far (flushAbortedTransactions) and leaves the cursor alone.
Abort(lost) ==
  /\ online' = [c \in Clients |-> online[c] /\ c \notin lost]
  /\ wire' = [c \in Clients |-> IF c \in lost THEN <<>> ELSE wire[c]]
  /\ request' = [c \in Clients |-> IF c \in lost THEN NoRequest ELSE request[c]]
  /\ replica' = [c \in Clients |->
       IF c \in lost THEN PatchAll(replica[c], transaction[c].deltas) ELSE replica[c]]
  /\ transaction' = [c \in Clients |-> IF c \in lost THEN NoTransaction ELSE transaction[c]]
  /\ standing' = [c \in Clients |->
       IF c \in lost /\ standing[c] = "replayed" THEN "torn" ELSE standing[c]]
  /\ UNCHANGED <<cursor, link>>

\* A connection is lost with what is in flight.  The session lives on, and so
\* does a list that has read the registry.
Drop(c) ==
  /\ online[c]
  /\ used.faults < MaxFaults
  /\ Abort({c})
  /\ abandoned' = abandoned \cup Listed(c)
  /\ used' = [used EXCEPT !.faults = @ + 1]
  /\ UNCHANGED <<daemon, updates>>

\* The daemon stops and starts: sequences begin again, sessions are new.
Restart ==
  /\ used.faults < MaxFaults
  /\ generation' = generation + 1
  /\ coll' = EmptyCollection
  /\ updates' = [s \in Sessions |-> <<>>]
  /\ abandoned' = {}
  /\ Abort(Clients)
  /\ used' = [used EXCEPT !.faults = @ + 1]
  /\ UNCHANGED registry

-----------------------------------------------------------------------------
Next ==
  \/ \E id \in Ids, v \in Values \cup {Absent} : Edit(id, v)
  \/ \E c \in Clients :
       \/ PublishUpdate(c) \/ SkipUpdate(c)
       \/ List(c) \/ RefuseList(c) \/ Synchronize(c)
       \/ Connect(c) \/ Refresh(c)
       \/ ReceiveDelta(c) \/ ReceiveAnswer(c)
       \/ FailRefresh(c) \/ IgnoreAnswer(c) \/ Drop(c)
  \/ \E s \in Others : PublishOther(s)
  \/ ListOther
  \/ \E snapshot \in abandoned : SynchronizeAbandoned(snapshot)
  \/ Restart

Spec == Init /\ [][Next]_vars

-----------------------------------------------------------------------------
\* Nothing is on its way to an app that is connected.
Quiet(c) == online[c] /\ ~transaction[c].open /\ updates[c] = <<>> /\ wire[c] = <<>>

\* The rows that the next answer would leave, were it asked for now.
AfterReconnect(c) == Apply(replica[c], Read(ReplaceAll(coll, registry), cursor[c]))

\* When nothing is on its way to it, an app that a list covered shows the
\* daemon's projects: lists overtaken by updates, updates during a refresh,
\* several sessions, refreshes that fail later on and restarts notwithstanding.
\* An app whose first list failed is not covered (directory-sync/index.ts:586),
\* nor one resumed late, nor one whose torn cursor got only changes.
ReplicaCurrent ==
  \A c \in Clients : Quiet(c) /\ link[c] = "covered" => replica[c] = registry

\* An app that lost its connection at any moment is brought up to date by the
\* answer that its cursor gets (readAfter), unless the cursor is torn: it lost a
\* connection on which it replayed deltas over an answer, or it took a number
\* from an update without having been told the numbers before it.
ReconnectCatchesUp ==
  \A c \in Clients : ~online[c] /\ standing[c] # "torn" => AfterReconnect(c) = registry

\* The same without exceptions: docs/architecture.md, "the daemon returns
\* each entity's latest projection when its sequence is newer".
AlwaysCatchesUp == \A c \in Clients : ~online[c] => AfterReconnect(c) = registry

=============================================================================
