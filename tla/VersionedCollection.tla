------------------------- MODULE VersionedCollection -------------------------
(***************************************************************************)
(* The daemon's latest-state sequencing of one directory entity type: the  *)
(* current value of every entity with the sequence number of its last      *)
(* change, tombstones of removed entities up to a limit, and the sequence  *)
(* number below which a reader may have missed a forgotten tombstone.      *)
(***************************************************************************)
EXTENDS Naturals, FiniteSets

CONSTANTS
  Ids,           \* entity ids
  Values,        \* what an entity's projection may be
  Absent,        \* no value: the entity does not exist
  MaxTombstones  \* tombstones kept (5000 in the code)

ASSUME CollectionAssumption == Absent \notin Values /\ MaxTombstones \in Nat

Directory == [Ids -> Values \cup {Absent}]

\* seq[id] is 0 for an id that is neither a value nor a tombstone.
Collection == [value : Directory, seq : [Ids -> Nat], head : Nat, expired : Nat]

EmptyCollection ==
  [value |-> [id \in Ids |-> Absent], seq |-> [id \in Ids |-> 0], head |-> 0, expired |-> 0]

\* advance, and the new latest state of one entity.
Advance(c, id, v) ==
  [c EXCEPT !.value[id] = v, !.seq[id] = c.head + 1, !.head = c.head + 1]

Tombstones(c) == {id \in Ids : c.value[id] = Absent /\ c.seq[id] # 0}

\* replace: a value with the same fingerprint is no change.
Replace(c, id, v) == IF c.value[id] = v THEN c ELSE Advance(c, id, v)

Oldest(c) ==
  CHOOSE id \in Tombstones(c) : \A other \in Tombstones(c) : c.seq[id] <= c.seq[other]

\* Mutant: a forgotten tombstone does not expire the cursors before it.
TrimTombstonesSilently(c) ==
  IF Cardinality(Tombstones(c)) <= MaxTombstones THEN c
  ELSE [c EXCEPT !.seq[Oldest(c)] = 0]

\* trimTombstones: a removal adds one, so at most one is too many.
TrimTombstones(c) ==
  IF Cardinality(Tombstones(c)) <= MaxTombstones THEN c
  ELSE LET gone == c.seq[Oldest(c)]
       IN  [c EXCEPT !.seq[Oldest(c)] = 0,
                     !.expired = IF gone > c.expired THEN gone ELSE c.expired]

\* remove: only an entity that has a value leaves a tombstone.
Remove(c, id) ==
  IF c.value[id] = Absent THEN c ELSE TrimTombstones(Advance(c, id, Absent))

\* readSnapshot and readAfter.  touched are the ids of the values and removals
\* that the answer names; a snapshot stands for the whole directory.
ReadSnapshot(c) ==
  [mode |-> "snapshot", head |-> c.head, touched |-> Ids, value |-> c.value]

ReadAfter(c, after) ==
  IF after < c.expired \/ after > c.head THEN ReadSnapshot(c)
  ELSE [mode |-> "changes", head |-> c.head,
        touched |-> {id \in Ids : c.seq[id] > after}, value |-> c.value]

\* What a reader that held directory d holds after an answer.
Apply(d, answer) ==
  [id \in Ids |-> IF id \in answer.touched THEN answer.value[id] ELSE d[id]]

=============================================================================
