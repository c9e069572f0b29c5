------------------------------- MODULE CatchUp -------------------------------
(***************************************************************************)
(* The promise of VersionedCollection to a reader that saw every change up *)
(* to its cursor: the changes after the cursor bring it up to date.  past  *)
(* is a history variable, the directory at every sequence number so far.   *)
(* replaceAll is a run of the two steps of this specification.             *)
(***************************************************************************)
EXTENDS VersionedCollection

CONSTANT MaxHead  \* BOUND: sequence numbers per behaviour

ASSUME MaxHeadAssumption == MaxHead \in Nat

VARIABLES
  collection,
  past   \* sequence number -> the directory when that number was handed out

catchUpVars == <<collection, past>>

CatchUpTypeOK ==
  /\ collection \in Collection
  /\ DOMAIN past = 0..collection.head
  /\ \A s \in 0..collection.head : past[s] \in Directory
  /\ collection.expired <= collection.head
  /\ \A id \in Ids : collection.seq[id] <= collection.head

CatchUpInit ==
  /\ collection = EmptyCollection
  /\ past = [s \in 0..0 |-> EmptyCollection.value]

Become(c) ==
  /\ collection' = c
  /\ past' = [s \in 0..c.head |-> IF s \in DOMAIN past THEN past[s] ELSE c.value]

Update(id, v) ==
  /\ collection.head < MaxHead
  /\ Become(Replace(collection, id, v))

Delete(id) ==
  /\ collection.head < MaxHead
  /\ Become(Remove(collection, id))

CatchUpNext == \E id \in Ids : Delete(id) \/ \E v \in Values : Update(id, v)

CatchUpSpec == CatchUpInit /\ [][CatchUpNext]_catchUpVars

-----------------------------------------------------------------------------
\* A reader whose replica was the directory at its cursor holds the current
\* directory after the answer to that cursor: sequence numbers, tombstones and
\* the expiry of forgotten tombstones together lose no change (readAfter).
CatchUpIsExact ==
  \A s \in DOMAIN past : Apply(past[s], ReadAfter(collection, s)) = collection.value

\* The numbers from which changes are served still name the values they named:
\* an id with no later number has not changed since.
UnchangedSince ==
  \A s \in collection.expired..collection.head, id \in Ids :
    collection.seq[id] <= s => past[s][id] = collection.value[id]

CatchUpInv == CatchUpTypeOK /\ UnchangedSince

=============================================================================
