--------------------------- MODULE DirectoryProofs ---------------------------
(***************************************************************************)
(* The versioned collection and the directory that is synchronized through *)
(* it, for every set of entities and values and every limit on the         *)
(* tombstones.                                                             *)
(*                                                                         *)
(* First what a collection promises a reader that saw every change up to   *)
(* its cursor.  Then that an app is such a reader at every message on its  *)
(* way to it, or its history says which step made it another one: however  *)
(* updates of several sessions, lists, refreshes that succeed or fail,     *)
(* lost connections and restarts are mixed.                                *)
(***************************************************************************)
EXTENDS CatchUp, DirectorySync, FiniteSetTheorems, SequenceTheorems,
        WellFoundedInduction, TLAPS

-----------------------------------------------------------------------------
(* The collection.                                                         *)

\* A collection over the tombstone limit has a tombstone, and a set of
\* sequence numbers has a least one.
LEMMA OldestIsTombstone ==
  ASSUME NEW c \in Collection, ~(Cardinality(Tombstones(c)) <= MaxTombstones)
  PROVE  Oldest(c) \in Tombstones(c)
<1> DEFINE Less == {ss \in Nat \X Nat : ss[1] < ss[2]}
<1> DEFINE Numbers == {c.seq[id] : id \in Tombstones(c)}
<1>1. Tombstones(c) # {}
  BY FS_EmptySet, CollectionAssumption, SMT
<1>2. Tombstones(c) \subseteq Ids
  BY DEF Tombstones
<1>3. Numbers \subseteq Nat
  BY <1>2 DEF Collection
<1>4. Numbers # {}
  BY <1>1
<1>5. PICK n \in Numbers : \A m \in Numbers : ~(<<m, n>> \in Less)
  <2>1. IsWellFoundedOn(Less, Nat)
    BY NatLessThanWellFounded DEF OpToRel
  <2> HIDE DEF Less, Numbers
  <2> QED
    BY <2>1, <1>3, <1>4, WFMin
<1>6. \A m \in Numbers : n <= m
  <2> SUFFICES ASSUME NEW m \in Numbers PROVE n <= m
    OBVIOUS
  <2>1. n \in Nat /\ m \in Nat
    BY <1>3
  <2>2. m < n => <<m, n>> \in Less
    BY <2>1
  <2> QED
    BY <1>5, <2>1, <2>2
<1>7. \E id \in Tombstones(c) : \A other \in Tombstones(c) : c.seq[id] <= c.seq[other]
  BY <1>6
<1> QED
  BY <1>7 DEF Oldest

\* A collection whose numbers were all handed out.
Sound(c) ==
  /\ c \in Collection
  /\ c.expired <= c.head
  /\ \A id \in Ids : c.seq[id] <= c.head

\* No number was given twice; the last one that expired was not given again.
Distinct(c) ==
  \A id \in Ids : c.seq[id] # 0 =>
    /\ c.seq[id] # c.expired
    /\ \A other \in Ids : c.seq[other] = c.seq[id] => other = id

\* d is what c becomes by at most one change: from any number that d still
\* serves changes from, an id without a later number is as it was in c.
Follows(d, c) ==
  /\ Sound(d)
  /\ d.head \in {c.head, c.head + 1}
  /\ c.expired <= d.expired
  /\ Distinct(c) => Distinct(d)
  /\ \A id \in Ids : \A s \in d.expired..c.head :
       d.seq[id] <= s => c.seq[id] <= s /\ d.value[id] = c.value[id]

\* No change at all is one way to follow.
LEMMA FollowsItself ==
  ASSUME NEW c, Sound(c)
  PROVE  Follows(c, c)
BY DEF Follows, Sound, Collection

\* What advance does to a sound collection, field by field.
LEMMA AdvanceResult ==
  ASSUME NEW c, Sound(c), NEW id \in Ids, NEW v \in Values \cup {Absent}
  PROVE  /\ Sound(Advance(c, id, v))
         /\ Advance(c, id, v).head = c.head + 1
         /\ Advance(c, id, v).expired = c.expired
         /\ Advance(c, id, v).seq[id] = c.head + 1
         /\ \A other \in Ids \ {id} :
              /\ Advance(c, id, v).seq[other] = c.seq[other]
              /\ Advance(c, id, v).value[other] = c.value[other]
<1>1. Advance(c, id, v) \in Collection
  <2> DEFINE value == [c.value EXCEPT ![id] = v]
  <2> DEFINE seq == [c.seq EXCEPT ![id] = c.head + 1]
  <2>1. value \in Directory /\ seq \in [Ids -> Nat] /\ c.head + 1 \in Nat
    BY DEF Sound, Collection, Directory
  <2>2. Advance(c, id, v) = [c EXCEPT !.value = value, !.seq = seq, !.head = c.head + 1]
    BY DEF Advance
  <2>3. c \in Collection
    BY DEF Sound
  <2> HIDE DEF value, seq
  <2> QED
    BY <2>1, <2>2, <2>3 DEF Collection
<1>2. /\ Advance(c, id, v).head = c.head + 1
      /\ Advance(c, id, v).expired = c.expired
      /\ Advance(c, id, v).seq = [c.seq EXCEPT ![id] = c.head + 1]
      /\ Advance(c, id, v).value = [c.value EXCEPT ![id] = v]
  BY DEF Advance, Sound, Collection
<1>3. c.seq \in [Ids -> Nat] /\ c.value \in [Ids -> Values \cup {Absent}]
  BY DEF Sound, Collection, Directory
<1>4. c.head \in Nat /\ c.expired \in Nat
  BY DEF Sound, Collection
<1>5. \A other \in Ids : Advance(c, id, v).seq[other] <= Advance(c, id, v).head
  BY <1>2, <1>3, <1>4 DEF Sound
<1> QED
  BY <1>1, <1>2, <1>3, <1>4, <1>5 DEF Sound

\* advance is a change.
LEMMA AdvanceFollows ==
  ASSUME NEW c, Sound(c), NEW id \in Ids, NEW v \in Values \cup {Absent}
  PROVE  Follows(Advance(c, id, v), c)
<1> DEFINE d == Advance(c, id, v)
<1>1. /\ Sound(d) /\ d.head = c.head + 1 /\ d.expired = c.expired
      /\ d.seq[id] = c.head + 1
      /\ \A other \in Ids \ {id} : d.seq[other] = c.seq[other] /\ d.value[other] = c.value[other]
  BY AdvanceResult
<1>2. c.head \in Nat /\ c.expired \in Nat
  BY DEF Sound, Collection
<1> HIDE DEF d
<1>3. ASSUME NEW other \in Ids, NEW s \in d.expired..c.head, d.seq[other] <= s
      PROVE  c.seq[other] <= s /\ d.value[other] = c.value[other]
  <2>1. CASE other = id
    BY <1>1, <1>2, <1>3, <2>1
  <2>2. CASE other # id
    BY <1>1, <1>3, <2>2
  <2> QED
    BY <2>1, <2>2
<1>4. c.expired <= d.expired /\ d.head \in {c.head, c.head + 1}
  BY <1>1, <1>2
<1>5. ASSUME Distinct(c) PROVE Distinct(d)
  <2>1. /\ c.seq \in [Ids -> Nat] /\ c.expired <= c.head
        /\ \A other \in Ids : c.seq[other] <= c.head
    BY DEF Sound, Collection
  <2> SUFFICES ASSUME NEW one \in Ids, d.seq[one] # 0
               PROVE  /\ d.seq[one] # d.expired
                      /\ \A other \in Ids : d.seq[other] = d.seq[one] => other = one
    BY DEF Distinct
  <2>2. CASE one = id
    <3>1. d.seq[one] = c.head + 1 /\ c.head + 1 # c.expired
      BY <1>1, <1>2, <2>1, <2>2
    <3>2. \A other \in Ids \ {id} : d.seq[other] # c.head + 1
      BY <1>1, <1>2, <2>1
    <3> QED
      BY <1>1, <2>2, <3>1, <3>2
  <2>3. CASE one # id
    <3>1. d.seq[one] = c.seq[one] /\ d.seq[one] # d.seq[id]
      BY <1>1, <1>2, <2>1, <2>3
    <3> QED
      BY <1>1, <1>5, <2>3, <3>1 DEF Distinct
  <2> QED
    BY <2>2, <2>3
<1> QED
  BY <1>1, <1>3, <1>4, <1>5 DEF Follows, d

\* Forgetting the oldest tombstone expires every number before it, and leaves
\* the other ids alone.
LEMMA TrimFollows ==
  ASSUME NEW c, Sound(c)
  PROVE  /\ Follows(TrimTombstones(c), c)
         /\ TrimTombstones(c).head = c.head
<1> DEFINE d == TrimTombstones(c)
<1> DEFINE old == Oldest(c)
<1>1. CASE Cardinality(Tombstones(c)) <= MaxTombstones
  BY <1>1, FollowsItself DEF TrimTombstones
<1>2. CASE ~(Cardinality(Tombstones(c)) <= MaxTombstones)
  <2>1. c \in Collection
    BY DEF Sound
  <2>2. old \in Ids /\ c.value[old] = Absent
    BY <1>2, <2>1, OldestIsTombstone DEF Tombstones
  <2> HIDE DEF old
  <2>3. /\ c.head \in Nat /\ c.expired \in Nat /\ c.seq \in [Ids -> Nat]
        /\ c.expired <= c.head /\ \A id \in Ids : c.seq[id] <= c.head
    BY DEF Sound, Collection
  <2>4. d = [c EXCEPT !.seq[old] = 0,
                      !.expired = IF c.seq[old] > c.expired THEN c.seq[old] ELSE c.expired]
    BY <1>2 DEF TrimTombstones, old
  <2> HIDE DEF d
  <2>5. d \in Collection
    BY <2>1, <2>2, <2>3, <2>4 DEF Collection
  <2>6. /\ d.head = c.head
        /\ d.value = c.value
        /\ d.seq = [c.seq EXCEPT ![old] = 0]
        /\ d.expired = IF c.seq[old] > c.expired THEN c.seq[old] ELSE c.expired
    BY <2>1, <2>4 DEF Collection
  <2>7. Sound(d)
    BY <2>2, <2>3, <2>5, <2>6 DEF Sound
  <2>8. c.expired <= d.expired /\ c.seq[old] <= d.expired
    BY <2>2, <2>3, <2>6
  <2>9. d.expired \in Nat
    BY <2>5 DEF Collection
  <2>10. ASSUME NEW id \in Ids, NEW s \in d.expired..c.head, d.seq[id] <= s
         PROVE  c.seq[id] <= s /\ d.value[id] = c.value[id]
    <3>1. CASE id = old
      BY <2>2, <2>3, <2>6, <2>8, <2>9, <3>1
    <3>2. CASE id # old
      BY <2>3, <2>6, <2>10, <3>2
    <3> QED
      BY <3>1, <3>2
  <2>12. ASSUME Distinct(c) PROVE Distinct(d)
    <3> SUFFICES ASSUME NEW one \in Ids, d.seq[one] # 0
                 PROVE  /\ d.seq[one] # d.expired
                        /\ \A other \in Ids : d.seq[other] = d.seq[one] => other = one
      BY DEF Distinct
    <3>1. one # old /\ d.seq[one] = c.seq[one]
      BY <2>2, <2>3, <2>6
    <3>2. c.seq[one] # c.seq[old]
      BY <2>2, <2>12, <3>1 DEF Distinct
    <3>3. \A other \in Ids : d.seq[other] = d.seq[one] => other = one
      <4> SUFFICES ASSUME NEW other \in Ids, d.seq[other] = d.seq[one] PROVE other = one
        OBVIOUS
      <4>1. other # old /\ d.seq[other] = c.seq[other]
        BY <2>2, <2>3, <2>6
      <4> QED
        BY <2>12, <3>1, <4>1 DEF Distinct
    <3>4. d.seq[one] # d.expired
      BY <2>6, <2>12, <3>1, <3>2 DEF Distinct
    <3> QED
      BY <3>3, <3>4
  <2>11. Follows(d, c) /\ d.head = c.head
    BY <2>6, <2>7, <2>8, <2>10, <2>12 DEF Follows
  <2> QED
    BY <2>11 DEF d
<1> QED
  BY <1>1, <1>2

\* An update is no change or an advance.
LEMMA ReplaceFollows ==
  ASSUME NEW c, Sound(c), NEW id \in Ids, NEW v \in Values
  PROVE  /\ Follows(Replace(c, id, v), c)
         /\ Replace(c, id, v).head = c.head => Replace(c, id, v).value = c.value
<1>1. c.head \in Nat
  BY DEF Sound, Collection
<1>2. CASE c.value[id] = v
  BY <1>2, FollowsItself DEF Replace
<1>3. CASE c.value[id] # v
  <2>1. Replace(c, id, v) = Advance(c, id, v)
    BY <1>3 DEF Replace
  <2>2. Follows(Advance(c, id, v), c) /\ Advance(c, id, v).head = c.head + 1
    BY AdvanceFollows, AdvanceResult
  <2> QED
    BY <1>1, <2>1, <2>2
<1> QED
  BY <1>2, <1>3

\* A removal is no change, or an advance and the loss of a tombstone.
LEMMA RemoveFollows ==
  ASSUME NEW c, Sound(c), NEW id \in Ids
  PROVE  /\ Follows(Remove(c, id), c)
         /\ Remove(c, id).head = c.head => Remove(c, id).value = c.value
<1>1. c.head \in Nat /\ c.expired \in Nat
  BY DEF Sound, Collection
<1>2. CASE c.value[id] = Absent
  BY <1>2, FollowsItself DEF Remove
<1>3. CASE c.value[id] # Absent
  <2> DEFINE mid == Advance(c, id, Absent)
  <2> DEFINE d == TrimTombstones(mid)
  <2>1. Remove(c, id) = d
    BY <1>3 DEF Remove
  <2>2. Sound(mid) /\ Follows(mid, c) /\ mid.head = c.head + 1 /\ mid.expired = c.expired
    BY AdvanceFollows, AdvanceResult
  <2> HIDE DEF mid
  <2>3. Follows(d, mid) /\ d.head = mid.head
    BY <2>2, TrimFollows
  <2> HIDE DEF d
  <2>4. /\ Sound(d) /\ d.head = c.head + 1 /\ c.expired <= d.expired
        /\ d.expired \in Nat
    BY <2>2, <2>3 DEF Follows, Sound, Collection
  <2>5. ASSUME NEW other \in Ids, NEW s \in d.expired..c.head, d.seq[other] <= s
        PROVE  c.seq[other] <= s /\ d.value[other] = c.value[other]
    <3>1. s \in d.expired..mid.head /\ s \in mid.expired..c.head
      BY <1>1, <2>2, <2>4
    <3>2. mid.seq[other] <= s /\ d.value[other] = mid.value[other]
      BY <2>3, <2>5, <3>1 DEF Follows
    <3> QED
      BY <2>2, <3>1, <3>2 DEF Follows
  <2> QED
    BY <1>1, <2>1, <2>2, <2>3, <2>4, <2>5 DEF Follows
<1> QED
  BY <1>2, <1>3

\* The invariant survives any change that the collection follows by.
LEMMA BecomePreserves ==
  ASSUME CatchUpInv, NEW d, Follows(d, collection), Become(d),
         d.head = collection.head => d.value = collection.value
  PROVE  CatchUpInv'
<1>1. collection' = d /\ past' = [s \in 0..d.head |-> IF s \in DOMAIN past THEN past[s] ELSE d.value]
  BY DEF Become
<1>2. /\ collection.head \in Nat /\ collection.expired \in Nat /\ collection.seq \in [Ids -> Nat]
      /\ DOMAIN past = 0..collection.head /\ \A s \in 0..collection.head : past[s] \in Directory
  BY DEF CatchUpInv, CatchUpTypeOK, Collection
<1>3. /\ d.head \in Nat /\ d.expired \in Nat /\ d.value \in Directory
      /\ d.head \in {collection.head, collection.head + 1} /\ collection.expired <= d.expired
  BY DEF Follows, Sound, Collection
<1>4. CatchUpTypeOK'
  <2>1. DOMAIN past' = 0..collection'.head
    BY <1>1
  <2>2. \A s \in 0..collection'.head : past'[s] \in Directory
    BY <1>1, <1>2, <1>3
  <2>3. Sound(collection')
    BY <1>1 DEF Follows
  <2> QED
    BY <2>1, <2>2, <2>3 DEF CatchUpTypeOK, Sound
<1>5. UnchangedSince'
  <2> SUFFICES ASSUME NEW s \in d.expired..d.head, NEW id \in Ids, d.seq[id] <= s
               PROVE  past'[s][id] = d.value[id]
    BY <1>1 DEF UnchangedSince
  <2>1. CASE s \in 0..collection.head
    <3>1. past'[s] = past[s]
      BY <1>1, <1>2, <1>3, <2>1
    <3>2. s \in d.expired..collection.head /\ s \in collection.expired..collection.head
      BY <1>2, <1>3, <2>1
    <3>3. collection.seq[id] <= s /\ d.value[id] = collection.value[id]
      BY <3>2 DEF Follows
    <3>4. past[s][id] = collection.value[id]
      BY <3>2, <3>3 DEF CatchUpInv, UnchangedSince
    <3> QED
      BY <3>1, <3>3, <3>4
  <2>2. CASE s \notin 0..collection.head
    <3>1. past'[s] = d.value
      BY <1>1, <1>2, <1>3, <2>2
    <3> QED
      BY <3>1
  <2> QED
    BY <2>1, <2>2
<1> QED
  BY <1>4, <1>5 DEF CatchUpInv

LEMMA CatchUpInitEstablishes == CatchUpInit => CatchUpInv
<1> SUFFICES ASSUME CatchUpInit PROVE CatchUpInv
  OBVIOUS
<1>1. EmptyCollection \in Collection
  BY DEF EmptyCollection, Collection, Directory
<1>2. CatchUpTypeOK
  BY <1>1 DEF CatchUpInit, CatchUpTypeOK, EmptyCollection, Directory
<1>3. UnchangedSince
  BY DEF CatchUpInit, UnchangedSince, EmptyCollection
<1> QED
  BY <1>2, <1>3 DEF CatchUpInv

LEMMA CatchUpStepPreserves == CatchUpInv /\ [CatchUpNext]_catchUpVars => CatchUpInv'
<1> SUFFICES ASSUME CatchUpInv, [CatchUpNext]_catchUpVars PROVE CatchUpInv'
  OBVIOUS
<1>1. Sound(collection)
  BY DEF CatchUpInv, CatchUpTypeOK, Sound
<1>2. ASSUME NEW id \in Ids, NEW v \in Values, Update(id, v) PROVE CatchUpInv'
  BY <1>1, <1>2, ReplaceFollows, BecomePreserves DEF Update
<1>3. ASSUME NEW id \in Ids, Delete(id) PROVE CatchUpInv'
  BY <1>1, <1>3, RemoveFollows, BecomePreserves DEF Delete
<1>4. CASE UNCHANGED catchUpVars
  BY <1>4 DEF catchUpVars, CatchUpInv, CatchUpTypeOK, UnchangedSince
<1> QED
  BY <1>2, <1>3, <1>4 DEF CatchUpNext

\* An expired or unknown cursor is answered with the whole directory; any
\* other, with every id that has changed since.
LEMMA ExactFromInvariant == CatchUpInv => CatchUpIsExact
<1> SUFFICES ASSUME CatchUpInv, NEW s \in DOMAIN past
             PROVE  Apply(past[s], ReadAfter(collection, s)) = collection.value
  BY DEF CatchUpIsExact
<1>1. /\ collection.head \in Nat /\ collection.expired \in Nat /\ collection.seq \in [Ids -> Nat]
      /\ collection.value \in [Ids -> Values \cup {Absent}] /\ s \in 0..collection.head
  BY DEF CatchUpInv, CatchUpTypeOK, Collection, Directory
<1>2. CASE s < collection.expired
  <2>1. ReadAfter(collection, s) = ReadSnapshot(collection)
    BY <1>2 DEF ReadAfter
  <2> QED
    BY <1>1, <2>1 DEF Apply, ReadSnapshot
<1>3. CASE ~(s < collection.expired)
  <2>1. s \in collection.expired..collection.head /\ ~(s > collection.head)
    BY <1>1, <1>3
  <2>2. /\ ReadAfter(collection, s).touched = {id \in Ids : collection.seq[id] > s}
        /\ ReadAfter(collection, s).value = collection.value
    BY <1>3, <2>1 DEF ReadAfter
  <2>3. ASSUME NEW id \in Ids, ~(collection.seq[id] > s) PROVE past[s][id] = collection.value[id]
    BY <1>1, <2>1, <2>3 DEF CatchUpInv, UnchangedSince
  <2> QED
    BY <1>1, <2>2, <2>3 DEF Apply
<1> QED
  BY <1>2, <1>3

\* For every set of entities, values and tombstone limit the collection and
\* its history keep their types: no number is handed out twice or skipped.
THEOREM TypeCorrect == CatchUpSpec => []CatchUpTypeOK
<1>1. CatchUpInit => CatchUpInv
  BY CatchUpInitEstablishes
<1>2. CatchUpInv /\ [CatchUpNext]_catchUpVars => CatchUpInv'
  BY CatchUpStepPreserves
<1>3. CatchUpInv => CatchUpTypeOK
  BY DEF CatchUpInv
<1> QED
  BY <1>1, <1>2, <1>3, PTL DEF CatchUpSpec

\* An id without a later number has not changed since a number that changes
\* are still served from.
THEOREM UnchangedSinceCorrect == CatchUpSpec => []UnchangedSince
<1>1. CatchUpInit => CatchUpInv
  BY CatchUpInitEstablishes
<1>2. CatchUpInv /\ [CatchUpNext]_catchUpVars => CatchUpInv'
  BY CatchUpStepPreserves
<1>3. CatchUpInv => UnchangedSince
  BY DEF CatchUpInv
<1> QED
  BY <1>1, <1>2, <1>3, PTL DEF CatchUpSpec

\* A reader that saw every change up to its cursor is brought up to date by
\* readAfter, whatever was replaced, removed and forgotten meanwhile.
THEOREM CatchUpCorrect == CatchUpSpec => []CatchUpIsExact
<1>1. CatchUpInit => CatchUpInv
  BY CatchUpInitEstablishes
<1>2. CatchUpInv /\ [CatchUpNext]_catchUpVars => CatchUpInv'
  BY CatchUpStepPreserves
<1>3. CatchUpInv => CatchUpIsExact
  BY ExactFromInvariant
<1> QED
  BY <1>1, <1>2, <1>3, PTL DEF CatchUpSpec

-----------------------------------------------------------------------------
(* Iterations.  An induction over a set of numbers is a least              *)
(* counterexample; a recursive function over a range exists by one.        *)

LEMMA Least ==
  ASSUME NEW S \in SUBSET Nat, S # {}
  PROVE  \E s \in S : \A u \in S : s <= u
<1>1. PICK s \in S : \A u \in S : <<u, s>> \notin OpToRel(<, Nat)
  BY WFMin, NatLessThanWellFounded, Zenon
<1>2. \A u \in S : ~(u < s)
  BY <1>1 DEF OpToRel
<1> QED
  BY <1>2

LEMMA UpTo ==
  ASSUME NEW n \in Nat, NEW Good, 0 \in Good,
         \A i \in 1..n : i - 1 \in Good => i \in Good
  PROVE  \A i \in 0..n : i \in Good
<1> DEFINE Bad == {i \in 0..n : i \notin Good}
<1>1. ASSUME Bad # {} PROVE FALSE
  <2>1. Bad \in SUBSET Nat
    OBVIOUS
  <2> HIDE DEF Bad
  <2>2. PICK m \in Bad : \A k \in Bad : m <= k
    BY <1>1, <2>1, Least
  <2>3. m \in 0..n /\ m \notin Good
    BY DEF Bad
  <2>4. m \in 1..n
    BY <2>3
  <2>5. m - 1 \in 0..n /\ ~(m <= m - 1)
    BY <2>4
  <2>6. m - 1 \in Good
    BY <2>2, <2>5 DEF Bad
  <2> QED
    BY <2>3, <2>4, <2>6
<1> QED
  BY <1>1

\* f holds base and what each of n steps makes of it.
Runs(f, S, base, n, take) ==
  f \in [0..n -> S] /\ f[0] = base /\ \A i \in 1..n : f[i] = take[<<f[i - 1], i>>]

LEMMA Iteration ==
  ASSUME NEW S, NEW base \in S, NEW n \in Nat, NEW take \in [S \X (1..n) -> S]
  PROVE  \E f : Runs(f, S, base, n, take)
<1> DEFINE Run(f, k) ==
      f \in [0..k -> S] /\ f[0] = base /\ \A i \in 1..k : f[i] = take[<<f[i - 1], i>>]
<1> DEFINE Good == {k \in 0..n : \E f : Run(f, k)}
<1>1. 0 \in Good
  <2>1. Run([i \in 0..0 |-> base], 0)
    OBVIOUS
  <2>2. 0 \in 0..n
    OBVIOUS
  <2> HIDE DEF Run
  <2> QED
    BY <2>1, <2>2
<1>2. ASSUME NEW k \in 1..n, k - 1 \in Good PROVE k \in Good
  <2>1. PICK f : Run(f, k - 1)
    BY <1>2
  <2>2. k - 1 \in 0..(k - 1) /\ k \in 0..n
    OBVIOUS
  <2>3. f[k - 1] \in S
    BY <2>1, <2>2
  <2> DEFINE new == take[<<f[k - 1], k>>]
             g == [i \in 0..k |-> IF i = k THEN new ELSE f[i]]
  <2>4. new \in S
    BY <2>3
  <2> HIDE DEF new
  <2>5. g \in [0..k -> S] /\ g[0] = base
    BY <2>1, <2>4
  <2>6. ASSUME NEW i \in 1..k PROVE g[i] = take[<<g[i - 1], i>>]
    <3>1. CASE i = k
      <4>1. g[i] = new /\ g[i - 1] = f[k - 1]
        BY <3>1
      <4> QED
        BY <3>1, <4>1 DEF new
    <3>2. CASE i # k
      <4>1. i \in 1..(k - 1)
        BY <3>2
      <4>2. g[i] = f[i] /\ g[i - 1] = f[i - 1]
        BY <4>1
      <4> QED
        BY <2>1, <4>1, <4>2
    <3> QED
      BY <3>1, <3>2
  <2>7. Run(g, k)
    BY <2>5, <2>6
  <2> QED
    BY <2>2, <2>7
<1> HIDE DEF Good
<1>3. n \in Good
  BY <1>1, <1>2, UpTo
<1> QED
  BY <1>3 DEF Good, Runs

-----------------------------------------------------------------------------
(* Any number of changes.                                                  *)

\* As Follows, for any number of changes.
Keeps(d, c) ==
  /\ Sound(d)
  /\ c.head <= d.head
  /\ c.expired <= d.expired
  /\ Distinct(c) => Distinct(d)
  /\ \A id \in Ids : \A s \in d.expired..c.head :
       d.seq[id] <= s => c.seq[id] <= s /\ d.value[id] = c.value[id]

LEMMA KeepsItself ==
  ASSUME NEW c, Sound(c)
  PROVE  Keeps(c, c)
BY DEF Keeps, Sound, Collection

LEMMA FollowsKeeps ==
  ASSUME NEW c, Sound(c), NEW d, Follows(d, c)
  PROVE  Keeps(d, c)
BY DEF Keeps, Follows, Sound, Collection

LEMMA KeepsAlong ==
  ASSUME NEW c, Sound(c), NEW d, Keeps(d, c), NEW e, Keeps(e, d)
  PROVE  Keeps(e, c)
<1>1. /\ c.head \in Nat /\ c.expired \in Nat /\ d.head \in Nat /\ d.expired \in Nat
      /\ e.head \in Nat /\ e.expired \in Nat
      /\ c.head <= d.head /\ d.head <= e.head /\ c.expired <= d.expired /\ d.expired <= e.expired
  BY DEF Keeps, Sound, Collection
<1>2. ASSUME NEW id \in Ids, NEW s \in e.expired..c.head, e.seq[id] <= s
      PROVE  c.seq[id] <= s /\ e.value[id] = c.value[id]
  <2>1. s \in e.expired..d.head /\ s \in d.expired..c.head
    BY <1>1
  <2>2. d.seq[id] <= s /\ e.value[id] = d.value[id]
    BY <1>2, <2>1 DEF Keeps
  <2> QED
    BY <2>1, <2>2 DEF Keeps
<1> QED
  BY <1>1, <1>2 DEF Keeps

LEMMA ReplaceValue ==
  ASSUME NEW c, Sound(c), NEW id \in Ids, NEW v \in Values
  PROVE  Replace(c, id, v).value = [c.value EXCEPT ![id] = v]
<1>1. c.value \in [Ids -> Values \cup {Absent}]
  BY DEF Sound, Collection, Directory
<1>2. CASE c.value[id] = v
  BY <1>1, <1>2 DEF Replace
<1>3. CASE c.value[id] # v
  BY <1>3 DEF Replace, Advance, Sound, Collection
<1> QED
  BY <1>2, <1>3

LEMMA TrimValue ==
  ASSUME NEW c, Sound(c)
  PROVE  TrimTombstones(c).value = c.value
BY DEF TrimTombstones, Sound, Collection

LEMMA RemoveValue ==
  ASSUME NEW c, Sound(c), NEW id \in Ids
  PROVE  Remove(c, id).value = [c.value EXCEPT ![id] = Absent]
<1>1. c.value \in [Ids -> Values \cup {Absent}]
  BY DEF Sound, Collection, Directory
<1>2. CASE c.value[id] = Absent
  BY <1>1, <1>2 DEF Remove
<1>3. CASE c.value[id] # Absent
  <2> DEFINE mid == Advance(c, id, Absent)
  <2>1. Sound(mid)
    BY AdvanceResult
  <2>2. mid.value = [c.value EXCEPT ![id] = Absent]
    BY DEF Advance, Sound, Collection
  <2>3. Remove(c, id) = TrimTombstones(mid)
    BY <1>3 DEF Remove
  <2> HIDE DEF mid
  <2> QED
    BY <2>1, <2>2, <2>3, TrimValue
<1> QED
  BY <1>2, <1>3

\* replaceAll, first half: an update for every project that is listed.
LEMMA UpsertedResult ==
  ASSUME NEW c, Sound(c), NEW directory \in Directory
  PROVE  /\ Keeps(Upserted(c, directory), c)
         /\ \A id \in Ids : directory[id] # Absent => Upserted(c, directory).value[id] = directory[id]
<1> DEFINE n == Len(ListOrder)
           S == {d \in Collection : Keeps(d, c)}
           Up(x, i) == IF directory[ListOrder[i]] = Absent THEN x
                       ELSE Replace(x, ListOrder[i], directory[ListOrder[i]])
<1>1. n \in Nat /\ \A i \in 1..n : ListOrder[i] \in Ids
  <2>1. ListOrder \in Seq(Ids)
    BY DirectorySyncAssumption
  <2> QED
    BY <2>1, LenProperties, ElementOfSeq
<1>2. \A id \in Ids : \E i \in 1..n : ListOrder[i] = id
  <2>1. ListOrder \in Seq(Ids) /\ {ListOrder[i] : i \in DOMAIN ListOrder} = Ids
    BY DirectorySyncAssumption
  <2>2. DOMAIN ListOrder = 1..n
    BY <2>1, LenProperties
  <2> QED
    BY <2>1, <2>2
<1>3. \A id \in Ids : directory[id] = Absent \/ directory[id] \in Values
  BY DEF Directory
<1>4. c \in S
  BY KeepsItself DEF Sound
<1> HIDE DEF n
<1>5. ASSUME NEW x \in S, NEW i \in 1..n PROVE Up(x, i) \in S
  <2>1. CASE directory[ListOrder[i]] = Absent
    BY <2>1
  <2>2. CASE directory[ListOrder[i]] # Absent
    <3>1. Sound(x) /\ Keeps(x, c)
      BY DEF Keeps
    <3>2. ListOrder[i] \in Ids /\ directory[ListOrder[i]] \in Values
      BY <1>1, <1>3, <2>2
    <3> DEFINE y == Replace(x, ListOrder[i], directory[ListOrder[i]])
    <3>3. Follows(y, x)
      BY <3>1, <3>2, ReplaceFollows
    <3> HIDE DEF y
    <3>4. Keeps(y, c)
      BY <3>1, <3>3, FollowsKeeps, KeepsAlong
    <3>5. y \in Collection
      BY <3>4 DEF Keeps, Sound
    <3> QED
      BY <2>2, <3>4, <3>5 DEF y
  <2> QED
    BY <2>1, <2>2
<1> DEFINE take == [x \in S \X (1..n) |-> Up(x[1], x[2])]
<1>6. take \in [S \X (1..n) -> S]
  <2> HIDE DEF S, Up
  <2> QED
    BY <1>5
<1>7. PICK f : f \in [0..n -> S] /\ f[0] = c /\ \A i \in 1..n : f[i] = take[<<f[i - 1], i>>]
  <2> HIDE DEF S, take
  <2>1. \E f : Runs(f, S, c, n, take)
    BY <1>1, <1>4, <1>6, Iteration
  <2> QED
    BY <2>1 DEF Runs
<1>8. ASSUME NEW i \in 1..n PROVE i - 1 \in 0..n /\ f[i - 1] \in S /\ f[i] = Up(f[i - 1], i)
  <2> HIDE DEF S, Up
  <2>1. i - 1 \in 0..n
    BY <1>1
  <2>2. f[i - 1] \in S
    BY <1>7, <2>1
  <2> QED
    BY <1>7, <2>1, <2>2
<1>9. f = [i \in 0..n |-> IF i = 0 THEN c ELSE Up(f[i - 1], i)]
  <2> HIDE DEF S, Up
  <2>1. ASSUME NEW i \in 0..n PROVE f[i] = IF i = 0 THEN c ELSE Up(f[i - 1], i)
    <3>1. CASE i = 0
      BY <1>7, <3>1
    <3>2. CASE i # 0
      <4>1. i \in 1..n
        BY <1>1, <3>2
      <4> QED
        BY <1>8, <3>2, <4>1
    <3> QED
      BY <3>1, <3>2
  <2> QED
    BY <1>7, <2>1
<1>10. PICK g : /\ g = [i \in 0..n |-> IF i = 0 THEN c ELSE Up(g[i - 1], i)]
                /\ Upserted(c, directory) = g[n]
  BY <1>9 DEF Upserted, n
<1>11. \A i \in 0..n : g[i] = IF i = 0 THEN c ELSE Up(g[i - 1], i)
  <2> HIDE DEF Up
  <2> DEFINE h == [i \in 0..n |-> IF i = 0 THEN c ELSE Up(g[i - 1], i)]
  <2>1. \A i \in 0..n : h[i] = IF i = 0 THEN c ELSE Up(g[i - 1], i)
    OBVIOUS
  <2>2. g = h
    BY <1>10
  <2> HIDE DEF h
  <2> QED
    BY <2>1, <2>2
<1>12. \A i \in 0..n : g[i] = f[i]
  <2> HIDE DEF S, Up, take
  <2> DEFINE Good == {i \in 0..n : g[i] = f[i]}
  <2>1. 0 \in Good
    BY <1>1, <1>7, <1>11
  <2>2. ASSUME NEW i \in 1..n, i - 1 \in Good PROVE i \in Good
    <3>1. i \in 0..n /\ i # 0 /\ g[i - 1] = f[i - 1]
      BY <1>1, <2>2
    <3> QED
      BY <1>8, <1>11, <3>1
  <2> HIDE DEF Good
  <2>3. \A i \in 0..n : i \in Good
    BY <1>1, <2>1, <2>2, UpTo
  <2> QED
    BY <2>3 DEF Good
<1>13. n \in 0..n /\ f[n] = Upserted(c, directory)
  BY <1>1, <1>10, <1>12
<1>14. Keeps(Upserted(c, directory), c)
  BY <1>7, <1>13
\* The rows written so far stay.
<1>15. ASSUME NEW id \in Ids, directory[id] # Absent
       PROVE  Upserted(c, directory).value[id] = directory[id]
  <2> DEFINE Done(i) == (\E k \in 1..i : ListOrder[k] = id) => f[i].value[id] = directory[id]
             Good == {i \in 0..n : Done(i)}
  <2>1. 0 \in Good
    BY <1>1
  <2>2. ASSUME NEW i \in 1..n, i - 1 \in Good PROVE i \in Good
    <3>1. Sound(f[i - 1]) /\ f[i] = Up(f[i - 1], i)
      BY <1>8 DEF Keeps
    <3>2. f[i - 1].value \in [Ids -> Values \cup {Absent}]
      BY <3>1 DEF Sound, Collection, Directory
    <3>3. (\E k \in 1..(i - 1) : ListOrder[k] = id) => f[i - 1].value[id] = directory[id]
      BY <2>2
    <3>4. CASE ListOrder[i] = id
      <4>1. f[i].value = [f[i - 1].value EXCEPT ![id] = directory[id]]
        BY <1>3, <1>15, <3>1, <3>4, ReplaceValue
      <4>2. f[i].value[id] = directory[id]
        BY <3>2, <4>1
      <4> QED
        BY <1>1, <4>2
    <3>5. CASE ListOrder[i] # id
      <4>1. f[i].value[id] = f[i - 1].value[id]
        <5>1. CASE directory[ListOrder[i]] = Absent
          BY <3>1, <5>1
        <5>2. CASE directory[ListOrder[i]] # Absent
          <6>1. ListOrder[i] \in Ids /\ directory[ListOrder[i]] \in Values
            BY <1>1, <1>3, <5>2
          <6>2. f[i].value = [f[i - 1].value EXCEPT ![ListOrder[i]] = directory[ListOrder[i]]]
            BY <3>1, <5>2, <6>1, ReplaceValue
          <6> QED
            BY <3>2, <3>5, <6>2
        <5> QED
          BY <5>1, <5>2
      <4>2. ASSUME NEW k \in 1..i, ListOrder[k] = id PROVE k \in 1..(i - 1)
        BY <3>5, <4>2
      <4>3. Done(i)
        BY <3>3, <4>1, <4>2
      <4>4. i \in 0..n
        OBVIOUS
      <4> QED
        BY <4>3, <4>4
    <3> QED
      BY <3>4, <3>5
  <2> HIDE DEF Good, Done
  <2>3. \A i \in 0..n : i \in Good
    BY <1>1, <2>1, <2>2, UpTo
  <2>4. Done(n)
    BY <1>13, <2>3 DEF Good
  <2> QED
    BY <1>2, <1>13, <2>4 DEF Done
<1> QED
  BY <1>14, <1>15

\* replaceAll, second half: a removal for every project that is not listed.
LEMMA RetainedResult ==
  ASSUME NEW c, Sound(c), NEW directory \in Directory
  PROVE  /\ Keeps(Retained(c, directory), c)
         /\ \A id \in Ids : Retained(c, directory).value[id] =
                             IF directory[id] = Absent THEN Absent ELSE c.value[id]
<1> DEFINE n == Len(ListOrder)
           S == {d \in Collection : Keeps(d, c)}
           Down(x, i) == IF directory[ListOrder[i]] = Absent THEN Remove(x, ListOrder[i]) ELSE x
<1>1. n \in Nat /\ \A i \in 1..n : ListOrder[i] \in Ids
  <2>1. ListOrder \in Seq(Ids)
    BY DirectorySyncAssumption
  <2> QED
    BY <2>1, LenProperties, ElementOfSeq
<1>2. \A id \in Ids : \E i \in 1..n : ListOrder[i] = id
  <2>1. ListOrder \in Seq(Ids) /\ {ListOrder[i] : i \in DOMAIN ListOrder} = Ids
    BY DirectorySyncAssumption
  <2>2. DOMAIN ListOrder = 1..n
    BY <2>1, LenProperties
  <2> QED
    BY <2>1, <2>2
<1>3. \A id \in Ids : directory[id] = Absent \/ directory[id] \in Values
  BY DEF Directory
<1>4. c \in S
  BY KeepsItself DEF Sound
<1> HIDE DEF n
<1>5. ASSUME NEW x \in S, NEW i \in 1..n PROVE Down(x, i) \in S
  <2>1. CASE directory[ListOrder[i]] # Absent
    BY <2>1
  <2>2. CASE directory[ListOrder[i]] = Absent
    <3>1. Sound(x) /\ Keeps(x, c)
      BY DEF Keeps
    <3>2. ListOrder[i] \in Ids
      BY <1>1
    <3> DEFINE y == Remove(x, ListOrder[i])
    <3>3. Follows(y, x)
      BY <3>1, <3>2, RemoveFollows
    <3> HIDE DEF y
    <3>4. Keeps(y, c)
      BY <3>1, <3>3, FollowsKeeps, KeepsAlong
    <3>5. y \in Collection
      BY <3>4 DEF Keeps, Sound
    <3> QED
      BY <2>2, <3>4, <3>5 DEF y
  <2> QED
    BY <2>1, <2>2
<1> DEFINE take == [x \in S \X (1..n) |-> Down(x[1], x[2])]
<1>6. take \in [S \X (1..n) -> S]
  <2> HIDE DEF S, Down
  <2> QED
    BY <1>5
<1>7. PICK f : f \in [0..n -> S] /\ f[0] = c /\ \A i \in 1..n : f[i] = take[<<f[i - 1], i>>]
  <2> HIDE DEF S, take
  <2>1. \E f : Runs(f, S, c, n, take)
    BY <1>1, <1>4, <1>6, Iteration
  <2> QED
    BY <2>1 DEF Runs
<1>8. ASSUME NEW i \in 1..n PROVE i - 1 \in 0..n /\ f[i - 1] \in S /\ f[i] = Down(f[i - 1], i)
  <2> HIDE DEF S, Down
  <2>1. i - 1 \in 0..n
    BY <1>1
  <2>2. f[i - 1] \in S
    BY <1>7, <2>1
  <2> QED
    BY <1>7, <2>1, <2>2
<1>9. f = [i \in 0..n |-> IF i = 0 THEN c ELSE Down(f[i - 1], i)]
  <2> HIDE DEF S, Down
  <2>1. ASSUME NEW i \in 0..n PROVE f[i] = IF i = 0 THEN c ELSE Down(f[i - 1], i)
    <3>1. CASE i = 0
      BY <1>7, <3>1
    <3>2. CASE i # 0
      <4>1. i \in 1..n
        BY <1>1, <3>2
      <4> QED
        BY <1>8, <3>2, <4>1
    <3> QED
      BY <3>1, <3>2
  <2> QED
    BY <1>7, <2>1
<1>10. PICK g : /\ g = [i \in 0..n |-> IF i = 0 THEN c ELSE Down(g[i - 1], i)]
                /\ Retained(c, directory) = g[n]
  BY <1>9 DEF Retained, n
<1>11. \A i \in 0..n : g[i] = IF i = 0 THEN c ELSE Down(g[i - 1], i)
  <2> HIDE DEF Down
  <2> DEFINE h == [i \in 0..n |-> IF i = 0 THEN c ELSE Down(g[i - 1], i)]
  <2>1. \A i \in 0..n : h[i] = IF i = 0 THEN c ELSE Down(g[i - 1], i)
    OBVIOUS
  <2>2. g = h
    BY <1>10
  <2> HIDE DEF h
  <2> QED
    BY <2>1, <2>2
<1>12. \A i \in 0..n : g[i] = f[i]
  <2> HIDE DEF S, Down, take
  <2> DEFINE Good == {i \in 0..n : g[i] = f[i]}
  <2>1. 0 \in Good
    BY <1>1, <1>7, <1>11
  <2>2. ASSUME NEW i \in 1..n, i - 1 \in Good PROVE i \in Good
    <3>1. i \in 0..n /\ i # 0 /\ g[i - 1] = f[i - 1]
      BY <1>1, <2>2
    <3> QED
      BY <1>8, <1>11, <3>1
  <2> HIDE DEF Good
  <2>3. \A i \in 0..n : i \in Good
    BY <1>1, <2>1, <2>2, UpTo
  <2> QED
    BY <2>3 DEF Good
<1>13. n \in 0..n /\ f[n] = Retained(c, directory)
  BY <1>1, <1>10, <1>12
<1>14. Keeps(Retained(c, directory), c)
  BY <1>7, <1>13
\* The rows removed so far stay removed.
<1>15. ASSUME NEW id \in Ids
       PROVE  Retained(c, directory).value[id] =
                IF directory[id] = Absent THEN Absent ELSE c.value[id]
  <2> DEFINE Done(i) ==
               f[i].value[id] =
                 IF directory[id] = Absent /\ \E k \in 1..i : ListOrder[k] = id THEN Absent
                 ELSE c.value[id]
             Good == {i \in 0..n : Done(i)}
  <2>1. 0 \in Good
    BY <1>1, <1>7
  <2>2. ASSUME NEW i \in 1..n, i - 1 \in Good PROVE i \in Good
    <3>1. Sound(f[i - 1]) /\ f[i] = Down(f[i - 1], i)
      BY <1>8 DEF Keeps
    <3>2. f[i - 1].value \in [Ids -> Values \cup {Absent}]
      BY <3>1 DEF Sound, Collection, Directory
    <3>3. Done(i - 1)
      BY <2>2
    <3>4. i \in 0..n /\ ListOrder[i] \in Ids
      BY <1>1
    <3>5. CASE directory[ListOrder[i]] = Absent
      <4>1. f[i].value = [f[i - 1].value EXCEPT ![ListOrder[i]] = Absent]
        BY <3>1, <3>4, <3>5, RemoveValue
      <4>2. CASE ListOrder[i] = id
        <5>1. f[i].value[id] = Absent
          BY <3>2, <4>1, <4>2
        <5>2. Done(i)
          BY <3>5, <4>2, <5>1
        <5> QED
          BY <3>4, <5>2
      <4>3. CASE ListOrder[i] # id
        <5>1. f[i].value[id] = f[i - 1].value[id]
          BY <3>2, <4>1, <4>3
        <5>2. \A k \in 1..i : ListOrder[k] = id => k \in 1..(i - 1)
          BY <4>3
        <5>3. \A k \in 1..(i - 1) : k \in 1..i
          OBVIOUS
        <5>4. Done(i)
          BY <3>3, <5>1, <5>2, <5>3
        <5> QED
          BY <3>4, <5>4
      <4> QED
        BY <4>2, <4>3
    <3>6. CASE directory[ListOrder[i]] # Absent
      <4>1. f[i] = f[i - 1]
        BY <3>1, <3>6
      <4>2. directory[id] = Absent =>
              \A k \in 1..i : ListOrder[k] = id => k \in 1..(i - 1)
        BY <3>6
      <4>3. \A k \in 1..(i - 1) : k \in 1..i
        OBVIOUS
      <4>4. Done(i)
        BY <3>3, <4>1, <4>2, <4>3
      <4> QED
        BY <3>4, <4>4
    <3> QED
      BY <3>5, <3>6
  <2> HIDE DEF Good, Done
  <2>3. \A i \in 0..n : i \in Good
    BY <1>1, <2>1, <2>2, UpTo
  <2>4. Done(n)
    BY <1>13, <2>3 DEF Good
  <2> QED
    BY <1>2, <1>13, <2>4 DEF Done
<1> QED
  BY <1>14, <1>15

\* replaceAll: any number of changes, after which the collection is the list.
LEMMA ReplaceAllResult ==
  ASSUME NEW c, Sound(c), NEW directory \in Directory
  PROVE  /\ Keeps(ReplaceAll(c, directory), c)
         /\ ReplaceAll(c, directory).value = directory
<1> DEFINE d == Upserted(c, directory)
           e == Retained(d, directory)
<1>1. /\ Keeps(d, c)
      /\ \A id \in Ids : directory[id] # Absent => d.value[id] = directory[id]
  BY UpsertedResult
<1> HIDE DEF d
<1>2. Sound(d)
  BY <1>1 DEF Keeps
<1>3. /\ Keeps(e, d)
      /\ \A id \in Ids : e.value[id] = IF directory[id] = Absent THEN Absent ELSE d.value[id]
  BY <1>2, RetainedResult
<1> HIDE DEF e
<1>4. ReplaceAll(c, directory) = e
  BY DEF ReplaceAll, d, e
<1>5. Keeps(e, c)
  BY <1>1, <1>3, KeepsAlong
<1>6. e.value \in [Ids -> Values \cup {Absent}] /\ directory \in [Ids -> Values \cup {Absent}]
  BY <1>3 DEF Keeps, Sound, Collection, Directory
<1>7. e.value = directory
  BY <1>1, <1>3, <1>6
<1> QED
  BY <1>4, <1>5, <1>7

-----------------------------------------------------------------------------
(* Rows and cursors of an app.                                             *)

LEMMA PatchRows ==
  ASSUME NEW rows \in Directory, NEW delta \in Delta
  PROVE  /\ Patch(rows, delta) \in Directory
         /\ \A id \in Ids : Patch(rows, delta)[id] = IF id = delta.id THEN delta.value ELSE rows[id]
BY DEF Patch, Directory, Delta

\* The rows after each of the deltas.
LEMMA PatchRun ==
  ASSUME NEW rows \in Directory, NEW deltas \in Seq(Delta)
  PROVE  \E f \in [0..Len(deltas) -> Directory] :
           /\ f[0] = rows
           /\ \A i \in 1..Len(deltas) : f[i] = Patch(f[i - 1], deltas[i])
           /\ PatchAll(rows, deltas) = f[Len(deltas)]
<1> DEFINE n == Len(deltas)
           S == Directory
           Up(x, i) == Patch(x, deltas[i])
<1>1. n \in Nat /\ \A i \in 1..n : deltas[i] \in Delta
  BY LenProperties, ElementOfSeq
<1> HIDE DEF n
<1>0. rows \in S
  OBVIOUS
<1>2. ASSUME NEW x \in S, NEW i \in 1..n PROVE Up(x, i) \in S
  BY <1>1, PatchRows
<1> DEFINE take == [x \in S \X (1..n) |-> Up(x[1], x[2])]
<1>3. take \in [S \X (1..n) -> S]
  <2> HIDE DEF S, Up
  <2> QED
    BY <1>2
<1>4. PICK f : f \in [0..n -> S] /\ f[0] = rows /\ \A i \in 1..n : f[i] = take[<<f[i - 1], i>>]
  <2> HIDE DEF S, take
  <2>1. \E f : Runs(f, S, rows, n, take)
    BY <1>0, <1>1, <1>3, Iteration
  <2> QED
    BY <2>1 DEF Runs
<1>5. ASSUME NEW i \in 1..n
      PROVE  i - 1 \in 0..n /\ f[i - 1] \in S /\ f[i] = Up(f[i - 1], i)
  <2> HIDE DEF S, Up
  <2>1. i - 1 \in 0..n
    BY <1>1
  <2>2. f[i - 1] \in S
    BY <1>4, <2>1
  <2> QED
    BY <1>4, <2>1, <2>2
<1>6. f = [i \in 0..n |-> IF i = 0 THEN rows ELSE Up(f[i - 1], i)]
  <2> HIDE DEF S, Up
  <2>1. ASSUME NEW i \in 0..n PROVE f[i] = IF i = 0 THEN rows ELSE Up(f[i - 1], i)
    <3>1. CASE i = 0
      BY <1>4, <3>1
    <3>2. CASE i # 0
      <4>1. i \in 1..n
        BY <1>1, <3>2
      <4> QED
        BY <1>5, <3>2, <4>1
    <3> QED
      BY <3>1, <3>2
  <2> QED
    BY <1>4, <2>1
<1>7. PICK g : /\ g = [i \in 0..n |-> IF i = 0 THEN rows ELSE Up(g[i - 1], i)]
               /\ PatchAll(rows, deltas) = g[n]
  BY <1>6 DEF PatchAll, n
<1>8. \A i \in 0..n : g[i] = IF i = 0 THEN rows ELSE Up(g[i - 1], i)
  <2> HIDE DEF S, Up
  <2> DEFINE h == [i \in 0..n |-> IF i = 0 THEN rows ELSE Up(g[i - 1], i)]
  <2>1. \A i \in 0..n : h[i] = IF i = 0 THEN rows ELSE Up(g[i - 1], i)
    OBVIOUS
  <2>2. g = h
    BY <1>7
  <2> HIDE DEF h
  <2> QED
    BY <2>1, <2>2
<1>9. \A i \in 0..n : g[i] = f[i]
  <2> HIDE DEF S, Up, take
  <2> DEFINE Good == {i \in 0..n : g[i] = f[i]}
  <2>1. 0 \in Good
    BY <1>1, <1>4, <1>8
  <2>2. ASSUME NEW i \in 1..n, i - 1 \in Good PROVE i \in Good
    <3>1. i \in 0..n /\ i # 0 /\ g[i - 1] = f[i - 1]
      BY <1>1, <2>2
    <3> QED
      BY <1>5, <1>8, <3>1
  <2> HIDE DEF Good
  <2>3. \A i \in 0..n : i \in Good
    BY <1>1, <2>1, <2>2, UpTo
  <2> QED
    BY <2>3 DEF Good
<1>10. n \in 0..n /\ f[n] = PatchAll(rows, deltas)
  BY <1>1, <1>7, <1>9
<1> QED
  BY <1>4, <1>5, <1>10 DEF n

\* A cursor that the daemon of generation gen gave, or an earlier daemon.
Within(cur, gen, head) == cur.gen <= gen /\ (cur.gen = gen => cur.seq <= head)

LEMMA NoteWithin ==
  ASSUME NEW gen \in Nat, NEW head \in Nat, NEW cur \in Cursor, Within(cur, gen, head),
         NEW delta \in Delta, delta.gen = gen, delta.seq <= head
  PROVE  NoteCursor(cur, delta) \in Cursor /\ Within(NoteCursor(cur, delta), gen, head)
BY DEF NoteCursor, WriteCursor, Within, Cursor, Delta

\* Deltas of this daemon move the cursor to a number that it handed out.
LEMMA NoteAllWithin ==
  ASSUME NEW gen \in Nat, NEW head \in Nat, NEW old \in Cursor, Within(old, gen, head),
         NEW deltas \in Seq(Delta),
         \A i \in 1..Len(deltas) : deltas[i].gen = gen /\ deltas[i].seq <= head
  PROVE  NoteAll(old, deltas) \in Cursor /\ Within(NoteAll(old, deltas), gen, head)
<1> DEFINE n == Len(deltas)
           S == {cur \in Cursor : Within(cur, gen, head)}
           Up(x, i) == NoteCursor(x, deltas[i])
<1>1. n \in Nat /\ \A i \in 1..n : deltas[i] \in Delta
  BY LenProperties, ElementOfSeq
<1> HIDE DEF n
<1>0. old \in S
  OBVIOUS
<1>2. ASSUME NEW x \in S, NEW i \in 1..n PROVE Up(x, i) \in S
  BY <1>1, NoteWithin DEF n
<1> DEFINE take == [x \in S \X (1..n) |-> Up(x[1], x[2])]
<1>3. take \in [S \X (1..n) -> S]
  <2> HIDE DEF S, Up
  <2> QED
    BY <1>2
<1>4. PICK f : f \in [0..n -> S] /\ f[0] = old /\ \A i \in 1..n : f[i] = take[<<f[i - 1], i>>]
  <2> HIDE DEF S, take
  <2>1. \E f : Runs(f, S, old, n, take)
    BY <1>0, <1>1, <1>3, Iteration
  <2> QED
    BY <2>1 DEF Runs
<1>5. ASSUME NEW i \in 1..n
      PROVE  i - 1 \in 0..n /\ f[i - 1] \in S /\ f[i] = Up(f[i - 1], i)
  <2> HIDE DEF S, Up
  <2>1. i - 1 \in 0..n
    BY <1>1
  <2>2. f[i - 1] \in S
    BY <1>4, <2>1
  <2> QED
    BY <1>4, <2>1, <2>2
<1>6. f = [i \in 0..n |-> IF i = 0 THEN old ELSE Up(f[i - 1], i)]
  <2> HIDE DEF S, Up
  <2>1. ASSUME NEW i \in 0..n PROVE f[i] = IF i = 0 THEN old ELSE Up(f[i - 1], i)
    <3>1. CASE i = 0
      BY <1>4, <3>1
    <3>2. CASE i # 0
      <4>1. i \in 1..n
        BY <1>1, <3>2
      <4> QED
        BY <1>5, <3>2, <4>1
    <3> QED
      BY <3>1, <3>2
  <2> QED
    BY <1>4, <2>1
<1>7. PICK g : /\ g = [i \in 0..n |-> IF i = 0 THEN old ELSE Up(g[i - 1], i)]
               /\ NoteAll(old, deltas) = g[n]
  BY <1>6 DEF NoteAll, n
<1>8. \A i \in 0..n : g[i] = IF i = 0 THEN old ELSE Up(g[i - 1], i)
  <2> HIDE DEF S, Up
  <2> DEFINE h == [i \in 0..n |-> IF i = 0 THEN old ELSE Up(g[i - 1], i)]
  <2>1. \A i \in 0..n : h[i] = IF i = 0 THEN old ELSE Up(g[i - 1], i)
    OBVIOUS
  <2>2. g = h
    BY <1>7
  <2> HIDE DEF h
  <2> QED
    BY <2>1, <2>2
<1>9. \A i \in 0..n : g[i] = f[i]
  <2> HIDE DEF S, Up, take
  <2> DEFINE Good == {i \in 0..n : g[i] = f[i]}
  <2>1. 0 \in Good
    BY <1>1, <1>4, <1>8
  <2>2. ASSUME NEW i \in 1..n, i - 1 \in Good PROVE i \in Good
    <3>1. i \in 0..n /\ i # 0 /\ g[i - 1] = f[i - 1]
      BY <1>1, <2>2
    <3> QED
      BY <1>5, <1>8, <3>1
  <2> HIDE DEF Good
  <2>3. \A i \in 0..n : i \in Good
    BY <1>1, <2>1, <2>2, UpTo
  <2> QED
    BY <2>3 DEF Good
<1>10. n \in 0..n /\ f[n] = NoteAll(old, deltas)
  BY <1>1, <1>7, <1>9
<1> QED
  BY <1>1, <1>4, <1>10

LEMMA PatchNothing ==
  ASSUME NEW rows \in Directory
  PROVE  PatchAll(rows, <<>>) = rows
<1> DEFINE none == <<>>
<1>1. none \in Seq(Delta) /\ Len(none) = 0
  OBVIOUS
<1> HIDE DEF none
<1>2. PICK f \in [0..Len(none) -> Directory] :
        f[0] = rows /\ PatchAll(rows, none) = f[Len(none)]
  BY <1>1, PatchRun
<1> QED
  BY <1>1, <1>2 DEF none

\* One more delta.
LEMMA PatchOneMore ==
  ASSUME NEW rows \in Directory, NEW deltas \in Seq(Delta), NEW delta \in Delta
  PROVE  PatchAll(rows, Append(deltas, delta)) = Patch(PatchAll(rows, deltas), delta)
<1> DEFINE n == Len(deltas)
           more == Append(deltas, delta)
<1>1. /\ more \in Seq(Delta) /\ n \in Nat /\ Len(more) = n + 1
      /\ \A i \in 1..n : more[i] = deltas[i]
      /\ more[n + 1] = delta
  BY AppendProperties, LenProperties
<1> HIDE DEF more
<1>2. PICK f \in [0..n -> Directory] :
        /\ f[0] = rows
        /\ \A i \in 1..n : f[i] = Patch(f[i - 1], deltas[i])
        /\ PatchAll(rows, deltas) = f[n]
  BY PatchRun
<1>3. PICK g \in [0..Len(more) -> Directory] :
        /\ g[0] = rows
        /\ \A i \in 1..Len(more) : g[i] = Patch(g[i - 1], more[i])
        /\ PatchAll(rows, more) = g[Len(more)]
  BY <1>1, PatchRun
<1> HIDE DEF n
<1>4. \A i \in 0..n : g[i] = f[i]
  <2> DEFINE Good == {i \in 0..n : g[i] = f[i]}
  <2>1. 0 \in Good
    BY <1>1, <1>2, <1>3
  <2>2. ASSUME NEW i \in 1..n, i - 1 \in Good PROVE i \in Good
    <3>1. i \in 0..n /\ i \in 1..Len(more) /\ g[i - 1] = f[i - 1]
      BY <1>1, <2>2
    <3> QED
      BY <1>1, <1>2, <1>3, <3>1
  <2> HIDE DEF Good
  <2>3. \A i \in 0..n : i \in Good
    BY <1>1, <2>1, <2>2, UpTo
  <2> QED
    BY <2>3 DEF Good
<1>5. n + 1 \in 1..Len(more) /\ (n + 1) - 1 = n /\ n \in 0..n
  BY <1>1
<1>6. g[n + 1] = Patch(f[n], delta)
  BY <1>1, <1>3, <1>4, <1>5
<1> QED
  BY <1>1, <1>2, <1>3, <1>6 DEF more

\* A row is what the last delta on it says, or what it was.
LEMMA PatchAllValue ==
  ASSUME NEW rows \in Directory, NEW deltas \in Seq(Delta)
  PROVE  /\ PatchAll(rows, deltas) \in Directory
         /\ \A id \in Ids :
              \/ /\ \A i \in 1..Len(deltas) : deltas[i].id # id
                 /\ PatchAll(rows, deltas)[id] = rows[id]
              \/ \E i \in 1..Len(deltas) :
                   /\ deltas[i].id = id
                   /\ \A k \in 1..Len(deltas) : k > i => deltas[k].id # id
                   /\ PatchAll(rows, deltas)[id] = deltas[i].value
<1> DEFINE n == Len(deltas)
<1>1. n \in Nat /\ \A i \in 1..n : deltas[i] \in Delta
  BY LenProperties, ElementOfSeq
<1>2. PICK f \in [0..n -> Directory] :
        /\ f[0] = rows
        /\ \A i \in 1..n : f[i] = Patch(f[i - 1], deltas[i])
        /\ PatchAll(rows, deltas) = f[n]
  BY PatchRun
<1> HIDE DEF n
<1>3. ASSUME NEW id \in Ids
      PROVE  \/ (\A i \in 1..n : deltas[i].id # id) /\ f[n][id] = rows[id]
             \/ \E i \in 1..n : /\ deltas[i].id = id
                                /\ \A k \in 1..n : k > i => deltas[k].id # id
                                /\ f[n][id] = deltas[i].value
  <2> DEFINE Untouched(m) == (\A i \in 1..m : deltas[i].id # id) /\ f[m][id] = rows[id]
             Last(m, i) == /\ deltas[i].id = id
                           /\ \A k \in 1..m : k > i => deltas[k].id # id
                           /\ f[m][id] = deltas[i].value
             Good == {m \in 0..n : Untouched(m) \/ \E i \in 1..m : Last(m, i)}
  <2>1. 0 \in Good
    BY <1>1, <1>2
  <2>2. ASSUME NEW m \in 1..n, m - 1 \in Good PROVE m \in Good
    <3>1. m \in 0..n /\ m - 1 \in 0..n /\ deltas[m] \in Delta
      BY <1>1
    <3>2. \A other \in Ids : f[m][other] = IF other = deltas[m].id THEN deltas[m].value
                                           ELSE f[m - 1][other]
      <4>1. f[m - 1] \in Directory /\ f[m] = Patch(f[m - 1], deltas[m])
        BY <1>2, <3>1
      <4> DEFINE before == f[m - 1]
                 delta == deltas[m]
      <4>2. before \in Directory /\ delta \in Delta
        BY <3>1, <4>1
      <4> HIDE DEF before, delta
      <4>3. \A other \in Ids :
              Patch(before, delta)[other] = IF other = delta.id THEN delta.value ELSE before[other]
        BY <4>2, PatchRows
      <4> QED
        BY <4>1, <4>3 DEF before, delta
    <3>3. CASE deltas[m].id = id
      <4>1. f[m][id] = deltas[m].value
        BY <3>2, <3>3
      <4>2. Last(m, m) /\ m \in 1..m
        BY <3>3, <4>1
      <4> QED
        BY <3>1, <4>2
    <3>4. CASE deltas[m].id # id
      <4>1. f[m][id] = f[m - 1][id]
        BY <3>2, <3>4
      <4>2. \A k \in 1..m : k = m \/ k \in 1..(m - 1)
        OBVIOUS
      <4>3. CASE Untouched(m - 1)
        <5>1. Untouched(m)
          BY <3>4, <4>1, <4>2, <4>3
        <5> QED
          BY <3>1, <5>1
      <4>4. CASE \E i \in 1..(m - 1) : Last(m - 1, i)
        <5>1. PICK i \in 1..(m - 1) : Last(m - 1, i)
          BY <4>4
        <5>2. Last(m, i) /\ i \in 1..m
          BY <3>4, <4>1, <4>2, <5>1
        <5> QED
          BY <3>1, <5>2
      <4> QED
        BY <2>2, <4>3, <4>4
    <3> QED
      BY <3>3, <3>4
  <2> HIDE DEF Good
  <2>3. \A m \in 0..n : m \in Good
    BY <1>1, <2>1, <2>2, UpTo
  <2>4. n \in Good
    BY <1>1, <2>3
  <2> QED
    BY <2>4 DEF Good
<1>4. n \in 0..n
  BY <1>1
<1>5. PatchAll(rows, deltas) \in Directory
  BY <1>2, <1>4
<1> QED
  BY <1>2, <1>3, <1>5 DEF n

\* rows agree with collection c on everything up to cursor cur, as far as a
\* daemon of generation gen would answer it with changes.
Knows(rows, cur, c, gen) ==
  cur.gen = gen /\ c.expired <= cur.seq =>
    \A id \in Ids : c.seq[id] <= cur.seq => rows[id] = c.value[id]

LEMMA KnowsLater ==
  ASSUME NEW c, Sound(c), NEW d, Keeps(d, c), NEW gen, NEW rows,
         NEW cur \in Cursor, Within(cur, gen, c.head), Knows(rows, cur, c, gen)
  PROVE  Knows(rows, cur, d, gen)
<1> SUFFICES ASSUME cur.gen = gen, d.expired <= cur.seq, NEW id \in Ids, d.seq[id] <= cur.seq
             PROVE  rows[id] = d.value[id]
  BY DEF Knows
<1>1. /\ c.expired \in Nat /\ d.expired \in Nat /\ c.head \in Nat /\ cur.seq \in Nat
      /\ c.expired <= d.expired /\ cur.seq <= c.head
  BY DEF Keeps, Sound, Collection, Within, Cursor
<1>2. cur.seq \in d.expired..c.head
  BY <1>1
<1>3. c.seq[id] <= cur.seq /\ d.value[id] = c.value[id]
  BY <1>2 DEF Keeps
<1> QED
  BY <1>1, <1>3 DEF Knows

\* A delta that says what the collection says.
LEMMA KnowsDelta ==
  ASSUME NEW c, NEW gen, NEW cur, NEW rows \in Directory, Knows(rows, cur, c, gen),
         NEW delta \in Delta, delta.value = c.value[delta.id]
  PROVE  Knows(Patch(rows, delta), cur, c, gen)
<1>1. \A id \in Ids : Patch(rows, delta)[id] = IF id = delta.id THEN delta.value ELSE rows[id]
  BY PatchRows
<1> QED
  BY <1>1 DEF Knows

\* The answer to a cursor brings rows that know the collection up to date.
LEMMA ReadExact ==
  ASSUME NEW c, Sound(c), NEW rows \in Directory, NEW cur \in Cursor,
         Knows(rows, cur, c, generation)
  PROVE  Apply(rows, Read(c, cur)) = c.value
<1>1. /\ c.expired \in Nat /\ c.head \in Nat /\ c.seq \in [Ids -> Nat] /\ cur.seq \in Nat
      /\ c.value \in [Ids -> Values \cup {Absent}] /\ rows \in [Ids -> Values \cup {Absent}]
  BY DEF Sound, Collection, Directory, Cursor
<1>2. CASE Read(c, cur) = ReadSnapshot(c)
  BY <1>1, <1>2 DEF Apply, ReadSnapshot
<1>3. CASE Read(c, cur) # ReadSnapshot(c)
  <2>1. /\ cur.gen = generation
        /\ ~(cur.seq < c.expired)
        /\ Read(c, cur).touched = {id \in Ids : c.seq[id] > cur.seq}
        /\ Read(c, cur).value = c.value
    BY <1>3 DEF Read, ReadAfter
  <2>2. \A id \in Ids : c.seq[id] <= cur.seq => rows[id] = c.value[id]
    BY <1>1, <2>1 DEF Knows
  <2> QED
    BY <1>1, <2>1, <2>2 DEF Apply
<1> QED
  BY <1>2, <1>3

LEMMA ReadAnswer ==
  ASSUME NEW c, Sound(c), NEW cur
  PROVE  /\ Read(c, cur).mode \in {"snapshot", "changes"}
         /\ Read(c, cur).head = c.head
         /\ Read(c, cur).value = c.value
         /\ Read(c, cur).touched \subseteq Ids
         /\ Read(c, cur).mode = "snapshot" => Read(c, cur).touched = Ids
BY DEF Read, ReadAfter, ReadSnapshot

LEMMA ApplyRows ==
  ASSUME NEW rows \in Directory, NEW answer, answer.value \in Directory
  PROVE  Apply(rows, answer) \in Directory
BY DEF Apply, Directory

\* sequenceProjectUpdate: at most one change, after which the row is the update.
LEMMA SequenceResult ==
  ASSUME Sound(coll), NEW change \in Change
  PROVE  /\ Follows(Sequence(change), coll)
         /\ Sequence(change).value = [coll.value EXCEPT ![change.id] = change.value]
<1>1. change.id \in Ids /\ change.value \in Values \cup {Absent}
  BY DEF Change
<1>2. CASE change.value = Absent
  BY <1>1, <1>2, RemoveFollows, RemoveValue DEF Sequence
<1>3. CASE change.value # Absent
  BY <1>1, <1>3, ReplaceFollows, ReplaceValue DEF Sequence
<1> QED
  BY <1>2, <1>3

-----------------------------------------------------------------------------
(* Types and numbers.                                                      *)

Types ==
  /\ registry \in Directory
  /\ used \in [edits : Nat, faults : 0..MaxFaults, lists : Nat]
  /\ generation \in 1..(used.faults + 1)
  /\ Sound(coll)
  /\ updates \in [Sessions -> Seq(Change)]
  /\ request \in [Clients -> [phase : {"none", "sent", "listed"}, snapshot : Directory]]
  /\ abandoned \subseteq Directory
  /\ wire \in [Clients -> Seq(Message)]
  /\ online \in [Clients -> BOOLEAN]
  /\ replica \in [Clients -> Directory]
  /\ cursor \in [Clients -> Cursor]
  /\ transaction \in [Clients -> [open : BOOLEAN, deltas : Seq(Delta)]]
  /\ standing \in [Clients -> {"sound", "replayed", "torn"}]
  /\ link \in [Clients -> {"fresh", "late", "covered"}]

\* Of the running daemon, with numbers that it handed out.
Numbered(m, gen, head) ==
  /\ m.kind # "late" => m.gen = gen
  /\ m.kind = "delta" => m.seq <= head
  /\ m.kind = "answer" => m.head <= head

\* What an app holds and what is on its way to it is of the running daemon; only
\* the cursor may be of an earlier one.
Numbers(c) ==
  /\ Within(cursor[c], generation, coll.head)
  /\ \A i \in 1..Len(transaction[c].deltas) : Numbered(transaction[c].deltas[i], generation, coll.head)
  /\ \A i \in 1..Len(wire[c]) : Numbered(wire[c][i], generation, coll.head)

TypesInv == Types /\ \A c \in Clients : Numbers(c)

LEMMA TypesGiveTypeOK == TypesInv => TypeOK
<1> SUFFICES ASSUME TypesInv PROVE TypeOK
  OBVIOUS
<1>1. MaxFaults \in Nat
  BY DirectorySyncAssumption
<1>2. generation \in 1..(MaxFaults + 1)
  BY <1>1 DEF TypesInv, Types
<1>3. coll \in Collection /\ coll.expired <= coll.head
  BY DEF TypesInv, Types, Sound
<1>4. abandoned \subseteq Directory /\ updates \in [Sessions -> Seq(Change)]
  BY DEF TypesInv, Types
<1>5. ASSUME NEW c \in Clients
      PROVE  /\ request[c] \in [phase : {"none", "sent", "listed"}, snapshot : Directory]
             /\ wire[c] \in Seq(Message)
             /\ transaction[c].open \in BOOLEAN
             /\ transaction[c].deltas \in Seq(Delta)
             /\ cursor[c].gen <= generation
             /\ cursor[c].gen = generation => cursor[c].seq <= coll.head
  <2>1. wire[c] \in Seq(Message)
    BY DEF TypesInv, Types
  <2>4. request[c] \in [phase : {"none", "sent", "listed"}, snapshot : Directory]
    BY DEF TypesInv, Types
  <2>5. transaction[c] \in [open : BOOLEAN, deltas : Seq(Delta)]
    BY DEF TypesInv, Types
  <2>6. Within(cursor[c], generation, coll.head)
    BY DEF TypesInv, Numbers
  <2> QED
    BY <2>1, <2>4, <2>5, <2>6 DEF Within
<1> QED
  BY <1>2, <1>3, <1>4, <1>5 DEF TypesInv, Types, TypeOK

LEMMA EmptyRows == Empty \in Directory /\ NoRequest.snapshot \in Directory
BY DEF Empty, NoRequest, Directory

LEMMA EmptySound == Sound(EmptyCollection)
<1>1. EmptyCollection \in Collection
  BY DEF EmptyCollection, Collection, Directory
<1> QED
  BY <1>1 DEF Sound, EmptyCollection

LEMMA NoTransactionType == NoTransaction \in [open : BOOLEAN, deltas : Seq(Delta)]
BY DEF NoTransaction

LEMMA NoRequestType == NoRequest \in [phase : {"none", "sent", "listed"}, snapshot : Directory]
BY EmptyRows DEF NoRequest

LEMMA CollNat ==
  ASSUME Types
  PROVE  coll.head \in Nat /\ generation \in Nat
BY DirectorySyncAssumption DEF Types, Sound, Collection

LEMMA InitTypes == Init => TypesInv
<1> SUFFICES ASSUME Init PROVE TypesInv
  OBVIOUS
<1>1. MaxFaults \in Nat
  BY DirectorySyncAssumption
<1>2. updates \in [Sessions -> Seq(Change)] /\ wire \in [Clients -> Seq(Message)]
  BY DEF Init
<1>3. request \in [Clients -> [phase : {"none", "sent", "listed"}, snapshot : Directory]]
  BY NoRequestType DEF Init
<1>4. transaction \in [Clients -> [open : BOOLEAN, deltas : Seq(Delta)]]
  BY NoTransactionType DEF Init
<1>5. replica \in [Clients -> Directory]
  BY EmptyRows DEF Init
<1>6. cursor \in [Clients -> Cursor] /\ online \in [Clients -> BOOLEAN]
      /\ standing \in [Clients -> {"sound", "replayed", "torn"}]
      /\ link \in [Clients -> {"fresh", "late", "covered"}]
  BY DEF Init, Cursor
<1>7. /\ used \in [edits : Nat, faults : 0..MaxFaults, lists : Nat]
      /\ generation \in 1..(used.faults + 1)
  BY <1>1 DEF Init, NoUse
<1>8. Types
  BY <1>2, <1>3, <1>4, <1>5, <1>6, <1>7, EmptySound DEF Init, Types
<1>9. ASSUME NEW c \in Clients PROVE Numbers(c)
  <2>1. cursor[c] = [gen |-> 0, seq |-> 0] /\ transaction[c].deltas = <<>> /\ wire[c] = <<>>
    BY DEF Init, NoTransaction
  <2>2. generation = 1
    BY DEF Init
  <2> QED
    BY <2>1, <2>2 DEF Numbers, Within
<1> QED
  BY <1>8, <1>9 DEF TypesInv

\* Numbers handed out stay handed out.
LEMMA NumbersLater ==
  ASSUME Types, Types', NEW c \in Clients, Numbers(c),
         coll.head <= coll'.head, generation' = generation,
         wire'[c] = wire[c], cursor'[c] = cursor[c], transaction'[c] = transaction[c]
  PROVE  Numbers(c)'
<1>1. coll.head \in Nat /\ coll'.head \in Nat
  BY DEF Types, Sound, Collection
<1>2. cursor[c] \in Cursor
  BY DEF Types
<1>3. Within(cursor[c], generation, coll'.head)
  BY <1>1, <1>2 DEF Numbers, Within, Cursor
<1>4. ASSUME NEW i \in 1..Len(wire[c]) PROVE Numbered(wire[c][i], generation, coll'.head)
  <2>1. wire[c] \in Seq(Message)
    BY DEF Types
  <2> DEFINE m == wire[c][i]
  <2>2. m \in Message /\ Numbered(m, generation, coll.head)
    BY <2>1, ElementOfSeq, LenProperties DEF Numbers
  <2> HIDE DEF m
  <2>3. Numbered(m, generation, coll'.head)
    BY <1>1, <2>2 DEF Numbered, Message, LateAnswer, Delta, Answer
  <2> QED
    BY <2>3 DEF m
<1>5. ASSUME NEW i \in 1..Len(transaction[c].deltas)
      PROVE  Numbered(transaction[c].deltas[i], generation, coll'.head)
  <2>1. transaction[c].deltas \in Seq(Delta)
    BY DEF Types
  <2> DEFINE m == transaction[c].deltas[i]
  <2>2. m \in Delta /\ Numbered(m, generation, coll.head)
    BY <2>1, ElementOfSeq, LenProperties DEF Numbers
  <2> HIDE DEF m
  <2>3. Numbered(m, generation, coll'.head)
    BY <1>1, <2>2 DEF Numbered, Delta
  <2> QED
    BY <2>3 DEF m
<1> QED
  BY <1>3, <1>4, <1>5 DEF Numbers

\* A message more.
LEMMA NumbersSent ==
  ASSUME Types, Types', NEW c \in Clients, Numbers(c), NEW m \in Message,
         coll.head <= coll'.head, generation' = generation,
         wire'[c] = Append(wire[c], m), Numbered(m, generation, coll'.head),
         cursor'[c] = cursor[c], transaction'[c] = transaction[c]
  PROVE  Numbers(c)'
<1>1. coll.head \in Nat /\ coll'.head \in Nat /\ wire[c] \in Seq(Message)
  BY DEF Types, Sound, Collection
<1>2. cursor[c] \in Cursor
  BY DEF Types
<1>3. Within(cursor[c], generation, coll'.head)
  BY <1>1, <1>2 DEF Numbers, Within, Cursor
<1> DEFINE n == Len(wire[c])
           longer == Append(wire[c], m)
<1>4. /\ n \in Nat /\ Len(longer) = n + 1 /\ longer[n + 1] = m
      /\ \A i \in 1..n : longer[i] = wire[c][i]
  BY <1>1, AppendProperties, LenProperties
<1> HIDE DEF longer
<1>5. ASSUME NEW i \in 1..n PROVE Numbered(wire[c][i], generation, coll'.head)
  <2> DEFINE k == wire[c][i]
  <2>1. k \in Message /\ Numbered(k, generation, coll.head)
    BY <1>1, ElementOfSeq DEF Numbers
  <2> HIDE DEF k
  <2>2. Numbered(k, generation, coll'.head)
    BY <1>1, <2>1 DEF Numbered, Message, LateAnswer, Delta, Answer
  <2> QED
    BY <2>2 DEF k
<1>6. ASSUME NEW i \in 1..Len(longer) PROVE Numbered(longer[i], generation, coll'.head)
  <2> HIDE DEF n
  <2>1. CASE i = n + 1
    BY <1>4, <2>1
  <2>2. CASE i # n + 1
    <3>1. i \in 1..n
      BY <1>4, <2>2
    <3> QED
      BY <1>4, <1>5, <3>1
  <2> QED
    BY <2>1, <2>2
<1>7. ASSUME NEW i \in 1..Len(transaction[c].deltas)
      PROVE  Numbered(transaction[c].deltas[i], generation, coll'.head)
  <2>1. transaction[c].deltas \in Seq(Delta)
    BY DEF Types
  <2> DEFINE k == transaction[c].deltas[i]
  <2>2. k \in Delta /\ Numbered(k, generation, coll.head)
    BY <2>1, ElementOfSeq, LenProperties DEF Numbers
  <2> HIDE DEF k
  <2>3. Numbered(k, generation, coll'.head)
    BY <1>1, <2>2 DEF Numbered, Delta
  <2> QED
    BY <2>3 DEF k
<1> QED
  BY <1>3, <1>6, <1>7 DEF Numbers, longer

LEMMA Rest ==
  ASSUME NEW S, NEW s \in Seq(S), s # <<>>
  PROVE  /\ Tail(s) \in Seq(S) /\ Len(Tail(s)) = Len(s) - 1 /\ Len(s) \in Nat \ {0}
         /\ \A i \in 1..Len(Tail(s)) : Tail(s)[i] = s[i + 1]
         /\ Head(s) = s[1] /\ Head(s) \in S
BY HeadTailProperties, EmptySeq, LenProperties

LEMMA EditTypes ==
  ASSUME TypesInv, NEW id \in Ids, NEW v \in Values \cup {Absent}, Edit(id, v)
  PROVE  TypesInv'
<1>1. Types
  BY DEF TypesInv
<1>2. registry' \in Directory
  BY <1>1 DEF Edit, Types, Directory
<1>3. updates' \in [Sessions -> Seq(Change)]
  <2> DEFINE change == [id |-> id, value |-> v]
  <2>1. change \in Change
    BY DEF Change
  <2> HIDE DEF change
  <2>2. updates' = [s \in Sessions |->
                      IF Wants(s) THEN Append(updates[s], change) ELSE updates[s]]
    BY DEF Edit, change
  <2>3. ASSUME NEW c \in Sessions
        PROVE  updates[c] \in Seq(Change) /\ Append(updates[c], change) \in Seq(Change)
    <3>1. updates[c] \in Seq(Change)
      BY <1>1 DEF Types
    <3> QED
      BY <2>1, <3>1, AppendProperties
  <2> QED
    BY <2>2, <2>3
<1>4. used' \in [edits : Nat, faults : 0..MaxFaults, lists : Nat] /\ used'.faults = used.faults
  <2>1. used \in [edits : Nat, faults : 0..MaxFaults, lists : Nat]
    BY <1>1 DEF Types
  <2>2. used' = [used EXCEPT !.edits = used.edits + 1]
    BY DEF Edit
  <2> QED
    BY <2>1, <2>2
<1>5. Types'
  BY <1>1, <1>2, <1>3, <1>4 DEF Edit, Types, lists, app
<1>6. ASSUME NEW c \in Clients PROVE Numbers(c)'
  <2>1. Numbers(c)
    BY DEF TypesInv
  <2> QED
    BY <2>1 DEF Edit, Numbers, app
<1> QED
  BY <1>5, <1>6 DEF TypesInv

LEMMA PublishTypes ==
  ASSUME TypesInv, NEW c \in Clients, PublishUpdate(c)
  PROVE  /\ TypesInv'
         /\ Keeps(coll', coll)
         /\ coll' = Sequence(Head(updates[c]))
         /\ Head(updates[c]) \in Change
         /\ wire' = [wire EXCEPT ![c] = Append(@,
              [kind |-> "delta", id |-> Head(updates[c]).id, value |-> Head(updates[c]).value,
               gen |-> generation, seq |-> coll'.seq[Head(updates[c]).id]])]
<1>1. Types
  BY DEF TypesInv
<1>2. updates[c] \in Seq(Change) /\ updates[c] # <<>>
  BY <1>1 DEF PublishUpdate, Types, Sessions
<1> DEFINE change == Head(updates[c])
           m == [kind |-> "delta", id |-> change.id, value |-> change.value,
                 gen |-> generation, seq |-> coll'.seq[change.id]]
<1>3. change \in Change /\ Tail(updates[c]) \in Seq(Change)
  BY <1>2, Rest
<1>4. coll' = Sequence(change) /\ wire' = [wire EXCEPT ![c] = Append(@, m)]
  BY DEF PublishUpdate
<1> HIDE DEF change
<1>5. Keeps(coll', coll)
  BY <1>1, <1>3, <1>4, SequenceResult, FollowsKeeps DEF Types
<1>6. Sound(coll') /\ coll.head <= coll'.head
  BY <1>5 DEF Keeps
<1>7. coll'.seq[change.id] \in Nat /\ coll'.seq[change.id] <= coll'.head
  BY <1>3, <1>6 DEF Sound, Collection, Change
<1>8. m \in Delta /\ m \in Message /\ Numbered(m, generation, coll'.head)
  <2>1. generation \in Nat
    BY <1>1, CollNat
  <2> QED
    BY <1>3, <1>7, <2>1 DEF Delta, Change, Message, Numbered
<1> HIDE DEF m
<1>9. wire[c] \in Seq(Message)
  BY <1>1 DEF Types
<1>10. Append(wire[c], m) \in Seq(Message)
  BY <1>8, <1>9, AppendProperties
<1>11. wire' \in [Clients -> Seq(Message)]
  BY <1>1, <1>4, <1>10 DEF Types
<1>12. updates' \in [Sessions -> Seq(Change)]
  BY <1>1, <1>3 DEF PublishUpdate, Types, Sessions
<1>13. Types'
  BY <1>1, <1>6, <1>11, <1>12 DEF PublishUpdate, Types, lists, app
<1>14. generation' = generation /\ cursor' = cursor /\ transaction' = transaction
  BY DEF PublishUpdate, app
<1>15. ASSUME NEW d \in Clients PROVE Numbers(d)'
  <2>1. Numbers(d)
    BY DEF TypesInv
  <2>2. CASE d = c
    <3>1. wire'[d] = Append(wire[d], m)
      BY <1>1, <1>4, <2>2 DEF Types
    <3> QED
      BY <1>1, <1>6, <1>8, <1>13, <1>14, <2>1, <3>1, NumbersSent
  <2>3. CASE d # c
    <3>1. wire'[d] = wire[d]
      BY <1>1, <1>4, <2>3 DEF Types
    <3> QED
      BY <1>1, <1>6, <1>13, <1>14, <2>1, <3>1, NumbersLater
  <2> QED
    BY <2>2, <2>3
<1>16. TypesInv'
  BY <1>13, <1>15 DEF TypesInv
<1> QED
  BY <1>3, <1>4, <1>5, <1>16 DEF change, m

LEMMA SkipTypes ==
  ASSUME TypesInv, NEW c \in Clients, SkipUpdate(c)
  PROVE  TypesInv'
<1>1. Types
  BY DEF TypesInv
<1>2. updates[c] \in Seq(Change) /\ updates[c] # <<>>
  BY <1>1 DEF SkipUpdate, Types, Sessions
<1>3. Tail(updates[c]) \in Seq(Change)
  BY <1>2, Rest
<1>4. updates' \in [Sessions -> Seq(Change)]
  BY <1>1, <1>3 DEF SkipUpdate, Types, Sessions
<1>5. Types'
  BY <1>1, <1>4 DEF SkipUpdate, Types, daemon, lists, app
<1>6. ASSUME NEW d \in Clients PROVE Numbers(d)'
  <2>1. Numbers(d)
    BY DEF TypesInv
  <2> QED
    BY <2>1 DEF SkipUpdate, Numbers, daemon, app
<1> QED
  BY <1>5, <1>6 DEF TypesInv

LEMMA OtherTypes ==
  ASSUME TypesInv, NEW s \in Others, PublishOther(s)
  PROVE  /\ TypesInv'
         /\ Keeps(coll', coll)
<1>1. Types
  BY DEF TypesInv
<1>2. updates[s] \in Seq(Change) /\ updates[s] # <<>>
  BY <1>1 DEF PublishOther, Types, Sessions
<1> DEFINE change == Head(updates[s])
<1>3. change \in Change /\ Tail(updates[s]) \in Seq(Change)
  BY <1>2, Rest
<1>4. coll' = Sequence(change)
  BY DEF PublishOther
<1> HIDE DEF change
<1>5. Keeps(coll', coll)
  BY <1>1, <1>3, <1>4, SequenceResult, FollowsKeeps DEF Types
<1>6. Sound(coll') /\ coll.head <= coll'.head
  BY <1>5 DEF Keeps
<1>7. updates' \in [Sessions -> Seq(Change)]
  BY <1>1, <1>3 DEF PublishOther, Types, Sessions
<1>8. Types'
  BY <1>1, <1>6, <1>7 DEF PublishOther, Types, lists, app
<1>9. generation' = generation /\ wire' = wire /\ cursor' = cursor /\ transaction' = transaction
  BY DEF PublishOther, app
<1>10. ASSUME NEW d \in Clients PROVE Numbers(d)'
  <2>1. Numbers(d)
    BY DEF TypesInv
  <2> QED
    BY <1>1, <1>6, <1>8, <1>9, <2>1, NumbersLater
<1> QED
  BY <1>5, <1>8, <1>10 DEF TypesInv

LEMMA ListTypes ==
  ASSUME TypesInv, NEW c \in Clients, List(c)
  PROVE  TypesInv'
<1>1. Types
  BY DEF TypesInv
<1>2. request' \in [Clients -> [phase : {"none", "sent", "listed"}, snapshot : Directory]]
  <2>1. [phase |-> "listed", snapshot |-> registry]
          \in [phase : {"none", "sent", "listed"}, snapshot : Directory]
    BY <1>1 DEF Types
  <2> QED
    BY <1>1, <2>1 DEF List, Types
<1>3. Types'
  BY <1>1, <1>2 DEF List, Types, daemon, app
<1>4. ASSUME NEW d \in Clients PROVE Numbers(d)'
  <2>1. Numbers(d)
    BY DEF TypesInv
  <2> QED
    BY <2>1 DEF List, Numbers, daemon, app
<1> QED
  BY <1>3, <1>4 DEF TypesInv

LEMMA ListOtherTypes ==
  ASSUME TypesInv, ListOther
  PROVE  TypesInv'
<1>1. Types
  BY DEF TypesInv
<1>2. used' \in [edits : Nat, faults : 0..MaxFaults, lists : Nat] /\ used'.faults = used.faults
  <2>1. used \in [edits : Nat, faults : 0..MaxFaults, lists : Nat]
    BY <1>1 DEF Types
  <2>2. used' = [used EXCEPT !.lists = used.lists + 1]
    BY DEF ListOther
  <2> QED
    BY <2>1, <2>2
<1>3. Types'
  BY <1>1, <1>2 DEF ListOther, Types, daemon, app
<1>4. ASSUME NEW d \in Clients PROVE Numbers(d)'
  <2>1. Numbers(d)
    BY DEF TypesInv
  <2> QED
    BY <2>1 DEF ListOther, Numbers, daemon, app
<1> QED
  BY <1>3, <1>4 DEF TypesInv

LEMMA RefuseTypes ==
  ASSUME TypesInv, NEW c \in Clients, RefuseList(c)
  PROVE  TypesInv'
<1>1. Types
  BY DEF TypesInv
<1>2. request' \in [Clients -> [phase : {"none", "sent", "listed"}, snapshot : Directory]]
  BY <1>1, NoRequestType DEF RefuseList, Types
<1>3. Types'
  BY <1>1, <1>2 DEF RefuseList, Types, daemon, app
<1>4. ASSUME NEW d \in Clients PROVE Numbers(d)'
  <2>1. Numbers(d)
    BY DEF TypesInv
  <2> QED
    BY <2>1 DEF RefuseList, Numbers, daemon, app
<1> QED
  BY <1>3, <1>4 DEF TypesInv

\* The answer to the cursor of app c, from what replaceAll made of the collection.
Answered(c, d) ==
  [kind |-> "answer", mode |-> Read(d, cursor[c]).mode, gen |-> generation,
   head |-> Read(d, cursor[c]).head, touched |-> Read(d, cursor[c]).touched,
   value |-> Read(d, cursor[c]).value]

LEMMA SynchronizeTypes ==
  ASSUME TypesInv, NEW c \in Clients, Synchronize(c)
  PROVE  /\ TypesInv'
         /\ Keeps(coll', coll)
         /\ coll'.value = request[c].snapshot
         /\ wire' = [wire EXCEPT ![c] = Append(@, Answered(c, coll'))]
         /\ Answered(c, coll') \in Answer
<1>1. Types
  BY DEF TypesInv
<1>2. request[c].snapshot \in Directory
  BY <1>1 DEF Types
<1>3. coll' = ReplaceAll(coll, request[c].snapshot)
  BY DEF Synchronize
<1>4. Keeps(coll', coll) /\ coll'.value = request[c].snapshot
  BY <1>1, <1>2, <1>3, ReplaceAllResult DEF Types
<1>5. Sound(coll') /\ coll.head <= coll'.head
  BY <1>4 DEF Keeps
<1> DEFINE m == Answered(c, coll')
<1>6. wire' = [wire EXCEPT ![c] = Append(@, m)]
  BY DEF Synchronize, Answered
<1>7. m \in Answer /\ m \in Message /\ Numbered(m, generation, coll'.head)
  <2>1. /\ Read(coll', cursor[c]).mode \in {"snapshot", "changes"}
        /\ Read(coll', cursor[c]).head = coll'.head
        /\ Read(coll', cursor[c]).value = coll'.value
        /\ Read(coll', cursor[c]).touched \subseteq Ids
    BY <1>5, ReadAnswer
  <2>2. coll'.head \in Nat /\ coll'.value \in Directory /\ generation \in Nat
    BY <1>1, <1>5, CollNat DEF Sound, Collection
  <2> QED
    BY <2>1, <2>2 DEF Answered, Answer, Message, Numbered
<1> HIDE DEF m
<1>8. wire[c] \in Seq(Message)
  BY <1>1 DEF Types
<1>9. Append(wire[c], m) \in Seq(Message)
  BY <1>7, <1>8, AppendProperties
<1>10. wire' \in [Clients -> Seq(Message)]
  BY <1>1, <1>6, <1>9 DEF Types
<1>11. request' \in [Clients -> [phase : {"none", "sent", "listed"}, snapshot : Directory]]
  BY <1>1, NoRequestType DEF Synchronize, Types
<1>12. Types'
  BY <1>1, <1>5, <1>10, <1>11 DEF Synchronize, Types, app
<1>13. generation' = generation /\ cursor' = cursor /\ transaction' = transaction
  BY DEF Synchronize, app
<1>14. ASSUME NEW d \in Clients PROVE Numbers(d)'
  <2>1. Numbers(d)
    BY DEF TypesInv
  <2>2. CASE d = c
    <3>1. wire'[d] = Append(wire[d], m)
      BY <1>1, <1>6, <2>2 DEF Types
    <3> QED
      BY <1>1, <1>5, <1>7, <1>12, <1>13, <2>1, <3>1, NumbersSent
  <2>3. CASE d # c
    <3>1. wire'[d] = wire[d]
      BY <1>1, <1>6, <2>3 DEF Types
    <3> QED
      BY <1>1, <1>5, <1>12, <1>13, <2>1, <3>1, NumbersLater
  <2> QED
    BY <2>2, <2>3
<1>15. TypesInv'
  BY <1>12, <1>14 DEF TypesInv
<1> QED
  BY <1>4, <1>6, <1>7, <1>15 DEF m

LEMMA AbandonedTypes ==
  ASSUME TypesInv, NEW snapshot \in abandoned, SynchronizeAbandoned(snapshot)
  PROVE  TypesInv' /\ Keeps(coll', coll)
<1>1. Types
  BY DEF TypesInv
<1>2. snapshot \in Directory
  BY <1>1 DEF Types
<1>3. Keeps(coll', coll)
  BY <1>1, <1>2, ReplaceAllResult DEF SynchronizeAbandoned, Types
<1>4. Sound(coll') /\ coll.head <= coll'.head
  BY <1>3 DEF Keeps
<1>5. Types'
  BY <1>1, <1>4 DEF SynchronizeAbandoned, Types, app
<1>6. ASSUME NEW d \in Clients PROVE Numbers(d)'
  <2>1. Numbers(d)
    BY DEF TypesInv
  <2>2. /\ generation' = generation /\ wire'[d] = wire[d] /\ cursor'[d] = cursor[d]
        /\ transaction'[d] = transaction[d]
    BY DEF SynchronizeAbandoned, app
  <2> QED
    BY <1>1, <1>4, <1>5, <2>1, <2>2, NumbersLater
<1> QED
  BY <1>3, <1>5, <1>6 DEF TypesInv

LEMMA BegunTypes ==
  ASSUME Types, NEW c \in Clients, Begin(c)
  PROVE  /\ transaction' \in [Clients -> [open : BOOLEAN, deltas : Seq(Delta)]]
         /\ request' \in [Clients -> [phase : {"none", "sent", "listed"}, snapshot : Directory]]
         /\ transaction'[c] = [open |-> TRUE, deltas |-> <<>>]
         /\ request'[c] = [phase |-> "sent", snapshot |-> Empty]
         /\ \A d \in Clients : d # c => transaction'[d] = transaction[d]
<1>1. [open |-> TRUE, deltas |-> <<>>] \in [open : BOOLEAN, deltas : Seq(Delta)]
  OBVIOUS
<1>2. [phase |-> "sent", snapshot |-> Empty]
        \in [phase : {"none", "sent", "listed"}, snapshot : Directory]
  BY EmptyRows
<1> QED
  BY <1>1, <1>2 DEF Begin, Types

LEMMA BegunNumbers ==
  ASSUME Types, NEW c \in Clients, Begin(c), UNCHANGED <<generation, coll, wire, cursor>>,
         \A d \in Clients : Numbers(d)
  PROVE  \A d \in Clients : Numbers(d)'
<1> SUFFICES ASSUME NEW d \in Clients PROVE Numbers(d)'
  OBVIOUS
<1>1. Numbers(d) /\ generation' = generation /\ coll' = coll /\ wire' = wire /\ cursor' = cursor
  OBVIOUS
<1>2. CASE d = c
  <2>1. transaction'[d].deltas = <<>>
    BY <1>2, BegunTypes
  <2> QED
    BY <1>1, <2>1 DEF Numbers
<1>3. CASE d # c
  <2>1. transaction'[d] = transaction[d]
    BY <1>3, BegunTypes
  <2> QED
    BY <1>1, <2>1 DEF Numbers
<1> QED
  BY <1>2, <1>3

LEMMA ConnectTypes ==
  ASSUME TypesInv, NEW c \in Clients, Connect(c)
  PROVE  TypesInv'
<1>1. Types /\ \A d \in Clients : Numbers(d)
  BY DEF TypesInv
<1>2. Begin(c)
  BY DEF Connect
<1>3. online' \in [Clients -> BOOLEAN] /\ link' \in [Clients -> {"fresh", "late", "covered"}]
  BY <1>1 DEF Connect, Types
<1>4. Types'
  BY <1>1, <1>2, <1>3, BegunTypes DEF Connect, Types, daemon
<1>5. UNCHANGED <<generation, coll, wire, cursor>>
  BY DEF Connect, daemon
<1> QED
  BY <1>1, <1>2, <1>4, <1>5, BegunNumbers DEF TypesInv

LEMMA RefreshTypes ==
  ASSUME TypesInv, NEW c \in Clients, Refresh(c)
  PROVE  TypesInv'
<1>1. Types /\ \A d \in Clients : Numbers(d)
  BY DEF TypesInv
<1>2. Begin(c)
  BY DEF Refresh
<1>3. used' \in [edits : Nat, faults : 0..MaxFaults, lists : Nat] /\ used'.faults = used.faults
  <2>1. used \in [edits : Nat, faults : 0..MaxFaults, lists : Nat]
    BY <1>1 DEF Types
  <2>2. used' = [used EXCEPT !.lists = used.lists + 1]
    BY DEF Refresh
  <2> QED
    BY <2>1, <2>2
<1>4. Types'
  BY <1>1, <1>2, <1>3, BegunTypes DEF Refresh, Types, daemon
<1>5. UNCHANGED <<generation, coll, wire, cursor>>
  BY DEF Refresh, daemon
<1> QED
  BY <1>1, <1>2, <1>4, <1>5, BegunNumbers DEF TypesInv

LEMMA WireRest ==
  ASSUME Types, NEW c \in Clients, wire[c] # <<>>
  PROVE  /\ wire[c] \in Seq(Message)
         /\ Tail(wire[c]) \in Seq(Message)
         /\ Len(wire[c]) \in Nat \ {0} /\ Len(Tail(wire[c])) = Len(wire[c]) - 1
         /\ \A i \in 1..Len(Tail(wire[c])) :
              i + 1 \in 1..Len(wire[c]) /\ Tail(wire[c])[i] = wire[c][i + 1]
         /\ Head(wire[c]) = wire[c][1] /\ 1 \in 1..Len(wire[c])
         /\ Head(wire[c]) \in Message
         /\ Head(wire[c]).kind = "delta" => Head(wire[c]) \in Delta
         /\ Head(wire[c]).kind = "answer" => Head(wire[c]) \in Answer
<1> DEFINE w == wire[c]
<1>1. w \in Seq(Message) /\ w # <<>>
  BY DEF Types
<1> HIDE DEF w
<1>2. /\ Tail(w) \in Seq(Message) /\ Len(Tail(w)) = Len(w) - 1 /\ Len(w) \in Nat \ {0}
      /\ \A i \in 1..Len(Tail(w)) : Tail(w)[i] = w[i + 1]
      /\ Head(w) = w[1] /\ Head(w) \in Message
  BY <1>1, Rest
<1>3. \A i \in 1..Len(Tail(w)) : i + 1 \in 1..Len(w)
  BY <1>2
<1>4. \A m \in Message : /\ m.kind = "delta" => m \in Delta
                         /\ m.kind = "answer" => m \in Answer
  BY DEF Delta, Answer, Message, LateAnswer
<1> QED
  BY <1>1, <1>2, <1>3, <1>4 DEF w

LEMMA ReceiveDeltaTypes ==
  ASSUME TypesInv, NEW c \in Clients, ReceiveDelta(c)
  PROVE  TypesInv'
<1>1. Types /\ \A d \in Clients : Numbers(d)
  BY DEF TypesInv
<1>2. wire[c] # <<>> /\ Head(wire[c]).kind = "delta" /\ wire' = [wire EXCEPT ![c] = Tail(@)]
  BY DEF ReceiveDelta
<1> DEFINE m == Head(wire[c])
<1>3. m \in Delta /\ Numbered(m, generation, coll.head)
  BY <1>1, <1>2, WireRest DEF Numbers
<1>4. wire' \in [Clients -> Seq(Message)]
  BY <1>1, <1>2, WireRest DEF Types
<1>5. generation \in Nat /\ coll.head \in Nat
  BY <1>1, CollNat
<1>6. generation' = generation /\ coll' = coll
  BY DEF ReceiveDelta, daemon
<1>7. ASSUME NEW d \in Clients, NEW i \in 1..Len(wire'[d])
      PROVE  Numbered(wire'[d][i], generation, coll.head)
  <2>1. CASE d = c
    <3>1. wire'[d] = Tail(wire[c])
      BY <1>1, <1>2, <2>1 DEF Types
    <3>2. i + 1 \in 1..Len(wire[c]) /\ wire'[d][i] = wire[c][i + 1]
      BY <1>1, <1>2, <3>1, WireRest
    <3> QED
      BY <1>1, <3>2 DEF Numbers
  <2>2. CASE d # c
    <3>1. wire'[d] = wire[d]
      BY <1>1, <1>2, <2>2 DEF Types
    <3> QED
      BY <1>1, <3>1 DEF Numbers
  <2> QED
    BY <2>1, <2>2
<1> HIDE DEF m
<1>8. CASE transaction[c].open
  <2>1. transaction' = [transaction EXCEPT ![c].deltas = Append(@, m)]
        /\ replica' = replica /\ cursor' = cursor
    BY <1>8 DEF ReceiveDelta, m
  <2>2. transaction[c] \in [open : BOOLEAN, deltas : Seq(Delta)]
    BY <1>1 DEF Types
  <2> DEFINE t == transaction[c].deltas
             longer == Append(t, m)
  <2>3. /\ t \in Seq(Delta) /\ longer \in Seq(Delta) /\ Len(t) \in Nat /\ Len(longer) = Len(t) + 1
        /\ longer[Len(t) + 1] = m /\ \A i \in 1..Len(t) : longer[i] = t[i]
    BY <1>3, <2>2, AppendProperties, LenProperties
  <2>4. transaction'[c].deltas = longer
        /\ \A d \in Clients : d # c => transaction'[d] = transaction[d]
    BY <1>1, <2>1, <2>2 DEF Types
  <2> HIDE DEF longer
  <2>5. transaction' \in [Clients -> [open : BOOLEAN, deltas : Seq(Delta)]]
    BY <1>1, <2>1, <2>2, <2>3 DEF Types, longer
  <2>6. Types'
    BY <1>1, <1>4, <1>8, <2>1, <2>5 DEF ReceiveDelta, Types, daemon, lists
  <2>7. ASSUME NEW d \in Clients, NEW i \in 1..Len(transaction'[d].deltas)
        PROVE  Numbered(transaction'[d].deltas[i], generation, coll.head)
    <3>1. CASE d = c
      <4>1. \A k \in 1..Len(t) : Numbered(t[k], generation, coll.head)
        BY <1>1 DEF Numbers
      <4> HIDE DEF t
      <4>2. i = Len(t) + 1 \/ i \in 1..Len(t)
        BY <2>3, <2>4, <3>1
      <4> QED
        BY <1>3, <2>3, <2>4, <3>1, <4>1, <4>2
    <3>2. CASE d # c
      BY <1>1, <2>4, <3>2 DEF Numbers
    <3> QED
      BY <3>1, <3>2
  <2>8. ASSUME NEW d \in Clients PROVE Numbers(d)'
    <3>1. Within(cursor'[d], generation, coll.head)
      BY <1>1, <2>1 DEF Numbers
    <3> QED
      BY <1>6, <1>7, <2>7, <3>1 DEF Numbers
  <2> QED
    BY <2>6, <2>8 DEF TypesInv
<1>9. CASE ~transaction[c].open
  <2>1. /\ replica' = [replica EXCEPT ![c] = Patch(@, m)]
        /\ cursor' = [cursor EXCEPT ![c] = NoteCursor(@, m)]
        /\ transaction' = transaction
    BY <1>9 DEF ReceiveDelta, m
  <2>2. replica[c] \in Directory /\ cursor[c] \in Cursor /\ Within(cursor[c], generation, coll.head)
    BY <1>1 DEF Types, Numbers
  <2>3. Patch(replica[c], m) \in Directory
    BY <1>3, <2>2, PatchRows
  <2> DEFINE next == NoteCursor(cursor[c], m)
  <2>4. next \in Cursor /\ Within(next, generation, coll.head)
    BY <1>3, <1>5, <2>2, NoteWithin DEF Numbered, Delta
  <2> HIDE DEF next
  <2>5. cursor' = [cursor EXCEPT ![c] = next]
    BY <2>1 DEF next
  <2>6. replica' \in [Clients -> Directory] /\ cursor' \in [Clients -> Cursor]
    BY <1>1, <2>1, <2>3, <2>4, <2>5 DEF Types
  <2>9. standing' \in [Clients -> {"sound", "replayed", "torn"}]
    <3>1. standing' = [standing EXCEPT ![c] = "torn"] \/ standing' = standing
      BY <1>9 DEF ReceiveDelta
    <3> QED
      BY <1>1, <3>1 DEF Types
  <2>7. Types'
    BY <1>1, <1>4, <2>1, <2>6, <2>9 DEF ReceiveDelta, Types, daemon, lists
  <2>8. ASSUME NEW d \in Clients PROVE Numbers(d)'
    <3>1. Within(cursor'[d], generation, coll.head)
      BY <1>1, <2>4, <2>5 DEF Numbers, Types
    <3>2. \A i \in 1..Len(transaction[d].deltas) :
            Numbered(transaction[d].deltas[i], generation, coll.head)
      BY <1>1 DEF Numbers
    <3> QED
      BY <1>6, <1>7, <2>1, <3>1, <3>2 DEF Numbers
  <2> QED
    BY <2>7, <2>8 DEF TypesInv
<1> QED
  BY <1>8, <1>9

LEMMA ReceiveAnswerTypes ==
  ASSUME TypesInv, NEW c \in Clients, ReceiveAnswer(c)
  PROVE  TypesInv'
<1>1. Types /\ \A d \in Clients : Numbers(d)
  BY DEF TypesInv
<1>2. wire[c] # <<>> /\ Head(wire[c]).kind = "answer" /\ wire' = [wire EXCEPT ![c] = Tail(@)]
  BY DEF ReceiveAnswer
<1> DEFINE m == Head(wire[c])
           t == transaction[c].deltas
           read == WriteCursor(cursor[c], [gen |-> m.gen, seq |-> m.head])
           noted == NoteAll(read, t)
           rows == Complete(replica[c], m, t)
<1>3. m \in Answer /\ Numbered(m, generation, coll.head)
  BY <1>1, <1>2, WireRest DEF Numbers
<1>4. wire' \in [Clients -> Seq(Message)]
  BY <1>1, <1>2, WireRest DEF Types
<1>5. generation \in Nat /\ coll.head \in Nat
  BY <1>1, CollNat
<1>6. generation' = generation /\ coll' = coll
  BY DEF ReceiveAnswer, daemon
<1>7. ASSUME NEW d \in Clients, NEW i \in 1..Len(wire'[d])
      PROVE  Numbered(wire'[d][i], generation, coll.head)
  <2>1. CASE d = c
    <3>1. wire'[d] = Tail(wire[c])
      BY <1>1, <1>2, <2>1 DEF Types
    <3>2. i + 1 \in 1..Len(wire[c]) /\ wire'[d][i] = wire[c][i + 1]
      BY <1>1, <1>2, <3>1, WireRest
    <3> QED
      BY <1>1, <3>2 DEF Numbers
  <2>2. CASE d # c
    <3>1. wire'[d] = wire[d]
      BY <1>1, <1>2, <2>2 DEF Types
    <3> QED
      BY <1>1, <3>1 DEF Numbers
  <2> QED
    BY <2>1, <2>2
<1>8. t \in Seq(Delta) /\ replica[c] \in Directory /\ cursor[c] \in Cursor
      /\ Within(cursor[c], generation, coll.head)
  BY <1>1 DEF Types, Numbers
<1>9. /\ replica' = [replica EXCEPT ![c] = rows]
      /\ cursor' = [cursor EXCEPT ![c] = noted]
      /\ transaction' = [transaction EXCEPT ![c] = NoTransaction]
  BY DEF ReceiveAnswer
<1> HIDE DEF m
<1>10. read \in Cursor /\ Within(read, generation, coll.head)
  BY <1>3, <1>5, <1>8 DEF WriteCursor, Within, Cursor, Answer, Numbered
<1>11. \A i \in 1..Len(t) : t[i].gen = generation /\ t[i].seq <= coll.head
  <2>1. \A i \in 1..Len(t) : Numbered(t[i], generation, coll.head) /\ t[i] \in Delta
    BY <1>1, <1>8, ElementOfSeq DEF Numbers
  <2> QED
    BY <2>1 DEF Numbered, Delta
<1> HIDE DEF read
<1>12. noted \in Cursor /\ Within(noted, generation, coll.head)
  BY <1>5, <1>8, <1>10, <1>11, NoteAllWithin
<1>13. rows \in Directory
  <2>1. Apply(replica[c], m) \in Directory
    BY <1>3, <1>8, ApplyRows DEF Answer
  <2> QED
    BY <1>8, <2>1, PatchAllValue DEF Complete
<1> HIDE DEF t, noted, rows
<1>14. /\ replica' \in [Clients -> Directory] /\ cursor' \in [Clients -> Cursor]
       /\ transaction' \in [Clients -> [open : BOOLEAN, deltas : Seq(Delta)]]
  BY <1>1, <1>9, <1>12, <1>13, NoTransactionType DEF Types
<1>15. standing' \in [Clients -> {"sound", "replayed", "torn"}]
  <2> DEFINE new == IF m.mode = "changes" /\ standing[c] = "torn" THEN "torn"
                    ELSE IF transaction[c].deltas # <<>> THEN "replayed"
                    ELSE IF m.mode = "snapshot" THEN "sound" ELSE standing[c]
  <2>1. standing' = [standing EXCEPT ![c] = new]
    BY DEF ReceiveAnswer, m
  <2>2. standing[c] \in {"sound", "replayed", "torn"}
    BY <1>1 DEF Types
  <2>3. new \in {"sound", "replayed", "torn"}
    BY <2>2
  <2> HIDE DEF new
  <2> QED
    BY <1>1, <2>1, <2>3 DEF Types
<1>18. link' \in [Clients -> {"fresh", "late", "covered"}]
  <2>1. link' = [link EXCEPT ![c] = "covered"] \/ link' = link
    <3>1. link' = [link EXCEPT ![c] =
            IF @ = "fresh" /\ (m.mode = "snapshot" \/ standing[c] # "torn")
            THEN "covered" ELSE @]
      BY DEF ReceiveAnswer, m
    <3>2. [link EXCEPT ![c] = link[c]] = link
      BY <1>1 DEF Types
    <3> QED
      BY <3>1, <3>2
  <2> QED
    BY <1>1, <2>1 DEF Types
<1>16. Types'
  BY <1>1, <1>4, <1>14, <1>15, <1>18 DEF ReceiveAnswer, Types, daemon, lists
<1>17. ASSUME NEW d \in Clients PROVE Numbers(d)'
  <2>1. CASE d = c
    <3>1. cursor'[d] = noted /\ transaction'[d] = NoTransaction
      BY <1>1, <1>9, <2>1 DEF Types
    <3> QED
      BY <1>6, <1>7, <1>12, <3>1 DEF Numbers, NoTransaction
  <2>2. CASE d # c
    <3>1. cursor'[d] = cursor[d] /\ transaction'[d] = transaction[d]
      BY <1>1, <1>9, <2>2 DEF Types
    <3>2. /\ Within(cursor[d], generation, coll.head)
          /\ \A i \in 1..Len(transaction[d].deltas) :
               Numbered(transaction[d].deltas[i], generation, coll.head)
      BY <1>1 DEF Numbers
    <3> QED
      BY <1>6, <1>7, <3>1, <3>2 DEF Numbers
  <2> QED
    BY <2>1, <2>2
<1> QED
  BY <1>16, <1>17 DEF TypesInv

\* What lost connections leave of an app.
LEMMA AbortTypes ==
  ASSUME Types, NEW lost \in SUBSET Clients, Abort(lost)
  PROVE  /\ online' \in [Clients -> BOOLEAN]
         /\ wire' \in [Clients -> Seq(Message)]
         /\ request' \in [Clients -> [phase : {"none", "sent", "listed"}, snapshot : Directory]]
         /\ replica' \in [Clients -> Directory]
         /\ transaction' \in [Clients -> [open : BOOLEAN, deltas : Seq(Delta)]]
         /\ standing' \in [Clients -> {"sound", "replayed", "torn"}]
         /\ cursor' = cursor /\ link' = link
         /\ \A c \in Clients : c \in lost => wire'[c] = <<>> /\ transaction'[c] = NoTransaction
         /\ \A c \in Clients : c \notin lost =>
              wire'[c] = wire[c] /\ transaction'[c] = transaction[c]
<1>1. online' \in [Clients -> BOOLEAN]
  BY DEF Abort, Types
<1>2. wire' \in [Clients -> Seq(Message)]
  <2>1. \A c \in Clients : wire[c] \in Seq(Message) /\ <<>> \in Seq(Message)
    BY DEF Types
  <2> QED
    BY <2>1 DEF Abort
<1>3. request' \in [Clients -> [phase : {"none", "sent", "listed"}, snapshot : Directory]]
  BY NoRequestType DEF Abort, Types
<1>4. replica' \in [Clients -> Directory]
  <2>1. ASSUME NEW c \in Clients
        PROVE  replica[c] \in Directory /\ PatchAll(replica[c], transaction[c].deltas) \in Directory
    <3>1. replica[c] \in Directory /\ transaction[c].deltas \in Seq(Delta)
      BY DEF Types
    <3> QED
      BY <3>1, PatchAllValue
  <2> QED
    BY <2>1 DEF Abort
<1>5. transaction' \in [Clients -> [open : BOOLEAN, deltas : Seq(Delta)]]
  BY NoTransactionType DEF Abort, Types
<1>6. standing' \in [Clients -> {"sound", "replayed", "torn"}]
  BY DEF Abort, Types
<1> QED
  BY <1>1, <1>2, <1>3, <1>4, <1>5, <1>6 DEF Abort

LEMMA UsedFaults ==
  ASSUME Types, used.faults < MaxFaults, used' = [used EXCEPT !.faults = @ + 1]
  PROVE  /\ used' \in [edits : Nat, faults : 0..MaxFaults, lists : Nat]
         /\ used'.faults = used.faults + 1 /\ used.faults \in Nat
<1>1. used \in [edits : Nat, faults : 0..MaxFaults, lists : Nat] /\ MaxFaults \in Nat
  BY DirectorySyncAssumption DEF Types
<1>2. used.faults + 1 \in 0..MaxFaults
  BY <1>1
<1> QED
  BY <1>1, <1>2

\* What a refresh that fails leaves on the way to the app.
Voided(w) == [i \in DOMAIN w |-> IF w[i].kind = "answer" THEN LateAnswer ELSE w[i]]

LEMMA VoidedWire ==
  ASSUME NEW w \in Seq(Message)
  PROVE  /\ Voided(w) \in Seq(Message) /\ Len(Voided(w)) = Len(w)
         /\ \A i \in 1..Len(w) :
              /\ Voided(w)[i] = IF w[i].kind = "answer" THEN LateAnswer ELSE w[i]
              /\ w[i] \in Message
<1>1. DOMAIN w = 1..Len(w) /\ Len(w) \in Nat /\ \A i \in 1..Len(w) : w[i] \in Message
  BY LenProperties, ElementOfSeq
<1> DEFINE n == Len(w)
           v == Voided(w)
<1>2. v = [i \in 1..n |-> IF w[i].kind = "answer" THEN LateAnswer ELSE w[i]]
  BY <1>1 DEF Voided
<1>3. \A i \in 1..n : v[i] = (IF w[i].kind = "answer" THEN LateAnswer ELSE w[i]) /\ v[i] \in Message
  BY <1>1, <1>2 DEF Message
<1>4. DOMAIN v = 1..n /\ n \in Nat
  BY <1>1, <1>2
<1> HIDE DEF v, n
<1>5. v = [i \in 1..n |-> v[i]]
  BY <1>2, <1>4
<1>6. v \in [1..n -> Message]
  BY <1>3, <1>5
<1>7. v \in Seq(Message) /\ Len(v) = n
  BY <1>4, <1>6, LenProperties
<1> QED
  BY <1>1, <1>3, <1>7 DEF v, n

LEMMA FailTypes ==
  ASSUME TypesInv, NEW c \in Clients, FailRefresh(c)
  PROVE  /\ TypesInv'
         /\ wire' = [wire EXCEPT ![c] = Voided(wire[c])]
<1>1. Types /\ \A d \in Clients : Numbers(d)
  BY DEF TypesInv
<1>2. used' \in [edits : Nat, faults : 0..MaxFaults, lists : Nat]
      /\ used'.faults = used.faults + 1 /\ used.faults \in Nat
  BY <1>1, UsedFaults DEF FailRefresh
<1>3. generation' \in 1..(used'.faults + 1)
  BY <1>1, <1>2 DEF FailRefresh, Types, daemon
<1>4. abandoned' \subseteq Directory
  BY <1>1 DEF FailRefresh, Listed, Types
<1>5. wire' = [wire EXCEPT ![c] = Voided(wire[c])]
  BY <1>1 DEF FailRefresh, Voided, Types
<1>6. wire[c] \in Seq(Message)
  BY <1>1 DEF Types
<1>7. wire' \in [Clients -> Seq(Message)]
  BY <1>1, <1>5, <1>6, VoidedWire DEF Types
<1>8. request' \in [Clients -> [phase : {"none", "sent", "listed"}, snapshot : Directory]]
  BY <1>1, NoRequestType DEF FailRefresh, Types
<1>9. transaction' \in [Clients -> [open : BOOLEAN, deltas : Seq(Delta)]]
  BY <1>1, NoTransactionType DEF FailRefresh, Types
<1>10. replica' \in [Clients -> Directory]
  <2>1. replica[c] \in Directory /\ transaction[c].deltas \in Seq(Delta)
    BY <1>1 DEF Types
  <2>2. PatchAll(replica[c], transaction[c].deltas) \in Directory
    BY <2>1, PatchAllValue
  <2> QED
    BY <1>1, <2>2 DEF FailRefresh, Types
<1>11. Types'
  BY <1>1, <1>2, <1>3, <1>4, <1>7, <1>8, <1>9, <1>10 DEF FailRefresh, Types, daemon
<1>12. ASSUME NEW d \in Clients PROVE Numbers(d)'
  <2>1. Numbers(d) /\ coll' = coll /\ generation' = generation /\ cursor' = cursor
    BY <1>1 DEF FailRefresh, daemon
  <2>2. CASE d = c
    <3>1. wire'[d] = Voided(wire[d]) /\ transaction'[d] = NoTransaction
      BY <1>1, <1>5, <2>2 DEF FailRefresh, Types
    <3> DEFINE w == wire[d]
    <3>2. \A i \in 1..Len(w) : Numbered(w[i], generation, coll.head) /\ w \in Seq(Message)
      BY <1>6, <2>1, <2>2 DEF Numbers
    <3> HIDE DEF w
    <3>3. \A i \in 1..Len(Voided(w)) : Numbered(Voided(w)[i], generation, coll.head)
      <4>1. SUFFICES ASSUME NEW i \in 1..Len(Voided(w)) PROVE Numbered(Voided(w)[i], generation, coll.head)
        OBVIOUS
      <4>2. w \in Seq(Message)
        BY <1>6, <2>2 DEF w
      <4>3. i \in 1..Len(w) /\ Voided(w)[i] = IF w[i].kind = "answer" THEN LateAnswer ELSE w[i]
        BY <4>2, VoidedWire
      <4> QED
        BY <3>2, <4>3 DEF Numbered, LateAnswer
    <3> QED
      BY <2>1, <3>1, <3>3 DEF Numbers, NoTransaction, w
  <2>3. CASE d # c
    <3>1. wire'[d] = wire[d] /\ transaction'[d] = transaction[d]
      BY <1>1, <1>5, <2>3 DEF FailRefresh, Types
    <3> QED
      BY <2>1, <3>1 DEF Numbers
  <2> QED
    BY <2>2, <2>3
<1> QED
  BY <1>5, <1>11, <1>12 DEF TypesInv

LEMMA IgnoreTypes ==
  ASSUME TypesInv, NEW c \in Clients, IgnoreAnswer(c)
  PROVE  TypesInv'
<1>1. Types /\ \A d \in Clients : Numbers(d)
  BY DEF TypesInv
<1>2. wire[c] # <<>> /\ wire' = [wire EXCEPT ![c] = Tail(@)]
  BY DEF IgnoreAnswer
<1>3. wire' \in [Clients -> Seq(Message)]
  BY <1>1, <1>2, WireRest DEF Types
<1>4. Types'
  BY <1>1, <1>3 DEF IgnoreAnswer, Types, daemon, lists, app
<1>5. ASSUME NEW d \in Clients PROVE Numbers(d)'
  <2>1. Numbers(d) /\ coll' = coll /\ generation' = generation /\ cursor' = cursor
        /\ transaction' = transaction
    BY <1>1 DEF IgnoreAnswer, daemon, app
  <2>2. CASE d = c
    <3>1. wire'[d] = Tail(wire[c])
      BY <1>1, <1>2, <2>2 DEF Types
    <3>2. ASSUME NEW i \in 1..Len(wire'[d]) PROVE Numbered(wire'[d][i], generation, coll.head)
      <4>1. i + 1 \in 1..Len(wire[c]) /\ wire'[d][i] = wire[c][i + 1]
        BY <1>1, <1>2, <3>1, WireRest
      <4> QED
        BY <1>1, <4>1 DEF Numbers
    <3> QED
      BY <2>1, <3>2 DEF Numbers
  <2>3. CASE d # c
    <3>1. wire'[d] = wire[d]
      BY <1>1, <1>2, <2>3 DEF Types
    <3> QED
      BY <2>1, <3>1 DEF Numbers
  <2> QED
    BY <2>2, <2>3
<1> QED
  BY <1>4, <1>5 DEF TypesInv

LEMMA DropTypes ==
  ASSUME TypesInv, NEW c \in Clients, Drop(c)
  PROVE  TypesInv'
<1>1. Types /\ \A d \in Clients : Numbers(d)
  BY DEF TypesInv
<1>2. Abort({c}) /\ UNCHANGED <<daemon, updates>>
  BY DEF Drop
<1>3. used' \in [edits : Nat, faults : 0..MaxFaults, lists : Nat]
      /\ used'.faults = used.faults + 1 /\ used.faults \in Nat
  BY <1>1, UsedFaults DEF Drop
<1>4. generation' \in 1..(used'.faults + 1)
  BY <1>1, <1>2, <1>3 DEF Types, daemon
<1>5. abandoned' \subseteq Directory
  BY <1>1 DEF Drop, Listed, Types
<1>6. /\ online' \in [Clients -> BOOLEAN]
      /\ wire' \in [Clients -> Seq(Message)]
      /\ request' \in [Clients -> [phase : {"none", "sent", "listed"}, snapshot : Directory]]
      /\ replica' \in [Clients -> Directory]
      /\ transaction' \in [Clients -> [open : BOOLEAN, deltas : Seq(Delta)]]
      /\ standing' \in [Clients -> {"sound", "replayed", "torn"}]
      /\ cursor' = cursor /\ link' = link
      /\ \A d \in Clients : d \in {c} => wire'[d] = <<>> /\ transaction'[d] = NoTransaction
      /\ \A d \in Clients : d \notin {c} => wire'[d] = wire[d] /\ transaction'[d] = transaction[d]
  <2> DEFINE lost == {c}
  <2>1. lost \in SUBSET Clients /\ Abort(lost)
    BY <1>2
  <2> HIDE DEF lost
  <2>2. /\ online' \in [Clients -> BOOLEAN]
        /\ wire' \in [Clients -> Seq(Message)]
        /\ request' \in [Clients -> [phase : {"none", "sent", "listed"}, snapshot : Directory]]
        /\ replica' \in [Clients -> Directory]
        /\ transaction' \in [Clients -> [open : BOOLEAN, deltas : Seq(Delta)]]
        /\ standing' \in [Clients -> {"sound", "replayed", "torn"}]
        /\ cursor' = cursor /\ link' = link
        /\ \A d \in Clients : d \in lost => wire'[d] = <<>> /\ transaction'[d] = NoTransaction
        /\ \A d \in Clients : d \notin lost => wire'[d] = wire[d] /\ transaction'[d] = transaction[d]
    BY <1>1, <2>1, AbortTypes
  <2> QED
    BY <2>2 DEF lost
<1>7. Types'
  BY <1>1, <1>2, <1>3, <1>4, <1>5, <1>6 DEF Types, daemon
<1>8. ASSUME NEW d \in Clients PROVE Numbers(d)'
  <2>1. Numbers(d) /\ coll' = coll /\ generation' = generation
    BY <1>1, <1>2 DEF daemon
  <2>2. CASE d = c
    <3>1. wire'[d] = <<>> /\ transaction'[d] = NoTransaction
      BY <1>6, <2>2
    <3> QED
      BY <1>6, <2>1, <3>1 DEF Numbers, NoTransaction
  <2>3. CASE d # c
    <3>1. wire'[d] = wire[d] /\ transaction'[d] = transaction[d]
      BY <1>6, <2>3
    <3> QED
      BY <1>6, <2>1, <3>1 DEF Numbers
  <2> QED
    BY <2>2, <2>3
<1> QED
  BY <1>7, <1>8 DEF TypesInv

LEMMA RestartTypes ==
  ASSUME TypesInv, Restart
  PROVE  TypesInv'
<1>1. Types /\ \A d \in Clients : Numbers(d)
  BY DEF TypesInv
<1> DEFINE lost == Clients
<1>2. lost \in SUBSET Clients /\ Abort(lost)
  BY DEF Restart
<1>3. used' \in [edits : Nat, faults : 0..MaxFaults, lists : Nat]
      /\ used'.faults = used.faults + 1 /\ used.faults \in Nat
  BY <1>1, UsedFaults DEF Restart
<1>4. generation' = generation + 1 /\ generation' \in 1..(used'.faults + 1)
  BY <1>1, <1>3 DEF Types, Restart
<1> HIDE DEF lost
<1>5. /\ online' \in [Clients -> BOOLEAN]
      /\ wire' \in [Clients -> Seq(Message)]
      /\ request' \in [Clients -> [phase : {"none", "sent", "listed"}, snapshot : Directory]]
      /\ replica' \in [Clients -> Directory]
      /\ transaction' \in [Clients -> [open : BOOLEAN, deltas : Seq(Delta)]]
      /\ standing' \in [Clients -> {"sound", "replayed", "torn"}]
      /\ cursor' = cursor /\ link' = link
      /\ \A d \in Clients : d \in lost => wire'[d] = <<>> /\ transaction'[d] = NoTransaction
  BY <1>1, <1>2, AbortTypes
<1>6. updates' \in [Sessions -> Seq(Change)] /\ abandoned' = {} /\ coll' = EmptyCollection
      /\ registry' = registry
  BY DEF Restart
<1>7. Types'
  BY <1>1, <1>3, <1>4, <1>5, <1>6, EmptySound DEF Types
<1>8. ASSUME NEW d \in Clients PROVE Numbers(d)'
  <2>1. wire'[d] = <<>> /\ transaction'[d].deltas = <<>>
    BY <1>5 DEF lost, NoTransaction
  <2>2. cursor[d] \in Cursor /\ Within(cursor[d], generation, coll.head) /\ generation \in Nat
    BY <1>1, CollNat DEF Types, Numbers
  <2>3. Within(cursor[d], generation', coll'.head)
    BY <1>4, <2>2 DEF Within, Cursor
  <2> QED
    BY <1>5, <2>1, <2>3 DEF Numbers
<1> QED
  BY <1>7, <1>8 DEF TypesInv

LEMMA NextTypes == TypesInv /\ [Next]_vars => TypesInv'
<1> SUFFICES ASSUME TypesInv, [Next]_vars PROVE TypesInv'
  OBVIOUS
<1>1. ASSUME NEW id \in Ids, NEW v \in Values \cup {Absent}, Edit(id, v) PROVE TypesInv'
  BY <1>1, EditTypes
<1>2. ASSUME NEW c \in Clients, PublishUpdate(c) PROVE TypesInv'
  BY <1>2, PublishTypes
<1>3. ASSUME NEW c \in Clients, SkipUpdate(c) PROVE TypesInv'
  BY <1>3, SkipTypes
<1>4. ASSUME NEW c \in Clients, List(c) PROVE TypesInv'
  BY <1>4, ListTypes
<1>5. ASSUME NEW c \in Clients, Synchronize(c) PROVE TypesInv'
  BY <1>5, SynchronizeTypes
<1>6. ASSUME NEW c \in Clients, Connect(c) PROVE TypesInv'
  BY <1>6, ConnectTypes
<1>7. ASSUME NEW c \in Clients, Refresh(c) PROVE TypesInv'
  BY <1>7, RefreshTypes
<1>8. ASSUME NEW c \in Clients, ReceiveDelta(c) PROVE TypesInv'
  BY <1>8, ReceiveDeltaTypes
<1>9. ASSUME NEW c \in Clients, ReceiveAnswer(c) PROVE TypesInv'
  BY <1>9, ReceiveAnswerTypes
<1>10. ASSUME NEW c \in Clients, Drop(c) PROVE TypesInv'
  BY <1>10, DropTypes
<1>11. ASSUME NEW snapshot \in abandoned, SynchronizeAbandoned(snapshot) PROVE TypesInv'
  BY <1>11, AbandonedTypes
<1>12. CASE Restart
  BY <1>12, RestartTypes
<1>13. CASE UNCHANGED vars
  BY <1>13 DEF vars, TypesInv, Types, Numbers
<1>14. ASSUME NEW c \in Clients, RefuseList(c) PROVE TypesInv'
  BY <1>14, RefuseTypes
<1>15. ASSUME NEW c \in Clients, FailRefresh(c) PROVE TypesInv'
  BY <1>15, FailTypes
<1>16. ASSUME NEW c \in Clients, IgnoreAnswer(c) PROVE TypesInv'
  BY <1>16, IgnoreTypes
<1>17. ASSUME NEW s \in Others, PublishOther(s) PROVE TypesInv'
  BY <1>17, OtherTypes
<1>18. CASE ListOther
  BY <1>18, ListOtherTypes
<1> QED
  BY <1>1, <1>2, <1>3, <1>4, <1>5, <1>6, <1>7, <1>8, <1>9, <1>10, <1>11, <1>12, <1>13, <1>14,
     <1>15, <1>16, <1>17, <1>18 DEF Next

\* For any number of apps and sessions, whatever fails, the directory keeps its
\* types, and no cursor is ahead of the daemon that gave it.
THEOREM DirectoryTypeCorrect == Spec => []TypeOK
<1>1. Init => TypesInv
  BY InitTypes
<1>2. TypesInv /\ [Next]_vars => TypesInv'
  BY NextTypes
<1>3. TypesInv => TypeOK
  BY TypesGiveTypeOK
<1> QED
  BY <1>1, <1>2, <1>3, PTL DEF Spec

-----------------------------------------------------------------------------
(* What an app has yet to hear.  t are the deltas that it recorded, w the  *)
(* messages on their way to it, u the updates its session must publish.    *)

In(s, id) == \E i \in 1..Len(s) : s[i].id = id

InWire(w, id) == \E i \in 1..Len(w) : w[i].kind = "delta" /\ w[i].id = id

Named(t, w, u, id) == In(t, id) \/ InWire(w, id) \/ In(u, id)

\* A delta on the wire that nothing follows says what the registry r says.
WireWord(w, u, r) ==
  \A i \in 1..Len(w) :
    /\ w[i].kind = "delta"
    /\ \A k \in 1..Len(w) : k > i /\ w[k].kind = "delta" => w[k].id # w[i].id
    /\ ~In(u, w[i].id)
    => w[i].value = r[w[i].id]

\* Of the entries on one id the last one says what the registry says.
LastWord(t, w, u, r) ==
  /\ \A i \in 1..Len(u) :
       (\A k \in 1..Len(u) : k > i => u[k].id # u[i].id) => u[i].value = r[u[i].id]
  /\ WireWord(w, u, r)
  /\ \A i \in 1..Len(t) :
       /\ \A k \in 1..Len(t) : k > i => t[k].id # t[i].id
       /\ ~InWire(w, t[i].id) /\ ~In(u, t[i].id)
       => t[i].value = r[t[i].id]

LEMMA InAppend ==
  ASSUME NEW S, NEW s \in Seq(S), NEW e \in S, NEW id
  PROVE  In(Append(s, e), id) <=> In(s, id) \/ e.id = id
<1> DEFINE longer == Append(s, e)
           n == Len(s)
<1>1. n \in Nat /\ Len(longer) = n + 1 /\ longer[n + 1] = e /\ \A i \in 1..n : longer[i] = s[i]
  BY AppendProperties, LenProperties
<1> HIDE DEF longer, n
<1>2. \A i \in 1..(n + 1) : i = n + 1 \/ i \in 1..n
  BY <1>1
<1>3. n + 1 \in 1..(n + 1) /\ \A i \in 1..n : i \in 1..(n + 1)
  BY <1>1
<1>4. In(longer, id) <=> (\E i \in 1..n : s[i].id = id) \/ e.id = id
  BY <1>1, <1>2, <1>3 DEF In
<1> QED
  BY <1>4 DEF In, longer, n

LEMMA InWireAppend ==
  ASSUME NEW w \in Seq(Message), NEW m \in Message, NEW id
  PROVE  InWire(Append(w, m), id) <=> InWire(w, id) \/ (m.kind = "delta" /\ m.id = id)
<1> DEFINE longer == Append(w, m)
           n == Len(w)
<1>1. n \in Nat /\ Len(longer) = n + 1 /\ longer[n + 1] = m /\ \A i \in 1..n : longer[i] = w[i]
  BY AppendProperties, LenProperties
<1> HIDE DEF longer, n
<1>2. \A i \in 1..(n + 1) : i = n + 1 \/ i \in 1..n
  BY <1>1
<1>3. n + 1 \in 1..(n + 1) /\ \A i \in 1..n : i \in 1..(n + 1)
  BY <1>1
<1>4. InWire(longer, id) <=>
        (\E i \in 1..n : w[i].kind = "delta" /\ w[i].id = id) \/ (m.kind = "delta" /\ m.id = id)
  BY <1>1, <1>2, <1>3 DEF InWire
<1> QED
  BY <1>4 DEF InWire, longer, n

LEMMA InTail ==
  ASSUME NEW S, NEW s \in Seq(S), s # <<>>, NEW id
  PROVE  In(s, id) <=> In(Tail(s), id) \/ Head(s).id = id
<1> DEFINE rest == Tail(s)
           n == Len(s)
<1>1. n \in Nat \ {0} /\ Len(rest) = n - 1 /\ \A i \in 1..(n - 1) : rest[i] = s[i + 1]
  BY Rest
<1>2. Head(s) = s[1]
  BY Rest
<1> HIDE DEF rest, n
<1>3. \A i \in 1..n : i = 1 \/ (i - 1 \in 1..(n - 1) /\ (i - 1) + 1 = i)
  BY <1>1
<1>4. 1 \in 1..n /\ \A i \in 1..(n - 1) : i + 1 \in 1..n
  BY <1>1
<1>5. (\E i \in 1..n : s[i].id = id) <=> (\E i \in 1..(n - 1) : rest[i].id = id) \/ s[1].id = id
  <2>1. ASSUME NEW i \in 1..n, s[i].id = id, i # 1 PROVE \E k \in 1..(n - 1) : rest[k].id = id
    <3>1. i - 1 \in 1..(n - 1) /\ rest[i - 1] = s[(i - 1) + 1] /\ (i - 1) + 1 = i
      BY <1>1, <1>3, <2>1
    <3> QED
      BY <2>1, <3>1
  <2>2. ASSUME NEW i \in 1..(n - 1), rest[i].id = id PROVE \E k \in 1..n : s[k].id = id
    BY <1>1, <1>4, <2>2
  <2> QED
    BY <1>4, <2>1, <2>2
<1> QED
  BY <1>1, <1>2, <1>5 DEF In, rest, n

LEMMA InWireTail ==
  ASSUME NEW w \in Seq(Message), w # <<>>, NEW id
  PROVE  InWire(w, id) <=> InWire(Tail(w), id) \/ (Head(w).kind = "delta" /\ Head(w).id = id)
<1> DEFINE rest == Tail(w)
           n == Len(w)
<1>1. n \in Nat \ {0} /\ Len(rest) = n - 1 /\ \A i \in 1..(n - 1) : rest[i] = w[i + 1]
  BY Rest
<1>2. Head(w) = w[1]
  BY Rest
<1> HIDE DEF rest, n
<1>3. \A i \in 1..n : i = 1 \/ (i - 1 \in 1..(n - 1) /\ (i - 1) + 1 = i)
  BY <1>1
<1>4. 1 \in 1..n /\ \A i \in 1..(n - 1) : i + 1 \in 1..n
  BY <1>1
<1>5. (\E i \in 1..n : w[i].kind = "delta" /\ w[i].id = id) <=>
        (\E i \in 1..(n - 1) : rest[i].kind = "delta" /\ rest[i].id = id)
        \/ (w[1].kind = "delta" /\ w[1].id = id)
  <2>1. ASSUME NEW i \in 1..n, w[i].kind = "delta", w[i].id = id, i # 1
        PROVE  \E k \in 1..(n - 1) : rest[k].kind = "delta" /\ rest[k].id = id
    <3>1. i - 1 \in 1..(n - 1) /\ rest[i - 1] = w[(i - 1) + 1] /\ (i - 1) + 1 = i
      BY <1>1, <1>3, <2>1
    <3> QED
      BY <2>1, <3>1
  <2>2. ASSUME NEW i \in 1..(n - 1), rest[i].kind = "delta", rest[i].id = id
        PROVE  \E k \in 1..n : w[k].kind = "delta" /\ w[k].id = id
    BY <1>1, <1>4, <2>2
  <2> QED
    BY <1>4, <2>1, <2>2
<1> QED
  BY <1>1, <1>2, <1>5 DEF InWire, rest, n

LEMMA InNothing == \A id : ~In(<<>>, id) /\ ~InWire(<<>>, id)
BY DEF In, InWire

\* An edit of the registry is the last word on its id.
LEMMA LastWordEdited ==
  ASSUME NEW t, NEW w \in Seq(Message), NEW u \in Seq(Change),
         NEW r \in Directory, LastWord(t, w, u, r), NEW change \in Change
  PROVE  LastWord(t, w, Append(u, change), [r EXCEPT ![change.id] = change.value])
<1> DEFINE longer == Append(u, change)
           n == Len(u)
           s == [r EXCEPT ![change.id] = change.value]
<1>1. n \in Nat /\ Len(longer) = n + 1 /\ longer[n + 1] = change /\ \A i \in 1..n : longer[i] = u[i]
  BY AppendProperties, LenProperties
<1>2. \A id \in Ids : s[id] = IF id = change.id THEN change.value ELSE r[id]
  BY DEF Directory, Change
<1>3. \A i \in 1..n : u[i].id \in Ids
  <2>1. \A i \in 1..n : u[i] \in Change
    BY ElementOfSeq
  <2> QED
    BY <2>1 DEF Change
<1>4. \A id : In(longer, id) <=> In(u, id) \/ change.id = id
  BY InAppend
<1>5. r[change.id] \in Values \cup {Absent} /\ change.id \in Ids
  BY DEF Directory, Change
<1>6. \A id : id # change.id => s[id] = r[id]
  BY DEF Directory
<1> HIDE DEF longer, s
<1>7. ASSUME NEW i \in 1..(n + 1), \A k \in 1..(n + 1) : k > i => longer[k].id # longer[i].id
      PROVE  longer[i].value = s[longer[i].id]
  <2> HIDE DEF n
  <2>1. CASE i = n + 1
    BY <1>1, <1>2, <1>5, <2>1
  <2>2. CASE i # n + 1
    <3>1. i \in 1..n /\ n + 1 \in 1..(n + 1) /\ n + 1 > i
      BY <1>1, <2>2
    <3>2. longer[i] = u[i] /\ u[i].id # change.id
      BY <1>1, <1>7, <3>1
    <3>3. \A k \in 1..n : k > i => u[k].id # u[i].id
      <4>1. \A k \in 1..n : k \in 1..(n + 1)
        BY <1>1
      <4> QED
        BY <1>1, <1>7, <3>1, <4>1
    <3>4. u[i].value = r[u[i].id]
      BY <3>1, <3>3 DEF LastWord, WireWord, n
    <3> QED
      BY <1>6, <3>2, <3>4
  <2> QED
    BY <2>1, <2>2
<1>8. ASSUME NEW i \in 1..Len(w), w[i].kind = "delta",
             \A k \in 1..Len(w) : k > i /\ w[k].kind = "delta" => w[k].id # w[i].id,
             ~In(longer, w[i].id)
      PROVE  w[i].value = s[w[i].id]
  <2>1. ~In(u, w[i].id) /\ w[i].id # change.id
    BY <1>4, <1>8
  <2>2. w[i].value = r[w[i].id]
    BY <1>8, <2>1 DEF LastWord, WireWord
  <2> QED
    BY <1>6, <2>1, <2>2
<1>9. ASSUME NEW i \in 1..Len(t), \A k \in 1..Len(t) : k > i => t[k].id # t[i].id,
             ~InWire(w, t[i].id), ~In(longer, t[i].id)
      PROVE  t[i].value = s[t[i].id]
  <2>1. ~In(u, t[i].id) /\ t[i].id # change.id
    BY <1>4, <1>9
  <2>2. t[i].value = r[t[i].id]
    BY <1>9, <2>1 DEF LastWord, WireWord
  <2> QED
    BY <1>6, <2>1, <2>2
<1> HIDE DEF n
<1>10. LastWord(t, w, longer, s)
  BY <1>1, <1>7, <1>8, <1>9 DEF LastWord, WireWord
<1> QED
  BY <1>10 DEF longer, s

\* An update that is published stays the last word, or is not.
LEMMA LastWordPublished ==
  ASSUME NEW t, NEW w \in Seq(Message), NEW u \in Seq(Change), u # <<>>,
         NEW r, LastWord(t, w, u, r), NEW m \in Delta,
         m.id = Head(u).id, m.value = Head(u).value
  PROVE  /\ LastWord(t, Append(w, m), Tail(u), r)
         /\ \A id : Named(t, Append(w, m), Tail(u), id) <=> Named(t, w, u, id)
<1> DEFINE longer == Append(w, m)
           rest == Tail(u)
           n == Len(w)
           l == Len(u)
<1>1. n \in Nat /\ Len(longer) = n + 1 /\ longer[n + 1] = m /\ \A i \in 1..n : longer[i] = w[i]
  <2>1. m \in Message
    BY DEF Message
  <2> QED
    BY <2>1, AppendProperties, LenProperties
<1>2. /\ l \in Nat \ {0} /\ Len(rest) = l - 1 /\ \A i \in 1..(l - 1) : rest[i] = u[i + 1]
      /\ Head(u) = u[1]
  BY Rest
<1>3. m.kind = "delta"
  BY DEF Delta
<1>30. m \in Message
  BY DEF Message
<1>4. \A id : InWire(longer, id) <=> InWire(w, id) \/ m.id = id
  BY <1>3, <1>30, InWireAppend
<1>5. \A id : In(u, id) <=> In(rest, id) \/ m.id = id
  BY InTail
<1> HIDE DEF longer, rest
<1>6. ASSUME NEW i \in 1..(l - 1), \A k \in 1..(l - 1) : k > i => rest[k].id # rest[i].id
      PROVE  rest[i].value = r[rest[i].id]
  <2> HIDE DEF l
  <2>1. i + 1 \in 1..l /\ rest[i] = u[i + 1]
    BY <1>2
  <2>2. ASSUME NEW k \in 1..l, k > i + 1 PROVE u[k].id # u[i + 1].id
    <3>1. k - 1 \in 1..(l - 1) /\ k - 1 > i /\ (k - 1) + 1 = k
      BY <1>2, <2>1, <2>2
    <3> QED
      BY <1>2, <1>6, <2>1, <3>1
  <2>3. u[i + 1].value = r[u[i + 1].id]
    BY <2>1, <2>2 DEF LastWord, WireWord, l
  <2> QED
    BY <2>1, <2>3
<1>7. ASSUME NEW i \in 1..(n + 1), longer[i].kind = "delta",
             \A k \in 1..(n + 1) : k > i /\ longer[k].kind = "delta" => longer[k].id # longer[i].id,
             ~In(rest, longer[i].id)
      PROVE  longer[i].value = r[longer[i].id]
  <2>1. CASE i = n + 1
    <3>1. longer[i] = m /\ ~In(rest, m.id)
      BY <1>1, <1>7, <2>1
    <3>2. ASSUME NEW k \in 1..l, k > 1 PROVE u[k].id # u[1].id
      <4> HIDE DEF l
      <4>1. k - 1 \in 1..(l - 1) /\ (k - 1) + 1 = k
        BY <1>2, <3>2
      <4>2. rest[k - 1] = u[k]
        BY <1>2, <4>1
      <4> QED
        BY <1>2, <3>1, <4>1, <4>2 DEF In
    <3>3. 1 \in 1..l
      BY <1>2
    <3>4. u[1].value = r[u[1].id]
      BY <3>2, <3>3 DEF LastWord, WireWord
    <3> QED
      BY <1>2, <3>1, <3>4
  <2>2. CASE i # n + 1
    <3> HIDE DEF n
    <3>1. i \in 1..n /\ n + 1 \in 1..(n + 1) /\ n + 1 > i
      BY <1>1, <2>2
    <3>2. longer[i] = w[i] /\ w[i].id # m.id
      BY <1>1, <1>3, <1>7, <3>1
    <3>3. \A k \in 1..n : k > i /\ w[k].kind = "delta" => w[k].id # w[i].id
      <4>1. \A k \in 1..n : k \in 1..(n + 1)
        BY <1>1
      <4> QED
        BY <1>1, <1>7, <3>1, <4>1
    <3>4. ~In(u, w[i].id)
      BY <1>5, <1>7, <3>2
    <3>5. w[i].kind = "delta"
      BY <1>7, <3>2
    <3>6. w[i].value = r[w[i].id]
      BY <3>1, <3>3, <3>4, <3>5 DEF LastWord, WireWord, n
    <3> QED
      BY <3>2, <3>6
  <2> QED
    BY <2>1, <2>2
<1>8. ASSUME NEW i \in 1..Len(t), \A k \in 1..Len(t) : k > i => t[k].id # t[i].id,
             ~InWire(longer, t[i].id), ~In(rest, t[i].id)
      PROVE  t[i].value = r[t[i].id]
  <2>1. ~InWire(w, t[i].id) /\ ~In(u, t[i].id)
    BY <1>4, <1>5, <1>8
  <2> QED
    BY <1>8, <2>1 DEF LastWord, WireWord
<1>9. LastWord(t, longer, rest, r)
  <2> HIDE DEF l, n
  <2> QED
    BY <1>1, <1>2, <1>6, <1>7, <1>8 DEF LastWord, WireWord
<1>10. \A id : Named(t, longer, rest, id) <=> Named(t, w, u, id)
  BY <1>4, <1>5 DEF Named
<1> QED
  BY <1>9, <1>10 DEF longer, rest

\* An answer is no entry.
LEMMA LastWordAnswered ==
  ASSUME NEW t, NEW w \in Seq(Message), NEW u, NEW r, LastWord(t, w, u, r),
         NEW m \in Answer
  PROVE  /\ LastWord(t, Append(w, m), u, r)
         /\ \A id : Named(t, Append(w, m), u, id) <=> Named(t, w, u, id)
<1> DEFINE longer == Append(w, m)
           n == Len(w)
<1>1. n \in Nat /\ Len(longer) = n + 1 /\ longer[n + 1] = m /\ \A i \in 1..n : longer[i] = w[i]
  <2>1. m \in Message
    BY DEF Message
  <2> QED
    BY <2>1, AppendProperties, LenProperties
<1>2. m.kind # "delta"
  BY DEF Answer
<1>9. m \in Message
  BY DEF Message
<1>3. \A id : InWire(longer, id) <=> InWire(w, id)
  BY <1>2, <1>9, InWireAppend
<1> HIDE DEF longer
<1>4. ASSUME NEW i \in 1..(n + 1), longer[i].kind = "delta",
             \A k \in 1..(n + 1) : k > i /\ longer[k].kind = "delta" => longer[k].id # longer[i].id,
             ~In(u, longer[i].id)
      PROVE  longer[i].value = r[longer[i].id]
  <2> HIDE DEF n
  <2>1. i \in 1..n /\ longer[i] = w[i]
    BY <1>1, <1>2, <1>4
  <2>2. \A k \in 1..n : k > i /\ w[k].kind = "delta" => w[k].id # w[i].id
    <3>1. \A k \in 1..n : k \in 1..(n + 1)
      BY <1>1
    <3> QED
      BY <1>1, <1>4, <2>1, <3>1
  <2>3. w[i].kind = "delta" /\ ~In(u, w[i].id)
    BY <1>4, <2>1
  <2>4. w[i].value = r[w[i].id]
    BY <2>1, <2>2, <2>3 DEF LastWord, WireWord, n
  <2> QED
    BY <2>1, <2>4
<1>5. LastWord(t, longer, u, r)
  <2> HIDE DEF n
  <2> QED
    BY <1>1, <1>3, <1>4 DEF LastWord, WireWord
<1> QED
  BY <1>3, <1>5 DEF Named, longer

\* A message is taken off the wire.
LEMMA LastWordTail ==
  ASSUME NEW t, NEW w \in Seq(Message), w # <<>>, NEW u, NEW r, LastWord(t, w, u, r)
  PROVE  WireWord(Tail(w), u, r)
<1> DEFINE rest == Tail(w)
           l == Len(w)
<1>1. l \in Nat \ {0} /\ Len(rest) = l - 1 /\ \A i \in 1..(l - 1) : rest[i] = w[i + 1]
  BY Rest
<1> HIDE DEF rest
<1>2. ASSUME NEW i \in 1..(l - 1), rest[i].kind = "delta",
             \A k \in 1..(l - 1) : k > i /\ rest[k].kind = "delta" => rest[k].id # rest[i].id,
             ~In(u, rest[i].id)
      PROVE  rest[i].value = r[rest[i].id]
  <2> HIDE DEF l
  <2>1. i + 1 \in 1..l /\ rest[i] = w[i + 1]
    BY <1>1
  <2>2. ASSUME NEW k \in 1..l, k > i + 1, w[k].kind = "delta" PROVE w[k].id # w[i + 1].id
    <3>1. k - 1 \in 1..(l - 1) /\ k - 1 > i /\ (k - 1) + 1 = k
      BY <1>1, <2>1, <2>2
    <3> QED
      BY <1>1, <1>2, <2>1, <2>2, <3>1
  <2>3. w[i + 1].kind = "delta" /\ ~In(u, w[i + 1].id)
    BY <1>2, <2>1
  <2>4. w[i + 1].value = r[w[i + 1].id]
    BY <2>1, <2>2, <2>3 DEF LastWord, WireWord, l
  <2> QED
    BY <2>1, <2>4
<1> HIDE DEF l
<1>3. Len(rest) = l - 1
  BY <1>1
<1>4. WireWord(rest, u, r)
  BY <1>2, <1>3 DEF WireWord
<1> QED
  BY <1>4 DEF rest

\* A delta that is recorded.
LEMMA LastWordRecorded ==
  ASSUME NEW t \in Seq(Delta), NEW w \in Seq(Message), w # <<>>, Head(w) \in Delta,
         NEW u, NEW r, LastWord(t, w, u, r)
  PROVE  /\ LastWord(Append(t, Head(w)), Tail(w), u, r)
         /\ \A id : Named(Append(t, Head(w)), Tail(w), u, id) <=> Named(t, w, u, id)
<1> DEFINE m == Head(w)
           rest == Tail(w)
           longer == Append(t, m)
           n == Len(t)
<1>1. n \in Nat /\ Len(longer) = n + 1 /\ longer[n + 1] = m /\ \A i \in 1..n : longer[i] = t[i]
  BY AppendProperties, LenProperties
<1>2. m.kind = "delta"
  BY DEF Delta
<1>3. \A id : InWire(w, id) <=> InWire(rest, id) \/ m.id = id
  BY <1>2, InWireTail
<1>4. \A id : In(longer, id) <=> In(t, id) \/ m.id = id
  BY InAppend
<1>5. m = w[1] /\ 1 \in 1..Len(w) /\ Len(w) \in Nat /\ Len(rest) = Len(w) - 1
      /\ \A i \in 1..Len(rest) : rest[i] = w[i + 1]
  BY Rest
<1>6. WireWord(rest, u, r)
  BY LastWordTail
<1> HIDE DEF m, rest, longer
<1>7. ASSUME NEW i \in 1..(n + 1), \A k \in 1..(n + 1) : k > i => longer[k].id # longer[i].id,
             ~InWire(rest, longer[i].id), ~In(u, longer[i].id)
      PROVE  longer[i].value = r[longer[i].id]
  <2>1. CASE i = n + 1
    <3>1. longer[i] = m /\ ~InWire(rest, m.id) /\ ~In(u, m.id)
      BY <1>1, <1>7, <2>1
    <3>2. ASSUME NEW k \in 1..Len(w), k > 1, w[k].kind = "delta" PROVE w[k].id # w[1].id
      <4>1. k - 1 \in 1..Len(rest) /\ (k - 1) + 1 = k
        BY <1>5, <3>2
      <4>2. rest[k - 1] = w[k]
        BY <1>5, <4>1
      <4> QED
        BY <1>5, <3>1, <3>2, <4>1, <4>2 DEF InWire
    <3>3. w[1].value = r[w[1].id]
      BY <1>2, <1>5, <3>1, <3>2 DEF LastWord, WireWord
    <3> QED
      BY <1>5, <3>1, <3>3
  <2>2. CASE i # n + 1
    <3> HIDE DEF n
    <3>1. i \in 1..n /\ n + 1 \in 1..(n + 1) /\ n + 1 > i
      BY <1>1, <2>2
    <3>2. longer[i] = t[i] /\ t[i].id # m.id
      BY <1>1, <1>7, <3>1
    <3>3. \A k \in 1..n : k > i => t[k].id # t[i].id
      <4>1. \A k \in 1..n : k \in 1..(n + 1)
        BY <1>1
      <4> QED
        BY <1>1, <1>7, <3>1, <4>1
    <3>4. ~InWire(w, t[i].id) /\ ~In(u, t[i].id)
      BY <1>3, <1>7, <3>2
    <3>5. t[i].value = r[t[i].id]
      BY <3>1, <3>3, <3>4 DEF LastWord, WireWord, n
    <3> QED
      BY <3>2, <3>5
  <2> QED
    BY <2>1, <2>2
<1>8. LastWord(longer, rest, u, r)
  <2> HIDE DEF n
  <2> QED
    BY <1>1, <1>6, <1>7 DEF LastWord, WireWord
<1>9. \A id : Named(longer, rest, u, id) <=> Named(t, w, u, id)
  BY <1>3, <1>4 DEF Named
<1> QED
  BY <1>8, <1>9 DEF longer, rest, m

\* A delta that is applied: its row is right, or named again.
LEMMA LastWordApplied ==
  ASSUME NEW w \in Seq(Message), w # <<>>, Head(w) \in Delta,
         NEW u, NEW r, LastWord(<<>>, w, u, r)
  PROVE  /\ LastWord(<<>>, Tail(w), u, r)
         /\ \A id : Named(<<>>, w, u, id) <=> Named(<<>>, Tail(w), u, id) \/ id = Head(w).id
         /\ ~Named(<<>>, Tail(w), u, Head(w).id) => Head(w).value = r[Head(w).id]
<1> DEFINE m == Head(w)
           rest == Tail(w)
<1>1. m.kind = "delta"
  BY DEF Delta
<1>2. \A id : InWire(w, id) <=> InWire(rest, id) \/ m.id = id
  BY <1>1, InWireTail
<1>3. m = w[1] /\ 1 \in 1..Len(w) /\ Len(w) \in Nat /\ Len(rest) = Len(w) - 1
      /\ \A i \in 1..Len(rest) : rest[i] = w[i + 1]
  BY Rest
<1>4. WireWord(rest, u, r)
  BY LastWordTail
<1> HIDE DEF m, rest
<1>5. LastWord(<<>>, rest, u, r)
  BY <1>4 DEF LastWord, WireWord
<1>6. ASSUME ~Named(<<>>, rest, u, m.id) PROVE m.value = r[m.id]
  <2>1. ~InWire(rest, m.id) /\ ~In(u, m.id)
    BY <1>6 DEF Named
  <2>2. ASSUME NEW k \in 1..Len(w), k > 1, w[k].kind = "delta" PROVE w[k].id # w[1].id
    <3>1. k - 1 \in 1..Len(rest) /\ (k - 1) + 1 = k
      BY <1>3, <2>2
    <3>2. rest[k - 1] = w[k]
      BY <1>3, <3>1
    <3> QED
      BY <1>3, <2>1, <2>2, <3>1, <3>2 DEF InWire
  <2> QED
    BY <1>1, <1>3, <2>1, <2>2 DEF LastWord, WireWord
<1>7. \A id : Named(<<>>, w, u, id) <=> Named(<<>>, rest, u, id) \/ id = m.id
  BY <1>2 DEF Named
<1> QED
  BY <1>5, <1>6, <1>7 DEF m, rest

\* An answer with the recorded deltas over it: a row that is not named again is
\* the last word of a recorded delta, or was not named at all.
LEMMA LastWordCompleted ==
  ASSUME NEW t \in Seq(Delta), NEW w \in Seq(Message), w # <<>>, Head(w) \in Answer,
         NEW u, NEW r, LastWord(t, w, u, r), NEW rows \in Directory
  PROVE  /\ LastWord(<<>>, Tail(w), u, r)
         /\ \A id \in Ids : ~Named(<<>>, Tail(w), u, id) =>
              \/ PatchAll(rows, t)[id] = r[id]
              \/ ~Named(t, w, u, id) /\ ~In(t, id) /\ PatchAll(rows, t)[id] = rows[id]
<1> DEFINE rest == Tail(w)
<1>1. Head(w).kind # "delta"
  BY DEF Answer
<1>2. \A id : InWire(w, id) <=> InWire(rest, id)
  BY <1>1, InWireTail
<1>3. WireWord(rest, u, r)
  BY LastWordTail
<1> HIDE DEF rest
<1>4. LastWord(<<>>, rest, u, r)
  BY <1>3 DEF LastWord, WireWord
<1>5. ASSUME NEW id \in Ids, ~Named(<<>>, rest, u, id)
      PROVE  \/ PatchAll(rows, t)[id] = r[id]
             \/ ~Named(t, w, u, id) /\ ~In(t, id) /\ PatchAll(rows, t)[id] = rows[id]
  <2>1. ~InWire(w, id) /\ ~In(u, id)
    BY <1>2, <1>5 DEF Named
  <2>2. CASE (\A i \in 1..Len(t) : t[i].id # id) /\ PatchAll(rows, t)[id] = rows[id]
    BY <2>1, <2>2 DEF Named, In
  <2>3. CASE \E i \in 1..Len(t) :
               /\ t[i].id = id
               /\ \A k \in 1..Len(t) : k > i => t[k].id # id
               /\ PatchAll(rows, t)[id] = t[i].value
    BY <2>1, <2>3 DEF LastWord, WireWord
  <2> QED
    BY <2>2, <2>3, PatchAllValue
<1> QED
  BY <1>4, <1>5 DEF rest

\* The answer of a request that was given up.
LEMMA LastWordIgnored ==
  ASSUME NEW t, NEW w \in Seq(Message), w # <<>>, Head(w).kind # "delta",
         NEW u, NEW r, LastWord(t, w, u, r)
  PROVE  /\ LastWord(t, Tail(w), u, r)
         /\ \A id : Named(t, Tail(w), u, id) <=> Named(t, w, u, id)
<1> DEFINE rest == Tail(w)
<1>1. \A id : InWire(w, id) <=> InWire(rest, id)
  BY InWireTail
<1>2. WireWord(rest, u, r)
  BY LastWordTail
<1> HIDE DEF rest
<1>3. LastWord(t, rest, u, r)
  BY <1>1, <1>2 DEF LastWord
<1>4. \A id : Named(t, rest, u, id) <=> Named(t, w, u, id)
  BY <1>1 DEF Named
<1> QED
  BY <1>3, <1>4 DEF rest

\* A request that is given up, once the deltas are applied.
LEMMA LastWordVoided ==
  ASSUME NEW t, NEW w \in Seq(Message), NEW u, NEW r, LastWord(t, w, u, r)
  PROVE  /\ LastWord(t, Voided(w), u, r)
         /\ \A id : Named(t, Voided(w), u, id) <=> Named(t, w, u, id)
<1> DEFINE v == Voided(w)
           n == Len(w)
<1>1. /\ Len(v) = n
      /\ \A i \in 1..n : v[i] = IF w[i].kind = "answer" THEN LateAnswer ELSE w[i]
  BY VoidedWire
<1>2. LateAnswer.kind = "late"
  BY DEF LateAnswer
<1> HIDE DEF v
<1>3. \A i \in 1..n : /\ v[i].kind = "delta" <=> w[i].kind = "delta"
                      /\ w[i].kind = "delta" => v[i] = w[i]
  BY <1>1, <1>2
<1>4. \A id : InWire(v, id) <=> InWire(w, id)
  BY <1>1, <1>3 DEF InWire, n
<1>5. WireWord(v, u, r)
  <2>1. SUFFICES ASSUME NEW i \in 1..n, v[i].kind = "delta",
                        \A k \in 1..n : k > i /\ v[k].kind = "delta" => v[k].id # v[i].id,
                        ~In(u, v[i].id)
                 PROVE  v[i].value = r[v[i].id]
    BY <1>1 DEF WireWord
  <2>2. v[i] = w[i] /\ w[i].kind = "delta"
    BY <1>3, <2>1
  <2>3. ASSUME NEW k \in 1..n, k > i, w[k].kind = "delta" PROVE w[k].id # w[i].id
    BY <1>3, <2>1, <2>2, <2>3
  <2>4. WireWord(w, u, r)
    BY DEF LastWord
  <2> QED
    BY <2>1, <2>2, <2>3, <2>4 DEF WireWord, n
<1>6. LastWord(t, v, u, r)
  BY <1>4, <1>5 DEF LastWord
<1>7. \A id : Named(t, v, u, id) <=> Named(t, w, u, id)
  BY <1>4 DEF Named
<1> QED
  BY <1>6, <1>7 DEF v

LEMMA LastWordFlushed ==
  ASSUME NEW t \in Seq(Delta), NEW w \in Seq(Message),
         NEW u, NEW r, LastWord(t, w, u, r), NEW rows \in Directory
  PROVE  /\ LastWord(<<>>, w, u, r)
         /\ \A id \in Ids : ~Named(<<>>, w, u, id) =>
              \/ PatchAll(rows, t)[id] = r[id]
              \/ ~Named(t, w, u, id) /\ ~In(t, id) /\ PatchAll(rows, t)[id] = rows[id]
<1>1. LastWord(<<>>, w, u, r)
  BY DEF LastWord
<1>2. ASSUME NEW id \in Ids, ~Named(<<>>, w, u, id)
      PROVE  \/ PatchAll(rows, t)[id] = r[id]
             \/ ~Named(t, w, u, id) /\ ~In(t, id) /\ PatchAll(rows, t)[id] = rows[id]
  <2>1. ~InWire(w, id) /\ ~In(u, id)
    BY <1>2 DEF Named
  <2>2. CASE (\A i \in 1..Len(t) : t[i].id # id) /\ PatchAll(rows, t)[id] = rows[id]
    BY <2>1, <2>2 DEF Named, In
  <2>3. CASE \E i \in 1..Len(t) :
               /\ t[i].id = id
               /\ \A k \in 1..Len(t) : k > i => t[k].id # id
               /\ PatchAll(rows, t)[id] = t[i].value
    BY <2>1, <2>3 DEF LastWord
  <2> QED
    BY <2>2, <2>3, PatchAllValue
<1> QED
  BY <1>1, <1>2

-----------------------------------------------------------------------------
(* The collections that the messages on a wire were taken from.            *)

\* Message m was taken from collection c; an answer is the one to cursor cur.
TakenFrom(m, c, cur, gen) ==
  /\ m.kind = "delta" => m.value = c.value[m.id] /\ m.seq = c.seq[m.id]
  /\ m.kind = "answer" =>
       /\ m.value = c.value /\ m.head = c.head
       /\ m.mode = "snapshot" => m.touched = Ids
       /\ m.mode = "changes" =>
            /\ cur.gen = gen /\ c.expired <= cur.seq
            /\ \A id \in Ids : id \in m.touched <=> ~(c.seq[id] <= cur.seq)

\* C[0] is a collection from before the first message of w, C[j] the one that
\* message j was taken from.
Chain(C, w, cur, gen) ==
  /\ \A j \in 0..Len(w) : Sound(C[j]) /\ Distinct(C[j])
  /\ \A j \in 0..Len(w) : \A i \in 0..j : Keeps(C[j], C[i])
  /\ \A j \in 1..Len(w) : TakenFrom(w[j], C[j], cur, gen)

NoAnswers(w) == \A i \in 1..Len(w) : w[i].kind # "answer"

LEMMA ChainNothing ==
  ASSUME NEW c, Sound(c), Distinct(c), NEW cur, NEW gen
  PROVE  Chain([j \in 0..0 |-> c], <<>>, cur, gen)
<1>1. Keeps(c, c)
  BY KeepsItself
<1> DEFINE C == [j \in 0..0 |-> c]
           w == <<>>
<1>2. Len(w) = 0 /\ \A j \in 0..0 : j = 0 /\ C[j] = c
  OBVIOUS
<1> HIDE DEF C, w
<1>3. \A j \in 0..0 : \A i \in 0..j : i \in 0..0
  OBVIOUS
<1>4. 1..0 = {}
  OBVIOUS
<1>5. Chain(C, w, cur, gen)
  BY <1>1, <1>2, <1>3, <1>4 DEF Chain
<1> QED
  BY <1>5 DEF C, w

LEMMA ChainTail ==
  ASSUME NEW w \in Seq(Message), w # <<>>, NEW C, NEW cur, NEW gen, Chain(C, w, cur, gen),
         NEW next, next = cur \/ NoAnswers(Tail(w))
  PROVE  /\ Chain([j \in 0..(Len(w) - 1) |-> C[j + 1]], Tail(w), next, gen)
         /\ [j \in 0..(Len(w) - 1) |-> C[j + 1]][0] = C[1]
         /\ [j \in 0..(Len(w) - 1) |-> C[j + 1]][Len(Tail(w))] = C[Len(w)]
         /\ Sound(C[0]) /\ Sound(C[1]) /\ Distinct(C[1]) /\ Keeps(C[1], C[0])
         /\ TakenFrom(w[1], C[1], cur, gen)
<1> DEFINE D == [j \in 0..(Len(w) - 1) |-> C[j + 1]]
           rest == Tail(w)
           n == Len(w)
<1>1. n \in Nat \ {0} /\ Len(rest) = n - 1 /\ \A i \in 1..(n - 1) : rest[i] = w[i + 1]
  BY Rest
<1>2. \A j \in 0..(n - 1) : D[j] = C[j + 1]
  OBVIOUS
<1>3. 0 \in 0..(n - 1) /\ n - 1 \in 0..(n - 1) /\ (n - 1) + 1 = n /\ 0 + 1 = 1
      /\ 1 \in 0..n /\ 0 \in 0..n /\ 1 \in 1..n /\ 0 \in 0..1
  BY <1>1
<1>4. /\ \A j \in 0..n : Sound(C[j]) /\ Distinct(C[j])
      /\ \A j \in 0..n : \A i \in 0..j : Keeps(C[j], C[i])
      /\ \A j \in 1..n : TakenFrom(w[j], C[j], cur, gen)
  BY DEF Chain
<1> HIDE DEF D, rest, n
<1>5. ASSUME NEW j \in 0..(n - 1) PROVE Sound(D[j]) /\ Distinct(D[j])
  <2>1. j + 1 \in 0..n
    BY <1>1
  <2> QED
    BY <1>2, <1>4, <2>1
<1>6. ASSUME NEW j \in 0..(n - 1), NEW i \in 0..j PROVE Keeps(D[j], D[i])
  <2>1. j + 1 \in 0..n /\ i + 1 \in 0..(j + 1) /\ i \in 0..(n - 1)
    BY <1>1
  <2>2. Keeps(C[j + 1], C[i + 1])
    BY <1>4, <2>1
  <2> QED
    BY <1>2, <2>1, <2>2
<1>7. ASSUME NEW j \in 1..(n - 1) PROVE TakenFrom(rest[j], D[j], next, gen)
  <2>1. j + 1 \in 1..n /\ j \in 0..(n - 1)
    BY <1>1
  <2>2. TakenFrom(w[j + 1], C[j + 1], cur, gen)
    BY <1>4, <2>1
  <2>3. TakenFrom(rest[j], D[j], cur, gen)
    BY <1>1, <1>2, <2>1, <2>2
  <2>4. CASE next = cur
    BY <2>3, <2>4
  <2>5. CASE NoAnswers(Tail(w))
    <3>1. rest[j].kind # "answer"
      BY <1>1, <2>5 DEF NoAnswers, rest
    <3> QED
      BY <2>3, <3>1 DEF TakenFrom
  <2> QED
    BY <2>4, <2>5
<1>8. Chain(D, rest, next, gen)
  BY <1>1, <1>5, <1>6, <1>7 DEF Chain
<1>9. D[0] = C[1] /\ D[Len(rest)] = C[n]
  BY <1>1, <1>2, <1>3
<1>10. Sound(C[0]) /\ Sound(C[1]) /\ Distinct(C[1]) /\ Keeps(C[1], C[0])
       /\ TakenFrom(w[1], C[1], cur, gen)
  BY <1>3, <1>4
<1> QED
  BY <1>8, <1>9, <1>10 DEF D, rest, n

LEMMA ChainMore ==
  ASSUME NEW w \in Seq(Message), NEW C, NEW cur, NEW gen, Chain(C, w, cur, gen),
         NEW e, Keeps(e, C[Len(w)]), NEW m \in Message, TakenFrom(m, e, cur, gen)
  PROVE  \E D : /\ Chain(D, Append(w, m), cur, gen)
                /\ D[0] = C[0] /\ D[Len(Append(w, m))] = e
<1> DEFINE n == Len(w)
           longer == Append(w, m)
           D == [j \in 0..(n + 1) |-> IF j = n + 1 THEN e ELSE C[j]]
<1>1. n \in Nat /\ Len(longer) = n + 1 /\ longer[n + 1] = m /\ \A i \in 1..n : longer[i] = w[i]
  BY AppendProperties, LenProperties
<1>2. D[n + 1] = e /\ \A j \in 0..n : D[j] = C[j]
  BY <1>1
<1>3. /\ \A j \in 0..n : Sound(C[j]) /\ Distinct(C[j])
      /\ \A j \in 0..n : \A i \in 0..j : Keeps(C[j], C[i])
      /\ \A j \in 1..n : TakenFrom(w[j], C[j], cur, gen)
  BY DEF Chain
<1>4. n \in 0..n /\ 0 \in 0..n /\ Keeps(e, C[n])
  BY <1>1
<1> HIDE DEF D, longer, n
<1>5. Sound(e) /\ Distinct(e)
  BY <1>3, <1>4 DEF Keeps
<1>6. ASSUME NEW i \in 0..n PROVE Keeps(e, C[i])
  <2>1. Keeps(C[n], C[i]) /\ Sound(C[i])
    BY <1>3, <1>4
  <2> QED
    BY <1>4, <2>1, KeepsAlong
<1>7. Keeps(e, e)
  BY <1>5, KeepsItself
<1>8. ASSUME NEW j \in 0..(n + 1) PROVE Sound(D[j]) /\ Distinct(D[j])
  <2>1. j = n + 1 \/ j \in 0..n
    BY <1>1
  <2> QED
    BY <1>2, <1>3, <1>5, <2>1
<1>9. ASSUME NEW j \in 0..(n + 1), NEW i \in 0..j PROVE Keeps(D[j], D[i])
  <2>1. CASE j = n + 1
    <3>1. i = n + 1 \/ i \in 0..n
      BY <1>1, <2>1
    <3> QED
      BY <1>2, <1>6, <1>7, <2>1, <3>1
  <2>2. CASE j # n + 1
    <3>1. j \in 0..n /\ i \in 0..n
      BY <1>1, <2>2
    <3> QED
      BY <1>2, <1>3, <3>1
  <2> QED
    BY <2>1, <2>2
<1>10. ASSUME NEW j \in 1..(n + 1) PROVE TakenFrom(longer[j], D[j], cur, gen)
  <2>1. CASE j = n + 1
    BY <1>1, <1>2, <2>1
  <2>2. CASE j # n + 1
    <3>1. j \in 1..n /\ j \in 0..n
      BY <1>1, <2>2
    <3> QED
      BY <1>1, <1>2, <1>3, <3>1
  <2> QED
    BY <2>1, <2>2
<1>11. Chain(D, longer, cur, gen)
  BY <1>1, <1>8, <1>9, <1>10 DEF Chain
<1>12. D[0] = C[0] /\ D[Len(longer)] = e
  BY <1>1, <1>2, <1>4
<1> QED
  BY <1>11, <1>12 DEF longer

LEMMA ChainVoided ==
  ASSUME NEW w \in Seq(Message), NEW C, NEW cur, NEW gen, Chain(C, w, cur, gen)
  PROVE  Chain(C, Voided(w), cur, gen) /\ Len(Voided(w)) = Len(w)
<1> DEFINE v == Voided(w)
           n == Len(w)
<1>1. /\ Len(v) = n
      /\ \A i \in 1..n : v[i] = IF w[i].kind = "answer" THEN LateAnswer ELSE w[i]
  BY VoidedWire
<1>2. LateAnswer.kind = "late"
  BY DEF LateAnswer
<1> HIDE DEF v
<1>3. ASSUME NEW j \in 1..n PROVE TakenFrom(v[j], C[j], cur, gen)
  <2>1. TakenFrom(w[j], C[j], cur, gen)
    BY DEF Chain
  <2>2. CASE w[j].kind = "answer"
    <3>1. v[j].kind = "late"
      BY <1>1, <1>2, <2>2
    <3> QED
      BY <3>1 DEF TakenFrom
  <2>3. CASE w[j].kind # "answer"
    <3>1. v[j] = w[j]
      BY <1>1, <2>3
    <3> QED
      BY <2>1, <3>1
  <2> QED
    BY <2>2, <2>3
<1>4. Chain(C, v, cur, gen)
  BY <1>1, <1>3 DEF Chain
<1> QED
  BY <1>1, <1>4 DEF v

\* The answer that readAfter gives, in the words of TakenFrom.
LEMMA ReadTaken ==
  ASSUME NEW c, Sound(c), NEW cur \in Cursor
  PROVE  /\ Read(c, cur).mode = "snapshot" => Read(c, cur).touched = Ids
         /\ Read(c, cur).mode = "changes" =>
              /\ cur.gen = generation /\ c.expired <= cur.seq
              /\ \A id \in Ids : id \in Read(c, cur).touched <=> ~(c.seq[id] <= cur.seq)
<1>1. c.expired \in Nat /\ c.head \in Nat /\ c.seq \in [Ids -> Nat] /\ cur.seq \in Nat
  BY DEF Sound, Collection, Cursor
<1>2. CASE Read(c, cur) = ReadSnapshot(c)
  BY <1>2 DEF ReadSnapshot
<1>3. CASE Read(c, cur) # ReadSnapshot(c)
  <2>1. /\ cur.gen = generation
        /\ ~(cur.seq < c.expired)
        /\ Read(c, cur).mode = "changes"
        /\ Read(c, cur).touched = {id \in Ids : c.seq[id] > cur.seq}
    BY <1>3 DEF Read, ReadAfter
  <2>2. c.expired <= cur.seq
    BY <1>1, <2>1
  <2>3. \A id \in Ids : c.seq[id] > cur.seq <=> ~(c.seq[id] <= cur.seq)
    BY <1>1
  <2> QED
    BY <2>1, <2>2, <2>3
<1> QED
  BY <1>2, <1>3

\* A live delta with the next number, or one that was passed already.
LEMMA KnowsNoted ==
  ASSUME NEW c, Sound(c), Distinct(c), NEW rows \in Directory, NEW cur \in Cursor,
         NEW delta \in Delta, NEW gen, Knows(rows, cur, c, gen),
         delta.value = c.value[delta.id], delta.seq = c.seq[delta.id], ~Skips(cur, delta)
  PROVE  Knows(Patch(rows, delta), NoteCursor(cur, delta), c, gen)
<1> DEFINE new == Patch(rows, delta)
           next == NoteCursor(cur, delta)
<1>1. Knows(new, cur, c, gen)
  BY KnowsDelta
<1>2. new[delta.id] = c.value[delta.id] /\ delta.id \in Ids
  BY PatchRows DEF Delta
<1>3. /\ cur.seq \in Nat /\ cur.gen \in Nat /\ delta.seq \in Nat /\ delta.gen \in Nat
      /\ c.expired \in Nat /\ c.seq \in [Ids -> Nat]
  BY DEF Sound, Collection, Cursor, Delta
<1> HIDE DEF new
<1>4. CASE next = cur
  BY <1>1, <1>4 DEF new
<1>5. CASE next # cur
  <2>1. delta.seq # 0 /\ delta.gen = cur.gen /\ delta.seq <= cur.seq + 1
        /\ next = [gen |-> delta.gen, seq |-> delta.seq] /\ ~(cur.seq >= delta.seq)
    BY <1>5 DEF NoteCursor, WriteCursor, Skips
  <2>2. next.gen = cur.gen /\ next.seq = delta.seq /\ delta.seq = cur.seq + 1
    BY <1>3, <2>1
  <2> HIDE DEF next
  <2>3. ASSUME cur.gen = gen, c.expired <= next.seq, NEW id \in Ids, c.seq[id] <= next.seq
        PROVE  new[id] = c.value[id]
    <3>1. c.seq[delta.id] # c.expired
      BY <1>2, <2>1 DEF Distinct
    <3>2. c.expired <= cur.seq
      BY <1>3, <2>2, <2>3, <3>1
    <3>3. CASE id = delta.id
      BY <1>2, <3>3
    <3>4. CASE id # delta.id
      <4>1. c.seq[id] # delta.seq
        BY <1>2, <2>1, <3>4 DEF Distinct
      <4>2. c.seq[id] \in Nat
        BY <1>3
      <4>3. c.seq[id] <= cur.seq
        BY <1>3, <2>2, <2>3, <4>1, <4>2
      <4> QED
        BY <1>1, <2>3, <3>2, <4>3 DEF Knows
    <3> QED
      BY <3>3, <3>4
  <2>4. Knows(new, next, c, gen)
    BY <2>2, <2>3 DEF Knows
  <2> QED
    BY <2>4 DEF new, next
<1> QED
  BY <1>4, <1>5

-----------------------------------------------------------------------------
(* The invariant of an app.                                                *)

OneAnswer(w) ==
  \A i, k \in 1..Len(w) : w[i].kind = "answer" /\ w[k].kind = "answer" => i = k

\* Where its transaction t, its list request and the answer stand, on wire w.
Phased(t, phase, w, on, st, ln) ==
  /\ phase # "none" => t.open /\ NoAnswers(w)
  /\ ~t.open => NoAnswers(w) /\ t.deltas = <<>>
  /\ OneAnswer(w)
  /\ ~on => ~t.open /\ w = <<>>
  /\ st = "replayed" => on /\ ln # "fresh"

\* The collections C lead from the cursor to the collection co, and unless the
\* cursor is torn or deltas were replayed, rows and deltas agree with the first.
Way(C, w, cur, deltas, rows, st, gen, co) ==
  /\ Chain(C, w, cur, gen)
  /\ Keeps(co, C[Len(w)])
  /\ Within(cur, gen, C[0].head)
  /\ \A i \in 1..Len(deltas) : deltas[i].gen = gen /\ deltas[i].seq <= C[0].head
  /\ st = "sound" => Knows(PatchAll(rows, deltas), cur, C[0], gen)

\* Unless an update of it is recorded, on the wire or queued, an id is as the
\* registry r says: in what was listed, in what was answered, and in the rows of
\* an app that an answer covered.
Heard(deltas, w, u, r, req, ln, rows) ==
  /\ LastWord(deltas, w, u, r)
  /\ req.phase = "listed" =>
       \A id \in Ids : ~Named(deltas, w, u, id) => req.snapshot[id] = r[id]
  /\ \A i \in 1..Len(w) : w[i].kind = "answer" =>
       \A id \in Ids : ~Named(deltas, w, u, id) => w[i].value[id] = r[id]
  /\ ln = "covered" => \A id \in Ids : ~Named(deltas, w, u, id) => rows[id] = r[id]

AppInv(c) ==
  /\ Phased(transaction[c], request[c].phase, wire[c], online[c], standing[c], link[c])
  /\ \E C : Way(C, wire[c], cursor[c], transaction[c].deltas, replica[c], standing[c],
                generation, coll)
  /\ online[c] /\ link[c] # "late" =>
       Heard(transaction[c].deltas, wire[c], updates[c], registry, request[c], link[c], replica[c])

DirectoryInv == TypesInv /\ Distinct(coll) /\ \A c \in Clients : AppInv(c)

-----------------------------------------------------------------------------
(* The properties from the invariant.                                      *)

LEMMA CurrentFromInvariant == DirectoryInv => ReplicaCurrent
<1> SUFFICES ASSUME DirectoryInv, NEW c \in Clients, Quiet(c), link[c] = "covered"
             PROVE  replica[c] = registry
  BY DEF ReplicaCurrent
<1>1. Types /\ AppInv(c)
  BY DEF DirectoryInv, TypesInv
<1>2. online[c] /\ ~transaction[c].open /\ updates[c] = <<>> /\ wire[c] = <<>>
      /\ transaction[c].deltas = <<>>
  BY <1>1 DEF Quiet, AppInv, Phased
<1>3. Heard(<<>>, <<>>, <<>>, registry, request[c], link[c], replica[c])
  BY <1>1, <1>2 DEF AppInv
<1>4. \A id \in Ids : ~Named(<<>>, <<>>, <<>>, id)
  BY InNothing DEF Named
<1>5. \A id \in Ids : replica[c][id] = registry[id]
  BY <1>3, <1>4 DEF Heard
<1>6. replica[c] \in [Ids -> Values \cup {Absent}] /\ registry \in [Ids -> Values \cup {Absent}]
  BY <1>1 DEF Types, Directory
<1> QED
  BY <1>5, <1>6

LEMMA CatchesUpFromInvariant == DirectoryInv => ReconnectCatchesUp
<1> SUFFICES ASSUME DirectoryInv, NEW c \in Clients, ~online[c], standing[c] # "torn"
             PROVE  AfterReconnect(c) = registry
  BY DEF ReconnectCatchesUp
<1>1. Types /\ AppInv(c)
  BY DEF DirectoryInv, TypesInv
<1>2. /\ replica[c] \in Directory /\ cursor[c] \in Cursor /\ registry \in Directory
      /\ Sound(coll) /\ standing[c] \in {"sound", "replayed", "torn"}
  BY <1>1 DEF Types
<1>3. wire[c] = <<>> /\ transaction[c].deltas = <<>> /\ standing[c] = "sound"
  BY <1>1, <1>2 DEF AppInv, Phased
<1>4. PICK C : Way(C, wire[c], cursor[c], transaction[c].deltas, replica[c], standing[c],
                   generation, coll)
  BY <1>1 DEF AppInv
<1>5. Len(wire[c]) = 0 /\ 0 \in 0..0
  BY <1>3
<1> DEFINE first == C[0]
<1>6. /\ Sound(first) /\ Keeps(coll, first) /\ Within(cursor[c], generation, first.head)
      /\ Knows(replica[c], cursor[c], first, generation)
  BY <1>2, <1>3, <1>4, <1>5, PatchNothing DEF Way, Chain
<1> HIDE DEF first
<1>7. Knows(replica[c], cursor[c], coll, generation)
  BY <1>2, <1>6, KnowsLater
<1>8. Within(cursor[c], generation, coll.head)
  BY <1>1 DEF DirectoryInv, TypesInv, Numbers
<1> DEFINE next == ReplaceAll(coll, registry)
<1>9. Keeps(next, coll) /\ next.value = registry
  BY <1>2, ReplaceAllResult
<1> HIDE DEF next
<1>10. Sound(next) /\ Knows(replica[c], cursor[c], next, generation)
  BY <1>2, <1>7, <1>8, <1>9, KnowsLater DEF Keeps
<1>11. Apply(replica[c], Read(next, cursor[c])) = registry
  BY <1>2, <1>9, <1>10, ReadExact
<1> QED
  BY <1>11 DEF AfterReconnect, next

-----------------------------------------------------------------------------
(* The steps, for the app that takes them and for the others.              *)

LEMMA EmptyDistinct == Distinct(EmptyCollection)
BY DEF Distinct, EmptyCollection

LEMMA DirectoryInit == Init => DirectoryInv
<1> SUFFICES ASSUME Init PROVE DirectoryInv
  OBVIOUS
<1>1. TypesInv /\ Sound(coll) /\ Distinct(coll)
  BY InitTypes, EmptyDistinct, EmptySound DEF Init
<1>2. ASSUME NEW c \in Clients PROVE AppInv(c)
  <2> DEFINE C == [j \in 0..0 |-> coll]
  <2>1. /\ wire[c] = <<>> /\ transaction[c] = NoTransaction /\ request[c] = NoRequest
        /\ ~online[c] /\ standing[c] = "sound" /\ replica[c] = Empty /\ generation = 1
        /\ cursor[c] = [gen |-> 0, seq |-> 0]
    BY DEF Init
  <2>2. Chain(C, <<>>, cursor[c], generation)
    BY <1>1, ChainNothing
  <2>3. C[0] = coll
    OBVIOUS
  <2> HIDE DEF C
  <2>4. Keeps(coll, coll)
    BY <1>1, KeepsItself
  <2>5. cursor[c].gen # generation /\ cursor[c].gen <= generation
    BY <2>1
  <2>6. Way(C, <<>>, cursor[c], <<>>, replica[c], "sound", generation, coll)
    BY <2>2, <2>3, <2>4, <2>5 DEF Way, Within, Knows
  <2>7. Phased(transaction[c], request[c].phase, wire[c], online[c], standing[c], link[c])
    BY <2>1 DEF Phased, NoTransaction, NoRequest, NoAnswers, OneAnswer
  <2> QED
    BY <2>1, <2>6, <2>7 DEF AppInv, NoTransaction
<1> QED
  BY <1>1, <1>2 DEF DirectoryInv

LEMMA WayLater ==
  ASSUME NEW C, NEW w \in Seq(Message), NEW cur, NEW deltas, NEW rows, NEW st, NEW gen, NEW co,
         Way(C, w, cur, deltas, rows, st, gen, co), NEW next, Keeps(next, co), Sound(co)
  PROVE  Way(C, w, cur, deltas, rows, st, gen, next)
<1>1. Len(w) \in 0..Len(w)
  BY LenProperties
<1>2. Sound(C[Len(w)]) /\ Keeps(co, C[Len(w)])
  BY <1>1 DEF Way, Chain
<1>3. Keeps(next, C[Len(w)])
  BY <1>2, KeepsAlong
<1> QED
  BY <1>3 DEF Way

\* A step that does not concern app d.
LEMMA Unaffected ==
  ASSUME Types, NEW d \in Clients, AppInv(d), Keeps(coll', coll), generation' = generation,
         registry' = registry, updates'[d] = updates[d], request'[d] = request[d],
         wire'[d] = wire[d], online'[d] = online[d], replica'[d] = replica[d],
         cursor'[d] = cursor[d], transaction'[d] = transaction[d],
         standing'[d] = standing[d], link'[d] = link[d]
  PROVE  AppInv(d)'
<1>1. PICK C : Way(C, wire[d], cursor[d], transaction[d].deltas, replica[d], standing[d],
                   generation, coll)
  BY DEF AppInv
<1>2. wire[d] \in Seq(Message) /\ Sound(coll)
  BY DEF Types
<1>3. Way(C, wire[d], cursor[d], transaction[d].deltas, replica[d], standing[d],
          generation, coll')
  BY <1>1, <1>2, WayLater
<1>4. Way(C, wire'[d], cursor'[d], transaction'[d].deltas, replica'[d], standing'[d],
          generation', coll')
  BY <1>3
<1> QED
  BY <1>4 DEF AppInv

\* Nothing happens to the collection.
LEMMA SameKeeps ==
  ASSUME Types, coll' = coll
  PROVE  Keeps(coll', coll)
BY KeepsItself DEF Types

LEMMA AnswersTail ==
  ASSUME NEW w \in Seq(Message), w # <<>>, OneAnswer(w)
  PROVE  /\ OneAnswer(Tail(w))
         /\ NoAnswers(w) => NoAnswers(Tail(w))
         /\ Head(w).kind = "answer" => NoAnswers(Tail(w))
         /\ \A i \in 1..Len(Tail(w)) : \E k \in 1..Len(w) : w[k] = Tail(w)[i]
<1> DEFINE rest == Tail(w)
           n == Len(w)
<1>1. n \in Nat \ {0} /\ Len(rest) = n - 1 /\ \A i \in 1..(n - 1) : rest[i] = w[i + 1]
  BY Rest
<1>2. Head(w) = w[1] /\ 1 \in 1..n /\ \A i \in 1..(n - 1) : i + 1 \in 1..n /\ i + 1 # 1
  BY <1>1, Rest
<1>3. \A i, k \in 1..n : w[i].kind = "answer" /\ w[k].kind = "answer" => i = k
  BY DEF OneAnswer
<1> HIDE DEF rest, n
<1>4. OneAnswer(rest)
  <2>1. SUFFICES ASSUME NEW i \in 1..(n - 1), NEW k \in 1..(n - 1),
                        rest[i].kind = "answer", rest[k].kind = "answer"
                 PROVE  i = k
    BY <1>1 DEF OneAnswer
  <2>2. i + 1 = k + 1
    BY <1>1, <1>2, <1>3, <2>1
  <2> QED
    BY <2>2
<1>5. NoAnswers(w) => NoAnswers(rest)
  BY <1>1, <1>2 DEF NoAnswers, n
<1>6. Head(w).kind = "answer" => NoAnswers(rest)
  BY <1>1, <1>2, <1>3 DEF NoAnswers
<1>7. \A i \in 1..Len(rest) : \E k \in 1..n : w[k] = rest[i]
  BY <1>1, <1>2
<1> QED
  BY <1>4, <1>5, <1>6, <1>7 DEF rest, n

LEMMA AnswersSent ==
  ASSUME NEW w \in Seq(Message), NEW m \in Message
  PROVE  /\ NoAnswers(w) /\ m.kind # "answer" => NoAnswers(Append(w, m))
         /\ OneAnswer(w) /\ m.kind # "answer" => OneAnswer(Append(w, m))
         /\ NoAnswers(w) => OneAnswer(Append(w, m))
         /\ \A i \in 1..Len(Append(w, m)) :
              Append(w, m)[i] = m \/ \E k \in 1..Len(w) : w[k] = Append(w, m)[i]
<1> DEFINE longer == Append(w, m)
           n == Len(w)
<1>1. n \in Nat /\ Len(longer) = n + 1 /\ longer[n + 1] = m /\ \A i \in 1..n : longer[i] = w[i]
  BY AppendProperties, LenProperties
<1>2. \A i \in 1..(n + 1) : i = n + 1 \/ i \in 1..n
  BY <1>1
<1> HIDE DEF longer, n
<1>3. NoAnswers(w) /\ m.kind # "answer" => NoAnswers(longer)
  BY <1>1, <1>2 DEF NoAnswers, n
<1>4. OneAnswer(w) /\ m.kind # "answer" => OneAnswer(longer)
  BY <1>1, <1>2 DEF OneAnswer, n
<1>5. NoAnswers(w) => OneAnswer(longer)
  BY <1>1, <1>2 DEF NoAnswers, OneAnswer, n
<1>6. \A i \in 1..Len(longer) : longer[i] = m \/ \E k \in 1..n : w[k] = longer[i]
  BY <1>1, <1>2
<1> QED
  BY <1>3, <1>4, <1>5, <1>6 DEF longer, n

LEMMA AnswersVoided ==
  ASSUME NEW w \in Seq(Message)
  PROVE  NoAnswers(Voided(w)) /\ OneAnswer(Voided(w))
<1>1. \A i \in 1..Len(Voided(w)) : Voided(w)[i].kind # "answer"
  <2>1. LateAnswer.kind # "answer"
    BY DEF LateAnswer
  <2> QED
    BY <2>1, VoidedWire
<1> QED
  BY <1>1 DEF NoAnswers, OneAnswer

\* What is heard stays so while the same ids are named.
LEMMA HeardStill ==
  ASSUME NEW t, NEW w, NEW u, NEW r, NEW req, NEW ln, NEW rows, Heard(t, w, u, r, req, ln, rows),
         NEW t2, NEW w2, NEW u2, NEW req2, LastWord(t2, w2, u2, r),
         \A id : Named(t2, w2, u2, id) <=> Named(t, w, u, id),
         \A i \in 1..Len(w2) : w2[i].kind = "answer" => \E k \in 1..Len(w) : w[k] = w2[i],
         req2 = req \/ req2.phase # "listed"
  PROVE  Heard(t2, w2, u2, r, req2, ln, rows)
<1>1. ASSUME NEW i \in 1..Len(w2), w2[i].kind = "answer", NEW id \in Ids, ~Named(t2, w2, u2, id)
      PROVE  w2[i].value[id] = r[id]
  <2>1. PICK k \in 1..Len(w) : w[k] = w2[i]
    BY <1>1
  <2> QED
    BY <1>1, <2>1 DEF Heard
<1>2. req2.phase = "listed" =>
        \A id \in Ids : ~Named(t2, w2, u2, id) => req2.snapshot[id] = r[id]
  BY DEF Heard
<1>3. ln = "covered" => \A id \in Ids : ~Named(t2, w2, u2, id) => rows[id] = r[id]
  BY DEF Heard
<1> QED
  BY <1>1, <1>2, <1>3 DEF Heard

LEMMA HeardEdited ==
  ASSUME NEW t, NEW w \in Seq(Message), NEW u \in Seq(Change), NEW r \in Directory,
         NEW req, NEW ln, NEW rows, Heard(t, w, u, r, req, ln, rows), NEW change \in Change
  PROVE  Heard(t, w, Append(u, change), [r EXCEPT ![change.id] = change.value], req, ln, rows)
<1> DEFINE more == Append(u, change)
           s == [r EXCEPT ![change.id] = change.value]
<1>1. LastWord(t, w, more, s)
  BY LastWordEdited DEF Heard
<1>2. ASSUME NEW id \in Ids, ~Named(t, w, more, id)
      PROVE  ~Named(t, w, u, id) /\ s[id] = r[id]
  <2>1. In(more, id) <=> In(u, id) \/ change.id = id
    BY InAppend
  <2>2. id # change.id /\ ~Named(t, w, u, id)
    BY <1>2, <2>1 DEF Named
  <2> QED
    BY <2>2 DEF Directory
<1> HIDE DEF more, s
<1>3. Heard(t, w, more, s, req, ln, rows)
  BY <1>1, <1>2 DEF Heard
<1> QED
  BY <1>3 DEF more, s

LEMMA EditApp ==
  ASSUME DirectoryInv, NEW id \in Ids, NEW v \in Values \cup {Absent}, Edit(id, v),
         NEW c \in Clients
  PROVE  AppInv(c)'
<1> DEFINE change == [id |-> id, value |-> v]
<1>1. Types /\ AppInv(c)
  BY DEF DirectoryInv, TypesInv
<1>2. /\ wire[c] \in Seq(Message) /\ updates[c] \in Seq(Change) /\ registry \in Directory
      /\ change \in Change
  BY <1>1 DEF Types, Sessions, Change
<1>3. /\ registry' = [registry EXCEPT ![change.id] = change.value]
      /\ online[c] => updates'[c] = Append(updates[c], change)
  BY DEF Edit, Wants, Sessions
<1>4. UNCHANGED <<generation, coll, lists, wire, online, app>>
  BY DEF Edit
<1> HIDE DEF change
<1>5. online[c] /\ link[c] # "late" =>
        Heard(transaction[c].deltas, wire[c], updates'[c], registry', request[c], link[c], replica[c])
  BY <1>1, <1>2, <1>3, HeardEdited DEF AppInv
<1> QED
  BY <1>1, <1>4, <1>5 DEF AppInv, lists, app

LEMMA PublishApp ==
  ASSUME DirectoryInv, NEW c \in Clients, PublishUpdate(c)
  PROVE  AppInv(c)'
<1> DEFINE change == Head(updates[c])
           m == [kind |-> "delta", id |-> change.id, value |-> change.value,
                 gen |-> generation, seq |-> coll'.seq[change.id]]
<1>1. Types /\ AppInv(c) /\ TypesInv
  BY DEF DirectoryInv, TypesInv
<1>2. /\ Keeps(coll', coll) /\ coll' = Sequence(change) /\ change \in Change
      /\ wire' = [wire EXCEPT ![c] = Append(@, m)]
  BY <1>1, PublishTypes
<1>3. wire'[c] = Append(wire[c], m) /\ wire[c] \in Seq(Message)
  BY <1>1, <1>2 DEF Types
<1>4. updates'[c] = Tail(updates[c]) /\ updates[c] \in Seq(Change) /\ updates[c] # <<>> /\ online[c]
  BY <1>1 DEF PublishUpdate, Types, Sessions
<1>5. UNCHANGED <<registry, generation, lists, online, app>>
  BY DEF PublishUpdate
<1>6. coll'.value = [coll.value EXCEPT ![change.id] = change.value]
  BY <1>1, <1>2, SequenceResult DEF Types
<1> HIDE DEF change
<1>7. m \in Delta /\ m \in Message /\ m.id = change.id /\ m.value = change.value
  <2>1. generation \in Nat
    BY <1>1, CollNat
  <2>2. coll'.seq[change.id] \in Nat
    BY <1>2 DEF Keeps, Sound, Collection, Change
  <2> QED
    BY <1>2, <2>1, <2>2 DEF Delta, Change, Message
<1>8. m.kind = "delta" /\ m.seq = coll'.seq[m.id] /\ m.value = coll'.value[m.id]
  BY <1>1, <1>2, <1>6 DEF Change, Types, Sound, Collection, Directory
<1> HIDE DEF m
<1>9. PICK C : Way(C, wire[c], cursor[c], transaction[c].deltas, replica[c], standing[c],
                   generation, coll)
  BY <1>1 DEF AppInv
<1>10. Keeps(coll', C[Len(wire[c])])
  <2>1. Way(C, wire[c], cursor[c], transaction[c].deltas, replica[c], standing[c],
            generation, coll')
    BY <1>1, <1>2, <1>3, <1>9, WayLater DEF Types
  <2> QED
    BY <2>1 DEF Way
<1>11. TakenFrom(m, coll', cursor[c], generation)
  BY <1>8 DEF TakenFrom
<1>12. Chain(C, wire[c], cursor[c], generation)
  BY <1>9 DEF Way
<1>13. PICK D : /\ Chain(D, Append(wire[c], m), cursor[c], generation)
                /\ D[0] = C[0] /\ D[Len(Append(wire[c], m))] = coll'
  BY <1>3, <1>7, <1>10, <1>11, <1>12, ChainMore
<1>14. Keeps(coll', coll')
  BY <1>2, KeepsItself DEF Keeps
<1>15. Way(D, Append(wire[c], m), cursor[c], transaction[c].deltas, replica[c], standing[c],
           generation, coll')
  BY <1>9, <1>13, <1>14 DEF Way
<1>16. Phased(transaction[c], request[c].phase, Append(wire[c], m), online[c], standing[c], link[c])
  <2>1. m.kind # "answer"
    BY <1>8
  <2> QED
    BY <1>1, <1>3, <1>4, <1>7, <2>1, AnswersSent DEF AppInv, Phased
<1>17. link[c] # "late" =>
         Heard(transaction[c].deltas, Append(wire[c], m), Tail(updates[c]), registry, request[c],
               link[c], replica[c])
  <2>1. SUFFICES ASSUME Heard(transaction[c].deltas, wire[c], updates[c], registry, request[c],
                              link[c], replica[c])
                 PROVE  Heard(transaction[c].deltas, Append(wire[c], m), Tail(updates[c]), registry,
                              request[c], link[c], replica[c])
    BY <1>1, <1>4 DEF AppInv
  <2>2. LastWord(transaction[c].deltas, wire[c], updates[c], registry)
    BY <2>1 DEF Heard
  <2>3. /\ LastWord(transaction[c].deltas, Append(wire[c], m), Tail(updates[c]), registry)
        /\ \A id : Named(transaction[c].deltas, Append(wire[c], m), Tail(updates[c]), id)
                     <=> Named(transaction[c].deltas, wire[c], updates[c], id)
    BY <1>3, <1>4, <1>7, <2>2, LastWordPublished DEF change
  <2>4. \A i \in 1..Len(Append(wire[c], m)) : Append(wire[c], m)[i].kind = "answer" =>
          \E k \in 1..Len(wire[c]) : wire[c][k] = Append(wire[c], m)[i]
    BY <1>3, <1>7, <1>8, AnswersSent
  <2> QED
    BY <2>1, <2>3, <2>4, HeardStill
<1>18. Way(D, wire'[c], cursor'[c], transaction'[c].deltas, replica'[c], standing'[c],
           generation', coll')
  BY <1>3, <1>5, <1>15 DEF app
<1> QED
  BY <1>3, <1>4, <1>5, <1>16, <1>17, <1>18 DEF AppInv, lists, app

LEMMA SynchronizeApp ==
  ASSUME DirectoryInv, NEW c \in Clients, Synchronize(c)
  PROVE  AppInv(c)'
<1> DEFINE m == Answered(c, coll')
<1>1. Types /\ AppInv(c) /\ TypesInv
  BY DEF DirectoryInv, TypesInv
<1>2. /\ Keeps(coll', coll) /\ coll'.value = request[c].snapshot /\ m \in Answer
      /\ wire' = [wire EXCEPT ![c] = Append(@, m)]
  BY <1>1, SynchronizeTypes
<1>3. wire'[c] = Append(wire[c], m) /\ wire[c] \in Seq(Message) /\ cursor[c] \in Cursor
  BY <1>1, <1>2 DEF Types
<1>4. UNCHANGED <<registry, generation, updates, abandoned, online, app>>
      /\ request'[c] = NoRequest /\ request[c].phase = "listed"
  BY <1>1 DEF Synchronize, Types
<1>5. Sound(coll')
  BY <1>2 DEF Keeps
<1>6. TakenFrom(m, coll', cursor[c], generation)
  BY <1>3, <1>5, ReadTaken, ReadAnswer DEF TakenFrom, Answered
<1>7. m \in Message /\ m.kind = "answer" /\ m.value = request[c].snapshot
  BY <1>2, <1>5, ReadAnswer DEF Message, Answered
<1> HIDE DEF m
<1>8. transaction[c].open /\ NoAnswers(wire[c]) /\ online[c]
  <2>1. Phased(transaction[c], request[c].phase, wire[c], online[c], standing[c], link[c])
    BY <1>1 DEF AppInv
  <2>2. transaction[c].open \in BOOLEAN /\ online[c] \in BOOLEAN
    BY <1>1 DEF Types
  <2> QED
    BY <1>4, <2>1, <2>2 DEF Phased
<1>9. PICK C : Way(C, wire[c], cursor[c], transaction[c].deltas, replica[c], standing[c],
                   generation, coll)
  BY <1>1 DEF AppInv
<1>10. Keeps(coll', C[Len(wire[c])])
  <2>1. Way(C, wire[c], cursor[c], transaction[c].deltas, replica[c], standing[c],
            generation, coll')
    BY <1>1, <1>2, <1>3, <1>9, WayLater DEF Types
  <2> QED
    BY <2>1 DEF Way
<1>11. Chain(C, wire[c], cursor[c], generation)
  BY <1>9 DEF Way
<1>12. PICK D : /\ Chain(D, Append(wire[c], m), cursor[c], generation)
                /\ D[0] = C[0] /\ D[Len(Append(wire[c], m))] = coll'
  BY <1>3, <1>6, <1>7, <1>10, <1>11, ChainMore
<1>13. Keeps(coll', coll')
  BY <1>5, KeepsItself
<1>14. Way(D, Append(wire[c], m), cursor[c], transaction[c].deltas, replica[c], standing[c],
           generation, coll')
  BY <1>9, <1>12, <1>13 DEF Way
<1>15. Phased(transaction[c], "none", Append(wire[c], m), online[c], standing[c], link[c])
  BY <1>1, <1>3, <1>7, <1>8, AnswersSent DEF AppInv, Phased
<1>16. link[c] # "late" =>
         Heard(transaction[c].deltas, Append(wire[c], m), updates[c], registry, NoRequest,
               link[c], replica[c])
  <2> DEFINE t == transaction[c].deltas
             w == wire[c]
             u == updates[c]
             longer == Append(wire[c], m)
  <2>1. SUFFICES ASSUME Heard(t, w, u, registry, request[c], link[c], replica[c])
                 PROVE  Heard(t, longer, u, registry, NoRequest, link[c], replica[c])
    BY <1>1, <1>8 DEF AppInv
  <2>2. LastWord(t, w, u, registry)
    BY <2>1 DEF Heard
  <2>3. /\ LastWord(t, longer, u, registry)
        /\ \A id : Named(t, longer, u, id) <=> Named(t, w, u, id)
    BY <1>2, <1>3, <2>2, LastWordAnswered
  <2>4. \A i \in 1..Len(longer) : longer[i] = m \/ longer[i].kind # "answer"
    <3>1. \A i \in 1..Len(longer) : longer[i] = m \/ \E k \in 1..Len(w) : w[k] = longer[i]
      BY <1>3, <1>7, AnswersSent
    <3> QED
      BY <1>8, <3>1 DEF NoAnswers
  <2> HIDE DEF t, w, u, longer
  <2>5. \A id \in Ids : ~Named(t, longer, u, id) => m.value[id] = registry[id]
    BY <1>4, <1>7, <2>1, <2>3 DEF Heard
  <2>6. NoRequest.phase # "listed"
    BY DEF NoRequest
  <2>7. link[c] = "covered" => \A id \in Ids : ~Named(t, longer, u, id) => replica[c][id] = registry[id]
    BY <2>1, <2>3 DEF Heard
  <2> QED
    BY <2>3, <2>4, <2>5, <2>6, <2>7 DEF Heard
<1>17. Way(D, wire'[c], cursor'[c], transaction'[c].deltas, replica'[c], standing'[c],
           generation', coll')
  BY <1>3, <1>4, <1>14 DEF app
<1>18. NoRequest.phase = "none"
  BY DEF NoRequest
<1> QED
  BY <1>3, <1>4, <1>15, <1>16, <1>17, <1>18 DEF AppInv, app

LEMMA ListApp ==
  ASSUME DirectoryInv, NEW c \in Clients, List(c)
  PROVE  AppInv(c)'
<1> DEFINE req == [phase |-> "listed", snapshot |-> registry]
<1>1. Types /\ AppInv(c)
  BY DEF DirectoryInv, TypesInv
<1>2. request'[c] = req /\ request[c].phase = "sent"
      /\ UNCHANGED <<daemon, updates, abandoned, wire, online, app>>
  BY <1>1 DEF List, Types
<1>3. req.phase = "listed" /\ req.snapshot = registry
  OBVIOUS
<1> HIDE DEF req
<1>4. Phased(transaction[c], req.phase, wire[c], online[c], standing[c], link[c])
  BY <1>1, <1>2, <1>3 DEF AppInv, Phased
<1>5. online[c] /\ link[c] # "late" =>
        Heard(transaction[c].deltas, wire[c], updates[c], registry, req, link[c], replica[c])
  BY <1>1, <1>3 DEF AppInv, Heard
<1> QED
  BY <1>1, <1>2, <1>4, <1>5 DEF AppInv, daemon, app

LEMMA RefuseApp ==
  ASSUME DirectoryInv, NEW c \in Clients, RefuseList(c)
  PROVE  AppInv(c)'
<1>1. Types /\ AppInv(c)
  BY DEF DirectoryInv, TypesInv
<1>2. request'[c] = NoRequest
      /\ UNCHANGED <<daemon, updates, abandoned, wire, online, app>>
  BY <1>1 DEF RefuseList, Types
<1>3. NoRequest.phase = "none"
  BY DEF NoRequest
<1>4. Phased(transaction[c], NoRequest.phase, wire[c], online[c], standing[c], link[c])
  BY <1>1, <1>3 DEF AppInv, Phased
<1>5. online[c] /\ link[c] # "late" =>
        Heard(transaction[c].deltas, wire[c], updates[c], registry, NoRequest, link[c], replica[c])
  BY <1>1, <1>3 DEF AppInv, Heard
<1> QED
  BY <1>1, <1>2, <1>4, <1>5 DEF AppInv, daemon, app

LEMMA SkipApp ==
  ASSUME DirectoryInv, NEW c \in Clients, SkipUpdate(c)
  PROVE  AppInv(c)'
<1>1. AppInv(c)
  BY DEF DirectoryInv
<1>2. UNCHANGED <<daemon, lists, wire, online, app, used>> /\ ~online[c]
  BY DEF SkipUpdate
<1> QED
  BY <1>1, <1>2 DEF AppInv, daemon, lists, app

\* A transaction begins with nothing recorded.
LEMMA BegunWay ==
  ASSUME DirectoryInv, NEW c \in Clients, ~transaction[c].open, Begin(c),
         UNCHANGED <<generation, coll, wire, cursor, replica, standing>>
  PROVE  /\ \E C : Way(C, wire'[c], cursor'[c], transaction'[c].deltas, replica'[c], standing'[c],
                       generation', coll')
         /\ transaction[c].deltas = <<>> /\ NoAnswers(wire[c])
         /\ transaction'[c].deltas = <<>> /\ transaction'[c].open /\ request'[c].phase = "sent"
<1>1. Types /\ AppInv(c)
  BY DEF DirectoryInv, TypesInv
<1>2. transaction[c].deltas = <<>> /\ NoAnswers(wire[c])
  BY <1>1 DEF AppInv, Phased
<1>3. transaction'[c] = [open |-> TRUE, deltas |-> <<>>]
      /\ request'[c] = [phase |-> "sent", snapshot |-> Empty]
  BY <1>1, BegunTypes
<1>4. PICK C : Way(C, wire[c], cursor[c], transaction[c].deltas, replica[c], standing[c],
                   generation, coll)
  BY <1>1 DEF AppInv
<1>5. Way(C, wire'[c], cursor'[c], transaction'[c].deltas, replica'[c], standing'[c],
          generation', coll')
  BY <1>2, <1>3, <1>4
<1> QED
  BY <1>2, <1>3, <1>5

LEMMA ConnectApp ==
  ASSUME DirectoryInv, NEW c \in Clients, Connect(c)
  PROVE  AppInv(c)'
<1>1. Types /\ AppInv(c)
  BY DEF DirectoryInv, TypesInv
<1>2. /\ ~online[c] /\ Begin(c) /\ online'[c] /\ online'[c] \in BOOLEAN
      /\ link'[c] = IF updates[c] = <<>> THEN "fresh" ELSE "late"
      /\ UNCHANGED <<daemon, updates, abandoned, wire, replica, cursor, standing, used>>
  BY <1>1 DEF Connect, Types
<1>3. ~transaction[c].open /\ wire[c] = <<>> /\ standing[c] # "replayed"
  BY <1>1, <1>2 DEF AppInv, Phased
<1>4. /\ \E C : Way(C, wire'[c], cursor'[c], transaction'[c].deltas, replica'[c], standing'[c],
                    generation', coll')
      /\ NoAnswers(wire[c])
      /\ transaction'[c].deltas = <<>> /\ transaction'[c].open /\ request'[c].phase = "sent"
  BY <1>2, <1>3, BegunWay DEF daemon
<1>5. Phased(transaction'[c], request'[c].phase, wire'[c], online'[c], standing'[c], link'[c])
  <2>1. OneAnswer(wire[c])
    BY <1>1 DEF AppInv, Phased
  <2> QED
    BY <1>2, <1>3, <1>4, <2>1 DEF Phased
<1>6. ASSUME link'[c] # "late"
      PROVE  Heard(transaction'[c].deltas, wire'[c], updates'[c], registry', request'[c], link'[c],
                   replica'[c])
  <2>1. link'[c] = "fresh" /\ updates'[c] = <<>> /\ wire'[c] = <<>>
    BY <1>2, <1>3, <1>6
  <2>2. LastWord(<<>>, <<>>, <<>>, registry')
    BY DEF LastWord, WireWord
  <2>3. Len(wire'[c]) = 0
    BY <2>1
  <2> QED
    BY <1>4, <2>1, <2>2, <2>3 DEF Heard
<1> QED
  BY <1>4, <1>5, <1>6 DEF AppInv

LEMMA RefreshApp ==
  ASSUME DirectoryInv, NEW c \in Clients, Refresh(c)
  PROVE  AppInv(c)'
<1>1. Types /\ AppInv(c)
  BY DEF DirectoryInv, TypesInv
<1>2. /\ online[c] /\ ~transaction[c].open /\ Begin(c)
      /\ UNCHANGED <<daemon, updates, abandoned, wire, online, replica, cursor, standing, link>>
  BY DEF Refresh
<1>4. /\ \E C : Way(C, wire'[c], cursor'[c], transaction'[c].deltas, replica'[c], standing'[c],
                    generation', coll')
      /\ transaction[c].deltas = <<>> /\ NoAnswers(wire[c])
      /\ transaction'[c].deltas = <<>> /\ transaction'[c].open /\ request'[c].phase = "sent"
  BY <1>2, BegunWay DEF daemon
<1>5. Phased(transaction'[c], request'[c].phase, wire'[c], online'[c], standing'[c], link'[c])
  BY <1>1, <1>2, <1>4 DEF AppInv, Phased
<1>6. link'[c] # "late" =>
        Heard(transaction'[c].deltas, wire'[c], updates'[c], registry', request'[c], link'[c],
              replica'[c])
  BY <1>1, <1>2, <1>4 DEF AppInv, Heard, daemon
<1> QED
  BY <1>4, <1>5, <1>6 DEF AppInv

\* The next message of app c, and the collections from it on.
LEMMA NextMessage ==
  ASSUME DirectoryInv, NEW c \in Clients, wire[c] # <<>>, NEW next,
         next = cursor[c] \/ NoAnswers(Tail(wire[c]))
  PROVE  \E C, D :
           /\ Way(C, wire[c], cursor[c], transaction[c].deltas, replica[c], standing[c],
                  generation, coll)
           /\ Sound(C[0]) /\ Sound(C[1]) /\ Distinct(C[1]) /\ Keeps(C[1], C[0])
           /\ TakenFrom(Head(wire[c]), C[1], cursor[c], generation)
           /\ D[0] = C[1] /\ Chain(D, Tail(wire[c]), next, generation)
           /\ Keeps(coll, D[Len(Tail(wire[c]))])
<1>1. Types /\ AppInv(c)
  BY DEF DirectoryInv, TypesInv
<1>2. PICK C : Way(C, wire[c], cursor[c], transaction[c].deltas, replica[c], standing[c],
                   generation, coll)
  BY <1>1 DEF AppInv
<1>3. wire[c] \in Seq(Message) /\ Chain(C, wire[c], cursor[c], generation)
      /\ Keeps(coll, C[Len(wire[c])])
  BY <1>1, <1>2 DEF Way, Types
<1> DEFINE D == [j \in 0..(Len(wire[c]) - 1) |-> C[j + 1]]
<1>4. /\ Chain(D, Tail(wire[c]), next, generation) /\ D[0] = C[1]
      /\ D[Len(Tail(wire[c]))] = C[Len(wire[c])]
      /\ Sound(C[0]) /\ Sound(C[1]) /\ Distinct(C[1]) /\ Keeps(C[1], C[0])
      /\ TakenFrom(wire[c][1], C[1], cursor[c], generation)
  BY <1>3, ChainTail
<1> HIDE DEF D
<1>5. Head(wire[c]) = wire[c][1]
  BY <1>1, WireRest
<1> QED
  BY <1>2, <1>3, <1>4, <1>5

LEMMA WithinLater ==
  ASSUME NEW c, Sound(c), NEW d, Keeps(d, c), NEW cur \in Cursor, NEW gen, Within(cur, gen, c.head)
  PROVE  Within(cur, gen, d.head) /\ c.head <= d.head /\ c.head \in Nat /\ d.head \in Nat
BY DEF Within, Keeps, Sound, Collection, Cursor

\* What is common to the deltas that arrive.
LEMMA ArrivedDelta ==
  ASSUME DirectoryInv, NEW c \in Clients, ReceiveDelta(c)
  PROVE  /\ wire[c] # <<>> /\ wire[c] \in Seq(Message) /\ Head(wire[c]) \in Delta
         /\ Head(wire[c]).gen = generation /\ Head(wire[c]).kind = "delta"
         /\ wire'[c] = Tail(wire[c])
         /\ UNCHANGED <<daemon, updates, lists, online, link, used>>
         /\ online[c]
<1>1. TypesInv /\ Types /\ AppInv(c)
  BY DEF DirectoryInv, TypesInv
<1>2. wire[c] # <<>> /\ Head(wire[c]).kind = "delta" /\ wire' = [wire EXCEPT ![c] = Tail(@)]
      /\ UNCHANGED <<daemon, updates, lists, online, link, used>>
  BY DEF ReceiveDelta
<1>3. Head(wire[c]) \in Delta /\ wire[c] \in Seq(Message) /\ Head(wire[c]) = wire[c][1]
      /\ 1 \in 1..Len(wire[c])
  BY <1>1, <1>2, WireRest
<1>4. Numbered(Head(wire[c]), generation, coll.head)
  BY <1>1, <1>3 DEF TypesInv, Numbers
<1>5. online[c]
  BY <1>1, <1>2 DEF AppInv, Phased
<1> QED
  BY <1>1, <1>2, <1>3, <1>4, <1>5 DEF Numbered, Types

\* A delta that is recorded.
LEMMA RecordApp ==
  ASSUME DirectoryInv, NEW c \in Clients, ReceiveDelta(c), transaction[c].open
  PROVE  AppInv(c)'
<1> DEFINE w == wire[c]
           m == Head(w)
           rest == Tail(w)
           t == transaction[c].deltas
           cur == cursor[c]
           longer == Append(t, m)
<1>1. TypesInv /\ Types /\ AppInv(c)
  BY DEF DirectoryInv, TypesInv
<1>2. /\ w # <<>> /\ w \in Seq(Message) /\ m \in Delta /\ m.gen = generation /\ m.kind = "delta"
      /\ wire'[c] = rest
      /\ UNCHANGED <<daemon, updates, lists, online, link, used>>
      /\ online[c]
  BY ArrivedDelta
<1>3. transaction' = [transaction EXCEPT ![c].deltas = Append(@, m)]
      /\ UNCHANGED <<replica, cursor, standing>>
  BY DEF ReceiveDelta
<1>4. transaction[c] \in [open : BOOLEAN, deltas : Seq(Delta)] /\ cur \in Cursor
      /\ replica[c] \in Directory
  BY <1>1 DEF Types
<1>5. transaction'[c].deltas = longer /\ transaction'[c].open = transaction[c].open
  BY <1>1, <1>3, <1>4 DEF Types
<1>6. PICK C, D :
        /\ Way(C, w, cur, t, replica[c], standing[c], generation, coll)
        /\ Sound(C[0]) /\ Sound(C[1]) /\ Distinct(C[1]) /\ Keeps(C[1], C[0])
        /\ TakenFrom(m, C[1], cur, generation)
        /\ D[0] = C[1] /\ Chain(D, rest, cur, generation)
        /\ Keeps(coll, D[Len(rest)])
  BY <1>2, NextMessage
<1> DEFINE c0 == C[0]
           c1 == C[1]
<1>7. /\ t \in Seq(Delta) /\ Len(t) \in Nat /\ Len(longer) = Len(t) + 1
      /\ longer[Len(t) + 1] = m /\ \A i \in 1..Len(t) : longer[i] = t[i]
  BY <1>2, <1>4, AppendProperties, LenProperties
<1>8. /\ Sound(c0) /\ Sound(c1) /\ Distinct(c1) /\ Keeps(c1, c0)
      /\ TakenFrom(m, c1, cur, generation) /\ D[0] = c1
      /\ Within(cur, generation, c0.head)
      /\ \A i \in 1..Len(t) : t[i].gen = generation /\ t[i].seq <= c0.head
      /\ standing[c] = "sound" => Knows(PatchAll(replica[c], t), cur, c0, generation)
  BY <1>6 DEF Way
<1> HIDE DEF w, m, rest, t, cur, longer, c0, c1
<1>9. Within(cur, generation, c1.head) /\ c0.head <= c1.head /\ c0.head \in Nat /\ c1.head \in Nat
  BY <1>4, <1>8, WithinLater DEF cur
<1>10. m.value = c1.value[m.id] /\ m.seq = c1.seq[m.id] /\ m.seq <= c1.head /\ m.id \in Ids
  BY <1>2, <1>8 DEF TakenFrom, Sound, Collection, Delta
<1>11. \A i \in 1..Len(longer) : longer[i].gen = generation /\ longer[i].seq <= c1.head
  <2>1. SUFFICES ASSUME NEW i \in 1..Len(longer)
                 PROVE  longer[i].gen = generation /\ longer[i].seq <= c1.head
    OBVIOUS
  <2>2. CASE i = Len(t) + 1
    BY <1>2, <1>7, <1>10, <2>2
  <2>3. CASE i # Len(t) + 1
    <3>1. i \in 1..Len(t) /\ longer[i] = t[i]
      BY <1>7, <2>1, <2>3
    <3>2. t[i] \in Delta
      BY <1>7, <3>1, ElementOfSeq
    <3>3. t[i].seq <= c0.head /\ t[i].seq \in Nat /\ t[i].gen = generation
      BY <1>8, <3>1, <3>2 DEF Delta
    <3> QED
      BY <1>9, <3>1, <3>3
  <2> QED
    BY <2>2, <2>3
<1>12. standing[c] = "sound" => Knows(PatchAll(replica[c], longer), cur, c1, generation)
  <2>1. SUFFICES ASSUME standing[c] = "sound"
                 PROVE  Knows(PatchAll(replica[c], longer), cur, c1, generation)
    OBVIOUS
  <2>2. PatchAll(replica[c], t) \in Directory
    BY <1>4, <1>7, PatchAllValue
  <2>3. Knows(PatchAll(replica[c], t), cur, c1, generation)
    BY <1>4, <1>8, <2>1, KnowsLater DEF cur
  <2>4. PatchAll(replica[c], longer) = Patch(PatchAll(replica[c], t), m)
    BY <1>2, <1>4, <1>7, PatchOneMore DEF longer
  <2> QED
    BY <1>2, <1>10, <2>2, <2>3, <2>4, KnowsDelta
<1>13. Way(D, rest, cur, longer, replica[c], standing[c], generation, coll)
  BY <1>6, <1>8, <1>9, <1>11, <1>12 DEF Way
<1>14. Phased(transaction[c], request[c].phase, w, online[c], standing[c], link[c])
  BY <1>1 DEF AppInv, w
<1>15. Phased(transaction'[c], request[c].phase, rest, online[c], standing[c], link[c])
  <2>1. /\ OneAnswer(w) => OneAnswer(rest)
        /\ OneAnswer(w) /\ NoAnswers(w) => NoAnswers(rest)
    BY <1>2, AnswersTail DEF rest
  <2> QED
    BY <1>2, <1>5, <1>14, <2>1 DEF Phased
<1>16. link[c] # "late" => Heard(longer, rest, updates[c], registry, request[c], link[c], replica[c])
  <2>1. SUFFICES ASSUME Heard(t, w, updates[c], registry, request[c], link[c], replica[c])
                 PROVE  Heard(longer, rest, updates[c], registry, request[c], link[c], replica[c])
    BY <1>1, <1>2 DEF AppInv, t, w
  <2>2. LastWord(t, w, updates[c], registry)
    BY <2>1 DEF Heard
  <2>3. /\ LastWord(longer, rest, updates[c], registry)
        /\ \A id : Named(longer, rest, updates[c], id) <=> Named(t, w, updates[c], id)
    BY <1>2, <1>7, <2>2, LastWordRecorded DEF longer, rest, m
  <2>4. \A i \in 1..Len(rest) : \E k \in 1..Len(w) : w[k] = rest[i]
    BY <1>2, <1>14, AnswersTail DEF rest, Phased
  <2> QED
    BY <2>1, <2>3, <2>4, HeardStill
<1>17. Way(D, wire'[c], cursor'[c], transaction'[c].deltas, replica'[c], standing'[c],
           generation', coll')
  BY <1>2, <1>3, <1>5, <1>13 DEF daemon, cur
<1> QED
  BY <1>2, <1>3, <1>5, <1>15, <1>16, <1>17 DEF AppInv, daemon, lists

\* A delta that is applied.
LEMMA ApplyApp ==
  ASSUME DirectoryInv, NEW c \in Clients, ReceiveDelta(c), ~transaction[c].open
  PROVE  AppInv(c)'
<1> DEFINE w == wire[c]
           m == Head(w)
           rest == Tail(w)
           cur == cursor[c]
           next == NoteCursor(cur, m)
           rows == replica[c]
           new == Patch(rows, m)
<1>1. TypesInv /\ Types /\ AppInv(c)
  BY DEF DirectoryInv, TypesInv
<1>2. /\ w # <<>> /\ w \in Seq(Message) /\ m \in Delta /\ m.gen = generation /\ m.kind = "delta"
      /\ wire'[c] = rest
      /\ UNCHANGED <<daemon, updates, lists, online, link, used>>
      /\ online[c]
  BY ArrivedDelta
<1>3. /\ replica' = [replica EXCEPT ![c] = Patch(@, m)]
      /\ cursor' = [cursor EXCEPT ![c] = NoteCursor(@, m)]
      /\ standing' = IF Skips(cursor[c], m) THEN [standing EXCEPT ![c] = "torn"] ELSE standing
      /\ transaction' = transaction
  BY DEF ReceiveDelta
<1>4. cur \in Cursor /\ rows \in Directory /\ standing \in [Clients -> {"sound", "replayed", "torn"}]
  BY <1>1 DEF Types
<1>5. replica'[c] = new /\ cursor'[c] = next
  BY <1>1, <1>3 DEF Types
<1>6. Phased(transaction[c], request[c].phase, w, online[c], standing[c], link[c])
  BY <1>1 DEF AppInv
<1>7. OneAnswer(rest) /\ NoAnswers(rest) /\ transaction[c].deltas = <<>> /\ request[c].phase = "none"
  BY <1>2, <1>6, AnswersTail DEF Phased
<1>8. PICK C, D :
        /\ Way(C, w, cur, transaction[c].deltas, rows, standing[c], generation, coll)
        /\ Sound(C[0]) /\ Sound(C[1]) /\ Distinct(C[1]) /\ Keeps(C[1], C[0])
        /\ TakenFrom(m, C[1], cur, generation)
        /\ D[0] = C[1] /\ Chain(D, rest, next, generation)
        /\ Keeps(coll, D[Len(rest)])
  BY <1>2, <1>7, NextMessage
<1> DEFINE c0 == C[0]
           c1 == C[1]
<1>9. /\ Sound(c0) /\ Sound(c1) /\ Distinct(c1) /\ Keeps(c1, c0)
      /\ TakenFrom(m, c1, cur, generation) /\ D[0] = c1
      /\ Within(cur, generation, c0.head)
      /\ standing[c] = "sound" => Knows(PatchAll(rows, <<>>), cur, c0, generation)
  BY <1>7, <1>8 DEF Way
<1> HIDE DEF w, m, rest, cur, rows, c0, c1
<1>10. Within(cur, generation, c1.head) /\ c1.head \in Nat /\ generation \in Nat
  BY <1>1, <1>4, <1>9, WithinLater, CollNat
<1>11. m.value = c1.value[m.id] /\ m.seq = c1.seq[m.id] /\ m.seq <= c1.head /\ m.id \in Ids
  BY <1>2, <1>9 DEF TakenFrom, Sound, Collection, Delta
<1>12. Within(next, generation, c1.head)
  BY <1>2, <1>4, <1>10, <1>11, NoteWithin
<1>13. new \in Directory
  BY <1>2, <1>4, PatchRows
<1>14. standing'[c] = "sound" => Knows(PatchAll(new, <<>>), next, c1, generation)
  <2>1. SUFFICES ASSUME standing'[c] = "sound" PROVE Knows(PatchAll(new, <<>>), next, c1, generation)
    OBVIOUS
  <2>2. ~Skips(cur, m) /\ standing[c] = "sound"
    BY <1>3, <1>4, <2>1 DEF cur
  <2>3. Knows(rows, cur, c0, generation)
    BY <1>4, <1>9, <2>2, PatchNothing
  <2>4. Knows(rows, cur, c1, generation)
    BY <1>4, <1>9, <2>3, KnowsLater
  <2>5. Knows(new, next, c1, generation)
    BY <1>2, <1>4, <1>9, <1>11, <2>2, <2>4, KnowsNoted
  <2> HIDE DEF new, next
  <2> QED
    BY <1>13, <2>5, PatchNothing
<1> HIDE DEF new, next
<1>15. Way(D, rest, next, <<>>, new, standing'[c], generation, coll)
  BY <1>8, <1>9, <1>12, <1>14 DEF Way
<1>16. standing'[c] = "replayed" => standing[c] = "replayed"
  BY <1>3, <1>4
<1>17. Phased(transaction[c], request[c].phase, rest, online[c], standing'[c], link[c])
  BY <1>2, <1>6, <1>7, <1>16 DEF Phased
<1>18. link[c] # "late" => Heard(<<>>, rest, updates[c], registry, request[c], link[c], new)
  <2> DEFINE u == updates[c]
             r == registry
  <2>1. SUFFICES ASSUME Heard(<<>>, w, u, r, request[c], link[c], rows)
                 PROVE  Heard(<<>>, rest, u, r, request[c], link[c], new)
    BY <1>1, <1>2, <1>7 DEF AppInv, w, rows
  <2>2. LastWord(<<>>, w, u, r)
    BY <2>1 DEF Heard
  <2>3. /\ LastWord(<<>>, rest, u, r)
        /\ \A id : Named(<<>>, w, u, id) <=> Named(<<>>, rest, u, id) \/ id = m.id
        /\ ~Named(<<>>, rest, u, m.id) => m.value = r[m.id]
    BY <1>2, <2>2, LastWordApplied DEF rest, m
  <2>4. ASSUME link[c] = "covered", NEW id \in Ids, ~Named(<<>>, rest, u, id)
        PROVE  new[id] = r[id]
    <3>1. new[id] = IF id = m.id THEN m.value ELSE rows[id]
      BY <1>2, <1>4, PatchRows DEF new
    <3>2. CASE id = m.id
      BY <2>3, <2>4, <3>1, <3>2
    <3>3. CASE id # m.id
      BY <2>1, <2>3, <2>4, <3>1, <3>3 DEF Heard
    <3> QED
      BY <3>2, <3>3
  <2>5. \A i \in 1..Len(rest) : rest[i].kind # "answer"
    BY <1>7 DEF NoAnswers
  <2> HIDE DEF u, r
  <2> QED
    BY <1>7, <2>3, <2>4, <2>5 DEF Heard
<1>19. Way(D, wire'[c], cursor'[c], transaction'[c].deltas, replica'[c], standing'[c],
           generation', coll')
  BY <1>2, <1>3, <1>5, <1>7, <1>15 DEF daemon
<1> QED
  BY <1>2, <1>3, <1>5, <1>7, <1>17, <1>18, <1>19 DEF AppInv, daemon, lists

\* The answer to the request of app c.
LEMMA AnswerApp ==
  ASSUME DirectoryInv, NEW c \in Clients, ReceiveAnswer(c)
  PROVE  AppInv(c)'
<1> DEFINE w == wire[c]
           m == Head(w)
           rest == Tail(w)
           t == transaction[c].deltas
           cur == cursor[c]
           read == WriteCursor(cur, [gen |-> m.gen, seq |-> m.head])
           next == NoteAll(read, t)
           rows == replica[c]
           mid == Apply(rows, m)
           new == PatchAll(mid, t)
           st == standing[c]
           ln == link[c]
           st2 == IF m.mode = "changes" /\ st = "torn" THEN "torn"
                  ELSE IF t # <<>> THEN "replayed"
                  ELSE IF m.mode = "snapshot" THEN "sound" ELSE st
           ln2 == IF ln = "fresh" /\ (m.mode = "snapshot" \/ st # "torn") THEN "covered" ELSE ln
<1>1. TypesInv /\ Types /\ AppInv(c)
  BY DEF DirectoryInv, TypesInv
<1>2. /\ w # <<>> /\ m.kind = "answer" /\ wire' = [wire EXCEPT ![c] = Tail(@)]
      /\ UNCHANGED <<daemon, updates, lists, online, used>>
  BY DEF ReceiveAnswer
<1>3. /\ replica' = [replica EXCEPT ![c] = Complete(@, m, t)]
      /\ cursor' = [cursor EXCEPT ![c] = NoteAll(read, t)]
      /\ transaction' = [transaction EXCEPT ![c] = NoTransaction]
      /\ standing' = [standing EXCEPT ![c] = st2]
      /\ link' = [link EXCEPT ![c] = ln2]
  BY DEF ReceiveAnswer
<1>4. /\ wire'[c] = rest /\ replica'[c] = new /\ cursor'[c] = next
      /\ transaction'[c] = NoTransaction /\ standing'[c] = st2 /\ link'[c] = ln2
  BY <1>1, <1>2, <1>3 DEF Types, Complete
<1>5. /\ w \in Seq(Message) /\ m \in Answer /\ Numbered(m, generation, coll.head)
      /\ t \in Seq(Delta) /\ cur \in Cursor /\ rows \in Directory
      /\ st \in {"sound", "replayed", "torn"} /\ ln \in {"fresh", "late", "covered"}
      /\ generation \in Nat /\ online[c] \in BOOLEAN
  <2>1. w \in Seq(Message) /\ m \in Answer /\ m = w[1] /\ 1 \in 1..Len(w)
    BY <1>1, <1>2, WireRest
  <2>2. Numbered(m, generation, coll.head)
    BY <1>1, <2>1 DEF TypesInv, Numbers
  <2>3. generation \in Nat
    BY <1>1, CollNat
  <2> QED
    BY <1>1, <2>1, <2>2, <2>3 DEF Types
<1>6. Phased(transaction[c], request[c].phase, w, online[c], st, ln)
  BY <1>1 DEF AppInv
<1>7. OneAnswer(rest) /\ NoAnswers(rest) /\ online[c] /\ request[c].phase = "none"
  <2>1. OneAnswer(rest) /\ NoAnswers(rest)
    BY <1>2, <1>5, <1>6, AnswersTail DEF Phased
  <2>2. ~NoAnswers(w)
    BY <1>1, <1>2, WireRest DEF NoAnswers
  <2>3. online[c] /\ request[c].phase = "none"
    BY <1>2, <1>6, <2>2 DEF Phased
  <2> QED
    BY <2>1, <2>3
<1>8. PICK C, D :
        /\ Way(C, w, cur, t, rows, st, generation, coll)
        /\ Sound(C[0]) /\ Sound(C[1]) /\ Distinct(C[1]) /\ Keeps(C[1], C[0])
        /\ TakenFrom(m, C[1], cur, generation)
        /\ D[0] = C[1] /\ Chain(D, rest, next, generation)
        /\ Keeps(coll, D[Len(rest)])
  BY <1>2, <1>7, NextMessage
<1> DEFINE c0 == C[0]
           c1 == C[1]
<1>9. /\ Sound(c0) /\ Sound(c1) /\ Distinct(c1) /\ Keeps(c1, c0)
      /\ TakenFrom(m, c1, cur, generation) /\ D[0] = c1
      /\ Within(cur, generation, c0.head)
      /\ \A i \in 1..Len(t) : t[i].gen = generation /\ t[i].seq <= c0.head
      /\ st = "sound" => Knows(PatchAll(rows, t), cur, c0, generation)
  BY <1>8 DEF Way
<1> HIDE DEF w, m, rest, t, cur, read, next, rows, mid, new, st, ln, st2, ln2, c0, c1
<1>10. /\ Within(cur, generation, c1.head) /\ c0.head <= c1.head /\ c0.head \in Nat
       /\ c1.head \in Nat
  BY <1>5, <1>9, WithinLater
<1>11. /\ m.value = c1.value /\ m.head = c1.head /\ m.gen = generation
       /\ m.mode \in {"snapshot", "changes"}
       /\ m.mode = "snapshot" => m.touched = Ids
       /\ m.mode = "changes" =>
            /\ cur.gen = generation /\ c1.expired <= cur.seq
            /\ \A id \in Ids : id \in m.touched <=> ~(c1.seq[id] <= cur.seq)
  BY <1>2, <1>5, <1>9 DEF TakenFrom, Answer, Numbered
<1>12. read \in Cursor /\ Within(read, generation, c1.head)
  BY <1>5, <1>10, <1>11 DEF read, WriteCursor, Within, Cursor
<1>13. Within(next, generation, c1.head)
  <2>1. \A i \in 1..Len(t) : t[i].gen = generation /\ t[i].seq <= c1.head
    <3>1. SUFFICES ASSUME NEW i \in 1..Len(t) PROVE t[i].gen = generation /\ t[i].seq <= c1.head
      OBVIOUS
    <3>2. t[i] \in Delta
      BY <1>5, ElementOfSeq
    <3>3. t[i].seq \in Nat /\ t[i].seq <= c0.head /\ t[i].gen = generation
      BY <1>9, <3>2 DEF Delta
    <3> QED
      BY <1>10, <3>3
  <2> QED
    BY <1>5, <1>10, <1>12, <2>1, NoteAllWithin DEF next
<1>14. mid \in Directory /\ \A id \in Ids : mid[id] = IF id \in m.touched THEN m.value[id] ELSE rows[id]
  BY <1>5, ApplyRows DEF mid, Answer, Apply
<1>15. new \in Directory
  BY <1>5, <1>14, PatchAllValue DEF new
\* An id that the answer passes over is as the app knew it before.
<1>16. ASSUME st = "sound", m.mode = "changes", NEW id \in Ids, id \notin m.touched
       PROVE  PatchAll(rows, t)[id] = c1.value[id]
  <2>1. PatchAll(rows, t) \in Directory
    BY <1>5, PatchAllValue
  <2>2. Knows(PatchAll(rows, t), cur, c1, generation)
    BY <1>5, <1>9, <1>16, KnowsLater
  <2> QED
    BY <1>11, <1>16, <2>2 DEF Knows
<1>17. st2 = "sound" => Knows(PatchAll(new, <<>>), next, c1, generation)
  <2>1. SUFFICES ASSUME st2 = "sound" PROVE Knows(PatchAll(new, <<>>), next, c1, generation)
    OBVIOUS
  <2>2. t = <<>> /\ (m.mode = "snapshot" \/ st = "sound")
    BY <2>1 DEF st2
  <2>3. new = mid
    BY <1>14, <2>2, PatchNothing DEF new
  <2>4. ASSUME NEW id \in Ids PROVE mid[id] = c1.value[id]
    <3>1. CASE id \in m.touched
      BY <1>11, <1>14, <3>1
    <3>2. CASE id \notin m.touched
      <4>1. m.mode = "changes" /\ st = "sound"
        BY <1>11, <2>2, <3>2
      <4>2. PatchAll(rows, t)[id] = c1.value[id] /\ PatchAll(rows, t) = rows
        BY <1>5, <1>16, <2>2, <3>2, <4>1, PatchNothing
      <4> QED
        BY <1>14, <3>2, <4>2
    <3> QED
      BY <3>1, <3>2
  <2>5. Knows(new, next, c1, generation)
    BY <2>3, <2>4 DEF Knows
  <2> QED
    BY <1>15, <2>5, PatchNothing
<1>18. Way(D, rest, next, <<>>, new, st2, generation, coll)
  BY <1>8, <1>9, <1>13, <1>17 DEF Way
<1>19. Phased(NoTransaction, "none", rest, TRUE, st2, ln2)
  <2>1. st2 = "replayed" => ln2 # "fresh"
    <3>1. ASSUME st2 = "replayed", ln = "fresh" PROVE ln2 = "covered"
      <4>1. st # "replayed"
        BY <1>6, <3>1 DEF Phased
      <4>2. ~(m.mode = "changes" /\ st = "torn")
        BY <3>1 DEF st2
      <4>3. m.mode = "snapshot" \/ st # "torn"
        BY <1>11, <4>2
      <4> QED
        BY <3>1, <4>3 DEF ln2
    <3> QED
      BY <3>1 DEF ln2
  <2>2. ~NoTransaction.open /\ NoTransaction.deltas = <<>>
    BY DEF NoTransaction
  <2> QED
    BY <1>7, <2>1, <2>2 DEF Phased
<1>20. ln2 # "late" => Heard(<<>>, rest, updates[c], registry, request[c], ln2, new)
  <2> DEFINE u == updates[c]
             r == registry
             req == request[c]
  <2>1. SUFFICES ASSUME ln2 # "late", Heard(t, w, u, r, req, ln, rows)
                 PROVE  Heard(<<>>, rest, u, r, req, ln2, new)
    BY <1>1, <1>7 DEF AppInv, t, w, rows, ln, ln2
  <2>2. LastWord(t, w, u, r) /\ req.phase # "listed"
    BY <1>7, <2>1 DEF Heard
  <2>3. /\ LastWord(<<>>, rest, u, r)
        /\ \A id \in Ids : ~Named(<<>>, rest, u, id) =>
             \/ new[id] = r[id]
             \/ ~Named(t, w, u, id) /\ ~In(t, id) /\ new[id] = mid[id]
    BY <1>2, <1>5, <1>14, <2>2, LastWordCompleted DEF rest, new, m
  <2>4. 1 \in 1..Len(w) /\ w[1] = m
    BY <1>1, <1>2, WireRest DEF w, m
  <2> HIDE DEF u, r, req
  <2>5. ASSUME ln2 = "covered", NEW id \in Ids, ~Named(t, w, u, id), ~In(t, id)
        PROVE  mid[id] = r[id]
    <3>1. m.value[id] = r[id]
      BY <1>2, <2>1, <2>4, <2>5 DEF Heard
    <3>2. CASE id \in m.touched
      BY <1>14, <3>1, <3>2
    <3>3. CASE id \notin m.touched
      <4>1. mid[id] = rows[id] /\ m.mode = "changes"
        BY <1>11, <1>14, <3>3
      <4>2. CASE ln = "covered"
        BY <2>1, <2>5, <4>1, <4>2 DEF Heard
      <4>3. CASE ln # "covered"
        <5>1. ln = "fresh" /\ st # "torn"
          BY <2>5, <4>1, <4>3 DEF ln2
        <5>2. st = "sound"
          BY <1>5, <1>6, <5>1 DEF Phased
        <5>3. PatchAll(rows, t)[id] = c1.value[id]
          BY <1>16, <3>3, <4>1, <5>2
        <5>4. \A i \in 1..Len(t) : t[i].id # id
          BY <2>5 DEF In
        <5>5. PatchAll(rows, t)[id] = rows[id]
          BY <1>5, <5>4, PatchAllValue
        <5> QED
          BY <1>11, <3>1, <4>1, <5>3, <5>5
      <4> QED
        BY <4>2, <4>3
    <3> QED
      BY <3>2, <3>3
  <2>6. ln2 = "covered" => \A id \in Ids : ~Named(<<>>, rest, u, id) => new[id] = r[id]
    BY <2>3, <2>5 DEF u, r
  <2>7. \A i \in 1..Len(rest) : rest[i].kind # "answer"
    BY <1>7 DEF NoAnswers
  <2>8. LastWord(<<>>, rest, u, r) /\ req.phase # "listed"
    BY <2>2, <2>3 DEF u, r, req
  <2> QED
    BY <2>6, <2>7, <2>8 DEF Heard
<1>21. NoTransaction.deltas = <<>>
  BY DEF NoTransaction
<1>22. Way(D, wire'[c], cursor'[c], transaction'[c].deltas, replica'[c], standing'[c],
           generation', coll')
  BY <1>2, <1>4, <1>18, <1>21 DEF daemon
<1> QED
  BY <1>2, <1>4, <1>7, <1>19, <1>20, <1>21, <1>22 DEF AppInv, daemon, lists

\* The refresh of app c fails on a live connection.
LEMMA FailApp ==
  ASSUME DirectoryInv, NEW c \in Clients, FailRefresh(c)
  PROVE  AppInv(c)'
<1> DEFINE w == wire[c]
           t == transaction[c].deltas
           rows == replica[c]
           new == PatchAll(rows, t)
           void == Voided(w)
<1>1. TypesInv /\ Types /\ AppInv(c)
  BY DEF DirectoryInv, TypesInv
<1>2. wire' = [wire EXCEPT ![c] = Voided(wire[c])]
  BY <1>1, FailTypes
<1>3. /\ wire'[c] = void /\ replica'[c] = new /\ transaction'[c] = NoTransaction
      /\ request'[c] = NoRequest
      /\ UNCHANGED <<daemon, updates, online, cursor, standing, link>>
  BY <1>1, <1>2 DEF FailRefresh, Types
<1>4. w \in Seq(Message) /\ t \in Seq(Delta) /\ rows \in Directory
  BY <1>1 DEF Types
<1>5. new \in Directory
  BY <1>4, PatchAllValue
<1>6. PICK C : Way(C, w, cursor[c], t, rows, standing[c], generation, coll)
  BY <1>1 DEF AppInv
<1>7. Phased(transaction[c], request[c].phase, w, online[c], standing[c], link[c])
  BY <1>1 DEF AppInv
<1>8. transaction[c].open
  BY DEF FailRefresh
<1> HIDE DEF w, t, rows, new, void
<1>9. Chain(C, void, cursor[c], generation) /\ Len(void) = Len(w)
  BY <1>4, <1>6, ChainVoided DEF Way, void
<1>10. standing[c] = "sound" => Knows(PatchAll(new, <<>>), cursor[c], C[0], generation)
  BY <1>5, <1>6, PatchNothing DEF Way, new
<1>11. Way(C, void, cursor[c], <<>>, new, standing[c], generation, coll)
  BY <1>6, <1>9, <1>10 DEF Way
<1>12. Phased(NoTransaction, "none", void, online[c], standing[c], link[c])
  <2>1. NoAnswers(void) /\ OneAnswer(void)
    BY <1>4, AnswersVoided DEF void
  <2> QED
    BY <1>7, <1>8, <2>1 DEF Phased, NoTransaction
<1>13. online[c] /\ link[c] # "late" =>
         Heard(<<>>, void, updates[c], registry, NoRequest, link[c], new)
  <2> DEFINE u == updates[c]
             r == registry
  <2>1. SUFFICES ASSUME Heard(t, w, u, r, request[c], link[c], rows)
                 PROVE  Heard(<<>>, void, u, r, NoRequest, link[c], new)
    BY <1>1 DEF AppInv, t, w, rows
  <2>2. LastWord(t, w, u, r)
    BY <2>1 DEF Heard
  <2>3. /\ LastWord(<<>>, w, u, r)
        /\ \A id \in Ids : ~Named(<<>>, w, u, id) =>
             \/ new[id] = r[id]
             \/ ~Named(t, w, u, id) /\ ~In(t, id) /\ new[id] = rows[id]
    BY <1>4, <2>2, LastWordFlushed DEF new
  <2>4. /\ LastWord(<<>>, void, u, r)
        /\ \A id : Named(<<>>, void, u, id) <=> Named(<<>>, w, u, id)
    BY <1>4, <2>3, LastWordVoided DEF void
  <2>5. \A i \in 1..Len(void) : void[i].kind # "answer"
    BY <1>4, AnswersVoided DEF void, NoAnswers
  <2>6. NoRequest.phase # "listed"
    BY DEF NoRequest
  <2> HIDE DEF u, r
  <2>7. link[c] = "covered" => \A id \in Ids : ~Named(<<>>, void, u, id) => new[id] = r[id]
    BY <2>1, <2>3, <2>4 DEF Heard
  <2> QED
    BY <2>4, <2>5, <2>6, <2>7 DEF Heard
<1>14. NoTransaction.deltas = <<>> /\ NoRequest.phase = "none"
  BY DEF NoTransaction, NoRequest
<1>15. Way(C, wire'[c], cursor'[c], transaction'[c].deltas, replica'[c], standing'[c],
           generation', coll')
  BY <1>3, <1>11, <1>14 DEF daemon
<1> QED
  BY <1>3, <1>12, <1>13, <1>14, <1>15 DEF AppInv, daemon

\* The answer of a request that was given up arrives.
LEMMA IgnoreApp ==
  ASSUME DirectoryInv, NEW c \in Clients, IgnoreAnswer(c)
  PROVE  AppInv(c)'
<1> DEFINE w == wire[c]
           rest == Tail(w)
           t == transaction[c].deltas
           cur == cursor[c]
           rows == replica[c]
           st == standing[c]
<1>1. TypesInv /\ Types /\ AppInv(c)
  BY DEF DirectoryInv, TypesInv
<1>2. /\ w # <<>> /\ Head(w).kind = "late" /\ wire' = [wire EXCEPT ![c] = Tail(@)]
      /\ UNCHANGED <<daemon, updates, lists, online, app, used>>
  BY DEF IgnoreAnswer
<1>3. wire'[c] = rest
  BY <1>1, <1>2 DEF Types
<1>4. /\ w \in Seq(Message) /\ t \in Seq(Delta) /\ cur \in Cursor /\ rows \in Directory
  BY <1>1 DEF Types
<1>5. Phased(transaction[c], request[c].phase, w, online[c], st, link[c])
  BY <1>1 DEF AppInv
<1>6. PICK C, D :
        /\ Way(C, w, cur, t, rows, st, generation, coll)
        /\ Sound(C[0]) /\ Sound(C[1]) /\ Distinct(C[1]) /\ Keeps(C[1], C[0])
        /\ TakenFrom(Head(w), C[1], cur, generation)
        /\ D[0] = C[1] /\ Chain(D, rest, cur, generation)
        /\ Keeps(coll, D[Len(rest)])
  BY <1>2, NextMessage
<1> DEFINE c0 == C[0]
           c1 == C[1]
<1>7. /\ Sound(c0) /\ Sound(c1) /\ Keeps(c1, c0) /\ D[0] = c1
      /\ Within(cur, generation, c0.head)
      /\ \A i \in 1..Len(t) : t[i].gen = generation /\ t[i].seq <= c0.head
      /\ st = "sound" => Knows(PatchAll(rows, t), cur, c0, generation)
  BY <1>6 DEF Way
<1> HIDE DEF w, rest, t, cur, rows, st, c0, c1
<1>8. Within(cur, generation, c1.head) /\ c0.head <= c1.head /\ c0.head \in Nat /\ c1.head \in Nat
  BY <1>4, <1>7, WithinLater
<1>9. \A i \in 1..Len(t) : t[i].gen = generation /\ t[i].seq <= c1.head
  <2>1. SUFFICES ASSUME NEW i \in 1..Len(t) PROVE t[i].gen = generation /\ t[i].seq <= c1.head
    OBVIOUS
  <2>2. t[i] \in Delta
    BY <1>4, ElementOfSeq
  <2>3. t[i].seq \in Nat /\ t[i].seq <= c0.head /\ t[i].gen = generation
    BY <1>7, <2>2 DEF Delta
  <2> QED
    BY <1>8, <2>3
<1>10. st = "sound" => Knows(PatchAll(rows, t), cur, c1, generation)
  BY <1>4, <1>7, KnowsLater
<1>11. Way(D, rest, cur, t, rows, st, generation, coll)
  BY <1>6, <1>7, <1>8, <1>9, <1>10 DEF Way
<1>12. /\ OneAnswer(w) => OneAnswer(rest)
       /\ OneAnswer(w) /\ NoAnswers(w) => NoAnswers(rest)
       /\ OneAnswer(w) => \A i \in 1..Len(rest) : \E k \in 1..Len(w) : w[k] = rest[i]
  BY <1>2, <1>4, AnswersTail DEF rest
<1>13. Phased(transaction[c], request[c].phase, rest, online[c], st, link[c])
  <2>1. online[c]
    BY <1>2, <1>5 DEF Phased
  <2> QED
    BY <1>5, <1>12, <2>1 DEF Phased
<1>14. online[c] /\ link[c] # "late" =>
         Heard(t, rest, updates[c], registry, request[c], link[c], rows)
  <2>1. SUFFICES ASSUME Heard(t, w, updates[c], registry, request[c], link[c], rows)
                 PROVE  Heard(t, rest, updates[c], registry, request[c], link[c], rows)
    BY <1>1 DEF AppInv, t, w, rows
  <2>2. LastWord(t, w, updates[c], registry)
    BY <2>1 DEF Heard
  <2>3. /\ LastWord(t, rest, updates[c], registry)
        /\ \A id : Named(t, rest, updates[c], id) <=> Named(t, w, updates[c], id)
    BY <1>2, <1>4, <2>2, LastWordIgnored DEF rest
  <2>4. \A i \in 1..Len(rest) : \E k \in 1..Len(w) : w[k] = rest[i]
    BY <1>5, <1>12 DEF Phased
  <2> QED
    BY <2>1, <2>3, <2>4, HeardStill
<1>15. Way(D, wire'[c], cursor'[c], transaction'[c].deltas, replica'[c], standing'[c],
           generation', coll')
  BY <1>2, <1>3, <1>11 DEF daemon, app, cur, t, rows, st
<1> QED
  BY <1>2, <1>3, <1>13, <1>14, <1>15 DEF AppInv, daemon, lists, app, st, t, rows

\* What a lost connection leaves.
LEMMA AbortApp ==
  ASSUME DirectoryInv, NEW lost \in SUBSET Clients, Abort(lost), NEW c \in lost
  PROVE  /\ ~online'[c] /\ wire'[c] = <<>> /\ transaction'[c] = NoTransaction
         /\ request'[c] = NoRequest /\ cursor'[c] = cursor[c]
         /\ standing'[c] # "replayed"
         /\ Phased(NoTransaction, "none", <<>>, online'[c], standing'[c], link'[c])
         /\ \A e : Keeps(e, coll) =>
              \E C : Way(C, <<>>, cursor[c], <<>>, replica'[c], standing'[c], generation, e)
<1>1. TypesInv /\ Types /\ AppInv(c) /\ c \in Clients
  BY DEF DirectoryInv, TypesInv
<1> DEFINE rows == replica[c]
           t == transaction[c].deltas
           new == PatchAll(rows, t)
           cur == cursor[c]
<1>2. /\ ~online'[c] /\ wire'[c] = <<>> /\ transaction'[c] = NoTransaction
      /\ request'[c] = NoRequest /\ cursor'[c] = cursor[c] /\ replica'[c] = new
      /\ standing'[c] = IF standing[c] = "replayed" THEN "torn" ELSE standing[c]
  BY <1>1 DEF Abort
<1>3. t \in Seq(Delta) /\ rows \in Directory /\ Sound(coll) /\ cur \in Cursor
  BY <1>1 DEF Types
<1>4. new \in Directory
  BY <1>3, PatchAllValue
<1>5. PICK C : Way(C, wire[c], cur, t, rows, standing[c], generation, coll)
  BY <1>1 DEF AppInv
<1> DEFINE c0 == C[0]
           n == Len(wire[c])
<1>6. n \in Nat /\ 0 \in 0..n /\ n \in 0..n
  BY <1>1, LenProperties DEF Types
<1>7. /\ Sound(c0) /\ Distinct(c0) /\ Keeps(coll, c0) /\ Within(cur, generation, c0.head)
      /\ standing[c] = "sound" => Knows(new, cur, c0, generation)
  <2>1. Sound(C[0]) /\ Distinct(C[0]) /\ Keeps(C[n], C[0]) /\ Sound(C[n]) /\ Keeps(coll, C[n])
    BY <1>5, <1>6 DEF Way, Chain
  <2>2. Keeps(coll, C[0])
    BY <2>1, KeepsAlong
  <2> QED
    BY <1>5, <2>1, <2>2 DEF Way
<1> HIDE DEF c0, n, rows, t, new, cur
<1>8. ASSUME NEW e, Keeps(e, coll)
      PROVE  \E B : Way(B, <<>>, cur, <<>>, new, standing'[c], generation, e)
  <2> DEFINE B == [j \in 0..0 |-> c0]
  <2>1. Chain(B, <<>>, cur, generation)
    BY <1>7, ChainNothing
  <2>2. B[0] = c0 /\ Len(<<>>) = 0
    OBVIOUS
  <2> HIDE DEF B
  <2>3. Keeps(e, c0)
    BY <1>3, <1>7, <1>8, KeepsAlong
  <2>4. standing'[c] = "sound" => Knows(PatchAll(new, <<>>), cur, c0, generation)
    BY <1>2, <1>4, <1>7, PatchNothing
  <2>5. Way(B, <<>>, cur, <<>>, new, standing'[c], generation, e)
    BY <1>7, <2>1, <2>2, <2>3, <2>4 DEF Way
  <2> QED
    BY <2>5
<1>9. standing'[c] # "replayed"
  BY <1>2
<1>10. Phased(NoTransaction, "none", <<>>, online'[c], standing'[c], link'[c])
  BY <1>2, <1>9 DEF Phased, NoTransaction, NoAnswers, OneAnswer
<1> QED
  BY <1>2, <1>8, <1>9, <1>10 DEF cur, new

LEMMA DropApp ==
  ASSUME DirectoryInv, NEW c \in Clients, Drop(c), NEW d \in Clients
  PROVE  AppInv(d)'
<1> DEFINE lost == {c}
<1>1. TypesInv /\ Types /\ AppInv(d)
  BY DEF DirectoryInv, TypesInv
<1>2. lost \in SUBSET Clients /\ Abort(lost) /\ UNCHANGED <<daemon, updates>> /\ c \in lost
  BY DEF Drop
<1>3. \A e \in Clients : e \notin lost => e # c
  OBVIOUS
<1>4. d \in lost \/ d \notin lost
  OBVIOUS
<1> HIDE DEF lost
<1>5. Keeps(coll', coll)
  BY <1>1, <1>2, SameKeeps DEF daemon
<1>6. CASE d \in lost
  <2>1. /\ ~online'[d] /\ wire'[d] = <<>> /\ transaction'[d] = NoTransaction
        /\ request'[d] = NoRequest /\ cursor'[d] = cursor[d]
        /\ Phased(NoTransaction, "none", <<>>, online'[d], standing'[d], link'[d])
        /\ \E C : Way(C, <<>>, cursor[d], <<>>, replica'[d], standing'[d], generation, coll')
    BY <1>2, <1>5, <1>6, AbortApp
  <2>2. PICK C : Way(C, <<>>, cursor[d], <<>>, replica'[d], standing'[d], generation, coll')
    BY <2>1
  <2>3. NoTransaction.deltas = <<>> /\ NoRequest.phase = "none" /\ generation' = generation
    BY <1>2 DEF NoTransaction, NoRequest, daemon
  <2> QED
    BY <2>1, <2>2, <2>3 DEF AppInv
<1>7. CASE d \notin lost
  <2>1. /\ online'[d] = (online[d] /\ d \notin lost) /\ wire'[d] = wire[d]
        /\ request'[d] = request[d] /\ replica'[d] = replica[d]
        /\ transaction'[d] = transaction[d] /\ standing'[d] = standing[d]
        /\ cursor' = cursor /\ link' = link
    BY <1>2, <1>7 DEF Abort
  <2>2. online'[d] = online[d]
    BY <1>1, <1>7, <2>1 DEF Types
  <2> QED
    BY <1>1, <1>2, <1>5, <2>1, <2>2, Unaffected DEF daemon
<1> QED
  BY <1>4, <1>6, <1>7

LEMMA RestartApp ==
  ASSUME DirectoryInv, Restart, NEW d \in Clients
  PROVE  AppInv(d)'
<1> DEFINE lost == Clients
<1>1. TypesInv /\ Types /\ AppInv(d)
  BY DEF DirectoryInv, TypesInv
<1>2. lost \in SUBSET Clients /\ Abort(lost) /\ d \in lost
  BY DEF Restart
<1> HIDE DEF lost
<1>3. /\ ~online'[d] /\ wire'[d] = <<>> /\ transaction'[d] = NoTransaction
      /\ request'[d] = NoRequest /\ cursor'[d] = cursor[d]
      /\ Phased(NoTransaction, "none", <<>>, online'[d], standing'[d], link'[d])
  BY <1>2, AbortApp
<1>4. coll' = EmptyCollection /\ generation' = generation + 1
  BY DEF Restart
<1>5. cursor[d] \in Cursor /\ Within(cursor[d], generation, coll.head) /\ generation \in Nat
  BY <1>1, CollNat DEF Types, TypesInv, Numbers
<1>6. cursor[d].gen # generation' /\ cursor[d].gen <= generation'
  BY <1>4, <1>5 DEF Within, Cursor
<1> DEFINE B == [j \in 0..0 |-> EmptyCollection]
<1>7. \A g : Chain(B, <<>>, cursor[d], g)
  BY EmptySound, EmptyDistinct, ChainNothing
<1>8. B[0] = EmptyCollection /\ Len(<<>>) = 0 /\ Keeps(EmptyCollection, EmptyCollection)
  BY EmptySound, KeepsItself
<1> HIDE DEF B
<1>9. Way(B, <<>>, cursor[d], <<>>, replica'[d], standing'[d], generation', coll')
  BY <1>4, <1>6, <1>7, <1>8 DEF Way, Within, Knows
<1>10. NoTransaction.deltas = <<>> /\ NoRequest.phase = "none"
  BY DEF NoTransaction, NoRequest
<1> QED
  BY <1>3, <1>9, <1>10 DEF AppInv

\* What a step does to the collection.
LEMMA StepKeeps ==
  ASSUME DirectoryInv, [Next]_vars
  PROVE  Distinct(coll')
<1>1. TypesInv /\ Types /\ Distinct(coll) /\ Sound(coll)
  BY DEF DirectoryInv, TypesInv, Types
<1>2. CASE Restart
  BY <1>2, EmptyDistinct DEF Restart
<1>3. ASSUME NEW c \in Clients, PublishUpdate(c) PROVE Distinct(coll')
  BY <1>1, <1>3, PublishTypes DEF Keeps
<1>4. ASSUME NEW c \in Clients, Synchronize(c) PROVE Distinct(coll')
  BY <1>1, <1>4, SynchronizeTypes DEF Keeps
<1>5. ASSUME NEW s \in Others, PublishOther(s) PROVE Distinct(coll')
  BY <1>1, <1>5, OtherTypes DEF Keeps
<1>6. ASSUME NEW snapshot \in abandoned, SynchronizeAbandoned(snapshot) PROVE Distinct(coll')
  BY <1>1, <1>6, AbandonedTypes DEF Keeps
<1>7. CASE coll' = coll
  BY <1>1, <1>7
<1>8. \/ coll' = coll \/ Restart
      \/ \E c \in Clients : PublishUpdate(c) \/ Synchronize(c)
      \/ \E s \in Others : PublishOther(s)
      \/ \E snapshot \in abandoned : SynchronizeAbandoned(snapshot)
  BY DEF Next, Edit, SkipUpdate, List, RefuseList, Connect, Refresh, ReceiveDelta, ReceiveAnswer,
         FailRefresh, IgnoreAnswer, Drop, ListOther, daemon, vars
<1> QED
  BY <1>2, <1>3, <1>4, <1>5, <1>6, <1>7, <1>8

\* The steps of app c: of its own invariant, and what another app sees of them.
LEMMA ClientStep ==
  ASSUME DirectoryInv, NEW c \in Clients, NEW d \in Clients,
         \/ PublishUpdate(c) \/ SkipUpdate(c)
         \/ List(c) \/ RefuseList(c) \/ Synchronize(c)
         \/ Connect(c) \/ Refresh(c)
         \/ ReceiveDelta(c) \/ ReceiveAnswer(c)
         \/ FailRefresh(c) \/ IgnoreAnswer(c)
  PROVE  AppInv(d)'
<1>1. TypesInv /\ Types /\ AppInv(d)
  BY DEF DirectoryInv, TypesInv
<1>2. CASE d = c
  <2>1. CASE ReceiveDelta(c)
    BY <1>2, <2>1, RecordApp, ApplyApp
  <2> QED
    BY <1>2, <2>1, PublishApp, SkipApp, ListApp, RefuseApp, SynchronizeApp, ConnectApp, RefreshApp,
       AnswerApp, FailApp, IgnoreApp
<1>3. CASE d # c
  <2>1. Keeps(coll', coll)
    <3>1. CASE PublishUpdate(c)
      BY <1>1, <3>1, PublishTypes
    <3>2. CASE Synchronize(c)
      BY <1>1, <3>2, SynchronizeTypes
    <3>3. CASE ~PublishUpdate(c) /\ ~Synchronize(c)
      <4>1. coll' = coll
        BY <3>3 DEF SkipUpdate, List, RefuseList, Connect, Refresh, ReceiveDelta, ReceiveAnswer,
                    FailRefresh, IgnoreAnswer, daemon
      <4> QED
        BY <1>1, <4>1, SameKeeps
    <3> QED
      BY <3>1, <3>2, <3>3
  <2>2. /\ generation' = generation /\ registry' = registry
        /\ updates'[d] = updates[d] /\ request'[d] = request[d]
        /\ wire'[d] = wire[d] /\ online'[d] = online[d] /\ replica'[d] = replica[d]
        /\ cursor'[d] = cursor[d] /\ transaction'[d] = transaction[d]
        /\ standing'[d] = standing[d] /\ link'[d] = link[d]
    <3>1. CASE PublishUpdate(c)
      BY <1>1, <1>3, <3>1 DEF PublishUpdate, lists, app, Types, Sessions
    <3>2. CASE SkipUpdate(c)
      BY <1>1, <1>3, <3>2 DEF SkipUpdate, daemon, lists, app, Types, Sessions
    <3>3. CASE List(c) \/ RefuseList(c)
      BY <1>1, <1>3, <3>3 DEF List, RefuseList, daemon, app, Types
    <3>4. CASE Synchronize(c)
      BY <1>1, <1>3, <3>4 DEF Synchronize, app, Types
    <3>5. CASE Connect(c) \/ Refresh(c)
      BY <1>1, <1>3, <3>5 DEF Connect, Refresh, Begin, daemon, Types
    <3>6. CASE ReceiveDelta(c)
      BY <1>1, <1>3, <3>6 DEF ReceiveDelta, daemon, lists, Types
    <3>7. CASE ReceiveAnswer(c)
      BY <1>1, <1>3, <3>7 DEF ReceiveAnswer, daemon, lists, Types
    <3>8. CASE FailRefresh(c)
      BY <1>1, <1>3, <3>8 DEF FailRefresh, daemon, Types
    <3>9. CASE IgnoreAnswer(c)
      BY <1>1, <1>3, <3>9 DEF IgnoreAnswer, daemon, lists, app, Types
    <3> QED
      BY <3>1, <3>2, <3>3, <3>4, <3>5, <3>6, <3>7, <3>8, <3>9
  <2> QED
    BY <1>1, <2>1, <2>2, Unaffected
<1> QED
  BY <1>2, <1>3

LEMMA DaemonStep ==
  ASSUME DirectoryInv, NEW d \in Clients,
         \/ \E s \in Others : PublishOther(s)
         \/ ListOther
         \/ \E snapshot \in abandoned : SynchronizeAbandoned(snapshot)
         \/ UNCHANGED vars
  PROVE  AppInv(d)'
<1>1. TypesInv /\ Types /\ AppInv(d)
  BY DEF DirectoryInv, TypesInv
<1>2. ASSUME NEW s \in Others, PublishOther(s) PROVE AppInv(d)'
  <2>1. Keeps(coll', coll)
    BY <1>1, <1>2, OtherTypes
  <2>2. UNCHANGED <<registry, generation, lists, wire, online, app>>
    BY <1>2 DEF PublishOther
  <2>3. updates'[d] = updates[d]
    <3>1. d # s
      BY DirectorySyncAssumption
    <3> QED
      BY <1>1, <1>2, <3>1 DEF PublishOther, Types, Sessions
  <2> QED
    BY <1>1, <2>1, <2>2, <2>3, Unaffected DEF lists, app
<1>3. ASSUME NEW snapshot \in abandoned, SynchronizeAbandoned(snapshot) PROVE AppInv(d)'
  <2>1. Keeps(coll', coll)
    BY <1>1, <1>3, AbandonedTypes
  <2>2. UNCHANGED <<registry, generation, updates, request, wire, online, app>>
    BY <1>3 DEF SynchronizeAbandoned
  <2> QED
    BY <1>1, <2>1, <2>2, Unaffected DEF app
<1>4. CASE ListOther \/ UNCHANGED vars
  <2>1. UNCHANGED <<daemon, updates, request, wire, online, app>>
    BY <1>4 DEF ListOther, vars, daemon, app
  <2>2. Keeps(coll', coll)
    BY <1>1, <2>1, SameKeeps DEF daemon
  <2> QED
    BY <1>1, <2>1, <2>2, Unaffected DEF daemon, app
<1> QED
  BY <1>2, <1>3, <1>4

LEMMA DirectoryStep == DirectoryInv /\ [Next]_vars => DirectoryInv'
<1> SUFFICES ASSUME DirectoryInv, [Next]_vars PROVE DirectoryInv'
  OBVIOUS
<1>1. TypesInv'
  BY NextTypes DEF DirectoryInv
<1>2. Distinct(coll')
  BY StepKeeps
<1>3. ASSUME NEW d \in Clients PROVE AppInv(d)'
  <2>1. ASSUME NEW id \in Ids, NEW v \in Values \cup {Absent}, Edit(id, v) PROVE AppInv(d)'
    BY <2>1, EditApp
  <2>2. ASSUME NEW c \in Clients, Drop(c) PROVE AppInv(d)'
    BY <2>2, DropApp
  <2>3. CASE Restart
    BY <2>3, RestartApp
  <2>4. ASSUME NEW c \in Clients,
               \/ PublishUpdate(c) \/ SkipUpdate(c)
               \/ List(c) \/ RefuseList(c) \/ Synchronize(c)
               \/ Connect(c) \/ Refresh(c)
               \/ ReceiveDelta(c) \/ ReceiveAnswer(c)
               \/ FailRefresh(c) \/ IgnoreAnswer(c)
        PROVE  AppInv(d)'
    BY <2>4, ClientStep
  <2> QED
    BY <2>1, <2>2, <2>3, <2>4, DaemonStep DEF Next
<1> QED
  BY <1>1, <1>2, <1>3 DEF DirectoryInv

LEMMA DirectoryInvariant == Spec => []DirectoryInv
<1>1. Init => DirectoryInv
  BY DirectoryInit
<1>2. DirectoryInv /\ [Next]_vars => DirectoryInv'
  BY DirectoryStep
<1> QED
  BY <1>1, <1>2, PTL DEF Spec

-----------------------------------------------------------------------------
\* An app that an answer covered shows the registry when nothing is on its way
\* to it, for any number of apps and sessions, of entities and values, of
\* tombstones, refreshes that fail, lost connections and restarts.
THEOREM ReplicaIsCurrent == Spec => []ReplicaCurrent
<1>1. DirectoryInv => ReplicaCurrent
  BY CurrentFromInvariant
<1> QED
  BY <1>1, DirectoryInvariant, PTL

\* The cursor of an app that lost its connection gets an answer that brings its
\* rows up to date, unless the cursor is torn: whatever was lost on the way,
\* and whichever sessions gave the numbers.
THEOREM ReconnectIsCaughtUp == Spec => []ReconnectCatchesUp
<1>1. DirectoryInv => ReconnectCatchesUp
  BY CatchesUpFromInvariant
<1> QED
  BY <1>1, DirectoryInvariant, PTL

=============================================================================
