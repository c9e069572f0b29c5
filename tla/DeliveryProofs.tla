---------------------------- MODULE DeliveryProofs ----------------------------
(* For every set of registrations and any number of failures and restarts:    *)
(* what the lanes, the watches and the file know of each registration; and,   *)
(* for every set of messages and every number of crashes and failed writes,   *)
(* that the receipts of messages implement AtMostOnce.                        *)
EXTENDS FinishNotices, MessageReceipts, SequenceTheorems, TLAPS

\* The messages of a lane behind the batch that is being dispatched.
Behind(lane) == ToSet(lane.collected) \cup UNION {ToSet(b) : b \in ToSet(Tail(lane.batches))}

\* The prompts that no dispatch has taken to the child.
Waiting == IF starting THEN Behind(toChild) ELSE InLane(toChild)

LaneOf(lane, S) == lane \in [collected : Seq(S), batches : Seq(Seq(S))]

\* No message is in two places of a lane.
OneEach(lane) ==
  /\ \A i, j \in DOMAIN lane.batches :
       i # j => ToSet(lane.batches[i]) \cap ToSet(lane.batches[j]) = {}
  /\ \A i \in DOMAIN lane.batches : ToSet(lane.batches[i]) \cap ToSet(lane.collected) = {}

Types ==
  /\ TypeOK
  /\ heard \subseteq Watches
  /\ LaneOf(toChild, Ids) /\ OneEach(toChild)
  /\ LaneOf(toCaller, Watches) /\ OneEach(toCaller)
  /\ accepted \cup withdrawn \cup InLane(toChild) \subseteq sent
  /\ starting => toChild.batches # <<>>
  /\ restarts \in Nat

(* The watch of a registration is its own, and the one a restart made has     *)
(* those of earlier daemons.                                                  *)
RecordsInv ==
  /\ \A r \in Ids : records[r] = {r}
  /\ \A r \in Ids \ sent : stage[r] = "none"
  /\ \A r \in records[Boot] : r \in sent /\ stage[r] = "none"
  /\ stage[Boot] # "pending"

PhaseInv ==
  /\ phase = "closing" => \A w \in Watches : stage[w] \in {"none", "stopped"}
  /\ phase = "down" =>
       /\ \A w \in Watches : stage[w] = "none"
       /\ toChild = EmptyLane /\ toCaller = EmptyLane /\ turn = {} /\ ~starting
  /\ restarts = 0 => phase = "up" /\ stage[Boot] = "none"

(* What waits for its dispatch is undecided; what is on its way to the caller *)
(* has been sent by its watch.                                                *)
LanesInv ==
  /\ \A r \in Waiting : r \in sent \ (accepted \cup withdrawn) /\ stage[r] \in {"pending", "stopped"}
  /\ Waiting \cap InLane(toCaller) = {}
  /\ \A w \in InLane(toCaller) : stage[w] \in {"sent", "stopped"}

(* A watch has a result only of work that is over.                            *)
HasResult(w) ==
  \/ stage[w] \in {"decide", "deliver", "sent"}
  \/ stage[w] = "opened" /\ w \in heard
  \/ w \in InLane(toCaller)
ResultInv ==
  /\ accepted \subseteq turn \cup over
  /\ \A w \in Watches : HasResult(w) => records[w] \cap accepted \subseteq over

(* Until a restart, a watch whose notice was dispatched is done.              *)
NotifiedInv ==
  restarts = 0 => \A r \in Ids \cap notified :
    stage[r] \in {"remove", "stopped"} /\ r \notin InLane(toCaller)

(* A later prompt was accepted, whether or not its run then started.          *)
Replaced(r) == \E s \in accepted : r \in predecessors[s]

(* A registration is in the file until it is withdrawn, replaced, or its      *)
(* notice dispatched, and nothing else is about to be removed.                *)
Settled(r) == r \in withdrawn \cup notified \/ Replaced(r)
StoreInv ==
  /\ rejecting \subseteq withdrawn
  /\ \A r \in removing : Replaced(r)
  /\ \A w \in Watches : stage[w] = "remove" /\ callerActive => records[w] \subseteq notified
  /\ callerActive => \A r \in sent : r \in store \/ Settled(r)

(* A registration that replaces others replaces whole watches.                *)
WholeInv ==
  \A r \in Ids : stage[r] = "pending" =>
    records[Boot] \cap predecessors[r] \in {{}, records[Boot]}

Structure ==
  /\ Types /\ RecordsInv /\ PhaseInv /\ LanesInv /\ ResultInv /\ NotifiedInv
  /\ WholeInv /\ EveryRecordIsWatched

-------------------------------------------------------------------------------
(* A lane.                                                                     *)

\* The elements of a sequence to which one is appended.
LEMMA AppendElements ==
  ASSUME NEW S, NEW s \in Seq(S), NEW m \in S
  PROVE  /\ Append(s, m) \in Seq(S) /\ Append(s, m) # <<>>
         /\ ToSet(Append(s, m)) = ToSet(s) \cup {m}
         /\ \A i \in DOMAIN Append(s, m) : \/ i \in DOMAIN s /\ Append(s, m)[i] = s[i]
                                           \/ i = Len(s) + 1 /\ Append(s, m)[i] = m
<1> DEFINE t == Append(s, m)
<1>1. /\ DOMAIN t = 1..(Len(s) + 1) /\ DOMAIN s = 1..Len(s) /\ Len(s) \in Nat
      /\ \A i \in 1..Len(s) : t[i] = s[i]
      /\ t[Len(s) + 1] = m
      /\ t \in Seq(S) /\ t # <<>>
  OBVIOUS
<1> HIDE DEF t
<1>2. \A x : x \in ToSet(t) => x \in ToSet(s) \/ x = m
  BY <1>1 DEF ToSet
<1>3. \A x : x \in ToSet(s) \/ x = m => x \in ToSet(t)
  <2>1. \A i \in 1..Len(s) : s[i] = t[i] /\ i \in 1..(Len(s) + 1)
    BY <1>1
  <2>2. Len(s) + 1 \in 1..(Len(s) + 1)
    BY <1>1
  <2> QED
    BY <1>1, <2>1, <2>2 DEF ToSet
<1>4. ToSet(t) = ToSet(s) \cup {m}
  BY <1>2, <1>3
<1> QED
  BY <1>1, <1>4 DEF t

\* The first element of a sequence and the rest.
LEMMA TailElements ==
  ASSUME NEW S, NEW s \in Seq(S), s # <<>>
  PROVE  /\ Tail(s) \in Seq(S) /\ 1 \in DOMAIN s /\ Head(s) = s[1]
         /\ \A i \in DOMAIN Tail(s) : i \in Nat /\ i >= 1 /\ i + 1 \in DOMAIN s /\ Tail(s)[i] = s[i + 1]
         /\ ToSet(s) = {Head(s)} \cup ToSet(Tail(s))
<1> DEFINE t == Tail(s)
<1>1. /\ t \in Seq(S) /\ Head(s) = s[1] /\ Len(s) \in Nat \ {0}
      /\ DOMAIN s = 1..Len(s) /\ DOMAIN t = 1..(Len(s) - 1)
      /\ \A i \in 1..(Len(s) - 1) : t[i] = s[i + 1]
  OBVIOUS
<1> HIDE DEF t
<1>2. \A x : x \in ToSet(t) => x \in ToSet(s)
  <2> SUFFICES ASSUME NEW x \in ToSet(t) PROVE x \in ToSet(s)
    OBVIOUS
  <2>1. PICK i \in 1..(Len(s) - 1) : x = t[i]
    BY <1>1 DEF ToSet
  <2>2. i + 1 \in 1..Len(s) /\ x = s[i + 1]
    BY <1>1, <2>1
  <2> QED
    BY <1>1, <2>2 DEF ToSet
<1>3. s[1] \in ToSet(s)
  BY <1>1 DEF ToSet
<1>4. ASSUME NEW x \in ToSet(s) PROVE x = s[1] \/ x \in ToSet(t)
  <2>1. PICK i \in 1..Len(s) : x = s[i]
    BY <1>1 DEF ToSet
  <2>2. CASE i # 1
    <3>1. i - 1 \in 1..(Len(s) - 1) /\ (i - 1) + 1 = i
      BY <1>1, <2>2
    <3>2. x = t[i - 1]
      BY <1>1, <2>1, <3>1
    <3> QED
      BY <1>1, <3>1, <3>2 DEF ToSet
  <2> QED
    BY <2>1, <2>2
<1>5. ToSet(s) = {s[1]} \cup ToSet(t)
  BY <1>2, <1>3, <1>4
<1> QED
  BY <1>1, <1>5 DEF t

\* Appending and dropping the first element do not disturb each other.
LEMMA TailAppend ==
  ASSUME NEW S, NEW s \in Seq(S), NEW m \in S, s # <<>>
  PROVE  Tail(Append(s, m)) = Append(Tail(s), m)
<1> DEFINE a == Append(s, m)
           t == Tail(s)
           u == Append(t, m)
<1>1. /\ t \in Seq(S) /\ Len(t) = Len(s) - 1 /\ Len(s) \in Nat \ {0}
      /\ \A i \in 1..(Len(s) - 1) : t[i] = s[i + 1]
  OBVIOUS
<1>2. /\ a \in Seq(S) /\ Len(a) = Len(s) + 1 /\ a[Len(s) + 1] = m
      /\ \A i \in 1..Len(s) : a[i] = s[i]
  OBVIOUS
<1> HIDE DEF t
<1>3. /\ u \in Seq(S) /\ Len(u) = Len(s) /\ u[Len(s)] = m
      /\ \A i \in 1..(Len(s) - 1) : u[i] = s[i + 1]
  BY <1>1
<1> HIDE DEF a, u
<1> DEFINE v == Tail(a)
<1>4. v \in Seq(S) /\ Len(v) = Len(s) /\ \A i \in 1..Len(s) : v[i] = a[i + 1]
  BY <1>1, <1>2
<1> HIDE DEF v
<1>5. \A i \in 1..Len(s) : v[i] = u[i]
  <2> SUFFICES ASSUME NEW i \in 1..Len(s) PROVE v[i] = u[i]
    OBVIOUS
  <2>1. v[i] = a[i + 1]
    BY <1>4
  <2>2. CASE i = Len(s)
    BY <1>2, <1>3, <2>1, <2>2
  <2>3. CASE i # Len(s)
    <3>1. i \in 1..(Len(s) - 1) /\ i + 1 \in 1..Len(s)
      BY <1>1, <2>3
    <3> QED
      BY <1>2, <1>3, <2>1, <3>1
  <2> QED
    BY <2>2, <2>3
<1>6. v = u
  BY <1>3, <1>4, <1>5, SeqEqual
<1> QED
  BY <1>6 DEF v, u, a, t

\* What the first batch and the rest of a lane hold.
LEMMA LaneParts ==
  ASSUME NEW S, NEW lane, LaneOf(lane, S), OneEach(lane), lane.batches # <<>>
  PROVE  /\ LaneOf(Advance(lane), S)
         /\ OneEach(Advance(lane))
         /\ InLane(Advance(lane)) = Behind(lane)
         /\ ToSet(Head(lane.batches)) \cap Behind(lane) = {}
         /\ InLane(lane) = ToSet(Head(lane.batches)) \cup Behind(lane)
<1> DEFINE bs == lane.batches
           rest == Advance(lane)
<1>1. bs \in Seq(Seq(S)) /\ lane.collected \in Seq(S) /\ bs # <<>>
  BY DEF LaneOf
<1>2. rest = [collected |-> lane.collected, batches |-> Tail(bs)]
  BY DEF Advance
<1>3. /\ Tail(bs) \in Seq(Seq(S)) /\ Head(bs) = bs[1] /\ 1 \in DOMAIN bs
      /\ \A i \in DOMAIN Tail(bs) : i \in Nat /\ i >= 1 /\ i + 1 \in DOMAIN bs /\ Tail(bs)[i] = bs[i + 1]
      /\ ToSet(bs) = {Head(bs)} \cup ToSet(Tail(bs))
  BY <1>1, TailElements
<1> HIDE DEF bs, rest
<1>4. LaneOf(rest, S)
  BY <1>1, <1>2, <1>3 DEF LaneOf
<1>5. OneEach(rest)
  <2>1. \A i, j \in DOMAIN Tail(bs) : i # j => ToSet(Tail(bs)[i]) \cap ToSet(Tail(bs)[j]) = {}
    <3> SUFFICES ASSUME NEW i \in DOMAIN Tail(bs), NEW j \in DOMAIN Tail(bs), i # j
                 PROVE  ToSet(bs[i + 1]) \cap ToSet(bs[j + 1]) = {}
      BY <1>3
    <3>1. i + 1 # j + 1
      BY <1>3
    <3> QED
      BY <1>3, <3>1 DEF OneEach, bs
  <2>2. \A i \in DOMAIN Tail(bs) : ToSet(Tail(bs)[i]) \cap ToSet(lane.collected) = {}
    BY <1>3 DEF OneEach, bs
  <2> QED
    BY <1>2, <2>1, <2>2 DEF OneEach
<1>6. InLane(rest) = Behind(lane)
  BY <1>2 DEF InLane, Behind, bs
<1>7. ToSet(Head(bs)) \cap Behind(lane) = {}
  <2> SUFFICES ASSUME NEW x \in ToSet(bs[1]), NEW b \in ToSet(Tail(bs)), x \in ToSet(b)
               PROVE  FALSE
    BY <1>3 DEF OneEach, Behind, bs
  <2>1. PICK i \in DOMAIN Tail(bs) : b = Tail(bs)[i]
    BY DEF ToSet
  <2>2. b = bs[i + 1] /\ i + 1 \in DOMAIN bs /\ i + 1 # 1
    BY <1>3, <2>1
  <2> QED
    BY <1>3, <2>2 DEF OneEach, bs
<1>8. InLane(lane) = ToSet(Head(bs)) \cup Behind(lane)
  BY <1>3 DEF InLane, Behind, bs
<1> QED
  BY <1>4, <1>5, <1>6, <1>7, <1>8 DEF bs, rest

\* A message that is admitted joins those collected.
LEMMA AdmitEffect ==
  ASSUME NEW S, NEW lane, LaneOf(lane, S), OneEach(lane), NEW m \in S, m \notin InLane(lane)
  PROVE  /\ LaneOf(Admit(lane, m), S) /\ OneEach(Admit(lane, m))
         /\ Admit(lane, m).batches = lane.batches
         /\ InLane(Admit(lane, m)) = InLane(lane) \cup {m}
         /\ Behind(Admit(lane, m)) = Behind(lane) \cup {m}
<1>1. Admit(lane, m) = [collected |-> Append(lane.collected, m), batches |-> lane.batches]
  BY DEF Admit
<1>2. lane.collected \in Seq(S) /\ lane.batches \in Seq(Seq(S))
  BY DEF LaneOf
<1>3. ToSet(Append(lane.collected, m)) = ToSet(lane.collected) \cup {m}
  BY <1>2, AppendElements
<1>4. \A i \in DOMAIN lane.batches : m \notin ToSet(lane.batches[i])
  BY DEF InLane, ToSet
<1>5. LaneOf(Admit(lane, m), S)
  BY <1>1, <1>2 DEF LaneOf
<1>6. OneEach(Admit(lane, m))
  <2> DEFINE new == Append(lane.collected, m)
  <2> HIDE DEF new
  <2>1. Admit(lane, m) = [collected |-> new, batches |-> lane.batches]
        /\ ToSet(new) = ToSet(lane.collected) \cup {m}
    BY <1>1, <1>3 DEF new
  <2> QED
    BY <1>4, <2>1 DEF OneEach
<1> QED
  BY <1>1, <1>3, <1>5, <1>6 DEF InLane, Behind

\* A flush moves what was collected to the end of the batches.
LEMMA FlushEffect ==
  ASSUME NEW S, NEW lane, LaneOf(lane, S), OneEach(lane)
  PROVE  /\ LaneOf(Flushed(lane), S) /\ OneEach(Flushed(lane))
         /\ Flushed(lane).batches # <<>>
         /\ InLane(Flushed(lane)) = InLane(lane)
         /\ lane.batches # <<>> => Behind(Flushed(lane)) = Behind(lane)
<1> DEFINE bs == lane.batches
           c == lane.collected
           all == Append(bs, c)
<1>1. c \in Seq(S) /\ bs \in Seq(Seq(S))
  BY DEF LaneOf
<1>2. Flushed(lane) = [collected |-> <<>>, batches |-> all]
  BY DEF Flushed
<1>3. /\ all \in Seq(Seq(S)) /\ all # <<>>
      /\ ToSet(all) = ToSet(bs) \cup {c}
      /\ \A i \in DOMAIN all : \/ i \in DOMAIN bs /\ all[i] = bs[i]
                               \/ i = Len(bs) + 1 /\ all[i] = c
  BY <1>1, AppendElements
<1>4. bs # <<>> => ToSet(Tail(all)) = ToSet(Tail(bs)) \cup {c}
  <2> SUFFICES ASSUME bs # <<>> PROVE ToSet(Tail(all)) = ToSet(Tail(bs)) \cup {c}
    OBVIOUS
  <2>1. Tail(all) = Append(Tail(bs), c)
    BY <1>1, TailAppend
  <2> DEFINE tail == Tail(bs)
  <2>2. tail \in Seq(Seq(S))
    BY <1>1, TailElements
  <2> HIDE DEF tail, c
  <2>3. ToSet(Append(tail, c)) = ToSet(tail) \cup {c}
    BY <1>1, <2>2, AppendElements
  <2> QED
    BY <2>1, <2>3 DEF tail
<1>7. ToSet(<<>>) = {}
  BY DEF ToSet
<1>8. OneEach(Flushed(lane))
  <2> HIDE DEF bs, c, all
  <2>1. \A i, j \in DOMAIN all : i # j => ToSet(all[i]) \cap ToSet(all[j]) = {}
    <3> SUFFICES ASSUME NEW i \in DOMAIN all, NEW j \in DOMAIN all, i # j
                 PROVE  ToSet(all[i]) \cap ToSet(all[j]) = {}
      OBVIOUS
    <3>1. /\ \A k, l \in DOMAIN bs : k # l => ToSet(bs[k]) \cap ToSet(bs[l]) = {}
          /\ \A k \in DOMAIN bs : ToSet(bs[k]) \cap ToSet(c) = {}
      BY DEF OneEach, bs, c
    <3> QED
      BY <1>3, <3>1
  <2> QED
    BY <1>2, <1>7, <2>1 DEF OneEach
<1> HIDE DEF bs, c, all
<1>9. LaneOf(Flushed(lane), S)
  BY <1>2, <1>3 DEF LaneOf
<1>10. InLane(Flushed(lane)) = InLane(lane)
  BY <1>2, <1>3, <1>7 DEF InLane, bs, c
<1>11. bs # <<>> => Behind(Flushed(lane)) = Behind(lane)
  BY <1>2, <1>4, <1>7 DEF Behind, bs, c
<1> QED
  BY <1>2, <1>3, <1>8, <1>9, <1>10, <1>11 DEF bs

\* An empty lane.
LEMMA EmptyEffect ==
  ASSUME NEW S
  PROVE  LaneOf(EmptyLane, S) /\ OneEach(EmptyLane) /\ InLane(EmptyLane) = {}
BY DEF LaneOf, EmptyLane, OneEach, InLane, ToSet

-------------------------------------------------------------------------------
(* The lanes, step by step.                                                    *)

\* The steps one by one.
LEMMA Steps ==
  ASSUME Next
  PROVE  \/ \E r \in Ids : Send(r) \/ Reject(r) \/ RemoveSuperseded(r)
         \/ FlushChild \/ AcceptBatch \/ Started \/ DispatchFails \/ TurnEnds
         \/ FlushCaller \/ NoticeDispatched \/ NoticeRefused
         \/ \E w \in Watches : \/ Suppress(w) \/ Open(w) \/ Result(w) \/ ObservationFails(w)
                               \/ Decide(w) \/ Deliver(w) \/ RemovalFails(w) \/ RemoveRecords(w)
         \/ Archive \/ Close \/ Exit \/ Crash \/ Start
BY DEF Next, Dispatch, Notify, Settle, Step, Fault

\* What a step does to the lane of the prompts.
ChildLaneKept == UNCHANGED <<toChild, starting>>
Gone == toChild' = EmptyLane /\ toCaller' = EmptyLane /\ ~starting'
TakesBatch ==
  /\ toChild.batches # <<>> /\ ~starting
  /\ Waiting' = Waiting \ ToSet(Head(toChild.batches))
  /\ ToSet(Head(toChild.batches)) \subseteq Waiting

LEMMA ChildLaneStep ==
  ASSUME Types, Next
  PROVE  /\ LaneOf(toChild, Ids)' /\ OneEach(toChild)'
         /\ starting' => toChild'.batches # <<>>
         /\ InLane(toChild)' \subseteq sent'
         /\ AcceptBatch \/ (DispatchFails /\ ~starting) => TakesBatch
         /\ AcceptBatch \/ DispatchFails => Waiting' \cap ToSet(Head(toChild.batches)) = {}
         /\ \/ Waiting' \subseteq Waiting
            \/ \E r \in Ids : Send(r) /\ Waiting' = Waiting \cup {r}
<1> USE DEF Types, TypeOK
<1>1. ASSUME ChildLaneKept, sent \subseteq sent'
      PROVE  Waiting' = Waiting /\ LaneOf(toChild, Ids)' /\ OneEach(toChild)'
             /\ (starting' => toChild'.batches # <<>>) /\ InLane(toChild)' \subseteq sent'
  BY <1>1 DEF ChildLaneKept, Waiting
<1>2. ASSUME NEW r \in Ids, Send(r) PROVE Waiting' = Waiting \cup {r}
                                      /\ LaneOf(toChild, Ids)' /\ OneEach(toChild)'
                                      /\ toChild'.batches = toChild.batches /\ starting' = starting
                                      /\ InLane(toChild)' \subseteq sent'
  <2>1. r \notin InLane(toChild) /\ toChild' = Admit(toChild, r) /\ starting' = starting
        /\ sent' = sent \cup {r}
    BY <1>2 DEF Send
  <2> QED
    BY <2>1, AdmitEffect DEF Waiting
<1>3. ASSUME FlushChild
      PROVE  /\ Waiting' = Waiting /\ LaneOf(toChild, Ids)' /\ OneEach(toChild)'
             /\ (starting' => toChild'.batches # <<>>) /\ InLane(toChild)' \subseteq sent'
  <2>1. toChild' = Flushed(toChild) /\ starting' = starting /\ sent' = sent
    BY <1>3 DEF FlushChild, file
  <2> QED
    BY <2>1, FlushEffect DEF Waiting
<1>4. ASSUME toChild.batches # <<>>
      PROVE  /\ LaneOf(Advance(toChild), Ids) /\ OneEach(Advance(toChild))
             /\ InLane(Advance(toChild)) = Behind(toChild)
             /\ Behind(toChild) = InLane(toChild) \ ToSet(Head(toChild.batches))
             /\ ToSet(Head(toChild.batches)) \subseteq InLane(toChild)
             /\ Behind(toChild) \subseteq InLane(toChild)
  <2>1. LaneOf(toChild, Ids) /\ OneEach(toChild)
    BY DEF Types
  <2> HIDE DEF Types, TypeOK
  <2> QED
    BY <1>4, <2>1, LaneParts
<1>5. ASSUME AcceptBatch
      PROVE  /\ TakesBatch /\ Waiting' \subseteq Waiting
             /\ LaneOf(toChild, Ids)' /\ OneEach(toChild)'
             /\ (starting' => toChild'.batches # <<>>) /\ InLane(toChild)' \subseteq sent'
  <2>1. toChild.batches # <<>> /\ ~starting /\ sent' = sent
        /\ \/ starting' /\ toChild' = toChild
           \/ ~starting' /\ toChild' = Advance(toChild)
    BY <1>5 DEF AcceptBatch, file
  <2> QED
    BY <1>4, <1>5, <2>1 DEF Waiting, TakesBatch
<1>6. ASSUME Started \/ DispatchFails
      PROVE  /\ DispatchFails /\ ~starting => TakesBatch
             /\ Waiting' \cap ToSet(Head(toChild.batches)) = {}
             /\ Waiting' \subseteq Waiting /\ LaneOf(toChild, Ids)' /\ OneEach(toChild)'
             /\ ~starting' /\ InLane(toChild)' \subseteq sent'
  <2>1. toChild' = Advance(toChild) /\ ~starting' /\ sent' = sent
        /\ toChild.batches # <<>>
    BY <1>6 DEF Started, DispatchFails, file
  <2>2. Started => starting
    BY DEF Started
  <2> QED
    BY <1>4, <1>6, <2>1, <2>2 DEF Waiting, TakesBatch
<1>7. ASSUME Exit \/ Crash
      PROVE  /\ Waiting' = {} /\ LaneOf(toChild, Ids)' /\ OneEach(toChild)' /\ ~starting'
             /\ InLane(toChild)' \subseteq sent'
  <2>1. Gone
    BY <1>7 DEF Exit, Crash, Vanish, Gone
  <2>2. LaneOf(EmptyLane, Ids) /\ OneEach(EmptyLane) /\ InLane(EmptyLane) = {}
    BY EmptyEffect
  <2> QED
    BY <2>1, <2>2 DEF Gone, Waiting
<1>8. ASSUME \/ \E r \in Ids : Reject(r) \/ RemoveSuperseded(r)
             \/ TurnEnds \/ FlushCaller \/ NoticeDispatched \/ NoticeRefused
             \/ \E w \in Watches : \/ Suppress(w) \/ Open(w) \/ Result(w) \/ ObservationFails(w)
                                   \/ Decide(w) \/ Deliver(w) \/ RemovalFails(w) \/ RemoveRecords(w)
             \/ Archive \/ Close \/ Start
      PROVE  ChildLaneKept /\ sent' = sent
  BY <1>8 DEF Reject, RemoveSuperseded, TurnEnds, FlushCaller, NoticeDispatched, NoticeRefused,
     Suppress, Open, Result, ObservationFails, Decide, Deliver, RemovalFails, RemoveRecords,
     Archive, Close, Start, ChildLaneKept, lanes, file
<1>9. AcceptBatch \/ (DispatchFails /\ ~starting) => TakesBatch
  <2>1. CASE AcceptBatch
    BY <1>5, <2>1
  <2>2. CASE DispatchFails /\ ~starting
    BY <1>6, <2>2
  <2> QED
    BY <2>1, <2>2
<1>10. AcceptBatch \/ DispatchFails => Waiting' \cap ToSet(Head(toChild.batches)) = {}
  BY <1>5, <1>6 DEF TakesBatch
<1> QED
  BY <1>1, <1>2, <1>3, <1>5, <1>6, <1>7, <1>8, <1>9, <1>10, Steps

\* What a step does to the lane of the notices.
TakesNotices ==
  /\ toCaller.batches # <<>>
  /\ InLane(toCaller)' = InLane(toCaller) \ ToSet(Head(toCaller.batches))
  /\ ToSet(Head(toCaller.batches)) \subseteq InLane(toCaller)

LEMMA CallerLaneStep ==
  ASSUME Types, LanesInv, Next
  PROVE  /\ LaneOf(toCaller, Watches)' /\ OneEach(toCaller)'
         /\ NoticeDispatched \/ NoticeRefused => TakesNotices
         /\ \/ InLane(toCaller)' \subseteq InLane(toCaller)
            \/ \E w \in Watches : Deliver(w) /\ InLane(toCaller)' = InLane(toCaller) \cup {w}
<1> USE DEF Types, TypeOK
<1>1. ASSUME UNCHANGED toCaller
      PROVE  LaneOf(toCaller, Watches)' /\ OneEach(toCaller)' /\ InLane(toCaller)' = InLane(toCaller)
  BY <1>1
<1>2. ASSUME NEW w \in Watches, Deliver(w)
      PROVE  /\ LaneOf(toCaller, Watches)' /\ OneEach(toCaller)'
             /\ InLane(toCaller)' = InLane(toCaller) \cup {w}
  <2>1. w \notin InLane(toCaller) /\ toCaller' = Admit(toCaller, w)
    BY <1>2 DEF Deliver, LanesInv
  <2> QED
    BY <2>1, AdmitEffect
<1>3. ASSUME FlushCaller
      PROVE  LaneOf(toCaller, Watches)' /\ OneEach(toCaller)' /\ InLane(toCaller)' = InLane(toCaller)
  <2>1. toCaller' = Flushed(toCaller)
    BY <1>3 DEF FlushCaller
  <2> QED
    BY <2>1, FlushEffect
<1>4. ASSUME NoticeDispatched \/ NoticeRefused
      PROVE  /\ LaneOf(toCaller, Watches)' /\ OneEach(toCaller)' /\ TakesNotices
             /\ InLane(toCaller)' \subseteq InLane(toCaller)
  <2>1. toCaller' = Advance(toCaller) /\ toCaller.batches # <<>>
    BY <1>4 DEF NoticeDispatched, NoticeRefused
  <2> QED
    <3>1. LaneOf(toCaller, Watches) /\ OneEach(toCaller)
      BY DEF Types
    <3> HIDE DEF Types, TypeOK
    <3>2. /\ LaneOf(Advance(toCaller), Watches) /\ OneEach(Advance(toCaller))
          /\ InLane(Advance(toCaller)) = Behind(toCaller)
          /\ ToSet(Head(toCaller.batches)) \cap Behind(toCaller) = {}
          /\ InLane(toCaller) = ToSet(Head(toCaller.batches)) \cup Behind(toCaller)
      BY <2>1, <3>1, LaneParts
    <3> QED
      BY <2>1, <3>2 DEF TakesNotices
<1>5. ASSUME Exit \/ Crash
      PROVE  LaneOf(toCaller, Watches)' /\ OneEach(toCaller)' /\ InLane(toCaller)' = {}
  <2>1. Gone
    BY <1>5 DEF Exit, Crash, Vanish, Gone
  <2>2. LaneOf(EmptyLane, Watches) /\ OneEach(EmptyLane) /\ InLane(EmptyLane) = {}
    BY EmptyEffect
  <2> QED
    BY <2>1, <2>2 DEF Gone
<1>6. ASSUME \/ \E r \in Ids : Send(r) \/ Reject(r) \/ RemoveSuperseded(r)
             \/ FlushChild \/ AcceptBatch \/ Started \/ DispatchFails \/ TurnEnds
             \/ \E w \in Watches : \/ Suppress(w) \/ Open(w) \/ Result(w) \/ ObservationFails(w)
                                   \/ Decide(w) \/ RemovalFails(w) \/ RemoveRecords(w)
             \/ Archive \/ Close \/ Start
      PROVE  UNCHANGED toCaller
  BY <1>6 DEF Send, Reject, RemoveSuperseded, FlushChild, AcceptBatch, Started, DispatchFails,
     TurnEnds, Suppress, Open, Result, ObservationFails, Decide, RemovalFails, RemoveRecords,
     Archive, Close, Start, lanes
<1> QED
  BY <1>1, <1>2, <1>3, <1>4, <1>5, <1>6, Steps

-------------------------------------------------------------------------------
(* The parts of the invariant.                                                 *)

LEMMA StructureInit == Init => Structure
<1> SUFFICES ASSUME Init PROVE Structure
  OBVIOUS
<1> USE DEF Init
<1>1. LaneOf(EmptyLane, Ids) /\ LaneOf(EmptyLane, Watches) /\ OneEach(EmptyLane)
      /\ InLane(EmptyLane) = {}
  BY EmptyEffect
<1>2. Types
  BY <1>1 DEF Types, TypeOK, Stage, Watches
<1>3. RecordsInv /\ PhaseInv /\ NotifiedInv /\ WholeInv
  BY FinishNoticesAssumption DEF RecordsInv, PhaseInv, NotifiedInv, WholeInv, Watches
<1>4. LanesInv /\ ResultInv
  BY <1>1 DEF LanesInv, ResultInv, HasResult, Waiting
<1>5. EveryRecordIsWatched
  BY DEF EveryRecordIsWatched
<1> QED
  BY <1>2, <1>3, <1>4, <1>5 DEF Structure

\* The batch of prompts that is being dispatched.
LEMMA FirstBatch ==
  ASSUME Types, toChild.batches # <<>>
  PROVE  ToSet(Head(toChild.batches)) \subseteq Ids \cap sent
<1>1. LaneOf(toChild, Ids) /\ OneEach(toChild)
  BY DEF Types
<1>2. ToSet(Head(toChild.batches)) \subseteq InLane(toChild)
  BY <1>1, LaneParts
<1> QED
  BY <1>2 DEF Types, TypeOK

LEMMA TypesStep ==
  ASSUME Types, RecordsInv, LanesInv, Next
  PROVE  Types'
<1>1. /\ LaneOf(toChild, Ids)' /\ OneEach(toChild)'
      /\ starting' => toChild'.batches # <<>>
      /\ InLane(toChild)' \subseteq sent'
      /\ LaneOf(toCaller, Watches)' /\ OneEach(toCaller)'
  BY ChildLaneStep, CallerLaneStep
<1>2. InLane(toChild)' \subseteq Ids /\ InLane(toCaller)' \subseteq Watches
  <2>1. \A S, lane : LaneOf(lane, S) => InLane(lane) \subseteq S
    <3> SUFFICES ASSUME NEW S, NEW lane, LaneOf(lane, S), NEW x \in InLane(lane) PROVE x \in S
      OBVIOUS
    <3>1. lane.collected \in Seq(S) /\ lane.batches \in Seq(Seq(S))
      BY DEF LaneOf
    <3>2. \A s \in Seq(S) : ToSet(s) \subseteq S
      BY DEF ToSet
    <3>3. \A s \in Seq(Seq(S)) : ToSet(s) \subseteq Seq(S)
      BY DEF ToSet
    <3> QED
      BY <3>1, <3>2, <3>3 DEF InLane
  <2> QED
    BY <1>1, <2>1
<1>3. toChild.batches # <<>> => ToSet(Head(toChild.batches)) \subseteq Ids \cap sent
  BY FirstBatch
<1> USE DEF Types, TypeOK
<1>4. CASE \E r \in Ids : Send(r)
  <2>1. Group \subseteq Ids
    BY DEF Group
  <2> QED
    BY <1>1, <1>2, <1>4, <2>1 DEF Send, queue, child, told, bounds, Stage, Live, Watches
<1>5. CASE \E r \in Ids : Reject(r) \/ RemoveSuperseded(r)
  BY <1>1, <1>2, <1>5 DEF Reject, RemoveSuperseded, watching, lanes, child, told, bounds, Stage
<1>6. CASE FlushChild \/ Started \/ FlushCaller
  BY <1>1, <1>2, <1>6 DEF FlushChild, Started, FlushCaller, file, watching, queue, child, told, bounds
<1>7. CASE AcceptBatch
  <2>1. Superseding(Accepting(Head(toChild.batches))) \subseteq Ids /\ toChild.batches # <<>>
    BY <1>3, <1>7 DEF AcceptBatch, Superseding, Accepting
  <2> QED
    BY <1>1, <1>2, <1>3, <1>7, <2>1 DEF AcceptBatch, Accept, file, told, bounds, Stage, Live
<1>8. CASE DispatchFails
  <2>1. toChild.batches # <<>>
    BY <1>8 DEF DispatchFails
  <2> QED
    BY <1>1, <1>2, <1>3, <1>8, <2>1 DEF DispatchFails, file
<1>9. CASE TurnEnds
  BY <1>1, <1>2, <1>9 DEF TurnEnds, file, queue, lanes, told, bounds
<1>10. CASE NoticeDispatched \/ NoticeRefused
  BY <1>1, <1>2, <1>10 DEF NoticeDispatched, NoticeRefused, file, queue, child, told, bounds, Stage, Live
<1>11. CASE \E w \in Watches : \/ Suppress(w) \/ Open(w) \/ Result(w) \/ ObservationFails(w)
                               \/ Decide(w) \/ Deliver(w) \/ RemovalFails(w) \/ RemoveRecords(w)
  BY <1>1, <1>2, <1>11 DEF Suppress, Open, Result, ObservationFails, Decide, Deliver, RemovalFails,
     RemoveRecords, Move, file, watching, queue, lanes, child, told, bounds, Stage, Live
<1>12. CASE Archive \/ Start
  BY <1>1, <1>2, <1>12 DEF Archive, Start, file, watching, queue, lanes, child, told, bounds, Stage, Live, Watches
<1>13. CASE Close
  <2>1. restarts' \in Nat /\ phase' = "closing" /\ store' \subseteq store /\ removing' = {}
        /\ rejecting' = {} /\ stage' \in [Watches -> {"none", "stopped"}]
    BY <1>13 DEF Close
  <2> QED
    BY <1>1, <1>2, <1>13, <2>1 DEF Close, lanes, child, told, Stage
<1>14. CASE Exit \/ Crash
  <2>1. restarts' \in Nat
    BY <1>14 DEF Exit, Crash
  <2> QED
    BY <1>1, <1>2, <1>14, <2>1 DEF Exit, Crash, Vanish, told, Stage
<1> QED
  BY <1>4, <1>5, <1>6, <1>7, <1>8, <1>9, <1>10, <1>11, <1>12, <1>13, <1>14, Steps

\* A step that leaves a watch alone or moves one that is at work.
LEMMA RecordsStep ==
  ASSUME Types, RecordsInv, PhaseInv, LanesInv, Next
  PROVE  RecordsInv'
<1> USE DEF Types, TypeOK, RecordsInv
<1>1. CASE \E r \in Ids : Send(r)
  BY <1>1, FinishNoticesAssumption DEF Send, Watches
<1>2. CASE \E r \in Ids : Reject(r) \/ RemoveSuperseded(r)
  BY <1>2, FinishNoticesAssumption DEF Reject, RemoveSuperseded, watching, Watches
<1>3. CASE FlushChild \/ Started \/ FlushCaller \/ DispatchFails \/ TurnEnds \/ Archive
  BY <1>3 DEF FlushChild, Started, FlushCaller, DispatchFails, TurnEnds, Archive, file, watching
<1>4. CASE AcceptBatch
  <2>1. Accepting(Head(toChild.batches)) \subseteq {w \in Watches : stage[w] = "pending"}
    BY <1>4, FirstBatch DEF AcceptBatch, Accepting, Watches
  <2> QED
    BY <1>4, <2>1 DEF AcceptBatch, Accept, file, Live, Watches
<1>5. CASE NoticeDispatched \/ NoticeRefused
  BY <1>5 DEF NoticeDispatched, NoticeRefused, file, Watches
<1>6. CASE \E w \in Watches : \/ Suppress(w) \/ Open(w) \/ Result(w) \/ ObservationFails(w)
                              \/ Decide(w) \/ Deliver(w) \/ RemovalFails(w) \/ RemoveRecords(w)
  BY <1>6 DEF Suppress, Open, Result, ObservationFails, Decide, Deliver, RemovalFails,
     RemoveRecords, Move, file, watching, Watches
<1>7. CASE Start
  BY <1>7, FinishNoticesAssumption DEF Start, file, PhaseInv, Watches
<1>8. CASE Close \/ Exit \/ Crash
  BY <1>8 DEF Close, Exit, Crash, Vanish, Watches
<1> QED
  BY <1>1, <1>2, <1>3, <1>4, <1>5, <1>6, <1>7, <1>8, Steps

LEMMA PhaseStep ==
  ASSUME Types, RecordsInv, PhaseInv, LanesInv, Next
  PROVE  PhaseInv'
<1> USE DEF Types, TypeOK, PhaseInv
<1>1. CASE \E r \in Ids : Send(r)
  BY <1>1, FinishNoticesAssumption DEF Send, bounds, Watches
<1>2. CASE \E r \in Ids : Reject(r) \/ RemoveSuperseded(r)
  BY <1>2, FinishNoticesAssumption DEF Reject, RemoveSuperseded, watching, bounds, lanes, child, Watches
<1>3. CASE FlushChild \/ Started \/ FlushCaller \/ DispatchFails \/ TurnEnds \/ Archive
  BY <1>3 DEF FlushChild, Started, FlushCaller, DispatchFails, TurnEnds, Archive, file, watching, bounds,
     lanes, child, EmptyLane
<1>4. CASE AcceptBatch
  <2>1. phase # "down" /\ phase' = phase /\ restarts' = restarts
    BY <1>4 DEF AcceptBatch, bounds
  <2>2. phase = "closing" => stage' \in [Watches -> {"none", "stopped"}]
    BY <1>4, <2>1 DEF AcceptBatch, Accept, Accepting, Live
  <2>3. stage[Boot] = "none" => stage'[Boot] = "none"
    BY <1>4, ChildLaneStep, FinishNoticesAssumption
       DEF AcceptBatch, Accept, Accepting, Live, TakesBatch, LanesInv, Watches
  <2> QED
    BY <2>1, <2>2, <2>3
<1>5. CASE NoticeDispatched \/ NoticeRefused
  BY <1>5 DEF NoticeDispatched, NoticeRefused, bounds, lanes, child, EmptyLane, Watches
<1>6. CASE \E w \in Watches : \/ Suppress(w) \/ Open(w) \/ Result(w) \/ ObservationFails(w)
                              \/ Decide(w) \/ Deliver(w) \/ RemovalFails(w) \/ RemoveRecords(w)
  BY <1>6 DEF Suppress, Open, Result, ObservationFails, Decide, Deliver, RemovalFails,
     RemoveRecords, Move, watching, bounds, lanes, child, Watches
<1>7. CASE Start
  BY <1>7 DEF Start, bounds
<1>8. CASE Close \/ Crash \/ Exit
  BY <1>8 DEF Close, Exit, Crash, Vanish
<1> QED
  BY <1>1, <1>2, <1>3, <1>4, <1>5, <1>6, <1>7, <1>8, Steps

LEMMA LanesStep ==
  ASSUME Types, RecordsInv, PhaseInv, LanesInv, Next
  PROVE  LanesInv'
<1> USE DEF Types, TypeOK, RecordsInv, LanesInv
<1> DEFINE batch == ToSet(Head(toChild.batches))
           notices == ToSet(Head(toCaller.batches))
<1>1. CASE \E r \in Ids : Send(r)
  <2>1. PICK r \in Ids : Send(r)
    BY <1>1
  <2>2. Waiting' \subseteq Waiting \cup {r} /\ InLane(toCaller)' = InLane(toCaller)
    <3>1. toCaller' = toCaller /\ ~(AcceptBatch \/ DispatchFails) /\ sent' = sent \cup {r} /\ r \notin sent
      BY <2>1 DEF Send, AcceptBatch, DispatchFails, file
    <3>2. \A s \in Ids : Send(s) => s = r
      BY <3>1 DEF Send
    <3> QED
      BY <3>1, <3>2, ChildLaneStep
  <2>3. r \notin sent /\ sent' = sent \cup {r} /\ stage' = [stage EXCEPT ![r] = "pending"]
        /\ accepted' = accepted /\ withdrawn' = withdrawn
    BY <2>1 DEF Send, child, told
  <2> QED
    BY <2>2, <2>3 DEF Watches
<1>2. ASSUME sent' = sent
      PROVE  Waiting' \subseteq Waiting
  BY <1>2, ChildLaneStep DEF Send
<1>3. ASSUME \A w \in Watches : stage[w] = "deliver" => stage'[w] # "sent"
      PROVE  InLane(toCaller)' \subseteq InLane(toCaller)
  BY <1>3, CallerLaneStep DEF Deliver, Move
<1>4. ASSUME UNCHANGED <<sent, accepted, withdrawn>>,
             \A w \in Watches : \/ stage'[w] \in {stage[w], "stopped"}
                                \/ /\ stage[w] \in Live \ {"sent", "pending"}
                                   /\ stage'[w] # "sent"
      PROVE  LanesInv'
  BY <1>2, <1>3, <1>4 DEF Live, Watches
<1>5. CASE \E r \in Ids : Reject(r) \/ RemoveSuperseded(r)
  BY <1>4, <1>5 DEF Reject, RemoveSuperseded, watching, child, told, file
<1>6. CASE FlushChild \/ Started \/ FlushCaller \/ TurnEnds \/ Archive
  BY <1>4, <1>6 DEF FlushChild, Started, FlushCaller, TurnEnds, Archive, watching, child, told, file
<1>7. CASE \E w \in Watches : \/ Suppress(w) \/ Open(w) \/ Result(w) \/ ObservationFails(w)
                              \/ Decide(w) \/ RemovalFails(w) \/ RemoveRecords(w)
  BY <1>4, <1>7 DEF Suppress, Open, Result, ObservationFails, Decide, RemovalFails, RemoveRecords,
     Move, watching, child, told, file, Live
<1>8. CASE Close
  BY <1>4, <1>8 DEF Close, child, told
<1>9. CASE Start
  <2>1. InLane(toCaller) = {} /\ Waiting \subseteq Ids
    BY <1>9, EmptyEffect DEF Start, PhaseInv
  <2> QED
    BY <1>2, <1>3, <1>9, <2>1, FinishNoticesAssumption DEF Start, child, told, file, PhaseInv, Watches
<1>10. CASE Exit \/ Crash
  <2>1. toChild' = EmptyLane /\ toCaller' = EmptyLane /\ ~starting'
    BY <1>10 DEF Exit, Crash, Vanish
  <2>2. Waiting' = {} /\ InLane(toCaller)' = {}
    BY <2>1, EmptyEffect DEF Waiting
  <2> QED
    BY <2>2
<1>11. CASE DispatchFails
  <2>1. Waiting' \subseteq Waiting /\ Waiting' \cap ToSet(Head(toChild.batches)) = {}
    BY <1>2, <1>11, ChildLaneStep DEF DispatchFails, file
  <2>2. InLane(toCaller)' \subseteq InLane(toCaller)
    BY <1>3, <1>11 DEF DispatchFails
  <2> QED
    BY <1>11, <2>1, <2>2 DEF DispatchFails, file
<1>12. CASE AcceptBatch
  <2>1. Waiting' \subseteq Waiting /\ Waiting' \cap ToSet(Head(toChild.batches)) = {}
    BY <1>2, <1>12, ChildLaneStep DEF AcceptBatch, file
  <2>2. \A w \in Watches : \/ stage'[w] \in {stage[w], "stopped"}
                           \/ stage[w] = "pending" /\ w \in ToSet(Head(toChild.batches)) /\ stage'[w] = "observe"
    BY <1>12 DEF AcceptBatch, Accept, Accepting
  <2>3. InLane(toCaller)' \subseteq InLane(toCaller)
    BY <1>3, <2>2
  <2> QED
    BY <1>12, <2>1, <2>2, <2>3 DEF AcceptBatch, file, told, Watches
<1>13. CASE NoticeDispatched \/ NoticeRefused
  <2>1. TakesNotices
    BY <1>13, CallerLaneStep
  <2>2. \A w \in Watches : \/ stage'[w] = stage[w]
                           \/ stage[w] = "sent" /\ w \in ToSet(Head(toCaller.batches))
    BY <1>13 DEF NoticeDispatched, NoticeRefused
  <2>3. Waiting' \subseteq Waiting /\ UNCHANGED <<sent, accepted, withdrawn>>
    BY <1>2, <1>13 DEF NoticeDispatched, NoticeRefused, file, child, told
  <2> QED
    BY <2>1, <2>2, <2>3 DEF TakesNotices, Watches
<1>14. CASE \E w \in Watches : Deliver(w)
  <2>1. PICK w \in Watches : Deliver(w)
    BY <1>14
  <2>2. stage[w] = "deliver" /\ stage' = [stage EXCEPT ![w] = "sent"]
        /\ UNCHANGED <<sent, accepted, withdrawn>>
    BY <2>1 DEF Deliver, Move, file, child, told
  <2>3. InLane(toCaller)' \subseteq InLane(toCaller) \cup {w}
    BY <2>2, CallerLaneStep DEF Deliver, Move
  <2> QED
    BY <1>2, <2>2, <2>3 DEF Watches
<1> QED
  BY <1>1, <1>5, <1>6, <1>7, <1>8, <1>9, <1>10, <1>11, <1>12, <1>13, <1>14, Steps

\* Only a delivery adds a notice.
LEMMA NoticesStay ==
  ASSUME Types, LanesInv, Next, \A w \in Watches : stage[w] = "deliver" => stage'[w] # "sent"
  PROVE  InLane(toCaller)' \subseteq InLane(toCaller)
BY CallerLaneStep DEF Deliver, Move, Types, TypeOK

LEMMA ResultStep ==
  ASSUME Types, RecordsInv, PhaseInv, LanesInv, ResultInv, Next
  PROVE  ResultInv'
<1> USE DEF Types, TypeOK, ResultInv, HasResult
<1>1. ASSUME UNCHANGED <<records, accepted>>, over \subseteq over', turn \cup over \subseteq turn' \cup over',
             \A w \in Watches : stage'[w] \in {stage[w], "pending", "observe", "remove", "stopped", "none"},
             \A w \in heard' : w \in heard \/ accepted \subseteq over'
      PROVE  ResultInv'
  BY <1>1, NoticesStay
<1>2. CASE \E r \in Ids : Send(r)
  BY <1>1, <1>2 DEF Send, child
<1>3. CASE \E r \in Ids : Reject(r) \/ RemoveSuperseded(r)
  BY <1>1, <1>3 DEF Reject, RemoveSuperseded, watching, child
<1>4. CASE FlushChild \/ Started \/ FlushCaller \/ Archive
  BY <1>1, <1>4 DEF FlushChild, Started, FlushCaller, Archive, watching, child
<1>5. CASE DispatchFails \/ TurnEnds
  BY <1>1, <1>5 DEF DispatchFails, TurnEnds
<1>6. CASE Close \/ Exit \/ Crash
  BY <1>1, <1>6 DEF Close, Exit, Crash, Vanish, child
<1>7. CASE AcceptBatch
  <2> DEFINE batch == ToSet(Head(toChild.batches))
  <2>1. batch \subseteq Waiting
    BY <1>7, ChildLaneStep DEF TakesBatch
  <2>2. accepted' = accepted \cup batch /\ turn' = turn \cup batch
        /\ UNCHANGED <<over, records, heard>>
        /\ \A w \in Watches : stage'[w] \in {stage[w], "observe", "stopped"}
    BY <1>7 DEF AcceptBatch, Accept
  <2>3. InLane(toCaller)' \subseteq InLane(toCaller)
    BY <2>2, NoticesStay
  <2>4. \A w \in Watches : HasResult(w) => records[w] \cap batch = {}
    BY <2>1, FinishNoticesAssumption DEF LanesInv, RecordsInv, Watches
  <2> QED
    BY <2>2, <2>3, <2>4
<1>8. CASE NoticeDispatched \/ NoticeRefused
  BY <1>8, NoticesStay DEF NoticeDispatched, NoticeRefused, child
<1>9. CASE \E w \in Watches : \/ Suppress(w) \/ Open(w) \/ ObservationFails(w)
                              \/ RemovalFails(w) \/ RemoveRecords(w)
  BY <1>9, NoticesStay
     DEF Suppress, Open, ObservationFails, RemovalFails, RemoveRecords, Move, child, watching
<1>10. CASE \E w \in Watches : Result(w) \/ Decide(w)
  BY <1>10, NoticesStay DEF Result, Decide, Move, child
<1>11. CASE \E w \in Watches : Deliver(w)
  <2>1. PICK w \in Watches : Deliver(w)
    BY <1>11
  <2>2. stage[w] = "deliver" /\ stage' = [stage EXCEPT ![w] = "sent"]
        /\ UNCHANGED <<records, accepted, over, turn, heard>>
    BY <2>1 DEF Deliver, Move, child
  <2>3. InLane(toCaller)' \subseteq InLane(toCaller) \cup {w}
    BY <2>2, CallerLaneStep DEF Deliver, Move
  <2> QED
    BY <2>2, <2>3
<1>12. CASE Start
  <2>1. InLane(toCaller) = {}
    BY <1>12, EmptyEffect DEF Start, PhaseInv
  <2>2. UNCHANGED <<accepted, over, turn, heard, toCaller>>
        /\ \A w \in Watches : stage'[w] \in {stage[w], "none", "observe"}
    BY <1>12 DEF Start, child, lanes
  <2> QED
    BY <1>12, <2>1, <2>2 DEF Start, PhaseInv
<1> QED
  BY <1>2, <1>3, <1>4, <1>5, <1>6, <1>7, <1>8, <1>9, <1>10, <1>11, <1>12, Steps

LEMMA NotifiedStep ==
  ASSUME Types, RecordsInv, PhaseInv, LanesInv, NotifiedInv, Next
  PROVE  NotifiedInv'
<1> SUFFICES ASSUME restarts' = 0 PROVE NotifiedInv'
  BY DEF NotifiedInv
<1> USE DEF Types, TypeOK, NotifiedInv
<1>1. restarts = 0 /\ ~Close /\ ~Exit /\ ~Crash /\ ~Start
  <2>1. restarts' = restarts \/ restarts' = restarts + 1
    BY Steps DEF Send, Reject, RemoveSuperseded, FlushChild, AcceptBatch, Started, DispatchFails,
       TurnEnds, FlushCaller, NoticeDispatched, NoticeRefused, Suppress, Open, Result,
       ObservationFails, Decide, Deliver, RemovalFails, RemoveRecords, Archive, Close, Exit,
       Crash, Start, bounds
  <2>2. restarts = 0 /\ restarts' = restarts
    BY <2>1
  <2> QED
    BY <2>2 DEF PhaseInv, Close, Exit, Crash, Start
<1>2. ASSUME UNCHANGED notified,
             \A w \in Watches : stage[w] \in {"remove", "stopped"} => stage'[w] \in {"remove", "stopped"},
             \A w \in Watches : stage[w] = "deliver" => stage'[w] # "sent"
      PROVE  NotifiedInv'
  BY <1>1, <1>2, NoticesStay DEF Watches
<1>3. CASE \E r \in Ids : Send(r)
  BY <1>2, <1>3 DEF Send, told, RecordsInv, Watches
<1>4. CASE \E r \in Ids : Reject(r) \/ RemoveSuperseded(r)
  BY <1>2, <1>4 DEF Reject, RemoveSuperseded, watching, told
<1>5. CASE FlushChild \/ Started \/ FlushCaller \/ TurnEnds \/ DispatchFails \/ Archive
  BY <1>2, <1>5 DEF FlushChild, Started, FlushCaller, TurnEnds, DispatchFails, Archive, watching, told
<1>6. CASE AcceptBatch
  BY <1>2, <1>6 DEF AcceptBatch, Accept, Accepting, told
<1>7. CASE NoticeRefused
  BY <1>2, <1>7 DEF NoticeRefused, told
<1>8. CASE NoticeDispatched
  <2> DEFINE batch == ToSet(Head(toCaller.batches))
  <2>1. batch \subseteq InLane(toCaller) /\ InLane(toCaller)' = InLane(toCaller) \ batch
    BY <1>8, CallerLaneStep DEF TakesNotices
  <2>2. \A w \in batch : w \in Ids /\ records[w] = {w}
    BY <1>1, <2>1, FinishNoticesAssumption DEF LanesInv, RecordsInv, PhaseInv, Watches
  <2>3. notified' = notified \cup batch
    BY <1>8, <2>2 DEF NoticeDispatched
  <2> QED
    BY <1>1, <1>8, <2>1, <2>3 DEF NoticeDispatched, LanesInv, Watches
<1>9. CASE \E w \in Watches : \/ Suppress(w) \/ Open(w) \/ Result(w) \/ ObservationFails(w)
                              \/ Decide(w) \/ RemovalFails(w) \/ RemoveRecords(w)
  BY <1>2, <1>9 DEF Suppress, Open, Result, ObservationFails, Decide, RemovalFails, RemoveRecords,
     Move, watching, told
<1>10. CASE \E w \in Watches : Deliver(w)
  <2>1. PICK w \in Watches : Deliver(w)
    BY <1>10
  <2>2. stage[w] = "deliver" /\ stage' = [stage EXCEPT ![w] = "sent"] /\ notified' = notified
    BY <2>1 DEF Deliver, Move, told
  <2>3. InLane(toCaller)' \subseteq InLane(toCaller) \cup {w}
    BY <2>2, CallerLaneStep DEF Deliver, Move
  <2> QED
    BY <1>1, <2>2, <2>3 DEF Watches
<1> QED
  BY <1>1, <1>3, <1>4, <1>5, <1>6, <1>7, <1>8, <1>9, <1>10, Steps

LEMMA WholeStep ==
  ASSUME Types, RecordsInv, PhaseInv, LanesInv, WholeInv, Next
  PROVE  WholeInv'
<1> USE DEF Types, TypeOK, RecordsInv, WholeInv
<1>1. ASSUME UNCHANGED <<records, predecessors>>,
             \A r \in Ids : stage'[r] = "pending" => stage[r] = "pending"
      PROVE  WholeInv'
  BY <1>1
<1>2. CASE \E r \in Ids : Send(r)
  <2>1. PICK r \in Ids : Send(r)
    BY <1>2
  <2>2. stage' = [stage EXCEPT ![r] = "pending"] /\ UNCHANGED records
        /\ predecessors' = [predecessors EXCEPT ![r] = Group]
    BY <2>1 DEF Send
  <2>3. records[Boot] \cap Group \in {{}, records[Boot]}
    BY DEF Group, Live, Watches
  <2> QED
    BY <2>2, <2>3
<1>3. CASE \E r \in Ids : Reject(r) \/ RemoveSuperseded(r)
  <2>1. UNCHANGED <<records, predecessors>>
    BY <1>3 DEF Reject, RemoveSuperseded, watching
  <2>2. \A r \in Ids : stage'[r] = "pending" => stage[r] = "pending"
    BY <1>3 DEF Reject, RemoveSuperseded, watching, Watches
  <2> QED
    BY <1>1, <2>1, <2>2
<1>4. CASE FlushChild \/ Started \/ FlushCaller \/ TurnEnds \/ DispatchFails \/ Archive
  BY <1>1, <1>4 DEF FlushChild, Started, FlushCaller, TurnEnds, DispatchFails, Archive, watching
<1>5. CASE AcceptBatch
  BY <1>1, <1>5 DEF AcceptBatch, Accept, Watches
<1>6. CASE NoticeDispatched \/ NoticeRefused
  BY <1>1, <1>6 DEF NoticeDispatched, NoticeRefused, Watches
<1>7. CASE \E w \in Watches : \/ Suppress(w) \/ Open(w) \/ Result(w) \/ ObservationFails(w)
                              \/ Decide(w) \/ Deliver(w) \/ RemovalFails(w) \/ RemoveRecords(w)
  <2>1. UNCHANGED <<records, predecessors>>
    BY <1>7 DEF Suppress, Open, Result, ObservationFails, Decide, Deliver, RemovalFails,
       RemoveRecords, Move, watching
  <2>2. \A r \in Ids : stage'[r] = "pending" => stage[r] = "pending"
    BY <1>7 DEF Suppress, Open, Result, ObservationFails, Decide, Deliver, RemovalFails,
       RemoveRecords, Move, watching, Watches
  <2> QED
    BY <1>1, <2>1, <2>2
<1>8. CASE Start
  BY <1>8, FinishNoticesAssumption DEF Start, PhaseInv, Watches
<1>9. CASE Close \/ Exit \/ Crash
  BY <1>1, <1>9 DEF Close, Exit, Crash, Vanish, Watches
<1> QED
  BY <1>2, <1>3, <1>4, <1>5, <1>6, <1>7, <1>8, <1>9, Steps

LEMMA WatchedStep ==
  ASSUME Types, RecordsInv, PhaseInv, LanesInv, WholeInv, EveryRecordIsWatched, Next
  PROVE  EveryRecordIsWatched'
<1> SUFFICES ASSUME phase' = "up",
                    NEW r \in store', r \notin (removing \cup rejecting)'
             PROVE  \E w \in Watches : stage'[w] \in Live /\ r \in records'[w]
  BY DEF EveryRecordIsWatched
<1> USE DEF Types, TypeOK, RecordsInv, EveryRecordIsWatched
<1>1. r \in Ids
  <2>1. store' \subseteq Ids
    BY TypesStep
  <2> QED
    BY <2>1
<1>2. ASSUME phase = "up", r \in store, r \notin removing \cup rejecting, UNCHANGED records,
             \A w \in Watches : stage[w] \in Live /\ r \in records[w] => stage'[w] \in Live
      PROVE  \E w \in Watches : stage'[w] \in Live /\ r \in records'[w]
  BY <1>2
<1>3. CASE \E q \in Ids : Send(q)
  <2>1. PICK q \in Ids : Send(q)
    BY <1>3
  <2>2. /\ q \notin sent /\ store' = store \cup {q} /\ stage' = [stage EXCEPT ![q] = "pending"]
        /\ UNCHANGED <<phase, records, removing, rejecting>>
    BY <2>1 DEF Send, queue
  <2>3. CASE r = q
    BY <2>2, <2>3 DEF Live, Watches
  <2>4. CASE r # q
    BY <1>2, <2>2, <2>4 DEF Live, Watches
  <2> QED
    BY <2>3, <2>4
<1>4. CASE \E q \in Ids : Reject(q)
  <2>1. PICK q \in Ids : Reject(q)
    BY <1>4
  <2>2. /\ r # q /\ r \in store /\ r \notin removing \cup rejecting /\ phase = "up"
        /\ \A w \in Watches : w # q => stage'[w] = stage[w]
        /\ UNCHANGED records
    BY <2>1 DEF Reject, watching
  <2> QED
    BY <1>2, <2>2, FinishNoticesAssumption DEF Watches
<1>5. CASE \E q \in Ids : RemoveSuperseded(q)
  BY <1>2, <1>5 DEF RemoveSuperseded, watching
<1>6. CASE FlushChild \/ Started \/ FlushCaller \/ TurnEnds \/ DispatchFails \/ Archive
  BY <1>2, <1>6 DEF FlushChild, Started, FlushCaller, TurnEnds, DispatchFails, Archive, watching,
     queue, file
<1>7. CASE AcceptBatch
  <2> DEFINE rs == Accepting(Head(toChild.batches))
  <2>1. /\ removing' = removing \cup Superseding(rs) /\ UNCHANGED <<records, rejecting, store, phase>>
        /\ rs \subseteq {s \in Ids : stage[s] = "pending"}
        /\ \A w \in Watches : stage'[w] = IF records[w] \cap Superseding(rs) # {} /\ stage[w] \in Live
                                          THEN "stopped" ELSE IF w \in rs THEN "observe" ELSE stage[w]
    BY <1>7, FirstBatch DEF AcceptBatch, Accept, Accepting, file
  <2>2. PICK w \in Watches : stage[w] \in Live /\ r \in records[w]
    BY <2>1
  <2>3. records[w] \cap Superseding(rs) = {}
    <3> SUFFICES ASSUME NEW q \in records[w], NEW s \in rs, q \in predecessors[s] PROVE FALSE
      BY DEF Superseding
    <3>1. CASE w \in Ids
      BY <2>1, <2>2, <3>1 DEF Superseding
    <3>2. CASE w = Boot
      <4>1. records[Boot] \subseteq predecessors[s]
        BY <2>1, <3>2 DEF WholeInv
      <4> QED
        BY <2>1, <2>2, <3>2, <4>1 DEF Superseding
    <3> QED
      BY <3>1, <3>2 DEF Watches
  <2> QED
    BY <2>1, <2>2, <2>3 DEF Live
<1>8. CASE NoticeDispatched \/ NoticeRefused
  BY <1>2, <1>8 DEF NoticeDispatched, NoticeRefused, Live, queue, file
<1>9. CASE \E w \in Watches : \/ Suppress(w) \/ Open(w) \/ Result(w) \/ ObservationFails(w)
                              \/ Decide(w) \/ Deliver(w) \/ RemovalFails(w)
  <2>1. UNCHANGED <<phase, records, store, queue>>
        /\ \A w \in Watches : stage[w] \in Live => stage'[w] \in Live
    BY <1>9 DEF Suppress, Open, Result, ObservationFails, Decide, Deliver, RemovalFails, Move,
       Live, watching, file
  <2> QED
    BY <1>2, <2>1 DEF queue
<1>10. CASE \E w \in Watches : RemoveRecords(w)
  <2>1. PICK w \in Watches : RemoveRecords(w)
    BY <1>10
  <2>2. /\ r \in store \ records[w] /\ UNCHANGED <<phase, records, queue>>
        /\ \A v \in Watches : v # w => stage'[v] = stage[v]
    BY <2>1 DEF RemoveRecords, Move
  <2> QED
    BY <1>2, <2>2 DEF queue
<1>11. CASE Start
  BY <1>1, <1>11 DEF Start, file, Live, Watches
<1>12. CASE Close \/ Exit \/ Crash
  BY <1>12 DEF Close, Exit, Crash, Vanish
<1> QED
  BY <1>3, <1>4, <1>5, <1>6, <1>7, <1>8, <1>9, <1>10, <1>11, <1>12, Steps

LEMMA StructureStep == Structure /\ [Next]_vars => Structure'
<1> SUFFICES ASSUME Structure, [Next]_vars PROVE Structure'
  OBVIOUS
<1>1. CASE Next
  BY <1>1, TypesStep, RecordsStep, PhaseStep, LanesStep, ResultStep, NotifiedStep, WholeStep,
     WatchedStep DEF Structure
<1>2. CASE UNCHANGED vars
  BY <1>2 DEF vars, Structure, Types, TypeOK, RecordsInv, PhaseInv, LanesInv, ResultInv, HasResult,
     NotifiedInv, WholeInv, EveryRecordIsWatched, Waiting, file, watching, queue, lanes, child, told,
     bounds
<1> QED
  BY <1>1, <1>2

\* Lanes, watches and registrations always fit together.
THEOREM Structured == Spec => []Structure
<1> QED
  BY StructureInit, StructureStep, PTL DEF Spec

\* Every variable keeps its type.
THEOREM TypeCorrect == Spec => []TypeOK
<1>1. Structure => TypeOK
  BY DEF Structure, Types
<1> QED
  BY <1>1, Structured, PTL

\* A notice on its way is never ahead of the work it reports, whatever fails
\* and however often the daemon stops.
THEOREM NeverEarly == Spec => []NoEarlyNotice
<1>1. Structure => NoEarlyNotice
  BY DEF Structure, Types, TypeOK, ResultInv, HasResult, NoEarlyNotice
<1> QED
  BY <1>1, Structured, PTL

\* Until a restart, the caller hears once of each prompt.
THEOREM HeardOnce == Spec => []NoticeOnce
<1>1. Structure => NoticeOnce
  BY DEF Structure, Types, TypeOK, RecordsInv, PhaseInv, LanesInv, NotifiedInv, NoticeOnce, Watches
<1> QED
  BY <1>1, Structured, PTL

\* A running daemon looks after every registration in its file.
THEOREM RecordsAreWatched == Spec => []EveryRecordIsWatched
<1>1. Structure => EveryRecordIsWatched
  BY DEF Structure
<1> QED
  BY <1>1, Structured, PTL

-------------------------------------------------------------------------------
(* What the file owes.                                                         *)

LEMMA StoreInit == Init => StoreInv
BY DEF Init, StoreInv

\* No registration ceases to be replaced.
LEMMA ReplacedStays ==
  ASSUME Types, LanesInv, Next
  PROVE  /\ \A r \in Ids : Replaced(r) => Replaced(r)'
         /\ withdrawn \subseteq withdrawn' /\ notified \subseteq notified' /\ sent \subseteq sent'
<1>1. accepted \subseteq accepted' /\ withdrawn \subseteq withdrawn' /\ notified \subseteq notified'
      /\ sent \subseteq sent'
  BY Steps DEF Send, Reject, RemoveSuperseded, FlushChild, AcceptBatch, Started, DispatchFails,
     TurnEnds, FlushCaller, NoticeDispatched, NoticeRefused, Suppress, Open, Result,
     ObservationFails, Decide, Deliver, RemovalFails, RemoveRecords, Archive, Close, Exit,
     Crash, Vanish, Start, file, child, told
<1>2. \A s \in accepted : predecessors'[s] = predecessors[s]
  <2>1. CASE \E r \in Ids : Send(r)
    BY <2>1 DEF Send, Types, TypeOK
  <2>2. CASE ~\E r \in Ids : Send(r)
    <3>1. predecessors' = predecessors
      BY <2>2, Steps DEF Reject, RemoveSuperseded, FlushChild, AcceptBatch, Started, DispatchFails,
         TurnEnds, FlushCaller, NoticeDispatched, NoticeRefused, Suppress, Open, Result,
         ObservationFails, Decide, Deliver, RemovalFails, RemoveRecords, Archive, Close, Exit,
         Crash, Vanish, Start, watching
    <3> QED
      BY <3>1
  <2> QED
    BY <2>1, <2>2
<1> QED
  BY <1>1, <1>2 DEF Replaced

LEMMA StoreStep ==
  ASSUME Types, RecordsInv, PhaseInv, LanesInv, StoreInv, Next
  PROVE  StoreInv'
<1> USE DEF Types, TypeOK, StoreInv, Settled
<1>1. /\ \A r \in Ids : Replaced(r) => Replaced(r)'
      /\ withdrawn \subseteq withdrawn' /\ notified \subseteq notified' /\ sent \subseteq sent'
  BY ReplacedStays
<1>2. ASSUME rejecting' \subseteq rejecting, removing' \subseteq removing, callerActive' => callerActive,
             sent' = sent, UNCHANGED records,
             \A r \in store \ store' : callerActive => Settled(r),
             \A w \in Watches : stage'[w] = "remove" /\ callerActive' => stage[w] = "remove"
      PROVE  StoreInv'
  BY <1>1, <1>2
<1>3. CASE \E r \in Ids : Send(r)
  BY <1>1, <1>3 DEF Send, told, queue
<1>4. CASE \E r \in Ids : Reject(r)
  BY <1>2, <1>4 DEF Reject, watching
<1>5. CASE \E r \in Ids : RemoveSuperseded(r)
  BY <1>2, <1>5 DEF RemoveSuperseded, watching
<1>6. CASE FlushChild \/ Started \/ FlushCaller \/ TurnEnds \/ Archive
  BY <1>2, <1>6 DEF FlushChild, Started, FlushCaller, TurnEnds, Archive, watching, file, queue
<1>7. CASE DispatchFails
  BY <1>1, <1>7 DEF DispatchFails, file
<1>8. CASE AcceptBatch
  <2> DEFINE batch == ToSet(Head(toChild.batches))
             rs == Accepting(Head(toChild.batches))
  <2>1. batch \subseteq Waiting
    BY <1>8, ChildLaneStep DEF TakesBatch
  <2>2. /\ accepted' = accepted \cup batch /\ withdrawn' = withdrawn /\ notified' = notified
        /\ predecessors' = predecessors /\ rs \subseteq batch
    BY <1>8 DEF AcceptBatch, Accepting, told
  <2>3. \A r \in Superseding(rs) : Replaced(r)'
    BY <2>1, <2>2 DEF Superseding, Replaced, LanesInv
  <2>4. /\ removing' = removing \cup Superseding(rs) /\ UNCHANGED <<sent, store, records, rejecting, callerActive>>
        /\ \A w \in Watches : stage'[w] \in {stage[w], "observe", "stopped"}
    BY <1>8 DEF AcceptBatch, Accept, file
  <2> QED
    BY <1>1, <2>3, <2>4
<1>9. CASE NoticeDispatched
  <2> DEFINE batch == ToSet(Head(toCaller.batches))
  <2>1. /\ notified' = notified \cup UNION {records[w] : w \in batch}
        /\ UNCHANGED <<sent, store, records, rejecting, removing, callerActive, withdrawn>>
        /\ \A w \in Watches : stage'[w] = stage[w] \/ w \in batch
    BY <1>9 DEF NoticeDispatched, file, queue
  <2> QED
    BY <1>1, <2>1
<1>10. CASE NoticeRefused
  BY <1>2, <1>10 DEF NoticeRefused, file, queue
<1>11. CASE \E w \in Watches : Suppress(w)
  BY <1>2, <1>11 DEF Suppress, Move, file, queue
<1>12. CASE \E w \in Watches : \/ Open(w) \/ Result(w) \/ ObservationFails(w)
                               \/ Decide(w) \/ Deliver(w) \/ RemovalFails(w)
  BY <1>2, <1>12 DEF Open, Result, ObservationFails, Decide, Deliver, RemovalFails, Move, file,
     queue, watching
<1>13. CASE \E w \in Watches : RemoveRecords(w)
  BY <1>2, <1>13 DEF RemoveRecords, Move, queue
<1>14. CASE Close
  BY <1>2, <1>14 DEF Close
<1>15. CASE Exit \/ Crash
  BY <1>2, <1>15 DEF Exit, Crash, Vanish
<1>16. CASE Start
  BY <1>1, <1>16 DEF Start, file, queue, told, PhaseInv
<1> QED
  BY <1>3, <1>4, <1>5, <1>6, <1>7, <1>8, <1>9, <1>10, <1>11, <1>12, <1>13, <1>14, <1>15, <1>16, Steps

\* A notice that is owed is in the file, whatever dispatch fails and however
\* often the daemon stops, unless a later prompt was accepted whose run did not
\* start.
THEOREM OwedIsDurable == Spec => []OwedNoticeIsDurable
<1>1. Structure /\ StoreInv /\ [Next]_vars => StoreInv'
  <2> SUFFICES ASSUME Structure, StoreInv, [Next]_vars PROVE StoreInv'
    OBVIOUS
  <2>1. CASE Next
    BY <2>1, StoreStep DEF Structure
  <2>2. CASE UNCHANGED vars
    BY <2>2 DEF vars, file, watching, queue, child, told, StoreInv, Settled, Replaced
  <2> QED
    BY <2>1, <2>2
<1>2. Structure /\ StoreInv => OwedNoticeIsDurable
  BY DEF Structure, Types, StoreInv, Settled, OwedNoticeIsDurable, Owed, Replaced, Superseded, Forgone
<1> QED
  BY <1>1, <1>2, StoreInit, Structured, PTL DEF Spec

-----------------------------------------------------------------------------
(* The message receipts. The argument is one inductive invariant about each   *)
(* message: what its receipt, its running call and the number of times it was *)
(* handed to the agent may be together.                                       *)

(* The receipt is written before the message is sent and completed after it. *)
ReceiptInv(m) ==
    /\ receipts[m] = Absent => made[m]["send"] = 0
    /\ sender[m].step = "prepare" => receipts[m] = Absent /\ sender[m].intent \in Intents
    /\ sender[m].step \in {"send", "queued"} =>
         receipts[m] = Pending(sender[m].intent) /\ made[m]["send"] = 0
    /\ sender[m].step = "finish" =>
         receipts[m] = Pending(sender[m].intent) /\ made[m]["send"] = 1
    /\ receipts[m] # Absent /\ receipts[m].state = "completed" => made[m]["send"] = 1
    /\ sender[m].step \in {"send", "queued", "finish"} => sender[m].intent \in Intents
    /\ answer[m] = "accepted" => receipts[m] # Absent /\ receipts[m].state = "completed"

ReceiptsInv == ReceiptsTypeOK /\ \A m \in Messages : ReceiptInv(m)

LEMMA InitReceiptsInv == ReceiptsInit => ReceiptsInv
<1> SUFFICES ASSUME ReceiptsInit PROVE ReceiptsInv
  OBVIOUS
<1>1. ReceiptsTypeOK
  BY MessageAssumption DEF ReceiptsInit, ReceiptsTypeOK, Receipts, CallSteps, Answers, Idle
<1>2. ASSUME NEW m \in Messages PROVE ReceiptInv(m)
  BY DEF ReceiptsInit, ReceiptInv, Idle
<1> QED
  BY <1>1, <1>2 DEF ReceiptsInv

LEMMA NextReceiptsInv == ReceiptsInv /\ [ReceiptsNext]_receiptsVars => ReceiptsInv'
<1> SUFFICES ASSUME ReceiptsInv, [ReceiptsNext]_receiptsVars PROVE ReceiptsInv'
  OBVIOUS
<1> USE MessageAssumption DEF ReceiptsInv, ReceiptsTypeOK, Goes, Replies, Returns, Throws
<1>1. ASSUME NEW m \in Messages, NEW i \in Intents, SendOnce(m, i) PROVE ReceiptsInv'
  <2>1. ReceiptsTypeOK'
    BY <1>1 DEF SendOnce, Known, CallSteps, Answers, Receipts
  <2>2. ASSUME NEW n \in Messages PROVE ReceiptInv(n)'
    BY <1>1 DEF SendOnce, Known, ReceiptInv, Pending, Receipts, CallSteps
  <2> QED BY <2>1, <2>2
<1>2. ASSUME NEW m \in Messages, WritePending(m) PROVE ReceiptsInv'
  <2>1. ReceiptsTypeOK'
    BY <1>2 DEF WritePending, ReceiptInv, Pending, CallSteps, Answers, Receipts
  <2>2. ASSUME NEW n \in Messages PROVE ReceiptInv(n)'
    BY <1>2 DEF WritePending, ReceiptInv, Pending, Receipts, CallSteps
  <2> QED BY <2>1, <2>2
<1>3. ASSUME NEW m \in Messages, PrepareFails(m) PROVE ReceiptsInv'
  <2>1. ReceiptsTypeOK'
    BY <1>3 DEF PrepareFails, Idle, CallSteps, Answers, Receipts
  <2>2. ASSUME NEW n \in Messages PROVE ReceiptInv(n)'
    BY <1>3 DEF PrepareFails, Idle, ReceiptInv, Pending, Receipts, CallSteps
  <2> QED BY <2>1, <2>2
<1>4. ASSUME NEW m \in Messages, Enqueue(m) PROVE ReceiptsInv'
  <2>1. ReceiptsTypeOK'
    BY <1>4 DEF Enqueue, CallSteps, Answers, Receipts
  <2>2. ASSUME NEW n \in Messages PROVE ReceiptInv(n)'
    BY <1>4 DEF Enqueue, ReceiptInv, Pending, Receipts, CallSteps
  <2> QED BY <2>1, <2>2
<1>5. ASSUME NEW m \in Messages, SendMessage(m) PROVE ReceiptsInv'
  <2>1. ReceiptsTypeOK'
    <3>1. made' \in [Messages -> [{"send"} -> Nat]]
      BY <1>5 DEF SendMessage
    <3>2. sender' \in [Messages -> [step : CallSteps, intent : Intents \cup {Absent}]]
      BY <1>5 DEF SendMessage, Idle, CallSteps
    <3>3. answer' \in [Messages -> Answers] /\ faults' \in 0..MaxFaults
      BY <1>5 DEF SendMessage, Failure, Answers
    <3> QED
      BY <1>5, <3>1, <3>2, <3>3 DEF SendMessage
  <2>2. ASSUME NEW n \in Messages PROVE ReceiptInv(n)'
    BY <1>5 DEF SendMessage, Ready, Failure, Idle, ReceiptInv, Pending, Receipts, CallSteps
  <2> QED BY <2>1, <2>2
<1>6. ASSUME NEW m \in Messages, SendFails(m) PROVE ReceiptsInv'
  <2>1. ReceiptsTypeOK'
    BY <1>6 DEF SendFails, Failure, Idle, CallSteps, Answers, Receipts
  <2>2. ASSUME NEW n \in Messages PROVE ReceiptInv(n)'
    BY <1>6 DEF SendFails, Ready, Failure, Idle, ReceiptInv, Pending, Receipts, CallSteps
  <2> QED BY <2>1, <2>2
<1>7. ASSUME NEW m \in Messages, Finish(m) PROVE ReceiptsInv'
  <2>1. ReceiptsTypeOK'
    <3>1. sender[m].intent \in Intents
      BY <1>7 DEF Finish, ReceiptInv
    <3>2. receipts' \in [Messages -> Receipts \cup {Absent}]
      BY <1>7, <3>1 DEF Finish, Completed, Receipts
    <3>3. sender' \in [Messages -> [step : CallSteps, intent : Intents \cup {Absent}]]
      BY <1>7 DEF Finish, Idle, CallSteps
    <3>4. answer' \in [Messages -> Answers] /\ faults' \in 0..MaxFaults
      BY <1>7 DEF Finish, Failure, Answers
    <3> QED
      BY <1>7, <3>2, <3>3, <3>4 DEF Finish
  <2>2. ASSUME NEW n \in Messages PROVE ReceiptInv(n)'
    BY <1>7 DEF Finish, Failure, Completed, Idle, ReceiptInv, Pending, Receipts, CallSteps
  <2> QED BY <2>1, <2>2
<1>8. CASE ReceiptsCrash
  <2>1. ReceiptsTypeOK'
    BY <1>8 DEF ReceiptsCrash, Idle, CallSteps
  <2>2. ASSUME NEW n \in Messages PROVE ReceiptInv(n)'
    BY <1>8 DEF ReceiptsCrash, Idle, ReceiptInv
  <2> QED BY <2>1, <2>2
<1>9. CASE UNCHANGED receiptsVars
  BY <1>9 DEF receiptsVars, ReceiptInv
<1> QED
  BY <1>1, <1>2, <1>3, <1>4, <1>5, <1>6, <1>7, <1>8, <1>9 DEF ReceiptsNext

THEOREM ReceiptsInvariant == ReceiptsSpec => []ReceiptsInv
  BY InitReceiptsInv, NextReceiptsInv, PTL DEF ReceiptsSpec

(* A caller told that its message was accepted has had it sent exactly once. *)
THEOREM AcceptedIsSentAlways == ReceiptsSpec => []AcceptedIsSent
<1>1. ReceiptsInv => AcceptedIsSent
  BY DEF ReceiptsInv, ReceiptInv, AcceptedIsSent
<1> QED
  BY <1>1, ReceiptsInvariant, PTL

(* Without a receipt nothing was sent. *)
THEOREM NoReceiptNothingSentAlways == ReceiptsSpec => []NoReceiptNothingSent
<1>1. ReceiptsInv => NoReceiptNothingSent
  BY DEF ReceiptsInv, ReceiptInv, NoReceiptNothingSent
<1> QED
  BY <1>1, ReceiptsInvariant, PTL

(* Every step of the receipts is a step of the promise, or changes nothing of *)
(* it: only Send performs the effect and only Finish makes a verdict durable. *)
LEMMA StepImplements == ReceiptsInv /\ [ReceiptsNext]_receiptsVars => [Abstract!AbstractNext]_<<made, DurableVerdict>>
<1> SUFFICES ASSUME ReceiptsInv, [ReceiptsNext]_receiptsVars
             PROVE  Abstract!AbstractNext \/ UNCHANGED <<made, DurableVerdict>>
  OBVIOUS
<1> USE MessageAssumption DEF ReceiptsInv, ReceiptsTypeOK
<1>1. ASSUME NEW m \in Messages, NEW i \in Intents, SendOnce(m, i)
      PROVE  UNCHANGED <<made, DurableVerdict>>
  BY <1>1 DEF SendOnce, DurableVerdict
<1>2. ASSUME NEW m \in Messages, WritePending(m)
      PROVE  UNCHANGED <<made, DurableVerdict>>
  BY <1>2 DEF WritePending, ReceiptInv, Pending, DurableVerdict
<1>3. ASSUME NEW m \in Messages, PrepareFails(m) \/ Enqueue(m) \/ SendFails(m)
      PROVE  UNCHANGED <<made, DurableVerdict>>
  BY <1>3 DEF PrepareFails, Enqueue, SendFails, DurableVerdict
<1>4. ASSUME NEW m \in Messages, SendMessage(m)
      PROVE  Abstract!Perform(m, "send")
  <2>1. receipts[m] = Pending(sender[m].intent) /\ made[m]["send"] = 0
    BY <1>4 DEF SendMessage, Ready, ReceiptInv
  <2>2. DurableVerdict[m] = "open"
    BY <2>1 DEF DurableVerdict, Pending
  <2>3. UNCHANGED DurableVerdict
    BY <1>4 DEF SendMessage, DurableVerdict
  <2>4. made' = [made EXCEPT ![m]["send"] = 1]
    BY <1>4, <2>1 DEF SendMessage
  <2> QED
    BY <2>1, <2>2, <2>3, <2>4 DEF Abstract!Perform
<1>5. ASSUME NEW m \in Messages, Finish(m)
      PROVE  Abstract!Conclude(m) \/ UNCHANGED <<made, DurableVerdict>>
  <2>1. receipts[m] = Pending(sender[m].intent) /\ made[m]["send"] = 1
    BY <1>5 DEF Finish, ReceiptInv
  <2>2. CASE receipts' = receipts
    BY <1>5, <2>2 DEF Finish, DurableVerdict
  <2>3. CASE receipts' = [receipts EXCEPT ![m] = Completed(sender[m].intent)]
    <3>1. Completed(sender[m].intent) # Absent
      BY <1>5 DEF Finish, ReceiptInv, Completed
    <3>2. DurableVerdict' = [DurableVerdict EXCEPT ![m] = "done"]
      BY <2>3, <3>1 DEF DurableVerdict, Completed
    <3>3. DurableVerdict[m] = "open"
      BY <2>1 DEF DurableVerdict, Pending
    <3> QED
      BY <1>5, <2>1, <3>2, <3>3 DEF Finish, Abstract!Conclude
  <2> QED
    BY <1>5, <2>2, <2>3 DEF Finish
<1>6. CASE ReceiptsCrash
  BY <1>6 DEF ReceiptsCrash, DurableVerdict
<1>7. CASE UNCHANGED receiptsVars
  BY <1>7 DEF receiptsVars, DurableVerdict
<1> QED
  BY <1>1, <1>2, <1>3, <1>4, <1>5, <1>6, <1>7 DEF ReceiptsNext, Abstract!AbstractNext

(* The message receipts implement the promise of AtMostOnce. *)
THEOREM ReceiptsImplement == ReceiptsSpec => ImplementsAtMostOnce
<1>1. ReceiptsInit => Abstract!AbstractInit
  BY DEF ReceiptsInit, Abstract!AbstractInit, DurableVerdict
<1> QED
  BY <1>1, ReceiptsInvariant, StepImplements, PTL
     DEF ReceiptsSpec, ImplementsAtMostOnce, Abstract!AbstractSpec, Abstract!abstractVars
=============================================================================
