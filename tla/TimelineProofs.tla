--------------------------- MODULE TimelineProofs ---------------------------
(***************************************************************************)
(* What an app can rely on while it follows the timeline of one chat, for  *)
(* any size of pages and timelines and any number of rewinds, restarts,    *)
(* lost connections and failed fetches.                                    *)
(*                                                                         *)
(* The handlers of TimelineSync are long: an answer flushes the frame,     *)
(* applies its page for every caller and lets each go on, and each of      *)
(* these may start or supersede a catch-up.  So the proof has layers: what *)
(* the operators return; what each does to the fetches (Onward) and to the *)
(* rows, range and flags (Took); what the first load of a chat goes        *)
(* through (Loading); and, on top, the invariant of the steps.             *)
(***************************************************************************)
EXTENDS TimelineSync, SequenceTheorems, WellFoundedInduction, TLAPS

-----------------------------------------------------------------------------
(* Sequences and numbers.                                                  *)

LEMMA ASequence ==
  ASSUME NEW S, NEW n \in Nat, NEW f \in [1..n -> S]
  PROVE  f \in Seq(S) /\ Len(f) = n
BY SeqDef

LEMMA Elements ==
  ASSUME NEW S, NEW s \in Seq(S)
  PROVE  /\ Len(s) \in Nat /\ DOMAIN s = 1..Len(s)
         /\ \A i \in DOMAIN s : s[i] \in S
         /\ s = <<>> <=> Len(s) = 0
BY LenProperties, ElementOfSeq, EmptySeq

LEMMA Appended ==
  ASSUME NEW S, NEW s \in Seq(S), NEW e \in S
  PROVE  /\ Append(s, e) \in Seq(S) /\ Len(Append(s, e)) = Len(s) + 1
         /\ \A i \in 1..Len(s) : Append(s, e)[i] = s[i]
         /\ Append(s, e)[Len(s) + 1] = e
OBVIOUS

LEMMA Removed ==
  ASSUME NEW S, NEW s \in Seq(S), NEW i \in 1..Len(s)
  PROVE  /\ RemoveAt(s, i) \in Seq(S) /\ Len(RemoveAt(s, i)) = Len(s) - 1
         /\ \A j \in 1..(Len(s) - 1) : RemoveAt(s, i)[j] = IF j < i THEN s[j] ELSE s[j + 1]
<1> DEFINE low == SubSeq(s, 1, i - 1)
           high == SubSeq(s, i + 1, Len(s))
<1>0. Len(s) \in Nat /\ \A j \in 1..Len(s) : s[j] \in S
  BY Elements
<1>1. low \in Seq(S) /\ Len(low) = i - 1 /\ \A j \in 1..(i - 1) : low[j] = s[j]
  BY <1>0, SubSeqProperties
<1>2. high \in Seq(S) /\ Len(high) = Len(s) - i /\ \A j \in 1..(Len(s) - i) : high[j] = s[j + i]
  BY <1>0, SubSeqProperties
<1>3. /\ low \o high \in Seq(S) /\ Len(low \o high) = Len(low) + Len(high)
      /\ \A j \in 1..(Len(low) + Len(high)) :
           (low \o high)[j] = IF j <= Len(low) THEN low[j] ELSE high[j - Len(low)]
  BY <1>1, <1>2, ConcatProperties
<1> HIDE DEF low, high
<1>4. Len(low \o high) = Len(s) - 1
  BY <1>0, <1>1, <1>2, <1>3
<1>5. ASSUME NEW j \in 1..(Len(s) - 1)
      PROVE  (low \o high)[j] = IF j < i THEN s[j] ELSE s[j + 1]
  <2>1. j \in 1..(Len(low) + Len(high))
    BY <1>0, <1>1, <1>2
  <2>2. CASE j < i
    BY <1>0, <1>1, <1>3, <2>1, <2>2
  <2>3. CASE ~(j < i)
    <3>1. j - (i - 1) \in 1..(Len(s) - i) /\ (j - (i - 1)) + i = j + 1
      BY <1>0, <2>3
    <3> QED
      BY <1>0, <1>1, <1>2, <1>3, <2>1, <2>3, <3>1
  <2> QED
    BY <2>2, <2>3
<1> QED
  BY <1>3, <1>4, <1>5 DEF low, high, RemoveAt

\* The one element that is not in the rest of a sequence.
LEMMA Alone ==
  ASSUME NEW S, NEW e \in S
  PROVE  <<e>> \in Seq(S) /\ Len(<<e>>) = 1 /\ <<e>>[1] = e
OBVIOUS

LEMMA Smaller ==
  ASSUME NEW m \in Int, NEW n \in Int
  PROVE  /\ Min({m, n}) = IF m <= n THEN m ELSE n
         /\ Max({m, n}) = IF m >= n THEN m ELSE n
<1> DEFINE lo == IF m <= n THEN m ELSE n
           hi == IF m >= n THEN m ELSE n
<1>1. \A x \in {m, n} : (\A y \in {m, n} : x <= y) <=> x = lo
  OBVIOUS
<1>2. \A x \in {m, n} : (\A y \in {m, n} : x >= y) <=> x = hi
  OBVIOUS
<1>3. lo \in {m, n} /\ hi \in {m, n}
  OBVIOUS
<1> HIDE DEF lo, hi
<1>4. Min({m, n}) = lo
  BY <1>1, <1>3 DEF Min
<1>5. Max({m, n}) = hi
  BY <1>2, <1>3 DEF Max
<1> QED
  BY <1>4, <1>5 DEF lo, hi

-----------------------------------------------------------------------------
(* Recursive functions over a range: each is a chain of steps.             *)

LEMMA Least ==
  ASSUME NEW S \in SUBSET Nat, S # {}
  PROVE  \E s \in S : \A u \in S : s <= u
<1>1. PICK s \in S : \A u \in S : <<u, s>> \notin OpToRel(<, Nat)
  BY WFMin, NatLessThanWellFounded, Zenon
<1>2. \A u \in S : ~(u < s)
  BY <1>1 DEF OpToRel
<1> QED
  BY <1>2

LEMMA UpTo ==
  ASSUME NEW n \in Nat, NEW Good, 0 \in Good,
         \A i \in 1..n : i - 1 \in Good => i \in Good
  PROVE  \A i \in 0..n : i \in Good
<1> DEFINE Bad == {i \in 0..n : i \notin Good}
<1>1. ASSUME Bad # {} PROVE FALSE
  <2>1. Bad \in SUBSET Nat
    OBVIOUS
  <2> HIDE DEF Bad
  <2>2. PICK m \in Bad : \A k \in Bad : m <= k
    BY <1>1, <2>1, Least
  <2>3. m \in 0..n /\ m \notin Good
    BY DEF Bad
  <2>4. m \in 1..n
    BY <2>3
  <2>5. m - 1 \in 0..n /\ ~(m <= m - 1)
    BY <2>4
  <2>6. m - 1 \in Good
    BY <2>2, <2>5 DEF Bad
  <2> QED
    BY <2>3, <2>4, <2>6
<1> QED
  BY <1>1

\* f holds base and what each of n steps makes of it.
Chain(f, base, n, take) ==
  f = [i \in 0..n |-> IF i = 0 THEN base ELSE take[<<f[i - 1], i>>]]

LEMMA ChainExists ==
  ASSUME NEW S, NEW base \in S, NEW n \in Nat, NEW take \in [S \X (1..n) -> S]
  PROVE  \E f \in [0..n -> S] : Chain(f, base, n, take)
<1> DEFINE Run(f, k) == f \in [0..k -> S] /\ Chain(f, base, k, take)
           Good == {k \in 0..n : \E f : Run(f, k)}
<1>1. 0 \in Good
  <2>1. Run([i \in 0..0 |-> base], 0)
    BY DEF Chain
  <2>2. 0 \in 0..n
    OBVIOUS
  <2> HIDE DEF Run
  <2> QED
    BY <2>1, <2>2
<1>2. ASSUME NEW k \in 1..n, k - 1 \in Good PROVE k \in Good
  <2>1. PICK f : Run(f, k - 1)
    BY <1>2
  <2>2. k - 1 \in 0..(k - 1) /\ k \in 0..n
    OBVIOUS
  <2>3. f[k - 1] \in S
    BY <2>1, <2>2
  <2> DEFINE new == take[<<f[k - 1], k>>]
             g == [i \in 0..k |-> IF i = k THEN new ELSE f[i]]
  <2>4. new \in S
    BY <2>3
  <2> HIDE DEF new
  <2>5. g \in [0..k -> S]
    BY <2>1, <2>4
  <2>6. ASSUME NEW i \in 0..k PROVE g[i] = IF i = 0 THEN base ELSE take[<<g[i - 1], i>>]
    <3>1. CASE i = k
      <4>1. g[i] = new /\ g[i - 1] = f[k - 1] /\ i # 0
        BY <3>1
      <4> QED
        BY <3>1, <4>1 DEF new
    <3>2. CASE i # k
      <4>1. i \in 0..(k - 1) /\ (i # 0 => i - 1 \in 0..(k - 1) /\ i - 1 # k)
        BY <3>2
      <4>2. g[i] = f[i] /\ (i # 0 => g[i - 1] = f[i - 1])
        BY <4>1, <3>2
      <4>3. f[i] = IF i = 0 THEN base ELSE take[<<f[i - 1], i>>]
        BY <2>1, <4>1 DEF Chain
      <4> QED
        BY <4>2, <4>3
    <3> QED
      BY <3>1, <3>2
  <2>7. Run(g, k)
    <3> HIDE DEF g
    <3>1. g = [i \in 0..k |-> g[i]]
      BY <2>5
    <3> QED
      BY <2>5, <2>6, <3>1 DEF Chain
  <2> HIDE DEF Run
  <2> QED
    BY <2>2, <2>7
<1> HIDE DEF Good
<1>3. n \in Good
  BY <1>1, <1>2, UpTo
<1> QED
  BY <1>3 DEF Good

-----------------------------------------------------------------------------
(* The operators that fetch leave the store of the app alone.              *)

SameStore(b, a) ==
  /\ b.synced = a.synced /\ b.shown = a.shown /\ b.range = a.range
  /\ b.cached = a.cached /\ b.older = a.older /\ b.newer = a.newer
  /\ b.frame = a.frame /\ b.subscribed = a.subscribed

\* A subscribed app has begun to catch up.
Ready == {a \in Apps : a.subscribed => a.catchUp # None}

LEMMA StatusOfCatchUp ==
  ASSUME NEW a \in Apps, NEW status, InCatchUp(a, status)
  PROVE  a.catchUp \in CatchUps /\ a.catchUp.status = status
BY DEF Apps, InCatchUp

LEMMA NoneIsNothing ==
  /\ \A x \in Spans : x # None
  /\ \A x \in Requests : x # None
  /\ \A x \in CatchUps : x # None
  /\ \A x \in Directions : x # None
BY NoneAssumption DEF Spans, Requests, CatchUps, Directions

LEMMA RequestsAre ==
  /\ Newest \in Requests
  /\ \A e, s \in Nat : After(e, s) \in Requests
  /\ \A r \in Spans : Before(r) \in Requests
BY DEF Newest, After, Before, Requests, Directions, Spans

LEMMA HeldTyped ==
  ASSUME NEW a \in Apps
  PROVE  /\ Held(a) \in Spans \cup {None}
         /\ Resume(a) \in Requests
         /\ Held(a) = None <=> Resume(a).dir = "tail"
         /\ Held(a) = None => Resume(a) = Newest
         /\ Held(a) # None => Resume(a) = After(Held(a).epoch, Held(a).last) /\ Resume(a).dir = "after"
<1>1. Held(a) \in Spans \cup {None}
  BY DEF Held, Apps
<1>2. CASE Held(a) = None
  BY <1>2, RequestsAre DEF Resume, Newest
<1>3. CASE Held(a) # None
  <2>1. Held(a) \in Spans
    BY <1>1, <1>3
  <2>2. Held(a).epoch \in Nat /\ Held(a).last \in Nat
    BY <2>1 DEF Spans
  <2>3. Resume(a) = After(Held(a).epoch, Held(a).last)
    BY <1>3 DEF Resume
  <2> QED
    BY <1>3, <2>1, <2>2, <2>3, RequestsAre DEF After
<1> QED
  BY <1>1, <1>2, <1>3

LEMMA CallerTyped ==
  ASSUME NEW kind \in {"page", "latest", "replacement", "older"},
         NEW overflow \in BOOLEAN, NEW init \in BOOLEAN, NEW request \in Requests
  PROVE  Caller(kind, overflow, init, request) \in Callers
BY DEF Caller, Callers

LEMMA AskTyped ==
  ASSUME NEW a \in Apps, NEW request \in Requests, NEW caller \in Callers
  PROVE  /\ Ask(a, request, caller) \in Apps
         /\ Ask(a, request, caller) = [a EXCEPT !.calls = Ask(a, request, caller).calls]
         /\ Ask(a, request, caller).calls # <<>>
         /\ a.calls = <<>> =>
              Ask(a, request, caller).calls =
                <<[request |-> request, callers |-> <<caller>>, answered |-> FALSE]>>
<1> DEFINE same == {i \in DOMAIN a.calls : a.calls[i].request = request}
           new == [request |-> request, callers |-> <<caller>>, answered |-> FALSE]
           joined == [i \in DOMAIN a.calls |->
                        IF i \in same THEN Joined(a.calls[i], caller) ELSE a.calls[i]]
<1>1. a.calls \in Seq(Calls)
  BY DEF Apps
<1>2. Len(a.calls) \in Nat /\ DOMAIN a.calls = 1..Len(a.calls)
      /\ \A i \in DOMAIN a.calls : a.calls[i] \in Calls
  BY <1>1, Elements
<1>3. CASE same = {}
  <2>1. Ask(a, request, caller) = [a EXCEPT !.calls = Append(a.calls, new)]
    BY <1>3 DEF Ask
  <2>2. new \in Calls
    BY Alone DEF Calls
  <2> HIDE DEF new
  <2>3. Append(a.calls, new) \in Seq(Calls) /\ Len(Append(a.calls, new)) = Len(a.calls) + 1
    BY <1>1, <2>2, Appended
  <2>4. [a EXCEPT !.calls = Append(a.calls, new)] \in Apps
    BY <2>3 DEF Apps
  <2>5. Ask(a, request, caller).calls = Append(a.calls, new)
    BY <2>1, <2>4 DEF Apps
  <2>6. Append(a.calls, new) # <<>>
    BY <2>3, <1>2
  <2>7. a.calls = <<>> => Append(a.calls, new) = <<new>>
    BY <2>2
  <2> QED
    BY <2>1, <2>4, <2>5, <2>6, <2>7 DEF new
<1>4. CASE same # {}
  <2>1. Ask(a, request, caller) = [a EXCEPT !.calls = joined]
    BY <1>4 DEF Ask
  <2>2. ASSUME NEW i \in 1..Len(a.calls)
        PROVE  (IF i \in same THEN Joined(a.calls[i], caller) ELSE a.calls[i]) \in Calls
    <3>1. a.calls[i] \in Calls
      BY <1>2
    <3>2. Append(a.calls[i].callers, caller) \in Seq(Callers)
      BY <3>1 DEF Calls
    <3>3. Joined(a.calls[i], caller) \in Calls
      BY <3>1, <3>2 DEF Calls, Joined
    <3> HIDE DEF same
    <3> QED
      BY <3>1, <3>3
  <2>3. joined \in [1..Len(a.calls) -> Calls]
    <3> HIDE DEF same
    <3> QED
      BY <1>2, <2>2
  <2> HIDE DEF joined
  <2>4. joined \in Seq(Calls) /\ Len(joined) = Len(a.calls)
    BY <1>2, <2>3, ASequence
  <2>5. [a EXCEPT !.calls = joined] \in Apps
    BY <2>4 DEF Apps
  <2>6. Ask(a, request, caller).calls = joined
    BY <2>1, <2>5 DEF Apps
  <2>7. a.calls # <<>>
    BY <1>4, <1>2
  <2>8. joined # <<>>
    BY <1>1, <2>4, <2>7, Elements
  <2> QED
    BY <2>1, <2>5, <2>6, <2>7, <2>8
<1> QED
  BY <1>3, <1>4

LEMMA FetchPageTyped ==
  ASSUME NEW a \in Apps, NEW request \in Requests, NEW overflow \in BOOLEAN
  PROVE  /\ FetchPage(a, request, overflow) \in Apps
         /\ SameStore(FetchPage(a, request, overflow), a)
         /\ FetchPage(a, request, overflow).catchUp = a.catchUp
         /\ FetchPage(a, request, overflow).owed = a.owed
         /\ FetchPage(a, request, overflow).forced = a.forced
         /\ FetchPage(a, request, overflow).settling = a.settling
<1> DEFINE b == [a EXCEPT !.initializing = TRUE,
                          !.init = IF @ = None THEN request.dir ELSE @]
           caller == Caller("page", overflow, ~a.synced, request)
           x == IF a.synced THEN a ELSE b
<1>1. caller \in Callers
  BY CallerTyped DEF Apps
<1>2. x \in Apps /\ SameStore(x, a) /\ x.catchUp = a.catchUp /\ x.owed = a.owed
      /\ x.forced = a.forced /\ x.settling = a.settling
  <2>1. request.dir \in Directions
    BY DEF Requests
  <2>2. b \in Apps
    BY <2>1 DEF Apps
  <2>3. SameStore(b, a) /\ b.catchUp = a.catchUp /\ b.owed = a.owed
        /\ b.forced = a.forced /\ b.settling = a.settling
    BY DEF Apps, SameStore
  <2> QED
    BY <2>2, <2>3 DEF SameStore
<1>3. FetchPage(a, request, overflow) = Ask(x, request, caller)
  BY DEF FetchPage
<1> HIDE DEF x, caller
<1> DEFINE y == Ask(x, request, caller)
<1>4. y \in Apps /\ y = [x EXCEPT !.calls = y.calls]
  BY <1>1, <1>2, AskTyped
<1> HIDE DEF y
<1>5. y.synced = x.synced /\ y.shown = x.shown /\ y.range = x.range
      /\ y.cached = x.cached /\ y.older = x.older /\ y.newer = x.newer
      /\ y.frame = x.frame /\ y.subscribed = x.subscribed
      /\ y.catchUp = x.catchUp /\ y.owed = x.owed /\ y.forced = x.forced
      /\ y.settling = x.settling
  BY <1>2, <1>4 DEF Apps
<1> QED
  BY <1>2, <1>3, <1>4, <1>5 DEF y, SameStore

LEMMA FetchLatestTyped ==
  ASSUME NEW a \in Apps, NEW request \in Requests
  PROVE  /\ FetchLatest(a, request) \in Apps
         /\ SameStore(FetchLatest(a, request), a)
         /\ FetchLatest(a, request).catchUp = a.catchUp
         /\ FetchLatest(a, request).owed = a.owed
         /\ FetchLatest(a, request).forced = TRUE
         /\ FetchLatest(a, request).settling = a.settling
         /\ FetchLatest(a, request).init = a.init
         /\ FetchLatest(a, request).initializing = a.initializing
<1> DEFINE caller == Caller("latest", FALSE, FALSE, request)
           x == [a EXCEPT !.forced = TRUE]
<1>1. caller \in Callers
  BY CallerTyped
<1>2. x \in Apps /\ SameStore(x, a) /\ x.catchUp = a.catchUp /\ x.owed = a.owed
      /\ x.forced = TRUE /\ x.settling = a.settling /\ x.init = a.init
      /\ x.initializing = a.initializing
  BY DEF Apps, SameStore
<1>3. FetchLatest(a, request) = Ask(x, Newest, caller)
  BY DEF FetchLatest
<1> HIDE DEF x, caller
<1> DEFINE y == Ask(x, Newest, caller)
<1>4. y \in Apps /\ y = [x EXCEPT !.calls = y.calls]
  BY <1>1, <1>2, AskTyped, RequestsAre
<1> HIDE DEF y
<1>5. y.synced = x.synced /\ y.shown = x.shown /\ y.range = x.range
      /\ y.cached = x.cached /\ y.older = x.older /\ y.newer = x.newer
      /\ y.frame = x.frame /\ y.subscribed = x.subscribed
      /\ y.catchUp = x.catchUp /\ y.owed = x.owed /\ y.forced = x.forced
      /\ y.settling = x.settling /\ y.init = x.init /\ y.initializing = x.initializing
  BY <1>2, <1>4 DEF Apps
<1> QED
  BY <1>2, <1>3, <1>4, <1>5 DEF y, SameStore

LEMMA DisownedTyped ==
  ASSUME NEW s \in Seq(Callers)
  PROVE  /\ Disowned(s) \in Seq(Callers) /\ Len(Disowned(s)) = Len(s)
         /\ \A i \in 1..Len(s) : Disowned(s)[i] = [s[i] EXCEPT !.owned = FALSE]
<1>1. Len(s) \in Nat /\ DOMAIN s = 1..Len(s) /\ \A i \in 1..Len(s) : s[i] \in Callers
  BY Elements
<1>2. \A c \in Callers : [c EXCEPT !.owned = FALSE] \in Callers
  BY DEF Callers
<1>3. Disowned(s) \in [1..Len(s) -> Callers]
  BY <1>1, <1>2 DEF Disowned
<1>4. \A i \in 1..Len(s) : Disowned(s)[i] = [s[i] EXCEPT !.owned = FALSE]
  BY <1>1 DEF Disowned
<1> QED
  BY <1>1, <1>3, <1>4, ASequence

LEMMA DisownTyped ==
  ASSUME NEW a \in Apps
  PROVE  /\ Disown(a) \in Apps
         /\ Disown(a) = [a EXCEPT !.calls = Disown(a).calls, !.settling = Disown(a).settling]
         /\ Disown(a).settling = Disowned(a.settling)
         /\ Len(Disown(a).calls) = Len(a.calls)
         /\ \A i \in 1..Len(a.calls) :
              Disown(a).calls[i] = Superseded(a.calls[i])
<1> DEFINE calls == [i \in DOMAIN a.calls |-> Superseded(a.calls[i])]
<1>1. a.calls \in Seq(Calls) /\ a.settling \in Seq(Callers)
  BY DEF Apps
<1>2. Len(a.calls) \in Nat /\ DOMAIN a.calls = 1..Len(a.calls)
      /\ \A i \in 1..Len(a.calls) : a.calls[i] \in Calls
  BY <1>1, Elements
<1>3. ASSUME NEW i \in 1..Len(a.calls)
      PROVE  Superseded(a.calls[i]) \in Calls
  <2>1. a.calls[i] \in Calls /\ a.calls[i].callers \in Seq(Callers)
    BY <1>2 DEF Calls
  <2>2. Disowned(a.calls[i].callers) \in Seq(Callers)
    BY <2>1, DisownedTyped
  <2> QED
    BY <2>1, <2>2 DEF Calls, Superseded
<1>4. calls \in [1..Len(a.calls) -> Calls]
  BY <1>2, <1>3
<1>5. \A i \in 1..Len(a.calls) : calls[i] = Superseded(a.calls[i])
  BY <1>2
<1>6. Disown(a) = [a EXCEPT !.calls = calls, !.settling = Disowned(a.settling)]
  BY DEF Disown
<1> HIDE DEF calls
<1>7. calls \in Seq(Calls) /\ Len(calls) = Len(a.calls)
  BY <1>2, <1>4, ASequence
<1>8. Disowned(a.settling) \in Seq(Callers)
  BY <1>1, DisownedTyped
<1>9. Disown(a) \in Apps /\ Disown(a).calls = calls /\ Disown(a).settling = Disowned(a.settling)
  BY <1>6, <1>7, <1>8 DEF Apps
<1> QED
  BY <1>5, <1>6, <1>7, <1>9

-----------------------------------------------------------------------------
(* What the daemon answers.                                                *)

Timelines == [epoch : Nat \ {0}, head : Nat \ {0}]

LEMMA PageFacts ==
  ASSUME NEW r \in Requests, NEW t,
         t.epoch \in Nat \ {0}, t.head \in Nat \ {0}
  PROVE  LET p == Page(r, t)
         IN /\ p \in Pages
            /\ p.dir = r.dir /\ p.epoch = t.epoch /\ p.head = t.head
            /\ p.reset <=> r.dir # "tail" /\ r.epoch # t.epoch
            /\ p.older <=> p.first > 1
            /\ p.dir = "tail" \/ p.reset =>
                 p.last = t.head /\ 1 <= p.first /\ p.first <= p.last /\ ~p.newer
            /\ p.dir = "after" /\ ~p.reset =>
                 /\ p.first = r.seq + 1 /\ p.last <= t.head
                 /\ p.newer <=> p.first <= p.last /\ p.last < t.head
                 /\ p.last < p.first => t.head <= r.seq
                 /\ p.newer => p.last \in Nat
            /\ p.dir = "before" => ~p.newer /\ 1 <= p.first
            /\ p.dir = "before" /\ ~p.reset => p.last <= t.head
<1> DEFINE p == Page(r, t)
           stale == r.dir # "tail" /\ r.epoch # t.epoch
           dir == IF stale THEN "tail" ELSE r.dir
           last == CASE dir = "tail"   -> t.head
                     [] dir = "after"  -> Min({t.head, r.seq + PageSize})
                     [] dir = "before" -> Min({t.head, r.seq - 1})
           first == IF dir = "after" THEN r.seq + 1 ELSE Max({1, last - PageSize + 1})
<1>1. /\ r.dir \in Directions /\ r.epoch \in Nat /\ r.seq \in Nat
      /\ PageSize \in Nat /\ PageSize >= 1 /\ t.head \in Nat /\ t.head >= 1 /\ t.epoch \in Nat
  BY TimelineAssumption DEF Requests
<1>2. p = [dir |-> r.dir, reset |-> stale, epoch |-> t.epoch,
           first |-> first, last |-> last, head |-> t.head,
           older |-> first > 1,
           newer |-> dir = "after" /\ first <= last /\ last < t.head]
  BY DEF Page
<1>3. dir \in {"tail", "after", "before"} /\ (stale => dir = "tail") /\ (~stale => dir = r.dir)
  BY <1>1 DEF Directions
<1> HIDE DEF dir, stale
<1>4. /\ dir = "tail" => last = t.head
      /\ dir = "after" => last = IF t.head <= r.seq + PageSize THEN t.head ELSE r.seq + PageSize
      /\ dir = "before" => last = IF t.head <= r.seq - 1 THEN t.head ELSE r.seq - 1
  <2>1. Min({t.head, r.seq + PageSize}) = IF t.head <= r.seq + PageSize THEN t.head ELSE r.seq + PageSize
    BY <1>1, Smaller
  <2>2. Min({t.head, r.seq - 1}) = IF t.head <= r.seq - 1 THEN t.head ELSE r.seq - 1
    BY <1>1, Smaller
  <2> QED
    BY <2>1, <2>2
<1>5. last \in Int
  BY <1>1, <1>3, <1>4
<1> HIDE DEF last
<1>6. /\ dir = "after" => first = r.seq + 1
      /\ dir # "after" => first = IF 1 >= last - PageSize + 1 THEN 1 ELSE last - PageSize + 1
  <2> DEFINE n == last - PageSize + 1
  <2>1. n \in Int
    BY <1>1, <1>5
  <2> HIDE DEF n
  <2>2. ASSUME NEW m, m = 1 PROVE Max({m, n}) = IF m >= n THEN m ELSE n
    BY <2>1, <2>2, Smaller
  <2>3. Max({1, n}) = IF 1 >= n THEN 1 ELSE n
    BY <2>2
  <2> QED
    BY <2>3 DEF n
<1>7. first \in Nat
  BY <1>1, <1>3, <1>5, <1>6
<1> HIDE DEF first
<1>8. stale \in BOOLEAN
  BY DEF stale
<1>9. p \in Pages
  BY <1>1, <1>2, <1>5, <1>7, <1>8 DEF Pages
<1>10. /\ p.dir = r.dir /\ p.epoch = t.epoch /\ p.head = t.head /\ p.reset = stale
       /\ p.first = first /\ p.last = last
       /\ p.older = (first > 1)
       /\ p.newer = (dir = "after" /\ first <= last /\ last < t.head)
  <2> HIDE DEF p
  <2> QED
    BY <1>2
<1> HIDE DEF p
<1>17. /\ p.first \in Nat /\ p.last \in Int /\ p.head \in Nat
       /\ p.newer <=> dir = "after" /\ p.first <= p.last /\ p.last < p.head
  BY <1>1, <1>5, <1>7, <1>10
<1>11. p.dir = "tail" \/ p.reset => p.last = t.head /\ 1 <= p.first /\ p.first <= p.last /\ ~p.newer
  <2>1. p.dir = "tail" \/ p.reset => dir = "tail"
    BY <1>3, <1>10
  <2> QED
    BY <1>1, <1>4, <1>6, <1>10, <1>17, <2>1
<1>12. p.dir = "after" /\ ~p.reset =>
         /\ p.first = r.seq + 1 /\ p.last <= t.head
         /\ p.newer <=> p.first <= p.last /\ p.last < t.head
         /\ p.last < p.first => t.head <= r.seq
         /\ p.newer => p.last \in Nat
  <2>1. p.dir = "after" /\ ~p.reset => dir = "after"
    BY <1>3, <1>10
  <2> QED
    BY <1>1, <1>4, <1>6, <1>10, <1>17, <2>1
<1>13. p.dir = "before" => ~p.newer /\ 1 <= p.first
  <2>1. p.dir = "before" => dir # "after"
    BY <1>3, <1>10
  <2> QED
    BY <1>1, <1>4, <1>6, <1>10, <1>17, <2>1
<1>14. p.dir = "before" /\ ~p.reset => p.last <= t.head
  <2>1. p.dir = "before" /\ ~p.reset => dir = "before"
    BY <1>3, <1>10
  <2> QED
    BY <1>1, <1>4, <1>6, <1>10, <1>17, <2>1
<1>15. p.older <=> p.first > 1
  BY <1>10
<1>16. p.reset <=> r.dir # "tail" /\ r.epoch # t.epoch
  BY <1>10 DEF stale
<1> QED
  BY <1>9, <1>10, <1>11, <1>12, <1>13, <1>14, <1>15, <1>16 DEF p

-----------------------------------------------------------------------------
(* Catching up, one operator at a time.                                    *)

\* A catch-up is begun: what was under way is no longer owned.
Begin(a, next, overflow) ==
  FetchPage([Disown(a) EXCEPT !.owed = None,
               !.catchUp = [status |-> "running", request |-> next]], next, overflow)

LEMMA BeginTyped ==
  ASSUME NEW a \in Apps, NEW next \in Requests, NEW overflow \in BOOLEAN
  PROVE  /\ Begin(a, next, overflow) \in Ready
         /\ SameStore(Begin(a, next, overflow), a)
         /\ Begin(a, next, overflow).catchUp = [status |-> "running", request |-> next]
         /\ Begin(a, next, overflow).owed = None
         /\ Begin(a, next, overflow).forced = a.forced
         /\ Begin(a, next, overflow).settling = Disowned(a.settling)
<1> DEFINE d == Disown(a)
           run == [status |-> "running", request |-> next]
           x == [d EXCEPT !.owed = None, !.catchUp = run]
           y == FetchPage(x, next, overflow)
<1>1. d \in Apps /\ d = [a EXCEPT !.calls = d.calls, !.settling = d.settling]
      /\ d.settling = Disowned(a.settling)
  BY DisownTyped
<1> HIDE DEF d
<1>2. SameStore(d, a) /\ d.forced = a.forced
  BY <1>1 DEF Apps, SameStore
<1>3. run \in CatchUps
  BY DEF CatchUps
<1> HIDE DEF run
<1>4. x \in Apps
  BY <1>1, <1>3 DEF Apps
<1>5. /\ x.synced = d.synced /\ x.shown = d.shown /\ x.range = d.range
      /\ x.cached = d.cached /\ x.older = d.older /\ x.newer = d.newer
      /\ x.frame = d.frame /\ x.subscribed = d.subscribed
      /\ x.forced = d.forced /\ x.owed = None /\ x.catchUp = run /\ x.settling = d.settling
  BY <1>1, <1>3 DEF Apps
<1> HIDE DEF x
<1>6. y \in Apps /\ SameStore(y, x) /\ y.catchUp = x.catchUp /\ y.owed = x.owed
      /\ y.forced = x.forced /\ y.settling = x.settling
  BY <1>4, FetchPageTyped
<1>7. y = Begin(a, next, overflow)
  BY DEF y, x, d, run, Begin
<1> HIDE DEF y
<1>8. y.catchUp # None
  BY <1>3, <1>5, <1>6, NoneIsNothing
<1>9. SameStore(y, a)
  BY <1>2, <1>5, <1>6 DEF SameStore
<1> QED
  BY <1>1, <1>2, <1>5, <1>6, <1>7, <1>8, <1>9 DEF Ready, run

\* startCatchUp: waits for the subscription, keeps, parks or begins anew.
LEMMA StartCases ==
  ASSUME NEW a \in Apps, NEW request \in Requests \cup {None}, NEW supersede \in BOOLEAN
  PROVE  LET next == IF request = None THEN Resume(a) ELSE request
             b == StartCatchUp(a, request, supersede)
             overflow == request = None /\ next.dir = "after"
         IN /\ next \in Requests
            /\ ~a.subscribed => b = IF request = None THEN a ELSE [a EXCEPT !.owed = request]
            /\ a.subscribed =>
                 \/ /\ b = a
                    /\ \/ InCatchUp(a, "running") /\ (supersede => a.catchUp.request = next)
                       \/ ~supersede /\ InCatchUp(a, "complete")
                 \/ /\ b = [a EXCEPT !.owed = next] /\ supersede
                    /\ InCatchUp(a, "running") /\ a.catchUp.request.dir = "tail"
                    /\ a.catchUp.request # next
                 \/ /\ b = Begin(a, next, overflow)
                    /\ ~supersede => ~InCatchUp(a, "running") /\ ~InCatchUp(a, "complete")
                    /\ InCatchUp(a, "running") => a.catchUp.request.dir # "tail"
                                                  /\ a.catchUp.request # next
<1> DEFINE next == IF request = None THEN Resume(a) ELSE request
           b == StartCatchUp(a, request, supersede)
           overflow == request = None /\ next.dir = "after"
           keep == IF supersede THEN InCatchUp(a, "running") /\ a.catchUp.request = next
                   ELSE InCatchUp(a, "running") \/ InCatchUp(a, "complete")
           park == supersede /\ InCatchUp(a, "running") /\ a.catchUp.request.dir = "tail"
<1>1. next \in Requests
  BY HeldTyped
<1>2. b = CASE ~a.subscribed -> [a EXCEPT !.owed = IF request = None THEN @ ELSE request]
            [] a.subscribed /\ keep -> a
            [] a.subscribed /\ ~keep /\ park -> [a EXCEPT !.owed = next]
            [] OTHER -> Begin(a, next, overflow)
  BY DEF StartCatchUp, Begin
<1> HIDE DEF b, next
<1>3. CASE ~a.subscribed
  <2>1. b = [a EXCEPT !.owed = IF request = None THEN @ ELSE request]
    BY <1>2, <1>3
  <2>2. request = None => [a EXCEPT !.owed = IF request = None THEN @ ELSE request] = a
    BY DEF Apps
  <2> QED
    BY <1>1, <1>3, <2>1, <2>2 DEF b, next
<1>4. CASE a.subscribed /\ keep
  <2>1. b = a
    BY <1>2, <1>4
  <2> QED
    BY <1>1, <1>4, <2>1 DEF b, next
<1>5. CASE a.subscribed /\ ~keep /\ park
  <2>1. b = [a EXCEPT !.owed = next]
    BY <1>2, <1>5
  <2> QED
    BY <1>1, <1>5, <2>1 DEF b, next
<1>6. CASE a.subscribed /\ ~keep /\ ~park
  <2>1. b = Begin(a, next, overflow)
    BY <1>2, <1>6
  <2> HIDE DEF overflow
  <2>2. /\ ~supersede => ~InCatchUp(a, "running") /\ ~InCatchUp(a, "complete")
        /\ InCatchUp(a, "running") => a.catchUp.request.dir # "tail" /\ a.catchUp.request # next
    BY <1>6
  <2> QED
    BY <1>1, <1>6, <2>1, <2>2 DEF b, next, overflow
<1> QED
  BY <1>3, <1>4, <1>5, <1>6

\* The callers of a settled answer, some of them no longer owners.
Demoted(t, s) ==
  /\ Len(t) = Len(s)
  /\ \A i \in 1..Len(s) : t[i] = s[i] \/ t[i] = [s[i] EXCEPT !.owned = FALSE]

\* What the fetching operators make of an app.
Onward(b, a) ==
  /\ b \in Ready /\ SameStore(b, a) /\ Demoted(b.settling, a.settling)

LEMMA DemotedItself ==
  ASSUME NEW s
  PROVE  Demoted(s, s)
BY DEF Demoted

LEMMA DemotedAgain ==
  ASSUME NEW s \in Seq(Callers), NEW t \in Seq(Callers), NEW u \in Seq(Callers),
         Demoted(t, s), Demoted(u, t)
  PROVE  Demoted(u, s)
<1>1. Len(s) \in Nat /\ \A i \in 1..Len(s) : s[i] \in Callers
  BY Elements
<1>2. \A c \in Callers : [[c EXCEPT !.owned = FALSE] EXCEPT !.owned = FALSE] = [c EXCEPT !.owned = FALSE]
  BY DEF Callers
<1>3. Len(u) = Len(s)
  BY DEF Demoted
<1>4. ASSUME NEW i \in 1..Len(s)
      PROVE  u[i] = s[i] \/ u[i] = [s[i] EXCEPT !.owned = FALSE]
  <2>1. t[i] = s[i] \/ t[i] = [s[i] EXCEPT !.owned = FALSE]
    BY DEF Demoted
  <2>2. u[i] = t[i] \/ u[i] = [t[i] EXCEPT !.owned = FALSE]
    BY DEF Demoted
  <2> QED
    BY <1>1, <1>2, <2>1, <2>2
<1> QED
  BY <1>3, <1>4 DEF Demoted

LEMMA DemotedByDisowned ==
  ASSUME NEW s \in Seq(Callers)
  PROVE  Demoted(Disowned(s), s)
BY DisownedTyped DEF Demoted

LEMMA OnwardItself ==
  ASSUME NEW a \in Ready
  PROVE  Onward(a, a)
BY DemotedItself DEF Onward, SameStore

LEMMA OnwardAgain ==
  ASSUME NEW a \in Ready, NEW b, Onward(b, a), NEW c, Onward(c, b)
  PROVE  Onward(c, a)
<1>1. a.settling \in Seq(Callers) /\ b.settling \in Seq(Callers) /\ c.settling \in Seq(Callers)
  BY DEF Onward, Ready, Apps
<1>2. Demoted(c.settling, a.settling)
  BY <1>1, DemotedAgain DEF Onward
<1> QED
  BY <1>2 DEF Onward, SameStore

LEMMA StartOnward ==
  ASSUME NEW a \in Ready, NEW request \in Requests \cup {None}, NEW supersede \in BOOLEAN
  PROVE  /\ Onward(StartCatchUp(a, request, supersede), a)
         /\ StartCatchUp(a, request, supersede).forced = a.forced
<1> DEFINE next == IF request = None THEN Resume(a) ELSE request
           b == StartCatchUp(a, request, supersede)
           overflow == request = None /\ next.dir = "after"
<1>0. a \in Apps
  BY DEF Ready
<1>1. /\ next \in Requests
      /\ \/ b = a \/ b = Begin(a, next, overflow)
         \/ b = [a EXCEPT !.owed = request] /\ request # None
         \/ b = [a EXCEPT !.owed = next]
  BY <1>0, StartCases
<1> HIDE DEF b, next
<1>2. ASSUME NEW r \in Requests
      PROVE  Onward([a EXCEPT !.owed = r], a) /\ [a EXCEPT !.owed = r].forced = a.forced
  <2>1. [a EXCEPT !.owed = r] \in Ready
    BY <1>0 DEF Ready, Apps
  <2>2. SameStore([a EXCEPT !.owed = r], a) /\ [a EXCEPT !.owed = r].settling = a.settling
        /\ [a EXCEPT !.owed = r].forced = a.forced
    BY <1>0 DEF Apps, SameStore
  <2> QED
    BY <2>1, <2>2, DemotedItself DEF Onward
<1>3. Onward(Begin(a, next, overflow), a) /\ Begin(a, next, overflow).forced = a.forced
  <2>1. a.settling \in Seq(Callers) /\ overflow \in BOOLEAN
    BY <1>0 DEF Apps
  <2> HIDE DEF overflow
  <2> QED
    <3>1. /\ Begin(a, next, overflow) \in Ready
          /\ SameStore(Begin(a, next, overflow), a)
          /\ Begin(a, next, overflow).forced = a.forced
          /\ Begin(a, next, overflow).settling = Disowned(a.settling)
      BY <1>0, <1>1, <2>1, BeginTyped
    <3>2. Demoted(Disowned(a.settling), a.settling)
      BY <2>1, DemotedByDisowned
    <3> QED
      BY <3>1, <3>2 DEF Onward
<1>4. Onward(a, a)
  BY OnwardItself
<1> HIDE DEF overflow
<1>5. Onward(b, a) /\ b.forced = a.forced
  BY <1>1, <1>2, <1>3, <1>4
<1> QED
  BY <1>5 DEF b

LEMMA RecoverOnward ==
  ASSUME NEW a \in Ready, NEW span, span.epoch \in Nat, span.last \in Nat
  PROVE  Onward(RecoverGap(a, span), a) /\ RecoverGap(a, span).forced = a.forced
BY StartOnward, RequestsAre DEF RecoverGap

LEMMA OwedOnward ==
  ASSUME NEW a \in Ready
  PROVE  Onward(StartOwed(a), a) /\ StartOwed(a).forced = a.forced
<1>1. a.owed \in Requests \cup {None} /\ (a.owed # None) \in BOOLEAN
  BY DEF Ready, Apps
<1>2. StartOwed(a) = a \/ StartOwed(a) = StartCatchUp(a, a.owed, a.owed # None)
  BY DEF StartOwed
<1>3. Onward(StartCatchUp(a, a.owed, a.owed # None), a)
      /\ StartCatchUp(a, a.owed, a.owed # None).forced = a.forced
  BY <1>1, StartOnward
<1> QED
  BY <1>2, <1>3, OnwardItself

\* A subscribed app owes nothing but while a tail is fetched.
LEMMA NothingOwed ==
  ASSUME NEW a \in Ready, a.subscribed => a.owed = None
  PROVE  StartOwed(a) = a
BY DEF StartOwed, Ready

-----------------------------------------------------------------------------
(* The callers of an answer, in turn.                                      *)

Done(a) == [a EXCEPT !.catchUp.status = "complete"]
Failed(a, caller) == [a EXCEPT !.catchUp = [status |-> "error", request |-> caller.request]]
Unforced(a) == [a EXCEPT !.forced = FALSE]
Uninitialized(a) == [a EXCEPT !.init = None, !.initializing = FALSE]

LEMMA DoneOnward ==
  ASSUME NEW a \in Ready, a.catchUp # None
  PROVE  /\ Onward(Done(a), a)
         /\ Done(a).catchUp = [status |-> "complete", request |-> a.catchUp.request]
         /\ Done(a) = [a EXCEPT !.catchUp = [status |-> "complete", request |-> a.catchUp.request]]
<1> DEFINE c == [status |-> "complete", request |-> a.catchUp.request]
<1>1. a \in Apps /\ a.catchUp \in CatchUps
  BY DEF Ready, Apps
<1>2. [a.catchUp EXCEPT !.status = "complete"] = c /\ c \in CatchUps /\ c # None
  BY <1>1, NoneIsNothing DEF CatchUps
<1>3. Done(a) = [a EXCEPT !.catchUp = c]
  BY <1>2 DEF Done
<1> HIDE DEF c
<1>4. [a EXCEPT !.catchUp = c] \in Ready
  BY <1>1, <1>2 DEF Ready, Apps
<1>5. SameStore([a EXCEPT !.catchUp = c], a) /\ [a EXCEPT !.catchUp = c].catchUp = c
      /\ [a EXCEPT !.catchUp = c].settling = a.settling
  BY <1>1 DEF SameStore, Apps
<1> QED
  BY <1>3, <1>4, <1>5, DemotedItself DEF Onward, c

LEMMA FailedOnward ==
  ASSUME NEW a \in Ready, NEW caller \in Callers
  PROVE  Onward(Failed(a, caller), a)
<1> DEFINE c == [status |-> "error", request |-> caller.request]
<1>1. a \in Apps /\ caller.request \in Requests
  BY DEF Ready, Callers
<1>2. c \in CatchUps /\ c # None
  BY <1>1, NoneIsNothing DEF CatchUps
<1>3. Failed(a, caller) = [a EXCEPT !.catchUp = c]
  BY DEF Failed
<1> HIDE DEF c
<1>4. [a EXCEPT !.catchUp = c] \in Ready
  BY <1>1, <1>2 DEF Ready, Apps
<1>5. SameStore([a EXCEPT !.catchUp = c], a) /\ [a EXCEPT !.catchUp = c].settling = a.settling
  BY <1>1 DEF SameStore, Apps
<1> QED
  BY <1>3, <1>4, <1>5, DemotedItself DEF Onward

LEMMA MarksOnward ==
  ASSUME NEW a \in Ready
  PROVE  Onward(Unforced(a), a) /\ Onward(Uninitialized(a), a)
<1>1. a \in Apps
  BY DEF Ready
<1>2. Unforced(a) \in Ready /\ Uninitialized(a) \in Ready
  BY <1>1 DEF Ready, Apps, Unforced, Uninitialized
<1>3. SameStore(Unforced(a), a) /\ Unforced(a).settling = a.settling
  BY <1>1 DEF SameStore, Apps, Unforced
<1>4. SameStore(Uninitialized(a), a) /\ Uninitialized(a).settling = a.settling
  BY <1>1 DEF SameStore, Apps, Uninitialized
<1> QED
  BY <1>2, <1>3, <1>4, DemotedItself DEF Onward

LEMMA FetchOnward ==
  ASSUME NEW a \in Ready, NEW request \in Requests, NEW overflow \in BOOLEAN
  PROVE  /\ Onward(FetchPage(a, request, overflow), a)
         /\ Onward(FetchLatest(a, request), a)
<1>1. a \in Apps
  BY DEF Ready
<1>2. FetchPage(a, request, overflow) \in Ready
  BY <1>1, FetchPageTyped DEF Ready, SameStore
<1>3. FetchLatest(a, request) \in Ready
  BY <1>1, FetchLatestTyped DEF Ready, SameStore
<1> QED
  BY <1>1, <1>2, <1>3, FetchPageTyped, FetchLatestTyped, DemotedItself DEF Onward

\* What a settled caller does.
LEMMA SettleCases ==
  ASSUME NEW a \in Apps, NEW caller \in Callers, NEW page \in Pages
  PROVE  LET owns == caller.owned /\ a.subscribed
             b == Settle(a, caller, page)
         IN /\ caller.kind = "page" /\ owns /\ page.newer =>
                 b = IF caller.overflow THEN FetchLatest(a, caller.request)
                     ELSE FetchPage(a, After(page.epoch, page.last), FALSE)
            /\ caller.kind = "page" /\ owns /\ ~page.newer =>
                 b = StartOwed(IF a.owed = None THEN Done(a)
                               ELSE StartCatchUp(Done(a), a.owed, TRUE))
            /\ caller.kind = "page" /\ ~owns => b = StartOwed(a)
            /\ caller.kind = "latest" => b = StartOwed(Unforced(IF owns THEN Done(a) ELSE a))
            /\ caller.kind \notin {"page", "latest"} => b = a
<1>0. caller.owned \in BOOLEAN /\ a.subscribed \in BOOLEAN /\ page.newer \in BOOLEAN
  BY DEF Callers, Apps, Pages
<1>1. CASE caller.kind = "page"
  <2>1. CASE caller.owned /\ a.subscribed /\ page.newer
    BY <1>1, <2>1 DEF Settle
  <2>2. CASE caller.owned /\ a.subscribed /\ ~page.newer
    BY <1>1, <2>2 DEF Settle, Done
  <2>3. CASE ~(caller.owned /\ a.subscribed)
    BY <1>1, <2>3 DEF Settle
  <2> QED
    BY <1>0, <1>1, <2>1, <2>2, <2>3
<1>2. CASE caller.kind = "latest"
  BY <1>0, <1>2 DEF Settle, Done, Unforced
<1>3. CASE caller.kind \notin {"page", "latest"}
  BY <1>3 DEF Settle
<1> QED
  BY <1>1, <1>2, <1>3

LEMMA SettleOnward ==
  ASSUME NEW a \in Ready, NEW caller \in Callers, NEW page \in Pages,
         page.newer => page.last \in Nat
  PROVE  Onward(Settle(a, caller, page), a)
<1> DEFINE owns == caller.owned /\ a.subscribed
           b == Settle(a, caller, page)
<1>0. /\ a \in Apps /\ caller.owned \in BOOLEAN /\ a.subscribed \in BOOLEAN
      /\ page.newer \in BOOLEAN /\ page.epoch \in Nat
      /\ caller.request \in Requests /\ caller.overflow \in BOOLEAN
      /\ a.owed \in Requests \cup {None}
      /\ a.subscribed => a.catchUp # None
  BY DEF Ready, Apps, Callers, Pages
<1>1. CASE caller.kind = "page" /\ owns /\ page.newer
  <2>1. After(page.epoch, page.last) \in Requests
    BY <1>0, <1>1, RequestsAre
  <2>2. b = FetchLatest(a, caller.request) \/ b = FetchPage(a, After(page.epoch, page.last), FALSE)
    BY <1>0, <1>1, SettleCases
  <2> QED
    BY <1>0, <2>1, <2>2, FetchOnward
<1>2. CASE caller.kind = "page" /\ owns /\ ~page.newer
  <2> DEFINE c == IF a.owed = None THEN Done(a) ELSE StartCatchUp(Done(a), a.owed, TRUE)
  <2>1. Onward(Done(a), a)
    BY <1>0, <1>2, DoneOnward
  <2>2. a.owed # None => Onward(StartCatchUp(Done(a), a.owed, TRUE), Done(a))
    BY <1>0, <2>1, StartOnward DEF Onward
  <2>3. Onward(c, a)
    BY <2>1, <2>2, OnwardAgain
  <2> HIDE DEF c
  <2>4. Onward(StartOwed(c), c)
    BY <2>3, OwedOnward DEF Onward
  <2>5. Onward(StartOwed(c), a)
    BY <2>3, <2>4, OnwardAgain
  <2>6. b = StartOwed(c)
    BY <1>0, <1>2, SettleCases DEF c
  <2> QED
    BY <2>5, <2>6
<1>3. CASE caller.kind = "page" /\ ~owns
  BY <1>0, <1>3, SettleCases, OwedOnward
<1>4. CASE caller.kind = "latest"
  <2> DEFINE c == IF owns THEN Done(a) ELSE a
  <2>1. Onward(c, a)
    BY <1>0, DoneOnward, OnwardItself
  <2>6. b = StartOwed(Unforced(c))
    BY <1>0, <1>4, SettleCases
  <2> HIDE DEF c
  <2>2. Onward(Unforced(c), c)
    BY <2>1, MarksOnward DEF Onward
  <2>3. Onward(Unforced(c), a)
    BY <2>1, <2>2, OnwardAgain
  <2>4. Onward(StartOwed(Unforced(c)), Unforced(c))
    BY <2>2, OwedOnward DEF Onward
  <2>5. Onward(StartOwed(Unforced(c)), a)
    BY <2>3, <2>4, OnwardAgain
  <2> QED
    BY <2>5, <2>6
<1>5. CASE caller.kind \notin {"page", "latest"}
  BY <1>0, <1>5, SettleCases, OnwardItself
<1> QED
  BY <1>0, <1>1, <1>2, <1>3, <1>4, <1>5

LEMMA AbandonCases ==
  ASSUME NEW a, NEW caller, caller.owned \in BOOLEAN, caller.init \in BOOLEAN
  PROVE  LET failed == IF caller.owned THEN Failed(a, caller) ELSE a
             b == Abandon(a, caller)
         IN /\ caller.kind = "page" =>
                 b = StartOwed(IF caller.init THEN Uninitialized(failed) ELSE failed)
            /\ caller.kind = "latest" => b = StartOwed(Unforced(failed))
            /\ caller.kind \notin {"page", "latest"} => b = a
<1>1. CASE caller.kind = "page" /\ caller.init
  BY <1>1 DEF Abandon, Failed, Uninitialized
<1>2. CASE caller.kind = "page" /\ ~caller.init
  BY <1>2 DEF Abandon, Failed
<1>3. CASE caller.kind = "latest"
  BY <1>3 DEF Abandon, Failed, Unforced
<1>4. CASE caller.kind \notin {"page", "latest"}
  BY <1>4 DEF Abandon
<1> QED
  BY <1>1, <1>2, <1>3, <1>4

LEMMA AbandonOnward ==
  ASSUME NEW a \in Ready, NEW caller \in Callers
  PROVE  Onward(Abandon(a, caller), a)
<1> DEFINE failed == IF caller.owned THEN Failed(a, caller) ELSE a
           marked == IF caller.kind = "latest" THEN Unforced(failed)
                     ELSE IF caller.init THEN Uninitialized(failed) ELSE failed
<1>0. caller.owned \in BOOLEAN /\ caller.init \in BOOLEAN
  BY DEF Callers
<1>1. Onward(failed, a)
  BY FailedOnward, OnwardItself
<1>2. caller.kind \in {"page", "latest"} => Abandon(a, caller) = StartOwed(marked)
  BY <1>0, AbandonCases
<1>3. caller.kind \notin {"page", "latest"} => Abandon(a, caller) = a
  BY <1>0, AbandonCases
<1> HIDE DEF failed
<1>4. Onward(marked, failed)
  BY <1>1, MarksOnward, OnwardItself DEF Onward
<1> HIDE DEF marked
<1>5. Onward(marked, a)
  BY <1>1, <1>4, OnwardAgain
<1>6. Onward(StartOwed(marked), marked)
  BY <1>5, OwedOnward DEF Onward
<1>7. Onward(StartOwed(marked), a)
  BY <1>5, <1>6, OnwardAgain
<1> QED
  BY <1>2, <1>3, <1>7, OnwardItself

-----------------------------------------------------------------------------
(* The recursive functions of the model are chains of their steps.         *)

LEMMA RecoverGapsRuns ==
  ASSUME NEW S, NEW a, a \in S, NEW gaps \in Seq(Spans), Len(gaps) \in Nat,
         \A x \in S : \A i \in 1..Len(gaps) : RecoverGap(x, gaps[i]) \in S
  PROVE  \E f \in [0..Len(gaps) -> S] :
           /\ f[0] = a
           /\ \A i \in 1..Len(gaps) : f[i] = RecoverGap(f[i - 1], gaps[i])
           /\ RecoverGaps(a, gaps) = f[Len(gaps)]
<1> DEFINE n == Len(gaps)
           base == a
           Step(x, i) == RecoverGap(x, gaps[i])
           take == [x \in S \X (1..n) |-> Step(x[1], x[2])]
<1>1. take \in [S \X (1..n) -> S]
  <2> HIDE DEF Step
  <2>1. \A x \in S : \A i \in 1..n : Step(x, i) \in S
    BY DEF Step
  <2> QED
    BY <2>1
<1>2. n \in Nat /\ base \in S
  OBVIOUS
<1>3. PICK f \in [0..n -> S] : Chain(f, base, n, take)
  <2> HIDE DEF n, base, take
  <2> QED
    BY <1>1, <1>2, ChainExists
<1> HIDE DEF n, base, Step
<1>4. ASSUME NEW i \in 1..n PROVE f[i] = Step(f[i - 1], i) /\ i - 1 \in 0..n /\ i # 0
  <2>1. i \in 0..n /\ i - 1 \in 0..n /\ i # 0
    BY <1>2
  <2>2. f[i - 1] \in S
    BY <1>3, <2>1
  <2>3. f[i] = take[<<f[i - 1], i>>]
    BY <1>3, <2>1 DEF Chain
  <2> QED
    BY <2>1, <2>2, <2>3
<1>5. f[0] = base
  BY <1>2, <1>3 DEF Chain
<1>6. f = [i \in 0..n |-> IF i = 0 THEN base ELSE Step(f[i - 1], i)]
  <2>1. ASSUME NEW i \in 0..n PROVE f[i] = IF i = 0 THEN base ELSE Step(f[i - 1], i)
    <3>1. i # 0 => i \in 1..n
      BY <1>2
    <3> QED
      BY <1>4, <1>5, <3>1
  <2> HIDE DEF take
  <2> QED
    BY <1>3, <2>1
<1>7. PICK g : /\ g = [i \in 0..n |-> IF i = 0 THEN base ELSE Step(g[i - 1], i)]
               /\ RecoverGaps(a, gaps) = g[n]
  BY <1>6 DEF RecoverGaps, n, base, Step
<1>8. \A i \in 0..n : g[i] = IF i = 0 THEN base ELSE Step(g[i - 1], i)
  <2> DEFINE h == [i \in 0..n |-> IF i = 0 THEN base ELSE Step(g[i - 1], i)]
  <2>1. \A i \in 0..n : h[i] = IF i = 0 THEN base ELSE Step(g[i - 1], i)
    OBVIOUS
  <2>2. g = h
    BY <1>7
  <2> HIDE DEF h
  <2> QED
    BY <2>1, <2>2
<1>9. \A i \in 0..n : g[i] = f[i]
  <2> DEFINE Good == {i \in 0..n : g[i] = f[i]}
  <2>1. 0 \in Good
    BY <1>2, <1>5, <1>8
  <2>2. ASSUME NEW i \in 1..n, i - 1 \in Good PROVE i \in Good
    <3>1. i \in 0..n /\ i # 0 /\ g[i - 1] = f[i - 1]
      BY <1>2, <2>2
    <3> QED
      BY <1>4, <1>8, <3>1
  <2> HIDE DEF Good
  <2>3. \A i \in 0..n : i \in Good
    BY <1>2, <2>1, <2>2, UpTo
  <2> QED
    BY <2>3 DEF Good
<1>10. RecoverGaps(a, gaps) = f[n]
  BY <1>2, <1>7, <1>9
<1>11. f \in [0..n -> S] /\ f[0] = base /\ (\A i \in 1..n : f[i] = Step(f[i - 1], i)) /\ RecoverGaps(a, gaps) = f[n]
  BY <1>3, <1>4, <1>5, <1>10
<1> QED
  BY <1>11 DEF n, base, Step

LEMMA ReadRowsRuns ==
  ASSUME NEW S, NEW a, [range |-> a.range, shown |-> a.shown, gaps |-> <<>>] \in S, Len(a.frame) \in Nat,
         \A x \in S : \A i \in 1..Len(a.frame) : ReadRow(x, a.frame[i]) \in S
  PROVE  \E f \in [0..Len(a.frame) -> S] :
           /\ f[0] = [range |-> a.range, shown |-> a.shown, gaps |-> <<>>]
           /\ \A i \in 1..Len(a.frame) : f[i] = ReadRow(f[i - 1], a.frame[i])
           /\ ReadRows(a) = f[Len(a.frame)]
<1> DEFINE n == Len(a.frame)
           base == [range |-> a.range, shown |-> a.shown, gaps |-> <<>>]
           Step(x, i) == ReadRow(x, a.frame[i])
           take == [x \in S \X (1..n) |-> Step(x[1], x[2])]
<1>1. take \in [S \X (1..n) -> S]
  <2> HIDE DEF Step
  <2>1. \A x \in S : \A i \in 1..n : Step(x, i) \in S
    BY DEF Step
  <2> QED
    BY <2>1
<1>2. n \in Nat /\ base \in S
  OBVIOUS
<1>3. PICK f \in [0..n -> S] : Chain(f, base, n, take)
  <2> HIDE DEF n, base, take
  <2> QED
    BY <1>1, <1>2, ChainExists
<1> HIDE DEF n, base, Step
<1>4. ASSUME NEW i \in 1..n PROVE f[i] = Step(f[i - 1], i) /\ i - 1 \in 0..n /\ i # 0
  <2>1. i \in 0..n /\ i - 1 \in 0..n /\ i # 0
    BY <1>2
  <2>2. f[i - 1] \in S
    BY <1>3, <2>1
  <2>3. f[i] = take[<<f[i - 1], i>>]
    BY <1>3, <2>1 DEF Chain
  <2> QED
    BY <2>1, <2>2, <2>3
<1>5. f[0] = base
  BY <1>2, <1>3 DEF Chain
<1>6. f = [i \in 0..n |-> IF i = 0 THEN base ELSE Step(f[i - 1], i)]
  <2>1. ASSUME NEW i \in 0..n PROVE f[i] = IF i = 0 THEN base ELSE Step(f[i - 1], i)
    <3>1. i # 0 => i \in 1..n
      BY <1>2
    <3> QED
      BY <1>4, <1>5, <3>1
  <2> HIDE DEF take
  <2> QED
    BY <1>3, <2>1
<1>7. PICK g : /\ g = [i \in 0..n |-> IF i = 0 THEN base ELSE Step(g[i - 1], i)]
               /\ ReadRows(a) = g[n]
  BY <1>6 DEF ReadRows, n, base, Step
<1>8. \A i \in 0..n : g[i] = IF i = 0 THEN base ELSE Step(g[i - 1], i)
  <2> DEFINE h == [i \in 0..n |-> IF i = 0 THEN base ELSE Step(g[i - 1], i)]
  <2>1. \A i \in 0..n : h[i] = IF i = 0 THEN base ELSE Step(g[i - 1], i)
    OBVIOUS
  <2>2. g = h
    BY <1>7
  <2> HIDE DEF h
  <2> QED
    BY <2>1, <2>2
<1>9. \A i \in 0..n : g[i] = f[i]
  <2> DEFINE Good == {i \in 0..n : g[i] = f[i]}
  <2>1. 0 \in Good
    BY <1>2, <1>5, <1>8
  <2>2. ASSUME NEW i \in 1..n, i - 1 \in Good PROVE i \in Good
    <3>1. i \in 0..n /\ i # 0 /\ g[i - 1] = f[i - 1]
      BY <1>2, <2>2
    <3> QED
      BY <1>4, <1>8, <3>1
  <2> HIDE DEF Good
  <2>3. \A i \in 0..n : i \in Good
    BY <1>2, <2>1, <2>2, UpTo
  <2> QED
    BY <2>3 DEF Good
<1>10. ReadRows(a) = f[n]
  BY <1>2, <1>7, <1>9
<1>11. f \in [0..n -> S] /\ f[0] = base /\ (\A i \in 1..n : f[i] = Step(f[i - 1], i)) /\ ReadRows(a) = f[n]
  BY <1>3, <1>4, <1>5, <1>10
<1> QED
  BY <1>11 DEF n, base, Step

LEMMA ApplyForEachRuns ==
  ASSUME NEW S, NEW a, a \in S, NEW page \in Pages, Len(a.settling) \in Nat,
         \A x \in S : \A i \in 1..Len(a.settling) : ApplyPage(FlushFrame(x), page) \in S
  PROVE  \E f \in [0..Len(a.settling) -> S] :
           /\ f[0] = a
           /\ \A i \in 1..Len(a.settling) : f[i] = ApplyPage(FlushFrame(f[i - 1]), page)
           /\ ApplyForEach(a, page) = f[Len(a.settling)]
<1> DEFINE n == Len(a.settling)
           base == a
           Step(x, i) == ApplyPage(FlushFrame(x), page)
           take == [x \in S \X (1..n) |-> Step(x[1], x[2])]
<1>1. take \in [S \X (1..n) -> S]
  <2> HIDE DEF Step
  <2>1. \A x \in S : \A i \in 1..n : Step(x, i) \in S
    BY DEF Step
  <2> QED
    BY <2>1
<1>2. n \in Nat /\ base \in S
  OBVIOUS
<1>3. PICK f \in [0..n -> S] : Chain(f, base, n, take)
  <2> HIDE DEF n, base, take
  <2> QED
    BY <1>1, <1>2, ChainExists
<1> HIDE DEF n, base, Step
<1>4. ASSUME NEW i \in 1..n PROVE f[i] = Step(f[i - 1], i) /\ i - 1 \in 0..n /\ i # 0
  <2>1. i \in 0..n /\ i - 1 \in 0..n /\ i # 0
    BY <1>2
  <2>2. f[i - 1] \in S
    BY <1>3, <2>1
  <2>3. f[i] = take[<<f[i - 1], i>>]
    BY <1>3, <2>1 DEF Chain
  <2> QED
    BY <2>1, <2>2, <2>3
<1>5. f[0] = base
  BY <1>2, <1>3 DEF Chain
<1>6. f = [i \in 0..n |-> IF i = 0 THEN base ELSE Step(f[i - 1], i)]
  <2>1. ASSUME NEW i \in 0..n PROVE f[i] = IF i = 0 THEN base ELSE Step(f[i - 1], i)
    <3>1. i # 0 => i \in 1..n
      BY <1>2
    <3> QED
      BY <1>4, <1>5, <3>1
  <2> HIDE DEF take
  <2> QED
    BY <1>3, <2>1
<1>7. PICK g : /\ g = [i \in 0..n |-> IF i = 0 THEN base ELSE Step(g[i - 1], i)]
               /\ ApplyForEach(a, page) = g[n]
  BY <1>6 DEF ApplyForEach, n, base, Step
<1>8. \A i \in 0..n : g[i] = IF i = 0 THEN base ELSE Step(g[i - 1], i)
  <2> DEFINE h == [i \in 0..n |-> IF i = 0 THEN base ELSE Step(g[i - 1], i)]
  <2>1. \A i \in 0..n : h[i] = IF i = 0 THEN base ELSE Step(g[i - 1], i)
    OBVIOUS
  <2>2. g = h
    BY <1>7
  <2> HIDE DEF h
  <2> QED
    BY <2>1, <2>2
<1>9. \A i \in 0..n : g[i] = f[i]
  <2> DEFINE Good == {i \in 0..n : g[i] = f[i]}
  <2>1. 0 \in Good
    BY <1>2, <1>5, <1>8
  <2>2. ASSUME NEW i \in 1..n, i - 1 \in Good PROVE i \in Good
    <3>1. i \in 0..n /\ i # 0 /\ g[i - 1] = f[i - 1]
      BY <1>2, <2>2
    <3> QED
      BY <1>4, <1>8, <3>1
  <2> HIDE DEF Good
  <2>3. \A i \in 0..n : i \in Good
    BY <1>2, <2>1, <2>2, UpTo
  <2> QED
    BY <2>3 DEF Good
<1>10. ApplyForEach(a, page) = f[n]
  BY <1>2, <1>7, <1>9
<1>11. f \in [0..n -> S] /\ f[0] = base /\ (\A i \in 1..n : f[i] = Step(f[i - 1], i)) /\ ApplyForEach(a, page) = f[n]
  BY <1>3, <1>4, <1>5, <1>10
<1> QED
  BY <1>11 DEF n, base, Step

LEMMA SettleEachRuns ==
  ASSUME NEW S, NEW a, a \in S, NEW page \in Pages, Len(a.settling) \in Nat,
         \A x \in S : \A i \in 1..Len(a.settling) : Settle(x, x.settling[i], page) \in S
  PROVE  \E f \in [0..Len(a.settling) -> S] :
           /\ f[0] = a
           /\ \A i \in 1..Len(a.settling) : f[i] = Settle(f[i - 1], f[i - 1].settling[i], page)
           /\ SettleEach(a, page) = f[Len(a.settling)]
<1> DEFINE n == Len(a.settling)
           base == a
           Step(x, i) == Settle(x, x.settling[i], page)
           take == [x \in S \X (1..n) |-> Step(x[1], x[2])]
<1>1. take \in [S \X (1..n) -> S]
  <2> HIDE DEF Step
  <2>1. \A x \in S : \A i \in 1..n : Step(x, i) \in S
    BY DEF Step
  <2> QED
    BY <2>1
<1>2. n \in Nat /\ base \in S
  OBVIOUS
<1>3. PICK f \in [0..n -> S] : Chain(f, base, n, take)
  <2> HIDE DEF n, base, take
  <2> QED
    BY <1>1, <1>2, ChainExists
<1> HIDE DEF n, base, Step
<1>4. ASSUME NEW i \in 1..n PROVE f[i] = Step(f[i - 1], i) /\ i - 1 \in 0..n /\ i # 0
  <2>1. i \in 0..n /\ i - 1 \in 0..n /\ i # 0
    BY <1>2
  <2>2. f[i - 1] \in S
    BY <1>3, <2>1
  <2>3. f[i] = take[<<f[i - 1], i>>]
    BY <1>3, <2>1 DEF Chain
  <2> QED
    BY <2>1, <2>2, <2>3
<1>5. f[0] = base
  BY <1>2, <1>3 DEF Chain
<1>6. f = [i \in 0..n |-> IF i = 0 THEN base ELSE Step(f[i - 1], i)]
  <2>1. ASSUME NEW i \in 0..n PROVE f[i] = IF i = 0 THEN base ELSE Step(f[i - 1], i)
    <3>1. i # 0 => i \in 1..n
      BY <1>2
    <3> QED
      BY <1>4, <1>5, <3>1
  <2> HIDE DEF take
  <2> QED
    BY <1>3, <2>1
<1>7. PICK g : /\ g = [i \in 0..n |-> IF i = 0 THEN base ELSE Step(g[i - 1], i)]
               /\ SettleEach(a, page) = g[n]
  BY <1>6 DEF SettleEach, n, base, Step
<1>8. \A i \in 0..n : g[i] = IF i = 0 THEN base ELSE Step(g[i - 1], i)
  <2> DEFINE h == [i \in 0..n |-> IF i = 0 THEN base ELSE Step(g[i - 1], i)]
  <2>1. \A i \in 0..n : h[i] = IF i = 0 THEN base ELSE Step(g[i - 1], i)
    OBVIOUS
  <2>2. g = h
    BY <1>7
  <2> HIDE DEF h
  <2> QED
    BY <2>1, <2>2
<1>9. \A i \in 0..n : g[i] = f[i]
  <2> DEFINE Good == {i \in 0..n : g[i] = f[i]}
  <2>1. 0 \in Good
    BY <1>2, <1>5, <1>8
  <2>2. ASSUME NEW i \in 1..n, i - 1 \in Good PROVE i \in Good
    <3>1. i \in 0..n /\ i # 0 /\ g[i - 1] = f[i - 1]
      BY <1>2, <2>2
    <3> QED
      BY <1>4, <1>8, <3>1
  <2> HIDE DEF Good
  <2>3. \A i \in 0..n : i \in Good
    BY <1>2, <2>1, <2>2, UpTo
  <2> QED
    BY <2>3 DEF Good
<1>10. SettleEach(a, page) = f[n]
  BY <1>2, <1>7, <1>9
<1>11. f \in [0..n -> S] /\ f[0] = base /\ (\A i \in 1..n : f[i] = Step(f[i - 1], i)) /\ SettleEach(a, page) = f[n]
  BY <1>3, <1>4, <1>5, <1>10
<1> QED
  BY <1>11 DEF n, base, Step

LEMMA AbandonEachRuns ==
  ASSUME NEW S, NEW a, a \in S, Len(a.settling) \in Nat,
         \A x \in S : \A i \in 1..Len(a.settling) : Abandon(x, x.settling[i]) \in S
  PROVE  \E f \in [0..Len(a.settling) -> S] :
           /\ f[0] = a
           /\ \A i \in 1..Len(a.settling) : f[i] = Abandon(f[i - 1], f[i - 1].settling[i])
           /\ AbandonEach(a) = f[Len(a.settling)]
<1> DEFINE n == Len(a.settling)
           base == a
           Step(x, i) == Abandon(x, x.settling[i])
           take == [x \in S \X (1..n) |-> Step(x[1], x[2])]
<1>1. take \in [S \X (1..n) -> S]
  <2> HIDE DEF Step
  <2>1. \A x \in S : \A i \in 1..n : Step(x, i) \in S
    BY DEF Step
  <2> QED
    BY <2>1
<1>2. n \in Nat /\ base \in S
  OBVIOUS
<1>3. PICK f \in [0..n -> S] : Chain(f, base, n, take)
  <2> HIDE DEF n, base, take
  <2> QED
    BY <1>1, <1>2, ChainExists
<1> HIDE DEF n, base, Step
<1>4. ASSUME NEW i \in 1..n PROVE f[i] = Step(f[i - 1], i) /\ i - 1 \in 0..n /\ i # 0
  <2>1. i \in 0..n /\ i - 1 \in 0..n /\ i # 0
    BY <1>2
  <2>2. f[i - 1] \in S
    BY <1>3, <2>1
  <2>3. f[i] = take[<<f[i - 1], i>>]
    BY <1>3, <2>1 DEF Chain
  <2> QED
    BY <2>1, <2>2, <2>3
<1>5. f[0] = base
  BY <1>2, <1>3 DEF Chain
<1>6. f = [i \in 0..n |-> IF i = 0 THEN base ELSE Step(f[i - 1], i)]
  <2>1. ASSUME NEW i \in 0..n PROVE f[i] = IF i = 0 THEN base ELSE Step(f[i - 1], i)
    <3>1. i # 0 => i \in 1..n
      BY <1>2
    <3> QED
      BY <1>4, <1>5, <3>1
  <2> HIDE DEF take
  <2> QED
    BY <1>3, <2>1
<1>7. PICK g : /\ g = [i \in 0..n |-> IF i = 0 THEN base ELSE Step(g[i - 1], i)]
               /\ AbandonEach(a) = g[n]
  BY <1>6 DEF AbandonEach, n, base, Step
<1>8. \A i \in 0..n : g[i] = IF i = 0 THEN base ELSE Step(g[i - 1], i)
  <2> DEFINE h == [i \in 0..n |-> IF i = 0 THEN base ELSE Step(g[i - 1], i)]
  <2>1. \A i \in 0..n : h[i] = IF i = 0 THEN base ELSE Step(g[i - 1], i)
    OBVIOUS
  <2>2. g = h
    BY <1>7
  <2> HIDE DEF h
  <2> QED
    BY <2>1, <2>2
<1>9. \A i \in 0..n : g[i] = f[i]
  <2> DEFINE Good == {i \in 0..n : g[i] = f[i]}
  <2>1. 0 \in Good
    BY <1>2, <1>5, <1>8
  <2>2. ASSUME NEW i \in 1..n, i - 1 \in Good PROVE i \in Good
    <3>1. i \in 0..n /\ i # 0 /\ g[i - 1] = f[i - 1]
      BY <1>2, <2>2
    <3> QED
      BY <1>4, <1>8, <3>1
  <2> HIDE DEF Good
  <2>3. \A i \in 0..n : i \in Good
    BY <1>2, <2>1, <2>2, UpTo
  <2> QED
    BY <2>3 DEF Good
<1>10. AbandonEach(a) = f[n]
  BY <1>2, <1>7, <1>9
<1>11. f \in [0..n -> S] /\ f[0] = base /\ (\A i \in 1..n : f[i] = Step(f[i - 1], i)) /\ AbandonEach(a) = f[n]
  BY <1>3, <1>4, <1>5, <1>10
<1> QED
  BY <1>11 DEF n, base, Step

-----------------------------------------------------------------------------
(* What rows and pages do to the store.                                    *)

Reads == [range : Spans \cup {None}, shown : SUBSET Rows, gaps : Seq(Spans)]

LEMMA ReadRowTyped ==
  ASSUME NEW read \in Reads, NEW row \in Rows
  PROVE  ReadRow(read, row) \in Reads
<1> DEFINE cur == read.range
           alone == Span(row.epoch, row.seq, row.seq)
           b == ReadRow(read, row)
<1>1. /\ cur \in Spans \cup {None} /\ read.shown \in SUBSET Rows /\ read.gaps \in Seq(Spans)
      /\ row.epoch \in Nat /\ row.seq \in Nat
  BY DEF Reads, Rows
<1>2. alone \in Spans
  BY <1>1 DEF Span, Spans
<1>3. b = CASE cur = None -> [read EXCEPT !.range = alone, !.shown = @ \cup {row}]
            [] cur # None /\ cur.epoch # row.epoch ->
                 IF row.seq = 1 THEN [read EXCEPT !.range = alone, !.shown = {row}] ELSE read
            [] cur # None /\ cur.epoch = row.epoch /\ row.seq <= cur.last -> read
            [] cur # None /\ cur.epoch = row.epoch /\ row.seq = cur.last + 1 ->
                 [read EXCEPT !.range.last = row.seq, !.shown = @ \cup {row}]
            [] OTHER -> [read EXCEPT !.gaps = Append(@, cur)]
  BY DEF ReadRow
<1> HIDE DEF b, alone
<1>4. CASE cur = None
  <2>1. [read EXCEPT !.range = alone, !.shown = @ \cup {row}] \in Reads
    BY <1>1, <1>2 DEF Reads
  <2> HIDE DEF cur
  <2>2. b = [read EXCEPT !.range = alone, !.shown = @ \cup {row}]
    BY <1>3, <1>4
  <2> QED
    BY <2>1, <2>2 DEF b
<1>5. CASE cur # None
  <2>1. cur \in Spans /\ cur.last \in Nat
    BY <1>1, <1>5 DEF Spans
  <2>2. [cur EXCEPT !.last = row.seq] \in Spans
    BY <1>1, <2>1 DEF Spans
  <2>3. [read EXCEPT !.range.last = row.seq, !.shown = @ \cup {row}] \in Reads
    BY <1>1, <2>2 DEF Reads
  <2>4. [read EXCEPT !.gaps = Append(@, cur)] \in Reads
    <3>1. Append(read.gaps, cur) \in Seq(Spans)
      BY <1>1, <2>1, Appended
    <3> QED
      BY <3>1 DEF Reads
  <2>5. [read EXCEPT !.range = alone, !.shown = {row}] \in Reads
    BY <1>1, <1>2 DEF Reads
  <2> HIDE DEF cur
  <2>6. \/ b = [read EXCEPT !.range = alone, !.shown = {row}] \/ b = read
        \/ b = [read EXCEPT !.range.last = row.seq, !.shown = @ \cup {row}]
        \/ b = [read EXCEPT !.gaps = Append(@, cur)]
    BY <1>3, <1>5
  <2> QED
    BY <2>3, <2>4, <2>5, <2>6 DEF b
<1> QED
  BY <1>4, <1>5

LEMMA ReadRowsTyped ==
  ASSUME NEW a \in Apps
  PROVE  ReadRows(a) \in Reads
<1> DEFINE base == [range |-> a.range, shown |-> a.shown, gaps |-> <<>>]
<1>1. a.frame \in Seq(Rows) /\ Len(a.frame) \in Nat /\ \A i \in 1..Len(a.frame) : a.frame[i] \in Rows
  <2>1. a.frame \in Seq(Rows)
    BY DEF Apps
  <2> QED
    BY <2>1, Elements
<1>2. base \in Reads
  BY DEF Apps, Reads
<1>3. \A x \in Reads : \A i \in 1..Len(a.frame) : ReadRow(x, a.frame[i]) \in Reads
  BY <1>1, ReadRowTyped
<1>4. PICK f \in [0..Len(a.frame) -> Reads] : ReadRows(a) = f[Len(a.frame)]
  BY <1>1, <1>2, <1>3, ReadRowsRuns
<1> QED
  BY <1>1, <1>4

LEMMA GapsOnward ==
  ASSUME NEW a \in Ready, NEW gaps \in Seq(Spans)
  PROVE  Onward(RecoverGaps(a, gaps), a) /\ RecoverGaps(a, gaps).forced = a.forced
<1> DEFINE S == {b \in Ready : Onward(b, a) /\ b.forced = a.forced}
<1>1. Len(gaps) \in Nat /\ \A i \in 1..Len(gaps) : gaps[i] \in Spans
  BY Elements
<1>2. a \in S
  BY OnwardItself
<1>3. ASSUME NEW x \in S, NEW i \in 1..Len(gaps) PROVE RecoverGap(x, gaps[i]) \in S
  <2>1. gaps[i].epoch \in Nat /\ gaps[i].last \in Nat
    BY <1>1 DEF Spans
  <2>2. x \in Ready /\ Onward(x, a) /\ x.forced = a.forced
    OBVIOUS
  <2>3. Onward(RecoverGap(x, gaps[i]), x) /\ RecoverGap(x, gaps[i]).forced = x.forced
    BY <2>1, <2>2, RecoverOnward
  <2>4. Onward(RecoverGap(x, gaps[i]), a)
    BY <2>2, <2>3, OnwardAgain
  <2> QED
    BY <2>2, <2>3, <2>4 DEF Onward
<1> HIDE DEF S
<1>4. \A x \in S : \A i \in 1..Len(gaps) : RecoverGap(x, gaps[i]) \in S
  BY <1>3
<1>6. PICK f \in [0..Len(gaps) -> S] : RecoverGaps(a, gaps) = f[Len(gaps)]
  BY <1>1, <1>2, <1>4, RecoverGapsRuns
<1>5. RecoverGaps(a, gaps) \in S
  BY <1>1, <1>6
<1> QED
  BY <1>5 DEF S

\* What a flushed frame leaves alone.
Flushed(b, a) ==
  /\ b \in Ready /\ b.frame = <<>> /\ Demoted(b.settling, a.settling)
  /\ b.synced = a.synced /\ b.cached = a.cached /\ b.older = a.older /\ b.newer = a.newer
  /\ b.subscribed = a.subscribed /\ b.forced = a.forced

LEMMA FlushCases ==
  ASSUME NEW a \in Ready
  PROVE  LET kept == [a EXCEPT !.frame = <<>>]
             read == ReadRows(a)
             range == IF a.range # None /\ Last(a.frame) \in RowsOf(a.range) THEN a.range
                      ELSE read.range
             moved == [kept EXCEPT !.shown = read.shown, !.range = range]
         IN /\ a.frame = <<>> \/ (a.synced /\ a.newer) => FlushFrame(a) = kept
            /\ a.frame # <<>> /\ ~a.synced =>
                 FlushFrame(a) = [kept EXCEPT !.shown = @ \cup ToSet(a.frame)]
            /\ a.frame # <<>> /\ a.synced /\ ~a.newer =>
                 /\ moved \in Ready /\ Flushed(moved, a)
                 /\ moved = [a EXCEPT !.frame = <<>>, !.shown = read.shown, !.range = range]
                 /\ read \in Reads
                 /\ FlushFrame(a) = RecoverGaps(moved, read.gaps)
<1> DEFINE kept == [a EXCEPT !.frame = <<>>]
           read == ReadRows(a)
           replayed == a.range # None /\ Last(a.frame) \in RowsOf(a.range)
           range == IF a.range # None /\ Last(a.frame) \in RowsOf(a.range) THEN a.range
                    ELSE read.range
           moved == [kept EXCEPT !.shown = read.shown, !.range = range]
<1>0. a \in Apps /\ a.synced \in BOOLEAN /\ a.newer \in BOOLEAN
  BY DEF Ready, Apps
<1>1. a.frame = <<>> \/ (a.synced /\ a.newer) => FlushFrame(a) = kept
  BY DEF FlushFrame
<1>2. a.frame # <<>> /\ ~a.synced => FlushFrame(a) = [kept EXCEPT !.shown = @ \cup ToSet(a.frame)]
  BY DEF FlushFrame
<1>3. ASSUME a.frame # <<>> /\ a.synced /\ ~a.newer
      PROVE  /\ moved \in Ready /\ Flushed(moved, a)
             /\ moved = [a EXCEPT !.frame = <<>>, !.shown = read.shown, !.range = range]
             /\ read \in Reads
             /\ FlushFrame(a) = RecoverGaps(moved, read.gaps)
  <2>1. read \in Reads
    BY <1>0, ReadRowsTyped
  <2>2. kept.range = a.range
    BY <1>0 DEF Apps
  <2>3. FlushFrame(a) =
          RecoverGaps([kept EXCEPT !.shown = read.shown,
                                   !.range = IF replayed THEN @ ELSE read.range], read.gaps)
    BY <1>3 DEF FlushFrame
  <2>4. FlushFrame(a) = RecoverGaps(moved, read.gaps)
    <3> HIDE DEF read
    <3> QED
      BY <2>2, <2>3
  <2> HIDE DEF read
  <2>5. range \in Spans \cup {None} /\ read.shown \in SUBSET Rows
    BY <1>0, <2>1 DEF Reads, Apps
  <2> HIDE DEF range
  <2>6. moved = [a EXCEPT !.frame = <<>>, !.shown = read.shown, !.range = range]
    BY <1>0 DEF Apps
  <2>7. <<>> \in Seq(Rows)
    BY EmptySeq
  <2>8. [a EXCEPT !.frame = <<>>, !.shown = read.shown, !.range = range] \in Ready
    BY <1>0, <2>5, <2>7 DEF Ready, Apps
  <2>9. LET m == [a EXCEPT !.frame = <<>>, !.shown = read.shown, !.range = range]
        IN /\ m.frame = <<>> /\ m.settling = a.settling
           /\ m.synced = a.synced /\ m.cached = a.cached /\ m.older = a.older /\ m.newer = a.newer
           /\ m.subscribed = a.subscribed /\ m.forced = a.forced
    BY <1>0 DEF Apps
  <2> HIDE DEF moved
  <2> QED
    BY <2>1, <2>4, <2>6, <2>8, <2>9, DemotedItself DEF Flushed
<1> QED
  BY <1>1, <1>2, <1>3

LEMMA FlushTyped ==
  ASSUME NEW a \in Ready
  PROVE  /\ Flushed(FlushFrame(a), a)
         /\ ~a.synced => /\ FlushFrame(a) = [a EXCEPT !.frame = <<>>,
                                               !.shown = FlushFrame(a).shown]
                         /\ FlushFrame(a).shown = a.shown \cup ToSet(a.frame)
<1>0. a \in Apps /\ a.synced \in BOOLEAN /\ a.newer \in BOOLEAN /\ a.frame \in Seq(Rows)
      /\ <<>> \in Seq(Rows) /\ a.shown \in SUBSET Rows
  BY EmptySeq DEF Ready, Apps
<1>1. ToSet(a.frame) \subseteq Rows
  BY <1>0, Elements DEF ToSet
<1>2. a.frame = <<>> => ToSet(a.frame) = {}
  BY <1>0, Elements DEF ToSet
<1>3. CASE a.frame = <<>> \/ (a.synced /\ a.newer)
  <2> DEFINE kept == [a EXCEPT !.frame = <<>>]
  <2>1. FlushFrame(a) = kept
    BY <1>3, FlushCases
  <2>2. kept \in Ready
    BY <1>0 DEF Ready, Apps
  <2>3. kept.frame = <<>> /\ kept.settling = a.settling
        /\ kept.synced = a.synced /\ kept.cached = a.cached /\ kept.older = a.older
        /\ kept.newer = a.newer /\ kept.subscribed = a.subscribed /\ kept.forced = a.forced
        /\ kept.shown = a.shown /\ kept = [a EXCEPT !.frame = <<>>, !.shown = a.shown]
    BY <1>0 DEF Apps
  <2> HIDE DEF kept
  <2>4. ~a.synced => a.shown \cup ToSet(a.frame) = a.shown
    BY <1>2, <1>3
  <2> QED
    BY <2>1, <2>2, <2>3, <2>4, DemotedItself DEF Flushed
<1>4. CASE a.frame # <<>> /\ ~a.synced
  <2> DEFINE all == a.shown \cup ToSet(a.frame)
             kept == [a EXCEPT !.frame = <<>>, !.shown = all]
  <2>0. all \in SUBSET Rows
    BY <1>0, <1>1
  <2>1. FlushFrame(a) = kept
    <3>1. FlushFrame(a) = [[a EXCEPT !.frame = <<>>] EXCEPT !.shown = @ \cup ToSet(a.frame)]
      BY <1>4, FlushCases
    <3> QED
      BY <1>0, <3>1 DEF Apps
  <2> HIDE DEF all
  <2>2. kept \in Ready
    BY <1>0, <2>0 DEF Ready, Apps
  <2>3. kept.frame = <<>> /\ kept.settling = a.settling
        /\ kept.synced = a.synced /\ kept.cached = a.cached /\ kept.older = a.older
        /\ kept.newer = a.newer /\ kept.subscribed = a.subscribed /\ kept.forced = a.forced
        /\ kept.shown = all
    BY <1>0, <2>0 DEF Apps
  <2>4. kept = [a EXCEPT !.frame = <<>>, !.shown = kept.shown]
    BY <2>3
  <2> HIDE DEF kept
  <2> QED
    BY <2>1, <2>2, <2>3, <2>4, DemotedItself DEF Flushed, all
<1>5. CASE a.frame # <<>> /\ a.synced /\ ~a.newer
  <2>1. PICK moved, read : /\ moved \in Ready /\ Flushed(moved, a) /\ read \in Reads
                           /\ FlushFrame(a) = RecoverGaps(moved, read.gaps)
    BY <1>5, FlushCases
  <2>2. read.gaps \in Seq(Spans)
    BY <2>1 DEF Reads
  <2>3. Onward(FlushFrame(a), moved) /\ FlushFrame(a).forced = moved.forced
    BY <2>1, <2>2, GapsOnward
  <2>4. moved.settling \in Seq(Callers) /\ a.settling \in Seq(Callers)
        /\ FlushFrame(a).settling \in Seq(Callers)
    BY <2>1, <2>3 DEF Ready, Apps, Onward
  <2>5. Demoted(FlushFrame(a).settling, a.settling)
    BY <2>1, <2>3, <2>4, DemotedAgain DEF Onward, Flushed
  <2> QED
    BY <1>5, <2>1, <2>3, <2>5 DEF Flushed, Onward, SameStore
<1> QED
  BY <1>0, <1>3, <1>4, <1>5

-----------------------------------------------------------------------------
(* Pages.                                                                  *)

\* What every page of a timeline with rows satisfies.
Proper(page) ==
  /\ page \in Pages
  /\ page.older <=> page.first > 1
  /\ page.dir = "tail" \/ page.reset => 1 <= page.first /\ page.first <= page.last /\ ~page.newer
  /\ page.dir = "before" => ~page.newer /\ 1 <= page.first
  /\ page.newer => page.last \in Nat

PageSpan(page) == Span(page.epoch, page.first, page.last)

\* The page takes the place of the range.
Replaced(b, a, page) ==
  /\ b.range = PageSpan(page) /\ b.older = page.older
  /\ RowsOf(page) \subseteq b.shown
  /\ \A r \in b.shown : r \in RowsOf(page) \/
       /\ r \in a.shown /\ r.epoch = page.epoch /\ r.seq > page.last
       /\ page.reset => Held(a) # None /\ Held(a).epoch = page.epoch

\* The page continues the range.
Extended(b, a, page) ==
  /\ Held(a) # None /\ b.older = a.older
  /\ IF /\ ~Empty(page) /\ Held(a).epoch = page.epoch
        /\ page.last > Held(a).last /\ page.first <= Held(a).last + 1
     THEN b.range = [Held(a) EXCEPT !.last = page.last] /\ b.shown = a.shown \cup RowsOf(page)
     ELSE b.range = Held(a) /\ b.shown = a.shown

\* The page goes before the range.
Prepended(b, a, page) ==
  /\ Held(a) # None
  /\ IF Held(a).epoch = page.epoch /\ ~Empty(page) /\ page.last = Held(a).first - 1
     THEN /\ b.range = [Held(a) EXCEPT !.first = page.first]
          /\ b.shown = a.shown \cup RowsOf(page) /\ b.older = page.older
     ELSE b.range = Held(a) /\ b.shown = a.shown /\ b.older = a.older

\* Fetches are not touched by a page.
SameFetches(b, a) ==
  /\ b.frame = a.frame /\ b.subscribed = a.subscribed /\ b.catchUp = a.catchUp
  /\ b.owed = a.owed /\ b.calls = a.calls /\ b.settling = a.settling

\* Nothing but the rows, the range and the offer of older ones changes.
SameRest(b, a) ==
  /\ b.synced = a.synced /\ b.cached = a.cached /\ b.newer = a.newer
  /\ b.init = a.init /\ b.initializing = a.initializing /\ b.forced = a.forced
  /\ SameFetches(b, a)

LEMMA PageTyped ==
  ASSUME NEW page \in Pages
  PROVE  /\ RowsOf(page) \subseteq Rows
         /\ ~Empty(page) => PageSpan(page) \in Spans /\ page.last \in Nat
         /\ RowsOf(PageSpan(page)) = RowsOf(page)
         /\ page.first \in Nat /\ page.last \in Int /\ page.epoch \in Nat /\ page.head \in Nat
         /\ page.older \in BOOLEAN /\ page.newer \in BOOLEAN /\ page.reset \in BOOLEAN
         /\ page.dir \in Directions
<1>1. /\ page.first \in Nat /\ page.last \in Int /\ page.epoch \in Nat /\ page.head \in Nat
      /\ page.older \in BOOLEAN /\ page.newer \in BOOLEAN /\ page.reset \in BOOLEAN
      /\ page.dir \in Directions
  BY DEF Pages
<1>2. RowsOf(page) \subseteq Rows
  BY <1>1 DEF RowsOf, Rows, Row
<1>3. ~Empty(page) => page.last \in Nat
  BY <1>1 DEF Empty
<1>4. page.last \in Nat => PageSpan(page) \in Spans
  BY <1>1 DEF PageSpan, Span, Spans
<1>5. RowsOf(PageSpan(page)) = RowsOf(page)
  BY <1>1 DEF PageSpan, Span, RowsOf
<1> QED
  BY <1>1, <1>2, <1>3, <1>4, <1>5

LEMMA ReplaceEffect ==
  ASSUME NEW a \in Apps, NEW page \in Pages, Proper(page), ~Empty(page), NEW keeping \in BOOLEAN
  PROVE  LET b == Replace(a, page, keeping)
         IN /\ b \in Apps
            /\ SameRest(b, a)
            /\ b.range = PageSpan(page) /\ b.older = page.older
            /\ RowsOf(page) \subseteq b.shown
            /\ \A r \in b.shown : r \in RowsOf(page) \/
                 (keeping /\ r \in a.shown /\ r.epoch = page.epoch /\ r.seq > page.last)
<1> DEFINE beyond == {r \in a.shown : r.epoch = page.epoch /\ (Empty(page) \/ r.seq > page.last)}
           all == RowsOf(page) \cup (IF keeping THEN beyond ELSE {})
           b == Replace(a, page, keeping)
           c == [a EXCEPT !.shown = all, !.range = PageSpan(page), !.older = page.older]
<1>1. b = c
  BY DEF Replace, PageSpan
<1>2. a.shown \in SUBSET Rows
  BY DEF Apps
<1>3. all \in SUBSET Rows
  BY <1>2, PageTyped DEF Proper
<1>4. PageSpan(page) \in Spans /\ page.older \in BOOLEAN
  BY PageTyped DEF Proper
<1>5. RowsOf(page) \subseteq all
  OBVIOUS
<1>6. \A r \in all : r \in RowsOf(page) \/
        (keeping /\ r \in a.shown /\ r.epoch = page.epoch /\ r.seq > page.last)
  OBVIOUS
<1> HIDE DEF all
<1>7. c \in Apps
  BY <1>3, <1>4 DEF Apps
<1>8. c.shown = all /\ c.range = PageSpan(page) /\ c.older = page.older
  BY DEF Apps
<1>9. SameRest(c, a)
  BY DEF Apps, SameRest, SameFetches
<1> HIDE DEF b, c
<1>10. /\ b \in Apps
       /\ SameRest(b, a)
       /\ b.range = PageSpan(page) /\ b.older = page.older
       /\ RowsOf(page) \subseteq b.shown
       /\ \A r \in b.shown : r \in RowsOf(page) \/
            (keeping /\ r \in a.shown /\ r.epoch = page.epoch /\ r.seq > page.last)
  BY <1>1, <1>5, <1>6, <1>7, <1>8, <1>9
<1> QED
  BY <1>10 DEF b

LEMMA ExtendEffect ==
  ASSUME NEW a \in Apps, NEW page \in Pages, Proper(page), NEW cur \in Spans
  PROVE  LET b == Extend(a, page, cur)
             fits == /\ ~Empty(page) /\ cur.epoch = page.epoch
                     /\ page.last > cur.last /\ page.first <= cur.last + 1
         IN /\ b \in Apps
            /\ SameRest(b, a) /\ b.older = a.older
            /\ b.range = IF fits THEN [cur EXCEPT !.last = page.last] ELSE cur
            /\ b.shown = IF fits THEN a.shown \cup RowsOf(page) ELSE a.shown
<1> DEFINE b == Extend(a, page, cur)
           fits == /\ ~Empty(page) /\ cur.epoch = page.epoch
                   /\ page.last > cur.last /\ page.first <= cur.last + 1
           range == IF fits THEN [cur EXCEPT !.last = page.last] ELSE cur
           shown == IF fits THEN a.shown \cup RowsOf(page) ELSE a.shown
           c == [a EXCEPT !.shown = shown, !.range = range]
<1>1. cur # None
  BY NoneIsNothing
<1>2. b = c
  BY <1>1 DEF Extend
<1>3. page.last \in Int /\ RowsOf(page) \subseteq Rows /\ (~Empty(page) => page.last \in Nat)
  BY PageTyped DEF Proper
<1>4. range \in Spans
  BY <1>3 DEF Spans
<1>5. shown \in SUBSET Rows
  BY <1>3 DEF Apps
<1> HIDE DEF range, shown
<1>6. c \in Apps
  BY <1>4, <1>5 DEF Apps
<1>7. c.shown = shown /\ c.range = range
  BY DEF Apps
<1>8. SameRest(c, a) /\ c.older = a.older
  BY DEF Apps, SameRest, SameFetches
<1> HIDE DEF b, c
<1>9. b \in Apps /\ SameRest(b, a) /\ b.older = a.older
      /\ b.range = range /\ b.shown = shown
  BY <1>2, <1>6, <1>7, <1>8
<1> QED
  BY <1>9 DEF b, range, shown

LEMMA PrependEffect ==
  ASSUME NEW a \in Apps, NEW page \in Pages, Proper(page), NEW cur \in Spans, a.range = cur
  PROVE  LET b == Prepend(a, page, cur)
             fits == cur.epoch = page.epoch /\ ~Empty(page) /\ page.last = cur.first - 1
         IN /\ b \in Apps
            /\ SameRest(b, a)
            /\ b.range = IF fits THEN [cur EXCEPT !.first = page.first] ELSE cur
            /\ b.shown = IF fits THEN a.shown \cup RowsOf(page) ELSE a.shown
            /\ b.older = IF fits THEN page.older ELSE a.older
<1> DEFINE b == Prepend(a, page, cur)
           fits == cur.epoch = page.epoch /\ ~Empty(page) /\ page.last = cur.first - 1
           range == IF fits THEN [cur EXCEPT !.first = page.first] ELSE cur
           shown == IF fits THEN a.shown \cup RowsOf(page) ELSE a.shown
           older == IF fits THEN page.older ELSE a.older
           c == [a EXCEPT !.shown = shown, !.range = range, !.older = older]
<1>1. cur # None
  BY NoneIsNothing
<1>2. b = c
  <2>1. CASE fits
    <3>1. b = [a EXCEPT !.shown = @ \cup RowsOf(page), !.range.first = page.first,
                        !.older = page.older]
      BY <1>1, <2>1 DEF Prepend
    <3> QED
      BY <2>1, <3>1 DEF Apps
  <2>2. CASE ~fits
    <3>1. b = a
      BY <1>1, <2>2 DEF Prepend
    <3>2. c = [a EXCEPT !.shown = a.shown, !.range = a.range, !.older = a.older]
      BY <2>2
    <3>3. a = [a EXCEPT !.shown = a.shown, !.range = a.range, !.older = a.older]
      BY DEF Apps
    <3> QED
      BY <3>1, <3>2, <3>3
  <2> QED
    BY <2>1, <2>2
<1>3. page.first \in Nat /\ RowsOf(page) \subseteq Rows /\ page.older \in BOOLEAN
  BY PageTyped DEF Proper
<1>4. range \in Spans
  BY <1>3 DEF Spans
<1>5. shown \in SUBSET Rows /\ older \in BOOLEAN
  BY <1>3 DEF Apps
<1> HIDE DEF range, shown, older
<1>6. c \in Apps
  BY <1>4, <1>5 DEF Apps
<1>7. c.shown = shown /\ c.range = range /\ c.older = older
  BY DEF Apps
<1>8. SameRest(c, a)
  BY DEF Apps, SameRest, SameFetches
<1> HIDE DEF b, c
<1>9. b \in Apps /\ SameRest(b, a)
      /\ b.range = range /\ b.shown = shown /\ b.older = older
  BY <1>2, <1>6, <1>7, <1>8
<1> QED
  BY <1>9 DEF b, range, shown, older

\* What there must be for a page to be taken: a first load or a reset, or a
\* range that the page is about.
Expected(a, page) ==
  ~page.reset /\ ~FirstLoad(a, page) => Held(a) # None

Outcome(b, a, page) ==
  \/ /\ Policy(a, page) = "discard" /\ page.dir = "tail" /\ ~page.reset
     /\ b.range = a.range /\ b.shown = a.shown /\ b.older = a.older
  \/ /\ page.dir = "tail" \/ page.reset
     /\ Policy(a, page) # "discard" /\ Replaced(b, a, page)
  \/ /\ page.dir = "before" /\ ~page.reset /\ Prepended(b, a, page)
  \/ /\ page.dir = "after" /\ ~page.reset /\ Extended(b, a, page)
  \/ /\ page.dir = "tail" /\ ~page.reset /\ Policy(a, page) = "append" /\ Extended(b, a, page)

LEMMA PolicyCases ==
  ASSUME NEW a, NEW page
  PROVE  /\ Policy(a, page) \in {"no", "replace", "discard", "append", "replaceKeeping"}
         /\ Policy(a, page) # "no" =>
              page.dir = "tail" /\ ~page.reset /\ ~FirstLoad(a, page) /\ Held(a) # None
              /\ Policy(a, page) = ResumePolicy(page, Held(a))
         /\ Policy(a, page) = "no" =>
              page.reset \/ FirstLoad(a, page) \/ page.dir # "tail" \/ Held(a) = None
<1>1. ResumePolicy(page, Held(a)) \in {"replace", "discard", "append", "replaceKeeping"}
  BY DEF ResumePolicy
<1> QED
  BY <1>1 DEF Policy

LEMMA MovedEffect ==
  ASSUME NEW a \in Apps, NEW page \in Pages, Proper(page), Expected(a, page)
  PROVE  LET b == Moved(a, page)
         IN /\ b \in Apps /\ SameFetches(b, a)
            /\ b.synced = a.synced /\ b.cached = a.cached
            /\ b.init = a.init /\ b.initializing = a.initializing
            /\ b.forced = (a.forced /\ page.dir # "tail")
            /\ b.newer = IF page.dir = "before" THEN a.synced /\ a.newer ELSE page.newer
            /\ Outcome(b, a, page)
<1> DEFINE cur    == Held(a)
           policy == Policy(a, page)
           forced == a.forced /\ page.dir # "tail"
           newer  == IF page.dir = "before" THEN a.synced /\ a.newer ELSE page.newer
           base   == [a EXCEPT !.forced = forced, !.newer = newer]
           held   == [base EXCEPT !.range = cur]
           keeping == policy = "replaceKeeping"
           kept    == ~page.reset \/ (cur # None /\ cur.epoch = page.epoch)
           b      == Moved(a, page)
<1>0. /\ a.forced \in BOOLEAN /\ a.synced \in BOOLEAN /\ a.newer \in BOOLEAN
      /\ page.newer \in BOOLEAN /\ page.reset \in BOOLEAN /\ page.dir \in Directions
  BY PageTyped DEF Apps, Proper
<1>1. forced \in BOOLEAN /\ newer \in BOOLEAN
  BY <1>0
<1>2. cur \in Spans \cup {None}
  BY HeldTyped
<1>3. b = CASE policy = "discard" -> base
            [] policy \in {"replace", "replaceKeeping"} ->
                 Replace(base, page, keeping)
            [] page.reset \/ FirstLoad(a, page) -> Replace(base, page, kept)
            [] ~page.reset /\ page.dir = "before" -> Prepend(held, page, cur)
            [] OTHER -> Extend(held, page, cur)
  BY DEF Moved
<1>20. keeping \in BOOLEAN /\ kept \in BOOLEAN
  OBVIOUS
<1> HIDE DEF forced, newer
<1>4. /\ base \in Apps /\ SameFetches(base, a)
      /\ base.synced = a.synced /\ base.cached = a.cached
      /\ base.init = a.init /\ base.initializing = a.initializing
      /\ base.forced = forced /\ base.newer = newer
      /\ base.range = a.range /\ base.shown = a.shown /\ base.older = a.older
  BY <1>1 DEF Apps, SameFetches
<1> HIDE DEF base
<1>5. /\ held \in Apps /\ SameFetches(held, a)
      /\ held.synced = a.synced /\ held.cached = a.cached
      /\ held.init = a.init /\ held.initializing = a.initializing
      /\ held.forced = forced /\ held.newer = newer
      /\ held.range = cur /\ held.shown = a.shown /\ held.older = a.older
  BY <1>2, <1>4 DEF Apps, SameFetches
<1> HIDE DEF held, cur, policy, b, keeping, kept
<1> DEFINE Rest(x) ==
             /\ x \in Apps /\ SameFetches(x, a)
             /\ x.synced = a.synced /\ x.cached = a.cached
             /\ x.init = a.init /\ x.initializing = a.initializing
             /\ x.forced = forced /\ x.newer = newer
<1>6. ASSUME NEW x \in Apps, NEW y \in Apps, Rest(y), SameRest(x, y)
      PROVE  Rest(x)
  BY <1>6 DEF SameFetches, SameRest
<1>7. Rest(base) /\ Rest(held)
  BY <1>4, <1>5
<1> HIDE DEF Rest
<1>8. ASSUME NEW k \in BOOLEAN, b = Replace(base, page, k),
             page.dir = "tail" \/ page.reset, policy # "discard",
             page.reset => (k => Held(a) # None /\ Held(a).epoch = page.epoch)
      PROVE  Rest(b) /\ Outcome(b, a, page)
  <2>1. ~Empty(page)
    BY <1>8, PageTyped DEF Proper, Empty
  <2>2. /\ b \in Apps
        /\ SameRest(b, base)
        /\ b.range = PageSpan(page) /\ b.older = page.older
        /\ RowsOf(page) \subseteq b.shown
        /\ \A r \in b.shown : r \in RowsOf(page) \/
             (k /\ r \in base.shown /\ r.epoch = page.epoch /\ r.seq > page.last)
    BY <1>4, <1>8, <2>1, ReplaceEffect
  <2>3. Rest(b)
    BY <1>4, <1>6, <1>7, <2>2
  <2>4. Replaced(b, a, page)
    BY <1>4, <1>8, <2>2 DEF Replaced
  <2> QED
    BY <1>8, <2>3, <2>4 DEF Outcome, policy
<1>9. ASSUME b = Extend(held, page, cur), cur # None, page.dir = "after" \/ policy = "append",
             page.dir \in {"after", "tail"}, ~page.reset
      PROVE  Rest(b) /\ Outcome(b, a, page)
  <2>1. cur \in Spans
    BY <1>2, <1>9
  <2> DEFINE fits == /\ ~Empty(page) /\ cur.epoch = page.epoch
                     /\ page.last > cur.last /\ page.first <= cur.last + 1
  <2>2. /\ b \in Apps
        /\ SameRest(b, held) /\ b.older = held.older
        /\ b.range = IF fits THEN [cur EXCEPT !.last = page.last] ELSE cur
        /\ b.shown = IF fits THEN held.shown \cup RowsOf(page) ELSE held.shown
    <3>1. b = Extend(held, page, cur) /\ held \in Apps
      BY <1>5, <1>9
    <3> HIDE DEF fits
    <3>2. LET e == Extend(held, page, cur)
          IN /\ e \in Apps /\ SameRest(e, held) /\ e.older = held.older
             /\ e.range = IF fits THEN [cur EXCEPT !.last = page.last] ELSE cur
             /\ e.shown = IF fits THEN held.shown \cup RowsOf(page) ELSE held.shown
      BY <3>1, <2>1, ExtendEffect DEF fits
    <3> QED
      BY <3>1, <3>2
  <2>5. Rest(b)
    BY <1>5, <1>6, <1>7, <2>2
  <2>6. Extended(b, a, page)
    BY <1>5, <1>9, <2>2 DEF Extended, cur
  <2> QED
    BY <1>9, <2>5, <2>6 DEF Outcome, policy
<1>10. ASSUME b = Prepend(held, page, cur), cur # None, page.dir = "before", ~page.reset
       PROVE  Rest(b) /\ Outcome(b, a, page)
  <2>1. cur \in Spans
    BY <1>2, <1>10
  <2> DEFINE fits == cur.epoch = page.epoch /\ ~Empty(page) /\ page.last = cur.first - 1
  <2>2. /\ b \in Apps
        /\ SameRest(b, held)
        /\ b.range = IF fits THEN [cur EXCEPT !.first = page.first] ELSE cur
        /\ b.shown = IF fits THEN held.shown \cup RowsOf(page) ELSE held.shown
        /\ b.older = IF fits THEN page.older ELSE held.older
    BY <1>5, <1>10, <2>1, PrependEffect
  <2>3. Rest(b)
    BY <1>5, <1>6, <1>7, <2>2
  <2>4. Prepended(b, a, page)
    BY <1>5, <1>10, <2>2 DEF Prepended, cur
  <2> QED
    BY <1>10, <2>3, <2>4 DEF Outcome
<1>11. Rest(b) /\ Outcome(b, a, page)
  <2>0. /\ policy \in {"no", "replace", "discard", "append", "replaceKeeping"}
        /\ policy # "no" => page.dir = "tail" /\ ~page.reset /\ ~FirstLoad(a, page) /\ cur # None
        /\ policy = "no" => page.reset \/ FirstLoad(a, page) \/ page.dir # "tail" \/ cur = None
    BY PolicyCases DEF policy, cur
  <2>5. FirstLoad(a, page) => page.dir = "tail"
    BY DEF FirstLoad
  <2>1. CASE policy = "discard"
    <3>1. b = base
      BY <1>3, <2>0, <2>1
    <3>2. Outcome(base, a, page)
      BY <1>4, <2>0, <2>1 DEF Outcome, policy
    <3> QED
      BY <1>7, <3>1, <3>2
  <2>2. CASE policy \in {"replace", "replaceKeeping"}
    <3>1. b = Replace(base, page, keeping) /\ policy # "discard"
      BY <1>3, <2>0, <2>2
    <3> QED
      BY <1>8, <1>20, <2>0, <2>2, <3>1
  <2>3. CASE policy \in {"no", "append"} /\ (page.reset \/ FirstLoad(a, page))
    <3>1. b = Replace(base, page, kept) /\ policy # "discard"
      BY <1>3, <2>0, <2>3, <2>5
    <3>2. page.reset => (kept => Held(a) # None /\ Held(a).epoch = page.epoch)
      BY DEF cur, kept
    <3>3. page.dir = "tail" \/ page.reset
      BY <2>3 DEF FirstLoad
    <3> QED
      BY <1>8, <1>20, <3>1, <3>2, <3>3
  <2>4. CASE policy \in {"no", "append"} /\ ~page.reset /\ ~FirstLoad(a, page)
    <3>1. cur # None
      BY <2>4 DEF Expected, cur
    <3>2. CASE page.dir = "before"
      <4>1. b = Prepend(held, page, cur)
        BY <1>3, <2>0, <2>4, <3>2
      <4> QED
        BY <1>10, <2>4, <3>1, <3>2, <4>1
    <3>3. CASE page.dir # "before"
      <4>1. b = Extend(held, page, cur)
        BY <1>3, <2>0, <2>4, <3>3
      <4>2. page.dir \in {"after", "tail"} /\ (page.dir = "after" \/ policy = "append")
        BY <1>0, <2>0, <2>4, <3>1, <3>3 DEF Directions
      <4> QED
        BY <1>9, <2>4, <3>1, <4>1, <4>2
    <3> QED
      BY <3>2, <3>3
  <2> QED
    BY <2>0, <2>1, <2>2, <2>3, <2>4
<1> QED
  BY <1>11 DEF Rest, b, forced, newer

LEMMA PageProper ==
  ASSUME NEW r \in Requests, NEW t \in Timelines, NEW p, p = Page(r, t)
  PROVE  p \in Pages /\ Proper(p)
<1>1. t.epoch \in Nat \ {0} /\ t.head \in Nat \ {0}
  BY DEF Timelines
<1>2. /\ p \in Pages
      /\ p.older <=> p.first > 1
      /\ p.dir = "tail" \/ p.reset => 1 <= p.first /\ p.first <= p.last /\ ~p.newer
      /\ p.dir = "after" /\ ~p.reset => (p.newer => p.last \in Nat)
      /\ p.dir = "before" => ~p.newer /\ 1 <= p.first
  BY <1>1, PageFacts
<1>3. p.dir \in Directions
  BY <1>2, PageTyped
<1>4. p.newer => p.last \in Nat
  BY <1>2, <1>3 DEF Directions
<1> QED
  BY <1>2, <1>4 DEF Proper

\* What taking a page makes of the app, before a gap is recovered.
Took(b, a, page) ==
  /\ b \in Apps /\ SameFetches(b, a)
  /\ b.synced = (a.synced \/ Synchronizes(a, page))
  /\ b.cached = IF b.synced THEN None ELSE a.cached
  /\ b.forced = (a.forced /\ page.dir # "tail")
  /\ b.newer = IF page.dir = "before" THEN a.synced /\ a.newer ELSE page.newer
  /\ b.init \in {None, a.init}
  /\ Outcome(b, a, page)

LEMMA FinishInitEffect ==
  ASSUME NEW a \in Apps, NEW page \in Pages
  PROVE  LET b == FinishInit(a, page)
         IN /\ b \in Apps /\ SameFetches(b, a)
            /\ b.synced = a.synced /\ b.cached = a.cached /\ b.forced = a.forced
            /\ b.newer = a.newer /\ b.range = a.range /\ b.shown = a.shown /\ b.older = a.older
            /\ b.init \in {None, a.init}
<1> DEFINE complete == page.dir # "after" \/ ~page.newer
           resolves == /\ a.init # None /\ a.initializing
                       /\ page.reset \/ (complete /\ page.dir = a.init)
           init == IF resolves THEN None ELSE a.init
           initializing == a.initializing /\ ~(complete /\ (resolves \/ a.init = None))
           b == FinishInit(a, page)
           c == [a EXCEPT !.init = init, !.initializing = initializing]
<1>1. b = c
  BY DEF FinishInit
<1>2. init \in {None, a.init} /\ init \in Directions \cup {None} /\ initializing \in BOOLEAN
  BY DEF Apps
<1> HIDE DEF init, initializing
<1>3. c \in Apps
  BY <1>2 DEF Apps
<1>4. /\ SameFetches(c, a)
      /\ c.synced = a.synced /\ c.cached = a.cached /\ c.forced = a.forced
      /\ c.newer = a.newer /\ c.range = a.range /\ c.shown = a.shown /\ c.older = a.older
      /\ c.init = init
  BY <1>2 DEF Apps, SameFetches
<1> HIDE DEF b, c
<1>5. /\ b \in Apps /\ SameFetches(b, a)
      /\ b.synced = a.synced /\ b.cached = a.cached /\ b.forced = a.forced
      /\ b.newer = a.newer /\ b.range = a.range /\ b.shown = a.shown /\ b.older = a.older
      /\ b.init \in {None, a.init}
  BY <1>1, <1>2, <1>3, <1>4
<1> QED
  BY <1>5 DEF b

LEMMA TakenEffect ==
  ASSUME NEW a \in Apps, NEW page \in Pages, Proper(page), Expected(a, page)
  PROVE  Took(Taken(a, page), a, page)
<1> DEFINE moved == Moved(a, page)
           done == Synchronizes(a, page)
           synced == moved.synced \/ done
           cached == IF moved.synced \/ done THEN None ELSE moved.cached
           c == [moved EXCEPT !.synced = synced, !.cached = cached]
           b == FinishInit(c, page)
<1>1. Taken(a, page) = b
  BY DEF Taken
<1>2. /\ moved \in Apps /\ SameFetches(moved, a)
      /\ moved.synced = a.synced /\ moved.cached = a.cached
      /\ moved.init = a.init
      /\ moved.forced = (a.forced /\ page.dir # "tail")
      /\ moved.newer = IF page.dir = "before" THEN a.synced /\ a.newer ELSE page.newer
      /\ Outcome(moved, a, page)
  BY MovedEffect
<1>3. done \in BOOLEAN
  BY DEF Synchronizes
<1> HIDE DEF moved, done
<1>9. synced \in BOOLEAN /\ cached \in Spans \cup {None}
  BY <1>2, <1>3 DEF Apps
<1> HIDE DEF synced, cached
<1>4. /\ c \in Apps /\ SameFetches(c, moved)
      /\ c.synced = synced /\ c.cached = cached
      /\ c.forced = moved.forced /\ c.newer = moved.newer /\ c.init = moved.init
      /\ c.range = moved.range /\ c.shown = moved.shown /\ c.older = moved.older
  <2>1. c \in Apps
    BY <1>2, <1>9 DEF Apps
  <2> QED
    BY <1>2, <2>1 DEF Apps, SameFetches
<1> HIDE DEF c
<1>5. /\ b \in Apps /\ SameFetches(b, c)
      /\ b.synced = c.synced /\ b.cached = c.cached /\ b.forced = c.forced
      /\ b.newer = c.newer /\ b.range = c.range /\ b.shown = c.shown /\ b.older = c.older
      /\ b.init \in {None, c.init}
  BY <1>4, FinishInitEffect
<1> HIDE DEF b
<1>6. Outcome(b, a, page)
  BY <1>2, <1>4, <1>5 DEF Outcome, Replaced, Extended, Prepended
<1>7. SameFetches(b, a)
  BY <1>2, <1>4, <1>5 DEF SameFetches
<1>8. /\ b.synced = (a.synced \/ Synchronizes(a, page))
      /\ b.cached = IF b.synced THEN None ELSE a.cached
      /\ b.forced = (a.forced /\ page.dir # "tail")
      /\ b.newer = IF page.dir = "before" THEN a.synced /\ a.newer ELSE page.newer
      /\ b.init \in {None, a.init}
  BY <1>2, <1>4, <1>5 DEF done, synced, cached
<1> QED
  BY <1>1, <1>5, <1>6, <1>7, <1>8 DEF Took

LEMMA ForcedProper ==
  ASSUME NEW a \in Apps, NEW page \in Pages, Proper(page)
  PROVE  /\ AsForced(a, page) \in Pages /\ Proper(AsForced(a, page))
         /\ AsForced(a, page).dir = page.dir /\ AsForced(a, page).epoch = page.epoch
         /\ AsForced(a, page).first = page.first /\ AsForced(a, page).last = page.last
         /\ AsForced(a, page).head = page.head /\ AsForced(a, page).older = page.older
         /\ AsForced(a, page).newer = page.newer
         /\ AsForced(a, page).reset <=> page.reset \/ (page.dir = "tail" /\ a.forced)
<1> DEFINE p == [page EXCEPT !.reset = TRUE]
<1>1. a.forced \in BOOLEAN
  BY DEF Apps
<1>2. p \in Pages /\ p.dir = page.dir /\ p.epoch = page.epoch /\ p.first = page.first
      /\ p.last = page.last /\ p.head = page.head /\ p.older = page.older /\ p.newer = page.newer
      /\ p.reset = TRUE
  BY DEF Pages
<1>3. page.dir = "tail" => Proper(p)
  BY <1>2 DEF Proper
<1>4. page.dir = "tail" /\ a.forced => AsForced(a, page) = p
  BY DEF AsForced
<1>5. ~(page.dir = "tail" /\ a.forced) => AsForced(a, page) = page
  BY DEF AsForced
<1> HIDE DEF p
<1> QED
  BY <1>1, <1>2, <1>3, <1>4, <1>5

LEMMA ApplyCases ==
  ASSUME NEW a \in Ready, NEW received \in Pages, Proper(received),
         Expected(a, AsForced(a, received))
  PROVE  LET page == AsForced(a, received)
             b == ApplyPage(a, received)
         IN \E n \in Ready :
              /\ Took(n, a, page)
              /\ FirstLoad(a, page) /\ ~page.reset /\ ~Empty(page) =>
                   b = RecoverGap(n, PageSpan(page))
              /\ Gap(a, page) => b = RecoverGap(n, Held(a))
              /\ ~(FirstLoad(a, page) /\ ~page.reset /\ ~Empty(page)) /\ ~Gap(a, page) => b = n
<1> DEFINE page == AsForced(a, received)
           n == Taken(a, page)
           b == ApplyPage(a, received)
<1>1. a \in Apps
  BY DEF Ready
<1>2. page \in Pages /\ Proper(page)
  BY <1>1, ForcedProper
<1>3. Took(n, a, page)
  BY <1>1, <1>2, TakenEffect
<1>4. n \in Ready
  BY <1>3 DEF Took, Ready, SameFetches
<1>5. b = CASE FirstLoad(a, page) /\ ~page.reset /\ ~Empty(page) -> RecoverGap(n, PageSpan(page))
            [] Gap(a, page) -> RecoverGap(n, Held(a))
            [] OTHER -> n
  BY DEF ApplyPage, PageSpan
<1>6. FirstLoad(a, page) => ~Gap(a, page)
  BY DEF FirstLoad, Gap
<1> HIDE DEF page, n, b
<1>7. /\ FirstLoad(a, page) /\ ~page.reset /\ ~Empty(page) => b = RecoverGap(n, PageSpan(page))
      /\ Gap(a, page) => b = RecoverGap(n, Held(a))
      /\ ~(FirstLoad(a, page) /\ ~page.reset /\ ~Empty(page)) /\ ~Gap(a, page) => b = n
  BY <1>5, <1>6
<1>8. \E m \in Ready :
        /\ Took(m, a, page)
        /\ FirstLoad(a, page) /\ ~page.reset /\ ~Empty(page) => b = RecoverGap(m, PageSpan(page))
        /\ Gap(a, page) => b = RecoverGap(m, Held(a))
        /\ ~(FirstLoad(a, page) /\ ~page.reset /\ ~Empty(page)) /\ ~Gap(a, page) => b = m
  BY <1>3, <1>4, <1>7
<1> QED
  BY <1>8 DEF page, b

LEMMA ApplyOnward ==
  ASSUME NEW a \in Ready, NEW received \in Pages, Proper(received),
         Expected(a, AsForced(a, received))
  PROVE  \E n \in Ready :
           Took(n, a, AsForced(a, received)) /\ Onward(ApplyPage(a, received), n)
<1> DEFINE page == AsForced(a, received)
           b == ApplyPage(a, received)
<1>1. a \in Apps
  BY DEF Ready
<1>2. page \in Pages /\ Proper(page)
  BY <1>1, ForcedProper
<1>3. PICK n \in Ready :
        /\ Took(n, a, page)
        /\ FirstLoad(a, page) /\ ~page.reset /\ ~Empty(page) => b = RecoverGap(n, PageSpan(page))
        /\ Gap(a, page) => b = RecoverGap(n, Held(a))
        /\ ~(FirstLoad(a, page) /\ ~page.reset /\ ~Empty(page)) /\ ~Gap(a, page) => b = n
  BY ApplyCases
<1> HIDE DEF page, b
<1>4. CASE FirstLoad(a, page) /\ ~page.reset /\ ~Empty(page)
  <2>1. PageSpan(page) \in Spans
    BY <1>2, <1>4, PageTyped
  <2>2. PageSpan(page).epoch \in Nat /\ PageSpan(page).last \in Nat
    BY <2>1 DEF Spans
  <2>3. Onward(RecoverGap(n, PageSpan(page)), n)
    BY <1>3, <2>2, RecoverOnward
  <2> QED
    BY <1>3, <1>4, <2>3 DEF page, b
<1>5. CASE Gap(a, page)
  <2>1. Held(a) \in Spans
    BY <1>1, <1>5, HeldTyped DEF Gap
  <2>2. Held(a).epoch \in Nat /\ Held(a).last \in Nat
    BY <2>1 DEF Spans
  <2>3. Onward(RecoverGap(n, Held(a)), n)
    BY <1>3, <2>2, RecoverOnward
  <2> QED
    BY <1>3, <1>5, <2>3 DEF page, b
<1>6. CASE ~(FirstLoad(a, page) /\ ~page.reset /\ ~Empty(page)) /\ ~Gap(a, page)
  BY <1>3, <1>6, OnwardItself DEF page, b
<1> QED
  BY <1>4, <1>5, <1>6

-----------------------------------------------------------------------------
(* The offer of older rows.                                                *)

\* A range that does not begin with the first row offers older ones.
Offers(a) ==
  /\ Held(a) # None /\ Held(a).first > 1 => a.older
  /\ a.synced => a.range # None

LEMMA OffersStored ==
  ASSUME NEW a, NEW b, SameStore(b, a), Offers(a)
  PROVE  Offers(b) /\ Held(b) = Held(a)
BY DEF SameStore, Offers, Held

LEMMA TookOffers ==
  ASSUME NEW a \in Apps, NEW page \in Pages, Proper(page), NEW b, Took(b, a, page),
         Offers(a), page.dir = "before" => a.synced
  PROVE  Offers(b)
<1>0. /\ Held(a) \in Spans \cup {None} /\ b \in Apps
      /\ a.synced \in BOOLEAN /\ b.synced \in BOOLEAN
      /\ page.dir \in Directions /\ page.reset \in BOOLEAN
  BY HeldTyped, PageTyped DEF Took, Apps, Proper
<1>1. b.synced => Held(b) = b.range
  BY DEF Held
<1>2. ~b.synced => ~a.synced /\ Held(b) = a.cached /\ Held(a) = a.cached
  BY DEF Held, Took
<1>3. Outcome(b, a, page)
  BY DEF Took
<1>4. CASE /\ Policy(a, page) = "discard" /\ page.dir = "tail" /\ ~page.reset
           /\ b.range = a.range /\ b.shown = a.shown /\ b.older = a.older
  <2>1. b.synced = a.synced
    BY <1>0, <1>4 DEF Took, Synchronizes
  <2> QED
    BY <1>0, <1>1, <1>2, <1>4, <2>1 DEF Offers, Held
<1>5. CASE /\ page.dir = "tail" \/ page.reset
           /\ Policy(a, page) # "discard" /\ Replaced(b, a, page)
  <2>1. ~page.newer
    BY <1>5 DEF Proper
  <2>2. b.synced
    BY <1>0, <1>5, <2>1 DEF Took, Synchronizes, Directions
  <2>3. b.range = PageSpan(page) /\ b.older = page.older
    BY <1>5 DEF Replaced
  <2>4. ~Empty(page)
    BY <1>5, PageTyped DEF Proper, Empty
  <2>5. PageSpan(page) \in Spans
    BY <2>4, PageTyped DEF Proper
  <2>6. PageSpan(page).first = page.first
    BY DEF PageSpan, Span
  <2>7. PageSpan(page) # None
    BY <2>5, NoneIsNothing
  <2>8. page.older <=> page.first > 1
    BY DEF Proper
  <2> QED
    BY <1>1, <2>2, <2>3, <2>6, <2>7, <2>8 DEF Offers
<1>6. CASE page.dir = "before" /\ ~page.reset /\ Prepended(b, a, page)
  <2>1. a.synced /\ b.synced /\ Held(a) \in Spans
    BY <1>0, <1>6 DEF Took, Prepended
  <2>2. [Held(a) EXCEPT !.first = page.first] \in Spans
        /\ [Held(a) EXCEPT !.first = page.first].first = page.first
    BY <2>1, PageTyped DEF Spans, Proper
  <2>3. \/ b.range = [Held(a) EXCEPT !.first = page.first] /\ b.older = page.older
        \/ b.range = Held(a) /\ b.older = a.older
    BY <1>6 DEF Prepended
  <2>4. b.range # None
    BY <2>1, <2>2, <2>3, NoneIsNothing
  <2>5. page.older <=> page.first > 1
    BY DEF Proper
  <2> QED
    BY <1>1, <2>1, <2>2, <2>3, <2>4, <2>5 DEF Offers
<1>7. CASE page.dir \in {"after", "tail"} /\ ~page.reset /\ Extended(b, a, page)
  <2>1. Held(a) \in Spans /\ b.older = a.older
    BY <1>0, <1>7 DEF Extended
  <2>2. /\ page.last \in Nat =>
             /\ [Held(a) EXCEPT !.last = page.last] \in Spans
             /\ [Held(a) EXCEPT !.last = page.last].first = Held(a).first
        /\ ~Empty(page) => page.last \in Nat
    BY <2>1, PageTyped DEF Spans, Proper
  <2>3. \/ b.range = [Held(a) EXCEPT !.last = page.last] /\ page.last \in Nat
        \/ b.range = Held(a)
    BY <1>7, <2>2 DEF Extended
  <2>4. b.range # None /\ b.range.first = Held(a).first
    BY <2>1, <2>2, <2>3, NoneIsNothing
  <2>5. Held(a) # None
    BY <2>1, NoneIsNothing
  <2> QED
    BY <1>0, <1>1, <1>2, <2>1, <2>4, <2>5 DEF Offers
<1> QED
  BY <1>3, <1>4, <1>5, <1>6, <1>7 DEF Outcome

LEMMA ApplyOffers ==
  ASSUME NEW a \in Ready, NEW page \in Pages, Proper(page),
         Expected(a, AsForced(a, page)), Offers(a), page.dir = "before" => a.synced
  PROVE  LET b == ApplyPage(a, page)
         IN /\ b \in Ready /\ Offers(b) /\ Demoted(b.settling, a.settling)
            /\ b.synced = (a.synced \/ Synchronizes(a, AsForced(a, page)))
            /\ b.subscribed = a.subscribed
<1>0. a \in Apps
  BY DEF Ready
<1>1. PICK n \in Ready : Took(n, a, AsForced(a, page)) /\ Onward(ApplyPage(a, page), n)
  BY ApplyOnward
<1>2. AsForced(a, page) \in Pages /\ Proper(AsForced(a, page)) /\ AsForced(a, page).dir = page.dir
  BY <1>0, ForcedProper
<1>3. Offers(n)
  BY <1>0, <1>1, <1>2, TookOffers
<1>4. SameStore(ApplyPage(a, page), n) /\ ApplyPage(a, page) \in Ready
      /\ Demoted(ApplyPage(a, page).settling, a.settling)
  BY <1>1 DEF Onward, Took, SameFetches
<1>5. Offers(ApplyPage(a, page))
  BY <1>3, <1>4, OffersStored
<1> QED
  BY <1>1, <1>4, <1>5 DEF SameStore, Took, SameFetches

LEMMA FlushOffers ==
  ASSUME NEW a \in Ready, Offers(a)
  PROVE  Offers(FlushFrame(a))
<1>0. a \in Apps /\ a.synced \in BOOLEAN /\ a.newer \in BOOLEAN /\ a.range \in Spans \cup {None}
  BY DEF Ready, Apps
<1>1. CASE ~a.synced
  BY <1>1, FlushTyped DEF Flushed, Offers, Held
<1>2. CASE a.frame = <<>> \/ (a.synced /\ a.newer)
  <2>1. FlushFrame(a) = [a EXCEPT !.frame = <<>>]
    BY <1>2, FlushCases
  <2> QED
    BY <1>0, <2>1 DEF Offers, Held, Apps
<1>3. CASE a.frame # <<>> /\ a.synced /\ ~a.newer
  <2> DEFINE read == ReadRows(a)
             range == IF a.range # None /\ Last(a.frame) \in RowsOf(a.range) THEN a.range
                      ELSE read.range
             moved == [[a EXCEPT !.frame = <<>>] EXCEPT !.shown = read.shown, !.range = range]
             S == {x \in Reads : x.range # None /\ (x.range.first = a.range.first \/ x.range.first <= 1)}
             base == [range |-> a.range, shown |-> a.shown, gaps |-> <<>>]
  <2>1. /\ moved \in Ready /\ Flushed(moved, a)
        /\ moved = [a EXCEPT !.frame = <<>>, !.shown = read.shown, !.range = range]
        /\ read \in Reads
        /\ FlushFrame(a) = RecoverGaps(moved, read.gaps)
    BY <1>3, FlushCases
  <2>2. a.frame \in Seq(Rows) /\ Len(a.frame) \in Nat /\ \A i \in 1..Len(a.frame) : a.frame[i] \in Rows
    <3>1. a.frame \in Seq(Rows)
      BY <1>0 DEF Apps
    <3> QED
      BY <3>1, Elements
  <2>3. base \in S
    BY <1>0, <1>3 DEF Reads, Offers, Apps
  <2>4. ASSUME NEW x \in S, NEW i \in 1..Len(a.frame) PROVE ReadRow(x, a.frame[i]) \in S
    <3> DEFINE row == a.frame[i]
               y == ReadRow(x, row)
    <3>1. row \in Rows /\ x \in Reads
      BY <2>2
    <3>2. y \in Reads
      BY <3>1, ReadRowTyped
    <3>3. x.range \in Spans /\ x.range # None /\ (x.range.first = a.range.first \/ x.range.first <= 1)
      BY DEF Reads
    <3>4. row.seq = 1 => Span(row.epoch, row.seq, row.seq).first <= 1
      BY DEF Span
    <3>5. /\ [x EXCEPT !.range.last = row.seq, !.shown = @ \cup {row}].range.first = x.range.first
          /\ [x EXCEPT !.range.last = row.seq, !.shown = @ \cup {row}].range \in Spans
      <4>1. [x.range EXCEPT !.last = row.seq] \in Spans
            /\ [x.range EXCEPT !.last = row.seq].first = x.range.first
        BY <3>1, <3>3 DEF Spans, Rows
      <4>2. [x EXCEPT !.range.last = row.seq, !.shown = @ \cup {row}].range = [x.range EXCEPT !.last = row.seq]
        BY <3>1 DEF Reads
      <4> QED
        BY <4>1, <4>2
    <3>6. [x EXCEPT !.gaps = Append(@, x.range)].range = x.range
      BY <3>1 DEF Reads
    <3>7. /\ [x EXCEPT !.range = Span(row.epoch, row.seq, row.seq), !.shown = {row}].range
               = Span(row.epoch, row.seq, row.seq)
      BY <3>1 DEF Reads
    <3>8. Span(row.epoch, row.seq, row.seq) \in Spans
      BY <3>1 DEF Span, Spans, Rows
    <3>9. \/ y = x
          \/ row.seq = 1 /\ y = [x EXCEPT !.range = Span(row.epoch, row.seq, row.seq), !.shown = {row}]
          \/ y = [x EXCEPT !.range.last = row.seq, !.shown = @ \cup {row}]
          \/ y = [x EXCEPT !.gaps = Append(@, x.range)]
      BY <3>3 DEF ReadRow
    <3> HIDE DEF y
    <3>10. y.range # None /\ (y.range.first = a.range.first \/ y.range.first <= 1)
      BY <3>3, <3>4, <3>5, <3>6, <3>7, <3>8, <3>9, NoneIsNothing
    <3> QED
      BY <3>2, <3>10 DEF y
  <2>5. PICK f \in [0..Len(a.frame) -> S] : read = f[Len(a.frame)]
    <3> HIDE DEF S
    <3>1. \A x \in S : \A i \in 1..Len(a.frame) : ReadRow(x, a.frame[i]) \in S
      BY <2>4
    <3> QED
      BY <2>2, <2>3, <3>1, ReadRowsRuns
  <2>6. read.range # None /\ (read.range.first = a.range.first \/ read.range.first <= 1)
    BY <2>2, <2>5
  <2>7. range # None /\ (range.first = a.range.first \/ range.first <= 1)
    BY <2>6
  <2>8. range \in Spans /\ read.shown \in SUBSET Rows
    BY <1>0, <2>1, <2>7 DEF Reads
  <2> HIDE DEF range, read
  <2>9. moved.range = range /\ moved.synced = a.synced /\ moved.older = a.older
    BY <1>0, <2>1 DEF Apps
  <2>10. a.range \in Spans /\ a.range.first \in Nat /\ range.first \in Nat
    BY <1>0, <1>3, <2>8 DEF Offers, Spans
  <2> HIDE DEF moved
  <2>11. Offers(moved)
    <3>1. range.first > 1 => a.range.first > 1
      BY <2>7, <2>10
    <3>2. a.range.first > 1 => a.older
      BY <1>3, <2>10, NoneIsNothing DEF Offers, Held
    <3>3. Held(moved) = range
      BY <1>3, <2>9 DEF Held
    <3> QED
      BY <2>7, <2>9, <3>1, <3>2, <3>3 DEF Offers
  <2>12. SameStore(FlushFrame(a), moved)
    <3>1. read.gaps \in Seq(Spans)
      BY <2>1 DEF Reads
    <3> QED
      BY <2>1, <3>1, GapsOnward DEF Onward
  <2> QED
    BY <2>11, <2>12, OffersStored
<1> QED
  BY <1>0, <1>1, <1>2, <1>3

-----------------------------------------------------------------------------
(* Answers and failures, for all their callers.                            *)

LEMMA WaitingTyped ==
  ASSUME NEW a \in Ready, NEW i \in DOMAIN a.calls
  PROVE  /\ Waiting(a, i) \in Ready /\ SameStore(Waiting(a, i), a)
         /\ Waiting(a, i).settling = a.calls[i].callers
         /\ Waiting(a, i).calls = RemoveAt(a.calls, i)
         /\ Waiting(a, i).catchUp = a.catchUp /\ Waiting(a, i).owed = a.owed
         /\ Waiting(a, i).forced = a.forced /\ Waiting(a, i).init = a.init
         /\ Waiting(a, i).initializing = a.initializing
<1> DEFINE calls == RemoveAt(a.calls, i)
           callers == a.calls[i].callers
           w == [a EXCEPT !.calls = calls, !.settling = callers]
<1>0. a \in Apps /\ a.calls \in Seq(Calls)
  BY DEF Ready, Apps
<1>1. i \in 1..Len(a.calls) /\ a.calls[i] \in Calls
  BY <1>0, Elements
<1>2. calls \in Seq(Calls)
  BY <1>0, <1>1, Removed
<1>3. callers \in Seq(Callers)
  BY <1>1 DEF Calls
<1>4. Waiting(a, i) = w
  BY DEF Waiting
<1> HIDE DEF calls, callers
<1>5. w \in Ready
  BY <1>0, <1>2, <1>3 DEF Ready, Apps
<1>6. /\ SameStore(w, a) /\ w.settling = callers /\ w.calls = calls
      /\ w.catchUp = a.catchUp /\ w.owed = a.owed /\ w.forced = a.forced /\ w.init = a.init
      /\ w.initializing = a.initializing
  BY <1>0 DEF SameStore, Apps
<1> QED
  BY <1>4, <1>5, <1>6 DEF calls, callers

LEMMA SettleEachOnward ==
  ASSUME NEW a \in Ready, NEW page \in Pages, page.newer => page.last \in Nat
  PROVE  Onward(SettleEach(a, page), a)
<1> DEFINE S == {b \in Ready : Onward(b, a)}
           n == Len(a.settling)
<1>1. n \in Nat
  <2>1. a.settling \in Seq(Callers)
    BY DEF Ready, Apps
  <2> QED
    BY <2>1, Elements
<1>2. a \in S
  BY OnwardItself
<1>3. ASSUME NEW x \in S, NEW i \in 1..n PROVE Settle(x, x.settling[i], page) \in S
  <2>1. x \in Ready /\ Onward(x, a) /\ x.settling \in Seq(Callers) /\ Len(x.settling) = n
    BY DEF Onward, Demoted, Ready, Apps
  <2>2. x.settling[i] \in Callers
    BY <2>1, Elements
  <2>3. Onward(Settle(x, x.settling[i], page), x)
    BY <2>1, <2>2, SettleOnward
  <2>4. Onward(Settle(x, x.settling[i], page), a)
    BY <2>1, <2>3, OnwardAgain
  <2> QED
    BY <2>4 DEF Onward
<1> HIDE DEF S
<1>4. \A x \in S : \A i \in 1..n : Settle(x, x.settling[i], page) \in S
  BY <1>3
<1>5. PICK f \in [0..n -> S] : SettleEach(a, page) = f[n]
  BY <1>1, <1>2, <1>4, SettleEachRuns
<1>6. SettleEach(a, page) \in S
  BY <1>1, <1>5
<1> QED
  BY <1>6 DEF S

LEMMA AbandonEachOnward ==
  ASSUME NEW a \in Ready
  PROVE  Onward(AbandonEach(a), a)
<1> DEFINE S == {b \in Ready : Onward(b, a)}
           n == Len(a.settling)
<1>1. n \in Nat
  <2>1. a.settling \in Seq(Callers)
    BY DEF Ready, Apps
  <2> QED
    BY <2>1, Elements
<1>2. a \in S
  BY OnwardItself
<1>3. ASSUME NEW x \in S, NEW i \in 1..n PROVE Abandon(x, x.settling[i]) \in S
  <2>1. x \in Ready /\ Onward(x, a) /\ x.settling \in Seq(Callers) /\ Len(x.settling) = n
    BY DEF Onward, Demoted, Ready, Apps
  <2>2. x.settling[i] \in Callers
    BY <2>1, Elements
  <2>3. Onward(Abandon(x, x.settling[i]), x)
    BY <2>1, <2>2, AbandonOnward
  <2>4. Onward(Abandon(x, x.settling[i]), a)
    BY <2>1, <2>3, OnwardAgain
  <2> QED
    BY <2>4 DEF Onward
<1> HIDE DEF S
<1>4. \A x \in S : \A i \in 1..n : Abandon(x, x.settling[i]) \in S
  BY <1>3
<1>5. PICK f \in [0..n -> S] : AbandonEach(a) = f[n]
  BY <1>1, <1>2, <1>4, AbandonEachRuns
<1>6. AbandonEach(a) \in S
  BY <1>1, <1>5
<1> QED
  BY <1>6 DEF S

LEMMA ApplyForEachOffers ==
  ASSUME NEW a \in Ready, a.synced, Offers(a), NEW page \in Pages, Proper(page)
  PROVE  /\ ApplyForEach(a, page) \in Ready
         /\ ApplyForEach(a, page).synced /\ Offers(ApplyForEach(a, page))
<1> DEFINE S == {b \in Ready : b.synced /\ Offers(b)}
           n == Len(a.settling)
<1>1. n \in Nat
  <2>1. a.settling \in Seq(Callers)
    BY DEF Ready, Apps
  <2> QED
    BY <2>1, Elements
<1>2. a \in S
  OBVIOUS
<1>3. ASSUME NEW x \in S PROVE ApplyPage(FlushFrame(x), page) \in S
  <2> DEFINE y == FlushFrame(x)
  <2>1. y \in Ready /\ y.synced /\ Offers(y)
    BY FlushTyped, FlushOffers DEF Flushed
  <2> HIDE DEF y
  <2>2. Expected(y, AsForced(y, page))
    BY <2>1 DEF Expected, Offers, Held
  <2> QED
    BY <2>1, <2>2, ApplyOffers DEF y
<1> HIDE DEF S
<1>4. \A x \in S : \A i \in 1..n : ApplyPage(FlushFrame(x), page) \in S
  BY <1>3
<1>5. PICK f \in [0..n -> S] : ApplyForEach(a, page) = f[n]
  BY <1>1, <1>2, <1>4, ApplyForEachRuns
<1>6. ApplyForEach(a, page) \in S
  BY <1>1, <1>5
<1> QED
  BY <1>6 DEF S

\* The answer is dealt with.
LEMMA Dealt ==
  ASSUME NEW a \in Ready
  PROVE  LET b == [a EXCEPT !.settling = <<>>]
         IN /\ b \in Ready /\ b.settling = <<>> /\ SameStore(b, a)
            /\ b.catchUp = a.catchUp /\ b.calls = a.calls /\ b.owed = a.owed
            /\ b.forced = a.forced /\ b.init = a.init /\ b.initializing = a.initializing
<1>0. a \in Apps /\ <<>> \in Seq(Callers)
  BY EmptySeq DEF Ready
<1> QED
  BY <1>0 DEF Ready, Apps, SameStore

LEMMA DeliverSynced ==
  ASSUME NEW a \in Ready, a.synced, Offers(a), NEW i \in DOMAIN a.calls,
         NEW page \in Pages, Proper(page)
  PROVE  LET b == Deliver(a, i, page)
         IN b \in Ready /\ b.synced /\ Offers(b) /\ b.settling = <<>>
<1> DEFINE w == Waiting(a, i)
           x == ApplyForEach(w, page)
           y == SettleEach(x, page)
           b == Deliver(a, i, page)
<1>1. w \in Ready /\ w.synced /\ Offers(w)
  BY WaitingTyped, OffersStored DEF SameStore
<1>5. b = [y EXCEPT !.settling = <<>>]
  BY DEF Deliver
<1> HIDE DEF w
<1>2. x \in Ready /\ x.synced /\ Offers(x)
  BY <1>1, ApplyForEachOffers
<1> HIDE DEF x
<1>3. Onward(y, x)
  BY <1>2, SettleEachOnward DEF Proper
<1>4. y \in Ready /\ y.synced /\ Offers(y)
  BY <1>2, <1>3, OffersStored DEF Onward, SameStore
<1> HIDE DEF y, b
<1>6. b \in Ready /\ b.settling = <<>> /\ SameStore(b, y)
  BY <1>4, <1>5, Dealt
<1>7. Offers(b) /\ b.synced
  BY <1>4, <1>6, OffersStored DEF SameStore
<1> QED
  BY <1>6, <1>7 DEF b

LEMMA RejectSynced ==
  ASSUME NEW a \in Ready, a.synced, Offers(a), NEW i \in DOMAIN a.calls
  PROVE  LET b == Reject(a, i)
         IN b \in Ready /\ b.synced /\ Offers(b) /\ b.settling = <<>>
<1> DEFINE w == Waiting(a, i)
           y == AbandonEach(w)
           b == Reject(a, i)
<1>1. w \in Ready /\ w.synced /\ Offers(w)
  BY WaitingTyped, OffersStored DEF SameStore
<1>5. b = [y EXCEPT !.settling = <<>>]
  BY DEF Reject
<1> HIDE DEF w
<1>3. Onward(y, w)
  BY <1>1, AbandonEachOnward
<1>4. y \in Ready /\ y.synced /\ Offers(y)
  BY <1>1, <1>3, OffersStored DEF Onward, SameStore
<1> HIDE DEF y, b
<1>6. b \in Ready /\ b.settling = <<>> /\ SameStore(b, y)
  BY <1>4, <1>5, Dealt
<1>7. Offers(b) /\ b.synced
  BY <1>4, <1>6, OffersStored DEF SameStore
<1> QED
  BY <1>6, <1>7 DEF b

-----------------------------------------------------------------------------
(* The first load of a chat: one fetch at a time, with one caller.         *)

LEMMA ApplyForEachOnce ==
  ASSUME NEW a, NEW page, Len(a.settling) = 1
  PROVE  ApplyForEach(a, page) = ApplyPage(FlushFrame(a), page)
<1> DEFINE Step(x, i) == ApplyPage(FlushFrame(x), page)
           f == [i \in 0..1 |-> IF i = 0 THEN a ELSE Step(a, 1)]
<1> HIDE DEF Step
<1>1. f = [i \in 0..1 |-> IF i = 0 THEN a ELSE Step(f[i - 1], i)]
  OBVIOUS
<1> HIDE DEF f
<1>2. PICK g : /\ g = [i \in 0..1 |-> IF i = 0 THEN a ELSE Step(g[i - 1], i)]
               /\ ApplyForEach(a, page) = g[1]
  BY <1>1 DEF ApplyForEach, Step
<1>3. \A i \in 0..1 : g[i] = IF i = 0 THEN a ELSE Step(g[i - 1], i)
  <2> DEFINE h == [i \in 0..1 |-> IF i = 0 THEN a ELSE Step(g[i - 1], i)]
  <2>1. \A i \in 0..1 : h[i] = IF i = 0 THEN a ELSE Step(g[i - 1], i)
    OBVIOUS
  <2>2. g = h
    BY <1>2
  <2> HIDE DEF h
  <2> QED
    BY <2>1, <2>2
<1>4. g[1] = Step(a, 1)
  BY <1>3
<1> QED
  BY <1>2, <1>4 DEF Step

LEMMA SettleEachOnce ==
  ASSUME NEW a, NEW page, Len(a.settling) = 1
  PROVE  SettleEach(a, page) = Settle(a, a.settling[1], page)
<1> DEFINE Step(x, i) == Settle(x, x.settling[i], page)
           f == [i \in 0..1 |-> IF i = 0 THEN a ELSE Step(a, 1)]
<1> HIDE DEF Step
<1>1. f = [i \in 0..1 |-> IF i = 0 THEN a ELSE Step(f[i - 1], i)]
  OBVIOUS
<1> HIDE DEF f
<1>2. PICK g : /\ g = [i \in 0..1 |-> IF i = 0 THEN a ELSE Step(g[i - 1], i)]
               /\ SettleEach(a, page) = g[1]
  BY <1>1 DEF SettleEach, Step
<1>3. \A i \in 0..1 : g[i] = IF i = 0 THEN a ELSE Step(g[i - 1], i)
  <2> DEFINE h == [i \in 0..1 |-> IF i = 0 THEN a ELSE Step(g[i - 1], i)]
  <2>1. \A i \in 0..1 : h[i] = IF i = 0 THEN a ELSE Step(g[i - 1], i)
    OBVIOUS
  <2>2. g = h
    BY <1>2
  <2> HIDE DEF h
  <2> QED
    BY <2>1, <2>2
<1>4. g[1] = Step(a, 1)
  BY <1>3
<1> QED
  BY <1>2, <1>4 DEF Step

LEMMA AbandonEachOnce ==
  ASSUME NEW a, Len(a.settling) = 1
  PROVE  AbandonEach(a) = Abandon(a, a.settling[1])
<1> DEFINE Step(x, i) == Abandon(x, x.settling[i])
           f == [i \in 0..1 |-> IF i = 0 THEN a ELSE Step(a, 1)]
<1> HIDE DEF Step
<1>1. f = [i \in 0..1 |-> IF i = 0 THEN a ELSE Step(f[i - 1], i)]
  OBVIOUS
<1> HIDE DEF f
<1>2. PICK g : /\ g = [i \in 0..1 |-> IF i = 0 THEN a ELSE Step(g[i - 1], i)]
               /\ AbandonEach(a) = g[1]
  BY <1>1 DEF AbandonEach, Step
<1>3. \A i \in 0..1 : g[i] = IF i = 0 THEN a ELSE Step(g[i - 1], i)
  <2> DEFINE h == [i \in 0..1 |-> IF i = 0 THEN a ELSE Step(g[i - 1], i)]
  <2>1. \A i \in 0..1 : h[i] = IF i = 0 THEN a ELSE Step(g[i - 1], i)
    OBVIOUS
  <2>2. g = h
    BY <1>2
  <2> HIDE DEF h
  <2> QED
    BY <2>1, <2>2
<1>4. g[1] = Step(a, 1)
  BY <1>3
<1> QED
  BY <1>2, <1>4 DEF Step

Fetching(a, call, caller) ==
  /\ a.calls = <<call>> /\ call.callers = <<caller>>
  /\ caller.owned /\ a.subscribed
  /\ a.catchUp = [status |-> "running", request |-> Resume(a)]
  /\ \/ /\ caller.kind = "page" /\ call.request = Resume(a) /\ caller.init
        /\ caller.overflow <=> a.cached # None
        /\ a.cached = None => a.initializing /\ a.init = "tail"
     \/ caller.kind = "latest" /\ call.request = Newest /\ a.cached # None /\ a.forced

Idle(a) ==
  /\ a.calls = <<>> /\ (a.catchUp = None \/ (a.subscribed /\ InCatchUp(a, "error")))
  /\ a.cached = None => a.init = None

\* Until the first load is complete nothing is owed.
Loading(a) ==
  /\ ~a.synced /\ a.owed = None
  /\ a.cached = None => ~a.forced
  /\ Idle(a) \/ \E call \in Calls, caller \in Callers : Fetching(a, call, caller)

LEMMA LoadingHolds ==
  ASSUME NEW a, ~a.synced
  PROVE  Held(a) = a.cached
BY DEF Held

\* What the state of the first load depends on.
SameLoad(b, a) ==
  /\ b.synced = a.synced /\ b.owed = a.owed /\ b.cached = a.cached /\ b.forced = a.forced
  /\ b.calls = a.calls /\ b.catchUp = a.catchUp /\ b.subscribed = a.subscribed
  /\ b.init = a.init /\ b.initializing = a.initializing

LEMMA LoadingAgain ==
  ASSUME NEW a, NEW b, SameLoad(b, a), Loading(a)
  PROVE  Loading(b)
<1>1. ~a.synced /\ ~b.synced
  BY DEF Loading, SameLoad
<1>2. Held(b) = Held(a)
  BY <1>1, LoadingHolds DEF SameLoad
<1>3. Resume(b) = Resume(a)
  BY <1>2 DEF Resume
<1>4. CASE Idle(a)
  BY <1>1, <1>4 DEF Loading, SameLoad, Idle, InCatchUp
<1>5. CASE \E call \in Calls, caller \in Callers : Fetching(a, call, caller)
  <2>1. PICK call \in Calls, caller \in Callers : Fetching(a, call, caller)
    BY <1>5
  <2>2. Fetching(b, call, caller)
    BY <1>3, <2>1 DEF SameLoad, Fetching
  <2> QED
    BY <1>1, <2>2 DEF Loading, SameLoad
<1> QED
  BY <1>4, <1>5 DEF Loading

LEMMA AskKeeps ==
  ASSUME NEW a \in Apps, NEW request \in Requests, NEW caller \in Callers
  PROVE  LET b == Ask(a, request, caller)
         IN /\ b \in Apps /\ SameStore(b, a)
            /\ b.catchUp = a.catchUp /\ b.owed = a.owed /\ b.forced = a.forced
            /\ b.settling = a.settling /\ b.init = a.init /\ b.initializing = a.initializing
<1> DEFINE b == Ask(a, request, caller)
<1>1. b \in Apps /\ b = [a EXCEPT !.calls = b.calls]
  BY AskTyped
<1> HIDE DEF b
<1>2. /\ SameStore(b, a)
      /\ b.catchUp = a.catchUp /\ b.owed = a.owed /\ b.forced = a.forced
      /\ b.settling = a.settling /\ b.init = a.init /\ b.initializing = a.initializing
  BY <1>1 DEF Apps, SameStore
<1> QED
  BY <1>1, <1>2 DEF b

LEMMA FirstFetch ==
  ASSUME NEW a \in Apps, ~a.synced, a.calls = <<>>, NEW request \in Requests,
         NEW overflow \in BOOLEAN
  PROVE  LET b == FetchPage(a, request, overflow)
             caller == Caller("page", overflow, TRUE, request)
         IN /\ b.calls = <<[request |-> request, callers |-> <<caller>>, answered |-> FALSE]>>
            /\ caller \in Callers
            /\ [request |-> request, callers |-> <<caller>>, answered |-> FALSE] \in Calls
            /\ b.initializing /\ b.init = IF a.init = None THEN request.dir ELSE a.init
<1> DEFINE init == IF a.init = None THEN request.dir ELSE a.init
           x == [a EXCEPT !.initializing = TRUE, !.init = init]
           caller == Caller("page", overflow, ~a.synced, request)
           call == [request |-> request, callers |-> <<caller>>, answered |-> FALSE]
           y == Ask(x, request, caller)
<1>1. init \in Directions \cup {None}
  BY DEF Apps, Requests
<1> HIDE DEF init
<1>2. x \in Apps /\ x.calls = a.calls /\ x.initializing /\ x.init = init
  BY <1>1 DEF Apps
<1>3. caller \in Callers /\ caller = Caller("page", overflow, TRUE, request)
  BY CallerTyped
<1>4. FetchPage(a, request, overflow) = y
  BY DEF FetchPage, init
<1>9. call \in Calls
  BY <1>3, Alone DEF Calls
<1> HIDE DEF x, caller
<1>5. y.calls = <<call>>
  <2>1. x.calls = <<>>
    BY <1>2
  <2> QED
    BY <1>2, <1>3, <2>1, AskTyped
<1>10. y.initializing = x.initializing /\ y.init = x.init
  BY <1>2, <1>3, AskKeeps
<1> HIDE DEF y, call
<1> QED
  BY <1>2, <1>3, <1>4, <1>5, <1>9, <1>10 DEF y, init, call

LEMMA LoadingBegins ==
  ASSUME NEW a \in Apps, ~a.synced, a.subscribed, a.calls = <<>>,
         a.cached = None => ~a.forced /\ a.init = None
  PROVE  Loading(Begin(a, Resume(a), Resume(a).dir = "after"))
<1> DEFINE d == Disown(a)
           next == Resume(a)
           overflow == next.dir = "after"
           run == [status |-> "running", request |-> next]
           x == [d EXCEPT !.owed = None, !.catchUp = run]
           y == FetchPage(x, next, overflow)
           caller == Caller("page", overflow, TRUE, next)
           call == [request |-> next, callers |-> <<caller>>, answered |-> FALSE]
<1>0. Held(a) = a.cached /\ next \in Requests /\ overflow \in BOOLEAN
      /\ (a.cached # None <=> next.dir = "after") /\ (a.cached = None => next = Newest)
  BY HeldTyped, LoadingHolds DEF Newest
<1>1. d \in Apps /\ d = [a EXCEPT !.calls = d.calls, !.settling = d.settling]
      /\ Len(d.calls) = Len(a.calls)
  BY DisownTyped
<1> HIDE DEF d
<1>2. d.calls = <<>>
  <2>1. a.calls \in Seq(Calls) /\ d.calls \in Seq(Calls)
    BY <1>1 DEF Apps
  <2> QED
    BY <1>1, <2>1, Elements
<1>3. run \in CatchUps
  BY <1>0 DEF CatchUps
<1> HIDE DEF run
<1>4. x \in Apps
  BY <1>1, <1>3 DEF Apps
<1>5. /\ x.synced = a.synced /\ x.cached = a.cached /\ x.subscribed = a.subscribed
      /\ x.forced = a.forced /\ x.owed = None /\ x.catchUp = run /\ x.calls = <<>>
      /\ x.init = a.init
  BY <1>1, <1>2, <1>3 DEF Apps
<1>6. y = Begin(a, next, overflow)
  BY DEF Begin, x, d, run
<1> HIDE DEF x, next, overflow
<1>7. /\ y.calls = <<call>> /\ caller \in Callers /\ call \in Calls
      /\ y.initializing /\ y.init = IF x.init = None THEN next.dir ELSE x.init
  BY <1>0, <1>4, <1>5, FirstFetch
<1>8. /\ SameStore(y, x) /\ y.catchUp = x.catchUp /\ y.owed = x.owed
      /\ y.forced = x.forced
  BY <1>0, <1>4, FetchPageTyped
<1> HIDE DEF y
<1>9. ~y.synced /\ y.cached = a.cached /\ y.subscribed /\ y.owed = None /\ y.catchUp = run
      /\ y.forced = a.forced
  BY <1>5, <1>8 DEF SameStore
<1>10. Resume(y) = next
  <2>1. Held(y) = Held(a)
    BY <1>0, <1>9, LoadingHolds
  <2> QED
    BY <2>1 DEF Resume, next
<1>11. call.callers = <<caller>> /\ call.request = next
  OBVIOUS
<1>12. caller.kind = "page" /\ caller.owned /\ caller.init /\ caller.overflow = overflow
  BY DEF Caller
<1>13. a.cached = None => next.dir = "tail" /\ x.init = None
  BY <1>0, <1>5 DEF Newest
<1> HIDE DEF call, caller
<1>14. Fetching(y, call, caller)
  BY <1>0, <1>7, <1>9, <1>10, <1>11, <1>12, <1>13 DEF Fetching, run, overflow
<1>15. Loading(y)
  BY <1>7, <1>9, <1>14 DEF Loading
<1> QED
  BY <1>6, <1>15 DEF next, overflow

LEMMA FetchingFacts ==
  ASSUME NEW a \in Apps, NEW call \in Calls, NEW caller \in Callers, Fetching(a, call, caller)
  PROVE  /\ InCatchUp(a, "running") /\ a.catchUp.request = Resume(a)
         /\ ~InCatchUp(a, "complete") /\ ~InCatchUp(a, "error") /\ a.catchUp # None
         /\ DOMAIN a.calls = {1} /\ a.calls[1] = call /\ call.callers[1] = caller
         /\ Len(call.callers) = 1
<1>1. [status |-> "running", request |-> Resume(a)] \in CatchUps
  BY HeldTyped DEF CatchUps
<1>2. a.catchUp # None
  BY <1>1, NoneIsNothing DEF Fetching
<1>3. a.catchUp.status = "running" /\ a.catchUp.request = Resume(a)
  BY DEF Fetching
<1>4. Len(<<call>>) = 1 /\ DOMAIN <<call>> = 1..1 /\ <<call>>[1] = call
  OBVIOUS
<1>5. Len(<<caller>>) = 1 /\ <<caller>>[1] = caller
  OBVIOUS
<1>6. DOMAIN a.calls = {1} /\ a.calls[1] = call
  BY <1>4 DEF Fetching
<1> QED
  BY <1>2, <1>3, <1>5, <1>6 DEF InCatchUp, Fetching

LEMMA IdleFacts ==
  ASSUME NEW a, Idle(a)
  PROVE  ~InCatchUp(a, "running") /\ ~InCatchUp(a, "complete")
BY DEF Idle, InCatchUp

LEMMA LoadingStart ==
  ASSUME NEW a \in Apps, Loading(a), NEW supersede \in BOOLEAN
  PROVE  Loading(StartCatchUp(a, None, supersede))
<1> DEFINE next == Resume(a)
           b == StartCatchUp(a, None, supersede)
           overflow == next.dir = "after"
<1>1. /\ ~a.subscribed => b = a
      /\ a.subscribed =>
           \/ b = a
           \/ /\ b = [a EXCEPT !.owed = next] /\ InCatchUp(a, "running") /\ a.catchUp.request # next
           \/ /\ b = Begin(a, next, overflow)
              /\ ~supersede => ~InCatchUp(a, "running") /\ ~InCatchUp(a, "complete")
              /\ InCatchUp(a, "running") => a.catchUp.request # next
  BY StartCases
<1> HIDE DEF b
<1>2. InCatchUp(a, "running") => a.catchUp.request = next
  BY FetchingFacts, IdleFacts DEF Loading
<1>3. CASE b = a
  BY <1>3 DEF b
<1>4. CASE b = Begin(a, next, overflow) /\ a.subscribed /\ ~InCatchUp(a, "running")
  <2>1. Idle(a)
    BY <1>4, FetchingFacts DEF Loading
  <2>2. Loading(Begin(a, Resume(a), Resume(a).dir = "after"))
    BY <1>4, <2>1, LoadingBegins DEF Loading, Idle
  <2> QED
    BY <1>4, <2>2 DEF b
<1> QED
  BY <1>1, <1>2, <1>3, <1>4 DEF Apps

LEMMA LoadingSubscribed ==
  ASSUME NEW a \in Apps, Loading(a), a.subscribed
  PROVE  Loading(StartOwed(a))
<1>1. a.owed = None
  BY DEF Loading
<1>2. StartOwed(a) = a \/ StartOwed(a) = StartCatchUp(a, None, FALSE)
  BY <1>1 DEF StartOwed
<1> QED
  BY <1>2, LoadingStart

\* An answer of the first load: the app is synchronized or fetches the latest tail.
LEMMA DeliverLoading ==
  ASSUME NEW a \in Ready, Loading(a), Offers(a), NEW i \in DOMAIN a.calls,
         NEW t \in Timelines, NEW page, page = Page(a.calls[i].request, t)
  PROVE  LET b == Deliver(a, i, page)
         IN b \in Ready /\ Offers(b) /\ b.settling = <<>> /\ (b.synced \/ Loading(b))
<1>0. a \in Apps /\ ~a.synced /\ Held(a) = a.cached /\ a.owed = None
      /\ (a.cached = None => ~a.forced) /\ a.cached \in Spans \cup {None}
  BY LoadingHolds DEF Ready, Loading, Apps
<1>1. PICK call \in Calls, caller \in Callers : Fetching(a, call, caller)
  BY DEF Loading, Idle
<1>2. i = 1 /\ a.calls[i] = call /\ call.callers[1] = caller /\ Len(call.callers) = 1
      /\ Len(a.calls) = 1 /\ a.calls \in Seq(Calls) /\ call.request \in Requests
  <2>1. a.calls \in Seq(Calls)
    BY <1>0 DEF Apps
  <2>2. Len(<<call>>) = 1
    OBVIOUS
  <2> QED
    BY <1>0, <1>1, <2>1, <2>2, FetchingFacts DEF Fetching, Calls
<1> DEFINE w == Waiting(a, i)
           y == FlushFrame(w)
           p == AsForced(y, page)
           x == ApplyPage(y, page)
           z == SettleEach(x, page)
           b == Deliver(a, i, page)
<1>3. /\ page \in Pages /\ Proper(page)
      /\ page.dir = call.request.dir
      /\ page.dir = "tail" \/ page.reset => ~page.newer
      /\ page.dir = "after" /\ ~page.reset => page.first = call.request.seq + 1
      /\ page.dir = "tail" => ~page.reset
  <2>1. t.epoch \in Nat \ {0} /\ t.head \in Nat \ {0}
    BY DEF Timelines
  <2>2. LET q == Page(call.request, t)
         IN /\ q \in Pages
            /\ q.dir = call.request.dir
            /\ q.reset <=> call.request.dir # "tail" /\ call.request.epoch # t.epoch
            /\ q.older <=> q.first > 1
            /\ q.dir = "tail" \/ q.reset =>
                 q.last = t.head /\ 1 <= q.first /\ q.first <= q.last /\ ~q.newer
            /\ q.dir = "after" /\ ~q.reset =>
                 /\ q.first = call.request.seq + 1
                 /\ q.newer => q.last \in Nat
            /\ q.dir = "before" => ~q.newer /\ 1 <= q.first
    BY <1>2, <2>1, PageFacts
  <2>3. page = Page(call.request, t)
    BY <1>2
  <2> HIDE DEF w, y, p, x, z, b
  <2>4. page.newer => page.last \in Nat
    <3>1. page.dir \in Directions
      BY <2>2, <2>3, PageTyped
    <3> QED
      BY <2>2, <2>3, <3>1 DEF Directions
  <2> QED
    BY <2>2, <2>3, <2>4 DEF Proper
<1>4. /\ w \in Ready /\ SameStore(w, a) /\ w.settling = call.callers
      /\ w.calls = RemoveAt(a.calls, i) /\ w.catchUp = a.catchUp /\ w.owed = None
      /\ w.forced = a.forced /\ w.init = a.init /\ w.initializing = a.initializing
  BY <1>0, <1>2, WaitingTyped
<1>5. w.calls = <<>>
  <2>1. i \in 1..Len(a.calls)
    BY <1>2
  <2>2. w.calls \in Seq(Calls) /\ Len(w.calls) = 0
    BY <1>2, <1>4, <2>1, Removed
  <2> QED
    BY <2>2, Elements
<1>6. Offers(w) /\ w \in Apps
  BY <1>4, OffersStored DEF Ready
<1>7. ApplyForEach(w, page) = x
  BY <1>2, <1>4, ApplyForEachOnce
<1>8. b = [z EXCEPT !.settling = <<>>]
  BY <1>7 DEF Deliver
<1> HIDE DEF w
<1>9. /\ y \in Ready /\ Offers(y)
      /\ y.synced = FALSE /\ y.cached = a.cached /\ y.forced = a.forced
      /\ y.calls = <<>> /\ y.catchUp = a.catchUp /\ y.owed = None /\ y.subscribed
      /\ y.init = a.init /\ y.initializing = a.initializing /\ y.settling = call.callers
  <2>0. ~w.synced
    BY <1>0, <1>4 DEF SameStore
  <2>1. y \in Ready /\ Offers(y) /\ y = [w EXCEPT !.frame = <<>>, !.shown = y.shown]
    BY <1>4, <1>6, <2>0, FlushTyped, FlushOffers DEF Flushed
  <2> HIDE DEF y
  <2>2. /\ y.synced = w.synced /\ y.cached = w.cached /\ y.forced = w.forced
        /\ y.calls = w.calls /\ y.catchUp = w.catchUp /\ y.owed = w.owed
        /\ y.subscribed = w.subscribed /\ y.init = w.init /\ y.initializing = w.initializing
        /\ y.settling = w.settling
    BY <1>6, <2>1 DEF Apps
  <2> QED
    BY <1>0, <1>1, <1>4, <1>5, <2>0, <2>1, <2>2 DEF SameStore, Fetching, Apps
<1> HIDE DEF y
<1>10. y \in Apps /\ Held(y) = a.cached
  BY <1>9 DEF Ready, Held
<1>11. /\ p \in Pages /\ Proper(p) /\ p.dir = page.dir /\ p.newer = page.newer
       /\ p.epoch = page.epoch /\ p.first = page.first /\ p.last = page.last
       /\ p.reset <=> page.reset \/ (page.dir = "tail" /\ y.forced)
  BY <1>3, <1>10, ForcedProper
<1> HIDE DEF p
<1>12. ASSUME x \in Ready, Offers(x), x.synced
       PROVE  b \in Ready /\ Offers(b) /\ b.settling = <<>> /\ (b.synced \/ Loading(b))
  <2> HIDE DEF x
  <2>1. Onward(z, x)
    BY <1>3, <1>12, SettleEachOnward DEF Proper
  <2>2. z \in Ready /\ z.synced /\ Offers(z)
    BY <1>12, <2>1, OffersStored DEF Onward, SameStore
  <2> HIDE DEF z
  <2>3. b \in Ready /\ b.settling = <<>> /\ SameStore(b, z)
    BY <1>8, <2>2, Dealt
  <2> QED
    BY <2>2, <2>3, OffersStored DEF SameStore
<1>13. ASSUME Expected(y, p), page.dir # "before"
       PROVE  /\ x \in Ready /\ Offers(x) /\ x.synced = Synchronizes(y, p)
              /\ Demoted(x.settling, y.settling)
  <2>1. p = AsForced(y, page)
    BY DEF p
  <2>2. /\ x \in Ready /\ Offers(x) /\ Demoted(x.settling, y.settling)
        /\ x.synced = (y.synced \/ Synchronizes(y, AsForced(y, page)))
    BY <1>3, <1>9, <1>13, <2>1, ApplyOffers
  <2>3. Synchronizes(y, p) \in BOOLEAN
    BY DEF Synchronizes
  <2> HIDE DEF x
  <2> QED
    BY <1>9, <2>1, <2>2, <2>3
<1>14. CASE caller.kind = "page" /\ a.cached = None
  <2>1. page.dir = "tail" /\ ~p.reset
    <3>1. call.request = Newest
      BY <1>0, <1>1, <1>14, HeldTyped DEF Fetching
    <3> QED
      BY <1>0, <1>3, <1>9, <1>11, <1>14, <3>1 DEF Newest
  <2>2. FirstLoad(y, p)
    <3>1. y.init = "tail" /\ y.initializing
      BY <1>1, <1>9, <1>14 DEF Fetching
    <3>2. y.init # None
      BY <3>1, NoneIsNothing DEF Directions
    <3> QED
      BY <1>11, <2>1, <3>1, <3>2 DEF FirstLoad
  <2>3. Expected(y, p) /\ Synchronizes(y, p)
    BY <1>11, <2>1, <2>2 DEF Expected, Synchronizes, Policy
  <2> QED
    BY <1>12, <1>13, <2>1, <2>3
<1>15. CASE caller.kind = "latest"
  <2>1. page.dir = "tail" /\ p.reset
    <3>1. call.request = Newest /\ a.forced
      BY <1>1, <1>15 DEF Fetching
    <3> QED
      BY <1>3, <1>9, <1>11, <3>1 DEF Newest
  <2>2. Expected(y, p) /\ Synchronizes(y, p)
    BY <1>11, <2>1 DEF Expected, Synchronizes, Policy
  <2> QED
    BY <1>12, <1>13, <2>1, <2>2
<1>16. CASE caller.kind = "page" /\ a.cached # None
  <2>1. call.request = After(a.cached.epoch, a.cached.last) /\ call.request.dir = "after"
        /\ a.cached \in Spans
    BY <1>0, <1>1, <1>16, HeldTyped DEF Fetching
  <2>2. page.dir = "after" /\ p = page
    BY <1>3, <2>1 DEF p, AsForced
  <2>3. Expected(y, p)
    BY <1>10, <1>16 DEF Expected
  <2>4. CASE ~page.newer
    <3>1. Synchronizes(y, p)
      BY <2>2, <2>4 DEF Synchronizes, Policy
    <3> QED
      BY <1>12, <1>13, <2>2, <2>3, <3>1
  <2>5. CASE page.newer
    <3>1. ~page.reset /\ page.first = a.cached.last + 1
      BY <1>3, <2>1, <2>2, <2>5 DEF After
    <3>2. ~Gap(y, p) /\ ~FirstLoad(y, p) /\ ~Synchronizes(y, p)
      <4>1. a.cached.last \in Nat /\ ~(a.cached.last + 1 > a.cached.last + 1)
        BY <2>1 DEF Spans
      <4> QED
        BY <1>10, <2>2, <2>5, <3>1, <4>1 DEF Gap, FirstLoad, Synchronizes
    <3>3. x \in Ready /\ Took(x, y, page)
      <4>1. Expected(y, AsForced(y, page))
        BY <2>2, <2>3 DEF p
      <4>2. PICK n \in Ready :
              /\ Took(n, y, p)
              /\ ~(FirstLoad(y, p) /\ ~p.reset /\ ~Empty(p)) /\ ~Gap(y, p) => x = n
        BY <1>3, <1>9, <4>1, ApplyCases DEF p
      <4> QED
        BY <2>2, <3>2, <4>2
    <3>4. Offers(x)
      BY <1>13, <2>2, <2>3
    <3> HIDE DEF x
    <3>5. /\ x \in Apps /\ ~x.synced /\ x.cached = a.cached /\ x.forced = a.forced
          /\ x.calls = <<>> /\ x.catchUp = a.catchUp /\ x.owed = None /\ x.subscribed
          /\ x.settling = call.callers
      <4>1. /\ x \in Apps /\ SameFetches(x, y)
            /\ x.synced = (y.synced \/ Synchronizes(y, page))
            /\ x.cached = IF x.synced THEN None ELSE y.cached
            /\ x.forced = (y.forced /\ page.dir # "tail")
        BY <3>3 DEF Took
      <4>2. x.synced = FALSE
        BY <1>9, <2>2, <3>2, <4>1
      <4>3. x.forced = a.forced
        BY <1>0, <1>9, <2>2, <4>1 DEF Apps
      <4> QED
        BY <1>9, <4>1, <4>2, <4>3 DEF SameFetches
    <3> DEFINE late == Caller("latest", FALSE, FALSE, caller.request)
               last == [request |-> Newest, callers |-> <<late>>, answered |-> FALSE]
               u == [x EXCEPT !.forced = TRUE]
               v == Ask(u, Newest, late)
    <3>6. z = FetchLatest(x, caller.request)
      <4>1. z = Settle(x, caller, page)
        BY <1>2, <3>5, SettleEachOnce
      <4>2. caller.owned /\ x.subscribed /\ caller.overflow
        BY <1>1, <1>16, <3>5 DEF Fetching
      <4> QED
        BY <1>3, <1>16, <2>5, <3>5, <4>1, <4>2, SettleCases
    <3>7. z = v
      BY <3>6 DEF FetchLatest
    <3>8. caller.request \in Requests
      BY DEF Callers
    <3>9. u \in Apps /\ u.calls = <<>>
      BY <3>5 DEF Apps
    <3>10. late \in Callers /\ late.owned /\ late.kind = "latest"
      BY <3>8, CallerTyped DEF Caller
    <3>11. last \in Calls /\ last.callers = <<late>> /\ last.request = Newest
      BY <3>10, Alone, RequestsAre DEF Calls
    <3> HIDE DEF u, late
    <3>12. v.calls = <<last>>
      BY <3>9, <3>10, RequestsAre, AskTyped
    <3> HIDE DEF v, last
    <3>13. /\ z \in Ready /\ SameStore(z, x) /\ z.catchUp = x.catchUp /\ z.owed = x.owed
           /\ z.forced = TRUE
      <4>1. /\ z \in Apps /\ SameStore(z, x) /\ z.catchUp = x.catchUp /\ z.owed = x.owed
            /\ z.forced = TRUE
        <5> HIDE DEF z
        <5> QED
          BY <3>5, <3>6, <3>8, FetchLatestTyped
      <4> QED
        BY <3>3, <4>1 DEF Ready, SameStore
    <3>14. z.calls = <<last>>
      BY <3>7, <3>12
    <3> HIDE DEF z
    <3>15. /\ b \in Ready /\ b.settling = <<>> /\ SameStore(b, z)
           /\ b.catchUp = z.catchUp /\ b.calls = z.calls /\ b.owed = z.owed /\ b.forced = z.forced
      BY <1>8, <3>13, Dealt
    <3>16. Offers(b)
      BY <3>4, <3>13, <3>15, OffersStored
    <3>17. ~b.synced /\ b.cached = a.cached /\ b.subscribed
      BY <3>5, <3>13, <3>15 DEF SameStore
    <3>18. b.catchUp = [status |-> "running", request |-> Resume(b)]
      <4>1. Held(b) = Held(a)
        BY <1>0, <3>17, LoadingHolds
      <4>2. Resume(b) = Resume(a)
        BY <4>1 DEF Resume
      <4> QED
        BY <1>1, <3>5, <3>13, <3>15, <4>2 DEF Fetching
    <3>19. Fetching(b, last, late)
      BY <1>16, <3>10, <3>11, <3>13, <3>14, <3>15, <3>17, <3>18 DEF Fetching
    <3>20. Loading(b)
      BY <1>16, <3>5, <3>10, <3>11, <3>13, <3>15, <3>17, <3>19 DEF Loading
    <3> QED
      BY <3>15, <3>16, <3>20
  <2> QED
    BY <2>4, <2>5
<1>17. caller.kind \in {"page", "latest"}
  BY <1>1 DEF Fetching
<1>18. b \in Ready /\ Offers(b) /\ b.settling = <<>> /\ (b.synced \/ Loading(b))
  BY <1>14, <1>15, <1>16, <1>17
<1> QED
  BY <1>18 DEF b

\* A failed first load waits for its timer.
LEMMA RejectLoading ==
  ASSUME NEW a \in Ready, Loading(a), Offers(a), NEW i \in DOMAIN a.calls
  PROVE  LET b == Reject(a, i)
         IN b \in Ready /\ Offers(b) /\ b.settling = <<>> /\ Loading(b)
<1>0. a \in Apps /\ ~a.synced /\ a.owed = None /\ (a.cached = None => ~a.forced)
  BY DEF Ready, Loading
<1>1. PICK call \in Calls, caller \in Callers : Fetching(a, call, caller)
  BY DEF Loading, Idle
<1>2. i = 1 /\ a.calls[i] = call /\ call.callers[1] = caller /\ Len(call.callers) = 1
      /\ Len(a.calls) = 1 /\ a.calls \in Seq(Calls)
  <2>1. a.calls \in Seq(Calls)
    BY <1>0 DEF Apps
  <2>2. Len(<<call>>) = 1
    OBVIOUS
  <2> QED
    BY <1>0, <1>1, <2>1, <2>2, FetchingFacts DEF Fetching
<1> DEFINE w == Waiting(a, i)
           e == [status |-> "error", request |-> caller.request]
           f == Failed(w, caller)
           g == IF caller.kind = "latest" THEN Unforced(f) ELSE Uninitialized(f)
           z == AbandonEach(w)
           b == Reject(a, i)
<1>4. /\ w \in Ready /\ SameStore(w, a) /\ w.settling = call.callers
      /\ w.calls = RemoveAt(a.calls, i) /\ w.catchUp = a.catchUp /\ w.owed = None
      /\ w.forced = a.forced /\ w.init = a.init
  BY <1>0, <1>2, WaitingTyped
<1>5. w.calls = <<>>
  <2>1. i \in 1..Len(a.calls)
    BY <1>2
  <2>2. RemoveAt(a.calls, i) \in Seq(Calls) /\ Len(RemoveAt(a.calls, i)) = 0
    BY <1>2, <2>1, Removed
  <2>3. RemoveAt(a.calls, i) = <<>>
    BY <2>2, Elements
  <2> QED
    BY <1>4, <2>3
<1>8. b = [z EXCEPT !.settling = <<>>]
  BY DEF Reject
<1>17. caller.kind \in {"page", "latest"} /\ caller.owned /\ (caller.kind = "page" => caller.init)
       /\ (caller.kind = "latest" => a.cached # None) /\ a.subscribed
       /\ caller.owned \in BOOLEAN /\ caller.init \in BOOLEAN /\ caller.request \in Requests
  BY <1>1 DEF Fetching, Callers
<1>6. z = StartOwed(g)
  <2>1. z = Abandon(w, caller)
    BY <1>2, <1>4, AbandonEachOnce
  <2>2. /\ caller.kind = "page" => Abandon(w, caller) = StartOwed(Uninitialized(f))
        /\ caller.kind = "latest" => Abandon(w, caller) = StartOwed(Unforced(f))
    <3> HIDE DEF w
    <3> DEFINE failed == IF caller.owned THEN Failed(w, caller) ELSE w
               marked == IF caller.init THEN Uninitialized(failed) ELSE failed
    <3>0. caller.owned \in BOOLEAN /\ caller.init \in BOOLEAN
      BY <1>17
    <3>1. /\ caller.kind = "page" => Abandon(w, caller) = StartOwed(marked)
          /\ caller.kind = "latest" => Abandon(w, caller) = StartOwed(Unforced(failed))
      BY <3>0, AbandonCases
    <3>2. failed = f
      BY <1>17
    <3> HIDE DEF failed, f
    <3>3. caller.init => marked = Uninitialized(failed)
      OBVIOUS
    <3> HIDE DEF marked
    <3> QED
      BY <1>17, <3>1, <3>2, <3>3
  <2> HIDE DEF w, z, f
  <2>3. g = IF caller.kind = "latest" THEN Unforced(f) ELSE Uninitialized(f)
    OBVIOUS
  <2> HIDE DEF g
  <2>4. CASE caller.kind = "page"
    BY <2>1, <2>2, <2>3, <2>4
  <2>5. CASE caller.kind = "latest"
    BY <2>1, <2>2, <2>3, <2>5
  <2> QED
    BY <1>17, <2>4, <2>5
<1> HIDE DEF w
<1>7. w \in Apps
  BY <1>4 DEF Ready
<1>9. e \in CatchUps /\ e # None /\ e.status = "error"
  BY <1>17, NoneIsNothing DEF CatchUps
<1>10. f = [w EXCEPT !.catchUp = e]
  BY DEF Failed
<1> HIDE DEF e, f
<1>11. /\ f \in Apps /\ f.catchUp = e /\ SameStore(f, w) /\ f.calls = w.calls /\ f.owed = w.owed
       /\ f.forced = w.forced /\ f.init = w.init
  BY <1>7, <1>9, <1>10 DEF Apps, SameStore
<1>12. /\ Unforced(f) \in Apps /\ Unforced(f).catchUp = e /\ SameStore(Unforced(f), f)
       /\ Unforced(f).calls = f.calls /\ Unforced(f).owed = f.owed /\ Unforced(f).forced = FALSE
  BY <1>11 DEF Apps, SameStore, Unforced
<1>13. /\ Uninitialized(f) \in Apps /\ Uninitialized(f).catchUp = e /\ SameStore(Uninitialized(f), f)
       /\ Uninitialized(f).calls = f.calls /\ Uninitialized(f).owed = f.owed
       /\ Uninitialized(f).forced = f.forced /\ Uninitialized(f).init = None
  BY <1>11 DEF Apps, SameStore, Uninitialized
<1>14. /\ g \in Apps /\ g.catchUp = e /\ SameStore(g, f) /\ g.calls = <<>> /\ g.owed = None
       /\ a.cached = None => ~g.forced /\ g.init = None
  BY <1>0, <1>4, <1>5, <1>11, <1>12, <1>13, <1>17
<1> HIDE DEF g
<1>15. g \in Ready
  BY <1>9, <1>14 DEF Ready
<1>16. z = g
  BY <1>6, <1>14, <1>15, NothingOwed
<1> HIDE DEF z
<1>18. SameStore(g, a)
  BY <1>4, <1>11, <1>14 DEF SameStore
<1>19. /\ b \in Ready /\ b.settling = <<>> /\ SameStore(b, g)
       /\ b.catchUp = g.catchUp /\ b.calls = g.calls /\ b.owed = g.owed /\ b.forced = g.forced
       /\ b.init = g.init
  BY <1>8, <1>15, <1>16, Dealt
<1> HIDE DEF b
<1>20. Offers(b)
  BY <1>18, <1>19, OffersStored
<1>21. Loading(b)
  <2>1. ~b.synced /\ b.cached = a.cached /\ b.subscribed
    BY <1>0, <1>17, <1>18, <1>19 DEF SameStore
  <2>2. InCatchUp(b, "error")
    BY <1>9, <1>14, <1>19 DEF InCatchUp
  <2> QED
    BY <1>14, <1>19, <2>1, <2>2 DEF Loading, Idle
<1>22. b \in Ready /\ Offers(b) /\ b.settling = <<>> /\ Loading(b)
  BY <1>19, <1>20, <1>21
<1> QED
  BY <1>22 DEF b

LEMMA DisconnectedTyped ==
  ASSUME NEW a \in Apps, a.settling = <<>>
  PROVE  LET b == Disconnected(a)
         IN /\ b \in Ready /\ b.settling = <<>>
            /\ b.synced = a.synced /\ b.shown = a.shown /\ b.range = a.range
            /\ b.cached = a.cached /\ b.older = a.older /\ b.newer = a.newer /\ b.frame = a.frame
            /\ ~b.subscribed /\ b.catchUp = None /\ b.owed = None /\ b.calls = <<>>
            /\ b.forced => a.forced
            /\ Loading(a) => Loading(b)
<1> DEFINE pending(kind) ==
             {c \in UNION {ToSet(call.callers) : call \in ToSet(a.calls)} : c.kind = kind}
           first == \E c \in pending("page") : c.init
           init == IF first THEN None ELSE a.init
           forced == a.forced /\ pending("latest") = {}
           c == [a EXCEPT !.subscribed = FALSE, !.catchUp = None, !.owed = None, !.calls = <<>>,
                          !.initializing = FALSE, !.init = init, !.forced = forced]
           b == Disconnected(a)
<1>1. b = c
  BY DEF Disconnected
<1>2. init \in Directions \cup {None} /\ forced \in BOOLEAN /\ <<>> \in Seq(Calls)
      /\ (forced => a.forced)
  BY EmptySeq DEF Apps
<1>3. Loading(a) => (a.cached = None => init = None)
  <2>1. CASE Idle(a)
    BY <2>1 DEF Idle
  <2>2. ASSUME NEW call \in Calls, NEW caller \in Callers, Fetching(a, call, caller), a.cached = None
        PROVE  init = None
    <3>1. caller.kind = "page" /\ caller.init
      BY <2>2 DEF Fetching
    <3>2. call \in ToSet(a.calls) /\ caller \in ToSet(call.callers)
      BY <2>2 DEF Fetching, ToSet
    <3>3. caller \in pending("page")
      BY <3>1, <3>2
    <3> QED
      BY <3>1, <3>3
  <2> HIDE DEF init
  <2> QED
    BY <2>1, <2>2 DEF Loading
<1> HIDE DEF init, forced
<1>4. c \in Apps
  BY <1>2 DEF Apps
<1>5. /\ c.settling = <<>> /\ c.synced = a.synced /\ c.shown = a.shown /\ c.range = a.range
      /\ c.cached = a.cached /\ c.older = a.older /\ c.newer = a.newer /\ c.frame = a.frame
      /\ c.subscribed = FALSE /\ c.catchUp = None /\ c.owed = None /\ c.calls = <<>>
      /\ c.forced = forced /\ c.init = init
  BY <1>2 DEF Apps
<1> HIDE DEF b, c
<1>6. c \in Ready
  BY <1>4, <1>5 DEF Ready
<1>7. Loading(a) => Loading(c)
  BY <1>2, <1>3, <1>5 DEF Loading, Idle
<1>8. /\ b \in Ready /\ b.settling = <<>>
      /\ b.synced = a.synced /\ b.shown = a.shown /\ b.range = a.range
      /\ b.cached = a.cached /\ b.older = a.older /\ b.newer = a.newer /\ b.frame = a.frame
      /\ ~b.subscribed /\ b.catchUp = None /\ b.owed = None /\ b.calls = <<>>
      /\ b.forced => a.forced
      /\ Loading(a) => Loading(b)
  BY <1>1, <1>2, <1>5, <1>6, <1>7
<1> QED
  BY <1>8 DEF b

-----------------------------------------------------------------------------
(* The app between two steps.                                              *)

AppOK(a) ==
  /\ a \in Ready /\ a.settling = <<>> /\ Offers(a)
  /\ a.synced \/ Loading(a)

LEMMA DemotedEmpty ==
  ASSUME NEW s \in Seq(Callers), Demoted(s, <<>>)
  PROVE  s = <<>>
BY Elements DEF Demoted

LEMMA OnwardOK ==
  ASSUME NEW a, AppOK(a), NEW b, Onward(b, a), a.synced
  PROVE  AppOK(b) /\ b.synced
<1>1. b \in Ready /\ SameStore(b, a) /\ Demoted(b.settling, <<>>) /\ b.settling \in Seq(Callers)
  BY DEF AppOK, Onward, Ready, Apps
<1> QED
  BY <1>1, DemotedEmpty, OffersStored DEF AppOK, SameStore

LEMMA LoadingOnwardOK ==
  ASSUME NEW a, AppOK(a), NEW b, Onward(b, a), Loading(b)
  PROVE  AppOK(b)
<1>1. b \in Ready /\ SameStore(b, a) /\ Demoted(b.settling, <<>>) /\ b.settling \in Seq(Callers)
  BY DEF AppOK, Onward, Ready, Apps
<1> QED
  BY <1>1, DemotedEmpty, OffersStored DEF AppOK

LEMMA FlushOK ==
  ASSUME NEW a, AppOK(a)
  PROVE  AppOK(FlushFrame(a)) /\ FlushFrame(a).synced = a.synced
<1> DEFINE b == FlushFrame(a)
<1>0. a \in Ready /\ a \in Apps
  BY DEF AppOK, Ready
<1>1. Flushed(b, a) /\ (~a.synced => b = [a EXCEPT !.frame = <<>>, !.shown = b.shown])
  BY <1>0, FlushTyped
<1>2. Offers(b)
  BY <1>0, FlushOffers DEF AppOK
<1> HIDE DEF b
<1>3. ~a.synced => SameLoad(b, a)
  BY <1>0, <1>1 DEF SameLoad, Apps
<1>4. b.settling \in Seq(Callers) /\ Demoted(b.settling, <<>>)
  BY <1>1 DEF Flushed, Ready, Apps, AppOK
<1>5. AppOK(b) /\ b.synced = a.synced
  BY <1>1, <1>2, <1>3, <1>4, DemotedEmpty, LoadingAgain DEF AppOK, Flushed
<1> QED
  BY <1>5 DEF b

LEMMA StartOK ==
  ASSUME NEW a, AppOK(a), NEW request \in Requests \cup {None}, NEW supersede \in BOOLEAN,
         request # None => a.synced
  PROVE  LET b == StartCatchUp(a, request, supersede)
         IN AppOK(b) /\ b.synced = a.synced
<1> DEFINE b == StartCatchUp(a, request, supersede)
<1>1. a \in Ready /\ a \in Apps /\ a.synced \in BOOLEAN
  BY DEF AppOK, Ready, Apps
<1>2. Onward(b, a)
  BY <1>1, StartOnward
<1>3. ~a.synced => Loading(b)
  BY <1>1, LoadingStart DEF AppOK
<1> HIDE DEF b
<1>4. AppOK(b) /\ b.synced = a.synced
  BY <1>2, <1>3, OnwardOK, LoadingOnwardOK DEF Onward, SameStore
<1> QED
  BY <1>4 DEF b

\* The subscription is confirmed.
LEMMA SubscribedOK ==
  ASSUME NEW a, AppOK(a)
  PROVE  LET b == StartOwed([a EXCEPT !.subscribed = TRUE])
         IN AppOK(b) /\ b.synced = a.synced
<1> DEFINE x == [a EXCEPT !.subscribed = TRUE]
           b == StartOwed(x)
<1>0. a \in Ready /\ a \in Apps /\ a.synced \in BOOLEAN /\ a.owed \in Requests \cup {None}
      /\ a.subscribed \in BOOLEAN /\ a.settling = <<>> /\ Offers(a) /\ (a.synced \/ Loading(a))
  BY DEF AppOK, Ready, Apps
<1>1. /\ x \in Apps /\ x.subscribed = TRUE /\ x.synced = a.synced /\ x.range = a.range
      /\ x.cached = a.cached /\ x.older = a.older /\ x.owed = a.owed /\ x.catchUp = a.catchUp
      /\ x.settling = a.settling /\ x.forced = a.forced /\ x.calls = a.calls
      /\ x.init = a.init /\ x.initializing = a.initializing
  BY <1>0 DEF Apps
<1> HIDE DEF x
<1>2. Offers(x)
  BY <1>0, <1>1 DEF Offers, Held
<1>3. Loading(a) => Loading(x)
  <2>1. CASE Loading(a) /\ Idle(a)
    BY <1>1, <2>1 DEF Loading, Idle, InCatchUp
  <2>2. ASSUME Loading(a), NEW call \in Calls, NEW caller \in Callers, Fetching(a, call, caller)
        PROVE  Loading(x)
    <3>1. SameLoad(x, a)
      BY <1>0, <1>1, <2>2 DEF SameLoad, Fetching
    <3> QED
      BY <2>2, <3>1, LoadingAgain
  <2> QED
    BY <2>1, <2>2 DEF Loading
<1>4. b = x \/ b = StartCatchUp(x, x.owed, x.owed # None)
  BY DEF StartOwed
<1>5. CASE x.catchUp # None
  <2>1. x \in Ready
    BY <1>1, <1>5 DEF Ready
  <2>2. AppOK(x)
    BY <1>0, <1>1, <1>2, <1>3, <2>1 DEF AppOK
  <2>3. Onward(b, x)
    BY <2>1, OwedOnward
  <2>4. Loading(x) => Loading(b)
    BY <1>1, LoadingSubscribed
  <2> HIDE DEF b
  <2>5. AppOK(b)
    BY <1>0, <1>1, <1>3, <2>2, <2>3, <2>4, OnwardOK, LoadingOnwardOK
  <2>6. b.synced = a.synced
    BY <1>1, <2>3 DEF Onward, SameStore
  <2> QED
    BY <2>5, <2>6 DEF b, x
<1>6. CASE x.catchUp = None
  <2> DEFINE next == IF x.owed = None THEN Resume(x) ELSE x.owed
             overflow == x.owed = None /\ next.dir = "after"
             supersede == x.owed # None
  <2>1. b = StartCatchUp(x, x.owed, supersede)
    BY <1>1, <1>6 DEF StartOwed
  <2>2. ~InCatchUp(x, "running") /\ ~InCatchUp(x, "complete")
    BY <1>6 DEF InCatchUp
  <2>3. b = Begin(x, next, overflow) /\ next \in Requests
    <3>1. supersede \in BOOLEAN /\ x.owed \in Requests \cup {None}
      BY <1>0, <1>1
    <3> HIDE DEF supersede
    <3>2. LET c == StartCatchUp(x, x.owed, supersede)
          IN /\ next \in Requests
             /\ x.subscribed =>
                 \/ /\ c = x
                    /\ \/ InCatchUp(x, "running") /\ (supersede => x.catchUp.request = next)
                       \/ ~supersede /\ InCatchUp(x, "complete")
                 \/ /\ c = [x EXCEPT !.owed = next] /\ supersede
                    /\ InCatchUp(x, "running") /\ x.catchUp.request.dir = "tail"
                    /\ x.catchUp.request # next
                 \/ /\ c = Begin(x, next, overflow)
                    /\ ~supersede => ~InCatchUp(x, "running") /\ ~InCatchUp(x, "complete")
                    /\ InCatchUp(x, "running") => x.catchUp.request.dir # "tail"
                                                  /\ x.catchUp.request # next
      BY <1>1, <3>1, StartCases
    <3> HIDE DEF next, overflow, b
    <3> QED
      BY <1>1, <2>1, <2>2, <3>2
  <2>4. overflow \in BOOLEAN
    OBVIOUS
  <2> HIDE DEF b, next, overflow
  <2>5. b \in Ready /\ SameStore(b, x) /\ b.settling = Disowned(x.settling)
    BY <1>1, <2>3, <2>4, BeginTyped
  <2>6. b.settling = <<>>
    <3>1. <<>> \in Seq(Callers)
      BY EmptySeq
    <3>2. Demoted(b.settling, <<>>) /\ b.settling \in Seq(Callers)
      BY <1>0, <1>1, <2>5, <3>1, DemotedByDisowned DEF Ready, Apps
    <3> QED
      BY <3>2, DemotedEmpty
  <2>7. Loading(x) => Loading(b)
    BY <1>1, LoadingSubscribed DEF b
  <2>8. Offers(b) /\ b.synced = a.synced
    BY <1>1, <1>2, <2>5, OffersStored DEF SameStore
  <2>9. AppOK(b)
    BY <1>0, <1>3, <2>5, <2>6, <2>7, <2>8 DEF AppOK
  <2> QED
    BY <2>8, <2>9 DEF b, x
<1> QED
  BY <1>5, <1>6

LEMMA AskOK ==
  ASSUME NEW a, AppOK(a), a.synced, NEW request \in Requests, NEW caller \in Callers
  PROVE  AppOK(Ask(a, request, caller)) /\ Ask(a, request, caller).synced
<1> DEFINE b == Ask(a, request, caller)
<1>1. a \in Apps /\ a \in Ready /\ a.settling = <<>> /\ Offers(a)
  BY DEF AppOK, Ready
<1>2. b \in Apps /\ SameStore(b, a) /\ b.catchUp = a.catchUp /\ b.settling = a.settling
  BY <1>1, AskKeeps
<1> HIDE DEF b
<1>3. b \in Ready /\ b.synced
  BY <1>1, <1>2 DEF Ready, SameStore
<1>4. AppOK(b) /\ b.synced
  BY <1>1, <1>2, <1>3, OffersStored DEF AppOK
<1> QED
  BY <1>4 DEF b

LEMMA AnsweredOK ==
  ASSUME NEW a, AppOK(a), NEW i \in DOMAIN a.calls
  PROVE  LET b == [a EXCEPT !.calls[i].answered = TRUE]
         IN AppOK(b) /\ b.synced = a.synced
<1> DEFINE calls == [a.calls EXCEPT ![i].answered = TRUE]
           c == [a EXCEPT !.calls = calls]
           b == [a EXCEPT !.calls[i].answered = TRUE]
<1>0. a \in Ready /\ a \in Apps /\ a.settling = <<>> /\ Offers(a) /\ (a.synced \/ Loading(a))
      /\ a.calls \in Seq(Calls)
  BY DEF AppOK, Ready, Apps
<1>1. b = c
  OBVIOUS
<1>2. i \in 1..Len(a.calls) /\ Len(a.calls) \in Nat /\ a.calls[i] \in Calls
  BY <1>0, Elements
<1>3. [a.calls[i] EXCEPT !.answered = TRUE] \in Calls
  BY <1>2 DEF Calls
<1>4. calls = [a.calls EXCEPT ![i] = [a.calls[i] EXCEPT !.answered = TRUE]]
  OBVIOUS
<1>5. calls \in Seq(Calls)
  <2> DEFINE e == [a.calls[i] EXCEPT !.answered = TRUE]
  <2>1. a.calls \in [1..Len(a.calls) -> Calls]
    BY <1>0, <1>2, LenProperties, ElementOfSeq
  <2> HIDE DEF e
  <2>2. [a.calls EXCEPT ![i] = e] \in [1..Len(a.calls) -> Calls]
    BY <1>3, <2>1 DEF e
  <2> QED
    BY <1>2, <1>4, <2>2, ASequence DEF e
<1>6. ~a.synced => \E call \in Calls, caller \in Callers :
                     Fetching(a, call, caller) /\ calls = <<[call EXCEPT !.answered = TRUE]>>
  <2>1. a.calls # <<>>
    BY <1>0, <1>2, Elements
  <2>2. SUFFICES ASSUME ~a.synced, NEW call \in Calls, NEW caller \in Callers, Fetching(a, call, caller)
                 PROVE  calls = <<[call EXCEPT !.answered = TRUE]>>
    BY <1>0, <2>1 DEF Loading, Idle
  <2>3. a.calls = <<call>> /\ i = 1
    BY <1>0, <2>2, FetchingFacts DEF Fetching
  <2> DEFINE done == [call EXCEPT !.answered = TRUE]
  <2>5. calls = [<<call>> EXCEPT ![1] = done]
    BY <1>4, <2>3
  <2> HIDE DEF done, calls
  <2>4. [<<call>> EXCEPT ![1] = done] = <<done>>
    OBVIOUS
  <2> QED
    BY <2>4, <2>5 DEF done
<1> HIDE DEF calls
<1>7. c \in Ready
  BY <1>0, <1>5 DEF Ready, Apps
<1>8. /\ SameStore(c, a) /\ c.settling = a.settling /\ c.owed = a.owed /\ c.forced = a.forced
      /\ c.calls = calls /\ c.catchUp = a.catchUp /\ c.init = a.init
      /\ c.initializing = a.initializing
  BY <1>0, <1>5 DEF SameStore, Apps
<1> HIDE DEF b, c
<1>9. Offers(c) /\ Held(c) = Held(a)
  BY <1>0, <1>8, OffersStored
<1>10. ~a.synced => Loading(c)
  <2>1. SUFFICES ASSUME ~a.synced PROVE Loading(c)
    OBVIOUS
  <2>2. PICK call \in Calls, caller \in Callers :
          Fetching(a, call, caller) /\ calls = <<[call EXCEPT !.answered = TRUE]>>
    BY <1>6, <2>1
  <2> DEFINE done == [call EXCEPT !.answered = TRUE]
  <2>3. done \in Calls /\ done.callers = call.callers /\ done.request = call.request
    BY DEF Calls
  <2>4. calls = <<done>>
    BY <2>2
  <2> HIDE DEF done
  <2>5. Resume(c) = Resume(a)
    BY <1>9 DEF Resume
  <2>6. Fetching(c, done, caller)
    BY <1>8, <2>2, <2>3, <2>4, <2>5 DEF Fetching, SameStore
  <2> QED
    BY <1>0, <1>8, <2>1, <2>3, <2>6 DEF Loading, SameStore
<1>11. AppOK(c) /\ c.synced = a.synced
  BY <1>0, <1>7, <1>8, <1>9, <1>10 DEF AppOK, SameStore
<1> QED
  BY <1>1, <1>11 DEF b

LEMMA RowOK ==
  ASSUME NEW a, AppOK(a), NEW row \in Rows
  PROVE  LET b == [a EXCEPT !.frame = Append(@, row)]
         IN AppOK(b) /\ b.synced = a.synced
<1> DEFINE frame == Append(a.frame, row)
           b == [a EXCEPT !.frame = frame]
<1>0. a \in Ready /\ a \in Apps /\ a.settling = <<>> /\ Offers(a) /\ (a.synced \/ Loading(a))
      /\ a.frame \in Seq(Rows)
  BY DEF AppOK, Ready, Apps
<1>1. frame \in Seq(Rows)
  BY <1>0, Appended
<1> HIDE DEF frame
<1>2. b \in Ready
  BY <1>0, <1>1 DEF Ready, Apps
<1>3. SameLoad(b, a) /\ b.settling = a.settling /\ b.range = a.range /\ b.older = a.older
  BY <1>0 DEF Apps, SameLoad
<1> HIDE DEF b
<1>4. Offers(b)
  BY <1>0, <1>3 DEF Offers, Held, SameLoad
<1>5. AppOK(b) /\ b.synced = a.synced
  BY <1>0, <1>2, <1>3, <1>4, LoadingAgain DEF AppOK, SameLoad
<1> QED
  BY <1>5 DEF b, frame

LEMMA DeliverOK ==
  ASSUME NEW a, AppOK(a), NEW i \in DOMAIN a.calls,
         NEW t \in Timelines, NEW page, page = Page(a.calls[i].request, t)
  PROVE  LET b == Deliver(a, i, page)
         IN AppOK(b) /\ (a.synced => b.synced)
<1>0. a \in Ready /\ a \in Apps /\ Offers(a) /\ (a.synced \/ Loading(a))
  BY DEF AppOK, Ready
<1>1. a.calls[i].request \in Requests
  <2>1. a.calls \in Seq(Calls)
    BY <1>0 DEF Apps
  <2>2. a.calls[i] \in Calls
    BY <2>1, Elements
  <2> QED
    BY <2>2 DEF Calls
<1>2. page \in Pages /\ Proper(page)
  BY <1>1, PageProper
<1>3. CASE a.synced
  BY <1>0, <1>2, <1>3, DeliverSynced DEF AppOK
<1>4. CASE ~a.synced
  BY <1>0, <1>4, DeliverLoading DEF AppOK
<1> QED
  BY <1>3, <1>4

LEMMA RejectOK ==
  ASSUME NEW a, AppOK(a), NEW i \in DOMAIN a.calls
  PROVE  LET b == Reject(a, i)
         IN AppOK(b) /\ (a.synced => b.synced)
<1>0. a \in Ready /\ Offers(a) /\ (a.synced \/ Loading(a))
  BY DEF AppOK
<1>1. CASE a.synced
  BY <1>0, <1>1, RejectSynced DEF AppOK
<1>2. CASE ~a.synced
  BY <1>0, <1>2, RejectLoading DEF AppOK
<1> QED
  BY <1>1, <1>2

LEMMA DisconnectedOK ==
  ASSUME NEW a, AppOK(a)
  PROVE  LET b == Disconnected(a)
         IN AppOK(b) /\ b.synced = a.synced
<1> DEFINE b == Disconnected(a)
<1>0. a \in Apps /\ a.settling = <<>> /\ Offers(a) /\ (a.synced \/ Loading(a))
  BY DEF AppOK, Ready
<1>1. /\ b \in Ready /\ b.settling = <<>> /\ b.synced = a.synced /\ b.range = a.range
      /\ b.cached = a.cached /\ b.older = a.older /\ (Loading(a) => Loading(b))
  BY <1>0, DisconnectedTyped
<1> HIDE DEF b
<1>2. AppOK(b) /\ b.synced = a.synced
  BY <1>0, <1>1 DEF AppOK, Offers, Held
<1> QED
  BY <1>2 DEF b

-----------------------------------------------------------------------------
(* The invariant, where nothing rare happens.                              *)

\* What is on its way: rows, answers of a timeline, and no replacement before
\* the first load is complete.
MessageOK(m, synced) ==
  /\ m.kind = "row" => m.row \in Rows
  /\ m.kind = "page" => m.request \in Requests /\ \E t \in Timelines : m.page = Page(m.request, t)
  /\ ~synced => m.kind # "replacement"

WireOK(wire, synced) == \A i \in 1..Len(wire) : MessageOK(wire[i], synced)

TransferInv ==
  /\ daemon \in [epoch : Nat \ {0}, head : Nat \ {0}, subscribed : BOOLEAN]
  /\ online \in BOOLEAN
  /\ down \in Seq(Messages)
  /\ AppOK(app)
  /\ faults \in 0 .. MaxFaults
  /\ WireOK(down, app.synced)

LEMMA MessageTyped ==
  /\ \A synced : \A row \in Rows : Message("row", row, None, None) \in Messages
                               /\ MessageOK(Message("row", row, None, None), synced)
  /\ \A synced : synced => Message("replacement", None, None, None) \in Messages
                           /\ MessageOK(Message("replacement", None, None, None), synced)
  /\ \A synced : Message("subscribed", None, None, None) \in Messages
                 /\ MessageOK(Message("subscribed", None, None, None), synced)
  /\ \A synced : \A r \in Requests, t \in Timelines :
       /\ Message("page", None, r, Page(r, t)) \in Messages
       /\ MessageOK(Message("page", None, r, Page(r, t)), synced)
<1>1. \A synced : \A row \in Rows : Message("row", row, None, None) \in Messages
                                /\ MessageOK(Message("row", row, None, None), synced)
  BY DEF Message, Messages, MessageOK
<1>2. \A synced : synced => Message("replacement", None, None, None) \in Messages
                            /\ MessageOK(Message("replacement", None, None, None), synced)
  BY DEF Message, Messages, MessageOK
<1>3. \A synced : Message("subscribed", None, None, None) \in Messages
                  /\ MessageOK(Message("subscribed", None, None, None), synced)
  BY DEF Message, Messages, MessageOK
<1>4. ASSUME NEW r \in Requests, NEW t \in Timelines, NEW synced
      PROVE  /\ Message("page", None, r, Page(r, t)) \in Messages
             /\ MessageOK(Message("page", None, r, Page(r, t)), synced)
  <2> DEFINE p == Page(r, t)
  <2>1. p \in Pages
    BY PageProper
  <2>2. \E u \in Timelines : p = Page(r, u)
    OBVIOUS
  <2> HIDE DEF p
  <2>3. Message("page", None, r, p) \in Messages
    BY <2>1 DEF Message, Messages
  <2>4. LET m == Message("page", None, r, p)
        IN m.kind = "page" /\ m.request = r /\ m.page = p
    BY DEF Message
  <2>5. MessageOK(Message("page", None, r, p), synced)
    BY <2>2, <2>4 DEF MessageOK
  <2> QED
    BY <2>3, <2>5 DEF p
<1> QED
  BY <1>1, <1>2, <1>3, <1>4

LEMMA WireAppended ==
  ASSUME NEW wire \in Seq(Messages), NEW synced, WireOK(wire, synced),
         NEW m \in Messages, MessageOK(m, synced)
  PROVE  Append(wire, m) \in Seq(Messages) /\ WireOK(Append(wire, m), synced)
<1>1. Len(wire) \in Nat
  BY Elements
<1>2. \A i \in 1..(Len(wire) + 1) : i \in 1..Len(wire) \/ i = Len(wire) + 1
  BY <1>1
<1> QED
  BY <1>2, Appended DEF WireOK

LEMMA WireHead ==
  ASSUME NEW wire \in Seq(Messages), NEW synced, WireOK(wire, synced), wire # <<>>
  PROVE  /\ Tail(wire) \in Seq(Messages) /\ WireOK(Tail(wire), synced)
         /\ Head(wire) \in Messages /\ MessageOK(Head(wire), synced)
<1>1. Len(wire) \in Nat /\ Len(wire) # 0
  BY Elements
<1>2. /\ Tail(wire) \in Seq(Messages) /\ Len(Tail(wire)) = Len(wire) - 1
      /\ \A i \in 1..Len(Tail(wire)) : Tail(wire)[i] = wire[i + 1]
      /\ Head(wire) = wire[1]
  BY HeadTailProperties
<1>3. \A i \in 1..Len(Tail(wire)) : i + 1 \in 1..Len(wire)
  BY <1>1, <1>2
<1>4. 1 \in 1..Len(wire)
  BY <1>1
<1> QED
  BY <1>2, <1>3, <1>4, Elements DEF WireOK

LEMMA WireLost ==
  ASSUME NEW wire \in Seq(Messages), NEW synced, WireOK(wire, synced), NEW j \in DOMAIN wire
  PROVE  RemoveAt(wire, j) \in Seq(Messages) /\ WireOK(RemoveAt(wire, j), synced)
<1>1. j \in 1..Len(wire) /\ Len(wire) \in Nat
  BY Elements
<1>2. /\ RemoveAt(wire, j) \in Seq(Messages) /\ Len(RemoveAt(wire, j)) = Len(wire) - 1
      /\ \A k \in 1..(Len(wire) - 1) : RemoveAt(wire, j)[k] = IF k < j THEN wire[k] ELSE wire[k + 1]
  BY <1>1, Removed
<1>3. \A k \in 1..(Len(wire) - 1) : k \in 1..Len(wire) /\ k + 1 \in 1..Len(wire)
  BY <1>1
<1> QED
  BY <1>2, <1>3 DEF WireOK

LEMMA WireAnyway ==
  ASSUME NEW wire, NEW a, NEW b, WireOK(wire, a), a => b
  PROVE  WireOK(wire, b)
BY DEF WireOK, MessageOK

LEMMA OpenedOK ==
  ASSUME NEW shown \in SUBSET Rows, NEW cached \in Spans \cup {None}
  PROVE  AppOK(Opened(shown, cached)) /\ Opened(shown, cached).synced = FALSE
<1> DEFINE a == Opened(shown, cached)
           older == cached # None /\ cached.first > 1
<1>1. <<>> \in Seq(Rows) /\ <<>> \in Seq(Calls) /\ <<>> \in Seq(Callers)
  BY EmptySeq
<1>2. a = [synced |-> FALSE, shown |-> shown, range |-> cached, cached |-> cached,
           older |-> older, newer |-> FALSE,
           init |-> None, initializing |-> FALSE, forced |-> FALSE, frame |-> <<>>,
           subscribed |-> FALSE, catchUp |-> None, owed |-> None, calls |-> <<>>,
           settling |-> <<>>]
  BY DEF Opened
<1>3. older \in BOOLEAN
  OBVIOUS
<1>9. cached # None /\ cached.first > 1 => older
  OBVIOUS
<1> HIDE DEF older
<1>4. a \in Ready
  BY <1>1, <1>2, <1>3 DEF Ready, Apps
<1>5. /\ a.synced = FALSE /\ a.cached = cached /\ a.older = older /\ a.settling = <<>>
      /\ a.owed = None /\ a.forced = FALSE /\ a.calls = <<>> /\ a.catchUp = None /\ a.init = None
  BY <1>2
<1> HIDE DEF a
<1>6. Loading(a)
  BY <1>5 DEF Loading, Idle
<1>7. Offers(a)
  BY <1>5, <1>9 DEF Offers, Held
<1>8. AppOK(a) /\ a.synced = FALSE
  BY <1>4, <1>5, <1>6, <1>7 DEF AppOK
<1> QED
  BY <1>8 DEF a

\* Circumstances that leave the first load of a chat alone.
Undisturbed == {"lost replacement", "answers overtake"}

LEMMA TransferInit ==
  ASSUME Cases \subseteq Undisturbed, Init
  PROVE  TransferInv
<1>0. MaxRow \in Nat /\ MaxEpoch \in Nat \ {0} /\ MaxFaults \in Nat
  BY TimelineAssumption
<1>1. PICK epoch \in 1 .. Min({2, MaxEpoch}), head \in 1 .. MaxRow :
        /\ daemon = [epoch |-> epoch, head |-> head, subscribed |-> FALSE]
        /\ \/ app = Opened({}, None)
           \/ \E last \in 1 .. MaxRow, display \in BOOLEAN :
                \E first \in 1 .. last :
                  app = Opened(RowsOf(Span(1, first, last)),
                               IF display THEN None ELSE Span(1, first, last))
  <2>1. "empty" \notin Cases
    BY DEF Undisturbed
  <2> QED
    BY <2>1 DEF Init
<1>2. epoch \in Nat \ {0} /\ head \in Nat \ {0}
  <2> DEFINE n == Min({2, MaxEpoch})
  <2>1. ASSUME NEW m, m = 2
        PROVE  Min({m, MaxEpoch}) = IF m <= MaxEpoch THEN m ELSE MaxEpoch
    BY <1>0, <2>1, Smaller
  <2>4. n = IF 2 <= MaxEpoch THEN 2 ELSE MaxEpoch
    BY <2>1
  <2>2. n \in Nat
    <3> HIDE DEF n
    <3> QED
      BY <1>0, <2>4
  <2> HIDE DEF n
  <2>3. epoch \in 1..n
    BY DEF n
  <2> QED
    BY <1>0, <2>2, <2>3
<1>3. AppOK(app) /\ app.synced = FALSE
  <2>1. CASE app = Opened({}, None)
    BY <2>1, OpenedOK
  <2>2. ASSUME NEW last \in 1 .. MaxRow, NEW display \in BOOLEAN, NEW first \in 1 .. last,
               app = Opened(RowsOf(Span(1, first, last)),
                            IF display THEN None ELSE Span(1, first, last))
        PROVE  AppOK(app) /\ app.synced = FALSE
    <3> DEFINE shown == RowsOf(Span(1, first, last))
               cached == IF display THEN None ELSE Span(1, first, last)
    <3>1. last \in Nat /\ first \in Nat
      BY <1>0
    <3>2. Span(1, first, last) \in Spans
      BY <3>1 DEF Span, Spans
    <3>3. shown \in SUBSET Rows
      BY <3>1 DEF RowsOf, Span, Row, Rows
    <3>4. cached \in Spans \cup {None}
      BY <3>2
    <3>5. app = Opened(shown, cached)
      BY <2>2
    <3> HIDE DEF shown, cached
    <3> QED
      BY <3>3, <3>4, <3>5, OpenedOK
  <2> QED
    BY <1>1, <2>1, <2>2
<1>4. down = <<>> /\ online = FALSE /\ faults = 0
  BY DEF Init
<1>5. <<>> \in Seq(Messages) /\ Len(<<>>) = 0
  BY EmptySeq
<1>6. WireOK(down, app.synced)
  BY <1>4, <1>5 DEF WireOK
<1>7. daemon \in [epoch : Nat \ {0}, head : Nat \ {0}, subscribed : BOOLEAN]
  BY <1>1, <1>2
<1>8. faults \in 0 .. MaxFaults
  BY <1>0, <1>4
<1> QED
  BY <1>3, <1>4, <1>5, <1>6, <1>7, <1>8 DEF TransferInv

LEMMA TransferStep ==
  ASSUME Cases \subseteq Undisturbed, TransferInv, [Next]_vars
  PROVE  TransferInv'
<1> USE DEF TransferInv
<1>0. /\ app \in Ready /\ app \in Apps /\ app.synced \in BOOLEAN /\ MaxFaults \in Nat
      /\ daemon.epoch \in Nat \ {0} /\ daemon.head \in Nat \ {0} /\ daemon.subscribed \in BOOLEAN
  BY TimelineAssumption DEF AppOK, Ready, Apps
<1>21. "empty" \notin Cases /\ "early rewind" \notin Cases /\ "early retry" \notin Cases
  BY DEF Undisturbed
<1>20. faults < MaxFaults => faults + 1 \in 0 .. MaxFaults
  BY <1>0
<1>1. CASE RecordRow
  <2> DEFINE m == Message("row", Row(daemon.epoch, daemon.head + 1), None, None)
  <2>1. daemon' \in [epoch : Nat \ {0}, head : Nat \ {0}, subscribed : BOOLEAN]
    BY <1>0, <1>1 DEF RecordRow
  <2>2. Row(daemon.epoch, daemon.head + 1) \in Rows
    BY <1>0 DEF Row, Rows
  <2>3. m \in Messages /\ MessageOK(m, app.synced)
    BY <2>2, MessageTyped
  <2>4. down' = IF daemon.subscribed THEN Append(down, m) ELSE down
    BY <1>1 DEF RecordRow, Streamed
  <2> HIDE DEF m
  <2>5. down' \in Seq(Messages) /\ WireOK(down', app.synced)
    BY <2>3, <2>4, WireAppended
  <2> QED
    BY <1>1, <2>1, <2>5 DEF RecordRow
<1>2. CASE Rewind
  <2> DEFINE m == Message("replacement", None, None, None)
  <2>1. daemon' \in [epoch : Nat \ {0}, head : Nat \ {0}, subscribed : BOOLEAN]
    <3>1. PICK n \in 1..daemon.head : daemon' = [daemon EXCEPT !.epoch = @ + 1, !.head = n]
      BY <1>2, <1>21 DEF Rewind
    <3>2. n \in Nat \ {0} /\ daemon.epoch + 1 \in Nat \ {0}
      BY <1>0
    <3> QED
      BY <3>1, <3>2
  <2>2. app.synced \/ ~daemon.subscribed
    BY <1>2, <1>21 DEF Rewind
  <2>3. app.synced => m \in Messages /\ MessageOK(m, app.synced)
    BY MessageTyped
  <2>4. down' = IF daemon.subscribed THEN Append(down, m) ELSE down
    BY <1>2 DEF Rewind, Streamed
  <2> HIDE DEF m
  <2>5. down' \in Seq(Messages) /\ WireOK(down', app.synced)
    BY <2>2, <2>3, <2>4, WireAppended
  <2> QED
    BY <1>2, <2>1, <2>5 DEF Rewind
<1>3. CASE Subscribe
  <2> DEFINE m == Message("subscribed", None, None, None)
  <2>1. daemon' \in [epoch : Nat \ {0}, head : Nat \ {0}, subscribed : BOOLEAN]
    BY <1>0, <1>3 DEF Subscribe
  <2>3. m \in Messages /\ MessageOK(m, app.synced)
    BY MessageTyped
  <2>4. down' = Append(down, m)
    BY <1>3 DEF Subscribe
  <2> HIDE DEF m
  <2>5. down' \in Seq(Messages) /\ WireOK(down', app.synced)
    BY <2>3, <2>4, WireAppended
  <2> QED
    BY <1>3, <2>1, <2>5 DEF Subscribe
<1>4. CASE Answer
  <2>1. PICK i \in DOMAIN app.calls :
          /\ app' = [app EXCEPT !.calls[i].answered = TRUE]
          /\ down' = Append(down, Message("page", None, app.calls[i].request,
                                          Page(app.calls[i].request, daemon)))
          /\ UNCHANGED <<daemon, online, faults>>
    BY <1>4 DEF Answer
  <2>2. AppOK(app') /\ app'.synced = app.synced
    BY <2>1, AnsweredOK
  <2> DEFINE r == app.calls[i].request
             t == [epoch |-> daemon.epoch, head |-> daemon.head]
             m == Message("page", None, r, Page(r, t))
  <2>3. r \in Requests
    <3>1. app.calls \in Seq(Calls)
      BY <1>0 DEF Apps
    <3>2. app.calls[i] \in Calls
      BY <3>1, Elements
    <3> QED
      BY <3>2 DEF Calls
  <2>4. t \in Timelines
    BY <1>0 DEF Timelines
  <2>5. Page(r, daemon) = Page(r, t)
    <3>1. t.epoch = daemon.epoch /\ t.head = daemon.head
      OBVIOUS
    <3> HIDE DEF r, t
    <3> QED
      BY <3>1 DEF Page
  <2>6. m \in Messages /\ MessageOK(m, app.synced)
    <3> HIDE DEF r, t
    <3> QED
      BY <2>3, <2>4, MessageTyped
  <2>7. down' = Append(down, m)
    BY <2>1, <2>5
  <2> HIDE DEF m
  <2>8. down' \in Seq(Messages) /\ WireOK(down', app.synced)
    BY <2>6, <2>7, WireAppended
  <2> QED
    BY <2>1, <2>2, <2>8
<1>5. CASE Drop
  <2>1. daemon' \in [epoch : Nat \ {0}, head : Nat \ {0}, subscribed : BOOLEAN]
    <3>1. PICK restarted \in BOOLEAN :
            daemon' = [daemon EXCEPT !.subscribed = FALSE,
                         !.epoch = IF restarted THEN daemon.epoch + 1 ELSE daemon.epoch]
      BY <1>5 DEF Drop
    <3> DEFINE e == IF restarted THEN daemon.epoch + 1 ELSE daemon.epoch
    <3>2. e \in Nat \ {0}
      BY <1>0
    <3>3. daemon' = [daemon EXCEPT !.subscribed = FALSE, !.epoch = e]
      BY <3>1
    <3> HIDE DEF e
    <3> QED
      BY <3>2, <3>3
  <2>2. /\ online' = FALSE /\ down' = <<>> /\ app' = Disconnected(app) /\ faults' = faults + 1
        /\ faults < MaxFaults
    BY <1>5 DEF Drop
  <2>3. AppOK(app')
    BY <2>2, DisconnectedOK
  <2>4. <<>> \in Seq(Messages) /\ Len(<<>>) = 0
    BY EmptySeq
  <2>5. WireOK(down', app'.synced)
    BY <2>2, <2>4 DEF WireOK
  <2> QED
    BY <1>20, <2>1, <2>2, <2>3, <2>4, <2>5
<1>6. CASE Connect
  BY <1>6 DEF Connect
<1>7. CASE Fail
  <2>1. PICK i \in DOMAIN app.calls :
          /\ app' = Reject(app, i)
          /\ \/ down' = down
             \/ \E j \in DOMAIN down : down' = RemoveAt(down, j)
    BY <1>7 DEF Fail
  <2>2. faults' = faults + 1 /\ faults < MaxFaults /\ UNCHANGED <<daemon, online>>
    BY <1>7 DEF Fail
  <2>3. AppOK(app') /\ (app.synced => app'.synced)
    BY <2>1, RejectOK
  <2>4. down' \in Seq(Messages) /\ WireOK(down', app.synced)
    BY <2>1, WireLost
  <2>5. WireOK(down', app'.synced)
    BY <2>3, <2>4, WireAnyway
  <2> QED
    BY <1>20, <2>2, <2>3, <2>4, <2>5
<1>8. CASE ReceiveRow
  <2>1. /\ down # <<>> /\ Head(down).kind = "row" /\ down' = Tail(down)
        /\ app' = [app EXCEPT !.frame = Append(@, Head(down).row)]
        /\ UNCHANGED <<daemon, online, faults>>
    BY <1>8 DEF ReceiveRow, Receive
  <2>2. /\ down' \in Seq(Messages) /\ WireOK(down', app.synced)
        /\ MessageOK(Head(down), app.synced)
    BY <2>1, WireHead
  <2>3. Head(down).row \in Rows
    BY <2>1, <2>2 DEF MessageOK
  <2>4. AppOK(app') /\ app'.synced = app.synced
    BY <2>1, <2>3, RowOK
  <2> QED
    BY <2>1, <2>2, <2>4
<1>9. CASE ReceivePage
  <2>1. /\ down # <<>> /\ Head(down).kind = "page" /\ down' = Tail(down)
        /\ UNCHANGED <<daemon, online, faults>>
    BY <1>9 DEF ReceivePage, Receive
  <2>2. /\ down' \in Seq(Messages) /\ WireOK(down', app.synced)
        /\ MessageOK(Head(down), app.synced)
    BY <2>1, WireHead
  <2>3. PICK t \in Timelines : Head(down).page = Page(Head(down).request, t)
    BY <2>1, <2>2 DEF MessageOK
  <2>4. PICK i \in DOMAIN app.calls :
          /\ app.calls[i].request = Head(down).request
          /\ app' = Deliver(app, i, Head(down).page)
    BY <1>9 DEF ReceivePage
  <2>5. AppOK(app') /\ (app.synced => app'.synced)
    BY <2>3, <2>4, DeliverOK
  <2>6. WireOK(down', app'.synced)
    BY <2>2, <2>5, WireAnyway
  <2> QED
    BY <2>1, <2>2, <2>5, <2>6
<1>10. CASE ReceiveReplacement
  <2>1. /\ down # <<>> /\ Head(down).kind = "replacement" /\ down' = Tail(down)
        /\ app' = Ask(app, Newest, Caller("replacement", FALSE, FALSE, Newest))
        /\ UNCHANGED <<daemon, online, faults>>
    BY <1>10 DEF ReceiveReplacement, Receive
  <2>2. /\ down' \in Seq(Messages) /\ WireOK(down', app.synced)
        /\ MessageOK(Head(down), app.synced)
    BY <2>1, WireHead
  <2>3. app.synced
    BY <2>1, <2>2 DEF MessageOK
  <2>4. Newest \in Requests /\ Caller("replacement", FALSE, FALSE, Newest) \in Callers
    BY RequestsAre, CallerTyped
  <2>5. AppOK(app') /\ app'.synced
    BY <2>1, <2>3, <2>4, AskOK
  <2>6. WireOK(down', app'.synced)
    BY <2>2, <2>5, WireAnyway
  <2> QED
    BY <2>1, <2>2, <2>5, <2>6
<1>11. CASE ReceiveSubscribed
  <2>1. /\ down # <<>> /\ down' = Tail(down)
        /\ app' = StartOwed([app EXCEPT !.subscribed = TRUE])
        /\ UNCHANGED <<daemon, online, faults>>
    BY <1>11 DEF ReceiveSubscribed, Receive
  <2>2. down' \in Seq(Messages) /\ WireOK(down', app.synced)
    BY <2>1, WireHead
  <2>3. AppOK(app') /\ app'.synced = app.synced
    BY <2>1, SubscribedOK
  <2> QED
    BY <2>1, <2>2, <2>3
<1>12. CASE Flush
  <2>1. app' = FlushFrame(app) /\ UNCHANGED <<daemon, online, down, faults>>
    BY <1>12 DEF Flush
  <2>2. AppOK(app') /\ app'.synced = app.synced
    BY <2>1, FlushOK
  <2> QED
    BY <2>1, <2>2
<1>13. CASE Retry
  <2>1. app' = StartCatchUp(app, None, FALSE) /\ UNCHANGED <<daemon, online, down, faults>>
    BY <1>13 DEF Retry
  <2>2. AppOK(app') /\ app'.synced = app.synced
    BY <2>1, StartOK
  <2> QED
    BY <2>1, <2>2
<1>14. CASE RetryPressed
  <2>1. /\ app' = StartCatchUp(app, app.catchUp.request, TRUE)
        /\ UNCHANGED <<daemon, online, down, faults>>
        /\ app.synced /\ InCatchUp(app, "error")
    BY <1>14, <1>21 DEF RetryPressed
  <2>2. app.catchUp.request \in Requests
    BY <1>0, <2>1, StatusOfCatchUp DEF CatchUps
  <2>3. AppOK(app') /\ app'.synced = app.synced
    BY <2>1, <2>2, StartOK
  <2> QED
    BY <2>1, <2>3
<1>15. CASE Wake
  <2>1. /\ app' = StartCatchUp(app, None, TRUE) /\ UNCHANGED <<daemon, online, down>>
        /\ faults' = faults + 1 /\ faults < MaxFaults
    BY <1>15 DEF Wake
  <2>2. AppOK(app') /\ app'.synced = app.synced
    BY <2>1, StartOK
  <2> QED
    BY <1>20, <2>1, <2>2
<1>16. CASE LoadOlder
  <2>1. /\ app' = Ask(app, Before(app.range), Caller("older", FALSE, FALSE, Before(app.range)))
        /\ UNCHANGED <<daemon, online, down, faults>>
        /\ app.synced /\ app.range # None
    BY <1>16 DEF LoadOlder
  <2>2. Before(app.range) \in Requests
    BY <1>0, <2>1, RequestsAre DEF Apps
  <2>3. Caller("older", FALSE, FALSE, Before(app.range)) \in Callers
    BY <2>2, CallerTyped
  <2>4. AppOK(app') /\ app'.synced
    BY <2>1, <2>2, <2>3, AskOK
  <2>5. WireOK(down', app'.synced)
    BY <2>1, <2>4, WireAnyway
  <2> QED
    BY <2>1, <2>4, <2>5
<1>17. CASE UNCHANGED vars
  BY <1>17 DEF vars
<1> QED
  BY <1>1, <1>2, <1>3, <1>4, <1>5, <1>6, <1>7, <1>8, <1>9, <1>10, <1>11, <1>12, <1>13, <1>14,
     <1>15, <1>16, <1>17 DEF Next

LEMMA TransferMeans ==
  ASSUME TransferInv
  PROVE  TypeOK /\ OlderIsOffered
<1>1. TypeOK
  BY DEF TransferInv, TypeOK, AppOK, Ready
<1>2. ASSUME Settled, app.range # None, app.range.first > 1
      PROVE  app.older
  <2>1. app \in Apps /\ Offers(app) /\ (app.synced \/ Loading(app))
    BY DEF TransferInv, AppOK, Ready
  <2>2. app.calls = <<>> /\ InCatchUp(app, "complete")
    BY <1>2 DEF Settled
  <2>3. ~Loading(app)
    <3>1. ~Idle(app)
      BY <2>2, IdleFacts
    <3>2. ~\E call \in Calls, caller \in Callers : Fetching(app, call, caller)
      BY <2>1, <2>2, FetchingFacts
    <3> QED
      BY <3>1, <3>2 DEF Loading
  <2> QED
    BY <1>2, <2>1, <2>3 DEF Offers, Held
<1> QED
  BY <1>1, <1>2 DEF OlderIsOffered

\* Whatever is fetched, streamed, lost or retried, rows, cursors, requests and flags
\* keep their types, and between two steps no caller of an answer is left waiting.
THEOREM TimelineTypes ==
  ASSUME Cases \subseteq Undisturbed
  PROVE  Spec => []TypeOK
<1>1. Init => TransferInv
  BY TransferInit
<1>2. TransferInv /\ [Next]_vars => TransferInv'
  BY TransferStep
<1>3. TransferInv => TypeOK
  BY TransferMeans
<1> QED
  BY <1>1, <1>2, <1>3, PTL DEF Spec

\* A settled chat whose range does not begin with the first row offers to load
\* more, whichever pages replaced, extended or preceded that range
\* (applyTimelineReplacePath and acceptOlderTimelineUnits keep the flag apart from
\* the range).  The three circumstances it needs to be absent are an empty
\* timeline, a rewind before the first load is complete and a press of retry
\* after a failed first load.
THEOREM OlderRowsAreOffered ==
  ASSUME Cases \subseteq Undisturbed
  PROVE  Spec => []OlderIsOffered
<1>1. Init => TransferInv
  BY TransferInit
<1>2. TransferInv /\ [Next]_vars => TransferInv'
  BY TransferStep
<1>3. TransferInv => OlderIsOffered
  BY TransferMeans
<1> QED
  BY <1>1, <1>2, <1>3, PTL DEF Spec
=============================================================================
