---------------------------- MODULE TimelineSync ----------------------------
(***************************************************************************)
(* How an app keeps the transcript of one open chat current.  The daemon   *)
(* numbers the rows of an agent's timeline within an epoch; a rewind, or a *)
(* restart that reads the provider's history again, starts a new epoch.    *)
(* Rows are streamed to subscribed apps as they are recorded; pages are    *)
(* fetched: the tail, the rows after a cursor, the rows before one.  The   *)
(* app holds one contiguous range of rows and decides for every row and    *)
(* every page whether it extends the range, replaces it or is dropped.     *)
(*                                                                         *)
(* Abstracted: a row is its position, and a shown item that is updated,    *)
(* merged or echoed is the set of its rows; jumps to a prompt, which merge *)
(* a detached window, and locally submitted prompts are left out.  The     *)
(* chat stays open and visible and its cache is loaded before the app      *)
(* connects; the 65 s watchdog of a first load never fires before the      *)
(* fetch it guards has failed; subscribing itself does not fail.           *)
(***************************************************************************)
EXTENDS Integers, FiniteSets, SequencesExt

CONSTANTS
  None,           \* no range, cursor, request or catch-up
  PageSize,       \* rows of one page
  MaxRow,         \* bound: rows of one epoch
  MaxEpoch,       \* bound: rewinds and daemon restarts, plus one
  MaxFaults,      \* bound: lost connections, failed fetches and returns of
                  \* the app from the background
  Cases           \* which rare circumstances may arise, see Circumstances

(* A timeline without rows; a rewind that a chat hears of before its first *)
(* load is complete; a failing fetch of the tail that follows a rewind; a  *)
(* press of retry after a failed first load; answers out of order.         *)
Circumstances ==
  {"empty", "early rewind", "lost replacement", "early retry", "answers overtake"}

ASSUME TimelineAssumption ==
  /\ PageSize \in Nat \ {0} /\ MaxRow \in Nat \ {0} /\ MaxEpoch \in Nat \ {0}
  /\ MaxFaults \in Nat
  /\ Cases \subseteq Circumstances

(* None is no range, request, catch-up or direction.                       *)
ASSUME NoneAssumption ==
  /\ None \notin [epoch : Nat, first : Nat, last : Nat]
  /\ None \notin [dir : {"tail", "after", "before"}, epoch : Nat, seq : Nat]
  /\ None \notin [status : {"running", "complete", "error"},
                  request : [dir : {"tail", "after", "before"}, epoch : Nat, seq : Nat]]
  /\ None \notin {"tail", "after", "before"}

VARIABLES
  daemon, \* the timeline store: epoch, last row, and whether the app subscribed
  online, \* the connection
  down,   \* messages on their way to the app, in order
  app,    \* the app's session store, fetches and catch-up, see TypeOK
  faults  \* lost connections, failed fetches and wakes so far
vars == <<daemon, online, down, app, faults>>

Row(epoch, seq) == [epoch |-> epoch, seq |-> seq]
Span(epoch, first, last) == [epoch |-> epoch, first |-> first, last |-> last]
RowsOf(span) == {Row(span.epoch, seq) : seq \in span.first .. span.last}
Shows(range) == IF range = None THEN {} ELSE RowsOf(range)

(* Requests: planTimelineTailFetch, planTimelineCatchUpAfter,              *)
(* planTimelineOlderFetch, planTimelineResumeFetch.                        *)
Newest == [dir |-> "tail", epoch |-> 0, seq |-> 0]
After(epoch, seq) == [dir |-> "after", epoch |-> epoch, seq |-> seq]
Before(range) == [dir |-> "before", epoch |-> range.epoch, seq |-> range.first]
Held(a) == IF a.synced THEN a.range ELSE a.cached
Resume(a) == IF Held(a) = None THEN Newest ELSE After(Held(a).epoch, Held(a).last)

-----------------------------------------------------------------------------
(* A timeline's page for a request.  A cursor of another epoch is answered *)
(* with the tail, marked as a reset.  An empty page has last < first.      *)
Page(request, timeline) ==
  LET stale == request.dir # "tail" /\ request.epoch # timeline.epoch
      dir   == IF stale THEN "tail" ELSE request.dir
      last  == CASE dir = "tail"   -> timeline.head
                 [] dir = "after"  -> Min({timeline.head, request.seq + PageSize})
                 [] dir = "before" -> Min({timeline.head, request.seq - 1})
      first == IF dir = "after" THEN request.seq + 1
               ELSE Max({1, last - PageSize + 1})
  IN [dir |-> request.dir, reset |-> stale, epoch |-> timeline.epoch,
      first |-> first, last |-> last, head |-> timeline.head,
      older |-> first > 1,
      newer |-> dir = "after" /\ first <= last /\ last < timeline.head]
Empty(page) == page.last < page.first

-----------------------------------------------------------------------------
(* Fetches, in the order they were sent.  Identical requests in flight     *)
(* share one answer.                                                       *)
Caller(kind, overflow, init, request) ==
  [kind |-> kind, owned |-> TRUE, overflow |-> overflow, init |-> init,
   request |-> request]

Joined(call, caller) == [call EXCEPT !.callers = Append(@, caller)]
Ask(a, request, caller) ==
  LET same == {i \in DOMAIN a.calls : a.calls[i].request = request}
  IN IF same = {}
     THEN [a EXCEPT !.calls =
             Append(@, [request |-> request, callers |-> <<caller>>, answered |-> FALSE])]
     ELSE [a EXCEPT !.calls = [i \in DOMAIN a.calls |->
             IF i \in same THEN Joined(a.calls[i], caller) ELSE a.calls[i]]]

(* A page fetched for the catch-up; the first load of a chat is also an    *)
(* initialization, remembered by its direction.                            *)
FetchPage(a, request, overflow) ==
  Ask(IF a.synced THEN a
      ELSE [a EXCEPT !.initializing = TRUE,
                     !.init = IF @ = None THEN request.dir ELSE @],
      request, Caller("page", overflow, ~a.synced, request))

FetchLatest(a, request) ==
  Ask([a EXCEPT !.forced = TRUE], Newest, Caller("latest", FALSE, FALSE, request))

(* The generation of the superseded catch-up is no longer the current one. *)
Disowned(callers) == [i \in DOMAIN callers |-> [callers[i] EXCEPT !.owned = FALSE]]
Superseded(call) == [call EXCEPT !.callers = Disowned(@)]
Disown(a) ==
  [a EXCEPT !.calls = [i \in DOMAIN a.calls |-> Superseded(a.calls[i])],
            !.settling = Disowned(@)]

InCatchUp(a, status) == a.catchUp # None /\ a.catchUp.status = status

(* startCatchUp with decideCatchUp: kept, parked behind a running tail, or *)
(* replaced.                                                               *)
StartCatchUp(a, request, supersede) ==
  LET next  == IF request = None THEN Resume(a) ELSE request
      keep  == IF supersede THEN InCatchUp(a, "running") /\ a.catchUp.request = next
               ELSE InCatchUp(a, "running") \/ InCatchUp(a, "complete")
      park  == supersede /\ InCatchUp(a, "running") /\ a.catchUp.request.dir = "tail"
  IN CASE ~a.subscribed -> [a EXCEPT !.owed = IF request = None THEN @ ELSE request]
       [] a.subscribed /\ keep -> a
       [] a.subscribed /\ ~keep /\ park -> [a EXCEPT !.owed = next]
       [] OTHER ->
            FetchPage([Disown(a) EXCEPT !.owed = None,
                         !.catchUp = [status |-> "running", request |-> next]],
                      next, request = None /\ next.dir = "after")

RecoverGap(a, cursor) == StartCatchUp(a, After(cursor.epoch, cursor.last), TRUE)

RecoverGaps(a, gaps) ==
  LET after[i \in 0 .. Len(gaps)] ==
        IF i = 0 THEN a ELSE RecoverGap(after[i - 1], gaps[i])
  IN after[Len(gaps)]

StartOwed(a) ==
  IF a.subscribed /\ (a.catchUp = None \/ (InCatchUp(a, "complete") /\ a.owed # None))
  THEN StartCatchUp(a, a.owed, a.owed # None)
  ELSE a

-----------------------------------------------------------------------------
(* Streamed rows are applied a frame at a time.  A synchronized app takes  *)
(* the first row, the next row, or row 1 of a new epoch; a row beyond the  *)
(* next one is a gap.  An app that is not yet synchronized shows every row *)
(* and certifies none; one that knows of newer rows waits for its pages.   *)
ReadRow(read, row) ==
  LET cur  == read.range
      alone == Span(row.epoch, row.seq, row.seq)
  IN CASE cur = None ->
            [read EXCEPT !.range = alone, !.shown = @ \cup {row}]
       [] cur # None /\ cur.epoch # row.epoch ->
            IF row.seq = 1 THEN [read EXCEPT !.range = alone, !.shown = {row}] ELSE read
       [] cur # None /\ cur.epoch = row.epoch /\ row.seq <= cur.last -> read
       [] cur # None /\ cur.epoch = row.epoch /\ row.seq = cur.last + 1 ->
            [read EXCEPT !.range.last = row.seq, !.shown = @ \cup {row}]
       [] OTHER -> [read EXCEPT !.gaps = Append(@, cur)]

ReadRows(a) ==
  LET after[i \in 0 .. Len(a.frame)] ==
        IF i = 0 THEN [range |-> a.range, shown |-> a.shown, gaps |-> <<>>]
        ELSE ReadRow(after[i - 1], a.frame[i])
  IN after[Len(a.frame)]

FlushFrame(a) ==
  LET kept == [a EXCEPT !.frame = <<>>]
      read == ReadRows(a)
      replayed == a.range # None /\ Last(a.frame) \in RowsOf(a.range)
  IN CASE a.frame = <<>> \/ (a.synced /\ a.newer) -> kept
       [] a.frame # <<>> /\ ~a.synced -> [kept EXCEPT !.shown = @ \cup ToSet(a.frame)]
       [] OTHER ->
            RecoverGaps([kept EXCEPT !.shown = read.shown,
                                     !.range = IF replayed THEN @ ELSE read.range],
                        read.gaps)

-----------------------------------------------------------------------------
(* applyAuthoritativeTimelineResponse: what a page does to the store.      *)

(* deriveResumeTailPolicy, for a tail page that is no reset and no first   *)
(* load.                                                                   *)
ResumePolicy(page, cur) ==
  CASE cur.epoch # page.epoch -> "replace"
    [] cur.epoch = page.epoch /\ page.head = cur.last -> "discard"
    [] cur.epoch = page.epoch /\ page.head < cur.last -> "replace"
    [] cur.epoch = page.epoch /\ page.head > cur.last
         /\ ~Empty(page) /\ page.first <= cur.last + 1 -> "append"
    [] OTHER -> "replaceKeeping"

(* A plausible slip: a replaced range keeps the flag of the earlier one.   *)
Replace_KeepsOlder(a, page, keeping) ==
  LET beyond == {r \in a.shown : r.epoch = page.epoch /\ (Empty(page) \/ r.seq > page.last)}
  IN [a EXCEPT !.shown = RowsOf(page) \cup (IF keeping THEN beyond ELSE {}),
               !.range = IF Empty(page) THEN None
                         ELSE Span(page.epoch, page.first, page.last)]

(* applyTimelineReplacePath: positioned live rows beyond the page survive  *)
(* when the history is continuous.                                         *)
Replace(a, page, keeping) ==
  LET beyond == {r \in a.shown : r.epoch = page.epoch /\ (Empty(page) \/ r.seq > page.last)}
  IN [a EXCEPT !.shown = RowsOf(page) \cup (IF keeping THEN beyond ELSE {}),
               !.range = IF Empty(page) THEN None
                         ELSE Span(page.epoch, page.first, page.last),
               !.older = page.older]

(* acceptIncrementalTimelineUnits, for the rows above the held ones.       *)
Extend(a, page, cur) ==
  LET fits == /\ ~Empty(page)
              /\ \/ cur = None
                 \/ /\ cur.epoch = page.epoch
                    /\ page.last > cur.last /\ page.first <= cur.last + 1
  IN [a EXCEPT !.shown = IF fits THEN @ \cup RowsOf(page) ELSE @,
               !.range = CASE ~fits -> cur
                           [] fits /\ cur = None -> Span(page.epoch, page.first, page.last)
                           [] OTHER -> [cur EXCEPT !.last = page.last]]

(* acceptOlderTimelineUnits: only a page that ends where the range begins. *)
Prepend(a, page, cur) ==
  IF cur # None /\ cur.epoch = page.epoch /\ ~Empty(page) /\ page.last = cur.first - 1
  THEN [a EXCEPT !.shown = @ \cup RowsOf(page), !.range.first = page.first,
                 !.older = page.older]
  ELSE a

(* The first load ends with a page of its own direction, or with a reset.  *)
FinishInit(a, page) ==
  LET complete == page.dir # "after" \/ ~page.newer
      resolves == /\ a.init # None /\ a.initializing
                  /\ page.reset \/ (complete /\ page.dir = a.init)
  IN [a EXCEPT !.init = IF resolves THEN None ELSE @,
               !.initializing = @ /\ ~(complete /\ (resolves \/ a.init = None))]

(* A tail fetched to take over counts as a reset.                          *)
AsForced(a, page) ==
  IF page.dir = "tail" /\ a.forced THEN [page EXCEPT !.reset = TRUE] ELSE page

FirstLoad(a, page) == page.dir = "tail" /\ a.initializing /\ a.init # None

Policy(a, page) ==
  IF page.reset \/ FirstLoad(a, page) \/ page.dir # "tail" \/ Held(a) = None
  THEN "no" ELSE ResumePolicy(page, Held(a))

Gap(a, page) ==
  /\ page.dir = "after" /\ ~page.reset /\ ~Empty(page)
  /\ Held(a) # None /\ Held(a).epoch = page.epoch /\ page.first > Held(a).last + 1

(* What the page does to rows, range and flags.                            *)
Moved(a, page) ==
  LET cur    == Held(a)
      policy == Policy(a, page)
      base   == [a EXCEPT !.forced = @ /\ page.dir # "tail",
                          !.newer = IF page.dir = "before" THEN a.synced /\ @ ELSE page.newer]
      held   == [base EXCEPT !.range = cur]
  IN CASE policy = "discard" -> base
       [] policy \in {"replace", "replaceKeeping"} ->
            Replace(base, page, policy = "replaceKeeping")
       [] page.reset \/ FirstLoad(a, page) ->
            Replace(base, page, ~page.reset \/ (cur # None /\ cur.epoch = page.epoch))
       [] ~page.reset /\ page.dir = "before" -> Prepend(held, page, cur)
       [] OTHER -> Extend(held, page, cur)

(* Whether the app is synchronized by it.                                  *)
Synchronizes(a, page) ==
  /\ Policy(a, page) # "discard" /\ page.dir # "before"
  /\ page.dir = "tail" \/ ~page.newer

Taken(a, page) ==
  LET moved == Moved(a, page)
      done  == Synchronizes(a, page)
  IN FinishInit([moved EXCEPT !.synced = @ \/ done,
                              !.cached = IF moved.synced \/ done THEN None ELSE @], page)

ApplyPage(a, received) ==
  LET page == AsForced(a, received)
      next == Taken(a, page)
  IN CASE FirstLoad(a, page) /\ ~page.reset /\ ~Empty(page) ->
            RecoverGap(next, Span(page.epoch, page.first, page.last))
       [] Gap(a, page) -> RecoverGap(next, Held(a))
       [] OTHER -> next

-----------------------------------------------------------------------------
(* What the callers of a fetch do with its outcome.                        *)

(* fetchUntilCurrent, after a page: the next page, the latest tail when a  *)
(* resume overflows one page, or the end of the catch-up.                  *)
Settle(a, caller, page) ==
  LET owns == caller.owned /\ a.subscribed
      done == [a EXCEPT !.catchUp.status = "complete"]
  IN CASE caller.kind = "page" /\ owns /\ page.newer ->
            IF caller.overflow THEN FetchLatest(a, caller.request)
            ELSE FetchPage(a, After(page.epoch, page.last), FALSE)
       [] caller.kind = "page" /\ owns /\ ~page.newer ->
            StartOwed(IF a.owed = None THEN done ELSE StartCatchUp(done, a.owed, TRUE))
       [] caller.kind = "page" /\ ~owns -> StartOwed(a)
       [] caller.kind = "latest" ->
            StartOwed([(IF owns THEN done ELSE a) EXCEPT !.forced = FALSE])
       [] OTHER -> a

(* A plausible slip: a failed fetch leaves its catch-up running.           *)
Abandon_Silently(a, caller) ==
  CASE caller.kind = "page" /\ caller.init ->
         StartOwed([a EXCEPT !.init = None, !.initializing = FALSE])
    [] caller.kind = "latest" -> StartOwed([a EXCEPT !.forced = FALSE])
    [] OTHER -> StartOwed(a)

Abandon(a, caller) ==
  LET failed == IF caller.owned
                THEN [a EXCEPT !.catchUp = [status |-> "error", request |-> caller.request]]
                ELSE a
  IN CASE caller.kind = "page" /\ caller.init ->
            StartOwed([failed EXCEPT !.init = None, !.initializing = FALSE])
       [] caller.kind = "page" /\ ~caller.init -> StartOwed(failed)
       [] caller.kind = "latest" -> StartOwed([failed EXCEPT !.forced = FALSE])
       [] OTHER -> a

(* The callers of one answer apply its page in turn, then each goes on     *)
(* with its own work; one that is superseded on the way no longer owns.    *)
Waiting(a, i) ==
  [a EXCEPT !.calls = RemoveAt(@, i), !.settling = a.calls[i].callers]

ApplyForEach(a, page) ==
  LET after[i \in 0 .. Len(a.settling)] ==
        IF i = 0 THEN a ELSE ApplyPage(FlushFrame(after[i - 1]), page)
  IN after[Len(a.settling)]

SettleEach(a, page) ==
  LET after[i \in 0 .. Len(a.settling)] ==
        IF i = 0 THEN a ELSE Settle(after[i - 1], after[i - 1].settling[i], page)
  IN after[Len(a.settling)]

AbandonEach(a) ==
  LET after[i \in 0 .. Len(a.settling)] ==
        IF i = 0 THEN a ELSE Abandon(after[i - 1], after[i - 1].settling[i])
  IN after[Len(a.settling)]

Deliver(a, i, page) ==
  [SettleEach(ApplyForEach(Waiting(a, i), page), page) EXCEPT !.settling = <<>>]

Reject(a, i) == [AbandonEach(Waiting(a, i)) EXCEPT !.settling = <<>>]

-----------------------------------------------------------------------------
(* The daemon.                                                             *)
Message(kind, row, request, page) ==
  [kind |-> kind, row |-> row, request |-> request, page |-> page]
Streamed(message) == IF daemon.subscribed THEN Append(down, message) ELSE down

(* The store appends a row and every subscriber of the agent is sent it.   *)
RecordRow ==
  /\ daemon.head < MaxRow
  /\ daemon' = [daemon EXCEPT !.head = @ + 1]
  /\ down' = Streamed(Message("row", Row(daemon.epoch, daemon.head + 1), None, None))
  /\ UNCHANGED <<online, app, faults>>

(* A rewind replaces the timeline by the provider's shorter history and    *)
(* tells the subscribers.                                                  *)
Rewind ==
  /\ daemon.epoch < MaxEpoch
  /\ "early rewind" \in Cases \/ app.synced \/ ~daemon.subscribed
  /\ \E n \in (IF "empty" \in Cases THEN 0 ELSE 1) .. daemon.head :
       daemon' = [daemon EXCEPT !.epoch = @ + 1, !.head = n]
  /\ down' = Streamed(Message("replacement", None, None, None))
  /\ UNCHANGED <<online, app, faults>>

Subscribe ==
  /\ online /\ ~daemon.subscribed
  /\ daemon' = [daemon EXCEPT !.subscribed = TRUE]
  /\ down' = Append(down, Message("subscribed", None, None, None))
  /\ UNCHANGED <<online, app, faults>>

(* A request is answered once the agent is loaded; requests are usually    *)
(* answered in order, but nothing holds the later one back.                *)
Answer ==
  \E i \in DOMAIN app.calls :
    LET call == app.calls[i]
    IN
    /\ ~call.answered
    /\ "answers overtake" \in Cases \/ \A j \in 1 .. i - 1 : app.calls[j].answered
    /\ app' = [app EXCEPT !.calls[i].answered = TRUE]
    /\ down' = Append(down, Message("page", None, call.request, Page(call.request, daemon)))
    /\ UNCHANGED <<daemon, online, faults>>

-----------------------------------------------------------------------------
(* The connection.                                                         *)

(* A plausible slip: what was complete before the connection was lost is   *)
(* taken to be complete after it.                                          *)
Disconnected_StillComplete(a) ==
  [a EXCEPT !.subscribed = FALSE, !.owed = None, !.calls = <<>>,
            !.catchUp = IF InCatchUp(a, "complete") THEN @ ELSE None,
            !.initializing = FALSE, !.init = None, !.forced = FALSE]

(* A lost connection fails the pending fetches and cancels the catch-up;   *)
(* the first-load marks of those fetches go with them.                     *)
Disconnected(a) ==
  LET pending(kind) == {c \in UNION {ToSet(call.callers) : call \in ToSet(a.calls)} : c.kind = kind}
  IN [a EXCEPT !.subscribed = FALSE, !.catchUp = None, !.owed = None, !.calls = <<>>,
               !.initializing = FALSE,
               !.init = IF \E c \in pending("page") : c.init THEN None ELSE @,
               !.forced = @ /\ pending("latest") = {}]

Drop ==
  /\ online /\ faults < MaxFaults
  /\ \E restarted \in BOOLEAN :
       /\ restarted => daemon.epoch < MaxEpoch
       /\ daemon' = [daemon EXCEPT !.subscribed = FALSE,
                       !.epoch = IF restarted THEN @ + 1 ELSE @]
  /\ online' = FALSE
  /\ down' = <<>>
  /\ app' = Disconnected(app)
  /\ faults' = faults + 1

Connect ==
  /\ ~online
  /\ online' = TRUE
  /\ UNCHANGED <<daemon, down, app, faults>>

(* A fetch fails or times out; an answer that is under way comes too late. *)
Fail ==
  /\ faults < MaxFaults
  /\ \E i \in DOMAIN app.calls :
       LET call == app.calls[i]
       IN
       /\ "lost replacement" \in Cases \/ \A c \in ToSet(call.callers) : c.kind # "replacement"
       /\ app' = Reject(app, i)
       /\ IF call.answered
          THEN \E j \in DOMAIN down : down[j].request = call.request /\ down' = RemoveAt(down, j)
          ELSE UNCHANGED down
  /\ faults' = faults + 1
  /\ UNCHANGED <<daemon, online>>

-----------------------------------------------------------------------------
(* The app.                                                                *)
Receive(kind) == down # <<>> /\ Head(down).kind = kind /\ down' = Tail(down)

ReceiveRow ==
  /\ Receive("row")
  /\ app' = [app EXCEPT !.frame = Append(@, Head(down).row)]
  /\ UNCHANGED <<daemon, online, faults>>

ReceivePage ==
  /\ Receive("page")
  /\ \E i \in DOMAIN app.calls :
       /\ app.calls[i].request = Head(down).request
       /\ app' = Deliver(app, i, Head(down).page)
  /\ UNCHANGED <<daemon, online, faults>>

ReceiveReplacement ==
  /\ Receive("replacement")
  /\ app' = Ask(app, Newest, Caller("replacement", FALSE, FALSE, Newest))
  /\ UNCHANGED <<daemon, online, faults>>

ReceiveSubscribed ==
  /\ Receive("subscribed")
  /\ app' = StartOwed([app EXCEPT !.subscribed = TRUE])
  /\ UNCHANGED <<daemon, online, faults>>

Flush ==
  /\ app.frame # <<>>
  /\ app' = FlushFrame(app)
  /\ UNCHANGED <<daemon, online, down, faults>>

(* The timer of a failed catch-up starts over from what is held; a press   *)
(* of retry repeats the failed request.                                    *)
Retry ==
  /\ InCatchUp(app, "error")
  /\ app' = StartCatchUp(app, None, FALSE)
  /\ UNCHANGED <<daemon, online, down, faults>>

RetryPressed ==
  /\ InCatchUp(app, "error")
  /\ "early retry" \in Cases \/ app.synced
  /\ app' = StartCatchUp(app, app.catchUp.request, TRUE)
  /\ UNCHANGED <<daemon, online, down, faults>>

Wake ==
  /\ faults < MaxFaults
  /\ app' = StartCatchUp(app, None, TRUE)
  /\ faults' = faults + 1
  /\ UNCHANGED <<daemon, online, down>>

LoadOlder ==
  /\ online /\ app.synced /\ app.range # None /\ app.older
  /\ ~\E call \in ToSet(app.calls) : \E c \in ToSet(call.callers) : c.kind = "older"
  /\ app' = Ask(app, Before(app.range), Caller("older", FALSE, FALSE, Before(app.range)))
  /\ UNCHANGED <<daemon, online, down, faults>>

-----------------------------------------------------------------------------
(* The app opens with nothing, with rows it can only show, or with a       *)
(* cached range; the timeline may have been replaced since.                *)
Opened(shown, cached) ==
  [synced |-> FALSE, shown |-> shown, range |-> cached, cached |-> cached,
   older |-> cached # None /\ cached.first > 1, newer |-> FALSE,
   init |-> None, initializing |-> FALSE, forced |-> FALSE, frame |-> <<>>,
   subscribed |-> FALSE, catchUp |-> None, owed |-> None, calls |-> <<>>,
   settling |-> <<>>]

Init ==
  /\ \E epoch \in 1 .. Min({2, MaxEpoch}),
        head \in (IF "empty" \in Cases THEN 0 ELSE 1) .. MaxRow :
       /\ daemon = [epoch |-> epoch, head |-> head, subscribed |-> FALSE]
       /\ \/ app = Opened({}, None)
          \/ \E last \in 1 .. MaxRow, display \in BOOLEAN :
               \E first \in 1 .. last :
                 /\ epoch = 1 => last <= head
                 /\ app = Opened(RowsOf(Span(1, first, last)),
                                 IF display THEN None ELSE Span(1, first, last))
  /\ online = FALSE
  /\ down = <<>>
  /\ faults = 0

Next ==
  \/ RecordRow \/ Rewind \/ Subscribe \/ Answer
  \/ Drop \/ Connect \/ Fail
  \/ ReceiveRow \/ ReceivePage \/ ReceiveReplacement \/ ReceiveSubscribed
  \/ Flush \/ Retry \/ RetryPressed \/ Wake \/ LoadOlder

(* The connection is made again, messages arrive, the daemon answers, and  *)
(* the app's timers (the frame, the retry) fire.  Where the step is long,  *)
(* its enabling condition is written out.                                  *)
Receiving == ReceiveRow \/ ReceivePage \/ ReceiveReplacement \/ ReceiveSubscribed
Fairness ==
  /\ WF_vars(Connect) /\ WF_vars(Subscribe) /\ WF_vars(Answer)
  /\ <>[](down # <<>>) => []<><<Receiving>>_vars
  /\ <>[](app.frame # <<>>) => []<><<Flush>>_vars
  /\ <>[]InCatchUp(app, "error") => []<><<Retry>>_vars

Spec == Init /\ [][Next]_vars /\ Fairness

-----------------------------------------------------------------------------
Rows == [epoch : Nat, seq : Nat]
Spans == [epoch : Nat, first : Nat, last : Nat]
Directions == {"tail", "after", "before"}
Requests == [dir : Directions, epoch : Nat, seq : Nat]
Pages == [dir : Directions, reset : BOOLEAN, epoch : Nat, first : Nat, last : Int,
          head : Nat, older : BOOLEAN, newer : BOOLEAN]
Callers == [kind : {"page", "latest", "replacement", "older"}, owned : BOOLEAN,
            overflow : BOOLEAN, init : BOOLEAN, request : Requests]
Calls == [request : Requests, callers : Seq(Callers), answered : BOOLEAN]
CatchUps == [status : {"running", "complete", "error"}, request : Requests]
Apps == [synced : BOOLEAN, shown : SUBSET Rows, range : Spans \cup {None},
         cached : Spans \cup {None}, older : BOOLEAN, newer : BOOLEAN,
         init : Directions \cup {None}, initializing : BOOLEAN, forced : BOOLEAN,
         frame : Seq(Rows), subscribed : BOOLEAN, catchUp : CatchUps \cup {None},
         owed : Requests \cup {None}, calls : Seq(Calls), settling : Seq(Callers)]
Messages == [kind : {"row", "page", "replacement", "subscribed"}, row : Rows \cup {None},
             request : Requests \cup {None}, page : Pages \cup {None}]

TypeOK ==
  /\ daemon \in [epoch : Nat \ {0}, head : Nat, subscribed : BOOLEAN]
  /\ online \in BOOLEAN
  /\ down \in Seq(Messages)
  /\ app \in Apps /\ app.settling = <<>>
  /\ faults \in 0 .. MaxFaults

(* Everything the daemon owes the app has been delivered and applied, and  *)
(* the app reports the chat as current.                                    *)
Settled ==
  /\ app.subscribed /\ down = <<>> /\ app.frame = <<>>
  /\ app.calls = <<>> /\ InCatchUp(app, "complete")

(* Once settled, the app shows one contiguous piece of the daemon's        *)
(* current timeline, up to its last row, and nothing of an earlier epoch   *)
(* (docs/timeline-sync.md: opening or resuming establishes the daemon's    *)
(* current tail).                                                          *)
SettledIsCurrent ==
  Settled =>
    /\ app.synced /\ ~app.newer
    /\ IF daemon.head = 0 THEN app.range = None
       ELSE /\ app.range # None
            /\ app.range.epoch = daemon.epoch /\ app.range.last = daemon.head
    /\ app.shown = Shows(app.range)

(* Older history stays reachable: a settled range that does not begin with *)
(* the first row offers to load more.                                      *)
OlderIsOffered == Settled /\ app.range # None /\ app.range.first > 1 => app.older

(* After the last fault and the last row, the app becomes current.         *)
CatchesUp == []<>Settled
=============================================================================
