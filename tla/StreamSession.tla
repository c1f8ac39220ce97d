--------------------------- MODULE StreamSession ---------------------------
(***************************************************************************)
(* frame-streamer/src/stream.rs: StreamSession and the StreamDriver that   *)
(* polls it, for several sessions that share one FrameBudget.              *)
(*                                                                         *)
(* A session turns a sequence of objects into the frames of a request, in  *)
(* order.  It plans objects ahead of the reader, authorises frames for     *)
(* download front to back within its share of the budget, polls all the    *)
(* downloads, and hands the front object's frames to a sink.               *)
(*                                                                         *)
(* One poll of the driver is the sequence Refresh, Grow, Queue, Fill, and  *)
(* Emit, or Close or Linger, of actions: polls of different sessions run   *)
(* on different threads and meet in the budget only, so the cut is at the  *)
(* semaphore operations.                                                   *)
(* Wakers are modelled: a session at rest is polled again only after a     *)
(* future it polled and found pending has become ready, or it woke itself. *)
(*                                                                         *)
(* Behind, KeepShareOnly, PollDownloadsOnce and SpentEarly are not part of *)
(* the specification: each is a defective variant of a definition below    *)
(* it, and shows that a property notices the defect.                       *)
(***************************************************************************)
EXTENDS FrameBudget, FiniteSets

CONSTANTS
  Session,     \* the sessions that are ever created
  Jobs,        \* [Session -> set of jobs it may be created for]
  Capacity,    \* frames in the budget
  Prefetch,    \* [1..Capacity -> Nat]: frames of URL prefetch for a window
  Faulty,      \* the sessions whose peers may fail, or that may be cancelled
  Stalled      \* the sessions whose sink may stay blocked for ever

(***************************************************************************)
(* A job: the frame counts of the objects the source yields (0 stands for  *)
(* an object without frames, which is refused, or for an error of the      *)
(* source), the requested frames start..end-1, and the windows the session *)
(* may be given before it is first polled.                                 *)
(***************************************************************************)
Job == [objects: Seq(Nat), start: Nat, end: Nat, windows: SUBSET (Nat \ {0})]

ASSUME StreamAssumption ==
  /\ IsFiniteSet(Session)
  /\ Capacity \in Nat \ {0}
  /\ Prefetch \in [1..Capacity -> Nat]
  /\ Faulty \subseteq Session
  /\ \A s \in Session : \A j \in Jobs[s] :
       j \in Job /\ j.start < j.end /\ j.windows # {}

VARIABLES
  budget,      \* the shared FrameBudget
  session      \* [Session -> the session's state, see Blank]

vars == <<budget, session>>

Working == {"fresh", "idle", "grow", "queue", "fill", "sink"}
Ended == {"done", "failed", "rejected"}

Blank(j, window) ==
  [pc         |-> "off",
   job        |-> j,
   window     |-> window,   \* desired_window().ready_data_frames
   alloc      |-> 0,        \* allocation.frames()
   ticket     |-> FALSE,    \* budget_ticket.is_some()
   missing    |-> 0,        \* local of grow_available
   next       |-> 0,        \* objects taken from the source so far
   arrived    |-> 0,        \* items the source has ready, its end included
   listening  |-> FALSE,    \* the source was polled and was pending
   terminated |-> FALSE,    \* objects.is_terminated()
   plans      |-> <<>>,
   sink       |-> "free",   \* free, busy, or waiting: polled and pending
   woken      |-> FALSE,
   out        |-> <<>>]     \* history: global indices handed to the sink

----------------------------------------------------------------------------
(* Plans *)

Most(a, b) == IF a >= b THEN a ELSE b

(***************************************************************************)
(* One object's part of the request: local frames lo..hi-1 of an object    *)
(* whose first frame is number base.  url: the ticket is waiting (polled,  *)
(* pending), answered or failed; then the URL is held, then used.  link:   *)
(* the download is closed (not opened, or over), quiet (not polled since   *)
(* its last item), waiting (polled, pending), or has an item ready: frame, *)
(* end or error.  A ticket or a download that is ready at its very first   *)
(* poll is one that becomes ready right after it: one more poll sees it.   *)
(***************************************************************************)
Plan(base, lo, hi) ==
  [base |-> base, lo |-> lo, hi |-> hi, url |-> "waiting", link |-> "closed",
   auth |-> lo, recv |-> lo, emit |-> lo, finished |-> FALSE]

Committed(plans) == SumFunction([i \in DOMAIN plans |-> plans[i].auth - plans[i].emit])
Remaining(plans) == SumFunction([i \in DOMAIN plans |-> plans[i].hi - plans[i].emit])

(* source_cursor once n objects were taken. *)
Cursors ==
  [j \in UNION {Jobs[s] : s \in Session} |->
     [n \in 0..Len(j.objects) |-> SumFunctionOnSet(j.objects, 1..n)]]

Cursor(r, n) == Cursors[r.job][n]

(* How many requested frames lie before global frame c. *)
Useful(r, c) == Most(0, Least(c, r.job.end) - r.job.start)

PlanFor(r, n) ==
  LET base == Cursor(r, n - 1)
      lo   == Most(base, r.job.start)
      hi   == Least(Cursor(r, n), r.job.end)
  IN Plan(base, lo - base, hi - base)

Share(r) == Least(r.window, r.alloc)

(* What the session keeps of its allocation when it shrinks it. *)
KeepShareOnly(r, plans) == Share(r)
Keep(r, plans) == Most(Share(r), Committed(plans))

Target(r) == Share(r) + Prefetch[Share(r)]

(* poll_objects wants another object after taking k in this poll. *)
Wants(r, k) ==
  /\ Remaining(r.plans) + Useful(r, Cursor(r, r.next + k)) - Useful(r, Cursor(r, r.next))
       < Target(r)
  /\ Cursor(r, r.next + k) < r.job.end
  /\ ~ r.terminated

Yields(r, k) == r.next + k < Least(r.arrived, Len(r.job.objects))
Refused(r, k) == Yields(r, k) /\ r.job.objects[r.next + k + 1] = 0

(* How many objects this poll takes before it stops. *)
Taken(r) ==
  CHOOSE k \in 0..(Len(r.job.objects) - r.next) :
    /\ ~ (Wants(r, k) /\ Yields(r, k) /\ ~ Refused(r, k))
    /\ \A i \in 0..(k - 1) : Wants(r, i) /\ Yields(r, i) /\ ~ Refused(r, i)

SourceFails(r) == Wants(r, Taken(r)) /\ Refused(r, Taken(r))

(* Of k objects taken, the first ones may end before the request starts:   *)
(* this many get no plan.                                                  *)
Skipped(r, k) ==
  CHOOSE m \in 0..k : \A i \in 1..k :
    i > m <=> PlanFor(r, r.next + i).lo < PlanFor(r, r.next + i).hi

PollObjects(r) ==
  LET k == Taken(r)
      skipped == Skipped(r, k)
      dry == Wants(r, k) /\ ~ Yields(r, k)
      atEnd == dry /\ r.arrived > Len(r.job.objects)
  IN [r EXCEPT
       !.next = @ + k,
       !.plans = @ \o [i \in 1..(k - skipped) |-> PlanFor(r, r.next + skipped + i)],
       !.terminated = @ \/ atEnd,
       !.listening = @ \/ (dry /\ ~ atEnd)]

(* authorize: what the window has left goes to the plans front to back; *)
(* Before(plans, i) is what the plans in front of plan i can still take.  *)
Missing(p) == p.hi - p.auth
Behind(plans, i) ==
  SumFunctionOnSet([j \in DOMAIN plans |-> Missing(plans[j])], (i + 1)..Len(plans))
Before(plans, i) ==
  SumFunctionOnSet([j \in DOMAIN plans |-> Missing(plans[j])], 1..(i - 1))

Spare(r) == Most(0, Share(r) - Committed(r.plans))

Allow(p, frames) == [p EXCEPT !.auth = @ + Least(Missing(p), frames)]

Authorize(r) ==
  [r EXCEPT !.plans = [i \in DOMAIN @ |-> Allow(@[i], Most(0, Spare(r) - Before(@, i)))]]

(* poll_urls: every pending ticket is polled, then authorised plans open. *)
PollUrl(p) ==
  LET q == [p EXCEPT !.url = IF @ = "answered" THEN "held" ELSE @]
  IN IF q.url = "held" /\ q.link = "closed" /\ q.auth # q.emit
     THEN [q EXCEPT !.url = "used", !.link = "quiet"]
     ELSE q

PollUrls(r) == [r EXCEPT !.plans = [i \in DOMAIN @ |-> PollUrl(@[i])]]

(* poll_downloads: at most one item of each download that is allowed one. *)
Polled(p) == ~ p.finished /\ ~ (p.recv = p.auth /\ p.recv < p.hi) /\ p.link # "closed"
Progress(p) == Polled(p) /\ p.link \in {"frame", "end"}

ItemFails(p) ==
  /\ Polled(p)
  /\ \/ p.link = "error"
     \/ p.link = "frame" /\ p.recv = p.hi
     \/ p.link = "end" /\ p.recv # p.hi

PollDownload(p) ==
  IF ~ Polled(p) THEN p
  ELSE CASE p.link = "frame" -> [p EXCEPT !.recv = @ + 1, !.link = "quiet"]
         [] p.link = "end"   -> [p EXCEPT !.finished = TRUE, !.link = "closed"]
         [] OTHER            -> [p EXCEPT !.link = "waiting"]

PollDownloadsOnce(r) ==
  [r EXCEPT !.plans = [i \in DOMAIN @ |-> PollDownload(@[i])]]

PollDownloads(r) ==
  [r EXCEPT !.plans = [i \in DOMAIN @ |-> PollDownload(@[i])],
            !.woken = @ \/ \E i \in DOMAIN r.plans : Progress(r.plans[i])]

SpentEarly(p) == p.finished
Spent(p) == p.finished /\ p.emit = p.hi

DiscardFinished(r) ==
  LET n == CHOOSE n \in 0..Len(r.plans) :
             /\ \A i \in 1..n : Spent(r.plans[i])
             /\ n < Len(r.plans) => ~ Spent(r.plans[n + 1])
  IN [r EXCEPT !.plans = SubSeq(@, n + 1, Len(@))]

(* poll_fill is over: nothing is planned and nothing more will be. *)
Exhausted(r) ==
  r.plans = <<>> /\ (r.terminated \/ Cursor(r, r.next) >= r.job.end)

----------------------------------------------------------------------------
(* Steps of a session *)

(* s becomes r; sessions whose ticket was served by this step are woken. *)
Become(s, r) ==
  session' = [t \in Session |->
    LET q == IF t = s THEN r ELSE session[t] IN
    [q EXCEPT !.woken = @ \/ t \in budget'.granted \ budget.granted]]

(* The driver is dropped: its futures go, and its permits come back. *)
Leave(s, pc) ==
  /\ budget' = Give(Withdraw(budget, s), session[s].alloc)
  /\ Become(s, [session[s] EXCEPT !.pc = pc, !.alloc = 0, !.ticket = FALSE,
                                  !.plans = <<>>, !.woken = FALSE])

(* StreamSession::new: one frame, or the session is refused. *)
Create(s) ==
  /\ session[s].pc = "off"
  /\ IF budget.free >= 1
     THEN /\ budget' = Take(budget, 1)
          /\ Become(s, [session[s] EXCEPT !.pc = "created", !.alloc = 1])
     ELSE /\ UNCHANGED budget
          /\ Become(s, [session[s] EXCEPT !.pc = "rejected"])

(* grow_available in new: read the free permits, then try to take them. *)
Measure(s) ==
  LET r == session[s] IN
  /\ r.pc = "created"
  /\ UNCHANGED budget
  /\ Become(s, [r EXCEPT !.pc = "measured",
                         !.missing = Least(Most(0, r.window - r.alloc), budget.free)])

(* set_consumer_rate, set_transfer_model: before the session is piped, and, *)
(* as the tests at stream.rs:1010 and 1034 do, between one poll and another *)
(* that is due.                                                             *)
SetWindow(s, window) ==
  /\ session[s].pc = "fresh" \/ (session[s].pc = "idle" /\ session[s].woken)
  /\ window \in session[s].job.windows
  /\ window # session[s].window
  /\ UNCHANGED budget
  /\ Become(s, [session[s] EXCEPT !.window = window])

(* refresh_allocation up to the read of available(): the ticket is dropped *)
(* when no more is wanted, else polled.                                    *)
Refresh(s) ==
  LET r == session[s]
      enough == r.window <= r.alloc
      served == ~ enough /\ r.ticket /\ s \in budget.granted
      alloc == IF served THEN r.alloc + 1 ELSE r.alloc
  IN
  /\ r.pc = "fresh" \/ (r.pc = "idle" /\ r.woken)
  /\ budget' = CASE enough /\ r.ticket -> Withdraw(budget, s)
                 [] served             -> Collect(budget, s)
                 [] OTHER              -> budget
  /\ Become(s, [r EXCEPT !.pc = "grow", !.woken = FALSE, !.alloc = alloc,
                         !.ticket = @ /\ ~ enough /\ ~ served,
                         !.missing = Least(Most(0, r.window - alloc), budget'.free)])

(* try_reserve(missing): all of them, or none if another session was faster. *)
Grow(s) ==
  LET r == session[s]
      n == IF r.missing <= budget.free THEN r.missing ELSE 0
  IN
  /\ r.pc \in {"measured", "grow"}
  /\ budget' = Take(budget, n)
  /\ Become(s, [r EXCEPT !.pc = IF @ = "grow" THEN "queue" ELSE "fresh",
                         !.alloc = @ + n, !.missing = 0])

(* The rest of refresh_allocation: wait in line for one more frame, or give *)
(* back what exceeds both the window and the commitments.                   *)
Queue(s) ==
  LET r == session[s]
      short == r.window > r.alloc /\ ~ r.ticket
      keep == Keep(r, r.plans)
  IN
  /\ r.pc = "queue"
  /\ CASE short /\ budget.free >= 1 ->
            /\ budget' = Take(budget, 1)
            /\ Become(s, [r EXCEPT !.pc = "fill", !.alloc = @ + 1])
       [] short /\ budget.free = 0 ->
            /\ budget' = Enqueue(budget, s)
            /\ Become(s, [r EXCEPT !.pc = "fill", !.ticket = TRUE])
       [] OTHER ->
            /\ budget' = Give(budget, Most(0, r.alloc - keep))
            /\ Become(s, [r EXCEPT !.pc = "fill", !.alloc = Least(@, keep)])

(* poll_fill after refresh_allocation: plan, authorise and open, download. *)
Fill(s) ==
  /\ session[s].pc = "fill"
  /\ \E planned \in {PollObjects(session[s])} :
     \E opened \in {PollUrls(Authorize(planned))} :
     \E r \in {DiscardFinished(PollDownloads(opened))} :
       IF \/ SourceFails(session[s])
          \/ \E i \in DOMAIN opened.plans :
               opened.plans[i].url = "failed" \/ ItemFails(opened.plans[i])
       THEN Leave(s, "failed")
       ELSE /\ UNCHANGED budget
            /\ Become(s, [r EXCEPT !.pc = IF Exhausted(r) THEN "closing" ELSE "sink",
                                   !.woken = IF Exhausted(r) THEN session[s].woken ELSE @])

(* StreamDriver::poll after poll_fill: pop_ready and start_send. *)
Emit(s) ==
  LET r == session[s]
      p == r.plans[1]
      q == [p EXCEPT !.emit = @ + 1]
      rest == IF Spent(q) THEN Tail(r.plans) ELSE [r.plans EXCEPT ![1] = q]
      keep == Keep(r, rest)
  IN
  /\ r.pc = "sink"
  /\ CASE r.plans # <<>> /\ r.sink = "free" /\ p.recv > p.emit ->
            /\ budget' = Give(budget, Most(0, r.alloc - keep))
            /\ \E sink \in {"free", "busy"} :
                 Become(s, [r EXCEPT !.pc = "idle", !.plans = rest, !.sink = sink,
                                     !.alloc = Least(@, keep), !.woken = TRUE,
                                     !.out = Append(@, p.base + p.emit)])
       [] r.plans # <<>> /\ r.sink # "free" ->
            /\ UNCHANGED budget
            /\ Become(s, [r EXCEPT !.pc = "idle", !.sink = "waiting"])
       [] OTHER ->
            /\ UNCHANGED budget
            /\ Become(s, [r EXCEPT !.pc = "idle"])

(* poll_close completes: the driver returns and is dropped. *)
Close(s) ==
  /\ session[s].pc = "closing"
  /\ Leave(s, "done")

(* poll_close is pending: whatever wakes the driver now, the sink or a      *)
(* ticket, polls it from the beginning, refresh_allocation included.        *)
Linger(s) ==
  /\ session[s].pc = "closing"
  /\ UNCHANGED budget
  /\ Become(s, [session[s] EXCEPT !.pc = "idle", !.sink = "waiting"])

(* The driver is dropped between polls, or the sink reports an error. *)
Cancel(s) ==
  /\ s \in Faulty
  /\ session[s].pc \in {"fresh", "idle", "sink", "closing"}
  /\ Leave(s, "failed")

----------------------------------------------------------------------------
(* The peers of a session: source, URL coordinator, downloads and sink.     *)
(* A peer touches nothing but its own session and a poll looks at the sink  *)
(* in Emit only and at the others in Fill only.  So a peer that moves in    *)
(* the middle of a poll is one that moves right before that step: Listens   *)
(* and Drain leave out the interleavings that differ in nothing else.       *)

Listens(r) == r.pc \in {"fill", "idle"}

(* The source has one more item ready; the last one is its end.  Items that *)
(* a session has no use for are left out: it never takes them.              *)
Arrive(s) ==
  LET r == session[s] IN
  /\ Listens(r)
  /\ r.arrived <= Len(r.job.objects)
  /\ Cursor(r, r.arrived) < r.job.end
  /\ UNCHANGED budget
  /\ Become(s, [r EXCEPT !.arrived = @ + 1, !.listening = FALSE,
                         !.woken = @ \/ r.listening])

Answer(s, i, result) ==
  LET r == session[s] IN
  /\ Listens(r)
  /\ i \in DOMAIN r.plans
  /\ r.plans[i].url = "waiting"
  /\ result = "failed" => s \in Faulty
  /\ UNCHANGED budget
  /\ Become(s, [r EXCEPT !.plans[i].url = result, !.woken = TRUE])

Expected(p) == IF p.recv < p.hi THEN "frame" ELSE "end"

Deliver(s, i, item) ==
  LET r == session[s] IN
  /\ Listens(r)
  /\ i \in DOMAIN r.plans
  /\ r.plans[i].link \in {"quiet", "waiting"}
  /\ item # Expected(r.plans[i]) => s \in Faulty
  /\ UNCHANGED budget
  /\ Become(s, [r EXCEPT !.plans[i].link = item,
                         !.woken = @ \/ r.plans[i].link = "waiting"])

Drain(s) ==
  LET r == session[s] IN
  /\ r.pc \in {"sink", "idle"}
  /\ r.sink # "free"
  /\ UNCHANGED budget
  /\ Become(s, [r EXCEPT !.sink = "free", !.woken = @ \/ r.sink = "waiting"])

----------------------------------------------------------------------------
Blanks(s) == UNION {{Blank(j, w) : w \in j.windows} : j \in Jobs[s]}

Init ==
  /\ budget = NewBudget(Capacity)
  /\ session \in [Session -> UNION {Blanks(s) : s \in Session}]
  /\ \A s \in Session : session[s] \in Blanks(s)

Poll(s) == Refresh(s) \/ Grow(s) \/ Queue(s) \/ Fill(s) \/ Emit(s) \/ Close(s) \/ Linger(s)

Next ==
  \E s \in Session :
    \/ Create(s)
    \/ Measure(s)
    \/ \E w \in session[s].job.windows : SetWindow(s, w)
    \/ Poll(s)
    \/ Cancel(s)
    \/ Arrive(s)
    \/ \E i \in DOMAIN session[s].plans, a \in {"answered", "failed"} : Answer(s, i, a)
    \/ \E i \in DOMAIN session[s].plans, item \in {"frame", "end", "error"} : Deliver(s, i, item)
    \/ Drain(s)

Spec == Init /\ [][Next]_vars

(***************************************************************************)
(* The executor polls every woken task, and the peers of a session answer  *)
(* in the end; the sinks of Stalled sessions need not.  A sink that is     *)
(* polled again and again to close does close.                             *)
(***************************************************************************)
Fairness ==
  \A s \in Session :
    /\ WF_vars(Create(s)) /\ WF_vars(Measure(s)) /\ WF_vars(Poll(s))
    /\ WF_vars(Arrive(s))
    /\ WF_vars(\E i \in DOMAIN session[s].plans : Answer(s, i, "answered"))
    /\ WF_vars(\E i \in DOMAIN session[s].plans :
                 Deliver(s, i, Expected(session[s].plans[i])))
    /\ s \notin Stalled => WF_vars(Drain(s)) /\ SF_vars(Close(s))

FairSpec == Spec /\ Fairness

----------------------------------------------------------------------------
(* Properties *)

PlanType ==
  [base: Nat, lo: Nat, hi: Nat, auth: Nat, recv: Nat, emit: Nat, finished: BOOLEAN,
   url: {"waiting", "answered", "failed", "held", "used"},
   link: {"closed", "quiet", "waiting", "frame", "end", "error"}]

TypeOK ==
  /\ budget.free \in 0..Capacity
  /\ budget.waiters \in Seq(Session)
  /\ budget.granted \subseteq Session
  /\ \A s \in Session :
       LET r == session[s] IN
       /\ r.pc \in Working \cup Ended \cup {"off", "created", "measured", "closing"}
       /\ r.job \in Jobs[s] /\ r.window \in r.job.windows
       /\ r.alloc \in 0..Capacity /\ r.missing \in 0..Capacity
       /\ r.next \in 0..Len(r.job.objects) /\ r.arrived \in 0..(Len(r.job.objects) + 1)
       /\ {r.ticket, r.listening, r.terminated, r.woken} \subseteq BOOLEAN
       /\ r.sink \in {"free", "busy", "waiting"}
       /\ \A i \in DOMAIN r.plans :
            LET p == r.plans[i] IN
            /\ p \in PlanType
            /\ p.lo <= p.emit /\ p.emit <= p.recv /\ p.recv <= p.auth /\ p.auth <= p.hi

(* Permits are neither lost nor minted, whatever interleaving of growing,  *)
(* waiting, shrinking, failing and dropping: every frame of the budget is  *)
(* free, part of one allocation, or assigned to one uncollected ticket.    *)
PermitsConserved ==
  budget.free + SumFunction([s \in Session |-> session[s].alloc])
              + Cardinality(budget.granted) = Capacity

(* Invariant 3 of StreamDriver (stream.rs:531): every frame authorised for *)
(* download and not yet handed to a ready sink is covered by the session's *)
(* own share of the budget, also after the share was shrunk.               *)
FramesCovered ==
  \A s \in Session : Committed(session[s].plans) <= session[s].alloc

(* No head-of-line deadlock: a later object holds frames of the window     *)
(* only when every earlier one has all it needs, so the front object,      *)
(* the only one that can drain, never waits for frames held behind it.     *)
FrontServedFirst ==
  \A s \in Session :
    LET plans == session[s].plans IN
    \A i, j \in DOMAIN plans :
      i < j /\ plans[j].auth > plans[j].lo => plans[i].auth = plans[i].hi

(* A driver at rest has a waker in everything that can move it, and has    *)
(* left nothing undone: no lost wakeup, and (invariant 1, stream.rs:528)   *)
(* the granted window is authorised to the full even if the sink is busy.  *)
(* One that grew by nothing waits in line for frames. One that took a      *)
(* single frame in the race between available() and try_reserve (stream.rs *)
(* :281-320) rests without a ticket, and grows again at its next poll.     *)
(* One that has nothing more to plan waits for its sink to close.          *)
RestsArmed ==
  \A s \in Session :
    LET r == session[s] IN
    r.pc = "idle" /\ ~ r.woken =>
      /\ \A i \in DOMAIN r.plans :
           LET p == r.plans[i] IN
           /\ p.url \in {"waiting", "held", "used"}
           /\ p.url = "held" => p.auth = p.emit
           /\ Polled(p) => p.link = "waiting"
      /\ Wants(r, 0) => r.listening
      /\ r.plans = <<>> => IF Exhausted(r) THEN r.sink = "waiting" ELSE r.listening
      /\ r.plans # <<>> /\ r.plans[1].recv > r.plans[1].emit => r.sink = "waiting"
      /\ r.window > r.alloc /\ r.alloc = 1 => r.ticket /\ s \in ToSet(budget.waiters)
      /\ Committed(r.plans) >= Least(Share(r), Remaining(r.plans))

(* Invariant 2 of StreamDriver (stream.rs:530), and what the session as a  *)
(* whole promises: the sink receives the frames of the request, each once  *)
(* and in order, and success means all those the source has.               *)
Wanted ==
  [j \in UNION {Jobs[s] : s \in Session} |->
     LET last == Least(j.end, Cursors[j][Len(j.objects)]) IN
     [i \in 1..Most(0, last - j.start) |-> j.start + i - 1]]

Delivery == INSTANCE OrderedDelivery WITH
  want   <- [s \in Session |-> Wanted[session[s].job]],
  out    <- [s \in Session |-> session[s].out],
  status <- [s \in Session |-> IF session[s].pc \in Ended THEN session[s].pc ELSE "open"]
DeliversInOrder == Delivery!Spec

(* A session that was created delivers everything, if its own peers answer *)
(* and its own sink drains: other sessions that hold the budget behind a   *)
(* sink that is blocked for ever cannot stop it.                           *)
Independent ==
  \A s \in Session \ (Stalled \cup Faulty) :
    session[s].pc = "fresh" ~> session[s].pc = "done"
============================================================================
