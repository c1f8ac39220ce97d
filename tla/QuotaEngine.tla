---------------------------- MODULE QuotaEngine ----------------------------
(***************************************************************************)
(* crates/quota-engine: the GCRA buckets (cadence.rs) and the handle that  *)
(* shares them between tasks (cadence_async.rs).                           *)
(*                                                                         *)
(* A bucket has two horizons: rtat, advanced when a reservation is         *)
(* admitted, and tat, advanced when a commit is authorised.  Every method  *)
(* of QuotaHandle takes the one mutex, reads the clock under it and awaits *)
(* nothing while holding it, so each locked section is one action.  A task *)
(* is one Reservation: reserve, then commit (an async loop of subscribe,   *)
(* read the gate, park) or release/drop at any await point.                *)
(*                                                                         *)
(* ToleranceWholeBurst, AdvanceWithoutNow, AdvancePrivate,                 *)
(* ReconcileCommitOnly, ReconcileBothWays, RejectAndCharge,                *)
(* SubscribeOnBell and ParkOnBacklog are not part of the specification:    *)
(* each is a defective variant of the definition that follows it, and      *)
(* shows that a property below notices the defect.                         *)
(***************************************************************************)
EXTENDS Integers, Sequences, FiniteSets

CONSTANTS
  Task,          \* one per reservation a caller asks for
  Bucket,        \* all buckets, shared ones and those of resources
  Shared,        \* the engine's shared buckets: every demand touches them
  Resource,      \* keys of the selectable resources
  Pools,         \* the selection axes: a sequence of sequences of keys
  BucketsOf,     \* [Resource -> SUBSET Bucket]: a resource's private buckets
  Interval,      \* [Bucket -> Nat \ {0}]: T, the time that refills one token
  Capacity,      \* [Bucket -> Nat]: C, the server's burst
  Safety,        \* [Bucket -> Nat]: tokens kept back from the burst
  Free,          \* the pin that leaves the choice to the engine
  Demands,       \* the demands callers make: one pin per pool
  Window,        \* callers ask with the deadline now + Window
  Mortal,        \* the resources callers mark dead or alive
  Headers,       \* <<remaining, capacity>> pairs a response may carry
  MaxNow,        \* bound: the clock stops here, if nobody sleeps
  MaxUpdates     \* bound: rate-limit headers observed in a behaviour

ASSUME QuotaAssumption ==
  /\ Shared \subseteq Bucket
  /\ Pools \in Seq(Seq(Resource))
  /\ BucketsOf \in [Resource -> SUBSET Bucket]
  /\ Interval \in [Bucket -> Nat \ {0}]
  /\ Capacity \in [Bucket -> Nat]
  /\ Safety \in [Bucket -> Nat]
  /\ Free \notin Resource
  /\ Demands \subseteq [DOMAIN Pools -> Resource \cup {Free}]
  /\ Window \in Nat
  /\ Mortal \subseteq Resource
  /\ Headers \subseteq Nat \X Nat
  /\ MaxNow \in Nat
  /\ MaxUpdates \in Nat

VARIABLES
  now,      \* Instant::now(), read under the lock
  tat,      \* [Bucket -> Int]: commit horizon
  rtat,     \* [Bucket -> Int]: allocation horizon
  alive,    \* [Resource -> BOOLEAN]
  phase,    \* [Task -> Phase]: where the task is in its protocol
  picks,    \* [Task -> SUBSET Resource]: the resources the reservation holds
  target,   \* [Task -> Int]: the instant a parked committer sleeps until, else 0
  bell,     \* [Task -> BOOLEAN]: notify_waiters since the task subscribed
  updates,  \* number of headers observed so far (bounded by MaxUpdates)
  log       \* history: the instants at which each bucket was spent

engine == <<tat, rtat, alive>>
tasks  == <<phase, picks, target, bell>>
vars   == <<now, engine, tasks, updates, log>>

Phase == {"new", "refused", "held", "subscribed", "parked", "committed", "released"}
Holding == {"held", "subscribed", "parked"}

----------------------------------------------------------------------------
(* Buckets *)

Later(a, b) == IF a >= b THEN a ELSE b

EffectiveCapacity(b) == Later(Capacity[b] - Safety[b], 1)

ToleranceWholeBurst == [b \in Bucket |-> EffectiveCapacity(b) * Interval[b]]

Tolerance == [b \in Bucket |-> (EffectiveCapacity(b) - 1) * Interval[b]]

(* The buckets that a reservation of the resources rs advances. *)
Touched(rs) == Shared \cup UNION {BucketsOf[r] : r \in rs}

AdvanceReserve(bs, t) ==
  rtat' = [b \in Bucket |-> IF b \in bs THEN Later(rtat[b], t) + Interval[b]
                                        ELSE rtat[b]]

ReleaseReserve(bs) ==
  rtat' = [b \in Bucket |-> IF b \in bs THEN Later(rtat[b] - Interval[b], tat[b])
                                        ELSE rtat[b]]

AdvanceWithoutNow(bs, t) ==
  /\ tat' = [b \in Bucket |-> IF b \in bs THEN tat[b] + Interval[b] ELSE tat[b]]
  /\ rtat' = [b \in Bucket |-> IF b \in bs THEN Later(rtat[b], tat'[b])
                                           ELSE rtat[b]]

AdvancePrivate(bs, t) ==
  /\ tat' = [b \in Bucket |-> IF b \in bs \ Shared THEN Later(tat[b], t) + Interval[b]
                                                   ELSE tat[b]]
  /\ rtat' = [b \in Bucket |-> IF b \in bs THEN Later(rtat[b], tat'[b])
                                           ELSE rtat[b]]

AdvanceCommit(bs, t) ==
  /\ tat' = [b \in Bucket |-> IF b \in bs THEN Later(tat[b], t) + Interval[b]
                                          ELSE tat[b]]
  /\ rtat' = [b \in Bucket |-> IF b \in bs THEN Later(rtat[b], tat'[b])
                                           ELSE rtat[b]]

(* The horizon a header of `remaining` out of `capacity` tokens implies. *)
Anchored(b, remaining, capacity) ==
  now + Interval[b] * Later(Later(capacity, 1) - remaining, 0)

ReconcileCommitOnly(b, remaining, capacity) ==
  /\ tat' = [tat EXCEPT ![b] = Later(@, Anchored(b, remaining, capacity))]
  /\ UNCHANGED rtat

ReconcileBothWays(b, remaining, capacity) ==
  /\ tat' = [tat EXCEPT ![b] = Anchored(b, remaining, capacity)]
  /\ rtat' = [rtat EXCEPT ![b] = Later(@, tat'[b])]

Reconcile(b, remaining, capacity) ==
  /\ tat' = [tat EXCEPT ![b] = Later(@, Anchored(b, remaining, capacity))]
  /\ rtat' = [rtat EXCEPT ![b] = Later(@, tat'[b])]

(***************************************************************************)
(* The instant now + max(slack, 0), slack the largest over the buckets bs: *)
(* the first instant not before now at which no bucket forbids.            *)
(***************************************************************************)
Earliest(at, horizon, bs) ==
  /\ at >= now
  /\ \A b \in bs : horizon[b] - Tolerance[b] <= at
  /\ at # now => \E b \in bs : at = horizon[b] - Tolerance[b]

Instants(horizon, bs) == {now} \cup {horizon[b] - Tolerance[b] : b \in bs}

----------------------------------------------------------------------------
(* Selection *)

(* r's reserve_slack is at most q's: a resource's slack is its buckets' maximum. *)
NoBusier(r, q) ==
  \A b \in BucketsOf[r] : \E c \in BucketsOf[q] :
    rtat[b] - Tolerance[b] <= rtat[c] - Tolerance[c]

(* Free: the most rested alive resource, the first one in pool order on a tie. *)
MostRested(pool, i) ==
  \A j \in DOMAIN pool :
    alive[pool[j]] => /\ NoBusier(pool[i], pool[j])
                      /\ j < i => ~ NoBusier(pool[j], pool[i])

Resolves(pool, pin, r) ==
  \E i \in DOMAIN pool :
    /\ pool[i] = r
    /\ alive[r]
    /\ IF pin = Free THEN MostRested(pool, i) ELSE r = pin

(* choice[k] is the resource that pool k's pin resolves to. *)
Choice(demand, choice) ==
  \A k \in DOMAIN Pools : Resolves(Pools[k], demand[k], choice[k])

----------------------------------------------------------------------------
(* The handle *)

Ring == bell' = [p \in Task |-> bell[p] \/ phase[p] \in {"subscribed", "parked"}]

(* reserve: peek_reserve and admit under one lock; the slot is now held. *)
Admit(p, demand) ==
  /\ phase[p] = "new"
  /\ \E choice \in [DOMAIN Pools -> Resource] :
       LET rs == {choice[k] : k \in DOMAIN Pools} IN
       /\ Choice(demand, choice)
       /\ \E at \in Instants(rtat, Touched(rs)) :
            /\ Earliest(at, rtat, Touched(rs))
            /\ at <= now + Window
            /\ AdvanceReserve(Touched(rs), at)
       /\ picks' = [picks EXCEPT ![p] = rs]
  /\ phase' = [phase EXCEPT ![p] = "held"]
  /\ UNCHANGED <<now, tat, alive, target, bell, updates, log>>

Reserve(p) == \E demand \in Demands : Admit(p, demand)

RejectAndCharge(p, demand) ==
  /\ phase[p] = "new"
  /\ \E choice \in [DOMAIN Pools -> Resource] :
       LET bs == Touched({choice[k] : k \in DOMAIN Pools}) IN
       /\ Choice(demand, choice)
       /\ \E at \in Instants(rtat, bs) :
            /\ Earliest(at, rtat, bs)
            /\ at > now + Window
            /\ AdvanceReserve(bs, at)
  /\ phase' = [phase EXCEPT ![p] = "refused"]
  /\ UNCHANGED <<now, tat, alive, picks, target, bell, updates, log>>

(* reserve returns None: a pin has no live resource, or the backlog is too deep. *)
Reject(p, demand) ==
  /\ phase[p] = "new"
  /\ \A choice \in [DOMAIN Pools -> Resource] :
       LET bs == Touched({choice[k] : k \in DOMAIN Pools}) IN
       Choice(demand, choice) =>
         \E at \in Instants(rtat, bs) : Earliest(at, rtat, bs) /\ at > now + Window
  /\ phase' = [phase EXCEPT ![p] = "refused"]
  /\ UNCHANGED <<now, engine, picks, target, bell, updates, log>>

Refuse(p) == \E demand \in Demands : Reject(p, demand)

SubscribeOnBell(p) ==
  /\ phase[p] = "held" \/ (phase[p] = "parked" /\ bell[p])
  /\ phase' = [phase EXCEPT ![p] = "subscribed"]
  /\ bell' = [bell EXCEPT ![p] = FALSE]
  /\ UNCHANGED <<now, engine, picks, target, updates, log>>

(* commit, top of the loop: create the Notified future, before taking the lock. *)
Subscribe(p) ==
  /\ \/ phase[p] = "held"
     \/ phase[p] = "parked" /\ (bell[p] \/ now >= target[p])
  /\ phase' = [phase EXCEPT ![p] = "subscribed"]
  /\ bell' = [bell EXCEPT ![p] = FALSE]
  /\ target' = [target EXCEPT ![p] = 0]
  /\ UNCHANGED <<now, engine, picks, updates, log>>

(* commit, the locked section when the gate is open: spend, and ring the bell. *)
Commit(p) ==
  LET bs == Touched(picks[p]) IN
  /\ phase[p] = "subscribed"
  /\ Earliest(now, tat, bs)
  /\ AdvanceCommit(bs, now)
  /\ log' = [b \in Bucket |-> IF b \in bs THEN Append(log[b], now) ELSE log[b]]
  /\ phase' = [phase EXCEPT ![p] = "committed"]
  /\ Ring
  /\ UNCHANGED <<now, alive, picks, target, updates>>

ParkOnBacklog(p) ==
  LET bs == Touched(picks[p]) IN
  /\ phase[p] = "subscribed"
  /\ \E at \in Instants(rtat, bs) :
       /\ Earliest(at, rtat, bs)
       /\ at > now
       /\ target' = [target EXCEPT ![p] = at]
  /\ phase' = [phase EXCEPT ![p] = "parked"]
  /\ UNCHANGED <<now, engine, picks, bell, updates, log>>

(* commit, the locked section when the gate is closed: sleep until it may open. *)
Park(p) ==
  LET bs == Touched(picks[p]) IN
  /\ phase[p] = "subscribed"
  /\ \E at \in Instants(tat, bs) :
       /\ Earliest(at, tat, bs)
       /\ at > now
       /\ target' = [target EXCEPT ![p] = at]
  /\ phase' = [phase EXCEPT ![p] = "parked"]
  /\ UNCHANGED <<now, engine, picks, bell, updates, log>>

(* release, or Drop of a Reservation that was not committed, at any await point. *)
Release(p) ==
  /\ phase[p] \in Holding
  /\ ReleaseReserve(Touched(picks[p]))
  /\ phase' = [phase EXCEPT ![p] = "released"]
  /\ bell' = [bell EXCEPT ![p] = FALSE]
  /\ target' = [target EXCEPT ![p] = 0]
  /\ UNCHANGED <<now, tat, alive, picks, updates, log>>

(* update: a response's header for one private bucket of a resource. *)
Update(r, b, remaining, capacity) ==
  /\ updates < MaxUpdates
  /\ b \in BucketsOf[r]
  /\ Reconcile(b, remaining, capacity)
  /\ Ring
  /\ updates' = updates + 1
  /\ UNCHANGED <<now, alive, phase, picks, target, log>>

SetAlive(r, v) ==
  /\ alive' = [alive EXCEPT ![r] = v]
  /\ UNCHANGED <<now, tat, rtat, tasks, updates, log>>

(* The clock runs to MaxNow, and beyond it while a sleeper waits for its timer. *)
Tick ==
  /\ now < MaxNow \/ \E p \in Task : phase[p] = "parked" /\ now < target[p]
  /\ now' = now + 1
  /\ UNCHANGED <<engine, tasks, updates, log>>

----------------------------------------------------------------------------
Init ==
  /\ now = 0
  /\ tat = [b \in Bucket |-> now]
  /\ rtat = [b \in Bucket |-> now]
  /\ alive = [r \in Resource |-> TRUE]
  /\ phase = [p \in Task |-> "new"]
  /\ picks = [p \in Task |-> {}]
  /\ target = [p \in Task |-> now]
  /\ bell = [p \in Task |-> FALSE]
  /\ updates = 0
  /\ log = [b \in Bucket |-> <<>>]

TaskStep(p) ==
  \/ Reserve(p)
  \/ Refuse(p)
  \/ Subscribe(p)
  \/ Commit(p)
  \/ Park(p)
  \/ Release(p)

Next ==
  \/ \E p \in Task : TaskStep(p)
  \/ \E r \in Resource, b \in Bucket, h \in Headers : Update(r, b, h[1], h[2])
  \/ \E r \in Mortal, v \in BOOLEAN : SetAlive(r, v)
  \/ Tick

Spec == Init /\ [][Next]_vars

----------------------------------------------------------------------------
(* Properties *)

TypeOK ==
  /\ now \in Nat
  /\ tat \in [Bucket -> Int]
  /\ rtat \in [Bucket -> Int]
  /\ alive \in [Resource -> BOOLEAN]
  /\ phase \in [Task -> Phase]
  /\ picks \in [Task -> SUBSET Resource]
  /\ target \in [Task -> Int]
  /\ bell \in [Task -> BOOLEAN]
  /\ updates \in Nat
  /\ log \in [Bucket -> Seq(Nat)]

(* The commits of a bucket, in any window of its log, number at most the   *)
(* effective burst plus what the window refills: whatever the interleaving *)
(* of commits, corrections and drops, the server's limit is respected.     *)
RateConformance ==
  \A b \in Bucket : \A i, j \in 1..Len(log[b]) :
    i <= j => (j - i) * Interval[b] <= (log[b][j] - log[b][i]) + Tolerance[b]

(* Why it holds: the commit horizon is at least one interval per spend     *)
(* beyond every logged commit.  With AllocationAhead, the inductive        *)
(* strengthening that the proofs use.                                      *)
HorizonCoversLog ==
  \A b \in Bucket : \A i \in 1..Len(log[b]) :
    log[b][i] + (Len(log[b]) + 1 - i) * Interval[b] <= tat[b]

(* cadence.rs:32 "Invariant: rtat >= tat always": a committed token can    *)
(* never be missing from the horizon that admission and selection read.    *)
AllocationAhead ==
  \A b \in Bucket : rtat[b] >= tat[b]

(* What was committed and is not refilled yet never exceeds one burst, and *)
(* no more than a header reported where one did: however tasks, headers    *)
(* and idle time interleave, a bucket left alone is full again after the   *)
(* time one burst takes.                                                   *)
DebtBounded ==
  \A b \in Bucket :
    \/ tat[b] <= now + EffectiveCapacity(b) * Interval[b]
    \/ updates > 0 /\ \E h \in Headers : tat[b] <= Anchored(b, h[1], h[2])

(* A refused reservation spends nothing, so the backlog that admission     *)
(* lets build up stays within what the deadline window can drain: beyond   *)
(* the committed horizon, at most Window plus one full burst ahead of now. *)
BacklogBounded ==
  \A b \in Bucket :
    \/ rtat[b] <= tat[b]
    \/ rtat[b] <= now + Window + Tolerance[b] + Interval[b]

(* A committer asleep on the gate never sleeps past the instant at which   *)
(* the gate opens, although others commit and headers arrive meanwhile.    *)
NoOversleep ==
  \A p \in Task : phase[p] = "parked" =>
    \E b \in Touched(picks[p]) : target[p] <= tat[b] - Tolerance[b]

(* cadence.rs:101 "Tighten-only": no step ever gives back committed rate,  *)
(* not a stale header and not the cancellation of somebody's reservation.  *)
TightenOnly ==
  [][\A b \in Bucket : tat'[b] >= tat[b]]_vars

(* The engine implements the server's rule, at every commit. *)
Limit == INSTANCE RateLimit
LimitRespected == Limit!LimitSpec
============================================================================
