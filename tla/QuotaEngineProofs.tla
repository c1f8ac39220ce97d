------------------------- MODULE QuotaEngineProofs -------------------------
(***************************************************************************)
(* Proofs about QuotaEngine, for every set of tasks, buckets, pools and    *)
(* resources, every interval and capacity, and every bound.                *)
(***************************************************************************)
EXTENDS QuotaEngine, TLAPS

----------------------------------------------------------------------------
(* Facts about the definitions the actions are built from. *)

(* Intervals are positive and tolerances are never negative. *)
LEMMA ToleranceNat ==
  ASSUME NEW b \in Bucket
  PROVE  Tolerance[b] \in Nat /\ Interval[b] \in Nat /\ Interval[b] > 0
<1>1. /\ Capacity[b] - Safety[b] \in Int
      /\ Interval[b] \in Nat /\ Interval[b] > 0
  BY QuotaAssumption
<1>2. EffectiveCapacity(b) \in Int /\ EffectiveCapacity(b) >= 1
  BY <1>1 DEF EffectiveCapacity, Later
<1>3. \A m, n \in Nat : m * n \in Nat
  OBVIOUS
<1>4. EffectiveCapacity(b) - 1 \in Nat
  BY <1>2
<1>5. (EffectiveCapacity(b) - 1) * Interval[b] \in Nat
  BY <1>1, <1>3, <1>4
<1> QED
  BY <1>1, <1>5 DEF Tolerance

(* A reservation touches buckets of the engine only. *)
LEMMA TouchedBuckets ==
  ASSUME NEW rs \in SUBSET Resource
  PROVE  Touched(rs) \subseteq Bucket
BY QuotaAssumption DEF Touched

(* The horizon that a header implies is an instant. *)
LEMMA HeaderAnchor ==
  ASSUME now \in Nat, NEW b \in Bucket, NEW h \in Headers
  PROVE  Anchored(b, h[1], h[2]) \in Int
<1>1. h[1] \in Nat /\ h[2] \in Nat
  BY QuotaAssumption
<1>2. Later(Later(h[2], 1) - h[1], 0) \in Int
  BY <1>1 DEF Later
<1>3. Interval[b] * Later(Later(h[2], 1) - h[1], 0) \in Int
  BY <1>2, ToleranceNat
<1> QED
  BY <1>3 DEF Anchored

(* What a successful reserve does, whichever resources it selects. *)
LEMMA ReserveStep ==
  ASSUME NEW p \in Task, Reserve(p)
  PROVE  \E rs \in SUBSET Resource :
           /\ \E at \in Instants(rtat, Touched(rs)) :
                /\ Earliest(at, rtat, Touched(rs))
                /\ at <= now + Window
                /\ AdvanceReserve(Touched(rs), at)
           /\ picks' = [picks EXCEPT ![p] = rs]
<1>1. PICK choice \in [DOMAIN Pools -> Resource] :
        LET rs == {choice[k] : k \in DOMAIN Pools} IN
        /\ \E at \in Instants(rtat, Touched(rs)) :
             /\ Earliest(at, rtat, Touched(rs))
             /\ at <= now + Window
             /\ AdvanceReserve(Touched(rs), at)
        /\ picks' = [picks EXCEPT ![p] = rs]
  BY DEF Reserve, Admit
<1>2. {choice[k] : k \in DOMAIN Pools} \in SUBSET Resource
  OBVIOUS
<1> QED
  BY <1>1, <1>2

(* n + 1 intervals are n intervals and one more. *)
LEMMA OneMoreInterval ==
  ASSUME NEW n \in Int, NEW t \in Int
  PROVE  (n + 1) * t = n * t + t /\ n * t \in Int
OBVIOUS

----------------------------------------------------------------------------
(* The type invariant *)

(* Every action leaves the variables in their types. *)
LEMMA TypeStep ==
  ASSUME TypeOK, [Next]_vars
  PROVE  TypeOK'
<1> USE DEF TypeOK, Phase
<1>1. ASSUME NEW p \in Task, Reserve(p)
      PROVE  TypeOK'
  <2>1. PICK rs \in SUBSET Resource :
          /\ \E at \in Instants(rtat, Touched(rs)) :
               AdvanceReserve(Touched(rs), at)
          /\ picks' = [picks EXCEPT ![p] = rs]
    BY <1>1, ReserveStep
  <2>2. PICK at \in Instants(rtat, Touched(rs)) : AdvanceReserve(Touched(rs), at)
    BY <2>1
  <2>3. at \in Int
    BY TouchedBuckets, ToleranceNat DEF Instants
  <2>4. rtat' \in [Bucket -> Int]
    BY <2>2, <2>3, ToleranceNat DEF AdvanceReserve, Later
  <2>5. picks' \in [Task -> SUBSET Resource]
    BY <2>1
  <2> QED
    BY <1>1, <2>4, <2>5 DEF Reserve, Admit
<1>2. ASSUME NEW p \in Task, Refuse(p)
      PROVE  TypeOK'
  BY <1>2 DEF Refuse, Reject, engine
<1>3. ASSUME NEW p \in Task, Subscribe(p)
      PROVE  TypeOK'
  BY <1>3 DEF Subscribe, engine
<1>4. ASSUME NEW p \in Task, Commit(p)
      PROVE  TypeOK'
  <2>1. tat' \in [Bucket -> Int]
    BY <1>4, ToleranceNat DEF Commit, AdvanceCommit, Later
  <2>2. rtat' \in [Bucket -> Int]
    BY <1>4, <2>1 DEF Commit, AdvanceCommit, Later
  <2>3. log' \in [Bucket -> Seq(Nat)]
    BY <1>4 DEF Commit
  <2>4. bell' \in [Task -> BOOLEAN]
    BY <1>4 DEF Commit, Ring
  <2> QED
    BY <1>4, <2>1, <2>2, <2>3, <2>4 DEF Commit
<1>5. ASSUME NEW p \in Task, Park(p)
      PROVE  TypeOK'
  <2>1. PICK at \in Instants(tat, Touched(picks[p])) :
          target' = [target EXCEPT ![p] = at]
    BY <1>5 DEF Park
  <2>2. at \in Int
    BY TouchedBuckets, ToleranceNat DEF Instants
  <2> QED
    BY <1>5, <2>1, <2>2 DEF Park, engine
<1>6. ASSUME NEW p \in Task, Release(p)
      PROVE  TypeOK'
  <2>1. rtat' \in [Bucket -> Int]
    BY <1>6, ToleranceNat DEF Release, ReleaseReserve, Later
  <2> QED
    BY <1>6, <2>1 DEF Release
<1>7. ASSUME NEW r \in Resource, NEW b \in Bucket, NEW h \in Headers,
             Update(r, b, h[1], h[2])
      PROVE  TypeOK'
  <2>1. Anchored(b, h[1], h[2]) \in Int
    BY HeaderAnchor
  <2>2. tat' \in [Bucket -> Int] /\ rtat' \in [Bucket -> Int]
    BY <1>7, <2>1 DEF Update, Reconcile, Later
  <2>3. bell' \in [Task -> BOOLEAN]
    BY <1>7 DEF Update, Ring
  <2> QED
    BY <1>7, <2>2, <2>3 DEF Update
<1>8. ASSUME NEW r \in Mortal, NEW v \in BOOLEAN, SetAlive(r, v)
      PROVE  TypeOK'
  BY <1>8 DEF SetAlive, tasks
<1>9. CASE Tick
  BY <1>9 DEF Tick, engine, tasks
<1>10. CASE UNCHANGED vars
  BY <1>10 DEF vars, engine, tasks
<1> QED
  BY <1>1, <1>2, <1>3, <1>4, <1>5, <1>6, <1>7, <1>8, <1>9, <1>10
     DEF Next, TaskStep

(* The variables stay in their types, whatever the constants. *)
THEOREM TypeCorrect == Spec => []TypeOK
<1>1. Init => TypeOK
  BY DEF Init, TypeOK, Phase
<1>2. TypeOK /\ [Next]_vars => TypeOK'
  BY TypeStep
<1> QED
  BY <1>1, <1>2, PTL DEF Spec

----------------------------------------------------------------------------
(* Safety *)

(***************************************************************************)
(* Every step but a commit leaves the logs alone, and no step but a commit *)
(* or an observed header moves the commit horizon, which never goes back.  *)
(***************************************************************************)
LEMMA QuietStep ==
  ASSUME TypeOK, AllocationAhead, [Next]_vars, \A p \in Task : ~ Commit(p)
  PROVE  /\ log' = log
         /\ now' \in Nat /\ now' >= now
         /\ \A b \in Bucket : tat'[b] >= tat[b] /\ rtat'[b] >= tat'[b]
<1> USE DEF TypeOK, AllocationAhead
<1>1. ASSUME NEW p \in Task, Reserve(p)
      PROVE  /\ UNCHANGED <<now, log, tat>>
             /\ \A b \in Bucket : rtat'[b] >= rtat[b]
  <2>1. PICK rs \in SUBSET Resource :
          \E at \in Instants(rtat, Touched(rs)) : AdvanceReserve(Touched(rs), at)
    BY <1>1, ReserveStep
  <2>2. PICK at \in Instants(rtat, Touched(rs)) : AdvanceReserve(Touched(rs), at)
    BY <2>1
  <2>3. at \in Int
    BY TouchedBuckets, ToleranceNat DEF Instants
  <2>4. ASSUME NEW b \in Bucket
        PROVE  rtat'[b] >= rtat[b]
    <3>1. rtat'[b] = Later(rtat[b], at) + Interval[b] \/ rtat'[b] = rtat[b]
      BY <2>2 DEF AdvanceReserve
    <3> QED
      BY <2>3, <3>1, ToleranceNat DEF Later
  <2> QED
    BY <1>1, <2>4 DEF Reserve, Admit
<1>2. ASSUME NEW p \in Task, Release(p)
      PROVE  /\ UNCHANGED <<now, log, tat>>
             /\ \A b \in Bucket : rtat'[b] >= tat[b]
  BY <1>2, ToleranceNat DEF Release, ReleaseReserve, Later
<1>3. ASSUME NEW r \in Resource, NEW b \in Bucket, NEW h \in Headers,
             Update(r, b, h[1], h[2])
      PROVE  /\ UNCHANGED <<now, log>>
             /\ \A c \in Bucket : tat'[c] >= tat[c] /\ rtat'[c] >= tat'[c]
  <2>1. Anchored(b, h[1], h[2]) \in Int
    BY HeaderAnchor
  <2> QED
    BY <1>3, <2>1 DEF Update, Reconcile, Later
<1>4. ASSUME NEW p \in Task, Refuse(p) \/ Subscribe(p) \/ Park(p)
      PROVE  UNCHANGED <<now, log, tat, rtat>>
  BY <1>4 DEF Refuse, Reject, Subscribe, Park, engine
<1>5. ASSUME NEW r \in Mortal, NEW v \in BOOLEAN, SetAlive(r, v)
      PROVE  UNCHANGED <<now, log, tat, rtat>>
  BY <1>5 DEF SetAlive
<1>6. ASSUME Tick
      PROVE  UNCHANGED <<log, tat, rtat>> /\ now' = now + 1
  BY <1>6 DEF Tick, engine
<1>7. ASSUME UNCHANGED vars
      PROVE  UNCHANGED <<now, log, tat, rtat>>
  BY <1>7 DEF vars, engine
<1>8. \/ \E p \in Task : Reserve(p) \/ Refuse(p) \/ Subscribe(p) \/ Park(p) \/ Release(p)
      \/ \E r \in Resource, b \in Bucket, h \in Headers : Update(r, b, h[1], h[2])
      \/ \E r \in Mortal, v \in BOOLEAN : SetAlive(r, v)
      \/ Tick
      \/ UNCHANGED vars
  BY DEF Next, TaskStep
<1>9. CASE \E p \in Task : Reserve(p) \/ Refuse(p) \/ Subscribe(p) \/ Park(p) \/ Release(p)
  <2>1. PICK p \in Task : Reserve(p) \/ Refuse(p) \/ Subscribe(p) \/ Park(p) \/ Release(p)
    BY <1>9
  <2>2. /\ UNCHANGED <<now, log, tat>>
        /\ \A b \in Bucket : rtat'[b] >= rtat[b] \/ rtat'[b] >= tat[b]
    BY <2>1, <1>1, <1>2, <1>4
  <2>3. \A b \in Bucket : rtat'[b] >= tat[b] /\ tat'[b] = tat[b]
    <3> SUFFICES ASSUME NEW b \in Bucket
                 PROVE  rtat'[b] >= tat[b]
      BY <2>2
    <3>1. tat[b] \in Int /\ rtat[b] \in Int /\ rtat[b] >= tat[b]
      OBVIOUS
    <3>2. rtat'[b] \in Int
      BY TypeStep
    <3> QED
      BY <2>2, <3>1, <3>2
  <2> QED
    BY <2>2, <2>3
<1>10. CASE \E r \in Resource, b \in Bucket, h \in Headers : Update(r, b, h[1], h[2])
  BY <1>10, <1>3
<1>11. CASE \E r \in Mortal, v \in BOOLEAN : SetAlive(r, v)
  BY <1>11, <1>5
<1>12. CASE Tick
  BY <1>12, <1>6
<1>13. CASE UNCHANGED vars
  BY <1>13, <1>7
<1> QED
  BY <1>8, <1>9, <1>10, <1>11, <1>12, <1>13

(***************************************************************************)
(* A commit finds the gate open on each bucket it touches, and spends one  *)
(* interval of each: the rest is untouched.                                *)
(***************************************************************************)
LEMMA CommitStep ==
  ASSUME TypeOK, AllocationAhead, NEW p \in Task, Commit(p)
  PROVE  /\ now' = now
         /\ Touched(picks[p]) \subseteq Bucket
         /\ \A b \in Bucket \ Touched(picks[p]) :
              log'[b] = log[b] /\ tat'[b] = tat[b] /\ rtat'[b] = rtat[b]
         /\ \A b \in Touched(picks[p]) :
              /\ tat[b] - Tolerance[b] <= now
              /\ log'[b] = Append(log[b], now)
              /\ tat'[b] >= now + Interval[b]
              /\ tat'[b] >= tat[b] + Interval[b]
              /\ rtat'[b] >= tat'[b]
<1> USE DEF TypeOK
<1>1. Touched(picks[p]) \subseteq Bucket
  BY TouchedBuckets
<1>2. \A b \in Touched(picks[p]) : tat[b] - Tolerance[b] <= now
  BY DEF Commit, Earliest
<1>3. /\ now' = now
      /\ \A b \in Bucket \ Touched(picks[p]) :
           log'[b] = log[b] /\ tat'[b] = tat[b] /\ rtat'[b] = rtat[b]
      /\ \A b \in Touched(picks[p]) : log'[b] = Append(log[b], now)
  BY <1>1 DEF Commit, AdvanceCommit
<1>4. ASSUME NEW b \in Touched(picks[p])
      PROVE  /\ tat'[b] >= now + Interval[b]
             /\ tat'[b] >= tat[b] + Interval[b]
             /\ rtat'[b] >= tat'[b]
  <2>1. b \in Bucket /\ tat[b] \in Int /\ rtat[b] \in Int /\ Interval[b] \in Nat
    BY <1>1, ToleranceNat
  <2>2. tat'[b] = Later(tat[b], now) + Interval[b]
    BY <1>1 DEF Commit, AdvanceCommit
  <2>3. rtat'[b] = Later(rtat[b], tat'[b])
    BY <1>1 DEF Commit, AdvanceCommit
  <2> QED
    BY <2>1, <2>2, <2>3 DEF Later
<1> QED
  BY <1>1, <1>2, <1>3, <1>4

(* A commit finds at most a burst less one token spent, and spends one.    *)
LEMMA CommitDebt ==
  ASSUME TypeOK, AllocationAhead, NEW p \in Task, Commit(p), NEW b \in Touched(picks[p])
  PROVE  tat'[b] <= now + EffectiveCapacity(b) * Interval[b]
<1>1. b \in Bucket /\ tat[b] - Tolerance[b] <= now
  BY CommitStep
<1>2. /\ now \in Nat /\ tat[b] \in Int
      /\ Tolerance[b] \in Nat /\ Interval[b] \in Nat
  BY <1>1, ToleranceNat DEF TypeOK
<1>3. tat'[b] = Later(tat[b], now) + Interval[b]
  BY <1>1 DEF Commit, AdvanceCommit
<1>4. EffectiveCapacity(b) * Interval[b] = Tolerance[b] + Interval[b]
  <2>1. EffectiveCapacity(b) - 1 \in Int
    BY <1>1, QuotaAssumption DEF EffectiveCapacity, Later
  <2>2. EffectiveCapacity(b) = (EffectiveCapacity(b) - 1) + 1
    BY <1>1, QuotaAssumption DEF EffectiveCapacity, Later
  <2>3. Tolerance[b] = (EffectiveCapacity(b) - 1) * Interval[b]
    BY <1>1 DEF Tolerance
  <2> QED
    BY <1>2, <2>1, <2>2, <2>3, OneMoreInterval
<1>5. tat'[b] <= now + (Tolerance[b] + Interval[b])
  BY <1>1, <1>2, <1>3 DEF Later
<1> QED
  BY <1>4, <1>5

(* The debt of a bucket stays within a burst, or within a header's report. *)
LEMMA DebtStep ==
  ASSUME TypeOK, AllocationAhead, DebtBounded, [Next]_vars
  PROVE  DebtBounded'
<1> USE DEF TypeOK
<1> DEFINE Burst(b) == EffectiveCapacity(b) * Interval[b]
           Report(b, h) == Interval[b] * Later(Later(h[2], 1) - h[1], 0)
<1>1. ASSUME NEW b \in Bucket
      PROVE  /\ Burst(b) \in Int
             /\ \A h \in Headers : Report(b, h) \in Int
  <2>1. EffectiveCapacity(b) \in Int
    BY QuotaAssumption DEF EffectiveCapacity, Later
  <2>2. \A h \in Headers : Later(Later(h[2], 1) - h[1], 0) \in Int
    BY QuotaAssumption DEF Later
  <2> QED
    BY <2>1, <2>2, ToleranceNat
<1>2. \A b \in Bucket : \/ tat[b] <= now + Burst(b)
                        \/ updates > 0 /\ \E h \in Headers : tat[b] <= now + Report(b, h)
  BY DEF DebtBounded, Anchored
<1> HIDE DEF Burst, Report
<1> DEFINE Bound(b) == \/ tat'[b] <= now' + Burst(b)
                       \/ updates' > 0 /\ \E h \in Headers : tat'[b] <= now' + Report(b, h)
<1>3. ASSUME NEW b \in Bucket, tat'[b] = tat[b],
             now' \in Nat, now' >= now, updates' >= updates, updates' \in Nat
      PROVE  Bound(b)
  <2>1. CASE tat[b] <= now + Burst(b)
    BY <1>1, <1>3, <2>1
  <2>2. CASE updates > 0 /\ \E h \in Headers : tat[b] <= now + Report(b, h)
    <3>1. PICK h \in Headers : tat[b] <= now + Report(b, h)
      BY <2>2
    <3>2. tat'[b] <= now' + Report(b, h) /\ updates' > 0
      BY <1>1, <1>3, <2>2, <3>1
    <3> QED
      BY <3>2
  <2> QED
    BY <1>2, <2>1, <2>2
<1>4. CASE \E p \in Task : Commit(p)
  <2>1. PICK p \in Task : Commit(p)
    BY <1>4
  <2>2. now' = now /\ updates' = updates
    BY <2>1 DEF Commit
  <2>3. \A b \in Touched(picks[p]) : tat'[b] <= now + Burst(b)
    BY <2>1, CommitDebt DEF Burst
  <2>4. \A b \in Bucket \ Touched(picks[p]) : tat'[b] = tat[b]
    BY <2>1, CommitStep
  <2> QED
    BY <1>3, <2>2, <2>3, <2>4 DEF Bound, Burst, Report, DebtBounded, Anchored
<1>5. CASE \E r \in Resource, c \in Bucket, h \in Headers : Update(r, c, h[1], h[2])
  <2>1. PICK r \in Resource, c \in Bucket, h \in Headers : Update(r, c, h[1], h[2])
    BY <1>5
  <2>2. now' = now /\ updates' = updates + 1 /\ updates' > 0
    BY <2>1 DEF Update
  <2>3. \A b \in Bucket : b # c => tat'[b] = tat[b]
    BY <2>1 DEF Update, Reconcile
  <2>4. tat'[c] = tat[c] \/ tat'[c] <= now + Report(c, h)
    <3>1. tat'[c] = Later(tat[c], now + Report(c, h))
      BY <2>1 DEF Update, Reconcile, Anchored, Report
    <3> QED
      BY <1>1, <3>1 DEF Later
  <2>5. ASSUME NEW b \in Bucket, tat'[b] = tat[b]
        PROVE  Bound(b)
    <3>1. now' \in Nat /\ now' >= now /\ updates' >= updates /\ updates' \in Nat
      BY <2>2
    <3> HIDE DEF Bound
    <3> QED
      BY <1>3, <2>5, <3>1
  <2>6. tat'[c] # tat[c] => tat'[c] <= now' + Report(c, h) /\ updates' > 0
    BY <2>2, <2>4
  <2>7. \A b \in Bucket : Bound(b)
    <3>1. tat'[c] # tat[c] => Bound(c)
      BY <2>6
    <3> HIDE DEF Bound
    <3> QED
      BY <2>3, <2>5, <3>1
  <2> QED
    BY <2>7 DEF Bound, Burst, Report, DebtBounded, Anchored
<1>6. CASE /\ \A p \in Task : ~ Commit(p)
           /\ ~ \E r \in Resource, c \in Bucket, h \in Headers : Update(r, c, h[1], h[2])
  <2>1. UNCHANGED <<tat, updates>>
    BY <1>6 DEF Next, TaskStep, Reserve, Admit, Refuse, Reject, Subscribe, Park, Release,
                SetAlive, Tick, vars, engine
  <2>2. now' \in Nat /\ now' >= now
    BY <1>6, QuietStep
  <2>3. \A b \in Bucket : Bound(b)
    BY <1>3, <2>1, <2>2
  <2> QED
    BY <2>3 DEF Bound, Burst, Report, DebtBounded, Anchored
<1> QED
  BY <1>4, <1>5, <1>6

(* The inductive invariant: types, both horizons in order, logs covered. *)
IInv ==
  /\ TypeOK
  /\ AllocationAhead
  /\ HorizonCoversLog
  /\ RateConformance

(* When the gate is open, every window that a commit would close conforms. *)
LEMMA OpenGateAdmissible ==
  ASSUME IInv, NEW b \in Bucket, tat[b] - Tolerance[b] <= now
  PROVE  Limit!Admissible(b, now)
<1> SUFFICES ASSUME NEW i \in 1..Len(log[b])
             PROVE  (Len(log[b]) + 1 - i) * Interval[b]
                      <= (now - log[b][i]) + Tolerance[b]
  BY DEF Limit!Admissible
<1>1. log[b][i] \in Nat /\ Len(log[b]) \in Nat
  BY DEF IInv, TypeOK
<1>2. tat[b] \in Int /\ now \in Nat /\ Tolerance[b] \in Nat
  BY ToleranceNat DEF IInv, TypeOK
<1>3. PICK w \in Int : w = (Len(log[b]) + 1 - i) * Interval[b]
  BY <1>1, ToleranceNat
<1>4. log[b][i] + w <= tat[b]
  BY <1>3 DEF IInv, HorizonCoversLog
<1>5. w <= (now - log[b][i]) + Tolerance[b]
  BY <1>1, <1>2, <1>4
<1> QED
  BY <1>3, <1>5

(* A commit keeps each horizon one interval per spend beyond its log. *)
LEMMA CommitCovers ==
  ASSUME IInv, NEW p \in Task, Commit(p)
  PROVE  HorizonCoversLog'
<1> SUFFICES ASSUME NEW b \in Bucket, NEW i \in 1..Len(log'[b])
             PROVE  log'[b][i] + (Len(log'[b]) + 1 - i) * Interval[b] <= tat'[b]
  BY DEF HorizonCoversLog
<1> DEFINE n == Len(log[b])
           T == Interval[b]
<1>1. TypeOK /\ AllocationAhead /\ log[b] \in Seq(Nat)
  BY DEF IInv, TypeOK
<1>2. /\ n \in Nat /\ T \in Nat /\ now \in Nat
      /\ tat[b] \in Int /\ tat'[b] \in Int
  BY TypeStep, ToleranceNat DEF IInv, TypeOK, Next, TaskStep
<1>3. CASE b \notin Touched(picks[p])
  BY <1>1, <1>3, CommitStep DEF IInv, HorizonCoversLog
<1>4. CASE b \in Touched(picks[p])
  <2>1. /\ log'[b] = Append(log[b], now)
        /\ tat'[b] >= now + T /\ tat'[b] >= tat[b] + T
    BY <1>1, <1>4, CommitStep
  <2>2. Len(log'[b]) = n + 1
    BY <1>1, <2>1
  <2>3. i \in 1..(n + 1)
    BY <2>2
  <2>4. CASE i = n + 1
    <3>1. log'[b][i] = now
      BY <1>1, <2>1, <2>4
    <3>2. (Len(log'[b]) + 1 - i) * T = T
      BY <1>2, <2>2, <2>4
    <3> QED
      BY <1>2, <2>1, <3>1, <3>2
  <2>5. CASE i \in 1..n
    <3>1. log'[b][i] = log[b][i] /\ log[b][i] \in Nat
      BY <1>1, <2>1, <2>5
    <3>2. PICK k \in Int : k = n + 1 - i
      <4> HIDE DEF n
      <4> QED
        BY <1>2, <2>5
    <3>3. PICK w \in Int : w = k * T
      BY <1>2, <3>2, OneMoreInterval
    <3>4. log[b][i] + w <= tat[b]
      BY <2>5, <3>2, <3>3 DEF IInv, HorizonCoversLog
    <3>5. Len(log'[b]) + 1 - i = k + 1
      BY <1>2, <2>2, <2>5, <3>2
    <3> HIDE DEF T
    <3>6. (k + 1) * T = w + T
      BY <1>2, <3>3, OneMoreInterval
    <3>7. log[b][i] + (w + T) <= tat'[b]
      <4>1. log[b][i] \in Int /\ tat'[b] >= tat[b] + T
        BY <2>1, <3>1
      <4> QED
        BY <1>2, <3>4, <4>1
    <3> QED
      BY <3>1, <3>5, <3>6, <3>7 DEF T
  <2> QED
    BY <1>2, <2>3, <2>4, <2>5
<1> QED
  BY <1>3, <1>4

(* A commit through an open gate closes only windows that conform. *)
LEMMA CommitConforms ==
  ASSUME IInv, NEW p \in Task, Commit(p)
  PROVE  RateConformance'
<1> SUFFICES ASSUME NEW b \in Bucket,
                    NEW i \in 1..Len(log'[b]), NEW j \in 1..Len(log'[b]), i <= j
             PROVE  (j - i) * Interval[b]
                      <= (log'[b][j] - log'[b][i]) + Tolerance[b]
  BY DEF RateConformance
<1> DEFINE n == Len(log[b])
<1>1. /\ TypeOK /\ AllocationAhead
      /\ log[b] \in Seq(Nat) /\ n \in Nat /\ now \in Nat
      /\ Interval[b] \in Nat /\ Tolerance[b] \in Nat
  BY ToleranceNat DEF IInv, TypeOK
<1>2. CASE b \notin Touched(picks[p])
  BY <1>1, <1>2, CommitStep DEF IInv, RateConformance
<1>3. CASE b \in Touched(picks[p])
  <2>1. log'[b] = Append(log[b], now) /\ tat[b] - Tolerance[b] <= now
    BY <1>1, <1>3, CommitStep
  <2>2. Len(log'[b]) = n + 1
    BY <1>1, <2>1
  <2>3. CASE j \in 1..n
    <3>1. i \in 1..n /\ log'[b][j] = log[b][j] /\ log'[b][i] = log[b][i]
      BY <1>1, <2>1, <2>3
    <3> QED
      BY <2>3, <3>1 DEF IInv, RateConformance
  <2>4. CASE j = n + 1 /\ i \in 1..n
    <3>1. log'[b][j] = now /\ log'[b][i] = log[b][i]
      BY <1>1, <2>1, <2>4
    <3>2. (n + 1 - i) * Interval[b] <= (now - log[b][i]) + Tolerance[b]
      BY <2>1, <2>4, OpenGateAdmissible DEF Limit!Admissible
    <3> QED
      BY <2>4, <3>1, <3>2
  <2>5. CASE j = n + 1 /\ i = n + 1
    <3>1. log'[b][j] = now /\ log'[b][i] = now /\ (j - i) * Interval[b] = 0
      BY <1>1, <2>1, <2>5
    <3> QED
      BY <1>1, <3>1
  <2> QED
    BY <1>1, <2>2, <2>3, <2>4, <2>5
<1> QED
  BY <1>2, <1>3

(* The invariant is inductive. *)
LEMMA IInvStep ==
  ASSUME IInv, [Next]_vars
  PROVE  IInv'
<1>1. TypeOK'
  BY TypeStep DEF IInv
<1>2. CASE \E p \in Task : Commit(p)
  <2>1. PICK p \in Task : Commit(p)
    BY <1>2
  <2>2. AllocationAhead'
    <3> SUFFICES ASSUME NEW b \in Bucket
                 PROVE  rtat'[b] >= tat'[b]
      BY DEF AllocationAhead
    <3> QED
      BY <2>1, CommitStep DEF IInv, AllocationAhead
  <2> QED
    BY <1>1, <2>1, <2>2, CommitCovers, CommitConforms DEF IInv
<1>3. CASE \A p \in Task : ~ Commit(p)
  <2>1. /\ log' = log
        /\ \A b \in Bucket : tat'[b] >= tat[b] /\ rtat'[b] >= tat'[b]
    BY <1>3, QuietStep DEF IInv
  <2>2. AllocationAhead'
    BY <2>1 DEF AllocationAhead
  <2>3. RateConformance'
    BY <2>1 DEF IInv, RateConformance
  <2>4. HorizonCoversLog'
    <3> SUFFICES ASSUME NEW b \in Bucket, NEW i \in 1..Len(log[b])
                 PROVE  log[b][i] + (Len(log[b]) + 1 - i) * Interval[b] <= tat'[b]
      BY <2>1 DEF HorizonCoversLog
    <3>1. log[b][i] + (Len(log[b]) + 1 - i) * Interval[b] <= tat[b]
      BY DEF IInv, HorizonCoversLog
    <3>2. /\ log[b][i] \in Nat /\ Len(log[b]) \in Nat
          /\ tat[b] \in Int /\ tat'[b] \in Int
      BY <1>1 DEF IInv, TypeOK
    <3>3. (Len(log[b]) + 1 - i) * Interval[b] \in Int
      BY <3>2, ToleranceNat
    <3> QED
      BY <2>1, <3>1, <3>2, <3>3
  <2> QED
    BY <1>1, <2>2, <2>3, <2>4 DEF IInv
<1> QED
  BY <1>2, <1>3

(* The invariant holds of every behaviour. *)
LEMMA IInvHolds == Spec => []IInv
<1>1. Init => IInv
  BY DEF Init, IInv, TypeOK, Phase, AllocationAhead, HorizonCoversLog, RateConformance
<1>2. IInv /\ [Next]_vars => IInv'
  BY IInvStep
<1> QED
  BY <1>1, <1>2, PTL DEF Spec

----------------------------------------------------------------------------
(* The backlog, and the sleep of a committer *)

(* One bucket's share of BacklogBounded. *)
Backed(b) ==
  \/ rtat[b] <= tat[b]
  \/ rtat[b] <= now + Window + Tolerance[b] + Interval[b]

(* Admission leaves each bucket it touches at most Window and a burst ahead:
   the instant it admits at is within the window, and no bucket forbade it. *)
LEMMA AdmissionBacked ==
  ASSUME TypeOK, BacklogBounded, NEW p \in Task, Reserve(p), NEW b \in Bucket
  PROVE  Backed(b)'
<1> USE DEF TypeOK
<1>1. PICK rs \in SUBSET Resource :
        \E at \in Instants(rtat, Touched(rs)) :
          /\ Earliest(at, rtat, Touched(rs))
          /\ at <= now + Window
          /\ AdvanceReserve(Touched(rs), at)
  BY ReserveStep
<1>2. PICK at \in Instants(rtat, Touched(rs)) :
        /\ Earliest(at, rtat, Touched(rs))
        /\ at <= now + Window
        /\ AdvanceReserve(Touched(rs), at)
  BY <1>1
<1>3. /\ at \in Int /\ now \in Nat /\ Window \in Nat
      /\ rtat[b] \in Int /\ Tolerance[b] \in Nat /\ Interval[b] \in Nat
  <2>1. at \in Int
    BY TouchedBuckets, ToleranceNat DEF Instants
  <2>2. Window \in Nat
    BY QuotaAssumption
  <2> QED
    BY <2>1, <2>2, ToleranceNat
<1>4. now' = now /\ tat' = tat
  BY DEF Reserve, Admit
<1>5. CASE b \in Touched(rs)
  <2>1. rtat'[b] = Later(rtat[b], at) + Interval[b]
    BY <1>2, <1>5 DEF AdvanceReserve
  <2>2. rtat[b] - Tolerance[b] <= at
    BY <1>2, <1>5 DEF Earliest
  <2> QED
    BY <1>2, <1>3, <1>4, <2>1, <2>2 DEF Backed, Later
<1>6. CASE b \notin Touched(rs)
  <2>1. rtat'[b] = rtat[b]
    BY <1>2, <1>6 DEF AdvanceReserve
  <2> QED
    BY <1>4, <2>1 DEF Backed, BacklogBounded
<1> QED
  BY <1>5, <1>6

(* No other step leaves an allocation horizon further ahead than it was,
   unless it is the commit horizon that moved there. *)
LEMMA BacklogStep ==
  ASSUME TypeOK, BacklogBounded, [Next]_vars
  PROVE  BacklogBounded'
<1> SUFFICES ASSUME NEW b \in Bucket
             PROVE  Backed(b)'
  BY DEF BacklogBounded, Backed
<1> USE DEF TypeOK
<1>1. Backed(b)
  BY DEF BacklogBounded, Backed
<1>2. /\ now \in Nat /\ Window \in Nat /\ rtat[b] \in Int /\ tat[b] \in Int
      /\ Tolerance[b] \in Nat /\ Interval[b] \in Nat /\ Interval[b] > 0
  BY ToleranceNat, QuotaAssumption
<1>3. now' \in Nat /\ rtat'[b] \in Int /\ tat'[b] \in Int
  BY TypeStep
<1>4. ASSUME NEW p \in Task, Reserve(p)
      PROVE  Backed(b)'
  BY <1>4, AdmissionBacked
<1>5. ASSUME NEW p \in Task, Release(p)
      PROVE  Backed(b)'
  <2>1. /\ now' = now /\ tat' = tat
        /\ rtat'[b] = rtat[b] \/ rtat'[b] = Later(rtat[b] - Interval[b], tat[b])
    BY <1>5 DEF Release, ReleaseReserve
  <2> QED
    BY <1>1, <1>2, <2>1 DEF Backed, Later
<1>6. ASSUME NEW p \in Task, Commit(p)
      PROVE  Backed(b)'
  <2>1. /\ now' = now
        /\ tat'[b] = tat[b] \/ tat'[b] = Later(tat[b], now) + Interval[b]
        /\ rtat'[b] = rtat[b] \/ rtat'[b] = Later(rtat[b], tat'[b])
    BY <1>6 DEF Commit, AdvanceCommit
  <2> QED
    BY <1>1, <1>2, <1>3, <2>1 DEF Backed, Later
<1>7. ASSUME NEW r \in Resource, NEW c \in Bucket, NEW h \in Headers,
             Update(r, c, h[1], h[2])
      PROVE  Backed(b)'
  <2>1. Anchored(c, h[1], h[2]) \in Int
    BY HeaderAnchor
  <2>2. /\ now' = now
        /\ tat'[b] = tat[b] \/ tat'[b] = Later(tat[b], Anchored(c, h[1], h[2]))
        /\ \/ tat'[b] = tat[b] /\ rtat'[b] = rtat[b]
           \/ rtat'[b] = Later(rtat[b], tat'[b])
    BY <1>7 DEF Update, Reconcile
  <2> QED
    BY <1>1, <1>2, <1>3, <2>1, <2>2 DEF Backed, Later
<1>8. ASSUME NEW p \in Task, Refuse(p) \/ Subscribe(p) \/ Park(p)
      PROVE  Backed(b)'
  BY <1>1, <1>8 DEF Refuse, Reject, Subscribe, Park, engine, Backed
<1>9. ASSUME NEW r \in Mortal, NEW v \in BOOLEAN, SetAlive(r, v)
      PROVE  Backed(b)'
  BY <1>1, <1>9 DEF SetAlive, Backed
<1>10. CASE Tick
  <2>1. now' = now + 1 /\ rtat' = rtat /\ tat' = tat
    BY <1>10 DEF Tick, engine
  <2> QED
    BY <1>1, <1>2, <2>1 DEF Backed
<1>11. CASE UNCHANGED vars
  BY <1>1, <1>11 DEF vars, engine, Backed
<1> QED
  BY <1>4, <1>5, <1>6, <1>7, <1>8, <1>9, <1>10, <1>11 DEF Next, TaskStep

(* A task that is asleep after a step either fell asleep in that step, or kept
   its reservation and its timer. *)
LEMMA StillAsleep ==
  ASSUME TypeOK, [Next]_vars, NEW p \in Task, phase'[p] = "parked", ~ Park(p)
  PROVE  phase[p] = "parked" /\ picks'[p] = picks[p] /\ target'[p] = target[p]
<1> USE DEF TypeOK
<1>1. ASSUME NEW q \in Task, Reserve(q)
      PROVE  phase[p] = "parked" /\ picks'[p] = picks[p] /\ target'[p] = target[p]
  <2>1. PICK rs \in SUBSET Resource : picks' = [picks EXCEPT ![q] = rs]
    BY <1>1, ReserveStep
  <2>2. phase' = [phase EXCEPT ![q] = "held"] /\ target' = target
    BY <1>1 DEF Reserve, Admit
  <2> QED
    BY <2>1, <2>2
<1>2. ASSUME NEW q \in Task, Refuse(q)
      PROVE  phase[p] = "parked" /\ picks'[p] = picks[p] /\ target'[p] = target[p]
  BY <1>2 DEF Refuse, Reject
<1>3. ASSUME NEW q \in Task, Subscribe(q) \/ Commit(q) \/ Release(q)
      PROVE  phase[p] = "parked" /\ picks'[p] = picks[p] /\ target'[p] = target[p]
  BY <1>3 DEF Subscribe, Commit, Release
<1>4. ASSUME NEW q \in Task, Park(q)
      PROVE  phase[p] = "parked" /\ picks'[p] = picks[p] /\ target'[p] = target[p]
  <2>1. PICK at : target' = [target EXCEPT ![q] = at]
    BY <1>4 DEF Park
  <2>2. q # p
    BY <1>4
  <2> QED
    BY <1>4, <2>1, <2>2 DEF Park
<1>5. CASE \E r \in Resource, b \in Bucket, h \in Headers : Update(r, b, h[1], h[2])
  BY <1>5 DEF Update
<1>6. CASE \E r \in Mortal, v \in BOOLEAN : SetAlive(r, v)
  BY <1>6 DEF SetAlive, tasks
<1>7. CASE Tick \/ UNCHANGED vars
  BY <1>7 DEF Tick, vars, tasks
<1> QED
  BY <1>1, <1>2, <1>3, <1>4, <1>5, <1>6, <1>7 DEF Next, TaskStep

(* The commit horizon only moves forward. *)
LEMMA TatForward ==
  ASSUME TypeOK, AllocationAhead, [Next]_vars, NEW b \in Bucket
  PROVE  tat'[b] >= tat[b] /\ tat[b] \in Int /\ tat'[b] \in Int
<1>1. tat[b] \in Int /\ tat'[b] \in Int
  BY TypeStep DEF TypeOK
<1>2. CASE \E p \in Task : Commit(p)
  <2>1. PICK p \in Task : Commit(p)
    BY <1>2
  <2>2. tat'[b] = tat[b] \/ tat'[b] >= tat[b] + Interval[b]
    BY <2>1, CommitStep
  <2> QED
    BY <1>1, <2>2, ToleranceNat
<1>3. CASE \A p \in Task : ~ Commit(p)
  BY <1>1, <1>3, QuietStep
<1> QED
  BY <1>2, <1>3

(* A sleeper's timer was set to the instant at which some bucket would open,
   and that bucket can only open later than it would have then. *)
LEMMA SleepStep ==
  ASSUME TypeOK, AllocationAhead, NoOversleep, [Next]_vars
  PROVE  NoOversleep'
<1> SUFFICES ASSUME NEW p \in Task, phase'[p] = "parked"
             PROVE  \E b \in Touched(picks'[p]) : target'[p] <= tat'[b] - Tolerance[b]
  BY DEF NoOversleep, Touched
<1>1. picks[p] \in SUBSET Resource /\ Touched(picks[p]) \subseteq Bucket
  BY TouchedBuckets DEF TypeOK
<1>2. CASE Park(p)
  <2>1. PICK at \in Instants(tat, Touched(picks[p])) :
          /\ Earliest(at, tat, Touched(picks[p]))
          /\ at > now
          /\ target' = [target EXCEPT ![p] = at]
    BY <1>2 DEF Park
  <2>2. /\ picks' = picks /\ tat' = tat /\ target'[p] = at
        /\ now \in Nat
    BY <1>2, <2>1 DEF Park, engine, TypeOK
  <2>3. PICK b \in Touched(picks[p]) : at = tat[b] - Tolerance[b]
    BY <2>1, <2>2 DEF Earliest
  <2>4. tat[b] - Tolerance[b] \in Int
    BY <1>1, ToleranceNat DEF TypeOK
  <2> QED
    BY <2>2, <2>3, <2>4
<1>3. CASE ~ Park(p)
  <2>1. phase[p] = "parked" /\ picks'[p] = picks[p] /\ target'[p] = target[p]
    BY <1>3, StillAsleep
  <2>2. PICK b \in Touched(picks[p]) : target[p] <= tat[b] - Tolerance[b]
    BY <2>1 DEF NoOversleep
  <2>3. tat'[b] >= tat[b] /\ tat[b] \in Int /\ tat'[b] \in Int
    BY <1>1, TatForward
  <2>4. target[p] \in Int /\ Tolerance[b] \in Nat
    BY <1>1, ToleranceNat DEF TypeOK
  <2> QED
    BY <2>1, <2>2, <2>3, <2>4
<1> QED
  BY <1>2, <1>3

----------------------------------------------------------------------------
(* What a reader should know *)

(* However commits, corrections, drops and time interleave, no window of   *)
(* any bucket's commits is denser than its burst plus its refill.          *)
THEOREM Conformance == Spec => []RateConformance
BY IInvHolds, PTL DEF IInv

(* The allocation horizon never falls behind the commit horizon.           *)
THEOREM AllocationNeverBehind == Spec => []AllocationAhead
BY IInvHolds, PTL DEF IInv

(* No step gives committed rate back.                                      *)
THEOREM NeverRelaxed == Spec => TightenOnly
<1>1. IInv /\ [Next]_vars => \A b \in Bucket : tat'[b] >= tat[b]
  BY TatForward DEF IInv
<1> QED
  BY <1>1, IInvHolds, PTL DEF Spec, TightenOnly

(* What a bucket owes stays within one burst, or what a header reported.   *)
THEOREM DebtIsBounded == Spec => []DebtBounded
<1>1. Init => DebtBounded
  <2> SUFFICES ASSUME Init, NEW b \in Bucket
               PROVE  tat[b] <= now + EffectiveCapacity(b) * Interval[b]
    BY DEF DebtBounded
  <2>1. EffectiveCapacity(b) \in Nat /\ Interval[b] \in Nat
    BY ToleranceNat, QuotaAssumption DEF EffectiveCapacity, Later
  <2>2. EffectiveCapacity(b) * Interval[b] \in Nat
    BY <2>1
  <2> QED
    BY <2>2 DEF Init
<1>2. IInv /\ DebtBounded /\ [Next]_vars => DebtBounded'
  BY DebtStep DEF IInv
<1> QED
  BY <1>1, <1>2, IInvHolds, PTL DEF Spec

(* What admission lets build up, a deadline window and one burst drain. *)
THEOREM BacklogIsBounded == Spec => []BacklogBounded
<1>1. Init => BacklogBounded
  BY DEF Init, BacklogBounded
<1>2. IInv /\ BacklogBounded /\ [Next]_vars => BacklogBounded'
  BY BacklogStep DEF IInv
<1> QED
  BY <1>1, <1>2, IInvHolds, PTL DEF Spec

(* No committer sleeps past the instant at which its gate opens. *)
THEOREM NobodyOversleeps == Spec => []NoOversleep
<1>1. Init => NoOversleep
  BY DEF Init, NoOversleep
<1>2. IInv /\ NoOversleep /\ [Next]_vars => NoOversleep'
  BY SleepStep DEF IInv
<1> QED
  BY <1>1, <1>2, IInvHolds, PTL DEF Spec

(* The engine implements the server's rule: each of its steps is a spend   *)
(* that the rule admits, the passing of time, or invisible to the server.  *)
THEOREM ImplementsLimit == Spec => LimitRespected
<1>1. Init => Limit!LimitInit
  BY DEF Init, Limit!LimitInit
<1>2. ASSUME IInv, [Next]_vars
      PROVE  [Limit!LimitNext]_(Limit!limitVars)
  <2>1. CASE \E p \in Task : Commit(p)
    <3>1. PICK p \in Task : Commit(p)
      BY <2>1
    <3> DEFINE bs == Touched(picks[p])
    <3>2. bs \in SUBSET Bucket /\ now' = now
      BY <1>2, <3>1, CommitStep DEF IInv
    <3>3. \A b \in bs : Limit!Admissible(b, now)
      BY <1>2, <3>1, CommitStep, OpenGateAdmissible DEF IInv
    <3>4. log' = [b \in Bucket |-> IF b \in bs THEN Append(log[b], now) ELSE log[b]]
      BY <3>1 DEF Commit
    <3> HIDE DEF bs
    <3>5. Limit!Spend(bs)
      BY <3>2, <3>3, <3>4 DEF Limit!Spend
    <3> QED
      BY <3>2, <3>5 DEF Limit!LimitNext
  <2>2. CASE \A p \in Task : ~ Commit(p)
    <3>1. log' = log /\ now' \in Nat /\ now' >= now /\ now \in Nat
      BY <1>2, <2>2, QuietStep DEF IInv, TypeOK
    <3> QED
      BY <3>1 DEF Limit!LimitNext, Limit!Pass, Limit!limitVars
  <2> QED
    BY <2>1, <2>2
<1> QED
  BY <1>1, <1>2, IInvHolds, PTL DEF Spec, LimitRespected, Limit!LimitSpec
============================================================================
