------------------------ MODULE DiscordClientProofs ------------------------
(***************************************************************************)
(* Proofs about DiscordClient, for every set of calls, webhooks, egresses, *)
(* responses and faults, every rate and burst.                             *)
(***************************************************************************)
EXTENDS DiscordClient, FiniteSetTheorems, TLAPS

QuotaTask == Call \X (1..Attempts)
QuotaResource == Webhook \cup Egress

(* The engine is used as an engine: every step of the client is one of the *)
(* engine's tasks, a correction, a death, a tick, or leaves it alone.      *)
ControlOK ==
  /\ job \in Workloads
  /\ pc \in [Call -> Place]
  /\ attempt \in [Call -> 1..Attempts]
  /\ DOMAIN reply = Call
  /\ \A c \in Call : pc[c] = "webhook" => reply[c] \in Replies

(* An attempt is a task of the engine. *)
LEMMA SlotIsTask ==
  ASSUME ControlOK, NEW c \in Call
  PROVE  Slot(c) \in QuotaTask
BY DEF ControlOK, Slot, QuotaTask

(* What an attempt asks for is a demand the engine expects. *)
LEMMA DemandIsOne ==
  ASSUME ControlOK, NEW c \in Call, Known(c)
  PROVE  Demand(c) \in {Unpinned} \cup {Pinned(w) : w \in Webhook}
BY DEF Demand, Known

(* The body of a request only reserves, waits, spends and releases. *)
LEMMA BodyRefines ==
  ASSUME ControlOK, NEW c \in Call, Body(c) \/ Abandon(c)
  PROVE  Quota!Next \/ UNCHANGED engineVars
<1>1. Slot(c) \in QuotaTask
  BY SlotIsTask
<1>2. CASE Pull(c)
  BY <1>2 DEF Pull
<1>3. CASE BodyFails(c) \/ Abandon(c) \/ Wait(c) \/ Spend(c)
  <2>1. Quota!TaskStep(Slot(c))
    BY <1>3 DEF BodyFails, Abandon, Wait, Spend, Quota!TaskStep
  <2> QED
    BY <1>1, <2>1 DEF Quota!Next, QuotaTask
<1> QED
  BY <1>2, <1>3 DEF Body

(* So does the call itself, or it corrects a bucket or buries a webhook. *)
LEMMA HandlerRefines ==
  ASSUME ControlOK, NEW c \in Call, Handler(c) \/ Drop(c)
  PROVE  Quota!Next \/ UNCHANGED engineVars
<1>1. Slot(c) \in QuotaTask
  BY SlotIsTask
<1>2. CASE Reserve(c) \/ Refuse(c)
  <2>1. Quota!TaskStep(Slot(c)) \/ UNCHANGED engineVars
    BY <1>2, DemandIsOne DEF Reserve, Refuse, Quota!TaskStep, Quota!Reserve, Quota!Refuse
  <2> QED
    BY <1>1, <2>1 DEF Quota!Next, QuotaTask
<1>3. CASE UpdateWebhook(c)
  <2>1. PICK w \in HeldWebhook(c) :
          Quota!Update(w, <<w, "webhook">>, Figures(reply[c])[1], Figures(reply[c])[2])
    BY <1>3 DEF UpdateWebhook
  <2>2. w \in Webhook
    BY DEF HeldWebhook
  <2>3. <<w, "webhook">> \in ClientBuckets
    BY <2>2 DEF ClientBuckets, BucketsOfResource
  <2>4. Figures(reply[c]) \in AllFigures
    BY <1>3 DEF UpdateWebhook, ControlOK, AllFigures
  <2> QED
    BY <2>1, <2>2, <2>3, <2>4 DEF Quota!Next
<1>4. CASE UpdateGlobal(c)
  <2>1. PICK e \in HeldEgress(c) : Quota!Update(e, <<e, "global">>, 0, CapacityOf["global"])
    BY <1>4 DEF UpdateGlobal
  <2>2. e \in Egress /\ e \notin Webhook
    BY ClientAssumption DEF HeldEgress
  <2>3. <<e, "global">> \in ClientBuckets
    BY <2>2 DEF ClientBuckets, BucketsOfResource
  <2>4. <<0, CapacityOf["global"]>> \in AllFigures
    BY DEF AllFigures
  <2>5. Quota!Update(e, <<e, "global">>,
                     <<0, CapacityOf["global"]>>[1], <<0, CapacityOf["global"]>>[2])
    BY <2>1
  <2> QED
    BY <2>2, <2>3, <2>4, <2>5 DEF Quota!Next
<1>5. CASE Retry(c)
  BY <1>5 DEF Retry
<1>6. CASE Conclude(c)
  <2>1. UNCHANGED engineVars \/ \E w \in Webhook : Quota!SetAlive(w, FALSE)
    BY <1>6 DEF Conclude, HeldWebhook
  <2> QED
    BY <2>1 DEF Quota!Next
<1>7. CASE Drop(c)
  <2>1. UNCHANGED engineVars \/ Quota!TaskStep(Slot(c))
    BY <1>7 DEF Drop, Quota!TaskStep
  <2> QED
    BY <1>1, <2>1 DEF Quota!Next, QuotaTask
<1> QED
  BY <1>2, <1>3, <1>4, <1>5, <1>6, <1>7 DEF Handler

(* Every step keeps ControlOK. *)
LEMMA ControlStep ==
  ASSUME ControlOK, [Next]_vars
  PROVE  ControlOK'
<1> USE DEF ControlOK
<1>1. ASSUME NEW c \in Call, Pull(c) \/ Wait(c) \/ Spend(c) \/ Abandon(c) \/ Late(c)
      PROVE  ControlOK'
  BY <1>1 DEF Pull, Wait, Spend, Abandon, Late
<1>2. ASSUME NEW c \in Call, BodyFails(c) \/ Reserve(c) \/ Refuse(c) \/ Drop(c) \/ Conclude(c)
      PROVE  ControlOK'
  <2>1. pc' = pc \/ \E place \in {"open", "done", "failed", "dropped"} : Go(c, place)
    BY <1>2 DEF BodyFails, Reserve, Refuse, Drop, Conclude
  <2>2. UNCHANGED <<job, attempt, reply>>
    BY <1>2 DEF BodyFails, Reserve, Refuse, Drop, Conclude
  <2> QED
    BY <2>1, <2>2 DEF Go, Place, Ends
<1>3. ASSUME NEW c \in Call, Retry(c)
      PROVE  ControlOK'
  <2>1. attempt[c] + 1 \in 1..Attempts
    BY <1>3, ClientAssumption DEF Retry, MayRetry
  <2> QED
    BY <1>3, <2>1 DEF Retry, Go, Place
<1>4. ASSUME NEW c \in Call, UpdateWebhook(c)
      PROVE  ControlOK'
  <2>1. \E place \in {"global", "conclude"} : Go(c, place)
    BY <1>4 DEF UpdateWebhook
  <2>2. \E r : reply' = [reply EXCEPT ![c] = r]
    BY <1>4 DEF UpdateWebhook
  <2>3. UNCHANGED <<job, attempt>>
    BY <1>4 DEF UpdateWebhook
  <2> QED
    BY <2>1, <2>2, <2>3 DEF Go, Place, Ends
<1>5. ASSUME NEW c \in Call, UpdateGlobal(c)
      PROVE  ControlOK'
  <2>1. \E r : reply' = [reply EXCEPT ![c] = r]
    BY <1>5 DEF UpdateGlobal
  <2> QED
    BY <1>5, <2>1 DEF UpdateGlobal, Go, Place
<1>6. ASSUME NEW c \in Call, Answer(c)
      PROVE  ControlOK'
  <2>1. PICK rep \in Replies : reply' = [reply EXCEPT ![c] = rep] /\ Go(c, AfterReply(rep))
    BY <1>6 DEF Answer
  <2>2. AfterReply(rep) \in Place
    BY DEF AfterReply, Place, Ends
  <2> QED
    BY <1>6, <2>1, <2>2 DEF Answer, Go
<1>7. ASSUME NEW w \in Doomed, Die(w)
      PROVE  ControlOK'
  BY <1>7 DEF Die
<1>8. CASE Tick
  BY <1>8 DEF Tick
<1>9. CASE UNCHANGED vars
  BY <1>9 DEF vars
<1> QED
  BY <1>1, <1>2, <1>3, <1>4, <1>5, <1>6, <1>7, <1>8, <1>9 DEF Next, Body, Handler

(* Every step of the client is a step of the engine, or leaves it alone. *)
LEMMA StepRefines ==
  ASSUME ControlOK, [Next]_vars
  PROVE  [Quota!Next]_engineVars
<1>1. ASSUME NEW c \in Call, Body(c) \/ Handler(c) \/ Abandon(c) \/ Drop(c)
      PROVE  Quota!Next \/ UNCHANGED engineVars
  BY <1>1, BodyRefines, HandlerRefines
<1>2. ASSUME NEW c \in Call, Answer(c) \/ Late(c)
      PROVE  UNCHANGED engineVars
  BY <1>2 DEF Answer, Late
<1>3. ASSUME NEW w \in Doomed, Die(w)
      PROVE  UNCHANGED engineVars
  BY <1>3 DEF Die
<1>4. CASE Tick
  BY <1>4 DEF Tick, Quota!Next
<1>5. CASE UNCHANGED vars
  BY <1>5 DEF vars
<1> QED
  BY <1>1, <1>2, <1>3, <1>4, <1>5 DEF Next

(* So ControlOK holds in every behaviour. *)
LEMMA ControlHolds == Spec => []ControlOK
<1>1. Init => ControlOK
  BY ClientAssumption DEF Init, ControlOK, Place
<1>2. ControlOK /\ [Next]_vars => ControlOK'
  BY ControlStep
<1> QED
  BY <1>1, <1>2, PTL DEF Spec

(* Whatever calls do, and however they fail, the engine sees its protocol.  *)
THEOREM ImplementsQuota == Spec => Quota!Spec
<1>1. Init => Quota!Init
  BY DEF Init
<1>2. ControlOK /\ [Next]_vars => [Quota!Next]_(Quota!vars)
  BY StepRefines DEF engineVars, Quota!vars, Quota!engine, Quota!tasks
<1> QED
  BY <1>1, <1>2, ControlHolds, PTL DEF Spec, Quota!Spec
----------------------------------------------------------------------------
(* The engine's own theorems, of the engine as the client builds it. *)

Engine == INSTANCE QuotaEngineProofs WITH
  Task       <- Call \X (1..Attempts),
  Bucket     <- ClientBuckets,
  Shared     <- {},
  Resource   <- Webhook \cup Egress,
  Pools      <- <<Webhooks, Egresses>>,
  BucketsOf  <- BucketsOfResource,
  Interval   <- [b \in ClientBuckets |-> IntervalOf[b[2]]],
  Capacity   <- [b \in ClientBuckets |-> CapacityOf[b[2]]],
  Safety     <- [b \in ClientBuckets |-> 0],
  Demands    <- {Unpinned} \cup {Pinned(w) : w \in Webhook},
  Mortal     <- Webhook,
  Headers    <- AllFigures,
  MaxUpdates <- 2 * Cardinality(Call) * Attempts

(* The client's configuration is one that the engine assumes. *)
LEMMA EngineAssumption == Engine!QuotaAssumption
<1> USE ClientAssumption
<1>1. <<Webhooks, Egresses>> \in Seq(Seq(Webhook \cup Egress))
  <2>1. Webhooks \in Seq(Webhook \cup Egress) /\ Egresses \in Seq(Webhook \cup Egress)
    OBVIOUS
  <2> QED
    BY <2>1
<1>2. BucketsOfResource \in [Webhook \cup Egress -> SUBSET ClientBuckets]
  BY DEF BucketsOfResource, ClientBuckets
<1>3. ASSUME NEW b \in ClientBuckets
      PROVE  b[2] \in Kind
  <2>1. PICK r \in Webhook \cup Egress : b \in BucketsOfResource[r]
    BY DEF ClientBuckets
  <2>2. PICK kind \in Kind : b = <<r, kind>>
    BY <2>1 DEF BucketsOfResource, Kind
  <2> QED
    BY <2>2
<1>4. /\ [b \in ClientBuckets |-> IntervalOf[b[2]]] \in [ClientBuckets -> Nat \ {0}]
      /\ [b \in ClientBuckets |-> CapacityOf[b[2]]] \in [ClientBuckets -> Nat]
      /\ [b \in ClientBuckets |-> 0] \in [ClientBuckets -> Nat]
  BY <1>3
<1>5. {Unpinned} \cup {Pinned(w) : w \in Webhook}
        \subseteq [DOMAIN <<Webhooks, Egresses>> -> Webhook \cup Egress \cup {Free}]
  BY DEF Unpinned, Pinned
<1>6. AllFigures \subseteq Nat \X Nat
  <2>1. CapacityOf["webhook"] \in Nat /\ CapacityOf["global"] \in Nat
    BY DEF Kind
  <2>2. ASSUME NEW rep \in Replies
        PROVE  Figures(rep) \in Nat \X Nat
    <3>1. rep.report = Silent \/ rep.report \in (Nat \cup {Missing}) \X Nat
      BY DEF Reply
    <3>2. CASE rep.report = Silent
      BY <2>1, <3>2 DEF Figures
    <3>3. CASE rep.report # Silent
      BY <2>1, <3>1, <3>3 DEF Figures
    <3> QED
      BY <3>2, <3>3
  <2> QED
    BY <2>1, <2>2 DEF AllFigures
<1>7. 2 * Cardinality(Call) * Attempts \in Nat
  <2>1. Cardinality(Call) \in Nat
    BY FS_CardinalityType
  <2>2. \A m, n \in Nat : m * n \in Nat
    OBVIOUS
  <2> QED
    BY <2>1, <2>2
<1> QED
  BY <1>1, <1>2, <1>4, <1>5, <1>6, <1>7 DEF Engine!QuotaAssumption

(* Quota, the engine that the model of the client steps, is the engine that *)
(* the theorems are instantiated for: definition by definition, then action *)
(* by action.                                                                *)
LEMMA SameInit == Quota!Init <=> Engine!Init
BY DEF Quota!Init, Engine!Init

(* They read the horizons alike. *)
LEMMA SameTerms ==
  /\ Quota!Tolerance = Engine!Tolerance
  /\ \A rs : Quota!Touched(rs) = Engine!Touched(rs)
  /\ \A horizon, bs : Quota!Instants(horizon, bs) = Engine!Instants(horizon, bs)
  /\ \A at, horizon, bs :
       Quota!Earliest(at, horizon, bs) = Engine!Earliest(at, horizon, bs)
  /\ \A b, m, n : Quota!Anchored(b, m, n) = Engine!Anchored(b, m, n)
<1>1. Quota!Tolerance = Engine!Tolerance
  BY DEF Quota!Tolerance, Engine!Tolerance, Quota!EffectiveCapacity,
         Engine!EffectiveCapacity, Quota!Later, Engine!Later
<1>2. \A rs : Quota!Touched(rs) = Engine!Touched(rs)
  BY DEF Quota!Touched, Engine!Touched
<1>3. \A horizon, bs : Quota!Instants(horizon, bs) = Engine!Instants(horizon, bs)
  BY <1>1 DEF Quota!Instants, Engine!Instants
<1>4. \A at, horizon, bs :
        Quota!Earliest(at, horizon, bs) = Engine!Earliest(at, horizon, bs)
  BY <1>1 DEF Quota!Earliest, Engine!Earliest
<1>5. \A b, m, n : Quota!Anchored(b, m, n) = Engine!Anchored(b, m, n)
  BY DEF Quota!Anchored, Engine!Anchored, Quota!Later, Engine!Later
<1> QED
  BY <1>1, <1>2, <1>3, <1>4, <1>5

(* They select alike. *)
LEMMA SameChoice == \A d, choice : Quota!Choice(d, choice) <=> Engine!Choice(d, choice)
<1>1. \A r, q : Quota!NoBusier(r, q) <=> Engine!NoBusier(r, q)
  BY SameTerms DEF Quota!NoBusier, Engine!NoBusier
<1>2. \A pool, i : Quota!MostRested(pool, i) <=> Engine!MostRested(pool, i)
  BY <1>1 DEF Quota!MostRested, Engine!MostRested
<1>3. \A pool, pin, r : Quota!Resolves(pool, pin, r) <=> Engine!Resolves(pool, pin, r)
  BY <1>2 DEF Quota!Resolves, Engine!Resolves
<1> QED
  BY <1>3 DEF Quota!Choice, Engine!Choice

(* They admit alike. *)
LEMMA SameAdmit == \A p, d : Quota!Admit(p, d) <=> Engine!Admit(p, d)
<1>1. \A bs, t : Quota!AdvanceReserve(bs, t) <=> Engine!AdvanceReserve(bs, t)
  BY DEF Quota!AdvanceReserve, Engine!AdvanceReserve, Quota!Later, Engine!Later
<1> QED
  BY <1>1, SameTerms, SameChoice DEF Quota!Admit, Engine!Admit

(* They refuse alike. *)
LEMMA SameReject == \A p, d : Quota!Reject(p, d) <=> Engine!Reject(p, d)
BY SameTerms, SameChoice DEF Quota!Reject, Engine!Reject, Quota!engine, Engine!engine

(* They run reservations alike. *)
LEMMA SameTaskStep == \A p : Quota!TaskStep(p) <=> Engine!TaskStep(p)
<1>1. \A p : Quota!Subscribe(p) <=> Engine!Subscribe(p)
  BY DEF Quota!Subscribe, Engine!Subscribe, Quota!engine, Engine!engine
<1>2. \A p : Quota!Commit(p) <=> Engine!Commit(p)
  BY SameTerms DEF Quota!Commit, Engine!Commit, Quota!AdvanceCommit,
                   Engine!AdvanceCommit, Quota!Later, Engine!Later, Quota!Ring, Engine!Ring
<1>3. \A p : Quota!Park(p) <=> Engine!Park(p)
  BY SameTerms DEF Quota!Park, Engine!Park, Quota!engine, Engine!engine
<1>4. \A p : Quota!Release(p) <=> Engine!Release(p)
  BY SameTerms DEF Quota!Release, Engine!Release, Quota!Holding, Engine!Holding,
                   Quota!ReleaseReserve, Engine!ReleaseReserve, Quota!Later, Engine!Later
<1> QED
  BY <1>1, <1>2, <1>3, <1>4, SameAdmit, SameReject
  DEF Quota!TaskStep, Engine!TaskStep, Quota!Reserve, Engine!Reserve,
      Quota!Refuse, Engine!Refuse

(* They take the same steps. *)
LEMMA SameNext == Quota!Next <=> Engine!Next
<1>1. \A r, b, m, n : Quota!Update(r, b, m, n) <=> Engine!Update(r, b, m, n)
  BY SameTerms DEF Quota!Update, Engine!Update, Quota!Reconcile, Engine!Reconcile,
                   Quota!Later, Engine!Later, Quota!Ring, Engine!Ring
<1>2. \A r, v : Quota!SetAlive(r, v) <=> Engine!SetAlive(r, v)
  BY DEF Quota!SetAlive, Engine!SetAlive, Quota!tasks, Engine!tasks
<1>3. Quota!Tick <=> Engine!Tick
  BY DEF Quota!Tick, Engine!Tick, Quota!engine, Engine!engine, Quota!tasks, Engine!tasks
<1> QED
  BY <1>1, <1>2, <1>3, SameTaskStep DEF Quota!Next, Engine!Next

(* So the client uses the engine that the theorems are about. *)
LEMMA UsesEngine == Spec => Engine!Spec
<1>1. [Quota!Next]_(Quota!vars) => [Engine!Next]_(Engine!vars)
  BY SameNext DEF Quota!vars, Engine!vars, Quota!engine, Engine!engine, Quota!tasks,
                  Engine!tasks
<1>2. Quota!Spec => Engine!Spec
  BY <1>1, SameInit, PTL DEF Quota!Spec, Engine!Spec
<1> QED
  BY <1>2, ImplementsQuota, PTL

(* However calls fail, are dropped, retry or overlap, no webhook and no proxy *)
(* (client.rs:272-305 builds their buckets) is sent more requests in any      *)
(* window of time than its burst and what the window refills.                 *)
THEOREM ClientConforms == Spec => []Quota!RateConformance
<1>1. Engine!Spec => []Engine!RateConformance
  BY EngineAssumption, Engine!Conformance
<1>2. Quota!RateConformance <=> Engine!RateConformance
  BY SameTerms DEF Quota!RateConformance, Engine!RateConformance
<1> QED
  BY <1>1, <1>2, UsesEngine, PTL

----------------------------------------------------------------------------
(* What calls pay, what they tell their callers, and which webhooks they    *)
(* leave alone.                                                             *)

(* The part of the engine's types that calls rely on. *)
EngineTypes ==
  /\ picks \in [QuotaTask -> SUBSET QuotaResource]
  /\ alive \in [QuotaResource -> BOOLEAN]
  /\ log \in [ClientBuckets -> Seq(Nat)]

(* They hold in every behaviour, for the engine's own types do. *)
LEMMA EngineTyped == Spec => []EngineTypes
<1>1. Engine!Spec => []Engine!TypeOK
  BY EngineAssumption, Engine!TypeCorrect
<1>2. Engine!TypeOK => EngineTypes
  BY DEF Engine!TypeOK, EngineTypes, QuotaTask, QuotaResource
<1> QED
  BY <1>1, <1>2, UsesEngine, PTL

----------------------------------------------------------------------------
(* The engine under a call *)

(* Logs only grow, and nothing revives a webhook. *)
LEMMA EngineGrows ==
  ASSUME ControlOK, EngineTypes, [Next]_vars
  PROVE  /\ \A b \in ClientBuckets : Len(log'[b]) >= Len(log[b])
         /\ \A w \in Webhook : ~ alive[w] => ~ alive'[w]
<1> USE DEF EngineTypes
<1>1. ASSUME NEW p \in QuotaTask, Quota!Commit(p)
      PROVE  \A b \in ClientBuckets : Len(log'[b]) >= Len(log[b])
  BY <1>1 DEF Quota!Commit
<1>2. ASSUME NEW p \in QuotaTask, Quota!Commit(p)
      PROVE  alive' = alive
  BY <1>2 DEF Quota!Commit
<1>3. ASSUME NEW p, Quota!Subscribe(p) \/ Quota!Park(p) \/ Quota!Release(p)
      PROVE  log' = log /\ alive' = alive
  BY <1>3 DEF Quota!Subscribe, Quota!Park, Quota!Release, Quota!engine
<1>4. ASSUME UNCHANGED engineVars
      PROVE  log' = log /\ alive' = alive
  BY <1>4 DEF engineVars
<1>5. ASSUME NEW c \in Call, Reserve(c) \/ Refuse(c)
      PROVE  log' = log /\ alive' = alive
  BY <1>4, <1>5 DEF Reserve, Refuse, Quota!Admit, Quota!Reject, Quota!engine
<1>6. ASSUME NEW c \in Call, UpdateWebhook(c) \/ UpdateGlobal(c)
      PROVE  log' = log /\ alive' = alive
  BY <1>6 DEF UpdateWebhook, UpdateGlobal, Quota!Update
<1>7. ASSUME NEW c \in Call, Conclude(c)
      PROVE  log' = log /\ \A w \in Webhook : ~ alive[w] => ~ alive'[w]
  <2>1. CASE UNCHANGED engineVars
    BY <1>4, <2>1
  <2>2. CASE \E w \in HeldWebhook(c) : Quota!SetAlive(w, FALSE)
    BY <2>2 DEF Quota!SetAlive, HeldWebhook, QuotaResource
  <2> QED
    BY <1>7, <2>1, <2>2 DEF Conclude
<1>8. ASSUME NEW c \in Call, Body(c) \/ Abandon(c) \/ Drop(c) \/ Answer(c) \/ Late(c) \/ Retry(c)
      PROVE  /\ \A b \in ClientBuckets : Len(log'[b]) >= Len(log[b])
             /\ alive' = alive
  <2>1. Slot(c) \in QuotaTask
    BY SlotIsTask
  <2>2. \/ UNCHANGED engineVars
        \/ Quota!Subscribe(Slot(c)) \/ Quota!Park(Slot(c)) \/ Quota!Release(Slot(c))
        \/ Quota!Commit(Slot(c))
    BY <1>8 DEF Body, Pull, BodyFails, Wait, Spend, Abandon, Drop, Answer, Late, Retry
  <2>3. log' = log => \A b \in ClientBuckets : Len(log'[b]) >= Len(log[b])
    OBVIOUS
  <2> QED
    BY <1>1, <1>2, <1>3, <1>4, <2>1, <2>2, <2>3
<1>9. CASE Tick
  BY <1>9 DEF Tick, Quota!Tick, Quota!engine
<1>10. ASSUME NEW w \in Doomed, Die(w)
       PROVE  log' = log /\ alive' = alive
  BY <1>4, <1>10 DEF Die
<1>11. CASE UNCHANGED vars
  BY <1>4, <1>11 DEF vars
<1>12. log' = log => \A b \in ClientBuckets : Len(log'[b]) >= Len(log[b])
  OBVIOUS
<1> QED
  BY <1>5, <1>6, <1>7, <1>8, <1>9, <1>10, <1>11, <1>12 DEF Next, Handler

(* A reservation holds one webhook, which was alive, and one egress. *)
LEMMA AdmitHolds ==
  ASSUME ControlOK, EngineTypes, NEW c \in Call, Reserve(c)
  PROVE  \E w \in Webhook : /\ alive[w]
                            /\ picks'[Slot(c)] \cap Webhook = {w}
<1>1. PICK choice \in [DOMAIN <<Webhooks, Egresses>> -> Webhook \cup Egress] :
        /\ Quota!Choice(Demand(c), choice)
        /\ picks' = [picks EXCEPT ![Slot(c)] =
                       {choice[k] : k \in DOMAIN <<Webhooks, Egresses>>}]
  BY DEF Reserve, Quota!Admit
<1>2. DOMAIN <<Webhooks, Egresses>> = {1, 2}
  OBVIOUS
<1>3. /\ Quota!Resolves(Webhooks, Demand(c)[1], choice[1])
      /\ Quota!Resolves(Egresses, Demand(c)[2], choice[2])
  BY <1>1, <1>2 DEF Quota!Choice
<1>4. choice[1] \in Webhook /\ alive[choice[1]] /\ choice[2] \in Egress
  BY <1>3 DEF Quota!Resolves, Webhook, Egress, Entries
<1>5. picks'[Slot(c)] = {choice[1], choice[2]}
  BY <1>1, <1>2, SlotIsTask DEF EngineTypes
<1>6. Webhook \cap Egress = {}
  BY ClientAssumption
<1> QED
  BY <1>4, <1>5, <1>6

----------------------------------------------------------------------------
(* What requests pay *)

Paid ==
  /\ hits \in [Webhook -> Nat]
  /\ NothingUnpaid

(* Only the gate completes a request, and it spends a token of the webhook. *)
LEMMA PaidStep ==
  ASSUME ControlOK, EngineTypes, EngineTypes', Paid, [Next]_vars
  PROVE  Paid'
<1>1. ASSUME NEW w \in Webhook
      PROVE  <<w, "webhook">> \in ClientBuckets /\ <<w, "webhook">> \in BucketsOfResource[w]
  BY DEF ClientBuckets, BucketsOfResource
<1>2. ASSUME NEW c \in Call, Spend(c)
      PROVE  Paid'
  <2>1. PICK w \in HeldWebhook(c), n \in {0, 1} : hits' = [hits EXCEPT ![w] = @ + n]
    BY <1>2 DEF Spend
  <2>2. w \in Webhook /\ w \in picks[Slot(c)]
    BY DEF HeldWebhook
  <2> DEFINE b == <<w, "webhook">>
  <2>3. b \in Quota!Touched(picks[Slot(c)])
    BY <1>1, <2>2 DEF Quota!Touched
  <2>4. log'[b] = Append(log[b], now)
    BY <1>1, <1>2, <2>2, <2>3 DEF Spend, Quota!Commit
  <2>5. Len(log'[b]) = Len(log[b]) + 1 /\ Len(log[b]) \in Nat
    BY <1>1, <2>2, <2>4 DEF EngineTypes
  <2>6. hits' \in [Webhook -> Nat]
    BY <2>1, <2>2 DEF Paid
  <2>7. ASSUME NEW v \in Webhook
        PROVE  hits'[v] <= Len(log'[<<v, "webhook">>])
    <3>1. hits[v] \in Nat /\ hits[v] <= Len(log[<<v, "webhook">>])
      BY DEF Paid, NothingUnpaid
    <3>2. CASE v = w
      <4>1. hits'[v] = hits[v] + n
        BY <2>1, <2>2, <3>2 DEF Paid
      <4> QED
        BY <2>5, <3>1, <3>2, <4>1
    <3>3. CASE v # w
      <4>1. hits'[v] = hits[v]
        BY <2>1, <2>2, <3>3 DEF Paid
      <4>2. /\ Len(log[<<v, "webhook">>]) \in Nat /\ Len(log'[<<v, "webhook">>]) \in Nat
            /\ Len(log'[<<v, "webhook">>]) >= Len(log[<<v, "webhook">>])
        BY <1>1, EngineGrows DEF EngineTypes
      <4> QED
        BY <3>1, <4>1, <4>2
    <3> QED
      BY <3>2, <3>3
  <2> QED
    BY <2>6, <2>7 DEF Paid, NothingUnpaid
<1>3. ASSUME hits' = hits
      PROVE  Paid'
  <2>1. ASSUME NEW v \in Webhook
        PROVE  hits'[v] <= Len(log'[<<v, "webhook">>])
    <3>1. hits[v] \in Nat /\ hits[v] <= Len(log[<<v, "webhook">>])
      BY DEF Paid, NothingUnpaid
    <3>2. /\ Len(log[<<v, "webhook">>]) \in Nat /\ Len(log'[<<v, "webhook">>]) \in Nat
          /\ Len(log'[<<v, "webhook">>]) >= Len(log[<<v, "webhook">>])
      BY <1>1, EngineGrows DEF EngineTypes
    <3> QED
      BY <1>3, <3>1, <3>2
  <2> QED
    BY <1>3, <2>1 DEF Paid, NothingUnpaid
<1>4. hits' = hits \/ \E c \in Call : Spend(c)
  BY DEF Next, Body, Handler, Pull, BodyFails, Wait, Reserve, Refuse, UpdateWebhook,
         UpdateGlobal, Retry, Conclude, Abandon, Drop, Answer, Late, Die, Tick, vars, bodies
<1> QED
  BY <1>2, <1>3, <1>4

(* Whatever is cut short, refused or retried, a webhook sees no more requests *)
(* than the engine has spent its tokens for.                                  *)
THEOREM NoRequestUnpaid == Spec => []NothingUnpaid
<1>1. Init => Paid
  <2>1. \A w \in Webhook : <<w, "webhook">> \in ClientBuckets
    BY DEF ClientBuckets, BucketsOfResource
  <2> QED
    BY <2>1 DEF Init, Paid, NothingUnpaid, Quota!Init
<1>2. ControlOK /\ EngineTypes /\ EngineTypes' /\ Paid /\ [Next]_vars => Paid'
  BY PaidStep
<1>3. Paid => NothingUnpaid
  BY DEF Paid
<1> QED
  BY <1>1, <1>2, <1>3, ControlHolds, EngineTyped, PTL DEF Spec

----------------------------------------------------------------------------
(* What callers are told *)

Busy == {"open", "webhook", "global", "conclude"}

(* Until a post is answered it has no status to conclude from. *)
Unanswered(c) ==
  Posting(c) /\ pc[c] \in {"start", "open"} => reply[c].status = "broken"

(* A call that is under way goes to one webhook, the one its reservation holds. *)
HoldsOne(c) ==
  pc[c] \in Busy => \E w \in Webhook : HeldWebhook(c) = {w}

(* A post that failed for its webhook has buried it. *)
Buried(c) ==
  (pc[c] = "failed" /\ Posting(c) /\ reply[c].status \in Dead)
    => WebhookOf(c) \in Webhook /\ ~ alive[WebhookOf(c)]

(* Good news of a response are true, and nobody makes them false. *)
Told(c) ==
  pc[c] \in {"webhook", "global", "conclude", "done"} =>
    /\ Posting(c) /\ reply[c].status = "ok" => Message(c) \in stored
    /\ job[c].op = "delete" /\ Success(c) =>
         Message(c) \notin stored \/ WebhookOf(c) \in gone

Sure(c) == pc[c] = "done" => Success(c)

CallOK(c) ==
  /\ reply[c] \in Reply
  /\ Unanswered(c)
  /\ HoldsOne(c)
  /\ Buried(c)
  /\ Told(c)
  /\ Sure(c)

CallsOK == \A c \in Call : CallOK(c)

(* The service only adds a call's own message, and only deletes old ones. *)
LEMMA StoreStep ==
  ASSUME ControlOK, [Next]_vars
  PROVE  /\ gone \subseteq gone'
         /\ \A c \in Call : \A w : <<w, c>> \in stored => <<w, c>> \in stored'
         /\ \A w : <<w, Old>> \notin stored => <<w, Old>> \notin stored'
<1>1. Old \notin Call
  BY ClientAssumption
<1>2. ASSUME NEW d \in Call, Effect(d)
      PROVE  /\ \A c \in Call : \A w : <<w, c>> \in stored => <<w, c>> \in stored'
             /\ \A w : <<w, Old>> \notin stored => <<w, Old>> \notin stored'
  <2>1. job[d].op \in {"post", "resolve", "delete"}
    BY ClientAssumption DEF ControlOK
  <2> QED
    BY <1>1, <1>2, <2>1 DEF Effect, Message, Posting
<1>3. ASSUME NEW d \in Call, Answer(d) \/ Late(d)
      PROVE  UNCHANGED gone /\ (UNCHANGED stored \/ Effect(d))
  <2>1. CASE Answer(d)
    <3>1. PICK rep \in Replies : Response(d, rep.status)
      BY <2>1 DEF Answer
    <3>2. rep.status \in Status
      BY ClientAssumption DEF Reply
    <3> QED
      BY <2>1, <3>1, <3>2 DEF Answer, Response, Status, Dead
  <2>2. CASE Late(d)
    BY <2>2 DEF Late
  <2> QED
    BY <1>3, <2>1, <2>2
<1>4. ASSUME NEW w \in Doomed, Die(w)
      PROVE  UNCHANGED stored /\ gone \subseteq gone'
  BY <1>4 DEF Die
<1>5. \/ UNCHANGED service
      \/ \E d \in Call : Answer(d) \/ Late(d)
      \/ \E w \in Doomed : Die(w)
  BY DEF Next, Body, Handler, Pull, BodyFails, Wait, Spend, Reserve, Refuse, UpdateWebhook,
         UpdateGlobal, Retry, Conclude, Abandon, Drop, Tick, vars, service
<1> QED
  BY <1>2, <1>3, <1>4, <1>5 DEF service

(* Only a reservation changes what its slot holds, and nothing what a call is for. *)
LEMMA SlotKept ==
  ASSUME ControlOK, EngineTypes, [Next]_vars, NEW c \in Call
  PROVE  /\ job' = job
         /\ ~ Reserve(c) => picks'[Slot(c)] = picks[Slot(c)]
<1>1. job' = job
  BY DEF Next, Body, Handler, Pull, BodyFails, Wait, Spend, Reserve, Refuse, UpdateWebhook,
         UpdateGlobal, Retry, Conclude, Abandon, Drop, Answer, Late, Die, Tick, vars
<1>2. ASSUME NEW d \in Call, d # c, Reserve(d)
      PROVE  picks'[Slot(c)] = picks[Slot(c)]
  <2>1. PICK rs : picks' = [picks EXCEPT ![Slot(d)] = rs]
    BY <1>2 DEF Reserve, Quota!Admit
  <2>2. Slot(d) # Slot(c)
    BY <1>2 DEF Slot
  <2> QED
    BY <2>1, <2>2, SlotIsTask DEF EngineTypes
<1>3. picks' = picks \/ \E d \in Call : Reserve(d)
  <2>1. ASSUME NEW d \in Call, Body(d) \/ Abandon(d) \/ Drop(d)
        PROVE  picks' = picks
    BY <2>1 DEF Body, Pull, BodyFails, Wait, Spend, Abandon, Drop, engineVars,
                Quota!Release, Quota!Subscribe, Quota!Park, Quota!Commit
  <2>2. ASSUME NEW d \in Call, Refuse(d) \/ UpdateWebhook(d) \/ UpdateGlobal(d)
                               \/ Retry(d) \/ Conclude(d)
        PROVE  picks' = picks
    BY <2>2 DEF Refuse, UpdateWebhook, UpdateGlobal, Retry, Conclude, engineVars,
                Quota!Reject, Quota!Update, Quota!SetAlive, Quota!tasks
  <2>3. CASE UNCHANGED engineVars
    BY <2>3 DEF engineVars
  <2>4. CASE Tick
    BY <2>4 DEF Tick, Quota!Tick, Quota!tasks
  <2>5. ASSUME NEW d \in Call, Answer(d) \/ Late(d)
        PROVE  UNCHANGED engineVars
    BY <2>5 DEF Answer, Late
  <2>6. ASSUME NEW w \in Doomed, Die(w)
        PROVE  UNCHANGED engineVars
    BY <2>6 DEF Die
  <2> QED
    BY <2>1, <2>2, <2>3, <2>4, <2>5, <2>6 DEF Next, Handler, vars
<1> QED
  BY <1>1, <1>2, <1>3

(* What a call refers to stays the same. *)
Kept(c) ==
  /\ Posting(c)' = Posting(c) /\ HeldWebhook(c)' = HeldWebhook(c)
  /\ WebhookOf(c)' = WebhookOf(c) /\ Message(c)' = Message(c)

(* A step that neither reserves for a call nor tries it again keeps it. *)
LEMMA SameAttempt ==
  ASSUME ControlOK, EngineTypes, [Next]_vars, NEW c \in Call,
         attempt'[c] = attempt[c], ~ Reserve(c)
  PROVE  Kept(c)
<1>1. Posting(c)' = Posting(c) /\ HeldWebhook(c)' = HeldWebhook(c) /\ job' = job
  BY SlotKept DEF Slot, Posting, HeldWebhook
<1>2. WebhookOf(c)' = WebhookOf(c)
  BY <1>1 DEF WebhookOf
<1> QED
  BY <1>1, <1>2 DEF Kept, Message

(* A call that stays where it is keeps what is true of it. *)
LEMMA Bystander ==
  ASSUME ControlOK, EngineTypes, CallsOK, [Next]_vars, NEW c \in Call,
         pc'[c] = pc[c], reply'[c] = reply[c], attempt'[c] = attempt[c], ~ Reserve(c)
  PROVE  CallOK(c)'
<1>1. job' = job /\ Success(c)' = Success(c)
  BY SlotKept DEF Success
<1>2. Kept(c)
  BY SameAttempt
<1>3. Posting(c) => Message(c) = <<WebhookOf(c), c>>
  BY DEF Message
<1>4. job[c].op = "delete" => Message(c) = <<WebhookOf(c), Old>>
  BY DEF Message, Posting
<1>5. CallOK(c)
  BY DEF CallsOK
<1>6. Told(c)'
  BY <1>1, <1>2, <1>3, <1>4, <1>5, StoreStep DEF CallOK, Told, Kept
<1>7. Buried(c)'
  BY <1>2, <1>5, EngineGrows DEF CallOK, Buried, Kept
<1> QED
  BY <1>1, <1>2, <1>5, <1>6, <1>7 DEF CallOK, Unanswered, HoldsOne, Sure, Kept

(* A call's own step keeps what is true of it. *)
LEMMA OwnStep ==
  ASSUME ControlOK, EngineTypes, CallsOK, [Next]_vars, NEW c \in Call,
         Handler(c) \/ Drop(c) \/ Answer(c) \/ BodyFails(c)
  PROVE  CallOK(c)'
<1>1. CallOK(c)
  BY DEF CallsOK
<1>2. job' = job /\ c \in DOMAIN pc /\ c \in DOMAIN reply /\ c \in DOMAIN attempt
  BY SlotKept DEF ControlOK
<1>3. CASE Reserve(c)
  <2>1. /\ pc'[c] = "open" /\ UNCHANGED <<reply, attempt>> /\ pc[c] = "start"
    BY <1>2, <1>3 DEF Reserve, Go
  <2>2. \E w \in Webhook : HeldWebhook(c)' = {w}
    BY <1>3, <2>1, AdmitHolds DEF HeldWebhook, Slot
  <2> QED
    BY <1>1, <1>2, <2>1, <2>2 DEF CallOK, Unanswered, HoldsOne, Buried, Told, Sure, Posting
<1>4. CASE Refuse(c)
  <2>1. /\ pc'[c] = "failed" /\ UNCHANGED reply /\ pc[c] = "start"
    BY <1>2, <1>4 DEF Refuse, Go
  <2> QED
    BY <1>1, <1>2, <2>1
    DEF CallOK, Unanswered, HoldsOne, Buried, Told, Sure, Posting, Busy, Dead
<1>5. CASE BodyFails(c)
  <2>1. /\ UNCHANGED <<reply, attempt>> /\ ~ Reserve(c)
        /\ pc'[c] = pc[c] \/ (pc[c] = "open" /\ pc'[c] = "failed")
    BY <1>2, <1>5 DEF BodyFails, Go, Reserve, Quota!Release, Quota!Admit, Quota!Holding
  <2>2. CASE pc'[c] = pc[c]
    BY <2>1, <2>2, Bystander
  <2>3. CASE pc[c] = "open" /\ pc'[c] = "failed"
    BY <1>1, <1>2, <2>1, <2>3
    DEF CallOK, Unanswered, HoldsOne, Buried, Told, Sure, Posting, Busy, Dead
  <2> QED
    BY <2>1, <2>2, <2>3
<1>6. CASE Drop(c)
  <2>1. pc'[c] = "dropped" /\ UNCHANGED reply
    BY <1>2, <1>6 DEF Drop, Go
  <2> QED
    BY <1>1, <2>1 DEF CallOK, Unanswered, HoldsOne, Buried, Told, Sure, Busy
<1>7. CASE Retry(c)
  <2>1. pc'[c] = "start" /\ UNCHANGED reply /\ ~ Posting(c)
    BY <1>2, <1>7 DEF Retry, Go, Posting
  <2>2. ~ Posting(c)'
    BY <1>2, <2>1 DEF Posting
  <2> QED
    BY <1>1, <2>1, <2>2 DEF CallOK, Unanswered, HoldsOne, Buried, Told, Sure, Busy
<1>9. CASE Answer(c)
  <2>1. PICK rep \in Replies : /\ Response(c, rep.status)
                               /\ reply' = [reply EXCEPT ![c] = rep]
                               /\ Go(c, AfterReply(rep))
    BY <1>9 DEF Answer
  <2>2. /\ reply'[c] = rep /\ pc'[c] = AfterReply(rep) /\ pc[c] = "open"
        /\ UNCHANGED <<attempt, gone>> /\ rep \in Reply /\ rep.status \in Status
    BY <1>2, <1>9, <2>1, ClientAssumption DEF Answer, Go, Reply
  <2>3. Kept(c)
    BY <2>2, SameAttempt DEF Reserve
  <2>4. /\ AfterReply(rep) \in {"failed", "webhook", "global", "conclude"}
        /\ AfterReply(rep) = "failed" => rep.status = "broken"
    BY DEF AfterReply
  <2>5. Posting(c) /\ rep.status = "ok" => Message(c) \in stored'
    BY <2>1 DEF Response, Effect, Posting
  <2>6. job[c].op = "delete" /\ rep.status \in {"ok", "torn", "missing"} =>
          Message(c) \notin stored' \/ WebhookOf(c) \in gone
    BY <2>1 DEF Response, Effect, Posting
  <2>7. Success(c)' <=> \/ rep.status = "ok"
                        \/ job[c].op = "delete" /\ rep.status \in {"torn", "missing"}
    BY <1>2, <2>2 DEF Success
  <2>8. Told(c)'
    BY <1>2, <2>2, <2>3, <2>5, <2>6, <2>7 DEF Told, Kept
  <2>9. HoldsOne(c)'
    BY <1>1, <2>2, <2>3 DEF CallOK, HoldsOne, Kept, Busy
  <2> QED
    BY <2>2, <2>4, <2>8, <2>9 DEF CallOK, Unanswered, Buried, Sure, Dead
<1>10. CASE UpdateWebhook(c) \/ UpdateGlobal(c)
  <2>1. /\ pc[c] \in {"webhook", "global"} /\ pc'[c] \in {"global", "conclude"}
        /\ UNCHANGED <<attempt, service>>
    BY <1>2, <1>10 DEF UpdateWebhook, UpdateGlobal, Go
  <2>2. reply'[c] \in Reply /\ reply'[c].status = reply[c].status
    <3>1. \/ reply'[c] = [reply[c] EXCEPT !.report = Silent]
          \/ reply'[c] = [reply[c] EXCEPT !.global = FALSE]
      BY <1>2, <1>10 DEF UpdateWebhook, UpdateGlobal
    <3>2. reply[c] \in Reply
      BY <1>1 DEF CallOK
    <3> QED
      BY <3>1, <3>2 DEF Reply
  <2>3. Kept(c)
    BY <2>1, SameAttempt DEF Reserve
  <2>4. Success(c)' = Success(c) /\ UNCHANGED <<stored, gone>>
    BY <1>2, <2>1, <2>2 DEF Success, service
  <2>5. HoldsOne(c)' /\ Told(c)'
    BY <1>1, <1>2, <2>1, <2>2, <2>3, <2>4 DEF CallOK, HoldsOne, Told, Busy, Kept
  <2> QED
    BY <2>1, <2>2, <2>5 DEF CallOK, Unanswered, Buried, Sure
<1>11. CASE Conclude(c)
  <2>1. /\ pc[c] = "conclude" /\ pc'[c] = (IF Success(c) THEN "done" ELSE "failed")
        /\ UNCHANGED <<attempt, reply, service>>
    BY <1>2, <1>11 DEF Conclude, Go
  <2>2. Kept(c)
    BY <2>1, SameAttempt DEF Reserve
  <2>3. Success(c)' = Success(c) /\ UNCHANGED <<stored, gone>>
    BY <1>2, <2>1 DEF Success, service
  <2>4. ASSUME Posting(c), reply[c].status \in Dead
        PROVE  WebhookOf(c) \in Webhook /\ ~ alive'[WebhookOf(c)]
    <3>1. PICK w \in Webhook : HeldWebhook(c) = {w}
      BY <1>1, <2>1 DEF CallOK, HoldsOne, Busy
    <3>2. WebhookOf(c) = w
      BY <2>4, <3>1 DEF WebhookOf
    <3>3. alive' = [alive EXCEPT ![w] = FALSE]
      BY <1>11, <2>4, <3>1 DEF Conclude, IsDead, Dead, Quota!SetAlive
    <3>4. w \in DOMAIN alive
      BY DEF EngineTypes, QuotaResource
    <3> QED
      BY <3>2, <3>3, <3>4
  <2>5. Buried(c)'
    BY <2>1, <2>2, <2>4 DEF Buried, Kept
  <2>6. Told(c)'
    BY <1>1, <1>2, <2>1, <2>2, <2>3 DEF CallOK, Told, Kept
  <2> QED
    BY <1>1, <2>1, <2>3, <2>5, <2>6 DEF CallOK, Unanswered, HoldsOne, Sure, Busy
<1> QED
  BY <1>3, <1>4, <1>5, <1>6, <1>7, <1>9, <1>10, <1>11 DEF Handler

(* So every step keeps what is true of every call. *)
LEMMA CallsStep ==
  ASSUME ControlOK, EngineTypes, CallsOK, [Next]_vars
  PROVE  CallsOK'
<1> SUFFICES ASSUME NEW c \in Call
             PROVE  CallOK(c)'
  BY DEF CallsOK
<1>1. CASE Handler(c) \/ Drop(c) \/ Answer(c) \/ BodyFails(c)
  BY <1>1, OwnStep
<1>2. CASE ~ (Handler(c) \/ Drop(c) \/ Answer(c) \/ BodyFails(c))
  <2>1. ASSUME NEW d \in Call, d # c, Handler(d) \/ Drop(d) \/ Answer(d) \/ BodyFails(d)
        PROVE  pc'[c] = pc[c] /\ reply'[c] = reply[c] /\ attempt'[c] = attempt[c]
    <3>1. /\ attempt' = attempt \/ \E n : attempt' = [attempt EXCEPT ![d] = n]
          /\ pc' = pc \/ \E place : Go(d, place)
          /\ reply' = reply \/ \E r : reply' = [reply EXCEPT ![d] = r]
      BY <2>1 DEF Handler, Drop, Answer, BodyFails, Reserve, Refuse, UpdateWebhook,
                  UpdateGlobal, Retry, Conclude
    <3> QED
      BY <2>1, <3>1 DEF Go, ControlOK
  <2>2. ASSUME NEW d \in Call, Pull(d) \/ Wait(d) \/ Spend(d) \/ Abandon(d) \/ Late(d)
        PROVE  UNCHANGED <<pc, reply, attempt>>
    BY <2>2 DEF Pull, Wait, Spend, Abandon, Late
  <2>3. ASSUME NEW w \in Doomed, Die(w)
        PROVE  UNCHANGED <<pc, reply, attempt>>
    BY <2>3 DEF Die
  <2>4. ASSUME Tick \/ UNCHANGED vars
        PROVE  UNCHANGED <<pc, reply, attempt>>
    BY <2>4 DEF Tick, vars
  <2>5. pc'[c] = pc[c] /\ reply'[c] = reply[c] /\ attempt'[c] = attempt[c]
    BY <1>2, <2>1, <2>2, <2>3, <2>4 DEF Next, Body
  <2> QED
    BY <1>2, <2>5, Bystander DEF Handler
<1> QED
  BY <1>1, <1>2

(* It is true of every call in every behaviour. *)
LEMMA CallsHold == Spec => []CallsOK
<1>1. Init => CallsOK
  <2>1. NoReply \in Reply
    BY DEF NoReply, Reply, Status
  <2> QED
    BY <2>1 DEF Init, CallsOK, CallOK, Unanswered, HoldsOne, Buried, Told, Sure, Busy, NoReply
<1>2. ControlOK /\ EngineTypes /\ CallsOK /\ [Next]_vars => CallsOK'
  BY CallsStep
<1> QED
  BY <1>1, <1>2, ControlHolds, EngineTyped, PTL DEF Spec

(* A post that is done is stored, a message whose delete is done is gone, and  *)
(* a resolve that is done has a URL: gateways keep and drop their rows by it.  *)
THEOREM CallersAreToldTheTruth == Spec => []AnswersTrue
<1>1. ASSUME ControlOK, CallsOK
      PROVE  AnswersTrue
  <2> SUFFICES ASSUME NEW c \in Call, pc[c] = "done"
               PROVE  CASE job[c].op = "post"    -> Message(c) \in stored
                        [] job[c].op = "delete"  -> Message(c) \notin stored
                                                      \/ WebhookOf(c) \in gone
                        [] job[c].op = "resolve" -> reply[c].status = "ok"
    BY DEF AnswersTrue
  <2>1. job[c].op \in {"post", "resolve", "delete"}
    BY <1>1, ClientAssumption DEF ControlOK
  <2>2. Success(c) /\ Told(c)
    BY <1>1 DEF CallsOK, CallOK, Sure
  <2> QED
    BY <2>1, <2>2 DEF Told, Success, Posting
<1> QED
  BY <1>1, ControlHolds, CallsHold, PTL

(* Once a post has failed for a webhook that is gone, no call reserves it.     *)
THEOREM DeadWebhooksAreAvoided == Spec => DeadAvoided
<1>1. ASSUME ControlOK, EngineTypes, CallsOK, [Next]_vars, NEW c \in Call, NEW d \in Call,
             pc[d] = "failed" /\ Posting(d) /\ reply[d].status \in Dead,
             pc[c] = "start" /\ pc'[c] = "open"
      PROVE  WebhookOf(d) \notin picks'[Slot(c)]
  <2>1. Reserve(c)
    <3>1. ASSUME NEW e \in Call, Handler(e) \/ Drop(e) \/ Answer(e) \/ BodyFails(e), ~ Reserve(e)
          PROVE  pc'[c] # "open" \/ pc'[c] = pc[c]
      <4>1. \/ pc' = pc
            \/ \E place \in Place \ {"open"} : Go(e, place)
        <5>1. CASE Answer(e)
          <6>1. PICK rep \in Replies : Go(e, AfterReply(rep))
            BY <5>1 DEF Answer
          <6>2. AfterReply(rep) \in Place \ {"open"}
            BY DEF AfterReply, Place, Ends
          <6> QED
            BY <6>1, <6>2
        <5>2. CASE Refuse(e) \/ Drop(e) \/ BodyFails(e) \/ Retry(e)
          BY <5>2 DEF Refuse, Drop, BodyFails, Retry, Place, Ends
        <5>3. CASE UpdateWebhook(e) \/ UpdateGlobal(e) \/ Conclude(e)
          BY <5>3 DEF UpdateWebhook, UpdateGlobal, Conclude, Place, Ends
        <5> QED
          BY <3>1, <5>1, <5>2, <5>3 DEF Handler
      <4>2. pc \in [Call -> Place]
        BY <1>1 DEF ControlOK
      <4> QED
        BY <4>1, <4>2 DEF Go
    <3>2. ASSUME NEW e \in Call, e # c, Reserve(e)
          PROVE  pc'[c] = pc[c]
      BY <3>2 DEF Reserve, Go, ControlOK
    <3>3. ASSUME NEW e \in Call, Pull(e) \/ Wait(e) \/ Spend(e) \/ Abandon(e) \/ Late(e)
          PROVE  pc' = pc
      BY <3>3 DEF Pull, Wait, Spend, Abandon, Late
    <3>4. ASSUME NEW w \in Doomed, Die(w)
          PROVE  pc' = pc
      BY <3>4 DEF Die
    <3>5. CASE Tick \/ UNCHANGED vars
      BY <1>1, <3>5 DEF Tick, vars
    <3> QED
      BY <1>1, <3>1, <3>2, <3>3, <3>4, <3>5 DEF Next, Body
  <2>2. PICK w \in Webhook : alive[w] /\ picks'[Slot(c)] \cap Webhook = {w}
    BY <1>1, <2>1, AdmitHolds
  <2>3. WebhookOf(d) \in Webhook /\ ~ alive[WebhookOf(d)]
    BY <1>1 DEF CallsOK, CallOK, Buried
  <2> QED
    BY <2>2, <2>3
<1>2. ControlOK /\ EngineTypes /\ CallsOK /\ [Next]_vars =>
        \A c, d \in Call :
          (/\ pc[d] = "failed" /\ Posting(d) /\ reply[d].status \in Dead
           /\ pc[c] = "start" /\ pc'[c] = "open")
          => WebhookOf(d) \notin picks'[Slot(c)]
  BY <1>1
<1> QED
  BY <1>2, ControlHolds, EngineTyped, CallsHold, PTL DEF Spec, DeadAvoided
----------------------------------------------------------------------------
(* What webhooks report *)

WebhookBucket(w) == <<w, "webhook">>

(* What a report says is used, and what was spent since, is behind the      *)
(* horizon of the webhook's gate.                                           *)
Counted(t) ==
  LET b == WebhookBucket(t.webhook) IN
  /\ t.webhook \in Webhook /\ t.used \in Nat /\ t.at \in Nat
  /\ t.after \in Nat /\ t.after <= Len(log[b])
  /\ t.at + (Len(log[b]) - t.after + t.used) * IntervalOf["webhook"] <= tat[b]

AllCounted == \A t \in told : Counted(t)

(* Quota's commits are the engine's. *)
LEMMA SameCommit == \A p : Quota!Commit(p) <=> Engine!Commit(p)
BY SameTerms DEF Quota!Commit, Engine!Commit, Quota!AdvanceCommit,
                 Engine!AdvanceCommit, Quota!Later, Engine!Later, Quota!Ring, Engine!Ring

(* The engine's own invariant, of the engine as the client builds it. *)
LEMMA EngineInvariant == Spec => []Engine!IInv
<1>1. Engine!Spec => []Engine!IInv
  BY EngineAssumption, Engine!IInvHolds
<1> QED
  BY <1>1, UsesEngine, PTL

(* A webhook's bucket has an interval and, for its burst, a tolerance. *)
LEMMA WebhookRates ==
  ASSUME NEW w \in Webhook
  PROVE  /\ WebhookBucket(w) \in ClientBuckets
         /\ IntervalOf["webhook"] \in Nat \ {0}
         /\ [b \in ClientBuckets |-> IntervalOf[b[2]]][WebhookBucket(w)]
              = IntervalOf["webhook"]
         /\ Engine!Tolerance[WebhookBucket(w)] \in Nat
<1>1. WebhookBucket(w) \in ClientBuckets
  BY DEF ClientBuckets, BucketsOfResource, WebhookBucket
<1>2. IntervalOf["webhook"] \in Nat \ {0}
  BY ClientAssumption DEF Kind
<1>3. Engine!Tolerance[WebhookBucket(w)] \in Nat
  BY <1>1, EngineAssumption, Engine!ToleranceNat
<1> QED
  BY <1>1, <1>2, <1>3 DEF WebhookBucket

(* Only its own step tells the client anything, and it spends nothing. *)
LEMMA ToldBy ==
  ASSUME ControlOK, [Next]_vars
  PROVE  \/ told' = told
         \/ \E c \in Call : \E w \in HeldWebhook(c) :
              /\ reply[c] \in Replies
              /\ Quota!Update(w, WebhookBucket(w), Figures(reply[c])[1], Figures(reply[c])[2])
              /\ told' = told \cup {Report(w, reply[c])}
<1>1. told' = told \/ \E c \in Call : UpdateWebhook(c)
  BY DEF Next, Body, Handler, Pull, BodyFails, Wait, Spend, Reserve, Refuse,
         UpdateGlobal, Retry, Conclude, Abandon, Drop, Answer, Late, Die, Tick, vars
<1>2. ASSUME NEW c \in Call, UpdateWebhook(c)
      PROVE  \E w \in HeldWebhook(c) :
               /\ reply[c] \in Replies
               /\ Quota!Update(w, WebhookBucket(w), Figures(reply[c])[1], Figures(reply[c])[2])
               /\ told' = told \cup {Report(w, reply[c])}
  BY <1>2 DEF UpdateWebhook, WebhookBucket, ControlOK
<1> QED
  BY <1>1, <1>2

(* What a report says is used is what the figures made of it leave. *)
LEMMA FiguresSayUsed ==
  ASSUME NEW rep \in Replies
  PROVE  /\ Used(rep) \in Nat
         /\ Quota!Later(Quota!Later(Figures(rep)[2], 1) - Figures(rep)[1], 0) = Used(rep)
<1> USE DEF Quota!Later, Figures, Used
<1>1. rep.report = Silent \/ rep.report \in (Nat \cup {Missing}) \X Nat
  BY ClientAssumption DEF Reply
<1>2. CASE rep.report = Silent
  <2>1. CapacityOf["webhook"] \in Nat \ {0}
    BY ClientAssumption DEF Kind
  <2> QED
    BY <1>2, <2>1
<1>3. CASE rep.report # Silent /\ rep.report[1] = Missing
  <2>1. rep.report[2] \in Nat
    BY <1>1, <1>3
  <2> QED
    BY <1>3, <2>1
<1>4. CASE rep.report # Silent /\ rep.report[1] # Missing
  <2>1. rep.report[1] \in Nat /\ rep.report[2] \in Nat
    BY <1>1, <1>4
  <2> QED
    BY <1>4, <2>1
<1> QED
  BY <1>2, <1>3, <1>4

(* A report puts the horizon where what it says is used has refilled. *)
LEMMA ReportCounts ==
  ASSUME Engine!IInv, NEW w \in Webhook, NEW rep \in Replies,
         Quota!Update(w, WebhookBucket(w), Figures(rep)[1], Figures(rep)[2]),
         NEW t, t = Report(w, rep)
  PROVE  Counted(t)'
<1> DEFINE b == WebhookBucket(w)
           T == IntervalOf["webhook"]
           n == Len(log[b])
<1>1. b \in ClientBuckets /\ T \in Nat
      /\ [a \in ClientBuckets |-> IntervalOf[a[2]]][b] = T
  BY WebhookRates
<1>2. tat \in [ClientBuckets -> Int] /\ now \in Nat /\ log[b] \in Seq(Nat)
  BY <1>1 DEF Engine!IInv, Engine!TypeOK
<1>3. n \in Nat /\ log' = log
  BY <1>2 DEF Quota!Update
<1>4. Used(rep) \in Nat
  BY FiguresSayUsed
<1>5. tat'[b] = Quota!Later(tat[b], now + T * Used(rep))
  <2>1. Quota!Anchored(b, Figures(rep)[1], Figures(rep)[2]) = now + T * Used(rep)
    BY <1>1, FiguresSayUsed DEF Quota!Anchored
  <2> QED
    BY <1>1, <1>2, <2>1 DEF Quota!Update, Quota!Reconcile
<1>6. t.webhook = w /\ t.used = Used(rep) /\ t.at = now /\ t.after = n
  BY DEF Report, WebhookBucket
<1> HIDE DEF b, T, n
<1>7. T * Used(rep) = (n - n + Used(rep)) * T /\ T * Used(rep) \in Nat
  <2>1. n - n + Used(rep) = Used(rep)
    BY <1>3, <1>4
  <2>2. T * Used(rep) = Used(rep) * T /\ T * Used(rep) \in Nat
    BY <1>1, <1>4
  <2> QED
    BY <2>1, <2>2
<1>8. now + (n - n + Used(rep)) * T <= tat'[b]
  BY <1>1, <1>2, <1>5, <1>7 DEF Quota!Later
<1>9. /\ w \in Webhook /\ Used(rep) \in Nat /\ now \in Nat /\ n \in Nat
      /\ n <= Len(log'[b]) /\ now + (Len(log'[b]) - n + Used(rep)) * T <= tat'[b]
  <2>1. Len(log'[b]) = n
    BY <1>3 DEF n
  <2> QED
    BY <1>2, <1>3, <1>4, <1>8, <2>1
<1> QED
  BY <1>6, <1>9 DEF Counted, b, T

(* What an older report says stays behind the horizon, for a spend moves it. *)
LEMMA CountedStep ==
  ASSUME Engine!IInv, [Engine!Next]_(Engine!vars), NEW t, Counted(t)
  PROVE  /\ t.webhook \in Webhook
         /\ LET b == WebhookBucket(t.webhook) IN
            /\ t.after <= Len(log'[b])
            /\ t.at + (Len(log'[b]) - t.after + t.used) * IntervalOf["webhook"] <= tat'[b]
<1> DEFINE b == WebhookBucket(t.webhook)
           T == IntervalOf["webhook"]
           n == Len(log[b])
           k == n - t.after + t.used
<1>1. t.webhook \in Webhook /\ b \in ClientBuckets /\ T \in Nat
      /\ [a \in ClientBuckets |-> IntervalOf[a[2]]][b] = T
  BY WebhookRates DEF Counted
<1>2. Engine!TypeOK /\ Engine!AllocationAhead /\ tat[b] \in Int /\ now \in Nat
      /\ log[b] \in Seq(Nat)
  BY <1>1 DEF Engine!IInv, Engine!TypeOK
<1>3. n \in Nat /\ t.after \in Nat /\ t.used \in Nat /\ t.at \in Nat /\ t.after <= n
      /\ t.at + k * T <= tat[b]
  BY <1>2 DEF Counted
<1>4. tat'[b] \in Int
  BY <1>1, <1>2, EngineAssumption, Engine!TypeStep DEF Engine!TypeOK
<1>5. CASE log'[b] = log[b] /\ tat'[b] >= tat[b]
  <2>1. Len(log'[b]) = n
    BY <1>5
  <2> HIDE DEF b, T, n
  <2>2. k * T \in Int
    BY <1>1, <1>3
  <2>3. t.at + k * T <= tat'[b]
    <3> HIDE DEF k
    <3> QED
      BY <1>2, <1>3, <1>4, <1>5, <2>2
  <2>4. t.after <= Len(log'[b]) /\ t.at + (Len(log'[b]) - t.after + t.used) * T <= tat'[b]
    BY <1>3, <2>1, <2>3
  <2> QED
    BY <1>1, <2>4 DEF b, T
<1>6. CASE log'[b] = Append(log[b], now) /\ tat'[b] >= tat[b] + T
  <2>1. Len(log'[b]) = n + 1
    BY <1>2, <1>6
  <2> HIDE DEF b, T, n
  <2>2. (n + 1) - t.after + t.used = k + 1 /\ k \in Int
    BY <1>3
  <2>3. (k + 1) * T = k * T + T /\ k * T \in Int
    <3> HIDE DEF k
    <3> QED
      BY <1>1, <2>2
  <2>4. t.at + (k + 1) * T <= tat'[b]
    <3> DEFINE x == k * T
               y == (k + 1) * T
    <3>1. x \in Int /\ y = x + T /\ t.at + x <= tat[b]
      BY <1>3, <2>3
    <3> HIDE DEF x, y, k
    <3>2. t.at + y <= tat'[b]
      BY <1>1, <1>2, <1>3, <1>4, <1>6, <3>1
    <3> QED
      BY <3>2 DEF y
  <2>5. t.after <= Len(log'[b]) /\ t.at + (Len(log'[b]) - t.after + t.used) * T <= tat'[b]
    <3> HIDE DEF k
    <3> QED
      BY <1>3, <2>1, <2>2, <2>4
  <2> QED
    BY <1>1, <2>5 DEF b, T
<1>7. CASE \E p \in QuotaTask : Engine!Commit(p)
  <2>1. PICK p \in QuotaTask : Engine!Commit(p)
    BY <1>7
  <2> DEFINE bs == Engine!Touched(picks[p])
  <2>2. /\ \A a \in ClientBuckets \ bs : log'[a] = log[a] /\ tat'[a] = tat[a]
        /\ \A a \in bs :
             /\ log'[a] = Append(log[a], now)
             /\ tat'[a] >= tat[a] + [c \in ClientBuckets |-> IntervalOf[c[2]]][a]
    BY <1>2, <2>1, EngineAssumption, Engine!CommitStep DEF QuotaTask
  <2> HIDE DEF bs
  <2>3. CASE b \in bs
    <3>1. log'[b] = Append(log[b], now) /\ tat'[b] >= tat[b] + T
      BY <1>1, <2>2, <2>3
    <3> QED
      BY <1>6, <3>1
  <2>4. CASE b \notin bs
    <3>1. log'[b] = log[b] /\ tat'[b] = tat[b]
      BY <1>1, <2>2, <2>4
    <3>2. tat'[b] >= tat[b]
      BY <1>2, <3>1
    <3> QED
      BY <1>5, <3>1, <3>2
  <2> QED
    BY <2>3, <2>4
<1>8. CASE \A p \in QuotaTask : ~ Engine!Commit(p)
  <2>1. log' = log /\ \A a \in ClientBuckets : tat'[a] >= tat[a]
    BY <1>2, <1>8, EngineAssumption, Engine!QuietStep DEF QuotaTask
  <2> QED
    BY <1>1, <1>5, <2>1
<1> QED
  BY <1>7, <1>8

(* So all that was ever reported is behind the horizons. *)
LEMMA AllCountedStep ==
  ASSUME ControlOK, Engine!IInv, AllCounted, [Next]_vars
  PROVE  AllCounted'
<1>1. [Engine!Next]_(Engine!vars)
  BY StepRefines, SameNext DEF engineVars, Engine!vars, Engine!engine, Engine!tasks
<1>2. ASSUME NEW t \in told
      PROVE  Counted(t)'
  <2>1. Counted(t)
    BY DEF AllCounted
  <2>2. /\ t.used \in Nat /\ t.at \in Nat /\ t.after \in Nat
    BY <2>1 DEF Counted
  <2> QED
    BY <1>1, <2>1, <2>2, CountedStep DEF Counted
<1>3. CASE told' = told
  BY <1>2, <1>3 DEF AllCounted
<1>4. ASSUME NEW c \in Call, NEW w \in HeldWebhook(c), reply[c] \in Replies,
             Quota!Update(w, WebhookBucket(w), Figures(reply[c])[1], Figures(reply[c])[2]),
             told' = told \cup {Report(w, reply[c])}
      PROVE  AllCounted'
  <2>1. w \in Webhook
    BY DEF HeldWebhook
  <2>2. PICK t : t = Report(w, reply[c])
    OBVIOUS
  <2>3. PICK rep \in Replies : rep = reply[c]
    BY <1>4
  <2>4. Counted(t)'
    BY <1>4, <2>1, <2>2, <2>3, ReportCounts
  <2> QED
    BY <1>2, <1>4, <2>2, <2>4 DEF AllCounted
<1> QED
  BY <1>3, <1>4, ToldBy

(* A spend finds the gate open: what was reported and what was spent since  *)
(* leaves a token of the burst, or time has refilled one.                   *)
LEMMA SpendFits ==
  ASSUME Engine!IInv, [Engine!Next]_(Engine!vars), NEW t, Counted(t),
         NEW i \in 1..Len(log'[WebhookBucket(t.webhook)]), i > t.after,
         i \in 1..Len(log[WebhookBucket(t.webhook)]) =>
           (i - t.after - 1 + t.used) * IntervalOf["webhook"]
             <= (log[WebhookBucket(t.webhook)][i] - t.at)
                  + Engine!Tolerance[WebhookBucket(t.webhook)]
  PROVE  (i - t.after - 1 + t.used) * IntervalOf["webhook"]
           <= (log'[WebhookBucket(t.webhook)][i] - t.at)
                + Engine!Tolerance[WebhookBucket(t.webhook)]
<1> DEFINE b == WebhookBucket(t.webhook)
           T == IntervalOf["webhook"]
           n == Len(log[b])
           tol == Engine!Tolerance[b]
<1>1. b \in ClientBuckets /\ T \in Nat /\ tol \in Nat
  BY WebhookRates DEF Counted
<1>2. Engine!TypeOK /\ Engine!AllocationAhead /\ tat[b] \in Int /\ now \in Nat
      /\ log[b] \in Seq(Nat)
  BY <1>1 DEF Engine!IInv, Engine!TypeOK
<1>3. n \in Nat /\ t.after \in Nat /\ t.used \in Nat /\ t.at \in Nat
      /\ t.at + (n - t.after + t.used) * T <= tat[b]
  BY <1>2 DEF Counted
<1>4. CASE log'[b] = log[b]
  BY <1>4
<1>5. CASE log'[b] = Append(log[b], now) /\ tat[b] - tol <= now
  <2>1. CASE i <= n
    <3>1. i \in 1..n /\ log'[b][i] = log[b][i]
      BY <1>2, <1>3, <1>5, <2>1
    <3> QED
      BY <3>1
  <2>2. CASE i > n
    <3>1. i = n + 1 /\ log'[b][i] = now
      BY <1>2, <1>3, <1>5, <2>2
    <3> DEFINE x == (n - t.after + t.used) * T
    <3>2. x \in Int
      BY <1>1, <1>3
    <3>3. (i - t.after - 1 + t.used) * T = x
      <4>1. i - t.after - 1 + t.used = n - t.after + t.used
        BY <1>3, <3>1
      <4> QED
        BY <4>1
    <3>4. t.at + x <= tat[b]
      BY <1>3
    <3> HIDE DEF x, b, T, n, tol
    <3>5. x <= (now - t.at) + tol
      BY <1>1, <1>2, <1>3, <1>5, <3>2, <3>4
    <3>6. (i - t.after - 1 + t.used) * T <= (log'[b][i] - t.at) + tol
      BY <3>1, <3>3, <3>5
    <3> QED
      BY <3>6 DEF b, T, tol
  <2> QED
    BY <1>3, <2>1, <2>2
<1>6. CASE \E p \in QuotaTask : Engine!Commit(p)
  <2>1. PICK p \in QuotaTask : Engine!Commit(p)
    BY <1>6
  <2> DEFINE bs == Engine!Touched(picks[p])
  <2>2. /\ \A a \in ClientBuckets \ bs : log'[a] = log[a]
        /\ \A a \in bs : log'[a] = Append(log[a], now) /\ tat[a] - Engine!Tolerance[a] <= now
    BY <1>2, <2>1, EngineAssumption, Engine!CommitStep DEF QuotaTask
  <2> HIDE DEF bs
  <2> QED
    BY <1>1, <1>4, <1>5, <2>2
<1>7. CASE \A p \in QuotaTask : ~ Engine!Commit(p)
  <2>1. log' = log
    BY <1>2, <1>7, EngineAssumption, Engine!QuietStep DEF QuotaTask
  <2> QED
    BY <1>4, <2>1
<1> QED
  BY <1>6, <1>7

(* What a response reports as used (client.rs:248) counts as spent: the     *)
(* later requests of all calls to the webhook fit in what is left of the    *)
(* burst the client assumes, and in what time refills.                      *)
THEOREM ReportedUseCounts == Spec => []ReportsCount
<1>1. Init => AllCounted /\ ReportsCount
  BY DEF Init, AllCounted, ReportsCount
<1>2. ControlOK /\ Engine!IInv /\ AllCounted /\ [Next]_vars => AllCounted'
  BY AllCountedStep
<1>3. ASSUME ControlOK, Engine!IInv, AllCounted, AllCounted', ReportsCount, [Next]_vars
      PROVE  ReportsCount'
  <2> SUFFICES ASSUME NEW t \in told', NEW i \in 1..Len(log'[WebhookBucket(t.webhook)]),
                      i > t.after
               PROVE  (i - t.after - 1 + t.used) * IntervalOf["webhook"]
                        <= (log'[WebhookBucket(t.webhook)][i] - t.at)
                             + Engine!Tolerance[WebhookBucket(t.webhook)]
    BY SameTerms DEF ReportsCount, WebhookBucket
  <2>1. [Engine!Next]_(Engine!vars)
    BY <1>3, StepRefines, SameNext DEF engineVars, Engine!vars, Engine!engine, Engine!tasks
  <2>2. CASE t \in told
    <3>1. Counted(t)
      BY <1>3, <2>2 DEF AllCounted
    <3>2. i \in 1..Len(log[WebhookBucket(t.webhook)]) =>
            (i - t.after - 1 + t.used) * IntervalOf["webhook"]
              <= (log[WebhookBucket(t.webhook)][i] - t.at)
                   + Engine!Tolerance[WebhookBucket(t.webhook)]
      BY <1>3, <2>2, SameTerms DEF ReportsCount, WebhookBucket
    <3> QED
      BY <1>3, <2>1, <3>1, <3>2, SpendFits
  <2>3. CASE t \notin told
    <3>0. PICK c \in Call : \E w \in HeldWebhook(c) :
            /\ Quota!Update(w, WebhookBucket(w), Figures(reply[c])[1], Figures(reply[c])[2])
            /\ t = Report(w, reply[c])
      BY <1>3, <2>3, ToldBy
    <3>1. PICK w \in HeldWebhook(c) :
            /\ Quota!Update(w, WebhookBucket(w), Figures(reply[c])[1], Figures(reply[c])[2])
            /\ t = Report(w, reply[c])
      BY <3>0
    <3>2. log' = log /\ t.webhook = w /\ t.after = Len(log[WebhookBucket(w)])
      BY <3>1 DEF Quota!Update, Report, WebhookBucket
    <3>3. w \in Webhook /\ WebhookBucket(w) \in ClientBuckets
      BY WebhookRates DEF HeldWebhook
    <3>4. Len(log[WebhookBucket(w)]) \in Nat
      BY <1>3, <3>3 DEF Engine!IInv, Engine!TypeOK
    <3> QED
      BY <3>2, <3>4
  <2> QED
    BY <2>2, <2>3
<1> QED
  BY <1>1, <1>2, <1>3, ControlHolds, EngineInvariant, PTL DEF Spec
============================================================================
