---------------------------- MODULE DiscordClient ----------------------------
(***************************************************************************)
(* crates/discord-store: the client of the chat service (client.rs), on    *)
(* the quota engine it builds, which is the module QuotaEngine.            *)
(*                                                                         *)
(* A call posts a message, resolves its URL or deletes it.  Each attempt   *)
(* of a call is a task of the engine.  The body of a post flows in another *)
(* task than its call, the connection's: it owns the reservation, waits    *)
(* at the gate before the last chunk, and may outlive the call.            *)
(*                                                                         *)
(* PullThrough, TooFew, OnlyUnknown and AnyAnswer are not part of the      *)
(* specification: each is a defective variant of the definition that       *)
(* follows it, and shows that a property below notices the defect.         *)
(***************************************************************************)
EXTENDS Integers, Sequences, FiniteSets

CONSTANTS
  Call,        \* the calls that gateways make
  Workloads,   \* what they may be for: [Call -> jobs], a job being
               \* [op |-> "post"], or a resolve or delete of a webhook's
               \* message, whose URI may name a webhook that is not configured
  Webhooks,    \* the configured webhooks, a sequence, each listed once
  Egresses,    \* the API clients, one per proxy, a sequence
  Attempts,    \* RESOLVE_ATTEMPTS
  IntervalOf,  \* the rate of each kind of bucket: webhook, channel, ip, global
  CapacityOf,  \* its burst
  Free,        \* the pin that leaves the choice to the engine
  Window,      \* QUOTA_DEADLINE
  Replies,     \* the responses: status, report (<<remaining, limit>> headers)
               \* and global (the header x-ratelimit-global)
  Missing,     \* a report that lacks the header for remaining
  Silent,      \* no report
  Old,         \* a message that was posted on each webhook earlier
  Chunks,      \* bound: chunks of a body
  MaxNow,      \* bound: the clock stops here, if nobody sleeps
  Doomed,      \* the webhooks that may be deleted at the service
  Faults       \* what else may go wrong, a subset of {"body", "drop"}

Entries(s) == {s[i] : i \in DOMAIN s}
Webhook == Entries(Webhooks)
Egress == Entries(Egresses)
Kind == {"webhook", "channel", "ip", "global"}
Dead == {"denied", "missing"}
Status == {"ok", "torn", "limited", "error", "broken"} \cup Dead
Reply ==
  [status : Status, report : {Silent} \cup ((Nat \cup {Missing}) \X Nat), global : BOOLEAN]

ASSUME ClientAssumption ==
  /\ Webhooks \in Seq(Webhook) /\ Egresses \in Seq(Egress)
  /\ Webhook \cap Egress = {} /\ Free \notin Webhook \cup Egress
  /\ Attempts \in Nat \ {0} /\ Chunks \in Nat \ {0}
  /\ IntervalOf \in [Kind -> Nat \ {0}] /\ CapacityOf \in [Kind -> Nat \ {0}]
  /\ Window \in Nat /\ MaxNow \in Nat
  /\ IsFiniteSet(Call)
  /\ Replies \subseteq Reply
  /\ Missing \notin Nat /\ Old \notin Call
  /\ \A f \in Workloads, c \in Call :
       /\ f[c].op \in {"post", "resolve", "delete"}
       /\ f[c].op # "post" => "webhook" \in DOMAIN f[c]

VARIABLES
  now, tat, rtat, alive, phase, picks, target, bell, updates, log,  \* QuotaEngine
  job,       \* a workload
  pc,        \* [Call -> Place]
  attempt,   \* [Call -> 1..Attempts]
  pulled,    \* chunks that gate_last_chunk took from the body of a post
  received,  \* chunks that it passed on to the service
  reply,     \* the last response to a call
  stored,    \* the messages that exist at the service
  gone,      \* the webhooks that do not, any more
  hits,      \* history: complete requests that reached each webhook
  told       \* history: the reports that the client took in, each with its
             \* webhook, the tokens it says are used, the instant and the
             \* number of tokens spent on the webhook so far

engineVars == <<now, tat, rtat, alive, phase, picks, target, bell, updates, log>>
bodies == <<pulled, received, hits>>
service == <<stored, gone>>
vars == <<engineVars, job, pc, attempt, bodies, reply, service, told>>

----------------------------------------------------------------------------
(* quota_engine *)

BucketsOfResource ==
  [r \in Webhook \cup Egress |->
     {<<r, kind>> : kind \in IF r \in Webhook THEN {"webhook", "channel"}
                                              ELSE {"ip", "global"}}]
ClientBuckets == UNION {BucketsOfResource[r] : r \in Webhook \cup Egress}

Pinned(w) == <<w, Free>>
Unpinned == <<Free, Free>>

(* The tokens and the limit that update_from_headers makes of a response. *)
TooFew(rep) ==
  IF rep.report = Silent \/ rep.report[1] = Missing THEN <<0, 1>> ELSE rep.report
Figures(rep) ==
  IF rep.report = Silent THEN <<0, CapacityOf["webhook"]>>
  ELSE LET limit == rep.report[2] IN
       IF rep.report[1] # Missing THEN rep.report
       ELSE <<IF limit > 0 THEN limit - 1 ELSE 0, limit>>

AllFigures ==
  {Figures(rep) : rep \in Replies} \cup {<<0, CapacityOf["global"]>>}

Quota == INSTANCE QuotaEngine WITH
  Task       <- Call \X (1..Attempts),
  Bucket     <- ClientBuckets,
  Shared     <- {},
  Resource   <- Webhook \cup Egress,
  Pools      <- <<Webhooks, Egresses>>,
  BucketsOf  <- BucketsOfResource,
  Interval   <- [b \in ClientBuckets |-> IntervalOf[b[2]]],
  Capacity   <- [b \in ClientBuckets |-> CapacityOf[b[2]]],
  Safety     <- [b \in ClientBuckets |-> 0],
  Demands    <- {Unpinned} \cup {Pinned(w) : w \in Webhook},
  Mortal     <- Webhook,
  Headers    <- AllFigures,
  MaxUpdates <- 2 * Cardinality(Call) * Attempts

----------------------------------------------------------------------------
Ends == {"done", "failed", "dropped"}
Place == {"start", "open", "webhook", "global", "conclude"} \cup Ends

NoReply == [status |-> "broken", report |-> Silent, global |-> FALSE]

Posting(c) == job[c].op = "post"
Slot(c) == <<c, attempt[c]>>
Holds(c) == phase[Slot(c)] \in Quota!Holding

(* The reservation of an attempt holds one webhook and one egress. *)
HeldWebhook(c) == picks[Slot(c)] \cap Webhook
HeldEgress(c) == picks[Slot(c)] \cap Egress

WebhookOf(c) == IF Posting(c) THEN CHOOSE w \in HeldWebhook(c) : TRUE ELSE job[c].webhook
Message(c) == <<WebhookOf(c), IF Posting(c) THEN c ELSE Old>>

(* A post is free; other calls go to the webhook that the message's URI names. *)
Demand(c) == IF Posting(c) THEN Unpinned ELSE Pinned(job[c].webhook)
Go(c, place) == pc' = [pc EXCEPT ![c] = place]

(* webhook_index: the URI of the message names a configured webhook. *)
Known(c) == IF Posting(c) THEN TRUE ELSE job[c].webhook \in Webhook

Reserve(c) ==
  /\ pc[c] = "start"
  /\ Known(c)
  /\ Quota!Admit(Slot(c), Demand(c))
  /\ Go(c, "open")
  /\ UNCHANGED <<job, attempt, bodies, reply, service, told>>

(* The webhook is not known or, says the engine, none that the call can use *)
(* is alive or its backlog is too deep.                                     *)
Refuse(c) ==
  /\ pc[c] = "start"
  /\ IF Known(c) THEN Quota!Reject(Slot(c), Demand(c)) ELSE UNCHANGED engineVars
  /\ Go(c, "failed")
  /\ UNCHANGED <<job, attempt, bodies, reply, service, told>>

----------------------------------------------------------------------------
(* Sending *)

PullThrough(c) ==
  /\ Posting(c) /\ phase[Slot(c)] = "held" /\ pulled[c] < Chunks
  /\ pulled' = [pulled EXCEPT ![c] = @ + 1]
  /\ received' = [received EXCEPT ![c] = @ + 1]
  /\ hits' = [hits EXCEPT ![WebhookOf(c)] = @ + (IF pulled'[c] = Chunks THEN 1 ELSE 0)]
  /\ UNCHANGED <<engineVars, job, pc, attempt, reply, service, told>>
(* gate_last_chunk holds back the last chunk, whichever that is. *)
Pull(c) ==
  /\ Posting(c) /\ phase[Slot(c)] = "held" /\ pulled[c] < Chunks
  /\ pulled' = [pulled EXCEPT ![c] = @ + 1]
  /\ received' = [received EXCEPT ![c] = pulled[c]]
  /\ UNCHANGED <<engineVars, job, pc, attempt, hits, reply, service, told>>

BodyFails(c) ==
  /\ "body" \in Faults
  /\ Posting(c) /\ phase[Slot(c)] = "held" /\ pulled[c] < Chunks
  /\ Quota!Release(Slot(c))
  /\ IF pc[c] = "open" THEN Go(c, "failed") ELSE UNCHANGED pc
  /\ UNCHANGED <<job, attempt, bodies, reply, service, told>>

AtGate(c) == Posting(c) => pulled[c] = Chunks

(* commit subscribes to the bell and looks at the gate, or sleeps. *)
Wait(c) ==
  /\ AtGate(c)
  /\ Quota!Subscribe(Slot(c)) \/ Quota!Park(Slot(c))
  /\ UNCHANGED <<job, pc, attempt, bodies, reply, service, told>>

(* commit returns: the last chunk, or the whole request, is sent. *)
Spend(c) ==
  /\ AtGate(c)
  /\ Quota!Commit(Slot(c))
  /\ received' = [received EXCEPT ![c] = pulled[c]]
  /\ \E w \in HeldWebhook(c) :
       hits' = [hits EXCEPT ![w] = @ + (IF Posting(c) /\ received[c] = Chunks THEN 0 ELSE 1)]
  /\ UNCHANGED <<job, pc, attempt, pulled, reply, service, told>>

(* The connection drops the body of a call that is over. *)
Abandon(c) ==
  /\ Posting(c) /\ pc[c] \notin {"start", "open"}
  /\ Quota!Release(Slot(c))
  /\ UNCHANGED <<job, pc, attempt, bodies, reply, service, told>>

(* The caller is dropped, and with it the reservation of a GET or DELETE. *)
Drop(c) ==
  /\ "drop" \in Faults
  /\ pc[c] \notin Ends
  /\ IF ~ Posting(c) /\ Holds(c) THEN Quota!Release(Slot(c)) ELSE UNCHANGED engineVars
  /\ Go(c, "dropped")
  /\ UNCHANGED <<job, attempt, bodies, reply, service, told>>

----------------------------------------------------------------------------
(* The service *)

Whole(c) == IF Posting(c) THEN received[c] = Chunks ELSE phase[Slot(c)] = "committed"

(* The service can do what a call asks for. *)
Able(c) ==
  /\ Whole(c) /\ WebhookOf(c) \notin gone
  /\ IF Posting(c) THEN Message(c) \notin stored ELSE Message(c) \in stored

Effect(c) ==
  stored' = CASE job[c].op = "post"    -> stored \cup {Message(c)}
              [] job[c].op = "delete"  -> stored \ {Message(c)}
              [] job[c].op = "resolve" -> stored

(* A response: torn has a good status and no usable content, broken is none. *)
(* A post may be turned down before its body has ended.                      *)
Response(c, status) ==
  CASE status \in {"ok", "torn"} -> Able(c) /\ Effect(c)
    [] status = "broken" -> /\ Posting(c) \/ Whole(c)
                            /\ UNCHANGED stored \/ (Able(c) /\ Effect(c))
    [] status \in {"limited", "error"} -> (Posting(c) \/ Whole(c)) /\ UNCHANGED stored
    [] status = "denied" -> /\ Posting(c) \/ Whole(c)
                            /\ WebhookOf(c) \in gone
                            /\ UNCHANGED stored
    [] status = "missing" -> /\ \/ WebhookOf(c) \in gone
                                \/ ~ Posting(c) /\ Message(c) \notin stored
                             /\ Posting(c) \/ Whole(c)
                             /\ UNCHANGED stored

AfterReply(rep) ==
  IF rep.status = "broken" THEN "failed"
  ELSE IF rep.report # Silent \/ rep.status = "limited" THEN "webhook"
  ELSE IF rep.global THEN "global" ELSE "conclude"

Answer(c) ==
  /\ pc[c] = "open"
  /\ \E rep \in Replies :
       /\ Response(c, rep.status)
       /\ reply' = [reply EXCEPT ![c] = rep]
       /\ Go(c, AfterReply(rep))
  /\ UNCHANGED <<engineVars, job, attempt, bodies, gone, told>>

(* It may still do what a call asked for that was dropped meanwhile. *)
Late(c) ==
  /\ pc[c] = "dropped"
  /\ Able(c) /\ Effect(c)
  /\ UNCHANGED <<engineVars, job, pc, attempt, bodies, reply, gone, told>>

Die(w) ==
  /\ w \notin gone
  /\ gone' = gone \cup {w}
  /\ UNCHANGED <<engineVars, job, pc, attempt, bodies, reply, stored, told>>

----------------------------------------------------------------------------
(* Concluding *)

(* The tokens of a webhook that are used, as a response has it.  One of 429 *)
(* without a report says that all are, one that does not say how many are   *)
(* left that its own request took one.                                      *)
Used(rep) ==
  LET limit == Quota!Later(rep.report[2], 1) IN
  IF rep.report = Silent THEN CapacityOf["webhook"]
  ELSE IF rep.report[1] = Missing THEN 1
  ELSE Quota!Later(limit - rep.report[1], 0)

Report(w, rep) ==
  [webhook |-> w, used |-> Used(rep), at |-> now, after |-> Len(log[<<w, "webhook">>])]

(* update_from_headers: two updates, each under the engine's lock. *)
UpdateWebhook(c) ==
  LET figures == Figures(reply[c]) IN
  /\ pc[c] = "webhook"
  /\ \E w \in HeldWebhook(c) :
       /\ Quota!Update(w, <<w, "webhook">>, figures[1], figures[2])
       /\ told' = told \cup {Report(w, reply[c])}
  /\ reply' = [reply EXCEPT ![c].report = Silent]
  /\ Go(c, IF reply[c].global THEN "global" ELSE "conclude")
  /\ UNCHANGED <<job, attempt, bodies, service>>

UpdateGlobal(c) ==
  /\ pc[c] = "global"
  /\ \E e \in HeldEgress(c) :
       Quota!Update(e, <<e, "global">>, 0, CapacityOf["global"])
  /\ reply' = [reply EXCEPT ![c].global = FALSE]
  /\ Go(c, "conclude")
  /\ UNCHANGED <<job, attempt, bodies, service, told>>

OnlyUnknown(status) == status = "missing"
IsDead(status) == status \in {"denied", "missing"}

AnyAnswer(c) == reply[c].status = "ok" \/ job[c].op = "delete"
Success(c) ==
  \/ reply[c].status = "ok"
  \/ job[c].op = "delete" /\ reply[c].status \in {"torn", "missing"}

MayRetry(c) == attempt[c] < Attempts

Retry(c) ==
  /\ pc[c] = "conclude"
  /\ job[c].op = "resolve" /\ reply[c].status = "limited" /\ MayRetry(c)
  /\ attempt' = [attempt EXCEPT ![c] = @ + 1]
  /\ Go(c, "start")
  /\ UNCHANGED <<engineVars, job, bodies, reply, service, told>>

Conclude(c) ==
  /\ pc[c] = "conclude"
  /\ ~ (job[c].op = "resolve" /\ reply[c].status = "limited" /\ MayRetry(c))
  /\ IF Posting(c) /\ IsDead(reply[c].status)
     THEN \E w \in HeldWebhook(c) : Quota!SetAlive(w, FALSE)
     ELSE UNCHANGED engineVars
  /\ Go(c, IF Success(c) THEN "done" ELSE "failed")
  /\ UNCHANGED <<job, attempt, bodies, reply, service, told>>

----------------------------------------------------------------------------
Init ==
  /\ Quota!Init
  /\ job \in Workloads
  /\ pc = [c \in Call |-> "start"]
  /\ attempt = [c \in Call |-> 1]
  /\ pulled = [c \in Call |-> 0]
  /\ received = [c \in Call |-> 0]
  /\ reply = [c \in Call |-> NoReply]
  /\ stored = Webhook \X {Old}
  /\ gone = {}
  /\ hits = [w \in Webhook |-> 0]
  /\ told = {}

Tick ==
  /\ Quota!Tick
  /\ UNCHANGED <<job, pc, attempt, bodies, reply, service, told>>

Body(c) == Pull(c) \/ BodyFails(c) \/ Wait(c) \/ Spend(c)
Handler(c) ==
  \/ Reserve(c) \/ Refuse(c)
  \/ UpdateWebhook(c) \/ UpdateGlobal(c)
  \/ Retry(c) \/ Conclude(c)

Next ==
  \/ \E c \in Call : Body(c) \/ Handler(c) \/ Abandon(c) \/ Drop(c)
  \/ \E c \in Call : Answer(c) \/ Late(c)
  \/ \E w \in Doomed : Die(w)
  \/ Tick

Spec == Init /\ [][Next]_vars

(***************************************************************************)
(* Time passes, handlers run and bodies arrive or break.  The code sets no *)
(* timeout: that every request is answered, or its connection breaks, is   *)
(* assumed of the service and of TCP.  A call takes a bounded number of    *)
(* such steps, so it makes no difference that they share one condition.    *)
(***************************************************************************)
Progress == \E c \in Call : Pull(c) \/ Wait(c) \/ Spend(c) \/ Handler(c) \/ Answer(c)

Fairness == WF_vars(Tick) /\ WF_vars(Progress)

FairSpec == Spec /\ Fairness

----------------------------------------------------------------------------
(* Properties *)

TypeOK ==
  /\ pc \in [Call -> Place]
  /\ attempt \in [Call -> 1..Attempts]
  /\ pulled \in [Call -> 0..Chunks] /\ received \in [Call -> 0..Chunks]
  /\ \A c \in Call : received[c] <= pulled[c]
  /\ reply \in [Call -> Reply]
  /\ stored \subseteq Webhook \X (Call \cup {Old})
  /\ gone \subseteq Webhook

(* A request is complete at the service only after the engine has spent a   *)
(* token for it (client.rs:101 "The quota commit is held until the final    *)
(* body chunk"), whichever webhook it goes to and however often it is tried.*)
NothingUnpaid ==
  \A w \in Webhook : hits[w] <= Len(log[<<w, "webhook">>])

(* What a response reports as used is as good as spent: from then on, the  *)
(* requests of all calls to the webhook fit in what is left of the burst   *)
(* the client knows, and in what time refills.  A webhook that reports a   *)
(* smaller burst than the configured one (client.rs:255, cadence.rs:104)   *)
(* is held to have spent that smaller burst only: with no token left by    *)
(* its own account, the client's gate may still be open.                   *)
ReportsCount ==
  \A t \in told : LET spent == log[<<t.webhook, "webhook">>] IN
    \A i \in 1..Len(spent) : i > t.after =>
      (i - t.after - 1 + t.used) * IntervalOf["webhook"]
        <= (spent[i] - t.at) + Quota!Tolerance[<<t.webhook, "webhook">>]

(* client.rs:377 "401/403 (bad token) and 404 (Unknown Webhook) mean the    *)
(* webhook is gone": once a post has failed for it, no call reserves the    *)
(* webhook again.                                                           *)
DeadAvoided ==
  [][\A c, d \in Call :
       (/\ pc[d] = "failed" /\ Posting(d) /\ reply[d].status \in Dead
        /\ pc[c] = "start" /\ pc'[c] = "open")
       => WebhookOf(d) \notin picks'[Slot(c)]]_vars

(* What a caller is told is so, for gateways keep or drop their rows by it: *)
(* a post that is done is stored, and a message whose delete is done is     *)
(* not, unless its webhook went before it.                                  *)
AnswersTrue ==
  \A c \in Call : pc[c] = "done" =>
    CASE job[c].op = "post"    -> Message(c) \in stored
      [] job[c].op = "delete"  -> Message(c) \notin stored \/ WebhookOf(c) \in gone
      [] job[c].op = "resolve" -> reply[c].status = "ok"

(* Every call comes to an end, and leaves no slot behind that would count   *)
(* against the admission of others: the limits only delay.                  *)
Over(c) ==
  /\ pc[c] \in Ends
  /\ \A k \in 1..Attempts : phase[<<c, k>>] \notin Quota!Holding

CallEnds == <>(\A c \in Call : Over(c))
=============================================================================
