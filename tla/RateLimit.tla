----------------------------- MODULE RateLimit -----------------------------
(***************************************************************************)
(* What the quota engine promises to the server whose limits it mirrors.   *)
(*                                                                         *)
(* Every quota dimension ("bucket") is spent in single tokens.  The server *)
(* tolerates a burst of Burst[b] tokens and refills one every Interval[b]. *)
(* The log of a bucket is the sequence of instants at which its tokens     *)
(* were spent; the promise is that no window of the log, however it is     *)
(* cut, is denser than the burst plus the refill of the window.            *)
(*                                                                         *)
(* QuotaEngine is shown to implement this module.                          *)
(***************************************************************************)
EXTENDS Integers, Sequences

CONSTANTS
  Bucket,     \* the quota dimensions
  Interval,   \* [Bucket -> Nat]: time to refill one token
  Tolerance   \* [Bucket -> Nat]: how far ahead of the refill a burst may run

VARIABLES
  now,        \* the clock
  log         \* log[b]: the instants at which b's tokens were spent, oldest first

limitVars == <<now, log>>

(***************************************************************************)
(* A token may be spent at t when every window that starts at an earlier   *)
(* spend and ends at t stays within the limit.                             *)
(***************************************************************************)
Admissible(b, t) ==
  \A i \in 1..Len(log[b]) :
    (Len(log[b]) + 1 - i) * Interval[b] <= (t - log[b][i]) + Tolerance[b]

LimitInit ==
  /\ now \in Nat
  /\ log = [b \in Bucket |-> <<>>]

(* One token is taken from each of the buckets bs, at this instant. *)
Spend(bs) ==
  /\ \A b \in bs : Admissible(b, now)
  /\ log' = [b \in Bucket |-> IF b \in bs THEN Append(log[b], now) ELSE log[b]]
  /\ UNCHANGED now

Pass ==
  /\ now' \in Nat
  /\ now' > now
  /\ UNCHANGED log

LimitNext ==
  \/ \E bs \in SUBSET Bucket : Spend(bs)
  \/ Pass

LimitSpec == LimitInit /\ [][LimitNext]_limitVars
============================================================================
