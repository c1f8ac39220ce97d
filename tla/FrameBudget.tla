---------------------------- MODULE FrameBudget ----------------------------
(***************************************************************************)
(* frame-streamer/src/memory.rs: the process-wide budget of plaintext      *)
(* frames, a tokio semaphore.  A budget is a value                         *)
(*   free     permits nobody holds                                         *)
(*   waiters  reserve(1) futures in the semaphore's FIFO queue             *)
(*   granted  futures whose permit was assigned and not collected yet      *)
(* and each operation of the code is a function of it.  Waiters are named  *)
(* by their owner: a session has at most one ticket.  Forget is a defective *)
(* variant of Withdraw (see StreamSession).                                *)
(***************************************************************************)
EXTENDS Integers, Sequences, SequencesExt

NewBudget(capacity) == [free |-> capacity, waiters |-> <<>>, granted |-> {}]

Least(a, b) == IF a <= b THEN a ELSE b

(* try_reserve succeeds: n permits leave the pool. *)
Take(budget, n) == [budget EXCEPT !.free = @ - n]

(* n permits come back: the oldest waiters are served first. *)
Give(budget, n) ==
  LET served == Least(n, Len(budget.waiters)) IN
  [free    |-> budget.free + (n - served),
   waiters |-> SubSeq(budget.waiters, served + 1, Len(budget.waiters)),
   granted |-> budget.granted \cup {budget.waiters[i] : i \in 1..served}]

Enqueue(budget, s) == [budget EXCEPT !.waiters = Append(@, s)]

(* The ticket is polled after its permit was assigned. *)
Collect(budget, s) == [budget EXCEPT !.granted = @ \ {s}]

(* The ticket is dropped: it leaves the queue, or its permit goes back. *)
Forget(budget, s) == [budget EXCEPT !.waiters = RemoveFirst(@, s), !.granted = @ \ {s}]

Withdraw(budget, s) ==
  IF s \in budget.granted
  THEN Give(Collect(budget, s), 1)
  ELSE [budget EXCEPT !.waiters = RemoveFirst(@, s)]
============================================================================
