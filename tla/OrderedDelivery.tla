-------------------------- MODULE OrderedDelivery --------------------------
(***************************************************************************)
(* What a stream session promises its reader: the frames it wants, one at  *)
(* a time and in order.  A session may be refused or fail at any point,    *)
(* but it reports success only when nothing is missing.                    *)
(***************************************************************************)
EXTENDS Naturals, Sequences

CONSTANT Session

VARIABLES
  want,     \* [Session -> sequence of frames], fixed when a session is made
  out,      \* the frames handed over so far
  status    \* open, done, failed or rejected

Init ==
  /\ out = [s \in Session |-> <<>>]
  /\ status = [s \in Session |-> "open"]

Hand(s) ==
  /\ status[s] = "open"
  /\ Len(out[s]) < Len(want[s])
  /\ out' = [out EXCEPT ![s] = Append(@, want[s][Len(@) + 1])]
  /\ UNCHANGED <<want, status>>

Succeed(s) ==
  /\ status[s] = "open"
  /\ out[s] = want[s]
  /\ status' = [status EXCEPT ![s] = "done"]
  /\ UNCHANGED <<want, out>>

GiveUp(s) ==
  /\ status[s] = "open"
  /\ \E reason \in {"failed", "rejected"} : status' = [status EXCEPT ![s] = reason]
  /\ UNCHANGED <<want, out>>

Next == \E s \in Session : Hand(s) \/ Succeed(s) \/ GiveUp(s)

Spec == Init /\ [][Next]_<<want, out, status>>
============================================================================
