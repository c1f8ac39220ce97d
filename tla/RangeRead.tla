----------------------------- MODULE RangeRead -----------------------------
(***************************************************************************)
(* What a gateway promises to somebody who asks for bytes of a file: those *)
(* bytes, in order, and nothing else.  A request may fail at any point,    *)
(* but it ends well only when nothing is missing, and it is refused only   *)
(* when there is nothing to send.                                          *)
(***************************************************************************)
EXTENDS Naturals, Sequences

CONSTANT Byte

VARIABLES
  want,     \* the bytes asked for, known once they are asked for
  out,      \* the bytes sent so far
  status    \* preparing, open, done, failed or refused

Init == out = <<>> /\ status = "preparing"

Ask ==
  /\ status = "preparing"
  /\ want' \in Seq(Byte)
  /\ status' = "open" \/ (want' = <<>> /\ status' \in {"done", "refused"})
  /\ UNCHANGED out

Send ==
  /\ status = "open"
  /\ \E n \in Len(out)..Len(want) : out' = SubSeq(want, 1, n)
  /\ UNCHANGED <<want, status>>

Succeed ==
  /\ status = "open"
  /\ out = want
  /\ status' = "done"
  /\ UNCHANGED <<want, out>>

Fail ==
  /\ status \in {"preparing", "open"}
  /\ status' = "failed"
  /\ UNCHANGED <<want, out>>

Next == Ask \/ Send \/ Succeed \/ Fail

Spec == Init /\ [][Next]_<<want, out, status>>
============================================================================
