------------------------ MODULE StreamSessionProofs ------------------------
(***************************************************************************)
(* Proofs about StreamSession, for any number of sessions, any jobs, any   *)
(* capacity of the budget and any transfer model.                          *)
(*                                                                         *)
(* The order of the module: the budget's queue; sums over a session's      *)
(* plans; what each part of a poll does to the plans of one session; the   *)
(* place of its plans in the request; the invariant Inv; that each action  *)
(* keeps it; the theorems about it; and the implementation of              *)
(* OrderedDelivery.                                                        *)
(***************************************************************************)
EXTENDS StreamSession, SumFacts, SequenceTheorems

----------------------------------------------------------------------------
(* The budget *)

(* The queue holds each owner of an unserved ticket once.                   *)
QueueOk(b) ==
  /\ b = [free |-> b.free, waiters |-> b.waiters, granted |-> b.granted]
  /\ b.free \in Nat
  /\ b.waiters \in Seq(Session)
  /\ \A i, j \in 1..Len(b.waiters) : b.waiters[i] = b.waiters[j] => i = j
  /\ b.granted \in SUBSET Session
  /\ \A i \in 1..Len(b.waiters) : b.waiters[i] \notin b.granted

InLine(b) == ToSet(b.waiters)
Tickets(b) == InLine(b) \cup b.granted
Idle(b) == b.free + Cardinality(b.granted)

Firsts(w, n) == {w[i] : i \in 1..n}

(* The first n of a line are n.                                             *)
LEMMA FirstInLine ==
  ASSUME NEW w, NEW n \in Nat, \A i, j \in 1..n : w[i] = w[j] => i = j
  PROVE  IsFiniteSet(Firsts(w, n)) /\ Cardinality(Firsts(w, n)) = n
<1> DEFINE First(k) == Firsts(w, k)
           Good == {k \in Nat : k <= n => IsFiniteSet(First(k)) /\ Cardinality(First(k)) = k}
<1>1. 0 \in Good
  <2>1. First(0) = {}
    BY DEF Firsts
  <2>2. IsFiniteSet(First(0)) /\ Cardinality(First(0)) = 0
    BY <2>1, FS_EmptySet, Zenon
  <2>3. QED
    BY <2>2
<1>2. ASSUME NEW k \in Nat, k < n, k \in Good PROVE k + 1 \in Good
  <2>1. First(k + 1) = First(k) \cup {w[k + 1]} /\ w[k + 1] \notin First(k)
    BY <1>2 DEF Firsts
  <2>2. IsFiniteSet(First(k)) /\ Cardinality(First(k)) = k
    BY <1>2
  <2> HIDE DEF First
  <2>3. /\ IsFiniteSet(First(k) \cup {w[k + 1]})
        /\ Cardinality(First(k) \cup {w[k + 1]}) = k + 1
    BY <2>1, <2>2, FS_AddElement
  <2>4. IsFiniteSet(First(k + 1)) /\ Cardinality(First(k + 1)) = k + 1
    BY <2>1, <2>3, Zenon
  <2>5. QED
    BY <2>4
<1>3. n \in Good
  <2> HIDE DEF Good
  <2>1. QED
    BY <1>1, <1>2, UpTo
<1>4. QED
  BY <1>3

(* Frames that come back serve the line first; none is lost, and nobody     *)
(* loses a ticket.                                                          *)
LEMMA GiveFacts ==
  ASSUME IsFiniteSet(Session), NEW b, QueueOk(b), NEW n \in Nat
  PROVE  /\ QueueOk(Give(b, n))
         /\ Tickets(Give(b, n)) = Tickets(b)
         /\ b.granted \subseteq Give(b, n).granted
         /\ Idle(Give(b, n)) = Idle(b) + n
<1> DEFINE w == b.waiters
           served == Least(n, Len(w))
           first == {w[i] : i \in 1..served}
           rest == SubSeq(w, served + 1, Len(w))
<1>1. w \in Seq(Session) /\ Len(w) \in Nat /\ \A i \in 1..Len(w) : w[i] \in Session
  BY LenProperties, ElementOfSeq DEF QueueOk
<1>. /\ \A i, j \in 1..Len(w) : w[i] = w[j] => i = j
     /\ \A i \in 1..Len(w) : w[i] \notin b.granted
  BY DEF QueueOk
<1>2. served \in Nat /\ served <= n /\ served <= Len(w)
  BY <1>1 DEF Least
<1>3. /\ rest \in Seq(Session) /\ Len(rest) = Len(w) - served
      /\ \A i \in 1..(Len(w) - served) : rest[i] = w[served + i]
  <2> HIDE DEF served, w
  <2>1. served + 1 \in Int /\ Len(w) \in Int /\ \A i \in (served + 1)..Len(w) : w[i] \in Session
    BY <1>1, <1>2
  <2>2. /\ SubSeq(w, served + 1, Len(w)) \in Seq(Session)
        /\ Len(SubSeq(w, served + 1, Len(w)))
             = IF served + 1 <= Len(w) THEN Len(w) - (served + 1) + 1 ELSE 0
        /\ \A i \in 1..(Len(w) - (served + 1) + 1) :
             SubSeq(w, served + 1, Len(w))[i] = w[(served + 1) + i - 1]
    BY <2>1, SubSeqProperties
  <2>3. QED
    BY <1>1, <1>2, <2>2
<1>4. IsFiniteSet(first) /\ Cardinality(first) = served
  <2>1. \A i, j \in 1..served : w[i] = w[j] => i = j
    BY <1>1, <1>2 DEF QueueOk
  <2>2. first = Firsts(w, served)
    BY DEF Firsts
  <2> HIDE DEF served, w, first
  <2>3. QED
    BY <1>2, <2>1, <2>2, FirstInLine
<1>5. first \subseteq Session /\ \A s \in first : s \notin b.granted
  BY <1>1, <1>2 DEF QueueOk
<1>6. /\ Give(b, n) = [free |-> b.free + (n - served), waiters |-> rest,
                       granted |-> b.granted \cup first]
      /\ Give(b, n).free = b.free + (n - served)
      /\ Give(b, n).waiters = rest
      /\ Give(b, n).granted = b.granted \cup first
  <2>1. Give(b, n) = [free |-> b.free + (n - served), waiters |-> rest,
                      granted |-> b.granted \cup first]
    BY Zenon DEF Give
  <2> HIDE DEF served, rest, first
  <2>2. QED
    BY <2>1
<1>7. DOMAIN w = 1..Len(w) /\ DOMAIN rest = 1..Len(rest)
  <2> HIDE DEF w, rest
  <2>1. QED
    BY <1>1, <1>3, LenProperties
<1>8. QueueOk(Give(b, n))
  <2>1. \A i, j \in 1..Len(rest) : rest[i] = rest[j] => i = j
    <3> HIDE DEF served, rest, w
    <3>1. TAKE i, j \in 1..Len(rest)
    <3>2. /\ rest[i] = w[served + i] /\ rest[j] = w[served + j]
          /\ served + i \in 1..Len(w) /\ served + j \in 1..Len(w)
      BY <1>1, <1>2, <1>3
    <3>3. w[served + i] = w[served + j] => served + i = served + j
      BY <3>2
    <3>4. i \in Int /\ j \in Int
      OBVIOUS
    <3>5. QED
      BY <1>2, <3>2, <3>3, <3>4
  <2>2. \A i \in 1..Len(rest) : rest[i] \notin b.granted \cup first
    <3>1. TAKE i \in 1..Len(rest)
    <3>2. served + i \in 1..Len(w) /\ rest[i] = w[served + i]
      <4> HIDE DEF served, rest, w, first
      <4>1. QED
        BY <1>1, <1>2, <1>3
    <3>3. w[served + i] \notin b.granted
      BY <3>2
    <3>4. \A j \in 1..served : w[j] # w[served + i]
      <4> HIDE DEF served, w
      <4>1. QED
        BY <1>1, <1>2, <3>2
    <3>5. QED
      BY <3>2, <3>3, <3>4
  <2>3. b.free + (n - served) \in Nat /\ b.granted \cup first \in SUBSET Session
    <3> HIDE DEF served, first
    <3>1. QED
      BY <1>2, <1>5 DEF QueueOk
  <2> HIDE DEF served, first, rest, w
  <2>4. QED
    BY <1>3, <1>6, <2>1, <2>2, <2>3 DEF QueueOk
<1>9. Tickets(Give(b, n)) = Tickets(b)
  <2>1. ToSet(w) = {w[i] : i \in 1..Len(w)} /\ ToSet(rest) = {rest[i] : i \in 1..Len(rest)}
    BY <1>7 DEF ToSet
  <2>2. {w[i] : i \in 1..Len(w)} = first \cup {rest[i] : i \in 1..Len(rest)}
    <3>1. ASSUME NEW i \in 1..Len(w)
          PROVE  w[i] \in first \cup {rest[j] : j \in 1..Len(rest)}
      <4>1. CASE i <= served
        BY <1>2, <4>1
      <4>2. CASE i > served
        <5>1. i - served \in 1..Len(rest) /\ rest[i - served] = w[i]
          <6> HIDE DEF served, rest
          <6>1. QED
            BY <1>1, <1>2, <1>3, <4>2
        <5>2. QED
          BY <5>1
      <4>3. QED
        BY <1>2, <4>1, <4>2
    <3>2. ASSUME NEW i \in 1..Len(rest) PROVE rest[i] \in {w[j] : j \in 1..Len(w)}
      <4>1. served + i \in 1..Len(w) /\ rest[i] = w[served + i]
        <5> HIDE DEF served, rest, w, first
        <5>1. QED
          BY <1>1, <1>2, <1>3
      <4>2. QED
        BY <4>1
    <3>3. first \subseteq {w[j] : j \in 1..Len(w)}
      BY <1>1, <1>2
    <3> HIDE DEF first, rest, w, served
    <3>4. QED
      BY <3>1, <3>2, <3>3
  <2>3. Tickets(Give(b, n)) = ToSet(rest) \cup (b.granted \cup first)
    BY <1>6, Zenon DEF Tickets, InLine
  <2>4. Tickets(b) = ToSet(w) \cup b.granted
    BY Zenon DEF Tickets, InLine
  <2> HIDE DEF first, rest, w
  <2>5. QED
    BY <2>1, <2>2, <2>3, <2>4
<1>10. Idle(Give(b, n)) = Idle(b) + n
  <2>1. IsFiniteSet(b.granted)
    BY FS_Subset DEF QueueOk
  <2>2. Cardinality(b.granted \cup first)
          = Cardinality(b.granted) + Cardinality(first) - Cardinality(b.granted \cap first)
    BY <1>4, <2>1, FS_Union
  <2>3. b.granted \cap first = {}
    BY <1>5
  <2>4. Cardinality(b.granted \cap first) = 0
    BY <2>3, FS_EmptySet, Zenon
  <2>5. Cardinality(b.granted) \in Nat /\ b.free \in Nat
    BY <2>1, FS_CardinalityType DEF QueueOk
  <2> HIDE DEF served, first
  <2>6. QED
    BY <1>2, <1>4, <1>6, <2>2, <2>4, <2>5 DEF Idle
<1>11. QED
  BY <1>6, <1>8, <1>9, <1>10

(* Whoever leaves the line leaves the others in it, in their order.         *)
LEMMA LeaveLine ==
  ASSUME NEW w \in Seq(Session), NEW s,
         \A i, j \in 1..Len(w) : w[i] = w[j] => i = j
  PROVE  LET v == RemoveFirst(w, s) IN
         /\ v \in Seq(Session)
         /\ \A i, j \in 1..Len(v) : v[i] = v[j] => i = j
         /\ ToSet(v) = ToSet(w) \ {s}
<1>1. Len(w) \in Nat /\ DOMAIN w = 1..Len(w) /\ \A i \in 1..Len(w) : w[i] \in Session
  BY LenProperties, ElementOfSeq
<1>2. ToSet(w) = {w[i] : i \in 1..Len(w)}
  BY <1>1 DEF ToSet
<1>3. CASE ~ \E i \in 1..Len(w) : w[i] = s
  <2>1. RemoveFirst(w, s) = w
    BY <1>3 DEF RemoveFirst
  <2>2. ToSet(w) = ToSet(w) \ {s}
    BY <1>2, <1>3
  <2>3. QED
    BY <2>1, <2>2
<1>4. CASE \E i \in 1..Len(w) : w[i] = s
  <2>1. PICK k \in 1..Len(w) : w[k] = s
    BY <1>4
  <2> DEFINE head == SubSeq(w, 1, k - 1)
             tail == SubSeq(w, k + 1, Len(w))
             v == head \o tail
  <2>2. RemoveFirst(w, s) = v
    <3>1. {i \in 1..Len(w) : w[i] = s} = {k}
      BY <2>1
    <3>2. Min({k}) = k
      BY <2>1 DEF Min
    <3>3. SelectInSeq(w, LAMBDA x : x = s) = Min({i \in 1..Len(w) : w[i] = s})
      BY <3>1, Zenon DEF SelectInSeq
    <3>4. SelectInSeq(w, LAMBDA x : x = s) = k
      BY <3>1, <3>2, <3>3
    <3>5. RemoveFirst(w, s) = RemoveAt(w, SelectInSeq(w, LAMBDA x : x = s))
      BY <1>4, Zenon DEF RemoveFirst
    <3>6. QED
      BY <3>4, <3>5, Zenon DEF RemoveAt
  <2>3. /\ head \in Seq(Session) /\ Len(head) = k - 1
        /\ \A i \in 1..(k - 1) : head[i] = w[i]
    <3>1. 1 \in Int /\ k - 1 \in Int /\ \A i \in 1..(k - 1) : w[i] \in Session
      BY <1>1, <2>1
    <3>2. /\ SubSeq(w, 1, k - 1) \in Seq(Session)
          /\ Len(SubSeq(w, 1, k - 1)) = IF 1 <= k - 1 THEN (k - 1) - 1 + 1 ELSE 0
          /\ \A i \in 1..((k - 1) - 1 + 1) : SubSeq(w, 1, k - 1)[i] = w[1 + i - 1]
      BY <3>1, SubSeqProperties
    <3>3. QED
      BY <1>1, <2>1, <3>2
  <2>4. /\ tail \in Seq(Session) /\ Len(tail) = Len(w) - k
        /\ \A i \in 1..(Len(w) - k) : tail[i] = w[k + i]
    <3>1. k + 1 \in Int /\ Len(w) \in Int /\ \A i \in (k + 1)..Len(w) : w[i] \in Session
      BY <1>1, <2>1
    <3>2. /\ SubSeq(w, k + 1, Len(w)) \in Seq(Session)
          /\ Len(SubSeq(w, k + 1, Len(w)))
               = IF k + 1 <= Len(w) THEN Len(w) - (k + 1) + 1 ELSE 0
          /\ \A i \in 1..(Len(w) - (k + 1) + 1) :
               SubSeq(w, k + 1, Len(w))[i] = w[(k + 1) + i - 1]
      BY <3>1, SubSeqProperties
    <3>3. QED
      BY <1>1, <2>1, <3>2
  <2>5. /\ v \in Seq(Session) /\ Len(v) = Len(w) - 1
        /\ \A i \in 1..(Len(w) - 1) : v[i] = IF i < k THEN w[i] ELSE w[i + 1]
    <3> HIDE DEF head, tail
    <3>1. /\ v \in Seq(Session) /\ Len(v) = Len(head) + Len(tail)
          /\ \A i \in 1..(Len(head) + Len(tail)) :
               v[i] = IF i <= Len(head) THEN head[i] ELSE tail[i - Len(head)]
      <4>1. head \in Seq(Session) /\ tail \in Seq(Session)
        BY <2>3, <2>4
      <4>2. QED
        BY <4>1, ConcatProperties
    <3> HIDE DEF v
    <3>2. ASSUME NEW i \in 1..(Len(w) - 1)
          PROVE  v[i] = IF i < k THEN w[i] ELSE w[i + 1]
      <4>1. v[i] = IF i <= k - 1 THEN head[i] ELSE tail[i - (k - 1)]
        BY <1>1, <2>1, <2>3, <2>4, <3>1
      <4>2. CASE i < k
        BY <1>1, <2>1, <2>3, <4>1, <4>2
      <4>3. CASE i >= k
        <5>1. i - (k - 1) \in 1..(Len(w) - k) /\ k + (i - (k - 1)) = i + 1
          BY <1>1, <2>1, <4>3
        <5>2. tail[i - (k - 1)] = w[i + 1]
          BY <2>4, <5>1
        <5>3. QED
          BY <2>1, <4>1, <4>3, <5>2
      <4>4. QED
        BY <2>1, <4>2, <4>3
    <3>3. QED
      BY <1>1, <2>1, <2>3, <2>4, <3>1, <3>2
  <2> HIDE DEF v
  <2>6. \A i, j \in 1..Len(v) : v[i] = v[j] => i = j
    <3>1. TAKE i, j \in 1..Len(v)
    <3>2. i \in 1..(Len(w) - 1) /\ j \in 1..(Len(w) - 1)
      BY <2>5
    <3> DEFINE from(x) == IF x < k THEN x ELSE x + 1
    <3>3. v[i] = w[from(i)] /\ v[j] = w[from(j)]
      BY <2>5, <3>2
    <3>4. from(i) \in 1..Len(w) /\ from(j) \in 1..Len(w)
      BY <1>1, <2>1, <3>2
    <3>5. w[from(i)] = w[from(j)] => from(i) = from(j)
      BY <3>4
    <3>6. from(i) = from(j) => i = j
      BY <2>1, <3>2
    <3>7. QED
      BY <3>3, <3>5, <3>6
  <2>7. ToSet(v) = ToSet(w) \ {s}
    <3>1. DOMAIN v = 1..Len(v)
      BY <2>5, LenProperties
    <3>2. ToSet(v) = {v[i] : i \in 1..(Len(w) - 1)}
      BY <2>5, <3>1 DEF ToSet
    <3>3. ASSUME NEW i \in 1..(Len(w) - 1) PROVE v[i] \in ToSet(w) \ {s}
      <4>1. CASE i < k
        BY <1>1, <1>2, <2>1, <2>5, <4>1
      <4>2. CASE i >= k
        <5>1. i + 1 \in 1..Len(w) /\ i + 1 # k /\ v[i] = w[i + 1]
          BY <1>1, <2>1, <2>5, <4>2
        <5>2. QED
          BY <1>2, <2>1, <5>1
      <4>3. QED
        BY <2>1, <4>1, <4>2
    <3>4. ASSUME NEW i \in 1..Len(w), w[i] # s
          PROVE  \E j \in 1..(Len(w) - 1) : w[i] = v[j]
      <4>1. i # k
        BY <2>1, <3>4
      <4>2. CASE i < k
        <5>1. i \in 1..(Len(w) - 1) /\ v[i] = w[i]
          BY <1>1, <2>1, <2>5, <4>2
        <5>2. QED
          BY <5>1
      <4>3. CASE i > k
        <5>1. i - 1 \in 1..(Len(w) - 1) /\ ~ (i - 1 < k) /\ (i - 1) + 1 = i
          BY <1>1, <2>1, <4>3
        <5>2. v[i - 1] = w[i]
          BY <2>5, <5>1
        <5>3. QED
          BY <5>1, <5>2
      <4>4. QED
        BY <2>1, <4>1, <4>2, <4>3
    <3>5. ToSet(v) \subseteq ToSet(w) \ {s}
      BY <3>2, <3>3
    <3>6. ToSet(w) \ {s} \subseteq ToSet(v)
      BY <1>2, <3>2, <3>4
    <3>7. QED
      BY <3>5, <3>6
  <2>8. QED
    BY <2>2, <2>5, <2>6, <2>7
<1>5. QED
  BY <1>3, <1>4

(* A reservation succeeds.                                                  *)
LEMMA TakeFacts ==
  ASSUME NEW b, QueueOk(b), NEW n \in Nat, n <= b.free
  PROVE  /\ QueueOk(Take(b, n))
         /\ Tickets(Take(b, n)) = Tickets(b)
         /\ Take(b, n).granted = b.granted
         /\ Idle(Take(b, n)) = Idle(b) - n
<1>1. /\ Take(b, n).free = b.free - n
      /\ Take(b, n).waiters = b.waiters
      /\ Take(b, n).granted = b.granted
      /\ Take(b, n) = [free |-> b.free - n, waiters |-> b.waiters, granted |-> b.granted]
  BY DEF Take, QueueOk
<1>2. QueueOk(Take(b, n))
  BY <1>1 DEF QueueOk
<1>3. Tickets(Take(b, n)) = Tickets(b)
  BY <1>1, Zenon DEF Tickets, InLine
<1>4. Idle(Take(b, n)) = Idle(b) - n
  <2>1. b.free \in Nat /\ Cardinality(b.granted) \in Int
    <3>1. IsFiniteSet(b.granted)
      BY StreamAssumption, FS_Subset DEF QueueOk
    <3>2. QED
      BY <3>1, FS_CardinalityType DEF QueueOk
  <2>2. QED
    BY <1>1, <2>1 DEF Idle
<1>5. QED
  BY <1>1, <1>2, <1>3, <1>4

(* A new ticket goes to the end of the line.                                *)
LEMMA EnqueueFacts ==
  ASSUME NEW b, QueueOk(b), NEW s \in Session, s \notin Tickets(b)
  PROVE  /\ QueueOk(Enqueue(b, s))
         /\ Tickets(Enqueue(b, s)) = Tickets(b) \cup {s}
         /\ Enqueue(b, s).granted = b.granted
         /\ Idle(Enqueue(b, s)) = Idle(b)
<1> DEFINE w == b.waiters
           v == Append(w, s)
<1>1. w \in Seq(Session) /\ Len(w) \in Nat /\ DOMAIN w = 1..Len(w)
  BY LenProperties DEF QueueOk
<1>2. /\ v \in Seq(Session) /\ Len(v) = Len(w) + 1 /\ v[Len(w) + 1] = s
      /\ \A i \in 1..Len(w) : v[i] = w[i]
      /\ DOMAIN v = 1..(Len(w) + 1)
  <2> HIDE DEF w
  <2>1. QED
    BY <1>1, AppendProperties, LenProperties
<1>3. /\ Enqueue(b, s).free = b.free
      /\ Enqueue(b, s).waiters = v
      /\ Enqueue(b, s).granted = b.granted
      /\ Enqueue(b, s) = [free |-> b.free, waiters |-> v, granted |-> b.granted]
  <2>1. Enqueue(b, s) = [b EXCEPT !.waiters = v]
    BY DEF Enqueue
  <2> HIDE DEF v
  <2>2. QED
    BY <2>1 DEF QueueOk
<1>4. ToSet(w) = {w[i] : i \in 1..Len(w)} /\ ToSet(v) = {v[i] : i \in 1..(Len(w) + 1)}
  BY <1>1, <1>2 DEF ToSet
<1>. /\ \A i, j \in 1..Len(w) : w[i] = w[j] => i = j
     /\ \A i \in 1..Len(w) : w[i] \notin b.granted
     /\ s \notin b.granted
  BY DEF QueueOk, Tickets
<1>5. \A i \in 1..Len(w) : w[i] # s
  BY <1>4 DEF Tickets, InLine
<1> HIDE DEF v, w
<1>6. ToSet(v) = ToSet(w) \cup {s}
  <2>1. \A i \in 1..(Len(w) + 1) : v[i] \in ToSet(w) \cup {s}
    <3>1. TAKE i \in 1..(Len(w) + 1)
    <3>2. i \in 1..Len(w) \/ i = Len(w) + 1
      BY <1>1
    <3>3. QED
      BY <1>2, <1>4, <3>2
  <2>2. s \in ToSet(v) /\ \A i \in 1..Len(w) : w[i] \in ToSet(v)
    BY <1>1, <1>2, <1>4
  <2>3. QED
    BY <1>4, <2>1, <2>2
<1>7. QueueOk(Enqueue(b, s))
  <2>1. \A i, j \in 1..Len(v) : v[i] = v[j] => i = j
    <3>1. TAKE i, j \in 1..Len(v)
    <3>2. (i \in 1..Len(w) \/ i = Len(w) + 1) /\ (j \in 1..Len(w) \/ j = Len(w) + 1)
      BY <1>1, <1>2
    <3>3. QED
      BY <1>2, <1>5, <3>2
  <2>2. \A i \in 1..Len(v) : v[i] \notin b.granted
    <3>1. TAKE i \in 1..Len(v)
    <3>2. i \in 1..Len(w) \/ i = Len(w) + 1
      BY <1>1, <1>2
    <3>3. QED
      BY <1>2, <3>2
  <2>3. QED
    BY <1>2, <1>3, <2>1, <2>2 DEF QueueOk
<1>8. Tickets(Enqueue(b, s)) = Tickets(b) \cup {s}
  <2>1. Tickets(Enqueue(b, s)) = ToSet(v) \cup b.granted
    BY <1>3, Zenon DEF Tickets, InLine
  <2>2. Tickets(b) = ToSet(w) \cup b.granted
    BY Zenon DEF Tickets, InLine, w
  <2>3. QED
    BY <1>6, <2>1, <2>2
<1>9. Idle(Enqueue(b, s)) = Idle(b)
  BY <1>3, Zenon DEF Idle
<1>10. QED
  BY <1>3, <1>7, <1>8, <1>9

(* A ticket that was served is turned into a frame of its owner.            *)
LEMMA CollectFacts ==
  ASSUME NEW b, QueueOk(b), NEW s \in b.granted
  PROVE  /\ QueueOk(Collect(b, s))
         /\ Tickets(Collect(b, s)) = Tickets(b) \ {s}
         /\ Collect(b, s).granted = b.granted \ {s}
         /\ Idle(Collect(b, s)) = Idle(b) - 1
<1>1. /\ Collect(b, s).free = b.free
      /\ Collect(b, s).waiters = b.waiters
      /\ Collect(b, s).granted = b.granted \ {s}
      /\ Collect(b, s) = [free |-> b.free, waiters |-> b.waiters, granted |-> b.granted \ {s}]
  <2> DEFINE rest == b.granted \ {s}
  <2>1. Collect(b, s) = [b EXCEPT !.granted = rest]
    BY DEF Collect
  <2> HIDE DEF rest
  <2>2. /\ Collect(b, s).free = b.free
        /\ Collect(b, s).waiters = b.waiters
        /\ Collect(b, s).granted = rest
        /\ Collect(b, s) = [free |-> b.free, waiters |-> b.waiters, granted |-> rest]
    BY <2>1 DEF QueueOk
  <2>3. QED
    BY <2>2 DEF rest
<1>2. QueueOk(Collect(b, s))
  <2>1. b.granted \ {s} \in SUBSET Session
    BY DEF QueueOk
  <2>2. \A i \in 1..Len(b.waiters) : b.waiters[i] \notin b.granted \ {s}
    BY DEF QueueOk
  <2>3. QED
    BY <1>1, <2>1, <2>2 DEF QueueOk
<1>3. Tickets(Collect(b, s)) = Tickets(b) \ {s}
  <2>1. Tickets(Collect(b, s)) = ToSet(b.waiters) \cup (b.granted \ {s})
    BY <1>1, Zenon DEF Tickets, InLine
  <2>2. s \notin ToSet(b.waiters)
    <3>1. DOMAIN b.waiters = 1..Len(b.waiters)
      BY LenProperties DEF QueueOk
    <3>2. QED
      BY <3>1 DEF QueueOk, ToSet
  <2>3. QED
    BY <2>1, <2>2 DEF Tickets, InLine
<1>4. Idle(Collect(b, s)) = Idle(b) - 1
  <2>1. IsFiniteSet(b.granted)
    BY StreamAssumption, FS_Subset DEF QueueOk
  <2>2. Cardinality(b.granted \ {s}) = Cardinality(b.granted) - 1
    BY <2>1, FS_RemoveElement
  <2>3. Cardinality(b.granted) \in Nat /\ b.free \in Nat
    BY <2>1, FS_CardinalityType DEF QueueOk
  <2>4. QED
    BY <1>1, <2>2, <2>3 DEF Idle
<1>5. QED
  BY <1>1, <1>2, <1>3, <1>4

(* A dropped ticket leaves the line, or its frame comes back.               *)
LEMMA WithdrawFacts ==
  ASSUME NEW b, QueueOk(b), NEW s \in Session
  PROVE  /\ QueueOk(Withdraw(b, s))
         /\ Tickets(Withdraw(b, s)) = Tickets(b) \ {s}
         /\ b.granted \ {s} \subseteq Withdraw(b, s).granted
         /\ Idle(Withdraw(b, s)) = Idle(b)
<1>1. CASE s \in b.granted
  <2> DEFINE c == Collect(b, s)
  <2>1. /\ QueueOk(c) /\ Tickets(c) = Tickets(b) \ {s} /\ c.granted = b.granted \ {s}
        /\ Idle(c) = Idle(b) - 1
    BY <1>1, CollectFacts
  <2>2. Withdraw(b, s) = Give(c, 1)
    BY <1>1 DEF Withdraw
  <2> HIDE DEF c
  <2>3. /\ QueueOk(Give(c, 1)) /\ Tickets(Give(c, 1)) = Tickets(c)
        /\ c.granted \subseteq Give(c, 1).granted /\ Idle(Give(c, 1)) = Idle(c) + 1
    BY <2>1, StreamAssumption, GiveFacts
  <2>4. Idle(b) \in Int
    <3>1. IsFiniteSet(b.granted)
      BY StreamAssumption, FS_Subset DEF QueueOk
    <3>2. QED
      BY <3>1, FS_CardinalityType DEF QueueOk, Idle
  <2>5. QED
    BY <2>1, <2>2, <2>3, <2>4
<1>2. CASE s \notin b.granted
  <2> DEFINE w == b.waiters
             v == RemoveFirst(w, s)
  <2>1. w \in Seq(Session) /\ \A i, j \in 1..Len(w) : w[i] = w[j] => i = j
    BY DEF QueueOk
  <2>2. /\ v \in Seq(Session) /\ \A i, j \in 1..Len(v) : v[i] = v[j] => i = j
        /\ ToSet(v) = ToSet(w) \ {s}
    <3> HIDE DEF w
    <3>1. QED
      BY <2>1, LeaveLine
  <2>3. /\ Withdraw(b, s) = [free |-> b.free, waiters |-> v, granted |-> b.granted]
        /\ Withdraw(b, s).free = b.free /\ Withdraw(b, s).waiters = v
        /\ Withdraw(b, s).granted = b.granted
    <3>1. Withdraw(b, s) = [b EXCEPT !.waiters = v]
      BY <1>2 DEF Withdraw
    <3> HIDE DEF v, w
    <3>2. QED
      BY <3>1 DEF QueueOk
  <2>4. \A i \in 1..Len(v) : v[i] \notin b.granted
    <3>1. TAKE i \in 1..Len(v)
    <3>2. DOMAIN v = 1..Len(v) /\ DOMAIN w = 1..Len(w)
      <4> HIDE DEF v, w
      <4>1. QED
        BY <2>1, <2>2, LenProperties
    <3>3. v[i] \in ToSet(w)
      <4> HIDE DEF v, w
      <4>1. QED
        BY <2>2, <3>2 DEF ToSet
    <3> HIDE DEF v
    <3>4. \A x \in ToSet(w) : x \notin b.granted
      BY <3>2 DEF QueueOk, ToSet
    <3>5. QED
      BY <3>3, <3>4
  <2> HIDE DEF v
  <2>5. QueueOk(Withdraw(b, s))
    BY <2>2, <2>3, <2>4 DEF QueueOk
  <2>6. Tickets(Withdraw(b, s)) = Tickets(b) \ {s}
    <3>1. Tickets(Withdraw(b, s)) = ToSet(v) \cup b.granted
      BY <2>3, Zenon DEF Tickets, InLine
    <3>2. QED
      BY <1>2, <2>2, <3>1 DEF Tickets, InLine
  <2>7. Idle(Withdraw(b, s)) = Idle(b)
    BY <2>3, Zenon DEF Idle
  <2>8. QED
    BY <2>3, <2>5, <2>6, <2>7
<1>3. QED
  BY <1>1, <1>2

----------------------------------------------------------------------------
(* The plans of a session *)

AnyJob == UNION {Jobs[s] : s \in Session}

PlanOk(p) ==
  /\ p \in PlanType
  /\ p.lo < p.hi
  /\ p.lo <= p.emit /\ p.emit <= p.recv /\ p.recv <= p.auth /\ p.auth <= p.hi
  /\ p.finished => p.recv = p.hi /\ p.link = "closed" /\ p.url = "used"
  /\ p.url # "used" => p.link = "closed"

PlansOk(ps) == ps \in Seq(PlanType) /\ \A i \in 1..Len(ps) : PlanOk(ps[i])

Owned(ps) == [i \in DOMAIN ps |-> ps[i].auth - ps[i].emit]
Left(ps) == [i \in DOMAIN ps |-> ps[i].hi - ps[i].emit]
Lacking(ps) == [i \in DOMAIN ps |-> Missing(ps[i])]

(* What a sequence of plans is made of.                                     *)
LEMMA PlansAre ==
  ASSUME NEW ps, PlansOk(ps)
  PROVE  /\ Len(ps) \in Nat /\ DOMAIN ps = 1..Len(ps) /\ IsFiniteSet(1..Len(ps))
         /\ \A i \in 1..Len(ps) :
              /\ PlanOk(ps[i])
              /\ ps[i].base \in Nat /\ ps[i].lo \in Nat /\ ps[i].hi \in Nat
              /\ ps[i].auth \in Nat /\ ps[i].recv \in Nat /\ ps[i].emit \in Nat
              /\ ps[i].lo < ps[i].hi
              /\ ps[i].lo <= ps[i].emit /\ ps[i].emit <= ps[i].recv
              /\ ps[i].recv <= ps[i].auth /\ ps[i].auth <= ps[i].hi
         /\ ps = <<>> <=> Len(ps) = 0
<1>1. Len(ps) \in Nat /\ DOMAIN ps = 1..Len(ps) /\ (ps = <<>> <=> Len(ps) = 0)
  BY LenProperties DEF PlansOk
<1>2. IsFiniteSet(1..Len(ps))
  BY <1>1, Numbers
<1>3. QED
  BY <1>1, <1>2 DEF PlansOk, PlanOk, PlanType

(* The sums over the plans are sums over 1..Len.                            *)
LEMMA PlanSums ==
  ASSUME NEW ps, PlansOk(ps)
  PROVE  /\ Committed(ps) = SumFunctionOnSet(Owned(ps), 1..Len(ps))
         /\ Remaining(ps) = SumFunctionOnSet(Left(ps), 1..Len(ps))
         /\ Committed(ps) \in Nat /\ Remaining(ps) \in Nat
         /\ \A i \in 1..Len(ps) :
              /\ Owned(ps)[i] = ps[i].auth - ps[i].emit /\ Owned(ps)[i] \in Nat
              /\ Left(ps)[i] = ps[i].hi - ps[i].emit /\ Left(ps)[i] \in Nat
              /\ Lacking(ps)[i] = ps[i].hi - ps[i].auth /\ Lacking(ps)[i] \in Nat
<1>1. DOMAIN ps = 1..Len(ps)
  BY PlansAre
<1>2. \A i \in 1..Len(ps) :
        /\ Owned(ps)[i] = ps[i].auth - ps[i].emit /\ Owned(ps)[i] \in Nat
        /\ Left(ps)[i] = ps[i].hi - ps[i].emit /\ Left(ps)[i] \in Nat
        /\ Lacking(ps)[i] = ps[i].hi - ps[i].auth /\ Lacking(ps)[i] \in Nat
  <2>1. TAKE i \in 1..Len(ps)
  <2>2. /\ ps[i].hi \in Nat /\ ps[i].auth \in Nat /\ ps[i].emit \in Nat
        /\ ps[i].emit <= ps[i].auth /\ ps[i].auth <= ps[i].hi
    BY PlansAre
  <2>3. i \in DOMAIN ps
    BY <1>1
  <2>4. /\ Owned(ps)[i] = ps[i].auth - ps[i].emit
        /\ Left(ps)[i] = ps[i].hi - ps[i].emit
        /\ Lacking(ps)[i] = ps[i].hi - ps[i].auth
    BY <2>3 DEF Owned, Left, Lacking, Missing
  <2>5. QED
    BY <2>2, <2>4
<1>3. DOMAIN Owned(ps) = 1..Len(ps) /\ DOMAIN Left(ps) = 1..Len(ps)
  BY <1>1 DEF Owned, Left
<1>4. Committed(ps) = SumFunction(Owned(ps)) /\ Remaining(ps) = SumFunction(Left(ps))
  BY Zenon DEF Committed, Remaining, Owned, Left
<1>5. /\ Committed(ps) = SumFunctionOnSet(Owned(ps), 1..Len(ps))
      /\ Remaining(ps) = SumFunctionOnSet(Left(ps), 1..Len(ps))
  BY <1>3, <1>4, Zenon DEF SumFunction
<1>6. IsFiniteSet(1..Len(ps))
  BY PlansAre
<1>7. Committed(ps) \in Nat /\ Remaining(ps) \in Nat
  BY <1>2, <1>5, <1>6, SumNat
<1>8. QED
  BY <1>2, <1>5, <1>7

(* What remains is what is committed and what is missing.                   *)
LEMMA RemainingParts ==
  ASSUME NEW ps, PlansOk(ps)
  PROVE  /\ Remaining(ps) = Committed(ps) + SumFunctionOnSet(Lacking(ps), 1..Len(ps))
         /\ SumFunctionOnSet(Lacking(ps), 1..Len(ps)) \in Nat
<1>1. \A i \in 1..Len(ps) :
        /\ Owned(ps)[i] \in Int /\ Lacking(ps)[i] \in Int
        /\ Left(ps)[i] = Owned(ps)[i] + Lacking(ps)[i]
  <2>1. TAKE i \in 1..Len(ps)
  <2>2. /\ Owned(ps)[i] = ps[i].auth - ps[i].emit
        /\ Left(ps)[i] = ps[i].hi - ps[i].emit
        /\ Lacking(ps)[i] = ps[i].hi - ps[i].auth
    BY PlanSums
  <2>3. ps[i].hi \in Nat /\ ps[i].auth \in Nat /\ ps[i].emit \in Nat
    BY PlansAre
  <2>4. QED
    BY <2>2, <2>3
<1>2. IsFiniteSet(1..Len(ps))
  BY PlansAre
<1>3. SumFunctionOnSet(Left(ps), 1..Len(ps))
        = SumFunctionOnSet(Owned(ps), 1..Len(ps)) + SumFunctionOnSet(Lacking(ps), 1..Len(ps))
  BY <1>1, <1>2, SumPlus
<1>4. SumFunctionOnSet(Lacking(ps), 1..Len(ps)) \in Nat
  <2>1. \A i \in 1..Len(ps) : Lacking(ps)[i] \in Nat
    BY PlanSums
  <2>2. QED
    BY <1>2, <2>1, SumNat
<1>5. QED
  BY <1>3, <1>4, PlanSums

(* The sums depend on three numbers of each plan.                           *)
LEMMA SameSums ==
  ASSUME NEW ps, NEW qs, PlansOk(ps), PlansOk(qs), Len(qs) = Len(ps),
         \A i \in 1..Len(ps) : qs[i].emit = ps[i].emit
  PROVE  /\ (\A i \in 1..Len(ps) : qs[i].auth = ps[i].auth) => Committed(qs) = Committed(ps)
         /\ (\A i \in 1..Len(ps) : qs[i].hi = ps[i].hi) => Remaining(qs) = Remaining(ps)
<1>1. IsFiniteSet(1..Len(ps))
  BY PlansAre
<1>2. ASSUME \A i \in 1..Len(ps) : qs[i].auth = ps[i].auth
      PROVE  Committed(qs) = Committed(ps)
  <2>1. \A i \in 1..Len(ps) : Owned(qs)[i] = Owned(ps)[i]
    BY <1>2, PlanSums
  <2>2. SumFunctionOnSet(Owned(qs), 1..Len(ps)) = SumFunctionOnSet(Owned(ps), 1..Len(ps))
    BY <1>1, <2>1, SumEqual
  <2>3. QED
    BY <2>2, PlanSums
<1>3. ASSUME \A i \in 1..Len(ps) : qs[i].hi = ps[i].hi
      PROVE  Remaining(qs) = Remaining(ps)
  <2>1. \A i \in 1..Len(ps) : Left(qs)[i] = Left(ps)[i]
    BY <1>3, PlanSums
  <2>2. SumFunctionOnSet(Left(qs), 1..Len(ps)) = SumFunctionOnSet(Left(ps), 1..Len(ps))
    BY <1>1, <2>1, SumEqual
  <2>3. QED
    BY <2>2, PlanSums
<1>4. QED
  BY <1>2, <1>3

(* No plan, no frames.                                                      *)
LEMMA NoPlans ==
  PlansOk(<<>>) /\ Committed(<<>>) = 0 /\ Remaining(<<>>) = 0
<1>1. PlansOk(<<>>) /\ Len(<<>>) = 0
  BY EmptySeq DEF PlansOk
<1>2. /\ Committed(<<>>) = SumFunctionOnSet(Owned(<<>>), 1..0)
      /\ Remaining(<<>>) = SumFunctionOnSet(Left(<<>>), 1..0)
  BY <1>1, PlanSums
<1>3. QED
  BY <1>1, <1>2, SumNone

(* The front plan goes, with what it still owned.                           *)
LEMMA TailSums ==
  ASSUME NEW ps, PlansOk(ps), ps # <<>>
  PROVE  /\ PlansOk(Tail(ps)) /\ Len(Tail(ps)) = Len(ps) - 1
         /\ \A i \in 1..(Len(ps) - 1) : Tail(ps)[i] = ps[i + 1]
         /\ Committed(Tail(ps)) = Committed(ps) - (ps[1].auth - ps[1].emit)
         /\ Remaining(Tail(ps)) = Remaining(ps) - (ps[1].hi - ps[1].emit)
<1> DEFINE qs == Tail(ps)
<1>1. /\ qs \in Seq(PlanType) /\ Len(qs) = Len(ps) - 1 /\ Len(ps) \in Nat /\ Len(ps) > 0
      /\ \A i \in 1..(Len(ps) - 1) : qs[i] = ps[i + 1]
  BY PlansAre, HeadTailProperties DEF PlansOk
<1> HIDE DEF qs
<1>2. PlansOk(qs)
  <2>1. \A i \in 1..Len(qs) : PlanOk(qs[i])
    <3>1. TAKE i \in 1..Len(qs)
    <3>2. i + 1 \in 1..Len(ps) /\ qs[i] = ps[i + 1]
      BY <1>1
    <3>3. QED
      BY <3>2, PlansAre
  <2>2. QED
    BY <1>1, <2>1 DEF PlansOk
<1>3. \A i \in 1..(Len(ps) - 1) :
        Owned(qs)[i] = Owned(ps)[i + 1] /\ Left(qs)[i] = Left(ps)[i + 1]
  <2>1. TAKE i \in 1..(Len(ps) - 1)
  <2>2. i + 1 \in 1..Len(ps) /\ i \in 1..Len(qs) /\ qs[i] = ps[i + 1]
    BY <1>1
  <2>3. QED
    BY <1>2, <2>2, PlanSums
<1>4. \A i \in 1..Len(ps) : Owned(ps)[i] \in Int /\ Left(ps)[i] \in Int
  BY PlanSums
<1>5. SumFunctionOnSet(Owned(qs), 1..(Len(ps) - 1))
        = SumFunctionOnSet(Owned(ps), 1..Len(ps)) - Owned(ps)[1]
  BY <1>1, <1>3, <1>4, SumShift
<1>6. SumFunctionOnSet(Left(qs), 1..(Len(ps) - 1))
        = SumFunctionOnSet(Left(ps), 1..Len(ps)) - Left(ps)[1]
  BY <1>1, <1>3, <1>4, SumShift
<1>7. 1 \in 1..Len(ps)
  BY <1>1
<1>8. /\ Committed(qs) = Committed(ps) - (ps[1].auth - ps[1].emit)
      /\ Remaining(qs) = Remaining(ps) - (ps[1].hi - ps[1].emit)
  <2>1. /\ Committed(ps) = SumFunctionOnSet(Owned(ps), 1..Len(ps))
        /\ Remaining(ps) = SumFunctionOnSet(Left(ps), 1..Len(ps))
        /\ Owned(ps)[1] = ps[1].auth - ps[1].emit
        /\ Left(ps)[1] = ps[1].hi - ps[1].emit
    BY <1>7, PlanSums
  <2>2. /\ Committed(qs) = SumFunctionOnSet(Owned(qs), 1..(Len(ps) - 1))
        /\ Remaining(qs) = SumFunctionOnSet(Left(qs), 1..(Len(ps) - 1))
    BY <1>1, <1>2, PlanSums
  <2>3. QED
    BY <1>5, <1>6, <2>1, <2>2
<1>9. QED
  BY <1>1, <1>2, <1>8 DEF qs

(* New plans own nothing.                                                   *)
LEMMA JoinSums ==
  ASSUME NEW ps, NEW qs, PlansOk(ps), PlansOk(qs),
         \A i \in 1..Len(qs) : qs[i].auth = qs[i].emit
  PROVE  /\ PlansOk(ps \o qs) /\ Len(ps \o qs) = Len(ps) + Len(qs)
         /\ \A i \in 1..(Len(ps) + Len(qs)) :
              (ps \o qs)[i] = IF i <= Len(ps) THEN ps[i] ELSE qs[i - Len(ps)]
         /\ Committed(ps \o qs) = Committed(ps)
<1> DEFINE all == ps \o qs
           n == Len(ps)
           m == Len(qs)
<1>1. n \in Nat /\ m \in Nat
  BY PlansAre
<1>2. /\ all \in Seq(PlanType) /\ Len(all) = n + m
      /\ \A i \in 1..(n + m) : all[i] = IF i <= n THEN ps[i] ELSE qs[i - n]
  <2>1. ps \in Seq(PlanType) /\ qs \in Seq(PlanType)
    BY DEF PlansOk
  <2>2. QED
    BY <2>1, ConcatProperties
<1>3. \A i \in 1..n : PlanOk(ps[i])
  BY DEF PlansOk
<1>4. \A i \in 1..m : PlanOk(qs[i]) /\ qs[i].auth = qs[i].emit
  BY DEF PlansOk
<1> HIDE DEF all
<1>5. \A i \in 1..(n + m) : PlanOk(all[i]) /\ (i > n => all[i].auth = all[i].emit)
  <2>1. TAKE i \in 1..(n + m)
  <2>2. CASE i <= n
    BY <1>1, <1>2, <1>3, <2>2
  <2>3. CASE i > n
    <3>1. i - n \in 1..m /\ all[i] = qs[i - n]
      <4> HIDE DEF n, m
      <4>1. QED
        BY <1>1, <1>2, <2>3
    <3>2. QED
      BY <1>4, <3>1
  <2>4. QED
    BY <1>1, <2>2, <2>3
<1>6. PlansOk(all)
  BY <1>2, <1>5 DEF PlansOk
<1>7. \A i \in 1..n : Owned(all)[i] = Owned(ps)[i]
  <2>1. TAKE i \in 1..n
  <2>2. i \in 1..Len(all) /\ all[i] = ps[i]
    <3> HIDE DEF n, m
    <3>1. QED
      BY <1>1, <1>2
  <2>3. QED
    BY <1>6, <2>2, PlanSums
<1>8. \A i \in (1..(n + m)) \ (1..n) : Owned(all)[i] = 0
  <2>1. TAKE i \in (1..(n + m)) \ (1..n)
  <2>2. i \in 1..(n + m) /\ i > n
    <3> HIDE DEF n, m
    <3>1. QED
      BY <1>1
  <2>3. i \in 1..Len(all) /\ all[i].auth = all[i].emit
    BY <1>2, <1>5, <2>2
  <2>4. all[i].emit \in Nat
    BY <1>6, <2>3, PlansAre
  <2>5. Owned(all)[i] = all[i].auth - all[i].emit
    BY <1>6, <2>3, PlanSums
  <2>6. QED
    BY <2>3, <2>4, <2>5
<1>9. \A i \in 1..(n + m) : Owned(all)[i] \in Int
  BY <1>2, <1>6, PlanSums
<1>10. IsFiniteSet(1..(n + m)) /\ IsFiniteSet(1..n) /\ 1..n \in SUBSET (1..(n + m))
  BY <1>1, Numbers
<1> DEFINE A == 1..n
           B == 1..(n + m)
<1>11. IsFiniteSet(B \ A)
  BY <1>10, FS_Subset
<1>12. Committed(all) = SumFunctionOnSet(Owned(all), B)
  BY <1>2, <1>6, PlanSums
<1>13. SumFunctionOnSet(Owned(all), B)
         = SumFunctionOnSet(Owned(all), A) + SumFunctionOnSet(Owned(all), B \ A)
  <2>1. IsFiniteSet(B) /\ A \in SUBSET B /\ \A i \in B : Owned(all)[i] \in Int
    BY <1>9, <1>10
  <2> HIDE DEF A, B, n, m
  <2>2. QED
    BY <2>1, SumSplit
<1>14. SumFunctionOnSet(Owned(all), B \ A) = 0
  <2>1. \A i \in B \ A : Owned(all)[i] = 0
    BY <1>8
  <2> HIDE DEF A, B
  <2>2. QED
    BY <1>11, <2>1, SumZero
<1>15. SumFunctionOnSet(Owned(all), A) = SumFunctionOnSet(Owned(ps), A)
  BY <1>7, <1>10, SumEqual
<1>16. SumFunctionOnSet(Owned(ps), A) = Committed(ps) /\ Committed(ps) \in Nat
  BY PlanSums
<1>17. Committed(all) = Committed(ps)
  <2> HIDE DEF A, B
  <2>1. QED
    BY <1>12, <1>13, <1>14, <1>15, <1>16
<1>18. QED
  BY <1>2, <1>6, <1>17 DEF all

(* The front plan hands one frame over.                                     *)
LEMMA HandSums ==
  ASSUME NEW ps, PlansOk(ps), ps # <<>>, NEW q, PlanOk(q),
         q.auth = ps[1].auth, q.hi = ps[1].hi, q.emit = ps[1].emit + 1
  PROVE  /\ PlansOk([ps EXCEPT ![1] = q]) /\ Len([ps EXCEPT ![1] = q]) = Len(ps)
         /\ \A i \in 1..Len(ps) : [ps EXCEPT ![1] = q][i] = IF i = 1 THEN q ELSE ps[i]
         /\ Committed([ps EXCEPT ![1] = q]) = Committed(ps) - 1
<1> DEFINE qs == [ps EXCEPT ![1] = q]
<1>1. /\ qs \in Seq(PlanType) /\ Len(qs) = Len(ps)
      /\ \A i \in 1..Len(ps) : qs[i] = IF i = 1 THEN q ELSE ps[i]
  BY DEF PlansOk, PlanOk
<1>2. 1 \in 1..Len(ps) /\ IsFiniteSet(1..Len(ps))
  BY PlansAre
<1> HIDE DEF qs
<1>3. PlansOk(qs)
  BY <1>1 DEF PlansOk
<1>4. \A i \in 1..Len(ps) : Owned(qs)[i] \in Int /\ Owned(ps)[i] \in Int
  BY <1>1, <1>3, PlanSums
<1>5. \A i \in 1..Len(ps) : i # 1 => Owned(qs)[i] = Owned(ps)[i]
  <2>1. TAKE i \in 1..Len(ps)
  <2>2. i # 1 => qs[i] = ps[i]
    BY <1>1
  <2>3. Owned(qs)[i] = qs[i].auth - qs[i].emit /\ Owned(ps)[i] = ps[i].auth - ps[i].emit
    BY <1>1, <1>3, PlanSums
  <2>4. QED
    BY <2>2, <2>3
<1>6. SumFunctionOnSet(Owned(qs), 1..Len(ps))
        = SumFunctionOnSet(Owned(ps), 1..Len(ps)) + Owned(qs)[1] - Owned(ps)[1]
  BY <1>2, <1>4, <1>5, SumChange
<1>7. Owned(qs)[1] = q.auth - q.emit /\ Owned(ps)[1] = ps[1].auth - ps[1].emit
  BY <1>1, <1>2, <1>3, PlanSums
<1>8. ps[1].auth \in Nat /\ ps[1].emit \in Nat
  BY <1>2, PlansAre
<1>9. /\ Committed(ps) = SumFunctionOnSet(Owned(ps), 1..Len(ps)) /\ Committed(ps) \in Nat
      /\ Committed(qs) = SumFunctionOnSet(Owned(qs), 1..Len(ps))
  BY <1>1, <1>3, PlanSums
<1>10. Committed(qs) = Committed(ps) - 1
  BY <1>6, <1>7, <1>8, <1>9
<1>11. QED
  BY <1>1, <1>3, <1>10 DEF qs

----------------------------------------------------------------------------
(* Parts of a poll *)

SessionState ==
  [pc: Working \cup Ended \cup {"off", "created", "measured", "closing"},
   job: AnyJob, window: Nat \ {0}, alloc: Nat, ticket: BOOLEAN, missing: Nat,
   next: Nat, arrived: Nat, listening: BOOLEAN, terminated: BOOLEAN,
   plans: Seq(PlanType), sink: {"free", "busy", "waiting"}, woken: BOOLEAN,
   out: Seq(Nat)]

FrontFirst(ps) ==
  \A i, j \in 1..Len(ps) : i < j /\ ps[j].auth > ps[j].lo => ps[i].auth = ps[i].hi

(* The budget of a session is dealt out front to back, all of it as long as *)
(* a frame is missing.                                                      *)
LEMMA AuthorizeFacts ==
  ASSUME NEW r \in SessionState, PlansOk(r.plans)
  PROVE  LET ps == r.plans
             qs == Authorize(r).plans
         IN /\ Authorize(r) = [r EXCEPT !.plans = qs]
            /\ PlansOk(qs) /\ Len(qs) = Len(ps)
            /\ \A i \in 1..Len(ps) :
                 /\ qs[i].auth \in Nat
                 /\ qs[i] = [ps[i] EXCEPT !.auth = qs[i].auth]
            /\ Remaining(qs) = Remaining(ps)
            /\ Committed(qs) <= Most(Committed(ps), Share(r))
            /\ Committed(qs) >= Least(Share(r), Remaining(qs))
            /\ FrontFirst(ps) => FrontFirst(qs)
<1> DEFINE ps == r.plans
           n == Len(ps)
           a == Spare(r)
           m == Lacking(ps)
           B(i) == SumFunctionOnSet(m, 1..(i - 1))
           t == [i \in 1..n |-> Least(m[i], Most(0, a - B(i)))]
           qs == Authorize(r).plans
<1>1. /\ n \in Nat /\ DOMAIN ps = 1..n /\ IsFiniteSet(1..n)
      /\ \A i \in 1..n : m[i] = ps[i].hi - ps[i].auth /\ m[i] \in Nat
  BY PlansAre, PlanSums
<1>2. Committed(ps) \in Nat /\ Share(r) \in Nat /\ a = Most(0, Share(r) - Committed(ps)) /\ a \in Nat
  <2>1. r.window \in Nat /\ r.alloc \in Nat
    BY DEF SessionState
  <2>2. Committed(ps) \in Nat
    BY PlanSums
  <2>3. Share(r) \in Nat
    BY <2>1 DEF Share, Least
  <2>4. a = Most(0, Share(r) - Committed(ps))
    BY DEF Spare
  <2>5. QED
    BY <2>2, <2>3, <2>4 DEF Most
<1>3. \A i \in 1..n : B(i) = Before(ps, i)
  BY DEF Before, Lacking
<1>4. /\ qs = [i \in 1..n |-> [ps[i] EXCEPT !.auth = @ + t[i]]]
      /\ Authorize(r) = [r EXCEPT !.plans = qs]
  <2> DEFINE new == [i \in DOMAIN ps |-> Allow(ps[i], Most(0, a - Before(ps, i)))]
  <2>1. Authorize(r) = [r EXCEPT !.plans = new]
    BY Zenon DEF Authorize
  <2>2. Authorize(r).plans = new
    <3> HIDE DEF new
    <3>1. QED
      BY <2>1 DEF SessionState
  <2>3. new = [i \in 1..n |-> [ps[i] EXCEPT !.auth = @ + t[i]]]
    <3>1. \A i \in 1..n : t[i] = Least(Missing(ps[i]), Most(0, a - Before(ps, i)))
      <4>1. TAKE i \in 1..n
      <4>2. m[i] = Missing(ps[i])
        BY <1>1 DEF Lacking
      <4>3. B(i) = Before(ps, i)
        BY <1>3
      <4> HIDE DEF m, B, ps, a
      <4>4. QED
        BY <4>2, <4>3
    <3> HIDE DEF t
    <3>2. QED
      BY <1>1, <3>1 DEF Allow
  <2>4. QED
    BY <2>1, <2>2, <2>3
<1>5. \A i \in 0..n : SumFunctionOnSet(m, 1..i) \in Nat
  <2>1. TAKE i \in 0..n
  <2>2. IsFiniteSet(1..i)
    BY Numbers
  <2>3. \A x \in 1..i : m[x] \in Nat
    <3> HIDE DEF m, n
    <3>1. QED
      BY <1>1
  <2>4. QED
    BY <2>2, <2>3, SumNat
<1>6. \A i \in 1..n : B(i) \in Nat
  <2>1. TAKE i \in 1..n
  <2>2. i - 1 \in 0..n
    BY <1>1
  <2>3. QED
    BY <1>5, <2>2
<1>7. \A i \in 1..n : t[i] = Least(m[i], Most(0, a - B(i))) /\ t[i] \in Nat /\ t[i] <= m[i]
  <2>1. TAKE i \in 1..n
  <2>2. B(i) \in Nat /\ m[i] \in Nat
    BY <1>1, <1>6
  <2>3. t[i] = Least(m[i], Most(0, a - B(i)))
    BY DEF t
  <2> HIDE DEF B, m, t, a
  <2>4. QED
    BY <1>2, <2>2, <2>3 DEF Least, Most
<1>8. SumFunctionOnSet(t, 1..n)
        = IF a <= SumFunctionOnSet(m, 1..n) THEN a ELSE SumFunctionOnSet(m, 1..n)
  <2>1. \A i \in 1..n : t[i] = IF m[i] <= Room(a, m, i) THEN m[i] ELSE Room(a, m, i)
    <3>1. TAKE i \in 1..n
    <3>2. Room(a, m, i) = Most(0, a - B(i))
      BY DEF Room, Most
    <3>3. t[i] = Least(m[i], Most(0, a - B(i)))
      BY <1>7
    <3> HIDE DEF t, a, m, B
    <3>4. QED
      BY <3>2, <3>3 DEF Least
  <2>2. \A i \in 1..n : m[i] \in Nat
    BY <1>1
  <2>3. n \in Nat /\ a \in Nat
    BY <1>1, <1>2
  <2> HIDE DEF t, a, m, n
  <2>4. QED
    BY <2>1, <2>2, <2>3, SumGreedy, Zenon
<1>9. \A i \in 1..n :
        /\ qs[i] = [ps[i] EXCEPT !.auth = @ + t[i]]
        /\ qs[i].auth = ps[i].auth + t[i] /\ qs[i].auth \in Nat
        /\ qs[i] = [ps[i] EXCEPT !.auth = qs[i].auth]
        /\ qs[i].emit = ps[i].emit /\ qs[i].hi = ps[i].hi /\ qs[i].lo = ps[i].lo
        /\ PlanOk(qs[i])
  <2>1. TAKE i \in 1..n
  <2>2. qs[i] = [ps[i] EXCEPT !.auth = @ + t[i]]
    <3> HIDE DEF t, qs
    <3>1. QED
      BY <1>4
  <2>3. PlanOk(ps[i]) /\ t[i] \in Nat /\ t[i] <= ps[i].hi - ps[i].auth
    BY <1>1, <1>7, PlansAre
  <2> DEFINE p == ps[i]
             x == t[i]
  <2> HIDE DEF p, x, qs
  <2>4. /\ qs[i] = [p EXCEPT !.auth = @ + x] /\ PlanOk(p) /\ x \in Nat
        /\ x <= p.hi - p.auth
    BY <2>2, <2>3 DEF p, x
  <2>5. p.auth \in Nat /\ p \in PlanType /\ qs[i].auth = p.auth + x
    BY <2>4 DEF PlanOk, PlanType
  <2>6. /\ qs[i] = [p EXCEPT !.auth = qs[i].auth] /\ qs[i].auth \in Nat
        /\ qs[i].emit = p.emit /\ qs[i].hi = p.hi /\ qs[i].lo = p.lo
    BY <2>4, <2>5 DEF PlanType
  <2>7. PlanOk(qs[i])
    BY <2>4, <2>5 DEF PlanOk, PlanType
  <2>8. QED
    BY <2>2, <2>5, <2>6, <2>7 DEF p, x
<1>10. PlansOk(qs) /\ Len(qs) = n
  <2> HIDE DEF t
  <2>1. qs = [i \in 1..n |-> qs[i]]
    BY <1>4
  <2>2. \A i \in 1..n : qs[i] \in PlanType /\ PlanOk(qs[i])
    BY <1>9 DEF PlanOk
  <2> HIDE DEF qs, n
  <2>3. qs \in Seq(PlanType) /\ Len(qs) = n
    BY <1>1, <2>1, <2>2
  <2>4. QED
    BY <2>2, <2>3 DEF PlansOk
<1>11. Remaining(qs) = Remaining(ps)
  <2> HIDE DEF qs, ps, t
  <2>1. PlansOk(ps)
    BY DEF ps
  <2>2. QED
    BY <1>9, <1>10, <2>1, SameSums
<1>12. Committed(qs) = Committed(ps) + SumFunctionOnSet(t, 1..n)
  <2>1. \A i \in 1..n :
          /\ Owned(ps)[i] \in Int /\ t[i] \in Int
          /\ Owned(qs)[i] = Owned(ps)[i] + t[i]
    <3>1. TAKE i \in 1..n
    <3>2. Owned(ps)[i] = ps[i].auth - ps[i].emit /\ ps[i].auth \in Nat /\ ps[i].emit \in Nat
      BY PlanSums, PlansAre
    <3>3. Owned(qs)[i] = qs[i].auth - qs[i].emit
      <4> HIDE DEF qs, n
      <4>1. QED
        BY <1>10, PlanSums
    <3>4. qs[i].auth = ps[i].auth + t[i] /\ qs[i].emit = ps[i].emit /\ t[i] \in Nat
      BY <1>7, <1>9
    <3> HIDE DEF qs, t
    <3>5. QED
      BY <3>2, <3>3, <3>4
  <2> HIDE DEF t, qs
  <2>2. SumFunctionOnSet(Owned(qs), 1..n)
          = SumFunctionOnSet(Owned(ps), 1..n) + SumFunctionOnSet(t, 1..n)
    BY <1>1, <2>1, SumPlus
  <2>3. Committed(qs) = SumFunctionOnSet(Owned(qs), 1..n)
    BY <1>10, PlanSums
  <2>4. Committed(ps) = SumFunctionOnSet(Owned(ps), 1..n)
    BY PlanSums
  <2>5. QED
    BY <2>2, <2>3, <2>4
<1>13. /\ Committed(qs) <= Most(Committed(ps), Share(r))
       /\ Committed(qs) >= Least(Share(r), Remaining(qs))
  <2>1. /\ Remaining(ps) = Committed(ps) + SumFunctionOnSet(m, 1..n)
        /\ SumFunctionOnSet(m, 1..n) \in Nat
    BY RemainingParts
  <2> DEFINE all == SumFunctionOnSet(m, 1..n)
             dealt == SumFunctionOnSet(t, 1..n)
  <2> HIDE DEF all, dealt, qs, ps, a
  <2>2. /\ Remaining(qs) = Committed(ps) + all /\ all \in Nat
        /\ Committed(qs) = Committed(ps) + dealt
        /\ dealt = IF a <= all THEN a ELSE all
    BY <1>8, <1>11, <1>12, <2>1 DEF all, dealt
  <2>3. QED
    BY <1>2, <2>2 DEF Most, Least
<1>14. ASSUME FrontFirst(ps) PROVE FrontFirst(qs)
  <2>1. SUFFICES ASSUME NEW i \in 1..n, NEW j \in 1..n, i < j, qs[j].auth > qs[j].lo
                 PROVE  qs[i].auth = qs[i].hi
    <3> HIDE DEF qs, n
    <3>1. QED
      BY <1>10 DEF FrontFirst
  <2>2. /\ ps[i].auth \in Nat /\ ps[i].hi \in Nat /\ ps[j].auth \in Nat /\ ps[j].lo \in Nat
        /\ ps[j].lo <= ps[j].auth
    BY PlansAre
  <2>3. /\ qs[j].auth = ps[j].auth + t[j] /\ qs[j].lo = ps[j].lo
        /\ qs[i].auth = ps[i].auth + t[i] /\ qs[i].hi = ps[i].hi
    BY <1>9
  <2>4. m[i] = ps[i].hi - ps[i].auth /\ m[i] \in Nat
    BY <1>1
  <2>5. t[i] = Least(m[i], Most(0, a - B(i))) /\ t[j] = Least(m[j], Most(0, a - B(j)))
    BY <1>7
  <2>6. t[i] \in Nat /\ t[i] <= m[i] /\ t[j] \in Nat /\ m[j] \in Nat
    BY <1>1, <1>7
  <2>7. CASE ps[j].auth > ps[j].lo
    <3>1. ps[i].auth = ps[i].hi
      BY <1>14, <2>1, <2>7 DEF FrontFirst
    <3> HIDE DEF ps, qs, t, m, B, a
    <3>2. QED
      BY <2>2, <2>3, <2>4, <2>6, <3>1
  <2>8. CASE ps[j].auth = ps[j].lo
    <3>1. B(i) + m[i] <= B(j) /\ B(i) \in Nat /\ B(j) \in Nat
      <4>1. B(i) \in Nat /\ B(j) \in Nat
        BY <1>6
      <4>2. SumFunctionOnSet(m, 1..((i - 1) + 1)) = SumFunctionOnSet(m, 1..(i - 1)) + m[(i - 1) + 1]
        <5>1. i - 1 \in Nat
          OBVIOUS
        <5>2. \A x \in 1..((i - 1) + 1) : m[x] \in Int
          <6> HIDE DEF m, n
          <6>1. QED
            BY <1>1
        <5> HIDE DEF m
        <5>3. QED
          BY <5>1, <5>2, SumNext
      <4>3. (i - 1) + 1 = i
        OBVIOUS
      <4>4. SumFunctionOnSet(m, 1..i) <= SumFunctionOnSet(m, 1..(j - 1))
        <5>1. j - 1 \in Nat /\ 1..i \in SUBSET (1..(j - 1))
          BY <2>1
        <5>2. IsFiniteSet(1..(j - 1)) /\ \A x \in 1..(j - 1) : m[x] \in Nat
          <6>1. IsFiniteSet(1..(j - 1))
            BY <5>1, Numbers
          <6> HIDE DEF m, n
          <6>2. QED
            BY <1>1, <6>1
        <5> DEFINE S == 1..(j - 1)
                   T == 1..i
        <5> HIDE DEF m, S, T
        <5>3. SumFunctionOnSet(m, T) <= SumFunctionOnSet(m, S)
          BY <5>1, <5>2, SumSubset DEF S, T
        <5>4. QED
          BY <5>3 DEF S, T
      <4> HIDE DEF m
      <4>5. QED
        BY <4>1, <4>2, <4>3, <4>4
    <3> HIDE DEF ps, qs, t, m, B, a
    <3>2. t[j] > 0
      BY <2>1, <2>2, <2>3, <2>6, <2>8
    <3>3. a - B(j) > 0
      BY <1>2, <2>5, <2>6, <3>1, <3>2 DEF Least, Most
    <3>4. t[i] = m[i]
      BY <1>2, <2>4, <2>5, <3>1, <3>3 DEF Least, Most
    <3>5. QED
      BY <2>2, <2>3, <2>4, <3>4
  <2>9. QED
    BY <2>2, <2>7, <2>8
<1>15. QED
  BY <1>4, <1>9, <1>10, <1>11, <1>13, <1>14

(* What a plan is apart from its URL, its download and its buffer.          *)
SamePart(p, q) ==
  /\ q.base = p.base /\ q.lo = p.lo /\ q.hi = p.hi
  /\ q.auth = p.auth /\ q.emit = p.emit

SameParts(ps, qs) ==
  PlansOk(qs) /\ Len(qs) = Len(ps) /\ \A i \in 1..Len(ps) : SamePart(ps[i], qs[i])

(* A poll of the tickets leaves no URL unused that a download waits for.    *)
LEMMA PollUrlFacts ==
  ASSUME NEW p, PlanOk(p)
  PROVE  LET q == PollUrl(p) IN
         /\ PlanOk(q) /\ SamePart(p, q)
         /\ q.url # "answered" /\ (q.url = "held" => q.auth = q.emit)
<1> DEFINE h == [p EXCEPT !.url = IF @ = "answered" THEN "held" ELSE @]
           q == PollUrl(p)
<1>1. /\ p \in PlanType
      /\ h.url = IF p.url = "answered" THEN "held" ELSE p.url
      /\ h.base = p.base /\ h.lo = p.lo /\ h.hi = p.hi /\ h.auth = p.auth
      /\ h.recv = p.recv /\ h.emit = p.emit /\ h.finished = p.finished /\ h.link = p.link
      /\ h \in PlanType
  BY DEF PlanOk, PlanType
<1>2. q = IF h.url = "held" /\ h.link = "closed" /\ h.auth # h.emit
          THEN [h EXCEPT !.url = "used", !.link = "quiet"] ELSE h
  BY DEF PollUrl
<1> HIDE DEF h, q
<1>3. CASE h.url = "held" /\ h.link = "closed" /\ h.auth # h.emit
  <2>1. /\ q.url = "used" /\ q.link = "quiet" /\ q.base = h.base /\ q.lo = h.lo
        /\ q.hi = h.hi /\ q.auth = h.auth /\ q.recv = h.recv /\ q.emit = h.emit
        /\ q.finished = h.finished /\ q \in PlanType
    BY <1>1, <1>2, <1>3 DEF PlanType
  <2>2. ~ h.finished
    BY <1>1, <1>3 DEF PlanOk
  <2>3. QED
    BY <1>1, <2>1, <2>2 DEF PlanOk, SamePart, q
<1>4. CASE ~ (h.url = "held" /\ h.link = "closed" /\ h.auth # h.emit)
  <2>1. q = h
    BY <1>2, <1>4
  <2>2. PlanOk(h) /\ SamePart(p, h)
    BY <1>1 DEF PlanOk, SamePart
  <2>3. h.url # "answered" /\ (h.url = "held" => h.auth = h.emit)
    BY <1>1, <1>4 DEF PlanOk
  <2>4. QED
    BY <2>1, <2>2, <2>3 DEF q
<1>5. QED
  BY <1>3, <1>4

(* A poll of a download that does not fail takes at most what is            *)
(* authorised; one that found nothing leaves a waker.                       *)
LEMMA PollDownloadFacts ==
  ASSUME NEW p, PlanOk(p), ~ ItemFails(p)
  PROVE  LET q == PollDownload(p) IN
         /\ PlanOk(q) /\ SamePart(p, q) /\ q.url = p.url
         /\ ~ Progress(p) => (Polled(q) => q.link = "waiting") /\ q.recv = p.recv
<1> DEFINE q == PollDownload(p)
<1>1. p \in PlanType
  BY DEF PlanOk
<1>2. CASE ~ Polled(p)
  <2>1. q = p
    BY <1>2 DEF PollDownload
  <2> HIDE DEF q
  <2>2. QED
    BY <1>2, <2>1 DEF SamePart, q
<1>3. CASE Polled(p) /\ p.link = "frame"
  <2>1. q = [p EXCEPT !.recv = @ + 1, !.link = "quiet"]
    BY <1>3 DEF PollDownload
  <2> HIDE DEF q
  <2>2. p.recv < p.auth /\ ~ p.finished /\ p.url = "used"
    BY <1>1, <1>3 DEF ItemFails, Polled, PlanOk, PlanType
  <2>3. /\ q.url = p.url /\ q.link = "quiet" /\ q.base = p.base /\ q.lo = p.lo
        /\ q.hi = p.hi /\ q.auth = p.auth /\ q.recv = p.recv + 1 /\ q.emit = p.emit
        /\ q.finished = p.finished /\ q \in PlanType
    <3> DEFINE x == p.recv + 1
    <3>1. x \in Nat /\ q = [p EXCEPT !.recv = x, !.link = "quiet"]
      BY <1>1, <2>1 DEF PlanType
    <3> HIDE DEF x
    <3>2. /\ q.url = p.url /\ q.link = "quiet" /\ q.base = p.base /\ q.lo = p.lo
          /\ q.hi = p.hi /\ q.auth = p.auth /\ q.recv = x /\ q.emit = p.emit
          /\ q.finished = p.finished /\ q \in PlanType
      BY <1>1, <3>1 DEF PlanType
    <3>3. QED
      BY <3>2 DEF x
  <2>4. PlanOk(q) /\ SamePart(p, q)
    BY <1>1, <2>2, <2>3 DEF PlanOk, PlanType, SamePart
  <2>5. Progress(p)
    BY <1>3 DEF Progress
  <2>6. QED
    BY <2>3, <2>4, <2>5 DEF q
<1>4. CASE Polled(p) /\ p.link = "end"
  <2>1. q = [p EXCEPT !.finished = TRUE, !.link = "closed"]
    BY <1>4 DEF PollDownload
  <2> HIDE DEF q
  <2>2. p.recv = p.hi /\ p.url = "used"
    BY <1>1, <1>4 DEF ItemFails, PlanOk, PlanType
  <2>3. /\ q.url = p.url /\ q.link = "closed" /\ q.base = p.base /\ q.lo = p.lo
        /\ q.hi = p.hi /\ q.auth = p.auth /\ q.recv = p.recv /\ q.emit = p.emit
        /\ q.finished = TRUE /\ q \in PlanType
    BY <1>1, <2>1 DEF PlanType
  <2>4. PlanOk(q) /\ SamePart(p, q)
    BY <1>1, <2>2, <2>3 DEF PlanOk, PlanType, SamePart
  <2>5. Progress(p)
    BY <1>4 DEF Progress
  <2>6. QED
    BY <2>3, <2>4, <2>5 DEF q
<1>5. CASE Polled(p) /\ p.link \notin {"frame", "end"}
  <2>1. q = [p EXCEPT !.link = "waiting"]
    BY <1>5 DEF PollDownload
  <2> HIDE DEF q
  <2>2. p.url = "used" /\ ~ p.finished
    BY <1>1, <1>5 DEF Polled, PlanOk
  <2>3. /\ q.url = p.url /\ q.link = "waiting" /\ q.base = p.base /\ q.lo = p.lo
        /\ q.hi = p.hi /\ q.auth = p.auth /\ q.recv = p.recv /\ q.emit = p.emit
        /\ q.finished = p.finished /\ q \in PlanType
    BY <1>1, <2>1 DEF PlanType
  <2>4. PlanOk(q) /\ SamePart(p, q)
    BY <1>1, <2>2, <2>3 DEF PlanOk, PlanType, SamePart
  <2>5. QED
    BY <2>3, <2>4 DEF q
<1>6. QED
  BY <1>2, <1>3, <1>4, <1>5

(* The part of a plan decides the sums and who is served first.             *)
LEMMA SamePartsFacts ==
  ASSUME NEW ps, PlansOk(ps), NEW qs, SameParts(ps, qs)
  PROVE  /\ Committed(qs) = Committed(ps) /\ Remaining(qs) = Remaining(ps)
         /\ FrontFirst(ps) => FrontFirst(qs)
<1>1. /\ PlansOk(qs) /\ Len(qs) = Len(ps)
      /\ \A i \in 1..Len(ps) : qs[i].emit = ps[i].emit
      /\ \A i \in 1..Len(ps) : qs[i].auth = ps[i].auth
      /\ \A i \in 1..Len(ps) : qs[i].hi = ps[i].hi
      /\ \A i \in 1..Len(ps) : qs[i].lo = ps[i].lo
  BY DEF SameParts, SamePart
<1>2. Committed(qs) = Committed(ps) /\ Remaining(qs) = Remaining(ps)
  BY <1>1, SameSums
<1>3. FrontFirst(ps) => FrontFirst(qs)
  BY <1>1 DEF FrontFirst
<1>4. QED
  BY <1>2, <1>3

(* One plan after the other is replaced.                                    *)
LEMMA MapParts ==
  ASSUME NEW ps, PlansOk(ps), NEW qs,
         qs = [i \in DOMAIN ps |-> qs[i]],
         \A i \in 1..Len(ps) : PlanOk(qs[i]) /\ SamePart(ps[i], qs[i])
  PROVE  SameParts(ps, qs)
<1>1. DOMAIN ps = 1..Len(ps) /\ Len(ps) \in Nat
  BY PlansAre
<1>2. \A i \in 1..Len(ps) : qs[i] \in PlanType
  BY DEF PlanOk
<1>3. qs = [i \in 1..Len(ps) |-> qs[i]]
  BY <1>1
<1>4. qs \in Seq(PlanType) /\ Len(qs) = Len(ps)
  BY <1>1, <1>2, <1>3
<1>5. QED
  BY <1>4 DEF SameParts, PlansOk

LEMMA PollUrlsFacts ==
  ASSUME NEW r \in SessionState, PlansOk(r.plans)
  PROVE  LET qs == PollUrls(r).plans IN
         /\ PollUrls(r) = [r EXCEPT !.plans = qs]
         /\ SameParts(r.plans, qs)
         /\ \A i \in 1..Len(qs) :
              qs[i].url # "answered" /\ (qs[i].url = "held" => qs[i].auth = qs[i].emit)
<1> DEFINE ps == r.plans
           qs == [i \in DOMAIN ps |-> PollUrl(ps[i])]
<1>1. PollUrls(r) = [r EXCEPT !.plans = qs] /\ PollUrls(r).plans = qs
  <2>1. PollUrls(r) = [r EXCEPT !.plans = qs]
    BY DEF PollUrls
  <2> HIDE DEF qs
  <2>2. QED
    BY <2>1 DEF SessionState
<1>2. DOMAIN ps = 1..Len(ps) /\ \A i \in 1..Len(ps) : PlanOk(ps[i])
  BY PlansAre
<1>3. \A i \in 1..Len(ps) :
        /\ PlanOk(qs[i]) /\ SamePart(ps[i], qs[i])
        /\ qs[i].url # "answered" /\ (qs[i].url = "held" => qs[i].auth = qs[i].emit)
  <2>1. TAKE i \in 1..Len(ps)
  <2>2. qs[i] = PollUrl(ps[i]) /\ PlanOk(ps[i])
    BY <1>2
  <2> HIDE DEF qs, ps
  <2>3. QED
    BY <2>2, PollUrlFacts
<1>4. qs = [i \in DOMAIN ps |-> qs[i]]
  OBVIOUS
<1> HIDE DEF qs
<1>5. SameParts(ps, qs)
  BY <1>3, <1>4, MapParts
<1>6. Len(qs) = Len(ps)
  BY <1>5 DEF SameParts
<1>7. QED
  BY <1>1, <1>3, <1>5, <1>6

LEMMA PollDownloadsFacts ==
  ASSUME NEW r \in SessionState, PlansOk(r.plans),
         \A i \in 1..Len(r.plans) : ~ ItemFails(r.plans[i])
  PROVE  LET qs == PollDownloads(r).plans
             woken == PollDownloads(r).woken
         IN
         /\ PollDownloads(r) = [r EXCEPT !.plans = qs, !.woken = woken]
         /\ woken \in BOOLEAN /\ (r.woken => woken)
         /\ SameParts(r.plans, qs)
         /\ \A i \in 1..Len(qs) : qs[i].url = r.plans[i].url
         /\ ~ woken => \A i \in 1..Len(qs) : Polled(qs[i]) => qs[i].link = "waiting"
<1> DEFINE ps == r.plans
           qs == [i \in DOMAIN ps |-> PollDownload(ps[i])]
           woken == r.woken \/ \E i \in DOMAIN ps : Progress(ps[i])
<1>1. /\ PollDownloads(r) = [r EXCEPT !.plans = qs, !.woken = woken]
      /\ PollDownloads(r).plans = qs /\ PollDownloads(r).woken = woken
  <2>1. PollDownloads(r) = [r EXCEPT !.plans = qs, !.woken = woken]
    BY DEF PollDownloads
  <2> HIDE DEF qs, woken
  <2>2. QED
    BY <2>1 DEF SessionState
<1>2. DOMAIN ps = 1..Len(ps) /\ \A i \in 1..Len(ps) : PlanOk(ps[i])
  BY PlansAre
<1>3. \A i \in 1..Len(ps) :
        /\ PlanOk(qs[i]) /\ SamePart(ps[i], qs[i]) /\ qs[i].url = ps[i].url
        /\ ~ Progress(ps[i]) => (Polled(qs[i]) => qs[i].link = "waiting")
  <2>1. TAKE i \in 1..Len(ps)
  <2>2. qs[i] = PollDownload(ps[i]) /\ PlanOk(ps[i]) /\ ~ ItemFails(ps[i])
    BY <1>2
  <2> HIDE DEF qs, ps
  <2>3. QED
    BY <2>2, PollDownloadFacts
<1>4. qs = [i \in DOMAIN ps |-> qs[i]]
  OBVIOUS
<1>5. ~ woken => \A i \in 1..Len(ps) : ~ Progress(ps[i])
  BY <1>2
<1>6. woken \in BOOLEAN /\ (r.woken => woken)
  BY DEF SessionState
<1> HIDE DEF qs, woken
<1>7. SameParts(ps, qs)
  BY <1>3, <1>4, MapParts
<1>8. Len(qs) = Len(ps)
  BY <1>7 DEF SameParts
<1>9. QED
  BY <1>1, <1>3, <1>5, <1>6, <1>7, <1>8

(* Only the front object can be handed over and done, so at most one plan   *)
(* is discarded.                                                            *)
LEMMA DiscardFacts ==
  ASSUME NEW r \in SessionState, PlansOk(r.plans),
         \A i \in 2..Len(r.plans) : r.plans[i].emit = r.plans[i].lo
  PROVE  LET ps == r.plans
             qs == DiscardFinished(r).plans
         IN /\ DiscardFinished(r) = [r EXCEPT !.plans = qs]
            /\ qs = IF ps # <<>> /\ Spent(ps[1]) THEN Tail(ps) ELSE ps
<1> DEFINE ps == r.plans
           Gone(n) == /\ \A i \in 1..n : Spent(ps[i])
                      /\ n < Len(ps) => ~ Spent(ps[n + 1])
           n == CHOOSE x \in 0..Len(ps) : Gone(x)
           m == IF ps # <<>> /\ Spent(ps[1]) THEN 1 ELSE 0
           qs == SubSeq(ps, n + 1, Len(ps))
<1>1. Len(ps) \in Nat /\ (ps = <<>> <=> Len(ps) = 0) /\ ps \in Seq(PlanType)
  BY PlansAre DEF PlansOk
<1>2. \A i \in 2..Len(ps) : ~ Spent(ps[i])
  <2>1. TAKE i \in 2..Len(ps)
  <2>2. i \in 1..Len(ps) /\ ps[i].emit = ps[i].lo
    BY <1>1
  <2>3. ps[i].lo < ps[i].hi /\ ps[i].lo \in Nat /\ ps[i].hi \in Nat
    BY <2>2, PlansAre
  <2>4. QED
    BY <2>2, <2>3 DEF Spent
<1>3. m \in 0..Len(ps) /\ Gone(m)
  <2> HIDE DEF ps
  <2>1. CASE ps # <<>> /\ Spent(ps[1])
    BY <1>1, <1>2, <2>1
  <2>2. CASE ~ (ps # <<>> /\ Spent(ps[1]))
    BY <1>1, <2>2
  <2>3. QED
    BY <2>1, <2>2
<1>4. \A x \in 0..Len(ps) : Gone(x) => x = m
  <2> HIDE DEF ps
  <2>1. TAKE x \in 0..Len(ps)
  <2>2. ASSUME Gone(x), x > 1 PROVE FALSE
    <3>1. 2 \in 2..Len(ps) /\ 2 \in 1..x
      BY <1>1, <2>2
    <3>2. QED
      BY <1>2, <2>2, <3>1
  <2>3. ASSUME Gone(x), x = 1 PROVE m = 1
    BY <1>1, <2>3
  <2>4. ASSUME Gone(x), x = 0 PROVE m = 0
    BY <1>1, <2>4
  <2>5. QED
    BY <1>1, <2>2, <2>3, <2>4
<1>5. n = m
  <2>1. n \in 0..Len(ps) /\ Gone(n)
    <3> HIDE DEF m, Gone
    <3>1. QED
      BY <1>3
  <2> HIDE DEF n, m, Gone
  <2>2. QED
    BY <1>4, <2>1
<1>6. DiscardFinished(r) = [r EXCEPT !.plans = qs] /\ DiscardFinished(r).plans = qs
  <2>1. DiscardFinished(r) = [r EXCEPT !.plans = qs]
    BY DEF DiscardFinished
  <2> HIDE DEF qs
  <2>2. QED
    BY <2>1 DEF SessionState
<1>7. qs = IF ps # <<>> /\ Spent(ps[1]) THEN Tail(ps) ELSE ps
  <2>1. qs = SubSeq(ps, m + 1, Len(ps))
    BY <1>5
  <2>2. CASE ps # <<>> /\ Spent(ps[1])
    <3>1. m + 1 = 2 /\ Tail(ps) = SubSeq(ps, 2, Len(ps))
      <4> HIDE DEF ps
      <4>1. QED
        BY <1>1, <2>2, TailIsSubSeq
    <3>2. QED
      BY <2>1, <2>2, <3>1
  <2>3. CASE ~ (ps # <<>> /\ Spent(ps[1]))
    <3>1. m + 1 = 1 /\ SubSeq(ps, 1, Len(ps)) = ps
      <4> HIDE DEF ps
      <4>1. QED
        BY <1>1, <2>3, SubSeqFull
    <3>2. QED
      BY <2>1, <2>3, <3>1
  <2>4. QED
    BY <2>2, <2>3
<1>8. QED
  BY <1>6, <1>7

----------------------------------------------------------------------------
(* Where the plans lie in the request *)

(* The cursors of a job grow with the objects taken.                        *)
LEMMA CursorFacts ==
  ASSUME NEW j \in AnyJob
  PROVE  /\ j \in Job /\ j.start < j.end /\ Len(j.objects) \in Nat
         /\ j.start \in Nat /\ j.end \in Nat /\ j.windows \subseteq Nat \ {0}
         /\ j.objects \in Seq(Nat)
         /\ Cursors[j][0] = 0
         /\ \A n \in 0..Len(j.objects) : Cursors[j][n] \in Nat
         /\ \A n \in 1..Len(j.objects) :
              j.objects[n] \in Nat /\ Cursors[j][n] = Cursors[j][n - 1] + j.objects[n]
         /\ \A m, n \in 0..Len(j.objects) : m <= n => Cursors[j][m] <= Cursors[j][n]
<1> DEFINE L == Len(j.objects)
           C(n) == Cursors[j][n]
           o == j.objects
<1>1. j \in Job /\ j.start < j.end
  BY StreamAssumption DEF AnyJob
<1>2. /\ j.start \in Nat /\ j.end \in Nat /\ j.windows \subseteq Nat \ {0}
      /\ o \in Seq(Nat) /\ L \in Nat /\ \A n \in 1..L : o[n] \in Nat
  <2>1. j.start \in Nat /\ j.end \in Nat /\ j.windows \subseteq Nat \ {0} /\ o \in Seq(Nat)
    BY <1>1 DEF Job
  <2> HIDE DEF o
  <2>2. Len(o) \in Nat /\ \A n \in 1..Len(o) : o[n] \in Nat
    BY <2>1, LenProperties, ElementOfSeq
  <2>3. QED
    BY <2>1, <2>2 DEF o
<1>3. \A n \in 0..L : C(n) = SumFunctionOnSet(o, 1..n)
  BY DEF Cursors, AnyJob
<1> HIDE DEF L, C, o
<1>4. \A n \in 0..L : IsFiniteSet(1..n) /\ \A i \in 1..n : o[i] \in Nat
  <2>1. TAKE n \in 0..L
  <2>2. IsFiniteSet(1..n)
    BY <1>2, Numbers
  <2>3. QED
    BY <1>2, <2>2
<1>5. \A n \in 0..L : C(n) \in Nat
  <2>1. TAKE n \in 0..L
  <2>2. SumFunctionOnSet(o, 1..n) \in Nat
    BY <1>4, SumNat
  <2>3. QED
    BY <1>3, <2>2
<1>6. C(0) = 0
  BY <1>2, <1>3, SumNone
<1>7. \A n \in 1..L : C(n) = C(n - 1) + o[n]
  <2>1. TAKE n \in 1..L
  <2>2. n - 1 \in Nat /\ n - 1 \in 0..L /\ n \in 0..L /\ (n - 1) + 1 = n
    BY <1>2
  <2>3. \A i \in 1..((n - 1) + 1) : o[i] \in Int
    BY <1>4, <2>2
  <2>4. SumFunctionOnSet(o, 1..((n - 1) + 1)) = SumFunctionOnSet(o, 1..(n - 1)) + o[(n - 1) + 1]
    BY <2>2, <2>3, SumNext
  <2>5. QED
    BY <1>3, <2>2, <2>4
<1>8. \A m, n \in 0..L : m <= n => C(m) <= C(n)
  <2>1. TAKE m, n \in 0..L
  <2>2. SUFFICES ASSUME m <= n PROVE C(m) <= C(n)
    OBVIOUS
  <2> DEFINE S == 1..n
             T == 1..m
  <2>3. T \in SUBSET S /\ IsFiniteSet(S) /\ \A i \in S : o[i] \in Nat
    BY <1>2, <1>4, <2>2
  <2> HIDE DEF S, T
  <2>4. SumFunctionOnSet(o, T) <= SumFunctionOnSet(o, S)
    BY <2>3, SumSubset
  <2>5. QED
    BY <1>3, <2>4 DEF S, T
<1>9. QED
  BY <1>1, <1>2, <1>5, <1>6, <1>7, <1>8 DEF L, C, o

(* The plans lie next to each other, from the next frame of the output to   *)
(* the last requested frame of the objects taken.                           *)
Placed(r) ==
  LET ps == r.plans
      taken == Cursor(r, r.next)
  IN
  /\ r.next \in 0..Len(r.job.objects)
  /\ r.terminated => r.next = Len(r.job.objects)
  /\ \A i \in 1..Len(ps) : r.job.start <= ps[i].base + ps[i].lo
  /\ \A i \in 1..(Len(ps) - 1) : ps[i + 1].base + ps[i + 1].lo = ps[i].base + ps[i].hi
  /\ \A i \in 2..Len(ps) : ps[i].emit = ps[i].lo
  /\ ps = <<>> => Len(r.out) = Useful(r, taken)
  /\ ps # <<>> =>
       /\ ps[1].base + ps[1].emit = r.job.start + Len(r.out)
       /\ ps[Len(ps)].base + ps[Len(ps)].hi = Least(taken, r.job.end)

(* So what remains is told by two numbers.                                  *)
LEMMA PlacedRemaining ==
  ASSUME NEW r \in SessionState, PlansOk(r.plans), Placed(r)
  PROVE  Remaining(r.plans) = Useful(r, Cursor(r, r.next)) - Len(r.out)
<1> DEFINE ps == r.plans
           n == Len(ps)
           c == Cursor(r, r.next)
<1>1. /\ c \in Nat /\ r.job.start \in Nat /\ r.job.end \in Nat /\ Len(r.out) \in Nat
  <2>1. r.job \in AnyJob /\ r.out \in Seq(Nat)
    BY DEF SessionState
  <2>2. QED
    BY <2>1, CursorFacts, LenProperties DEF Placed, Cursor
<1>2. CASE ps = <<>>
  <2>1. Remaining(ps) = 0
    BY <1>2, NoPlans
  <2>2. Len(r.out) = Useful(r, c)
    BY <1>2 DEF Placed
  <2> HIDE DEF c, ps
  <2>3. QED
    BY <1>1, <2>1, <2>2 DEF ps, c
<1>3. CASE ps # <<>>
  <2>1. n \in Nat /\ n >= 1
    BY <1>3, PlansAre
  <2> DEFINE g == [i \in 0..n |-> IF i = 0 THEN ps[1].base + ps[1].emit
                                  ELSE ps[i].base + ps[i].hi]
  <2>2. \A i \in 1..n : /\ ps[i].base \in Nat /\ ps[i].emit \in Nat /\ ps[i].hi \in Nat
                        /\ ps[i].lo \in Nat /\ ps[i].emit <= ps[i].hi
    <3>1. TAKE i \in 1..n
    <3>2. /\ ps[i].base \in Nat /\ ps[i].emit \in Nat /\ ps[i].hi \in Nat
          /\ ps[i].lo \in Nat /\ ps[i].recv \in Nat /\ ps[i].auth \in Nat
          /\ ps[i].emit <= ps[i].recv /\ ps[i].recv <= ps[i].auth /\ ps[i].auth <= ps[i].hi
      BY PlansAre
    <3> DEFINE e == ps[i].emit
               v == ps[i].recv
               a == ps[i].auth
               h == ps[i].hi
    <3> HIDE DEF e, v, a, h
    <3>3. e <= h
      BY <3>2 DEF e, v, a, h
    <3>4. QED
      BY <3>2, <3>3 DEF e, h
  <2>3. \A i \in 0..n : g[i] \in Int
    BY <2>1, <2>2
  <2>4. \A i \in 1..n : Left(ps)[i] = g[i] - g[i - 1]
    <3>1. TAKE i \in 1..n
    <3>2. Left(ps)[i] = ps[i].hi - ps[i].emit
      BY PlanSums
    <3>3. g[i] = ps[i].base + ps[i].hi
      BY <2>1
    <3>4. g[i - 1] = ps[i].base + ps[i].emit
      <4>1. CASE i = 1
        BY <2>1, <4>1
      <4>2. CASE i > 1
        <5>1. i - 1 \in 1..(n - 1) /\ i - 1 \in 0..n /\ i - 1 # 0 /\ (i - 1) + 1 = i /\ i \in 2..n
          BY <2>1, <4>2
        <5>2. g[i - 1] = ps[i - 1].base + ps[i - 1].hi
          BY <5>1
        <5>3. ps[i].base + ps[i].lo = ps[i - 1].base + ps[i - 1].hi /\ ps[i].emit = ps[i].lo
          BY <5>1 DEF Placed
        <5>4. QED
          BY <5>2, <5>3
      <4>3. QED
        BY <2>1, <4>1, <4>2
    <3>5. ps[i].base \in Nat /\ ps[i].emit \in Nat /\ ps[i].hi \in Nat
      BY <2>2
    <3> DEFINE b == ps[i].base
               e == ps[i].emit
               h == ps[i].hi
               left == Left(ps)[i]
    <3> HIDE DEF g, b, e, h, left
    <3>6. left = h - e /\ g[i] = b + h /\ g[i - 1] = b + e /\ b \in Nat /\ e \in Nat /\ h \in Nat
      BY <3>2, <3>3, <3>4, <3>5 DEF b, e, h, left
    <3>7. left = g[i] - g[i - 1]
      BY <3>6
    <3>8. QED
      BY <3>7 DEF left
  <2>5. g[0] = r.job.start + Len(r.out) /\ g[n] = Least(c, r.job.end)
    <3>1. g[0] = ps[1].base + ps[1].emit
      BY <2>1
    <3>2. g[n] = ps[n].base + ps[n].hi
      BY <2>1
    <3>3. QED
      BY <1>3, <3>1, <3>2 DEF Placed
  <2>6. Remaining(ps) = g[n] - g[0]
    <3>1. SumFunctionOnSet(Left(ps), 1..n) = g[n] - g[0]
      <4> HIDE DEF g, ps
      <4>1. QED
        BY <2>1, <2>3, <2>4, SumTelescope
    <3>2. Remaining(ps) = SumFunctionOnSet(Left(ps), 1..n)
      BY PlanSums
    <3>3. QED
      BY <3>1, <3>2, Zenon
  <2>7. Remaining(ps) \in Nat
    BY PlanSums
  <2>8. g[n] \in Int /\ g[0] \in Int
    <3>1. n \in 0..n /\ 0 \in 0..n
      BY <2>1
    <3> HIDE DEF g, n
    <3>2. QED
      BY <2>3, <3>1
  <2> HIDE DEF g, c, n
  <2>9. Useful(r, c) = Least(c, r.job.end) - r.job.start
    BY <1>1, <2>5, <2>6, <2>7, <2>8 DEF Useful, Most, Least
  <2>10. QED
    BY <1>1, <2>5, <2>6, <2>9 DEF c, Least
<1>4. QED
  BY <1>2, <1>3

(* The part of an object that is taken: something of it is requested unless *)
(* it ends before the request starts.                                       *)
LEMMA PlanForFacts ==
  ASSUME NEW r \in SessionState, NEW n \in 1..Len(r.job.objects),
         Cursor(r, n - 1) < r.job.end, Cursor(r, n - 1) < Cursor(r, n)
  PROVE  LET p == PlanFor(r, n) IN
         /\ p.lo < p.hi <=> r.job.start < Cursor(r, n)
         /\ r.job.start < Cursor(r, n) =>
              /\ PlanOk(p) /\ p.auth = p.emit /\ p.emit = p.lo /\ p.auth = p.lo
              /\ p.base + p.lo = Most(Cursor(r, n - 1), r.job.start)
              /\ p.base + p.hi = Least(Cursor(r, n), r.job.end)
<1> DEFINE b == Cursor(r, n - 1)
           c == Cursor(r, n)
           lo == Most(b, r.job.start)
           hi == Least(c, r.job.end)
           p == PlanFor(r, n)
<1>1. /\ b \in Nat /\ c \in Nat /\ r.job.start \in Nat /\ r.job.end \in Nat
      /\ r.job.start < r.job.end
  <2>1. r.job \in AnyJob
    BY DEF SessionState
  <2>2. n \in 0..Len(r.job.objects) /\ n - 1 \in 0..Len(r.job.objects)
    BY <2>1, CursorFacts
  <2>3. QED
    BY <2>1, <2>2, CursorFacts DEF Cursor
<1>2. p = Plan(b, lo - b, hi - b)
  BY DEF PlanFor
<1>3. /\ p.base = b /\ p.lo = lo - b /\ p.hi = hi - b /\ p.url = "waiting"
      /\ p.link = "closed" /\ p.auth = lo - b /\ p.recv = lo - b /\ p.emit = lo - b
      /\ p.finished = FALSE
      /\ p = [base |-> b, lo |-> lo - b, hi |-> hi - b, url |-> "waiting", link |-> "closed",
              auth |-> lo - b, recv |-> lo - b, emit |-> lo - b, finished |-> FALSE]
  <2> HIDE DEF p, b, lo, hi
  <2>1. QED
    BY <1>2 DEF Plan
<1>4. b < r.job.end /\ b < c
  OBVIOUS
<1> HIDE DEF b, c, p
<1>5. lo \in Nat /\ hi \in Nat /\ lo >= b /\ hi >= b /\ (lo < hi <=> r.job.start < c)
  BY <1>1, <1>4 DEF Most, Least
<1> HIDE DEF lo, hi
<1>6. p.lo < p.hi <=> r.job.start < c
  BY <1>1, <1>3, <1>5
<1>7. p.base + p.lo = lo /\ p.base + p.hi = hi
  BY <1>1, <1>3, <1>5
<1>8. ASSUME r.job.start < c PROVE PlanOk(p)
  <2> DEFINE x == lo - b
             y == hi - b
  <2>1. x \in Nat /\ y \in Nat /\ x < y /\ x <= x
    BY <1>1, <1>5, <1>8
  <2>2. /\ p = [base |-> b, lo |-> x, hi |-> y, url |-> "waiting", link |-> "closed",
                auth |-> x, recv |-> x, emit |-> x, finished |-> FALSE]
        /\ p.lo = x /\ p.hi = y /\ p.auth = x /\ p.recv = x /\ p.emit = x /\ p.finished = FALSE
        /\ p.link = "closed"
    BY <1>3
  <2> HIDE DEF x, y
  <2>3. p \in PlanType
    BY <1>1, <2>1, <2>2 DEF PlanType
  <2>4. QED
    BY <2>1, <2>2, <2>3 DEF PlanOk
<1>9. QED
  BY <1>3, <1>6, <1>7, <1>8 DEF p, b, c, lo, hi

(* A poll takes objects as long as it wants one and a good one is there.    *)
LEMMA TakenFacts ==
  ASSUME NEW r \in SessionState, r.next \in 0..Len(r.job.objects)
  PROVE  LET k == Taken(r) IN
         /\ k \in 0..(Len(r.job.objects) - r.next)
         /\ ~ (Wants(r, k) /\ Yields(r, k) /\ ~ Refused(r, k))
         /\ \A i \in 0..(k - 1) : Wants(r, i) /\ Yields(r, i) /\ ~ Refused(r, i)
<1> DEFINE More(i) == Wants(r, i) /\ Yields(r, i) /\ ~ Refused(r, i)
           last == Len(r.job.objects) - r.next
           Stops == {i \in 0..last : ~ More(i)}
<1>1. last \in Nat /\ Len(r.job.objects) \in Nat /\ r.next \in Nat /\ r.arrived \in Nat
  <2>1. r.job \in AnyJob /\ r.arrived \in Nat
    BY DEF SessionState
  <2>2. Len(r.job.objects) \in Nat
    BY <2>1, CursorFacts
  <2>3. QED
    BY <2>1, <2>2
<1>2. last \in Stops
  <2>1. ~ Yields(r, last)
    BY <1>1 DEF Yields, Least
  <2> HIDE DEF last
  <2>2. QED
    BY <1>1, <2>1
<1>3. \E k \in Stops : \A i \in Stops : k <= i
  <2>1. Stops \in SUBSET Nat
    BY <1>1
  <2> HIDE DEF Stops
  <2>2. QED
    BY <1>2, <2>1, LeastNumber
<1>4. PICK k \in Stops : \A i \in Stops : k <= i
  BY <1>3
<1>5. k \in 0..last /\ ~ More(k) /\ \A i \in 0..(k - 1) : More(i)
  <2>1. ASSUME NEW i \in 0..(k - 1), ~ More(i) PROVE FALSE
    <3>1. i \in Stops /\ i < k
      BY <1>1, <1>4, <2>1
    <3>2. k \in Nat /\ i \in Nat
      BY <1>1, <1>4
    <3> HIDE DEF Stops
    <3>3. k <= i
      BY <1>4, <3>1
    <3>4. QED
      BY <3>1, <3>2, <3>3
  <2> HIDE DEF More
  <2>2. QED
    BY <1>4, <2>1
<1>6. Taken(r) = CHOOSE x \in 0..last : ~ More(x) /\ \A i \in 0..(x - 1) : More(i)
  BY Zenon DEF Taken
<1> HIDE DEF More, last
<1>7. /\ Taken(r) \in 0..last /\ ~ More(Taken(r))
      /\ \A i \in 0..(Taken(r) - 1) : More(i)
  BY <1>5, <1>6
<1>8. QED
  BY <1>7 DEF More, last

(* The objects a poll takes lie before the end of the request, and none is  *)
(* empty.                                                                   *)
LEMMA TakenCursors ==
  ASSUME NEW r \in SessionState, r.next \in 0..Len(r.job.objects)
  PROVE  LET k == Taken(r)
             C(i) == Cursor(r, r.next + i)
         IN
         /\ k \in Nat /\ r.next + k \in 0..Len(r.job.objects) /\ C(0) = Cursor(r, r.next)
         /\ \A i \in 0..k : C(i) \in Nat /\ r.next + i \in 0..Len(r.job.objects)
         /\ \A i \in 1..k : C(i - 1) < r.job.end /\ C(i - 1) < C(i)
         /\ \A i, j \in 0..k : i <= j => C(i) <= C(j)
<1> DEFINE k == Taken(r)
           C(i) == Cursor(r, r.next + i)
           L == Len(r.job.objects)
<1>1. /\ r.job \in AnyJob /\ L \in Nat /\ r.next \in Nat
      /\ k \in 0..(L - r.next)
      /\ \A i \in 0..(k - 1) : Wants(r, i) /\ Yields(r, i) /\ ~ Refused(r, i)
  <2>1. r.job \in AnyJob
    BY DEF SessionState
  <2>2. QED
    BY <2>1, CursorFacts, TakenFacts
<1> HIDE DEF k
<1>2. \A i \in 0..k : C(i) \in Nat /\ r.next + i \in 0..L
  <2>1. TAKE i \in 0..k
  <2>2. r.next + i \in 0..L
    BY <1>1
  <2>3. QED
    BY <1>1, <2>2, CursorFacts DEF Cursor
<1>3. ASSUME NEW i \in 1..k PROVE C(i - 1) < r.job.end /\ C(i - 1) < C(i)
  <2>1. i - 1 \in 0..(k - 1)
    BY <1>1
  <2>2. Wants(r, i - 1) /\ Yields(r, i - 1) /\ ~ Refused(r, i - 1)
    BY <1>1, <2>1
  <2>3. C(i - 1) < r.job.end
    BY <2>2, Zenon DEF Wants
  <2>4. r.job.objects[r.next + (i - 1) + 1] # 0
    BY <2>2, Zenon DEF Refused
  <2>5. /\ r.next + i \in 1..L /\ r.next + (i - 1) + 1 = r.next + i
        /\ r.next + i - 1 = r.next + (i - 1)
    BY <1>1
  <2>6. /\ r.job.objects[r.next + i] \in Nat
        /\ Cursors[r.job][r.next + i]
             = Cursors[r.job][r.next + i - 1] + r.job.objects[r.next + i]
    <3> DEFINE n == r.next + i
    <3>1. n \in 1..L
      BY <2>5
    <3> HIDE DEF n
    <3>2. r.job.objects[n] \in Nat /\ Cursors[r.job][n] = Cursors[r.job][n - 1] + r.job.objects[n]
      BY <1>1, <3>1, CursorFacts
    <3>3. QED
      BY <3>2 DEF n
  <2>7. C(i) = C(i - 1) + r.job.objects[r.next + i]
    <3>1. Cursors[r.job][r.next + i]
             = Cursors[r.job][r.next + (i - 1)] + r.job.objects[r.next + i]
      BY <2>5, <2>6
    <3>2. QED
      BY <3>1 DEF Cursor
  <2>8. C(i - 1) \in Nat
    BY <1>1, <1>2
  <2>9. r.job.objects[r.next + i] # 0
    BY <2>4, <2>5
  <2> HIDE DEF C
  <2>10. QED
    BY <2>3, <2>6, <2>7, <2>8, <2>9
<1>4. \A i, j \in 0..k : i <= j => C(i) <= C(j)
  <2>1. TAKE i, j \in 0..k
  <2>2. r.next + i \in 0..L /\ r.next + j \in 0..L /\ (i <= j => r.next + i <= r.next + j)
    BY <1>1
  <2>3. r.next + i <= r.next + j => Cursors[r.job][r.next + i] <= Cursors[r.job][r.next + j]
    BY <1>1, <2>2, CursorFacts
  <2>4. QED
    BY <2>2, <2>3 DEF Cursor
<1>5. k \in Nat /\ r.next + k \in 0..L /\ r.next + 0 = r.next
  BY <1>1
<1>6. C(0) = Cursor(r, r.next)
  BY <1>5
<1>7. QED
  BY <1>2, <1>3, <1>4, <1>5, <1>6 DEF k

(* The objects without a plan are the first ones, which end before the      *)
(* request starts.                                                          *)
LEMMA SkippedFacts ==
  ASSUME NEW r \in SessionState, r.next \in 0..Len(r.job.objects)
  PROVE  LET k == Taken(r)
             m == Skipped(r, k)
         IN
         /\ m \in 0..k
         /\ \A i \in 1..k : i > m <=> r.job.start < Cursor(r, r.next + i)
<1> DEFINE k == Taken(r)
           C(i) == Cursor(r, r.next + i)
           Late(m) == \A i \in 1..k : i > m => r.job.start < C(i)
           G == {m \in Nat : m <= k /\ Late(m)}
<1>1. /\ k \in Nat
      /\ \A i \in 0..k : C(i) \in Nat
      /\ \A i, j \in 0..k : i <= j => C(i) <= C(j)
  BY TakenCursors
<1>2. r.job.start \in Nat
  <2>1. r.job \in AnyJob
    BY DEF SessionState
  <2>2. QED
    BY <2>1, CursorFacts
<1>3. ASSUME NEW i \in 1..k
      PROVE  PlanFor(r, r.next + i).lo < PlanFor(r, r.next + i).hi <=> r.job.start < C(i)
  <2>1. C(i - 1) < r.job.end /\ C(i - 1) < C(i)
    BY TakenCursors
  <2>2. r.next + i \in 0..Len(r.job.objects) /\ r.next \in Nat /\ Len(r.job.objects) \in Nat
    <3>1. r.job \in AnyJob /\ r.next \in Nat
      BY DEF SessionState
    <3>2. i \in 0..k
      BY <1>1
    <3>3. r.next + i \in 0..Len(r.job.objects)
      BY <3>2, TakenCursors
    <3>4. QED
      BY <3>1, <3>3, CursorFacts
  <2>3. r.next + i \in 1..Len(r.job.objects) /\ r.next + i - 1 = r.next + (i - 1)
    BY <1>1, <2>2
  <2>4. Cursor(r, r.next + i - 1) < r.job.end /\ Cursor(r, r.next + i - 1) < Cursor(r, r.next + i)
    BY <2>1, <2>3
  <2>5. QED
    BY <2>3, <2>4, PlanForFacts
<1> HIDE DEF k, C
<1>4. \E m \in G : \A x \in G : m <= x
  <2>1. k \in G
    BY <1>1
  <2>2. G \in SUBSET Nat
    OBVIOUS
  <2> HIDE DEF G
  <2>3. QED
    BY <2>1, <2>2, LeastNumber
<1>5. PICK m \in G : \A x \in G : m <= x
  BY <1>4
<1>6. m \in Nat /\ m <= k /\ Late(m)
  OBVIOUS
<1>7. \A i \in 1..k : i > m <=> r.job.start < C(i)
  <2>1. CASE m = 0
    BY <1>1, <1>6, <2>1
  <2>2. CASE m > 0
    <3>1. m - 1 \notin G
      <4>1. m - 1 \in G => m <= m - 1
        BY <1>5
      <4>2. QED
        BY <1>6, <4>1
    <3>2. PICK i \in 1..k : i > m - 1 /\ ~ (r.job.start < C(i))
      BY <1>1, <1>6, <2>2, <3>1
    <3>3. i <= m
      BY <1>1, <1>6, <3>2
    <3>4. i = m
      BY <1>1, <1>6, <3>2, <3>3
    <3>5. \A x \in 1..k : x <= m => C(x) <= C(m)
      BY <1>1, <1>6, <2>2
    <3>6. ~ (r.job.start < C(m))
      BY <3>2, <3>4
    <3>7. TAKE x \in 1..k
    <3>8. CASE x > m
      BY <1>6, <3>8
    <3>9. CASE x <= m
      <4>1. C(x) \in Nat /\ C(m) \in Nat
        BY <1>1, <1>6
      <4>2. C(x) <= C(m)
        BY <3>5, <3>9
      <4>3. QED
        BY <1>1, <1>2, <1>6, <3>6, <3>9, <4>1, <4>2
    <3>10. QED
      BY <1>1, <1>6, <3>8, <3>9
  <2>3. QED
    BY <1>6, <2>1, <2>2
<1> DEFINE Good(x) == \A i \in 1..k :
              i > x <=> PlanFor(r, r.next + i).lo < PlanFor(r, r.next + i).hi
<1>8. m \in 0..k /\ Good(m)
  <2>1. m \in 0..k
    BY <1>1, <1>6
  <2>2. QED
    BY <1>3, <1>7, <2>1
<1>9. Skipped(r, k) = CHOOSE x \in 0..k : Good(x)
  BY Zenon DEF Skipped
<1> HIDE DEF Good, G
<1>10. Skipped(r, k) \in 0..k /\ Good(Skipped(r, k))
  BY <1>8, <1>9
<1>11. QED
  BY <1>3, <1>10 DEF Good, k, C

(* The plans a poll adds lie next to each other, and own nothing yet.       *)
Added(r) ==
  [i \in 1..(Taken(r) - Skipped(r, Taken(r))) |->
     PlanFor(r, r.next + Skipped(r, Taken(r)) + i)]

LEMMA AddedFacts ==
  ASSUME NEW r \in SessionState, r.next \in 0..Len(r.job.objects)
  PROVE  LET k == Taken(r)
             m == Skipped(r, k)
             C(i) == Cursor(r, r.next + i)
             ns == Added(r)
         IN
         /\ PlansOk(ns) /\ Len(ns) = k - m
         /\ \A i \in 1..(k - m) :
              /\ ns[i].auth = ns[i].emit /\ ns[i].emit = ns[i].lo /\ ns[i].auth = ns[i].lo
              /\ ns[i].base + ns[i].lo = Most(C(m + i - 1), r.job.start)
              /\ ns[i].base + ns[i].hi = Least(C(m + i), r.job.end)
<1> DEFINE k == Taken(r)
           m == Skipped(r, k)
           C(i) == Cursor(r, r.next + i)
           ns == Added(r)
<1>1. /\ k \in Nat /\ r.next + k \in 0..Len(r.job.objects)
      /\ \A i \in 0..k : C(i) \in Nat /\ r.next + i \in 0..Len(r.job.objects)
      /\ \A i \in 1..k : C(i - 1) < r.job.end /\ C(i - 1) < C(i)
  BY TakenCursors
<1>2. m \in 0..k /\ \A i \in 1..k : i > m <=> r.job.start < C(i)
  BY SkippedFacts
<1>3. r.next \in Nat /\ Len(r.job.objects) \in Nat
  <2>1. r.job \in AnyJob /\ r.next \in Nat
    BY DEF SessionState
  <2>2. QED
    BY <2>1, CursorFacts
<1>4. ns = [i \in 1..(k - m) |-> PlanFor(r, r.next + m + i)]
  BY Zenon DEF Added
<1> HIDE DEF k, m, ns
<1>5. ASSUME NEW i \in 1..(k - m)
      PROVE  /\ PlanOk(ns[i])
             /\ ns[i].auth = ns[i].emit /\ ns[i].emit = ns[i].lo /\ ns[i].auth = ns[i].lo
             /\ ns[i].base + ns[i].lo = Most(C(m + i - 1), r.job.start)
             /\ ns[i].base + ns[i].hi = Least(C(m + i), r.job.end)
  <2> DEFINE n == r.next + m + i
             j == m + i
  <2>a. k \in Nat /\ m \in Nat /\ m <= k /\ i \in Int /\ 1 <= i /\ i <= k - m
    BY <1>1, <1>2
  <2>1. /\ j \in 1..k /\ j \in 0..k /\ j > m /\ j - 1 \in 0..k /\ n = r.next + j
        /\ m + i - 1 = j - 1
    BY <1>3, <2>a
  <2>2. n \in 1..Len(r.job.objects) /\ n - 1 = r.next + (j - 1)
    <3>1. r.next + k <= Len(r.job.objects)
      BY <1>1, <1>3
    <3>2. QED
      BY <1>3, <2>a, <3>1
  <2>3. ns[i] = PlanFor(r, n)
    BY <1>4
  <2> HIDE DEF n, j
  <2>4. /\ Cursor(r, n - 1) = C(j - 1) /\ Cursor(r, n) = C(j)
        /\ C(j - 1) < r.job.end /\ C(j - 1) < C(j) /\ r.job.start < C(j)
    BY <1>1, <1>2, <2>1, <2>2
  <2> HIDE DEF C
  <2> DEFINE p == PlanFor(r, n)
  <2>5. /\ PlanOk(p) /\ p.auth = p.emit /\ p.emit = p.lo /\ p.auth = p.lo
        /\ p.base + p.lo = Most(Cursor(r, n - 1), r.job.start)
        /\ p.base + p.hi = Least(Cursor(r, n), r.job.end)
    BY <2>2, <2>4, PlanForFacts
  <2> HIDE DEF p
  <2>6. ns[i] = p
    BY <2>3, Zenon DEF p
  <2>7. C(m + i - 1) = C(j - 1) /\ C(m + i) = C(j)
    BY <2>1 DEF j
  <2>8. QED
    BY <2>4, <2>5, <2>6, <2>7
<1>6. PlansOk(ns) /\ Len(ns) = k - m
  <2>1. k - m \in Nat
    BY <1>1, <1>2
  <2>2. \A i \in 1..(k - m) : ns[i] \in PlanType
    BY <1>5 DEF PlanOk
  <2>3. ns \in Seq(PlanType) /\ Len(ns) = k - m
    <3>1. ns = [i \in 1..(k - m) |-> ns[i]]
      BY <1>4
    <3>2. ns \in [1..(k - m) -> PlanType]
      BY <2>2, <3>1
    <3> DEFINE n == k - m
    <3>3. n \in Nat /\ ns \in [1..n -> PlanType]
      BY <2>1, <3>2
    <3> HIDE DEF n
    <3>4. ns \in Seq(PlanType) /\ DOMAIN ns = 1..n
      BY <3>3
    <3>5. Len(ns) = n
      BY <3>3, <3>4
    <3>6. QED
      BY <3>4, <3>5 DEF n
  <2>4. QED
    BY <1>5, <2>3 DEF PlansOk
<1>7. QED
  BY <1>5, <1>6 DEF k, m, ns

(* What a poll of the source does to a session.                             *)
Supplied(r) ==
  LET k == Taken(r) IN
  [next |-> r.next + k, plans |-> r.plans \o Added(r),
   terminated |-> \/ r.terminated
                  \/ Wants(r, k) /\ ~ Yields(r, k) /\ r.arrived > Len(r.job.objects),
   listening |-> \/ r.listening
                 \/ /\ Wants(r, k) /\ ~ Yields(r, k)
                    /\ ~ (Wants(r, k) /\ ~ Yields(r, k) /\ r.arrived > Len(r.job.objects))]

LEMMA SuppliedFacts ==
  ASSUME NEW r \in SessionState, r.next \in 0..Len(r.job.objects), PlansOk(r.plans)
  PROVE  LET q == PollObjects(r)
             g == Supplied(r)
         IN
         /\ q = [r EXCEPT !.next = g.next, !.plans = g.plans,
                          !.terminated = g.terminated, !.listening = g.listening]
         /\ q.next = g.next /\ q.plans = g.plans
         /\ q.terminated = g.terminated /\ q.listening = g.listening
         /\ q.job = r.job /\ q.out = r.out /\ q.window = r.window /\ q.alloc = r.alloc
         /\ q \in SessionState
<1> DEFINE k == Taken(r)
           n == r.next + k
           ps == r.plans \o Added(r)
           end == \/ r.terminated
                  \/ Wants(r, k) /\ ~ Yields(r, k) /\ r.arrived > Len(r.job.objects)
           lis == \/ r.listening
                  \/ /\ Wants(r, k) /\ ~ Yields(r, k)
                     /\ ~ (Wants(r, k) /\ ~ Yields(r, k) /\ r.arrived > Len(r.job.objects))
<1>1. PollObjects(r) = [r EXCEPT !.next = n, !.plans = ps, !.terminated = end, !.listening = lis]
  BY DEF PollObjects, Added
<1>2. Supplied(r) = [next |-> n, plans |-> ps, terminated |-> end, listening |-> lis]
  BY Zenon DEF Supplied
<1>3. n \in Nat /\ end \in BOOLEAN /\ lis \in BOOLEAN
  <2>1. n \in Nat
    <3>1. k \in Nat /\ r.next \in Nat
      BY TakenCursors DEF SessionState
    <3> HIDE DEF k
    <3>2. QED
      BY <3>1
  <2>2. end \in BOOLEAN /\ lis \in BOOLEAN
    <3>1. r.terminated \in BOOLEAN /\ r.listening \in BOOLEAN
      BY DEF SessionState
    <3>2. QED
      BY <3>1, Zenon
  <2>3. QED
    BY <2>1, <2>2
<1>4. ps \in Seq(PlanType)
  <2>1. PlansOk(Added(r))
    BY AddedFacts
  <2>2. QED
    BY <2>1 DEF PlansOk
<1> HIDE DEF n, ps, end, lis
<1> DEFINE q == PollObjects(r)
<1>5. /\ q.next = n /\ q.plans = ps /\ q.terminated = end /\ q.listening = lis
      /\ q.job = r.job /\ q.out = r.out /\ q.window = r.window /\ q.alloc = r.alloc
  BY <1>1 DEF SessionState
<1>6. q \in SessionState
  BY <1>1, <1>3, <1>4 DEF SessionState
<1> DEFINE g == Supplied(r)
<1>7. /\ g.next = n /\ g.plans = ps /\ g.terminated = end /\ g.listening = lis
  BY <1>2
<1> HIDE DEF q, g
<1>8. q = [r EXCEPT !.next = g.next, !.plans = g.plans,
                    !.terminated = g.terminated, !.listening = g.listening]
  <2>1. q = [r EXCEPT !.next = n, !.plans = ps, !.terminated = end, !.listening = lis]
    BY <1>1 DEF q
  <2>2. QED
    BY <1>7, <2>1
<1>9. QED
  BY <1>5, <1>6, <1>7, <1>8 DEF q, g

(* A poll of the source keeps the plans in place, and leaves a waker there  *)
(* unless it has planned enough.                                            *)
LEMMA PollObjectsFacts ==
  ASSUME NEW r \in SessionState, PlansOk(r.plans), Placed(r)
  PROVE  LET q == PollObjects(r) IN
         /\ q \in SessionState
         /\ q = [r EXCEPT !.next = q.next, !.plans = q.plans,
                          !.terminated = q.terminated, !.listening = q.listening]
         /\ PlansOk(q.plans) /\ Placed(q)
         /\ Committed(q.plans) = Committed(r.plans)
         /\ FrontFirst(r.plans) => FrontFirst(q.plans)
         /\ ~ SourceFails(r) /\ Wants(q, 0) => q.listening
<1> DEFINE q == PollObjects(r)
           k == Taken(r)
           m == Skipped(r, k)
           C(i) == Cursor(r, r.next + i)
           ps == r.plans
           ns == Added(r)
           n == Len(ps)
           start == r.job.start
           end == r.job.end
<1>1. r.next \in 0..Len(r.job.objects) /\ r.next \in Nat
  BY DEF Placed, SessionState
<1>2. /\ q = [r EXCEPT !.next = Supplied(r).next, !.plans = Supplied(r).plans,
                       !.terminated = Supplied(r).terminated,
                       !.listening = Supplied(r).listening]
      /\ q.next = r.next + k /\ q.plans = ps \o ns
      /\ q.terminated = (\/ r.terminated
                         \/ Wants(r, k) /\ ~ Yields(r, k) /\ r.arrived > Len(r.job.objects))
      /\ q.listening
           = (\/ r.listening
              \/ /\ Wants(r, k) /\ ~ Yields(r, k)
                 /\ ~ (Wants(r, k) /\ ~ Yields(r, k) /\ r.arrived > Len(r.job.objects)))
      /\ q.job = r.job /\ q.out = r.out /\ q.window = r.window /\ q.alloc = r.alloc
      /\ q \in SessionState
  <2>1. LET g == Supplied(r)
        IN /\ q = [r EXCEPT !.next = g.next, !.plans = g.plans,
                            !.terminated = g.terminated, !.listening = g.listening]
           /\ q.next = g.next /\ q.plans = g.plans
           /\ q.terminated = g.terminated /\ q.listening = g.listening
           /\ q.job = r.job /\ q.out = r.out /\ q.window = r.window /\ q.alloc = r.alloc
           /\ q \in SessionState
    BY <1>1, SuppliedFacts
  <2> HIDE DEF q
  <2>2. QED
    BY <2>1 DEF Supplied
<1>3. q = [r EXCEPT !.next = q.next, !.plans = q.plans,
                    !.terminated = q.terminated, !.listening = q.listening]
  <2> HIDE DEF q
  <2>1. /\ q.next = Supplied(r).next /\ q.plans = Supplied(r).plans
        /\ q.terminated = Supplied(r).terminated /\ q.listening = Supplied(r).listening
    BY <1>2 DEF SessionState
  <2>2. QED
    BY <1>2, <2>1
<1>4. /\ k \in Nat /\ C(0) = Cursor(r, r.next)
      /\ r.next + k \in 0..Len(r.job.objects)
      /\ \A i \in 0..k : C(i) \in Nat
      /\ \A i \in 1..k : C(i - 1) < end /\ C(i - 1) < C(i)
      /\ \A i, j \in 0..k : i <= j => C(i) <= C(j)
  BY <1>1, TakenCursors
<1>5. m \in 0..k /\ m \in Nat /\ m <= k /\ \A i \in 1..k : i > m <=> start < C(i)
  <2>1. m \in 0..k /\ \A i \in 1..k : i > m <=> start < C(i)
    BY <1>1, SkippedFacts
  <2> HIDE DEF m, C
  <2>2. QED
    BY <1>4, <2>1
<1>6. /\ PlansOk(ns) /\ Len(ns) = k - m
      /\ \A i \in 1..(k - m) :
           /\ ns[i].auth = ns[i].emit /\ ns[i].emit = ns[i].lo /\ ns[i].auth = ns[i].lo
           /\ ns[i].base + ns[i].lo = Most(C(m + i - 1), start)
           /\ ns[i].base + ns[i].hi = Least(C(m + i), end)
  BY <1>1, AddedFacts
<1>7. n \in Nat /\ (ps = <<>> <=> n = 0) /\ start \in Nat /\ end \in Nat /\ start < end
  <2>1. r.job \in AnyJob
    BY DEF SessionState
  <2>2. QED
    BY <2>1, CursorFacts, PlansAre
<1>8. /\ PlansOk(q.plans) /\ Len(q.plans) = n + (k - m)
      /\ \A i \in 1..(n + (k - m)) : q.plans[i] = IF i <= n THEN ps[i] ELSE ns[i - n]
      /\ Committed(q.plans) = Committed(ps)
  <2>1. \A i \in 1..Len(ns) : ns[i].auth = ns[i].emit
    BY <1>6
  <2> HIDE DEF ns, q, k, m
  <2>2. /\ PlansOk(ps \o ns) /\ Len(ps \o ns) = n + Len(ns)
        /\ \A i \in 1..(n + Len(ns)) : (ps \o ns)[i] = IF i <= n THEN ps[i] ELSE ns[i - n]
        /\ Committed(ps \o ns) = Committed(ps)
    BY <1>6, <2>1, JoinSums
  <2>3. q.plans = ps \o ns /\ Len(ns) = k - m
    BY <1>2, <1>6
  <2>4. QED
    BY <2>2, <2>3
<1> HIDE DEF q, k, m, ns, C
<1>9. Placed(q)
  <2>0. /\ \A i \in 1..n : q.plans[i] = ps[i]
        /\ \A i \in 1..(k - m) : q.plans[n + i] = ns[i]
    <3>1. k - m \in Nat
      BY <1>4, <1>5
    <3>2. ASSUME NEW i \in 1..n PROVE q.plans[i] = ps[i]
      <4>1. i \in 1..(n + (k - m)) /\ i <= n
        BY <1>7, <3>1
      <4>2. QED
        BY <1>8, <4>1
    <3>3. ASSUME NEW i \in 1..(k - m) PROVE q.plans[n + i] = ns[i]
      <4> DEFINE x == n + i
      <4>1. x \in 1..(n + (k - m)) /\ ~ (x <= n) /\ x - n = i
        BY <1>7, <3>1
      <4> HIDE DEF x
      <4>2. q.plans[x] = ns[x - n]
        BY <1>8, <4>1
      <4>3. q.plans[x] = ns[i]
        BY <4>1, <4>2
      <4>4. QED
        BY <4>3 DEF x
    <3>4. QED
      BY <3>2, <3>3
  <2>1. /\ \A i \in 1..n : start <= ps[i].base + ps[i].lo
        /\ \A i \in 1..(n - 1) : ps[i + 1].base + ps[i + 1].lo = ps[i].base + ps[i].hi
        /\ \A i \in 2..n : ps[i].emit = ps[i].lo
        /\ ps = <<>> => Len(r.out) = Useful(r, C(0))
        /\ ps # <<>> =>
             /\ ps[1].base + ps[1].emit = start + Len(r.out)
             /\ ps[n].base + ps[n].hi = Least(C(0), end)
    BY <1>4 DEF Placed
  <2>2. \A i \in 1..n : /\ ps[i].base \in Nat /\ ps[i].lo \in Nat /\ ps[i].hi \in Nat
                        /\ ps[i].emit \in Nat /\ ps[i].lo < ps[i].hi
    BY PlansAre
  <2>3. Len(r.out) \in Nat
    BY DEF SessionState
  <2>4. C(0) \in Nat /\ C(k) \in Nat /\ C(m) \in Nat /\ C(0) <= C(m) /\ C(m) <= C(k)
    BY <1>4, <1>5
  <2>5. m >= 1 => C(m) <= start
    <3>1. m >= 1 => m \in 1..k /\ ~ (m > m)
      BY <1>4, <1>5
    <3>2. QED
      BY <1>5, <1>7, <2>4, <3>1
  <2>6. k >= 1 => C(0) < end
    <3>1. k >= 1 => 1 \in 1..k /\ C(1 - 1) < end
      BY <1>4
    <3>2. QED
      BY <3>1
  <2>7. n >= 1 => m = 0 /\ (k >= 1 => start < C(0))
    <3>1. ASSUME n >= 1, k >= 1 PROVE start < C(0)
      <4>1. n \in 1..n /\ ps # <<>>
        BY <1>7, <3>1
      <4>2. start <= ps[n].base + ps[n].lo /\ ps[n].lo < ps[n].hi
        BY <2>1, <2>2, <4>1
      <4>3. ps[n].base + ps[n].hi = C(0)
        BY <2>1, <2>4, <2>6, <3>1, <4>1, <1>7 DEF Least
      <4>4. ps[n].base \in Nat /\ ps[n].lo \in Nat /\ ps[n].hi \in Nat
        BY <2>2, <4>1
      <4>5. QED
        BY <1>7, <2>4, <4>2, <4>3, <4>4
    <3>2. QED
      BY <1>4, <1>5, <1>7, <2>4, <2>5, <3>1
  <2>8. ASSUME NEW i \in 1..(k - m)
        PROVE  /\ start <= ns[i].base + ns[i].lo
               /\ ns[i].base + ns[i].lo = IF i = 1 THEN Most(C(m), start) ELSE C(m + i - 1)
               /\ i < k - m => ns[i].base + ns[i].hi = C(m + i)
               /\ i = k - m => ns[i].base + ns[i].hi = Least(C(k), end)
    <3> DEFINE a == C(m + i - 1)
               b == C(m + i)
    <3>1. m + i - 1 \in 0..k /\ m + i \in 1..k /\ m + i \in 0..k /\ i \in Nat
      BY <1>4, <1>5
    <3>2. a \in Nat /\ b \in Nat
      BY <1>4, <3>1
    <3>3. ns[i].base + ns[i].lo = Most(a, start) /\ ns[i].base + ns[i].hi = Least(b, end)
      BY <1>6
    <3>4. i = 1 => a = C(m)
      BY <1>5
    <3>5. i # 1 => start < a
      <4>1. i # 1 => m + i - 1 \in 1..k /\ m + i - 1 > m
        BY <1>5, <3>1
      <4>2. QED
        BY <1>5, <4>1
    <3>6. i < k - m => b < end
      <4>1. i < k - m => m + i + 1 \in 1..k /\ (m + i + 1) - 1 = m + i
        BY <1>4, <1>5, <3>1
      <4>2. i < k - m => C((m + i + 1) - 1) < end
        BY <1>4, <4>1
      <4>3. QED
        BY <4>1, <4>2
    <3>7. i = k - m => m + i = k
      BY <1>4, <1>5
    <3>8. i = k - m => b = C(k)
      BY <3>7
    <3> HIDE DEF a, b
    <3>9. /\ start <= Most(a, start) /\ (start < a => Most(a, start) = a)
          /\ (b < end => Least(b, end) = b)
      BY <1>7, <3>2 DEF Most, Least
    <3>10. /\ start <= ns[i].base + ns[i].lo
           /\ ns[i].base + ns[i].lo = IF i = 1 THEN Most(C(m), start) ELSE a
           /\ i < k - m => ns[i].base + ns[i].hi = b
           /\ i = k - m => ns[i].base + ns[i].hi = Least(C(k), end)
      BY <3>3, <3>4, <3>5, <3>6, <3>8, <3>9
    <3>11. QED
      BY <3>10 DEF a, b
  <2> DEFINE all == q.plans
             N == n + (k - m)
  <2>9. \A i \in 1..N : start <= all[i].base + all[i].lo
    <3>1. TAKE i \in 1..N
    <3>2. CASE i <= n
      BY <1>7, <2>0, <2>1, <3>2
    <3>3. CASE i > n
      <4>1. i - n \in 1..(k - m) /\ n + (i - n) = i
        BY <1>4, <1>5, <1>7, <3>3
      <4>2. all[i] = ns[i - n]
        BY <2>0, <4>1
      <4>3. QED
        BY <2>8, <4>1, <4>2
    <3>4. QED
      BY <1>4, <1>5, <1>7, <3>2, <3>3
  <2>10. \A i \in 1..(N - 1) : all[i + 1].base + all[i + 1].lo = all[i].base + all[i].hi
    <3>1. TAKE i \in 1..(N - 1)
    <3>2. CASE i < n
      <4>1. i \in 1..(n - 1) /\ i \in 1..n /\ i + 1 \in 1..n
        BY <1>7, <3>2
      <4>2. QED
        BY <2>0, <2>1, <4>1
    <3>3. CASE i = n
      <4>1. n >= 1 /\ n \in 1..n /\ 1 \in 1..(k - m) /\ k >= 1 /\ m = 0 /\ ps # <<>>
        BY <1>4, <1>5, <1>7, <2>7, <3>3
      <4>2. all[n] = ps[n] /\ all[n + 1] = ns[1]
        BY <2>0, <4>1
      <4>3. ps[n].base + ps[n].hi = Least(C(0), end)
        BY <2>1, <4>1
      <4>4. ns[1].base + ns[1].lo = Most(C(0), start)
        BY <2>8, <4>1
      <4>5. start < C(0) /\ C(0) < end
        BY <2>6, <2>7, <4>1
      <4>6. Least(C(0), end) = C(0) /\ Most(C(0), start) = C(0)
        BY <1>7, <2>4, <4>5 DEF Least, Most
      <4>7. QED
        BY <3>3, <4>2, <4>3, <4>4, <4>6
    <3>4. CASE i > n
      <4> DEFINE x == i - n
      <4>1. x \in 1..(k - m) /\ x + 1 \in 1..(k - m) /\ x < k - m /\ x + 1 # 1
            /\ n + x = i /\ n + (x + 1) = i + 1
        <5>1. /\ n \in Nat /\ k \in Nat /\ m \in Nat /\ i \in Int
              /\ i > n /\ i <= n + (k - m) - 1
          BY <1>4, <1>5, <1>7, <3>4
        <5> HIDE DEF N
        <5>2. QED
          BY <5>1
      <4>2. all[i] = ns[x] /\ all[i + 1] = ns[x + 1]
        <5> DEFINE y == x + 1
        <5>1. y \in 1..(k - m) /\ n + y = i + 1
          BY <4>1
        <5> HIDE DEF x, y
        <5>2. all[n + x] = ns[x] /\ all[n + y] = ns[y]
          BY <2>0, <4>1, <5>1
        <5>3. n + x = i /\ y = x + 1
          BY <4>1 DEF y
        <5>4. QED
          BY <5>1, <5>2, <5>3
      <4>3. ns[x].base + ns[x].hi = C(m + x)
        BY <2>8, <4>1
      <4>4. ns[x + 1].base + ns[x + 1].lo = C(m + (x + 1) - 1)
        BY <2>8, <4>1
      <4>5. m + (x + 1) - 1 = m + x
        BY <1>5, <4>1
      <4> HIDE DEF x
      <4>6. QED
        BY <4>2, <4>3, <4>4, <4>5
    <3>5. QED
      BY <1>4, <1>5, <1>7, <3>2, <3>3, <3>4
  <2>11. \A i \in 2..N : all[i].emit = all[i].lo
    <3>1. TAKE i \in 2..N
    <3>2. CASE i <= n
      <4>1. i \in 1..n /\ i \in 2..n
        BY <1>7, <3>2
      <4>2. QED
        BY <2>0, <2>1, <4>1
    <3>3. CASE i > n
      <4>1. i - n \in 1..(k - m) /\ n + (i - n) = i
        BY <1>4, <1>5, <1>7, <3>3
      <4>2. all[i] = ns[i - n]
        BY <2>0, <4>1
      <4>3. QED
        BY <1>6, <4>1, <4>2
    <3>4. QED
      BY <1>4, <1>5, <1>7, <3>2, <3>3
  <2>12. N \in Nat /\ Len(all) = N /\ (all = <<>> <=> N = 0)
    <3>1. N \in Nat
      BY <1>4, <1>5, <1>7
    <3>2. all = <<>> <=> Len(all) = 0
      BY <1>8, PlansAre
    <3>3. QED
      BY <1>8, <3>1, <3>2
  <2>13. Cursor(q, q.next) = C(k) /\ \A c : Useful(q, c) = Useful(r, c)
    <3>1. q.job = r.job /\ q.next = r.next + k
      BY <1>2
    <3>2. QED
      BY <3>1 DEF C, Cursor, Useful
  <2>14. all = <<>> => Len(q.out) = Useful(q, C(k))
    <3>1. SUFFICES ASSUME N = 0 PROVE Len(r.out) = Useful(r, C(k))
      BY <1>2, <2>12, <2>13
    <3>2. n = 0 /\ m = k
      BY <1>4, <1>5, <1>7, <3>1
    <3>3. Len(r.out) = Useful(r, C(0))
      BY <1>7, <2>1, <3>2
    <3>4. CASE k = 0
      BY <3>3, <3>4
    <3>5. CASE k >= 1
      <4>1. C(k) <= start /\ C(0) <= start
        BY <1>7, <2>4, <2>5, <3>2, <3>5
      <4>2. Useful(r, C(0)) = 0 /\ Useful(r, C(k)) = 0
        BY <1>7, <2>4, <4>1 DEF Useful, Most, Least
      <4>3. QED
        BY <3>3, <4>2
    <3>6. QED
      BY <1>4, <3>4, <3>5
  <2>15. ASSUME all # <<>>
         PROVE  /\ all[1].base + all[1].emit = start + Len(r.out)
                /\ all[N].base + all[N].hi = Least(C(k), end)
    <3>1. N >= 1
      BY <2>12, <2>15
    <3>2. all[1].base + all[1].emit = start + Len(r.out)
      <4>1. CASE n >= 1
        BY <1>7, <2>0, <2>1, <4>1
      <4>2. CASE n = 0
        <5>1. 1 \in 1..(k - m) /\ k >= 1
          BY <1>4, <1>5, <1>7, <3>1, <4>2
        <5>2. all[1] = ns[1]
          <6>1. n + 1 = 1
            BY <4>2
          <6>2. all[n + 1] = ns[1]
            BY <2>0, <5>1
          <6>3. QED
            BY <6>1, <6>2
        <5>3. ns[1].base + ns[1].emit = Most(C(m), start)
          <6>1. ns[1].emit = ns[1].lo
            BY <1>6, <5>1
          <6>2. ns[1].base + ns[1].lo = Most(C(m), start)
            BY <2>8, <5>1
          <6>3. QED
            BY <6>1, <6>2
        <5>4. Len(r.out) = Useful(r, C(0))
          BY <1>7, <2>1, <4>2
        <5>5. C(0) < end
          BY <2>6, <5>1
        <5>6. CASE m = 0
          <6>1. Useful(r, C(0)) = Most(0, C(0) - start)
            BY <1>7, <2>4, <5>5 DEF Useful, Least
          <6>2. C(m) = C(0)
            BY <5>6
          <6>3. Most(C(0), start) = start + Most(0, C(0) - start)
            BY <1>7, <2>4 DEF Most
          <6>4. QED
            BY <5>2, <5>3, <5>4, <6>1, <6>2, <6>3
        <5>7. CASE m >= 1
          <6>1. C(m) <= start /\ C(0) <= start
            BY <1>7, <2>4, <2>5, <5>7
          <6>2. Useful(r, C(0)) = 0 /\ Most(C(m), start) = start
            BY <1>7, <2>4, <6>1 DEF Useful, Most, Least
          <6>3. QED
            BY <1>7, <5>2, <5>3, <5>4, <6>2
        <5>8. QED
          BY <1>5, <5>6, <5>7
      <4>3. QED
        BY <1>7, <4>1, <4>2
    <3>3. all[N].base + all[N].hi = Least(C(k), end)
      <4>1. CASE k - m >= 1
        <5>1. k - m \in 1..(k - m)
          BY <1>4, <1>5, <4>1
        <5>2. all[N] = ns[k - m]
          BY <2>0, <5>1
        <5>3. QED
          BY <2>8, <5>1, <5>2
      <4>2. CASE k - m = 0
        <5>1. N = n /\ n >= 1 /\ m = 0 /\ k = 0 /\ n \in 1..n /\ ps # <<>>
          BY <1>4, <1>5, <1>7, <2>7, <3>1, <4>2
        <5>2. all[N] = ps[n]
          BY <2>0, <5>1
        <5>3. ps[n].base + ps[n].hi = Least(C(0), end)
          BY <2>1, <5>1
        <5>4. QED
          BY <5>1, <5>2, <5>3
      <4>3. QED
        BY <1>4, <1>5, <4>1, <4>2
    <3>4. QED
      BY <3>2, <3>3
  <2>16. q.terminated => q.next = Len(q.job.objects)
    <3>1. Len(r.job.objects) \in Nat /\ r.arrived \in Nat /\ r.job \in AnyJob
      BY CursorFacts DEF SessionState
    <3>2. CASE r.terminated
      <4>1. r.next = Len(r.job.objects)
        BY <3>2 DEF Placed
      <4>2. k = 0
        BY <1>4, <3>1, <4>1
      <4>3. QED
        BY <1>1, <1>2, <4>1, <4>2
    <3>3. CASE Wants(r, k) /\ ~ Yields(r, k) /\ r.arrived > Len(r.job.objects)
      <4>1. r.next + k >= Len(r.job.objects)
        BY <1>1, <1>4, <3>1, <3>3 DEF Yields, Least
      <4>2. r.next + k = Len(r.job.objects)
        BY <1>1, <1>4, <3>1, <4>1
      <4>3. QED
        BY <1>2, <4>2
    <3>4. QED
      BY <1>2, <3>2, <3>3
  <2>17. q.next \in 0..Len(q.job.objects)
    BY <1>2, <1>4
  <2>18. Len(q.plans) = N /\ q.job = r.job /\ q.out = r.out
    BY <1>2, <2>12
  <2> HIDE DEF N
  <2>19. QED
    BY <2>9, <2>10, <2>11, <2>13, <2>14, <2>15, <2>16, <2>17, <2>18 DEF Placed
<1>10. FrontFirst(ps) => FrontFirst(q.plans)
  <2>1. SUFFICES ASSUME FrontFirst(ps), NEW i \in 1..Len(q.plans), NEW j \in 1..Len(q.plans),
                        i < j, q.plans[j].auth > q.plans[j].lo
                 PROVE  q.plans[i].auth = q.plans[i].hi
    BY Zenon DEF FrontFirst
  <2>2. CASE j <= n
    <3>1. i \in 1..n /\ j \in 1..n
      BY <1>4, <1>5, <1>7, <1>8, <2>1, <2>2
    <3>2. q.plans[i] = ps[i] /\ q.plans[j] = ps[j]
      BY <1>4, <1>5, <1>7, <1>8, <3>1
    <3>3. QED
      BY <2>1, <3>1, <3>2 DEF FrontFirst
  <2>3. CASE j > n
    <3>1. j - n \in 1..(k - m)
      BY <1>4, <1>5, <1>7, <1>8, <2>3
    <3>2. q.plans[j] = ns[j - n]
      BY <1>4, <1>5, <1>7, <1>8, <2>3
    <3>3. q.plans[j].auth = q.plans[j].lo /\ q.plans[j].auth \in Nat
      BY <1>6, <1>8, <3>1, <3>2, PlansAre
    <3>4. QED
      BY <2>1, <3>3
  <2>4. QED
    BY <1>4, <1>5, <1>7, <1>8, <2>2, <2>3
<1>11. ASSUME ~ SourceFails(r), Wants(q, 0) PROVE q.listening
  <2>1. /\ Remaining(ps) = Useful(r, Cursor(r, r.next)) - Len(r.out)
        /\ Remaining(q.plans) = Useful(q, Cursor(q, q.next)) - Len(q.out)
    BY <1>2, <1>8, <1>9, PlacedRemaining
  <2>2. /\ Cursor(q, q.next) = C(k) /\ \A c : Useful(q, c) = Useful(r, c)
        /\ Cursor(q, q.next + 0) = C(k)
    <3>1. q.job = r.job /\ q.next = r.next + k /\ q.next + 0 = q.next
      BY <1>1, <1>2, <1>4
    <3>2. Cursor(q, q.next) = C(k)
      BY <3>1 DEF C, Cursor
    <3>3. QED
      BY <3>1, <3>2 DEF Useful
  <2>3. Target(q) = Target(r) /\ q.job = r.job
    BY <1>2 DEF Target, Share
  <2>4. /\ Remaining(q.plans) + Useful(q, C(k)) - Useful(q, C(k)) < Target(q)
        /\ C(k) < end /\ ~ q.terminated
    BY <1>11, <2>2, <2>3 DEF Wants
  <2>5. Useful(r, C(0)) \in Nat /\ Useful(r, C(k)) \in Nat /\ Len(r.out) \in Nat
    <3>1. C(0) \in Nat /\ C(k) \in Nat
      BY <1>4
    <3>2. Len(r.out) \in Nat
      BY DEF SessionState
    <3>3. QED
      BY <1>7, <3>1, <3>2 DEF Useful, Most, Least
  <2>6. Remaining(q.plans) = Useful(r, C(k)) - Len(r.out)
    BY <1>2, <2>1, <2>2
  <2>7. Remaining(ps) + Useful(r, C(k)) - Useful(r, C(0))
          = Remaining(q.plans) + Useful(r, C(k)) - Useful(r, C(k))
    BY <1>4, <2>1, <2>5, <2>6
  <2>8. Remaining(ps) + Useful(r, C(k)) - Useful(r, C(0)) < Target(r)
    BY <2>2, <2>3, <2>4, <2>7
  <2>9. ~ r.terminated
    BY <1>2, <2>4
  <2>10. Wants(r, k)
    BY <1>4, <2>4, <2>8, <2>9 DEF Wants, C
  <2>11. ~ Yields(r, k)
    <3>1. ~ Refused(r, k)
      BY <1>11, <2>10, Zenon DEF SourceFails, k
    <3>2. ~ (Wants(r, k) /\ Yields(r, k) /\ ~ Refused(r, k))
      BY <1>1, TakenFacts DEF k
    <3>3. QED
      BY <2>10, <3>1, <3>2
  <2>12. QED
    BY <1>2, <2>4, <2>10, <2>11
<1>12. QED
  BY <1>2, <1>3, <1>8, <1>9, <1>10, <1>11 DEF q

(* Plans stay in place when only their frames and links change.             *)
LEMMA PlacedSame ==
  ASSUME NEW r \in SessionState, NEW q \in SessionState, Placed(r),
         q.job = r.job, q.next = r.next, q.terminated = r.terminated, q.out = r.out,
         PlansOk(r.plans), PlansOk(q.plans), Len(q.plans) = Len(r.plans),
         \A i \in 1..Len(r.plans) :
           /\ q.plans[i].base = r.plans[i].base /\ q.plans[i].lo = r.plans[i].lo
           /\ q.plans[i].hi = r.plans[i].hi /\ q.plans[i].emit = r.plans[i].emit
  PROVE  Placed(q)
<1> DEFINE ps == r.plans
           qs == q.plans
           n == Len(ps)
<1>1. /\ n \in Nat /\ (ps = <<>> <=> n = 0) /\ (qs = <<>> <=> n = 0) /\ Len(qs) = n
  BY PlansAre
<1>2. /\ \A i \in 1..n : r.job.start <= ps[i].base + ps[i].lo
      /\ \A i \in 1..(n - 1) : ps[i + 1].base + ps[i + 1].lo = ps[i].base + ps[i].hi
      /\ \A i \in 2..n : ps[i].emit = ps[i].lo
      /\ ps = <<>> => Len(r.out) = Useful(r, Cursor(r, r.next))
      /\ ps # <<>> =>
           /\ ps[1].base + ps[1].emit = r.job.start + Len(r.out)
           /\ ps[n].base + ps[n].hi = Least(Cursor(r, r.next), r.job.end)
      /\ r.next \in 0..Len(r.job.objects)
      /\ r.terminated => r.next = Len(r.job.objects)
  BY DEF Placed
<1>3. Cursor(q, q.next) = Cursor(r, r.next)
      /\ Useful(q, Cursor(q, q.next)) = Useful(r, Cursor(r, r.next))
  BY DEF Cursor, Useful
<1>4. \A i \in 1..n : /\ qs[i].base = ps[i].base /\ qs[i].lo = ps[i].lo
                      /\ qs[i].hi = ps[i].hi /\ qs[i].emit = ps[i].emit
  OBVIOUS
<1> HIDE DEF ps, qs, n
<1>5. \A i \in 1..(n - 1) : qs[i + 1].base + qs[i + 1].lo = qs[i].base + qs[i].hi
  <2>1. TAKE i \in 1..(n - 1)
  <2>2. i \in 1..n /\ i + 1 \in 1..n
    BY <1>1
  <2>3. ps[i + 1].base + ps[i + 1].lo = ps[i].base + ps[i].hi
    BY <1>2
  <2>4. QED
    BY <1>4, <2>2, <2>3
<1>6. \A i \in 2..n : qs[i].emit = qs[i].lo
  <2>1. TAKE i \in 2..n
  <2>2. i \in 1..n
    BY <1>1
  <2>3. QED
    BY <1>2, <1>4, <2>2
<1>7. n # 0 => 1 \in 1..n /\ n \in 1..n
  BY <1>1
<1>8. QED
  BY <1>1, <1>2, <1>3, <1>4, <1>5, <1>6, <1>7 DEF Placed, ps, qs, n

(* The next object is in its place when the front one is done.              *)
LEMMA PlacedTail ==
  ASSUME NEW r \in SessionState, NEW q \in SessionState, Placed(r),
         q.job = r.job, q.next = r.next, q.terminated = r.terminated, q.out = r.out,
         PlansOk(r.plans), r.plans # <<>>, r.plans[1].emit = r.plans[1].hi,
         q.plans = Tail(r.plans)
  PROVE  Placed(q)
<1> DEFINE ps == r.plans
           qs == q.plans
           n == Len(ps)
<1>1. /\ n \in Nat /\ n >= 1 /\ Len(qs) = n - 1 /\ PlansOk(qs)
      /\ \A i \in 1..(n - 1) : qs[i] = ps[i + 1]
      /\ qs = <<>> <=> n = 1
  <2>1. n \in Nat /\ n # 0
    BY PlansAre
  <2>2. PlansOk(qs) /\ Len(qs) = n - 1 /\ \A i \in 1..(n - 1) : qs[i] = ps[i + 1]
    BY TailSums
  <2>3. qs = <<>> <=> Len(qs) = 0
    BY <2>2, PlansAre
  <2>4. QED
    BY <2>1, <2>2, <2>3
<1>2. /\ \A i \in 1..n : r.job.start <= ps[i].base + ps[i].lo
      /\ \A i \in 1..(n - 1) : ps[i + 1].base + ps[i + 1].lo = ps[i].base + ps[i].hi
      /\ \A i \in 2..n : ps[i].emit = ps[i].lo
      /\ ps[1].base + ps[1].emit = r.job.start + Len(r.out)
      /\ ps[n].base + ps[n].hi = Least(Cursor(r, r.next), r.job.end)
      /\ r.next \in 0..Len(r.job.objects)
      /\ r.terminated => r.next = Len(r.job.objects)
  BY DEF Placed
<1>3. /\ Cursor(q, q.next) = Cursor(r, r.next)
      /\ Useful(q, Cursor(q, q.next)) = Useful(r, Cursor(r, r.next))
  BY DEF Cursor, Useful
<1>4. /\ Len(r.out) \in Nat /\ r.job.start \in Nat /\ r.job.end \in Nat
      /\ Cursor(r, r.next) \in Nat
  <2>1. r.job \in AnyJob /\ r.out \in Seq(Nat)
    BY DEF SessionState
  <2>2. r.job.start \in Nat /\ r.job.end \in Nat /\ Cursors[r.job][r.next] \in Nat
    BY <1>2, <2>1, CursorFacts
  <2>3. QED
    BY <2>1, <2>2 DEF Cursor
<1>5. ps[1].emit = ps[1].hi
  OBVIOUS
<1> HIDE DEF ps, qs, n
<1>6. ASSUME NEW i \in 1..(n - 1)
      PROVE  /\ r.job.start <= qs[i].base + qs[i].lo
             /\ qs[i].emit = qs[i].lo
             /\ i < n - 1 => qs[i + 1].base + qs[i + 1].lo = qs[i].base + qs[i].hi
  <2> DEFINE x == i + 1
  <2>1. x \in 2..n /\ x \in 1..n /\ (i < n - 1 => x \in 1..(n - 1) /\ i + 1 \in 1..(n - 1))
    BY <1>1
  <2>2. qs[i] = ps[x]
    BY <1>1
  <2>3. i < n - 1 => qs[i + 1] = ps[x + 1]
    BY <1>1, <2>1
  <2> HIDE DEF x
  <2>4. QED
    BY <1>2, <2>1, <2>2, <2>3
<1>7. n = 1 => Len(r.out) = Useful(r, Cursor(r, r.next))
  <2>1. n = 1 => r.job.start + Len(r.out) = Least(Cursor(r, r.next), r.job.end)
    BY <1>2, <1>5
  <2>2. QED
    BY <1>4, <2>1 DEF Useful, Most, Least
<1>8. n > 1 => /\ qs[1].base + qs[1].emit = r.job.start + Len(r.out)
               /\ qs[n - 1].base + qs[n - 1].hi = Least(Cursor(r, r.next), r.job.end)
  <2>1. SUFFICES ASSUME n > 1
                 PROVE  /\ qs[1].base + qs[1].emit = r.job.start + Len(r.out)
                        /\ qs[n - 1].base + qs[n - 1].hi = Least(Cursor(r, r.next), r.job.end)
    OBVIOUS
  <2>2. 1 \in 1..(n - 1) /\ n - 1 \in 1..(n - 1) /\ 1 + 1 = 2 /\ (n - 1) + 1 = n
    BY <1>1, <2>1
  <2>3. qs[1] = ps[2] /\ qs[n - 1] = ps[n]
    <3>1. qs[1] = ps[1 + 1] /\ qs[n - 1] = ps[(n - 1) + 1]
      BY <1>1, <2>2
    <3>2. QED
      BY <2>2, <3>1
  <2>4. qs[1].emit = qs[1].lo
    BY <1>6, <2>2
  <2>5. ps[2].base + ps[2].lo = ps[1].base + ps[1].hi
    <3>1. ps[1 + 1].base + ps[1 + 1].lo = ps[1].base + ps[1].hi
      BY <1>2, <2>2
    <3>2. QED
      BY <2>2, <3>1
  <2>6. QED
    BY <1>2, <1>5, <2>3, <2>4, <2>5
<1>9. /\ Len(q.plans) = n - 1 /\ (q.plans = <<>> <=> n = 1)
      /\ \A i \in 1..((n - 1) - 1) : i \in 1..(n - 1) /\ i < n - 1
      /\ \A i \in 2..(n - 1) : i \in 1..(n - 1)
      /\ (n # 1 => n > 1)
  BY <1>1 DEF qs
<1>10. QED
  BY <1>2, <1>3, <1>6, <1>7, <1>8, <1>9 DEF Placed, qs

(* Each plan waits for a peer that will wake the session, or for frames.    *)
Quiet(ps) ==
  \A i \in 1..Len(ps) :
    /\ ps[i].url \in {"waiting", "held", "used"}
    /\ ps[i].url = "held" => ps[i].auth = ps[i].emit
    /\ Polled(ps[i]) => ps[i].link = "waiting"

(* Every frame of the window that the plans can use is authorised.          *)
Dealt(r) == Committed(r.plans) >= Least(Share(r), Remaining(r.plans))

(* The parts of a session that a poll of the source, the tickets and the    *)
(* downloads changes, and those it leaves.                                  *)
Refilled(r, q) ==
  q = [r EXCEPT !.next = q.next, !.plans = q.plans, !.terminated = q.terminated,
                !.listening = q.listening, !.woken = q.woken]

LEMMA RefilledFields ==
  ASSUME NEW r \in SessionState, NEW q, Refilled(r, q)
  PROVE  /\ q.pc = r.pc /\ q.job = r.job /\ q.window = r.window /\ q.alloc = r.alloc
         /\ q.ticket = r.ticket /\ q.missing = r.missing /\ q.arrived = r.arrived
         /\ q.sink = r.sink /\ q.out = r.out
<1> DEFINE n == q.next
           t == q.terminated
           l == q.listening
           w == q.woken
           x == q.plans
<1>1. q = [r EXCEPT !.next = n, !.plans = x, !.terminated = t, !.listening = l, !.woken = w]
  BY DEF Refilled
<1> HIDE DEF n, t, l, w, x
<1>2. QED
  BY <1>1 DEF SessionState

(* The plans in the order of the objects: what is true of them is true of   *)
(* all but the first.                                                       *)
LEMMA TailOrder ==
  ASSUME NEW ps, PlansOk(ps), ps # <<>>
  PROVE  /\ FrontFirst(ps) => FrontFirst(Tail(ps))
         /\ Quiet(ps) => Quiet(Tail(ps))
<1> DEFINE qs == Tail(ps)
           n == Len(ps)
<1>1. /\ n \in Nat /\ n # 0 /\ Len(qs) = n - 1
      /\ \A i \in 1..(n - 1) : qs[i] = ps[i + 1]
  BY PlansAre, TailSums
<1> HIDE DEF qs, n
<1>2. ASSUME FrontFirst(ps) PROVE FrontFirst(qs)
  <2>1. SUFFICES ASSUME NEW i \in 1..Len(qs), NEW j \in 1..Len(qs),
                        i < j, qs[j].auth > qs[j].lo
                 PROVE  qs[i].auth = qs[i].hi
    BY Zenon DEF FrontFirst
  <2> DEFINE x == i + 1
             y == j + 1
  <2>2. x \in 1..n /\ y \in 1..n /\ x < y /\ i \in 1..(n - 1) /\ j \in 1..(n - 1)
    BY <1>1, <2>1
  <2>3. qs[i] = ps[x] /\ qs[j] = ps[y]
    BY <1>1, <2>2
  <2> HIDE DEF x, y
  <2>4. QED
    BY <1>2, <2>1, <2>2, <2>3 DEF FrontFirst, n
<1>3. ASSUME Quiet(ps) PROVE Quiet(qs)
  <2>1. SUFFICES ASSUME NEW i \in 1..Len(qs)
                 PROVE  /\ qs[i].url \in {"waiting", "held", "used"}
                        /\ qs[i].url = "held" => qs[i].auth = qs[i].emit
                        /\ Polled(qs[i]) => qs[i].link = "waiting"
    BY Zenon DEF Quiet
  <2> DEFINE x == i + 1
  <2>2. x \in 1..n /\ i \in 1..(n - 1)
    BY <1>1, <2>1
  <2>3. qs[i] = ps[x]
    BY <1>1, <2>2
  <2> HIDE DEF x
  <2>4. /\ ps[x].url \in {"waiting", "held", "used"}
        /\ ps[x].url = "held" => ps[x].auth = ps[x].emit
        /\ Polled(ps[x]) => ps[x].link = "waiting"
    BY <1>3, <2>2, Zenon DEF Quiet, n
  <2>5. QED
    BY <2>3, <2>4, Zenon
<1>4. QED
  BY <1>2, <1>3 DEF qs

(* The share of a session that has a frame is at least one, and what it     *)
(* plans for at least as much.                                              *)
LEMMA ShareFacts ==
  ASSUME NEW r \in SessionState, r.alloc \in 0..Capacity
  PROVE  /\ Share(r) \in Nat /\ Share(r) <= r.alloc /\ Share(r) <= r.window
         /\ r.alloc >= 1 => Share(r) >= 1 /\ Target(r) \in Nat /\ Target(r) >= 1
<1>1. Capacity \in Nat /\ r.window \in Nat /\ r.window >= 1 /\ r.alloc \in Nat /\ r.alloc <= Capacity
  BY StreamAssumption DEF SessionState
<1>2. Share(r) \in Nat /\ Share(r) <= r.alloc /\ Share(r) <= r.window
      /\ (r.alloc >= 1 => Share(r) >= 1)
  BY <1>1 DEF Share, Least
<1>3. ASSUME r.alloc >= 1 PROVE Prefetch[Share(r)] \in Nat
  <2>1. Share(r) \in 1..Capacity
    BY <1>1, <1>2, <1>3
  <2>2. QED
    BY <2>1, StreamAssumption
<1>4. QED
  BY <1>2, <1>3 DEF Target

(* The session waits for its source unless it has planned enough.           *)
Waits(r) ==
  /\ Wants(r, 0) => r.listening
  /\ r.plans = <<>> /\ ~ Exhausted(r) => r.listening

(* What poll_fill makes of a session when nothing fails.                    *)
Planned(r) == PollObjects(r)
Opened(r) == PollUrls(Authorize(Planned(r)))
Filled(r) == DiscardFinished(PollDownloads(Opened(r)))

LEMMA OpenedFacts ==
  ASSUME NEW r \in SessionState, PlansOk(r.plans), Placed(r), FrontFirst(r.plans),
         r.alloc \in 1..Capacity, Committed(r.plans) <= r.alloc
  PROVE  LET q == Opened(r) IN
         /\ q \in SessionState /\ Refilled(r, q) /\ q.woken = r.woken
         /\ PlansOk(q.plans) /\ Placed(q) /\ FrontFirst(q.plans)
         /\ Committed(q.plans) <= r.alloc /\ Dealt(q)
         /\ ~ SourceFails(r) /\ Wants(q, 0) => q.listening
         /\ \A i \in 1..Len(q.plans) :
              /\ q.plans[i].url # "answered"
              /\ q.plans[i].url = "held" => q.plans[i].auth = q.plans[i].emit
<1> DEFINE p == Planned(r)
           a == Authorize(p)
           q == Opened(r)
<1>1. /\ p \in SessionState
      /\ p = [r EXCEPT !.next = p.next, !.plans = p.plans,
                       !.terminated = p.terminated, !.listening = p.listening]
      /\ PlansOk(p.plans) /\ Placed(p)
      /\ Committed(p.plans) = Committed(r.plans)
      /\ FrontFirst(p.plans)
      /\ ~ SourceFails(r) /\ Wants(p, 0) => p.listening
  BY PollObjectsFacts DEF Planned
<1> HIDE DEF p
<1>2. /\ a = [p EXCEPT !.plans = a.plans]
      /\ PlansOk(a.plans) /\ Len(a.plans) = Len(p.plans)
      /\ \A i \in 1..Len(p.plans) :
           /\ a.plans[i].auth \in Nat
           /\ a.plans[i] = [p.plans[i] EXCEPT !.auth = a.plans[i].auth]
      /\ Remaining(a.plans) = Remaining(p.plans)
      /\ Committed(a.plans) <= Most(Committed(p.plans), Share(p))
      /\ Committed(a.plans) >= Least(Share(p), Remaining(a.plans))
      /\ FrontFirst(a.plans)
  BY <1>1, AuthorizeFacts
<1> HIDE DEF a
<1>3. a \in SessionState
  <2>1. a.plans \in Seq(PlanType)
    BY <1>2 DEF PlansOk
  <2>2. QED
    BY <1>1, <1>2, <2>1 DEF SessionState
<1>4. /\ q = [a EXCEPT !.plans = q.plans]
      /\ SameParts(a.plans, q.plans)
      /\ \A i \in 1..Len(q.plans) :
           /\ q.plans[i].url # "answered"
           /\ q.plans[i].url = "held" => q.plans[i].auth = q.plans[i].emit
  <2>1. q = PollUrls(a)
    BY Zenon DEF Opened, a, p
  <2>2. LET qs == PollUrls(a).plans
        IN /\ PollUrls(a) = [a EXCEPT !.plans = qs]
           /\ SameParts(a.plans, qs)
           /\ \A i \in 1..Len(qs) :
                qs[i].url # "answered" /\ (qs[i].url = "held" => qs[i].auth = qs[i].emit)
    BY <1>2, <1>3, PollUrlsFacts
  <2> HIDE DEF q
  <2>3. QED
    BY <2>1, <2>2
<1> HIDE DEF q
<1>5. /\ PlansOk(q.plans) /\ Len(q.plans) = Len(a.plans)
      /\ \A i \in 1..Len(a.plans) : SamePart(a.plans[i], q.plans[i])
      /\ Committed(q.plans) = Committed(a.plans) /\ Remaining(q.plans) = Remaining(a.plans)
      /\ FrontFirst(q.plans)
  BY <1>2, <1>4, SamePartsFacts DEF SameParts
<1>6. q \in SessionState
  <2>1. q.plans \in Seq(PlanType)
    BY <1>5 DEF PlansOk
  <2>2. QED
    BY <1>3, <1>4, <2>1 DEF SessionState
<1>7. /\ q = [r EXCEPT !.next = p.next, !.plans = q.plans,
                       !.terminated = p.terminated, !.listening = p.listening]
      /\ q.next = p.next /\ q.terminated = p.terminated /\ q.listening = p.listening
      /\ q.job = p.job /\ q.out = p.out /\ q.window = p.window /\ q.alloc = p.alloc
      /\ p.job = r.job /\ p.out = r.out /\ p.window = r.window /\ p.alloc = r.alloc
      /\ q.woken = r.woken
  <2> DEFINE n == p.next
             t == p.terminated
             l == p.listening
             x == p.plans
             y == a.plans
             z == q.plans
  <2>1. /\ p = [r EXCEPT !.next = n, !.plans = x, !.terminated = t, !.listening = l]
        /\ a = [p EXCEPT !.plans = y] /\ q = [a EXCEPT !.plans = z]
        /\ q.plans = z
    BY <1>1, <1>2, <1>4
  <2>2. p.next = n /\ p.terminated = t /\ p.listening = l
    OBVIOUS
  <2> HIDE DEF n, t, l, x, y, z
  <2>3. q = [r EXCEPT !.next = n, !.plans = z, !.terminated = t, !.listening = l]
    <3>1. a = [r EXCEPT !.next = n, !.plans = y, !.terminated = t, !.listening = l]
      BY <2>1 DEF SessionState
    <3>2. QED
      BY <2>1, <3>1 DEF SessionState
  <2>4. QED
    BY <2>1, <2>2, <2>3 DEF SessionState
<1>8. Refilled(r, q)
  BY <1>7 DEF Refilled, SessionState
<1>9. Placed(q)
  <2>1. ASSUME NEW i \in 1..Len(p.plans)
        PROVE  /\ q.plans[i].base = p.plans[i].base /\ q.plans[i].lo = p.plans[i].lo
               /\ q.plans[i].hi = p.plans[i].hi /\ q.plans[i].emit = p.plans[i].emit
    <3>1. SamePart(a.plans[i], q.plans[i])
      BY <1>2, <1>5
    <3>2. p.plans[i] \in PlanType /\ a.plans[i] = [p.plans[i] EXCEPT !.auth = a.plans[i].auth]
      BY <1>1, <1>2, PlansAre DEF PlanOk
    <3>3. /\ a.plans[i].base = p.plans[i].base /\ a.plans[i].lo = p.plans[i].lo
          /\ a.plans[i].hi = p.plans[i].hi /\ a.plans[i].emit = p.plans[i].emit
      BY <3>2 DEF PlanType
    <3>4. QED
      BY <3>1, <3>3 DEF SamePart
  <2>2. Len(q.plans) = Len(p.plans)
    BY <1>2, <1>5
  <2>3. QED
    BY <1>1, <1>5, <1>6, <1>7, <2>1, <2>2, PlacedSame
<1>10. Committed(q.plans) <= r.alloc
  <2>1. Committed(r.plans) \in Nat /\ Committed(q.plans) \in Nat
    BY <1>5, PlanSums
  <2>2. Share(p) = Share(r) /\ Share(r) \in Nat /\ Share(r) <= r.alloc
    <3>1. r.alloc \in 0..Capacity
      BY StreamAssumption
    <3>2. QED
      BY <1>7, <3>1, ShareFacts DEF Share
  <2>3. Committed(q.plans) <= Most(Committed(r.plans), Share(r))
    BY <1>1, <1>2, <1>5, <2>2
  <2>4. r.alloc \in Nat /\ Committed(r.plans) <= r.alloc
    BY DEF SessionState
  <2>5. QED
    BY <2>1, <2>2, <2>3, <2>4 DEF Most
<1>11. Dealt(q)
  <2>1. Share(q) = Share(p)
    BY <1>7 DEF Share
  <2>2. QED
    BY <1>2, <1>5, <2>1 DEF Dealt
<1>12. Wants(q, 0) => Wants(p, 0)
  <2>1. /\ Remaining(q.plans) = Remaining(p.plans) /\ Target(q) = Target(p)
        /\ q.next = p.next /\ q.job = p.job /\ q.terminated = p.terminated
    BY <1>2, <1>5, <1>7 DEF Target, Share
  <2>2. /\ \A c : Useful(q, c) = Useful(p, c)
        /\ \A n : Cursor(q, n) = Cursor(p, n)
    BY <2>1 DEF Useful, Cursor
  <2>3. QED
    BY <2>1, <2>2 DEF Wants
<1>13. QED
  BY <1>1, <1>4, <1>5, <1>6, <1>7, <1>8, <1>9, <1>10, <1>11, <1>12 DEF q

(* A poll that does not fail keeps the frames within the allocation and in  *)
(* their places, authorises all it can, and leaves a waker in whatever it   *)
(* waits for unless it woke the session itself.                             *)
LEMMA FilledFacts ==
  ASSUME NEW r \in SessionState, PlansOk(r.plans), Placed(r), FrontFirst(r.plans),
         r.alloc \in 1..Capacity, Committed(r.plans) <= r.alloc,
         ~ SourceFails(r),
         \A i \in DOMAIN Opened(r).plans :
           Opened(r).plans[i].url # "failed" /\ ~ ItemFails(Opened(r).plans[i])
  PROVE  LET q == Filled(r) IN
         /\ q \in SessionState /\ Refilled(r, q) /\ (r.woken => q.woken)
         /\ PlansOk(q.plans) /\ Placed(q) /\ FrontFirst(q.plans)
         /\ Committed(q.plans) <= r.alloc /\ Dealt(q)
         /\ ~ q.woken => Quiet(q.plans)
         /\ ~ Exhausted(q) => Waits(q)
<1> DEFINE o == Opened(r)
           d == PollDownloads(o)
           q == Filled(r)
<1>1. /\ o \in SessionState /\ Refilled(r, o) /\ o.woken = r.woken
      /\ PlansOk(o.plans) /\ Placed(o) /\ FrontFirst(o.plans)
      /\ Committed(o.plans) <= r.alloc /\ Dealt(o)
      /\ Wants(o, 0) => o.listening
      /\ \A i \in 1..Len(o.plans) :
           /\ o.plans[i].url # "answered"
           /\ o.plans[i].url = "held" => o.plans[i].auth = o.plans[i].emit
  BY OpenedFacts
<1>2. \A i \in 1..Len(o.plans) : o.plans[i].url # "failed" /\ ~ ItemFails(o.plans[i])
  <2>1. DOMAIN o.plans = 1..Len(o.plans)
    BY <1>1, PlansAre
  <2>2. QED
    BY <2>1
<1> HIDE DEF o
<1>3. /\ d = [o EXCEPT !.plans = d.plans, !.woken = d.woken]
      /\ d.woken \in BOOLEAN /\ (o.woken => d.woken)
      /\ SameParts(o.plans, d.plans)
      /\ \A i \in 1..Len(d.plans) : d.plans[i].url = o.plans[i].url
      /\ ~ d.woken =>
           \A i \in 1..Len(d.plans) : Polled(d.plans[i]) => d.plans[i].link = "waiting"
  BY <1>1, <1>2, PollDownloadsFacts
<1>4. /\ PlansOk(d.plans) /\ Len(d.plans) = Len(o.plans)
      /\ \A i \in 1..Len(o.plans) : SamePart(o.plans[i], d.plans[i])
      /\ Committed(d.plans) = Committed(o.plans) /\ Remaining(d.plans) = Remaining(o.plans)
      /\ FrontFirst(d.plans)
  BY <1>1, <1>3, SamePartsFacts DEF SameParts
<1> HIDE DEF d
<1>5. d \in SessionState
  <2>1. d.plans \in Seq(PlanType)
    BY <1>4 DEF PlansOk
  <2>2. QED
    BY <1>1, <1>3, <2>1 DEF SessionState
<1>6. /\ d.job = o.job /\ d.out = o.out /\ d.window = o.window /\ d.alloc = o.alloc
      /\ d.next = o.next /\ d.terminated = o.terminated /\ d.listening = o.listening
  BY <1>1, <1>3 DEF SessionState
<1>7. Placed(d)
  <2>1. \A i \in 1..Len(o.plans) :
          /\ d.plans[i].base = o.plans[i].base /\ d.plans[i].lo = o.plans[i].lo
          /\ d.plans[i].hi = o.plans[i].hi /\ d.plans[i].emit = o.plans[i].emit
    BY <1>4 DEF SamePart
  <2>2. QED
    BY <1>1, <1>4, <1>5, <1>6, <2>1, PlacedSame
<1>8. ~ d.woken => Quiet(d.plans)
  <2>1. SUFFICES ASSUME ~ d.woken, NEW i \in 1..Len(d.plans)
                 PROVE  /\ d.plans[i].url \in {"waiting", "held", "used"}
                        /\ d.plans[i].url = "held" => d.plans[i].auth = d.plans[i].emit
                        /\ Polled(d.plans[i]) => d.plans[i].link = "waiting"
    BY Zenon DEF Quiet
  <2>2. d.plans[i].url = o.plans[i].url /\ SamePart(o.plans[i], d.plans[i])
        /\ d.plans[i] \in PlanType
    BY <1>3, <1>4, PlansAre DEF PlanOk
  <2>3. /\ o.plans[i].url # "answered" /\ o.plans[i].url # "failed"
        /\ o.plans[i].url = "held" => o.plans[i].auth = o.plans[i].emit
    BY <1>1, <1>2, <1>4
  <2>4. Polled(d.plans[i]) => d.plans[i].link = "waiting"
    BY <1>3, <2>1
  <2>5. d.plans[i].url \in {"waiting", "answered", "failed", "held", "used"}
    BY <2>2 DEF PlanType
  <2>6. QED
    BY <2>2, <2>3, <2>4, <2>5 DEF SamePart
<1> DEFINE ps == d.plans
           fs == q.plans
<1>9. /\ q = [d EXCEPT !.plans = fs]
      /\ fs = IF ps # <<>> /\ Spent(ps[1]) THEN Tail(ps) ELSE ps
  <2>1. \A i \in 2..Len(d.plans) : d.plans[i].emit = d.plans[i].lo
    BY <1>7 DEF Placed
  <2>2. LET gs == DiscardFinished(d).plans
        IN /\ DiscardFinished(d) = [d EXCEPT !.plans = gs]
           /\ gs = IF d.plans # <<>> /\ Spent(d.plans[1]) THEN Tail(d.plans) ELSE d.plans
    BY <1>4, <1>5, <2>1, DiscardFacts
  <2>3. q = DiscardFinished(d)
    BY Zenon DEF Filled, o, d
  <2> HIDE DEF q
  <2>4. QED
    BY <2>2, <2>3
<1> HIDE DEF q
<1>10. /\ PlansOk(fs) /\ FrontFirst(fs) /\ (~ d.woken => Quiet(fs))
       /\ Committed(fs) = Committed(ps) /\ Remaining(fs) = Remaining(ps)
  <2>1. CASE ps # <<>> /\ Spent(ps[1])
    <3>1. fs = Tail(ps)
      BY <1>9, <2>1
    <3>2. /\ PlansOk(Tail(ps))
          /\ Committed(Tail(ps)) = Committed(ps) - (ps[1].auth - ps[1].emit)
          /\ Remaining(Tail(ps)) = Remaining(ps) - (ps[1].hi - ps[1].emit)
      BY <1>4, <2>1, TailSums
    <3>3. FrontFirst(Tail(ps)) /\ (~ d.woken => Quiet(Tail(ps)))
      BY <1>4, <1>8, <2>1, TailOrder
    <3>4. /\ ps[1].auth \in Nat /\ ps[1].emit \in Nat /\ ps[1].hi \in Nat
          /\ ps[1].emit <= ps[1].auth /\ ps[1].auth <= ps[1].hi
      <4>1. 1 \in 1..Len(ps)
        BY <1>4, <2>1, PlansAre
      <4>2. \A i \in 1..Len(ps) :
              /\ ps[i].auth \in Nat /\ ps[i].recv \in Nat /\ ps[i].emit \in Nat
              /\ ps[i].hi \in Nat
              /\ ps[i].emit <= ps[i].recv /\ ps[i].recv <= ps[i].auth /\ ps[i].auth <= ps[i].hi
        BY <1>4, PlansAre
      <4> HIDE DEF ps
      <4>3. QED
        BY <4>1, <4>2
    <3>5. ps[1].emit = ps[1].hi
      BY <2>1 DEF Spent
    <3>6. Committed(ps) \in Nat /\ Remaining(ps) \in Nat
      BY <1>4, PlanSums
    <3>7. QED
      BY <3>1, <3>2, <3>3, <3>4, <3>5, <3>6
  <2>2. CASE ~ (ps # <<>> /\ Spent(ps[1]))
    BY <1>4, <1>8, <1>9, <2>2
  <2>3. QED
    BY <2>1, <2>2
<1>11. q \in SessionState
  <2>1. fs \in Seq(PlanType)
    BY <1>10 DEF PlansOk
  <2>2. QED
    BY <1>5, <1>9, <2>1 DEF SessionState
<1>12. /\ q.job = d.job /\ q.out = d.out /\ q.window = d.window /\ q.alloc = d.alloc
       /\ q.next = d.next /\ q.terminated = d.terminated /\ q.listening = d.listening
       /\ q.woken = d.woken
  <2> HIDE DEF fs
  <2>1. QED
    BY <1>5, <1>9 DEF SessionState
<1>13. Placed(q)
  <2>1. CASE ps # <<>> /\ Spent(ps[1])
    <3>1. q.plans = Tail(d.plans) /\ d.plans[1].emit = d.plans[1].hi /\ d.plans # <<>>
      BY <1>9, <2>1 DEF Spent
    <3>2. QED
      BY <1>4, <1>5, <1>7, <1>11, <1>12, <3>1, PlacedTail
  <2>2. CASE ~ (ps # <<>> /\ Spent(ps[1]))
    <3>1. q.plans = d.plans
      BY <1>9, <2>2
    <3>2. QED
      BY <1>4, <1>5, <1>7, <1>11, <1>12, <3>1, PlacedSame
  <2>3. QED
    BY <2>1, <2>2
<1>14. Refilled(r, q)
  <2> DEFINE n == q.next
             t == q.terminated
             l == q.listening
             w == q.woken
             x == q.plans
  <2>1. /\ n = o.next /\ t = o.terminated /\ l = o.listening /\ w = d.woken
    BY <1>6, <1>12
  <2>2. o = [r EXCEPT !.next = n, !.plans = o.plans, !.terminated = t,
                      !.listening = l, !.woken = o.woken]
    BY <1>1, <2>1 DEF Refilled
  <2>3. d = [o EXCEPT !.plans = d.plans, !.woken = w]
    BY <1>3, <2>1
  <2>4. q = [d EXCEPT !.plans = x]
    BY <1>9
  <2> HIDE DEF n, t, l, w, x
  <2>5. d = [r EXCEPT !.next = n, !.plans = d.plans, !.terminated = t,
                      !.listening = l, !.woken = w]
    BY <2>2, <2>3 DEF SessionState
  <2>6. q = [r EXCEPT !.next = n, !.plans = x, !.terminated = t,
                      !.listening = l, !.woken = w]
    BY <2>4, <2>5 DEF SessionState
  <2>7. QED
    BY <2>6 DEF Refilled, n, t, l, w, x
<1>15. Dealt(q)
  <2>1. Share(q) = Share(o)
    BY <1>6, <1>12 DEF Share
  <2>2. QED
    BY <1>1, <1>4, <1>10, <2>1 DEF Dealt
<1>16. /\ Wants(q, 0) => Wants(o, 0)
       /\ Cursor(q, q.next) = Cursor(o, o.next)
  <2>1. /\ Remaining(q.plans) = Remaining(o.plans) /\ Target(q) = Target(o)
        /\ q.next = o.next /\ q.job = o.job /\ q.terminated = o.terminated
    BY <1>4, <1>6, <1>10, <1>12 DEF Target, Share
  <2>2. /\ \A c : Useful(q, c) = Useful(o, c)
        /\ \A n : Cursor(q, n) = Cursor(o, n)
    BY <2>1 DEF Useful, Cursor
  <2>3. QED
    BY <2>1, <2>2 DEF Wants
<1>17. Wants(q, 0) => q.listening
  BY <1>1, <1>6, <1>12, <1>16
<1>18. ASSUME ~ Exhausted(q), q.plans = <<>> PROVE q.listening
  <2>1. ~ q.terminated /\ ~ (Cursor(q, q.next) >= q.job.end)
    BY <1>18 DEF Exhausted
  <2>2. Remaining(q.plans) = 0
    BY <1>18, NoPlans
  <2>3. /\ q.next \in 0..Len(q.job.objects) /\ q.job \in AnyJob /\ q.next \in Nat
    BY <1>11, <1>13 DEF Placed, SessionState
  <2>4. Cursor(q, q.next) \in Nat /\ q.job.end \in Nat /\ q.job.start \in Nat
    BY <2>3, CursorFacts DEF Cursor
  <2>5. Target(q) \in Nat /\ Target(q) >= 1
    <3>1. q.alloc = r.alloc
      BY <1>14, RefilledFields
    <3>2. q.alloc \in 0..Capacity /\ q.alloc >= 1
      BY <3>1, StreamAssumption
    <3>3. QED
      BY <1>11, <3>2, ShareFacts
  <2>6. q.next + 0 = q.next
    BY <2>3
  <2>7. Useful(q, Cursor(q, q.next)) \in Nat
    BY <2>4 DEF Useful, Most, Least
  <2>8. Remaining(q.plans) + Useful(q, Cursor(q, q.next)) - Useful(q, Cursor(q, q.next)) = 0
    BY <2>2, <2>7
  <2>9. Wants(q, 0)
    BY <2>1, <2>4, <2>5, <2>6, <2>8 DEF Wants
  <2>10. QED
    BY <1>17, <2>9
<1>19. /\ r.woken => q.woken
       /\ ~ q.woken => Quiet(q.plans)
       /\ Committed(q.plans) <= r.alloc
  BY <1>1, <1>3, <1>4, <1>10, <1>12
<1>20. QED
  BY <1>10, <1>11, <1>13, <1>14, <1>15, <1>17, <1>18, <1>19 DEF Waits, q

(* The front plan hands one frame over, and goes when it was the last one.  *)
HandedOne(p) == [p EXCEPT !.emit = @ + 1]
Handed(ps) ==
  IF Spent(HandedOne(ps[1])) THEN Tail(ps) ELSE [ps EXCEPT ![1] = HandedOne(ps[1])]

LEMMA HandedFacts ==
  ASSUME NEW r \in SessionState, PlansOk(r.plans), Placed(r), FrontFirst(r.plans),
         r.plans # <<>>, r.plans[1].recv > r.plans[1].emit,
         NEW q \in SessionState,
         q.job = r.job, q.next = r.next, q.terminated = r.terminated,
         q.plans = Handed(r.plans),
         q.out = Append(r.out, r.plans[1].base + r.plans[1].emit)
  PROVE  /\ PlansOk(q.plans) /\ FrontFirst(q.plans) /\ Placed(q)
         /\ Committed(q.plans) <= Committed(r.plans)
         /\ r.plans[1].base + r.plans[1].emit = r.job.start + Len(r.out)
         /\ Len(r.out) < Useful(r, Cursor(r, r.next))
<1> DEFINE ps == r.plans
           n == Len(ps)
           p == ps[1]
           h == HandedOne(p)
           hs == [ps EXCEPT ![1] = h]
           m == [q EXCEPT !.plans = hs]
<1>1. n \in Nat /\ n # 0 /\ 1 \in 1..n /\ PlanOk(p) /\ p \in PlanType
  BY PlansAre DEF PlanOk
<1>2. /\ p.base \in Nat /\ p.lo \in Nat /\ p.hi \in Nat /\ p.auth \in Nat
      /\ p.recv \in Nat /\ p.emit \in Nat
      /\ p.lo <= p.emit /\ p.emit < p.recv /\ p.recv <= p.auth /\ p.auth <= p.hi
  BY <1>1 DEF PlanOk, PlanType
<1>3. /\ h \in PlanType /\ h.emit = p.emit + 1 /\ h.base = p.base /\ h.lo = p.lo /\ h.hi = p.hi
      /\ h.auth = p.auth /\ h.recv = p.recv /\ h.finished = p.finished
      /\ h.url = p.url /\ h.link = p.link
  <2> DEFINE e == p.emit + 1
  <2>1. e \in Nat
    BY <1>2
  <2>2. h = [p EXCEPT !.emit = e]
    BY DEF HandedOne
  <2> HIDE DEF e, p, h
  <2>3. /\ h \in PlanType /\ h.emit = e /\ h.base = p.base /\ h.lo = p.lo /\ h.hi = p.hi
        /\ h.auth = p.auth /\ h.recv = p.recv /\ h.finished = p.finished
        /\ h.url = p.url /\ h.link = p.link
    BY <1>1, <2>1, <2>2 DEF PlanType
  <2>4. QED
    BY <2>3 DEF e
<1> HIDE DEF h
<1>4. PlanOk(h)
  <2>1. /\ p.lo < p.hi
        /\ p.finished => p.recv = p.hi /\ p.link = "closed" /\ p.url = "used"
        /\ p.url # "used" => p.link = "closed"
    BY <1>1 DEF PlanOk
  <2> HIDE DEF p
  <2>2. QED
    BY <1>2, <1>3, <2>1 DEF PlanOk
<1>5. /\ PlansOk(hs) /\ Len(hs) = n
      /\ \A i \in 1..n : hs[i] = IF i = 1 THEN h ELSE ps[i]
      /\ Committed(hs) = Committed(ps) - 1
  <2>1. h.auth = ps[1].auth /\ h.hi = ps[1].hi /\ h.emit = ps[1].emit + 1
    BY <1>3
  <2>2. QED
    BY <1>4, <2>1, HandSums
<1> HIDE DEF hs, p
<1>6. m \in SessionState /\ m.plans = hs /\ m.job = r.job /\ m.next = r.next
      /\ m.terminated = r.terminated /\ m.out = q.out
  <2>1. hs \in Seq(PlanType)
    BY <1>5 DEF PlansOk
  <2>2. QED
    BY <2>1 DEF SessionState
<1> HIDE DEF m
<1>7. /\ \A i \in 1..n : r.job.start <= ps[i].base + ps[i].lo
      /\ \A i \in 1..(n - 1) : ps[i + 1].base + ps[i + 1].lo = ps[i].base + ps[i].hi
      /\ \A i \in 2..n : ps[i].emit = ps[i].lo
      /\ p.base + p.emit = r.job.start + Len(r.out)
      /\ ps[n].base + ps[n].hi = Least(Cursor(r, r.next), r.job.end)
      /\ r.next \in 0..Len(r.job.objects)
      /\ r.terminated => r.next = Len(r.job.objects)
  BY DEF Placed, p
<1>8. /\ Len(r.out) \in Nat /\ r.job.start \in Nat /\ Len(q.out) = Len(r.out) + 1
  <2>1. r.job \in AnyJob /\ r.out \in Seq(Nat)
    BY DEF SessionState
  <2>2. r.job.start \in Nat
    BY <2>1, CursorFacts
  <2>3. QED
    BY <2>1, <2>2
<1>9. Placed(m)
  <2>1. ASSUME NEW i \in 1..n
        PROVE  /\ hs[i].base = ps[i].base /\ hs[i].lo = ps[i].lo /\ hs[i].hi = ps[i].hi
               /\ i # 1 => hs[i].emit = ps[i].emit
    BY <1>3, <1>5 DEF p
  <2>2. hs # <<>> /\ hs[1].base + hs[1].emit = r.job.start + Len(q.out)
    <3>1. hs # <<>>
      BY <1>1, <1>5, PlansAre
    <3>2. hs[1].base = p.base /\ hs[1].emit = p.emit + 1
      BY <1>1, <1>3, <1>5
    <3> DEFINE b == p.base
               e == p.emit
               x == Len(r.out)
               y == Len(q.out)
               z == r.job.start
    <3>3. /\ b \in Nat /\ e \in Nat /\ x \in Nat /\ z \in Nat /\ y = x + 1 /\ b + e = z + x
      BY <1>2, <1>7, <1>8
    <3> HIDE DEF b, e, x, y, z
    <3>4. b + (e + 1) = z + y
      BY <3>3
    <3>5. QED
      BY <3>1, <3>2, <3>4 DEF b, e, y, z
  <2>3. /\ \A i \in 1..n : r.job.start <= hs[i].base + hs[i].lo
        /\ hs[n].base + hs[n].hi = Least(Cursor(r, r.next), r.job.end)
    <3>1. n \in 1..n
      BY <1>1
    <3>2. QED
      BY <1>7, <2>1, <3>1
  <2>4. \A i \in 1..(n - 1) : hs[i + 1].base + hs[i + 1].lo = hs[i].base + hs[i].hi
    <3>1. TAKE i \in 1..(n - 1)
    <3> DEFINE y == i + 1
    <3>2. i \in 1..n /\ y \in 1..n
      BY <1>1
    <3>3. ps[y].base + ps[y].lo = ps[i].base + ps[i].hi
      BY <1>7
    <3> HIDE DEF y
    <3>4. hs[y].base + hs[y].lo = hs[i].base + hs[i].hi
      BY <2>1, <3>2, <3>3
    <3>5. QED
      BY <3>4 DEF y
  <2>5. \A i \in 2..n : hs[i].emit = hs[i].lo
    <3>1. TAKE i \in 2..n
    <3>2. i \in 1..n /\ i # 1
      BY <1>1
    <3>3. QED
      BY <1>7, <2>1, <3>2
  <2>6. Cursor(m, m.next) = Cursor(r, r.next)
    BY <1>6 DEF Cursor
  <2>7. QED
    BY <1>5, <1>6, <1>7, <2>2, <2>3, <2>4, <2>5, <2>6 DEF Placed
<1>10. FrontFirst(hs)
  <2>1. SUFFICES ASSUME NEW i \in 1..Len(hs), NEW j \in 1..Len(hs),
                        i < j, hs[j].auth > hs[j].lo
                 PROVE  hs[i].auth = hs[i].hi
    BY Zenon DEF FrontFirst
  <2>2. \A x \in 1..n :
          hs[x].auth = ps[x].auth /\ hs[x].lo = ps[x].lo /\ hs[x].hi = ps[x].hi
    BY <1>3, <1>5 DEF p
  <2>3. i \in 1..n /\ j \in 1..n
    BY <1>5, <2>1
  <2>4. QED
    BY <2>1, <2>2, <2>3 DEF FrontFirst
<1>11. Committed(ps) \in Nat
  BY PlanSums
<1>12. q.plans = IF Spent(h) THEN Tail(ps) ELSE hs
  BY DEF Handed, hs, h, p
<1>13. PlansOk(q.plans) /\ FrontFirst(q.plans) /\ Placed(q) /\ Committed(q.plans) <= Committed(ps)
  <2>1. CASE ~ Spent(h)
    <3>1. q.plans = hs
      BY <1>12, <2>1
    <3>2. Placed(q)
      BY <1>5, <1>6, <1>9, <3>1, PlacedSame
    <3>3. QED
      BY <1>5, <1>10, <1>11, <3>1, <3>2
  <2>2. CASE Spent(h)
    <3>1. q.plans = Tail(ps)
      BY <1>12, <2>2
    <3>2. Tail(ps) = Tail(hs)
      <4>1. /\ hs # <<>> /\ PlansOk(Tail(hs)) /\ Len(Tail(hs)) = n - 1
            /\ \A i \in 1..(n - 1) : Tail(hs)[i] = hs[i + 1]
        BY <1>1, <1>5, TailSums, PlansAre
      <4>2. /\ PlansOk(Tail(ps)) /\ Len(Tail(ps)) = n - 1
            /\ \A i \in 1..(n - 1) : Tail(ps)[i] = ps[i + 1]
        BY TailSums
      <4>3. ASSUME NEW i \in 1..(n - 1) PROVE hs[i + 1] = ps[i + 1]
        <5>1. i + 1 \in 1..n /\ i + 1 # 1
          BY <1>1
        <5>2. QED
          BY <1>5, <5>1
      <4>4. Tail(ps) \in Seq(PlanType) /\ Tail(hs) \in Seq(PlanType)
        BY <4>1, <4>2 DEF PlansOk
      <4> DEFINE u == Tail(ps)
                 v == Tail(hs)
      <4>5. /\ u \in Seq(PlanType) /\ v \in Seq(PlanType) /\ Len(u) = n - 1 /\ Len(v) = n - 1
            /\ \A i \in 1..(n - 1) : u[i] = v[i]
        BY <4>1, <4>2, <4>3, <4>4
      <4> HIDE DEF u, v
      <4>6. u = v
        BY <4>5, SeqEqual
      <4>7. QED
        BY <4>6 DEF u, v
    <3>3. /\ hs # <<>> /\ PlansOk(Tail(hs))
          /\ Committed(Tail(hs)) = Committed(hs) - (hs[1].auth - hs[1].emit)
      BY <1>1, <1>5, TailSums, PlansAre
    <3>4. FrontFirst(Tail(hs))
      BY <1>5, <1>10, <3>3, TailOrder
    <3>5. hs[1] = h /\ h.emit = h.hi
      BY <1>1, <1>5, <2>2 DEF Spent
    <3>6. Placed(q)
      <4>1. q.plans = Tail(m.plans) /\ m.plans # <<>> /\ m.plans[1].emit = m.plans[1].hi
        BY <1>6, <3>1, <3>2, <3>3, <3>5
      <4>2. PlansOk(m.plans)
        BY <1>5, <1>6
      <4>3. QED
        BY <1>6, <1>9, <4>1, <4>2, PlacedTail
    <3>7. Committed(Tail(hs)) <= Committed(ps)
      BY <1>2, <1>3, <1>5, <1>11, <3>3, <3>5
    <3>8. QED
      BY <3>1, <3>2, <3>3, <3>4, <3>6, <3>7
  <2>3. QED
    BY <2>1, <2>2
<1>14. Len(r.out) < Useful(r, Cursor(r, r.next))
  <2>1. Remaining(ps) = Useful(r, Cursor(r, r.next)) - Len(r.out)
    BY PlacedRemaining
  <2>2. PlansOk(Tail(ps)) /\ Remaining(Tail(ps)) = Remaining(ps) - (p.hi - p.emit)
    BY TailSums DEF p
  <2>3. Remaining(Tail(ps)) \in Nat /\ Remaining(ps) \in Nat
    BY <2>2, PlanSums
  <2>4. Useful(r, Cursor(r, r.next)) \in Nat
    <3>1. r.job \in AnyJob
      BY DEF SessionState
    <3>2. Cursor(r, r.next) \in Nat /\ r.job.end \in Nat
      BY <1>7, <3>1, CursorFacts DEF Cursor
    <3>3. QED
      BY <1>8, <3>2 DEF Useful, Most, Least
  <2>5. QED
    BY <1>2, <1>8, <2>1, <2>2, <2>3, <2>4
<1>15. QED
  BY <1>7, <1>13, <1>14 DEF p

----------------------------------------------------------------------------
(* The invariant *)

Live(r) == r.pc \notin Ended \cup {"off"}
AtRest(r) == r.pc \in {"sink", "idle"} /\ ~ r.woken

(* One session, by itself.                                                  *)
OfJob(s, r) ==
  /\ r.job \in Jobs[s] /\ r.window \in r.job.windows
  /\ r.missing <= Capacity /\ r.arrived <= Len(r.job.objects) + 1
  /\ r.next <= Len(r.job.objects)

PlansFit(r) ==
  PlansOk(r.plans) /\ FrontFirst(r.plans) /\ Committed(r.plans) <= r.alloc

InOrder(r) == r.out = [i \in 1..Len(r.out) |-> r.job.start + i - 1]

Holds(r) ==
  /\ Live(r) => r.alloc >= 1
  /\ ~ Live(r) => r.alloc = 0 /\ r.plans = <<>> /\ r.ticket = FALSE

Grown(r) ==
  r.pc \in {"fill", "closing"} \/ AtRest(r) => (r.window > r.alloc => r.ticket \/ r.alloc >= 2)

Armed(r) ==
  /\ AtRest(r) => Quiet(r.plans) /\ Waits(r) /\ Dealt(r)
  /\ r.pc = "idle" /\ AtRest(r) /\ r.plans # <<>> /\ r.plans[1].recv > r.plans[1].emit =>
       r.sink = "waiting"
  /\ r.pc = "idle" /\ AtRest(r) /\ Exhausted(r) => r.sink = "waiting"

SessionOk(s, r) ==
  /\ r \in SessionState /\ OfJob(s, r)
  /\ PlansFit(r) /\ InOrder(r) /\ Holds(r)
  /\ r.pc \notin Ended => Placed(r)
  /\ Grown(r) /\ Armed(r)
  /\ r.pc = "closing" => Exhausted(r)
  /\ r.pc = "sink" => ~ Exhausted(r)

(* A session and the budget: who is served is woken.                        *)
TicketOk(b, s, r) ==
  /\ r.ticket <=> s \in Tickets(b)
  /\ s \in b.granted => r.woken

Allocs(f) == [s \in Session |-> f[s].alloc]

AllOk(b, f) ==
  /\ QueueOk(b)
  /\ f = [s \in Session |-> f[s]]
  /\ \A s \in Session : SessionOk(s, f[s]) /\ TicketOk(b, s, f[s])
  /\ Idle(b) + SumFunctionOnSet(Allocs(f), Session) = Capacity

Inv == AllOk(budget, session)

(* Whoever is woken has less to answer for.                                 *)
Waken(r, w) == [r EXCEPT !.woken = @ \/ w]

LEMMA WakenFacts ==
  ASSUME NEW s, NEW r, SessionOk(s, r), NEW w \in BOOLEAN
  PROVE  LET q == Waken(r, w) IN
         /\ SessionOk(s, q)
         /\ q.pc = r.pc /\ q.job = r.job /\ q.alloc = r.alloc /\ q.ticket = r.ticket
         /\ q.out = r.out /\ q.plans = r.plans
         /\ q.woken = (r.woken \/ w)
<1> DEFINE q == Waken(r, w)
           x == r.woken \/ w
<1>1. r \in SessionState /\ x \in BOOLEAN /\ q = [r EXCEPT !.woken = x]
  BY DEF SessionOk, SessionState, Waken
<1>2. q.woken = x /\ (r.woken => x)
  BY <1>1 DEF SessionState
<1> HIDE DEF q, x
<1>3. q \in SessionState
  BY <1>1 DEF SessionState
<1>4. /\ q.pc = r.pc /\ q.job = r.job /\ q.window = r.window /\ q.alloc = r.alloc
      /\ q.ticket = r.ticket /\ q.missing = r.missing /\ q.next = r.next
      /\ q.arrived = r.arrived /\ q.listening = r.listening
      /\ q.terminated = r.terminated /\ q.plans = r.plans /\ q.sink = r.sink
      /\ q.out = r.out
  BY <1>1 DEF SessionState
<1>5. /\ \A n : Cursor(q, n) = Cursor(r, n)
      /\ \A c : Useful(q, c) = Useful(r, c)
      /\ Share(q) = Share(r) /\ Target(q) = Target(r)
  BY <1>4 DEF Cursor, Useful, Share, Target
<1>6. (Wants(q, 0) <=> Wants(r, 0)) /\ (Exhausted(q) <=> Exhausted(r))
  BY <1>4, <1>5 DEF Wants, Exhausted
<1>7. Placed(r) => Placed(q)
  BY <1>4, <1>5 DEF Placed
<1>8. OfJob(s, q) /\ PlansFit(q) /\ InOrder(q) /\ Holds(q)
  BY <1>4 DEF SessionOk, OfJob, PlansFit, InOrder, Holds, Live
<1>9. AtRest(q) => AtRest(r)
  BY <1>2, <1>4 DEF AtRest
<1>10. Grown(q)
  BY <1>4, <1>9 DEF SessionOk, Grown
<1>11. Armed(q)
  BY <1>4, <1>5, <1>6, <1>9 DEF SessionOk, Armed, Waits, Dealt
<1>12. QED
  BY <1>2, <1>3, <1>4, <1>6, <1>7, <1>8, <1>10, <1>11 DEF SessionOk, q, x

(* What a step of one session leaves behind, once those it served are       *)
(* woken.                                                                   *)
Awake(b, f, c, s, r) ==
  [t \in Session |-> Waken(IF t = s THEN r ELSE f[t], t \in c.granted \ b.granted)]

LEMMA StepOk ==
  ASSUME NEW b, NEW f, AllOk(b, f), NEW s \in Session,
         NEW c, QueueOk(c), NEW r, SessionOk(s, r),
         r.ticket <=> s \in Tickets(c),
         s \in b.granted /\ s \in c.granted => r.woken,
         Tickets(c) \ {s} = Tickets(b) \ {s},
         Idle(c) + r.alloc = Idle(b) + f[s].alloc
  PROVE  AllOk(c, Awake(b, f, c, s, r))
<1> DEFINE g == Awake(b, f, c, s, r)
           new(t) == t \in c.granted \ b.granted
           old(t) == IF t = s THEN r ELSE f[t]
<1>1. \A t \in Session : SessionOk(t, f[t]) /\ TicketOk(b, t, f[t])
  BY DEF AllOk
<1>2. ASSUME NEW t \in Session
      PROVE  /\ SessionOk(t, old(t)) /\ g[t] = Waken(old(t), new(t))
             /\ SessionOk(t, g[t])
             /\ g[t].alloc = old(t).alloc /\ g[t].ticket = old(t).ticket
             /\ g[t].pc = old(t).pc /\ g[t].woken = (old(t).woken \/ new(t))
  <2>1. SessionOk(t, old(t))
    BY <1>1
  <2>2. g[t] = Waken(old(t), new(t))
    BY DEF Awake
  <2>3. new(t) \in BOOLEAN
    OBVIOUS
  <2> HIDE DEF old, new, g
  <2>4. QED
    BY <2>1, <2>2, <2>3, WakenFacts
<1>3. g = [t \in Session |-> g[t]]
  BY DEF Awake
<1> HIDE DEF g
<1>4. ASSUME NEW t \in Session PROVE TicketOk(c, t, g[t])
  <2>1. CASE t = s
    <3>1. old(t) = r
      BY <2>1
    <3>2. g[t].ticket <=> t \in Tickets(c)
      BY <1>2, <2>1, <3>1
    <3>3. t \in c.granted => g[t].woken
      BY <1>2, <2>1, <3>1
    <3>4. QED
      BY <3>2, <3>3 DEF TicketOk
  <2>2. CASE t # s
    <3>1. old(t) = f[t]
      BY <2>2
    <3>2. t \in Tickets(c) <=> t \in Tickets(b)
      BY <2>2
    <3>3. /\ f[t].ticket <=> t \in Tickets(b)
          /\ t \in b.granted => f[t].woken
      BY <1>1 DEF TicketOk
    <3>4. g[t].ticket <=> t \in Tickets(c)
      BY <1>2, <3>1, <3>2, <3>3
    <3>5. t \in c.granted => g[t].woken
      BY <1>2, <3>1, <3>3
    <3>6. QED
      BY <3>4, <3>5 DEF TicketOk
  <2>3. QED
    BY <2>1, <2>2
<1>5. Idle(c) + SumFunctionOnSet(Allocs(g), Session) = Capacity
  <2>1. \A t \in Session : Allocs(g)[t] = old(t).alloc /\ Allocs(f)[t] = f[t].alloc
    BY <1>2 DEF Allocs
  <2>2. \A t \in Session : f[t].alloc \in Nat /\ old(t).alloc \in Nat
    BY <1>1, <1>2 DEF SessionOk, SessionState
  <2>3. SumFunctionOnSet(Allocs(g), Session)
          = SumFunctionOnSet(Allocs(f), Session) + Allocs(g)[s] - Allocs(f)[s]
    <3> DEFINE h == Allocs(g)
               k == Allocs(f)
    <3>1. IsFiniteSet(Session)
      BY StreamAssumption
    <3>2. \A t \in Session : k[t] \in Int /\ h[t] \in Int
      BY <2>1, <2>2
    <3>3. \A t \in Session : t # s => k[t] = h[t]
      BY <2>1
    <3> HIDE DEF h, k
    <3>4. SumFunctionOnSet(h, Session) = SumFunctionOnSet(k, Session) + h[s] - k[s]
      BY <3>1, <3>2, <3>3, SumChange
    <3>5. QED
      BY <3>4 DEF h, k
  <2>4. Allocs(g)[s] = r.alloc /\ Allocs(f)[s] = f[s].alloc
    BY <2>1
  <2>5. /\ r.alloc \in Nat /\ f[s].alloc \in Nat
        /\ SumFunctionOnSet(Allocs(f), Session) \in Int
    <3>1. \A t \in Session : Allocs(f)[t] \in Int
      BY <2>1, <2>2
    <3>2. SumFunctionOnSet(Allocs(f), Session) \in Int
      BY <3>1, StreamAssumption, SumInt
    <3>3. QED
      BY <2>2, <3>2 DEF SessionOk, SessionState
  <2>6. Idle(b) \in Int /\ Idle(c) \in Int
    <3>1. /\ IsFiniteSet(b.granted) /\ IsFiniteSet(c.granted) /\ b.free \in Nat /\ c.free \in Nat
      BY StreamAssumption, FS_Subset DEF AllOk, QueueOk
    <3>2. QED
      BY <3>1, FS_CardinalityType DEF Idle
  <2>7. Idle(b) + SumFunctionOnSet(Allocs(f), Session) = Capacity
    BY DEF AllOk
  <2> DEFINE A == SumFunctionOnSet(Allocs(f), Session)
             B == SumFunctionOnSet(Allocs(g), Session)
             u == r.alloc
             v == f[s].alloc
             w == Idle(b)
             z == Idle(c)
  <2>8. /\ A \in Int /\ u \in Nat /\ v \in Nat /\ w \in Int /\ z \in Int
        /\ B = A + u - v /\ w + A = Capacity /\ z + u = w + v
    BY <2>3, <2>4, <2>5, <2>6, <2>7
  <2> HIDE DEF A, B, u, v, w, z
  <2>9. z + B = Capacity
    BY <2>8
  <2>10. QED
    BY <2>9 DEF B, z
<1>6. QED
  BY <1>2, <1>3, <1>4, <1>5 DEF AllOk, g

(* No session has more than the budget.                                     *)
LEMMA AllocFacts ==
  ASSUME NEW b, NEW f, AllOk(b, f)
  PROVE  /\ b.free \in 0..Capacity /\ Idle(b) \in 0..Capacity
         /\ \A s \in Session : f[s].alloc \in 0..Capacity
         /\ \A s \in Session : Live(f[s]) => f[s].alloc \in 1..Capacity
<1>1. /\ \A t \in Session : SessionOk(t, f[t]) /\ Allocs(f)[t] = f[t].alloc /\ f[t].alloc \in Nat
      /\ b.free \in Nat /\ IsFiniteSet(Session) /\ Capacity \in Nat
  BY StreamAssumption DEF AllOk, Allocs, SessionOk, SessionState, QueueOk
<1> DEFINE h == Allocs(f)
<1>2. \A t \in Session : h[t] \in Nat
  BY <1>1
<1>3. IsFiniteSet(b.granted) /\ Cardinality(b.granted) \in Nat
  <2>1. IsFiniteSet(b.granted)
    BY <1>1, FS_Subset DEF AllOk, QueueOk
  <2>2. QED
    BY <2>1, FS_CardinalityType
<1>4. Idle(b) + SumFunctionOnSet(h, Session) = Capacity
  BY DEF AllOk
<1>5. \A t \in Session : h[t] = f[t].alloc
  BY <1>1
<1> HIDE DEF h
<1>6. SumFunctionOnSet(h, Session) \in Nat
  BY <1>1, <1>2, SumNat
<1>7. b.free <= Capacity /\ Idle(b) \in 0..Capacity /\ SumFunctionOnSet(h, Session) <= Capacity
  BY <1>1, <1>3, <1>4, <1>6 DEF Idle
<1>8. ASSUME NEW s \in Session PROVE f[s].alloc <= Capacity
  <2>1. SumFunctionOnSet(h, Session) = h[s] + SumFunctionOnSet(h, Session \ {s})
    BY <1>1, <1>2, SumRemove
  <2>2. SumFunctionOnSet(h, Session \ {s}) \in Nat
    <3>1. IsFiniteSet(Session \ {s}) /\ \A t \in Session \ {s} : h[t] \in Nat
      BY <1>1, <1>2, FS_RemoveElement
    <3>2. QED
      BY <3>1, SumNat
  <2>3. QED
    BY <1>1, <1>2, <1>5, <1>6, <1>7, <2>1, <2>2
<1>9. \A s \in Session : Live(f[s]) => f[s].alloc >= 1
  BY <1>1 DEF SessionOk, Holds
<1>10. QED
  BY <1>1, <1>7, <1>8, <1>9

(* A step of the system is a step of one session.                           *)
LEMMA BecomeIs ==
  ASSUME NEW s \in Session, NEW r, Become(s, r)
  PROVE  session' = Awake(budget, session, budget', s, r)
BY Zenon DEF Become, Awake, Waken

LEMMA BecomeOk ==
  ASSUME Inv, NEW s \in Session, NEW r, Become(s, r), SessionOk(s, r),
         QueueOk(budget'),
         r.ticket <=> s \in Tickets(budget'),
         s \in budget.granted /\ s \in budget'.granted => r.woken,
         Tickets(budget') \ {s} = Tickets(budget) \ {s},
         Idle(budget') + r.alloc = Idle(budget) + session[s].alloc
  PROVE  Inv'
<1>1. PICK b : b = budget
  OBVIOUS
<1>2. PICK c : c = budget'
  OBVIOUS
<1>3. PICK f : f = session
  OBVIOUS
<1>4. PICK g : g = session'
  OBVIOUS
<1>5. AllOk(b, f)
  BY <1>1, <1>3, Zenon DEF Inv
<1>6. g = Awake(b, f, c, s, r)
  <2>1. session' = Awake(budget, session, budget', s, r)
    BY BecomeIs
  <2>2. QED
    BY <1>1, <1>2, <1>3, <1>4, <2>1, Zenon
<1>7. AllOk(c, Awake(b, f, c, s, r))
  <2>1. /\ QueueOk(c)
        /\ r.ticket <=> s \in Tickets(c)
        /\ s \in b.granted /\ s \in c.granted => r.woken
    BY <1>1, <1>2
  <2>2. /\ Tickets(c) \ {s} = Tickets(b) \ {s}
        /\ Idle(c) + r.alloc = Idle(b) + f[s].alloc
    BY <1>1, <1>2, <1>3
  <2>3. QED
    BY <1>5, <2>1, <2>2, StepOk
<1>8. AllOk(budget', session')
  <2>1. AllOk(c, g)
    BY <1>6, <1>7, Zenon
  <2>2. QED
    BY <1>2, <1>4, <2>1, Zenon
<1>9. QED
  BY <1>8, Zenon DEF Inv

(* What is known of the session that takes a step.                          *)
LEMMA MyState ==
  ASSUME Inv, NEW s \in Session
  PROVE  /\ SessionOk(s, session[s]) /\ TicketOk(budget, s, session[s]) /\ QueueOk(budget)
         /\ session[s].alloc \in 0..Capacity /\ budget.free \in 0..Capacity
         /\ Live(session[s]) => session[s].alloc \in 1..Capacity
         /\ Idle(budget) \in 0..Capacity
<1>1. PICK b : b = budget
  OBVIOUS
<1>2. PICK f : f = session
  OBVIOUS
<1>3. AllOk(b, f)
  BY <1>1, <1>2, Zenon DEF Inv
<1>4. /\ SessionOk(s, f[s]) /\ TicketOk(b, s, f[s]) /\ QueueOk(b)
  BY <1>3 DEF AllOk
<1>5. /\ f[s].alloc \in 0..Capacity /\ b.free \in 0..Capacity /\ Idle(b) \in 0..Capacity
      /\ Live(f[s]) => f[s].alloc \in 1..Capacity
  BY <1>3, AllocFacts
<1>6. QED
  BY <1>1, <1>2, <1>4, <1>5

(* The free frames are among those not allocated.                           *)
LEMMA FreeBound ==
  ASSUME NEW b, QueueOk(b), Idle(b) \in 0..Capacity
  PROVE  b.free \in 0..Capacity
<1>1. IsFiniteSet(b.granted) /\ b.free \in Nat /\ Capacity \in Nat
  BY StreamAssumption, FS_Subset DEF QueueOk
<1>2. Cardinality(b.granted) \in Nat
  BY <1>1, FS_CardinalityType
<1>3. QED
  BY <1>1, <1>2 DEF Idle

(* A step that leaves the plans alone leaves them fit.                      *)
LEMMA CoreOk ==
  ASSUME NEW s, NEW r, SessionOk(s, r), r.pc \notin Ended, NEW q \in SessionState,
         q.job = r.job, q.plans = r.plans, q.next = r.next,
         q.terminated = r.terminated, q.out = r.out
  PROVE  /\ PlansOk(q.plans) /\ FrontFirst(q.plans)
         /\ Committed(q.plans) = Committed(r.plans) /\ Committed(r.plans) <= r.alloc
         /\ InOrder(q) /\ Placed(q)
<1>1. Placed(r) /\ PlansFit(r) /\ InOrder(r) /\ r \in SessionState
  BY DEF SessionOk
<1>2. PlansOk(q.plans) /\ FrontFirst(q.plans) /\ InOrder(q)
  BY <1>1 DEF PlansFit, InOrder
<1>3. Placed(q)
  <2>1. PlansOk(r.plans) /\ Len(q.plans) = Len(r.plans)
    BY <1>1 DEF PlansFit
  <2>2. QED
    BY <1>1, <1>2, <2>1, PlacedSame
<1>4. QED
  BY <1>1, <1>2, <1>3 DEF PlansFit

(* Steps after which the session is sure to take another one.               *)
Pending(r) ==
  \/ r.pc \in {"created", "measured", "fresh", "grow", "queue"}
  \/ r.pc = "idle" /\ r.woken
  \/ r.pc = "fill" /\ (r.window > r.alloc => r.ticket \/ r.alloc >= 2)

LEMMA PendingOk ==
  ASSUME NEW s, NEW r, SessionOk(s, r), r.pc \notin Ended, NEW q \in SessionState,
         q.job = r.job, q.plans = r.plans, q.next = r.next,
         q.terminated = r.terminated, q.out = r.out,
         Pending(q), OfJob(s, q), q.alloc >= 1, Committed(r.plans) <= q.alloc
  PROVE  SessionOk(s, q)
<1>1. /\ PlansOk(q.plans) /\ FrontFirst(q.plans)
      /\ Committed(q.plans) = Committed(r.plans)
      /\ InOrder(q) /\ Placed(q)
  BY CoreOk
<1>2. /\ q.pc \notin Ended /\ Live(q) /\ ~ AtRest(q) /\ q.pc \notin {"closing", "sink"}
      /\ q.pc = "fill" => (q.window > q.alloc => q.ticket \/ q.alloc >= 2)
  BY DEF Pending, Live, AtRest, Ended
<1>3. PlansFit(q) /\ Holds(q) /\ Grown(q) /\ Armed(q)
  BY <1>1, <1>2 DEF PlansFit, Holds, Grown, Armed
<1>4. QED
  BY <1>1, <1>2, <1>3 DEF SessionOk

----------------------------------------------------------------------------
(* The steps *)

(* A session starts with one frame, or not at all.                          *)
LEMMA CreateOk ==
  ASSUME Inv, NEW s \in Session, Create(s)
  PROVE  Inv'
<1>1. PICK r : r = session[s]
  OBVIOUS
<1>2. /\ SessionOk(s, r) /\ TicketOk(budget, s, r) /\ QueueOk(budget)
      /\ r \in SessionState /\ Idle(budget) \in Int /\ budget.free \in Nat
      /\ r.pc = "off" /\ OfJob(s, r) /\ Holds(r) /\ InOrder(r) /\ Capacity \in Nat
  BY <1>1, MyState, StreamAssumption DEF SessionOk, Create
<1>3. r.alloc = 0 /\ r.plans = <<>> /\ ~ r.ticket
  BY <1>2 DEF Holds, Live
<1>4. s \notin Tickets(budget)
  BY <1>2, <1>3 DEF TicketOk
<1>5. CASE budget.free >= 1
  <2>1. PICK q : q = [r EXCEPT !.pc = "created", !.alloc = 1]
    OBVIOUS
  <2>2. budget' = Take(budget, 1) /\ Become(s, q)
    BY <1>1, <1>5, <2>1 DEF Create
  <2>3. /\ QueueOk(Take(budget, 1)) /\ Tickets(Take(budget, 1)) = Tickets(budget)
        /\ Take(budget, 1).granted = budget.granted /\ Idle(Take(budget, 1)) = Idle(budget) - 1
    <3>1. 1 \in 0..budget.free
      BY <1>2, <1>5
    <3>2. QED
      BY <1>2, <3>1, TakeFacts
  <2>4. /\ q \in SessionState /\ q.pc = "created" /\ q.alloc = 1 /\ q.job = r.job
        /\ q.plans = r.plans /\ q.next = r.next /\ q.terminated = r.terminated
        /\ q.out = r.out /\ q.ticket = r.ticket /\ q.window = r.window
        /\ q.missing = r.missing /\ q.arrived = r.arrived
    BY <1>2, <2>1 DEF SessionState, Working, Ended
  <2>5. SessionOk(s, q)
    <3>1. OfJob(s, q)
      BY <1>2, <2>4 DEF OfJob
    <3>2. Committed(r.plans) <= q.alloc
      BY <1>3, <2>4, NoPlans
    <3>3. r.pc \notin Ended /\ Pending(q) /\ q.alloc >= 1
      BY <1>2, <2>4 DEF Ended, Pending
    <3>4. QED
      BY <1>2, <2>4, <3>1, <3>2, <3>3, PendingOk
  <2>6. /\ QueueOk(budget') /\ Tickets(budget') = Tickets(budget)
        /\ budget'.granted = budget.granted /\ Idle(budget') = Idle(budget) - 1
    BY <2>2, <2>3
  <2>7. s \notin budget.granted
    BY <1>4 DEF Tickets
  <2>8. Idle(budget') + q.alloc = Idle(budget) + session[s].alloc
    BY <1>1, <1>2, <1>3, <2>4, <2>6
  <2>9. q.ticket <=> s \in Tickets(budget')
    BY <1>3, <1>4, <2>4, <2>6
  <2>10. QED
    BY <2>2, <2>5, <2>6, <2>7, <2>8, <2>9, BecomeOk
<1>6. CASE ~ (budget.free >= 1)
  <2>1. PICK q : q = [r EXCEPT !.pc = "rejected"]
    OBVIOUS
  <2>2. budget' = budget /\ Become(s, q)
    BY <1>1, <1>6, <2>1 DEF Create
  <2>4. /\ q \in SessionState /\ q.pc = "rejected" /\ q.alloc = r.alloc /\ q.job = r.job
        /\ q.next = r.next /\ q.plans = r.plans /\ q.out = r.out /\ q.ticket = r.ticket /\ q.window = r.window
        /\ q.missing = r.missing /\ q.arrived = r.arrived
    BY <1>2, <2>1 DEF SessionState, Working, Ended
  <2>5. SessionOk(s, q)
    <3>1. OfJob(s, q) /\ InOrder(q)
      BY <1>2, <2>4 DEF OfJob, InOrder
    <3>2. PlansFit(q)
      BY <1>2, <2>4 DEF SessionOk, PlansFit
    <3>3. q.pc \in Ended /\ Holds(q) /\ Grown(q) /\ Armed(q) /\ q.pc \notin {"closing", "sink"}
      BY <1>3, <2>4 DEF Ended, Holds, Live, Grown, Armed, AtRest
    <3>4. QED
      BY <2>4, <3>1, <3>2, <3>3 DEF SessionOk
  <2>6. s \notin budget.granted
    BY <1>4 DEF Tickets
  <2>7. q.ticket <=> s \in Tickets(budget')
    BY <1>3, <1>4, <2>2, <2>4
  <2>8. Idle(budget') + q.alloc = Idle(budget) + session[s].alloc
    BY <1>1, <2>2, <2>4
  <2>9. QED
    BY <1>2, <2>2, <2>5, <2>6, <2>7, <2>8, BecomeOk
<1>7. QED
  BY <1>5, <1>6

(* The first look at the free frames.                                       *)
LEMMA MeasureOk ==
  ASSUME Inv, NEW s \in Session, Measure(s)
  PROVE  Inv'
<1>1. PICK r : r = session[s]
  OBVIOUS
<1> DEFINE m == Least(Most(0, r.window - r.alloc), budget.free)
<1>2. /\ SessionOk(s, r) /\ TicketOk(budget, s, r) /\ QueueOk(budget)
      /\ r \in SessionState /\ budget.free \in 0..Capacity /\ Capacity \in Nat
      /\ r.pc = "created" /\ r.pc \notin Ended /\ Live(r) /\ OfJob(s, r) /\ PlansFit(r) /\ Holds(r)
  BY <1>1, MyState, StreamAssumption DEF SessionOk, Measure, Ended, Live
<1>3. PICK q : q = [r EXCEPT !.pc = "measured", !.missing = m]
  OBVIOUS
<1>4. budget' = budget /\ Become(s, q)
  BY <1>1, <1>3 DEF Measure
<1>5. m \in Nat /\ m <= Capacity
  <2>1. r.window \in Nat /\ r.alloc \in Nat
    BY <1>2 DEF SessionState
  <2>2. QED
    BY <1>2, <2>1 DEF Least, Most
<1> HIDE DEF m
<1>6. /\ q \in SessionState /\ q.pc = "measured" /\ q.alloc = r.alloc /\ q.job = r.job
      /\ q.plans = r.plans /\ q.next = r.next /\ q.terminated = r.terminated
      /\ q.out = r.out /\ q.ticket = r.ticket /\ q.window = r.window
      /\ q.missing = m /\ q.arrived = r.arrived /\ q.woken = r.woken
  BY <1>2, <1>3, <1>5 DEF SessionState, Working
<1>7. SessionOk(s, q)
  <2>1. OfJob(s, q)
    BY <1>2, <1>5, <1>6 DEF OfJob
  <2>2. Pending(q) /\ q.alloc >= 1 /\ Committed(r.plans) <= q.alloc
    BY <1>2, <1>6 DEF Pending, Holds, PlansFit
  <2>3. QED
    BY <1>2, <1>6, <2>1, <2>2, PendingOk
<1>8. /\ q.ticket <=> s \in Tickets(budget')
      /\ s \in budget.granted /\ s \in budget'.granted => q.woken
  BY <1>2, <1>4, <1>6 DEF TicketOk
<1>9. Idle(budget') + q.alloc = Idle(budget) + session[s].alloc
  BY <1>1, <1>4, <1>6
<1>10. QED
  BY <1>2, <1>4, <1>7, <1>8, <1>9, BecomeOk

(* The window changes before a poll that is due.                            *)
LEMMA SetWindowOk ==
  ASSUME Inv, NEW s \in Session, NEW window, SetWindow(s, window)
  PROVE  Inv'
<1>1. PICK r : r = session[s]
  OBVIOUS
<1>2. /\ SessionOk(s, r) /\ TicketOk(budget, s, r) /\ QueueOk(budget)
      /\ r \in SessionState /\ Pending(r) /\ r.pc \notin Ended /\ Live(r)
      /\ OfJob(s, r) /\ PlansFit(r) /\ Holds(r) /\ window \in r.job.windows
      /\ r.pc = "fresh" \/ (r.pc = "idle" /\ r.woken)
  BY <1>1, MyState DEF SessionOk, SetWindow, Ended, Pending, Live
<1>3. PICK q : q = [r EXCEPT !.window = window]
  OBVIOUS
<1>4. budget' = budget /\ Become(s, q)
  BY <1>1, <1>3 DEF SetWindow
<1>5. window \in Nat \ {0}
  <2>1. r.job \in AnyJob
    BY <1>2 DEF SessionState
  <2>2. QED
    BY <1>2, <2>1, CursorFacts
<1>6. /\ q \in SessionState /\ q.pc = r.pc /\ q.alloc = r.alloc /\ q.job = r.job
      /\ q.plans = r.plans /\ q.next = r.next /\ q.terminated = r.terminated
      /\ q.out = r.out /\ q.ticket = r.ticket /\ q.window = window
      /\ q.missing = r.missing /\ q.arrived = r.arrived /\ q.woken = r.woken
  BY <1>2, <1>3, <1>5 DEF SessionState
<1>7. SessionOk(s, q)
  <2>1. OfJob(s, q)
    BY <1>2, <1>6 DEF OfJob
  <2>2. Pending(q) /\ q.alloc >= 1 /\ Committed(r.plans) <= q.alloc
    BY <1>2, <1>6 DEF Pending, Holds, PlansFit
  <2>3. QED
    BY <1>2, <1>6, <2>1, <2>2, PendingOk
<1>8. /\ q.ticket <=> s \in Tickets(budget')
      /\ s \in budget.granted /\ s \in budget'.granted => q.woken
  BY <1>2, <1>4, <1>6 DEF TicketOk
<1>9. Idle(budget') + q.alloc = Idle(budget) + session[s].alloc
  BY <1>1, <1>4, <1>6
<1>10. QED
  BY <1>2, <1>4, <1>7, <1>8, <1>9, BecomeOk

(* The ticket is dropped, collected or kept, and the free frames are read.  *)
LEMMA RefreshOk ==
  ASSUME Inv, NEW s \in Session, Refresh(s)
  PROVE  Inv'
<1>1. PICK r : r = session[s]
  OBVIOUS
<1> DEFINE enough == r.window <= r.alloc
           served == ~ enough /\ r.ticket /\ s \in budget.granted
           alloc == IF served THEN r.alloc + 1 ELSE r.alloc
           ticket == r.ticket /\ ~ enough /\ ~ served
<1>2. /\ SessionOk(s, r) /\ TicketOk(budget, s, r) /\ QueueOk(budget)
      /\ r \in SessionState /\ Idle(budget) \in 0..Capacity /\ Capacity \in Nat
      /\ r.pc \notin Ended /\ Live(r) /\ OfJob(s, r) /\ PlansFit(r) /\ Holds(r)
  BY <1>1, MyState, StreamAssumption DEF SessionOk, Refresh, Ended, Live
<1>3. /\ r.window \in Nat /\ r.alloc \in Nat /\ r.ticket \in BOOLEAN
      /\ Committed(r.plans) \in Nat /\ Committed(r.plans) <= r.alloc /\ r.alloc >= 1
  BY <1>2, PlanSums DEF SessionState, PlansFit, Holds
<1>4. PICK m : m = Least(Most(0, r.window - alloc), budget'.free)
  OBVIOUS
<1>5. PICK t : t = ticket
  OBVIOUS
<1>6. PICK a : a = alloc
  OBVIOUS
<1>7. PICK q : q = [r EXCEPT !.pc = "grow", !.woken = FALSE, !.alloc = a,
                             !.ticket = t, !.missing = m]
  OBVIOUS
<1>8. /\ budget' = (CASE enough /\ r.ticket -> Withdraw(budget, s)
                      [] served             -> Collect(budget, s)
                      [] OTHER              -> budget)
      /\ Become(s, q)
  <2>1. q = [r EXCEPT !.pc = "grow", !.woken = FALSE, !.alloc = alloc,
                      !.ticket = @ /\ ~ enough /\ ~ served,
                      !.missing = Least(Most(0, r.window - alloc), budget'.free)]
    BY <1>4, <1>5, <1>6, <1>7
  <2>2. QED
    BY <1>1, <2>1, Zenon DEF Refresh
<1>a. enough \in BOOLEAN /\ served \in BOOLEAN
  OBVIOUS
<1>9. /\ t \in BOOLEAN /\ a \in Nat /\ a >= r.alloc
      /\ (served => a = r.alloc + 1 /\ t = FALSE)
      /\ (~ served => a = r.alloc)
      /\ (enough => t = FALSE)
      /\ (~ enough /\ ~ served => t = r.ticket)
  <2>1. /\ t \in BOOLEAN /\ (served => t = FALSE) /\ (enough => t = FALSE)
        /\ (~ enough /\ ~ served => t = r.ticket)
    <3>1. t = (r.ticket /\ ~ enough /\ ~ served)
      BY <1>5, Zenon
    <3> HIDE DEF enough, served
    <3>2. QED
      BY <1>3, <1>a, <3>1
  <2>2. a = IF served THEN r.alloc + 1 ELSE r.alloc
    BY <1>6, Zenon
  <2> HIDE DEF served, enough
  <2>3. QED
    BY <1>3, <2>1, <2>2
<1>b. ~ (enough /\ served)
  BY Zenon
<1> HIDE DEF served, enough, alloc, ticket
<1>10. /\ QueueOk(budget')
       /\ t <=> s \in Tickets(budget')
       /\ ~ (s \in budget.granted /\ s \in budget'.granted)
       /\ Tickets(budget') \ {s} = Tickets(budget) \ {s}
       /\ Idle(budget') + a = Idle(budget) + r.alloc
       /\ Idle(budget') \in 0..Capacity
  <2>1. CASE enough /\ r.ticket
    <3>1. budget' = Withdraw(budget, s)
      <4>1. enough /\ r.ticket /\ ~ served
        BY <1>b, <2>1
      <4>2. QED
        BY <1>8, <4>1
    <3>2. /\ QueueOk(Withdraw(budget, s)) /\ Tickets(Withdraw(budget, s)) = Tickets(budget) \ {s}
          /\ Idle(Withdraw(budget, s)) = Idle(budget)
      BY <1>2, WithdrawFacts
    <3>3. ~ served
      BY <2>1 DEF served
    <3>4. QueueOk(budget') /\ Tickets(budget') = Tickets(budget) \ {s}
          /\ Idle(budget') = Idle(budget)
      BY <3>1, <3>2
    <3>5. s \notin budget'.granted
      BY <3>4 DEF Tickets
    <3>6. QED
      BY <1>2, <1>9, <2>1, <3>3, <3>4, <3>5
  <2>2. CASE served
    <3>1. /\ budget' = Collect(budget, s) /\ s \in budget.granted
      BY <1>8, <2>2 DEF served
    <3>2. /\ QueueOk(Collect(budget, s)) /\ Tickets(Collect(budget, s)) = Tickets(budget) \ {s}
          /\ Collect(budget, s).granted = budget.granted \ {s}
          /\ Idle(Collect(budget, s)) = Idle(budget) - 1
      BY <1>2, <3>1, CollectFacts
    <3>3. /\ QueueOk(budget') /\ Tickets(budget') = Tickets(budget) \ {s}
          /\ s \notin budget'.granted /\ Idle(budget') = Idle(budget) - 1
      BY <3>1, <3>2
    <3>4. Idle(budget') \in 0..Capacity
      <4>1. budget'.free \in Nat /\ Cardinality(budget'.granted) \in Nat
        BY <3>3, StreamAssumption, FS_Subset, FS_CardinalityType DEF QueueOk
      <4>2. Idle(budget') \in Nat
        BY <4>1 DEF Idle
      <4>3. QED
        BY <1>2, <3>3, <4>2
    <3>5. QED
      BY <1>2, <1>3, <1>9, <2>2, <3>3, <3>4
  <2>3. CASE ~ (enough /\ r.ticket) /\ ~ served
    <3>1. budget' = budget
      BY <1>8, <2>3
    <3>2. s \notin budget.granted
      <4>1. s \in budget.granted => r.ticket
        BY <1>2 DEF TicketOk, Tickets
      <4>2. QED
        BY <2>3, <4>1 DEF served
    <3>3. t <=> s \in Tickets(budget)
      BY <1>2, <1>3, <1>9, <2>3 DEF TicketOk
    <3>4. QED
      BY <1>2, <1>9, <2>3, <3>1, <3>2, <3>3
  <2>4. QED
    BY <2>1, <2>2, <2>3
<1>11. m \in Nat /\ m <= Capacity
  <2>1. budget'.free \in 0..Capacity
    <3>1. PICK c : c = budget'
      OBVIOUS
    <3>2. QueueOk(c) /\ Idle(c) \in 0..Capacity
      BY <1>10, <3>1
    <3>3. c.free \in 0..Capacity
      BY <3>2, FreeBound
    <3>4. QED
      BY <3>1, <3>3
  <2>2. m = Least(Most(0, r.window - a), budget'.free)
    BY <1>4, <1>6
  <2>3. QED
    BY <1>2, <1>3, <1>9, <2>1, <2>2 DEF Least, Most
<1>12. /\ q \in SessionState /\ q.pc = "grow" /\ q.alloc = a /\ q.job = r.job
       /\ q.plans = r.plans /\ q.next = r.next /\ q.terminated = r.terminated
       /\ q.out = r.out /\ q.ticket = t /\ q.window = r.window
       /\ q.missing = m /\ q.arrived = r.arrived
  BY <1>2, <1>7, <1>9, <1>11 DEF SessionState, Working
<1>13. SessionOk(s, q)
  <2>1. OfJob(s, q)
    BY <1>2, <1>11, <1>12 DEF OfJob
  <2>2. Pending(q) /\ q.alloc >= 1 /\ Committed(r.plans) <= q.alloc
    BY <1>3, <1>9, <1>12 DEF Pending
  <2>3. QED
    BY <1>2, <1>12, <2>1, <2>2, PendingOk
<1>14. /\ q.ticket <=> s \in Tickets(budget')
       /\ Idle(budget') + q.alloc = Idle(budget) + session[s].alloc
  BY <1>1, <1>10, <1>12
<1>15. QED
  BY <1>8, <1>10, <1>13, <1>14, BecomeOk

(* The frames that were missing are taken, if they are still free.          *)
LEMMA GrowOk ==
  ASSUME Inv, NEW s \in Session, Grow(s)
  PROVE  Inv'
<1>1. PICK r : r = session[s]
  OBVIOUS
<1> DEFINE n0 == IF r.missing <= budget.free THEN r.missing ELSE 0
<1>2. /\ SessionOk(s, r) /\ TicketOk(budget, s, r) /\ QueueOk(budget)
      /\ r \in SessionState /\ Idle(budget) \in 0..Capacity /\ Capacity \in Nat
      /\ budget.free \in 0..Capacity /\ r.pc \in {"measured", "grow"}
      /\ r.pc \notin Ended /\ Live(r) /\ OfJob(s, r) /\ PlansFit(r) /\ Holds(r)
  BY <1>1, MyState, StreamAssumption DEF SessionOk, Grow, Ended, Live
<1>3. /\ r.alloc \in Nat /\ r.alloc >= 1 /\ r.missing \in Nat
      /\ Committed(r.plans) \in Nat /\ Committed(r.plans) <= r.alloc
  BY <1>2, PlanSums DEF SessionState, PlansFit, Holds
<1>4. PICK n : n = n0
  OBVIOUS
<1>5. n \in Nat /\ n <= budget.free
  BY <1>2, <1>3, <1>4
<1>6. PICK pc : pc = IF r.pc = "grow" THEN "queue" ELSE "fresh"
  OBVIOUS
<1>7. PICK a : a = r.alloc + n
  OBVIOUS
<1>8. PICK q : q = [r EXCEPT !.pc = pc, !.alloc = a, !.missing = 0]
  OBVIOUS
<1>9. budget' = Take(budget, n) /\ Become(s, q)
  <2>1. q = [r EXCEPT !.pc = IF @ = "grow" THEN "queue" ELSE "fresh",
                      !.alloc = @ + n, !.missing = 0]
    BY <1>6, <1>7, <1>8
  <2>2. QED
    BY <1>1, <1>4, <2>1, Zenon DEF Grow
<1>10. a \in Nat /\ a >= r.alloc /\ pc \in {"queue", "fresh"}
  BY <1>3, <1>5, <1>6, <1>7
<1>11. /\ q \in SessionState /\ q.pc = pc /\ q.alloc = a /\ q.job = r.job
       /\ q.plans = r.plans /\ q.next = r.next /\ q.terminated = r.terminated
       /\ q.out = r.out /\ q.ticket = r.ticket /\ q.window = r.window
       /\ q.missing = 0 /\ q.arrived = r.arrived /\ q.woken = r.woken
  BY <1>2, <1>8, <1>10 DEF SessionState, Working
<1>12. SessionOk(s, q)
  <2>1. OfJob(s, q)
    BY <1>2, <1>11 DEF OfJob
  <2>2. Pending(q) /\ q.alloc >= 1 /\ Committed(r.plans) <= q.alloc
    BY <1>3, <1>10, <1>11 DEF Pending
  <2>3. QED
    BY <1>2, <1>11, <2>1, <2>2, PendingOk
<1>13. /\ QueueOk(Take(budget, n)) /\ Tickets(Take(budget, n)) = Tickets(budget)
       /\ Take(budget, n).granted = budget.granted
       /\ Idle(Take(budget, n)) = Idle(budget) - n
  BY <1>2, <1>5, TakeFacts
<1>14. /\ QueueOk(budget') /\ Tickets(budget') = Tickets(budget)
       /\ budget'.granted = budget.granted /\ Idle(budget') = Idle(budget) - n
  BY <1>9, <1>13
<1>15. /\ q.ticket <=> s \in Tickets(budget')
       /\ s \in budget.granted /\ s \in budget'.granted => q.woken
       /\ Tickets(budget') \ {s} = Tickets(budget) \ {s}
  <2>1. s \in budget.granted => r.woken
    BY <1>2 DEF TicketOk
  <2>2. QED
    BY <1>2, <1>11, <1>14, <2>1 DEF TicketOk
<1>16. Idle(budget') + q.alloc = Idle(budget) + session[s].alloc
  BY <1>1, <1>2, <1>3, <1>5, <1>7, <1>11, <1>14
<1>17. QED
  BY <1>9, <1>12, <1>14, <1>15, <1>16, BecomeOk

(* A session that is short of frames takes one or waits in line for it; one *)
(* that has too many gives some back.                                       *)
LEMMA QueueStepOk ==
  ASSUME Inv, NEW s \in Session, Queue(s)
  PROVE  Inv'
<1>1. PICK r : r = session[s]
  OBVIOUS
<1> DEFINE short == r.window > r.alloc /\ ~ r.ticket
<1>2. /\ SessionOk(s, r) /\ TicketOk(budget, s, r) /\ QueueOk(budget)
      /\ r \in SessionState /\ Idle(budget) \in 0..Capacity /\ Capacity \in Nat
      /\ budget.free \in 0..Capacity /\ r.pc = "queue" /\ r.alloc \in 1..Capacity
      /\ r.pc \notin Ended /\ Live(r) /\ OfJob(s, r) /\ PlansFit(r) /\ Holds(r)
  BY <1>1, MyState, StreamAssumption DEF SessionOk, Queue, Ended, Live
<1>3. /\ r.alloc \in Nat /\ r.alloc >= 1 /\ r.window \in Nat
      /\ Committed(r.plans) \in Nat /\ Committed(r.plans) <= r.alloc
  BY <1>2, PlanSums DEF SessionState, PlansFit, Holds
<1>4. s \in budget.granted => r.woken
  BY <1>2 DEF TicketOk
<1>5. CASE short /\ budget.free >= 1
  <2>1. PICK a : a = r.alloc + 1
    OBVIOUS
  <2>2. PICK q : q = [r EXCEPT !.pc = "fill", !.alloc = a]
    OBVIOUS
  <2>3. budget' = Take(budget, 1) /\ Become(s, q)
    <3>1. q = [r EXCEPT !.pc = "fill", !.alloc = @ + 1]
      BY <2>1, <2>2
    <3>2. QED
      BY <1>1, <1>5, <3>1 DEF Queue
  <2>4. a \in Nat /\ a >= 2
    BY <1>3, <2>1
  <2>5. /\ q \in SessionState /\ q.pc = "fill" /\ q.alloc = a /\ q.job = r.job
        /\ q.plans = r.plans /\ q.next = r.next /\ q.terminated = r.terminated
        /\ q.out = r.out /\ q.ticket = r.ticket /\ q.window = r.window
        /\ q.missing = r.missing /\ q.arrived = r.arrived /\ q.woken = r.woken
    BY <1>2, <2>2, <2>4 DEF SessionState, Working
  <2>6. SessionOk(s, q)
    <3>1. OfJob(s, q)
      BY <1>2, <2>5 DEF OfJob
    <3>2. Pending(q) /\ q.alloc >= 1 /\ Committed(r.plans) <= q.alloc
      BY <1>3, <2>1, <2>4, <2>5 DEF Pending
    <3>3. QED
      BY <1>2, <2>5, <3>1, <3>2, PendingOk
  <2>7. /\ QueueOk(Take(budget, 1)) /\ Tickets(Take(budget, 1)) = Tickets(budget)
        /\ Take(budget, 1).granted = budget.granted
        /\ Idle(Take(budget, 1)) = Idle(budget) - 1
    <3>1. 1 \in Nat /\ 1 <= budget.free
      BY <1>5
    <3>2. QED
      BY <1>2, <3>1, TakeFacts
  <2>8. /\ QueueOk(budget') /\ Tickets(budget') = Tickets(budget)
        /\ budget'.granted = budget.granted /\ Idle(budget') = Idle(budget) - 1
    BY <2>3, <2>7
  <2>9. /\ q.ticket <=> s \in Tickets(budget')
        /\ s \in budget.granted /\ s \in budget'.granted => q.woken
    BY <1>2, <1>4, <2>5, <2>8 DEF TicketOk
  <2>10. Idle(budget') + q.alloc = Idle(budget) + session[s].alloc
    BY <1>1, <1>2, <1>3, <2>1, <2>5, <2>8
  <2>11. QED
    BY <2>3, <2>6, <2>8, <2>9, <2>10, BecomeOk
<1>6. CASE short /\ budget.free = 0
  <2>1. PICK q : q = [r EXCEPT !.pc = "fill", !.ticket = TRUE]
    OBVIOUS
  <2>2. budget' = Enqueue(budget, s) /\ Become(s, q)
    BY <1>1, <1>6, <2>1 DEF Queue
  <2>3. /\ q \in SessionState /\ q.pc = "fill" /\ q.alloc = r.alloc /\ q.job = r.job
        /\ q.plans = r.plans /\ q.next = r.next /\ q.terminated = r.terminated
        /\ q.out = r.out /\ q.ticket = TRUE /\ q.window = r.window
        /\ q.missing = r.missing /\ q.arrived = r.arrived /\ q.woken = r.woken
    BY <1>2, <2>1 DEF SessionState, Working
  <2>4. SessionOk(s, q)
    <3>1. OfJob(s, q)
      BY <1>2, <2>3 DEF OfJob
    <3>2. Pending(q) /\ q.alloc >= 1 /\ Committed(r.plans) <= q.alloc
      BY <1>3, <2>3 DEF Pending
    <3>3. QED
      BY <1>2, <2>3, <3>1, <3>2, PendingOk
  <2>5. s \notin Tickets(budget)
    BY <1>2, <1>6 DEF TicketOk
  <2>6. /\ QueueOk(Enqueue(budget, s)) /\ Tickets(Enqueue(budget, s)) = Tickets(budget) \cup {s}
        /\ Enqueue(budget, s).granted = budget.granted
        /\ Idle(Enqueue(budget, s)) = Idle(budget)
    BY <1>2, <2>5, EnqueueFacts
  <2>7. /\ QueueOk(budget') /\ Tickets(budget') = Tickets(budget) \cup {s}
        /\ budget'.granted = budget.granted /\ Idle(budget') = Idle(budget)
    BY <2>2, <2>6
  <2>8. /\ q.ticket <=> s \in Tickets(budget')
        /\ s \in budget.granted /\ s \in budget'.granted => q.woken
        /\ Tickets(budget') \ {s} = Tickets(budget) \ {s}
    BY <1>4, <2>3, <2>7
  <2>9. Idle(budget') + q.alloc = Idle(budget) + session[s].alloc
    BY <1>1, <2>3, <2>7
  <2>10. QED
    BY <2>2, <2>4, <2>7, <2>8, <2>9, BecomeOk
<1>7. CASE ~ short
  <2>1. PICK k : k = Keep(r, r.plans)
    OBVIOUS
  <2>2. PICK a : a = Least(r.alloc, k)
    OBVIOUS
  <2>3. PICK n : n = Most(0, r.alloc - k)
    OBVIOUS
  <2>4. PICK q : q = [r EXCEPT !.pc = "fill", !.alloc = a]
    OBVIOUS
  <2>5. budget' = Give(budget, n) /\ Become(s, q)
    <3>1. q = [r EXCEPT !.pc = "fill", !.alloc = Least(@, Keep(r, r.plans))]
      BY <2>1, <2>2, <2>4
    <3>2. ~ (short /\ budget.free >= 1) /\ ~ (short /\ budget.free = 0)
      BY <1>7
    <3>3. /\ budget' = Give(budget, Most(0, r.alloc - Keep(r, r.plans)))
          /\ Become(s, [r EXCEPT !.pc = "fill", !.alloc = Least(@, Keep(r, r.plans))])
      BY <1>1, <3>2, Zenon DEF Queue
    <3>4. QED
      BY <2>1, <2>3, <3>1, <3>3
  <2>6. /\ k \in Nat /\ k >= Committed(r.plans) /\ k >= Share(r) /\ Share(r) \in Nat
        /\ Share(r) >= 1
    <3>1. r.alloc \in 0..Capacity
      BY <1>2
    <3>2. Share(r) \in Nat /\ Share(r) >= 1
      BY <1>2, <1>3, <3>1, ShareFacts
    <3>3. QED
      BY <1>3, <2>1, <3>2 DEF Keep, Most
  <2>7. /\ a \in Nat /\ a >= 1 /\ a >= Committed(r.plans) /\ a <= r.alloc
        /\ n \in Nat /\ a + n = r.alloc
        /\ (r.window > a => r.ticket)
    <3>1. r.window > a => r.window > r.alloc
      BY <1>3, <2>2, <2>6 DEF Least, Share
    <3>2. r.window > a => r.ticket
      BY <1>7, <3>1
    <3>3. QED
      BY <1>3, <2>2, <2>3, <2>6, <3>2 DEF Least, Most
  <2>8. /\ q \in SessionState /\ q.pc = "fill" /\ q.alloc = a /\ q.job = r.job
        /\ q.plans = r.plans /\ q.next = r.next /\ q.terminated = r.terminated
        /\ q.out = r.out /\ q.ticket = r.ticket /\ q.window = r.window
        /\ q.missing = r.missing /\ q.arrived = r.arrived /\ q.woken = r.woken
    BY <1>2, <2>4, <2>7 DEF SessionState, Working
  <2>9. SessionOk(s, q)
    <3>1. OfJob(s, q)
      BY <1>2, <2>8 DEF OfJob
    <3>2. Pending(q) /\ q.alloc >= 1 /\ Committed(r.plans) <= q.alloc
      BY <2>7, <2>8 DEF Pending
    <3>3. QED
      BY <1>2, <2>8, <3>1, <3>2, PendingOk
  <2>10. /\ QueueOk(Give(budget, n)) /\ Tickets(Give(budget, n)) = Tickets(budget)
         /\ Idle(Give(budget, n)) = Idle(budget) + n
    BY <1>2, <2>7, GiveFacts, StreamAssumption
  <2>11. /\ QueueOk(budget') /\ Tickets(budget') = Tickets(budget)
         /\ Idle(budget') = Idle(budget) + n
    BY <2>5, <2>10
  <2>12. /\ q.ticket <=> s \in Tickets(budget')
         /\ s \in budget.granted /\ s \in budget'.granted => q.woken
    BY <1>2, <1>4, <2>8, <2>11 DEF TicketOk
  <2>13. Idle(budget') + q.alloc = Idle(budget) + session[s].alloc
    BY <1>1, <1>2, <1>3, <2>7, <2>8, <2>11
  <2>14. QED
    BY <2>5, <2>9, <2>11, <2>12, <2>13, BecomeOk
<1>8. QED
  BY <1>2, <1>5, <1>6, <1>7

(* Whoever leaves gives everything back.                                    *)
LEMMA LeaveOk ==
  ASSUME Inv, NEW s \in Session, NEW pc \in {"done", "failed"}, Leave(s, pc)
  PROVE  Inv'
<1>1. PICK r : r = session[s]
  OBVIOUS
<1>2. /\ SessionOk(s, r) /\ TicketOk(budget, s, r) /\ QueueOk(budget)
      /\ r \in SessionState /\ Idle(budget) \in 0..Capacity
      /\ OfJob(s, r) /\ InOrder(r) /\ r.alloc \in Nat
  BY <1>1, MyState DEF SessionOk, SessionState
<1>3. PICK q : q = [r EXCEPT !.pc = pc, !.alloc = 0, !.ticket = FALSE,
                             !.plans = <<>>, !.woken = FALSE]
  OBVIOUS
<1>4. budget' = Give(Withdraw(budget, s), r.alloc) /\ Become(s, q)
  BY <1>1, <1>3 DEF Leave
<1>5. /\ q \in SessionState /\ q.pc = pc /\ q.alloc = 0 /\ q.job = r.job
      /\ q.plans = <<>> /\ q.out = r.out /\ q.ticket = FALSE /\ q.window = r.window
      /\ q.missing = r.missing /\ q.arrived = r.arrived /\ q.woken = FALSE
      /\ q.next = r.next
  <2>1. PICK none : none = <<>>
    OBVIOUS
  <2>2. none \in Seq(PlanType)
    BY <2>1, NoPlans DEF PlansOk
  <2>3. q = [r EXCEPT !.pc = pc, !.alloc = 0, !.ticket = FALSE,
                      !.plans = none, !.woken = FALSE]
    BY <1>3, <2>1
  <2>4. 0 \in Nat /\ pc \in Working \cup Ended \cup {"off", "created", "measured", "closing"}
    BY DEF Ended
  <2>5. q.plans = none
    BY <1>2, <2>3 DEF SessionState
  <2>6. QED
    BY <1>2, <2>1, <2>2, <2>3, <2>4, <2>5 DEF SessionState
<1>6. SessionOk(s, q)
  <2>1. OfJob(s, q) /\ InOrder(q)
    BY <1>2, <1>5 DEF OfJob, InOrder
  <2>2. PlansFit(q)
    <3>1. FrontFirst(<<>>)
      BY DEF FrontFirst
    <3>2. QED
      BY <1>5, <3>1, NoPlans DEF PlansFit
  <2>3. q.pc \in Ended /\ Holds(q) /\ Grown(q) /\ Armed(q) /\ q.pc \notin {"closing", "sink"}
    BY <1>5 DEF Ended, Holds, Live, Grown, Armed, AtRest
  <2>4. QED
    BY <1>5, <2>1, <2>2, <2>3 DEF SessionOk
<1>7. /\ QueueOk(Withdraw(budget, s)) /\ Tickets(Withdraw(budget, s)) = Tickets(budget) \ {s}
      /\ Idle(Withdraw(budget, s)) = Idle(budget)
  BY <1>2, WithdrawFacts
<1>8. PICK c : c = Withdraw(budget, s)
  OBVIOUS
<1>9. QueueOk(c) /\ Tickets(c) = Tickets(budget) \ {s} /\ Idle(c) = Idle(budget)
  BY <1>7, <1>8
<1>10. /\ QueueOk(Give(c, r.alloc)) /\ Tickets(Give(c, r.alloc)) = Tickets(c)
       /\ Idle(Give(c, r.alloc)) = Idle(c) + r.alloc
  BY <1>2, <1>9, GiveFacts, StreamAssumption
<1>11. /\ QueueOk(budget') /\ Tickets(budget') = Tickets(budget) \ {s}
       /\ Idle(budget') = Idle(budget) + r.alloc
  BY <1>4, <1>8, <1>9, <1>10
<1>12. /\ s \notin Tickets(budget') /\ s \notin budget'.granted
       /\ Tickets(budget') \ {s} = Tickets(budget) \ {s}
  BY <1>11 DEF Tickets
<1>13. Idle(budget') + q.alloc = Idle(budget) + session[s].alloc
  BY <1>1, <1>2, <1>5, <1>11
<1>14. QED
  BY <1>4, <1>5, <1>6, <1>11, <1>12, <1>13, BecomeOk

(* poll_fill: the session fails, or is left with its frames planned.        *)
FillEnds(r) ==
  \/ SourceFails(r)
  \/ \E i \in DOMAIN Opened(r).plans :
       Opened(r).plans[i].url = "failed" \/ ItemFails(Opened(r).plans[i])

FillMoves(r) ==
  [Filled(r) EXCEPT !.pc = IF Exhausted(Filled(r)) THEN "closing" ELSE "sink",
                    !.woken = IF Exhausted(Filled(r)) THEN r.woken ELSE @]

LEMMA FillIs ==
  ASSUME NEW s \in Session, Fill(s)
  PROVE  /\ session[s].pc = "fill"
         /\ FillEnds(session[s]) => Leave(s, "failed")
         /\ ~ FillEnds(session[s]) => budget' = budget /\ Become(s, FillMoves(session[s]))
<1>1. /\ session[s].pc = "fill"
      /\ IF FillEnds(session[s])
         THEN Leave(s, "failed")
         ELSE UNCHANGED budget /\ Become(s, FillMoves(session[s]))
  BY Zenon DEF Fill, FillEnds, FillMoves, Planned, Opened, Filled
<1>2. QED
  BY <1>1

LEMMA FillOk ==
  ASSUME Inv, NEW s \in Session, Fill(s)
  PROVE  Inv'
<1>1. PICK r : r = session[s]
  OBVIOUS
<1>2. /\ SessionOk(s, r) /\ TicketOk(budget, s, r) /\ QueueOk(budget)
      /\ r \in SessionState /\ r.alloc \in 1..Capacity
      /\ r.pc = "fill" /\ OfJob(s, r) /\ PlansFit(r) /\ InOrder(r) /\ Placed(r) /\ Grown(r)
  <2>1. r.pc = "fill"
    BY <1>1, FillIs
  <2>2. QED
    BY <1>1, <2>1, MyState DEF SessionOk, Ended, Live
<1>3. CASE FillEnds(r)
  <2>1. Leave(s, "failed")
    BY <1>1, <1>3, FillIs
  <2>2. "failed" \in {"done", "failed"}
    OBVIOUS
  <2>3. QED
    BY <2>1, <2>2, LeaveOk
<1>4. CASE ~ FillEnds(r)
  <2>1. PICK q : q = Filled(r)
    OBVIOUS
  <2> DEFINE over == Exhausted(q)
  <2>2. PICK pc : pc = IF over THEN "closing" ELSE "sink"
    OBVIOUS
  <2>3. PICK w : w = IF over THEN r.woken ELSE q.woken
    OBVIOUS
  <2>4. PICK x : x = [q EXCEPT !.pc = pc, !.woken = w]
    OBVIOUS
  <2>5. budget' = budget /\ Become(s, x)
    <3>1. x = FillMoves(r)
      <4>1. x = [q EXCEPT !.pc = IF Exhausted(q) THEN "closing" ELSE "sink",
                          !.woken = IF Exhausted(q) THEN r.woken ELSE @]
        BY <2>2, <2>3, <2>4
      <4>2. QED
        BY <2>1, <4>1, Zenon DEF FillMoves
    <3>2. budget' = budget /\ Become(s, FillMoves(session[s]))
      BY <1>1, <1>4, FillIs
    <3>3. QED
      BY <1>1, <3>1, <3>2
  <2>6. /\ q \in SessionState /\ Refilled(r, q) /\ (r.woken => q.woken)
        /\ PlansOk(q.plans) /\ Placed(q) /\ FrontFirst(q.plans)
        /\ Committed(q.plans) <= r.alloc /\ Dealt(q)
        /\ ~ q.woken => Quiet(q.plans)
        /\ ~ over => Waits(q)
    <3>1. /\ ~ SourceFails(r)
          /\ \A i \in DOMAIN Opened(r).plans :
               Opened(r).plans[i].url # "failed" /\ ~ ItemFails(Opened(r).plans[i])
      BY <1>4, Zenon DEF FillEnds
    <3>2. PlansOk(r.plans) /\ FrontFirst(r.plans) /\ Committed(r.plans) <= r.alloc
      BY <1>2 DEF PlansFit
    <3>3. LET z == Filled(r) IN
          /\ z \in SessionState /\ Refilled(r, z) /\ (r.woken => z.woken)
          /\ PlansOk(z.plans) /\ Placed(z) /\ FrontFirst(z.plans)
          /\ Committed(z.plans) <= r.alloc /\ Dealt(z)
          /\ ~ z.woken => Quiet(z.plans)
          /\ ~ Exhausted(z) => Waits(z)
      BY <1>2, <3>1, <3>2, FilledFacts
    <3>4. QED
      BY <2>1, <3>3, Zenon
  <2>7. /\ q.job = r.job /\ q.window = r.window /\ q.alloc = r.alloc
        /\ q.ticket = r.ticket /\ q.missing = r.missing /\ q.arrived = r.arrived
        /\ q.out = r.out
    BY <1>2, <2>6, RefilledFields
  <2>8. over \in BOOLEAN
    BY Zenon DEF Exhausted
  <2> HIDE DEF over
  <2>9. /\ (over => pc = "closing" /\ w = r.woken) /\ (~ over => pc = "sink" /\ w = q.woken)
        /\ w \in BOOLEAN
    <3>1. q.woken \in BOOLEAN /\ r.woken \in BOOLEAN
      BY <1>2, <2>6 DEF SessionState
    <3>2. QED
      BY <2>2, <2>3, <2>8, <3>1
  <2>10. /\ x \in SessionState /\ x.pc = pc /\ x.woken = w /\ x.alloc = q.alloc
         /\ x.job = q.job /\ x.plans = q.plans /\ x.next = q.next
         /\ x.terminated = q.terminated /\ x.listening = q.listening /\ x.out = q.out
         /\ x.ticket = q.ticket /\ x.window = q.window /\ x.missing = q.missing
         /\ x.arrived = q.arrived
    <3>1. pc \in Working \cup Ended \cup {"off", "created", "measured", "closing"}
      BY <2>8, <2>9 DEF Working
    <3>2. QED
      BY <2>4, <2>6, <2>9, <3>1 DEF SessionState
  <2>11. /\ \A n : Cursor(x, n) = Cursor(q, n)
         /\ \A c : Useful(x, c) = Useful(q, c)
         /\ Share(x) = Share(q) /\ Target(x) = Target(q)
    BY <2>10 DEF Cursor, Useful, Share, Target
  <2>12. (Wants(x, 0) <=> Wants(q, 0)) /\ (Exhausted(x) <=> over) /\ (Exhausted(q) <=> over)
    BY <2>10, <2>11 DEF Wants, Exhausted, over
  <2>13. Placed(x)
    BY <2>6, <2>10, PlacedSame
  <2>14. /\ x.pc \in {"closing", "sink"} /\ x.pc \notin Ended /\ Live(x)
         /\ (AtRest(x) => ~ over /\ ~ q.woken)
    BY <2>8, <2>9, <2>10 DEF Ended, Live, AtRest
  <2>15. SessionOk(s, x)
    <3>1. OfJob(s, x) /\ InOrder(x)
      <4>1. x.next <= Len(x.job.objects)
        <5>1. x.job \in AnyJob
          BY <2>10 DEF SessionState
        <5>2. QED
          BY <2>13, <5>1, CursorFacts DEF Placed
      <4>2. QED
        BY <1>2, <2>7, <2>10, <4>1 DEF OfJob, InOrder
    <3>2. PlansFit(x) /\ Holds(x)
      BY <1>2, <2>6, <2>7, <2>10, <2>14 DEF PlansFit, Holds
    <3>3. Grown(x)
      BY <1>2, <2>7, <2>10 DEF Grown
    <3>4. Armed(x)
      <4>1. AtRest(x) => Quiet(x.plans) /\ Dealt(x)
        BY <2>6, <2>10, <2>11, <2>14 DEF Dealt
      <4>2. AtRest(x) => Waits(x)
        BY <2>6, <2>10, <2>12, <2>14 DEF Waits
      <4>3. x.pc # "idle"
        BY <2>14
      <4>4. QED
        BY <4>1, <4>2, <4>3 DEF Armed
    <3>5. (x.pc = "closing" => Exhausted(x)) /\ (x.pc = "sink" => ~ Exhausted(x))
      BY <2>8, <2>9, <2>10, <2>12
    <3>6. QED
      BY <2>10, <2>13, <3>1, <3>2, <3>3, <3>4, <3>5 DEF SessionOk
  <2>16. /\ x.ticket <=> s \in Tickets(budget')
         /\ s \in budget.granted /\ s \in budget'.granted => x.woken
    BY <1>2, <2>5, <2>6, <2>7, <2>8, <2>9, <2>10 DEF TicketOk
  <2>17. Idle(budget') + x.alloc = Idle(budget) + session[s].alloc
    BY <1>1, <2>5, <2>7, <2>10
  <2>18. QED
    BY <1>2, <2>5, <2>15, <2>16, <2>17, BecomeOk
<1>5. QED
  BY <1>3, <1>4

(* The plan that hands a frame over is still a plan.                        *)
LEMMA HandedType ==
  ASSUME NEW ps, PlansOk(ps), ps # <<>>
  PROVE  Handed(ps) \in Seq(PlanType) /\ ps[1].base + ps[1].emit \in Nat
<1>1. Len(ps) \in Nat /\ Len(ps) # 0 /\ 1 \in 1..Len(ps) /\ ps[1] \in PlanType
      /\ ps \in Seq(PlanType)
  BY PlansAre DEF PlanOk, PlansOk
<1>2. ps[1].base \in Nat /\ ps[1].emit \in Nat
  BY <1>1 DEF PlanType
<1>3. PICK e : e = ps[1].emit + 1
  OBVIOUS
<1>4. HandedOne(ps[1]) = [ps[1] EXCEPT !.emit = e] /\ e \in Nat
  BY <1>2, <1>3 DEF HandedOne
<1>5. HandedOne(ps[1]) \in PlanType
  BY <1>1, <1>4 DEF PlanType
<1>6. Tail(ps) \in Seq(PlanType)
  BY TailSums DEF PlansOk
<1>7. PICK h : h = HandedOne(ps[1])
  OBVIOUS
<1>8. [ps EXCEPT ![1] = h] \in Seq(PlanType)
  BY <1>1, <1>5, <1>7
<1>9. QED
  BY <1>2, <1>6, <1>7, <1>8 DEF Handed

(* One more frame goes to the end of those handed over.                     *)
LEMMA AppendInOrder ==
  ASSUME NEW r \in SessionState, InOrder(r), r.job.start \in Nat, NEW q,
         q.job = r.job, q.out = Append(r.out, r.job.start + Len(r.out))
  PROVE  InOrder(q)
<1>1. PICK o : o = r.out
  OBVIOUS
<1>2. PICK a : a = r.job.start
  OBVIOUS
<1>3. o \in Seq(Nat) /\ a \in Nat /\ o = [i \in 1..Len(o) |-> a + i - 1]
  BY <1>1, <1>2 DEF SessionState, InOrder
<1>4. PICK n : n = Len(o)
  OBVIOUS
<1>5. n \in Nat /\ \A i \in 1..n : o[i] = a + i - 1
  <2>1. \A i \in 1..n : [j \in 1..n |-> a + j - 1][i] = a + i - 1
    OBVIOUS
  <2>2. o = [j \in 1..n |-> a + j - 1]
    BY <1>3, <1>4, Zenon
  <2>3. \A i \in 1..n : o[i] = a + i - 1
    BY <2>1, <2>2, Zenon
  <2>4. QED
    BY <1>3, <1>4, <2>3
<1>6. PICK p : p = Append(o, a + n)
  OBVIOUS
<1>7. /\ Len(p) = n + 1 /\ DOMAIN p = 1..(n + 1)
      /\ \A i \in 1..(n + 1) : p[i] = IF i = n + 1 THEN a + n ELSE o[i]
  <2>1. o \in Seq(Nat) /\ Len(o) = n
    BY <1>3, <1>4
  <2> HIDE <1>3, <1>4
  <2>2. a + n \in Nat
    BY <1>3, <1>5
  <2>3. QED
    BY <1>6, <2>1, <2>2
<1>8. ASSUME NEW i \in 1..(n + 1) PROVE p[i] = a + i - 1
  <2>1. CASE i = n + 1
    BY <1>3, <1>5, <1>7, <2>1
  <2>2. CASE i # n + 1
    <3>1. i \in 1..n
      BY <1>5, <2>2
    <3>2. p[i] = o[i]
      BY <1>7, <2>2
    <3>3. QED
      BY <1>5, <3>1, <3>2
  <2>3. QED
    BY <2>1, <2>2
<1>9. p = [i \in 1..Len(p) |-> a + i - 1]
  BY <1>6, <1>7, <1>8
<1>10. q.out = p /\ q.job.start = a
  BY <1>1, <1>2, <1>4, <1>6
<1>11. QED
  BY <1>9, <1>10, Zenon DEF InOrder

(* StreamDriver::poll: a frame is handed over, or the session comes to rest. *)
EmitHands(r, sink) ==
  [r EXCEPT !.pc = "idle", !.plans = Handed(r.plans), !.sink = sink,
            !.alloc = Least(@, Keep(r, Handed(r.plans))), !.woken = TRUE,
            !.out = Append(@, r.plans[1].base + r.plans[1].emit)]

EmitReady(r) == r.plans # <<>> /\ r.sink = "free" /\ r.plans[1].recv > r.plans[1].emit
EmitBlocked(r) == r.plans # <<>> /\ r.sink # "free"

LEMMA EmitIs ==
  ASSUME NEW s \in Session, Emit(s), session[s] \in SessionState
  PROVE  /\ session[s].pc = "sink"
         /\ EmitReady(session[s]) =>
              /\ budget' = Give(budget, Most(0, session[s].alloc
                                                  - Keep(session[s], Handed(session[s].plans))))
              /\ \E sink \in {"free", "busy"} : Become(s, EmitHands(session[s], sink))
         /\ EmitBlocked(session[s]) =>
              /\ budget' = budget
              /\ Become(s, [session[s] EXCEPT !.pc = "idle", !.sink = "waiting"])
         /\ ~ EmitReady(session[s]) /\ ~ EmitBlocked(session[s]) =>
              budget' = budget /\ Become(s, [session[s] EXCEPT !.pc = "idle"])
<1> DEFINE r == session[s]
           hands == /\ budget' = Give(budget, Most(0, r.alloc - Keep(r, Handed(r.plans))))
                    /\ \E sink \in {"free", "busy"} : Become(s, EmitHands(r, sink))
           blocks == budget' = budget /\ Become(s, [r EXCEPT !.pc = "idle", !.sink = "waiting"])
           rests == budget' = budget /\ Become(s, [r EXCEPT !.pc = "idle"])
<1>1. r.pc = "sink" /\ CASE EmitReady(r) -> hands [] EmitBlocked(r) -> blocks [] OTHER -> rests
  BY Zenon DEF Emit, EmitReady, EmitBlocked, EmitHands, Handed, HandedOne
<1>2. ~ (EmitReady(r) /\ EmitBlocked(r))
  BY DEF EmitReady, EmitBlocked
<1>3. EmitReady(r) => hands
  BY <1>1, <1>2, Zenon
<1>4. EmitBlocked(r) => blocks
  BY <1>1, <1>2, Zenon
<1>5. ~ EmitReady(r) /\ ~ EmitBlocked(r) => rests
  BY <1>1, Zenon
<1>6. QED
  BY <1>1, <1>3, <1>4, <1>5, Zenon

(* A session that ends its poll with nothing handed over.                   *)
EmitRests(r, sink) == [r EXCEPT !.pc = "idle", !.sink = sink]

LEMMA RestOk ==
  ASSUME NEW s, NEW r, SessionOk(s, r), r.pc = "sink",
         NEW sink \in {"free", "busy", "waiting"},
         r.plans # <<>> /\ r.plans[1].recv > r.plans[1].emit => sink = "waiting",
         NEW q, q = EmitRests(r, sink)
  PROVE  /\ SessionOk(s, q)
         /\ q.pc = "idle" /\ q.ticket = r.ticket /\ q.woken = r.woken /\ q.alloc = r.alloc
<1>1. /\ r \in SessionState /\ OfJob(s, r) /\ PlansFit(r) /\ Holds(r) /\ Grown(r) /\ Armed(r)
      /\ r.pc \notin Ended
  BY DEF SessionOk, Ended
<1>2. /\ q \in SessionState /\ q.pc = "idle" /\ q.alloc = r.alloc /\ q.job = r.job
      /\ q.plans = r.plans /\ q.next = r.next /\ q.terminated = r.terminated
      /\ q.out = r.out /\ q.ticket = r.ticket /\ q.window = r.window
      /\ q.missing = r.missing /\ q.arrived = r.arrived /\ q.woken = r.woken
      /\ q.listening = r.listening /\ q.sink = sink
  BY <1>1 DEF SessionState, Working, EmitRests
<1>3. /\ PlansOk(q.plans) /\ FrontFirst(q.plans)
      /\ Committed(q.plans) = Committed(r.plans) /\ Committed(r.plans) <= r.alloc
      /\ InOrder(q) /\ Placed(q)
  BY <1>1, <1>2, CoreOk
<1>4. Live(q) /\ Live(r) /\ (AtRest(q) => AtRest(r)) /\ q.pc # "fill" /\ q.pc \notin Ended
  BY <1>1, <1>2 DEF Live, AtRest, Ended
<1>5. OfJob(s, q) /\ PlansFit(q) /\ Holds(q)
  BY <1>1, <1>2, <1>3, <1>4 DEF OfJob, PlansFit, Holds
<1>6. Grown(q)
  BY <1>1, <1>2, <1>4 DEF Grown
<1>7. /\ \A n : Cursor(q, n) = Cursor(r, n)
      /\ \A c : Useful(q, c) = Useful(r, c)
      /\ Share(q) = Share(r) /\ Target(q) = Target(r)
  BY <1>2 DEF Cursor, Useful, Share, Target
<1>8. (Wants(q, 0) <=> Wants(r, 0)) /\ (Exhausted(q) <=> Exhausted(r)) /\ ~ Exhausted(r)
  BY <1>2, <1>7 DEF Wants, Exhausted, SessionOk
<1>9. Armed(q)
  BY <1>1, <1>2, <1>4, <1>7, <1>8 DEF Armed, Waits, Dealt
<1>10. QED
  BY <1>2, <1>3, <1>4, <1>5, <1>6, <1>9 DEF SessionOk

LEMMA EmitOk ==
  ASSUME Inv, NEW s \in Session, Emit(s)
  PROVE  Inv'
<1>1. PICK r : r = session[s]
  OBVIOUS
<1>2. /\ SessionOk(s, r) /\ TicketOk(budget, s, r) /\ QueueOk(budget)
      /\ r \in SessionState /\ Idle(budget) \in Int
  BY <1>1, MyState DEF SessionOk
<1>3. /\ r.pc = "sink"
      /\ EmitReady(r) =>
           /\ budget' = Give(budget, Most(0, r.alloc - Keep(r, Handed(r.plans))))
           /\ \E sink \in {"free", "busy"} : Become(s, EmitHands(r, sink))
      /\ EmitBlocked(r) =>
           budget' = budget /\ Become(s, [r EXCEPT !.pc = "idle", !.sink = "waiting"])
      /\ ~ EmitReady(r) /\ ~ EmitBlocked(r) =>
           budget' = budget /\ Become(s, [r EXCEPT !.pc = "idle"])
  BY <1>1, <1>2, EmitIs
<1>4. /\ OfJob(s, r) /\ PlansFit(r) /\ Holds(r) /\ Placed(r) /\ InOrder(r) /\ r.pc \notin Ended
      /\ Live(r) /\ r.alloc \in 1..Capacity
  <2>1. r.pc \notin Ended /\ Live(r)
    BY <1>3 DEF Ended, Live
  <2>2. QED
    BY <1>1, <1>2, <2>1, MyState DEF SessionOk
<1>5. CASE EmitReady(r)
  <2>1. PICK ps : ps = Handed(r.plans)
    OBVIOUS
  <2>2. PICK k : k = Keep(r, ps)
    OBVIOUS
  <2>3. PICK a : a = Least(r.alloc, k)
    OBVIOUS
  <2>4. PICK n : n = Most(0, r.alloc - k)
    OBVIOUS
  <2>5. PICK x : x = r.plans[1].base + r.plans[1].emit
    OBVIOUS
  <2>6. PICK o : o = Append(r.out, x)
    OBVIOUS
  <2>7. PICK sink \in {"free", "busy"} : Become(s, EmitHands(r, sink))
    BY <1>3, <1>5
  <2>8. PICK q : q = [r EXCEPT !.pc = "idle", !.plans = ps, !.sink = sink,
                               !.alloc = a, !.woken = TRUE, !.out = o]
    OBVIOUS
  <2>9. budget' = Give(budget, n) /\ Become(s, q)
    <3>1. EmitHands(r, sink) = q
      BY <2>1, <2>2, <2>3, <2>5, <2>6, <2>8 DEF EmitHands
    <3>2. QED
      BY <1>3, <1>5, <2>1, <2>2, <2>4, <2>7, <3>1
  <2>10. PlansOk(r.plans) /\ FrontFirst(r.plans) /\ r.plans # <<>>
         /\ r.plans[1].recv > r.plans[1].emit /\ Committed(r.plans) <= r.alloc
    BY <1>4, <1>5 DEF PlansFit, EmitReady
  <2>11. ps \in Seq(PlanType) /\ x \in Nat /\ o \in Seq(Nat)
    <3>1. ps \in Seq(PlanType) /\ x \in Nat
      BY <2>1, <2>5, <2>10, HandedType
    <3>2. r.out \in Seq(Nat)
      BY <1>2 DEF SessionState
    <3>3. QED
      BY <2>6, <3>1, <3>2
  <2>12. ASSUME NEW b \in Nat PROVE [q EXCEPT !.alloc = b] \in SessionState
    BY <1>2, <2>8, <2>11, <2>12 DEF SessionState, Working
  <2>13. /\ q.pc = "idle" /\ q.plans = ps /\ q.alloc = a /\ q.woken = TRUE /\ q.out = o
         /\ q.job = r.job /\ q.next = r.next /\ q.terminated = r.terminated
         /\ q.ticket = r.ticket /\ q.window = r.window
         /\ q.missing = r.missing /\ q.arrived = r.arrived
    BY <1>2, <2>8 DEF SessionState
  <2>14. /\ PlansOk(ps) /\ FrontFirst(ps) /\ Committed(ps) <= Committed(r.plans)
         /\ x = r.job.start + Len(r.out)
    <3>1. PICK z : z = [q EXCEPT !.alloc = 0]
      OBVIOUS
    <3>2. z \in SessionState
      BY <2>12, <3>1
    <3>3. /\ z.job = r.job /\ z.next = r.next /\ z.terminated = r.terminated
          /\ z.plans = ps /\ z.out = o
      BY <1>2, <2>8, <3>1 DEF SessionState
    <3>4. z.plans = Handed(r.plans) /\ z.out = Append(r.out, r.plans[1].base + r.plans[1].emit)
      BY <2>1, <2>5, <2>6, <3>3
    <3>5. QED
      BY <1>2, <1>4, <2>5, <2>10, <3>2, <3>3, <3>4, HandedFacts
  <2>15. /\ Committed(ps) \in Nat /\ Committed(ps) <= r.alloc
         /\ Share(r) \in Nat /\ Share(r) >= 1 /\ r.alloc \in Nat /\ r.alloc >= 1
    <3>1. Committed(ps) \in Nat /\ Committed(r.plans) \in Nat
      BY <2>10, <2>14, PlanSums
    <3>2. r.alloc \in 0..Capacity /\ r.alloc \in Nat /\ r.alloc >= 1
      BY <1>4, StreamAssumption
    <3>3. Share(r) \in Nat /\ Share(r) >= 1
      BY <1>2, <3>2, ShareFacts
    <3>4. QED
      BY <2>10, <2>14, <3>1, <3>2, <3>3
  <2>16. /\ a \in Nat /\ a >= 1 /\ Committed(ps) <= a /\ n \in Nat /\ a + n = r.alloc
    BY <2>2, <2>3, <2>4, <2>15 DEF Keep, Least, Most
  <2>17. q \in SessionState
    BY <1>2, <2>8, <2>11, <2>16 DEF SessionState, Working
  <2>18. Placed(q)
    <3>1. q.plans = Handed(r.plans) /\ q.out = Append(r.out, r.plans[1].base + r.plans[1].emit)
      BY <2>1, <2>5, <2>6, <2>13
    <3>2. QED
      BY <1>2, <1>4, <2>10, <2>13, <2>17, <3>1, HandedFacts
  <2>19. InOrder(q)
    <3>1. r.job.start \in Nat
      <4>1. r.job \in AnyJob
        BY <1>2 DEF SessionState
      <4>2. QED
        BY <4>1, CursorFacts
    <3>2. q.out = Append(r.out, r.job.start + Len(r.out))
      BY <2>6, <2>13, <2>14
    <3>3. QED
      BY <1>2, <1>4, <2>13, <3>1, <3>2, AppendInOrder
  <2>20. SessionOk(s, q)
    <3>1. OfJob(s, q)
      BY <1>4, <2>13 DEF OfJob
    <3>2. ~ AtRest(q) /\ Live(q) /\ q.pc \notin Ended \cup {"fill", "closing", "sink"}
      BY <2>13 DEF AtRest, Live, Ended
    <3>3. PlansFit(q) /\ Holds(q) /\ Grown(q) /\ Armed(q)
      BY <2>13, <2>14, <2>16, <3>2 DEF PlansFit, Holds, Grown, Armed
    <3>4. QED
      BY <2>17, <2>18, <2>19, <3>1, <3>2, <3>3 DEF SessionOk
  <2>21. /\ QueueOk(Give(budget, n)) /\ Tickets(Give(budget, n)) = Tickets(budget)
         /\ Idle(Give(budget, n)) = Idle(budget) + n
    BY <1>2, <2>16, GiveFacts, StreamAssumption
  <2>22. /\ QueueOk(budget') /\ Tickets(budget') = Tickets(budget)
         /\ Idle(budget') = Idle(budget) + n
    BY <2>9, <2>21
  <2>23. q.ticket <=> s \in Tickets(budget')
    BY <1>2, <2>13, <2>22 DEF TicketOk
  <2>24. Idle(budget') + q.alloc = Idle(budget) + session[s].alloc
    BY <1>1, <1>2, <2>13, <2>15, <2>16, <2>22
  <2>25. QED
    BY <2>9, <2>13, <2>20, <2>22, <2>23, <2>24, BecomeOk
<1>6. ASSUME NEW sink \in {"free", "busy", "waiting"},
             r.plans # <<>> /\ r.plans[1].recv > r.plans[1].emit => sink = "waiting",
             budget' = budget, Become(s, [r EXCEPT !.pc = "idle", !.sink = sink])
      PROVE  Inv'
  <2>1. PICK q : q = EmitRests(r, sink)
    OBVIOUS
  <2>2. /\ SessionOk(s, q)
        /\ q.pc = "idle" /\ q.ticket = r.ticket /\ q.woken = r.woken /\ q.alloc = r.alloc
    <3>1. SessionOk(s, r) /\ r.pc = "sink"
      BY <1>2, <1>3
    <3>2. r.plans # <<>> /\ r.plans[1].recv > r.plans[1].emit => sink = "waiting"
      BY <1>6
    <3>3. QED
      BY <2>1, <3>1, <3>2, RestOk
  <2>3. Become(s, q)
    BY <1>6, <2>1 DEF EmitRests
  <2>4. /\ q.ticket <=> s \in Tickets(budget')
        /\ s \in budget.granted /\ s \in budget'.granted => q.woken
    BY <1>2, <1>3, <1>6, <2>2 DEF TicketOk
  <2>5. Idle(budget') + q.alloc = Idle(budget) + session[s].alloc
    BY <1>1, <1>6, <2>2
  <2>6. QED
    BY <1>2, <1>6, <2>2, <2>3, <2>4, <2>5, BecomeOk
<1>7. CASE EmitBlocked(r)
  BY <1>3, <1>6, <1>7
<1>8. CASE ~ EmitReady(r) /\ ~ EmitBlocked(r)
  <2>1. r.sink \in {"free", "busy", "waiting"}
    BY <1>2 DEF SessionState
  <2>2. ~ (r.plans # <<>> /\ r.plans[1].recv > r.plans[1].emit)
    BY <1>8, <2>1 DEF EmitReady, EmitBlocked
  <2>3. [r EXCEPT !.pc = "idle"] = [r EXCEPT !.pc = "idle", !.sink = r.sink]
    BY <1>2 DEF SessionState
  <2>4. QED
    BY <1>3, <1>6, <1>8, <2>1, <2>2, <2>3
<1>9. QED
  BY <1>5, <1>7, <1>8

(* The driver returns, or is dropped.                                       *)
LEMMA CloseOk ==
  ASSUME Inv, NEW s \in Session, Close(s) \/ Cancel(s)
  PROVE  Inv'
BY LeaveOk DEF Close, Cancel

(* The sink has not closed yet: the driver waits for it.                    *)
LingerRests(r) == [r EXCEPT !.pc = "idle", !.sink = "waiting"]

LEMMA LingerOk ==
  ASSUME Inv, NEW s \in Session, Linger(s)
  PROVE  Inv'
<1>1. PICK r : r = session[s]
  OBVIOUS
<1>2. /\ SessionOk(s, r) /\ TicketOk(budget, s, r) /\ QueueOk(budget) /\ r.pc = "closing"
      /\ r.alloc \in 0..Capacity
  BY <1>1, MyState DEF Linger
<1>3. PICK q : q = LingerRests(r)
  OBVIOUS
<1>4. budget' = budget /\ Become(s, q)
  BY <1>1, <1>3 DEF Linger, LingerRests
<1>5. /\ r \in SessionState /\ OfJob(s, r) /\ PlansFit(r) /\ Holds(r)
      /\ Exhausted(r) /\ r.pc \notin Ended /\ r.plans = <<>>
  BY <1>2 DEF SessionOk, Ended, Exhausted
<1>6. /\ q \in SessionState /\ q.pc = "idle" /\ q.alloc = r.alloc /\ q.job = r.job
      /\ q.plans = r.plans /\ q.next = r.next /\ q.terminated = r.terminated
      /\ q.out = r.out /\ q.ticket = r.ticket /\ q.window = r.window
      /\ q.missing = r.missing /\ q.arrived = r.arrived /\ q.woken = r.woken
      /\ q.listening = r.listening /\ q.sink = "waiting"
  BY <1>3, <1>5 DEF SessionState, Working, LingerRests
<1>7. /\ PlansOk(q.plans) /\ FrontFirst(q.plans)
      /\ Committed(q.plans) = Committed(r.plans) /\ Committed(r.plans) <= r.alloc
      /\ InOrder(q) /\ Placed(q)
  BY <1>2, <1>5, <1>6, CoreOk
<1>8. Live(q) /\ Live(r) /\ q.pc \notin Ended
  BY <1>2, <1>6 DEF Live, Ended
<1>9. OfJob(s, q) /\ PlansFit(q) /\ Holds(q)
  BY <1>5, <1>6, <1>7, <1>8 DEF OfJob, PlansFit, Holds
<1>10. Exhausted(q) /\ ~ Wants(q, 0)
  <2>1. Cursor(q, q.next) = Cursor(r, r.next) /\ q.next \in Nat
    BY <1>5, <1>6 DEF Cursor, SessionState
  <2>2. q.terminated \/ Cursor(q, q.next) >= q.job.end
    BY <1>5, <1>6, <2>1 DEF Exhausted
  <2>3. Exhausted(q)
    BY <1>5, <1>6, <2>2 DEF Exhausted
  <2>4. q.next + 0 = q.next
    BY <2>1
  <2>5. Cursor(q, q.next) \in Nat /\ q.job.end \in Nat
    <3>1. q.job \in AnyJob /\ q.next <= Len(q.job.objects)
      BY <1>5, <1>6 DEF OfJob, SessionState
    <3>2. q.next \in 0..Len(q.job.objects)
      BY <2>1, <3>1, CursorFacts
    <3>3. QED
      BY <3>1, <3>2, CursorFacts DEF Cursor
  <2>6. ~ Wants(q, 0)
    BY <2>2, <2>4, <2>5 DEF Wants
  <2>7. QED
    BY <2>3, <2>6
<1>11. Grown(q)
  BY <1>2, <1>6 DEF SessionOk, Grown
<1>12. Armed(q)
  <2>1. q.plans = <<>> /\ Quiet(q.plans)
    BY <1>5, <1>6 DEF Quiet
  <2>2. Waits(q)
    BY <1>10 DEF Waits
  <2>3. Dealt(q)
    <3>1. Committed(q.plans) = 0 /\ Remaining(q.plans) = 0
      BY <2>1, NoPlans
    <3>2. Share(q) \in Nat
      BY <1>2, <1>6, ShareFacts
    <3>3. QED
      BY <3>1, <3>2 DEF Dealt, Least
  <2>4. QED
    BY <1>6, <2>1, <2>2, <2>3 DEF Armed
<1>13. SessionOk(s, q)
  BY <1>6, <1>7, <1>9, <1>10, <1>11, <1>12 DEF SessionOk
<1>14. /\ q.ticket <=> s \in Tickets(budget')
       /\ s \in budget.granted /\ s \in budget'.granted => q.woken
  BY <1>2, <1>4, <1>6 DEF TicketOk
<1>15. Idle(budget') + q.alloc = Idle(budget) + session[s].alloc
  BY <1>1, <1>4, <1>6
<1>16. QED
  BY <1>2, <1>4, <1>13, <1>14, <1>15, BecomeOk

(* What a peer may do to a session: it changes no part of a plan, and wakes *)
(* whoever was listening.                                                   *)
LEMMA PeerOk ==
  ASSUME Inv, NEW s \in Session, NEW r, r = session[s], r.pc \in {"fill", "idle", "sink"},
         NEW q \in SessionState, budget' = budget, Become(s, q),
         q.pc = r.pc, q.job = r.job, q.window = r.window, q.alloc = r.alloc,
         q.ticket = r.ticket, q.missing = r.missing, q.next = r.next,
         q.terminated = r.terminated, q.out = r.out, q.arrived <= Len(r.job.objects) + 1,
         SameParts(r.plans, q.plans),
         \A i \in 1..Len(r.plans) : q.plans[i].recv = r.plans[i].recv,
         ~ q.woken => /\ ~ r.woken /\ q.listening = r.listening
                      /\ r.sink = "waiting" => q.sink = "waiting"
                      /\ Quiet(r.plans) => Quiet(q.plans)
  PROVE  Inv'
<1>1. /\ SessionOk(s, r) /\ TicketOk(budget, s, r) /\ QueueOk(budget) /\ r \in SessionState
  BY MyState DEF SessionOk
<1>2. /\ OfJob(s, r) /\ PlansFit(r) /\ InOrder(r) /\ Holds(r) /\ Placed(r) /\ Grown(r) /\ Armed(r)
      /\ PlansOk(r.plans) /\ FrontFirst(r.plans) /\ Committed(r.plans) <= r.alloc
      /\ r.pc \notin Ended /\ Live(r) /\ Live(q) /\ q.pc # "closing"
  BY <1>1 DEF SessionOk, PlansFit, Ended, Live
<1>3. /\ Committed(q.plans) = Committed(r.plans) /\ Remaining(q.plans) = Remaining(r.plans)
      /\ FrontFirst(q.plans) /\ PlansOk(q.plans) /\ Len(q.plans) = Len(r.plans)
  BY <1>2, SamePartsFacts DEF SameParts
<1>4. Placed(q)
  <2>1. \A i \in 1..Len(r.plans) :
          /\ q.plans[i].base = r.plans[i].base /\ q.plans[i].lo = r.plans[i].lo
          /\ q.plans[i].hi = r.plans[i].hi /\ q.plans[i].emit = r.plans[i].emit
    BY DEF SameParts, SamePart
  <2>2. QED
    BY <1>1, <1>2, <1>3, <2>1, PlacedSame
<1>5. /\ r.plans = <<>> <=> q.plans = <<>>
      /\ r.plans # <<>> => q.plans[1].recv = r.plans[1].recv /\ q.plans[1].emit = r.plans[1].emit
  <2>1. \A i \in 1..Len(r.plans) : q.plans[i].emit = r.plans[i].emit
    BY DEF SameParts, SamePart
  <2>2. /\ Len(r.plans) \in Nat /\ Len(q.plans) \in Nat
        /\ r.plans = <<>> <=> Len(r.plans) = 0
        /\ q.plans = <<>> <=> Len(q.plans) = 0
    BY <1>2, <1>3 DEF PlansOk
  <2>3. r.plans # <<>> => 1 \in 1..Len(r.plans)
    BY <2>2
  <2>4. QED
    BY <1>3, <2>1, <2>2, <2>3
<1>6. OfJob(s, q) /\ PlansFit(q) /\ InOrder(q) /\ Holds(q)
  BY <1>2, <1>3 DEF OfJob, PlansFit, InOrder, Holds
<1>7. AtRest(q) => /\ AtRest(r) /\ q.listening = r.listening
                   /\ r.sink = "waiting" => q.sink = "waiting"
                   /\ Quiet(r.plans) => Quiet(q.plans)
  BY DEF AtRest
<1>8. Grown(q)
  BY <1>2, <1>7 DEF Grown
<1>9. /\ \A n : Cursor(q, n) = Cursor(r, n)
      /\ \A c : Useful(q, c) = Useful(r, c)
      /\ Share(q) = Share(r) /\ Target(q) = Target(r)
  BY DEF Cursor, Useful, Share, Target
<1>10. (Wants(q, 0) <=> Wants(r, 0)) /\ (Exhausted(q) <=> Exhausted(r))
  BY <1>3, <1>5, <1>9 DEF Wants, Exhausted
<1>11. Armed(q)
  <2>1. AtRest(q) => Quiet(q.plans) /\ Waits(q) /\ Dealt(q)
    BY <1>2, <1>3, <1>5, <1>7, <1>9, <1>10 DEF Armed, Waits, Dealt
  <2>2. q.pc = "idle" /\ AtRest(q) /\ q.plans # <<>> /\ q.plans[1].recv > q.plans[1].emit =>
          q.sink = "waiting"
    BY <1>2, <1>5, <1>7 DEF Armed
  <2>3. q.pc = "idle" /\ AtRest(q) /\ Exhausted(q) => q.sink = "waiting"
    BY <1>2, <1>7, <1>10 DEF Armed
  <2>4. QED
    BY <2>1, <2>2, <2>3 DEF Armed
<1>12. SessionOk(s, q)
  BY <1>1, <1>2, <1>4, <1>6, <1>8, <1>10, <1>11 DEF SessionOk
<1>13. /\ q.ticket <=> s \in Tickets(budget')
       /\ s \in budget.granted /\ s \in budget'.granted => q.woken
  <2>1. r.woken => q.woken
    OBVIOUS
  <2>2. QED
    BY <1>1, <2>1 DEF TicketOk
<1>14. Idle(budget') + q.alloc = Idle(budget) + session[s].alloc
  OBVIOUS
<1>15. QED
  BY <1>1, <1>12, <1>13, <1>14, BecomeOk

(* One plan of a session is changed, its part of the request is not.        *)
LEMMA OneChanged ==
  ASSUME NEW ps, PlansOk(ps), NEW i \in DOMAIN ps, NEW p, PlanOk(p), SamePart(ps[i], p),
         p.recv = ps[i].recv
  PROVE  LET qs == [ps EXCEPT ![i] = p] IN
         /\ qs \in Seq(PlanType) /\ SameParts(ps, qs)
         /\ \A j \in 1..Len(ps) : qs[j].recv = ps[j].recv
         /\ qs[i] = p /\ \A j \in 1..Len(ps) : j # i => qs[j] = ps[j]
<1> DEFINE qs == [ps EXCEPT ![i] = p]
<1>1. ps \in Seq(PlanType) /\ DOMAIN ps = 1..Len(ps) /\ Len(ps) \in Nat /\ p \in PlanType
      /\ \A j \in 1..Len(ps) : PlanOk(ps[j])
  BY DEF PlansOk, PlanOk
<1>2. qs \in Seq(PlanType) /\ Len(qs) = Len(ps)
  BY <1>1
<1>3. qs[i] = p /\ \A j \in 1..Len(ps) : j # i => qs[j] = ps[j]
  BY <1>1
<1> HIDE DEF qs
<1>4. \A j \in 1..Len(ps) : SamePart(ps[j], qs[j]) /\ qs[j].recv = ps[j].recv /\ PlanOk(qs[j])
  <2>1. ASSUME NEW j \in 1..Len(ps)
        PROVE  SamePart(ps[j], qs[j]) /\ qs[j].recv = ps[j].recv /\ PlanOk(qs[j])
    <3>1. CASE j = i
      BY <1>3, <3>1
    <3>2. CASE j # i
      BY <1>1, <1>3, <3>2 DEF SamePart
    <3>3. QED
      BY <3>1, <3>2
  <2>2. QED
    BY <2>1
<1>5. SameParts(ps, qs)
  BY <1>2, <1>4 DEF SameParts, PlansOk
<1>6. QED
  BY <1>2, <1>3, <1>4, <1>5 DEF qs

(* The source has one more item.                                            *)
LEMMA ArriveOk ==
  ASSUME Inv, NEW s \in Session, Arrive(s)
  PROVE  Inv'
<1>1. PICK r : r = session[s]
  OBVIOUS
<1>2. /\ r \in SessionState /\ r.pc \in {"fill", "idle", "sink"} /\ PlansOk(r.plans)
      /\ r.arrived <= Len(r.job.objects) /\ r.arrived \in Nat /\ r.woken \in BOOLEAN
      /\ r.listening \in BOOLEAN /\ Len(r.job.objects) \in Nat
  <2>1. SessionOk(s, r) /\ r.pc \in {"fill", "idle"} /\ r.arrived <= Len(r.job.objects)
    BY <1>1, MyState DEF Arrive, Listens
  <2>2. r \in SessionState /\ PlansOk(r.plans)
    BY <2>1 DEF SessionOk, PlansFit
  <2>3. Len(r.job.objects) \in Nat
    <3>1. r.job \in AnyJob
      BY <2>2 DEF SessionState
    <3>2. QED
      BY <3>1, CursorFacts
  <2>4. QED
    BY <2>1, <2>2, <2>3 DEF SessionState
<1>3. PICK a : a = r.arrived + 1
  OBVIOUS
<1>4. PICK w : w = (r.woken \/ r.listening)
  OBVIOUS
<1>5. w \in BOOLEAN /\ (~ w => ~ r.woken /\ r.listening = FALSE) /\ a \in Nat
      /\ a <= Len(r.job.objects) + 1
  BY <1>2, <1>3, <1>4
<1>6. PICK q : q = [r EXCEPT !.arrived = a, !.listening = FALSE, !.woken = w]
  OBVIOUS
<1>7. budget' = budget /\ Become(s, q)
  <2>1. q = [r EXCEPT !.arrived = @ + 1, !.listening = FALSE, !.woken = @ \/ r.listening]
    BY <1>3, <1>4, <1>6
  <2>2. QED
    BY <1>1, <2>1 DEF Arrive
<1>8. /\ q \in SessionState /\ q.pc = r.pc /\ q.job = r.job /\ q.window = r.window
      /\ q.alloc = r.alloc /\ q.ticket = r.ticket /\ q.missing = r.missing /\ q.next = r.next
      /\ q.terminated = r.terminated /\ q.out = r.out /\ q.arrived = a
      /\ q.plans = r.plans /\ q.sink = r.sink /\ q.woken = w /\ q.listening = FALSE
  BY <1>2, <1>5, <1>6 DEF SessionState
<1>9. SameParts(r.plans, q.plans)
  BY <1>2, <1>8 DEF SameParts, SamePart
<1>10. ~ q.woken => /\ ~ r.woken /\ q.listening = r.listening
                    /\ r.sink = "waiting" => q.sink = "waiting"
                    /\ Quiet(r.plans) => Quiet(q.plans)
  BY <1>5, <1>8
<1>11. QED
  BY <1>1, <1>2, <1>5, <1>7, <1>8, <1>9, <1>10, PeerOk

(* A plan is told its URL, or that there is none.                           *)
LEMMA AnswerOk ==
  ASSUME Inv, NEW s \in Session, NEW i \in DOMAIN session[s].plans,
         NEW result \in {"answered", "failed"}, Answer(s, i, result)
  PROVE  Inv'
<1>1. PICK r : r = session[s]
  OBVIOUS
<1>2. /\ r \in SessionState /\ r.pc \in {"fill", "idle", "sink"} /\ PlansOk(r.plans)
      /\ i \in DOMAIN r.plans /\ r.plans[i].url = "waiting"
      /\ r.arrived <= Len(r.job.objects) + 1
  <2>1. /\ SessionOk(s, r) /\ r.pc \in {"fill", "idle"} /\ i \in DOMAIN r.plans
        /\ r.plans[i].url = "waiting"
    BY <1>1, MyState DEF Answer, Listens
  <2>2. QED
    BY <2>1 DEF SessionOk, PlansFit, OfJob
<1>3. PICK p : p = [r.plans[i] EXCEPT !.url = result]
  OBVIOUS
<1>4. PICK ps : ps = [r.plans EXCEPT ![i] = p]
  OBVIOUS
<1>5. PICK q : q = [r EXCEPT !.plans = ps, !.woken = TRUE]
  OBVIOUS
<1>6. budget' = budget /\ Become(s, q)
  <2>1. q = [r EXCEPT !.plans[i].url = result, !.woken = TRUE]
    BY <1>3, <1>4, <1>5
  <2>2. QED
    BY <1>1, <2>1 DEF Answer
<1>7. PlanOk(p) /\ SamePart(r.plans[i], p) /\ p.recv = r.plans[i].recv
  <2>1. PICK o : o = r.plans[i]
    OBVIOUS
  <2>2. PlanOk(o) /\ o.url = "waiting" /\ o \in PlanType
    BY <1>2, <2>1 DEF PlansOk, PlanOk
  <2>3. p = [o EXCEPT !.url = result]
    BY <1>3, <2>1
  <2>4. /\ p \in PlanType /\ p.base = o.base /\ p.lo = o.lo /\ p.hi = o.hi /\ p.auth = o.auth
        /\ p.recv = o.recv /\ p.emit = o.emit /\ p.finished = o.finished /\ p.link = o.link
        /\ p.url = result
    BY <2>2, <2>3 DEF PlanType
  <2>5. PlanOk(p) /\ SamePart(o, p) /\ p.recv = o.recv
    BY <2>2, <2>4 DEF PlanOk, SamePart
  <2>6. QED
    BY <2>1, <2>5
<1>8. /\ ps \in Seq(PlanType) /\ SameParts(r.plans, ps)
      /\ \A j \in 1..Len(r.plans) : ps[j].recv = r.plans[j].recv
  BY <1>2, <1>4, <1>7, OneChanged
<1>9. /\ q \in SessionState /\ q.pc = r.pc /\ q.job = r.job /\ q.window = r.window
      /\ q.alloc = r.alloc /\ q.ticket = r.ticket /\ q.missing = r.missing /\ q.next = r.next
      /\ q.terminated = r.terminated /\ q.out = r.out /\ q.arrived = r.arrived
      /\ q.plans = ps /\ q.woken = TRUE
  BY <1>2, <1>5, <1>8 DEF SessionState
<1>10. QED
  BY <1>1, <1>2, <1>6, <1>8, <1>9, PeerOk

(* A download has an item ready.                                            *)
LEMMA DeliverOk ==
  ASSUME Inv, NEW s \in Session, NEW i \in DOMAIN session[s].plans,
         NEW item \in {"frame", "end", "error"}, Deliver(s, i, item)
  PROVE  Inv'
<1>1. PICK r : r = session[s]
  OBVIOUS
<1>2. /\ r \in SessionState /\ r.pc \in {"fill", "idle", "sink"} /\ PlansOk(r.plans)
      /\ i \in DOMAIN r.plans /\ r.plans[i].link \in {"quiet", "waiting"}
      /\ r.arrived <= Len(r.job.objects) + 1 /\ r.woken \in BOOLEAN
      /\ i \in 1..Len(r.plans)
  <2>1. /\ SessionOk(s, r) /\ r.pc \in {"fill", "idle"} /\ i \in DOMAIN r.plans
        /\ r.plans[i].link \in {"quiet", "waiting"}
    BY <1>1, MyState DEF Deliver, Listens
  <2>2. r \in SessionState /\ PlansOk(r.plans) /\ r.arrived <= Len(r.job.objects) + 1
    BY <2>1 DEF SessionOk, PlansFit, OfJob
  <2>3. DOMAIN r.plans = 1..Len(r.plans) /\ r.woken \in BOOLEAN
    BY <2>2 DEF SessionState
  <2>4. QED
    BY <2>1, <2>2, <2>3
<1>3. PICK o : o = r.plans[i]
  OBVIOUS
<1>4. PICK p : p = [o EXCEPT !.link = item]
  OBVIOUS
<1>5. PICK ps : ps = [r.plans EXCEPT ![i] = p]
  OBVIOUS
<1>6. PICK w : w = (r.woken \/ o.link = "waiting")
  OBVIOUS
<1>7. PICK q : q = [r EXCEPT !.plans = ps, !.woken = w]
  OBVIOUS
<1>8. budget' = budget /\ Become(s, q)
  <2>1. q = [r EXCEPT !.plans[i].link = item, !.woken = @ \/ r.plans[i].link = "waiting"]
    BY <1>3, <1>4, <1>5, <1>6, <1>7
  <2>2. QED
    BY <1>1, <2>1 DEF Deliver
<1>9. w \in BOOLEAN /\ (~ w => ~ r.woken /\ o.link = "quiet")
  BY <1>2, <1>3, <1>6
<1>10. PlanOk(o) /\ o \in PlanType /\ o.link \in {"quiet", "waiting"}
  BY <1>2, <1>3 DEF PlansOk, PlanOk
<1>11. /\ p \in PlanType /\ p.base = o.base /\ p.lo = o.lo /\ p.hi = o.hi /\ p.auth = o.auth
       /\ p.recv = o.recv /\ p.emit = o.emit /\ p.finished = o.finished /\ p.link = item
       /\ p.url = o.url
  BY <1>4, <1>10 DEF PlanType
<1>12. PlanOk(p) /\ SamePart(o, p)
  BY <1>10, <1>11 DEF PlanOk, SamePart
<1>13. /\ ps \in Seq(PlanType) /\ SameParts(r.plans, ps)
       /\ \A j \in 1..Len(r.plans) : ps[j].recv = r.plans[j].recv
       /\ ps[i] = p /\ \A j \in 1..Len(r.plans) : j # i => ps[j] = r.plans[j]
  BY <1>2, <1>3, <1>5, <1>11, <1>12, OneChanged
<1>14. ~ w /\ Quiet(r.plans) => Quiet(ps)
  <2>1. SUFFICES ASSUME ~ w, Quiet(r.plans) PROVE Quiet(ps)
    OBVIOUS
  <2>2. /\ o.url \in {"waiting", "held", "used"} /\ (o.url = "held" => o.auth = o.emit)
        /\ (Polled(o) => o.link = "waiting")
    BY <1>2, <1>3, <2>1 DEF Quiet
  <2>3. ~ Polled(p)
    <3>1. ~ Polled(o)
      BY <1>9, <2>1, <2>2
    <3>2. QED
      BY <1>10, <1>11, <3>1 DEF Polled
  <2>4. Len(ps) = Len(r.plans)
    BY <1>13 DEF SameParts
  <2>5. ASSUME NEW j \in 1..Len(ps)
        PROVE  /\ ps[j].url \in {"waiting", "held", "used"}
               /\ ps[j].url = "held" => ps[j].auth = ps[j].emit
               /\ Polled(ps[j]) => ps[j].link = "waiting"
    <3>1. CASE j = i
      BY <1>11, <1>13, <2>2, <2>3, <3>1
    <3>2. CASE j # i
      BY <1>13, <2>1, <2>4, <3>2 DEF Quiet
    <3>3. QED
      BY <3>1, <3>2
  <2>6. QED
    BY <2>5 DEF Quiet
<1>15. /\ q \in SessionState /\ q.pc = r.pc /\ q.job = r.job /\ q.window = r.window
       /\ q.alloc = r.alloc /\ q.ticket = r.ticket /\ q.missing = r.missing /\ q.next = r.next
       /\ q.terminated = r.terminated /\ q.out = r.out /\ q.arrived = r.arrived
       /\ q.plans = ps /\ q.woken = w /\ q.listening = r.listening /\ q.sink = r.sink
  BY <1>2, <1>7, <1>9, <1>13 DEF SessionState
<1>16. ~ q.woken => /\ ~ r.woken /\ q.listening = r.listening
                    /\ r.sink = "waiting" => q.sink = "waiting"
                    /\ Quiet(r.plans) => Quiet(q.plans)
  BY <1>9, <1>14, <1>15
<1>17. QED
  BY <1>1, <1>2, <1>8, <1>13, <1>15, <1>16, PeerOk

(* The sink is ready again.                                                 *)
LEMMA DrainOk ==
  ASSUME Inv, NEW s \in Session, Drain(s)
  PROVE  Inv'
<1>1. PICK r : r = session[s]
  OBVIOUS
<1>2. /\ r \in SessionState /\ r.pc \in {"fill", "idle", "sink"} /\ PlansOk(r.plans)
      /\ r.arrived <= Len(r.job.objects) + 1 /\ r.woken \in BOOLEAN
  <2>1. SessionOk(s, r) /\ r.pc \in {"sink", "idle"}
    BY <1>1, MyState DEF Drain
  <2>2. r \in SessionState /\ PlansOk(r.plans) /\ r.arrived <= Len(r.job.objects) + 1
    BY <2>1 DEF SessionOk, PlansFit, OfJob
  <2>3. QED
    BY <2>1, <2>2 DEF SessionState
<1>3. PICK w : w = (r.woken \/ r.sink = "waiting")
  OBVIOUS
<1>4. w \in BOOLEAN /\ (~ w => ~ r.woken /\ r.sink # "waiting")
  BY <1>2, <1>3
<1>5. PICK q : q = [r EXCEPT !.sink = "free", !.woken = w]
  OBVIOUS
<1>6. budget' = budget /\ Become(s, q)
  <2>1. q = [r EXCEPT !.sink = "free", !.woken = @ \/ r.sink = "waiting"]
    BY <1>3, <1>5
  <2>2. QED
    BY <1>1, <2>1 DEF Drain
<1>7. /\ q \in SessionState /\ q.pc = r.pc /\ q.job = r.job /\ q.window = r.window
      /\ q.alloc = r.alloc /\ q.ticket = r.ticket /\ q.missing = r.missing /\ q.next = r.next
      /\ q.terminated = r.terminated /\ q.out = r.out /\ q.arrived = r.arrived
      /\ q.plans = r.plans /\ q.woken = w /\ q.listening = r.listening
  BY <1>2, <1>4, <1>5 DEF SessionState
<1>8. SameParts(r.plans, q.plans)
  BY <1>2, <1>7 DEF SameParts, SamePart
<1>9. ~ q.woken => /\ ~ r.woken /\ q.listening = r.listening
                   /\ r.sink = "waiting" => q.sink = "waiting"
                   /\ Quiet(r.plans) => Quiet(q.plans)
  BY <1>4, <1>7
<1>10. QED
  BY <1>1, <1>2, <1>6, <1>7, <1>8, <1>9, PeerOk

(* Nobody has a frame yet.                                                  *)
LEMMA BlankOk ==
  ASSUME NEW s \in Session, NEW j \in Jobs[s], NEW w \in j.windows
  PROVE  SessionOk(s, Blank(j, w)) /\ Blank(j, w).alloc = 0 /\ Blank(j, w).ticket = FALSE
<1>1. j \in AnyJob
  BY DEF AnyJob
<1>2. /\ j.start \in Nat /\ j.end \in Nat /\ j.start < j.end /\ w \in Nat \ {0}
      /\ Len(j.objects) \in Nat /\ Cursors[j][0] = 0
  BY <1>1, CursorFacts
<1>3. PICK none : none = <<>>
  OBVIOUS
<1>4. none \in Seq(PlanType) /\ none \in Seq(Nat) /\ Len(none) = 0 /\ none = [i \in 1..0 |-> i]
  BY <1>3
<1>5. PICK r : r = Blank(j, w)
  OBVIOUS
<1>6. r = [pc |-> "off", job |-> j, window |-> w, alloc |-> 0, ticket |-> FALSE,
           missing |-> 0, next |-> 0, arrived |-> 0, listening |-> FALSE,
           terminated |-> FALSE, plans |-> none, sink |-> "free", woken |-> FALSE,
           out |-> none]
  BY <1>3, <1>5 DEF Blank
<1>7. /\ r.pc = "off" /\ r.job = j /\ r.window = w /\ r.alloc = 0 /\ r.ticket = FALSE
      /\ r.missing = 0 /\ r.next = 0 /\ r.arrived = 0 /\ r.terminated = FALSE
      /\ r.plans = none /\ r.out = none /\ r.woken = FALSE
  BY <1>6
<1>8. r \in SessionState
  BY <1>1, <1>2, <1>4, <1>6 DEF SessionState
<1>9. OfJob(s, r)
  BY <1>2, <1>7, StreamAssumption DEF OfJob
<1>10. PlansFit(r)
  <2>1. FrontFirst(none)
    BY <1>4 DEF FrontFirst
  <2>2. PlansOk(none) /\ Committed(none) = 0
    BY <1>3, NoPlans
  <2>3. QED
    BY <1>7, <2>1, <2>2 DEF PlansFit
<1>11. InOrder(r)
  <2>1. \A b : [i \in 1..0 |-> b + i - 1] = [i \in 1..0 |-> i]
    OBVIOUS
  <2>2. QED
    BY <1>4, <1>7, <2>1 DEF InOrder
<1>12. Placed(r)
  <2>1. Cursor(r, 0) = 0
    BY <1>2, <1>7 DEF Cursor
  <2>2. Useful(r, 0) = 0
    BY <1>2, <1>7 DEF Useful, Most, Least
  <2>3. QED
    BY <1>2, <1>3, <1>4, <1>7, <2>1, <2>2 DEF Placed
<1>13. Holds(r) /\ Grown(r) /\ Armed(r) /\ r.pc \notin {"closing", "sink"}
  BY <1>3, <1>7 DEF Holds, Grown, Armed, AtRest, Live
<1>14. SessionOk(s, r)
  BY <1>8, <1>9, <1>10, <1>11, <1>12, <1>13 DEF SessionOk
<1>15. QED
  BY <1>5, <1>7, <1>14

LEMMA InitOk == Init => Inv
<1>1. SUFFICES ASSUME Init PROVE Inv
  OBVIOUS
<1>2. PICK b : b = budget
  OBVIOUS
<1>3. PICK f : f = session
  OBVIOUS
<1>4. /\ b = [free |-> Capacity, waiters |-> <<>>, granted |-> {}]
      /\ f = [s \in Session |-> f[s]]
      /\ \A s \in Session : \E j \in Jobs[s] : \E w \in j.windows : f[s] = Blank(j, w)
  BY <1>1, <1>2, <1>3 DEF Init, NewBudget, Blanks
<1>5. b.free = Capacity /\ b.waiters = <<>> /\ b.granted = {} /\ Capacity \in Nat
  BY <1>4, StreamAssumption
<1>6. QueueOk(b) /\ Tickets(b) = {} /\ Idle(b) = Capacity
  <2>1. PICK none : none = <<>>
    OBVIOUS
  <2>2. none \in Seq(Session) /\ Len(none) = 0 /\ ToSet(none) = {}
    BY <2>1 DEF ToSet
  <2>3. b.waiters = none
    BY <1>5, <2>1
  <2>4. QueueOk(b)
    BY <1>4, <1>5, <2>1, <2>2, <2>3 DEF QueueOk
  <2>5. Tickets(b) = {}
    BY <1>5, <2>2, <2>3 DEF Tickets, InLine
  <2>6. Idle(b) = Capacity
    BY <1>5, FS_EmptySet DEF Idle
  <2>7. QED
    BY <2>4, <2>5, <2>6
<1>7. \A s \in Session : SessionOk(s, f[s]) /\ f[s].alloc = 0 /\ f[s].ticket = FALSE
  <2>1. TAKE s \in Session
  <2>2. PICK j \in Jobs[s] : \E w \in j.windows : f[s] = Blank(j, w)
    BY <1>4
  <2>3. PICK w \in j.windows : f[s] = Blank(j, w)
    BY <2>2
  <2>4. SessionOk(s, Blank(j, w)) /\ Blank(j, w).alloc = 0 /\ Blank(j, w).ticket = FALSE
    BY BlankOk
  <2>5. QED
    BY <2>3, <2>4
<1>8. \A s \in Session : TicketOk(b, s, f[s])
  BY <1>5, <1>6, <1>7 DEF TicketOk
<1>9. SumFunctionOnSet(Allocs(f), Session) = 0
  <2>1. PICK h : h = Allocs(f)
    OBVIOUS
  <2>2. \A s \in Session : h[s] = 0
    BY <1>7, <2>1 DEF Allocs
  <2>3. SumFunctionOnSet(h, Session) = 0
    BY <2>2, SumZero, StreamAssumption
  <2>4. QED
    BY <2>1, <2>3, Zenon
<1>10. AllOk(b, f)
  <2>1. f = [s \in Session |-> f[s]]
    BY <1>4
  <2>2. Idle(b) + SumFunctionOnSet(Allocs(f), Session) = Capacity
    BY <1>5, <1>6, <1>9
  <2>3. QueueOk(b) /\ \A s \in Session : SessionOk(s, f[s]) /\ TicketOk(b, s, f[s])
    BY <1>6, <1>7, <1>8
  <2>4. QED
    BY <2>1, <2>2, <2>3, Zenon DEF AllOk
<1>11. QED
  BY <1>2, <1>3, <1>10, Zenon DEF Inv

(* Every step of every session keeps the invariant.                         *)
LEMMA NextOk == Inv /\ [Next]_vars => Inv'
<1>1. SUFFICES ASSUME Inv, [Next]_vars PROVE Inv'
  OBVIOUS
<1>2. CASE UNCHANGED vars
  <2>1. budget' = budget /\ session' = session
    BY <1>2 DEF vars
  <2>2. QED
    BY <1>1, <2>1 DEF Inv
<1>3. CASE Next
  <2>1. PICK s \in Session :
          \/ Create(s) \/ Measure(s)
          \/ \E w \in session[s].job.windows : SetWindow(s, w)
          \/ Refresh(s) \/ Grow(s) \/ Queue(s) \/ Fill(s) \/ Emit(s)
          \/ Close(s) \/ Linger(s) \/ Cancel(s) \/ Arrive(s)
          \/ \E i \in DOMAIN session[s].plans, a \in {"answered", "failed"} : Answer(s, i, a)
          \/ \E i \in DOMAIN session[s].plans, item \in {"frame", "end", "error"} :
               Deliver(s, i, item)
          \/ Drain(s)
    BY <1>3, Zenon DEF Next, Poll
  <2>2. CASE Create(s)
    BY <1>1, <2>2, CreateOk
  <2>3. CASE Measure(s)
    BY <1>1, <2>3, MeasureOk
  <2>4. CASE \E w \in session[s].job.windows : SetWindow(s, w)
    BY <1>1, <2>4, SetWindowOk
  <2>5. CASE Refresh(s)
    BY <1>1, <2>5, RefreshOk
  <2>6. CASE Grow(s)
    BY <1>1, <2>6, GrowOk
  <2>7. CASE Queue(s)
    BY <1>1, <2>7, QueueStepOk
  <2>8. CASE Fill(s)
    BY <1>1, <2>8, FillOk
  <2>9. CASE Emit(s)
    BY <1>1, <2>9, EmitOk
  <2>10. CASE Close(s) \/ Cancel(s)
    BY <1>1, <2>10, CloseOk
  <2>11. CASE Arrive(s)
    BY <1>1, <2>11, ArriveOk
  <2>12. CASE \E i \in DOMAIN session[s].plans, a \in {"answered", "failed"} : Answer(s, i, a)
    BY <1>1, <2>12, AnswerOk
  <2>13. CASE \E i \in DOMAIN session[s].plans, item \in {"frame", "end", "error"} :
                Deliver(s, i, item)
    BY <1>1, <2>13, DeliverOk
  <2>14. CASE Drain(s)
    BY <1>1, <2>14, DrainOk
  <2>15. CASE Linger(s)
    BY <1>1, <2>15, LingerOk
  <2>16. QED
    BY <2>1, <2>2, <2>3, <2>4, <2>5, <2>6, <2>7, <2>8, <2>9, <2>10, <2>11, <2>12, <2>13,
       <2>14, <2>15
<1>4. QED
  BY <1>1, <1>2, <1>3

(* What the theorems rest on: the budget and the sessions agree, and each   *)
(* session is in a state its own code can explain.                          *)
THEOREM Invariant == Spec => []Inv
<1>1. QED
  BY InitOk, NextOk, PTL DEF Spec

----------------------------------------------------------------------------
(* The theorems *)

(* Every part of the state has its type, and every plan has as many frames  *)
(* emitted, received and authorised, in this order, as the object allows.   *)
THEOREM TypeCorrect == Spec => []TypeOK
<1>1. Inv => TypeOK
  <2>1. SUFFICES ASSUME Inv PROVE TypeOK
    OBVIOUS
  <2>2. PICK b : b = budget
    OBVIOUS
  <2>3. PICK f : f = session
    OBVIOUS
  <2>4. AllOk(b, f)
    BY <2>1, <2>2, <2>3, Zenon DEF Inv
  <2>5. QueueOk(b) /\ \A s \in Session : SessionOk(s, f[s])
    BY <2>4 DEF AllOk
  <2>6. /\ b.free \in 0..Capacity
        /\ \A s \in Session : f[s].alloc \in 0..Capacity
    BY <2>4, AllocFacts
  <2>7. b.waiters \in Seq(Session) /\ b.granted \subseteq Session
    BY <2>5 DEF QueueOk
  <2>8. ASSUME NEW s \in Session
        PROVE  LET r == f[s] IN
               /\ r.pc \in Working \cup Ended \cup {"off", "created", "measured", "closing"}
               /\ r.job \in Jobs[s] /\ r.window \in r.job.windows
               /\ r.missing \in 0..Capacity
               /\ r.next \in 0..Len(r.job.objects) /\ r.arrived \in 0..(Len(r.job.objects) + 1)
               /\ {r.ticket, r.listening, r.terminated, r.woken} \subseteq BOOLEAN
               /\ r.sink \in {"free", "busy", "waiting"}
               /\ \A i \in DOMAIN r.plans :
                    LET p == r.plans[i] IN
                    /\ p \in PlanType
                    /\ p.lo <= p.emit /\ p.emit <= p.recv /\ p.recv <= p.auth
                    /\ p.auth <= p.hi
    <3>1. PICK r : r = f[s]
      OBVIOUS
    <3>2. r \in SessionState /\ OfJob(s, r) /\ PlansFit(r)
      BY <2>5, <3>1 DEF SessionOk
    <3>3. /\ Len(r.job.objects) \in Nat /\ Capacity \in Nat
      <4>1. r.job \in AnyJob
        BY <3>2 DEF SessionState
      <4>2. QED
        BY <4>1, CursorFacts, StreamAssumption
    <3>4. /\ r.pc \in Working \cup Ended \cup {"off", "created", "measured", "closing"}
          /\ r.missing \in Nat /\ r.next \in Nat /\ r.arrived \in Nat
          /\ r.ticket \in BOOLEAN /\ r.listening \in BOOLEAN /\ r.terminated \in BOOLEAN
          /\ r.woken \in BOOLEAN /\ r.sink \in {"free", "busy", "waiting"}
      BY <3>2 DEF SessionState
    <3>5. /\ r.job \in Jobs[s] /\ r.window \in r.job.windows /\ r.missing \in 0..Capacity
          /\ r.next \in 0..Len(r.job.objects) /\ r.arrived \in 0..(Len(r.job.objects) + 1)
      BY <3>2, <3>3, <3>4 DEF OfJob
    <3>6. \A i \in DOMAIN r.plans : PlanOk(r.plans[i])
      BY <3>2 DEF PlansFit, PlansOk
    <3>7. {r.ticket, r.listening, r.terminated, r.woken} \subseteq BOOLEAN
      BY <3>4
    <3>8. QED
      BY <3>1, <3>4, <3>5, <3>6, <3>7 DEF PlanOk
  <2>9. QED
    BY <2>2, <2>3, <2>6, <2>7, <2>8 DEF TypeOK
<1>2. QED
  BY <1>1, Invariant, PTL

(* Permits are neither lost nor minted: growing, waiting in line, shrinking, *)
(* failing and dropping a session always leave each frame of the budget     *)
(* free, in one allocation, or assigned to one ticket.                      *)
THEOREM PermitsAreConserved == Spec => []PermitsConserved
<1>1. Inv => PermitsConserved
  <2>1. SUFFICES ASSUME Inv PROVE PermitsConserved
    OBVIOUS
  <2>2. PICK b : b = budget
    OBVIOUS
  <2>3. PICK f : f = session
    OBVIOUS
  <2>4. AllOk(b, f)
    BY <2>1, <2>2, <2>3, Zenon DEF Inv
  <2>5. PICK n : n = SumFunctionOnSet(Allocs(f), Session)
    OBVIOUS
  <2>6. SumFunction([s \in Session |-> f[s].alloc]) = n
    BY <2>5 DEF SumFunction, SumFunctionOnSet, Allocs
  <2>7. Idle(b) + n = Capacity
    BY <2>4, <2>5, Zenon DEF AllOk
  <2>8. n \in Nat /\ b.free \in Nat /\ Cardinality(b.granted) \in Nat
    <3>1. PICK h : h = Allocs(f)
      OBVIOUS
    <3>2. \A s \in Session : h[s] \in Nat
      <4>1. \A s \in Session : f[s].alloc \in 0..Capacity
        BY <2>4, AllocFacts
      <4>2. QED
        BY <3>1, <4>1 DEF Allocs
    <3>3. SumFunctionOnSet(h, Session) \in Nat
      BY <3>2, SumNat, StreamAssumption
    <3>4. IsFiniteSet(b.granted) /\ b.free \in Nat
      BY <2>4, StreamAssumption, FS_Subset DEF AllOk, QueueOk
    <3>5. QED
      BY <2>5, <3>1, <3>3, <3>4, FS_CardinalityType
  <2>9. b.free + n + Cardinality(b.granted) = Capacity
    BY <2>7, <2>8 DEF Idle
  <2>10. QED
    BY <2>2, <2>3, <2>6, <2>9 DEF PermitsConserved
<1>2. QED
  BY <1>1, Invariant, PTL

(* Every frame authorised for download and not handed over is covered by    *)
(* the session's allocation, also after it was shrunk (stream.rs:531).      *)
THEOREM FramesAreCovered == Spec => []FramesCovered
<1>1. Inv => FramesCovered
  <2>1. SUFFICES ASSUME Inv, NEW s \in Session
                 PROVE  Committed(session[s].plans) <= session[s].alloc
    BY DEF FramesCovered
  <2>2. SessionOk(s, session[s])
    BY <2>1, MyState
  <2>3. QED
    BY <2>2 DEF SessionOk, PlansFit
<1>2. QED
  BY <1>1, Invariant, PTL

(* A later object is given frames only when every earlier one has all it    *)
(* needs: the front object never waits for frames held behind it.           *)
THEOREM FrontIsServedFirst == Spec => []FrontServedFirst
<1>1. Inv => FrontServedFirst
  <2>1. SUFFICES ASSUME Inv, NEW s \in Session, NEW i \in DOMAIN session[s].plans,
                        NEW j \in DOMAIN session[s].plans, i < j,
                        session[s].plans[j].auth > session[s].plans[j].lo
                 PROVE  session[s].plans[i].auth = session[s].plans[i].hi
    BY DEF FrontServedFirst
  <2>2. PICK ps : ps = session[s].plans
    OBVIOUS
  <2>3. PlansOk(ps) /\ FrontFirst(ps)
    BY <2>1, <2>2, MyState DEF SessionOk, PlansFit
  <2>4. DOMAIN ps = 1..Len(ps)
    BY <2>3 DEF PlansOk
  <2>5. ps[i].auth = ps[i].hi
    BY <2>1, <2>2, <2>3, <2>4 DEF FrontFirst
  <2>6. QED
    BY <2>2, <2>5
<1>2. QED
  BY <1>1, Invariant, PTL

(* A driver at rest has a waker in everything that can move it and has left *)
(* nothing undone: no wakeup is lost, and the window is authorised in full. *)
THEOREM RestIsArmed == Spec => []RestsArmed
<1>1. Inv => RestsArmed
  <2>1. SUFFICES ASSUME Inv, NEW s \in Session, NEW r, r = session[s],
                        r.pc = "idle", ~ r.woken
                 PROVE
      /\ \A i \in DOMAIN r.plans :
           LET p == r.plans[i] IN
           /\ p.url \in {"waiting", "held", "used"}
           /\ p.url = "held" => p.auth = p.emit
           /\ Polled(p) => p.link = "waiting"
      /\ Wants(r, 0) => r.listening
      /\ r.plans = <<>> => IF Exhausted(r) THEN r.sink = "waiting" ELSE r.listening
      /\ r.plans # <<>> /\ r.plans[1].recv > r.plans[1].emit => r.sink = "waiting"
      /\ r.window > r.alloc /\ r.alloc = 1 => r.ticket /\ s \in ToSet(budget.waiters)
      /\ Committed(r.plans) >= Least(Share(r), Remaining(r.plans))
    BY DEF RestsArmed
  <2>2. SessionOk(s, r) /\ TicketOk(budget, s, r) /\ AtRest(r)
    BY <2>1, MyState DEF AtRest
  <2>3. Armed(r) /\ Grown(r) /\ PlansOk(r.plans)
    BY <2>2 DEF SessionOk, PlansFit
  <2>4. Quiet(r.plans) /\ Waits(r) /\ Dealt(r)
    BY <2>2, <2>3 DEF Armed
  <2>5. /\ r.plans # <<>> /\ r.plans[1].recv > r.plans[1].emit => r.sink = "waiting"
        /\ Exhausted(r) => r.sink = "waiting"
    BY <2>1, <2>2, <2>3 DEF Armed
  <2>6. r.window > r.alloc /\ r.alloc = 1 => r.ticket
    BY <2>2, <2>3 DEF Grown
  <2>7. r.ticket => s \in ToSet(budget.waiters)
    BY <2>1, <2>2 DEF TicketOk, Tickets, InLine
  <2>8. DOMAIN r.plans = 1..Len(r.plans)
    BY <2>3 DEF PlansOk
  <2>9. QED
    BY <2>4, <2>5, <2>6, <2>7, <2>8 DEF Quiet, Waits, Dealt
<1>2. QED
  BY <1>1, Invariant, PTL

----------------------------------------------------------------------------
(* What a session promises its reader *)

(* The state of OrderedDelivery that the sessions stand for.                *)
WantView(f) == [s \in Session |-> Wanted[f[s].job]]
OutView(f) == [s \in Session |-> f[s].out]
Status(r) == IF r.pc \in Ended THEN r.pc ELSE "open"
StatusView(f) == [s \in Session |-> Status(f[s])]

(* A step of one session is a step of one reader.                           *)
LEMMA ViewStep ==
  ASSUME Inv, NEW s \in Session, NEW q, Become(s, q),
         DOMAIN q = DOMAIN session[s], q.job = session[s].job
  PROVE  /\ WantView(session') = WantView(session)
         /\ OutView(session') = [OutView(session) EXCEPT ![s] = q.out]
         /\ StatusView(session') = [StatusView(session) EXCEPT ![s] = Status(q)]
<1>1. PICK f : f = session
  OBVIOUS
<1>2. PICK g : g = session'
  OBVIOUS
<1>3. PICK b : b = budget
  OBVIOUS
<1>4. PICK c : c = budget'
  OBVIOUS
<1>5. g = Awake(b, f, c, s, q)
  <2>1. session' = Awake(budget, session, budget', s, q)
    BY BecomeIs
  <2>2. QED
    BY <1>1, <1>2, <1>3, <1>4, <2>1, Zenon
<1>6. \A t \in Session : f[t] \in SessionState
  <2>1. AllOk(b, f)
    BY <1>1, <1>3, Zenon DEF Inv
  <2>2. QED
    BY <2>1 DEF AllOk, SessionOk
<1>7. \A t \in Session :
        LET p == IF t = s THEN q ELSE f[t] IN
        g[t].job = f[t].job /\ g[t].out = p.out /\ g[t].pc = p.pc
  <2>1. TAKE t \in Session
  <2>2. PICK p : p = IF t = s THEN q ELSE f[t]
    OBVIOUS
  <2>3. PICK w : w = (t \in c.granted \ b.granted)
    OBVIOUS
  <2>4. g[t] = [p EXCEPT !.woken = @ \/ w]
    BY <1>5, <2>2, <2>3, Zenon DEF Awake, Waken
  <2>5. DOMAIN p = DOMAIN f[t] /\ p.job = f[t].job
    BY <1>1, <2>2
  <2>6. {"job", "out", "pc", "woken"} \subseteq DOMAIN p
    BY <1>6, <2>5 DEF SessionState
  <2>7. PICK x : x = (p.woken \/ w)
    OBVIOUS
  <2>8. g[t] = [p EXCEPT !.woken = x]
    BY <2>4, <2>7
  <2>9. g[t].job = p.job /\ g[t].out = p.out /\ g[t].pc = p.pc
    BY <2>6, <2>8
  <2>10. QED
    BY <2>2, <2>5, <2>9
<1>8. WantView(g) = WantView(f)
  BY <1>7 DEF WantView
<1>9. OutView(g) = [OutView(f) EXCEPT ![s] = q.out]
  BY <1>7 DEF OutView
<1>10. StatusView(g) = [StatusView(f) EXCEPT ![s] = Status(q)]
  BY <1>7 DEF StatusView, Status
<1>11. QED
  BY <1>1, <1>2, <1>8, <1>9, <1>10, Zenon

(* A step that hands nothing over and ends nothing changes nothing for the  *)
(* reader.                                                                  *)
Unseen == /\ WantView(session') = WantView(session)
          /\ OutView(session') = OutView(session)
          /\ StatusView(session') = StatusView(session)

LEMMA StayUnseen ==
  ASSUME Inv, NEW s \in Session, NEW q, Become(s, q),
         DOMAIN q = DOMAIN session[s], q.job = session[s].job, q.out = session[s].out,
         session[s].pc \notin Ended, q.pc \notin Ended
  PROVE  Unseen
<1>1. /\ WantView(session') = WantView(session)
      /\ OutView(session') = [OutView(session) EXCEPT ![s] = q.out]
      /\ StatusView(session') = [StatusView(session) EXCEPT ![s] = Status(q)]
  BY ViewStep
<1>2. [OutView(session) EXCEPT ![s] = q.out] = OutView(session)
  BY DEF OutView
<1>3. [StatusView(session) EXCEPT ![s] = Status(q)] = StatusView(session)
  BY DEF StatusView, Status
<1>4. QED
  BY <1>1, <1>2, <1>3 DEF Unseen

(* The steps that prepare a poll, and those of the peers.                   *)
LEMMA PrepareUnseen ==
  ASSUME Inv, NEW s \in Session,
         \/ Measure(s) \/ (\E w \in session[s].job.windows : SetWindow(s, w))
         \/ Refresh(s) \/ Grow(s) \/ Queue(s) \/ Linger(s)
  PROVE  Unseen
<1>1. session[s] \in SessionState
  BY MyState DEF SessionOk
<1>2. CASE Measure(s)
  <2>1. PICK m : Become(s, [session[s] EXCEPT !.pc = "measured", !.missing = m])
    BY <1>2 DEF Measure
  <2>2. PICK q : q = [session[s] EXCEPT !.pc = "measured", !.missing = m]
    OBVIOUS
  <2>3. /\ DOMAIN q = DOMAIN session[s] /\ q.job = session[s].job
        /\ q.out = session[s].out /\ q.pc \notin Ended
    BY <1>1, <2>2 DEF SessionState, Ended
  <2>4. session[s].pc \notin Ended /\ Become(s, q)
    BY <1>2, <2>1, <2>2 DEF Measure, Ended
  <2>5. QED
    BY <2>3, <2>4, StayUnseen
<1>3. CASE \E w \in session[s].job.windows : SetWindow(s, w)
  <2>1. PICK w \in session[s].job.windows : SetWindow(s, w)
    BY <1>3
  <2>2. PICK q : q = [session[s] EXCEPT !.window = w]
    OBVIOUS
  <2>3. session[s].pc \notin Ended /\ Become(s, q)
    BY <2>1, <2>2 DEF SetWindow, Ended
  <2>4. /\ DOMAIN q = DOMAIN session[s] /\ q.job = session[s].job
        /\ q.out = session[s].out /\ q.pc = session[s].pc
    BY <1>1, <2>2 DEF SessionState
  <2>5. QED
    BY <2>3, <2>4, StayUnseen
<1>4. CASE Refresh(s)
  <2>1. PICK a, t, m : Become(s, [session[s] EXCEPT !.pc = "grow", !.woken = FALSE,
                                     !.alloc = a, !.ticket = t, !.missing = m])
    BY <1>4, Zenon DEF Refresh
  <2>2. PICK q : q = [session[s] EXCEPT !.pc = "grow", !.woken = FALSE,
                                     !.alloc = a, !.ticket = t, !.missing = m]
    OBVIOUS
  <2>3. /\ DOMAIN q = DOMAIN session[s] /\ q.job = session[s].job
        /\ q.out = session[s].out /\ q.pc \notin Ended
    BY <1>1, <2>2 DEF SessionState, Ended
  <2>4. session[s].pc \notin Ended /\ Become(s, q)
    BY <1>4, <2>1, <2>2 DEF Refresh, Ended
  <2>5. QED
    BY <2>3, <2>4, StayUnseen
<1>5. CASE Grow(s)
  <2>1. PICK n : n = IF session[s].missing <= budget.free THEN session[s].missing ELSE 0
    OBVIOUS
  <2>2. PICK q : q = [session[s] EXCEPT
            !.pc = IF @ = "grow" THEN "queue" ELSE "fresh",
            !.alloc = @ + (IF session[s].missing <= budget.free
                           THEN session[s].missing ELSE 0),
            !.missing = 0]
    OBVIOUS
  <2>3. Become(s, q)
    <3>1. Become(s, [session[s] EXCEPT
              !.pc = IF @ = "grow" THEN "queue" ELSE "fresh",
              !.alloc = @ + (IF session[s].missing <= budget.free
                             THEN session[s].missing ELSE 0),
              !.missing = 0])
      BY <1>5, Zenon DEF Grow
    <3>2. QED
      BY <2>2, <3>1, Zenon
  <2>4. PICK p : p = IF session[s].pc = "grow" THEN "queue" ELSE "fresh"
    OBVIOUS
  <2>5. PICK a : a = session[s].alloc + n
    OBVIOUS
  <2>6. q = [session[s] EXCEPT !.pc = p, !.alloc = a, !.missing = 0]
    BY <2>1, <2>2, <2>4, <2>5
  <2>7. /\ DOMAIN q = DOMAIN session[s] /\ q.job = session[s].job
        /\ q.out = session[s].out /\ q.pc \notin Ended
    BY <1>1, <2>4, <2>6 DEF SessionState, Ended
  <2>8. session[s].pc \notin Ended
    BY <1>5 DEF Grow, Ended
  <2>9. QED
    BY <2>3, <2>7, <2>8, StayUnseen
<1>6. CASE Queue(s)
  <2>1. PICK a, t : Become(s, [session[s] EXCEPT !.pc = "fill", !.alloc = a, !.ticket = t])
    <3>1. \/ Become(s, [session[s] EXCEPT !.pc = "fill", !.alloc = @ + 1])
          \/ Become(s, [session[s] EXCEPT !.pc = "fill", !.ticket = TRUE])
          \/ \E k : Become(s, [session[s] EXCEPT !.pc = "fill", !.alloc = k])
      <4> DEFINE r == session[s]
                 short == r.window > r.alloc /\ ~ r.ticket
                 k == Keep(r, r.plans)
                 takes == /\ budget' = Take(budget, 1)
                          /\ Become(s, [r EXCEPT !.pc = "fill", !.alloc = @ + 1])
                 waits == /\ budget' = Enqueue(budget, s)
                          /\ Become(s, [r EXCEPT !.pc = "fill", !.ticket = TRUE])
                 shrinks == /\ budget' = Give(budget, Most(0, r.alloc - k))
                            /\ Become(s, [r EXCEPT !.pc = "fill", !.alloc = Least(@, k)])
      <4>1. (CASE short /\ budget.free >= 1 -> takes
               [] short /\ budget.free = 0 -> waits
               [] OTHER -> shrinks)
        BY <1>6, Zenon DEF Queue
      <4>2. ~ (short /\ budget.free >= 1 /\ budget.free = 0)
        OBVIOUS
      <4>3. takes \/ waits \/ shrinks
        <5> HIDE DEF takes, waits, shrinks, short
        <5>1. QED
          BY <4>1, <4>2
      <4>4. QED
        BY <4>3
    <3>2. \A a : [session[s] EXCEPT !.pc = "fill", !.alloc = a]
                   = [session[s] EXCEPT !.pc = "fill", !.alloc = a, !.ticket = session[s].ticket]
      BY <1>1 DEF SessionState
    <3>3. [session[s] EXCEPT !.pc = "fill", !.ticket = TRUE]
            = [session[s] EXCEPT !.pc = "fill", !.alloc = session[s].alloc, !.ticket = TRUE]
      BY <1>1 DEF SessionState
    <3>4. QED
      BY <3>1, <3>2, <3>3
  <2>2. PICK q : q = [session[s] EXCEPT !.pc = "fill", !.alloc = a, !.ticket = t]
    OBVIOUS
  <2>3. /\ DOMAIN q = DOMAIN session[s] /\ q.job = session[s].job
        /\ q.out = session[s].out /\ q.pc \notin Ended
    BY <1>1, <2>2 DEF SessionState, Ended
  <2>4. session[s].pc \notin Ended /\ Become(s, q)
    BY <1>6, <2>1, <2>2 DEF Queue, Ended
  <2>5. QED
    BY <2>3, <2>4, StayUnseen
<1>7. CASE Linger(s)
  <2>1. PICK q : q = LingerRests(session[s])
    OBVIOUS
  <2>2. /\ DOMAIN q = DOMAIN session[s] /\ q.job = session[s].job
        /\ q.out = session[s].out /\ q.pc \notin Ended
    BY <1>1, <2>1 DEF SessionState, Ended, LingerRests
  <2>3. session[s].pc \notin Ended /\ Become(s, q)
    BY <1>7, <2>1 DEF Linger, LingerRests, Ended
  <2>4. QED
    BY <2>2, <2>3, StayUnseen
<1>8. QED
  BY <1>2, <1>3, <1>4, <1>5, <1>6, <1>7

(* A peer moves.                                                            *)
LEMMA PeersUnseen ==
  ASSUME Inv, NEW s \in Session,
         \/ Arrive(s)
         \/ \E i \in DOMAIN session[s].plans, a \in {"answered", "failed"} : Answer(s, i, a)
         \/ \E i \in DOMAIN session[s].plans, item \in {"frame", "end", "error"} :
              Deliver(s, i, item)
         \/ Drain(s)
  PROVE  Unseen
<1>1. PICK r : r = session[s]
  OBVIOUS
<1>2. r \in SessionState
  BY <1>1, MyState DEF SessionOk
<1>3. r.pc \notin Ended
  BY <1>1 DEF Arrive, Answer, Deliver, Drain, Listens, Ended
<1>4. \E q : /\ Become(s, q) /\ DOMAIN q = DOMAIN r
             /\ q.job = r.job /\ q.out = r.out /\ q.pc = r.pc
  <2>1. CASE Arrive(s)
    <3>1. PICK q : q = [r EXCEPT !.arrived = @ + 1, !.listening = FALSE,
                                 !.woken = @ \/ r.listening]
      OBVIOUS
    <3>2. Become(s, q)
      BY <1>1, <2>1, <3>1 DEF Arrive
    <3>3. DOMAIN q = DOMAIN r /\ q.job = r.job /\ q.out = r.out /\ q.pc = r.pc
      BY <1>2, <3>1 DEF SessionState
    <3>4. QED
      BY <3>2, <3>3
  <2>2. CASE \E i \in DOMAIN session[s].plans, a \in {"answered", "failed"} : Answer(s, i, a)
    <3>1. PICK i, a : Answer(s, i, a)
      BY <2>2
    <3>2. PICK q : q = [r EXCEPT !.plans[i].url = a, !.woken = TRUE]
      OBVIOUS
    <3>3. Become(s, q)
      BY <1>1, <3>1, <3>2 DEF Answer
    <3>4. DOMAIN q = DOMAIN r /\ q.job = r.job /\ q.out = r.out /\ q.pc = r.pc
      BY <1>2, <3>2 DEF SessionState
    <3>5. QED
      BY <3>3, <3>4
  <2>3. CASE \E i \in DOMAIN session[s].plans, item \in {"frame", "end", "error"} :
               Deliver(s, i, item)
    <3>1. PICK i, item : Deliver(s, i, item)
      BY <2>3
    <3>2. PICK q : q = [r EXCEPT !.plans[i].link = item,
                                 !.woken = @ \/ r.plans[i].link = "waiting"]
      OBVIOUS
    <3>3. Become(s, q)
      BY <1>1, <3>1, <3>2 DEF Deliver
    <3>4. DOMAIN q = DOMAIN r /\ q.job = r.job /\ q.out = r.out /\ q.pc = r.pc
      BY <1>2, <3>2 DEF SessionState
    <3>5. QED
      BY <3>3, <3>4
  <2>4. CASE Drain(s)
    <3>1. PICK q : q = [r EXCEPT !.sink = "free", !.woken = @ \/ r.sink = "waiting"]
      OBVIOUS
    <3>2. Become(s, q)
      BY <1>1, <2>4, <3>1 DEF Drain
    <3>3. DOMAIN q = DOMAIN r /\ q.job = r.job /\ q.out = r.out /\ q.pc = r.pc
      BY <1>2, <3>1 DEF SessionState
    <3>4. QED
      BY <3>2, <3>3
  <2>5. QED
    BY <2>1, <2>2, <2>3, <2>4
<1>5. PICK q : /\ Become(s, q) /\ DOMAIN q = DOMAIN r
               /\ q.job = r.job /\ q.out = r.out /\ q.pc = r.pc
  BY <1>4
<1>6. QED
  BY <1>1, <1>3, <1>5, StayUnseen

(* A session gives up: it is refused, or leaves without success.            *)
GivenUp(s) ==
  /\ StatusView(session)[s] = "open"
  /\ \E reason \in {"failed", "rejected"} :
       StatusView(session') = [StatusView(session) EXCEPT ![s] = reason]
  /\ WantView(session') = WantView(session)
  /\ OutView(session') = OutView(session)

LEMMA EndSeen ==
  ASSUME Inv, NEW s \in Session, NEW q, Become(s, q),
         DOMAIN q = DOMAIN session[s], q.job = session[s].job, q.out = session[s].out,
         session[s].pc \notin Ended, q.pc \in Ended
  PROVE  /\ StatusView(session)[s] = "open"
         /\ StatusView(session') = [StatusView(session) EXCEPT ![s] = q.pc]
         /\ WantView(session') = WantView(session)
         /\ OutView(session') = OutView(session)
<1>1. /\ WantView(session') = WantView(session)
      /\ OutView(session') = [OutView(session) EXCEPT ![s] = q.out]
      /\ StatusView(session') = [StatusView(session) EXCEPT ![s] = Status(q)]
  BY ViewStep
<1>2. [OutView(session) EXCEPT ![s] = q.out] = OutView(session)
  BY DEF OutView
<1>3. Status(q) = q.pc /\ StatusView(session)[s] = "open"
  BY DEF StatusView, Status
<1>4. QED
  BY <1>1, <1>2, <1>3

LEMMA LeaveSeen ==
  ASSUME Inv, NEW s \in Session, NEW pc \in {"done", "failed"}, Leave(s, pc),
         session[s].pc \notin Ended
  PROVE  /\ StatusView(session)[s] = "open"
         /\ StatusView(session') = [StatusView(session) EXCEPT ![s] = pc]
         /\ WantView(session') = WantView(session)
         /\ OutView(session') = OutView(session)
<1>1. session[s] \in SessionState
  BY MyState DEF SessionOk
<1>2. PICK q : q = [session[s] EXCEPT !.pc = pc, !.alloc = 0, !.ticket = FALSE,
                                      !.plans = <<>>, !.woken = FALSE]
  OBVIOUS
<1>3. /\ DOMAIN q = DOMAIN session[s] /\ q.job = session[s].job
      /\ q.out = session[s].out /\ q.pc = pc
  BY <1>1, <1>2 DEF SessionState
<1>4. Become(s, q)
  BY <1>2 DEF Leave
<1>5. q.pc \in Ended
  BY <1>3 DEF Ended
<1>6. /\ StatusView(session)[s] = "open"
      /\ StatusView(session') = [StatusView(session) EXCEPT ![s] = q.pc]
      /\ WantView(session') = WantView(session)
      /\ OutView(session') = OutView(session)
  BY <1>3, <1>4, <1>5, EndSeen
<1>7. QED
  BY <1>3, <1>6

(* Creation is unseen or a refusal, and so are a fill and a cancellation.   *)
LEMMA CreateSeen ==
  ASSUME Inv, NEW s \in Session, Create(s)
  PROVE  Unseen \/ GivenUp(s)
<1>1. session[s] \in SessionState /\ session[s].pc \notin Ended
  BY MyState DEF SessionOk, Create, Ended
<1>2. CASE budget.free >= 1
  <2>1. PICK q : q = [session[s] EXCEPT !.pc = "created", !.alloc = 1]
    OBVIOUS
  <2>2. Become(s, q)
    BY <1>2, <2>1 DEF Create
  <2>3. /\ DOMAIN q = DOMAIN session[s] /\ q.job = session[s].job
        /\ q.out = session[s].out /\ q.pc \notin Ended
    BY <1>1, <2>1 DEF SessionState, Ended
  <2>4. QED
    BY <1>1, <2>2, <2>3, StayUnseen
<1>3. CASE ~ (budget.free >= 1)
  <2>1. PICK q : q = [session[s] EXCEPT !.pc = "rejected"]
    OBVIOUS
  <2>2. Become(s, q)
    BY <1>3, <2>1 DEF Create
  <2>3. /\ DOMAIN q = DOMAIN session[s] /\ q.job = session[s].job
        /\ q.out = session[s].out /\ q.pc = "rejected" /\ q.pc \in Ended
    BY <1>1, <2>1 DEF SessionState, Ended
  <2>4. QED
    BY <1>1, <2>2, <2>3, EndSeen DEF GivenUp
<1>4. QED
  BY <1>2, <1>3

LEMMA FillSeen ==
  ASSUME Inv, NEW s \in Session, Fill(s)
  PROVE  Unseen \/ GivenUp(s)
<1>1. PICK r : r = session[s]
  OBVIOUS
<1>2. r.pc = "fill" /\ r.pc \notin Ended
  BY <1>1, FillIs DEF Ended
<1>3. /\ r \in SessionState /\ PlansOk(r.plans) /\ FrontFirst(r.plans) /\ Placed(r)
      /\ Committed(r.plans) <= r.alloc /\ r.alloc \in 1..Capacity
  <2>1. Live(r)
    BY <1>2 DEF Live
  <2>2. QED
    BY <1>1, <1>2, <2>1, MyState DEF SessionOk, PlansFit
<1>4. CASE FillEnds(r)
  <2>1. Leave(s, "failed") /\ "failed" \in {"done", "failed"}
    BY <1>1, <1>4, FillIs
  <2>2. /\ StatusView(session)[s] = "open"
        /\ StatusView(session') = [StatusView(session) EXCEPT ![s] = "failed"]
        /\ WantView(session') = WantView(session)
        /\ OutView(session') = OutView(session)
    BY <1>1, <1>2, <2>1, LeaveSeen
  <2>3. QED
    BY <2>2 DEF GivenUp
<1>5. CASE ~ FillEnds(r)
  <2>1. PICK q : q = FillMoves(r)
    OBVIOUS
  <2>2. Become(s, q)
    BY <1>1, <1>5, <2>1, FillIs
  <2>3. PICK z : z = Filled(r)
    OBVIOUS
  <2>4. z \in SessionState /\ Refilled(r, z)
    <3>1. /\ ~ SourceFails(r)
          /\ \A i \in DOMAIN Opened(r).plans :
               Opened(r).plans[i].url # "failed" /\ ~ ItemFails(Opened(r).plans[i])
      BY <1>5, Zenon DEF FillEnds
    <3>2. Filled(r) \in SessionState /\ Refilled(r, Filled(r))
      BY <1>3, <3>1, FilledFacts
    <3>3. QED
      BY <2>3, <3>2, Zenon
  <2>5. z.job = r.job /\ z.out = r.out
    BY <1>3, <2>4, RefilledFields
  <2>6. PICK pc : pc = IF Exhausted(z) THEN "closing" ELSE "sink"
    OBVIOUS
  <2>7. PICK w : w = IF Exhausted(z) THEN r.woken ELSE z.woken
    OBVIOUS
  <2>8. q = [z EXCEPT !.pc = pc, !.woken = w]
    <3>1. q = [z EXCEPT !.pc = IF Exhausted(z) THEN "closing" ELSE "sink",
                        !.woken = IF Exhausted(z) THEN r.woken ELSE @]
      BY <2>1, <2>3, Zenon DEF FillMoves
    <3>2. QED
      BY <2>6, <2>7, <3>1
  <2>9. /\ DOMAIN q = DOMAIN r /\ q.job = z.job /\ q.out = z.out /\ q.pc = pc
    BY <1>3, <2>4, <2>8 DEF SessionState
  <2>10. q.pc \notin Ended
    BY <2>6, <2>9 DEF Ended
  <2>11. QED
    BY <1>1, <1>2, <2>2, <2>5, <2>9, <2>10, StayUnseen
<1>6. QED
  BY <1>4, <1>5

LEMMA CancelSeen ==
  ASSUME Inv, NEW s \in Session, Cancel(s)
  PROVE  GivenUp(s)
<1>1. Leave(s, "failed") /\ session[s].pc \notin Ended /\ "failed" \in {"done", "failed"}
  BY DEF Cancel, Ended
<1>2. /\ StatusView(session)[s] = "open"
      /\ StatusView(session') = [StatusView(session) EXCEPT ![s] = "failed"]
      /\ WantView(session') = WantView(session)
      /\ OutView(session') = OutView(session)
  BY <1>1, LeaveSeen
<1>3. QED
  BY <1>2 DEF GivenUp

(* What a request wants is what its objects have of it.                     *)
LEMMA WantedFacts ==
  ASSUME NEW r \in SessionState
  PROVE  LET last == Cursor(r, Len(r.job.objects)) IN
         /\ last \in Nat /\ r.job.start \in Nat /\ Useful(r, last) \in Nat
         /\ Wanted[r.job] = [i \in 1..Useful(r, last) |-> r.job.start + i - 1]
         /\ Placed(r) => Useful(r, Cursor(r, r.next)) <= Useful(r, last)
         /\ Placed(r) /\ Exhausted(r) => Useful(r, Cursor(r, r.next)) = Useful(r, last)
<1> DEFINE last == Cursor(r, Len(r.job.objects))
           c == Cursor(r, r.next)
           a == r.job.start
           e == r.job.end
<1>1. r.job \in AnyJob
  BY DEF SessionState
<1>2. /\ last \in Nat /\ a \in Nat /\ e \in Nat /\ a < e
  BY <1>1, CursorFacts DEF Cursor
<1>3. Placed(r) => c \in Nat /\ c <= last /\ (r.terminated => c = last)
  <2>1. Placed(r) => /\ r.next \in 0..Len(r.job.objects)
                     /\ r.terminated => r.next = Len(r.job.objects)
    BY DEF Placed
  <2>2. Len(r.job.objects) \in Nat
    BY <1>1, CursorFacts
  <2>3. \A m, n \in 0..Len(r.job.objects) : m <= n => Cursors[r.job][m] <= Cursors[r.job][n]
    BY <1>1, CursorFacts
  <2>4. \A n \in 0..Len(r.job.objects) : Cursors[r.job][n] \in Nat
    BY <1>1, CursorFacts
  <2>5. QED
    BY <2>1, <2>2, <2>3, <2>4 DEF Cursor
<1>4. Exhausted(r) => r.terminated \/ c >= e
  BY DEF Exhausted
<1>5. /\ Useful(r, last) = Most(0, Least(last, e) - a)
      /\ Useful(r, c) = Most(0, Least(c, e) - a)
  BY DEF Useful
<1>6. Wanted[r.job] = [i \in 1..Most(0, Least(e, last) - a) |-> a + i - 1]
  BY <1>1 DEF Wanted, AnyJob, Cursor
<1> HIDE DEF last, c, a, e
<1>7. Most(0, Least(e, last) - a) = Useful(r, last) /\ Useful(r, last) \in Nat
  BY <1>2, <1>5 DEF Most, Least
<1>8. Placed(r) => Useful(r, c) <= Useful(r, last)
  BY <1>2, <1>3, <1>5 DEF Most, Least
<1>9. Placed(r) /\ Exhausted(r) => Useful(r, c) = Useful(r, last)
  BY <1>2, <1>3, <1>4, <1>5 DEF Most, Least
<1>10. Wanted[r.job] = [i \in 1..Useful(r, last) |-> a + i - 1]
  BY <1>6, <1>7, Zenon
<1>11. QED
  BY <1>2, <1>7, <1>8, <1>9, <1>10 DEF last, c, a

(* The driver ends with success: everything has been handed over.           *)
Succeeded(s) ==
  /\ StatusView(session)[s] = "open"
  /\ OutView(session)[s] = WantView(session)[s]
  /\ StatusView(session') = [StatusView(session) EXCEPT ![s] = "done"]
  /\ WantView(session') = WantView(session)
  /\ OutView(session') = OutView(session)

LEMMA CloseSeen ==
  ASSUME Inv, NEW s \in Session, Close(s)
  PROVE  Succeeded(s)
<1>1. PICK r : r = session[s]
  OBVIOUS
<1>2. r.pc = "closing" /\ Leave(s, "done") /\ r.pc \notin Ended /\ "done" \in {"done", "failed"}
  BY <1>1 DEF Close, Ended
<1>3. r \in SessionState /\ Placed(r) /\ Exhausted(r) /\ InOrder(r)
  BY <1>1, <1>2, MyState DEF SessionOk
<1>4. r.out = Wanted[r.job]
  <2>1. PICK m : m = Useful(r, Cursor(r, Len(r.job.objects)))
    OBVIOUS
  <2>2. r.plans = <<>>
    BY <1>3 DEF Exhausted
  <2>3. Len(r.out) = Useful(r, Cursor(r, r.next))
    BY <1>3, <2>2 DEF Placed
  <2>4. Len(r.out) = m
    BY <1>3, <2>1, <2>3, WantedFacts
  <2>5. Wanted[r.job] = [i \in 1..m |-> r.job.start + i - 1]
    BY <1>3, <2>1, WantedFacts
  <2>6. r.out = [i \in 1..Len(r.out) |-> r.job.start + i - 1]
    BY <1>3 DEF InOrder
  <2>7. r.out = [i \in 1..m |-> r.job.start + i - 1]
    BY <2>4, <2>6, Zenon
  <2>8. QED
    BY <2>5, <2>7, Zenon
<1>5. OutView(session)[s] = WantView(session)[s]
  BY <1>1, <1>4 DEF OutView, WantView
<1>6. /\ StatusView(session)[s] = "open"
      /\ StatusView(session') = [StatusView(session) EXCEPT ![s] = "done"]
      /\ WantView(session') = WantView(session)
      /\ OutView(session') = OutView(session)
  BY <1>1, <1>2, LeaveSeen
<1>7. QED
  BY <1>5, <1>6 DEF Succeeded

(* A frame is handed over, and it is the next one.                          *)
HandedOver(s) ==
  /\ StatusView(session)[s] = "open"
  /\ Len(OutView(session)[s]) < Len(WantView(session)[s])
  /\ OutView(session') =
       [OutView(session) EXCEPT ![s] = Append(@, WantView(session)[s][Len(@) + 1])]
  /\ WantView(session') = WantView(session)
  /\ StatusView(session') = StatusView(session)

(* The next frame of the request is the one the front plan hands over.      *)
LEMMA NextWanted ==
  ASSUME NEW r \in SessionState, PlansOk(r.plans), Placed(r), FrontFirst(r.plans),
         r.plans # <<>>, r.plans[1].recv > r.plans[1].emit
  PROVE  /\ Len(r.out) < Len(Wanted[r.job])
         /\ r.plans[1].base + r.plans[1].emit = Wanted[r.job][Len(r.out) + 1]
<1>1. PICK ps : ps = Handed(r.plans)
  OBVIOUS
<1>2. PICK x : x = r.plans[1].base + r.plans[1].emit
  OBVIOUS
<1>3. PICK o : o = Append(r.out, x)
  OBVIOUS
<1>4. ps \in Seq(PlanType) /\ x \in Nat
  BY <1>1, <1>2, HandedType
<1>5. o \in Seq(Nat) /\ r.out \in Seq(Nat) /\ Len(r.out) \in Nat
  BY <1>3, <1>4 DEF SessionState
<1>6. PICK q : q = [r EXCEPT !.plans = ps, !.out = o]
  OBVIOUS
<1>7. /\ q \in SessionState /\ q.job = r.job /\ q.next = r.next
      /\ q.terminated = r.terminated /\ q.plans = ps /\ q.out = o
  BY <1>4, <1>5, <1>6 DEF SessionState
<1>8. q.plans = Handed(r.plans) /\ q.out = Append(r.out, r.plans[1].base + r.plans[1].emit)
  BY <1>1, <1>2, <1>3, <1>7
<1>9. x = r.job.start + Len(r.out) /\ Len(r.out) < Useful(r, Cursor(r, r.next))
  BY <1>2, <1>7, <1>8, HandedFacts
<1>10. PICK m : m = Useful(r, Cursor(r, Len(r.job.objects)))
  OBVIOUS
<1>11. PICK c : c = Useful(r, Cursor(r, r.next))
  OBVIOUS
<1>12. PICK a : a = r.job.start
  OBVIOUS
<1>13. PICK w : w = Wanted[r.job]
  OBVIOUS
<1>14. /\ m \in Nat /\ c <= m /\ w = [i \in 1..m |-> a + i - 1] /\ a \in Nat
  BY <1>10, <1>11, <1>12, <1>13, WantedFacts
<1>15. PICK n : n = Len(r.out)
  OBVIOUS
<1>16. n \in Nat /\ n < c /\ x = a + n
  BY <1>5, <1>9, <1>11, <1>12, <1>15
<1>17. c \in Nat
  <2>1. r.job \in AnyJob /\ r.job.start \in Nat /\ r.job.end \in Nat
    BY CursorFacts DEF SessionState
  <2>2. Cursor(r, r.next) \in Nat
    BY <2>1, CursorFacts DEF Placed, Cursor
  <2>3. QED
    BY <1>11, <2>1, <2>2 DEF Useful, Most, Least
<1>18. Len(w) = m
  BY <1>14
<1>19. n + 1 \in 1..m
  BY <1>14, <1>16, <1>17
<1>20. w[n + 1] = a + n
  <2>1. PICK k : k = n + 1
    OBVIOUS
  <2>2. w[k] = a + k - 1
    BY <1>14, <1>19, <2>1
  <2>3. QED
    BY <1>14, <1>16, <2>1, <2>2
<1>21. n < Len(w) /\ x = w[n + 1]
  BY <1>14, <1>16, <1>17, <1>18, <1>20
<1>22. QED
  BY <1>2, <1>13, <1>15, <1>21

LEMMA EmitSeen ==
  ASSUME Inv, NEW s \in Session, Emit(s)
  PROVE  Unseen \/ HandedOver(s)
<1>1. PICK r : r = session[s]
  OBVIOUS
<1>2. /\ r \in SessionState /\ r.pc = "sink" /\ r.pc \notin Ended
      /\ PlansOk(r.plans) /\ FrontFirst(r.plans) /\ Placed(r)
  <2>1. SessionOk(s, r) /\ r.pc = "sink"
    BY <1>1, MyState DEF Emit
  <2>2. r.pc \notin Ended
    BY <2>1 DEF Ended
  <2>3. QED
    BY <2>1, <2>2 DEF SessionOk, PlansFit
<1>3. /\ EmitReady(r) => \E sink \in {"free", "busy"} : Become(s, EmitHands(r, sink))
      /\ EmitBlocked(r) => Become(s, [r EXCEPT !.pc = "idle", !.sink = "waiting"])
      /\ ~ EmitReady(r) /\ ~ EmitBlocked(r) => Become(s, [r EXCEPT !.pc = "idle"])
  BY <1>1, <1>2, EmitIs
<1>4. CASE EmitReady(r)
  <2>1. PICK sink \in {"free", "busy"} : Become(s, EmitHands(r, sink))
    BY <1>3, <1>4
  <2>2. PICK ps : ps = Handed(r.plans)
    OBVIOUS
  <2>3. PICK a : a = Least(r.alloc, Keep(r, Handed(r.plans)))
    OBVIOUS
  <2>4. PICK o : o = Append(r.out, r.plans[1].base + r.plans[1].emit)
    OBVIOUS
  <2>5. PICK q : q = [r EXCEPT !.pc = "idle", !.plans = ps, !.sink = sink,
                               !.alloc = a, !.woken = TRUE, !.out = o]
    OBVIOUS
  <2>6. Become(s, q)
    <3>1. EmitHands(r, sink) = q
      BY <2>2, <2>3, <2>4, <2>5 DEF EmitHands
    <3>2. QED
      BY <2>1, <3>1, Zenon
  <2>7. /\ DOMAIN q = DOMAIN r /\ q.job = r.job /\ q.out = o /\ q.pc = "idle"
    BY <1>2, <2>5 DEF SessionState
  <2>8. /\ WantView(session') = WantView(session)
        /\ OutView(session') = [OutView(session) EXCEPT ![s] = q.out]
        /\ StatusView(session') = [StatusView(session) EXCEPT ![s] = Status(q)]
    BY <1>1, <2>6, <2>7, ViewStep
  <2>9. [StatusView(session) EXCEPT ![s] = Status(q)] = StatusView(session)
        /\ StatusView(session)[s] = "open"
    BY <1>1, <1>2, <2>7 DEF StatusView, Status, Ended
  <2>10. /\ Len(r.out) < Len(Wanted[r.job])
         /\ r.plans[1].base + r.plans[1].emit = Wanted[r.job][Len(r.out) + 1]
    BY <1>2, <1>4, NextWanted DEF EmitReady
  <2>11. OutView(session)[s] = r.out /\ WantView(session)[s] = Wanted[r.job]
         /\ DOMAIN OutView(session) = Session
    BY <1>1 DEF OutView, WantView
  <2>12. PICK v : v = OutView(session)
    OBVIOUS
  <2>13. PICK w : w = WantView(session)
    OBVIOUS
  <2>14. q.out = Append(v[s], w[s][Len(v[s]) + 1])
    BY <2>4, <2>7, <2>10, <2>11, <2>12, <2>13
  <2>15. OutView(session') = [v EXCEPT ![s] = Append(@, w[s][Len(@) + 1])]
    BY <2>8, <2>12, <2>14
  <2>16. QED
    BY <2>8, <2>9, <2>10, <2>11, <2>12, <2>13, <2>15 DEF HandedOver
<1>5. ASSUME NEW q, Become(s, q), DOMAIN q = DOMAIN r, q.job = r.job, q.out = r.out,
             q.pc = "idle"
      PROVE  Unseen
  <2>1. q.pc \notin Ended
    BY <1>5 DEF Ended
  <2>2. QED
    BY <1>1, <1>2, <1>5, <2>1, StayUnseen
<1>6. CASE EmitBlocked(r)
  <2>1. PICK q : q = [r EXCEPT !.pc = "idle", !.sink = "waiting"]
    OBVIOUS
  <2>2. DOMAIN q = DOMAIN r /\ q.job = r.job /\ q.out = r.out /\ q.pc = "idle"
    BY <1>2, <2>1 DEF SessionState
  <2>3. Become(s, q)
    BY <1>3, <1>6, <2>1
  <2>4. QED
    BY <1>5, <2>2, <2>3
<1>7. CASE ~ EmitReady(r) /\ ~ EmitBlocked(r)
  <2>1. PICK q : q = [r EXCEPT !.pc = "idle"]
    OBVIOUS
  <2>2. DOMAIN q = DOMAIN r /\ q.job = r.job /\ q.out = r.out /\ q.pc = "idle"
    BY <1>2, <2>1 DEF SessionState
  <2>3. Become(s, q)
    BY <1>3, <1>7, <2>1
  <2>4. QED
    BY <1>5, <2>2, <2>3
<1>8. QED
  BY <1>4, <1>6, <1>7

(* Every step of the sessions is one of the readers', or none.              *)
LEMMA SeenStep ==
  ASSUME Inv, [Next]_vars
  PROVE  \/ Unseen
         \/ \E s \in Session : HandedOver(s) \/ Succeeded(s) \/ GivenUp(s)
<1>1. CASE UNCHANGED vars
  BY <1>1 DEF vars, Unseen
<1>2. CASE Next
  <2>1. PICK s \in Session :
          \/ Create(s) \/ Measure(s)
          \/ \E w \in session[s].job.windows : SetWindow(s, w)
          \/ Refresh(s) \/ Grow(s) \/ Queue(s) \/ Fill(s) \/ Emit(s)
          \/ Close(s) \/ Linger(s) \/ Cancel(s) \/ Arrive(s)
          \/ \E i \in DOMAIN session[s].plans, a \in {"answered", "failed"} : Answer(s, i, a)
          \/ \E i \in DOMAIN session[s].plans, item \in {"frame", "end", "error"} :
               Deliver(s, i, item)
          \/ Drain(s)
    BY <1>2, Zenon DEF Next, Poll
  <2>2. CASE \/ Measure(s) \/ (\E w \in session[s].job.windows : SetWindow(s, w))
             \/ Refresh(s) \/ Grow(s) \/ Queue(s) \/ Linger(s)
    BY <2>2, PrepareUnseen
  <2>3. CASE \/ Arrive(s)
             \/ \E i \in DOMAIN session[s].plans, a \in {"answered", "failed"} :
                  Answer(s, i, a)
             \/ \E i \in DOMAIN session[s].plans, item \in {"frame", "end", "error"} :
                  Deliver(s, i, item)
             \/ Drain(s)
    BY <2>3, PeersUnseen
  <2>4. CASE Create(s)
    BY <2>4, CreateSeen
  <2>5. CASE Fill(s)
    BY <2>5, FillSeen
  <2>6. CASE Emit(s)
    BY <2>6, EmitSeen
  <2>7. CASE Close(s)
    BY <2>7, CloseSeen
  <2>8. CASE Cancel(s)
    BY <2>8, CancelSeen
  <2>9. QED
    BY <2>1, <2>2, <2>3, <2>4, <2>5, <2>6, <2>7, <2>8
<1>3. QED
  BY <1>1, <1>2

(* The sink receives the frames of the request, each once and in order, and *)
(* a driver that ends with success has handed over all that the source has. *)
THEOREM DeliveryIsOrdered == Spec => DeliversInOrder
<1>1. Init => Delivery!Init
  <2>1. SUFFICES ASSUME Init PROVE Delivery!Init
    OBVIOUS
  <2>2. \A s \in Session : session[s].out = <<>> /\ session[s].pc = "off"
    BY <2>1 DEF Init, Blanks, Blank
  <2>3. [s \in Session |-> session[s].out] = [s \in Session |-> <<>>]
    BY <2>2
  <2>4. [s \in Session |-> IF session[s].pc \in Ended THEN session[s].pc ELSE "open"]
          = [s \in Session |-> "open"]
    BY <2>2 DEF Ended
  <2>5. QED
    BY <2>3, <2>4, Zenon DEF Delivery!Init
<1>2. ASSUME Inv, [Next]_vars
      PROVE  [Delivery!Next]_<<[s \in Session |-> Wanted[session[s].job]],
                               [s \in Session |-> session[s].out],
                               [s \in Session |-> IF session[s].pc \in Ended
                                                  THEN session[s].pc ELSE "open"]>>
  <2>1. CASE Unseen
    BY <2>1 DEF Unseen, WantView, OutView, StatusView, Status
  <2>2. ASSUME NEW s \in Session, HandedOver(s) PROVE Delivery!Hand(s)
    <3>1. UNCHANGED <<WantView(session), StatusView(session)>>
      BY <2>2 DEF HandedOver
    <3>2. QED
      BY <2>2, <3>1, Zenon DEF HandedOver, Delivery!Hand, WantView, OutView, StatusView, Status
  <2>3. ASSUME NEW s \in Session, Succeeded(s) PROVE Delivery!Succeed(s)
    <3>1. UNCHANGED <<WantView(session), OutView(session)>>
      BY <2>3 DEF Succeeded
    <3>2. QED
      BY <2>3, <3>1, Zenon DEF Succeeded, Delivery!Succeed, WantView, OutView, StatusView, Status
  <2>4. ASSUME NEW s \in Session, GivenUp(s) PROVE Delivery!GiveUp(s)
    <3>1. UNCHANGED <<WantView(session), OutView(session)>>
      BY <2>4 DEF GivenUp
    <3>2. QED
      BY <2>4, <3>1, Zenon DEF GivenUp, Delivery!GiveUp, WantView, OutView, StatusView, Status
  <2>5. \/ Unseen
        \/ \E s \in Session : HandedOver(s) \/ Succeeded(s) \/ GivenUp(s)
    BY <1>2, SeenStep
  <2>6. QED
    BY <2>1, <2>2, <2>3, <2>4, <2>5 DEF Delivery!Next
<1>3. QED
  BY <1>1, <1>2, Invariant, PTL DEF Spec, DeliversInOrder, Delivery!Spec
============================================================================
