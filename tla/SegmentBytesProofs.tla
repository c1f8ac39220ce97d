------------------------- MODULE SegmentBytesProofs -------------------------
(***************************************************************************)
(* Proofs about SegmentBytes, for every payload, tag and limit, all files  *)
(* and ranges, any chunks and faults.                                      *)
(***************************************************************************)
EXTENDS SegmentBytes, SumFacts

----------------------------------------------------------------------------
(* Division *)

(* Quotient and remainder.                                                  *)
LEMMA DivMod ==
  ASSUME NEW a \in Nat, NEW d \in Nat \ {0}
  PROVE  /\ a \div d \in Nat /\ a % d \in 0..(d - 1)
         /\ a = (a \div d) * d + (a % d)
OBVIOUS

(* The product grows by a whole divisor at a time.                          *)
LEMMA Steps ==
  ASSUME NEW d \in Nat, NEW x \in Nat, NEW y \in Nat
  PROVE  /\ x * d \in Nat /\ (x + 1) * d = x * d + d
         /\ (x + y) * d = x * d + y * d
         /\ x < y => x * d + d <= y * d
         /\ x <= y => x * d <= y * d
<1>1. x * d \in Nat /\ y * d \in Nat /\ (x + 1) * d = x * d + d /\ (x + y) * d = x * d + y * d
  OBVIOUS
<1>2. ASSUME x <= y PROVE x * d <= y * d
  <2>1. PICK z \in Nat : y = x + z
    <3>1. y - x \in Nat /\ y = x + (y - x)
      BY <1>2
    <3> QED
      BY <3>1
  <2>2. y * d = x * d + z * d /\ z * d \in Nat
    BY <2>1
  <2> QED
    BY <1>1, <2>2
<1>3. ASSUME x < y PROVE x * d + d <= y * d
  <2>1. PICK z \in Nat : y = (x + 1) + z
    <3>1. y - (x + 1) \in Nat /\ y = (x + 1) + (y - (x + 1))
      BY <1>3
    <3> QED
      BY <3>1
  <2>2. y * d = (x + 1) * d + z * d /\ z * d \in Nat
    BY <2>1
  <2> QED
    BY <1>1, <2>2
<1> QED
  BY <1>1, <1>2, <1>3

(* A quotient is known by the multiples around the dividend.                *)
LEMMA DivIs ==
  ASSUME NEW d \in Nat \ {0}, NEW a \in Nat, NEW q \in Nat, q * d <= a, a < q * d + d
  PROVE  a \div d = q
<1> DEFINE r == a \div d
<1>1. r \in Nat /\ r * d <= a /\ a < r * d + d
  BY DivMod
<1> HIDE DEF r
<1>2. ~ (r < q)
  <2>1. r < q => r * d + d <= q * d
    BY <1>1, Steps
  <2>2. r * d \in Nat /\ q * d \in Nat
    BY <1>1, Steps
  <2> QED
    BY <1>1, <2>1, <2>2
<1>3. ~ (q < r)
  <2>1. q < r => q * d + d <= r * d
    BY <1>1, Steps
  <2>2. r * d \in Nat /\ q * d \in Nat
    BY <1>1, Steps
  <2> QED
    BY <1>1, <2>1, <2>2
<1>4. r = q
  BY <1>1, <1>2, <1>3
<1> QED
  BY <1>4 DEF r

(* The number of frames that n bytes fill.                                  *)
LEMMA Ceil ==
  ASSUME NEW d \in Nat \ {0}, NEW a \in Nat
  PROVE  /\ CeilDiv(a, d) \in Nat
         /\ a <= CeilDiv(a, d) * d /\ CeilDiv(a, d) * d < a + d
         /\ a > 0 => CeilDiv(a, d) > 0 /\ (CeilDiv(a, d) - 1) * d < a
         /\ CeilDiv(a, d) = IF a % d = 0 THEN a \div d ELSE a \div d + 1
<1> DEFINE c == CeilDiv(a, d)
           b == a + d - 1
           q == a \div d
<1>1. b \in Nat /\ c = b \div d
  BY DEF CeilDiv
<1>2. c \in Nat /\ c * d <= b /\ b < c * d + d
  BY <1>1, DivMod
<1>3. c * d \in Nat /\ (c > 0 => c * d = (c - 1) * d + d)
  <2>1. c * d \in Nat
    BY <1>2, Steps
  <2>2. ASSUME c > 0 PROVE c * d = (c - 1) * d + d
    <3>1. c - 1 \in Nat /\ (c - 1) + 1 = c
      BY <1>2, <2>2
    <3> HIDE DEF c
    <3>2. ((c - 1) + 1) * d = (c - 1) * d + d
      BY <3>1, Steps
    <3> QED
      BY <3>1, <3>2
  <2> QED
    BY <2>1, <2>2
<1>4. q \in Nat /\ a = q * d + (a % d) /\ a % d \in 0..(d - 1) /\ q * d \in Nat /\ (q + 1) * d = q * d + d
  BY DivMod, Steps
<1>5. c = IF a % d = 0 THEN q ELSE q + 1
  <2>1. CASE a % d = 0
    <3>1. q * d <= b /\ b < q * d + d
      BY <1>4, <2>1
    <3> HIDE DEF b, q, c
    <3> QED
      BY <1>1, <1>4, <2>1, <3>1, DivIs
  <2>2. CASE a % d # 0
    <3>1. (q + 1) * d <= b /\ b < (q + 1) * d + d /\ q + 1 \in Nat
      BY <1>4, <2>2
    <3> HIDE DEF b, q, c
    <3> QED
      BY <1>1, <2>2, <3>1, DivIs
  <2> QED
    BY <2>1, <2>2
<1> HIDE DEF c, q
<1>6. a > 0 => c > 0
  <2> SUFFICES ASSUME a > 0, c = 0 PROVE FALSE
    BY <1>2
  <2>1. c * d = 0
    BY <1>2
  <2> QED
    BY <1>2, <2>1
<1>7. a <= c * d /\ c * d < a + d
  BY <1>2, <1>3
<1>8. a > 0 => (c - 1) * d < a
  <2> SUFFICES ASSUME a > 0 PROVE (c - 1) * d < a
    OBVIOUS
  <2> DEFINE e == (c - 1) * d
             f == c * d
  <2>1. f = e + d /\ f \in Nat /\ f < a + d
    BY <1>3, <1>6, <1>7
  <2>2. e \in Int
    BY <1>2
  <2> HIDE DEF e, f
  <2>3. e < a
    BY <2>1, <2>2
  <2> QED
    BY <2>3 DEF e
<1> QED
  BY <1>2, <1>5, <1>6, <1>7, <1>8 DEF c, q
----------------------------------------------------------------------------
(* The bytes of a body *)

(* Sequences with the same values are the same.                             *)
LEMMA SeqEqual ==
  ASSUME NEW S, NEW x \in Seq(S), NEW y \in Seq(S), Len(x) = Len(y),
         \A i \in 1..Len(x) : x[i] = y[i]
  PROVE  x = y
OBVIOUS

(* What concatenation and selection do, position by position.               *)
LEMMA Joined ==
  ASSUME NEW S, NEW x \in Seq(S), NEW y \in Seq(S)
  PROVE  /\ x \o y \in Seq(S) /\ Len(x \o y) = Len(x) + Len(y)
         /\ \A i \in 1..(Len(x) + Len(y)) :
              (x \o y)[i] = IF i <= Len(x) THEN x[i] ELSE y[i - Len(x)]
OBVIOUS

Selection(x, i, j) == SubSeq(x, i + 1, j)

(* A selection has the values that follow position i, up to j.              *)
LEMMA SelectionIs ==
  ASSUME NEW S, NEW x \in Seq(S), NEW i \in Nat, NEW j \in Nat, i <= j, j <= Len(x)
  PROVE  /\ Selection(x, i, j) \in Seq(S) /\ Len(Selection(x, i, j)) = j - i
         /\ \A m \in 1..(j - i) : Selection(x, i, j)[m] = x[i + m]
<1>1. i + 1 \in 1..(Len(x) + 1) /\ j \in 0..Len(x)
  OBVIOUS
<1> QED
  BY <1>1 DEF Selection

(* A run of bytes k.from+1, ..., k.to, its length and its values.           *)
LEMMA ContentIs ==
  ASSUME NEW k \in Nat, NEW a \in Nat, NEW b \in Nat, a <= b
  PROVE  /\ Content(k, a, b) \in Seq(Byte) /\ Len(Content(k, a, b)) = b - a
         /\ \A i \in 1..(b - a) : Content(k, a, b)[i] = <<k, a + i>>
<1>1. b - a \in Nat
  OBVIOUS
<1>2. \A i \in 1..(b - a) : <<k, a + i>> \in Byte
  BY DEF Byte
<1> QED
  BY <1>1, <1>2 DEF Content

(* Two runs that meet are one.                                              *)
LEMMA ContentJoins ==
  ASSUME NEW k \in Nat, NEW a \in Nat, NEW b \in Nat, NEW c \in Nat, a <= b, b <= c
  PROVE  Content(k, a, b) \o Content(k, b, c) = Content(k, a, c)
<1> DEFINE x == Content(k, a, b)
           y == Content(k, b, c)
           z == Content(k, a, c)
<1>x. x \in Seq(Byte) /\ Len(x) = b - a /\ \A i \in 1..(b - a) : x[i] = <<k, a + i>>
  BY ContentIs
<1>y. y \in Seq(Byte) /\ Len(y) = c - b /\ \A i \in 1..(c - b) : y[i] = <<k, b + i>>
  BY ContentIs
<1>z. z \in Seq(Byte) /\ Len(z) = c - a /\ \A i \in 1..(c - a) : z[i] = <<k, a + i>>
  <2>1. a <= c
    OBVIOUS
  <2> QED
    BY <2>1, ContentIs
<1> DEFINE w == x \o y
<1> HIDE DEF x, y, z
<1>1. /\ w \in Seq(Byte) /\ Len(w) = Len(x) + Len(y)
      /\ \A i \in 1..(Len(x) + Len(y)) : w[i] = IF i <= Len(x) THEN x[i] ELSE y[i - Len(x)]
  BY <1>x, <1>y, Joined
<1> HIDE DEF w
<1>2. Len(w) = c - a
  BY <1>1, <1>x, <1>y
<1>3. ASSUME NEW i \in 1..(c - a)
      PROVE  w[i] = z[i]
  <2>1. CASE i <= b - a
    <3>1. i \in 1..(b - a) /\ w[i] = x[i]
      BY <1>1, <1>x, <1>y, <2>1
    <3> QED
      BY <1>x, <1>z, <3>1
  <2>2. CASE i > b - a
    <3>1. i - (b - a) \in 1..(c - b) /\ b + (i - (b - a)) = a + i
      BY <2>2
    <3>2. w[i] = y[i - (b - a)]
      BY <1>1, <1>x, <1>y, <2>2
    <3> QED
      BY <1>y, <1>z, <3>1, <3>2
  <2> QED
    BY <2>1, <2>2
<1>4. w = z
  BY <1>1, <1>2, <1>3, <1>z, SeqEqual
<1> QED
  BY <1>4 DEF w, x, y, z

(* The bytes c+1, ..., d of a run of bytes.                                 *)
Part(k, a, b, c, d) == SubSeq(Content(k, a, b), (c - a) + 1, d - a)

(* A part of a run is a run.                                                *)
LEMMA ContentPart ==
  ASSUME NEW k \in Nat, NEW a \in Nat, NEW b \in Nat, NEW c \in Nat, NEW d \in Nat,
         a <= c, c <= d, d <= b
  PROVE  Part(k, a, b, c, d) = Content(k, c, d)
<1> DEFINE i == c - a
           j == d - a
           x == Content(k, a, b)
           y == SubSeq(x, i + 1, j)
           z == Content(k, c, d)
<1>0. i \in Nat /\ j \in Nat /\ i <= j /\ j <= b - a /\ j - i = d - c /\ a <= b
  OBVIOUS
<1>1. x \in Seq(Byte) /\ Len(x) = b - a /\ \A m \in 1..(b - a) : x[m] = <<k, a + m>>
  BY <1>0, ContentIs
<1>z. z \in Seq(Byte) /\ Len(z) = d - c /\ \A m \in 1..(d - c) : z[m] = <<k, c + m>>
  BY ContentIs
<1> HIDE DEF x, z
<1>2. y \in Seq(Byte) /\ Len(y) = j - i /\ \A m \in 1..(j - i) : y[m] = x[i + m]
  BY <1>0, <1>1, SelectionIs DEF Selection
<1>3. ASSUME NEW m \in 1..(j - i)
      PROVE  y[m] = z[m]
  <2>1. y[m] = x[i + m] /\ i + m \in 1..(b - a) /\ a + (i + m) = c + m
    BY <1>0, <1>2
  <2> QED
    BY <1>0, <1>1, <1>z, <2>1
<1> HIDE DEF y
<1>4. y = z
  BY <1>0, <1>z, <1>2, <1>3, SeqEqual
<1> QED
  BY <1>4 DEF x, y, z, i, j, Part

----------------------------------------------------------------------------
(* Uploading *)

(* The f-th frame of segment k when it is full, and when the segment ends   *)
(* after n bytes.                                                           *)
FullFrame(k, f) == Content(k, (f - 1) * Payload, f * Payload)
FrameOf(k, f, n) ==
  [p \in 1..Payload |-> LET i == (f - 1) * Payload + p IN IF i <= n THEN <<k, i>> ELSE Pad]

(* What an upload has made of the first n bytes of segment k, and what it   *)
(* stores when there are no more.                                           *)
Uploaded(k, n) ==
  [taken   |-> n,
   pending |-> Content(k, (n \div Payload) * Payload, n),
   frames  |-> [f \in 1..(n \div Payload) |-> FullFrame(k, f)]]
Stored(k, n) ==
  [frames |-> [f \in 1..CeilDiv(n, Payload) |-> FrameOf(k, f, n)], size |-> n]

Row == [frames : Seq(Seq(Byte)), size : 1..MaxBytes]

(* The segments of the store are what their bodies were.                    *)
StoreOK ==
  /\ store \in Seq(Row)
  /\ \A k \in 1..Len(store) : store[k] = Stored(k, Size(k))

UploadOK ==
  /\ job \in Jobs
  /\ Len(store) <= Len(Segments(job))
  /\ up.taken \in 0..MaxBytes /\ Len(up.pending) < Payload
  /\ pc = "body" => /\ Len(store) < Len(Segments(job))
                    /\ up = Uploaded(Len(store) + 1, up.taken)

(* The limits of a segment are numbers.                                     *)
LEMMA Limits == Payload \in Nat \ {0} /\ MaxFrames \in Nat \ {0} /\ MaxBytes \in Nat \ {0}
<1>1. Payload \in Nat \ {0} /\ MaxFrames \in Nat \ {0}
  BY BytesAssumption
<1>2. MaxFrames * Payload \in Nat /\ 0 * Payload + Payload <= MaxFrames * Payload
  BY <1>1, Steps
<1> QED
  BY <1>1, <1>2 DEF MaxBytes

(* A full frame is the frame of any body that reaches its end.              *)
LEMMA FullFrameIs ==
  ASSUME NEW k \in Nat, NEW f \in Nat \ {0}
  PROVE  /\ FullFrame(k, f) \in Seq(Byte) /\ Len(FullFrame(k, f)) = Payload
         /\ \A n \in Nat : f * Payload <= n => FullFrame(k, f) = FrameOf(k, f, n)
<1> DEFINE g == f - 1
           a == g * Payload
           b == f * Payload
<1>1. g \in Nat /\ f = g + 1
  OBVIOUS
<1>2. a \in Nat /\ b = a + Payload /\ b \in Nat
  <2> HIDE DEF g
  <2>1. a \in Nat /\ (g + 1) * Payload = a + Payload
    BY <1>1, Limits, Steps
  <2> QED
    BY <1>1, <2>1, Limits
<1> HIDE DEF g, a, b
<1>3. a <= b /\ b - a = Payload
  BY <1>2, Limits
<1>4. /\ Content(k, a, b) \in Seq(Byte) /\ Len(Content(k, a, b)) = Payload
      /\ \A i \in 1..Payload : Content(k, a, b)[i] = <<k, a + i>>
  <2>1. /\ Content(k, a, b) \in Seq(Byte) /\ Len(Content(k, a, b)) = b - a
        /\ \A i \in 1..(b - a) : Content(k, a, b)[i] = <<k, a + i>>
    BY <1>2, <1>3, ContentIs
  <2> QED
    BY <1>3, <2>1
<1>5. ASSUME NEW n \in Nat, b <= n
      PROVE  Content(k, a, b) = [p \in 1..Payload |-> IF a + p <= n THEN <<k, a + p>> ELSE Pad]
  <2>1. Content(k, a, b) = [p \in 1..Payload |-> <<k, a + p>>]
    BY <1>3 DEF Content
  <2>2. \A p \in 1..Payload : a + p <= n
    BY <1>2, <1>5, Limits
  <2> QED
    BY <2>1, <2>2, Zenon
<1> QED
  BY <1>4, <1>5 DEF FullFrame, FrameOf, a, b, g
(* An upload and a chunk, after which t bytes are taken.                     *)
Extended(u, chunk, t) ==
  [taken |-> t, pending |-> Rest(u.pending, chunk), frames |-> u.frames \o Cut(u.pending, chunk)]

(* A chunk, wherever its boundaries fall: what has been made of n bytes     *)
(* becomes what is made of t.                                               *)
LEMMA ChunkUploads ==
  ASSUME NEW k \in Nat, NEW n \in Nat, NEW t \in Nat, n <= t
  PROVE  Extended(Uploaded(k, n), Content(k, n, t), t) = Uploaded(k, t)
<1> DEFINE u == Uploaded(k, n)
           chunk == Content(k, n, t)
           q == n \div Payload
           a == q * Payload
           bytes == Content(k, a, t)
           r == (t - a) \div Payload
           e == r * Payload
<1>1. q \in Nat /\ a \in Nat /\ a <= n /\ n < a + Payload
  <2>1. q \in Nat /\ n = q * Payload + (n % Payload) /\ n % Payload \in 0..(Payload - 1)
    BY Limits, DivMod
  <2> HIDE DEF q
  <2>2. a \in Nat
    BY <2>1, Limits, Steps
  <2> QED
    BY <2>1, <2>2, Limits
<1>2. t \in Nat /\ n <= t /\ t - a \in Nat
  BY <1>1
<1>3. u.pending \o chunk = bytes /\ Len(bytes) = t - a /\ bytes \in Seq(Byte)
  <2>1. u.pending = Content(k, a, n)
    BY DEF Uploaded
  <2> HIDE DEF a
  <2>0. a \in Nat /\ t \in Nat /\ a <= n /\ n <= t /\ a <= t
    BY <1>1, <1>2
  <2>2. Content(k, a, n) \o Content(k, n, t) = Content(k, a, t)
    BY <2>0, ContentJoins
  <2>3. Len(bytes) = t - a /\ bytes \in Seq(Byte)
    BY <2>0, ContentIs
  <2> QED
    BY <2>1, <2>2, <2>3
<1> HIDE DEF q
<1>4. r \in Nat /\ e \in Nat /\ e <= t - a /\ t - a < e + Payload
  <2> DEFINE l == t - a
  <2>1. l \in Nat
    BY <1>2
  <2> HIDE DEF a, l
  <2>2. l \div Payload \in Nat /\ l = (l \div Payload) * Payload + (l % Payload)
        /\ l % Payload \in 0..(Payload - 1)
    BY <2>1, Limits, DivMod
  <2>3. r = l \div Payload
    BY DEF l
  <2> HIDE DEF r
  <2>4. e \in Nat
    BY <2>2, <2>3, Limits, Steps
  <2>5. l = e + (l % Payload)
    BY <2>2, <2>3
  <2> HIDE DEF e
  <2>6. e <= l /\ l < e + Payload
    BY <2>1, <2>2, <2>4, <2>5, Limits
  <2> QED
    BY <2>2, <2>3, <2>4, <2>6 DEF l
<1> HIDE DEF r
<1>5. (q + r) * Payload = a + e
  BY <1>1, <1>4, Limits, Steps
<1>6. t \div Payload = q + r
  <2> DEFINE g == (q + r) * Payload
  <2>1. g <= t /\ t < g + Payload
    <3>1. g = a + e
      BY <1>5
    <3> HIDE DEF g, a, e
    <3> QED
      BY <1>1, <1>2, <1>4, <3>1, Limits
  <2>2. q + r \in Nat
    BY <1>1, <1>4
  <2> QED
    BY <1>2, <2>1, <2>2, Limits, DivIs
<1>7. Rest(u.pending, chunk) = Content(k, (q + r) * Payload, t)
  <2>1. Rest(u.pending, chunk) = SubSeq(bytes, e + 1, t - a)
    BY <1>3, Zenon DEF Rest, r, e
  <2> HIDE DEF e, a
  <2>2. SubSeq(bytes, e + 1, t - a) = Content(k, a + e, t)
    <3> DEFINE c == a + e
    <3>1. a \in Nat /\ t \in Nat /\ c \in Nat /\ a <= c /\ c <= t /\ t <= t /\ c - a = e
      BY <1>1, <1>2, <1>4
    <3> HIDE DEF c
    <3>2. Part(k, a, t, c, t) = Content(k, c, t)
      BY <3>1, ContentPart
    <3> QED
      BY <3>1, <3>2 DEF c, Part
  <2> QED
    BY <1>5, <2>1, <2>2
<1>8. Cut(u.pending, chunk) = [i \in 1..r |-> FullFrame(k, q + i)]
  <2>1. Cut(u.pending, chunk) = [i \in 1..r |-> SubSeq(bytes, (i - 1) * Payload + 1, i * Payload)]
    BY <1>3, Zenon DEF Cut, r
  <2>2. ASSUME NEW i \in 1..r
        PROVE  SubSeq(bytes, (i - 1) * Payload + 1, i * Payload) = FullFrame(k, q + i)
    <3> DEFINE x == (i - 1) * Payload
               y == i * Payload
               z == t - a
    <3>1. x \in Nat /\ y \in Nat /\ x <= y /\ y <= e
      <4> DEFINE g == i - 1
      <4>1. g \in Nat /\ i \in Nat /\ g <= i /\ i <= r
        BY <1>4
      <4>2. y <= r * Payload /\ g * Payload <= i * Payload
        BY <1>4, <4>1, Limits, Steps
      <4>3. y \in Nat /\ g * Payload \in Nat
        BY <4>1, Limits, Steps
      <4> QED
        BY <4>2, <4>3
    <3>2. ((q + i) - 1) * Payload = a + x /\ (q + i) * Payload = a + y
      <4> DEFINE g == i - 1
      <4>1. g \in Nat /\ i \in Nat /\ (q + i) - 1 = q + g
        BY <1>1
      <4> HIDE DEF g
      <4>2. (q + g) * Payload = q * Payload + g * Payload
            /\ (q + i) * Payload = q * Payload + i * Payload
        BY <1>1, <4>1, Limits, Steps
      <4> QED
        BY <4>1, <4>2 DEF g
    <3> HIDE DEF x, y, a, e
    <3>3. SubSeq(bytes, x + 1, y) = Content(k, a + x, a + y)
      <4> DEFINE c == a + x
                 d == a + y
      <4>1. /\ a \in Nat /\ t \in Nat /\ c \in Nat /\ d \in Nat
            /\ a <= c /\ c <= d /\ d <= t /\ c - a = x /\ d - a = y
        BY <1>1, <1>2, <1>4, <3>1
      <4> HIDE DEF c, d
      <4>2. Part(k, a, t, c, d) = Content(k, c, d)
        BY <4>1, ContentPart
      <4> QED
        BY <4>1, <4>2 DEF c, d, Part
    <3> QED
      BY <3>2, <3>3 DEF FullFrame, x, y
  <2> QED
    BY <2>1, <2>2, Zenon
<1>9. u.frames \o Cut(u.pending, chunk) = [f \in 1..(q + r) |-> FullFrame(k, f)]
  <2> DEFINE S == Seq(Byte)
             x == [f \in 1..q |-> FullFrame(k, f)]
             y == [i \in 1..r |-> FullFrame(k, q + i)]
             z == [f \in 1..(q + r) |-> FullFrame(k, f)]
             w == x \o y
  <2>1. \A f \in Nat \ {0} : FullFrame(k, f) \in S
    BY FullFrameIs
  <2> HIDE DEF S
  <2>2. x \in Seq(S) /\ Len(x) = q /\ \A f \in 1..q : x[f] = FullFrame(k, f)
    BY <1>1, <2>1
  <2>3. y \in Seq(S) /\ Len(y) = r /\ \A i \in 1..r : y[i] = FullFrame(k, q + i)
    <3>1. \A i \in 1..r : q + i \in Nat \ {0}
      BY <1>1, <1>4
    <3> QED
      BY <1>4, <2>1, <3>1
  <2>4. z \in Seq(S) /\ Len(z) = q + r /\ \A f \in 1..(q + r) : z[f] = FullFrame(k, f)
    BY <1>1, <1>4, <2>1
  <2> HIDE DEF x, y, z
  <2>5. /\ w \in Seq(S) /\ Len(w) = q + r
        /\ \A i \in 1..(q + r) : w[i] = IF i <= q THEN x[i] ELSE y[i - q]
    <3>1. /\ w \in Seq(S) /\ Len(w) = Len(x) + Len(y)
          /\ \A i \in 1..(Len(x) + Len(y)) : w[i] = IF i <= Len(x) THEN x[i] ELSE y[i - Len(x)]
      BY <2>2, <2>3, Joined
    <3> HIDE DEF w
    <3> QED
      BY <2>2, <2>3, <3>1
  <2> HIDE DEF w
  <2>6. ASSUME NEW i \in 1..(q + r) PROVE w[i] = z[i]
    <3>1. CASE i <= q
      <4>1. i \in 1..q /\ w[i] = x[i]
        BY <1>1, <2>5, <3>1
      <4> QED
        BY <2>2, <2>4, <4>1
    <3>2. CASE i > q
      <4>1. i - q \in 1..r /\ w[i] = y[i - q] /\ q + (i - q) = i
        BY <1>1, <1>4, <2>5, <3>2
      <4> QED
        BY <2>3, <2>4, <4>1
    <3> QED
      BY <1>1, <3>1, <3>2
  <2>7. w = z
    BY <2>4, <2>5, <2>6, SeqEqual
  <2>8. u.frames = x
    BY DEF Uploaded, x, q
  <2> QED
    BY <1>8, <2>7, <2>8 DEF w, y, z
<1> QED
  BY <1>6, <1>7, <1>9 DEF Uploaded, Extended
(* The frames of a segment are of whole length.                             *)
LEMMA FrameIs ==
  ASSUME NEW k \in Nat, NEW f \in Nat \ {0}, NEW n \in Nat
  PROVE  FrameOf(k, f, n) \in Seq(Byte) /\ Len(FrameOf(k, f, n)) = Payload
<1> DEFINE a == (f - 1) * Payload
           w == FrameOf(k, f, n)
<1>1. a \in Nat
  <2> DEFINE g == f - 1
  <2>1. g \in Nat
    OBVIOUS
  <2> HIDE DEF g
  <2>2. g * Payload \in Nat
    BY <2>1, Limits, Steps
  <2> QED
    BY <2>2 DEF g
<1> HIDE DEF a
<1>2. w = [p \in 1..Payload |-> IF a + p <= n THEN <<k, a + p>> ELSE Pad]
  BY DEF FrameOf, a
<1>3. \A p \in 1..Payload : (IF a + p <= n THEN <<k, a + p>> ELSE Pad) \in Byte
  BY <1>1 DEF Byte, Pad
<1> HIDE DEF w
<1>4. w \in Seq(Byte) /\ Len(w) = Payload
  BY <1>2, <1>3, Limits
<1> QED
  BY <1>4 DEF w

(* A segment is a row of the store.                                         *)
LEMMA StoredIs ==
  ASSUME NEW k \in Nat, NEW n \in 1..MaxBytes
  PROVE  Stored(k, n) \in Row
<1>1. CeilDiv(n, Payload) \in Nat
  BY Limits, Ceil
<1>2. \A f \in 1..CeilDiv(n, Payload) : FrameOf(k, f, n) \in Seq(Byte)
  <2>1. TAKE f \in 1..CeilDiv(n, Payload)
  <2>2. f \in Nat \ {0} /\ n \in Nat
    BY <1>1, Limits
  <2> QED
    BY <2>2, FrameIs
<1> DEFINE c == CeilDiv(n, Payload)
           S == Seq(Byte)
           frames == [f \in 1..c |-> FrameOf(k, f, n)]
<1>3. frames \in Seq(S)
  <2> HIDE DEF c, S
  <2> QED
    BY <1>1, <1>2 DEF c, S
<1> HIDE DEF frames
<1>4. Stored(k, n) = [frames |-> frames, size |-> n]
  BY DEF Stored, frames
<1> QED
  BY <1>3, <1>4 DEF Row

(* The end of a body: padding makes the rest of it the last frame.          *)
LEMMA EndStores ==
  ASSUME NEW k \in Nat, NEW n \in Nat, NEW u, u = Uploaded(k, n)
  PROVE  /\ (IF u.pending = <<>> THEN u.frames ELSE Append(u.frames, Padded(u.pending)))
              = Stored(k, n).frames
         /\ Stored(k, n).frames # <<>> => n > 0
<1> DEFINE q == n \div Payload
           a == q * Payload
           c == CeilDiv(n, Payload)
           S == Seq(Byte)
           x == [f \in 1..q |-> FullFrame(k, f)]
           pending == Content(k, a, n)
           z == [f \in 1..c |-> FrameOf(k, f, n)]
<1>1. q \in Nat /\ a \in Nat /\ a <= n /\ n < a + Payload /\ n = a + (n % Payload)
  <2>1. q \in Nat /\ n = q * Payload + (n % Payload) /\ n % Payload \in 0..(Payload - 1)
    BY Limits, DivMod
  <2> HIDE DEF q
  <2>2. a \in Nat
    BY <2>1, Limits, Steps
  <2> QED
    BY <2>1, <2>2, Limits
<1>2. c \in Nat /\ c = IF n % Payload = 0 THEN q ELSE q + 1
  BY Limits, Ceil
<1>3. u.pending = pending /\ u.frames = x /\ Stored(k, n).frames = z
  BY DEF Uploaded, Stored
<1>4. pending \in Seq(Byte) /\ Len(pending) = n - a /\ \A i \in 1..(n - a) : pending[i] = <<k, a + i>>
  <2> HIDE DEF a
  <2> QED
    BY <1>1, ContentIs
<1> HIDE DEF c, q, pending
<1>5. ASSUME NEW f \in 1..q
      PROVE  FullFrame(k, f) = FrameOf(k, f, n) /\ FullFrame(k, f) \in S
  <2>1. f * Payload <= n
    <3>1. f * Payload <= q * Payload /\ f * Payload \in Nat
      BY <1>1, Limits, Steps
    <3> QED
      BY <1>1, <3>1
  <2>2. f \in Nat \ {0}
    BY <1>1
  <2> QED
    BY <2>1, <2>2, FullFrameIs
<1> HIDE DEF S
<1>6. x \in Seq(S) /\ Len(x) = q /\ \A f \in 1..q : x[f] = FrameOf(k, f, n)
  BY <1>1, <1>5
<1>7. CASE n % Payload = 0
  <2>1. pending = <<>> /\ c = q
    <3>1. Len(pending) = 0
      BY <1>1, <1>4, <1>7
    <3> QED
      BY <1>2, <1>4, <1>7, <3>1
  <2>2. x = z
    BY <1>5, <2>1, Zenon
  <2>3. z # <<>> => n > 0
    <3> SUFFICES ASSUME n = 0 PROVE z = <<>>
      OBVIOUS
    <3>1. q = 0
      <4>1. 0 * Payload <= n /\ n < 0 * Payload + Payload
        BY Limits
      <4>2. n \div Payload = 0
        BY <4>1, Limits, DivIs
      <4> QED
        BY <4>2 DEF q
    <3>2. Len(x) = 0
      BY <1>6, <3>1
    <3> HIDE DEF x, z
    <3> QED
      BY <1>6, <2>2, <3>2
  <2> QED
    BY <1>3, <2>1, <2>2, <2>3
<1>8. CASE n % Payload # 0
  <2>0. n # a
    <3> DEFINE r == n % Payload
    <3>1. n = a + r /\ r # 0
      BY <1>1, <1>8
    <3>2. r \in Nat
      BY Limits, DivMod
    <3> HIDE DEF r, a
    <3> QED
      BY <1>1, <3>1, <3>2
  <2>1. Len(pending) # 0 /\ c = q + 1 /\ n > 0
    <3>1. c = q + 1
      BY <1>2, <1>8
    <3> HIDE DEF a
    <3>2. Len(pending) # 0 /\ n > 0
      BY <1>1, <1>4, <2>0
    <3> QED
      BY <3>1, <3>2
  <2>2. pending # <<>>
    BY <2>1
  <2>3. Padded(pending) = FrameOf(k, q + 1, n)
    <3>1. ASSUME NEW p \in 1..Payload
          PROVE  (IF p <= Len(pending) THEN pending[p] ELSE Pad)
                   = (IF a + p <= n THEN <<k, a + p>> ELSE Pad)
      <4> HIDE DEF a
      <4>1. p <= Len(pending) <=> a + p <= n
        BY <1>1, <1>4
      <4>2. p <= Len(pending) => pending[p] = <<k, a + p>>
        BY <1>1, <1>4
      <4> QED
        BY <4>1, <4>2
    <3>2. Padded(pending) = [p \in 1..Payload |-> IF a + p <= n THEN <<k, a + p>> ELSE Pad]
      BY <3>1, Zenon DEF Padded
    <3>3. (q + 1) - 1 = q
      BY <1>1
    <3> QED
      BY <3>2, <3>3, Zenon DEF FrameOf
  <2> DEFINE last == FrameOf(k, q + 1, n)
             w == Append(x, last)
  <2>4. last \in S
    BY <1>1, FrameIs DEF S
  <2>5. z \in Seq(S) /\ Len(z) = q + 1 /\ \A f \in 1..(q + 1) : z[f] = FrameOf(k, f, n)
    <3>1. \A f \in 1..(q + 1) : FrameOf(k, f, n) \in S
      BY <1>1, FrameIs DEF S
    <3> QED
      BY <1>1, <2>1, <3>1
  <2> HIDE DEF last, x, z
  <2>6. w \in Seq(S) /\ Len(w) = q + 1 /\ w[q + 1] = last /\ \A f \in 1..q : w[f] = x[f]
    BY <1>1, <1>6, <2>4
  <2> HIDE DEF w
  <2>7. \A f \in 1..(q + 1) : w[f] = z[f]
    <3>1. TAKE f \in 1..(q + 1)
    <3>2. f = q + 1 \/ f \in 1..q
      BY <1>1
    <3>3. q + 1 \in 1..(q + 1)
      BY <1>1
    <3> QED
      BY <1>6, <2>5, <2>6, <3>2, <3>3 DEF last
  <2>8. w = z
    BY <2>5, <2>6, <2>7, SeqEqual
  <2> QED
    BY <1>3, <2>1, <2>2, <2>3, <2>8 DEF w, last
<1> QED
  BY <1>7, <1>8
(* What a segment is, once stored.                                          *)
LEMMA SegmentIs ==
  ASSUME StoreOK, NEW k \in 1..Len(store)
  PROVE  /\ Size(k) \in 1..MaxBytes /\ FrameCount(k) \in Nat \ {0}
         /\ FrameCount(k) = CeilDiv(Size(k), Payload)
         /\ FrameCount(k) <= MaxFrames
         /\ \A f \in 1..FrameCount(k) : store[k].frames[f] = FrameOf(k, f, Size(k))
<1> DEFINE n == Size(k)
           c == CeilDiv(n, Payload)
<1>1. store[k] \in Row /\ store[k] = Stored(k, n) /\ k \in Nat
  BY DEF StoreOK
<1>2. n \in 1..MaxBytes
  BY <1>1 DEF Row, Size
<1> HIDE DEF n
<1>3. c \in Nat \ {0} /\ (c - 1) * Payload < n
  <2>1. n \in Nat /\ n > 0
    BY <1>2, Limits
  <2>2. CeilDiv(n, Payload) \in Nat
    BY <2>1, Limits, Ceil
  <2>3. CeilDiv(n, Payload) > 0 /\ (CeilDiv(n, Payload) - 1) * Payload < n
    BY <2>1, Limits, Ceil
  <2> HIDE DEF c
  <2>4. c = CeilDiv(n, Payload)
    BY DEF c
  <2>5. (c - 1) * Payload < n
    BY <2>3, <2>4
  <2> QED
    BY <2>2, <2>3, <2>4, <2>5
<1>4. FrameCount(k) = c /\ \A f \in 1..c : store[k].frames[f] = FrameOf(k, f, n)
  <2> DEFINE frames == [f \in 1..c |-> FrameOf(k, f, n)]
  <2>1. store[k].frames = frames
    BY <1>1 DEF Stored
  <2>2. \A f \in 1..c : FrameOf(k, f, n) \in Seq(Byte)
    <3>1. TAKE f \in 1..c
    <3>2. f \in Nat \ {0} /\ n \in Nat
      BY <1>2, <1>3, Limits
    <3> QED
      BY <1>1, <3>2, FrameIs
  <2> DEFINE S == Seq(Byte)
  <2> HIDE DEF S, c
  <2>3. Len(frames) = c
    BY <1>3, <2>2 DEF S
  <2> HIDE DEF frames
  <2>4. FrameCount(k) = c
    BY <2>1, <2>3 DEF FrameCount
  <2> QED
    BY <2>1, <2>4 DEF frames
<1> HIDE DEF c
<1>5. c <= MaxFrames
  <2> SUFFICES ASSUME MaxFrames < c PROVE FALSE
    BY <1>3, Limits
  <2> DEFINE g == c - 1
  <2>1. g \in Nat /\ MaxFrames <= g /\ g * Payload < n
    BY <1>3, Limits
  <2> HIDE DEF g
  <2>2. MaxFrames * Payload <= g * Payload /\ g * Payload \in Nat
    BY <2>1, Limits, Steps
  <2> QED
    BY <1>2, <2>1, <2>2, Limits DEF MaxBytes
<1> QED
  BY <1>2, <1>3, <1>4, <1>5 DEF n, c

Places == {"next", "body", "complete", "fetch", "download"} \cup Ends

(* The invariant of the upload: at first,                                   *)
LEMMA UploadInit ==
  ASSUME Init
  PROVE  StoreOK /\ UploadOK /\ pc \in Places
<1>1. store = <<>> /\ up = Empty /\ pc = "next" /\ job \in Jobs
  BY DEF Init
<1>2. StoreOK
  BY <1>1 DEF StoreOK
<1>3. Len(store) = 0 /\ Len(up.pending) = 0 /\ up.taken = 0
  BY <1>1 DEF Empty
<1>4. Len(Segments(job)) \in Nat
  BY <1>1, FilesFit
<1> QED
  BY <1>1, <1>2, <1>3, <1>4, Limits DEF UploadOK, Places

(* when a body begins,                                                      *)
LEMMA OpenOK ==
  ASSUME StoreOK, UploadOK, Open
  PROVE  (StoreOK /\ UploadOK /\ pc \in Places)'
<1>1. /\ Len(store) < Len(Segments(job)) /\ up' = Empty /\ job' = job /\ store' = store
      /\ pc' \in {"failed", "body"}
  BY DEF Open, Stop
<1>2. Empty = Uploaded(Len(store) + 1, 0)
  <2>1. 0 * Payload <= 0 /\ 0 < 0 * Payload + Payload /\ 0 * Payload = 0
    BY Limits
  <2>2. 0 \div Payload = 0
    BY <2>1, Limits, DivIs
  <2>3. Content(Len(store) + 1, 0, 0) = <<>>
    <3> DEFINE x == Content(Len(store) + 1, 0, 0)
    <3>1. Len(store) + 1 \in Nat
      BY DEF StoreOK
    <3>2. x \in Seq(Byte) /\ Len(x) = 0 - 0
      <4> DEFINE k == Len(store) + 1
      <4> HIDE DEF k
      <4> QED
        BY <3>1, ContentIs DEF k
    <3> HIDE DEF x
    <3> QED
      BY <3>2 DEF x
  <2>4. [f \in 1..0 |-> FullFrame(Len(store) + 1, f)] = <<>>
    <3>1. 1..0 = {}
      OBVIOUS
    <3> QED
      BY <3>1
  <2> QED
    BY <2>1, <2>2, <2>3, <2>4 DEF Uploaded, Empty
<1>3. Empty.taken = 0 /\ Len(Empty.pending) = 0
  BY DEF Empty
<1>4. StoreOK'
  BY <1>1 DEF StoreOK, Size
<1>5. UploadOK'
  <2>1. Segments(job)' = Segments(job)
    BY <1>1 DEF Segments
  <2> QED
    BY <1>1, <1>2, <1>3, <2>1, Limits DEF UploadOK
<1> QED
  BY <1>1, <1>4, <1>5 DEF Places, Ends

(* when a chunk of it arrives,                                              *)
LEMMA ChunkOK ==
  ASSUME StoreOK, UploadOK, NEW m \in 1..MaxChunk, Chunk(m)
  PROVE  (StoreOK /\ UploadOK /\ pc \in Places)'
<1> DEFINE k == Len(store) + 1
           n == up.taken
           chunk == Content(k, n, n + m)
           u == Uploaded(k, n + m)
<1>1. /\ job' = job /\ store' = store /\ pc = "body" /\ up = Uploaded(k, n) /\ n \in 0..MaxBytes
      /\ Len(store) < Len(Segments(job))
  BY DEF Chunk, UploadOK
<1>2. k \in Nat /\ n \in Nat /\ m \in Nat
  BY <1>1, Limits, BytesAssumption DEF StoreOK
<1>3. \/ n + m > MaxBytes /\ pc' = "failed" /\ up' = up
      \/ n + m <= MaxBytes /\ pc' = pc /\ up' = u
  <2>1. CASE n + m > MaxBytes
    BY <2>1 DEF Chunk, Stop
  <2>2. CASE ~ (n + m > MaxBytes)
    <3>1. pc' = pc /\ up' = [taken |-> n + m, pending |-> Rest(up.pending, chunk),
                             frames |-> up.frames \o Cut(up.pending, chunk)]
      BY <2>2 DEF Chunk
    <3>2. up' = u
      <4> DEFINE t == n + m
      <4>1. t \in Nat /\ n <= t
        BY <1>2
      <4> HIDE DEF k, n, t
      <4>2. Extended(Uploaded(k, n), Content(k, n, t), t) = Uploaded(k, t)
        BY <1>2, <4>1, ChunkUploads
      <4>3. Extended(up, Content(k, n, t), t) = Uploaded(k, t)
        BY <1>1, <4>2
      <4> QED
        BY <3>1, <4>3 DEF t, Extended
    <3>3. n + m <= MaxBytes
      BY <1>2, <2>2, Limits
    <3> QED
      BY <3>1, <3>2, <3>3
  <2> QED
    BY <2>1, <2>2
<1>4. Segments(job)' = Segments(job)
  BY <1>1 DEF Segments
<1>5. StoreOK'
  BY <1>1 DEF StoreOK, Size
<1>6. u.taken = n + m /\ n + m \in Nat /\ Len(u.pending) < Payload
  <2> DEFINE t == n + m
             a == (t \div Payload) * Payload
  <2>1. t \in Nat
    BY <1>2
  <2> HIDE DEF t, k
  <2>2. a \in Nat /\ a <= t /\ t - a < Payload
    <3> DEFINE q == t \div Payload
    <3>1. q \in Nat /\ t = q * Payload + (t % Payload) /\ t % Payload \in 0..(Payload - 1)
      BY <2>1, Limits, DivMod
    <3> HIDE DEF q
    <3>2. q * Payload \in Nat
      BY <3>1, Limits, Steps
    <3>3. q * Payload <= t /\ t - q * Payload < Payload
      <4> DEFINE b == q * Payload
      <4> HIDE DEF b
      <4>1. b \in Nat /\ t = b + (t % Payload)
        BY <3>1, <3>2 DEF b
      <4>2. b <= t /\ t - b < Payload
        BY <2>1, <3>1, <4>1, Limits
      <4> QED
        BY <4>2 DEF b
    <3> QED
      BY <3>2, <3>3 DEF q
  <2> HIDE DEF a
  <2>3. Len(Content(k, a, t)) = t - a
    BY <1>2, <2>1, <2>2, ContentIs
  <2>4. Uploaded(k, t).taken = t /\ Uploaded(k, t).pending = Content(k, a, t)
    BY DEF Uploaded, a
  <2> QED
    BY <2>1, <2>2, <2>3, <2>4 DEF t
<1>7. k' = k
  BY <1>1
<1>8. UploadOK'
  <2> HIDE DEF u, k, n
  <2>1. CASE pc' = "failed" /\ up' = up
    BY <1>1, <1>4, <2>1 DEF UploadOK
  <2>2. CASE n + m <= MaxBytes /\ pc' = pc /\ up' = u
    <3>1. up'.taken \in 0..MaxBytes /\ Len(up'.pending) < Payload
      BY <1>6, <2>2, Limits
    <3>2. up' = Uploaded(Len(store') + 1, up'.taken)
      BY <1>1, <1>6, <2>2 DEF u, k
    <3> QED
      BY <1>1, <1>4, <3>1, <3>2 DEF UploadOK
  <2> QED
    BY <1>3, <2>1, <2>2
<1> QED
  BY <1>1, <1>3, <1>5, <1>8 DEF Places, Ends

(* and when it ends.                                                        *)
LEMMA BodyEndOK ==
  ASSUME StoreOK, UploadOK, BodyEnd
  PROVE  (StoreOK /\ UploadOK /\ pc \in Places)'
<1> DEFINE k == Len(store) + 1
           n == up.taken
           frames == IF up.pending = <<>> THEN up.frames
                     ELSE Append(up.frames, Padded(up.pending))
<1>1. /\ job' = job /\ up' = up /\ pc = "body" /\ up = Uploaded(k, n) /\ n \in 0..MaxBytes
      /\ Len(store) < Len(Segments(job))
  BY DEF BodyEnd, UploadOK
<1>2. k \in Nat /\ n \in Nat
  BY <1>1, Limits DEF StoreOK
<1>3. frames = Stored(k, n).frames /\ (frames # <<>> => n > 0)
  <2> HIDE DEF k, n
  <2> QED
    BY <1>1, <1>2, EndStores
<1>4. \/ pc' = "failed" /\ store' = store
      \/ /\ frames # <<>> /\ pc' = "next"
         /\ store' = Append(store, [frames |-> frames, size |-> n])
  BY DEF BodyEnd, Stop
<1>5. Segments(job)' = Segments(job) /\ Len(Segments(job)) \in Nat
  BY <1>1, FilesFit DEF Segments, UploadOK
<1> HIDE DEF frames
<1>6. CASE pc' = "failed" /\ store' = store
  <2>1. StoreOK'
    BY <1>6 DEF StoreOK, Size
  <2> QED
    BY <1>1, <1>5, <1>6, <2>1 DEF UploadOK, Places, Ends
<1>7. CASE /\ frames # <<>> /\ pc' = "next"
           /\ store' = Append(store, [frames |-> frames, size |-> n])
  <2> DEFINE row == [frames |-> frames, size |-> n]
  <2>1. row = Stored(k, n)
    BY <1>3 DEF Stored
  <2>2. row \in Row
    <3>1. n \in 1..MaxBytes
      BY <1>1, <1>2, <1>3, <1>7
    <3> QED
      BY <1>2, <2>1, <3>1, StoredIs
  <2>3. row.size = n
    OBVIOUS
  <2> HIDE DEF row, n
  <2>4. /\ store' \in Seq(Row) /\ Len(store') = k
        /\ store'[k] = row /\ \A j \in 1..Len(store) : store'[j] = store[j]
    BY <1>7, <2>2 DEF StoreOK, row
  <2>5. ASSUME NEW j \in 1..Len(store')
        PROVE  store'[j] = Stored(j, store'[j].size)
    <3>1. j = k \/ j \in 1..Len(store)
      BY <1>2, <2>4 DEF StoreOK
    <3>2. \A i \in 1..Len(store) : store[i] = Stored(i, store[i].size)
      BY DEF StoreOK, Size
    <3> QED
      BY <2>1, <2>3, <2>4, <3>1, <3>2
  <2>6. StoreOK'
    BY <2>4, <2>5 DEF StoreOK, Size
  <2>7. Len(store') <= Len(Segments(job))
    BY <1>1, <1>2, <1>5, <2>4 DEF StoreOK
  <2> QED
    BY <1>1, <1>5, <1>7, <2>6, <2>7 DEF UploadOK, Places
<1> QED
  BY <1>4, <1>6, <1>7

(* Nothing else has to do with the store or with an upload.                 *)
LEMMA OthersKeepStore ==
  ASSUME StoreOK, UploadOK, pc \in Places,
         \/ BodyBreak \/ Complete \/ Fetch \/ TakeFrame \/ ResponseEnd
         \/ (\E h \in Headers : Ask(h) \/ AskFails(h)) \/ FetchFails
         \/ (\E n \in 1..MaxChunk : Receive(n)) \/ UNCHANGED vars
  PROVE  (StoreOK /\ UploadOK /\ pc \in Places)' /\ store' = store /\ job' = job /\ up' = up
<1>1. store' = store /\ job' = job /\ up' = up
  BY DEF BodyBreak, Complete, Fetch, FetchFails, TakeFrame, ResponseEnd, Ask, AskFails, Receive,
         vars
<1>2. pc' \in Places /\ (pc' = "body" => pc = "body")
  BY DEF BodyBreak, Complete, Fetch, FetchFails, TakeFrame, ResponseEnd, Ask, AskFails, Receive,
         vars, Stop, Places, Ends
<1>3. StoreOK'
  BY <1>1 DEF StoreOK, Size
<1>4. Segments(job)' = Segments(job)
  BY <1>1 DEF Segments
<1> QED
  BY <1>1, <1>2, <1>3, <1>4 DEF UploadOK
----------------------------------------------------------------------------
(* Where segments begin *)

(* A sum grows by one value at a time.                                      *)
LEMMA SumsAre ==
  ASSUME NEW n \in Nat, NEW f, \A k \in 1..n : f[k] \in Nat
  PROVE  /\ \A k \in 0..n : Total(f, k) \in Nat
         /\ Total(f, 0) = 0
         /\ \A k \in 1..n : Total(f, k) = Total(f, k - 1) + f[k]
<1>1. ASSUME NEW k \in 0..n PROVE Total(f, k) \in Nat
  <2>1. IsFiniteSet(1..k) /\ \A x \in 1..k : f[x] \in Nat
    BY Numbers
  <2> QED
    BY <2>1, SumNat DEF Total
<1>2. Total(f, 0) = 0
  BY SumNone DEF Total
<1>3. ASSUME NEW k \in 1..n PROVE Total(f, k) = Total(f, k - 1) + f[k]
  <2> DEFINE m == k - 1
  <2>1. m \in Nat /\ k = m + 1
    OBVIOUS
  <2>2. \A i \in 1..(m + 1) : f[i] \in Int
    BY <2>1
  <2> HIDE DEF m
  <2>3. Total(f, m + 1) = Total(f, m) + f[m + 1]
    BY <2>1, <2>2, SumNext DEF Total
  <2> QED
    BY <2>1, <2>3 DEF m
<1> QED
  BY <1>1, <1>2, <1>3

(* A sum of numbers none of which is over a limit.                          *)
LEMMA SumLimited ==
  ASSUME NEW n \in Nat, NEW f, NEW limit \in Nat, \A k \in 1..n : f[k] \in Nat /\ f[k] <= limit
  PROVE  Total(f, n) <= n * limit
<1> DEFINE G == {k \in Nat : k <= n => Total(f, k) <= k * limit}
<1>1. 0 \in G
  BY SumsAre
<1>2. ASSUME NEW k \in Nat, k < n, k \in G PROVE k + 1 \in G
  <2> DEFINE a == Total(f, k)
             b == Total(f, k + 1)
             c == k * limit
             d == (k + 1) * limit
  <2>1. a \in Nat /\ b \in Nat
    BY <1>2, SumsAre
  <2>2. b = a + f[k + 1]
    <3>1. k + 1 \in 1..n /\ (k + 1) - 1 = k
      BY <1>2
    <3> QED
      BY <3>1, SumsAre
  <2>3. c \in Nat /\ d = c + limit
    BY Steps
  <2>4. a <= c /\ f[k + 1] \in Nat /\ f[k + 1] <= limit
    BY <1>2
  <2> HIDE DEF a, b, c, d
  <2>5. b <= d
    BY <2>1, <2>2, <2>3, <2>4
  <2> QED
    BY <2>5 DEF b, d
<1>3. n \in G
  <2> HIDE DEF G
  <2> QED
    BY <1>1, <1>2, UpTo
<1> QED
  BY <1>3

(* g[1] < g[2] < ... < g[n + 1].                                            *)
Rising(g, n) == /\ \A k \in 1..(n + 1) : g[k] \in Nat
                /\ \A k \in 1..n : g[k] < g[k + 1]

(* Such numbers are in order.                                               *)
LEMMA RisingOrder ==
  ASSUME NEW n \in Nat, NEW g, Rising(g, n)
  PROVE  \A j, k \in 1..(n + 1) : j < k => g[j] < g[k]
<1> TAKE j \in 1..(n + 1)
<1> DEFINE G == {k \in Nat : j < k /\ k <= n + 1 => g[j] < g[k]}
<1>1. 0 \in G
  OBVIOUS
<1>2. ASSUME NEW k \in Nat, k < n + 1, k \in G PROVE k + 1 \in G
  <2> SUFFICES ASSUME j < k + 1, k + 1 <= n + 1 PROVE g[j] < g[k + 1]
    OBVIOUS
  <2>1. k \in 1..n /\ g[k] < g[k + 1] /\ g[k] \in Nat /\ g[k + 1] \in Nat /\ g[j] \in Nat
    BY DEF Rising
  <2>2. j = k \/ g[j] < g[k]
    BY <1>2
  <2> QED
    BY <2>1, <2>2
<1>3. \A k \in 1..(n + 1) : k \in G
  <2> TAKE k \in 1..(n + 1)
  <2>1. k \in Nat /\ \A m \in Nat : m < k /\ m \in G => m + 1 \in G
    BY <1>2
  <2> HIDE DEF G
  <2> QED
    BY <1>1, <2>1, UpTo
<1> QED
  BY <1>3

(* Every number below the last lies in one of the intervals.                *)
LEMMA Located ==
  ASSUME NEW n \in Nat, NEW g, Rising(g, n), g[1] = 0, NEW p \in Nat, p < g[n + 1]
  PROVE  \E k \in 1..n : g[k] <= p /\ p < g[k + 1]
<1> SUFFICES ASSUME \A k \in 1..n : g[k] <= p => g[k + 1] <= p
             PROVE  FALSE
  <2> SUFFICES ASSUME \A k \in 1..n : ~ (g[k] <= p /\ p < g[k + 1])
               PROVE  \A k \in 1..n : g[k] <= p => g[k + 1] <= p
    OBVIOUS
  <2> TAKE k \in 1..n
  <2>1. g[k] \in Nat /\ g[k + 1] \in Nat
    BY DEF Rising
  <2> QED
    BY <2>1
<1> DEFINE G == {k \in Nat : k <= n => g[k + 1] <= p}
<1>1. 0 \in G
  OBVIOUS
<1>2. ASSUME NEW k \in Nat, k < n, k \in G PROVE k + 1 \in G
  BY <1>2
<1>3. n \in G
  <2> HIDE DEF G
  <2> QED
    BY <1>1, <1>2, UpTo
<1>4. g[n + 1] \in Nat /\ g[n + 1] <= p
  BY <1>3 DEF Rising
<1> QED
  BY <1>4

(* The intervals that have to do with the numbers a, ..., b - 1 are those   *)
(* from one to another.                                                     *)
Touched(g, n, a, b) == {k \in 1..n : Most(g[k], a) < Least(g[k + 1], b)}
Spans(g, n, a, b, x, y) ==
  /\ x <= y /\ g[x] <= a /\ a < g[x + 1] /\ g[y] < b /\ b <= g[y + 1]
  /\ Touched(g, n, a, b) = x..y

(* There are two that bound them.                                           *)
LEMMA Overlapping ==
  ASSUME NEW n \in Nat, NEW g, Rising(g, n), g[1] = 0,
         NEW a \in Nat, NEW b \in Nat, a < b, b <= g[n + 1]
  PROVE  \E x, y \in 1..n : Spans(g, n, a, b, x, y)
<1>0. g[n + 1] \in Nat
  BY DEF Rising
<1>1. PICK x \in 1..n : g[x] <= a /\ a < g[x + 1]
  <2>1. a < g[n + 1]
    BY <1>0
  <2> QED
    BY <2>1, Located
<1>2. PICK y \in 1..n : g[y] <= b - 1 /\ b - 1 < g[y + 1]
  <2> DEFINE c == b - 1
  <2>1. c \in Nat /\ c < g[n + 1]
    BY <1>0
  <2> HIDE DEF c
  <2>2. \E y \in 1..n : g[y] <= c /\ c < g[y + 1]
    BY <2>1, Located
  <2> QED
    BY <2>2 DEF c
<1>3. \A k \in 1..n : g[k] \in Nat /\ g[k + 1] \in Nat /\ g[k] < g[k + 1]
  BY DEF Rising
<1>4. \A k \in 1..n : Most(g[k], a) < Least(g[k + 1], b) <=> g[k] < b /\ a < g[k + 1]
  BY <1>3 DEF Most, Least
<1>5. g[y] < b /\ b <= g[y + 1]
  BY <1>2, <1>3
<1>6. \A j, k \in 1..(n + 1) : j < k => g[j] < g[k]
  BY RisingOrder
<1>7. ASSUME NEW k \in 1..n
      PROVE  (g[k] < b <=> k <= y) /\ (a < g[k + 1] <=> x <= k)
  <2>1. g[k] < b <=> k <= y
    <3>1. CASE k <= y
      <4>1. k = y \/ g[k] < g[y]
        BY <1>6, <3>1
      <4> QED
        BY <1>3, <1>5, <3>1, <4>1
    <3>2. CASE k > y
      <4>1. y + 1 \in 1..(n + 1) /\ k \in 1..(n + 1) /\ (k = y + 1 \/ y + 1 < k)
        BY <3>2
      <4>2. g[y + 1] <= g[k]
        BY <1>3, <1>6, <4>1
      <4> QED
        BY <1>3, <1>5, <3>2, <4>2
    <3> QED
      BY <3>1, <3>2
  <2>2. a < g[k + 1] <=> x <= k
    <3>1. CASE x <= k
      <4>1. x + 1 \in 1..(n + 1) /\ k + 1 \in 1..(n + 1) /\ (k = x \/ x + 1 < k + 1)
        BY <3>1
      <4>2. g[x + 1] <= g[k + 1]
        BY <1>3, <1>6, <4>1
      <4> QED
        BY <1>1, <1>3, <3>1, <4>2
    <3>2. CASE k < x
      <4>1. k + 1 \in 1..(n + 1) /\ x \in 1..(n + 1) /\ (k + 1 = x \/ k + 1 < x)
        BY <3>2
      <4>2. g[k + 1] <= g[x]
        BY <1>3, <1>6, <4>1
      <4> QED
        BY <1>1, <1>3, <3>2, <4>2
    <3> QED
      BY <3>1, <3>2
  <2> QED
    BY <2>1, <2>2
<1>8. {k \in 1..n : Most(g[k], a) < Least(g[k + 1], b)} = x..y
  <2>1. \A k \in 1..n : Most(g[k], a) < Least(g[k + 1], b) <=> x <= k /\ k <= y
    BY <1>4, <1>7
  <2> QED
    BY <2>1
<1>9. x <= y
  BY <1>1, <1>3, <1>5, <1>7
<1>10. Touched(g, n, a, b) = x..y
  BY <1>8 DEF Touched
<1>11. Spans(g, n, a, b, x, y)
  BY <1>1, <1>5, <1>9, <1>10 DEF Spans
<1> QED
  BY <1>11

(* An interval of numbers in ascending order.                               *)
LEMMA InOrderIs ==
  ASSUME NEW a \in Nat, NEW b \in Nat, a <= b + 1
  PROVE  InOrder(a..b) = [i \in 1..((b + 1) - a) |-> (a + i) - 1]
<1> DEFINE n == (b + 1) - a
<1>1. n \in Nat /\ Cardinality(a..b) = n
  <2>1. a \in Int /\ b \in Int
    OBVIOUS
  <2>2. Cardinality(a..b) = IF a > b THEN 0 ELSE b - a + 1
    BY <2>1, FS_Interval, Zenon
  <2> QED
    BY <2>2
<1>2. ASSUME NEW i \in 1..n
      PROVE  (CHOOSE k \in a..b : Cardinality({m \in a..b : m < k}) = i - 1) = (a + i) - 1
  <2>1. ASSUME NEW k \in a..b PROVE Cardinality({m \in a..b : m < k}) = k - a
    <3> DEFINE c == k - 1
    <3>1. a \in Int /\ c \in Int
      OBVIOUS
    <3>2. {m \in a..b : m < k} = a..c
      OBVIOUS
    <3>3. Cardinality(a..c) = IF a > c THEN 0 ELSE c - a + 1
      BY <3>1, FS_Interval, Zenon
    <3>4. (IF a > c THEN 0 ELSE c - a + 1) = k - a
      OBVIOUS
    <3> HIDE DEF c
    <3> QED
      BY <3>2, <3>3, <3>4
  <2> DEFINE P(k) == Cardinality({m \in a..b : m < k}) = i - 1
             e == (a + i) - 1
  <2>2. e \in a..b /\ e - a = i - 1
    BY <1>1
  <2>3. ASSUME NEW k \in a..b PROVE P(k) <=> k = e
    <3> DEFINE c == Cardinality({m \in a..b : m < k})
    <3>1. c = k - a
      BY <2>1
    <3> HIDE DEF c
    <3>2. c = i - 1 <=> k = e
      BY <3>1
    <3> QED
      BY <3>2 DEF c
  <2> HIDE DEF P, e
  <2>4. (CHOOSE k \in a..b : P(k)) = e
    BY <2>2, <2>3
  <2> QED
    BY <2>4 DEF P, e
<1> QED
  BY <1>1, <1>2, Zenon DEF InOrder

(* Segments and their frames follow one another without a gap.              *)
LEMMA Layout ==
  ASSUME StoreOK
  PROVE  /\ Len(store) \in Nat
         /\ \A k \in 1..(Len(store) + 1) : Offset(k) \in Nat /\ Base(k) \in Nat
         /\ Offset(1) = 0 /\ Base(1) = 0
         /\ \A k \in 1..Len(store) : /\ Offset(k + 1) = Offset(k) + Size(k)
                                     /\ Base(k + 1) = Base(k) + FrameCount(k)
         /\ Offset(Len(store) + 1) = FileSize
<1> DEFINE n == Len(store)
<1>1. n \in Nat /\ DOMAIN store = 1..n
  BY DEF StoreOK
<1>2. \A k \in 1..n : Sizes[k] = Size(k) /\ Size(k) \in Nat
  BY <1>1, SegmentIs, Limits DEF Sizes
<1>3. \A k \in 1..n : FrameCounts[k] = FrameCount(k) /\ FrameCount(k) \in Nat
  BY <1>1, SegmentIs DEF FrameCounts
<1> HIDE DEF n
<1>4. /\ \A k \in 0..n : Total(Sizes, k) \in Nat /\ Total(FrameCounts, k) \in Nat
      /\ Total(Sizes, 0) = 0 /\ Total(FrameCounts, 0) = 0
      /\ \A k \in 1..n : Total(Sizes, k) = Total(Sizes, k - 1) + Size(k)
                         /\ Total(FrameCounts, k) = Total(FrameCounts, k - 1) + FrameCount(k)
  BY <1>1, <1>2, <1>3, SumsAre
<1>5. \A k \in 1..(n + 1) : Offset(k) \in Nat /\ Base(k) \in Nat
  <2>1. \A k \in 1..(n + 1) : k - 1 \in 0..n
    BY <1>1
  <2> QED
    BY <1>4, <2>1 DEF Offset, Base
<1>6. Offset(1) = 0 /\ Base(1) = 0
  <2>1. 1 - 1 = 0
    OBVIOUS
  <2> QED
    BY <1>4, <2>1 DEF Offset, Base
<1>7. ASSUME NEW k \in 1..n
      PROVE  /\ Offset(k + 1) = Offset(k) + Size(k)
             /\ Base(k + 1) = Base(k) + FrameCount(k)
  <2>1. (k + 1) - 1 = k
    BY <1>1
  <2> QED
    BY <1>4, <2>1 DEF Offset, Base
<1>8. Offset(n + 1) = FileSize
  <2>1. (n + 1) - 1 = n
    BY <1>1
  <2> QED
    BY <2>1 DEF Offset, FileSize, n
<1> QED
  BY <1>1, <1>5, <1>6, <1>7, <1>8 DEF n

Offs == [k \in 1..(Len(store) + 1) |-> Offset(k)]
Bases == [k \in 1..(Len(store) + 1) |-> Base(k)]

(* None of them is empty.                                                   *)
LEMMA LayoutRises ==
  ASSUME StoreOK
  PROVE  Rising(Offs, Len(store)) /\ Rising(Bases, Len(store))
<1>1. \A k \in 1..Len(store) : k \in 1..(Len(store) + 1) /\ k + 1 \in 1..(Len(store) + 1)
  BY Layout
<1>2. \A k \in 1..Len(store) : Size(k) \in Nat \ {0} /\ FrameCount(k) \in Nat \ {0}
  BY SegmentIs, Limits
<1>3. \A k \in 1..Len(store) : Offset(k) < Offset(k + 1) /\ Base(k) < Base(k + 1)
  BY <1>1, <1>2, Layout
<1> QED
  BY <1>1, <1>3, Layout DEF Rising, Offs, Bases

(* A file is never too large to be counted.                                 *)
LEMMA FileFits ==
  ASSUME StoreOK, UploadOK
  PROVE  FileSize \in Nat /\ FileSize <= Top
<1> DEFINE n == Len(store)
           b == Len(Segments(job))
<1>1. n \in Nat /\ b \in Nat /\ n <= b /\ b * MaxBytes <= Top
  BY FilesFit, Layout DEF UploadOK
<1>2. \A k \in 1..n : Sizes[k] \in Nat /\ Sizes[k] <= MaxBytes
  <2>1. DOMAIN store = 1..n
    BY DEF StoreOK
  <2> QED
    BY <2>1, SegmentIs, Limits DEF Sizes
<1> HIDE DEF n, b
<1>3. Total(Sizes, n) <= n * MaxBytes /\ Total(Sizes, n) \in Nat
  <2>1. Total(Sizes, n) <= n * MaxBytes
    BY <1>1, <1>2, Limits, SumLimited
  <2>2. Total(Sizes, n) \in Nat
    BY <1>1, <1>2, SumsAre
  <2> QED
    BY <2>1, <2>2
<1>4. n * MaxBytes <= b * MaxBytes /\ n * MaxBytes \in Nat /\ b * MaxBytes \in Nat
  BY <1>1, Limits, Steps
<1> DEFINE t == Total(Sizes, n)
           x == n * MaxBytes
           y == b * MaxBytes
<1> HIDE DEF t, x, y
<1>5. t <= Top /\ t \in Nat
  <2>1. t \in Nat /\ x \in Nat /\ y \in Nat /\ t <= x /\ x <= y /\ y <= Top
    BY <1>1, <1>3, <1>4 DEF t, x, y
  <2> QED
    BY <2>1, BytesAssumption
<1> QED
  BY <1>5 DEF t, FileSize, n

(* The last frame of a segment holds its last byte.                         *)
LEMMA FramesFit ==
  ASSUME StoreOK, NEW k \in 1..Len(store)
  PROVE  /\ (FrameCount(k) - 1) * Payload < Size(k)
         /\ Size(k) <= FrameCount(k) * Payload
         /\ Size(k) % Payload = 0 => Size(k) = FrameCount(k) * Payload
<1> DEFINE n == Size(k)
<1>1. n \in Nat /\ n > 0 /\ FrameCount(k) = CeilDiv(n, Payload)
  BY SegmentIs, Limits
<1> HIDE DEF n
<1>2. n <= CeilDiv(n, Payload) * Payload
  BY <1>1, Limits, Ceil
<1>3. (CeilDiv(n, Payload) - 1) * Payload < n
  BY <1>1, Limits, Ceil
<1>4. n % Payload = 0 => n = CeilDiv(n, Payload) * Payload
  <2> SUFFICES ASSUME n % Payload = 0 PROVE n = CeilDiv(n, Payload) * Payload
    OBVIOUS
  <2>1. CeilDiv(n, Payload) = n \div Payload
    BY <1>1, Limits, Ceil
  <2>2. n = (n \div Payload) * Payload + (n % Payload) /\ n \div Payload \in Nat
    BY <1>1, Limits, DivMod
  <2>3. (n \div Payload) * Payload \in Nat
    BY <2>2, Limits, Steps
  <2> DEFINE m == (n \div Payload) * Payload
  <2>4. n = m + 0 /\ m \in Nat
    BY <2>2, <2>3
  <2> HIDE DEF m
  <2>5. n = m
    BY <2>4
  <2> QED
    BY <2>1, <2>5 DEF m
<1> QED
  BY <1>1, <1>2, <1>3, <1>4 DEF n

(* A file of the files gateway has its frames side by side.                 *)
LEMMA AlignedLayout ==
  ASSUME StoreOK, Aligned, job.gateway = "files"
  PROVE  /\ \A k \in 1..Len(store) : Offset(k) = Base(k) * Payload
         /\ \A k \in 1..(Len(store) - 1) :
              Size(k) % Payload = 0 /\ Offset(k + 1) = Base(k + 1) * Payload
         /\ FileSize <= Base(Len(store) + 1) * Payload
<1> DEFINE n == Len(store)
           G == {k \in Nat : k < n => Offset(k + 1) = Base(k + 1) * Payload}
<1>1. n \in Nat
  BY Layout
<1>2. 0 \in G
  <2>1. 0 + 1 = 1 /\ 0 * Payload = 0
    BY Limits
  <2> QED
    BY <2>1, Layout
<1>3. ASSUME NEW k \in Nat, k < n, k \in G PROVE k + 1 \in G
  <2> SUFFICES ASSUME k + 1 < n PROVE Offset((k + 1) + 1) = Base((k + 1) + 1) * Payload
    OBVIOUS
  <2> DEFINE j == k + 1
  <2>1. j \in 1..n /\ j \in 1..(n - 1) /\ j \in 1..(n + 1)
    BY <1>1
  <2>2. Offset(j) = Base(j) * Payload
    BY <1>3
  <2> HIDE DEF j
  <2>3. Size(j) = FrameCount(j) * Payload
    BY <2>1, FramesFit DEF Aligned
  <2>4. Offset(j + 1) = Offset(j) + Size(j) /\ Base(j + 1) = Base(j) + FrameCount(j)
        /\ Base(j) \in Nat /\ FrameCount(j) \in Nat
    BY <2>1, Layout, SegmentIs
  <2>5. (Base(j) + FrameCount(j)) * Payload = Base(j) * Payload + FrameCount(j) * Payload
    BY <2>4, Limits, Steps
  <2>6. Offset(j + 1) = Base(j + 1) * Payload
    BY <2>2, <2>3, <2>4, <2>5
  <2> QED
    BY <2>6 DEF j
<1>4. \A k \in 0..(n - 1) : k \in G
  <2> TAKE k \in 0..(n - 1)
  <2>1. k \in Nat /\ k < n
    BY <1>1
  <2> HIDE DEF G, n
  <2>2. \A m \in Nat : m < k /\ m \in G => m + 1 \in G
    <3>1. \A m \in Nat : m < k => m < n
      BY <1>1, <2>1
    <3> QED
      BY <1>3, <3>1
  <2> QED
    BY <1>2, <2>1, <2>2, UpTo
<1>5. \A k \in 1..n : Offset(k) = Base(k) * Payload
  <2> TAKE k \in 1..n
  <2>1. k - 1 \in 0..(n - 1) /\ k - 1 < n /\ (k - 1) + 1 = k
    BY <1>1
  <2> QED
    BY <1>4, <2>1
<1>6. \A k \in 1..(n - 1) : Size(k) % Payload = 0 /\ Offset(k + 1) = Base(k + 1) * Payload
  <2> TAKE k \in 1..(n - 1)
  <2>1. k + 1 \in 1..n
    BY <1>1
  <2> QED
    BY <1>5, <2>1 DEF Aligned
<1>7. FileSize <= Base(n + 1) * Payload
  <2>1. CASE n = 0
    <3>1. n + 1 = 1 /\ 0 * Payload = 0
      BY <2>1, Limits
    <3> QED
      BY <3>1, Layout
  <2>2. CASE n # 0
    <3>1. n \in 1..n /\ n \in 1..(n + 1)
      BY <1>1, <2>2
    <3>2. /\ Offset(n + 1) = Offset(n) + Size(n) /\ Base(n + 1) = Base(n) + FrameCount(n)
          /\ Base(n) \in Nat /\ FrameCount(n) \in Nat /\ Offset(n + 1) = FileSize
          /\ Offset(n) \in Nat /\ Size(n) \in Nat
      BY <3>1, Layout, SegmentIs, Limits
    <3>3. Size(n) <= FrameCount(n) * Payload
      BY <3>1, FramesFit
    <3> DEFINE x == Base(n) * Payload
               y == FrameCount(n) * Payload
    <3>4. Base(n + 1) * Payload = x + y /\ x \in Nat /\ y \in Nat
      BY <3>2, Limits, Steps
    <3>5. Offset(n) = x
      BY <1>5, <3>1
    <3>6. Size(n) <= y
      BY <3>3
    <3> HIDE DEF x, y
    <3> QED
      BY <3>2, <3>4, <3>5, <3>6
  <2> QED
    BY <2>1, <2>2
<1> QED
  BY <1>5, <1>6, <1>7
----------------------------------------------------------------------------
(* Asking *)

PieceT == [segment : Nat, lo : Nat, hi : Nat]
StreamT == [pieces : Seq(PieceT), skip : Nat, remaining : Nat]
ReaderT == [streams : Seq(StreamT), base : Nat, got : Nat, stop : Nat, index : Nat]

(* The first byte that a stream sends when its next frame is frame i of its *)
(* first piece, when it begins, and the one after its last.                 *)
FromAt(s, i) == Offset(s.pieces[1].segment) + i * Payload + s.skip
From(s) == FromAt(s, s.pieces[1].lo)
Until(s) == From(s) + s.remaining

PieceOK(p) ==
  p.segment \in 1..Len(store) /\ p.lo < p.hi /\ p.hi <= FrameCount(p.segment)

(* The pieces of a stream are next to one another, with no padding in       *)
(* between; its last byte is in the last frame.                             *)
Shape(s) ==
  LET m == Len(s.pieces) IN
  /\ s \in StreamT /\ m > 0
  /\ \A j \in 1..m : PieceOK(s.pieces[j]) /\ s.pieces[j].segment = s.pieces[1].segment + (j - 1)
  /\ \A j \in 1..(m - 1) : /\ s.pieces[j].hi = FrameCount(s.pieces[j].segment)
                           /\ Size(s.pieces[j].segment) % Payload = 0
                           /\ s.pieces[j + 1].lo = 0

EndsAt(s, until) ==
  LET z == s.pieces[Len(s.pieces)] IN
  /\ Offset(z.segment) + (z.hi - 1) * Payload < until
  /\ until <= Offset(z.segment) + z.hi * Payload
  /\ until <= Offset(z.segment) + Size(z.segment)

StreamOK(s) ==
  Shape(s) /\ s.skip < Payload /\ s.remaining > 0 /\ EndsAt(s, Until(s))

(* Streams that send the bytes start, ..., end - 1, one after the other.    *)
Sends(ss, start, end) ==
  /\ ss \in Seq(StreamT) /\ start <= end
  /\ \A i \in 1..Len(ss) : StreamOK(ss[i]) /\ Until(ss[i]) <= end
  /\ \A i \in 1..(Len(ss) - 1) : From(ss[i + 1]) = Until(ss[i])
  /\ IF ss = <<>> THEN start = end ELSE From(ss[1]) = start /\ Until(ss[Len(ss)]) = end

(* Every frame of a piece has a byte of the range.                          *)
Needed(p, start, end) ==
  \A f \in p.lo..(p.hi - 1) :
    \E b \in (f * Payload + 1)..Least((f + 1) * Payload, Size(p.segment)) :
      start < Offset(p.segment) + b /\ Offset(p.segment) + b <= end

(* The frames of a range of bytes.                                          *)
LEMMA FramesOf ==
  ASSUME NEW start \in Nat, NEW end \in Nat, start < end
  PROVE  LET F == start \div Payload
             E == CeilDiv(end, Payload)
         IN /\ F \in Nat /\ E \in Nat /\ F < E /\ E - 1 \in Nat
            /\ F * Payload \in Nat /\ E * Payload \in Nat /\ (E - 1) * Payload \in Nat
            /\ start % Payload \in 0..(Payload - 1)
            /\ start = F * Payload + (start % Payload)
            /\ (E - 1) * Payload < end /\ end <= E * Payload
<1> DEFINE F == start \div Payload
           E == CeilDiv(end, Payload)
           r == start % Payload
           a == F * Payload
           b == E * Payload
           c == (E - 1) * Payload
<1>1. F \in Nat /\ r \in 0..(Payload - 1) /\ start = a + r
  BY Limits, DivMod
<1>2. E \in Nat /\ end <= b
  BY Limits, Ceil
<1>3. E > 0 /\ c < end
  BY Limits, Ceil
<1> HIDE DEF F, E, r
<1>4. E - 1 \in Nat
  BY <1>2, <1>3
<1>5. a \in Nat /\ b \in Nat /\ c \in Nat
  <2>1. a \in Nat /\ b \in Nat
    BY <1>1, <1>2, Limits, Steps
  <2> DEFINE d == E - 1
  <2>2. d \in Nat
    BY <1>4
  <2> HIDE DEF d
  <2>3. d * Payload \in Nat
    BY <2>2, Limits, Steps
  <2> QED
    BY <2>1, <2>3 DEF d
<1>6. F < E
  <2> SUFFICES ASSUME E <= F PROVE FALSE
    BY <1>1, <1>2
  <2>1. b <= a
    BY <1>1, <1>2, Limits, Steps
  <2> HIDE DEF a, b, c
  <2> QED
    BY <1>1, <1>2, <1>5, <2>1, Limits
<1> QED
  BY <1>1, <1>2, <1>3, <1>4, <1>5, <1>6 DEF F, E, r

(* Segment k, cut to the frames of a range, the segments that have some,    *)
(* and a stream of those from x to y.                                       *)
CutOut(k, base, start, end) ==
  [segment |-> k,
   lo |-> Most(base[k], start \div Payload) - base[k],
   hi |-> Least(base[k] + FrameCount(k), CeilDiv(end, Payload)) - base[k]]

Having(ks, base, start, end) ==
  {k \in ks : Most(base[k], start \div Payload)
                 < Least(base[k] + FrameCount(k), CeilDiv(end, Payload))}

MadeOf(s, x, y, base, start, end) ==
  /\ s.skip = start % Payload /\ s.remaining = end - start
  /\ s.pieces \in Seq(PieceT) /\ Len(s.pieces) = (y + 1) - x
  /\ \A i \in 1..((y + 1) - x) : s.pieces[i] = CutOut((x + i) - 1, base, start, end)

(* The pieces that StreamOf plans, segment by segment.                      *)
LEMMA PiecesAre ==
  ASSUME StoreOK, NEW x \in 1..Len(store), NEW y \in 1..Len(store), x <= y,
         NEW ks, NEW base, \A k \in ks : k \in 1..Len(store) /\ base[k] \in Nat,
         NEW start \in Nat, NEW end \in Nat, start < end,
         Having(ks, base, start, end) = x..y
  PROVE  MadeOf(StreamOf(ks, base, start, end), x, y, base, start, end)
<1> DEFINE F == start \div Payload
           E == CeilDiv(end, Payload)
<1>0. F \in Nat /\ E \in Nat
  BY FramesOf
<1> DEFINE Cutting(k) == CutOut(k, base, start, end)
           n == (y + 1) - x
           s == StreamOf(ks, base, start, end)
<1>1. \A k \in ks : k \in Nat /\ base[k] \in Nat /\ FrameCount(k) \in Nat \ {0}
  BY SegmentIs
<1>c. \A k : /\ Cutting(k).lo = Most(base[k], F) - base[k]
             /\ Cutting(k).hi = Least(base[k] + FrameCount(k), E) - base[k]
             /\ Cutting(k) = [segment |-> k, lo |-> Cutting(k).lo, hi |-> Cutting(k).hi]
  BY DEF CutOut
<1>h. {k \in ks : Most(base[k], F) < Least(base[k] + FrameCount(k), E)} = x..y
  BY DEF Having
<1>2. {k \in ks : Cutting(k).lo < Cutting(k).hi} = x..y
  <2> HIDE DEF Cutting, F, E
  <2>1. \A k \in ks : Cutting(k).lo < Cutting(k).hi
                        <=> Most(base[k], F) < Least(base[k] + FrameCount(k), E)
    BY <1>0, <1>1, <1>c DEF Most, Least
  <2> QED
    BY <1>h, <2>1
<1>3. n \in Nat /\ x \in Nat /\ y \in Nat /\ x <= y + 1
  BY Layout
<1>4. InOrder(x..y) = [i \in 1..n |-> (x + i) - 1]
  BY <1>3, InOrderIs
<1>5. \A k \in x..y : k \in ks /\ Most(base[k], F) < Least(base[k] + FrameCount(k), E)
  BY <1>h
<1>6. \A k \in x..y : Cutting(k) \in PieceT
  <2> TAKE k \in x..y
  <2>1. k \in Nat /\ base[k] \in Nat /\ FrameCount(k) \in Nat \ {0}
    BY <1>1, <1>5
  <2>2. Most(base[k], F) < Least(base[k] + FrameCount(k), E)
    BY <1>5
  <2> HIDE DEF F, E, Cutting
  <2>3. Most(base[k], F) - base[k] \in Nat /\ Least(base[k] + FrameCount(k), E) - base[k] \in Nat
    BY <1>0, <2>1, <2>2 DEF Most, Least
  <2>4. Cutting(k).lo \in Nat /\ Cutting(k).hi \in Nat
        /\ Cutting(k) = [segment |-> k, lo |-> Cutting(k).lo, hi |-> Cutting(k).hi]
    BY <1>c, <2>3
  <2> QED
    BY <2>1, <2>4 DEF PieceT
<1>7. s = [pieces |-> [i \in DOMAIN InOrder(x..y) |-> Cutting(InOrder(x..y)[i])],
           skip |-> start % Payload, remaining |-> end - start]
  BY <1>2 DEF StreamOf, Frames, CutOut
<1>8. DOMAIN InOrder(x..y) = 1..n /\ \A i \in 1..n : InOrder(x..y)[i] = (x + i) - 1
  BY <1>4
<1>9. \A i \in 1..n : (x + i) - 1 \in x..y
  BY <1>3
<1> HIDE DEF Cutting, n, s
<1>10. s.pieces = [i \in 1..n |-> Cutting((x + i) - 1)]
  <2>1. s.pieces = [i \in DOMAIN InOrder(x..y) |-> Cutting(InOrder(x..y)[i])]
    BY <1>7
  <2> QED
    BY <1>8, <2>1, Zenon
<1>11. s.pieces \in Seq(PieceT) /\ Len(s.pieces) = n
  <2> DEFINE Nth(i) == Cutting((x + i) - 1)
  <2>1. \A i \in 1..n : Nth(i) \in PieceT
    BY <1>6, <1>9
  <2>2. s.pieces = [i \in 1..n |-> Nth(i)]
    BY <1>10
  <2> HIDE DEF Nth
  <2> QED
    BY <1>3, <2>1, <2>2
<1>12. \A i \in 1..n : s.pieces[i] = Cutting((x + i) - 1)
  BY <1>10
<1>13. s.skip = start % Payload /\ s.remaining = end - start
  BY <1>7
<1> QED
  BY <1>11, <1>12, <1>13 DEF Cutting, n, s, MadeOf
(* One piece: a frame is needed if it is neither before the range's first   *)
(* frame nor after its last, and the range begins in the segment or before. *)
LEMMA NeededWhen ==
  ASSUME StoreOK, NEW p \in PieceT, PieceOK(p), NEW start \in Nat, NEW end \in Nat, start < end,
         start < Offset(p.segment) + Size(p.segment),
         start < Offset(p.segment) + (p.lo + 1) * Payload,
         Offset(p.segment) + (p.hi - 1) * Payload < end
  PROVE  Needed(p, start, end)
<1> DEFINE k == p.segment
           o == Offset(k)
           z == Size(k)
<1>1. /\ k \in 1..Len(store) /\ p.lo \in Nat /\ p.hi \in Nat /\ p.lo < p.hi
      /\ p.hi <= FrameCount(k) /\ FrameCount(k) \in Nat \ {0}
  BY SegmentIs DEF PieceOK, PieceT
<1>2. o \in Nat /\ z \in Nat
  <2>1. k \in 1..(Len(store) + 1)
    BY <1>1, Layout
  <2> QED
    BY <1>1, <2>1, Layout, SegmentIs, Limits
<1>3. (FrameCount(k) - 1) * Payload < z
  BY <1>1, FramesFit
<1> SUFFICES ASSUME NEW f \in p.lo..(p.hi - 1)
             PROVE  \E b \in (f * Payload + 1)..Least((f + 1) * Payload, z) :
                      start < o + b /\ o + b <= end
  BY DEF Needed
<1>4. f \in Nat /\ f <= p.hi - 1 /\ p.lo <= f /\ p.hi - 1 \in Nat /\ f <= FrameCount(k) - 1
      /\ FrameCount(k) - 1 \in Nat
  BY <1>1
<1> DEFINE u == f * Payload
           v == (f + 1) * Payload
           lo == (p.lo + 1) * Payload
           hi == (p.hi - 1) * Payload
           w == (FrameCount(k) - 1) * Payload
<1>5. u \in Nat /\ v = u + Payload /\ lo <= v /\ lo \in Nat /\ u <= hi /\ hi \in Nat
      /\ u <= w /\ w \in Nat
  <2> DEFINE g == p.hi - 1
             h == p.lo + 1
             i == f + 1
             j == FrameCount(k) - 1
  <2>1. g \in Nat /\ h \in Nat /\ i \in Nat /\ j \in Nat /\ f <= g /\ h <= i /\ f <= j
    BY <1>1, <1>4
  <2>2. u \in Nat /\ v = u + Payload
    BY <1>4, Limits, Steps
  <2> HIDE DEF g, h, i, j
  <2>3. h * Payload <= i * Payload /\ h * Payload \in Nat
    BY <2>1, Limits, Steps
  <2>4. f * Payload <= g * Payload /\ g * Payload \in Nat
    BY <1>4, <2>1, Limits, Steps
  <2>5. f * Payload <= j * Payload /\ j * Payload \in Nat
    BY <1>4, <2>1, Limits, Steps
  <2> QED
    BY <2>2, <2>3, <2>4, <2>5 DEF g, h, i, j
<1>6. start < o + z /\ start < o + lo /\ o + hi < end /\ w < z
  BY <1>3
<1> DEFINE b == IF start < o + u THEN u + 1 ELSE (start - o) + 1
<1> HIDE DEF u, v, lo, hi, w, o, z
<1>7. b \in Nat /\ u + 1 <= b /\ b <= v /\ b <= z /\ start < o + b /\ o + b <= end
  BY <1>2, <1>5, <1>6, Limits
<1>8. b \in (u + 1)..Least(v, z)
  <2> HIDE DEF b
  <2> QED
    BY <1>2, <1>5, <1>7, Limits DEF Least
<1> HIDE DEF b
<1>9. \E i \in (u + 1)..Least(v, z) : start < o + i /\ o + i <= end
  BY <1>7, <1>8
<1> QED
  BY <1>9 DEF u, v
(* A stream that sends the bytes from, ..., until - 1 of a range and has no  *)
(* frame that is idle.                                                      *)
Serves(s, from, until, start, end) ==
  /\ StreamOK(s) /\ From(s) = from /\ Until(s) = until
  /\ \A m \in 1..Len(s.pieces) : Needed(s.pieces[m], start, end)

(* What a gateway makes of a range of one file of the files gateway.        *)
LEMMA FilesStream ==
  ASSUME StoreOK, Aligned, job.gateway = "files",
         NEW start \in Nat, NEW end \in Nat, start < end, end <= FileSize
  PROVE  Serves(StreamOf(DOMAIN store, [k \in DOMAIN store |-> Base(k)], start, end),
                start, end, start, end)
<1> DEFINE s == StreamOf(DOMAIN store, [k \in DOMAIN store |-> Base(k)], start, end)
           n == Len(store)
           F == start \div Payload
           E == CeilDiv(end, Payload)
           base == [k \in DOMAIN store |-> Base(k)]
<1>1. /\ F \in Nat /\ E \in Nat /\ F < E /\ E - 1 \in Nat
      /\ F * Payload \in Nat /\ E * Payload \in Nat /\ (E - 1) * Payload \in Nat
      /\ start % Payload \in 0..(Payload - 1)
      /\ start = F * Payload + (start % Payload)
      /\ (E - 1) * Payload < end /\ end <= E * Payload
  BY FramesOf
<1>2. n \in Nat /\ DOMAIN store = 1..n /\ Offset(n + 1) = FileSize
  BY Layout DEF StoreOK
<1>3. /\ \A k \in 1..n : base[k] = Base(k) /\ Base(k) \in Nat /\ Offset(k) \in Nat
                         /\ Base(k + 1) \in Nat /\ Offset(k + 1) \in Nat
      /\ \A k \in 1..n : Base(k + 1) = Base(k) + FrameCount(k)
      /\ \A k \in 1..n : Offset(k + 1) = Offset(k) + Size(k)
  <2>1. \A k \in 1..n : k \in 1..(n + 1) /\ k + 1 \in 1..(n + 1)
    BY <1>2
  <2> QED
    BY <1>2, <2>1, Layout
<1>4. /\ \A k \in 1..n : Offset(k) = Base(k) * Payload
      /\ \A k \in 1..(n - 1) : Size(k) % Payload = 0 /\ Offset(k + 1) = Base(k + 1) * Payload
      /\ FileSize <= Base(n + 1) * Payload
  BY AlignedLayout
<1>5. Base(n + 1) \in Nat /\ Base(n + 1) * Payload \in Nat
  <2>1. n + 1 \in 1..(n + 1)
    BY <1>2
  <2>2. Base(n + 1) \in Nat
    BY <2>1, Layout
  <2> QED
    BY <2>2, Limits, Steps
<1>s. s = StreamOf(DOMAIN store, base, start, end)
      /\ s = [pieces |-> s.pieces, skip |-> s.skip, remaining |-> s.remaining]
  BY DEF StreamOf
<1> HIDE DEF F, E, base, n, s
<1>6. E <= Base(n + 1)
  <2> SUFFICES ASSUME Base(n + 1) < E PROVE FALSE
    BY <1>1, <1>5
  <2> DEFINE e == E - 1
             a == Base(n + 1) * Payload
             b == e * Payload
  <2>1. e \in Nat /\ Base(n + 1) <= e
    BY <1>1, <1>5
  <2> HIDE DEF e
  <2>2. a <= b
    BY <1>5, <2>1, Limits, Steps
  <2>3. b \in Nat /\ b < end /\ FileSize <= a /\ a \in Nat
    BY <1>1, <1>4, <1>5 DEF e
  <2>4. FileSize \in Nat
    BY <1>2, Layout DEF n
  <2> HIDE DEF a, b
  <2> QED
    BY <2>2, <2>3, <2>4
<1>7. Rising(Bases, n) /\ Bases[1] = 0 /\ Bases[n + 1] = Base(n + 1)
      /\ \A k \in 1..n : Bases[k] = Base(k) /\ Bases[k + 1] = Base(k + 1)
  <2>1. 1 \in 1..(n + 1) /\ n + 1 \in 1..(n + 1) /\ \A k \in 1..n : k \in 1..(n + 1) /\ k + 1 \in 1..(n + 1)
    BY <1>2
  <2> QED
    BY <2>1, Layout, LayoutRises DEF Bases, n
<1>8. PICK x \in 1..n, y \in 1..n :
        /\ x <= y /\ Base(x) <= F /\ F < Base(x + 1) /\ Base(y) < E /\ E <= Base(y + 1)
        /\ Touched(Bases, n, F, E) = x..y
  <2>1. PICK x \in 1..n, y \in 1..n : Spans(Bases, n, F, E, x, y)
    <3>1. n \in Nat /\ F \in Nat /\ E \in Nat /\ F < E /\ E <= Bases[n + 1]
          /\ Rising(Bases, n) /\ Bases[1] = 0
      BY <1>1, <1>2, <1>6, <1>7
    <3> QED
      BY <3>1, Overlapping
  <2>2. /\ x <= y /\ Base(x) <= F /\ F < Base(x + 1) /\ Base(y) < E /\ E <= Base(y + 1)
        /\ Touched(Bases, n, F, E) = x..y
    BY <1>7, <2>1 DEF Spans
  <2> QED
    BY <2>2
<1>f. F \in Nat /\ E \in Nat /\ F < E /\ E - 1 \in Nat
  BY <1>1
<1>b. /\ Base(x) \in Nat /\ Base(x + 1) \in Nat /\ Base(x) <= F /\ F < Base(x + 1)
      /\ Base(y) \in Nat /\ Base(y + 1) \in Nat /\ Base(y) < E /\ E <= Base(y + 1)
  BY <1>3, <1>8
<1>9. Having(DOMAIN store, base, start, end) = x..y
  <2>1. \A k \in 1..n : Bases[k] = base[k] /\ Bases[k + 1] = base[k] + FrameCount(k)
    BY <1>3, <1>7
  <2>2. {k \in 1..n : Most(Bases[k], F) < Least(Bases[k + 1], E)} = x..y
    BY <1>8 DEF Touched
  <2>3. Having(DOMAIN store, base, start, end)
          = {k \in 1..n : Most(base[k], F) < Least(base[k] + FrameCount(k), E)}
    BY <1>2 DEF Having, F, E
  <2> QED
    BY <2>1, <2>2, <2>3
<1> DEFINE m == (y + 1) - x
<1>10. m \in Nat /\ m > 0 /\ x \in Nat /\ y \in Nat
       /\ \A i \in 1..m : (x + i) - 1 \in 1..n /\ (x + i) - 1 <= y /\ x <= (x + i) - 1
  BY <1>2, <1>8
<1>m. MadeOf(s, x, y, base, start, end)
  <2>1. \A k \in DOMAIN store : k \in 1..Len(store) /\ base[k] \in Nat
    BY <1>2, <1>3 DEF n
  <2>2. x \in 1..Len(store) /\ y \in 1..Len(store) /\ x <= y
    BY <1>8 DEF n
  <2>3. s = StreamOf(DOMAIN store, base, start, end)
    BY <1>s
  <2>4. MadeOf(StreamOf(DOMAIN store, base, start, end), x, y, base, start, end)
    BY <1>9, <2>1, <2>2, PiecesAre
  <2> QED
    BY <2>3, <2>4
<1>11. /\ s.skip = start % Payload /\ s.remaining = end - start
       /\ s.pieces \in Seq(PieceT) /\ Len(s.pieces) = m
       /\ \A i \in 1..m :
            s.pieces[i] = [segment |-> (x + i) - 1,
                           lo |-> Most(base[(x + i) - 1], F) - base[(x + i) - 1],
                           hi |-> Least(base[(x + i) - 1] + FrameCount((x + i) - 1), E)
                                    - base[(x + i) - 1]]
  BY <1>m DEF MadeOf, CutOut, F, E
<1>12. \A j, k \in 1..n : j < k => Base(j + 1) <= Base(k)
  <2>1. \A j, k \in 1..(n + 1) : j < k => Bases[j] < Bases[k]
    BY <1>2, <1>7, RisingOrder
  <2> TAKE j, k \in 1..n
  <2> HAVE j < k
  <2>2. j + 1 \in 1..(n + 1) /\ k \in 1..(n + 1) /\ (j + 1 = k \/ j + 1 < k)
    BY <1>2
  <2>3. Base(j + 1) = Bases[j + 1] /\ Base(k) = Bases[k] /\ Base(k) \in Nat /\ Base(j + 1) \in Nat
    BY <1>3, <1>7
  <2> QED
    BY <2>1, <2>2, <2>3
<1>13. ASSUME NEW i \in 1..m
       PROVE  LET p == s.pieces[i]
                  k == (x + i) - 1
              IN /\ p \in PieceT /\ p.segment = k
                 /\ p.lo = IF i = 1 THEN F - Base(x) ELSE 0
                 /\ p.hi = IF i = m THEN E - Base(y) ELSE FrameCount(k)
                 /\ p.lo < p.hi /\ p.hi <= FrameCount(k)
  <2> DEFINE p == s.pieces[i]
             k == (x + i) - 1
             b == Base(k)
             c == FrameCount(k)
  <2>1. k \in 1..n /\ k <= y /\ x <= k /\ (i = 1 <=> k = x) /\ (i = m <=> k = y)
    BY <1>10
  <2>2. p.segment = k /\ p.lo = Most(b, F) - b /\ p.hi = Least(b + c, E) - b
    <3>1. base[k] = b
      BY <1>3, <2>1
    <3>2. p = [segment |-> k, lo |-> Most(base[k], F) - base[k],
               hi |-> Least(base[k] + c, E) - base[k]]
      BY <1>11
    <3> HIDE DEF p, k, b, c
    <3> QED
      BY <3>1, <3>2
  <2>3. p \in PieceT
    BY <1>11
  <2>4. b \in Nat /\ c \in Nat \ {0} /\ Base(k + 1) = b + c
    BY <1>3, <2>1, SegmentIs DEF n
  <2>5. k # x => F < b
    <3> SUFFICES ASSUME k # x PROVE F < b
      OBVIOUS
    <3>1. x < k
      BY <1>10, <2>1
    <3>2. Base(x + 1) <= b
      BY <1>12, <2>1, <3>1
    <3>3. Base(x + 1) \in Nat
      BY <1>3
    <3> QED
      BY <1>f, <1>b, <2>4, <3>2, <3>3
  <2>6. k # y => b + c < E
    <3> SUFFICES ASSUME k # y PROVE b + c < E
      OBVIOUS
    <3>1. k < y
      BY <1>10, <2>1
    <3>2. Base(k + 1) <= Base(y)
      BY <1>12, <2>1, <3>1
    <3>3. Base(y) \in Nat
      BY <1>3
    <3> QED
      BY <1>f, <1>b, <2>4, <3>2, <3>3
  <2>7. k = x => b <= F /\ b = Base(x)
    BY <1>8
  <2>8. k = x => F < b + c
    BY <1>8, <2>4
  <2>9. k = y => b < E /\ E <= b + c /\ b = Base(y)
    BY <1>8, <2>4
  <2> HIDE DEF b, c, p, k
  <2>10. p.lo = IF i = 1 THEN F - Base(x) ELSE 0
    BY <1>1, <2>1, <2>2, <2>4, <2>5, <2>7 DEF Most
  <2>11. p.hi = IF i = m THEN E - Base(y) ELSE c
    BY <1>1, <2>1, <2>2, <2>4, <2>6, <2>9 DEF Least
  <2>12. p.lo < p.hi /\ p.hi <= c
    <3>1. p.lo < p.hi
      BY <1>1, <2>1, <2>2, <2>4, <2>5, <2>6, <2>7, <2>8, <2>9 DEF Most, Least
    <3>2. p.hi <= c
      BY <1>1, <2>2, <2>4 DEF Least
    <3> QED
      BY <3>1, <3>2
  <2> QED
    BY <2>2, <2>3, <2>10, <2>11, <2>12 DEF p, k, c
<1> HIDE DEF m
<1>14. From(s) = start
  <2> DEFINE a == F * Payload
             b == Base(x) * Payload
             g == F - Base(x)
             c == g * Payload
  <2>1. g \in Nat /\ Base(x) \in Nat /\ Base(x) + g = F
    BY <1>f, <1>b
  <2>2. s.pieces[1].segment = x /\ s.pieces[1].lo = g
    <3>1. 1 \in 1..m /\ (x + 1) - 1 = x
      BY <1>10
    <3> QED
      BY <1>13, <3>1
  <2> HIDE DEF g
  <2>3. a = b + c /\ b \in Nat /\ c \in Nat
    BY <2>1, Limits, Steps
  <2>4. Offset(x) = b
    BY <1>4
  <2>5. From(s) = b + c + (start % Payload)
    BY <1>11, <2>2, <2>4 DEF From, FromAt
  <2>6. start = a + (start % Payload)
    BY <1>1
  <2> HIDE DEF a, b, c
  <2> QED
    BY <1>1, <2>3, <2>5, <2>6
<1>15. Until(s) = end
  BY <1>11, <1>14 DEF Until
<1>16. s.skip \in Nat /\ s.skip < Payload /\ s.remaining \in Nat /\ s.remaining > 0
  <2>1. s.skip \in 0..(Payload - 1)
    BY <1>1, <1>11
  <2>2. s.remaining = end - start
    BY <1>11
  <2> QED
    BY <2>1, <2>2, Limits
<1>17. s \in StreamT
  <2>1. s = [pieces |-> s.pieces, skip |-> s.skip, remaining |-> s.remaining]
    BY <1>s
  <2> QED
    BY <1>11, <1>16, <2>1 DEF StreamT
<1>18. LET z == s.pieces[m] IN
       /\ z.segment = y /\ z.hi = E - Base(y)
       /\ Offset(y) + (z.hi - 1) * Payload < end
       /\ end <= Offset(y) + z.hi * Payload
       /\ end <= Offset(y) + Size(y)
  <2> DEFINE z == s.pieces[m]
             h == E - Base(y)
             g == h - 1
             a == Base(y) * Payload
             b == h * Payload
             c == g * Payload
  <2>1. h \in Nat /\ g \in Nat /\ Base(y) \in Nat /\ Base(y) + h = E /\ Base(y) + g = E - 1
    BY <1>f, <1>b
  <2>2. z.segment = y /\ z.hi = h
    <3>1. m \in 1..m /\ (x + m) - 1 = y
      BY <1>10 DEF m
    <3> QED
      BY <1>13, <3>1
  <2>3. Offset(y) = a
    BY <1>4
  <2> HIDE DEF h, g, z
  <2>4. (Base(y) + h) * Payload = a + b /\ (Base(y) + g) * Payload = a + c
        /\ a \in Nat /\ b \in Nat /\ c \in Nat
    BY <2>1, Limits, Steps
  <2>5. a + c < end /\ end <= a + b
    BY <1>1, <2>1, <2>4
  <2>6. end <= Offset(y) + Size(y)
    <3>1. CASE y = n
      BY <1>2, <1>3, <3>1
    <3>2. CASE y # n
      <4>1. y \in 1..(n - 1)
        BY <1>2, <1>8, <3>2
      <4>2. Offset(y + 1) = Base(y + 1) * Payload
        BY <1>4, <4>1
      <4>3. E * Payload <= Base(y + 1) * Payload /\ Base(y + 1) * Payload \in Nat
        BY <1>1, <1>3, <1>8, Limits, Steps
      <4> DEFINE u == E * Payload
                 v == Base(y + 1) * Payload
      <4>4. end <= u /\ u <= v /\ u \in Nat /\ v \in Nat /\ Offset(y + 1) = v
        BY <1>1, <4>2, <4>3
      <4> HIDE DEF u, v
      <4>5. end <= Offset(y + 1)
        BY <4>4
      <4> QED
        BY <1>3, <4>5
    <3> QED
      BY <3>1, <3>2
  <2>7. g = h - 1
    BY DEF g
  <2> QED
    BY <2>2, <2>3, <2>5, <2>6, <2>7 DEF z, h
<1>19. StreamOK(s)
  <2>1. \A j \in 1..m : /\ PieceOK(s.pieces[j])
                        /\ s.pieces[j].segment = s.pieces[1].segment + (j - 1)
    <3> TAKE j \in 1..m
    <3>1. 1 \in 1..m /\ (x + 1) - 1 = x /\ (x + j) - 1 = x + (j - 1)
      BY <1>10
    <3> QED
      BY <1>10, <1>13, <3>1 DEF PieceOK, n
  <2>2. \A j \in 1..(m - 1) : /\ s.pieces[j].hi = FrameCount(s.pieces[j].segment)
                              /\ Size(s.pieces[j].segment) % Payload = 0
                              /\ s.pieces[j + 1].lo = 0
    <3> TAKE j \in 1..(m - 1)
    <3>1. j \in 1..m /\ j # m /\ j + 1 \in 1..m /\ j + 1 # 1
      BY <1>10
    <3>2. (x + j) - 1 \in 1..(n - 1)
      <4>1. (x + (j + 1)) - 1 \in 1..n
        BY <1>10, <3>1
      <4> QED
        BY <1>2, <1>10, <3>1, <4>1
    <3>3. s.pieces[j].segment = (x + j) - 1 /\ s.pieces[j].hi = FrameCount((x + j) - 1)
          /\ s.pieces[j + 1].lo = 0
      BY <1>13, <3>1
    <3> QED
      BY <1>4, <3>2, <3>3
  <2>3. Shape(s)
    BY <1>10, <1>11, <1>17, <2>1, <2>2 DEF Shape
  <2>4. EndsAt(s, end)
    BY <1>11, <1>18 DEF EndsAt
  <2> QED
    BY <1>15, <1>16, <2>3, <2>4 DEF StreamOK
<1>20. ASSUME NEW i \in 1..m
       PROVE  Needed(s.pieces[i], start, end)
  <2> DEFINE p == s.pieces[i]
             k == (x + i) - 1
  <2>1. p \in PieceT /\ PieceOK(p) /\ p.segment = k /\ k \in 1..n
    BY <1>10, <1>13 DEF PieceOK, n
  <2>2. Base(k) + p.lo >= F /\ Base(k) + p.hi <= E /\ p.lo \in Nat /\ p.hi \in Nat \ {0}
        /\ Base(k) \in Nat
    <3>1. Base(k) \in Nat /\ p.lo \in Nat /\ p.hi \in Nat \ {0}
      <4>1. p.lo \in Nat /\ p.hi \in Nat /\ p.lo < p.hi
        BY <2>1 DEF PieceT, PieceOK
      <4> QED
        BY <1>3, <2>1, <4>1
    <3>2. Base(k) + p.lo >= F
      <4>1. CASE i = 1
        <5>1. k = x /\ p.lo = F - Base(x)
          BY <1>10, <1>13, <4>1
        <5> HIDE DEF k, p
        <5> QED
          BY <1>f, <1>b, <5>1
      <4>2. CASE i # 1
        <5>1. x < k /\ p.lo = 0
          BY <1>10, <1>13, <4>2
        <5>2. Base(x + 1) <= Base(k) /\ Base(x + 1) \in Nat
          BY <1>3, <1>12, <2>1, <5>1
        <5> HIDE DEF k, p
        <5> QED
          BY <1>f, <1>b, <3>1, <5>1, <5>2
      <4> QED
        BY <4>1, <4>2
    <3>3. Base(k) + p.hi <= E
      <4>1. CASE i = m
        <5>1. k = y /\ p.hi = E - Base(y)
          BY <1>10, <1>13, <4>1 DEF m
        <5> HIDE DEF k, p
        <5> QED
          BY <1>f, <1>b, <5>1
      <4>2. CASE i # m
        <5>1. k < y /\ p.hi = FrameCount(k)
          BY <1>10, <1>13, <4>2 DEF m
        <5>2. Base(k + 1) <= Base(y) /\ Base(y) \in Nat /\ Base(k + 1) = Base(k) + FrameCount(k)
          BY <1>3, <1>12, <2>1, <5>1
        <5> HIDE DEF k, p
        <5> QED
          BY <1>f, <1>b, <3>1, <5>1, <5>2
      <4> QED
        BY <4>1, <4>2
    <3> QED
      BY <3>1, <3>2, <3>3
  <2> HIDE DEF k, p
  <2> DEFINE o == Base(k) * Payload
             u == p.lo + 1
             v == p.hi - 1
  <2>3. Offset(k) = o /\ o \in Nat
    BY <1>4, <2>1, <2>2, Limits, Steps
  <2>4. start < o + u * Payload
    <3>1. u \in Nat /\ F < Base(k) + u
      BY <1>1, <2>2
    <3> HIDE DEF u
    <3>2. (Base(k) + u) * Payload = o + u * Payload /\ u * Payload \in Nat
      BY <2>2, <3>1, Limits, Steps
    <3>3. F * Payload + Payload <= (Base(k) + u) * Payload
      <4>1. Base(k) + u \in Nat
        BY <2>2, <3>1
      <4> QED
        BY <1>1, <3>1, <4>1, Limits, Steps
    <3> DEFINE a == F * Payload
               b == u * Payload
               c == (Base(k) + u) * Payload
    <3>4. a \in Nat /\ b \in Nat /\ c = o + b /\ a + Payload <= c /\ start = a + (start % Payload)
      BY <1>1, <3>2, <3>3
    <3> HIDE DEF a, b, c, o
    <3>5. start < o + b
      BY <1>1, <2>3, <3>4, Limits
    <3> QED
      BY <3>5 DEF b
  <2>5. o + v * Payload < end
    <3>1. v \in Nat /\ Base(k) + v <= E - 1
      BY <1>1, <2>2
    <3> DEFINE e == E - 1
    <3> HIDE DEF v, e
    <3>2. (Base(k) + v) * Payload = o + v * Payload /\ v * Payload \in Nat
      BY <2>2, <3>1, Limits, Steps
    <3>3. (Base(k) + v) * Payload <= e * Payload
      <4>1. Base(k) + v \in Nat /\ e \in Nat /\ Base(k) + v <= e
        BY <1>1, <2>2, <3>1 DEF e
      <4> QED
        BY <4>1, Limits, Steps
    <3> DEFINE a == e * Payload
               b == v * Payload
               c == (Base(k) + v) * Payload
    <3>4. a \in Nat /\ b \in Nat /\ c = o + b /\ c <= a /\ a < end
      BY <1>1, <3>2, <3>3 DEF e
    <3> HIDE DEF a, b, c, o
    <3>5. o + b < end
      BY <2>3, <3>4
    <3> QED
      BY <3>5 DEF b
  <2>6. start < Offset(k) + Size(k)
    <3>1. CASE k = n
      <4>1. Offset(k) + Size(k) = FileSize /\ FileSize \in Nat
        BY <1>2, <1>3, <2>1, <3>1
      <4> QED
        BY <4>1
    <3>2. CASE k # n
      <4>1. k \in 1..(n - 1)
        BY <1>2, <2>1, <3>2
      <4>2. Offset(k + 1) = Base(k + 1) * Payload /\ Offset(k + 1) = Offset(k) + Size(k)
            /\ Base(k + 1) = Base(k) + FrameCount(k) /\ Base(k + 1) \in Nat
        BY <1>3, <1>4, <2>1, <4>1
      <4>3. F < Base(k + 1)
        <5>1. x = k \/ x < k
          BY <1>10 DEF k
        <5>2. CASE x = k
          BY <1>8, <5>2
        <5>3. CASE x < k
          <6>1. Base(x + 1) <= Base(k) /\ Base(x + 1) \in Nat /\ FrameCount(k) \in Nat
            BY <1>3, <1>12, <2>1, <5>3, SegmentIs DEF n
          <6> QED
            BY <1>f, <1>b, <2>2, <4>2, <6>1
        <5> QED
          BY <5>1, <5>2, <5>3
      <4>4. F * Payload + Payload <= Base(k + 1) * Payload /\ Base(k + 1) * Payload \in Nat
        BY <1>1, <4>2, <4>3, Limits, Steps
      <4> DEFINE a == F * Payload
                 c == Base(k + 1) * Payload
      <4>5. a \in Nat /\ c \in Nat /\ a + Payload <= c /\ start = a + (start % Payload)
            /\ Offset(k) + Size(k) = c
        BY <1>1, <4>2, <4>4
      <4> HIDE DEF a, c
      <4>6. start < c
        BY <1>1, <4>5, Limits
      <4> QED
        BY <4>5, <4>6
    <3> QED
      BY <3>1, <3>2
  <2>7. Needed(p, start, end)
    BY <2>1, <2>3, <2>4, <2>5, <2>6, NeededWhen
  <2> QED
    BY <2>7 DEF p
<1>21. Serves(s, start, end, start, end)
  BY <1>11, <1>14, <1>15, <1>19, <1>20 DEF Serves
<1> QED
  BY <1>21 DEF s

(* And of the bytes a, ..., b - 1 of a segment for the s3 gateway.          *)
ServesSegment(s, k, a, b, start, end) ==
  Serves(s, Offset(k) + a, Offset(k) + b, start, end)

(* Its stream sends them.                                                   *)
LEMMA S3Stream ==
  ASSUME StoreOK, NEW k \in 1..Len(store),
         NEW a \in Nat, NEW b \in Nat, a < b, b <= Size(k),
         NEW start \in Nat, NEW end \in Nat,
         start <= Offset(k) + a, Offset(k) + b <= end
  PROVE  ServesSegment(StreamOf({k}, [x \in {k} |-> 0], a, b), k, a, b, start, end)
<1> DEFINE base == [x \in {k} |-> 0]
           s == StreamOf({k}, base, a, b)
           F == a \div Payload
           E == CeilDiv(b, Payload)
           f == F * Payload
           e == E * Payload
           g == (E - 1) * Payload
           o == Offset(k)
           c == FrameCount(k)
<1>1. /\ F \in Nat /\ E \in Nat /\ F < E /\ E - 1 \in Nat
      /\ f \in Nat /\ e \in Nat /\ g \in Nat
      /\ a % Payload \in 0..(Payload - 1)
      /\ a = f + (a % Payload) /\ g < b /\ b <= e
  BY FramesOf
<1>2. c \in Nat \ {0} /\ Size(k) \in Nat /\ o \in Nat /\ k \in Nat
  <2>1. k \in 1..(Len(store) + 1)
    BY Layout
  <2> QED
    BY <2>1, SegmentIs, Limits, Layout
<1>3. (F + 1) * Payload = f + Payload
  BY <1>1, Limits, Steps
<1>4. E <= c
  <2> SUFFICES ASSUME c < E PROVE FALSE
    BY <1>1, <1>2
  <2> DEFINE i == E - 1
             w == c * Payload
  <2>1. i \in Nat /\ c <= i
    BY <1>1, <1>2
  <2>2. Size(k) <= w
    BY FramesFit
  <2> HIDE DEF i, c
  <2>3. w <= i * Payload /\ w \in Nat
    BY <1>2, <2>1, Limits, Steps
  <2>4. i * Payload = g
    BY DEF i
  <2> HIDE DEF w, g
  <2> QED
    BY <1>1, <1>2, <2>2, <2>3, <2>4
<1>5. Having({k}, base, a, b) = k..k
  <2>1. Having({k}, base, a, b) = {x \in {k} : Most(0, F) < Least(0 + FrameCount(x), E)}
    BY DEF Having
  <2>2. Most(0, F) < Least(0 + c, E)
    <3>1. F \in Nat /\ E \in Nat /\ F < E /\ E <= c /\ c \in Nat
      BY <1>1, <1>2, <1>4
    <3> HIDE DEF F, E, c
    <3> QED
      BY <3>1 DEF Most, Least
  <2>3. k..k = {k}
    BY <1>2
  <2> QED
    BY <2>1, <2>2, <2>3
<1>6. MadeOf(s, k, k, base, a, b)
  <2>1. \A x \in {k} : x \in 1..Len(store) /\ base[x] \in Nat
    OBVIOUS
  <2>2. k <= k
    BY <1>2
  <2> HIDE DEF base
  <2> QED
    BY <1>5, <2>1, <2>2, PiecesAre
<1>7. s = [pieces |-> s.pieces, skip |-> s.skip, remaining |-> s.remaining]
  BY DEF StreamOf
<1> HIDE DEF s
<1>8. /\ s.skip = a % Payload /\ s.remaining = b - a
      /\ s.pieces \in Seq(PieceT) /\ Len(s.pieces) = 1
      /\ s.pieces[1] = [segment |-> k, lo |-> F, hi |-> E]
  <2>1. (k + 1) - k = 1 /\ (k + 1) - 1 = k /\ 1 \in 1..1
    BY <1>2
  <2>2. /\ s.skip = a % Payload /\ s.remaining = b - a
        /\ s.pieces \in Seq(PieceT) /\ Len(s.pieces) = 1
        /\ s.pieces[1] = CutOut(k, base, a, b)
    BY <1>6, <2>1 DEF MadeOf
  <2>3. CutOut(k, base, a, b) = [segment |-> k, lo |-> Most(0, F) - 0, hi |-> Least(0 + c, E) - 0]
    BY DEF CutOut
  <2> HIDE DEF F, E, c
  <2>4. Most(0, F) - 0 = F /\ Least(0 + c, E) - 0 = E
    BY <1>1, <1>2, <1>4 DEF Most, Least
  <2> QED
    BY <2>2, <2>3, <2>4
<1> DEFINE p == s.pieces[1]
<1>9. p \in PieceT /\ p.segment = k /\ p.lo = F /\ p.hi = E
  BY <1>8
<1>10. PieceOK(p)
  BY <1>1, <1>4, <1>9 DEF PieceOK
<1> HIDE DEF F, E, f, e, g, o, c
<1>11. From(s) = o + a
  <2>1. From(s) = o + f + (a % Payload)
    BY <1>8, <1>9 DEF From, FromAt, o, f
  <2> QED
    BY <1>1, <1>2, <2>1
<1>12. Until(s) = o + b
  BY <1>2, <1>8, <1>11 DEF Until
<1>13. /\ s.skip \in Nat /\ s.skip < Payload /\ s.remaining \in Nat /\ s.remaining > 0
  <2>1. s.skip \in 0..(Payload - 1)
    BY <1>1, <1>8
  <2> QED
    BY <1>8, <2>1, Limits
<1>14. s \in StreamT
  BY <1>7, <1>8, <1>13 DEF StreamT
<1>15. StreamOK(s)
  <2>1. o + g < Until(s) /\ Until(s) <= o + e /\ Until(s) <= o + Size(k)
    BY <1>1, <1>2, <1>12
  <2>2. Offset(p.segment) = o /\ (p.hi - 1) * Payload = g /\ p.hi * Payload = e
        /\ Size(p.segment) = Size(k)
    BY <1>9 DEF o, g, e
  <2>3. /\ \A j \in 1..1 : PieceOK(s.pieces[j])
                           /\ s.pieces[j].segment = s.pieces[1].segment + (j - 1)
    <3>1. \A j \in 1..1 : j = 1
      OBVIOUS
    <3>2. k = k + (1 - 1)
      BY <1>2
    <3> QED
      BY <1>9, <1>10, <3>1, <3>2
  <2>4. 1..(1 - 1) = {}
    OBVIOUS
  <2>5. Shape(s)
    BY <1>8, <1>14, <2>3, <2>4 DEF Shape
  <2>6. EndsAt(s, Until(s))
    BY <1>8, <2>1, <2>2 DEF EndsAt
  <2> QED
    BY <1>13, <2>5, <2>6 DEF StreamOK
<1>16. Needed(p, start, end)
  <2>1. (p.lo + 1) * Payload = f + Payload
    BY <1>3, <1>9
  <2>2. Offset(p.segment) = o /\ (p.hi - 1) * Payload = g /\ Size(p.segment) = Size(k)
    BY <1>9 DEF o, g
  <2>3. start <= o + a /\ o + b <= end
    BY DEF o
  <2>4. start < end /\ start < o + Size(k) /\ start < o + (f + Payload) /\ o + g < end
    BY <1>1, <1>2, <2>3, Limits
  <2> HIDE DEF p
  <2> QED
    BY <1>9, <1>10, <2>1, <2>2, <2>4, NeededWhen
<1>17. Serves(s, o + a, o + b, start, end)
  <2>1. \A m \in 1..Len(s.pieces) : Needed(s.pieces[m], start, end)
    BY <1>8, <1>16
  <2> QED
    BY <1>11, <1>12, <1>15, <2>1 DEF Serves
<1> QED
  BY <1>17 DEF ServesSegment, s, base, o

(* The stream of segment k in a range, and where it begins and ends.        *)
SegmentStream(k, start, end) ==
  StreamOf({k}, [x \in {k} |-> 0], Enter(k, start), Leave(k, end))

(* The bytes of a range that a segment has.                                 *)
LEMMA S3Streams ==
  ASSUME StoreOK, NEW start \in Nat, NEW end \in Nat, start < end,
         NEW k \in 1..Len(store), Most(Offset(k), start) < Least(Offset(k + 1), end)
  PROVE  Serves(SegmentStream(k, start, end),
                Most(Offset(k), start), Least(Offset(k + 1), end), start, end)
<1> DEFINE a == Enter(k, start)
           b == Leave(k, end)
           o == Offset(k)
           z == Size(k)
<1>1. o \in Nat /\ z \in Nat /\ Offset(k + 1) = o + z
  <2>1. k \in 1..(Len(store) + 1)
    BY Layout
  <2> QED
    BY <2>1, Layout, SegmentIs, Limits
<1>2. a = Most(start, o) - o /\ b = Least(end, o + z) - o
  BY DEF Enter, Leave
<1> HIDE DEF a, b, o, z
<1>3. Most(o, start) < Least(o + z, end)
  BY <1>1 DEF o
<1>4. /\ a \in Nat /\ b \in Nat /\ a < b /\ b <= z /\ start <= o + a /\ o + b <= end
      /\ o + a = Most(o, start) /\ o + b = Least(o + z, end)
  BY <1>1, <1>2, <1>3 DEF Most, Least
<1>5. ServesSegment(StreamOf({k}, [x \in {k} |-> 0], a, b), k, a, b, start, end)
  <2>1. b <= Size(k) /\ start <= Offset(k) + a /\ Offset(k) + b <= end
    BY <1>4 DEF o, z
  <2> QED
    BY <1>4, <2>1, S3Stream
<1>6. StreamOf({k}, [x \in {k} |-> 0], a, b) = SegmentStream(k, start, end)
  BY DEF SegmentStream, a, b
<1>7. Serves(SegmentStream(k, start, end), o + a, o + b, start, end)
  BY <1>5, <1>6 DEF ServesSegment, o
<1>8. o + a = Most(Offset(k), start) /\ o + b = Least(Offset(k + 1), end)
  BY <1>1, <1>4 DEF o
<1> QED
  BY <1>7, <1>8

(* Streams without idle frames.                                             *)
Useful(p, start, end) == PieceOK(p) /\ Needed(p, start, end)
NoneIdle(ss, start, end) ==
  \A i \in 1..Len(ss) : \A m \in 1..Len(ss[i].pieces) : Useful(ss[i].pieces[m], start, end)

(* Either gateway sends the bytes of a range, fetching what it needs.       *)
LEMMA StreamsSend ==
  ASSUME StoreOK, Aligned, NEW start \in Nat, NEW end \in Nat, start < end, end <= FileSize
  PROVE  LET ss == Streams(Range0(start, end)) IN
         ss # <<>> /\ Sends(ss, start, end) /\ NoneIdle(ss, start, end)
<1> DEFINE ss == Streams(Range0(start, end))
           n == Len(store)
<1>1. CASE job.gateway = "files"
  <2> DEFINE s == StreamOf(DOMAIN store, [k \in DOMAIN store |-> Base(k)], start, end)
  <2>1. ss = <<s>>
    BY <1>1 DEF Streams, Range0
  <2>2. Serves(s, start, end, start, end)
    BY <1>1, FilesStream
  <2> HIDE DEF s, ss
  <2>3. s \in StreamT
    BY <2>2 DEF Serves, StreamOK, Shape
  <2>4. ss \in Seq(StreamT) /\ Len(ss) = 1 /\ ss[1] = s /\ ss # <<>>
    BY <2>1, <2>3
  <2>5. 1..(1 - 1) = {} /\ \A i \in 1..1 : i = 1
    OBVIOUS
  <2>6. Sends(ss, start, end)
    <3>1. start <= end /\ end <= end
      OBVIOUS
    <3> QED
      BY <2>2, <2>4, <2>5, <3>1 DEF Sends, Serves
  <2>7. NoneIdle(ss, start, end)
    BY <2>2, <2>4, <2>5 DEF NoneIdle, Serves, Useful, StreamOK, Shape
  <2> QED
    BY <2>4, <2>6, <2>7 DEF ss
<1>2. CASE job.gateway # "files"
  <2> DEFINE hit == {k \in DOMAIN store : Enter(k, start) < Leave(k, end)}
  <2>1. ss = [i \in DOMAIN InOrder(hit) |-> SegmentStream(InOrder(hit)[i], start, end)]
    BY <1>2 DEF Streams, Range0, SegmentStream
  <2>2. n \in Nat /\ DOMAIN store = 1..n
    BY Layout DEF StoreOK
  <2>3. \A k \in 1..n : /\ Offset(k) \in Nat /\ Offset(k + 1) \in Nat /\ Size(k) \in Nat \ {0}
                        /\ Offset(k + 1) = Offset(k) + Size(k)
    <3>1. \A k \in 1..n : k \in 1..(n + 1) /\ k + 1 \in 1..(n + 1)
      BY <2>2
    <3> QED
      BY <3>1, Layout, SegmentIs, Limits
  <2>4. \A k \in 1..n : Offs[k] = Offset(k) /\ Offs[k + 1] = Offset(k + 1)
    <3>1. \A k \in 1..n : k \in 1..(n + 1) /\ k + 1 \in 1..(n + 1)
      BY <2>2
    <3> QED
      BY <3>1 DEF Offs
  <2>5. Rising(Offs, n) /\ Offs[1] = 0 /\ Offs[n + 1] = FileSize
    <3>1. 1 \in 1..(n + 1) /\ n + 1 \in 1..(n + 1)
      BY <2>2
    <3> QED
      BY <3>1, Layout, LayoutRises DEF Offs
  <2> HIDE DEF n
  <2>6. PICK x \in 1..n, y \in 1..n : Spans(Offs, n, start, end, x, y)
    <3>1. end <= Offs[n + 1]
      BY <2>5
    <3> QED
      BY <2>2, <2>5, <3>1, Overlapping
  <2>7. /\ x <= y /\ Offset(x) <= start /\ start < Offset(x + 1)
        /\ Offset(y) < end /\ end <= Offset(y + 1)
        /\ Touched(Offs, n, start, end) = x..y
    BY <2>4, <2>6 DEF Spans
  <2>8. \A k \in 1..n : Enter(k, start) < Leave(k, end)
                          <=> Most(Offset(k), start) < Least(Offset(k + 1), end)
    <3> TAKE k \in 1..n
    <3> DEFINE o == Offset(k)
               z == Size(k)
    <3>1. o \in Nat /\ z \in Nat /\ Offset(k + 1) = o + z
      BY <2>3
    <3>2. Enter(k, start) = Most(start, o) - o /\ Leave(k, end) = Least(end, o + z) - o
      BY DEF Enter, Leave
    <3> HIDE DEF o, z
    <3>3. Enter(k, start) < Leave(k, end) <=> Most(o, start) < Least(o + z, end)
      BY <3>1, <3>2 DEF Most, Least
    <3> QED
      BY <3>1, <3>3 DEF o
  <2>9. hit = x..y
    <3>1. hit = {k \in 1..n : Most(Offset(k), start) < Least(Offset(k + 1), end)}
      BY <2>2, <2>8
    <3>2. Touched(Offs, n, start, end)
            = {k \in 1..n : Most(Offset(k), start) < Least(Offset(k + 1), end)}
      BY <2>4 DEF Touched
    <3> QED
      BY <2>7, <3>1, <3>2
  <2> DEFINE m == (y + 1) - x
  <2>10. m \in Nat /\ m > 0 /\ x \in Nat /\ y \in Nat /\ x <= y + 1
         /\ \A i \in 1..m : (x + i) - 1 \in x..y /\ (x + i) - 1 \in 1..n
    BY <2>2, <2>7
  <2>11. InOrder(x..y) = [i \in 1..m |-> (x + i) - 1]
    BY <2>10, InOrderIs
  <2>12. ss = [i \in 1..m |-> SegmentStream((x + i) - 1, start, end)]
    <3>1. DOMAIN InOrder(x..y) = 1..m /\ \A i \in 1..m : InOrder(x..y)[i] = (x + i) - 1
      BY <2>11
    <3> HIDE DEF m, ss, hit
    <3>2. ss = [i \in DOMAIN InOrder(x..y) |-> SegmentStream(InOrder(x..y)[i], start, end)]
      BY <2>1, <2>9
    <3> QED
      BY <3>1, <3>2, Zenon
  <2> HIDE DEF ss, hit
  <2>13. ASSUME NEW k \in x..y
         PROVE  Serves(SegmentStream(k, start, end), Most(Offset(k), start),
                       Least(Offset(k + 1), end), start, end)
    <3>1. k \in 1..n /\ Most(Offset(k), start) < Least(Offset(k + 1), end)
      <4>1. k \in hit
        BY <2>9
      <4> QED
        BY <2>2, <2>8, <4>1 DEF hit
    <3>2. k \in 1..Len(store)
      BY <3>1 DEF n
    <3> QED
      BY <3>1, <3>2, S3Streams
  <2> HIDE DEF m
  <2> DEFINE Nth(i) == SegmentStream((x + i) - 1, start, end)
  <2>14. \A i \in 1..m : Nth(i) \in StreamT
    BY <2>10, <2>13 DEF Serves, StreamOK, Shape
  <2>15. ss = [i \in 1..m |-> Nth(i)]
    BY <2>12
  <2>16. ss \in Seq(StreamT) /\ Len(ss) = m /\ \A i \in 1..m : ss[i] = Nth(i)
    <3> HIDE DEF Nth
    <3> QED
      BY <2>10, <2>14, <2>15
  <2>17. \A i \in 1..m : Serves(ss[i], Most(Offset((x + i) - 1), start),
                                Least(Offset(((x + i) - 1) + 1), end), start, end)
    BY <2>10, <2>13, <2>16
  <2>18. Most(Offset(x), start) = start /\ Least(Offset(y + 1), end) = end
    BY <2>3, <2>7 DEF Most, Least
  <2>19. \A j, k \in 1..n : j < k => Offset(j + 1) <= Offset(k)
    <3>1. \A j, k \in 1..(n + 1) : j < k => Offs[j] < Offs[k]
      BY <2>2, <2>5, RisingOrder
    <3> TAKE j, k \in 1..n
    <3> HAVE j < k
    <3>2. j + 1 \in 1..(n + 1) /\ k \in 1..(n + 1) /\ (j + 1 = k \/ j + 1 < k)
      BY <2>2
    <3>3. Offset(j + 1) = Offs[j + 1] /\ Offset(k) = Offs[k]
          /\ Offset(k) \in Nat /\ Offset(j + 1) \in Nat
      BY <2>3, <2>4
    <3> QED
      BY <3>1, <3>2, <3>3
  <2>20. ASSUME NEW k \in x..y, k < y
         PROVE  Least(Offset(k + 1), end) = Most(Offset(k + 1), start)
    <3>1. k \in 1..n /\ k + 1 \in 1..n /\ x <= k /\ k < y
      BY <2>2, <2>10, <2>20
    <3>2. Offset(k + 1) <= Offset(y)
      BY <2>19, <3>1
    <3>3. Offset(x + 1) <= Offset(k + 1)
      <4>1. x < k + 1
        BY <2>10, <3>1
      <4> QED
        BY <2>19, <3>1, <4>1
    <3>4. Offset(x + 1) \in Nat /\ Offset(k + 1) \in Nat /\ Offset(y) \in Nat
      BY <2>3, <3>1
    <3> QED
      BY <2>7, <3>2, <3>3, <3>4 DEF Most, Least
  <2>21. \A i \in 1..(m - 1) : From(ss[i + 1]) = Until(ss[i])
    <3> TAKE i \in 1..(m - 1)
    <3> DEFINE k == (x + i) - 1
    <3>1. i \in 1..m /\ i + 1 \in 1..m /\ k \in x..y /\ k < y /\ (x + (i + 1)) - 1 = k + 1
      BY <2>10 DEF m
    <3> HIDE DEF k
    <3>2. Until(ss[i]) = Least(Offset(k + 1), end)
      BY <2>17, <3>1 DEF Serves, k
    <3>3. From(ss[i + 1]) = Most(Offset(k + 1), start)
      BY <2>17, <3>1 DEF Serves
    <3> QED
      BY <2>20, <3>1, <3>2, <3>3
  <2>22. From(ss[1]) = start /\ Until(ss[m]) = end
    <3>1. 1 \in 1..m /\ m \in 1..m /\ (x + 1) - 1 = x /\ ((x + m) - 1) + 1 = y + 1
      BY <2>10 DEF m
    <3> QED
      BY <2>17, <2>18, <3>1 DEF Serves
  <2>23. ss # <<>>
    BY <2>10, <2>16
  <2>24. Sends(ss, start, end)
    <3>1. \A i \in 1..m : StreamOK(ss[i]) /\ Until(ss[i]) <= end
      <4> TAKE i \in 1..m
      <4>1. Until(ss[i]) = Least(Offset(((x + i) - 1) + 1), end) /\ StreamOK(ss[i])
        BY <2>17 DEF Serves
      <4>2. (x + i) - 1 \in 1..n
        BY <2>10
      <4>3. Offset(((x + i) - 1) + 1) \in Nat
        BY <2>3, <4>2
      <4> QED
        BY <4>1, <4>3 DEF Least
    <3>2. start <= end
      OBVIOUS
    <3> QED
      BY <2>16, <2>21, <2>22, <2>23, <3>1, <3>2 DEF Sends
  <2>25. NoneIdle(ss, start, end)
    BY <2>16, <2>17 DEF NoneIdle, Serves, Useful, StreamOK, Shape
  <2> QED
    BY <2>23, <2>24, <2>25 DEF ss
<1> QED
  BY <1>1, <1>2

(* A range that is accepted lies in the file and has the bytes its header   *)
(* names; a header whose range is refused names none.                       *)
Names(h, range) ==
  IF range.ok
  THEN /\ range = Range0(range.start, range.end)
       /\ range.start \in Nat /\ range.end \in Nat
       /\ range.start <= range.end /\ range.end <= FileSize
       /\ \A q \in 1..FileSize : Named(h, q - 1) <=> range.start < q /\ q <= range.end
  ELSE \A q \in 1..FileSize : ~ Named(h, q - 1)

(* So ParseRange reads every header.                                        *)
LEMMA RangeIs ==
  ASSUME FileSize \in Nat, FileSize <= Top, NEW h \in Headers
  PROVE  Names(h, ParseRange(h, FileSize))
<1> DEFINE z == FileSize
           range == ParseRange(h, z)
<1>1. z \in Nat /\ z <= Top /\ Top \in Nat
  BY BytesAssumption
<1>2. /\ h.form \in {"none", "malformed", "suffix", "from", "between"}
      /\ h.form = "suffix" => h.n \in Nat
      /\ h.form \in {"from", "between"} => h.a \in Nat
      /\ h.form = "between" => h.b \in Nat
  BY BytesAssumption
<1>3. CASE h.form = "none"
  <2>1. range = Range0(0, z)
    BY <1>3 DEF ParseRange
  <2>2. \A q \in 1..z : Named(h, q - 1)
    BY <1>3 DEF Named
  <2> HIDE DEF range
  <2>3. range.ok /\ range.start = 0 /\ range.end = z
    BY <2>1 DEF Range0
  <2> HIDE DEF z
  <2>4. \A q \in 1..z : 0 < q /\ q <= z
    BY <1>1
  <2>5. 0 \in Nat /\ 0 <= z /\ z <= z
    BY <1>1
  <2> QED
    BY <1>1, <2>1, <2>2, <2>3, <2>4, <2>5 DEF Names, z, range
<1>4. CASE h.form = "malformed"
  <2>1. range = NoRange
    BY <1>4 DEF ParseRange
  <2>2. ~ NoRange.ok
    BY DEF NoRange
  <2>3. \A q \in 1..z : ~ Named(h, q - 1)
    BY <1>4 DEF Named
  <2> QED
    BY <2>1, <2>2, <2>3 DEF Names
<1>5. CASE h.form = "suffix"
  <2> DEFINE n == h.n
             start == Most(0, z - n)
  <2>1. n \in Nat
    BY <1>2, <1>5
  <2>2. \A p : Named(h, p) <=> p >= z - n
    BY <1>5 DEF Named
  <2>3. CASE n = 0 \/ z = 0
    <3>1. range = NoRange
      BY <1>5, <2>3 DEF ParseRange
    <3>2. ~ NoRange.ok
      BY DEF NoRange
    <3> HIDE DEF z, n
    <3>3. \A q \in 1..z : ~ (q - 1 >= z - n)
      BY <1>1, <2>1, <2>3
    <3> QED
      BY <2>2, <3>1, <3>2, <3>3 DEF Names, z
  <2>4. CASE ~ (n = 0 \/ z = 0)
    <3>1. range = Range0(start, z)
      BY <1>5, <2>4 DEF ParseRange
    <3> HIDE DEF range
    <3>2. range.ok /\ range.start = start /\ range.end = z
      BY <3>1 DEF Range0
    <3> HIDE DEF z, n
    <3>3. start \in Nat /\ start <= z /\ z <= z
      BY <1>1, <2>1 DEF Most
    <3>4. \A q \in 1..z : q - 1 >= z - n <=> start < q /\ q <= z
      BY <1>1, <2>1 DEF Most
    <3> HIDE DEF start
    <3> QED
      BY <1>1, <2>2, <3>1, <3>2, <3>3, <3>4 DEF Names, z, range
  <2> QED
    BY <2>3, <2>4
<1>6. CASE h.form \in {"from", "between"}
  <2> DEFINE a == h.a
             end == IF h.form = "between" THEN Least(Least(h.b + 1, Top), z) ELSE z
  <2>1. a \in Nat
    BY <1>2, <1>6
  <2>2. end \in Nat /\ end <= z
    <3> HIDE DEF z
    <3>1. CASE h.form = "between"
      BY <1>1, <1>2, <3>1 DEF Least
    <3>2. CASE h.form # "between"
      BY <1>1, <3>2
    <3> QED
      BY <3>1, <3>2
  <2>3. \A q \in 1..z : Named(h, q - 1) <=> a < q /\ q <= end
    <3>1. CASE h.form = "between"
      <4>1. \A p : Named(h, p) <=> a <= p /\ p <= h.b
        BY <3>1 DEF Named
      <4> HIDE DEF z, a
      <4>2. \A q \in 1..z : a <= q - 1 /\ q - 1 <= h.b <=> a < q /\ q <= end
        BY <1>1, <1>2, <2>1, <3>1 DEF Least
      <4> QED
        BY <4>1, <4>2
    <3>2. CASE h.form # "between"
      <4>1. \A p : Named(h, p) <=> p >= a
        BY <1>6, <3>2 DEF Named
      <4> HIDE DEF z, a
      <4>2. \A q \in 1..z : q - 1 >= a <=> a < q /\ q <= end
        BY <1>1, <2>1, <3>2
      <4> QED
        BY <4>1, <4>2
    <3> QED
      BY <3>1, <3>2
  <2>4. range = IF a >= z \/ a >= end THEN NoRange ELSE Range0(a, end)
    BY <1>6 DEF ParseRange
  <2> HIDE DEF range, z, end, a
  <2>5. CASE a >= z \/ a >= end
    <3>1. range = NoRange /\ ~ NoRange.ok
      BY <2>4, <2>5 DEF NoRange
    <3>2. \A q \in 1..z : ~ (a < q /\ q <= end)
      BY <1>1, <2>1, <2>2, <2>5
    <3> QED
      BY <2>3, <3>1, <3>2 DEF Names, z, range
  <2>6. CASE ~ (a >= z \/ a >= end)
    <3>1. range = Range0(a, end)
      BY <2>4, <2>6
    <3>2. range.ok /\ range.start = a /\ range.end = end
      BY <3>1 DEF Range0
    <3>3. a <= end
      BY <2>1, <2>2, <2>6
    <3> QED
      BY <2>1, <2>2, <2>3, <3>1, <3>2, <3>3 DEF Names, z, range
  <2> QED
    BY <2>5, <2>6
<1> QED
  BY <1>2, <1>3, <1>4, <1>5, <1>6

(* The bytes start, ..., end - 1 of the file.                               *)
Slice(start, end) == [i \in 1..(end - start) |-> File[start + i]]
BytesAt(S) == [i \in DOMAIN InOrder(S) |-> File[InOrder(S)[i]]]

(* In order they are what a set of neighbours names.                        *)
LEMMA NamedInOrder ==
  ASSUME NEW start \in Nat, NEW end \in Nat, start <= end, end <= FileSize, FileSize \in Nat,
         NEW S, S = (start + 1)..end
  PROVE  BytesAt(S) = Slice(start, end)
<1> DEFINE a == start + 1
           m == end - start
<1>1. a \in Nat /\ a <= end + 1 /\ m \in Nat /\ (end + 1) - a = m
      /\ \A i \in 1..m : (a + i) - 1 = start + i
  OBVIOUS
<1> HIDE DEF a, m
<1>2. InOrder(a..end) = [i \in 1..((end + 1) - a) |-> (a + i) - 1]
  BY <1>1, InOrderIs
<1>3. InOrder(S) = [i \in 1..m |-> (a + i) - 1]
  BY <1>1, <1>2 DEF a
<1>4. DOMAIN InOrder(S) = 1..m /\ \A i \in 1..m : InOrder(S)[i] = start + i
  BY <1>1, <1>3
<1> QED
  BY <1>4, Zenon DEF Slice, BytesAt, m

(* What a reader is owed.                                                   *)
LEMMA WantedIs ==
  ASSUME FileSize \in Nat, Asked,
         NEW range, range = ParseRange(header, FileSize), Names(header, range)
  PROVE  Wanted = IF range.ok THEN Slice(range.start, range.end) ELSE <<>>
<1> DEFINE S == {q \in 1..FileSize : Named(header, q - 1)}
           z == FileSize
<1>1. Wanted = BytesAt(S)
  BY DEF Wanted, BytesAt
<1>2. CASE range.ok
  <2> DEFINE start == range.start
             end == range.end
  <2>1. /\ start \in Nat /\ end \in Nat /\ start <= end /\ end <= z /\ z \in Nat
        /\ \A q \in 1..z : Named(header, q - 1) <=> start < q /\ q <= end
    BY <1>2 DEF Names
  <2> HIDE DEF start, end
  <2>2. S = {q \in 1..z : start < q /\ q <= end}
    BY <2>1
  <2> HIDE DEF S, z
  <2>3. S = (start + 1)..end
    BY <2>1, <2>2
  <2>4. BytesAt(S) = Slice(start, end)
    <3>1. end <= FileSize /\ FileSize \in Nat /\ start \in Nat /\ end \in Nat /\ start <= end
      BY <2>1 DEF z
    <3> QED
      BY <2>3, <3>1, NamedInOrder
  <2> QED
    BY <1>1, <1>2, <2>4 DEF start, end
<1>3. CASE ~ range.ok
  <2>1. S = {}
    BY <1>3 DEF Names
  <2> HIDE DEF S
  <2>2. S = (0 + 1)..0 /\ 0 \in Nat /\ 0 <= 0 /\ 0 <= z
    BY <2>1
  <2>3. BytesAt(S) = Slice(0, 0)
    <3>1. 0 <= FileSize
      OBVIOUS
    <3> QED
      BY <2>2, <3>1, NamedInOrder
  <2>4. Slice(0, 0) = <<>>
    <3>1. 1..(0 - 0) = {}
      OBVIOUS
    <3> QED
      BY <3>1 DEF Slice
  <2> QED
    BY <1>1, <1>3, <2>3, <2>4
<1> QED
  BY <1>2, <1>3

(* The byte at a position of the file is the one of its segment.            *)
LEMMA FileIs ==
  ASSUME StoreOK, NEW k \in 1..Len(store), NEW q \in Nat,
         Offset(k) < q, q <= Offset(k) + Size(k)
  PROVE  q \in 1..FileSize /\ File[q] = <<k, q - Offset(k)>>
<1> DEFINE n == Len(store)
<1>1. n \in Nat /\ DOMAIN store = 1..n
  BY Layout DEF StoreOK
<1>2. /\ \A j \in 1..n : /\ Offset(j) \in Nat /\ Offset(j + 1) \in Nat
                         /\ Offset(j + 1) = Offset(j) + Size(j)
      /\ Offset(n + 1) = FileSize
  <2>1. \A j \in 1..n : j \in 1..(n + 1) /\ j + 1 \in 1..(n + 1)
    BY <1>1
  <2> QED
    BY <2>1, Layout
<1>3. \A i, j \in 1..(n + 1) : i < j => Offset(i) < Offset(j)
  <2>1. Rising(Offs, n)
    BY LayoutRises
  <2>2. \A i, j \in 1..(n + 1) : i < j => Offs[i] < Offs[j]
    BY <1>1, <2>1, RisingOrder
  <2> QED
    BY <2>2 DEF Offs
<1>4. \A i, j \in 1..n : i < j => Offset(i + 1) <= Offset(j)
  <2> TAKE i, j \in 1..n
  <2> HAVE i < j
  <2> DEFINE h == i + 1
  <2>1. h \in 1..(n + 1) /\ j \in 1..(n + 1) /\ (h = j \/ h < j)
    BY <1>1
  <2>2. Offset(h) \in Nat /\ Offset(j) \in Nat
    BY <1>2
  <2> HIDE DEF h, n
  <2>3. ASSUME h = j PROVE Offset(h) <= Offset(j)
    <3> DEFINE y == Offset(j)
    <3>1. y \in Nat /\ Offset(h) = y
      BY <2>2, <2>3
    <3> HIDE DEF y
    <3>2. y <= y
      BY <3>1
    <3> QED
      BY <3>1, <3>2 DEF y
  <2>4. ASSUME h < j PROVE Offset(h) <= Offset(j)
    <3> DEFINE x == Offset(h)
               y == Offset(j)
    <3>1. x < y
      BY <1>3, <2>1, <2>4
    <3>2. x \in Nat /\ y \in Nat
      BY <2>2
    <3> HIDE DEF x, y
    <3>3. x <= y
      BY <3>1, <3>2
    <3> QED
      BY <3>3 DEF x, y
  <2>5. Offset(h) <= Offset(j)
    BY <2>1, <2>3, <2>4
  <2> QED
    BY <2>5 DEF h
<1> DEFINE P(j) == Offset(j) < q /\ q <= Offset(j) + Size(j)
<1> HIDE DEF n
<1>5. ASSUME NEW j \in 1..n PROVE P(j) <=> j = k
  <2>1. k \in 1..n
    BY DEF n
  <2>2. ASSUME j < k PROVE ~ P(j)
    BY <1>2, <1>4, <2>1, <2>2
  <2>3. ASSUME k < j PROVE ~ P(j)
    <3>1. Offset(k + 1) <= Offset(j)
      BY <1>4, <2>1, <2>3
    <3> QED
      BY <1>2, <2>1, <3>1
  <2>4. P(k)
    OBVIOUS
  <2> HIDE DEF P
  <2>5. j < k \/ j = k \/ k < j
    BY <1>1, <2>1
  <2> QED
    BY <2>2, <2>3, <2>4, <2>5
<1>6. q <= FileSize /\ q \in 1..FileSize
  <2>1. k \in 1..n
    BY DEF n
  <2>2. k + 1 \in 1..(n + 1) /\ n + 1 \in 1..(n + 1) /\ (k + 1 = n + 1 \/ k + 1 < n + 1)
    BY <1>1, <2>1
  <2>3. FileSize \in Nat /\ Offset(k + 1) \in Nat /\ Offset(k) \in Nat
        /\ Offset(k + 1) = Offset(k) + Size(k)
    <3>1. n + 1 \in 1..(Len(store) + 1)
      BY <1>1 DEF n
    <3> QED
      BY <1>2, <2>1, <3>1, Layout
  <2>4. Offset(k + 1) <= Offset(n + 1)
    <3>1. k + 1 \in 1..(n + 1)
      BY <1>1, <2>1
    <3>2. CASE k + 1 = n + 1
      BY <1>2, <2>3, <3>2
    <3>3. CASE k + 1 < n + 1
      <4>1. Offset(k + 1) < Offset(n + 1)
        BY <1>3, <2>2, <3>1, <3>3
      <4> QED
        BY <1>2, <2>3, <4>1
    <3> QED
      BY <2>2, <3>2, <3>3
  <2> QED
    BY <1>2, <2>3, <2>4
<1>7. (CHOOSE j \in DOMAIN store : P(j)) = k
  <2>1. k \in DOMAIN store
    BY <1>1 DEF n
  <2> HIDE DEF P
  <2> QED
    BY <1>1, <1>5, <2>1
<1>8. File[q] = LET j == CHOOSE j \in DOMAIN store : P(j) IN <<j, q - Offset(j)>>
  BY <1>6 DEF File
<1> QED
  BY <1>6, <1>7, <1>8

----------------------------------------------------------------------------
(* Downloading *)

(* The first of several streams, and the others.                            *)
LEMMA SendsTail ==
  ASSUME NEW ss, NEW a \in Nat, NEW b \in Nat, Sends(ss, a, b), ss # <<>>
  PROVE  /\ ss[1] \in StreamT /\ StreamOK(ss[1]) /\ From(ss[1]) = a
         /\ Sends(Tail(ss), Until(ss[1]), b)
<1> DEFINE m == Len(ss)
           rest == Tail(ss)
<1>1. ss \in Seq(StreamT) /\ m \in Nat /\ m > 0
  BY DEF Sends
<1>2. /\ 1 \in 1..m /\ ss[1] \in StreamT
      /\ rest \in Seq(StreamT) /\ Len(rest) = m - 1
      /\ \A i \in 1..(m - 1) : rest[i] = ss[i + 1]
  BY <1>1
<1>3. /\ \A i \in 1..m : StreamOK(ss[i]) /\ Until(ss[i]) <= b
      /\ \A i \in 1..(m - 1) : From(ss[i + 1]) = Until(ss[i])
      /\ From(ss[1]) = a /\ Until(ss[m]) = b
  BY DEF Sends
<1> HIDE DEF m, rest
<1>4. CASE m = 1
  <2>1. rest = <<>> /\ 1..0 = {} /\ 1..(0 - 1) = {} /\ Len(rest) = 0
    <3>1. Len(rest) = 0
      BY <1>2, <1>4
    <3>2. rest = <<>>
      BY <1>2, <3>1
    <3> QED
      BY <3>1, <3>2
  <2>2. Until(ss[1]) = b /\ b <= b
    BY <1>3, <1>4
  <2>3. Sends(rest, Until(ss[1]), b)
    BY <1>2, <2>1, <2>2 DEF Sends
  <2> QED
    BY <1>2, <1>3, <2>3 DEF rest
<1>5. CASE m # 1
  <2>1. /\ m - 1 \in 1..(m - 1) /\ 1 \in 1..(m - 1) /\ (m - 1) + 1 = m
        /\ \A i \in 1..(m - 1) : i + 1 \in 1..m
        /\ \A i \in 1..((m - 1) - 1) : i + 1 \in 1..(m - 1) /\ i \in 1..(m - 1)
    BY <1>1, <1>5
  <2>2. rest # <<>>
    BY <1>2, <2>1
  <2>3. From(rest[1]) = Until(ss[1]) /\ Until(rest[m - 1]) = b
    BY <1>2, <1>3, <2>1
  <2>4. \A i \in 1..(m - 1) : StreamOK(rest[i]) /\ Until(rest[i]) <= b
    BY <1>2, <1>3, <2>1
  <2>5. \A i \in 1..((m - 1) - 1) : From(rest[i + 1]) = Until(rest[i])
    BY <1>2, <1>3, <2>1
  <2>6. Until(ss[1]) <= b
    BY <1>2, <1>3
  <2>7. Sends(rest, Until(ss[1]), b)
    BY <1>2, <2>2, <2>3, <2>4, <2>5, <2>6 DEF Sends
  <2> QED
    BY <1>2, <1>3, <2>7 DEF rest
<1> QED
  BY <1>4, <1>5

(* A stream before others that go on where it ends.                         *)
LEMMA SendsJoin ==
  ASSUME NEW ss \in Seq(StreamT), ss # <<>>, NEW a \in Nat, NEW b \in Nat, a <= b,
         StreamOK(ss[1]), From(ss[1]) = a, Sends(Tail(ss), Until(ss[1]), b)
  PROVE  Sends(ss, a, b)
<1> DEFINE m == Len(ss)
           rest == Tail(ss)
<1>1. m \in Nat /\ m > 0
  OBVIOUS
<1>2. rest \in Seq(StreamT) /\ Len(rest) = m - 1 /\ \A i \in 1..(m - 1) : rest[i] = ss[i + 1]
  BY <1>1
<1>3. /\ Until(ss[1]) <= b
      /\ \A i \in 1..(m - 1) : StreamOK(rest[i]) /\ Until(rest[i]) <= b
      /\ \A i \in 1..((m - 1) - 1) : From(rest[i + 1]) = Until(rest[i])
      /\ IF rest = <<>> THEN Until(ss[1]) = b
         ELSE From(rest[1]) = Until(ss[1]) /\ Until(rest[m - 1]) = b
  BY <1>2 DEF Sends
<1> HIDE DEF m, rest
<1>4. \A i \in 1..m : StreamOK(ss[i]) /\ Until(ss[i]) <= b
  <2> TAKE i \in 1..m
  <2>1. CASE i = 1
    BY <1>3, <2>1
  <2>2. CASE i # 1
    <3>1. i - 1 \in 1..(m - 1) /\ (i - 1) + 1 = i
      BY <1>1, <2>2
    <3> QED
      BY <1>2, <1>3, <3>1
  <2> QED
    BY <2>1, <2>2
<1>5. \A i \in 1..(m - 1) : From(ss[i + 1]) = Until(ss[i])
  <2> TAKE i \in 1..(m - 1)
  <2>1. rest # <<>> /\ rest[i] = ss[i + 1]
    BY <1>1, <1>2
  <2>2. CASE i = 1
    BY <1>3, <2>1, <2>2
  <2>3. CASE i # 1
    <3>1. i - 1 \in 1..((m - 1) - 1) /\ (i - 1) + 1 = i /\ i - 1 \in 1..(m - 1)
      BY <1>1, <2>3
    <3>2. From(rest[i]) = Until(rest[i - 1]) /\ rest[i - 1] = ss[i]
      BY <1>2, <1>3, <3>1
    <3> QED
      BY <2>1, <3>2
  <2> QED
    BY <2>2, <2>3
<1>6. Until(ss[m]) = b
  <2>1. CASE m = 1
    <3>1. rest = <<>>
      BY <1>2, <2>1
    <3> QED
      BY <1>3, <2>1, <3>1
  <2>2. CASE m # 1
    <3>1. m - 1 \in 1..(m - 1) /\ (m - 1) + 1 = m
      BY <1>1, <2>2
    <3>2. rest # <<>>
      BY <1>2, <3>1
    <3> QED
      BY <1>2, <1>3, <3>1, <3>2
  <2> QED
    BY <2>1, <2>2
<1> QED
  BY <1>4, <1>5, <1>6 DEF Sends, m

(* The stream that is being downloaded: frame i of its first piece is next, *)
(* and the byte at is the next that the reader gets.                        *)
UnderWay(s, i, at) ==
  /\ Shape(s) /\ s.pieces[1].lo <= i /\ i <= s.pieces[1].hi
  /\ s.skip < Payload
  /\ EndsAt(s, at + s.remaining)
  /\ IF i = s.pieces[1].hi /\ Len(s.pieces) = 1 THEN s.remaining = 0
     ELSE s.remaining > 0 /\ FromAt(s, i) = at

(* A stream is under way from its first frame.                              *)
LEMMA StreamBegins ==
  ASSUME NEW s \in StreamT, NEW at \in Nat, StreamOK(s), From(s) = at
  PROVE  UnderWay(s, s.pieces[1].lo, at) /\ Until(s) = at + s.remaining
<1>1. s.pieces[1] \in PieceT /\ PieceOK(s.pieces[1])
  <2>1. Len(s.pieces) > 0 /\ s.pieces \in Seq(PieceT) /\ \A j \in 1..Len(s.pieces) : PieceOK(s.pieces[j])
    BY DEF StreamOK, Shape, StreamT
  <2>2. 1 \in 1..Len(s.pieces)
    BY <2>1
  <2> QED
    BY <2>1, <2>2
<1>2. s.pieces[1].lo < s.pieces[1].hi /\ s.pieces[1].lo \in Nat /\ s.pieces[1].hi \in Nat
  BY <1>1 DEF PieceOK, PieceT
<1>3. Until(s) = at + s.remaining
  BY DEF Until
<1>4. /\ s.pieces[1].lo <= s.pieces[1].lo /\ s.pieces[1].lo <= s.pieces[1].hi
      /\ s.pieces[1].lo # s.pieces[1].hi
  BY <1>2
<1> QED
  BY <1>3, <1>4 DEF StreamOK, UnderWay, From

(* A segment ends where the next one begins or before.                      *)
LEMMA OffsetsRise ==
  ASSUME StoreOK
  PROVE  \A j, k \in 1..(Len(store) + 1) : j < k => Offset(j) < Offset(k)
<1>1. Rising(Offs, Len(store)) /\ Len(store) \in Nat
  BY LayoutRises, Layout
<1> DEFINE n == Len(store)
<1> HIDE DEF n
<1>2. \A j, k \in 1..(n + 1) : j < k => Offs[j] < Offs[k]
  BY <1>1, RisingOrder DEF n
<1> QED
  BY <1>2 DEF Offs, n

(* The next frame of a stream is in its segment; the stream ends in it if   *)
(* and only if it is the last.                                              *)
LEMMA NextFrame ==
  ASSUME StoreOK, NEW s, NEW i \in Nat, NEW at \in Nat,
         UnderWay(s, i, at), i < s.pieces[1].hi
  PROVE  LET p == s.pieces[1]
             k == p.segment
             u == i * Payload
             last == i + 1 = p.hi /\ Len(s.pieces) = 1
         IN /\ k \in 1..Len(store) /\ i + 1 \in 1..FrameCount(k) /\ p.hi \in Nat
            /\ s \in StreamT /\ u \in Nat /\ Offset(k) \in Nat /\ Size(k) \in Nat
            /\ at = Offset(k) + u + s.skip
            /\ (i + 1) * Payload = u + Payload
            /\ s.remaining > 0
            /\ last => at + s.remaining <= Offset(k) + (u + Payload)
                       /\ at + s.remaining <= Offset(k) + Size(k)
            /\ ~ last => Offset(k) + (u + Payload) < at + s.remaining
                         /\ u + Payload <= Size(k)
<1> DEFINE p == s.pieces[1]
           k == p.segment
           m == Len(s.pieces)
           n == Len(store)
           z == s.pieces[m]
           o == Offset(k)
           u == i * Payload
           until == at + s.remaining
           h == p.hi * Payload
           g == (z.hi - 1) * Payload
<1>1. /\ s \in StreamT /\ m \in Nat /\ m > 0 /\ s.pieces \in Seq(PieceT)
      /\ \A j \in 1..m : PieceOK(s.pieces[j]) /\ s.pieces[j].segment = k + (j - 1)
      /\ \A j \in 1..(m - 1) : /\ s.pieces[j].hi = FrameCount(s.pieces[j].segment)
                               /\ Size(s.pieces[j].segment) % Payload = 0
                               /\ s.pieces[j + 1].lo = 0
  BY DEF UnderWay, Shape, StreamT
<1>2. /\ s.skip \in Nat /\ s.remaining \in Nat /\ s.remaining > 0 /\ FromAt(s, i) = at
      /\ Offset(z.segment) + g < until
      /\ until <= Offset(z.segment) + z.hi * Payload
      /\ until <= Offset(z.segment) + Size(z.segment)
  <2>1. s.skip \in Nat /\ s.remaining \in Nat
    BY <1>1 DEF StreamT
  <2>2. p.hi \in Nat /\ i # p.hi
    <3>1. p \in PieceT
      BY <1>1
    <3>2. p.hi \in Nat
      BY <3>1 DEF PieceT
    <3> QED
      BY <3>2
  <2>3. s.remaining > 0 /\ FromAt(s, i) = at
    BY <2>2 DEF UnderWay
  <2>4. EndsAt(s, until)
    BY DEF UnderWay
  <2> QED
    BY <2>1, <2>3, <2>4 DEF EndsAt
<1>3. /\ p \in PieceT /\ PieceOK(p) /\ z \in PieceT /\ PieceOK(z)
      /\ k \in 1..n /\ z.segment \in 1..n /\ z.segment = k + (m - 1)
      /\ p.hi \in Nat /\ p.hi <= FrameCount(k) /\ z.hi \in Nat /\ z.hi > 0
  <2>1. 1 \in 1..m /\ m \in 1..m
    BY <1>1
  <2>2. p \in PieceT /\ PieceOK(p) /\ z \in PieceT /\ PieceOK(z) /\ z.segment = k + (m - 1)
    BY <1>1, <2>1
  <2> HIDE DEF p, z, m
  <2>3. z.lo \in Nat /\ z.hi \in Nat /\ z.lo < z.hi /\ p.hi \in Nat
    BY <2>2 DEF PieceT, PieceOK
  <2> QED
    BY <2>2, <2>3 DEF PieceOK, k, n
<1>4. n \in Nat /\ o \in Nat /\ Size(k) \in Nat /\ FrameCount(k) \in Nat
      /\ Offset(k + 1) \in Nat /\ Offset(k + 1) = o + Size(k) /\ Offset(z.segment) \in Nat
  <2>1. n \in Nat
    BY Layout
  <2>2. k \in 1..(n + 1) /\ k + 1 \in 1..(n + 1) /\ z.segment \in 1..(n + 1)
    BY <1>3, <2>1
  <2> HIDE DEF k, z
  <2>3. k \in 1..Len(store) /\ k \in 1..(Len(store) + 1) /\ k + 1 \in 1..(Len(store) + 1)
        /\ z.segment \in 1..(Len(store) + 1)
    BY <1>3, <2>2 DEF n
  <2>4. FrameCount(k) \in Nat /\ Size(k) \in Nat
    BY <2>3, SegmentIs, Limits
  <2>5. Offset(k) \in Nat /\ Offset(k + 1) \in Nat /\ Offset(z.segment) \in Nat
        /\ Offset(k + 1) = Offset(k) + Size(k)
    BY <2>3, Layout
  <2> QED
    BY <2>1, <2>4, <2>5
<1>m. m \in Nat /\ m > 0
  BY <1>1
<1>5. i + 1 \in 1..FrameCount(k) /\ i + 1 <= p.hi
  <2> DEFINE c == FrameCount(k)
             e == p.hi
  <2>1. i < e
    OBVIOUS
  <2>2. e \in Nat /\ c \in Nat /\ e <= c
    BY <1>3, <1>4
  <2> HIDE DEF c, e
  <2>3. i + 1 \in 1..c /\ i + 1 <= e
    BY <2>1, <2>2
  <2> QED
    BY <2>3 DEF c, e
<1>6. u \in Nat /\ (i + 1) * Payload = u + Payload /\ h \in Nat
  BY <1>3, Limits, Steps
<1>7. at = o + u + s.skip
  BY <1>2 DEF FromAt
<1>8. g \in Nat
  <2> DEFINE e == z.hi - 1
  <2>1. e \in Nat
    BY <1>3
  <2> HIDE DEF e
  <2>2. e * Payload \in Nat
    BY <2>1, Limits, Steps
  <2> QED
    BY <2>2 DEF e
<1>9. u + Payload <= h
  <2> DEFINE f == i + 1
  <2>1. f \in Nat /\ f <= p.hi
    BY <1>5
  <2> HIDE DEF f, p
  <2>2. f * Payload <= p.hi * Payload
    BY <1>3, <2>1, Limits, Steps
  <2> QED
    BY <1>6, <2>2 DEF f
<1>10. CASE i + 1 = p.hi /\ m = 1
  <2>1. z = p /\ h = u + Payload
    <3>1. z = p
      BY <1>10
    <3> HIDE DEF p
    <3> QED
      BY <1>6, <1>10, <3>1
  <2>2. until <= o + (u + Payload) /\ until <= o + Size(k)
    <3>1. until <= Offset(z.segment) + z.hi * Payload /\ until <= Offset(z.segment) + Size(z.segment)
      BY <1>2
    <3> QED
      BY <2>1, <3>1
  <2> HIDE DEF p, k, m, n, z, o, u, until, h, g
  <2> QED
    BY <1>1, <1>2, <1>3, <1>4, <1>5, <1>6, <1>7, <1>10, <2>2 DEF p, k, m, n, o, u, until
<1>11. CASE ~ (i + 1 = p.hi /\ m = 1)
  <2>1. o + (u + Payload) < until /\ u + Payload <= Size(k)
    <3>1. CASE m = 1
      <4>1. z = p
        BY <3>1
      <4>2. u + Payload <= g
        <5> DEFINE e == z.hi - 1
                   f == i + 1
        <5>1. f \in Nat /\ e \in Nat /\ f <= e
          <6>1. z.hi = p.hi /\ i + 1 # p.hi /\ i + 1 <= p.hi /\ p.hi \in Nat
            BY <1>3, <1>5, <1>11, <3>1, <4>1
          <6> HIDE DEF z, p
          <6> QED
            BY <6>1
        <5> HIDE DEF e, f
        <5>2. f * Payload <= e * Payload
          BY <5>1, Limits, Steps
        <5> QED
          BY <1>6, <5>2 DEF e, f
      <4>3. o + g < until /\ until <= o + Size(k)
        BY <1>2, <4>1
      <4>4. until \in Nat
        BY <1>2
      <4> HIDE DEF o, g, u, until, k
      <4> QED
        BY <1>4, <1>6, <1>8, <4>2, <4>3, <4>4, Limits
    <3>2. CASE m # 1
      <4>1. 1 \in 1..(m - 1)
        <5> HIDE DEF m
        <5> QED
          BY <1>m, <3>2
      <4>2. p.hi = FrameCount(k) /\ Size(k) % Payload = 0
        BY <1>1, <4>1
      <4>3. Size(k) = h
        <5> HIDE DEF p
        <5> QED
          BY <1>3, <4>2, FramesFit DEF n, k
      <4>4. Offset(k + 1) <= Offset(z.segment)
        <5> DEFINE y == z.segment
        <5>1. y \in 1..(n + 1) /\ k + 1 \in 1..(n + 1) /\ (k + 1 = y \/ k + 1 < y)
          <6>1. k \in 1..n /\ y \in 1..n /\ y = k + (m - 1)
            BY <1>3
          <6> HIDE DEF y, k, m, n
          <6> QED
            BY <1>m, <1>4, <3>2, <6>1
        <5> HIDE DEF y, k
        <5>2. k + 1 < y => Offset(k + 1) < Offset(y)
          BY <5>1, OffsetsRise DEF n
        <5>3. Offset(y) \in Nat
          BY <1>4 DEF y
        <5> QED
          BY <1>4, <5>1, <5>2, <5>3 DEF y
      <4>5. Offset(z.segment) + g < until /\ until \in Nat
        BY <1>2
      <4> DEFINE oz == Offset(z.segment)
                 ok == Offset(k + 1)
                 sk == Size(k)
      <4>6. oz \in Nat /\ ok \in Nat /\ sk \in Nat /\ ok = o + sk /\ ok <= oz /\ oz + g < until
            /\ sk = h
        BY <1>4, <4>3, <4>4, <4>5
      <4> HIDE DEF oz, ok, sk, o, g, u, until, h
      <4>7. o + (u + Payload) < until /\ u + Payload <= sk
        BY <1>4, <1>6, <1>8, <1>9, <4>5, <4>6, Limits
      <4> QED
        BY <4>7 DEF sk
    <3> QED
      BY <3>1, <3>2
  <2> HIDE DEF p, k, m, n, z, o, u, until, h, g
  <2> QED
    BY <1>1, <1>2, <1>3, <1>4, <1>5, <1>6, <1>7, <1>11, <2>1 DEF p, k, m, n, o, u, until
<1> QED
  BY <1>10, <1>11

(* A frame is clipped to the bytes that the reader is waiting for.          *)
Clipped(s, i) == Clip(s, store[s.pieces[1].segment].frames[i + 1])

Served(s, i, at, c) ==
  /\ c.bytes \in Seq(Byte) /\ c.skip \in Nat /\ c.remaining \in Nat
  /\ Len(c.bytes) + c.remaining = s.remaining
  /\ \A j \in 1..Len(c.bytes) : c.bytes[j] = File[at + j]
  /\ \A t \in StreamT :
       t.pieces = s.pieces /\ t.skip = c.skip /\ t.remaining = c.remaining
         => UnderWay(t, i + 1, at + Len(c.bytes))

(* Clip takes the bytes that come next from the frame, and no padding.      *)
LEMMA FrameServed ==
  ASSUME StoreOK, NEW s, NEW i \in Nat, NEW at \in Nat,
         UnderWay(s, i, at), i < s.pieces[1].hi
  PROVE  Served(s, i, at, Clipped(s, i))
<1> DEFINE p == s.pieces[1]
           k == p.segment
           u == i * Payload
           o == Offset(k)
           z == Size(k)
           v == (i + 1) * Payload
           last == i + 1 = p.hi /\ Len(s.pieces) = 1
           frame == store[k].frames[i + 1]
           c == Clipped(s, i)
           a == s.skip
           r == s.remaining
           n == Least(r, Payload - a)
<1>1. /\ k \in 1..Len(store) /\ i + 1 \in 1..FrameCount(k) /\ p.hi \in Nat
      /\ s \in StreamT /\ u \in Nat /\ o \in Nat /\ z \in Nat
      /\ at = o + u + a
      /\ v = u + Payload
      /\ r > 0
      /\ last => at + r <= o + (u + Payload) /\ at + r <= o + z
      /\ ~ last => o + (u + Payload) < at + r /\ u + Payload <= z
  BY NextFrame
<1>2. k \in Nat /\ i + 1 \in Nat \ {0} /\ i + 1 <= p.hi
  <2>1. i < p.hi
    OBVIOUS
  <2>2. Len(store) \in Nat
    BY DEF StoreOK
  <2> HIDE DEF p, k, u, o, z, v, last, frame, c, a, r, n
  <2>3. k \in Nat
    BY <1>1, <2>2
  <2>4. i + 1 \in Nat \ {0}
    OBVIOUS
  <2>5. i + 1 <= p.hi
    BY <1>1, <2>1
  <2> QED
    BY <2>3, <2>4, <2>5
<1>3. a \in Nat /\ r \in Nat
  BY <1>1 DEF StreamT
<1>4. a < Payload /\ Shape(s) /\ p.lo <= i /\ EndsAt(s, at + r) /\ FromAt(s, i) = at
  <2>1. i # p.hi
    BY <1>1
  <2> QED
    BY <2>1 DEF UnderWay
<1>5. frame = FrameOf(k, i + 1, z)
  BY <1>1, SegmentIs
<1>6. frame \in Seq(Byte) /\ Len(frame) = Payload
  <2> HIDE DEF frame, k, z
  <2> QED
    BY <1>1, <1>2, <1>5, FrameIs
<1>7. \A q \in 1..Payload : u + q <= z => frame[q] = <<k, u + q>>
  <2>1. (i + 1) - 1 = i
    OBVIOUS
  <2>2. FrameOf(k, i + 1, z) = [q \in 1..Payload |-> IF u + q <= z THEN <<k, u + q>> ELSE Pad]
    BY <2>1 DEF FrameOf
  <2> HIDE DEF frame, k, z, u
  <2> QED
    BY <1>5, <2>2
<1>8. c = Clip(s, frame)
  BY DEF Clipped
<1> HIDE DEF c, frame, o, z, v, u, last, p, k
<1>9. /\ c.skip = 0 /\ c.remaining = r - n /\ c.bytes = SubSeq(frame, a + 1, a + n)
      /\ n \in Nat /\ a + n <= Payload /\ n <= r
  <2>1. Least(a, Payload) = a
    BY <1>3, <1>4, Limits DEF Least
  <2>2. c = [skip |-> a - a, remaining |-> r - ((a + n) - a),
             bytes |-> SubSeq(frame, a + 1, a + n)]
    BY <1>6, <1>8, <2>1 DEF Clip
  <2>3. n \in Nat /\ a + n <= Payload /\ n <= r
    BY <1>3, <1>4, Limits DEF Least
  <2> HIDE DEF n
  <2>4. a - a = 0 /\ r - ((a + n) - a) = r - n
    BY <1>3, <2>3
  <2> QED
    BY <2>2, <2>3, <2>4
<1>10. \/ last /\ n = r
       \/ ~ last /\ n = Payload - a /\ n < r
  BY <1>1, <1>3, <1>4, Limits DEF Least
<1> HIDE DEF n
<1>11. /\ c.bytes \in Seq(Byte) /\ Len(c.bytes) = n
       /\ \A j \in 1..n : c.bytes[j] = frame[a + j]
  <2> DEFINE e == a + n
  <2>1. e \in Nat /\ a <= e /\ e <= Len(frame) /\ e - a = n
    BY <1>3, <1>6, <1>9
  <2> HIDE DEF e
  <2>2. /\ Selection(frame, a, e) \in Seq(Byte) /\ Len(Selection(frame, a, e)) = e - a
        /\ \A j \in 1..(e - a) : Selection(frame, a, e)[j] = frame[a + j]
    BY <1>3, <1>6, <2>1, SelectionIs
  <2>3. c.bytes = Selection(frame, a, e)
    BY <1>9 DEF e, Selection
  <2> QED
    BY <2>1, <2>2, <2>3
<1> HIDE DEF a, r
<1>l. /\ u \in Nat /\ o \in Nat /\ z \in Nat /\ a \in Nat /\ r \in Nat /\ n \in Nat
      /\ at = o + u + a /\ v = u + Payload /\ a + n <= Payload /\ n <= r /\ a < Payload
      /\ c.remaining = r - n /\ Len(c.bytes) = n
  BY <1>1, <1>3, <1>4, <1>9, <1>11
<1>12. (u + a) + n <= z
  <2>1. CASE last
    <3>1. n = r /\ at + r <= o + z
      BY <1>1, <1>10, <2>1
    <3> QED
      BY <1>l, <3>1
  <2>2. CASE ~ last
    <3>1. n = Payload - a /\ u + Payload <= z
      BY <1>1, <1>10, <2>2
    <3> QED
      BY <1>l, <3>1, Limits
  <2> QED
    BY <2>1, <2>2
<1>13. ASSUME NEW j \in 1..n
       PROVE  c.bytes[j] = File[at + j]
  <2> DEFINE q == at + j
             w == a + j
  <2>1. w \in 1..Payload /\ u + w <= z /\ j \in Nat
    BY <1>l, <1>12, Limits
  <2>2. q \in Nat /\ o < q /\ q <= o + z /\ q - o = u + w
    BY <1>l, <2>1
  <2> HIDE DEF q, w
  <2>3. File[q] = <<k, q - o>>
    <3>1. Offset(k) < q /\ q <= Offset(k) + Size(k)
      BY <2>2 DEF o, z
    <3> QED
      BY <1>1, <2>2, <3>1, FileIs DEF o
  <2>4. frame[w] = <<k, u + w>>
    BY <1>7, <2>1
  <2> QED
    BY <1>11, <2>2, <2>3, <2>4 DEF q, w
<1>14. ASSUME NEW t \in StreamT,
              t.pieces = s.pieces, t.skip = c.skip, t.remaining = c.remaining
       PROVE  UnderWay(t, i + 1, at + n)
  <2>1. Shape(t)
    BY <1>4, <1>14 DEF Shape
  <2>2. t.skip = 0 /\ 0 < Payload
    BY <1>9, <1>14, Limits
  <2>3. (at + n) + t.remaining = at + r
    BY <1>l, <1>14
  <2>4. EndsAt(t, (at + n) + t.remaining)
    BY <1>4, <1>14, <2>3 DEF EndsAt
  <2>5. t.pieces[1].lo <= i + 1 /\ i + 1 <= t.pieces[1].hi
    <3>1. t.pieces[1] = p
      BY <1>14 DEF p
    <3>2. p.lo \in Nat
      <4>1. p \in PieceT
        BY <1>4 DEF Shape, StreamT, p
      <4> QED
        BY <4>1 DEF PieceT
    <3> QED
      BY <1>2, <1>4, <3>1, <3>2
  <2>6. IF i + 1 = t.pieces[1].hi /\ Len(t.pieces) = 1 THEN t.remaining = 0
        ELSE t.remaining > 0 /\ FromAt(t, i + 1) = at + n
    <3>1. CASE last
      <4>1. t.remaining = 0
        BY <1>l, <1>10, <1>14, <3>1
      <4> QED
        BY <1>14, <3>1, <4>1 DEF last, p
    <3>2. CASE ~ last
      <4>1. t.remaining > 0
        BY <1>l, <1>10, <1>14, <3>2
      <4>2. FromAt(t, i + 1) = o + v + 0
        BY <1>14, <2>2 DEF FromAt, o, v, k, p
      <4>3. o + v + 0 = at + n
        BY <1>l, <1>10, <3>2, Limits
      <4> QED
        BY <1>14, <3>2, <4>1, <4>2, <4>3 DEF last, p
    <3> QED
      BY <3>1, <3>2
  <2> QED
    BY <2>1, <2>2, <2>4, <2>5, <2>6 DEF UnderWay
<1>15. c.skip \in Nat /\ c.remaining \in Nat /\ Len(c.bytes) + c.remaining = s.remaining
  <2>1. c.skip \in Nat
    BY <1>9
  <2>2. c.remaining \in Nat /\ Len(c.bytes) + c.remaining = r
    BY <1>l
  <2> QED
    BY <2>1, <2>2 DEF r
<1>16. Served(s, i, at, c)
  BY <1>11, <1>13, <1>14, <1>15 DEF Served
<1> QED
  BY <1>16 DEF c

(* When the frames of a piece are used up, the stream goes on with the next *)
(* piece.                                                                   *)
LEMMA PieceServed ==
  ASSUME StoreOK, NEW s, NEW at \in Nat, UnderWay(s, s.pieces[1].hi, at), Len(s.pieces) # 1,
         NEW t \in StreamT, t.pieces = Tail(s.pieces), t.skip = s.skip, t.remaining = s.remaining
  PROVE  StreamOK(t) /\ From(t) = at /\ Until(t) = at + s.remaining
<1> DEFINE p == s.pieces[1]
           k == p.segment
           m == Len(s.pieces)
<1>1. /\ s \in StreamT /\ m \in Nat /\ m > 1 /\ s.pieces \in Seq(PieceT)
      /\ \A j \in 1..m : PieceOK(s.pieces[j]) /\ s.pieces[j].segment = k + (j - 1)
      /\ \A j \in 1..(m - 1) : /\ s.pieces[j].hi = FrameCount(s.pieces[j].segment)
                               /\ Size(s.pieces[j].segment) % Payload = 0
                               /\ s.pieces[j + 1].lo = 0
  <2>1. /\ s \in StreamT /\ m > 0 /\ s.pieces \in Seq(PieceT)
        /\ \A j \in 1..m : PieceOK(s.pieces[j]) /\ s.pieces[j].segment = k + (j - 1)
        /\ \A j \in 1..(m - 1) : /\ s.pieces[j].hi = FrameCount(s.pieces[j].segment)
                                 /\ Size(s.pieces[j].segment) % Payload = 0
                                 /\ s.pieces[j + 1].lo = 0
    BY DEF UnderWay, Shape, StreamT
  <2>2. m \in Nat /\ m # 1 /\ m > 0
    BY <2>1
  <2> HIDE DEF m
  <2>3. m > 1
    BY <2>2
  <2> QED
    BY <2>1, <2>2, <2>3
<1>m. m \in Nat /\ m > 1
  BY <1>1
<1>2. /\ s.skip < Payload /\ s.remaining > 0 /\ FromAt(s, p.hi) = at
      /\ EndsAt(s, at + s.remaining) /\ s.skip \in Nat
  BY <1>1 DEF UnderWay, StreamT
<1>3. /\ Len(t.pieces) = m - 1 /\ \A j \in 1..(m - 1) : t.pieces[j] = s.pieces[j + 1]
  BY <1>1
<1>4. /\ p.hi = FrameCount(k) /\ Size(k) % Payload = 0 /\ s.pieces[2].lo = 0
      /\ s.pieces[2].segment = k + 1 /\ PieceOK(p)
      /\ p \in PieceT
  <2> HIDE DEF m
  <2>1. 1 \in 1..(m - 1) /\ 1 \in 1..m /\ 2 \in 1..m /\ 1 + 1 = 2 /\ 2 - 1 = 1
    BY <1>m
  <2>2. p \in PieceT /\ PieceOK(p)
    <3>1. PieceOK(p)
      BY <1>1, <2>1
    <3>2. 1 \in 1..Len(s.pieces) /\ s.pieces \in Seq(PieceT)
      BY <1>1, <2>1 DEF m
    <3> QED
      BY <3>1, <3>2
  <2>3. p.hi = FrameCount(k) /\ Size(k) % Payload = 0
    BY <1>1, <2>1
  <2>4. s.pieces[1 + 1].lo = 0
    BY <1>1, <2>1
  <2>5. s.pieces[2].segment = k + (2 - 1)
    BY <1>1, <2>1
  <2> HIDE DEF p, k
  <2> QED
    BY <2>1, <2>2, <2>3, <2>4, <2>5
<1>5. k \in 1..Len(store) /\ k \in Nat /\ p.hi \in Nat
  BY <1>4 DEF PieceOK, PieceT
<1> HIDE DEF m, p, k
<1>6. Size(k) = p.hi * Payload /\ Offset(k + 1) = Offset(k) + Size(k) /\ Offset(k) \in Nat
      /\ Size(k) \in Nat
  <2>1. k \in 1..(Len(store) + 1)
    BY <1>5, Layout
  <2> QED
    BY <1>4, <1>5, <2>1, FramesFit, Layout, SegmentIs, Limits
<1>7. From(t) = at
  <2>1. t.pieces[1] = s.pieces[2]
    <3>1. 1 \in 1..(m - 1) /\ 1 + 1 = 2
      BY <1>1
    <3> QED
      BY <1>3, <3>1
  <2>2. From(t) = Offset(k + 1) + 0 * Payload + s.skip
    BY <1>4, <2>1 DEF From, FromAt
  <2>3. at = Offset(k) + p.hi * Payload + s.skip
    BY <1>2 DEF FromAt, p, k
  <2>4. 0 * Payload = 0
    BY Limits
  <2> DEFINE h == p.hi * Payload
  <2> HIDE DEF h
  <2>5. From(t) = Offset(k) + h + 0 + s.skip /\ at = Offset(k) + h + s.skip /\ h \in Nat
    BY <1>6, <2>2, <2>3, <2>4 DEF h
  <2> QED
    BY <1>2, <1>6, <2>5
<1>8. Until(t) = at + s.remaining
  BY <1>7 DEF Until
<1>9. Shape(t)
  <2>1. \A j \in 1..(m - 1) : /\ PieceOK(t.pieces[j])
                              /\ t.pieces[j].segment = t.pieces[1].segment + (j - 1)
    <3> TAKE j \in 1..(m - 1)
    <3>1. j + 1 \in 1..m /\ (j + 1) - 1 = j /\ 1 \in 1..(m - 1) /\ 1 + 1 = 2
      BY <1>1
    <3>2. t.pieces[j] = s.pieces[j + 1] /\ t.pieces[1] = s.pieces[2]
      BY <1>3, <3>1
    <3>3. PieceOK(t.pieces[j]) /\ t.pieces[j].segment = k + j /\ t.pieces[1].segment = k + 1
      <4>1. PieceOK(s.pieces[j + 1]) /\ s.pieces[j + 1].segment = k + ((j + 1) - 1)
        BY <1>1, <3>1
      <4> QED
        BY <1>4, <3>1, <3>2, <4>1
    <3> DEFINE x == t.pieces[j].segment
               y == t.pieces[1].segment
    <3>4. x = k + j /\ y = k + 1 /\ j \in Nat
      <4>1. j \in Nat
        BY <1>m
      <4>2. x = k + j /\ y = k + 1
        BY <3>3
      <4> QED
        BY <4>1, <4>2
    <3> HIDE DEF x, y
    <3>5. x = y + (j - 1)
      BY <1>5, <3>4
    <3> QED
      BY <3>3, <3>5 DEF x, y
  <2>2. \A j \in 1..((m - 1) - 1) : /\ t.pieces[j].hi = FrameCount(t.pieces[j].segment)
                                    /\ Size(t.pieces[j].segment) % Payload = 0
                                    /\ t.pieces[j + 1].lo = 0
    <3> TAKE j \in 1..((m - 1) - 1)
    <3>1. j + 1 \in 1..(m - 1) /\ j \in 1..(m - 1)
      BY <1>1
    <3>2. t.pieces[j] = s.pieces[j + 1] /\ t.pieces[j + 1] = s.pieces[(j + 1) + 1]
      BY <1>3, <3>1
    <3> QED
      BY <1>1, <3>1, <3>2
  <2>3. m - 1 > 0
    BY <1>1
  <2> QED
    BY <1>3, <2>1, <2>2, <2>3 DEF Shape
<1>10. EndsAt(t, at + s.remaining)
  <2>1. m - 1 \in 1..(m - 1) /\ (m - 1) + 1 = m
    BY <1>1
  <2>2. t.pieces[Len(t.pieces)] = s.pieces[m]
    BY <1>3, <2>1
  <2> QED
    BY <1>2, <2>2 DEF EndsAt, m
<1> QED
  BY <1>2, <1>7, <1>8, <1>9, <1>10 DEF StreamOK
----------------------------------------------------------------------------
(* The store and the upload, in every state *)

UploadInv == StoreOK /\ UploadOK /\ pc \in Places

(* Every step keeps the store and the upload what they are.                 *)
LEMMA UploadStep ==
  ASSUME UploadInv, [Next]_vars
  PROVE  UploadInv'
<1>1. CASE Open
  BY <1>1, OpenOK DEF UploadInv
<1>2. ASSUME NEW m \in 1..MaxChunk, Chunk(m) PROVE UploadInv'
  BY <1>2, ChunkOK DEF UploadInv
<1>3. CASE BodyEnd
  BY <1>3, BodyEndOK DEF UploadInv
<1>4. CASE \/ BodyBreak \/ Complete \/ Fetch \/ TakeFrame \/ ResponseEnd
           \/ (\E h \in Headers : Ask(h) \/ AskFails(h)) \/ FetchFails
           \/ (\E n \in 1..MaxChunk : Receive(n)) \/ UNCHANGED vars
  BY <1>4, OthersKeepStore DEF UploadInv
<1> QED
  BY <1>1, <1>2, <1>3, <1>4 DEF Next

(* However a body is chunked, its segment holds its bytes in order, in as   *)
(* few frames as they fill, only the last of which is padded, and never in  *)
(* more of them than the store takes.                                       *)
THEOREM SegmentsAreFaithful == Spec => []SegmentsFaithful
<1>1. UploadInv => SegmentsFaithful
  <2> SUFFICES ASSUME StoreOK, NEW k \in DOMAIN store
               PROVE  /\ FrameCount(k) = CeilDiv(Size(k), Payload)
                      /\ FrameCount(k) <= MaxFrames
                      /\ \A f \in 1..FrameCount(k) :
                           store[k].frames[f] =
                             [p \in 1..Payload |->
                                LET i == (f - 1) * Payload + p
                                IN IF i <= Size(k) THEN <<k, i>> ELSE Pad]
    BY DEF UploadInv, SegmentsFaithful
  <2>1. k \in 1..Len(store)
    BY DEF StoreOK
  <2>2. /\ FrameCount(k) = CeilDiv(Size(k), Payload) /\ FrameCount(k) <= MaxFrames
        /\ \A f \in 1..FrameCount(k) : store[k].frames[f] = FrameOf(k, f, Size(k))
    BY <2>1, SegmentIs
  <2> QED
    BY <2>2, Zenon DEF FrameOf
<1>2. Init => UploadInv
  BY UploadInit DEF UploadInv
<1>3. UploadInv /\ [Next]_vars => UploadInv'
  BY UploadStep
<1> QED
  BY <1>1, <1>2, <1>3, PTL DEF Spec

----------------------------------------------------------------------------
(* The reader, in every state *)

(* The plans that send some bytes, the streams that are under way and the   *)
(* plans without idle frames, as sets: they depend on the store alone.      *)
Plans == {t \in Seq(StreamT) \X Nat \X Nat : Sends(t[1], t[2], t[3])}
Heads == {t \in StreamT \X Nat \X Nat : UnderWay(t[1], t[2], t[3])}
Trim == {t \in Seq(StreamT) \X Nat \X Nat : NoneIdle(t[1], t[2], t[3])}

(* What the reader asked for, and the byte it gets next.                    *)
Chosen == ParseRange(header, FileSize)
At == Chosen.start + Len(out)

Delivered ==
  /\ header \in Headers /\ Chosen.ok
  /\ At <= Chosen.end /\ out = Slice(Chosen.start, At)
  /\ <<rd.streams, Chosen.start, Chosen.end>> \in Trim

ReadInv ==
  /\ rd \in ReaderT /\ out \in Seq(Byte) /\ rd.base <= rd.got /\ rd.got <= rd.stop
  /\ pc \in {"next", "body", "complete"} => rd = NoReader /\ out = <<>>
  /\ pc = "complete" => Aligned
  /\ pc = "refused" => /\ header \in Headers /\ ~ Chosen.ok
                       /\ rd.streams = <<>> /\ out = <<>>
  /\ pc = "failed" => IF rd.streams = <<>> THEN out = <<>> ELSE Delivered
  /\ pc = "done" => Delivered /\ At = Chosen.end
  /\ pc = "fetch" => /\ Delivered /\ rd.streams # <<>>
                     /\ <<rd.streams, At, Chosen.end>> \in Plans
  /\ pc = "download" =>
       /\ Delivered /\ rd.streams # <<>>
       /\ <<Head(rd.streams), rd.index, At>> \in Heads
       /\ <<Tail(rd.streams), At + Head(rd.streams).remaining, Chosen.end>> \in Plans

(* They stay what they are when nothing is stored and nothing asked.        *)
LEMMA StoreStays ==
  ASSUME store' = store
  PROVE  Plans' = Plans /\ Heads' = Heads /\ Trim' = Trim /\ File' = File /\ FileSize' = FileSize
<1>1. Sizes' = Sizes
  BY DEF Sizes, Size
<1>2. Plans' = Plans
  BY <1>1 DEF Plans, Sends, StreamOK, Shape, EndsAt, From, FromAt, Until, PieceOK,
              Offset, Size, FrameCount
<1>3. Heads' = Heads
  BY <1>1 DEF Heads, UnderWay, Shape, EndsAt, FromAt, PieceOK, Offset, Size, FrameCount
<1>4. Trim' = Trim
  BY <1>1 DEF Trim, NoneIdle, Useful, PieceOK, Needed, Offset, Size, FrameCount
<1>5. File' = File
  BY <1>1 DEF File, FileSize, Offset, Size
<1>6. FileSize' = FileSize
  BY <1>1 DEF FileSize
<1> QED
  BY <1>2, <1>3, <1>4, <1>5, <1>6

(* The range depends on the store and the header alone.                     *)
LEMMA ChosenStays ==
  ASSUME store' = store, header' = header
  PROVE  Chosen' = Chosen
<1>1. FileSize' = FileSize
  BY StoreStays
<1> QED
  BY <1>1 DEF Chosen, ParseRange

(* A range that was accepted.                                               *)
LEMMA ChosenIs ==
  ASSUME UploadInv, header \in Headers
  PROVE  FileSize \in Nat /\ Names(header, Chosen)
<1>1. FileSize \in Nat /\ FileSize <= Top
  BY FileFits DEF UploadInv
<1> QED
  BY <1>1, RangeIs DEF Chosen

(* While the reader keeps what it has, so does the invariant.               *)
LEMMA DeliveredStays ==
  ASSUME store' = store, header' = header, out' = out, rd'.streams = rd.streams, Delivered
  PROVE  Delivered' /\ Chosen' = Chosen /\ At' = At
<1>1. Chosen' = Chosen /\ Trim' = Trim /\ File' = File
  BY StoreStays, ChosenStays
<1>2. At' = At
  BY <1>1 DEF At
<1> QED
  BY <1>1, <1>2 DEF Delivered, Slice

(* The invariant of the reader: while the file is uploaded,                 *)
LEMMA UploadKeepsReader ==
  ASSUME ReadInv, Open \/ (\E n \in 1..MaxChunk : Chunk(n)) \/ BodyEnd \/ BodyBreak \/ Complete
  PROVE  ReadInv'
<1>1. /\ pc \in {"next", "body"} /\ rd' = rd /\ out' = out
      /\ pc' \in {"next", "body", "complete", "failed"}
  BY DEF Open, Chunk, BodyEnd, BodyBreak, Complete, Stop
<1>2. pc' = "complete" => Aligned /\ store' = store /\ job' = job
  BY DEF Open, Chunk, BodyEnd, BodyBreak, Complete, Stop
<1>3. pc' = "complete" => Aligned'
  BY <1>2 DEF Aligned, Size
<1>4. rd = NoReader /\ out = <<>> /\ rd.streams = <<>>
  BY <1>1 DEF ReadInv, NoReader
<1> QED
  BY <1>1, <1>3, <1>4 DEF ReadInv

(* at first,                                                                *)
LEMMA InitReads ==
  ASSUME Init
  PROVE  ReadInv
<1>1. rd = NoReader /\ out = <<>> /\ pc = "next"
  BY DEF Init
<1>2. NoReader \in ReaderT /\ NoReader.base = 0 /\ NoReader.got = 0 /\ NoReader.stop = 0
  BY DEF NoReader, ReaderT
<1>3. out \in Seq(Byte)
  BY <1>1
<1> QED
  BY <1>1, <1>2, <1>3 DEF ReadInv

(* when a range is asked for,                                               *)
LEMMA AskReads ==
  ASSUME UploadInv, ReadInv, NEW h \in Headers, Ask(h)
  PROVE  ReadInv'
<1> DEFINE range == ParseRange(h, FileSize)
           start == range.start
           end == range.end
<1>1. /\ pc = "complete" /\ header' = h /\ store' = store /\ out' = out /\ job' = job
      /\ \/ ~ range.ok /\ pc' = "refused" /\ rd' = rd
         \/ range.ok /\ start = end /\ pc' = "done" /\ rd' = rd
         \/ range.ok /\ start # end /\ pc' = "fetch"
              /\ rd' = [rd EXCEPT !.streams = Streams(range)]
  BY DEF Ask, Stop
<1>2. /\ rd = NoReader /\ out = <<>> /\ rd.streams = <<>> /\ Aligned
      /\ rd \in ReaderT /\ rd.base <= rd.got /\ rd.got <= rd.stop /\ out \in Seq(Byte)
  BY <1>1 DEF ReadInv, NoReader
<1>3. /\ Plans' = Plans /\ Heads' = Heads /\ Trim' = Trim /\ File' = File
      /\ FileSize' = FileSize
  BY <1>1, StoreStays
<1>4. Chosen' = range
  BY <1>1, <1>3 DEF Chosen, ParseRange
<1>5. FileSize \in Nat /\ Names(h, range)
  <2>1. FileSize \in Nat /\ FileSize <= Top
    BY FileFits DEF UploadInv
  <2> QED
    BY <2>1, RangeIs
<1> HIDE DEF range
<1>6. CASE ~ range.ok
  BY <1>1, <1>2, <1>4, <1>6 DEF ReadInv
<1>7. ASSUME range.ok
      PROVE  /\ start \in Nat /\ end \in Nat /\ start <= end /\ end <= FileSize
             /\ range = Range0(start, end)
             /\ At' = start /\ (out = Slice(Chosen.start, At))' /\ Chosen.ok'
  <2>1. start \in Nat /\ end \in Nat /\ start <= end /\ end <= FileSize
        /\ range = Range0(start, end)
    BY <1>5, <1>7 DEF Names
  <2>2. Len(out') = 0
    BY <1>1, <1>2
  <2>3. At' = start + 0 /\ start + 0 = start
    BY <1>4, <2>1, <2>2 DEF At
  <2>4. 1..(start - start) = {}
    BY <2>1
  <2>5. Slice(Chosen.start, At)' = <<>>
    <3> HIDE DEF start
    <3>1. At' = start /\ Chosen'.start = start
      BY <1>4, <2>3 DEF start
    <3> QED
      BY <2>4, <3>1 DEF Slice
  <2> QED
    BY <1>1, <1>2, <1>4, <1>7, <2>1, <2>3, <2>5
<1>8. CASE range.ok /\ start = end /\ pc' = "done" /\ rd' = rd
  <2>1. <<rd.streams, start, end>> \in Trim
    <3>1. NoneIdle(<<>>, start, end)
      BY DEF NoneIdle
    <3>2. <<rd.streams, start, end>> \in Seq(StreamT) \X Nat \X Nat
      <4>1. rd.streams \in Seq(StreamT)
        BY <1>2
      <4>2. start \in Nat /\ end \in Nat
        BY <1>7, <1>8
      <4> HIDE DEF start, end
      <4> QED
        BY <4>1, <4>2
    <3> QED
      BY <1>2, <3>1, <3>2 DEF Trim
  <2>2. <<rd.streams, Chosen.start, Chosen.end>>' \in Trim'
    BY <1>3, <1>4, <1>8, <2>1
  <2>3. At' <= Chosen'.end /\ At' = Chosen'.end
    BY <1>4, <1>7, <1>8
  <2>4. Delivered'
    BY <1>1, <1>7, <1>8, <2>2, <2>3 DEF Delivered
  <2> QED
    BY <1>1, <1>2, <1>8, <2>3, <2>4 DEF ReadInv
<1>9. CASE range.ok /\ start # end /\ pc' = "fetch" /\ rd' = [rd EXCEPT !.streams = Streams(range)]
  <2> DEFINE ss == Streams(Range0(start, end))
  <2>1. start < end
    <3> HIDE DEF start, end
    <3> QED
      BY <1>7, <1>9
  <2>2. ss # <<>> /\ Sends(ss, start, end) /\ NoneIdle(ss, start, end)
    <3>1. StoreOK /\ Aligned /\ start \in Nat /\ end \in Nat /\ end <= FileSize
      BY <1>2, <1>7, <1>9 DEF UploadInv
    <3> HIDE DEF start, end
    <3> QED
      BY <2>1, <3>1, StreamsSend
  <2>3. ss \in Seq(StreamT)
    BY <2>2 DEF Sends
  <2>4. rd' = [rd EXCEPT !.streams = ss]
    BY <1>7, <1>9
  <2> HIDE DEF ss
  <2>5. /\ rd' \in ReaderT /\ rd'.streams = ss /\ rd'.base = rd.base /\ rd'.got = rd.got
        /\ rd'.stop = rd.stop
    BY <1>2, <2>3, <2>4 DEF ReaderT
  <2>6. <<ss, start, end>> \in Plans /\ <<ss, start, end>> \in Trim
    <3>1. <<ss, start, end>> \in Seq(StreamT) \X Nat \X Nat
      BY <1>7, <1>9, <2>3
    <3> QED
      BY <2>2, <3>1 DEF Plans, Trim
  <2>7. <<rd.streams, Chosen.start, Chosen.end>>' \in Trim'
        /\ <<rd.streams, At, Chosen.end>>' \in Plans'
    BY <1>3, <1>4, <1>7, <1>9, <2>5, <2>6
  <2>8. At' <= Chosen'.end
    BY <1>4, <1>7, <1>9
  <2>9. Delivered'
    BY <1>1, <1>7, <1>9, <2>7, <2>8 DEF Delivered
  <2> QED
    BY <1>1, <1>2, <1>9, <2>2, <2>5, <2>7, <2>9 DEF ReadInv
<1> QED
  BY <1>1, <1>6, <1>8, <1>9
(* A state in which something is being read.                                *)
LEMMA ReadingIs ==
  ASSUME UploadInv, Delivered, rd \in ReaderT, out \in Seq(Byte)
  PROVE  /\ Chosen.start \in Nat /\ Chosen.end \in Nat /\ At \in Nat /\ Len(out) \in Nat
         /\ At <= Chosen.end /\ Chosen.end <= FileSize /\ FileSize \in Nat
         /\ Chosen.start <= At /\ Len(out) = At - Chosen.start
         /\ rd.streams \in Seq(StreamT)
<1>1. FileSize \in Nat /\ Names(header, Chosen)
  BY ChosenIs DEF Delivered
<1>2. Chosen.start \in Nat /\ Chosen.end \in Nat /\ Chosen.end <= FileSize
  BY <1>1 DEF Names, Delivered
<1>3. Len(out) \in Nat
  OBVIOUS
<1>4. At = Chosen.start + Len(out)
  BY DEF At
<1>5. rd.streams \in Seq(StreamT) /\ At <= Chosen.end
  BY DEF ReaderT, Delivered
<1> QED
  BY <1>1, <1>2, <1>3, <1>4, <1>5

(* A frame has a size.                                                      *)
LEMMA FrameSizeIs == FrameSize \in Nat \ {0}
BY BytesAssumption DEF FrameSize

(* when a piece is fetched,                                                 *)
LEMMA FetchReads ==
  ASSUME UploadInv, ReadInv, Fetch
  PROVE  ReadInv'
<1> DEFINE ss == rd.streams
           s == ss[1]
           p == s.pieces[1]
           count == FrameCount(p.segment)
<1>1. /\ Delivered /\ ss # <<>> /\ <<ss, At, Chosen.end>> \in Plans
      /\ rd \in ReaderT /\ out \in Seq(Byte)
  BY DEF Fetch, ReadInv
<1>2. /\ At \in Nat /\ Chosen.end \in Nat /\ ss \in Seq(StreamT)
  BY <1>1, ReadingIs
<1>3. Sends(ss, At, Chosen.end)
  BY <1>1 DEF Plans
<1>4. /\ s \in StreamT /\ StreamOK(s) /\ From(s) = At /\ Sends(Tail(ss), Until(s), Chosen.end)
  BY <1>1, <1>2, <1>3, SendsTail
<1>5. UnderWay(s, p.lo, At) /\ Until(s) = At + s.remaining
  BY <1>2, <1>4, StreamBegins
<1>6. p \in PieceT /\ PieceOK(p)
  <2>1. Len(s.pieces) > 0 /\ s.pieces \in Seq(PieceT)
        /\ \A j \in 1..Len(s.pieces) : PieceOK(s.pieces[j])
    BY <1>4 DEF StreamOK, Shape, StreamT
  <2>2. 1 \in 1..Len(s.pieces)
    BY <2>1
  <2> QED
    BY <2>1, <2>2
<1>7. /\ p.lo \in Nat /\ p.hi \in Nat /\ p.lo < p.hi /\ count \in Nat
  BY <1>6, SegmentIs DEF PieceT, PieceOK, UploadInv
<1>8. Head(ss) = s /\ Piece = p /\ Stream = s
  <2>1. Head(ss) = s
    BY <1>1, <1>2
  <2>2. Head(s.pieces) = p
    <3>1. s.pieces \in Seq(PieceT) /\ Len(s.pieces) > 0
      BY <1>4 DEF StreamOK, Shape, StreamT
    <3> QED
      BY <3>1
  <2> QED
    BY <2>1, <2>2 DEF Piece, Stream
<1>9. PICK base \in Nat, stop \in Nat :
        /\ base <= stop
        /\ rd' = [rd EXCEPT !.base = base, !.got = base, !.index = p.lo, !.stop = stop]
  <2>1. PICK ignored \in {FALSE, "whole" \in Faults} :
          LET base == IF ignored THEN 0 ELSE p.lo * FrameSize IN
          rd' = [rd EXCEPT !.base = base, !.got = base, !.index = p.lo,
                           !.stop = (IF ignored THEN count ELSE p.hi) * FrameSize]
    BY <1>8 DEF Fetch
  <2> DEFINE base == IF ignored THEN 0 ELSE p.lo * FrameSize
             stop == (IF ignored THEN count ELSE p.hi) * FrameSize
  <2>2. base \in Nat /\ stop \in Nat /\ base <= stop
    <3> DEFINE a == p.lo * FrameSize
               b == p.hi * FrameSize
               c == count * FrameSize
    <3>1. a \in Nat /\ b \in Nat /\ c \in Nat /\ a <= b
      <4> HIDE DEF p, count
      <4>1. FrameSize \in Nat
        BY FrameSizeIs
      <4>2. a \in Nat /\ b \in Nat /\ a <= b
        BY <1>7, <4>1, Steps
      <4>3. c \in Nat
        BY <1>7, <4>1, Steps
      <4> QED
        BY <4>2, <4>3
    <3>2. CASE ignored
      <4>1. base = 0 /\ stop = c
        BY <3>2
      <4> HIDE DEF base, stop, a, b, c
      <4> QED
        BY <3>1, <4>1
    <3>3. CASE ~ ignored
      <4>1. base = a /\ stop = b
        BY <3>3
      <4> HIDE DEF base, stop, a, b, c
      <4> QED
        BY <3>1, <4>1
    <3> QED
      BY <3>2, <3>3
  <2> HIDE DEF base, stop
  <2>3. rd' = [rd EXCEPT !.base = base, !.got = base, !.index = p.lo, !.stop = stop]
    BY <2>1 DEF base, stop
  <2> QED
    BY <2>2, <2>3
<1>10. /\ rd' \in ReaderT /\ rd'.streams = ss /\ rd'.base <= rd'.got /\ rd'.got <= rd'.stop
       /\ rd'.index = p.lo
  <2> HIDE DEF p
  <2>1. rd' \in ReaderT /\ rd'.streams = ss /\ rd'.base = base /\ rd'.got = base
        /\ rd'.stop = stop /\ rd'.index = p.lo
    BY <1>1, <1>7, <1>9 DEF ReaderT
  <2> QED
    BY <1>9, <2>1
<1>11. /\ store' = store /\ header' = header /\ out' = out /\ pc' = "download"
  BY DEF Fetch, Stop
<1>12. Delivered' /\ Chosen' = Chosen /\ At' = At
  BY <1>1, <1>10, <1>11, DeliveredStays
<1>13. Plans' = Plans /\ Heads' = Heads
  BY <1>11, StoreStays
<1> HIDE DEF p, s
<1>14. <<s, p.lo, At>> \in Heads
  <2>1. <<s, p.lo, At>> \in StreamT \X Nat \X Nat
    BY <1>2, <1>4, <1>7
  <2> QED
    BY <1>5, <2>1 DEF Heads
<1>15. <<Tail(ss), At + s.remaining, Chosen.end>> \in Plans
  <2>1. s.remaining \in Nat
    BY <1>4 DEF StreamT
  <2>2. Tail(ss) \in Seq(StreamT)
    BY <1>1, <1>2
  <2>3. At + s.remaining \in Nat
    BY <1>2, <2>1
  <2>4. <<Tail(ss), At + s.remaining, Chosen.end>> \in Seq(StreamT) \X Nat \X Nat
    BY <1>2, <2>2, <2>3
  <2> QED
    BY <1>4, <1>5, <2>4 DEF Plans
<1>16. /\ <<Head(rd.streams), rd.index, At>>' \in Heads'
       /\ <<Tail(rd.streams), At + Head(rd.streams).remaining, Chosen.end>>' \in Plans'
       /\ rd'.streams # <<>> /\ out' \in Seq(Byte)
  BY <1>1, <1>8, <1>10, <1>11, <1>12, <1>13, <1>14, <1>15
<1> QED
  BY <1>10, <1>11, <1>12, <1>16 DEF ReadInv

(* and when bytes of it arrive.                                             *)
LEMMA ReceiveReads ==
  ASSUME UploadInv, ReadInv, NEW n \in 1..MaxChunk, Receive(n)
  PROVE  ReadInv'
<1>1. /\ pc = "download" /\ pc' = pc /\ store' = store /\ header' = header /\ out' = out
      /\ rd' = [rd EXCEPT !.got = rd.got + n] /\ rd.got + n <= rd.stop
  BY DEF Receive
<1>2. /\ Delivered /\ rd.streams # <<>> /\ rd \in ReaderT /\ out \in Seq(Byte)
      /\ <<Head(rd.streams), rd.index, At>> \in Heads
      /\ <<Tail(rd.streams), At + Head(rd.streams).remaining, Chosen.end>> \in Plans
      /\ rd.base <= rd.got /\ rd.got <= rd.stop
  BY <1>1 DEF ReadInv
<1>3. n \in Nat
  BY BytesAssumption
<1>4. /\ rd' \in ReaderT /\ rd'.streams = rd.streams /\ rd'.index = rd.index
      /\ rd'.base <= rd'.got /\ rd'.got <= rd'.stop
  <2>1. rd.got \in Nat /\ rd.base \in Nat /\ rd.stop \in Nat
    BY <1>2 DEF ReaderT
  <2>2. rd.got + n \in Nat /\ rd.base <= rd.got + n
    BY <1>2, <1>3, <2>1
  <2> QED
    BY <1>1, <1>2, <2>2 DEF ReaderT
<1>5. Delivered' /\ Chosen' = Chosen /\ At' = At /\ Plans' = Plans /\ Heads' = Heads
  BY <1>1, <1>2, <1>4, DeliveredStays, StoreStays
<1>6. /\ <<Head(rd.streams), rd.index, At>>' \in Heads'
      /\ <<Tail(rd.streams), At + Head(rd.streams).remaining, Chosen.end>>' \in Plans'
      /\ rd'.streams # <<>> /\ out' \in Seq(Byte)
  BY <1>1, <1>2, <1>4, <1>5
<1> QED
  BY <1>1, <1>4, <1>5, <1>6 DEF ReadInv
(* A part of the file, as a sequence.                                       *)
LEMMA SliceIs ==
  ASSUME StoreOK, FileSize \in Nat, NEW a \in Nat, NEW b \in Nat, a <= b, b <= FileSize
  PROVE  /\ Slice(a, b) \in Seq(Byte) /\ Len(Slice(a, b)) = b - a
         /\ \A i \in 1..(b - a) : Slice(a, b)[i] = File[a + i]
<1>1. ASSUME NEW q \in 1..FileSize PROVE File[q] \in Byte
  <2> DEFINE n == Len(store)
             e == q - 1
  <2>1. e \in Nat /\ e < FileSize /\ q \in Nat /\ e + 1 = q
    OBVIOUS
  <2>2. n \in Nat /\ Rising(Offs, n) /\ Offs[1] = 0 /\ Offs[n + 1] = FileSize
    <3>1. n \in Nat
      BY Layout
    <3>2. 1 \in 1..(n + 1) /\ n + 1 \in 1..(n + 1)
      BY <3>1
    <3> QED
      BY <3>1, <3>2, Layout, LayoutRises DEF Offs
  <2> HIDE DEF e, n
  <2>3. PICK k \in 1..n : Offs[k] <= e /\ e < Offs[k + 1]
    <3>1. e < Offs[n + 1]
      BY <2>1, <2>2
    <3> QED
      BY <2>1, <2>2, <3>1, Located
  <2>4. k \in 1..Len(store) /\ k \in Nat /\ Offset(k) \in Nat
        /\ Offs[k] = Offset(k) /\ Offs[k + 1] = Offset(k) + Size(k) /\ Size(k) \in Nat
    <3>1. k \in 1..Len(store) /\ k \in 1..(Len(store) + 1) /\ k + 1 \in 1..(Len(store) + 1)
      BY <2>2 DEF n
    <3> QED
      BY <3>1, Layout, SegmentIs, Limits DEF Offs
  <2>5. Offset(k) < q /\ q <= Offset(k) + Size(k) /\ q - Offset(k) \in Nat
    BY <2>1, <2>3, <2>4
  <2>6. File[q] = <<k, q - Offset(k)>>
    BY <2>1, <2>4, <2>5, FileIs
  <2> QED
    BY <2>4, <2>5, <2>6 DEF Byte
<1> DEFINE m == b - a
<1>2. m \in Nat /\ \A i \in 1..m : a + i \in 1..FileSize
  OBVIOUS
<1>3. \A i \in 1..m : File[a + i] \in Byte
  BY <1>1, <1>2
<1> DEFINE Nth(i) == File[a + i]
           w == Slice(a, b)
<1>4. w = [i \in 1..m |-> Nth(i)]
  BY DEF Slice
<1>5. \A i \in 1..m : Nth(i) \in Byte
  BY <1>3
<1> HIDE DEF Nth, w, m
<1>6. w \in Seq(Byte) /\ Len(w) = m /\ \A i \in 1..m : w[i] = Nth(i)
  BY <1>2, <1>4, <1>5
<1> QED
  BY <1>6 DEF Nth, w, m

(* The reader has some bytes of the file and receives those that follow.    *)
Extends(a, at, n) == Slice(a, at + n)

(* Some bytes of the file and those that follow.                            *)
LEMMA SliceGrows ==
  ASSUME StoreOK, FileSize \in Nat, NEW a \in Nat, NEW at \in Nat, a <= at,
         NEW bytes \in Seq(Byte), at + Len(bytes) <= FileSize,
         \A j \in 1..Len(bytes) : bytes[j] = File[at + j]
  PROVE  Slice(a, at) \o bytes = Extends(a, at, Len(bytes))
<1> DEFINE n == Len(bytes)
           x == Slice(a, at)
           m == at - a
           b == at + n
           y == Slice(a, b)
<1>1. n \in Nat /\ m \in Nat /\ b \in Nat /\ a <= b /\ b <= FileSize /\ at <= FileSize /\ b - a = m + n
  OBVIOUS
<1>2. x \in Seq(Byte) /\ Len(x) = m /\ \A i \in 1..m : x[i] = File[a + i]
  BY <1>1, SliceIs
<1>3. y \in Seq(Byte) /\ Len(y) = m + n /\ \A i \in 1..(m + n) : y[i] = File[a + i]
  <2> HIDE DEF b
  <2>1. Slice(a, b) \in Seq(Byte) /\ Len(Slice(a, b)) = b - a
        /\ \A i \in 1..(b - a) : Slice(a, b)[i] = File[a + i]
    BY <1>1, SliceIs
  <2> QED
    BY <1>1, <2>1
<1>4. bytes \in Seq(Byte) /\ Len(bytes) = n
  OBVIOUS
<1>5. \A i \in 1..n : bytes[i] = File[at + i]
  OBVIOUS
<1> HIDE DEF n, x, y
<1>6. /\ x \o bytes \in Seq(Byte) /\ Len(x \o bytes) = m + n
      /\ \A i \in 1..(m + n) : (x \o bytes)[i] = IF i <= m THEN x[i] ELSE bytes[i - m]
  BY <1>2, <1>4, Joined
<1>7. ASSUME NEW i \in 1..(m + n) PROVE (x \o bytes)[i] = y[i]
  <2>1. CASE i <= m
    <3>1. i \in 1..m
      BY <1>1, <2>1
    <3> QED
      BY <1>2, <1>3, <1>6, <2>1, <3>1
  <2>2. CASE ~ (i <= m)
    <3> DEFINE j == i - m
    <3>1. j \in 1..n /\ at + j = a + i
      BY <1>1, <2>2
    <3> HIDE DEF j
    <3>2. (x \o bytes)[i] = bytes[j]
      BY <1>6, <2>2 DEF j
    <3> QED
      BY <1>3, <1>5, <3>1, <3>2
  <2> QED
    BY <2>1, <2>2
<1>8. x \o bytes = y
  <2> DEFINE v == x \o bytes
  <2> HIDE DEF v
  <2>1. v \in Seq(Byte) /\ Len(v) = Len(y) /\ \A i \in 1..Len(v) : v[i] = y[i]
    BY <1>3, <1>6, <1>7 DEF v
  <2>2. v = y
    BY <1>3, <2>1, SeqEqual
  <2> QED
    BY <2>2 DEF v
<1> QED
  BY <1>8 DEF Extends, x, y, n

(* The first of several streams changes and the others do not.              *)
LEMMA HeadChanges ==
  ASSUME NEW S, NEW ss \in Seq(S), ss # <<>>, NEW t \in S, NEW ts, ts = [ss EXCEPT ![1] = t]
  PROVE  /\ ts \in Seq(S) /\ ts # <<>> /\ Len(ts) = Len(ss) /\ ts[1] = t
         /\ Head(ts) = t /\ Tail(ts) = Tail(ss)
         /\ \A i \in 1..Len(ss) : i # 1 => ts[i] = ss[i]
<1> DEFINE m == Len(ss)
<1>1. m \in Nat /\ m > 0 /\ 1 \in 1..m /\ DOMAIN ss = 1..m
  OBVIOUS
<1>2. ts \in Seq(S) /\ Len(ts) = m /\ ts[1] = t /\ \A i \in 1..m : i # 1 => ts[i] = ss[i]
  BY <1>1
<1> HIDE DEF m
<1>3. ts # <<>> /\ Head(ts) = t
  BY <1>1, <1>2
<1>4. Tail(ts) = Tail(ss)
  <2> DEFINE x == Tail(ts)
             y == Tail(ss)
  <2>1. x \in Seq(S) /\ Len(x) = m - 1 /\ \A i \in 1..(m - 1) : x[i] = ts[i + 1]
    BY <1>1, <1>2, <1>3
  <2>2. y \in Seq(S) /\ Len(y) = m - 1 /\ \A i \in 1..(m - 1) : y[i] = ss[i + 1]
    BY <1>1 DEF m
  <2>3. \A i \in 1..(m - 1) : ts[i + 1] = ss[i + 1]
    <3>1. \A i \in 1..(m - 1) : i + 1 \in 1..m /\ i + 1 # 1
      BY <1>1
    <3> QED
      BY <1>2, <3>1
  <2> HIDE DEF x, y
  <2>4. \A i \in 1..Len(x) : x[i] = y[i]
    BY <2>1, <2>2, <2>3
  <2>5. x = y
    BY <2>1, <2>2, <2>4, SeqEqual
  <2> QED
    BY <2>5 DEF x, y
<1> QED
  BY <1>2, <1>3, <1>4 DEF m

(* A frame is decoded, or the reader gives up.                              *)
LEMMA TakeFrameReads ==
  ASSUME UploadInv, ReadInv, TakeFrame
  PROVE  ReadInv' /\ Len(out) <= Len(out')
<1> DEFINE ss == rd.streams
           s == ss[1]
           i == rd.index
           c == Clipped(s, i)
           n == Len(c.bytes)
           t == [s EXCEPT !.skip = c.skip, !.remaining = c.remaining]
           ts == [ss EXCEPT ![1] = t]
<1>1. /\ pc = "download" /\ Delivered /\ ss # <<>> /\ rd \in ReaderT /\ out \in Seq(Byte)
      /\ <<Head(ss), i, At>> \in Heads
      /\ <<Tail(ss), At + Head(ss).remaining, Chosen.end>> \in Plans
      /\ rd.base <= rd.got /\ rd.got <= rd.stop
  BY DEF TakeFrame, ReadInv
<1>2. /\ Chosen.start \in Nat /\ Chosen.end \in Nat /\ At \in Nat /\ Chosen.start <= At
      /\ Chosen.end <= FileSize /\ FileSize \in Nat /\ ss \in Seq(StreamT)
      /\ At <= Chosen.end
  BY <1>1, ReadingIs
<1>3. Head(ss) = s /\ s \in StreamT /\ i \in Nat
  BY <1>1, <1>2 DEF ReaderT
<1>4. UnderWay(s, i, At) /\ Sends(Tail(ss), At + s.remaining, Chosen.end)
  BY <1>1, <1>3 DEF Heads, Plans
<1>5. Piece = s.pieces[1] /\ Stream = s
  <2>1. s.pieces \in Seq(PieceT) /\ Len(s.pieces) > 0
    BY <1>4 DEF UnderWay, Shape, StreamT
  <2>2. Head(s.pieces) = s.pieces[1]
    BY <2>1
  <2> QED
    BY <1>3, <2>2 DEF Piece, Stream
<1>6. store' = store /\ header' = header /\ FrameReady
  BY DEF TakeFrame
<1>7. CASE pc' = "failed" /\ rd' = rd /\ out' = out
  <2>1. Delivered'
    BY <1>1, <1>6, <1>7, DeliveredStays
  <2>2. Len(out) <= Len(out')
    BY <1>1, <1>7
  <2> QED
    BY <1>1, <1>7, <2>1, <2>2 DEF ReadInv
<1>8. ASSUME i < s.pieces[1].hi, pc' = pc, out' = out \o c.bytes,
             rd' = [rd EXCEPT !.base = @ + FrameSize, !.index = @ + 1,
                              !.streams[1].skip = c.skip, !.streams[1].remaining = c.remaining]
      PROVE  ReadInv' /\ Len(out) <= Len(out')
  <2>1. Served(s, i, At, c)
    <3>1. StoreOK
      BY DEF UploadInv
    <3> HIDE DEF s, i
    <3> QED
      BY <1>2, <1>3, <1>4, <1>8, <3>1, FrameServed
  <2>2. /\ c.bytes \in Seq(Byte) /\ c.skip \in Nat /\ c.remaining \in Nat
        /\ n + c.remaining = s.remaining /\ n \in Nat
        /\ \A j \in 1..n : c.bytes[j] = File[At + j]
    BY <2>1 DEF Served
  <2> HIDE DEF c
  <2>3. /\ t \in StreamT /\ t.pieces = s.pieces /\ t.skip = c.skip
        /\ t.remaining = c.remaining
    <3> HIDE DEF s
    <3> QED
      BY <1>3, <2>2 DEF StreamT
  <2>4. UnderWay(t, i + 1, At + n)
    <3> HIDE DEF t
    <3> QED
      BY <2>1, <2>3 DEF Served
  <2>5. [ss EXCEPT ![1].skip = c.skip, ![1].remaining = c.remaining] = ts
    <3>1. 1 \in DOMAIN ss
      BY <1>1, <1>2
    <3> HIDE DEF ss
    <3> QED
      BY <3>1
  <2>6. rd' = [rd EXCEPT !.base = rd.base + FrameSize, !.index = i + 1, !.streams = ts]
    BY <1>1, <1>8, <2>5 DEF ReaderT
  <2> HIDE DEF t
  <2>7. /\ ts \in Seq(StreamT) /\ ts # <<>> /\ Len(ts) = Len(ss) /\ ts[1] = t
        /\ Head(ts) = t /\ Tail(ts) = Tail(ss)
        /\ \A j \in 1..Len(ss) : j # 1 => ts[j] = ss[j]
    <3> HIDE DEF ts, ss
    <3>1. ts = [ss EXCEPT ![1] = t]
      BY DEF ts
    <3> QED
      BY <1>1, <1>2, <2>3, <3>1, HeadChanges
  <2> HIDE DEF ts
  <2>8. /\ rd' \in ReaderT /\ rd'.streams = ts /\ rd'.index = i + 1
        /\ rd'.base = rd.base + FrameSize /\ rd'.got = rd.got /\ rd'.stop = rd.stop
    <3>1. rd.base + FrameSize \in Nat /\ i + 1 \in Nat
      <4>1. rd.base \in Nat
        BY <1>1 DEF ReaderT
      <4> QED
        BY <1>3, <4>1, FrameSizeIs
    <3> QED
      BY <1>1, <2>6, <2>7, <3>1 DEF ReaderT
  <2>9. rd'.base <= rd'.got /\ rd'.got <= rd'.stop
    <3>1. rd.got \in Nat /\ rd.base \in Nat /\ rd.got - rd.base >= FrameSize
      BY <1>1, <1>6 DEF ReaderT, FrameReady
    <3> QED
      BY <1>1, <2>8, <3>1, FrameSizeIs
  <2>10. out' \in Seq(Byte) /\ Len(out') = Len(out) + n /\ Len(out) \in Nat
    BY <1>1, <1>8, <2>2
  <2>11. Plans' = Plans /\ Heads' = Heads /\ Trim' = Trim /\ File' = File /\ Chosen' = Chosen
    BY <1>6, StoreStays, ChosenStays
  <2>12. At' = At + n
    <3> DEFINE a == Chosen.start
               l == Len(out)
    <3>1. At = a + l /\ At' = a + Len(out')
      BY <2>11 DEF At
    <3>2. a \in Nat /\ l \in Nat /\ n \in Nat /\ Len(out') = l + n
      BY <1>2, <2>2, <2>10
    <3> HIDE DEF a, l, n
    <3>3. At' = a + (l + n)
      BY <3>1, <3>2
    <3> QED
      BY <3>1, <3>2, <3>3
  <2>13. At + n <= Chosen.end /\ At + n <= FileSize
         /\ (At + n) + c.remaining = At + s.remaining /\ At + n \in Nat
    <3>1. At + s.remaining <= Chosen.end
      BY <1>4 DEF Sends
    <3>2. s.remaining \in Nat
      BY <1>3 DEF StreamT
    <3> DEFINE x == c.remaining
               y == s.remaining
               e == Chosen.end
    <3>3. /\ n \in Nat /\ x \in Nat /\ y \in Nat /\ At \in Nat /\ e \in Nat /\ FileSize \in Nat
          /\ n + x = y /\ At + y <= e /\ e <= FileSize
      BY <1>2, <2>2, <3>1, <3>2
    <3> HIDE DEF n, x, y, e
    <3>4. At + n <= e /\ At + n <= FileSize /\ (At + n) + x = At + y /\ At + n \in Nat
      BY <3>3
    <3> QED
      BY <3>4 DEF x, y, e
  <2>14. (out = Slice(Chosen.start, At))'
    <3>1. Slice(Chosen.start, At) \o c.bytes = Extends(Chosen.start, At, n)
      <4>1. StoreOK
        BY DEF UploadInv
      <4> DEFINE a == Chosen.start
                 w == c.bytes
      <4>2. a \in Nat /\ a <= At /\ w \in Seq(Byte) /\ At + Len(w) <= FileSize
            /\ \A j \in 1..Len(w) : w[j] = File[At + j]
        BY <1>2, <2>2, <2>13
      <4> HIDE DEF a, w
      <4>3. Slice(a, At) \o w = Extends(a, At, Len(w))
        BY <1>2, <4>1, <4>2, SliceGrows
      <4> QED
        BY <4>3 DEF a, w
    <3>2. out = Slice(Chosen.start, At)
      BY <1>1 DEF Delivered
    <3>3. out' = Slice(Chosen.start, At + n)
      BY <1>8, <3>1, <3>2 DEF Extends
    <3>4. Slice(Chosen.start, At)' = Slice(Chosen.start, At + n)
      BY <2>11, <2>12 DEF Slice
    <3> QED
      BY <3>3, <3>4
  <2>15. <<ts, Chosen.start, Chosen.end>> \in Trim
    <3>1. NoneIdle(ss, Chosen.start, Chosen.end)
      BY <1>1 DEF Delivered, Trim
    <3>2. \A j \in 1..Len(ts) : ts[j].pieces = ss[j].pieces
      BY <2>3, <2>7
    <3>3. NoneIdle(ts, Chosen.start, Chosen.end)
      BY <2>7, <3>1, <3>2 DEF NoneIdle
    <3> QED
      BY <1>2, <2>7, <3>3 DEF Trim
  <2>16. Delivered'
    <3>1. (<<rd.streams, Chosen.start, Chosen.end>> \in Trim)' /\ (At <= Chosen.end)'
          /\ (header \in Headers /\ Chosen.ok)'
      BY <1>1, <1>6, <2>8, <2>11, <2>12, <2>13, <2>15 DEF Delivered
    <3> QED
      BY <2>14, <3>1 DEF Delivered
  <2>17. (<<Head(rd.streams), rd.index, At>> \in Heads)'
    <3>1. <<t, i + 1, At + n>> \in Heads
      BY <1>3, <2>3, <2>4, <2>13 DEF Heads
    <3> QED
      BY <2>7, <2>8, <2>11, <2>12, <3>1
  <2>18. (<<Tail(rd.streams), At + Head(rd.streams).remaining, Chosen.end>> \in Plans)'
    <3>1. <<Tail(ss), (At + n) + c.remaining, Chosen.end>> \in Plans
      BY <1>1, <1>3, <2>13
    <3> QED
      BY <2>3, <2>7, <2>8, <2>11, <2>12, <3>1
  <2>19. Len(out) <= Len(out')
    BY <2>2, <2>10
  <2> QED
    BY <1>1, <1>8, <2>7, <2>8, <2>9, <2>10, <2>16, <2>17, <2>18, <2>19 DEF ReadInv
<1>9. CASE i >= Piece.hi \/ rd.base # i * FrameSize
  BY <1>7, <1>9 DEF TakeFrame, Stop
<1>10. CASE ~ (i >= Piece.hi \/ rd.base # i * FrameSize)
  <2>1. s.pieces[1].hi \in Nat
    <3>1. s.pieces \in Seq(PieceT) /\ Len(s.pieces) > 0
      BY <1>4 DEF UnderWay, Shape, StreamT
    <3>2. s.pieces[1] \in PieceT
      BY <3>1
    <3> QED
      BY <3>2 DEF PieceT
  <2>2. i < s.pieces[1].hi
    <3> HIDE DEF i
    <3> QED
      BY <1>3, <1>5, <1>10, <2>1
  <2>3. /\ pc' = pc /\ out' = out \o c.bytes
        /\ rd' = [rd EXCEPT !.base = @ + FrameSize, !.index = @ + 1,
                            !.streams[1].skip = c.skip, !.streams[1].remaining = c.remaining]
    BY <1>5, <1>10 DEF TakeFrame, Clipped
  <2> QED
    BY <1>8, <2>2, <2>3
<1> QED
  BY <1>9, <1>10
(* The first stream is removed, or the first piece of its plan.             *)
LEMMA TrimStays ==
  ASSUME NEW ss \in Seq(StreamT), ss # <<>>, NEW a \in Nat, NEW b \in Nat, <<ss, a, b>> \in Trim
  PROVE  /\ <<Tail(ss), a, b>> \in Trim
         /\ \A t \in StreamT :
              t.pieces = Tail(ss[1].pieces) /\ Len(ss[1].pieces) > 0
                => <<[ss EXCEPT ![1] = t], a, b>> \in Trim
<1> DEFINE n == Len(ss)
           rest == Tail(ss)
<1>1. n \in Nat /\ n > 0 /\ 1 \in 1..n /\ ss[1] \in StreamT
  OBVIOUS
<1>2. \A i \in 1..n : \A m \in 1..Len(ss[i].pieces) : Useful(ss[i].pieces[m], a, b)
  BY DEF Trim, NoneIdle
<1>3. <<rest, a, b>> \in Trim
  <2>1. rest \in Seq(StreamT) /\ Len(rest) = n - 1 /\ \A i \in 1..(n - 1) : rest[i] = ss[i + 1]
    BY <1>1
  <2>2. \A i \in 1..(n - 1) : i + 1 \in 1..n
    BY <1>1
  <2> HIDE DEF rest, n
  <2>3. NoneIdle(rest, a, b)
    BY <1>2, <2>1, <2>2 DEF NoneIdle
  <2> QED
    BY <2>1, <2>3 DEF Trim
<1>4. ASSUME NEW t \in StreamT, t.pieces = Tail(ss[1].pieces), Len(ss[1].pieces) > 0
      PROVE  <<[ss EXCEPT ![1] = t], a, b>> \in Trim
  <2> DEFINE ts == [ss EXCEPT ![1] = t]
             q == ss[1].pieces
  <2>1. /\ ts \in Seq(StreamT) /\ Len(ts) = n /\ ts[1] = t
        /\ \A i \in 1..n : i # 1 => ts[i] = ss[i]
    <3> HIDE DEF ts
    <3>1. ts = [ss EXCEPT ![1] = t]
      BY DEF ts
    <3> QED
      BY <3>1, HeadChanges
  <2>2. q \in Seq(PieceT) /\ Len(q) \in Nat /\ Len(q) > 0
    BY <1>1, <1>4 DEF StreamT
  <2>3. t.pieces = Tail(q)
    BY <1>4
  <2> HIDE DEF q
  <2>4. \A m \in 1..Len(t.pieces) : m + 1 \in 1..Len(q) /\ t.pieces[m] = q[m + 1]
    BY <2>2, <2>3
  <2>5. \A m \in 1..Len(t.pieces) : Useful(t.pieces[m], a, b)
    <3>1. \A m \in 1..Len(q) : Useful(q[m], a, b)
      BY <1>1, <1>2 DEF q
    <3> QED
      BY <2>4, <3>1
  <2> HIDE DEF ts, n
  <2>6. NoneIdle(ts, a, b)
    BY <1>2, <2>1, <2>5 DEF NoneIdle
  <2>7. <<ts, a, b>> \in Trim
    BY <2>1, <2>6 DEF Trim
  <2> QED
    BY <2>7 DEF ts
<1> QED
  BY <1>3, <1>4 DEF rest

(* A response ends, and the stream with it or only the piece.               *)
LEMMA ResponseEndReads ==
  ASSUME UploadInv, ReadInv, ResponseEnd
  PROVE  ReadInv'
<1> DEFINE ss == rd.streams
           s == ss[1]
           i == rd.index
           b == Chosen.end
           rest == Tail(ss)
<1>1. /\ pc = "download" /\ Delivered /\ ss # <<>> /\ rd \in ReaderT /\ out \in Seq(Byte)
      /\ <<Head(ss), i, At>> \in Heads
      /\ <<Tail(ss), At + Head(ss).remaining, Chosen.end>> \in Plans
      /\ rd.base <= rd.got /\ rd.got <= rd.stop
  BY DEF ResponseEnd, ReadInv
<1>2. /\ Chosen.start \in Nat /\ b \in Nat /\ At \in Nat /\ ss \in Seq(StreamT) /\ At <= b
  BY <1>1, ReadingIs
<1>3. Head(ss) = s /\ s \in StreamT /\ i \in Nat
  BY <1>1, <1>2 DEF ReaderT
<1>4. UnderWay(s, i, At) /\ Sends(rest, At + s.remaining, b)
  BY <1>1, <1>3 DEF Heads, Plans
<1>5. /\ s.pieces \in Seq(PieceT) /\ Len(s.pieces) \in Nat /\ Len(s.pieces) > 0
      /\ Piece = s.pieces[1] /\ Stream = s
  <2>1. s.pieces \in Seq(PieceT) /\ Len(s.pieces) > 0
    BY <1>4 DEF UnderWay, Shape, StreamT
  <2>2. Head(s.pieces) = s.pieces[1]
    BY <2>1
  <2> QED
    BY <1>3, <2>1, <2>2 DEF Piece, Stream
<1>6. store' = store /\ header' = header /\ out' = out /\ out' \in Seq(Byte)
  BY <1>1 DEF ResponseEnd
<1>7. Plans' = Plans /\ Heads' = Heads /\ Trim' = Trim /\ File' = File /\ Chosen' = Chosen
      /\ At' = At
  <2>1. Chosen' = Chosen
    BY <1>6, ChosenStays
  <2> QED
    BY <1>6, <2>1, StoreStays DEF At
<1>8. <<ss, Chosen.start, b>> \in Trim
  BY <1>1 DEF Delivered
<1>9. CASE pc' = "failed" /\ rd' = rd
  <2>1. Delivered'
    BY <1>1, <1>6, <1>9, DeliveredStays
  <2> QED
    BY <1>1, <1>6, <1>9, <2>1 DEF ReadInv
<1>10. ASSUME NEW xs \in Seq(StreamT), rd' = [rd EXCEPT !.streams = xs],
              <<xs, Chosen.start, b>> \in Trim, Sends(xs, At, b),
              pc' = (IF xs = <<>> THEN "done" ELSE "fetch")
       PROVE  ReadInv'
  <2>1. /\ rd' \in ReaderT /\ rd'.streams = xs /\ rd'.base = rd.base /\ rd'.got = rd.got
        /\ rd'.stop = rd.stop
    BY <1>1, <1>10 DEF ReaderT
  <2>2. (out = Slice(Chosen.start, At))'
    BY <1>1, <1>6, <1>7 DEF Delivered, Slice
  <2>3. Delivered'
    BY <1>1, <1>2, <1>6, <1>7, <1>10, <2>1, <2>2 DEF Delivered
  <2>4. CASE xs = <<>>
    <3>1. At = b
      BY <1>10, <2>4 DEF Sends
    <3>2. (At = Chosen.end)'
      BY <1>7, <3>1
    <3> QED
      BY <1>1, <1>6, <1>10, <2>1, <2>3, <2>4, <3>2 DEF ReadInv
  <2>5. CASE xs # <<>>
    <3>1. <<xs, At, b>> \in Plans
      BY <1>2, <1>10 DEF Plans
    <3>2. (<<rd.streams, At, Chosen.end>> \in Plans)'
      BY <1>7, <2>1, <3>1
    <3> QED
      BY <1>1, <1>6, <1>10, <2>1, <2>3, <2>5, <3>2 DEF ReadInv
  <2> QED
    BY <2>4, <2>5
<1>11. CASE rd.got # rd.base \/ i # Piece.hi
  BY <1>9, <1>11 DEF ResponseEnd, Stop
<1>12. CASE ~ (rd.got # rd.base \/ i # Piece.hi) /\ Len(s.pieces) = 1
  <2>1. s.remaining = 0
    BY <1>4, <1>5, <1>12 DEF UnderWay
  <2>2. At + s.remaining = At
    BY <1>2, <2>1
  <2>3. Sends(rest, At, b)
    BY <1>4, <2>2
  <2>4. rest \in Seq(StreamT)
    BY <2>3 DEF Sends
  <2>5. rd' = [rd EXCEPT !.streams = rest]
    BY <1>5, <1>12 DEF ResponseEnd
  <2>6. Len(ss) = 1 <=> rest = <<>>
    <3> DEFINE n == Len(ss)
    <3>1. n \in Nat /\ Len(rest) = n - 1
      BY <1>1, <1>2
    <3> HIDE DEF n, rest
    <3>2. rest = <<>> <=> Len(rest) = 0
      BY <2>4
    <3>3. n = 1 <=> Len(rest) = 0
      BY <3>1
    <3> QED
      BY <3>2, <3>3 DEF n
  <2>7. pc' = (IF Len(ss) = 1 THEN "done" ELSE "fetch")
    BY <1>5, <1>12 DEF ResponseEnd, Stop
  <2>8. <<rest, Chosen.start, b>> \in Trim
    <3> DEFINE a == Chosen.start
    <3>1. <<ss, a, b>> \in Trim /\ a \in Nat /\ b \in Nat /\ ss \in Seq(StreamT) /\ ss # <<>>
      BY <1>1, <1>2, <1>8
    <3> HIDE DEF a, b, ss
    <3> QED
      BY <3>1, TrimStays DEF a, rest
  <2> HIDE DEF rest
  <2> QED
    BY <1>10, <2>3, <2>4, <2>5, <2>6, <2>7, <2>8
<1>13. CASE ~ (rd.got # rd.base \/ i # Piece.hi) /\ Len(s.pieces) # 1
  <2> DEFINE t == [s EXCEPT !.pieces = Tail(s.pieces)]
             ts == [ss EXCEPT ![1] = t]
  <2>1. /\ t \in StreamT /\ t.pieces = Tail(s.pieces) /\ t.skip = s.skip
        /\ t.remaining = s.remaining
    <3> DEFINE w == Tail(s.pieces)
    <3>1. w \in Seq(PieceT)
      BY <1>5
    <3> HIDE DEF s, w
    <3> QED
      BY <1>3, <3>1 DEF StreamT, w
  <2>2. [ss EXCEPT ![1].pieces = Tail(s.pieces)] = ts
    <3>1. 1 \in DOMAIN ss
      BY <1>1, <1>2
    <3> HIDE DEF ss
    <3> QED
      BY <3>1
  <2>3. rd' = [rd EXCEPT !.streams = ts]
    <3>1. rd' = [rd EXCEPT !.streams = [ss EXCEPT ![1].pieces = Tail(s.pieces)]]
      BY <1>5, <1>13 DEF ResponseEnd
    <3> HIDE DEF ts
    <3> QED
      BY <2>2, <3>1
  <2> HIDE DEF t
  <2>4. StreamOK(t) /\ From(t) = At /\ Until(t) = At + s.remaining
    <3>1. StoreOK /\ UnderWay(s, s.pieces[1].hi, At) /\ Len(s.pieces) # 1
      BY <1>4, <1>5, <1>13 DEF UploadInv
    <3> HIDE DEF s
    <3> QED
      BY <1>2, <2>1, <3>1, PieceServed
  <2>5. /\ ts \in Seq(StreamT) /\ ts # <<>> /\ Len(ts) = Len(ss) /\ ts[1] = t
        /\ Tail(ts) = rest
    <3> HIDE DEF ts, ss
    <3>1. ts = [ss EXCEPT ![1] = t]
      BY DEF ts
    <3> QED
      BY <1>1, <1>2, <2>1, <3>1, HeadChanges DEF rest
  <2>6. <<ts, Chosen.start, b>> \in Trim
    <3> DEFINE a == Chosen.start
    <3>1. <<ss, a, b>> \in Trim /\ a \in Nat /\ b \in Nat /\ ss \in Seq(StreamT) /\ ss # <<>>
          /\ t.pieces = Tail(ss[1].pieces) /\ Len(ss[1].pieces) > 0
      BY <1>1, <1>2, <1>5, <1>8, <2>1
    <3> HIDE DEF a, b, ss, s
    <3> QED
      BY <2>1, <3>1, TrimStays DEF a, ts
  <2> HIDE DEF ts
  <2>7. Sends(ts, At, b)
    <3>1. Sends(Tail(ts), Until(ts[1]), b)
      BY <1>4, <2>4, <2>5
    <3> HIDE DEF b
    <3> QED
      BY <1>2, <2>4, <2>5, <3>1, SendsJoin
  <2>8. pc' = "fetch"
    BY <1>5, <1>13 DEF ResponseEnd, Stop
  <2> QED
    BY <1>10, <2>3, <2>5, <2>6, <2>7, <2>8
<1> QED
  BY <1>11, <1>12, <1>13
(* A request that cannot be served, or no further.                          *)
LEMMA FailReads ==
  ASSUME ReadInv, FetchFails \/ (\E h \in Headers : AskFails(h))
  PROVE  ReadInv'
<1>1. /\ rd' = rd /\ out' = out /\ store' = store /\ pc' = "failed"
      /\ \/ pc = "fetch" /\ header' = header
         \/ pc = "complete"
  BY DEF FetchFails, AskFails, Stop
<1>2. CASE pc = "complete"
  <2>1. rd.streams = <<>> /\ out = <<>>
    BY <1>2 DEF ReadInv, NoReader
  <2> QED
    BY <1>1, <2>1 DEF ReadInv
<1>3. CASE pc = "fetch" /\ header' = header
  <2>1. Delivered'
    BY <1>1, <1>3, DeliveredStays DEF ReadInv
  <2>2. rd.streams # <<>>
    BY <1>3 DEF ReadInv
  <2> QED
    BY <1>1, <2>1, <2>2 DEF ReadInv
<1> QED
  BY <1>1, <1>2, <1>3

(* A step that changes nothing.                                             *)
LEMMA StutterReads ==
  ASSUME ReadInv, UNCHANGED vars
  PROVE  ReadInv'
<1>1. /\ pc' = pc /\ job' = job /\ store' = store /\ header' = header /\ rd' = rd /\ out' = out
  BY DEF vars
<1>2. Plans' = Plans /\ Heads' = Heads /\ Chosen' = Chosen
  BY <1>1, StoreStays, ChosenStays
<1>3. At' = At
  BY <1>1, <1>2 DEF At
<1>4. Delivered => Delivered'
  BY <1>1, DeliveredStays
<1>5. Aligned' = Aligned
  BY <1>1 DEF Aligned, Size
<1> QED
  BY <1>1, <1>2, <1>3, <1>4, <1>5 DEF ReadInv

(* What holds in every state.                                               *)
BytesInv == UploadInv /\ ReadInv

(* Every step keeps it,                                                     *)
LEMMA BytesStep ==
  ASSUME BytesInv, [Next]_vars
  PROVE  BytesInv'
<1>1. UploadInv /\ ReadInv
  BY DEF BytesInv
<1>2. UploadInv'
  BY <1>1, UploadStep
<1>3. CASE Open \/ (\E n \in 1..MaxChunk : Chunk(n)) \/ BodyEnd \/ BodyBreak \/ Complete
  BY <1>1, <1>2, <1>3, UploadKeepsReader DEF BytesInv
<1>4. ASSUME NEW h \in Headers, Ask(h)
      PROVE  ReadInv'
  BY <1>1, <1>4, AskReads
<1>5. CASE Fetch
  BY <1>1, <1>2, <1>5, FetchReads DEF BytesInv
<1>6. ASSUME NEW n \in 1..MaxChunk, Receive(n)
      PROVE  ReadInv'
  BY <1>1, <1>6, ReceiveReads
<1>7. CASE TakeFrame
  BY <1>1, <1>2, <1>7, TakeFrameReads DEF BytesInv
<1>8. CASE ResponseEnd
  BY <1>1, <1>2, <1>8, ResponseEndReads DEF BytesInv
<1>9. CASE UNCHANGED vars
  BY <1>1, <1>2, <1>9, StutterReads DEF BytesInv
<1>10. CASE FetchFails \/ (\E h \in Headers : AskFails(h))
  BY <1>1, <1>2, <1>10, FailReads DEF BytesInv
<1> QED
  BY <1>2, <1>3, <1>4, <1>5, <1>6, <1>7, <1>8, <1>9, <1>10 DEF BytesInv, Next

(* and it holds at first.                                                   *)
LEMMA BytesInit ==
  ASSUME Init
  PROVE  BytesInv
BY UploadInit, InitReads DEF BytesInv, UploadInv

(* In every state of every run the store, the upload and the reader are     *)
(* what BytesInv says.                                                      *)
LEMMA BytesInvariant == Spec => []BytesInv
<1>1. Init => BytesInv
  BY BytesInit
<1>2. BytesInv /\ [Next]_vars => BytesInv'
  BY BytesStep
<1> QED
  BY <1>1, <1>2, PTL DEF Spec

(* Every variable keeps its type: a segment takes no more than its limit,   *)
(* less than a frame of it is pending, and of a response no more is decoded *)
(* than has arrived and no more arrives than it has.                        *)
THEOREM TypeCorrect == Spec => []TypeOK
<1>1. BytesInv => TypeOK
  <2> SUFFICES ASSUME BytesInv PROVE TypeOK
    OBVIOUS
  <2>1. UploadInv /\ ReadInv
    BY DEF BytesInv
  <2>2. pc \in {"next", "body", "complete", "fetch", "download"} \cup Ends
    BY <2>1 DEF UploadInv, Places
  <2>3. up.taken \in 0..MaxBytes /\ Len(up.pending) < Payload
    BY <2>1 DEF UploadInv, UploadOK
  <2>4. \A k \in DOMAIN store : Size(k) \in Nat
    <3>1. DOMAIN store = 1..Len(store)
      BY <2>1 DEF UploadInv, StoreOK
    <3> QED
      BY <2>1, <3>1, SegmentIs, Limits DEF UploadInv
  <2>5. rd.base <= rd.got /\ rd.got <= rd.stop /\ out \in Seq(Byte)
    BY <2>1 DEF ReadInv
  <2>6. \A i \in DOMAIN rd.streams :
          rd.streams[i].skip \in Nat /\ rd.streams[i].remaining \in Nat
    <3>1. rd.streams \in Seq(StreamT)
      BY <2>1 DEF ReadInv, ReaderT
    <3>2. \A i \in DOMAIN rd.streams : rd.streams[i] \in StreamT
      BY <3>1
    <3> QED
      BY <3>2 DEF StreamT
  <2> QED
    BY <2>2, <2>3, <2>4, <2>5, <2>6 DEF TypeOK
<1> QED
  BY <1>1, BytesInvariant, PTL

(* Whoever asked for something has asked for a range of headers, and owes   *)
(* it to a plan that reads only what it needs.                              *)
LEMMA AskedFor ==
  ASSUME BytesInv, Asked
  PROVE  /\ header \in Headers
         /\ rd.streams # <<>> => Delivered
<1>1. ReadInv /\ pc \in Places
  BY DEF BytesInv, UploadInv
<1>2. pc \in {"next", "body", "complete"} => rd.streams = <<>>
  BY <1>1 DEF ReadInv, NoReader
<1>3. pc \in {"fetch", "download", "refused", "done", "failed"}
  BY <1>1, <1>2 DEF Asked, Places, Ends
<1>4. pc = "refused" => header \in Headers /\ rd.streams = <<>>
  BY <1>1 DEF ReadInv
<1>5. pc = "failed" => Delivered
  BY <1>1 DEF ReadInv, Asked
<1>6. pc \in {"fetch", "download", "done"} => Delivered
  BY <1>1 DEF ReadInv
<1> QED
  BY <1>3, <1>4, <1>5, <1>6 DEF Delivered

(* A read costs what it asks for: every frame that is fetched holds a byte  *)
(* that is wanted, in the segment it is fetched from, on either gateway and *)
(* for every layout of segments.                                            *)
THEOREM NoFrameIsIdle == Spec => []NoIdleFrame
<1>1. BytesInv => NoIdleFrame
  <2> SUFFICES ASSUME BytesInv, NEW i \in DOMAIN rd.streams,
                      NEW m \in DOMAIN rd.streams[i].pieces,
                      NEW f \in rd.streams[i].pieces[m].lo..(rd.streams[i].pieces[m].hi - 1)
               PROVE  LET p == rd.streams[i].pieces[m] IN
                      \E b \in (f * Payload + 1)..Least((f + 1) * Payload, Size(p.segment)) :
                        Named(header, Offset(p.segment) + b - 1)
    BY DEF NoIdleFrame
  <2> DEFINE p == rd.streams[i].pieces[m]
             o == Offset(p.segment)
             start == Chosen.start
             end == Chosen.end
  <2>1. UploadInv /\ StoreOK /\ ReadInv /\ rd \in ReaderT /\ out \in Seq(Byte)
    BY DEF BytesInv, UploadInv, ReadInv
  <2>2. rd.streams \in Seq(StreamT) /\ rd.streams # <<>>
    BY <2>1 DEF ReaderT
  <2>3. Delivered /\ header \in Headers
    BY <2>2, AskedFor DEF Asked
  <2>4. <<rd.streams, start, end>> \in Trim /\ Chosen.ok
    BY <2>3 DEF Delivered
  <2>5. PieceOK(p) /\ Needed(p, start, end)
    <3>1. i \in 1..Len(rd.streams) /\ rd.streams[i] \in StreamT
      BY <2>2
    <3>2. m \in 1..Len(rd.streams[i].pieces)
      BY <3>1 DEF StreamT
    <3> QED
      BY <2>4, <3>1, <3>2 DEF Trim, NoneIdle, Useful
  <2>6. /\ start \in Nat /\ end \in Nat /\ end <= FileSize /\ FileSize \in Nat
        /\ \A q \in 1..FileSize : Named(header, q - 1) <=> start < q /\ q <= end
    <3>1. FileSize \in Nat /\ Names(header, Chosen)
      BY <2>1, <2>3, ChosenIs
    <3> QED
      BY <2>4, <3>1 DEF Names
  <2>7. o \in Nat
    <3>1. p.segment \in 1..(Len(store) + 1)
      BY <2>1, <2>5, Layout DEF PieceOK
    <3> QED
      BY <2>1, <3>1, Layout
  <2> HIDE DEF o, start, end
  <2>8. PICK b \in (f * Payload + 1)..Least((f + 1) * Payload, Size(p.segment)) :
          start < o + b /\ o + b <= end
    BY <2>5 DEF Needed, o
  <2>9. b \in Int
    OBVIOUS
  <2>10. o + b \in 1..FileSize
    BY <2>6, <2>7, <2>8, <2>9
  <2>11. Named(header, o + (b - 1))
    <3>1. Named(header, (o + b) - 1)
      BY <2>6, <2>8, <2>10
    <3>2. (o + b) - 1 = o + (b - 1)
      BY <2>7, <2>9
    <3> QED
      BY <3>1, <3>2
  <2> QED
    <3> DEFINE S == (f * Payload + 1)..Least((f + 1) * Payload, Size(p.segment))
               Good(d) == Named(header, Offset(p.segment) + (d - 1))
    <3>1. b \in S
      BY <2>8
    <3>2. Good(b)
      BY <2>11 DEF o
    <3> HIDE DEF S, Good
    <3>3. \E d \in S : Good(d)
      BY <3>1, <3>2
    <3> QED
      BY <3>3 DEF S, Good
<1> QED
  BY <1>1, BytesInvariant, PTL
----------------------------------------------------------------------------
(* The promise of a range *)

(* What a reader is owed once it has asked: nothing if it is refused.       *)
Owed == IF Chosen.ok THEN Slice(Chosen.start, Chosen.end) ELSE <<>>

(* It is the promise's want, by the header's own words,                     *)
LEMMA OwedIs == BytesInv /\ Asked => Wanted = Owed
<1> SUFFICES ASSUME BytesInv, Asked PROVE Wanted = Owed
  OBVIOUS
<1>1. UploadInv /\ header \in Headers
  BY AskedFor DEF BytesInv
<1>2. FileSize \in Nat /\ Names(header, Chosen)
  BY <1>1, ChosenIs
<1>3. Chosen = ParseRange(header, FileSize)
  BY DEF Chosen
<1> QED
  BY <1>2, <1>3, WantedIs DEF Owed

(* after a step too.                                                        *)
LEMMA OwedNext == (BytesInv /\ Asked => Wanted = Owed)'
BY OwedIs, PTL

(* It does not change while nothing is stored or asked.                     *)
LEMMA OwedStays ==
  ASSUME store' = store, header' = header
  PROVE  Owed' = Owed
<1>1. Chosen' = Chosen /\ File' = File
  BY StoreStays, ChosenStays
<1> QED
  BY <1>1 DEF Owed, Slice

(* A prefix of it.                                                          *)
Begins(x, y) == Len(x) \in Nat /\ Len(x) <= Len(y) /\ x = SubSeq(y, 1, Len(x))

(* A range begins with what has been sent of it.                            *)
LEMMA SlicePrefix ==
  ASSUME StoreOK, FileSize \in Nat, NEW a \in Nat, NEW at \in Nat, NEW b \in Nat,
         a <= at, at <= b, b <= FileSize
  PROVE  Begins(Slice(a, at), Slice(a, b))
<1> DEFINE x == Slice(a, at)
           y == Slice(a, b)
           n == Len(x)
           v == SubSeq(y, 1, n)
           m == at - a
           l == b - a
<1>1. m \in Nat /\ l \in Nat /\ m <= l /\ at <= FileSize
      /\ \A i \in 1..m : i \in 1..l
  OBVIOUS
<1>2. x \in Seq(Byte) /\ Len(x) = m /\ \A i \in 1..m : x[i] = File[a + i]
  BY <1>1, SliceIs
<1>3. y \in Seq(Byte) /\ Len(y) = l /\ \A i \in 1..l : y[i] = File[a + i]
  <2>1. a <= b
    OBVIOUS
  <2> QED
    BY <2>1, SliceIs
<1>4. n = m
  BY <1>2
<1> HIDE DEF x, y, m, l
<1>5. v \in Seq(Byte) /\ Len(v) = m /\ \A i \in 1..m : v[i] = y[i]
  BY <1>1, <1>3, <1>4
<1> HIDE DEF v
<1>6. \A i \in 1..m : x[i] = v[i]
  BY <1>1, <1>2, <1>3, <1>5
<1>7. x = v
  BY <1>2, <1>5, <1>6, SeqEqual
<1> QED
  BY <1>1, <1>3, <1>4, <1>7 DEF Begins, x, y, v

(* What the reader sees of the state.                                       *)
Status == IF pc \in Ends THEN pc ELSE IF Asked THEN "open" ELSE "preparing"

(* The upload shows it nothing but a failure.                               *)
LEMMA UploadServes ==
  ASSUME BytesInv, Open \/ (\E n \in 1..MaxChunk : Chunk(n)) \/ BodyEnd \/ BodyBreak \/ Complete
  PROVE  Serving!Fail \/ UNCHANGED <<Wanted, out, Status>>
<1>1. /\ pc \in {"next", "body"} /\ rd' = rd /\ out' = out
      /\ pc' \in {"next", "body", "complete", "failed"}
  BY DEF Open, Chunk, BodyEnd, BodyBreak, Complete, Stop
<1>2. rd.streams = <<>>
  BY <1>1 DEF BytesInv, ReadInv, NoReader
<1>3. ~ Asked /\ ~ Asked'
  BY <1>1, <1>2 DEF Asked
<1>4. Wanted = <<>> /\ Wanted' = <<>>
  BY <1>3 DEF Wanted
<1>5. Status = "preparing"
  BY <1>1, <1>3 DEF Status, Ends
<1>6. CASE pc' = "failed"
  <2>1. Status' = "failed"
    BY <1>6 DEF Status, Ends
  <2> QED
    BY <1>1, <1>4, <1>5, <2>1 DEF Serving!Fail, Status
<1>7. CASE pc' # "failed"
  <2>1. Status' = "preparing"
    BY <1>1, <1>3, <1>7 DEF Status, Ends
  <2> QED
    BY <1>1, <1>4, <1>5, <2>1
<1> QED
  BY <1>6, <1>7

(* The request is answered with its range, or at once.                      *)
LEMMA AskServes ==
  ASSUME BytesInv, BytesInv', NEW h \in Headers, Ask(h)
  PROVE  Serving!Ask
<1> DEFINE range == ParseRange(h, FileSize)
           start == range.start
           end == range.end
<1>1. /\ pc = "complete" /\ header' = h /\ store' = store /\ out' = out
      /\ \/ ~ range.ok /\ pc' = "refused"
         \/ range.ok /\ start = end /\ pc' = "done"
         \/ range.ok /\ pc' = "fetch"
  BY DEF Ask, Stop
<1>2. UploadInv /\ StoreOK /\ rd.streams = <<>>
  BY <1>1 DEF BytesInv, UploadInv, ReadInv, NoReader
<1>3. File' = File /\ FileSize' = FileSize
  BY <1>1, StoreStays
<1>4. Chosen' = range
  BY <1>1, <1>3 DEF Chosen, ParseRange
<1>5. FileSize \in Nat /\ Names(h, range)
  <2>1. FileSize \in Nat /\ FileSize <= Top
    BY <1>2, FileFits DEF UploadInv
  <2> QED
    BY <2>1, RangeIs
<1> HIDE DEF range
<1>6. Asked' /\ ~ Asked
  BY <1>1, <1>2 DEF Asked
<1>7. Wanted' = (IF range.ok THEN Slice(start, end) ELSE <<>>)
  <2>1. Wanted' = Owed'
    BY <1>6, OwedNext
  <2>2. Owed' = IF range.ok THEN Slice(start, end) ELSE <<>>
    BY <1>3, <1>4 DEF Owed, Slice
  <2> QED
    BY <2>1, <2>2
<1>8. Wanted' \in Seq(Byte) /\ (pc' \in {"refused", "done"} => Wanted' = <<>>)
  <2>1. CASE ~ range.ok
    BY <1>7, <2>1
  <2>2. CASE range.ok
    <3>1. start \in Nat /\ end \in Nat /\ start <= end /\ end <= FileSize
      BY <1>5, <2>2 DEF Names
    <3> HIDE DEF start, end
    <3>2. Slice(start, end) \in Seq(Byte) /\ Len(Slice(start, end)) = end - start
      BY <1>2, <1>5, <3>1, SliceIs
    <3>3. start = end => Slice(start, end) = <<>>
      <4> HAVE start = end
      <4>1. Len(Slice(start, end)) = 0
        BY <3>1, <3>2
      <4> DEFINE w == Slice(start, end)
      <4>2. w \in Seq(Byte) /\ Len(w) = 0
        BY <3>2, <4>1
      <4> HIDE DEF w
      <4>3. w = <<>>
        BY <4>2
      <4> QED
        BY <4>3 DEF w
    <3> QED
      BY <1>1, <1>7, <2>2, <3>2, <3>3 DEF start, end
  <2> QED
    BY <2>1, <2>2
<1>9. Status = "preparing"
  BY <1>1, <1>6 DEF Status, Ends
<1>10. IF pc' = "fetch" THEN Status' = "open" ELSE Status' = pc'
  BY <1>1, <1>6 DEF Status, Ends
<1>11. pc' = "fetch" \/ pc' \in {"refused", "done"}
  BY <1>1
<1> QED
  BY <1>1, <1>8, <1>9, <1>10, <1>11 DEF Serving!Ask, Status
(* While a range is being read, what is owed does not change.               *)
LEMMA ReadingKeeps ==
  ASSUME BytesInv, BytesInv', store' = store, header' = header, Asked, Asked'
  PROVE  Wanted' = Wanted
<1>1. Wanted = Owed
  BY OwedIs
<1>2. Wanted' = Owed'
  BY OwedNext
<1> QED
  BY <1>1, <1>2, OwedStays

(* A request that cannot be served fails, and so does one whose next stream *)
(* cannot be opened.                                                        *)
LEMMA FailServes ==
  ASSUME BytesInv, BytesInv', FetchFails \/ (\E h \in Headers : AskFails(h))
  PROVE  Serving!Fail
<1>1. /\ rd' = rd /\ out' = out /\ store' = store /\ pc' = "failed"
      /\ \/ pc = "fetch" /\ header' = header
         \/ pc = "complete"
  BY DEF FetchFails, AskFails, Stop
<1>2. Status' = "failed" /\ Status \in {"preparing", "open"}
  BY <1>1 DEF Status, Ends
<1>3. Wanted' = Wanted
  <2>1. CASE pc = "complete"
    <3>1. rd.streams = <<>>
      BY <2>1 DEF BytesInv, ReadInv, NoReader
    <3>2. ~ Asked /\ ~ Asked'
      BY <1>1, <2>1, <3>1 DEF Asked
    <3> QED
      BY <3>2 DEF Wanted
  <2>2. CASE pc = "fetch" /\ header' = header
    <3>1. rd.streams # <<>>
      BY <2>2 DEF BytesInv, ReadInv
    <3>2. Asked /\ Asked'
      BY <1>1, <3>1 DEF Asked
    <3> QED
      BY <1>1, <2>2, <3>2, ReadingKeeps
  <2> QED
    BY <1>1, <2>1, <2>2
<1> QED
  BY <1>1, <1>2, <1>3 DEF Serving!Fail, Status

(* Bytes arrive, and are not seen until their frame is decoded.             *)
LEMMA FetchServes ==
  ASSUME BytesInv, BytesInv', Fetch \/ (\E n \in 1..MaxChunk : Receive(n))
  PROVE  UNCHANGED <<Wanted, out, Status>>
<1>1. /\ store' = store /\ header' = header /\ out' = out
      /\ pc \in {"fetch", "download"} /\ pc' \in {"fetch", "download"}
  BY DEF Fetch, Receive, Stop
<1>2. Asked /\ Asked' /\ pc \notin Ends /\ pc' \notin Ends
  BY <1>1 DEF Asked, Ends
<1>3. Wanted' = Wanted
  BY <1>1, <1>2, ReadingKeeps
<1> QED
  BY <1>1, <1>2, <1>3 DEF Status

(* A frame is decoded: some more of the range.                              *)
LEMMA TakeFrameServes ==
  ASSUME BytesInv, BytesInv', TakeFrame
  PROVE  Serving!Send \/ Serving!Fail
<1>1. /\ store' = store /\ header' = header /\ pc = "download"
      /\ \/ pc' = "failed" /\ rd' = rd /\ out' = out
         \/ pc' = "download"
  BY DEF TakeFrame, Stop
<1>2. /\ ReadInv /\ ReadInv' /\ UploadInv /\ StoreOK
  BY DEF BytesInv, UploadInv
<1>3. rd.streams # <<>> /\ Asked /\ Status = "open"
  BY <1>1, <1>2 DEF ReadInv, Asked, Status, Ends
<1>4. Asked'
  BY <1>1, <1>3 DEF Asked
<1>5. Wanted' = Wanted /\ Wanted = Owed
  BY <1>1, <1>3, <1>4, ReadingKeeps, OwedIs
<1>6. CASE pc' = "failed" /\ rd' = rd /\ out' = out
  <2>1. Status' = "failed"
    BY <1>6 DEF Status, Ends
  <2> QED
    BY <1>3, <1>5, <1>6, <2>1 DEF Serving!Fail, Status
<1>7. CASE pc' = "download"
  <2>1. Status' = "open"
    BY <1>4, <1>7 DEF Status, Ends
  <2>2. Delivered'
    BY <1>2, <1>7 DEF ReadInv
  <2>3. Chosen' = Chosen /\ File' = File
    BY <1>1, StoreStays, ChosenStays
  <2> DEFINE a == Chosen.start
             b == Chosen.end
             at == a + Len(out')
  <2>4. Chosen.ok /\ header \in Headers /\ at <= b /\ out' = Slice(a, at)
    <3>1. At' = at
      BY <2>3 DEF At
    <3>2. Chosen'.ok /\ header' \in Headers /\ At' <= Chosen'.end
      BY <2>2 DEF Delivered
    <3>3. out' = Slice(Chosen.start, At)'
      BY <2>2 DEF Delivered
    <3>4. Slice(Chosen.start, At)' = Slice(a, at)
      BY <2>3, <3>1 DEF Slice
    <3> QED
      BY <1>1, <2>3, <3>1, <3>2, <3>3, <3>4
  <2>5. a \in Nat /\ b \in Nat /\ b <= FileSize /\ FileSize \in Nat
    <3>1. FileSize \in Nat /\ Names(header, Chosen)
      BY <1>2, <2>4, ChosenIs
    <3> QED
      BY <2>4, <3>1 DEF Names
  <2>6. out' \in Seq(Byte) /\ Len(out') \in Nat
    BY <1>2 DEF ReadInv
  <2>7. at \in Nat /\ a <= at
    BY <2>5, <2>6
  <2> DEFINE n == Len(out')
  <2>8. n \in Nat /\ n <= Len(Slice(a, b)) /\ out' = SubSeq(Slice(a, b), 1, n)
    <3>1. /\ n = Len(Slice(a, at)) /\ StoreOK /\ FileSize \in Nat
          /\ a \in Nat /\ at \in Nat /\ b \in Nat /\ a <= at /\ at <= b /\ b <= FileSize
      BY <1>2, <2>4, <2>5, <2>7
    <3> HIDE DEF a, b, at, n
    <3>2. Begins(Slice(a, at), Slice(a, b))
      BY <3>1, SlicePrefix
    <3> QED
      BY <2>4, <3>1, <3>2 DEF Begins
  <2>9. Wanted = Slice(a, b)
    BY <1>5, <2>4 DEF Owed
  <2>10. Len(out) <= n /\ Len(out) \in Nat
    <3>1. Len(out) <= Len(out')
      BY <1>2, TakeFrameReads
    <3>2. out \in Seq(Byte)
      BY <1>2 DEF ReadInv
    <3> QED
      BY <3>1, <3>2
  <2>11. Len(Wanted) \in Nat /\ n <= Len(Wanted) /\ out' = SubSeq(Wanted, 1, n)
    <3> DEFINE w == Slice(a, b)
    <3>1. a <= b
      BY <2>4, <2>5, <2>7
    <3>2. w \in Seq(Byte)
      <4> HIDE DEF a, b
      <4> QED
        BY <1>2, <2>5, <3>1, SliceIs
    <3> HIDE DEF w
    <3>3. Len(w) \in Nat
      BY <3>2
    <3> QED
      BY <2>8, <2>9, <3>3 DEF w
  <2> HIDE DEF n
  <2>12. n \in Len(out)..Len(Wanted)
    BY <2>8, <2>10, <2>11
  <2> QED
    BY <1>3, <1>5, <2>1, <2>11, <2>12 DEF Serving!Send, Status
<1> QED
  BY <1>1, <1>6, <1>7

(* A response ends: the reader goes on, has everything or gives up.         *)
LEMMA ResponseEndServes ==
  ASSUME BytesInv, BytesInv', ResponseEnd
  PROVE  Serving!Succeed \/ Serving!Fail \/ UNCHANGED <<Wanted, out, Status>>
<1>1. /\ store' = store /\ header' = header /\ out' = out /\ pc = "download"
      /\ \/ pc' = "failed" /\ rd' = rd
         \/ pc' \in {"fetch", "done"}
  BY DEF ResponseEnd, Stop
<1>2. ReadInv /\ ReadInv'
  BY DEF BytesInv
<1>3. rd.streams # <<>> /\ Asked /\ Status = "open"
  BY <1>1, <1>2 DEF ReadInv, Asked, Status, Ends
<1>4. Asked'
  BY <1>1, <1>3 DEF Asked
<1>5. Wanted' = Wanted /\ Wanted = Owed
  BY <1>1, <1>3, <1>4, ReadingKeeps, OwedIs
<1>6. CASE pc' = "failed"
  <2>1. Status' = "failed"
    BY <1>6 DEF Status, Ends
  <2> QED
    BY <1>1, <1>3, <1>5, <2>1 DEF Serving!Fail, Status
<1>7. CASE pc' = "fetch"
  <2>1. Status' = "open"
    BY <1>4, <1>7 DEF Status, Ends
  <2> QED
    BY <1>1, <1>3, <1>5, <2>1
<1>8. CASE pc' = "done"
  <2>1. Status' = "done"
    BY <1>8 DEF Status, Ends
  <2>2. Delivered' /\ (At = Chosen.end)'
    BY <1>2, <1>8 DEF ReadInv
  <2>3. out' = Owed'
    <3>1. out' = Slice(Chosen.start, At)' /\ Chosen'.ok
      BY <2>2 DEF Delivered
    <3> QED
      BY <2>2, <3>1 DEF Owed, Slice
  <2>4. out = Wanted
    BY <1>1, <1>5, <2>3, OwedStays
  <2> QED
    BY <1>1, <1>3, <1>5, <2>1, <2>4 DEF Serving!Succeed, Status
<1> QED
  BY <1>1, <1>6, <1>7, <1>8

(* Every step is one of the promise's, or shows the reader nothing.         *)
LEMMA ServingStep ==
  ASSUME BytesInv, BytesInv', [Next]_vars
  PROVE  [Serving!Next]_<<Wanted, out, Status>>
<1>1. CASE Open \/ (\E n \in 1..MaxChunk : Chunk(n)) \/ BodyEnd \/ BodyBreak \/ Complete
  BY <1>1, UploadServes DEF Serving!Next
<1>2. ASSUME NEW h \in Headers, Ask(h)
      PROVE  Serving!Next
  BY <1>2, AskServes DEF Serving!Next
<1>3. CASE Fetch \/ (\E n \in 1..MaxChunk : Receive(n))
  BY <1>3, FetchServes
<1>4. CASE TakeFrame
  BY <1>4, TakeFrameServes DEF Serving!Next
<1>5. CASE ResponseEnd
  BY <1>5, ResponseEndServes DEF Serving!Next
<1>6. CASE UNCHANGED vars
  <2>1. store' = store /\ header' = header /\ out' = out /\ pc' = pc /\ rd' = rd
    BY <1>6 DEF vars
  <2>2. Asked' = Asked
    BY <2>1 DEF Asked
  <2>3. Status' = Status
    BY <2>1, <2>2 DEF Status
  <2>4. Wanted' = Wanted
    <3>1. CASE Asked
      BY <2>1, <2>2, <3>1, ReadingKeeps
    <3>2. CASE ~ Asked
      BY <2>2, <3>2 DEF Wanted
    <3> QED
      BY <3>1, <3>2
  <2> QED
    BY <2>1, <2>3, <2>4
<1>7. CASE FetchFails \/ (\E h \in Headers : AskFails(h))
  BY <1>7, FailServes DEF Serving!Next
<1> QED
  BY <1>1, <1>2, <1>3, <1>4, <1>5, <1>6, <1>7 DEF Next

(* Ranges are served to the byte by either gateway: whatever the chunks,    *)
(* segments and faults, a reader receives the bytes it asked for, in order, *)
(* never padding or other bytes, and learns of any that are missing.        *)
THEOREM RangesAreServed == Spec => ServesRange
<1>1. Init => Serving!Init
  <2> SUFFICES ASSUME Init PROVE Serving!Init
    OBVIOUS
  <2>1. pc = "next" /\ rd.streams = <<>> /\ out = <<>>
    BY DEF Init, NoReader
  <2>2. ~ Asked
    BY <2>1 DEF Asked
  <2> QED
    BY <2>1, <2>2 DEF Serving!Init, Ends
<1>2. BytesInv /\ BytesInv' /\ [Next]_vars => [Serving!Next]_<<Wanted, out, Status>>
  BY ServingStep
<1> QED
  BY <1>1, <1>2, BytesInvariant, PTL DEF Spec, ServesRange, Serving!Spec, Status
=============================================================================
