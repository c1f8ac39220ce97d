-------------------------- MODULE S3GatewayProofs --------------------------
(***************************************************************************)
(* Proofs about S3Gateway, for every set of keys, uploads, requests and    *)
(* access keys, every number of segments, every grace, whatever overlaps   *)
(* or fails, and however long a request lasts.                             *)
(***************************************************************************)
EXTENDS S3Gateway, SumFacts

----------------------------------------------------------------------------
(* Sequences and references *)

(* What a sequence is made of. *)
LEMMA InToSet ==
  ASSUME NEW S, NEW q \in Seq(S)
  PROVE  /\ ToSet(q) \subseteq S
         /\ \A x : x \in ToSet(q) <=> \E i \in 1..Len(q) : q[i] = x
<1>1. DOMAIN q = 1..Len(q)
  OBVIOUS
<1>2. \A x : x \in ToSet(q) <=> \E i \in 1..Len(q) : q[i] = x
  BY <1>1 DEF ToSet
<1> QED
  BY <1>2

(* One more segment. *)
LEMMA ToSetAppend ==
  ASSUME NEW S, NEW q \in Seq(S), NEW x \in S
  PROVE  Append(q, x) \in Seq(S) /\ ToSet(Append(q, x)) = ToSet(q) \cup {x}
<1>1. Append(q, x) \in Seq(S) /\ Len(Append(q, x)) = Len(q) + 1
  OBVIOUS
<1>2. ASSUME NEW y
      PROVE  y \in ToSet(Append(q, x)) <=> y \in ToSet(q) \/ y = x
  <2>1. y \in ToSet(Append(q, x)) <=> \E i \in 1..(Len(q) + 1) : Append(q, x)[i] = y
    BY <1>1, InToSet
  <2>2. y \in ToSet(q) <=> \E i \in 1..Len(q) : q[i] = y
    BY InToSet
  <2>3. /\ \A i \in 1..Len(q) : Append(q, x)[i] = q[i]
        /\ Append(q, x)[Len(q) + 1] = x
    OBVIOUS
  <2>4. \A i : i \in 1..(Len(q) + 1) <=> i \in 1..Len(q) \/ i = Len(q) + 1
    OBVIOUS
  <2> QED
    BY <2>1, <2>2, <2>3, <2>4
<1> QED
  BY <1>1, <1>2

(* The segments of two parts, one after the other. *)
LEMMA ToSetConcat ==
  ASSUME NEW S, NEW p \in Seq(S), NEW q \in Seq(S)
  PROVE  p \o q \in Seq(S) /\ ToSet(p \o q) \subseteq ToSet(p) \cup ToSet(q)
<1>1. p \o q \in Seq(S) /\ Len(p \o q) = Len(p) + Len(q)
  OBVIOUS
<1>2. ASSUME NEW y \in ToSet(p \o q)
      PROVE  y \in ToSet(p) \/ y \in ToSet(q)
  <2>1. PICK i \in 1..(Len(p) + Len(q)) : (p \o q)[i] = y
    BY <1>1, InToSet
  <2>2. CASE i <= Len(p)
    <3>1. i \in 1..Len(p) /\ p[i] = y
      BY <2>1, <2>2
    <3> QED
      BY <3>1, InToSet
  <2>3. CASE i > Len(p)
    <3>1. (i - Len(p)) \in 1..Len(q) /\ q[i - Len(p)] = y
      BY <2>1, <2>3
    <3> QED
      BY <3>1, InToSet
  <2> QED
    BY <2>1, <2>2, <2>3
<1> QED
  BY <1>1, <1>2

(* The empty sequence has no elements. *)
LEMMA ToSetEmpty == ToSet(<<>>) = {}
<1>1. DOMAIN <<>> = {}
  OBVIOUS
<1> QED
  BY <1>1 DEF ToSet

(* A segment is referenced by an object or by a part. *)
LEMMA ReferencedBy ==
  ASSUME NEW objs, NEW ups, NEW s
  PROVE  s \in References(objs, ups) <=>
           \/ \E k \in Key : s \in ToSet(objs[k].segments)
           \/ \E u \in Upload : s \in PartSegments(ups, u)
BY DEF References

----------------------------------------------------------------------------
(* The inductive invariant *)

Fields == {"pc", "job", "segments", "size", "source", "left", "after", "seen", "stay"}
Places == {"new", "sending", "recording", "looking", "listing", "reading", "writing", "paging",
           "checking", "deciding"} \cup Ended

Records == DOMAIN req = Request /\ \A q \in Request : DOMAIN req[q] = Fields

Coming(r) == <<r, Len(req[r].segments) + 1>>

Typed(r) ==
  /\ DOMAIN req[r] = Fields
  /\ req[r].pc \in Places
  /\ req[r].segments \in Seq(Segment)
  /\ req[r].pc # "new" => req[r].job \in Jobs[r]

(* Requests that have not begun to read or to write hold nothing. *)
Bare(r) ==
  req[r].pc \in {"new", "looking", "paging", "checking", "deciding"} => req[r].segments = <<>>

(* A body is sent segment by segment. *)
Sending(r) ==
  req[r].pc \in {"sending", "recording"} =>
    /\ Job(r).op \in {"put", "part"}
    /\ Len(req[r].segments) <= Job(r).n
    /\ req[r].pc = "recording" => Len(req[r].segments) < Job(r).n /\ Coming(r) \in stored

(* What a request has not recorded yet has no row. *)
Unrecorded(r) ==
  \A n \in 1..MaxBody :
    (\/ req[r].pc = "new"
     \/ req[r].pc \in {"sending", "recording"} /\ n > Len(req[r].segments))
    => age[<<r, n>>] = NoRow

(* What a request holds was in use, or recorded, since it arrived: unless it  *)
(* has strayed it is there, and no orphan for longer than the grace.          *)
Holds(r) ==
  Busy(r) => \A s \in Hand(r) \ strayed : s \in stored /\ age[s] # NoRow /\ age[s] <= Grace

RequestOK(r) ==
  /\ Typed(r)
  /\ Bare(r)
  /\ Sending(r)
  /\ Unrecorded(r)
  /\ Holds(r)

(* The shape of the variables. *)
Shape ==
  /\ DOMAIN req = Request /\ DOMAIN objects = Key /\ DOMAIN uploads = Upload
  /\ \A k \in Key : objects[k].segments \in Seq(Segment)
  /\ \A u \in Upload :
       /\ DOMAIN uploads[u] = {"state", "parts"}
       /\ \A i \in DOMAIN uploads[u].parts : uploads[u].parts[i].segments \in Seq(Segment)
  /\ age \in [Segment -> NoRow..Ancient]
  /\ stored \subseteq Segment
  /\ DOMAIN gc = {"pc", "todo", "hand"}

(* What is referenced has a row, and but for what strayed it is stored and no orphan. *)
Living ==
  \A s \in References(objects, uploads) :
    s \in Segment /\ age[s] # NoRow /\ (s \in strayed \/ (s \in stored /\ age[s] = Live))

(* What the collector is about to delete is an orphan for longer than the grace: *)
(* nobody needs it, unless it strayed.                                           *)
Collecting ==
  /\ \A s \in gc.todo \cup gc.hand :
       s \in Segment /\ age[s] # NoRow /\ (s \in strayed \/ age[s] > Grace)
  /\ gc.todo \cap gc.hand = {} /\ gc.hand \cap stored = {}
  /\ gc.pc # "forgetting" => gc.hand = {}

Unmarked == \A s \in Segment : age[s] = Live => s \in References(objects, uploads) \cup leaked

SegmentsOK ==
  /\ Living
  /\ Collecting
  /\ Unmarked
  /\ NoLeak

IInv ==
  /\ Shape
  /\ \A r \in Request : RequestOK(r)
  /\ SegmentsOK

----------------------------------------------------------------------------
(* Requests that a step leaves alone *)

Same(q) ==
  /\ DOMAIN req'[q] = Fields
  /\ req'[q].pc = req[q].pc /\ req'[q].job = req[q].job
  /\ req'[q].segments = req[q].segments

(* A step that does to the segments of q only what anybody may do to them. *)
Tame(q) ==
  /\ strayed \subseteq strayed'
  /\ \A s \in Segment :
       /\ s[1] = q /\ age[s] = NoRow => age'[s] = NoRow /\ (s \in stored => s \in stored')
       /\ s \notin strayed' /\ s \in stored /\ age[s] # NoRow /\ age[s] <= Grace =>
            s \in stored' /\ age'[s] # NoRow /\ age'[s] \in {age[s], Live, 0}

(* Ages are numbers. *)
LEMMA AgeInt ==
  ASSUME Shape, NEW s \in Segment
  PROVE  age[s] \in Int /\ age[s] >= NoRow /\ age[s] <= Ancient
<1>1. age[s] \in NoRow..Ancient
  BY DEF Shape
<1>2. Grace \in Nat
  BY S3Assumption
<1> QED
  BY <1>1, <1>2 DEF NoRow, Ancient

(* The segment that a request is sending has no row yet. *)
LEMMA ComingUnrecorded ==
  ASSUME IInv, NEW q \in Request, req[q].pc = "recording"
  PROVE  /\ Coming(q) \in Segment /\ Coming(q)[1] = q /\ Coming(q)[2] = Len(req[q].segments) + 1
         /\ age[Coming(q)] = NoRow /\ Coming(q) \in stored
<1>1. RequestOK(q)
  BY DEF IInv
<1>2. /\ Job(q).op \in {"put", "part"} /\ Len(req[q].segments) < Job(q).n
      /\ Coming(q) \in stored /\ Job(q) \in Jobs[q] /\ Len(req[q].segments) \in Nat
  BY <1>1 DEF RequestOK, Sending, Typed, Job
<1>3. Job(q).n \in 0..MaxBody /\ MaxBody \in Nat
  BY <1>2, S3Assumption DEF WellFormed
<1>4. (Len(req[q].segments) + 1) \in 1..MaxBody
  BY <1>2, <1>3
<1>5. age[<<q, Len(req[q].segments) + 1>>] = NoRow
  BY <1>1, <1>4 DEF RequestOK, Unrecorded
<1> QED
  BY <1>2, <1>4, <1>5 DEF Coming, Segment

(* A request that a tame step leaves alone keeps what is true of it. *)
LEMMA Untouched ==
  ASSUME IInv, NEW q \in Request, Same(q), Tame(q)
  PROVE  RequestOK(q)'
<1>1. RequestOK(q) /\ Grace \in Nat
  BY S3Assumption DEF IInv
<1>2. Job(q)' = Job(q) /\ Hand(q)' = Hand(q) /\ Coming(q)' = Coming(q) /\ Busy(q)' = Busy(q)
  BY DEF Same, Job, Hand, Coming, Busy
<1>3. Typed(q)' /\ Bare(q)'
  BY <1>1 DEF RequestOK, Typed, Bare, Same
<1>4. Sending(q)'
  BY <1>1, <1>2, ComingUnrecorded DEF RequestOK, Sending, Same, Tame
<1>5. Unrecorded(q)'
  <2> SUFFICES ASSUME NEW n \in 1..MaxBody,
                      \/ req[q].pc = "new"
                      \/ req[q].pc \in {"sending", "recording"} /\ n > Len(req[q].segments)
               PROVE  age'[<<q, n>>] = NoRow
    BY DEF Unrecorded, Same
  <2>1. age[<<q, n>>] = NoRow
    BY <1>1 DEF RequestOK, Unrecorded
  <2>2. <<q, n>> \in Segment /\ <<q, n>>[1] = q
    BY DEF Segment
  <2> QED
    BY <2>1, <2>2 DEF Tame
<1>6. Holds(q)'
  <2> SUFFICES ASSUME Busy(q), NEW s \in Hand(q) \ strayed'
               PROVE  s \in stored' /\ age'[s] # NoRow /\ age'[s] <= Grace
    BY <1>2 DEF Holds
  <2>1. s \in stored /\ age[s] # NoRow /\ age[s] <= Grace
    BY <1>1 DEF RequestOK, Holds, Tame
  <2>2. s \in Segment
    BY <1>1, InToSet DEF RequestOK, Typed, Hand
  <2> QED
    BY <1>1, <2>1, <2>2 DEF Tame, Live
<1> QED
  BY <1>3, <1>4, <1>5, <1>6 DEF RequestOK

(* A request that is over owes nothing. *)
LEMMA Finished ==
  ASSUME NEW r \in Request, Typed(r)', req'[r].pc \in Ended
  PROVE  RequestOK(r)'
BY DEF RequestOK, Bare, Sending, Unrecorded, Holds, Busy, Ended

----------------------------------------------------------------------------
(* Steps of a request that change nothing but the request *)

(* What End does to the requests. *)
LEMMA EndStep ==
  ASSUME IInv, NEW r \in Request, NEW p \in Places, End(r, p), req[r].pc # "new", p # "new"
  PROVE  /\ DOMAIN req' = Request
         /\ \A q \in Request \ {r} : Same(q)
         /\ Typed(r)' /\ req'[r].pc = p /\ req'[r].job = req[r].job
         /\ req'[r].segments = req[r].segments
<1>1. DOMAIN req = Request /\ \A q \in Request : Typed(q)
  BY DEF IInv, Shape, RequestOK
<1>2. req' = [req EXCEPT ![r].pc = p]
  BY DEF End
<1>3. \A q \in Request \ {r} : Same(q)
  BY <1>1, <1>2 DEF Same, Typed
<1>4. /\ DOMAIN req'[r] = Fields /\ req'[r].pc = p /\ req'[r].job = req[r].job
      /\ req'[r].segments = req[r].segments
  BY <1>1, <1>2 DEF Typed, Fields
<1>5. Typed(r)'
  BY <1>1, <1>4 DEF Typed
<1> QED
  BY <1>1, <1>2, <1>3, <1>4, <1>5

(* A step that changes one request, which was not recording, and nothing else. *)
LEMMA RequestStep ==
  ASSUME IInv, NEW r \in Request,
         UNCHANGED <<objects, uploads, age, stored, gc, leaked, strayed>>,
         DOMAIN req' = Request, \A q \in Request \ {r} : Same(q),
         RequestOK(r)', req[r].pc # "recording"
  PROVE  IInv'
<1>1. Shape'
  BY DEF IInv, Shape
<1>2. ASSUME NEW q \in Request
      PROVE  RequestOK(q)'
  <2>1. CASE q = r
    BY <2>1
  <2>2. CASE q # r
    BY <2>2, Untouched DEF Tame
  <2> QED
    BY <2>1, <2>2
<1>3. NoLeak'
  <2> SUFFICES ASSUME NEW s \in stored \ leaked, age[s] = NoRow
               PROVE  req'[s[1]].pc = "recording" /\ s[2] = Len(req'[s[1]].segments) + 1
    BY DEF NoLeak
  <2>1. s[1] \in Request
    BY DEF IInv, Shape, Segment
  <2>2. req[s[1]].pc = "recording" /\ s[2] = Len(req[s[1]].segments) + 1
    BY DEF IInv, SegmentsOK, NoLeak
  <2> QED
    BY <2>1, <2>2 DEF Same
<1>4. Living' /\ Collecting' /\ Unmarked'
  BY DEF IInv, SegmentsOK, Living, Collecting, Unmarked
<1> QED
  BY <1>1, <1>2, <1>3, <1>4 DEF IInv, SegmentsOK

(* A request arrives. *)
LEMMA StartStep ==
  ASSUME IInv, NEW r \in Request, NEW j \in Jobs[r], Start(r, j)
  PROVE  IInv'
<1> DEFINE p == req'[r].pc
<1>1. DOMAIN req = Request /\ RequestOK(r) /\ \A q \in Request : Typed(q)
  BY DEF IInv, Shape, RequestOK
<1>2. WellFormed(j) /\ MaxBody \in Nat
  BY S3Assumption
<1>3. /\ DOMAIN req' = Request /\ \A q \in Request \ {r} : Same(q)
      /\ DOMAIN req'[r] = Fields /\ req'[r].job = j
      /\ req'[r].segments = req[r].segments
  BY <1>1 DEF Start, Same, Typed, Fields
<1>4. p \in {"refused", "sending", "looking", "paging", "checking", "writing"}
      /\ (p = "sending" => j.op \in {"put", "part"})
  BY <1>1, <1>2 DEF Start, Typed, Fields, WellFormed, Ops, Reading, Making
<1>5. req[r].pc = "new" /\ req[r].segments = <<>>
  BY <1>1 DEF Start, RequestOK, Bare
<1>6. Hand(r)' = {} /\ Job(r)' = j /\ Len(req'[r].segments) = 0
  BY <1>3, <1>5, ToSetEmpty DEF Hand, Job
<1>7. Typed(r)'
  BY <1>1, <1>3, <1>4 DEF RequestOK, Typed, Places, Ended
<1>8. Bare(r)' /\ Holds(r)'
  BY <1>3, <1>5, <1>6 DEF Bare, Holds
<1>9. Sending(r)'
  BY <1>2, <1>4, <1>6 DEF Sending, WellFormed
<1>10. Unrecorded(r)'
  BY <1>1, <1>5 DEF RequestOK, Unrecorded, Start
<1> QED
  BY <1>3, <1>5, <1>7, <1>8, <1>9, <1>10, RequestStep DEF Start, RequestOK

(* A request that ends without another trace. *)
LEMMA QuietEnd ==
  ASSUME IInv, NEW r \in Request, NEW p \in Ended, End(r, p),
         req[r].pc \notin {"new", "recording"},
         UNCHANGED <<objects, uploads, age, stored, gc, leaked, strayed>>
  PROVE  IInv'
<1>1. p \in Places /\ p # "new"
  BY DEF Places, Ended
<1> QED
  BY <1>1, EndStep, Finished, RequestStep

(* A request that has read something, which is in use: it holds it from now on. *)
LEMMA ReadStep ==
  ASSUME IInv, NEW r \in Request, Busy(r),
         UNCHANGED <<objects, uploads, age, stored, gc, leaked, strayed>>,
         DOMAIN req' = Request, \A q \in Request \ {r} : Same(q),
         Typed(r)', Bare(r)',
         req'[r].job = req[r].job,
         req[r].pc # "recording", req'[r].pc \notin {"sending", "recording", "new"},
         Hand(r)' \subseteq Hand(r) \cup References(objects, uploads)
  PROVE  IInv'
<1>1. RequestOK(r) /\ Living
  BY DEF IInv, SegmentsOK
<1>2. Sending(r)' /\ Unrecorded(r)'
  BY DEF Sending, Unrecorded
<1>3. Holds(r)'
  <2> SUFFICES ASSUME NEW s \in Hand(r)' \ strayed
               PROVE  s \in stored /\ age[s] # NoRow /\ age[s] <= Grace
    BY DEF Holds
  <2>1. CASE s \in Hand(r)
    BY <1>1, <2>1 DEF RequestOK, Holds
  <2>2. CASE s \in References(objects, uploads)
    BY <1>1, <2>2, S3Assumption DEF Living, Live, NoRow
  <2> QED
    BY <2>1, <2>2
<1> QED
  BY <1>2, <1>3, RequestStep DEF RequestOK

(* get_object, as the queries of a copy or of a download. *)
LEMMA ObjectReadStep ==
  ASSUME IInv, NEW r \in Request, LookAtObject(r) \/ ListObject(r)
  PROVE  IInv'
<1>1. /\ DOMAIN req = Request /\ RequestOK(r) /\ \A q \in Request : Typed(q)
      /\ \A k \in Key : objects[k].segments \in Seq(Segment)
  BY DEF IInv, Shape, RequestOK
<1>2. /\ UNCHANGED <<objects, uploads, age, stored, gc, leaked, strayed>> /\ Busy(r)
      /\ Job(r).op \in {"copy", "get"} /\ req[r].pc \in {"looking", "listing"}
  BY DEF LookAtObject, ListObject, rights, history, Busy, Ended
<1>3. CASE LookAtObject(r)
  <2>1. /\ DOMAIN req' = Request /\ \A q \in Request \ {r} : Same(q)
        /\ DOMAIN req'[r] = Fields /\ req'[r].pc \in {"refused", "listing"}
        /\ req'[r].job = req[r].job
        /\ req'[r].segments = req[r].segments
    BY <1>1, <1>3 DEF LookAtObject, Same, Typed, Fields
  <2>2. Typed(r)' /\ Bare(r)' /\ Hand(r)' = Hand(r)
    BY <1>1, <1>2, <2>1 DEF Typed, Bare, Job, Hand, Places, Ended
  <2> QED
    BY <1>2, <2>1, <2>2, ReadStep
<1>4. CASE ListObject(r)
  <2>1. PICK segments :
          /\ segments = <<>> \/ \E k \in Key : segments = objects[k].segments
          /\ req' = [req EXCEPT ![r].pc = IF Job(r).op = "get" THEN "reading" ELSE "writing",
                                ![r].segments = segments]
    BY <1>4 DEF ListObject
  <2>2. /\ DOMAIN req' = Request /\ \A q \in Request \ {r} : Same(q)
        /\ DOMAIN req'[r] = Fields /\ req'[r].pc \in {"reading", "writing"}
        /\ req'[r].job = req[r].job
        /\ req'[r].segments = segments
    BY <1>1, <2>1 DEF Same, Typed, Fields
  <2>3. segments \in Seq(Segment)
    <3>1. <<>> \in Seq(Segment)
      OBVIOUS
    <3> QED
      BY <1>1, <2>1, <3>1
  <2>4. Hand(r)' \subseteq References(objects, uploads)
    BY <2>1, <2>2, ToSetEmpty, ReferencedBy DEF Hand
  <2>5. Typed(r)' /\ Bare(r)'
    BY <1>1, <1>2, <2>2, <2>3 DEF Typed, Bare, Job, Places, RequestOK
  <2> QED
    BY <1>2, <2>2, <2>4, <2>5, ReadStep
<1> QED
  BY <1>3, <1>4

(* parts, as the queries of a completion. *)
LEMMA PartsReadStep ==
  ASSUME IInv, NEW r \in Request, LookAtParts(r) \/ ListPart(r)
  PROVE  IInv'
<1>1. /\ DOMAIN req = Request /\ RequestOK(r) /\ \A q \in Request : Typed(q)
  BY DEF IInv, Shape, RequestOK
<1>2. /\ UNCHANGED <<objects, uploads, age, stored, gc, leaked, strayed>> /\ Busy(r)
      /\ Job(r).op = "complete" /\ req[r].pc \in {"looking", "listing"}
  BY DEF LookAtParts, ListPart, rights, history, Busy, Ended
<1>3. Job(r).upload \in Upload
  BY <1>1, <1>2, S3Assumption DEF RequestOK, Typed, WellFormed, Job, MultipartOps
<1>4. CASE LookAtParts(r)
  <2>1. /\ DOMAIN req' = Request /\ \A q \in Request \ {r} : Same(q)
        /\ DOMAIN req'[r] = Fields /\ req'[r].pc \in {"refused", "listing"}
        /\ req'[r].job = req[r].job
        /\ req'[r].segments = req[r].segments
    <3>1. PICK pc, size :
            /\ req' = [req EXCEPT ![r].pc = pc, ![r].left = Job(r).numbers, ![r].size = size]
            /\ pc \in {"listing", "refused"}
      BY <1>4 DEF LookAtParts
    <3> QED
      BY <1>1, <3>1 DEF Same, Typed, Fields
  <2>2. Typed(r)' /\ Bare(r)' /\ Hand(r)' = Hand(r)
    BY <1>1, <1>2, <2>1 DEF RequestOK, Typed, Bare, Job, Hand, Places, Ended
  <2> QED
    BY <1>2, <2>1, <2>2, ReadStep
<1>5. CASE ListPart(r)
  <2> DEFINE parts == uploads[Job(r).upload].parts
  <2>1. PICK found :
          /\ found = <<>> \/ \E i \in DOMAIN parts : found = parts[i].segments
          /\ req'[r].segments = req[r].segments \o found
    BY <1>1, <1>5 DEF ListPart, Typed, Fields
  <2>2. /\ DOMAIN req' = Request /\ \A q \in Request \ {r} : Same(q)
        /\ DOMAIN req'[r] = Fields /\ req'[r].pc \in {"listing", "writing"}
        /\ req'[r].job = req[r].job
    BY <1>1, <1>2, <1>5 DEF ListPart, Same, Typed, Fields
  <2>3. found \in Seq(Segment) /\ ToSet(found) \subseteq PartSegments(uploads, Job(r).upload)
    <3>1. <<>> \in Seq(Segment)
      OBVIOUS
    <3>2. \A i \in DOMAIN parts : parts[i].segments \in Seq(Segment)
      BY <1>3 DEF IInv, Shape
    <3>3. \A i \in DOMAIN parts :
            ToSet(parts[i].segments) \subseteq PartSegments(uploads, Job(r).upload)
      BY DEF PartSegments
    <3> QED
      BY <2>1, <3>1, <3>2, <3>3, ToSetEmpty
  <2>4. /\ req'[r].segments \in Seq(Segment)
        /\ Hand(r)' \subseteq Hand(r) \cup PartSegments(uploads, Job(r).upload)
    BY <1>1, <2>1, <2>3, ToSetConcat DEF RequestOK, Typed, Hand
  <2>6. Typed(r)' /\ Bare(r)'
    BY <1>1, <1>2, <2>2, <2>4 DEF RequestOK, Typed, Bare, Job, Places
  <2>7. Hand(r)' \subseteq Hand(r) \cup References(objects, uploads)
    BY <1>3, <2>4, ReferencedBy
  <2> QED
    BY <1>2, <2>2, <2>6, <2>7, ReadStep
<1> QED
  BY <1>4, <1>5

(* Listings, and the check that precedes making or dropping the bucket. *)
LEMMA PageStep ==
  ASSUME IInv, NEW r \in Request, Page(r) \/ CheckBucket(r)
  PROVE  IInv'
<1>1. /\ DOMAIN req = Request /\ RequestOK(r) /\ \A q \in Request : Typed(q)
  BY DEF IInv, Shape, RequestOK
<1>2. /\ UNCHANGED <<objects, uploads, age, stored, gc, leaked, strayed>> /\ Busy(r)
      /\ req[r].pc \in {"paging", "checking"} /\ req[r].segments = <<>>
  BY <1>1 DEF Page, CheckBucket, rights, history, Busy, Ended, RequestOK, Bare
<1>3. /\ DOMAIN req' = Request /\ \A q \in Request \ {r} : Same(q)
      /\ DOMAIN req'[r] = Fields
      /\ req'[r].pc \in {"paging", "done", "deciding", "refused"}
      /\ req'[r].job = req[r].job /\ req'[r].segments = <<>>
  <2>1. CASE Page(r)
    BY <1>1, <1>2, <2>1 DEF Page, Same, Typed, Fields
  <2>2. CASE CheckBucket(r)
    BY <1>1, <1>2, <2>2 DEF CheckBucket, End, Same, Typed, Fields
  <2> QED
    BY <2>1, <2>2
<1>4. Hand(r)' = {}
  BY <1>3, ToSetEmpty DEF Hand
<1>5. Typed(r)'
  BY <1>1, <1>2, <1>3 DEF RequestOK, Typed, Places, Ended
<1>6. /\ Bare(r)' /\ Holds(r)' /\ Sending(r)' /\ Unrecorded(r)'
  BY <1>3, <1>4 DEF Bare, Holds, Sending, Unrecorded
<1> QED
  BY <1>2, <1>3, <1>5, <1>6, RequestStep DEF RequestOK

(* Requests that end. *)
LEMMA RefuseStep ==
  ASSUME IInv, NEW r \in Request, Refuse(r) \/ Deliver(r) \/ MakeBucket(r)
  PROVE  IInv'
<1>1. /\ UNCHANGED <<objects, uploads, age, stored, gc, leaked, strayed>>
      /\ End(r, "refused") \/ End(r, "done")
      /\ req[r].pc \notin {"new", "recording"}
  BY DEF Refuse, Deliver, MakeBucket, rights, history, Sent
<1> QED
  BY <1>1, QuietEnd DEF Ended

----------------------------------------------------------------------------
(* Steps that send a body *)

(* The segment that a request is about to send has no row either. *)
LEMMA NextUnrecorded ==
  ASSUME IInv, NEW r \in Request, req[r].pc = "sending", More(r)
  PROVE  /\ Coming(r) \in Segment /\ Coming(r)[1] = r /\ Coming(r)[2] = Len(req[r].segments) + 1
         /\ age[Coming(r)] = NoRow
<1>1. RequestOK(r)
  BY DEF IInv
<1>2. /\ Job(r).op \in {"put", "part"} /\ Len(req[r].segments) < Job(r).n
      /\ Job(r) \in Jobs[r] /\ Len(req[r].segments) \in Nat
  BY <1>1 DEF RequestOK, Sending, Typed, Job, More
<1>3. Job(r).n \in 0..MaxBody /\ MaxBody \in Nat
  BY <1>2, S3Assumption DEF WellFormed
<1>4. (Len(req[r].segments) + 1) \in 1..MaxBody
  BY <1>2, <1>3
<1>5. age[<<r, Len(req[r].segments) + 1>>] = NoRow
  BY <1>1, <1>4 DEF RequestOK, Unrecorded
<1> QED
  BY <1>4, <1>5 DEF Coming, Segment

(* Segments without a row are neither referenced nor listed by the collector. *)
LEMMA NoRowUnused ==
  ASSUME IInv, NEW s \in Segment, age[s] = NoRow
  PROVE  s \notin References(objects, uploads) /\ s \notin gc.todo \cup gc.hand
<1>1. Living /\ Collecting /\ Grace \in Nat
  BY S3Assumption DEF IInv, SegmentsOK
<1> QED
  BY <1>1 DEF Living, Collecting, Live, NoRow

(* A request that fails while it sends: what it has just sent is deleted again,  *)
(* or counts as leaked.                                                          *)
LEMMA BrokenStep ==
  ASSUME IInv, NEW r \in Request, End(r, "refused"), req[r].pc # "new",
         UNCHANGED <<objects, uploads, age, gc, strayed>>, leaked \subseteq leaked',
         \/ stored' = stored
         \/ /\ Coming(r) \in Segment /\ Coming(r)[1] = r /\ age[Coming(r)] = NoRow
            /\ \/ stored' = stored \cup {Coming(r)} /\ Coming(r) \in leaked'
               \/ stored' = stored \ {Coming(r)},
         req[r].pc = "recording" => Coming(r) \in leaked' \/ Coming(r) \notin stored'
  PROVE  IInv'
<1>1. Shape /\ Living /\ Collecting /\ Unmarked /\ NoLeak
  BY DEF IInv, SegmentsOK
<1>2. /\ DOMAIN req' = Request /\ \A q \in Request \ {r} : Same(q)
      /\ Typed(r)' /\ req'[r].pc = "refused" /\ req'[r].segments = req[r].segments
  BY EndStep DEF Places, Ended
<1>3. Shape'
  BY <1>1, <1>2 DEF Shape
<1>4. ASSUME NEW q \in Request
      PROVE  RequestOK(q)'
  <2>1. CASE q = r
    BY <1>2, <2>1, Finished DEF Ended
  <2>2. CASE q # r
    <3>1. Tame(q)
      BY <2>2 DEF Tame
    <3> QED
      BY <1>2, <2>2, <3>1, Untouched
  <2> QED
    BY <2>1, <2>2
<1>5. Living' /\ Collecting' /\ Unmarked'
  <2>1. Living'
    BY <1>1, NoRowUnused DEF Living
  <2>2. gc.hand \cap stored' = {}
    BY <1>1, NoRowUnused DEF Collecting
  <2> QED
    BY <1>1, <2>1, <2>2 DEF Collecting, Unmarked
<1>6. NoLeak'
  <2> SUFFICES ASSUME NEW s \in stored' \ leaked', age[s] = NoRow
               PROVE  req'[s[1]].pc = "recording" /\ s[2] = Len(req'[s[1]].segments) + 1
    BY DEF NoLeak
  <2>1. s \in stored \ leaked
    OBVIOUS
  <2>2. /\ s[1] \in Request /\ s = <<s[1], s[2]>>
        /\ req[s[1]].pc = "recording" /\ s[2] = Len(req[s[1]].segments) + 1
    BY <1>1, <2>1 DEF NoLeak, Shape, Segment
  <2>3. s[1] # r
    BY <2>2 DEF Coming
  <2> QED
    BY <1>2, <2>2, <2>3 DEF Same
<1> QED
  BY <1>3, <1>4, <1>5, <1>6 DEF IInv, SegmentsOK

(* The store fails, the catalog fails, or the handler is dropped. *)
LEMMA FailStep ==
  ASSUME IInv, NEW r \in Request, FailSend(r) \/ FailRecord(r) \/ Lose(r)
  PROVE  IInv'
<1>1. UNCHANGED <<objects, uploads, age, gc, strayed>> /\ End(r, "refused") /\ req[r].pc # "new"
  BY DEF FailSend, FailRecord, Lose, rights, history, Busy
<1>2. CASE FailSend(r)
  BY <1>1, <1>2, BrokenStep, NextUnrecorded DEF FailSend, Coming
<1>3. CASE FailRecord(r)
  BY <1>1, <1>3, BrokenStep, ComingUnrecorded DEF FailRecord, Coming
<1>4. CASE Lose(r)
  BY <1>1, <1>4, BrokenStep, ComingUnrecorded DEF Lose, Coming
<1> QED
  BY <1>2, <1>3, <1>4

(* A segment goes to the store. *)
LEMMA SendStep ==
  ASSUME IInv, NEW r \in Request, Send(r)
  PROVE  IInv'
<1>1. Shape /\ Living /\ Collecting /\ Unmarked /\ NoLeak /\ RequestOK(r)
  BY DEF IInv, SegmentsOK
<1>2. /\ stored' = stored \cup {Coming(r)} /\ req[r].pc = "sending"
      /\ UNCHANGED <<objects, uploads, age, gc, leaked, strayed>>
      /\ Coming(r) \in Segment /\ age[Coming(r)] = NoRow
      /\ Coming(r) = <<r, Len(req[r].segments) + 1>>
  BY NextUnrecorded DEF Send, Coming, rights, history
<1>3. /\ DOMAIN req' = Request /\ \A q \in Request \ {r} : Same(q)
      /\ Typed(r)' /\ req'[r].pc = "recording" /\ req'[r].segments = req[r].segments
      /\ req'[r].job = req[r].job
  BY <1>2, EndStep DEF Send, Places, Ended
<1>4. Shape'
  BY <1>1, <1>2, <1>3 DEF Shape
<1>5. RequestOK(r)'
  <2>1. Job(r)' = Job(r) /\ Hand(r)' = Hand(r) /\ Coming(r)' = Coming(r)
    BY <1>3 DEF Job, Hand, Coming
  <2>2. Sending(r)'
    BY <1>1, <1>2, <1>3, <2>1 DEF RequestOK, Sending, Send, More
  <2>3. Bare(r)'
    BY <1>3 DEF Bare
  <2>4. Unrecorded(r)' /\ Holds(r)'
    BY <1>1, <1>2, <1>3, <2>1 DEF RequestOK, Unrecorded, Holds, Busy, Ended
  <2> QED
    BY <1>3, <2>2, <2>3, <2>4 DEF RequestOK
<1>6. ASSUME NEW q \in Request \ {r}
      PROVE  RequestOK(q)'
  BY <1>2, <1>3, Untouched DEF Tame
<1>7. Living' /\ Collecting' /\ Unmarked'
  BY <1>1, <1>2, NoRowUnused DEF Living, Collecting, Unmarked
<1>8. NoLeak'
  <2> SUFFICES ASSUME NEW s \in stored' \ leaked, age[s] = NoRow
               PROVE  req'[s[1]].pc = "recording" /\ s[2] = Len(req'[s[1]].segments) + 1
    BY <1>2 DEF NoLeak
  <2>1. CASE s = Coming(r)
    BY <1>2, <1>3, <2>1
  <2>2. CASE s # Coming(r)
    <3>1. s[1] \in Request /\ req[s[1]].pc = "recording" /\ s[2] = Len(req[s[1]].segments) + 1
      BY <1>1, <1>2, <2>2 DEF NoLeak, Shape, Segment
    <3> QED
      BY <1>2, <1>3, <3>1 DEF Same
  <2> QED
    BY <2>1, <2>2
<1> QED
  BY <1>4, <1>5, <1>6, <1>7, <1>8 DEF IInv, SegmentsOK

(* And its row to the catalog. *)
LEMMA RecordStep ==
  ASSUME IInv, NEW r \in Request, Record(r)
  PROVE  IInv'
<1>1. /\ Shape /\ Living /\ Collecting /\ Unmarked /\ NoLeak /\ RequestOK(r)
      /\ DOMAIN req = Request /\ \A q \in Request : Typed(q)
  BY DEF IInv, SegmentsOK, Shape, RequestOK
<1> DEFINE c == Coming(r)
<1>2. /\ age' = [age EXCEPT ![c] = 0] /\ req[r].pc = "recording"
      /\ UNCHANGED <<objects, uploads, stored, gc, leaked, strayed>>
      /\ c \in Segment /\ c[1] = r /\ age[c] = NoRow /\ c \in stored
  BY ComingUnrecorded DEF Record, Coming, rights, history
<1>3. /\ DOMAIN req' = Request /\ \A q \in Request \ {r} : Same(q)
      /\ DOMAIN req'[r] = Fields /\ req'[r].pc = "sending"
      /\ req'[r].segments = Append(req[r].segments, c)
      /\ req'[r].job = req[r].job
  BY <1>1 DEF Record, Same, Typed, Fields, Coming
<1>4. req[r].segments \in Seq(Segment) /\ Grace \in Nat
  BY <1>1, S3Assumption DEF Typed
<1>5. /\ req'[r].segments \in Seq(Segment) /\ Hand(r)' = Hand(r) \cup {c}
      /\ Len(req'[r].segments) = Len(req[r].segments) + 1
  BY <1>2, <1>3, <1>4, ToSetAppend DEF Hand
<1>6. age' \in [Segment -> NoRow..Ancient] /\ \A s \in Segment \ {c} : age'[s] = age[s]
  <2>1. 0 \in NoRow..Ancient
    BY S3Assumption DEF NoRow, Ancient
  <2> QED
    BY <1>1, <1>2, <2>1 DEF Shape
<1>7. age'[c] = 0
  BY <1>1, <1>2 DEF Shape
<1> HIDE DEF c
<1>8. Shape'
  BY <1>1, <1>2, <1>3, <1>6 DEF Shape
<1>9. RequestOK(r)'
  <2>1. Job(r)' = Job(r) /\ Job(r).op \in {"put", "part"} /\ Len(req[r].segments) < Job(r).n
    BY <1>1, <1>2, <1>3 DEF RequestOK, Sending, Job
  <2>2. Job(r).n \in Nat /\ Len(req[r].segments) \in Nat
    <3>1. Job(r) \in Jobs[r]
      BY <1>1, <1>2 DEF Typed, Job
    <3>2. Job(r).n \in 0..MaxBody
      BY <2>1, <3>1, S3Assumption DEF WellFormed
    <3> QED
      BY <1>4, <3>2
  <2>3. Sending(r)' /\ Bare(r)'
    BY <1>3, <1>5, <2>1, <2>2 DEF Sending, Bare
  <2>4. Typed(r)'
    BY <1>1, <1>2, <1>3, <1>5 DEF Typed, Places
  <2>5. Unrecorded(r)'
    <3> SUFFICES ASSUME NEW n \in 1..MaxBody, n > Len(req[r].segments) + 1
                 PROVE  age'[<<r, n>>] = NoRow
      BY <1>3, <1>5 DEF Unrecorded
    <3>1. age[<<r, n>>] = NoRow
      BY <1>1, <1>2, <2>2 DEF RequestOK, Unrecorded
    <3>2. <<r, n>> \in Segment /\ <<r, n>> # c
      BY <2>2 DEF Segment, c, Coming
    <3> QED
      BY <1>6, <3>1, <3>2
  <2>6. Holds(r)'
    <3> SUFFICES ASSUME NEW s \in (Hand(r) \cup {c}) \ strayed
                 PROVE  s \in stored /\ age'[s] # NoRow /\ age'[s] <= Grace
      BY <1>2, <1>3, <1>5 DEF Holds
    <3>1. CASE s = c
      BY <1>2, <1>4, <1>7, <3>1 DEF NoRow
    <3>2. CASE s # c
      <4>1. s \in Hand(r) /\ s \in Segment
        BY <1>4, <3>2, InToSet DEF Hand
      <4>2. s \in stored /\ age[s] # NoRow /\ age[s] <= Grace
        BY <1>1, <1>2, <4>1 DEF RequestOK, Holds, Busy, Ended
      <4> QED
        BY <1>6, <3>2, <4>1, <4>2
    <3> QED
      BY <3>1, <3>2
  <2> QED
    BY <2>3, <2>4, <2>5, <2>6 DEF RequestOK
<1>10. ASSUME NEW q \in Request \ {r}
       PROVE  RequestOK(q)'
  <2>1. Tame(q)
    BY <1>2, <1>6 DEF Tame
  <2> QED
    BY <1>2, <1>3, <2>1, Untouched
<1>11. Living' /\ Collecting' /\ Unmarked'
  <2>1. c \notin References(objects, uploads) /\ c \notin gc.todo \cup gc.hand
    BY <1>2, NoRowUnused
  <2> QED
    BY <1>1, <1>2, <1>6, <1>7, <2>1 DEF Living, Collecting, Unmarked, Live
<1>12. NoLeak'
  <2> SUFFICES ASSUME NEW s \in stored \ leaked, age'[s] = NoRow
               PROVE  req'[s[1]].pc = "recording" /\ s[2] = Len(req'[s[1]].segments) + 1
    BY <1>2 DEF NoLeak
  <2>1. s \in Segment /\ s # c /\ age[s] = NoRow
    BY <1>1, <1>6, <1>7 DEF Shape, NoRow
  <2>2. /\ s[1] \in Request /\ s = <<s[1], s[2]>>
        /\ req[s[1]].pc = "recording" /\ s[2] = Len(req[s[1]].segments) + 1
    BY <1>1, <2>1 DEF NoLeak, Segment
  <2>3. s[1] # r
    BY <2>1, <2>2 DEF c, Coming
  <2> QED
    BY <1>3, <2>2, <2>3 DEF Same
<1> QED
  BY <1>8, <1>9, <1>10, <1>11, <1>12 DEF IInv, SegmentsOK

----------------------------------------------------------------------------
(* Transactions *)

(* What a transaction may do to the age of a segment: adopt what the request *)
(* holds, and mark what is no longer referenced.                             *)
Turned(r, s) ==
  \/ age'[s] = age[s]
  \/ age[s] = Live /\ age'[s] = 0
  \/ s \in Hand(r) /\ age[s] # NoRow /\ age'[s] \in {Live, 0}

Written ==
  /\ DOMAIN req' = Request /\ DOMAIN objects' = Key /\ DOMAIN uploads' = Upload
  /\ \A k \in Key : objects'[k].segments \in Seq(Segment)
  /\ \A u \in Upload :
       /\ DOMAIN uploads'[u] = {"state", "parts"}
       /\ \A i \in DOMAIN uploads'[u].parts : uploads'[u].parts[i].segments \in Seq(Segment)
  /\ age' \in [Segment -> NoRow..Ancient]

(* A transaction that refers to nothing but what was referenced or in hand. *)
LEMMA TransactionStep ==
  ASSUME IInv, NEW r \in Request, Busy(r), req[r].pc # "recording",
         UNCHANGED <<stored, gc>>, leaked \subseteq leaked', strayed \subseteq strayed',
         Written, Unmarked',
         \A q \in Request : \/ Same(q)
                            \/ q = r /\ Typed(q)' /\ req'[q].pc \in Ended,
         \A s \in Segment : Turned(r, s),
         \A s \in References(objects', uploads') :
           /\ s \in References(objects, uploads) \cup Hand(r) /\ age[s] # NoRow
           /\ s \in strayed' \/ age'[s] = Live
  PROVE  IInv'
<1>1. /\ Shape /\ Living /\ Collecting /\ NoLeak /\ RequestOK(r)
      /\ Grace \in Nat
  BY S3Assumption DEF IInv, SegmentsOK
<1>2. \A s \in Segment : age[s] \in Int /\ age[s] >= NoRow
  BY <1>1, AgeInt
<1>3. /\ Hand(r) \subseteq Segment
      /\ \A s \in Hand(r) \ strayed : s \in stored /\ age[s] # NoRow /\ age[s] <= Grace
  BY <1>1, InToSet DEF RequestOK, Typed, Hand, Holds
<1>4. Shape'
  BY <1>1 DEF Shape, Written
<1>5. ASSUME NEW q \in Request
      PROVE  RequestOK(q)'
  <2>1. Tame(q)
    BY <1>1, <1>2 DEF Tame, Turned, Live, NoRow
  <2> QED
    BY <2>1, Untouched, Finished
<1>6. Living'
  <2> SUFFICES ASSUME NEW s \in References(objects', uploads')
               PROVE  /\ s \in Segment /\ age'[s] # NoRow
                      /\ s \in strayed' \/ (s \in stored /\ age'[s] = Live)
    BY DEF Living
  <2>1. s \in Segment
    BY <1>1, <1>3 DEF Living
  <2>2. age'[s] # NoRow
    BY <2>1 DEF Turned, Live, NoRow
  <2>3. s \notin strayed' => s \in stored
    BY <1>1, <1>3 DEF Living
  <2> QED
    BY <2>1, <2>2, <2>3
<1>7. Collecting'
  <2>1. ASSUME NEW s \in gc.todo \cup gc.hand
        PROVE  s \in Segment /\ age'[s] # NoRow /\ (s \in strayed' \/ age'[s] > Grace)
    <3>1. s \in Segment /\ age[s] # NoRow /\ (s \in strayed \/ age[s] > Grace)
      BY <1>1, <2>1 DEF Collecting
    <3>2. age'[s] # NoRow
      BY <3>1 DEF Turned, Live, NoRow
    <3>3. CASE s \notin strayed
      <4>1. s \notin Hand(r) /\ age[s] # Live
        BY <1>1, <1>2, <1>3, <3>1, <3>3 DEF Live
      <4> QED
        BY <3>1, <3>2, <3>3, <4>1 DEF Turned
    <3> QED
      BY <3>1, <3>2, <3>3
  <2> QED
    BY <1>1, <2>1 DEF Collecting
<1>8. NoLeak'
  <2> SUFFICES ASSUME NEW s \in stored \ leaked', age'[s] = NoRow
               PROVE  req'[s[1]].pc = "recording" /\ s[2] = Len(req'[s[1]].segments) + 1
    BY DEF NoLeak
  <2>1. s \in Segment /\ s \in stored \ leaked /\ s[1] \in Request
    BY <1>1 DEF Shape, Segment
  <2>2. age[s] = NoRow
    BY <2>1 DEF Turned, Live, NoRow
  <2>3. req[s[1]].pc = "recording" /\ s[2] = Len(req[s[1]].segments) + 1
    BY <1>1, <2>1, <2>2 DEF NoLeak
  <2> QED
    BY <2>1, <2>3 DEF Same
<1> QED
  BY <1>4, <1>5, <1>6, <1>7, <1>8 DEF IInv, SegmentsOK

(* The ages after a transaction that adopts what it holds, or nothing. *)
LEMMA Marked ==
  ASSUME IInv, NEW r \in Request, NEW ages,
         \/ ages = age
         \/ ages = Adopt(req[r].segments) /\ Recorded(req[r].segments),
         age' = MarkUnreferenced(ages)
  PROVE  /\ age' \in [Segment -> NoRow..Ancient] /\ Unmarked'
         /\ \A s \in Segment : Turned(r, s)
         /\ \A s \in Segment \cap References(objects', uploads') :
              /\ age[s] = Live => age'[s] = Live
              /\ \/ s \in References(objects, uploads)
                 \/ s \in Hand(r) /\ ages = Adopt(req[r].segments)
                 => age[s] # NoRow /\ (s \in strayed \/ age'[s] = Live)
<1>1. Shape /\ Living /\ Grace \in Nat
  BY S3Assumption DEF IInv, SegmentsOK
<1>2. ASSUME NEW s \in Segment
      PROVE  /\ ages[s] \in NoRow..Ancient
             /\ ages[s] = age[s] \/ (s \in Hand(r) /\ age[s] # NoRow /\ ages[s] = Live)
             /\ age[s] = Live => ages[s] = Live
             /\ s \in References(objects, uploads) =>
                  age[s] # NoRow /\ (s \in strayed \/ ages[s] = Live)
             /\ s \in Hand(r) /\ ages = Adopt(req[r].segments) => age[s] # NoRow /\ ages[s] = Live
  <2>1. age[s] \in NoRow..Ancient /\ Live \in NoRow..Ancient
    BY <1>1 DEF Shape, Live, NoRow, Ancient
  <2>2. s \in References(objects, uploads) =>
          age[s] # NoRow /\ (s \in strayed \/ age[s] = Live)
    BY <1>1 DEF Living
  <2>3. s \in Hand(r) /\ ages = Adopt(req[r].segments) => age[s] # NoRow
    BY DEF Adopt, Recorded, Hand, Live, NoRow
  <2> QED
    BY <2>1, <2>2, <2>3 DEF Adopt, Recorded, Hand
<1>3. ASSUME NEW s \in Segment
      PROVE  age'[s] = IF ages[s] = Live /\ s \notin References(objects', uploads')
                       THEN 0 ELSE ages[s]
  BY DEF MarkUnreferenced
<1>4. age' \in [Segment -> NoRow..Ancient]
  <2>1. 0 \in NoRow..Ancient
    BY <1>1 DEF NoRow, Ancient
  <2>2. age' = [s \in Segment |-> age'[s]]
    BY DEF MarkUnreferenced
  <2> QED
    BY <1>2, <1>3, <2>1, <2>2
<1>5. Unmarked'
  BY <1>3 DEF Unmarked, Live
<1>6. \A s \in Segment : Turned(r, s)
  BY <1>2, <1>3 DEF Turned
<1> QED
  BY <1>2, <1>3, <1>4, <1>5, <1>6

(* What becomes of the references when rows are replaced, added or removed. *)
LEMMA NewReferences ==
  ASSUME IInv, NEW r \in Request,
         \A k \in Key : \/ objects'[k].segments = objects[k].segments
                        \/ objects'[k].segments \in {<<>>, req[r].segments},
         \A u \in Upload : \A i \in DOMAIN uploads'[u].parts :
           \/ i \in DOMAIN uploads[u].parts /\ uploads'[u].parts[i] = uploads[u].parts[i]
           \/ uploads'[u].parts[i].segments = req[r].segments
  PROVE  /\ \A k \in Key : objects'[k].segments \in Seq(Segment)
         /\ \A u \in Upload : \A i \in DOMAIN uploads'[u].parts :
              uploads'[u].parts[i].segments \in Seq(Segment)
         /\ References(objects', uploads') \subseteq References(objects, uploads) \cup Hand(r)
         /\ References(objects', uploads') \subseteq Segment
<1>1. Shape /\ Living /\ Typed(r) /\ req[r].segments \in Seq(Segment)
  BY DEF IInv, SegmentsOK, RequestOK, Typed
<1>2. <<>> \in Seq(Segment) /\ ToSet(<<>>) = {}
  BY ToSetEmpty
<1>3. \A k \in Key : objects'[k].segments \in Seq(Segment)
  BY <1>1, <1>2 DEF Shape
<1>4. \A u \in Upload : \A i \in DOMAIN uploads'[u].parts :
        uploads'[u].parts[i].segments \in Seq(Segment)
  BY <1>1 DEF Shape
<1>5. ASSUME NEW s \in References(objects', uploads')
      PROVE  s \in References(objects, uploads) \cup Hand(r)
  <2>1. CASE \E k \in Key : s \in ToSet(objects'[k].segments)
    <3>1. PICK k \in Key : s \in ToSet(objects'[k].segments)
      BY <2>1
    <3> QED
      BY <1>2, <3>1, ReferencedBy DEF Hand
  <2>2. CASE \E u \in Upload : s \in PartSegments(uploads', u)
    <3>0. PICK u \in Upload : s \in PartSegments(uploads', u)
      BY <2>2
    <3>1. PICK i \in DOMAIN uploads'[u].parts : s \in ToSet(uploads'[u].parts[i].segments)
      BY <3>0 DEF PartSegments
    <3>2. CASE uploads'[u].parts[i].segments = req[r].segments
      BY <3>1, <3>2 DEF Hand
    <3>3. CASE i \in DOMAIN uploads[u].parts /\ uploads'[u].parts[i] = uploads[u].parts[i]
      <4>1. s \in PartSegments(uploads, u)
        BY <3>1, <3>3 DEF PartSegments
      <4> QED
        BY <4>1, ReferencedBy
    <3> QED
      BY <3>1, <3>2, <3>3
  <2> QED
    BY <2>1, <2>2, ReferencedBy
<1>6. Hand(r) \subseteq Segment /\ References(objects, uploads) \subseteq Segment
  BY <1>1, InToSet DEF Hand, Living
<1> QED
  BY <1>3, <1>4, <1>5, <1>6

(* What a request that writes has in hand can be referred to. *)
LEMMA Writer ==
  ASSUME IInv, NEW r \in Request, req[r].pc # "new"
  PROVE  /\ Typed(r) /\ Job(r) \in Jobs[r] /\ WellFormed(Job(r))
         /\ DOMAIN req = Request /\ DOMAIN objects = Key /\ DOMAIN uploads = Upload
BY S3Assumption DEF IInv, Shape, RequestOK, Typed, Job

(* put and copy: the row of the key is replaced. *)
LEMMA ReplaceObjectStep ==
  ASSUME IInv, NEW r \in Request, ReplaceObject(r)
  PROVE  IInv'
<1>1. /\ Busy(r) /\ req[r].pc \notin {"new", "recording"} /\ End(r, "done")
      /\ UNCHANGED <<stored, gc, strayed, leaked, uploads>> /\ Recorded(req[r].segments)
      /\ age' = MarkUnreferenced(Adopt(req[r].segments))
  BY DEF ReplaceObject, Busy, Sent, Ended, Referable, history
<1>2. /\ DOMAIN req' = Request /\ \A q \in Request \ {r} : Same(q)
      /\ Typed(r)' /\ req'[r].pc = "done"
  BY <1>1, EndStep DEF Places, Ended
<1>3. Shape
  BY DEF IInv
<1>4. /\ DOMAIN objects' = Key
      /\ \A k \in Key : \/ objects'[k].segments = objects[k].segments
                        \/ objects'[k].segments = req[r].segments
  BY <1>3 DEF ReplaceObject, PutRow, Shape
<1>5. /\ \A k \in Key : objects'[k].segments \in Seq(Segment)
      /\ References(objects', uploads') \subseteq References(objects, uploads) \cup Hand(r)
      /\ References(objects', uploads') \subseteq Segment
  BY <1>1, <1>4, NewReferences
<1>6. /\ age' \in [Segment -> NoRow..Ancient] /\ Unmarked'
      /\ \A s \in Segment : Turned(r, s)
      /\ \A s \in References(objects', uploads') :
           age[s] # NoRow /\ (s \in strayed \/ age'[s] = Live)
  BY <1>1, <1>5, Marked
<1>7. Written
  BY <1>1, <1>2, <1>3, <1>4, <1>5, <1>6 DEF Written, Shape
<1>8. \A q \in Request : \/ Same(q)
                         \/ q = r /\ Typed(q)' /\ req'[q].pc \in Ended
  BY <1>1, <1>2 DEF Ended
<1> QED
  BY <1>1, <1>5, <1>6, <1>7, <1>8, TransactionStep

(* A part is replaced. *)
LEMMA ReplacePartStep ==
  ASSUME IInv, NEW r \in Request, ReplacePart(r)
  PROVE  IInv'
<1> DEFINE u == Job(r).upload
           part == [size |-> Job(r).n, segments |-> req[r].segments]
<1>1. /\ Busy(r) /\ req[r].pc \notin {"new", "recording"} /\ End(r, "done")
      /\ UNCHANGED <<stored, gc, strayed, leaked, objects>> /\ Recorded(req[r].segments)
      /\ age' = MarkUnreferenced(Adopt(req[r].segments)) /\ Job(r).op = "part"
  BY DEF ReplacePart, Busy, Sent, Ended, Referable, history
<1>2. /\ DOMAIN req' = Request /\ \A q \in Request \ {r} : Same(q)
      /\ Typed(r)' /\ req'[r].pc = "done"
  BY <1>1, EndStep DEF Places, Ended
<1>3. Shape
  BY DEF IInv
<1>4. /\ DOMAIN uploads' = Upload
      /\ \A v \in Upload \ {u} : uploads'[v] = uploads[v]
      /\ \A v \in Upload : DOMAIN uploads'[v] = {"state", "parts"}
      /\ u \in Upload => uploads'[u].parts =
           [i \in DOMAIN uploads[u].parts \cup {Job(r).number} |->
              IF i = Job(r).number THEN part ELSE uploads[u].parts[i]]
  BY <1>3 DEF ReplacePart, Shape
<1>5. \A v \in Upload : \A i \in DOMAIN uploads'[v].parts :
        \/ i \in DOMAIN uploads[v].parts /\ uploads'[v].parts[i] = uploads[v].parts[i]
        \/ uploads'[v].parts[i].segments = req[r].segments
  BY <1>4
<1>6. /\ \A v \in Upload : \A i \in DOMAIN uploads'[v].parts :
           uploads'[v].parts[i].segments \in Seq(Segment)
      /\ References(objects', uploads') \subseteq References(objects, uploads) \cup Hand(r)
      /\ References(objects', uploads') \subseteq Segment
  BY <1>1, <1>5, NewReferences
<1>7. /\ age' \in [Segment -> NoRow..Ancient] /\ Unmarked'
      /\ \A s \in Segment : Turned(r, s)
      /\ \A s \in References(objects', uploads') :
           age[s] # NoRow /\ (s \in strayed \/ age'[s] = Live)
  BY <1>1, <1>6, Marked
<1>8. Written
  BY <1>1, <1>2, <1>3, <1>4, <1>6, <1>7 DEF Written, Shape
<1>10. \A q \in Request : \/ Same(q)
                          \/ q = r /\ Typed(q)' /\ req'[q].pc \in Ended
  BY <1>2 DEF Ended
<1> QED
  BY <1>1, <1>6, <1>7, <1>8, <1>10, TransactionStep

(* An upload that is closed takes its parts along. *)
LEMMA ClosedParts ==
  ASSUME IInv, NEW r \in Request, Busy(r), Job(r).op \in {"complete", "abort"},
         CloseUpload(Job(r).upload)
  PROVE  /\ DOMAIN uploads' = Upload
         /\ \A u \in Upload : DOMAIN uploads'[u] = {"state", "parts"}
         /\ \A u \in Upload : \A i \in DOMAIN uploads'[u].parts :
              i \in DOMAIN uploads[u].parts /\ uploads'[u].parts[i] = uploads[u].parts[i]
<1>1. Shape
  BY DEF IInv
<1>2. /\ DOMAIN uploads' = Upload
      /\ \A u \in Upload : uploads'[u] = IF u = Job(r).upload THEN Closed ELSE uploads[u]
  BY <1>1 DEF CloseUpload, Shape
<1>3. DOMAIN Closed = {"state", "parts"} /\ DOMAIN Closed.parts = {}
  BY DEF Closed
<1> QED
  BY <1>1, <1>2, <1>3 DEF Shape

(* A multipart upload becomes an object. *)
LEMMA CompleteMultipartStep ==
  ASSUME IInv, NEW r \in Request, CompleteMultipart(r)
  PROVE  IInv'
<1>1. /\ Busy(r) /\ req[r].pc = "writing" /\ End(r, "done")
      /\ UNCHANGED <<stored, gc, leaked>> /\ Job(r).op = "complete"
      /\ CloseUpload(Job(r).upload)
      /\ age' = MarkUnreferenced(age) /\ Recorded(req[r].segments)
      /\ strayed' = strayed \cup {s \in Hand(r) : age[s] # Live}
  BY DEF CompleteMultipart, Busy, Ended, Referable
<1>2. /\ DOMAIN req' = Request /\ \A q \in Request \ {r} : Same(q)
      /\ Typed(r)' /\ req'[r].pc = "done"
  BY <1>1, EndStep DEF Places, Ended
<1>3. Shape /\ RequestOK(r)
  BY DEF IInv
<1>4. /\ DOMAIN objects' = Key
      /\ \A k \in Key : \/ objects'[k].segments = objects[k].segments
                        \/ objects'[k].segments = req[r].segments
  BY <1>3 DEF CompleteMultipart, PutRow, Shape
<1>5. /\ DOMAIN uploads' = Upload
      /\ \A u \in Upload : DOMAIN uploads'[u] = {"state", "parts"}
      /\ \A u \in Upload : \A i \in DOMAIN uploads'[u].parts :
           i \in DOMAIN uploads[u].parts /\ uploads'[u].parts[i] = uploads[u].parts[i]
  BY <1>1, ClosedParts
<1>6. /\ \A k \in Key : objects'[k].segments \in Seq(Segment)
      /\ \A u \in Upload : \A i \in DOMAIN uploads'[u].parts :
           uploads'[u].parts[i].segments \in Seq(Segment)
      /\ References(objects', uploads') \subseteq References(objects, uploads) \cup Hand(r)
      /\ References(objects', uploads') \subseteq Segment
  BY <1>4, <1>5, NewReferences
<1>7. \A s \in Hand(r) : age[s] # NoRow /\ (s \in strayed' \/ age[s] = Live)
  BY <1>1 DEF Recorded, Hand
<1>8. /\ age' \in [Segment -> NoRow..Ancient] /\ Unmarked'
      /\ \A s \in Segment : Turned(r, s)
      /\ \A s \in References(objects', uploads') :
           age[s] # NoRow /\ (s \in strayed' \/ age'[s] = Live)
  BY <1>1, <1>6, <1>7, Marked
<1>9. Written
  BY <1>2, <1>4, <1>5, <1>6, <1>8 DEF Written
<1>10. \A q \in Request : \/ Same(q)
                          \/ q = r /\ Typed(q)' /\ req'[q].pc \in Ended
  BY <1>2, <1>5 DEF Ended
<1> QED
  BY <1>1, <1>6, <1>8, <1>9, <1>10, TransactionStep

(* A multipart upload is given up. *)
LEMMA AbortMultipartStep ==
  ASSUME IInv, NEW r \in Request, AbortMultipart(r)
  PROVE  IInv'
<1>1. /\ Busy(r) /\ req[r].pc = "writing" /\ End(r, "done")
      /\ UNCHANGED <<stored, gc, strayed, leaked, objects>> /\ Job(r).op = "abort"
      /\ CloseUpload(Job(r).upload)
      /\ age' = MarkUnreferenced(age)
  BY DEF AbortMultipart, Busy, Ended, history
<1>2. /\ DOMAIN req' = Request /\ \A q \in Request \ {r} : Same(q)
      /\ Typed(r)' /\ req'[r].pc = "done"
  BY <1>1, EndStep DEF Places, Ended
<1>3. Shape
  BY DEF IInv
<1>4. /\ DOMAIN uploads' = Upload
      /\ \A u \in Upload : DOMAIN uploads'[u] = {"state", "parts"}
      /\ \A u \in Upload : \A i \in DOMAIN uploads'[u].parts :
           i \in DOMAIN uploads[u].parts /\ uploads'[u].parts[i] = uploads[u].parts[i]
  BY <1>1, ClosedParts
<1>5. /\ \A u \in Upload : \A i \in DOMAIN uploads'[u].parts :
           uploads'[u].parts[i].segments \in Seq(Segment)
      /\ References(objects', uploads') \subseteq References(objects, uploads)
      /\ References(objects', uploads') \subseteq Segment
  <2>1. \A u \in Upload : PartSegments(uploads', u) \subseteq PartSegments(uploads, u)
    BY <1>4 DEF PartSegments
  <2> QED
    BY <1>1, <1>4, <2>1, NewReferences, ReferencedBy
<1>6. /\ age' \in [Segment -> NoRow..Ancient] /\ Unmarked'
      /\ \A s \in Segment : Turned(r, s)
      /\ \A s \in References(objects', uploads') :
           age[s] # NoRow /\ (s \in strayed \/ age'[s] = Live)
  BY <1>1, <1>5, Marked
<1>7. Written
  BY <1>1, <1>2, <1>3, <1>4, <1>5, <1>6 DEF Written, Shape
<1>8. \A q \in Request : \/ Same(q)
                         \/ q = r /\ Typed(q)' /\ req'[q].pc \in Ended
  BY <1>2, <1>4 DEF Ended
<1> QED
  BY <1>1, <1>5, <1>6, <1>7, <1>8, TransactionStep

(* Keys that listings can no longer be expected to report. *)
LEMMA GoneKeeps ==
  ASSUME NEW keys, NEW reqs, \A q \in Request : DOMAIN reqs[q] = Fields,
         req' = Gone(keys, reqs)
  PROVE  /\ DOMAIN req' = Request
         /\ \A q \in Request :
              /\ DOMAIN req'[q] = Fields /\ req'[q].pc = reqs[q].pc
              /\ req'[q].job = reqs[q].job /\ req'[q].segments = reqs[q].segments
              /\ req'[q].left = reqs[q].left
              /\ req'[q].source = reqs[q].source /\ req'[q].size = reqs[q].size
<1>1. req' = [q \in Request |-> [reqs[q] EXCEPT !.stay = @ \ keys]]
  BY DEF Gone
<1> QED
  BY <1>1 DEF Fields

(* An object is deleted; the request may have more keys to delete. *)
LEMMA DeleteObjectStep ==
  ASSUME IInv, NEW r \in Request, DeleteObject(r)
  PROVE  IInv'
<1> DEFINE k == Head(req[r].left)
           after == [req EXCEPT ![r].left = Tail(@),
                                ![r].pc = IF Len(req[r].left) = 1 THEN "done" ELSE @]
<1>1. /\ Busy(r) /\ req[r].pc = "writing" /\ Job(r).op = "delete"
      /\ UNCHANGED <<stored, gc, strayed, leaked, uploads>>
      /\ objects' = [objects EXCEPT ![k] = Absent]
      /\ age' = MarkUnreferenced(age)
      /\ req' = Gone({k}, after)
  BY DEF DeleteObject, RemoveObject, Busy, Ended, history
<1>2. Shape /\ \A q \in Request : Typed(q)
  BY DEF IInv, RequestOK
<1>3. /\ \A q \in Request \ {r} : after[q] = req[q]
      /\ DOMAIN after[r] = Fields /\ after[r].pc \in {"done", req[r].pc}
      /\ after[r].job = req[r].job /\ after[r].segments = req[r].segments
  BY <1>2 DEF Shape, Typed, Fields
<1>4. /\ DOMAIN req' = Request /\ \A q \in Request \ {r} : Same(q)
      /\ DOMAIN req'[r] = Fields /\ req'[r].pc \in {"done", req[r].pc}
      /\ req'[r].job = req[r].job /\ req'[r].segments = req[r].segments
     
  <2> HIDE DEF after, k
  <2>1. \A q \in Request : DOMAIN after[q] = Fields
    BY <1>2, <1>3 DEF Typed
  <2>2. /\ DOMAIN req' = Request
        /\ \A q \in Request :
             /\ DOMAIN req'[q] = Fields /\ req'[q].pc = after[q].pc
             /\ req'[q].job = after[q].job /\ req'[q].segments = after[q].segments
    <3> DEFINE keys == {k}
    <3>1. req' = Gone(keys, after)
      BY <1>1
    <3> HIDE DEF keys
    <3> QED
      BY <2>1, <3>1, GoneKeeps
  <2> QED
    BY <1>3, <2>2 DEF Same
<1>5. Typed(r)'
  BY <1>1, <1>2, <1>4 DEF Typed, Places, Ended
<1>6. /\ DOMAIN objects' = Key
      /\ \A i \in Key : \/ objects'[i].segments = objects[i].segments
                        \/ objects'[i].segments = <<>>
  BY <1>1, <1>2 DEF Shape, Absent
<1>7. /\ \A i \in Key : objects'[i].segments \in Seq(Segment)
      /\ References(objects', uploads') \subseteq References(objects, uploads)
      /\ References(objects', uploads') \subseteq Segment
  <2>1. /\ \A i \in Key : objects'[i].segments \in Seq(Segment)
        /\ References(objects', uploads') \subseteq Segment
    BY <1>1, <1>6, NewReferences
  <2>2. \A i \in Key : ToSet(objects'[i].segments) \subseteq ToSet(objects[i].segments)
    BY <1>6, ToSetEmpty
  <2>3. \A s : s \in References(objects', uploads') => s \in References(objects, uploads)
    BY <1>1, <2>2, ReferencedBy
  <2> QED
    BY <2>1, <2>3
<1>8. /\ age' \in [Segment -> NoRow..Ancient] /\ Unmarked'
      /\ \A s \in Segment : Turned(r, s)
      /\ \A s \in References(objects', uploads') :
           age[s] # NoRow /\ (s \in strayed \/ age'[s] = Live)
  BY <1>1, <1>7, Marked
<1>9. Written
  BY <1>1, <1>2, <1>4, <1>6, <1>7, <1>8 DEF Written, Shape
<1>10. \A q \in Request : \/ Same(q)
                          \/ q = r /\ Typed(q)' /\ req'[q].pc \in Ended
  BY <1>1, <1>4, <1>5 DEF Ended, Same
<1> QED
  BY <1>1, <1>7, <1>8, <1>9, <1>10, TransactionStep

(* The bucket goes, and what is in it. *)
LEMMA DropBucketStep ==
  ASSUME IInv, NEW r \in Request, DropBucket(r)
  PROVE  IInv'
<1> DEFINE after == [req EXCEPT ![r].pc = "done"]
<1>1. /\ Busy(r) /\ req[r].pc = "deciding" /\ Job(r).op = "drop"
      /\ UNCHANGED <<stored, gc, strayed, age>> /\ leaked' = leaked \cup References(objects, uploads)
      /\ objects' = [k \in Key |-> Absent]
      /\ uploads' = [u \in Upload |-> IF IsOpen(u) THEN Closed ELSE uploads[u]]
      /\ req' = Gone(Key, after)
  BY DEF DropBucket, Busy, Ended, history
<1>2. Shape /\ Living /\ Unmarked /\ \A q \in Request : Typed(q)
  BY DEF IInv, RequestOK, SegmentsOK
<1>3. /\ \A q \in Request \ {r} : after[q] = req[q]
      /\ DOMAIN after[r] = Fields /\ after[r].pc = "done"
      /\ after[r].job = req[r].job /\ after[r].segments = req[r].segments
  BY <1>2 DEF Shape, Typed, Fields
<1>4. /\ DOMAIN req' = Request /\ \A q \in Request \ {r} : Same(q)
      /\ DOMAIN req'[r] = Fields /\ req'[r].pc = "done"
      /\ req'[r].job = req[r].job /\ req'[r].segments = req[r].segments
     
  <2> HIDE DEF after
  <2>1. \A q \in Request : DOMAIN after[q] = Fields
    BY <1>2, <1>3 DEF Typed
  <2> QED
    BY <1>1, <1>3, <2>1, GoneKeeps DEF Same
<1>5. Typed(r)'
  BY <1>1, <1>2, <1>4 DEF Typed, Places, Ended
<1>6. DOMAIN Closed = {"state", "parts"} /\ DOMAIN Closed.parts = {}
  BY DEF Closed
<1>7. /\ DOMAIN objects' = Key /\ DOMAIN uploads' = Upload
      /\ \A k \in Key : objects'[k].segments = <<>>
      /\ \A u \in Upload : DOMAIN uploads'[u] = {"state", "parts"}
      /\ \A u \in Upload : \A i \in DOMAIN uploads'[u].parts :
           i \in DOMAIN uploads[u].parts /\ uploads'[u].parts[i] = uploads[u].parts[i]
  BY <1>1, <1>2, <1>6 DEF Shape, Absent
<1>8. /\ \A k \in Key : objects'[k].segments \in Seq(Segment)
      /\ \A u \in Upload : \A i \in DOMAIN uploads'[u].parts :
           uploads'[u].parts[i].segments \in Seq(Segment)
      /\ References(objects', uploads') \subseteq References(objects, uploads)
  <2>1. \A u \in Upload : PartSegments(uploads', u) \subseteq PartSegments(uploads, u)
    BY <1>7 DEF PartSegments
  <2> QED
    BY <1>7, <2>1, NewReferences, ReferencedBy, ToSetEmpty
<1>9. /\ age' \in [Segment -> NoRow..Ancient] /\ Unmarked'
      /\ \A s \in Segment : Turned(r, s)
      /\ \A s \in References(objects', uploads') :
           age[s] # NoRow /\ (s \in strayed \/ age'[s] = Live)
  BY <1>1, <1>2, <1>8 DEF Shape, Unmarked, Turned, Living
<1>10. Written
  BY <1>4, <1>7, <1>8, <1>9 DEF Written
<1>12. \A q \in Request : \/ Same(q)
                          \/ q = r /\ Typed(q)' /\ req'[q].pc \in Ended
  BY <1>4, <1>5 DEF Ended
<1> QED
  BY <1>1, <1>8, <1>9, <1>10, <1>12, TransactionStep

----------------------------------------------------------------------------
(* Steps of nobody's request *)

(* A step that leaves the requests and what they refer to alone. *)
LEMMA AloneStep ==
  ASSUME IInv, UNCHANGED <<objects, req, leaked, strayed>>,
         \A q \in Request : Tame(q),
         DOMAIN uploads' = Upload,
         \A u \in Upload : DOMAIN uploads'[u] = {"state", "parts"}
                           /\ uploads'[u].parts = uploads[u].parts,
         Collecting', DOMAIN gc' = {"pc", "todo", "hand"}, stored' \subseteq stored,
         age' \in [Segment -> NoRow..Ancient],
         \A s \in Segment : age[s] = Live <=> age'[s] = Live,
         \A s \in stored' : age'[s] = NoRow => age[s] = NoRow,
         \A s \in References(objects, uploads) : age'[s] # NoRow,
         \A s \in stored \ strayed : age[s] = Live => s \in stored'
  PROVE  IInv'
<1>1. Shape /\ Living /\ Unmarked /\ NoLeak /\ \A q \in Request : Typed(q)
  BY DEF IInv, SegmentsOK, RequestOK
<1>2. \A u \in Upload : PartSegments(uploads', u) = PartSegments(uploads, u)
  BY DEF PartSegments
<1>3. \A s : s \in References(objects', uploads') <=> s \in References(objects, uploads)
  BY <1>2, ReferencedBy
<1>4. Shape'
  BY <1>1 DEF Shape
<1>5. ASSUME NEW q \in Request
      PROVE  RequestOK(q)'
  <2>1. Same(q)
    BY <1>1 DEF Same, Typed
  <2> QED
    BY <2>1, Untouched
<1>6. Living' /\ Unmarked'
  BY <1>1, <1>3 DEF Living, Unmarked
<1>7. NoLeak'
  BY <1>1 DEF NoLeak
<1> QED
  BY <1>4, <1>5, <1>6, <1>7 DEF IInv, SegmentsOK

(* A new upload; permissions that are granted or revoked; or no step at all. *)
LEMMA PlainStep ==
  ASSUME IInv,
         \/ \E u \in Upload : CreateMultipart(u)
         \/ \E g \in Grants : Grant(g[1], g[2])
         \/ \E a \in Revocable : Revoke(a)
         \/ UNCHANGED vars
  PROVE  IInv'
<1>1. Shape /\ Collecting /\ Living
  BY DEF IInv, SegmentsOK
<1>2. UNCHANGED <<objects, req, leaked, age, stored, gc, strayed>>
  BY DEF CreateMultipart, Grant, Revoke, vars, history
<1>3. /\ DOMAIN uploads' = Upload
      /\ \A u \in Upload : DOMAIN uploads'[u] = {"state", "parts"}
                           /\ uploads'[u].parts = uploads[u].parts
  <2>1. CASE \E u \in Upload : CreateMultipart(u)
    BY <1>1, <2>1 DEF CreateMultipart, Shape
  <2>2. CASE uploads' = uploads
    BY <1>1, <2>2 DEF Shape
  <2> QED
    BY <2>1, <2>2 DEF Grant, Revoke, vars
<1>4. Collecting'
  BY <1>1, <1>2 DEF Collecting
<1>5. \A q \in Request : Tame(q)
  BY <1>2 DEF Tame
<1> QED
  BY <1>1, <1>2, <1>3, <1>4, <1>5, AloneStep DEF Shape, Living

(* The collector. *)
LEMMA CollectStep ==
  ASSUME IInv, Collect \/ LoseCollector
  PROVE  IInv'
<1>1. Shape /\ Living /\ Collecting /\ Grace \in Nat
  BY S3Assumption DEF IInv, SegmentsOK
<1>2. UNCHANGED <<objects, uploads, req, leaked, strayed>>
  BY DEF Collect, List, Delete, Forget, LoseCollector, history
<1>3. \A u \in Upload : DOMAIN uploads'[u] = {"state", "parts"}
                        /\ uploads'[u].parts = uploads[u].parts
  BY <1>1, <1>2 DEF Shape
<1>4. \A s \in Segment : age[s] \in Int
  BY <1>1, AgeInt
<1>5. CASE List \/ LoseCollector
  <2>1. UNCHANGED <<age, stored>> /\ DOMAIN gc' = {"pc", "todo", "hand"}
    BY <1>1, <1>5 DEF List, LoseCollector, CollectorIdle, Shape
  <2>2. Collecting'
    <3>1. CASE List
      BY <1>1, <2>1, <3>1 DEF List, Collecting, Collectable, Shape, NoRow
    <3>2. CASE LoseCollector
      BY <1>1, <2>1, <3>2 DEF LoseCollector, CollectorIdle, Collecting
    <3> QED
      BY <1>5, <3>1, <3>2
  <2> QED
    BY <1>1, <1>2, <1>3, <2>1, <2>2, AloneStep DEF Tame, Shape, Living
<1>6. ASSUME NEW s \in gc.todo, Delete(s)
      PROVE  IInv'
  <2>1. /\ age' = age /\ stored' \in {stored, stored \ {s}} /\ DOMAIN gc' = {"pc", "todo", "hand"}
        /\ s \in Segment /\ age[s] # NoRow /\ (s \in strayed \/ age[s] > Grace)
    BY <1>1, <1>6 DEF Delete, Collecting, Shape
  <2>2. Collecting'
    <3>1. \A x \in gc.todo \cup gc.hand :
            x \in Segment /\ age[x] # NoRow /\ (x \in strayed \/ age[x] > Grace)
      BY <1>1 DEF Collecting
    <3>2. CASE gc' = [pc |-> "forgetting", todo |-> gc.todo \ {s}, hand |-> {s}]
                 /\ stored' = stored \ {s}
      BY <1>2, <2>1, <3>1, <3>2 DEF Collecting
    <3>3. CASE gc' = [gc EXCEPT !.todo = @ \ {s}, !.pc = IF gc.todo = {s} THEN "idle" ELSE @]
                 /\ stored' = stored
      <4>1. gc'.todo = gc.todo \ {s} /\ gc'.hand = {}
        BY <1>1, <1>6, <3>3 DEF Delete, Collecting, Shape
      <4> QED
        BY <1>2, <2>1, <3>1, <4>1 DEF Collecting
    <3> QED
      BY <1>6, <3>2, <3>3 DEF Delete
  <2>3. \A q \in Request : Tame(q)
    BY <1>1, <1>2, <1>4, <2>1 DEF Tame, NoRow
  <2>4. s \in strayed \/ age[s] # Live
    BY <1>1, <2>1 DEF Live
  <2> QED
    BY <1>1, <1>2, <1>3, <2>1, <2>2, <2>3, <2>4, AloneStep DEF Shape, Living
<1>7. CASE Forget
  <2>1. PICK s \in gc.hand :
          \/ age' = age /\ gc' = CollectorIdle
          \/ /\ \/ /\ age' = [age EXCEPT ![s] = NoRow]
                   /\ age[s] # Live /\ s \notin References(objects, uploads)
                \/ age' = age
             /\ gc'.hand = {} /\ gc'.todo = gc.todo
    <3>1. PICK s \in gc.hand :
            \/ age' = age /\ gc' = CollectorIdle
            \/ /\ ~ (Forgettable(s) /\ s \in References(objects, uploads))
               /\ age' = IF Forgettable(s) THEN [age EXCEPT ![s] = NoRow] ELSE age
               /\ gc'.hand = {} /\ gc'.todo = gc.todo
      BY <1>1, <1>7 DEF Forget, Shape
    <3>2. Forgettable(s) => age[s] # Live
      BY <1>1, <1>4 DEF Forgettable, Live, Collecting
    <3> QED
      BY <3>1, <3>2
  <2>2. /\ s \in Segment /\ s \notin stored /\ (s \in strayed \/ age[s] > Grace)
        /\ s \notin gc.todo /\ stored' = stored /\ DOMAIN gc' = {"pc", "todo", "hand"}
    <3>1. /\ s \in Segment /\ (s \in strayed \/ age[s] > Grace)
          /\ s \notin stored /\ s \notin gc.todo
      BY <1>1 DEF Collecting
    <3>2. stored' = stored /\ DOMAIN gc' = {"pc", "todo", "hand"}
      BY <1>1, <1>7 DEF Forget, Shape, CollectorIdle
    <3> QED
      BY <3>1, <3>2
  <2>3. /\ age' \in [Segment -> NoRow..Ancient]
        /\ \A x \in Segment :
             \/ age'[x] = age[x]
             \/ /\ x = s /\ age'[x] = NoRow
                /\ age[x] # Live /\ x \notin References(objects, uploads)
    BY <1>1, <2>1 DEF Shape, NoRow, Ancient
  <2>4. Collecting'
    BY <1>1, <1>2, <2>1, <2>2, <2>3 DEF Collecting, CollectorIdle
  <2>5. \A q \in Request : Tame(q)
    BY <1>1, <1>2, <1>4, <2>2, <2>3 DEF Tame, NoRow
  <2>6. NoRow # Live
    BY DEF NoRow, Live
  <2>7. \A x \in References(objects, uploads) : age'[x] # NoRow
    BY <1>1, <2>3 DEF Living
  <2>8. \A x \in Segment : age[x] = Live <=> age'[x] = Live
    BY <2>3, <2>6
  <2>9. \A x \in stored' : age'[x] = NoRow => age[x] = NoRow
    BY <1>1, <2>2, <2>3 DEF Shape
  <2> QED
    BY <1>1, <1>2, <1>3, <2>2, <2>3, <2>4, <2>5, <2>7, <2>8, <2>9, AloneStep DEF Shape
<1> QED
  BY <1>5, <1>6, <1>7 DEF Collect

(* Time passes: what a request holds for longer than the grace has strayed. *)
LEMMA TickStep ==
  ASSUME IInv, Tick
  PROVE  IInv'
<1>1. /\ Shape /\ Living /\ Collecting /\ Unmarked /\ NoLeak
      /\ Grace \in Nat /\ \A q \in Request : RequestOK(q)
  BY S3Assumption DEF IInv, SegmentsOK
<1>2. /\ UNCHANGED <<objects, uploads, stored, req, gc, leaked>> /\ strayed \subseteq strayed'
      /\ \A q \in Request : Busy(q) => \A s \in Hand(q) \cap Segment : age'[s] > Grace => s \in strayed'
  BY DEF Tick
<1>3. \A s \in Segment : age[s] \in Int /\ age[s] >= NoRow /\ age[s] <= Ancient
  BY <1>1, AgeInt
<1>4. /\ age' \in [Segment -> NoRow..Ancient]
      /\ \A s \in Segment : \/ age'[s] = age[s]
                            \/ age[s] >= 0 /\ age'[s] = age[s] + 1
  <2>1. \A s \in Segment : age'[s] = IF age[s] >= 0 /\ age[s] < Ancient THEN age[s] + 1 ELSE age[s]
    BY DEF Tick
  <2>2. \A s \in Segment : age'[s] \in NoRow..Ancient
    BY <1>1, <1>3, <2>1 DEF NoRow, Ancient
  <2> QED
    BY <2>1, <2>2 DEF Tick
<1>5. Shape'
  BY <1>1, <1>2, <1>4 DEF Shape
<1>6. ASSUME NEW q \in Request
      PROVE  RequestOK(q)'
  <2>1. Job(q)' = Job(q) /\ Hand(q)' = Hand(q) /\ Coming(q)' = Coming(q) /\ Busy(q)' = Busy(q)
    BY <1>2 DEF Job, Hand, Coming, Busy
  <2>2. Typed(q)' /\ Bare(q)' /\ Sending(q)'
    BY <1>1, <1>2, <2>1 DEF RequestOK, Typed, Bare, Sending
  <2>3. Unrecorded(q)'
    <3>1. \A n \in 1..MaxBody : <<q, n>> \in Segment
      BY DEF Segment
    <3> QED
      BY <1>1, <1>2, <1>3, <1>4, <3>1 DEF RequestOK, Unrecorded, NoRow
  <2>4. Holds(q)'
    <3> SUFFICES ASSUME Busy(q), NEW s \in Hand(q) \ strayed'
                 PROVE  s \in stored /\ age'[s] # NoRow /\ age'[s] <= Grace
      BY <1>2, <2>1 DEF Holds
    <3>1. s \in Segment
      BY <1>1, InToSet DEF RequestOK, Typed, Hand
    <3>2. s \in stored /\ age[s] # NoRow
      BY <1>1, <1>2 DEF RequestOK, Holds
    <3>3. ~ (age'[s] > Grace) /\ age'[s] \in Int
      BY <1>2, <1>4, <3>1 DEF NoRow, Ancient
    <3> QED
      BY <1>1, <1>3, <1>4, <3>1, <3>2, <3>3 DEF NoRow
  <2> QED
    BY <2>2, <2>3, <2>4 DEF RequestOK
<1>7. Living' /\ Unmarked'
  BY <1>1, <1>2, <1>3, <1>4 DEF Living, Unmarked, Live, NoRow
<1>8. Collecting'
  BY <1>1, <1>2, <1>3, <1>4 DEF Collecting, NoRow
<1>9. NoLeak'
  <2> SUFFICES ASSUME NEW s \in stored \ leaked, age'[s] = NoRow
               PROVE  req[s[1]].pc = "recording" /\ s[2] = Len(req[s[1]].segments) + 1
    BY <1>2 DEF NoLeak
  <2>1. s \in Segment
    BY <1>1 DEF Shape
  <2>2. age[s] = NoRow
    BY <1>3, <1>4, <2>1 DEF NoRow
  <2> QED
    BY <1>1, <2>2 DEF NoLeak
<1> QED
  BY <1>5, <1>6, <1>7, <1>8, <1>9 DEF IInv, SegmentsOK

----------------------------------------------------------------------------
(* Requests stay apart *)

Kept(q) ==
  /\ req'[q].pc = req[q].pc /\ req'[q].job = req[q].job
  /\ req'[q].segments = req[q].segments /\ req'[q].left = req[q].left
  /\ req'[q].source = req[q].source /\ req'[q].size = req[q].size

(* A handler moves itself only, and keeps to what it was asked. *)
LEMMA HandleMoves ==
  ASSUME Records, NEW r \in Request, Handle(r) \/ Lose(r)
  PROVE  /\ Records' /\ Busy(r)
         /\ \A q \in Request : /\ q # r => Kept(q)
                               /\ req'[q].job = req[q].job
<1>1. /\ DOMAIN req = Request /\ \A i \in Request : DOMAIN req[i] = Fields
  BY DEF Records
<1>2. Busy(r)
  BY DEF Handle, Lose, Send, FailSend, Record, FailRecord, LookAtObject, ListObject, Deliver,
         LookAtParts, ListPart, Page, CheckBucket, Refuse, Write, ReplaceObject, ReplacePart,
         CompleteMultipart, AbortMultipart, DeleteObject, MakeBucket, DropBucket, Sent, Busy,
         Ended
<1>3. ASSUME NEW q \in Request
      PROVE  /\ DOMAIN req' = Request /\ DOMAIN req'[q] = Fields
             /\ q # r => Kept(q)
             /\ req'[q].job = req[q].job
  <2>1. ASSUME NEW p, End(r, p)
        PROVE  /\ DOMAIN req' = Request /\ DOMAIN req'[q] = Fields
               /\ q # r => Kept(q)
               /\ req'[q].job = req[q].job
    BY <1>1, <2>1 DEF End, Fields, Kept
  <2>2. CASE DeleteObject(r) \/ DropBucket(r)
    <3>1. PICK keys, reqs :
            /\ req' = Gone(keys, reqs)
            /\ \A i \in Request : /\ DOMAIN reqs[i] = Fields
                                  /\ i # r => reqs[i] = req[i]
                                  /\ reqs[i].job = req[i].job
      <4>1. CASE DeleteObject(r)
        <5> DEFINE k == Head(req[r].left)
                   after == [req EXCEPT ![r].left = Tail(@),
                                        ![r].pc = IF Len(req[r].left) = 1 THEN "done" ELSE @]
        <5>1. req' = Gone({k}, after)
          BY <4>1 DEF DeleteObject
        <5>2. \A i \in Request : /\ DOMAIN after[i] = Fields
                                 /\ i # r => after[i] = req[i]
                                 /\ after[i].job = req[i].job
          BY <1>1 DEF Fields
        <5> HIDE DEF k, after
        <5> QED
          BY <5>1, <5>2
      <4>2. CASE DropBucket(r)
        <5> DEFINE after == [req EXCEPT ![r].pc = "done"]
        <5>1. req' = Gone(Key, after)
          BY <4>2 DEF DropBucket
        <5>2. \A i \in Request : /\ DOMAIN after[i] = Fields
                                 /\ i # r => after[i] = req[i]
                                 /\ after[i].job = req[i].job
          BY <1>1 DEF Fields
        <5> HIDE DEF after
        <5> QED
          BY <5>1, <5>2
      <4> QED
        BY <2>2, <4>1, <4>2
    <3>2. /\ DOMAIN req' = Request
          /\ \A i \in Request : /\ DOMAIN req'[i] = Fields /\ req'[i].pc = reqs[i].pc
                                /\ req'[i].job = reqs[i].job
                                /\ req'[i].segments = reqs[i].segments
                                /\ req'[i].left = reqs[i].left
                                /\ req'[i].source = reqs[i].source
                                /\ req'[i].size = reqs[i].size
      BY <3>1, GoneKeeps
    <3> QED
      BY <3>1, <3>2 DEF Kept
  <2>3. CASE Record(r)
    BY <1>1, <2>3 DEF Record, Fields, Kept
  <2>4. CASE LookAtObject(r) \/ ListObject(r)
    BY <1>1, <2>4 DEF LookAtObject, ListObject, Fields, Kept
  <2>5. CASE LookAtParts(r)
    BY <1>1, <2>5 DEF LookAtParts, Fields, Kept
  <2>6. CASE ListPart(r)
    <3>1. PICK segments, left, pc :
            req' = [req EXCEPT ![r].segments = segments, ![r].left = left, ![r].pc = pc]
      BY <2>6 DEF ListPart
    <3> QED
      BY <1>1, <3>1 DEF Fields, Kept
  <2>7. CASE Page(r)
    <3>1. PICK seen, after, pc :
            req' = [req EXCEPT ![r].seen = seen, ![r].after = after, ![r].pc = pc]
      BY <2>7 DEF Page
    <3> QED
      BY <1>1, <3>1 DEF Fields, Kept
  <2> QED
    BY <2>1, <2>2, <2>3, <2>4, <2>5, <2>6, <2>7
       DEF Handle, Lose, Send, FailSend, FailRecord, Deliver, CheckBucket, Refuse, Write,
           ReplaceObject, ReplacePart, CompleteMultipart, AbortMultipart, MakeBucket
<1> QED
  BY <1>2, <1>3 DEF Records

(* Only the arrival of a request makes it busy, or changes what it asks for. *)
LEMMA HandleKeepsJobs ==
  ASSUME Records, NEW r \in Request, Handle(r) \/ Lose(r), NEW q \in Request, Busy(q)'
  PROVE  Busy(q) /\ Job(q)' = Job(q)
BY HandleMoves DEF Busy, Job, Kept

(* Every step leaves the requests their fields. *)
LEMMA RecordsStep ==
  ASSUME Records, [Next]_vars
  PROVE  Records'
<1>1. ASSUME NEW r \in Request, NEW j \in Jobs[r], Start(r, j)
      PROVE  Records'
  BY <1>1 DEF Start, Records, Fields
<1>2. CASE req' = req
  BY <1>2 DEF Records
<1> QED
  BY <1>1, <1>2, HandleMoves
     DEF Next, CreateMultipart, Grant, Revoke, Collect, List, Delete, Forget, LoseCollector, Tick, vars

(* Requests under way that do not meddle with one another. *)
Spread ==
  \A r, q \in Request : r # q /\ Busy(r) /\ Busy(q) => ~ Meddles(Job(r), Job(q))

(* What has clashed remains so. *)
LEMMA ClashStays ==
  ASSUME [Next]_vars, clashed
  PROVE  clashed'
<1>1. ASSUME NEW r \in Request, Handle(r) \/ Lose(r)
      PROVE  clashed'
  BY <1>1 DEF Handle, Lose, Send, FailSend, Record, FailRecord, LookAtObject, ListObject, Deliver,
              LookAtParts, ListPart, Page, CheckBucket, Refuse, Write, ReplaceObject, ReplacePart,
              CompleteMultipart, AbortMultipart, DeleteObject, MakeBucket, DropBucket, history
<1>2. ASSUME NEW r \in Request, NEW j \in Jobs[r], Start(r, j)
      PROVE  clashed'
  BY <1>2 DEF Start
<1> QED
  BY <1>1, <1>2
     DEF Next, CreateMultipart, Grant, Revoke, Collect, List, Delete, Forget, LoseCollector, Tick,
         vars, history

(* As long as nothing has clashed, nothing under way meddles. *)
LEMMA SpreadStep ==
  ASSUME Records, ~ clashed => Spread, [Next]_vars, ~ clashed'
  PROVE  Spread'
<1>1. /\ DOMAIN req = Request /\ \A i \in Request : DOMAIN req[i] = Fields
      /\ Spread
  BY ClashStays DEF Records
<1>2. ASSUME \A q \in Request : Busy(q)' => Busy(q) /\ Job(q)' = Job(q)
      PROVE  Spread'
  <2> SUFFICES ASSUME NEW p \in Request, NEW q \in Request, p # q, Busy(p)', Busy(q)'
               PROVE  ~ Meddles(Job(p)', Job(q)')
    BY DEF Spread, Meddles, Writes
  <2>1. ~ Meddles(Job(p), Job(q))
    BY <1>1, <1>2 DEF Spread
  <2> QED
    BY <1>2, <2>1
<1>3. ASSUME NEW r \in Request, NEW j \in Jobs[r], Start(r, j)
      PROVE  Spread'
  <2>1. Busy(r)' => Apart(r, j)
    BY <1>1, <1>3 DEF Start, Busy, Ended, Fields
  <2>2. \A q \in Request \ {r} : Busy(q)' = Busy(q) /\ Job(q)' = Job(q)
    BY <1>1, <1>3 DEF Start, Busy, Job
  <2>3. Job(r)' = j
    BY <1>1, <1>3 DEF Start, Job, Fields
  <2> SUFFICES ASSUME NEW p \in Request, NEW q \in Request, p # q, Busy(p)', Busy(q)'
               PROVE  ~ Meddles(Job(p)', Job(q)')
    BY DEF Spread, Meddles, Writes
  <2>4. CASE p = r
    BY <2>1, <2>2, <2>3, <2>4 DEF Apart
  <2>5. CASE q = r
    BY <2>1, <2>2, <2>3, <2>5 DEF Apart
  <2>6. CASE p # r /\ q # r
    BY <1>1, <2>2, <2>6 DEF Spread
  <2> QED
    BY <2>4, <2>5, <2>6
<1>4. CASE req' = req
  BY <1>2, <1>4 DEF Busy, Job
<1>5. ASSUME NEW r \in Request, Handle(r) \/ Lose(r)
      PROVE  Spread'
  BY <1>2, <1>5, HandleKeepsJobs
<1> QED
  BY <1>3, <1>4, <1>5
     DEF Next, CreateMultipart, Grant, Revoke, Collect, List, Delete, Forget, LoseCollector, Tick,
         vars

----------------------------------------------------------------------------
(* The theorems *)

(* To begin with nothing is sent, referenced or recorded. *)
LEMMA InitInvariant ==
  ASSUME Init
  PROVE  IInv
<1>1. /\ Grace \in Nat
      /\ \A s \in Segment : age[s] = NoRow
      /\ stored = {} /\ leaked = {} /\ gc = CollectorIdle
  BY S3Assumption DEF Init
<1>2. \A k \in Key : objects[k].segments = <<>>
  BY DEF Init, Absent
<1>3. \A u \in Upload : DOMAIN uploads[u] = {"state", "parts"} /\ DOMAIN uploads[u].parts = {}
  BY DEF Init
<1>4. \A s : s \notin References(objects, uploads)
  <2>1. \A u \in Upload : PartSegments(uploads, u) = {}
    BY <1>3 DEF PartSegments
  <2> QED
    BY <1>2, <2>1, ToSetEmpty, ReferencedBy
<1>5. \A r \in Request : req[r] = Idle
  BY DEF Init
<1>6. Shape
  <2>1. NoRow \in NoRow..Ancient
    BY <1>1 DEF NoRow, Ancient
  <2>2. age \in [Segment -> NoRow..Ancient]
    BY <2>1 DEF Init
  <2>3. DOMAIN req = Request /\ DOMAIN objects = Key /\ DOMAIN uploads = Upload
    BY DEF Init
  <2>4. DOMAIN gc = {"pc", "todo", "hand"}
    BY <1>1 DEF CollectorIdle
  <2>5. <<>> \in Seq(Segment)
    OBVIOUS
  <2> QED
    BY <1>1, <1>2, <1>3, <2>2, <2>3, <2>4, <2>5 DEF Shape
<1>7. ASSUME NEW r \in Request
      PROVE  RequestOK(r) /\ ~ Busy(r)
  <2>1. Typed(r) /\ req[r].pc = "new" /\ req[r].segments = <<>>
    <3>1. DOMAIN req[r] = Fields
      BY <1>5 DEF Idle, Fields
    <3>2. req[r].pc = "new" /\ req[r].segments = <<>>
      BY <1>5 DEF Idle
    <3>3. <<>> \in Seq(Segment)
      OBVIOUS
    <3> QED
      BY <3>1, <3>2, <3>3 DEF Typed, Places
  <2>2. \A n \in 1..MaxBody : <<r, n>> \in Segment
    BY DEF Segment
  <2> QED
    BY <1>1, <2>1, <2>2 DEF RequestOK, Bare, Sending, Unrecorded, Holds, Busy
<1>8. SegmentsOK
  BY <1>1, <1>4 DEF SegmentsOK, Living, Collecting, Unmarked, NoLeak, CollectorIdle, NoRow, Live
<1> QED
  BY <1>6, <1>7, <1>8 DEF IInv

(* Every step keeps the invariant. *)
LEMMA NextInvariant ==
  ASSUME IInv, [Next]_vars
  PROVE  IInv'
<1>1. ASSUME NEW r \in Request, Handle(r)
      PROVE  IInv'
  BY <1>1, SendStep, FailStep, RecordStep, ObjectReadStep, PartsReadStep, PageStep, RefuseStep,
     ReplaceObjectStep, ReplacePartStep, CompleteMultipartStep, AbortMultipartStep,
     DeleteObjectStep, DropBucketStep
     DEF Handle, Write
<1> QED
  BY <1>1, FailStep, StartStep, PlainStep, CollectStep, TickStep DEF Next

(* The inductive invariant holds throughout. *)
THEOREM GatewayInvariant == Spec => []IInv
<1>1. Init => IInv
  BY InitInvariant
<1>2. IInv /\ [Next]_vars => IInv'
  BY NextInvariant
<1> QED
  BY <1>1, <1>2, PTL DEF Spec

(* What objects and parts are made of is in the store, whatever overlaps and  *)
(* however long requests last: but for what a completion refers to when it is *)
(* an orphan already, and what a request holds for longer than the grace.     *)
THEOREM LiveSegmentsAreStored == Spec => []LiveKept
<1>1. IInv => LiveKept
  BY DEF IInv, SegmentsOK, Living, LiveKept
<1> QED
  BY <1>1, GatewayInvariant, PTL

(* Within the grace nothing that a request has in hand is collected. *)
THEOREM HandsAreStored == Spec => []InHandKept
<1>1. IInv => InHandKept
  BY DEF IInv, RequestOK, Holds, InHandKept
<1> QED
  BY <1>1, GatewayInvariant, PTL

(* orphaned_at tells which segments nothing references, but for the strayed *)
(* and for what went with its bucket.                                       *)
THEOREM OrphansAreExact == Spec => []OrphansExact
<1>1. IInv => OrphansExact
  BY DEF IInv, SegmentsOK, Living, Unmarked, OrphansExact
<1> QED
  BY <1>1, GatewayInvariant, PTL

(* No message is forgotten but those that a failure left behind. *)
THEOREM NothingLeaks == Spec => []NoLeak
<1>1. IInv => NoLeak
  BY DEF IInv, SegmentsOK
<1> QED
  BY <1>1, GatewayInvariant, PTL

----------------------------------------------------------------------------
(* The bucket, however requests overlap and however long they last *)

Owned ==
  /\ DOMAIN objects = Key /\ DOMAIN uploads = Upload
  /\ \A u \in Upload : DOMAIN uploads[u] = {"state", "parts"}
  /\ GoneIsEmpty

(* Objects and uploads appear only in a bucket that exists at that moment, *)
(* which the foreign keys see to, and grants with them.                    *)
LEMMA OwnedStep ==
  ASSUME Owned, [Next]_vars
  PROVE  Owned'
<1>1. CASE UNCHANGED <<bucket, grant, objects, uploads>>
  BY <1>1 DEF Owned, GoneIsEmpty, Empty, Present, IsOpen
<1>2. ASSUME NEW r \in Request, ReplaceObject(r)
      PROVE  Owned'
  <2>1. bucket /\ bucket' = bucket /\ uploads' = uploads /\ DOMAIN objects' = DOMAIN objects
    BY <1>2 DEF ReplaceObject, Referable, Making, rights, PutRow
  <2> QED
    BY <2>1 DEF Owned, GoneIsEmpty
<1>3. ASSUME NEW r \in Request, ReplacePart(r)
      PROVE  Owned'
  <2>1. UNCHANGED <<bucket, grant, objects>> /\ DOMAIN uploads' = DOMAIN uploads
    BY <1>3 DEF ReplacePart, rights
  <2>2. \A u \in Upload : DOMAIN uploads'[u] = {"state", "parts"}
                          /\ uploads'[u].state = uploads[u].state
    <3>1. PICK v, parts : uploads' = [uploads EXCEPT ![v].parts = parts]
      BY <1>3 DEF ReplacePart
    <3> QED
      BY <3>1 DEF Owned
  <2> QED
    BY <2>1, <2>2 DEF Owned, GoneIsEmpty, Empty, Present, IsOpen
<1>4. ASSUME NEW r \in Request, CompleteMultipart(r)
      PROVE  Owned'
  <2>1. bucket /\ bucket' = bucket /\ DOMAIN objects' = DOMAIN objects
    BY <1>4 DEF CompleteMultipart, Referable, Making, rights, PutRow
  <2>2. DOMAIN uploads' = Upload /\ \A u \in Upload : DOMAIN uploads'[u] = {"state", "parts"}
    BY <1>4 DEF CompleteMultipart, CloseUpload, Closed, Owned
  <2> QED
    BY <2>1, <2>2 DEF Owned, GoneIsEmpty
<1>5. ASSUME NEW r \in Request, AbortMultipart(r)
      PROVE  Owned'
  <2>1. UNCHANGED <<bucket, grant, objects>>
    BY <1>5 DEF AbortMultipart, rights
  <2>2. /\ DOMAIN uploads' = Upload
        /\ \A u \in Upload : uploads'[u] \in {Closed, uploads[u]}
    BY <1>5 DEF AbortMultipart, CloseUpload, Owned
  <2>3. DOMAIN Closed = {"state", "parts"} /\ Closed.state # "open"
    BY DEF Closed
  <2> QED
    BY <2>1, <2>2, <2>3 DEF Owned, GoneIsEmpty, Empty, Present, IsOpen
<1>6. ASSUME NEW r \in Request, DeleteObject(r)
      PROVE  Owned'
  <2>1. UNCHANGED <<bucket, grant, uploads>>
    BY <1>6 DEF DeleteObject, RemoveObject, rights
  <2>2. DOMAIN objects' = Key /\ \A k \in Key : objects'[k] \in {Absent, objects[k]}
    BY <1>6 DEF DeleteObject, RemoveObject, Owned
  <2> QED
    BY <2>1, <2>2 DEF Owned, GoneIsEmpty, Empty, Present, IsOpen
<1>7. ASSUME NEW r \in Request, MakeBucket(r)
      PROVE  Owned'
  BY <1>7 DEF MakeBucket, Owned, GoneIsEmpty
<1>8. ASSUME NEW r \in Request, DropBucket(r)
      PROVE  Owned'
  <2>1. /\ DOMAIN objects' = Key /\ \A k \in Key : objects'[k] = Absent
        /\ DOMAIN uploads' = Upload /\ \A a \in Access : grant'[a] = "none"
        /\ \A u \in Upload : uploads'[u] = IF IsOpen(u) THEN Closed ELSE uploads[u]
    BY <1>8 DEF DropBucket
  <2>2. DOMAIN Closed = {"state", "parts"} /\ Closed.state # "open"
    BY DEF Closed
  <2> QED
    BY <2>1, <2>2 DEF Owned, GoneIsEmpty, Empty, Present, IsOpen
<1>9. ASSUME NEW u \in Upload, CreateMultipart(u)
      PROVE  Owned'
  BY <1>9 DEF CreateMultipart, rights, Owned, GoneIsEmpty
<1>10. ASSUME NEW g \in Grants, Grant(g[1], g[2])
       PROVE  Owned'
  BY <1>10 DEF Grant, Owned, GoneIsEmpty
<1>11. ASSUME NEW r \in Request, Handle(r), ~ Write(r)
       PROVE  UNCHANGED <<bucket, grant, objects, uploads>>
  BY <1>11 DEF Handle, Send, FailSend, Record, FailRecord, LookAtObject, ListObject, Deliver,
               LookAtParts, ListPart, Page, CheckBucket, Refuse, rights
<1>12. ASSUME NEW r \in Request, Write(r)
       PROVE  Owned'
  BY <1>2, <1>3, <1>4, <1>5, <1>6, <1>7, <1>8, <1>12 DEF Write
<1>13. ASSUME NEW r \in Request, Lose(r) \/ \E j \in Jobs[r] : Start(r, j)
       PROVE  UNCHANGED <<bucket, grant, objects, uploads>>
  BY <1>13 DEF Lose, Start, rights
<1>14. CASE \/ \E a \in Revocable : Revoke(a)
            \/ Collect \/ LoseCollector \/ Tick \/ UNCHANGED vars
  BY <1>1, <1>14 DEF Revoke, Collect, List, Delete, Forget, LoseCollector, Tick, rights, vars
<1> QED
  BY <1>1, <1>9, <1>10, <1>11, <1>12, <1>13, <1>14 DEF Next

(* A bucket that is deleted leaves nothing behind, whatever its deletion overtakes. *)
THEOREM GoneBucketIsEmpty == Spec => []GoneIsEmpty
<1>1. Init => Owned
  BY DEF Init, Owned, GoneIsEmpty
<1>2. Owned /\ [Next]_vars => Owned'
  BY OwnedStep
<1>3. Owned => GoneIsEmpty
  BY DEF Owned
<1> QED
  BY <1>1, <1>2, <1>3, PTL DEF Spec
----------------------------------------------------------------------------
(* Listings, however requests overlap and however long they last *)

(* Among finitely many numbers there is a greatest. *)
LEMMA GreatestNumber ==
  ASSUME NEW S \in SUBSET Nat, IsFiniteSet(S), S # {}
  PROVE  Max(S) \in S /\ \A k \in S : k <= Max(S)
<1> DEFINE Below(k) == {m \in S : m > k}
           B == {Below(k) : k \in S}
<1>1. B \in SUBSET SUBSET S /\ B # {}
  OBVIOUS
<1>2. PICK T \in B : \A U \in B : U \subseteq T => U = T
  <2> DEFINE R == S
  <2>1. IsFiniteSet(R) /\ B \in SUBSET SUBSET R /\ B # {}
    BY <1>1
  <2> HIDE DEF B, R
  <2>2. \E T \in B : \A U \in B : U \subseteq T => U = T
    BY <2>1, LeastSet
  <2> QED
    BY <2>2
<1>3. PICK k \in S : T = Below(k)
  OBVIOUS
<1>4. ASSUME NEW m \in S, m > k
      PROVE  FALSE
  <2>1. m \in Nat /\ k \in Nat /\ \A x \in S : x \in Nat
    OBVIOUS
  <2>2. Below(m) \subseteq Below(k) /\ m \in Below(k) /\ m \notin Below(m)
    <3>1. /\ \A x \in S : x > m => x > k
          /\ ~ (m > m)
      <4> HIDE DEF Below, B
      <4> QED
        BY <1>4, <2>1
    <3> QED
      BY <1>4, <3>1, Zenon
  <2>3. Below(m) \in B
    OBVIOUS
  <2> HIDE DEF Below, B
  <2> QED
    BY <1>2, <1>3, <2>2, <2>3
<1>5. k \in S /\ \A m \in S : k >= m
  BY <1>4
<1>6. Max(S) \in S /\ \A m \in S : Max(S) >= m
  BY <1>5 DEF Max
<1> QED
  BY <1>6

(* A page holds the first rows; it is empty, or not all, only if it has to be. *)
LEMMA FirstRows ==
  ASSUME NEW rows \in SUBSET Nat, IsFiniteSet(rows), NEW n \in Nat \ {0}
  PROVE  LET page == FirstOf(rows, n) IN
         /\ page \subseteq rows /\ IsFiniteSet(page)
         /\ \A k \in page, m \in rows : m < k => m \in page
         /\ Cardinality(rows) > n => page # {}
         /\ ~ (Cardinality(rows) > n) => page = rows
<1> DEFINE page == FirstOf(rows, n)
           Less(k) == {m \in rows : m < k}
<1>1. \A k : k \in page <=> k \in rows /\ Cardinality(Less(k)) < n
  BY DEF FirstOf
<1>2. page \subseteq rows
  BY <1>1
<1>3. IsFiniteSet(page)
  <2> HIDE DEF page
  <2> QED
    BY <1>2, FS_Subset
<1>4. \A k : /\ IsFiniteSet(Less(k)) /\ Cardinality(Less(k)) \in Nat
             /\ Cardinality(Less(k)) <= Cardinality(rows)
             /\ Cardinality(Less(k)) = Cardinality(rows) => Less(k) = rows
  <2> TAKE k
  <2>1. Less(k) \in SUBSET rows
    OBVIOUS
  <2> HIDE DEF Less
  <2> QED
    BY <2>1, FS_Subset, FS_CardinalityType
<1>5. Cardinality(rows) \in Nat
  BY FS_CardinalityType
<1>6. ASSUME NEW k \in page, NEW m \in rows, m < k
      PROVE  m \in page
  <2>1. Less(m) \in SUBSET Less(k)
    <3>1. k \in Nat /\ m \in Nat /\ \A x \in rows : x \in Nat
      BY <1>2
    <3>2. \A x \in rows : x < m => x < k
      <4> HIDE DEF Less, page
      <4> QED
        BY <1>6, <3>1
    <3> QED
      BY <3>2, Zenon
  <2>2. Cardinality(Less(m)) <= Cardinality(Less(k))
    <3> HIDE DEF Less
    <3> QED
      BY <1>4, <2>1, FS_Subset
  <2>3. Cardinality(Less(k)) < n /\ Cardinality(Less(k)) \in Nat /\ Cardinality(Less(m)) \in Nat
    BY <1>1, <1>4
  <2>4. Cardinality(Less(m)) < n
    <3> HIDE DEF Less
    <3> QED
      BY <2>2, <2>3
  <2> QED
    BY <1>1, <2>4
<1>7. ASSUME Cardinality(rows) > n
      PROVE  page # {}
  <2>1. rows # {}
    BY <1>7, FS_EmptySet
  <2>2. PICK k \in rows : \A m \in rows : k <= m
    BY <2>1, LeastNumber
  <2>3. Less(k) = {}
    <3>1. \A x \in rows : x \in Nat
      OBVIOUS
    <3>2. \A x \in rows : ~ (x < k)
      <4> HIDE DEF Less, page
      <4> QED
        BY <2>2, <3>1
    <3> QED
      BY <3>2, Zenon
  <2>4. Cardinality(Less(k)) = 0
    <3> HIDE DEF Less
    <3> QED
      BY <2>3, FS_EmptySet
  <2>5. Cardinality(Less(k)) < n
    <3> HIDE DEF Less
    <3> QED
      BY <2>4
  <2> QED
    BY <1>1, <2>5
<1>8. ASSUME ~ (Cardinality(rows) > n), NEW k \in rows
      PROVE  k \in page
  <2>1. Less(k) # rows
    <3>1. k \notin Less(k)
      OBVIOUS
    <3> QED
      BY <3>1
  <2> DEFINE a == Cardinality(Less(k))
             b == Cardinality(rows)
  <2>2. a \in Nat /\ b \in Nat /\ a <= b /\ a # b /\ b <= n
    BY <1>4, <1>5, <1>8, <2>1
  <2>3. a < n
    <3> HIDE DEF a, b
    <3> QED
      BY <2>2
  <2> QED
    BY <1>1, <2>3
<1> HIDE DEF page
<1> QED
  BY <1>2, <1>3, <1>6, <1>7, <1>8 DEF page
(* What a listing reports, page after page. *)
Entry(j) == {j.folder[k] : k \in Key}
Reported(seen, e) == \E i \in 1..Len(seen) : e \in seen[i]

(* Keys are reported in their order: what was reported is behind the token. *)
OnceEach(j, seen) ==
  \A k \in Key : j.folder[k] = k =>
    \A m, n \in 1..Len(seen) : k \in seen[m] /\ k \in seen[n] => m = n
Behind(j, seen, after) ==
  \A k \in Key : j.folder[k] = k /\ Reported(seen, k) => k <= after

(* A key that stays is there, and reported if the token has passed it. *)
Staying(present, j, seen, after, stay) ==
  \A k \in stay : k \in present /\ k \in j.under
                  /\ (k <= after => Reported(seen, j.folder[k]))

Listed(r) ==
  LET q == req[r] IN
  /\ q.pc \in {"paging", "done", "refused"}
  /\ q.seen \in Seq(SUBSET Entry(q.job)) /\ q.after \in Int
  /\ OnceEach(q.job, q.seen)
  /\ q.pc = "paging" => /\ Behind(q.job, q.seen, q.after)
                        /\ Staying(Present, q.job, q.seen, q.after, q.stay)
  /\ q.pc = "done" => \A k \in q.stay : Reported(q.seen, q.job.folder[k])

ListingOk(r) ==
  /\ req[r].pc = "new" =>
       req[r].job.op # "list" /\ req[r].seen = <<>> /\ req[r].after = Before
  /\ req[r].pc # "new" => req[r].job \in Jobs[r]
  /\ req[r].job.op = "list" => Listed(r)

ListingsOk ==
  /\ Records /\ DOMAIN objects = Key
  /\ \A r \in Request : ListingOk(r)

(* What any step but a page of its own does to a listing. *)
Calm(q) ==
  /\ DOMAIN req'[q] = Fields
  /\ req'[q].job = req[q].job /\ req'[q].seen = req[q].seen /\ req'[q].after = req[q].after
  /\ req'[q].stay \subseteq req[q].stay
  /\ \/ req'[q].pc = req[q].pc
     \/ /\ req[q].pc # "new" /\ req'[q].pc # "new"
        /\ req[q].job.op = "list" => req'[q].pc = "refused"
  /\ \A k \in req'[q].stay : k \in Present => k \in Present'

LEMMA CalmKeeps ==
  ASSUME NEW q \in Request, ListingOk(q), Calm(q)
  PROVE  ListingOk(q)'
<1>1. ASSUME req[q].job.op = "list"
      PROVE  Listed(q)'
  <2>1. Listed(q)
    BY <1>1 DEF ListingOk
  <2>2. req'[q].pc \in {req[q].pc, "refused"}
    BY <1>1 DEF Calm
  <2>3. /\ req'[q].seen = req[q].seen /\ req'[q].after = req[q].after
        /\ req'[q].job = req[q].job
    BY DEF Calm
  <2>4. ASSUME req'[q].pc = "paging"
        PROVE  Staying(Present', req[q].job, req[q].seen, req[q].after, req'[q].stay)
    <3>1. req[q].pc = "paging"
      BY <2>2, <2>4
    <3>2. Staying(Present, req[q].job, req[q].seen, req[q].after, req[q].stay)
      BY <2>1, <3>1 DEF Listed
    <3>3. \A k \in req'[q].stay : k \in req[q].stay /\ (k \in Present => k \in Present')
      BY DEF Calm
    <3> QED
      BY <3>2, <3>3, Zenon DEF Staying
  <2>5. ASSUME req'[q].pc = "done"
        PROVE  \A k \in req'[q].stay : Reported(req[q].seen, req[q].job.folder[k])
    <3>1. req[q].pc = "done" /\ req'[q].stay \subseteq req[q].stay
      BY <2>2, <2>5 DEF Calm
    <3> QED
      BY <2>1, <3>1 DEF Listed
  <2>6. /\ req[q].seen \in Seq(SUBSET Entry(req[q].job)) /\ req[q].after \in Int
        /\ OnceEach(req[q].job, req[q].seen)
    BY <2>1 DEF Listed
  <2>7. req'[q].pc = "paging" => Behind(req[q].job, req[q].seen, req[q].after)
    BY <2>1, <2>2 DEF Listed
  <2>8. req'[q].pc \in {"paging", "done", "refused"}
    BY <2>1, <2>2 DEF Listed
  <2> QED
    BY <2>3, <2>4, <2>5, <2>6, <2>7, <2>8 DEF Listed
<1>2. /\ req'[q].pc = "new" => req[q].pc = "new"
      /\ req'[q].pc # "new" => req[q].pc # "new"
  BY DEF Calm
<1> QED
  BY <1>1, <1>2 DEF ListingOk, Calm
(* A request leaves the listings alone that it is not. *)
LEMMA OthersCalm ==
  ASSUME ListingsOk, NEW r \in Request, NEW q \in Request, q # r,
         req'[q] = req[q], \A k \in Key : k \in Present => k \in Present'
  PROVE  Calm(q)
<1>1. DOMAIN req[q] = Fields
  BY DEF ListingsOk, Records
<1>2. \A k : k \in Present => k \in Key
  BY DEF Present
<1> QED
  BY <1>1, <1>2 DEF Calm

(* A new object hides no other. *)
LEMMA PutKeeps ==
  ASSUME DOMAIN objects = Key, NEW k, NEW r \in Request, NEW size, NEW segments,
         PutRow(k, r, size, segments)
  PROVE  \A i \in Key : i \in Present => i \in Present'
<1>1. [id |-> r, size |-> size, segments |-> segments] # Absent
  <2>1. r # "none"
    BY S3Assumption
  <2> QED
    BY <2>1 DEF Absent
<1>2. \A i \in Key : \/ objects'[i] = objects[i]
                     \/ objects'[i] = [id |-> r, size |-> size, segments |-> segments]
  BY DEF PutRow
<1> QED
  BY <1>1, <1>2 DEF Present

(* Handlers that end, or move on, without reporting anything. *)
LEMMA EndCalm ==
  ASSUME ListingsOk, NEW r \in Request, NEW p, End(r, p), p # "new", req[r].pc # "new",
         req[r].job.op = "list" => p = "refused",
         \A k \in Key : k \in Present => k \in Present',
         NEW q \in Request
  PROVE  Calm(q)
<1>1. DOMAIN req = Request /\ DOMAIN req[q] = Fields
  BY DEF ListingsOk, Records
<1>2. CASE q = r
  <2>1. /\ DOMAIN req'[r] = Fields /\ req'[r].pc = p /\ req'[r].job = req[r].job
        /\ req'[r].seen = req[r].seen /\ req'[r].after = req[r].after
        /\ req'[r].stay = req[r].stay
    BY <1>1, <1>2 DEF End, Fields
  <2>2. \A k : k \in Present => k \in Key
    BY DEF Present
  <2> QED
    BY <1>2, <2>1, <2>2 DEF Calm
<1>3. CASE q # r
  <2>1. req'[q] = req[q]
    BY <1>1, <1>3 DEF End
  <2> QED
    BY <1>3, <2>1, OthersCalm
<1> QED
  BY <1>2, <1>3

(* Handlers that read or record: they are no listings. *)
LEMMA ReadCalm ==
  ASSUME ListingsOk, NEW r \in Request,
         Record(r) \/ LookAtObject(r) \/ ListObject(r) \/ LookAtParts(r) \/ ListPart(r),
         NEW q \in Request
  PROVE  Calm(q)
<1>1. /\ DOMAIN req = Request /\ \A i \in Request : DOMAIN req[i] = Fields
      /\ ListingOk(r)
  BY DEF ListingsOk, Records
<1>2. UNCHANGED objects /\ req[r].pc \in {"recording", "looking", "listing"}
  BY DEF Record, LookAtObject, ListObject, LookAtParts, ListPart
<1>3. req[r].job.op # "list" /\ Present' = Present
  BY <1>1, <1>2 DEF ListingOk, Listed, Present
<1>4. /\ \A i \in Request \ {r} : req'[i] = req[i]
      /\ DOMAIN req'[r] = Fields /\ req'[r].pc # "new"
      /\ req'[r].job = req[r].job /\ req'[r].seen = req[r].seen
      /\ req'[r].after = req[r].after /\ req'[r].stay = req[r].stay
  <2>1. CASE Record(r)
    BY <1>1, <2>1 DEF Record, Fields
  <2>2. CASE LookAtObject(r)
    BY <1>1, <2>2 DEF LookAtObject, Fields
  <2>3. CASE ListObject(r)
    <3>1. PICK segments :
            req' = [req EXCEPT ![r].pc = IF Job(r).op = "get" THEN "reading" ELSE "writing",
                               ![r].segments = segments]
      BY <2>3 DEF ListObject
    <3> QED
      BY <1>1, <3>1 DEF Fields
  <2>4. CASE LookAtParts(r)
    <3>1. PICK pc, size :
            /\ req' = [req EXCEPT ![r].pc = pc, ![r].left = Job(r).numbers, ![r].size = size]
            /\ pc \in {"listing", "refused"}
      BY <2>4 DEF LookAtParts
    <3> QED
      BY <1>1, <3>1 DEF Fields
  <2>5. CASE ListPart(r)
    <3>1. PICK segments, left, pc :
            /\ req' = [req EXCEPT ![r].segments = segments, ![r].left = left, ![r].pc = pc]
            /\ pc \in {"writing", req[r].pc}
      BY <2>5 DEF ListPart
    <3> QED
      BY <1>1, <1>2, <3>1 DEF Fields
  <2> QED
    BY <2>1, <2>2, <2>3, <2>4, <2>5
<1>5. CASE q = r
  BY <1>2, <1>3, <1>4, <1>5 DEF Calm
<1>6. CASE q # r
  BY <1>3, <1>4, <1>6, OthersCalm
<1> QED
  BY <1>5, <1>6

(* Handlers that delete keys: they tell the listings. *)
LEMMA GoneCalm ==
  ASSUME ListingsOk, NEW r \in Request, DeleteObject(r) \/ DropBucket(r), NEW q \in Request
  PROVE  Calm(q)
<1>1. /\ DOMAIN req = Request /\ \A i \in Request : DOMAIN req[i] = Fields
      /\ ListingOk(r) /\ DOMAIN objects = Key
  BY DEF ListingsOk, Records
<1>2. req[r].job.op # "list" /\ req[r].pc \in {"writing", "deciding"}
  BY DEF DeleteObject, DropBucket, Job
<1>3. PICK keys, reqs :
        /\ req' = Gone(keys, reqs)
        /\ \A k \in Key \ keys : objects'[k] = objects[k]
        /\ \A i \in Request : /\ DOMAIN reqs[i] = Fields
                              /\ i # r => reqs[i] = req[i]
        /\ reqs[r].pc # "new" /\ reqs[r].job = req[r].job
        /\ reqs[r].seen = req[r].seen /\ reqs[r].after = req[r].after
        /\ reqs[r].stay = req[r].stay
  <2>1. CASE DeleteObject(r)
    <3> DEFINE k == Head(req[r].left)
               after == [req EXCEPT ![r].left = Tail(@),
                                    ![r].pc = IF Len(req[r].left) = 1 THEN "done" ELSE @]
    <3>1. req' = Gone({k}, after)
      BY <2>1 DEF DeleteObject
    <3>2. \A i \in Key \ {k} : objects'[i] = objects[i]
      BY <1>1, <2>1 DEF DeleteObject, RemoveObject
    <3>3. /\ \A i \in Request : DOMAIN after[i] = Fields /\ (i # r => after[i] = req[i])
          /\ after[r].pc # "new" /\ after[r].job = req[r].job
          /\ after[r].seen = req[r].seen /\ after[r].after = req[r].after
          /\ after[r].stay = req[r].stay
      BY <1>1, <1>2 DEF Fields
    <3> HIDE DEF k, after
    <3> QED
      BY <3>1, <3>2, <3>3
  <2>2. CASE DropBucket(r)
    <3> DEFINE after == [req EXCEPT ![r].pc = "done"]
    <3>1. req' = Gone(Key, after)
      BY <2>2 DEF DropBucket
    <3>2. /\ \A i \in Request : DOMAIN after[i] = Fields /\ (i # r => after[i] = req[i])
          /\ after[r].pc # "new" /\ after[r].job = req[r].job
          /\ after[r].seen = req[r].seen /\ after[r].after = req[r].after
          /\ after[r].stay = req[r].stay
      BY <1>1 DEF Fields
    <3> HIDE DEF after
    <3> QED
      BY <3>1, <3>2
  <2> QED
    BY <2>1, <2>2
<1>4. /\ DOMAIN req'[q] = Fields /\ req'[q].pc = reqs[q].pc /\ req'[q].job = reqs[q].job
      /\ req'[q].seen = reqs[q].seen /\ req'[q].after = reqs[q].after
      /\ req'[q].stay = reqs[q].stay \ keys
  <2>1. req'[q] = [reqs[q] EXCEPT !.stay = @ \ keys]
    BY <1>3 DEF Gone
  <2> QED
    BY <1>3, <2>1 DEF Fields
<1>5. \A k \in req'[q].stay : k \in Present => k \in Present'
  BY <1>3, <1>4 DEF Present
<1>6. CASE q = r
  BY <1>2, <1>3, <1>4, <1>5, <1>6 DEF Calm
<1>7. CASE q # r
  BY <1>3, <1>4, <1>5, <1>7 DEF Calm
<1> QED
  BY <1>6, <1>7
(* A page reports the first keys behind the token, and the token moves on to *)
(* the last of them; the last page reports all that are left.                *)
LEMMA PageReports ==
  ASSUME NEW j, NEW seen \in Seq(SUBSET Entry(j)), NEW after \in Int, NEW present \in SUBSET Key,
         NEW stay, j.max \in Nat \ {0}, j.under \subseteq Key,
         \A k \in Key : j.folder[k] \in Key => j.folder[k] = k,
         OnceEach(j, seen), Behind(j, seen, after), Staying(present, j, seen, after, stay)
  PROVE  LET rows == {k \in present \cap j.under : k > after}
             page == FirstOf(rows, j.max)
             told == Append(seen, {j.folder[k] : k \in page})
         IN
         /\ told \in Seq(SUBSET Entry(j))
         /\ OnceEach(j, told)
         /\ Cardinality(rows) > j.max =>
              /\ PageEnd(rows, page) \in Int
              /\ Behind(j, told, PageEnd(rows, page))
              /\ Staying(present, j, told, PageEnd(rows, page), stay)
         /\ ~ (Cardinality(rows) > j.max) => \A k \in stay : Reported(told, j.folder[k])
<1> DEFINE rows == {k \in present \cap j.under : k > after}
           page == FirstOf(rows, j.max)
           set == {j.folder[k] : k \in page}
           told == Append(seen, set)
           last == PageEnd(rows, page)
           n == Len(seen)
<1>1. /\ rows \in SUBSET Nat /\ IsFiniteSet(rows)
      /\ \A k : k \in rows <=> k \in present /\ k \in j.under /\ k > after
  <2>1. rows \in SUBSET Key /\ Key \in SUBSET Nat /\ IsFiniteSet(Key)
    BY S3Assumption
  <2>2. \A k : k \in rows <=> k \in present /\ k \in j.under /\ k > after
    OBVIOUS
  <2> HIDE DEF rows
  <2>3. IsFiniteSet(rows)
    BY <2>1, FS_Subset
  <2> QED
    BY <2>1, <2>2, <2>3
<1> HIDE DEF rows
<1>2. /\ page \subseteq rows /\ IsFiniteSet(page)
      /\ \A k \in page, m \in rows : m < k => m \in page
      /\ Cardinality(rows) > j.max => page # {}
      /\ ~ (Cardinality(rows) > j.max) => page = rows
  BY <1>1, FirstRows
<1> HIDE DEF page
<1>3. page \subseteq Key /\ \A k \in page : k \in Nat /\ k > after
  BY <1>1, <1>2
<1>4. set \in SUBSET Entry(j)
  BY <1>3 DEF Entry
<1>5. /\ told \in Seq(SUBSET Entry(j)) /\ Len(told) = n + 1 /\ n \in Nat
      /\ \A i \in 1..n : told[i] = seen[i]
      /\ told[n + 1] = set
  BY <1>4
<1>6. \A k \in Key : j.folder[k] = k => (k \in set <=> k \in page)
  <2> SUFFICES ASSUME NEW k \in Key, j.folder[k] = k, k \in set
               PROVE  k \in page
    OBVIOUS
  <2>1. PICK m \in page : k = j.folder[m]
    OBVIOUS
  <2>2. m \in Key /\ j.folder[m] \in Key
    BY <1>3, <2>1
  <2> QED
    BY <2>1, <2>2
<1>7. \A k \in page : j.folder[k] \in set
  OBVIOUS
<1> HIDE DEF set, told, n
<1>8. n = Len(seen)
  BY DEF n
<1>9. \A e : Reported(told, e) <=> Reported(seen, e) \/ e \in set
  <2> TAKE e
  <2>1. \A i \in 1..(n + 1) : i \in 1..n \/ i = n + 1
    BY <1>5
  <2>2. \A i \in 1..n : i \in 1..(n + 1)
    BY <1>5
  <2>3. n + 1 \in 1..(n + 1)
    BY <1>5
  <2> QED
    BY <1>5, <1>8, <2>1, <2>2, <2>3, Zenon DEF Reported
<1>10. OnceEach(j, told)
  <2> SUFFICES ASSUME NEW k \in Key, j.folder[k] = k,
                      NEW a \in 1..(n + 1), NEW b \in 1..(n + 1), k \in told[a], k \in told[b]
               PROVE  a = b
    BY <1>5 DEF OnceEach
  <2>1. ASSUME NEW i \in 1..n, k \in seen[i]
        PROVE  k \notin set
    <3>1. k <= after
      BY <1>8, <2>1 DEF Behind, Reported
    <3>2. k \in Nat
      BY S3Assumption
    <3>3. k \notin page
      <4>1. ASSUME k \in page
            PROVE  FALSE
        <5>1. k > after
          BY <1>3, <4>1
        <5> QED
          BY <3>1, <3>2, <5>1
      <4> QED
        BY <4>1
    <3> QED
      BY <1>6, <3>3
  <2>2. \A i \in 1..(n + 1) : i \in 1..n \/ i = n + 1
    BY <1>5
  <2>3. CASE a \in 1..n /\ b \in 1..n
    BY <1>5, <1>8, <2>3 DEF OnceEach
  <2>4. CASE a = n + 1 /\ b \in 1..n
    BY <1>5, <2>1, <2>4
  <2>5. CASE b = n + 1 /\ a \in 1..n
    BY <1>5, <2>1, <2>5
  <2> QED
    BY <2>2, <2>3, <2>4, <2>5
<1>11. ASSUME Cardinality(rows) > j.max
       PROVE  /\ last \in Int
              /\ Behind(j, told, last)
              /\ Staying(present, j, told, last, stay)
  <2>1. last \in page /\ \A k \in page : k <= last
    BY <1>1, <1>2, <1>11, GreatestNumber DEF PageEnd
  <2>2. last \in Nat /\ last > after /\ last \in rows
    BY <1>2, <1>3, <2>1
  <2> HIDE DEF last
  <2>3. Behind(j, told, last)
    <3> SUFFICES ASSUME NEW k \in Key, j.folder[k] = k, Reported(told, k)
                 PROVE  k <= last
      BY DEF Behind
    <3>1. k \in Nat
      BY S3Assumption
    <3>2. CASE Reported(seen, k)
      <4>1. k <= after
        BY <3>2 DEF Behind
      <4> QED
        BY <2>2, <3>1, <4>1
    <3>3. CASE k \in set
      BY <1>6, <2>1, <3>3
    <3> QED
      BY <1>9, <3>2, <3>3
  <2>4. Staying(present, j, told, last, stay)
    <3> SUFFICES ASSUME NEW k \in stay
                 PROVE  /\ k \in present /\ k \in j.under
                        /\ k <= last => Reported(told, j.folder[k])
      BY DEF Staying
    <3>1. /\ k \in present /\ k \in j.under /\ k \in Nat
          /\ k <= after => Reported(seen, j.folder[k])
      BY S3Assumption DEF Staying
    <3>2. CASE k <= after
      BY <1>9, <3>1, <3>2
    <3>3. CASE k > after
      <4>1. k \in rows
        BY <1>1, <3>1, <3>3
      <4>2. ASSUME k <= last
            PROVE  k \in page
        <5>1. k = last \/ k < last
          BY <2>2, <3>1, <4>2
        <5> QED
          BY <1>2, <2>1, <4>1, <5>1
      <4> QED
        BY <1>7, <1>9, <3>1, <4>2
    <3> QED
      BY <3>1, <3>2, <3>3
  <2> QED
    BY <2>2, <2>3, <2>4
<1>12. ASSUME ~ (Cardinality(rows) > j.max), NEW k \in stay
       PROVE  Reported(told, j.folder[k])
  <2>1. /\ k \in present /\ k \in j.under /\ k \in Nat
        /\ k <= after => Reported(seen, j.folder[k])
    BY S3Assumption DEF Staying
  <2>2. CASE k <= after
    BY <1>9, <2>1, <2>2
  <2>3. CASE k > after
    BY <1>1, <1>2, <1>7, <1>9, <1>12, <2>1, <2>3
  <2> QED
    BY <2>1, <2>2, <2>3
<1> QED
  BY <1>5, <1>10, <1>11, <1>12 DEF rows, page, set, told
(* A request arrives. *)
LEMMA StartLists ==
  ASSUME ListingsOk, NEW r \in Request, NEW j \in Jobs[r], Start(r, j)
  PROVE  \A q \in Request : ListingOk(q)'
<1>1. /\ DOMAIN req = Request /\ \A i \in Request : DOMAIN req[i] = Fields /\ ListingOk(i)
  BY DEF ListingsOk, Records
<1>2. WellFormed(j)
  BY S3Assumption
<1>3. /\ \A i \in Request \ {r} : req'[i] = req[i]
      /\ req'[r].job = j /\ req'[r].seen = <<>> /\ req'[r].after = Before
      /\ req'[r].pc # "new"
      /\ j.op = "list" => /\ req'[r].pc \in {"paging", "refused"}
                          /\ req'[r].stay = Present \cap j.under
  BY <1>1, <1>2 DEF Start, Fields, ListingOk, WellFormed, Ops, Reading, Making, MultipartOps
<1>4. Present' = Present
  BY DEF Start, Present
<1>5. ASSUME NEW q \in Request, q # r
      PROVE  ListingOk(q)'
  BY <1>1, <1>3, <1>4, <1>5, OthersCalm, CalmKeeps
<1>6. ListingOk(r)'
  <2>1. ASSUME j.op = "list"
        PROVE  Listed(r)'
    <3> DEFINE none == <<>>
    <3>1. none \in Seq(SUBSET Entry(j)) /\ Len(none) = 0
      OBVIOUS
    <3> HIDE DEF none
    <3>2. \A e : ~ Reported(none, e)
      BY <3>1 DEF Reported
    <3>3. OnceEach(j, none) /\ Behind(j, none, Before)
      BY <3>1, <3>2 DEF OnceEach, Behind
    <3>4. Staying(Present', j, none, Before, Present \cap j.under)
      <4> SUFFICES ASSUME NEW k \in Present \cap j.under
                   PROVE  k \in Present' /\ ~ (k <= Before)
        BY DEF Staying
      <4>1. k \in Nat
        BY S3Assumption DEF Present
      <4> QED
        BY <1>4, <4>1 DEF Before
    <3>5. Before \in Int
      BY DEF Before
    <3>6. req'[r].seen = none
      BY <1>3 DEF none
    <3> QED
      BY <1>3, <2>1, <3>1, <3>3, <3>4, <3>5, <3>6 DEF Listed
  <2> QED
    BY <1>3, <2>1 DEF ListingOk
<1> QED
  BY <1>5, <1>6

(* A listing reports another page. *)
LEMMA PageLists ==
  ASSUME ListingsOk, NEW r \in Request, Page(r)
  PROVE  \A q \in Request : ListingOk(q)'
<1> DEFINE j == req[r].job
           after == req[r].after
           seen == req[r].seen
           rows == {k \in Present \cap j.under : k > after}
           page == FirstOf(rows, j.max)
           told == Append(seen, {j.folder[k] : k \in page})
           more == Cardinality(rows) > j.max
<1>1. /\ DOMAIN req = Request /\ \A i \in Request : DOMAIN req[i] = Fields /\ ListingOk(i)
  BY DEF ListingsOk, Records
<1>2. req[r].pc = "paging" /\ Present' = Present
  BY DEF Page, Present
<1>3. ASSUME NEW q \in Request, q # r
      PROVE  ListingOk(q)'
  <2>1. req'[q] = req[q]
    <3>1. PICK s, a, pc :
            req' = [req EXCEPT ![r].seen = s, ![r].after = a, ![r].pc = pc]
      BY DEF Page
    <3> QED
      BY <1>1, <1>3, <3>1
  <2> QED
    BY <1>1, <1>2, <1>3, <2>1, OthersCalm, CalmKeeps
<1>4. /\ req'[r].job = j /\ req'[r].seen = told /\ req'[r].stay = req[r].stay
      /\ req'[r].after = IF more THEN PageEnd(rows, page) ELSE after
      /\ req'[r].pc = IF more THEN "paging" ELSE "done"
  <2>1. req' = [req EXCEPT ![r].seen = told,
                           ![r].after = IF more THEN PageEnd(rows, page) ELSE after,
                           ![r].pc = IF more THEN "paging" ELSE "done"]
    BY <1>1, <1>2 DEF Page, Follow, Job
  <2> HIDE DEF told, more, page, rows, after, j
  <2> QED
    BY <1>1, <2>1 DEF Fields, j
<1>5. ASSUME j.op = "list"
      PROVE  Listed(r)'
  <2>1. Listed(r) /\ WellFormed(j) /\ j \in Jobs[r]
    BY <1>1, <1>2, <1>5, S3Assumption DEF ListingOk
  <2>2. /\ seen \in Seq(SUBSET Entry(j)) /\ after \in Int /\ Present \in SUBSET Key
        /\ OnceEach(j, seen) /\ Behind(j, seen, after)
        /\ Staying(Present, j, seen, after, req[r].stay)
    BY <1>2, <2>1 DEF Listed, Present
  <2>3. /\ j.max \in Nat \ {0} /\ j.under \subseteq Key
        /\ \A k \in Key : j.folder[k] \in Key => j.folder[k] = k
    BY <1>5, <2>1 DEF WellFormed
  <2> HIDE DEF j, seen, after
  <2>4. /\ told \in Seq(SUBSET Entry(j)) /\ OnceEach(j, told)
        /\ more => /\ PageEnd(rows, page) \in Int
                   /\ Behind(j, told, PageEnd(rows, page))
                   /\ Staying(Present, j, told, PageEnd(rows, page), req[r].stay)
        /\ ~ more => \A k \in req[r].stay : Reported(told, j.folder[k])
    BY <2>2, <2>3, PageReports, Zenon
  <2> HIDE DEF told, more, page, rows
  <2>5. req'[r].pc \in {"paging", "done", "refused"} /\ req'[r].after \in Int
    BY <1>4, <2>2, <2>4
  <2>6. req'[r].pc = "paging" =>
          /\ Behind(req'[r].job, req'[r].seen, req'[r].after)
          /\ Staying(Present', req'[r].job, req'[r].seen, req'[r].after, req'[r].stay)
    BY <1>2, <1>4, <2>4
  <2>7. req'[r].pc = "done" => \A k \in req'[r].stay : Reported(req'[r].seen, req'[r].job.folder[k])
    BY <1>4, <2>4
  <2>8. req'[r].seen \in Seq(SUBSET Entry(req'[r].job)) /\ OnceEach(req'[r].job, req'[r].seen)
    BY <1>4, <2>4
  <2> QED
    BY <2>5, <2>6, <2>7, <2>8 DEF Listed
<1>6. req[r].job \in Jobs[r] /\ req'[r].pc # "new" /\ req'[r].job = req[r].job
  BY <1>1, <1>2, <1>4 DEF ListingOk
<1>7. ListingOk(r)'
  BY <1>5, <1>6 DEF ListingOk
<1> QED
  BY <1>3, <1>7

(* Every step of a handler but a page of its own is calm. *)
LEMMA HandleLists ==
  ASSUME ListingsOk, NEW r \in Request, Handle(r) \/ Lose(r)
  PROVE  \A q \in Request : ListingOk(q)'
<1>1. /\ \A i \in Request : ListingOk(i)
      /\ DOMAIN objects = Key
  BY DEF ListingsOk
<1>2. req[r].job.op = "list" => req[r].pc \in {"paging", "done", "refused"}
  BY <1>1 DEF ListingOk, Listed
<1>3. SUFFICES ASSUME ~ Page(r), NEW q \in Request
               PROVE  Calm(q)
  BY <1>1, CalmKeeps, PageLists
<1>4. CASE Record(r) \/ LookAtObject(r) \/ ListObject(r) \/ LookAtParts(r) \/ ListPart(r)
  BY <1>4, ReadCalm
<1>5. CASE DeleteObject(r) \/ DropBucket(r)
  BY <1>5, GoneCalm
<1>6. CASE ReplaceObject(r) \/ CompleteMultipart(r)
  <2>1. \A k \in Key : k \in Present => k \in Present'
    BY <1>1, <1>6, PutKeeps DEF ReplaceObject, CompleteMultipart
  <2>2. End(r, "done") /\ req[r].pc # "new" /\ req[r].job.op # "list"
    BY <1>6 DEF ReplaceObject, CompleteMultipart, Sent, Job
  <2> QED
    BY <2>1, <2>2, EndCalm
<1>7. CASE \/ Send(r) \/ FailSend(r) \/ FailRecord(r) \/ Deliver(r) \/ CheckBucket(r)
           \/ Refuse(r) \/ Lose(r) \/ ReplacePart(r) \/ AbortMultipart(r) \/ MakeBucket(r)
  <2>1. objects' = objects
    BY <1>7 DEF Send, FailSend, FailRecord, Deliver, CheckBucket, Refuse, Lose, ReplacePart,
                AbortMultipart, MakeBucket
  <2>2. Present' = Present
    BY <2>1 DEF Present
  <2>3. \/ End(r, "refused") /\ req[r].pc # "new"
        \/ \E p \in {"recording", "done", "deciding"} :
             End(r, p) /\ req[r].pc # "new" /\ req[r].job.op # "list"
    BY <1>2, <1>7 DEF Send, FailSend, FailRecord, Deliver, CheckBucket, Refuse, Lose, ReplacePart,
                      AbortMultipart, MakeBucket, Sent, Busy, Job
  <2> QED
    BY <2>2, <2>3, EndCalm
<1> QED
  BY <1>3, <1>4, <1>5, <1>6, <1>7 DEF Handle, Write
(* Every step keeps what is said of listings. *)
LEMMA ListingsStep ==
  ASSUME ListingsOk, [Next]_vars
  PROVE  ListingsOk'
<1>1. Records'
  BY RecordsStep DEF ListingsOk
<1>2. DOMAIN objects' = Key
  <2>1. ASSUME NEW r \in Request, Write(r)
        PROVE  DOMAIN objects' = Key
    BY <2>1 DEF Write, ReplaceObject, ReplacePart, CompleteMultipart, AbortMultipart, DeleteObject,
                RemoveObject, MakeBucket, DropBucket, PutRow, ListingsOk
  <2>2. ASSUME NEW r \in Request, Handle(r), ~ Write(r)
        PROVE  objects' = objects
    BY <2>2 DEF Handle, Send, FailSend, Record, FailRecord, LookAtObject, ListObject, Deliver,
                LookAtParts, ListPart, Page, CheckBucket, Refuse
  <2> QED
    BY <2>1, <2>2 DEF Next, Start, Lose, CreateMultipart, Grant, Revoke, Collect, List, Delete,
                      Forget, LoseCollector, Tick, vars, ListingsOk
<1>3. CASE objects' = objects /\ req' = req
  <2>1. ASSUME NEW q \in Request
        PROVE  Calm(q)
    <3>1. DOMAIN req[q] = Fields /\ DOMAIN req'[q] = Fields
      BY <1>1 DEF ListingsOk, Records
    <3>2. /\ req'[q].job = req[q].job /\ req'[q].seen = req[q].seen
          /\ req'[q].after = req[q].after /\ req'[q].stay = req[q].stay
          /\ req'[q].pc = req[q].pc
      BY <1>3
    <3>3. Present' = Present
      BY <1>3 DEF Present
    <3> QED
      BY <3>1, <3>2, <3>3 DEF Calm
  <2> QED
    BY <1>1, <1>2, <2>1, CalmKeeps DEF ListingsOk
<1> QED
  BY <1>1, <1>2, <1>3, StartLists, HandleLists
     DEF Next, CreateMultipart, Grant, Revoke, Collect, List, Delete, Forget, LoseCollector, Tick,
         vars, ListingsOk

(* A listing of many pages, while others put and delete: the keys that stay  *)
(* are reported, and none twice.                                              *)
THEOREM ListingsAreComplete == Spec => []ListedOnce
<1>1. Init => ListingsOk
  <2> SUFFICES ASSUME Init
               PROVE  ListingsOk
    OBVIOUS
  <2>1. DOMAIN req = Request /\ DOMAIN objects = Key /\ \A r \in Request : req[r] = Idle
    BY DEF Init
  <2>2. /\ DOMAIN Idle = Fields /\ Idle.pc = "new" /\ Idle.job.op # "list"
        /\ Idle.seen = <<>> /\ Idle.after = Before
    BY DEF Idle, Fields
  <2> QED
    BY <2>1, <2>2 DEF ListingsOk, Records, ListingOk
<1>2. ListingsOk /\ [Next]_vars => ListingsOk'
  BY ListingsStep
<1>3. ListingsOk => ListedOnce
  <2> SUFFICES ASSUME ListingsOk, NEW r \in Request, Job(r).op = "list"
               PROVE  LET j == Job(r)
                          pages(e) == {i \in DOMAIN req[r].seen : e \in req[r].seen[i]}
                      IN
                      /\ \A k \in Key : j.folder[k] = k => Cardinality(pages(k)) <= 1
                      /\ req[r].pc = "done" => \A k \in req[r].stay : pages(j.folder[k]) # {}
    BY DEF ListedOnce
  <2> DEFINE j == Job(r)
             pages(e) == {i \in DOMAIN req[r].seen : e \in req[r].seen[i]}
  <2>1. Listed(r) /\ j = req[r].job
    BY DEF ListingsOk, ListingOk, Job
  <2>2. DOMAIN req[r].seen = 1..Len(req[r].seen)
    BY <2>1 DEF Listed
  <2>3. ASSUME NEW k \in Key, j.folder[k] = k
        PROVE  Cardinality(pages(k)) <= 1
    <3>1. \A m, n \in pages(k) : m = n
      BY <2>1, <2>2, <2>3 DEF Listed, OnceEach
    <3> DEFINE P == pages(k)
    <3>2. P = {} \/ \E m : P = {m}
      <4>1. \A m, n \in P : m = n
        BY <3>1
      <4> HIDE DEF P
      <4>2. ASSUME NEW m \in P
            PROVE  P = {m}
        BY <4>1
      <4> QED
        BY <4>2
    <3> HIDE DEF P
    <3>3. Cardinality(P) \in {0, 1}
      BY <3>2, FS_EmptySet, FS_Singleton
    <3>4. Cardinality(P) <= 1
      BY <3>3
    <3> QED
      BY <3>4 DEF P
  <2>4. ASSUME req[r].pc = "done", NEW k \in req[r].stay
        PROVE  pages(j.folder[k]) # {}
    BY <2>1, <2>2, <2>4 DEF Listed, Reported
  <2> QED
    BY <2>3, <2>4
<1> QED
  BY <1>1, <1>2, <1>3, PTL DEF Spec
----------------------------------------------------------------------------
(* Objects are whole, as long as requests do not meddle with one another *)

(* An object has the segments it should, and the request that made it is over. *)
ObjectWhole(k) ==
  LET o == objects[k] IN
  /\ o.segments \in Seq(Segment) /\ Len(o.segments) = o.size
  /\ o.id \in Request =>
       req[o.id].pc = "done" /\ req[o.id].job.op \in Making /\ req[o.id].job.key = k
  /\ o.id \notin Request => o.size = 0

PartWhole(p) == p.segments \in Seq(Segment) /\ Len(p.segments) = p.size

PartsWhole(u) ==
  /\ DOMAIN uploads[u] = {"state", "parts"}
  /\ \A i \in DOMAIN uploads[u].parts : PartWhole(uploads[u].parts[i])

(* What the parts that are still to be read amount to. *)
Sizes(parts, numbers) == [i \in 1..Len(numbers) |-> parts[numbers[i]].size]
ToRead(parts, numbers) == SumFunctionOnSet(Sizes(parts, numbers), 1..Len(numbers))

(* What a request knows fits what it has read, and what is left to be read. *)
BodyFits(q) ==
  q.pc \in {"sending", "recording"} =>
    /\ q.job.op \in {"put", "part"} /\ Len(q.segments) <= q.job.n
    /\ q.pc = "recording" => Len(q.segments) < q.job.n
CopyFits(q, objs) ==
  q.pc = "listing" /\ q.job.op = "copy" =>
    objs[q.job.from].id = q.source /\ objs[q.job.from].size = q.size
PartsFit(q, ups) ==
  q.pc = "listing" /\ q.job.op = "complete" =>
    /\ q.left \in Seq(Nat) /\ q.left # <<>>
    /\ \A i \in 1..Len(q.left) : q.left[i] \in DOMAIN ups[q.job.upload].parts
    /\ q.size = Len(q.segments) + ToRead(ups[q.job.upload].parts, q.left)
RowFits(q) ==
  q.pc = "writing" /\ q.job.op \in {"copy", "complete"} => Len(q.segments) = q.size
KeysFit(q) ==
  q.pc = "writing" /\ q.job.op = "delete" =>
    q.left \in Seq(Key) /\ q.left # <<>> /\ ToSet(q.left) \subseteq ToSet(q.job.keys)

RequestFits(r) ==
  LET q == req[r] IN
  /\ q.pc \in Places
  /\ q.segments \in Seq(Segment)
  /\ q.pc # "new" => q.job \in Jobs[r]
  /\ q.pc \in {"new", "looking"} => q.segments = <<>>
  /\ BodyFits(q) /\ CopyFits(q, objects) /\ PartsFit(q, uploads) /\ RowFits(q) /\ KeysFit(q)

Complete ==
  /\ DOMAIN objects = Key /\ \A k \in Key : ObjectWhole(k)
  /\ DOMAIN uploads = Upload /\ \A u \in Upload : PartsWhole(u)

WholeInv ==
  /\ Records /\ Spread /\ Complete
  /\ \A r \in Request : RequestFits(r)

(* What a request reads in several steps stays as it is. *)
SourcesKept(q) ==
  Busy(q) =>
    /\ Job(q).op = "copy" => objects'[Job(q).from] = objects[Job(q).from]
    /\ Job(q).op = "complete" =>
         uploads'[Job(q).upload].parts = uploads[Job(q).upload].parts

LEMMA KeptFits ==
  ASSUME NEW q \in Request, RequestFits(q), Kept(q), SourcesKept(q)
  PROVE  RequestFits(q)'
<1> DEFINE a == req[q]
           b == req'[q]
<1>1. /\ b.pc = a.pc /\ b.job = a.job /\ b.segments = a.segments /\ b.left = a.left
      /\ b.source = a.source /\ b.size = a.size
  BY DEF Kept
<1>2. a.pc = "listing" => Busy(q)
  BY DEF Busy, Ended
<1>3. a.pc = "listing" /\ a.job.op = "copy" => objects'[a.job.from] = objects[a.job.from]
  BY <1>2 DEF SourcesKept, Job
<1>4. a.pc = "listing" /\ a.job.op = "complete" =>
        uploads'[a.job.upload].parts = uploads[a.job.upload].parts
  BY <1>2 DEF SourcesKept, Job
<1>5. /\ a.pc \in Places /\ a.segments \in Seq(Segment)
      /\ a.pc # "new" => a.job \in Jobs[q]
      /\ a.pc \in {"new", "looking"} => a.segments = <<>>
      /\ BodyFits(a) /\ CopyFits(a, objects) /\ PartsFit(a, uploads) /\ RowFits(a) /\ KeysFit(a)
  BY DEF RequestFits
<1> HIDE DEF a, b
<1>6. /\ b.pc \in Places /\ b.segments \in Seq(Segment)
      /\ b.pc # "new" => b.job \in Jobs[q]
      /\ b.pc \in {"new", "looking"} => b.segments = <<>>
  BY <1>1, <1>5
<1>7. BodyFits(b) /\ RowFits(b) /\ KeysFit(b)
  BY <1>1, <1>5, Zenon DEF BodyFits, RowFits, KeysFit
<1>8. CopyFits(b, objects') /\ PartsFit(b, uploads')
  BY <1>1, <1>3, <1>4, <1>5 DEF CopyFits, PartsFit
<1> QED
  BY <1>6, <1>7, <1>8, Zenon DEF RequestFits, b

(* A request that is over, or about to answer, owes nothing more. *)
LEMMA OverFits ==
  ASSUME NEW r \in Request, RequestFits(r), req[r].pc # "new",
         req'[r].job = req[r].job, req'[r].segments = req[r].segments,
         req'[r].pc \in {"done", "refused", "paging", "deciding"}
  PROVE  RequestFits(r)'
BY DEF RequestFits, BodyFits, CopyFits, PartsFit, RowFits, KeysFit, Places, Ended

(* No other request writes what a busy one reads in several steps. *)
LEMMA OthersKeepSources ==
  ASSUME WholeInv, NEW r \in Request, Handle(r) \/ Lose(r), NEW q \in Request, q # r
  PROVE  SourcesKept(q)
<1>1. Busy(r) /\ RequestFits(r) /\ RequestFits(q)
  BY HandleMoves DEF WholeInv
<1>2. Busy(q) => ~ Meddles(Job(q), Job(r))
  BY <1>1 DEF WholeInv, Spread
<1>3. DOMAIN objects = Key /\ DOMAIN uploads = Upload
      /\ \A u \in Upload : DOMAIN uploads[u] = {"state", "parts"}
  BY DEF WholeInv, Complete, PartsWhole
<1>4. Job(r) = req[r].job /\ Job(q) = req[q].job
  BY DEF Job
<1>5. ASSUME Busy(q), Job(q).op = "complete"
      PROVE  Job(q).upload \in Upload
  BY <1>1, <1>4, <1>5, S3Assumption DEF RequestFits, WellFormed, MultipartOps, Busy
<1>6. ASSUME Busy(q), Job(q).op = "copy"
      PROVE  Job(q).from \in Key /\ Job(q).from \notin Writes(Job(r))
  BY <1>1, <1>2, <1>4, <1>6, S3Assumption DEF RequestFits, WellFormed, Busy, Meddles
<1>7. ASSUME Busy(q), Job(q).op = "copy"
      PROVE  objects'[Job(q).from] = objects[Job(q).from]
  <2>1. CASE ReplaceObject(r) \/ CompleteMultipart(r)
    <3>1. PICK row : objects' = [objects EXCEPT ![Job(r).key] = row]
      BY <2>1 DEF ReplaceObject, CompleteMultipart, PutRow
    <3>2. Job(r).op \in Making
      BY <2>1 DEF ReplaceObject, CompleteMultipart, Making
    <3>3. Job(q).from # Job(r).key
      BY <1>6, <1>7, <3>2 DEF Writes, Making
    <3> QED
      BY <1>3, <1>6, <1>7, <3>1, <3>3
  <2>2. CASE DeleteObject(r)
    <3>1. Job(r).op = "delete" /\ req[r].pc = "writing"
      BY <2>2 DEF DeleteObject
    <3>2. req[r].left \in Seq(Key) /\ req[r].left # <<>>
          /\ ToSet(req[r].left) \subseteq ToSet(Job(r).keys)
      BY <1>1, <1>4, <3>1 DEF RequestFits, KeysFit
    <3>3. Head(req[r].left) \in ToSet(req[r].left)
      <4>1. 1 \in 1..Len(req[r].left) /\ Head(req[r].left) = req[r].left[1]
        BY <3>2
      <4> QED
        BY <3>2, <4>1, InToSet
    <3>4. Writes(Job(r)) = ToSet(Job(r).keys)
      BY <3>1 DEF Writes, Making
    <3>5. Job(q).from # Head(req[r].left)
      BY <1>6, <1>7, <3>2, <3>3, <3>4
    <3> QED
      BY <1>3, <1>6, <1>7, <2>2, <3>5 DEF DeleteObject, RemoveObject
  <2>3. CASE DropBucket(r)
    <3>1. Writes(Job(r)) = Key
      BY <2>3 DEF DropBucket, Writes, Making
    <3> QED
      BY <1>6, <1>7, <3>1
  <2> QED
    BY <2>1, <2>2, <2>3
       DEF Handle, Write, Lose, Send, FailSend, Record, FailRecord, LookAtObject, ListObject,
           Deliver, LookAtParts, ListPart, Page, CheckBucket, Refuse, ReplacePart,
           AbortMultipart, MakeBucket
<1>8. ASSUME Busy(q), Job(q).op = "complete"
      PROVE  uploads'[Job(q).upload].parts = uploads[Job(q).upload].parts
  <2>1. /\ Job(r).op \in {"part", "complete", "abort"} => Job(r).upload # Job(q).upload
        /\ Job(r).op # "drop"
    BY <1>2, <1>8 DEF Meddles
  <2>2. CASE ReplacePart(r)
    <3>1. PICK parts : uploads' = [uploads EXCEPT ![Job(r).upload].parts = parts]
      BY <2>2 DEF ReplacePart
    <3>2. Job(r).upload # Job(q).upload
      BY <2>1, <2>2 DEF ReplacePart
    <3> QED
      BY <1>3, <1>5, <1>8, <3>1, <3>2
  <2>3. CASE CompleteMultipart(r) \/ AbortMultipart(r)
    <3>1. uploads' = [uploads EXCEPT ![Job(r).upload] = Closed]
      BY <2>3 DEF CompleteMultipart, AbortMultipart, CloseUpload
    <3>2. Job(r).upload # Job(q).upload
      BY <2>1, <2>3 DEF CompleteMultipart, AbortMultipart
    <3> QED
      BY <1>3, <1>5, <1>8, <3>1, <3>2
  <2>4. CASE DropBucket(r)
    BY <2>1, <2>4 DEF DropBucket
  <2> QED
    BY <2>2, <2>3, <2>4
       DEF Handle, Write, Lose, Send, FailSend, Record, FailRecord, LookAtObject, ListObject,
           Deliver, LookAtParts, ListPart, Page, CheckBucket, Refuse, ReplaceObject,
           DeleteObject, RemoveObject, MakeBucket
<1> QED
  BY <1>7, <1>8 DEF SourcesKept
(* A request that sends or records another segment. *)
LEMMA SendFits ==
  ASSUME WholeInv, NEW r \in Request, Send(r) \/ Record(r)
  PROVE  RequestFits(r)'
<1> DEFINE q == req[r]
           b == req'[r]
<1>1. RequestFits(r) /\ DOMAIN req = Request /\ DOMAIN q = Fields
  BY DEF WholeInv, Records
<1>2. q.pc \in {"sending", "recording"} /\ q.segments \in Seq(Segment) /\ q.job \in Jobs[r]
      /\ q.job.op \in {"put", "part"} /\ Len(q.segments) <= q.job.n
      /\ (q.pc = "recording" => Len(q.segments) < q.job.n)
  BY <1>1 DEF RequestFits, BodyFits, Send, Record
<1>3. q.job.n \in 0..MaxBody /\ MaxBody \in Nat
  BY <1>2, S3Assumption DEF WellFormed
<1>4. CASE Send(r)
  <2>1. /\ b.pc = "recording" /\ b.job = q.job /\ b.segments = q.segments
        /\ Len(q.segments) < q.job.n
    BY <1>1, <1>4 DEF Send, End, More, Job, Fields
  <2> HIDE DEF q, b
  <2>2. BodyFits(b) /\ CopyFits(b, objects') /\ PartsFit(b, uploads') /\ RowFits(b) /\ KeysFit(b)
    BY <1>2, <2>1 DEF BodyFits, CopyFits, PartsFit, RowFits, KeysFit
  <2>3. /\ b.pc \in Places /\ b.segments \in Seq(Segment) /\ b.job \in Jobs[r]
        /\ b.pc \notin {"new", "looking"}
    BY <1>2, <2>1 DEF Places
  <2> QED
    BY <2>2, <2>3 DEF RequestFits, b
<1>5. CASE Record(r)
  <2>1. /\ b.pc = "sending" /\ b.job = q.job /\ b.segments = Append(q.segments, Coming(r))
        /\ q.pc = "recording"
    BY <1>1, <1>5 DEF Record, Coming, Fields
  <2>2. Coming(r) \in Segment
    <3>1. Len(q.segments) + 1 \in 1..MaxBody
      BY <1>2, <1>3, <2>1
    <3> QED
      BY <3>1 DEF Coming, Segment
  <2> HIDE DEF q, b
  <2>3. b.segments \in Seq(Segment) /\ Len(b.segments) = Len(q.segments) + 1
    BY <1>2, <2>1, <2>2
  <2>4. Len(b.segments) <= b.job.n
    BY <1>2, <1>3, <2>1, <2>3
  <2>5. BodyFits(b) /\ CopyFits(b, objects') /\ PartsFit(b, uploads') /\ RowFits(b) /\ KeysFit(b)
    BY <1>2, <2>1, <2>4 DEF BodyFits, CopyFits, PartsFit, RowFits, KeysFit
  <2>6. /\ b.pc \in Places /\ b.job \in Jobs[r] /\ b.pc \notin {"new", "looking"}
    BY <1>2, <2>1 DEF Places
  <2> QED
    BY <2>3, <2>5, <2>6 DEF RequestFits, b
<1> QED
  BY <1>4, <1>5

(* A request looks at an object: the size is that of the object of this id. *)
LEMMA LookAtObjectFits ==
  ASSUME WholeInv, NEW r \in Request, LookAtObject(r)
  PROVE  RequestFits(r)'
<1> DEFINE q == req[r]
           b == req'[r]
<1>1. RequestFits(r) /\ DOMAIN req = Request /\ DOMAIN q = Fields
  BY DEF WholeInv, Records
<1>2. q.pc = "looking" /\ q.job \in Jobs[r] /\ q.segments = <<>> /\ q.job.op \in {"copy", "get"}
  BY <1>1 DEF LookAtObject, RequestFits, Job
<1>3. /\ b.pc \in {"listing", "refused"} /\ b.job = q.job /\ b.segments = <<>>
      /\ b.source = objects[q.job.from].id /\ b.size = objects[q.job.from].size
      /\ objects' = objects
  BY <1>1, <1>2 DEF LookAtObject, Job, Fields
<1> HIDE DEF q, b
<1>4. BodyFits(b) /\ CopyFits(b, objects') /\ PartsFit(b, uploads') /\ RowFits(b) /\ KeysFit(b)
  BY <1>2, <1>3 DEF BodyFits, CopyFits, PartsFit, RowFits, KeysFit
<1>5. /\ b.pc \in Places /\ b.segments \in Seq(Segment) /\ b.job \in Jobs[r]
      /\ b.pc \notin {"new", "looking"}
  BY <1>2, <1>3 DEF Places, Ended
<1> QED
  BY <1>4, <1>5 DEF RequestFits, b

(* Objects that have the same id have as many segments. *)
LEMMA SameObject ==
  ASSUME WholeInv, NEW k \in Key, NEW l \in Key, objects[k].id = objects[l].id
  PROVE  Len(objects[l].segments) = objects[k].size
<1>1. ObjectWhole(k) /\ ObjectWhole(l)
  BY DEF WholeInv, Complete
<1>2. CASE objects[k].id \in Request
  <2>1. k = l
    BY <1>1, <1>2 DEF ObjectWhole
  <2> QED
    BY <1>1, <2>1 DEF ObjectWhole
<1>3. CASE objects[k].id \notin Request
  BY <1>1, <1>3 DEF ObjectWhole
<1> QED
  BY <1>2, <1>3

(* It reads the segments of that object. *)
LEMMA ListObjectFits ==
  ASSUME WholeInv, NEW r \in Request, ListObject(r)
  PROVE  RequestFits(r)'
<1> DEFINE q == req[r]
           b == req'[r]
           same == {k \in Key : objects[k].id = q.source}
<1>1. RequestFits(r) /\ DOMAIN req = Request /\ DOMAIN q = Fields
  BY DEF WholeInv, Records
<1>2. /\ q.pc = "listing" /\ q.job \in Jobs[r] /\ q.job.op \in {"copy", "get"}
      /\ CopyFits(q, objects)
  BY <1>1 DEF ListObject, RequestFits, Job
<1>3. \A k \in Key : objects[k].segments \in Seq(Segment)
  BY DEF WholeInv, Complete, ObjectWhole
<1>4. /\ b.pc = IF q.job.op = "get" THEN "reading" ELSE "writing"
      /\ b.job = q.job /\ b.size = q.size
      /\ b.segments \in IF same = {} THEN {<<>>} ELSE {objects[k].segments : k \in same}
  BY <1>1 DEF ListObject, Job, Fields
<1>5. b.segments \in Seq(Segment)
  <2>1. b.segments = <<>> \/ \E k \in Key : b.segments = objects[k].segments
    BY <1>4
  <2>2. <<>> \in Seq(Segment)
    OBVIOUS
  <2> HIDE DEF b
  <2> QED
    BY <1>3, <2>1, <2>2, Zenon
<1>6. ASSUME q.job.op = "copy"
      PROVE  Len(b.segments) = q.size
  <2>1. objects[q.job.from].id = q.source /\ objects[q.job.from].size = q.size
    BY <1>2, <1>6 DEF CopyFits
  <2>2. q.job.from \in Key
    BY <1>2, <1>6, S3Assumption DEF WellFormed
  <2>3. PICK l \in Key : objects[l].id = q.source /\ b.segments = objects[l].segments
    BY <1>4, <2>1, <2>2
  <2> QED
    BY <2>1, <2>2, <2>3, SameObject
<1> HIDE DEF q, b, same
<1>7. BodyFits(b) /\ CopyFits(b, objects') /\ PartsFit(b, uploads') /\ RowFits(b) /\ KeysFit(b)
  BY <1>2, <1>4, <1>6 DEF BodyFits, CopyFits, PartsFit, RowFits, KeysFit
<1>8. /\ b.pc \in Places /\ b.job \in Jobs[r] /\ b.pc \notin {"new", "looking"}
  BY <1>2, <1>4 DEF Places
<1> QED
  BY <1>5, <1>7, <1>8 DEF RequestFits, b

(* A completion looks at the parts: all are still to be read. *)
LEMMA LookAtPartsFits ==
  ASSUME WholeInv, NEW r \in Request, LookAtParts(r)
  PROVE  RequestFits(r)'
<1> DEFINE q == req[r]
           b == req'[r]
           parts == uploads[q.job.upload].parts
           numbers == q.job.numbers
           found == ToSet(numbers) \subseteq DOMAIN parts
<1>1. RequestFits(r) /\ DOMAIN req = Request /\ DOMAIN q = Fields
  BY DEF WholeInv, Records
<1>2. q.pc = "looking" /\ q.job \in Jobs[r] /\ q.segments = <<>> /\ q.job.op = "complete"
  BY <1>1 DEF LookAtParts, RequestFits, Job
<1>3. numbers \in Seq(Nat) /\ numbers # <<>>
  BY <1>2, S3Assumption DEF WellFormed
<1>4. /\ b.pc \in {"listing", "refused"}
      /\ b.job = q.job /\ b.segments = <<>> /\ b.left = numbers
      /\ b.pc = "listing" =>
           found /\ b.size = SumFunction([i \in DOMAIN numbers |-> parts[numbers[i]].size])
      /\ uploads' = uploads
  <2> DEFINE sum == SumFunction([i \in DOMAIN numbers |-> parts[numbers[i]].size])
  <2>1. PICK pc, size :
          /\ req' = [req EXCEPT ![r].pc = pc, ![r].left = numbers, ![r].size = size]
          /\ pc \in {"listing", "refused"} /\ (pc = "listing" => found /\ size = sum)
    BY DEF LookAtParts, Job
  <2>2. uploads' = uploads
    BY DEF LookAtParts
  <2> HIDE DEF sum, found
  <2> QED
    BY <1>1, <1>2, <2>1, <2>2 DEF Fields, sum
<1>5. found => \A i \in 1..Len(numbers) : numbers[i] \in DOMAIN parts
  BY <1>3, InToSet
<1>6. SumFunction([i \in DOMAIN numbers |-> parts[numbers[i]].size]) = ToRead(parts, numbers)
  <2>1. DOMAIN numbers = 1..Len(numbers)
    BY <1>3
  <2>2. [i \in DOMAIN numbers |-> parts[numbers[i]].size] = Sizes(parts, numbers)
    BY <2>1, Zenon DEF Sizes
  <2>3. DOMAIN Sizes(parts, numbers) = 1..Len(numbers)
    BY DEF Sizes
  <2> QED
    BY <2>2, <2>3, Zenon DEF SumFunction, ToRead
<1>7. found => ToRead(parts, numbers) \in Nat
  <2> SUFFICES ASSUME found PROVE ToRead(parts, numbers) \in Nat
    OBVIOUS
  <2>1. q.job.upload \in Upload
    BY <1>2, S3Assumption DEF WellFormed, MultipartOps
  <2>2. \A i \in DOMAIN parts : parts[i].size \in Nat
    BY <2>1 DEF WholeInv, Complete, PartsWhole, PartWhole
  <2>3. \A i \in 1..Len(numbers) : Sizes(parts, numbers)[i] \in Nat
    BY <1>5, <2>2 DEF Sizes
  <2>4. IsFiniteSet(1..Len(numbers))
    BY <1>3, Numbers
  <2> QED
    BY <2>3, <2>4, SumNat DEF ToRead
<1>8. Len(b.segments) = 0
  <2>1. b.segments = <<>>
    BY <1>4, Zenon
  <2> HIDE DEF b
  <2> QED
    BY <2>1
<1> HIDE DEF q, b, found
<1>9. PartsFit(b, uploads')
  <2> SUFFICES ASSUME b.pc = "listing"
               PROVE  /\ b.left \in Seq(Nat) /\ b.left # <<>>
                      /\ \A i \in 1..Len(b.left) : b.left[i] \in DOMAIN uploads[b.job.upload].parts
                      /\ b.size = Len(b.segments) + ToRead(uploads[b.job.upload].parts, b.left)
    BY <1>4 DEF PartsFit
  <2>1. b.size = ToRead(uploads[b.job.upload].parts, b.left)
    BY <1>4, <1>6
  <2>2. b.size \in Nat
    BY <1>4, <1>7, <2>1
  <2>3. b.left \in Seq(Nat) /\ b.left # <<>>
    BY <1>3, <1>4
  <2>4. \A i \in 1..Len(b.left) : b.left[i] \in DOMAIN uploads[b.job.upload].parts
    BY <1>4, <1>5
  <2>5. b.size = Len(b.segments) + ToRead(uploads[b.job.upload].parts, b.left)
    <3> DEFINE read == ToRead(uploads[b.job.upload].parts, b.left)
               done == Len(b.segments)
    <3>1. b.size = read /\ b.size \in Nat /\ done = 0
      BY <1>8, <2>1, <2>2
    <3> HIDE DEF read, done
    <3>2. b.size = done + read
      BY <3>1
    <3> QED
      BY <3>2 DEF read, done
  <2> QED
    BY <2>3, <2>4, <2>5
<1>10. BodyFits(b) /\ CopyFits(b, objects') /\ RowFits(b) /\ KeysFit(b)
  BY <1>2, <1>4 DEF BodyFits, CopyFits, RowFits, KeysFit
<1>11. /\ b.pc \in Places /\ b.segments \in Seq(Segment) /\ b.job \in Jobs[r]
       /\ b.pc \notin {"new", "looking"}
  BY <1>2, <1>4 DEF Places, Ended
<1> QED
  BY <1>9, <1>10, <1>11 DEF RequestFits, b
(* What is left to read when one of the parts has been read. *)
LEMMA OnePartLess ==
  ASSUME NEW parts, NEW numbers \in Seq(Nat), numbers # <<>>,
         \A i \in 1..Len(numbers) : parts[numbers[i]].size \in Nat
  PROVE  /\ ToRead(parts, numbers) = parts[Head(numbers)].size + ToRead(parts, Tail(numbers))
         /\ ToRead(parts, Tail(numbers)) \in Nat
<1> DEFINE n == Len(numbers)
           f == Sizes(parts, numbers)
           g == Sizes(parts, Tail(numbers))
<1>1. /\ n \in Nat /\ n > 0 /\ Len(Tail(numbers)) = n - 1 /\ Head(numbers) = numbers[1]
      /\ \A i \in 1..(n - 1) : Tail(numbers)[i] = numbers[i + 1] /\ i + 1 \in 1..n
  OBVIOUS
<1>2. \A i \in 1..n : f[i] = parts[numbers[i]].size /\ f[i] \in Nat
  BY DEF Sizes
<1>3. \A i \in 1..(n - 1) : g[i] = parts[Tail(numbers)[i]].size
  BY <1>1 DEF Sizes
<1>4. \A i \in 1..(n - 1) : g[i] = f[i + 1]
  BY <1>1, <1>2, <1>3
<1>5. /\ ToRead(parts, numbers) = SumFunctionOnSet(f, 1..n)
      /\ ToRead(parts, Tail(numbers)) = SumFunctionOnSet(g, 1..(n - 1))
  BY <1>1, Zenon DEF ToRead
<1>6. f[1] = parts[Head(numbers)].size
  BY <1>1, <1>2
<1> HIDE DEF n, f, g
<1>7. SumFunctionOnSet(g, 1..(n - 1)) = SumFunctionOnSet(f, 1..n) - f[1]
  <2>1. \A i \in 1..n : f[i] \in Int
    BY <1>2
  <2> QED
    BY <1>1, <1>4, <2>1, SumShift
<1>8. SumFunctionOnSet(f, 1..n) \in Nat
  <2>1. IsFiniteSet(1..n)
    BY <1>1, Numbers
  <2> QED
    BY <1>2, <2>1, SumNat
<1>9. SumFunctionOnSet(g, 1..(n - 1)) \in Nat
  <2>1. n - 1 \in Nat
    BY <1>1
  <2>2. IsFiniteSet(1..(n - 1))
    BY <2>1, Numbers
  <2>3. \A i \in 1..(n - 1) : g[i] \in Nat
    BY <1>1, <1>2, <1>4
  <2> QED
    BY <2>2, <2>3, SumNat
<1>10. f[1] \in Nat
  BY <1>1, <1>2
<1> QED
  BY <1>5, <1>6, <1>7, <1>8, <1>9, <1>10

(* A completion reads a part. *)
LEMMA ListPartFits ==
  ASSUME WholeInv, NEW r \in Request, ListPart(r)
  PROVE  RequestFits(r)'
<1> DEFINE q == req[r]
           b == req'[r]
           parts == uploads[q.job.upload].parts
           i == Head(q.left)
           read == parts[i].segments
           rest == Tail(q.left)
<1>1. RequestFits(r) /\ DOMAIN req = Request /\ DOMAIN q = Fields
  BY DEF WholeInv, Records
<1>2. /\ q.pc = "listing" /\ q.job \in Jobs[r] /\ q.segments \in Seq(Segment)
      /\ q.job.op = "complete" /\ PartsFit(q, uploads)
  BY <1>1 DEF ListPart, RequestFits, Job
<1>3. /\ q.left \in Seq(Nat) /\ q.left # <<>>
      /\ \A n \in 1..Len(q.left) : q.left[n] \in DOMAIN parts
      /\ q.size = Len(q.segments) + ToRead(parts, q.left)
  BY <1>2, Zenon DEF PartsFit
<1>4. 1 \in 1..Len(q.left) /\ i = q.left[1]
  BY <1>3
<1>5. i \in DOMAIN parts
  BY <1>3, <1>4
<1>6. \A n \in DOMAIN parts : PartWhole(parts[n])
  <2>1. q.job.upload \in Upload
    BY <1>2, S3Assumption DEF WellFormed, MultipartOps
  <2> QED
    BY <2>1 DEF WholeInv, Complete, PartsWhole
<1>sizes. \A n \in DOMAIN parts : parts[n].size \in Nat
  <2>1. \A n \in DOMAIN parts : parts[n].segments \in Seq(Segment)
                             /\ Len(parts[n].segments) = parts[n].size
    BY <1>6 DEF PartWhole
  <2> HIDE DEF parts
  <2> QED
    BY <2>1
<1>7. /\ b.pc = IF Len(q.left) = 1 THEN "writing" ELSE "listing"
      /\ b.job = q.job /\ b.size = q.size /\ b.left = rest
      /\ b.segments = q.segments \o read
      /\ uploads' = uploads
  BY <1>1, <1>2, <1>5 DEF ListPart, Job, Fields
<1>8. read \in Seq(Segment) /\ Len(read) = parts[i].size
  BY <1>5, <1>6 DEF PartWhole
<1>9. /\ ToRead(parts, q.left) = parts[i].size + ToRead(parts, rest)
      /\ ToRead(parts, rest) \in Nat
  <2>1. \A n \in 1..Len(q.left) : parts[q.left[n]].size \in Nat
    BY <1>3, <1>sizes, Zenon
  <2> HIDE DEF q, parts
  <2> QED
    BY <1>3, <2>1, OnePartLess
<1>10. /\ rest \in Seq(Nat) /\ Len(rest) = Len(q.left) - 1
       /\ \A n \in 1..Len(rest) : rest[n] \in DOMAIN parts
  <2>1. /\ rest \in Seq(Nat) /\ Len(rest) = Len(q.left) - 1
        /\ \A n \in 1..Len(rest) : rest[n] = q.left[n + 1] /\ n + 1 \in 1..Len(q.left)
    BY <1>3
  <2> QED
    BY <1>3, <2>1
<1>11. b.segments \in Seq(Segment) /\ Len(b.segments) = Len(q.segments) + Len(read)
  <2> DEFINE had == q.segments
             have == b.segments
  <2>1. had \in Seq(Segment) /\ read \in Seq(Segment) /\ have = had \o read
    BY <1>2, <1>7, <1>8, Zenon
  <2> HIDE DEF had, read, have
  <2>2. have \in Seq(Segment) /\ Len(have) = Len(had) + Len(read)
    BY <2>1
  <2> QED
    BY <2>2, Zenon DEF had, have
<1> HIDE DEF b, read, rest, i, parts
<1>12. b.size = Len(b.segments) + ToRead(parts, rest)
  <2> DEFINE had == Len(q.segments)
             got == Len(read)
             all == ToRead(parts, q.left)
             owed == ToRead(parts, rest)
             have == Len(b.segments)
  <2>1. had \in Nat /\ got \in Nat /\ owed \in Nat
    BY <1>2, <1>8, <1>9
  <2>2. b.size = had + all /\ all = got + owed /\ have = had + got
    BY <1>3, <1>7, <1>8, <1>9, <1>11
  <2> HIDE DEF had, got, all, owed, have
  <2>3. b.size = have + owed
    BY <2>1, <2>2
  <2> QED
    BY <2>3 DEF have, owed
<1>13. RowFits(b)
  <2> SUFFICES ASSUME b.pc = "writing" PROVE Len(b.segments) = b.size
    BY DEF RowFits
  <2>1. Len(rest) = 0
    BY <1>7, <1>10
  <2>2. ToRead(parts, rest) = 0
    BY <2>1, SumNone, Zenon DEF ToRead
  <2>3. Len(b.segments) \in Nat
    BY <1>11
  <2> QED
    BY <1>12, <2>2, <2>3
<1>14. PartsFit(b, uploads')
  <2> SUFFICES ASSUME b.pc = "listing"
               PROVE  /\ rest # <<>>
                      /\ b.size = Len(b.segments) + ToRead(parts, rest)
    BY <1>7, <1>10 DEF PartsFit, parts
  <2>1. Len(q.left) # 1 /\ Len(q.left) \in Nat
    BY <1>3, <1>7
  <2>2. rest # <<>>
    <3>1. Len(rest) # 0
      BY <1>10, <2>1
    <3>2. Len(<<>>) = 0
      OBVIOUS
    <3> QED
      BY <3>1, <3>2, Zenon
  <2> QED
    BY <1>12, <2>2
<1>15. BodyFits(b) /\ CopyFits(b, objects') /\ KeysFit(b)
  BY <1>2, <1>7 DEF BodyFits, CopyFits, KeysFit
<1>16. /\ b.pc \in Places /\ b.job \in Jobs[r] /\ b.pc \notin {"new", "looking"}
  BY <1>2, <1>7 DEF Places
<1> QED
  BY <1>11, <1>13, <1>14, <1>15, <1>16 DEF RequestFits, b

(* A deletion of several keys goes on to the next one. *)
LEMMA DeleteObjectFits ==
  ASSUME WholeInv, NEW r \in Request, DeleteObject(r)
  PROVE  RequestFits(r)'
<1> DEFINE q == req[r]
           b == req'[r]
           rest == Tail(q.left)
<1>1. RequestFits(r) /\ DOMAIN req = Request /\ \A p \in Request : DOMAIN req[p] = Fields
  BY DEF WholeInv, Records
<1>2. /\ q.pc = "writing" /\ q.job \in Jobs[r] /\ q.segments \in Seq(Segment)
      /\ q.job.op = "delete" /\ KeysFit(q)
  BY <1>1 DEF DeleteObject, RequestFits, Job
<1>3. q.left \in Seq(Key) /\ q.left # <<>> /\ ToSet(q.left) \subseteq ToSet(q.job.keys)
  BY <1>2, Zenon DEF KeysFit
<1>4. /\ b.pc = IF Len(q.left) = 1 THEN "done" ELSE "writing"
      /\ b.job = q.job /\ b.segments = q.segments /\ b.left = rest
  <2> DEFINE k == Head(q.left)
             after == [req EXCEPT ![r].left = Tail(@),
                                  ![r].pc = IF Len(req[r].left) = 1 THEN "done" ELSE @]
  <2>1. req' = Gone({k}, after)
    BY DEF DeleteObject
  <2>2. /\ \A p \in Request : DOMAIN after[p] = Fields
        /\ after[r].pc = IF Len(q.left) = 1 THEN "done" ELSE "writing"
        /\ after[r].job = q.job /\ after[r].segments = q.segments /\ after[r].left = rest
    BY <1>1, <1>2 DEF Fields
  <2> HIDE DEF k, after
  <2>3. PICK keys, reqs : req' = Gone(keys, reqs) /\ reqs = after
    BY <2>1
  <2>4. \A p \in Request : DOMAIN reqs[p] = Fields
    BY <2>2, <2>3
  <2>5. \A p \in Request :
          /\ req'[p].pc = reqs[p].pc /\ req'[p].job = reqs[p].job
          /\ req'[p].segments = reqs[p].segments /\ req'[p].left = reqs[p].left
    BY <2>3, <2>4, GoneKeeps
  <2> HIDE DEF q, rest
  <2> QED
    BY <2>2, <2>3, <2>5, Zenon
<1>5. rest \in Seq(Key) /\ Len(rest) = Len(q.left) - 1 /\ Len(q.left) \in Nat \ {0}
  BY <1>3
<1>6. ToSet(rest) \subseteq ToSet(q.left)
  <2> SUFFICES ASSUME NEW x \in ToSet(rest) PROVE x \in ToSet(q.left)
    OBVIOUS
  <2>1. PICK n \in 1..Len(rest) : rest[n] = x
    BY <1>5, InToSet
  <2>2. n + 1 \in 1..Len(q.left) /\ q.left[n + 1] = x
    BY <1>3, <1>5, <2>1
  <2> QED
    BY <1>3, <2>2, InToSet
<1> HIDE DEF q, b, rest
<1>7. KeysFit(b)
  <2> SUFFICES ASSUME b.pc = "writing"
               PROVE  b.left \in Seq(Key) /\ b.left # <<>> /\ ToSet(b.left) \subseteq ToSet(b.job.keys)
    BY DEF KeysFit
  <2>1. rest # <<>>
    <3>1. Len(rest) # 0
      BY <1>4, <1>5
    <3>2. Len(<<>>) = 0
      OBVIOUS
    <3> QED
      BY <3>1, <3>2, Zenon
  <2> QED
    BY <1>3, <1>4, <1>5, <1>6, <2>1
<1>8. BodyFits(b) /\ CopyFits(b, objects') /\ PartsFit(b, uploads') /\ RowFits(b)
  BY <1>2, <1>4 DEF BodyFits, CopyFits, PartsFit, RowFits
<1>9. /\ b.pc \in Places /\ b.segments \in Seq(Segment) /\ b.job \in Jobs[r]
      /\ b.pc \notin {"new", "looking"}
  BY <1>2, <1>4 DEF Places, Ended
<1> QED
  BY <1>7, <1>8, <1>9 DEF RequestFits, b

(* A request arrives. *)
LEMMA StartFits ==
  ASSUME WholeInv, NEW r \in Request, NEW j \in Jobs[r], Start(r, j)
  PROVE  RequestFits(r)'
<1> DEFINE b == req'[r]
<1>1. RequestFits(r) /\ DOMAIN req = Request /\ DOMAIN req[r] = Fields
  BY DEF WholeInv, Records
<1>2. req[r].pc = "new" /\ req[r].segments = <<>>
  BY <1>1 DEF Start, RequestFits
<1>3. WellFormed(j)
  BY S3Assumption
<1>4. /\ b.pc \in {"sending", "looking", "paging", "checking", "writing", "refused"}
      /\ b.pc = "sending" => j.op \in {"put", "part"}
      /\ b.pc = "writing" => j.op \notin {"copy", "complete"}
      /\ b.job = j /\ b.segments = <<>>
      /\ j.op = "delete" => b.left = j.keys
  BY <1>1, <1>2 DEF Start, Fields, Reading, Making, MultipartOps
<1>5. b.segments \in Seq(Segment) /\ Len(b.segments) = 0
  <2>1. b.segments = <<>>
    BY <1>4, Zenon
  <2> HIDE DEF b
  <2> QED
    BY <2>1
<1> HIDE DEF b
<1>6. BodyFits(b)
  <2>1. j.op \in {"put", "part"} => j.n \in Nat
    BY <1>3, S3Assumption DEF WellFormed
  <2> QED
    BY <1>4, <1>5, <2>1 DEF BodyFits
<1>7. KeysFit(b)
  <2>1. j.op = "delete" => j.keys \in Seq(Key) /\ j.keys # <<>>
    BY <1>3 DEF WellFormed
  <2> QED
    BY <1>4, <2>1 DEF KeysFit
<1>8. CopyFits(b, objects') /\ PartsFit(b, uploads') /\ RowFits(b)
  BY <1>4 DEF CopyFits, PartsFit, RowFits
<1>9. b.pc \in Places /\ b.job \in Jobs[r]
  BY <1>4 DEF Places, Ended
<1> QED
  BY <1>4, <1>5, <1>6, <1>7, <1>8, <1>9 DEF RequestFits, b
(* Whatever a handler does, what it knows fits what it has read. *)
LEMMA HandleFits ==
  ASSUME WholeInv, NEW r \in Request, Handle(r) \/ Lose(r)
  PROVE  RequestFits(r)'
<1>1. /\ DOMAIN req = Request /\ \A q \in Request : DOMAIN req[q] = Fields
      /\ RequestFits(r) /\ Records
  BY DEF WholeInv, Records
<1>2. req[r].pc # "new"
  BY <1>1, HandleMoves DEF Busy
<1>3. ASSUME NEW p \in {"done", "refused", "deciding"}, End(r, p)
      PROVE  RequestFits(r)'
  <2>1. /\ req'[r].pc = p /\ req'[r].job = req[r].job /\ req'[r].segments = req[r].segments
    BY <1>1, <1>3 DEF End, Fields
  <2> QED
    BY <1>1, <1>2, <2>1, OverFits
<1>4. CASE Page(r)
  <2>1. PICK seen, after, pc :
          /\ req' = [req EXCEPT ![r].seen = seen, ![r].after = after, ![r].pc = pc]
          /\ pc \in {"paging", "done"}
    BY <1>4 DEF Page
  <2>2. /\ req'[r].pc \in {"paging", "done"} /\ req'[r].job = req[r].job
        /\ req'[r].segments = req[r].segments
    BY <1>1, <2>1 DEF Fields
  <2> QED
    BY <1>1, <1>2, <2>2, OverFits
<1>5. CASE DropBucket(r)
  <2> DEFINE after == [req EXCEPT ![r].pc = "done"]
  <2>1. req' = Gone(Key, after)
    BY <1>5 DEF DropBucket
  <2>2. /\ \A p \in Request : DOMAIN after[p] = Fields
        /\ after[r].pc = "done" /\ after[r].job = req[r].job
        /\ after[r].segments = req[r].segments
    BY <1>1 DEF Fields
  <2> HIDE DEF after
  <2>3. PICK keys, reqs : req' = Gone(keys, reqs) /\ reqs = after
    BY <2>1
  <2>4. \A p \in Request : DOMAIN reqs[p] = Fields
    BY <2>2, <2>3
  <2>5. \A p \in Request :
          /\ req'[p].pc = reqs[p].pc /\ req'[p].job = reqs[p].job
          /\ req'[p].segments = reqs[p].segments
    BY <2>3, <2>4, GoneKeeps
  <2>6. req'[r].pc = "done" /\ req'[r].job = req[r].job /\ req'[r].segments = req[r].segments
    BY <2>2, <2>3, <2>5, Zenon
  <2> QED
    BY <1>1, <1>2, <2>6, OverFits
<1>6. CASE CheckBucket(r)
  <2>1. End(r, "deciding") \/ End(r, "refused")
    BY <1>6 DEF CheckBucket
  <2> QED
    BY <1>3, <2>1
<1>7. CASE \/ Send(r) \/ Record(r) \/ LookAtObject(r) \/ ListObject(r) \/ LookAtParts(r)
           \/ ListPart(r) \/ DeleteObject(r)
  BY <1>7, SendFits, LookAtObjectFits, ListObjectFits, LookAtPartsFits, ListPartFits,
     DeleteObjectFits
<1> QED
  BY <1>3, <1>4, <1>5, <1>6, <1>7
     DEF Handle, Write, Lose, FailSend, FailRecord, Deliver, Refuse, ReplaceObject, ReplacePart,
         CompleteMultipart, AbortMultipart, MakeBucket

(* An object and a part that no step writes stay whole. *)
LEMMA KeptWhole ==
  ASSUME WholeInv,
         \A q \in Request : req[q].pc = "done" => req'[q].pc = "done" /\ req'[q].job = req[q].job
  PROVE  /\ \A k \in Key : objects'[k] = objects[k] => ObjectWhole(k)'
         /\ \A u \in Upload :
              /\ DOMAIN uploads'[u] = {"state", "parts"}
              /\ uploads'[u].parts = uploads[u].parts
              => PartsWhole(u)'
<1>1. /\ \A k \in Key : ObjectWhole(k)
      /\ \A u \in Upload : PartsWhole(u)
  BY DEF WholeInv, Complete
<1> QED
  BY <1>1 DEF ObjectWhole, PartsWhole, PartWhole

(* A deleted object, and an upload that is over, are whole. *)
LEMMA NoneWhole ==
  /\ \A k \in Key : objects'[k] = Absent => ObjectWhole(k)'
  /\ \A u \in Upload : uploads'[u] = Closed => PartsWhole(u)'
<1>1. <<>> \in Seq(Segment) /\ Len(<<>>) = 0 /\ DOMAIN <<>> = {}
  OBVIOUS
<1>2. "none" \notin Request
  BY S3Assumption
<1>3. /\ Absent.id = "none" /\ Absent.size = 0 /\ Absent.segments = <<>>
      /\ Closed.parts = <<>> /\ DOMAIN Closed = {"state", "parts"}
  BY DEF Absent, Closed
<1> QED
  BY <1>1, <1>2, <1>3 DEF ObjectWhole, PartsWhole

(* Only whole objects and parts are made. *)
LEMMA HandleCompletes ==
  ASSUME WholeInv, NEW r \in Request, Handle(r) \/ Lose(r)
  PROVE  Complete'
<1> DEFINE q == req[r]
<1>1. /\ DOMAIN req = Request /\ \A p \in Request : DOMAIN req[p] = Fields
      /\ DOMAIN objects = Key /\ DOMAIN uploads = Upload
      /\ \A u \in Upload : PartsWhole(u)
      /\ RequestFits(r) /\ Records
  BY DEF WholeInv, Records, Complete
<1>2. Busy(r) /\ \A p \in Request : (p # r => Kept(p)) /\ req'[p].job = req[p].job
  BY <1>1, HandleMoves
<1>3. \A p \in Request : req[p].pc = "done" => req'[p].pc = "done" /\ req'[p].job = req[p].job
  BY <1>2 DEF Kept, Busy, Ended
<1>4. /\ q.pc \in Places /\ q.segments \in Seq(Segment) /\ q.job \in Jobs[r]
      /\ BodyFits(q) /\ RowFits(q)
  BY <1>1, <1>2 DEF RequestFits, Busy
<1>5. WellFormed(q.job) /\ MaxBody \in Nat
  BY <1>4, S3Assumption
<1>6. ASSUME Sent(r)
      PROVE  Len(q.segments) = q.job.n
  <2>1. ~ (Len(q.segments) < q.job.n) /\ Len(q.segments) <= q.job.n /\ q.job.op \in {"put", "part"}
    BY <1>4, <1>6 DEF Sent, More, Job, BodyFits
  <2>2. q.job.n \in Nat /\ Len(q.segments) \in Nat
    BY <1>4, <1>5, <2>1 DEF WellFormed
  <2> HIDE DEF q
  <2> QED
    BY <2>1, <2>2
<1>7. ASSUME NEW size, PutRow(Job(r).key, r, size, q.segments), Len(q.segments) = size,
             q.job.op \in Making, req'[r].pc = "done"
      PROVE  DOMAIN objects' = Key /\ \A k \in Key : ObjectWhole(k)'
  <2>1. /\ DOMAIN objects' = Key
        /\ \A k \in Key : k # q.job.key => objects'[k] = objects[k]
    BY <1>1, <1>7 DEF PutRow, Job
  <2>2. ASSUME NEW k \in Key, k = q.job.key
        PROVE  ObjectWhole(k)'
    <3>1. objects'[k] = [id |-> r, size |-> size, segments |-> q.segments]
      BY <1>1, <1>7, <2>2 DEF PutRow, Job
    <3>2. /\ objects'[k].id = r /\ objects'[k].size = size
          /\ objects'[k].segments = q.segments
      BY <3>1
    <3>3. req'[r].pc = "done" /\ req'[r].job.op \in Making /\ req'[r].job.key = k
      BY <1>2, <1>7, <2>2
    <3> HIDE DEF q
    <3> QED
      BY <1>4, <1>7, <3>2, <3>3 DEF ObjectWhole
  <2>3. \A k \in Key : k # q.job.key => ObjectWhole(k)'
    BY <1>3, <2>1, KeptWhole
  <2> QED
    BY <2>1, <2>2, <2>3
<1>8. ASSUME UNCHANGED objects
      PROVE  DOMAIN objects' = Key /\ \A k \in Key : ObjectWhole(k)'
  BY <1>1, <1>3, <1>8, KeptWhole
<1>9. ASSUME UNCHANGED uploads
      PROVE  DOMAIN uploads' = Upload /\ \A u \in Upload : PartsWhole(u)'
  BY <1>1, <1>3, <1>9, KeptWhole DEF PartsWhole
<1>10. ASSUME NEW v, CloseUpload(v)
       PROVE  DOMAIN uploads' = Upload /\ \A u \in Upload : PartsWhole(u)'
  <2>1. /\ DOMAIN uploads' = Upload
        /\ \A u \in Upload : uploads'[u] = Closed \/ uploads'[u] = uploads[u]
    BY <1>1, <1>10 DEF CloseUpload
  <2> QED
    BY <1>1, <1>3, <2>1, KeptWhole, NoneWhole DEF PartsWhole
<1>11. CASE ReplaceObject(r)
  <2> DEFINE size == IF Job(r).op = "put" THEN Job(r).n ELSE q.size
  <2>1. PutRow(Job(r).key, r, size, q.segments) /\ UNCHANGED uploads
    BY <1>11 DEF ReplaceObject
  <2>2. Len(q.segments) = size /\ q.job.op \in Making
    BY <1>4, <1>6, <1>11 DEF ReplaceObject, Job, RowFits, Making
  <2>3. req'[r].pc = "done"
    BY <1>1, <1>11 DEF ReplaceObject, End, Fields
  <2> HIDE DEF size, q
  <2> QED
    BY <1>7, <1>9, <2>1, <2>2, <2>3 DEF Complete
<1>12. CASE CompleteMultipart(r)
  <2>1. PutRow(Job(r).key, r, q.size, q.segments) /\ CloseUpload(Job(r).upload)
    BY <1>12 DEF CompleteMultipart
  <2>2. Len(q.segments) = q.size /\ q.job.op \in Making
    BY <1>4, <1>12 DEF CompleteMultipart, Job, RowFits, Making
  <2>3. req'[r].pc = "done"
    BY <1>1, <1>12 DEF CompleteMultipart, End, Fields
  <2> HIDE DEF q
  <2> QED
    BY <1>7, <1>10, <2>1, <2>2, <2>3 DEF Complete
<1>13. CASE ReplacePart(r)
  <2> DEFINE v == q.job.upload
             old == uploads[v].parts
             part == [size |-> q.job.n, segments |-> q.segments]
             new == [i \in DOMAIN old \cup {q.job.number} |-> IF i = q.job.number THEN part ELSE old[i]]
  <2>1. uploads' = [uploads EXCEPT ![v].parts = new] /\ UNCHANGED objects
    BY <1>13 DEF ReplacePart, Job
  <2>2. v \in Upload
    BY <1>5, <1>13 DEF ReplacePart, Job, WellFormed, MultipartOps
  <2>3. PartWhole(part)
    BY <1>4, <1>6, <1>13 DEF ReplacePart, PartWhole
  <2>4. \A i \in DOMAIN old : PartWhole(old[i])
    BY <1>1, <2>2 DEF PartsWhole
  <2>5. \A i \in DOMAIN new : PartWhole(new[i])
    <3> HIDE DEF part, old
    <3> QED
      BY <2>3, <2>4
  <2>6. DOMAIN uploads[v] = {"state", "parts"}
    BY <1>1, <2>2 DEF PartsWhole
  <2> HIDE DEF new, v
  <2>7. /\ DOMAIN uploads' = Upload /\ uploads'[v].parts = new
        /\ DOMAIN uploads'[v] = {"state", "parts"}
        /\ \A u \in Upload : u # v => uploads'[u] = uploads[u]
    BY <1>1, <2>1, <2>2, <2>6
  <2>8. ASSUME NEW u \in Upload
        PROVE  PartsWhole(u)'
    <3>1. CASE u = v
      BY <2>5, <2>7, <3>1 DEF PartsWhole, PartWhole
    <3>2. CASE u # v
      BY <1>1, <1>3, <2>7, <3>2, KeptWhole DEF PartsWhole
    <3> QED
      BY <3>1, <3>2
  <2> QED
    BY <1>8, <2>1, <2>7, <2>8 DEF Complete
<1>14. CASE AbortMultipart(r)
  BY <1>8, <1>10, <1>14 DEF AbortMultipart, Complete
<1>15. CASE DeleteObject(r)
  <2>1. /\ DOMAIN objects' = Key
        /\ \A k \in Key : objects'[k] = Absent \/ objects'[k] = objects[k]
        /\ UNCHANGED uploads
    BY <1>1, <1>15 DEF DeleteObject, RemoveObject
  <2> QED
    BY <1>3, <1>9, <2>1, KeptWhole, NoneWhole DEF Complete
<1>16. CASE DropBucket(r)
  <2>1. /\ DOMAIN objects' = Key /\ \A k \in Key : objects'[k] = Absent
        /\ DOMAIN uploads' = Upload
        /\ \A u \in Upload : uploads'[u] = Closed \/ uploads'[u] = uploads[u]
    BY <1>16 DEF DropBucket
  <2> QED
    BY <1>1, <1>3, <2>1, KeptWhole, NoneWhole DEF Complete, PartsWhole
<1>17. CASE UNCHANGED <<objects, uploads>>
  BY <1>8, <1>9, <1>17 DEF Complete
<1> QED
  BY <1>11, <1>12, <1>13, <1>14, <1>15, <1>16, <1>17
     DEF Handle, Write, Lose, Send, FailSend, Record, FailRecord, LookAtObject, ListObject,
         Deliver, LookAtParts, ListPart, Page, CheckBucket, Refuse, MakeBucket

(* Every step keeps what is whole, whole. *)
LEMMA WholeStep ==
  ASSUME WholeInv, [Next]_vars, ~ clashed'
  PROVE  WholeInv'
<1>1. /\ Records /\ Spread
      /\ DOMAIN req = Request /\ DOMAIN objects = Key /\ DOMAIN uploads = Upload
      /\ \A q \in Request : RequestFits(q) /\ DOMAIN req[q] = Fields
      /\ \A u \in Upload : PartsWhole(u)
  BY DEF WholeInv, Records, Complete
<1>2. Records' /\ Spread'
  BY <1>1, RecordsStep, SpreadStep
<1>3. ASSUME NEW r \in Request, Handle(r) \/ Lose(r)
      PROVE  Complete' /\ \A q \in Request : RequestFits(q)'
  <2>1. \A q \in Request : q # r => RequestFits(q)'
    BY <1>1, <1>3, HandleMoves, OthersKeepSources, KeptFits
  <2> QED
    BY <1>3, <2>1, HandleFits, HandleCompletes
<1>4. ASSUME NEW r \in Request, NEW j \in Jobs[r], Start(r, j)
      PROVE  Complete' /\ \A q \in Request : RequestFits(q)'
  <2>1. UNCHANGED <<objects, uploads>> /\ req[r].pc = "new"
    BY <1>4 DEF Start
  <2>2. \A q \in Request : q # r => Kept(q) /\ SourcesKept(q)
    BY <1>1, <1>4, <2>1 DEF Start, Kept, SourcesKept
  <2>3. \A q \in Request : req[q].pc = "done" => req'[q].pc = "done" /\ req'[q].job = req[q].job
    BY <2>1, <2>2 DEF Kept
  <2>4. Complete'
    BY <1>1, <2>1, <2>3, KeptWhole DEF Complete, PartsWhole
  <2> QED
    BY <1>1, <1>4, <2>2, <2>4, StartFits, KeptFits
<1>5. ASSUME \A q \in Request : Kept(q),
             UNCHANGED objects, DOMAIN uploads' = Upload,
             \A u \in Upload : /\ DOMAIN uploads'[u] = {"state", "parts"}
                               /\ uploads'[u].parts = uploads[u].parts
      PROVE  Complete' /\ \A q \in Request : RequestFits(q)'
  <2>1. Complete'
    BY <1>1, <1>5, KeptWhole DEF Complete, Kept
  <2>2. ASSUME NEW q \in Request
        PROVE  SourcesKept(q)
    <3>1. Busy(q) /\ Job(q).op = "complete" => Job(q).upload \in Upload
      BY <1>1, S3Assumption DEF RequestFits, WellFormed, MultipartOps, Busy, Job
    <3> QED
      BY <1>5, <3>1 DEF SourcesKept
  <2> QED
    BY <1>1, <1>5, <2>1, <2>2, KeptFits
<1>6. ASSUME NEW u \in Upload, CreateMultipart(u)
      PROVE  Complete' /\ \A q \in Request : RequestFits(q)'
  BY <1>1, <1>5, <1>6 DEF CreateMultipart, Kept, PartsWhole
<1>7. ASSUME UNCHANGED <<objects, uploads, req>>
      PROVE  Complete' /\ \A q \in Request : RequestFits(q)'
  BY <1>1, <1>5, <1>7 DEF Kept, PartsWhole
<1>8. Complete' /\ \A q \in Request : RequestFits(q)'
  BY <1>3, <1>4, <1>6, <1>7
     DEF Next, Grant, Revoke, Collect, List, Delete, Forget, LoseCollector, Tick, vars
<1> QED
  BY <1>2, <1>8 DEF WholeInv

(* To begin with objects are empty, and nobody asks for anything. *)
LEMMA InitWhole ==
  ASSUME Init
  PROVE  WholeInv
<1>1. <<>> \in Seq(Segment) /\ Len(<<>>) = 0 /\ DOMAIN <<>> = {}
  OBVIOUS
<1>2. \A r \in Request : req[r] = Idle
  BY DEF Init
<1>3. /\ DOMAIN Idle = Fields /\ Idle.pc = "new" /\ Idle.segments = <<>>
  BY DEF Idle, Fields
<1>4. Records /\ Spread
  BY <1>2, <1>3 DEF Init, Records, Spread, Busy
<1>5. Complete
  <2>1. {"none", "given"} \cap Request = {}
    BY S3Assumption
  <2>2. \A k \in Key : /\ objects[k].segments = <<>> /\ objects[k].size = 0
                       /\ objects[k].id \in {"none", "given"}
    BY DEF Init, Absent
  <2>3. \A u \in Upload : DOMAIN uploads[u] = {"state", "parts"} /\ uploads[u].parts = <<>>
    BY DEF Init
  <2>4. DOMAIN objects = Key /\ DOMAIN uploads = Upload
    BY DEF Init
  <2> QED
    BY <1>1, <2>1, <2>2, <2>3, <2>4 DEF Complete, ObjectWhole, PartsWhole
<1>6. \A r \in Request : RequestFits(r)
  BY <1>1, <1>2, <1>3 DEF RequestFits, BodyFits, CopyFits, PartsFit, RowFits, KeysFit, Places
<1> QED
  BY <1>4, <1>5, <1>6 DEF WholeInv

(* As long as nothing has clashed. *)
ApartInv == Records /\ (~ clashed => WholeInv)

(* Every object and every part has all the segments its size stands for: no  *)
(* reader that is promised size bytes (content_length) receives fewer, until *)
(* requests overlap of which one replaces what the other one is reading.     *)
THEOREM ObjectsAreWhole == Spec => []WholeApart
<1>1. Init => ApartInv
  BY InitWhole DEF ApartInv, WholeInv
<1>2. ApartInv /\ [Next]_vars => ApartInv'
  BY RecordsStep, ClashStays, WholeStep DEF ApartInv
<1>3. ApartInv => WholeApart
  BY DEF ApartInv, WholeInv, Complete, ObjectWhole, PartsWhole, PartWhole, ObjectsWhole, WholeApart
<1> QED
  BY <1>1, <1>2, <1>3, PTL DEF Spec
============================================================================
