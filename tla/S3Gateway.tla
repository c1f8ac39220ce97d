----------------------------- MODULE S3Gateway -----------------------------
(***************************************************************************)
(* s3-gateway: the requests for one bucket and its objects (service.rs),   *)
(* the SQLite catalog (catalog.rs) and the hourly garbage collector.       *)
(*                                                                         *)
(* An object names segments; a segment is a message in the store and a row *)
(* of the catalog.  A segment is recorded as an orphan and adopted by the  *)
(* transaction that makes an object or a part of it.  Segments that lose   *)
(* their last reference become orphans again, and the collector deletes    *)
(* the message, then the row, of those that were orphans for an hour.      *)
(* A transaction, or a query outside one, is one action.                   *)
(*                                                                         *)
(* AdoptNothing, MarkNothing, ReferToAnything, UndoNothing,                *)
(* WriteEarly, NextUnseen and CollectAtOnce are not part of the            *)
(* specification: each is a defective variant of the definition that       *)
(* follows it, and shows that a property below notices the defect.         *)
(***************************************************************************)
EXTENDS Integers, Sequences, FiniteSets, SequencesExt

CONSTANTS
  Key,         \* numbers, in the order of the keys
  Upload,
  Request,
  Access,      \* access keys
  Owner,       \* the one that created the bucket
  Grants,      \* what the administrator may grant: a set of <<access, permission>>
  Revocable,   \* the access keys that the administrator may disable
  Given,       \* the keys that hold an empty object to begin with
  Jobs,        \* [Request -> set of jobs]: what a request may ask for
  MaxBody,     \* bound: segments of a body
  Grace,       \* orphans older than this are collected: 3600 s
  Faults       \* what may fail, a subset of FaultKind

FaultKind == {"body", "store", "database", "delete", "loss"}

(***************************************************************************)
(* Jobs, each by an access key: put (key, n), part (upload, number, n),    *)
(* copy (key, from), complete (key, upload, numbers), abort (upload),      *)
(* delete (keys), get (from), list (max, under, folder), make and drop,    *)
(* the last two for the bucket.  n is the number of segments of the body,  *)
(* not 0 for a part; under, the keys a prefix matches; folder[k], the      *)
(* common prefix that stands for k, or k.  An upload is made for one key.  *)
(* A part that is sent again carries the same bytes, as a retry does, so   *)
(* that ETags of parts always match.                                       *)
(***************************************************************************)
Reading == {"get", "list"}
Making == {"put", "copy", "complete"}       \* they insert an object
Ops == Reading \cup Making \cup {"part", "abort", "delete", "make", "drop"}
MultipartOps == {"part", "complete", "abort"}

WellFormed(j) ==
  /\ j.op \in Ops /\ j.by \in Access
  /\ j.op \in {"put", "part"} => j.n \in 0..MaxBody
  /\ j.op \in Making => j.key \in Key
  /\ j.op \in {"copy", "get"} => j.from \in Key
  /\ j.op \in MultipartOps => j.upload \in Upload
  /\ j.op = "delete" => j.keys \in Seq(Key) /\ j.keys # <<>>
  /\ j.op = "complete" => j.numbers \in Seq(Nat) /\ j.numbers # <<>>
  /\ j.op = "list" =>
       /\ j.max \in Nat \ {0} /\ j.under \subseteq Key
       /\ \A k \in Key : j.folder[k] \in Key => j.folder[k] = k

ASSUME S3Assumption ==
  /\ Owner \in Access
  /\ Key \subseteq Nat /\ IsFiniteSet(Key) /\ Given \subseteq Key
  /\ {"none", "given"} \cap Request = {}    \* ids of objects: see Absent and Init
  /\ Grace \in Nat /\ MaxBody \in Nat /\ Faults \subseteq FaultKind
  /\ Grants \subseteq Access \X {"read", "write"} /\ Revocable \subseteq Access
  /\ \A r \in Request : \A j \in Jobs[r] : WellFormed(j)

VARIABLES
  bucket,    \* the bucket exists
  grant,     \* [Access -> the permission its row in bucket_grants gives, or "none"]
  revoked,   \* the access keys that are disabled
  objects,   \* [Key -> Absent, or an object: id, size, segments]
  uploads,   \* [Upload -> state, and a function from part numbers to parts]
  age,       \* [Segment -> NoRow, Live, or for how long it is an orphan]
  stored,    \* segments whose message exists
  req,       \* [Request -> the handler's state]
  gc,        \* the collector: segments listed, the one in hand
  leaked,    \* history: messages nobody could clean up, or their bucket took along
  strayed,   \* history: orphans that were completed with, or held beyond the grace
  clashed    \* history: requests overlapped that meddle with one another

rights == <<bucket, grant, revoked>>
history == <<strayed, clashed>>
vars == <<bucket, grant, revoked, objects, uploads, age, stored, req, gc, leaked,
          strayed, clashed>>

Segment == Request \X (1..MaxBody)

Absent == [id |-> "none", size |-> 0, segments |-> <<>>]
Closed == [state |-> "closed", parts |-> <<>>]

NoRow == -2
Live == -1
Ancient == Grace + 1     \* ages are not told apart beyond

----------------------------------------------------------------------------
(* The catalog *)

PartSegments(ups, u) == UNION {ToSet(ups[u].parts[i].segments) : i \in DOMAIN ups[u].parts}

References(objs, ups) ==
  (UNION {ToSet(objs[k].segments) : k \in Key}) \cup (UNION {PartSegments(ups, u) : u \in Upload})

AdoptNothing(segments) == age
Adopt(segments) == [s \in Segment |-> IF s \in ToSet(segments) THEN Live ELSE age[s]]

MarkNothing(ages) == ages
(* mark_unreferenced: orphaned_at = COALESCE(orphaned_at, now). *)
MarkUnreferenced(ages) ==
  [s \in Segment |-> IF ages[s] = Live /\ s \notin References(objects', uploads')
                     THEN 0 ELSE ages[s]]

(* object_segments and part_segments reference segments(id). *)
Recorded(segments) == \A s \in ToSet(segments) : age[s] # NoRow

Present == {k \in Key : objects[k] # Absent}

PutRow(k, r, size, segments) ==
  objects' = [objects EXCEPT ![k] = [id |-> r, size |-> size, segments |-> segments]]

----------------------------------------------------------------------------
(* Requests *)

IsOpen(u) == uploads[u].state = "open"
Job(r) == req[r].job
Hand(r) == ToSet(req[r].segments)
Ended == {"done", "refused"}
Busy(r) == req[r].pc \notin Ended \cup {"new"}

End(r, pc) == req' = [req EXCEPT ![r].pc = pc]

(* permission: what a bucket grant gives to an access key that is enabled. *)
Permission(a) == IF a \in revoked THEN "none" ELSE grant[a]
Allowed(j) ==
  CASE j.op = "make" -> j.by \notin revoked
    [] j.op \in Reading -> Permission(j.by) # "none"
    [] OTHER -> Permission(j.by) = "write"

(* The keys whose objects a job replaces or deletes. *)
Writes(j) ==
  CASE j.op \in Making -> {j.key}
    [] j.op = "delete" -> ToSet(j.keys)
    [] j.op = "drop" -> Key
    [] OTHER -> {}

(* q writes what j reads in several steps. *)
Meddles(j, q) ==
  \/ j.op = "copy" /\ j.from \in Writes(q)
  \/ j.op = "complete" /\ q.op \in {"part", "complete", "abort"} /\ q.upload = j.upload
  \/ j.op = "complete" /\ q.op = "drop"

Apart(r, j) ==
  \A q \in Request \ {r} : Busy(q) => ~ Meddles(j, Job(q)) /\ ~ Meddles(Job(q), j)

(* A request arrives: may its access key do this, and is its upload there? *)
Start(r, j) ==
  LET found == Allowed(j) /\ (j.op \in MultipartOps => IsOpen(j.upload))
      first == CASE j.op \in {"put", "part"} -> "sending"
                 [] j.op \in {"copy", "complete", "get"} -> "looking"
                 [] j.op = "list" -> "paging"
                 [] j.op \in {"make", "drop"} -> "checking"
                 [] OTHER -> "writing"
  IN
  /\ req[r].pc = "new"
  /\ clashed' = (clashed \/ (found /\ ~ Apart(r, j)))
  /\ req' = [req EXCEPT ![r].job = j,
                        ![r].pc = IF found THEN first ELSE "refused",
                        ![r].left = IF j.op = "delete" THEN j.keys ELSE @,
                        ![r].stay = IF j.op = "list" THEN Present \cap j.under ELSE @]
  /\ UNCHANGED <<rights, objects, uploads, age, stored, gc, leaked, strayed>>

More(r) == Len(req[r].segments) < Job(r).n

(* upload_body and upload_segment: the next segment goes to the store. *)
Send(r) ==
  /\ req[r].pc = "sending"
  /\ More(r)
  /\ stored' = stored \cup {<<r, Len(req[r].segments) + 1>>}
  /\ End(r, "recording")
  /\ UNCHANGED <<rights, objects, uploads, age, gc, leaked, history>>

(* The body breaks off, is too large or has another digest; or the store fails. *)
FailSend(r) ==
  /\ req[r].pc = "sending"
  /\ \/ "body" \in Faults /\ UNCHANGED <<stored, leaked>>
     \/ /\ "store" \in Faults
        /\ More(r)
        /\ LET s == <<r, Len(req[r].segments) + 1>> IN
           stored' = stored \cup {s} /\ leaked' = leaked \cup {s}
  /\ End(r, "refused")
  /\ UNCHANGED <<rights, objects, uploads, age, gc, history>>

(* store_segment *)
Record(r) ==
  LET s == <<r, Len(req[r].segments) + 1>> IN
  /\ req[r].pc = "recording"
  /\ age' = [age EXCEPT ![s] = 0]
  /\ req' = [req EXCEPT ![r].pc = "sending", ![r].segments = Append(@, s)]
  /\ UNCHANGED <<rights, objects, uploads, stored, gc, leaked, history>>

UndoNothing(r) ==
  /\ "database" \in Faults
  /\ req[r].pc = "recording"
  /\ End(r, "refused")
  /\ UNCHANGED <<rights, objects, uploads, age, stored, gc, leaked, history>>

(* store_segment fails: the message is deleted, errors are ignored. *)
FailRecord(r) ==
  LET s == <<r, Len(req[r].segments) + 1>> IN
  /\ "database" \in Faults
  /\ req[r].pc = "recording"
  /\ \/ stored' = stored \ {s} /\ UNCHANGED leaked
     \/ "delete" \in Faults /\ leaked' = leaked \cup {s} /\ UNCHANGED stored
  /\ End(r, "refused")
  /\ UNCHANGED <<rights, objects, uploads, age, gc, history>>

(* get_object, first query: the id and the size. *)
LookAtObject(r) ==
  LET row == objects[Job(r).from] IN
  /\ req[r].pc = "looking" /\ Job(r).op \in {"copy", "get"}
  /\ req' = [req EXCEPT ![r].pc = IF row = Absent THEN "refused" ELSE "listing",
                        ![r].source = row.id, ![r].size = row.size]
  /\ UNCHANGED <<rights, objects, uploads, age, stored, gc, leaked, history>>

(* get_object, second query: the segments of the object that has this id. *)
ListObject(r) ==
  LET same == {k \in Key : objects[k].id = req[r].source} IN
  /\ req[r].pc = "listing" /\ Job(r).op \in {"copy", "get"}
  /\ \E segments \in IF same = {} THEN {<<>>} ELSE {objects[k].segments : k \in same} :
       req' = [req EXCEPT ![r].pc = IF Job(r).op = "get" THEN "reading" ELSE "writing",
                          ![r].segments = segments]
  /\ UNCHANGED <<rights, objects, uploads, age, stored, gc, leaked, history>>

(* body_for: the segments are downloaded one after the other, to the last. *)
Deliver(r) ==
  /\ req[r].pc = "reading"
  /\ End(r, "done")
  /\ UNCHANGED <<rights, objects, uploads, age, stored, gc, leaked, history>>

(* parts, first query: the sizes of the parts, which must all be there and   *)
(* be asked for in ascending order.  In bytes, which are not counted here,   *)
(* one that is not the last may be too small, or several together too large. *)
LookAtParts(r) ==
  LET j == Job(r)
      parts == uploads[j.upload].parts
      found == ToSet(j.numbers) \subseteq DOMAIN parts
      ascending == \A i \in 1..Len(j.numbers) :
                     j.numbers[i] > IF i = 1 THEN 0 ELSE j.numbers[i - 1]
      accepted == found /\ ascending
      size == SumFunction([i \in DOMAIN j.numbers |-> parts[j.numbers[i]].size])
  IN
  /\ req[r].pc = "looking" /\ j.op = "complete"
  /\ \E pc \in IF ~ accepted THEN {"refused"}
              ELSE IF Len(j.numbers) = 1 THEN {"listing"} ELSE {"listing", "refused"} :
       req' = [req EXCEPT ![r].pc = pc,
                          ![r].left = j.numbers,
                          ![r].size = IF accepted THEN size ELSE @]
  /\ UNCHANGED <<rights, objects, uploads, age, stored, gc, leaked, history>>

(* parts, one query for each part: its segments, if it is still there. *)
ListPart(r) ==
  /\ req[r].pc = "listing" /\ Job(r).op = "complete"
  /\ LET parts == uploads[Job(r).upload].parts
         i == Head(req[r].left)
         found == IF i \in DOMAIN parts THEN parts[i].segments ELSE <<>>
     IN req' = [req EXCEPT ![r].segments = @ \o found, ![r].left = Tail(@),
                           ![r].pc = IF Len(req[r].left) = 1 THEN "writing" ELSE @]
  /\ UNCHANGED <<rights, objects, uploads, age, stored, gc, leaked, history>>

WriteEarly(r) == req[r].pc = "sending" /\ Len(req[r].segments) >= 1
Sent(r) == req[r].pc = "sending" /\ ~ More(r)

ReferToAnything(r) == TRUE
(* Foreign keys: the segments, and the upload or the bucket. *)
Referable(r) ==
  /\ Recorded(req[r].segments)
  /\ Job(r).op = "part" => IsOpen(Job(r).upload)
  /\ Job(r).op \in Making => bucket

(* What refers to a row that is gone is rolled back; any query can fail; and *)
(* every page of a listing is a request that has to be allowed.              *)
Refuse(r) ==
  LET writing == Sent(r) \/ req[r].pc = "writing" IN
  /\ \/ writing /\ ~ Referable(r)
     \/ req[r].pc = "paging" /\ ~ Allowed(Job(r))
     \/ req[r].pc = "deciding" /\ Job(r).op = "make" /\ bucket
     \/ /\ writing \/ req[r].pc \in {"looking", "listing", "paging", "checking", "deciding"}
        /\ "database" \in Faults
  /\ End(r, "refused")
  /\ UNCHANGED <<rights, objects, uploads, age, stored, gc, leaked, history>>

(* replace_object, for put and copy: the segments are adopted. *)
ReplaceObject(r) ==
  /\ \/ Job(r).op = "put" /\ Sent(r)
     \/ Job(r).op = "copy" /\ req[r].pc = "writing"
  /\ Referable(r)
  /\ PutRow(Job(r).key, r, IF Job(r).op = "put" THEN Job(r).n ELSE req[r].size,
            req[r].segments)
  /\ UNCHANGED uploads
  /\ age' = MarkUnreferenced(Adopt(req[r].segments))
  /\ End(r, "done")
  /\ UNCHANGED <<rights, stored, gc, leaked, history>>

ReplacePart(r) ==
  LET j == Job(r)
      part == [size |-> j.n, segments |-> req[r].segments]
  IN
  /\ j.op = "part" /\ Sent(r)
  /\ Referable(r)
  /\ uploads' = [uploads EXCEPT ![j.upload].parts =
       [i \in DOMAIN @ \cup {j.number} |-> IF i = j.number THEN part ELSE @[i]]]
  /\ UNCHANGED objects
  /\ age' = MarkUnreferenced(Adopt(req[r].segments))
  /\ End(r, "done")
  /\ UNCHANGED <<rights, stored, gc, leaked, history>>

CloseUpload(u) == uploads' = [uploads EXCEPT ![u] = Closed]

(* complete_multipart: the object is made of what was read; nothing is adopted, *)
(* not even what is an orphan by now.                                            *)
CompleteMultipart(r) ==
  /\ Job(r).op = "complete" /\ req[r].pc = "writing"
  /\ Referable(r)
  /\ PutRow(Job(r).key, r, req[r].size, req[r].segments)
  /\ CloseUpload(Job(r).upload)
  /\ age' = MarkUnreferenced(age)
  /\ strayed' = strayed \cup {s \in Hand(r) : age[s] # Live}
  /\ End(r, "done")
  /\ UNCHANGED <<rights, stored, gc, leaked, clashed>>

AbortMultipart(r) ==
  /\ Job(r).op = "abort" /\ req[r].pc = "writing"
  /\ CloseUpload(Job(r).upload)
  /\ UNCHANGED objects
  /\ age' = MarkUnreferenced(age)
  /\ End(r, "done")
  /\ UNCHANGED <<rights, stored, gc, leaked, history>>

(* create_multipart: every request makes an upload of its own. *)
CreateMultipart(u) ==
  /\ uploads[u].state = "new"
  /\ bucket /\ \E a \in Access : Permission(a) = "write"
  /\ uploads' = [uploads EXCEPT ![u].state = "open"]
  /\ UNCHANGED <<rights, objects, age, stored, req, gc, leaked, history>>

(* The listings under way can no longer be expected to report these keys. *)
Gone(keys, reqs) == [r \in Request |-> [reqs[r] EXCEPT !.stay = @ \ keys]]

RemoveObject(k) ==
  /\ objects' = [objects EXCEPT ![k] = Absent]
  /\ UNCHANGED uploads
  /\ age' = MarkUnreferenced(age)

(* delete_object and delete_objects: a transaction for each key. *)
DeleteObject(r) ==
  LET k == Head(req[r].left) IN
  /\ Job(r).op = "delete" /\ req[r].pc = "writing"
  /\ RemoveObject(k)
  /\ req' = Gone({k}, [req EXCEPT ![r].left = Tail(@),
                                  ![r].pc = IF Len(req[r].left) = 1 THEN "done" ELSE @])
  /\ UNCHANGED <<rights, stored, gc, leaked, history>>

----------------------------------------------------------------------------
(* Listings: page after page, until one is not truncated. *)

Follow(j, after) == {k \in Present \cap j.under : k > after}

(* ORDER BY and LIMIT: the first n of the rows. *)
FirstOf(rows, n) == {k \in rows : Cardinality({m \in rows : m < k}) < n}

NextUnseen(rows, page) == Min(rows \ page)
(* next_continuation_token: the last key of the page. *)
PageEnd(rows, page) == Max(page)

(* list_objects_v2: keys and common prefixes; one row more tells of more pages. *)
Page(r) ==
  LET j == Job(r)
      rows == Follow(j, req[r].after)
      page == FirstOf(rows, j.max)
      truncated == Cardinality(rows) > j.max
  IN
  /\ req[r].pc = "paging"
  /\ Allowed(j)
  /\ req' = [req EXCEPT ![r].seen = Append(@, {j.folder[k] : k \in page}),
                        ![r].after = IF truncated THEN PageEnd(rows, page) ELSE @,
                        ![r].pc = IF truncated THEN @ ELSE "done"]
  /\ UNCHANGED <<rights, objects, uploads, age, stored, gc, leaked, history>>

----------------------------------------------------------------------------
(* The bucket *)

Empty == Present = {} /\ \A u \in Upload : ~ IsOpen(u)

(* bucket_exists, for create_bucket; the count of delete_bucket. *)
CheckBucket(r) ==
  LET free == IF Job(r).op = "make" THEN ~ bucket ELSE Empty IN
  /\ req[r].pc = "checking"
  /\ End(r, IF free THEN "deciding" ELSE "refused")
  /\ UNCHANGED <<rights, objects, uploads, age, stored, gc, leaked, history>>

MakeBucket(r) ==
  /\ req[r].pc = "deciding" /\ Job(r).op = "make"
  /\ ~ bucket
  /\ bucket' = TRUE
  /\ grant' = [grant EXCEPT ![Job(r).by] = "write"]
  /\ End(r, "done")
  /\ UNCHANGED <<revoked, objects, uploads, age, stored, gc, leaked, history>>

(* DELETE FROM buckets, by then not empty perhaps: grants, objects and      *)
(* uploads go with it, and no segment is marked.                            *)
DropBucket(r) ==
  /\ req[r].pc = "deciding" /\ Job(r).op = "drop"
  /\ bucket' = FALSE
  /\ grant' = [a \in Access |-> "none"]
  /\ objects' = [k \in Key |-> Absent]
  /\ uploads' = [u \in Upload |-> IF IsOpen(u) THEN Closed ELSE uploads[u]]
  /\ leaked' = leaked \cup References(objects, uploads)
  /\ req' = Gone(Key, [req EXCEPT ![r].pc = "done"])
  /\ UNCHANGED <<revoked, age, stored, gc, history>>

(* streamer-s3-discord: credential grant and credential revoke. *)
Grant(a, permission) ==
  /\ bucket
  /\ grant' = [grant EXCEPT ![a] = permission]
  /\ UNCHANGED <<bucket, revoked, objects, uploads, age, stored, req, gc, leaked, history>>

Revoke(a) ==
  /\ revoked' = revoked \cup {a}
  /\ UNCHANGED <<bucket, grant, objects, uploads, age, stored, req, gc, leaked, history>>

----------------------------------------------------------------------------
(* The client disconnects or the server stops: the handler is dropped. *)
Lose(r) ==
  /\ "loss" \in Faults
  /\ Busy(r)
  /\ leaked' = IF req[r].pc = "recording"
               THEN leaked \cup {<<r, Len(req[r].segments) + 1>>} ELSE leaked
  /\ End(r, "refused")
  /\ UNCHANGED <<rights, objects, uploads, age, stored, gc, history>>

----------------------------------------------------------------------------
(* The collector *)

CollectAtOnce(s) == age[s] # NoRow /\ age[s] # Live
Collectable(s) == age[s] > Grace

(* orphaned_segments, once an hour and when the server starts. *)
List ==
  /\ gc.pc = "idle"
  /\ \E todo \in {{s \in Segment : Collectable(s)}} :
       /\ todo # {}
       /\ gc' = [gc EXCEPT !.pc = "deleting", !.todo = todo]
  /\ UNCHANGED <<rights, objects, uploads, age, stored, req, leaked, history>>

(* UploadBackend::delete; a message that is gone already counts as deleted. *)
Delete(s) ==
  /\ gc.pc = "deleting"
  /\ s \in gc.todo
  /\ \/ /\ stored' = stored \ {s}
        /\ gc' = [pc |-> "forgetting", todo |-> gc.todo \ {s}, hand |-> {s}]
     \/ /\ "delete" \in Faults
        /\ UNCHANGED stored
        /\ gc' = [gc EXCEPT !.todo = @ \ {s}, !.pc = IF gc.todo = {s} THEN "idle" ELSE @]
  /\ UNCHANGED <<rights, objects, uploads, age, req, leaked, history>>

(* The row is deleted WHERE orphaned_at IS NOT NULL. *)
Forgettable(s) == age[s] >= 0

CollectorIdle == [pc |-> "idle", todo |-> {}, hand |-> {}]

(* forget_segment: a row that is referenced cannot go; an error ends the collection. *)
Forget ==
  LET next == IF gc.todo = {} THEN "idle" ELSE "deleting" IN
  /\ gc.pc = "forgetting"
  /\ \E s \in gc.hand :
       \/ /\ \/ Forgettable(s) /\ s \in References(objects, uploads)
             \/ "database" \in Faults
          /\ UNCHANGED age
          /\ gc' = CollectorIdle
       \/ /\ ~ (Forgettable(s) /\ s \in References(objects, uploads))
          /\ age' = IF Forgettable(s) THEN [age EXCEPT ![s] = NoRow] ELSE age
          /\ gc' = [gc EXCEPT !.pc = next, !.hand = {}]
  /\ UNCHANGED <<rights, objects, uploads, stored, req, leaked, history>>

(* The server stops during a collection; the next start begins another one. *)
LoseCollector ==
  /\ "loss" \in Faults
  /\ gc.pc # "idle"
  /\ gc' = CollectorIdle
  /\ UNCHANGED <<rights, objects, uploads, age, stored, req, leaked, history>>

(* Time passes, however long a request has been under way. *)
Tick ==
  /\ \E s \in Segment : age[s] >= 0 /\ age[s] < Ancient
  /\ age' = [s \in Segment |-> IF age[s] >= 0 /\ age[s] < Ancient THEN age[s] + 1 ELSE age[s]]
  /\ strayed' = strayed \cup {s \in Segment : age'[s] > Grace /\ \E r \in Request :
                                                Busy(r) /\ s \in Hand(r)}
  /\ UNCHANGED <<rights, objects, uploads, stored, req, gc, leaked, clashed>>

----------------------------------------------------------------------------
Before == -1     \* every key

Idle == [pc |-> "new", job |-> [op |-> "none"], segments |-> <<>>, size |-> 0,
         source |-> "none", left |-> <<>>,
         after |-> Before, seen |-> <<>>, stay |-> {}]

Init ==
  /\ bucket = TRUE
  /\ grant = [a \in Access |-> IF a = Owner THEN "write" ELSE "none"]
  /\ revoked = {}
  /\ objects = [k \in Key |-> IF k \in Given THEN [Absent EXCEPT !.id = "given"] ELSE Absent]
  /\ uploads = [u \in Upload |-> [state |-> "new", parts |-> <<>>]]
  /\ age = [s \in Segment |-> NoRow]
  /\ stored = {}
  /\ req = [r \in Request |-> Idle]
  /\ gc = CollectorIdle
  /\ leaked = {}
  /\ strayed = {} /\ clashed = FALSE

Write(r) ==
  \/ ReplaceObject(r)
  \/ ReplacePart(r)
  \/ CompleteMultipart(r)
  \/ AbortMultipart(r)
  \/ DeleteObject(r)
  \/ MakeBucket(r)
  \/ DropBucket(r)

Handle(r) ==
  \/ Send(r) \/ FailSend(r) \/ Record(r) \/ FailRecord(r)
  \/ LookAtObject(r) \/ ListObject(r) \/ Deliver(r)
  \/ LookAtParts(r) \/ ListPart(r)
  \/ Page(r) \/ CheckBucket(r)
  \/ Refuse(r) \/ Write(r)

Collect == List \/ Forget \/ \E s \in gc.todo : Delete(s)

Next ==
  \/ \E r \in Request : Handle(r) \/ Lose(r) \/ \E j \in Jobs[r] : Start(r, j)
  \/ \E u \in Upload : CreateMultipart(u)
  \/ \E g \in Grants : Grant(g[1], g[2])
  \/ \E a \in Revocable : Revoke(a)
  \/ Collect \/ LoseCollector
  \/ Tick

Spec == Init /\ [][Next]_vars

(* Time passes, and the collector runs every hour; a delete that can succeed *)
(* does so in the end.  Requests may take for ever: what they wait for, a    *)
(* body or the store, has no timeout.                                        *)
Fairness ==
  /\ WF_vars(Tick)
  /\ WF_vars(List) /\ WF_vars(Forget)
  /\ \A s \in Segment : WF_vars(Delete(s))

FairSpec == Spec /\ Fairness

----------------------------------------------------------------------------
(* Properties *)

ObjectType == [id: Request \cup {"none", "given"}, size: Nat, segments: Seq(Segment)]

TypeOK ==
  /\ bucket \in BOOLEAN
  /\ grant \in [Access -> {"none", "read", "write"}] /\ revoked \subseteq Access
  /\ objects \in [Key -> ObjectType]
  /\ \A u \in Upload :
       /\ uploads[u].state \in {"new", "open", "closed"}
       /\ \A i \in DOMAIN uploads[u].parts :
            uploads[u].parts[i] \in [size: Nat, segments: Seq(Segment)]
  /\ age \in [Segment -> NoRow..Ancient]
  /\ stored \cup leaked \cup strayed \subseteq Segment /\ clashed \in BOOLEAN
  /\ \A r \in Request :
       req[r].pc \in {"new", "sending", "recording", "looking", "listing", "reading",
                      "writing", "paging", "checking", "deciding"} \cup Ended
  /\ gc.pc \in {"idle", "deleting", "forgetting"}
  /\ gc.todo \cup gc.hand \subseteq Segment

(* What an object or a part is made of can be downloaded: the collector    *)
(* (service.rs:58), which deletes messages long after it has listed them,  *)
(* never takes the message of a segment that is in use again.  So the code *)
(* means it, and it is not so; but a segment in use is lost in two ways    *)
(* only, whatever overlaps: a completion refers to it when it is an orphan *)
(* already (catalog.rs:471), or a request holds it, an orphan, for longer  *)
(* than the grace.                                                         *)
LiveStored == References(objects, uploads) \subseteq stored
LiveKept == References(objects, uploads) \ strayed \subseteq stored

(* The same for what a request is about to make an object of, or to send:  *)
(* within the grace nothing that a request holds is collected.             *)
InHandKept == \A r \in Request : Busy(r) => Hand(r) \ strayed \subseteq stored

(* An object or part has all the segments its size stands for: a reader    *)
(* that is promised size bytes (content_length) receives them.  This too   *)
(* needs that no request writes what another one reads in several steps.   *)
ObjectsWhole ==
  /\ \A k \in Key : Len(objects[k].segments) = objects[k].size
  /\ \A u \in Upload : \A i \in DOMAIN uploads[u].parts :
       Len(uploads[u].parts[i].segments) = uploads[u].parts[i].size
WholeApart == ~ clashed => ObjectsWhole

(* orphaned_at is set on the segments that nothing references, and, but    *)
(* for the strayed, on no other: whatever replaces, deletes, copies and    *)
(* aborts interleave.  Only deleting a bucket marks nothing, should it not *)
(* be empty after all.                                                     *)
OrphansExact ==
  \A s \in Segment :
    /\ s \notin leaked => (age[s] = Live => s \in References(objects, uploads))
    /\ s \notin strayed => (s \in References(objects, uploads) => age[s] = Live)

(* Every message has a row by which it will be collected, while no handler *)
(* has it in hand; but for those that a failing store, or a handler lost   *)
(* between the store's answer and the row, left behind.                    *)
NoLeak ==
  \A s \in stored \ leaked :
    \/ age[s] # NoRow
    \/ req[s[1]].pc = "recording" /\ s[2] = Len(req[s[1]].segments) + 1

(* What nothing references is used again or gone in the end: storage does  *)
(* not fill up with the remains of replaced, deleted and failed uploads.   *)
Collected ==
  \A s \in Segment :
    (age[s] # NoRow /\ s \notin References(objects, uploads) \cup leaked)
      ~> (age[s] = NoRow \/ s \in References(objects, uploads))

(* A bucket that is deleted leaves no grants, objects or uploads behind, not *)
(* even those of requests that its deletion overtakes: who makes it again    *)
(* finds it empty.                                                           *)
GoneIsEmpty ==
  ~ bucket =>
    /\ Empty
    /\ \A a \in Access : grant[a] = "none"

(* Whatever is put and deleted between its pages, a listing reports the keys *)
(* that were there all the time exactly once, by themselves or by their      *)
(* common prefix, and none of the others twice.                              *)
ListedOnce ==
  \A r \in Request : Job(r).op = "list" =>
    LET j == Job(r)
        pages(e) == {i \in DOMAIN req[r].seen : e \in req[r].seen[i]}
        itself(k) == j.folder[k] = k
    IN
    /\ \A k \in Key : itself(k) => Cardinality(pages(k)) <= 1
    /\ req[r].pc = "done" => \A k \in req[r].stay : pages(j.folder[k]) # {}
============================================================================
