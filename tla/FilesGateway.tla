---------------------------- MODULE FilesGateway ----------------------------
(***************************************************************************)
(* files-gateway: the uploads, the completion and the downloads of one     *)
(* file (lib.rs) on its SQLite catalog (catalog.rs) and the message store  *)
(* behind UploadBackend.  No statement of the catalog touches two files.   *)
(*                                                                         *)
(* Handlers run concurrently and meet in the catalog: a transaction is one *)
(* action, and everything between two awaited calls belongs to the first.  *)
(* A handler whose client disconnects is dropped where it waits; a crash   *)
(* loses every handler, and connect() clears the pending reservations.     *)
(*                                                                         *)
(* Sized, StoreLater, FailUploadAndKeep, FitsAlone, ClearedBlindly,        *)
(* FailAttachAndLeave and HasFirst are not part of the specification: each *)
(* is a defective variant of the definition that follows it, and shows     *)
(* that a property below notices the defect.                               *)
(***************************************************************************)
EXTENDS Integers, FiniteSets, Functions

CONSTANTS
  Request,      \* the PUT requests; a request is its segment's id as well
  Index,        \* segment indices the clients use
  Size,         \* plaintext sizes of segments
  Allocations,  \* expected_size of the file, as clients ask for it
  MaxFileSize,  \* max_file_size
  Payload,      \* frame_size - TAG_SIZE
  Faults        \* what may go wrong, a subset of FaultKinds

FaultKinds == {"upload", "delete", "database", "drop", "crash"}

ASSUME GatewayAssumption ==
  /\ Index \subseteq Nat /\ Index # {} /\ Size \subseteq Nat \ {0} /\ Size # {}
  /\ Allocations \subseteq Nat /\ MaxFileSize \in Nat
  /\ Payload \in Nat \ {0}
  /\ Faults \subseteq FaultKinds
  /\ Request \cap {"free", "pending"} = {}

VARIABLES
  file,         \* the row of table files: expected size and completed size
  rows,         \* file_segments: free, pending, or the segment of a request
  stored,       \* segments whose message exists in the store
  req,          \* the upload handlers
  get,          \* one download handler
  leaked        \* history: segments whose handler was lost or failed to clean up

vars == <<file, rows, stored, req, get, leaked>>

NoFile == [expected |-> -1, size |-> -1]
Exists == file.expected # -1
Sized == Exists
Completed == file.size # -1

AttachedAt(table) == {i \in Index : table[i] \in Request}
SizeAt(i) == req[rows[i]].size
Used == SumFunction([i \in AttachedAt(rows) |-> SizeAt(i)])
PendingAt(i) == rows[i] = "pending"

(* A handler waits for the store or the catalog, its reservation taken. *)
InFlight == {"uploading", "attaching", "deleting", "cancelling"}
Flying(r) == req[r].pc \in InFlight

Goto(r, pc) == req' = [req EXCEPT ![r].pc = pc]

----------------------------------------------------------------------------
(* create_file: the size must be within the limit and the name not empty. *)
Acceptable(n, named) == n <= MaxFileSize /\ named

CreateFile(n, named) ==
  /\ ~ Exists
  /\ Acceptable(n, named)
  /\ file' = [NoFile EXCEPT !.expected = n]
  /\ UNCHANGED <<rows, stored, req, get, leaked>>

(* 413 or 400. *)
RefuseCreate(n, named) ==
  /\ ~ Acceptable(n, named)
  /\ UNCHANGED vars

(* upload_segment up to reserve_segment: a missing or completed file, or an *)
(* index that has a row, refuses the request.                               *)
Reserve(r, i, n) ==
  /\ req[r].pc = "new"
  /\ LET granted == Exists /\ ~ Completed /\ rows[i] = "free" IN
     /\ rows' = IF granted THEN [rows EXCEPT ![i] = "pending"] ELSE rows
     /\ req' = [req EXCEPT ![r] = [pc |-> IF granted THEN "uploading" ELSE "refused",
                                   index |-> i, size |-> n]]
  /\ UNCHANGED <<file, stored, get, leaked>>

(* The transaction of reserve_segment fails: nothing is reserved. *)
FailReserve(r, i, n) ==
  /\ "database" \in Faults
  /\ req[r].pc = "new"
  /\ req' = [req EXCEPT ![r] = [pc |-> "refused", index |-> i, size |-> n]]
  /\ UNCHANGED <<file, rows, stored, get, leaked>>

StoreLater(r) ==
  /\ req[r].pc = "uploading"
  /\ Goto(r, "attaching")
  /\ UNCHANGED <<file, rows, stored, get, leaked>>

(* ByteUpload::upload returns the stored object. *)
Store(r) ==
  /\ req[r].pc = "uploading"
  /\ stored' = stored \cup {r}
  /\ Goto(r, "attaching")
  /\ UNCHANGED <<file, rows, get, leaked>>

FailUploadAndKeep(r) ==
  /\ "upload" \in Faults
  /\ req[r].pc = "uploading"
  /\ Goto(r, "refused")
  /\ UNCHANGED <<file, rows, stored, get, leaked>>

(* It returns an error; the message may exist all the same. *)
FailUpload(r) ==
  /\ "upload" \in Faults
  /\ req[r].pc = "uploading"
  /\ \/ UNCHANGED <<stored, leaked>>
     \/ stored' = stored \cup {r} /\ leaked' = leaked \cup {r}
  /\ Goto(r, "cancelling")
  /\ UNCHANGED <<file, rows, get>>

(* attach_segment counts what is attached already, not what is reserved. *)
FitsAlone(r) == req[r].size <= file.expected
Fits(r) == Used + req[r].size <= file.expected

ClearedBlindly(i) == [rows EXCEPT ![i] = "free"]
Cleared(i) == IF PendingAt(i) THEN [rows EXCEPT ![i] = "free"] ELSE rows

Attach(r) ==
  /\ req[r].pc = "attaching"
  /\ LET i == req[r].index IN
     IF Completed
     THEN Goto(r, "deleting") /\ UNCHANGED rows
     ELSE IF ~ Fits(r)
     THEN Goto(r, "deleting") /\ rows' = Cleared(i)
     ELSE IF PendingAt(i)
     THEN Goto(r, "created") /\ rows' = [rows EXCEPT ![i] = r]
     ELSE Goto(r, "deleting") /\ UNCHANGED rows
  /\ UNCHANGED <<file, stored, get, leaked>>

FailAttachAndLeave(r) ==
  /\ "database" \in Faults
  /\ req[r].pc = "attaching"
  /\ Goto(r, "cancelling")
  /\ UNCHANGED <<file, rows, stored, get, leaked>>

(* The transaction fails, for instance because the database stays locked. *)
FailAttach(r) ==
  /\ "database" \in Faults
  /\ req[r].pc = "attaching"
  /\ Goto(r, "deleting")
  /\ UNCHANGED <<file, rows, stored, get, leaked>>

(* The message of a segment that was not attached; errors are ignored. *)
Delete(r) ==
  /\ req[r].pc = "deleting"
  /\ \/ stored' = stored \ {r} /\ UNCHANGED leaked
     \/ "delete" \in Faults /\ leaked' = leaked \cup {r} /\ UNCHANGED stored
  /\ Goto(r, "cancelling")
  /\ UNCHANGED <<file, rows, get>>

(* cancel_reservation: whatever reservation the index has by now. *)
CancelReservation(r) ==
  /\ req[r].pc = "cancelling"
  /\ \/ rows' = Cleared(req[r].index) /\ UNCHANGED leaked
     \/ "database" \in Faults /\ leaked' = leaked \cup {r} /\ UNCHANGED rows
  /\ Goto(r, "refused")
  /\ UNCHANGED <<file, stored, get>>

(* The handlers in R are gone; what they asked of the store may be done. *)
Lose(R) ==
  /\ req' = [r \in Request |-> IF r \in R THEN [req[r] EXCEPT !.pc = "lost"] ELSE req[r]]
  /\ \E posted \in SUBSET {r \in R : req[r].pc = "uploading"},
        erased \in SUBSET {r \in R : req[r].pc = "deleting"} :
       stored' = (stored \cup posted) \ erased
  /\ leaked' = leaked \cup R

Drop(r) ==
  /\ "drop" \in Faults
  /\ Flying(r)
  /\ Lose({r})
  /\ UNCHANGED <<file, rows, get>>

(* The process dies; the next one runs Catalog::connect. *)
Restart ==
  /\ "crash" \in Faults
  /\ \E r \in Request : Flying(r)
  /\ Lose({r \in Request : Flying(r)})
  /\ rows' = [i \in Index |-> IF PendingAt(i) THEN "free" ELSE rows[i]]
  /\ get' = [get EXCEPT !.pc = "off"]
  /\ UNCHANGED file

(* The checks of catalog.rs complete_file. *)
HasFirst == AttachedAt(rows) = {} \/ 0 \in AttachedAt(rows)
GapFree == \A i \in AttachedAt(rows) : \A j \in 0..i : j \in AttachedAt(rows)
FrameAligned ==
  \A i \in AttachedAt(rows) : (\E j \in AttachedAt(rows) : j > i) => SizeAt(i) % Payload = 0

Completable ==
  /\ \A i \in Index : ~ PendingAt(i)
  /\ GapFree /\ FrameAligned
  /\ Used <= file.expected

Complete ==
  /\ Exists /\ ~ Completed
  /\ Completable
  /\ file' = [file EXCEPT !.size = Used]
  /\ UNCHANGED <<rows, stored, req, get, leaked>>

(* completed_file reads the file's row and its segments in two queries. *)
OpenDownload ==
  /\ Completed
  /\ get.pc = "off"
  /\ get' = [pc |-> "sized", size |-> file.size, objects |-> <<>>]
  /\ UNCHANGED <<file, rows, stored, req, leaked>>

ListObjects ==
  /\ get.pc = "sized"
  /\ get' = [get EXCEPT !.pc = "open",
                        !.objects = [i \in AttachedAt(rows) |-> rows[i]]]
  /\ UNCHANGED <<file, rows, stored, req, leaked>>

----------------------------------------------------------------------------
Init ==
  /\ file = NoFile
  /\ rows = [i \in Index |-> "free"]
  /\ stored = {}
  /\ req = [r \in Request |-> [pc |-> "new", index |-> CHOOSE i \in Index : TRUE,
                                            size |-> CHOOSE n \in Size : TRUE]]
  /\ get = [pc |-> "off", size |-> 0, objects |-> <<>>]
  /\ leaked = {}

(* What a handler does in the catalog. *)
Settle(r) == Attach(r) \/ FailAttach(r) \/ CancelReservation(r)

Handle(r) == Store(r) \/ FailUpload(r) \/ Delete(r) \/ Settle(r)

Next ==
  \/ \E n \in Allocations, named \in BOOLEAN : CreateFile(n, named) \/ RefuseCreate(n, named)
  \/ \E r \in Request :
       \/ \E i \in Index, n \in Size : Reserve(r, i, n) \/ FailReserve(r, i, n)
       \/ Handle(r)
       \/ Drop(r)
  \/ Restart
  \/ Complete
  \/ OpenDownload
  \/ ListObjects

Spec == Init /\ [][Next]_vars

(* A statement of the catalog returns: SQLite gives up a lock after its     *)
(* busy timeout.  Nothing bounds how long a handler waits for the body of   *)
(* its client or for an answer of the store, so no fairness is assumed of   *)
(* those.                                                                   *)
FairSpec == Spec /\ \A r \in Request : WF_vars(Settle(r))

----------------------------------------------------------------------------
(* Properties *)

TypeOK ==
  /\ file.expected \in Allocations \cup {-1} /\ file.size \in -1..file.expected
  /\ rows \in [Index -> Request \cup {"free", "pending"}]
  /\ stored \subseteq Request /\ leaked \subseteq Request
  /\ req \in [Request -> [pc: InFlight \cup {"new", "created", "refused", "lost"},
                          index: Index, size: Size]]
  /\ get.pc \in {"off", "sized", "open"} /\ get.size \in Nat
  /\ DOMAIN get.objects \subseteq Index

(* The gateway implements SegmentedFile: whatever the interleaving of       *)
(* uploads, clean-ups, losses and restarts, segments are only ever added,   *)
(* within the allocation, and a completed file is contiguous, aligned and   *)
(* final.                                                                   *)
File == INSTANCE SegmentedFile WITH
  Segment    <- Request,
  allocation <- file.expected,
  attached   <- [i \in AttachedAt(rows) |-> [id |-> rows[i], size |-> SizeAt(i)]],
  sealed     <- Completed
ImplementsFile == File!Spec

(* The answer given to a client is true for ever: 201 if and only if the    *)
(* segment is part of the file (lib.rs:201), even after a restart.          *)
AnswersHold ==
  \A r \in Request : req[r].pc = "created" <=> \E i \in Index : rows[i] = r

(* What the catalog points at exists: the clean-up of one handler           *)
(* (lib.rs:193) never deletes the message of an attached segment.           *)
AttachedStored ==
  \A i \in AttachedAt(rows) : rows[i] \in stored

(* No message is left in the store without a segment, once its handler has  *)
(* answered, unless the handler was lost or its clean-up failed.            *)
NoOrphans ==
  \A r \in stored \ leaked : Flying(r) \/ req[r].pc = "created"

(* The size and the objects of a download are read apart; they agree.       *)
DownloadsAgree ==
  get.pc = "open" =>
    /\ get.size = SumFunction([i \in DOMAIN get.objects |-> req[get.objects[i]].size])
    /\ DOMAIN get.objects = 0..(Cardinality(DOMAIN get.objects) - 1)

(* A reservation is attached or given up in the end.  One that stays taken  *)
(* for ever, and keeps the file from being completed, has a handler that    *)
(* waits for its client's body or for the store for ever (lib.rs:171), or   *)
(* it had one that was lost or failed to clean up (lib.rs:186): no order of *)
(* uploads, refusals and failures loses one otherwise.                      *)
Waiting(i) == \E r \in Request : req[r].pc \in {"uploading", "deleting"} /\ req[r].index = i

ReservationSettles ==
  \A i \in Index :
    PendingAt(i) ~>
      \/ ~ PendingAt(i) \/ \E r \in leaked : req[r].index = i
      \/ []Waiting(i)

(* catalog.rs:347 and the test of lib.rs:798: completion is refused while   *)
(* a segment upload is in progress.                                         *)
NoFinalizeDuringUpload ==
  [][~ Completed /\ Completed' =>
       \A r \in Request : req[r].pc \notin {"uploading", "attaching"}]_vars
============================================================================
